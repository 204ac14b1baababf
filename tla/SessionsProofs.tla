--------------------------- MODULE SessionsProofs ---------------------------
(***************************************************************************)
(* Sessions under one id, for any number of requests of any kind, and any  *)
(* number of daemons that replace each other.                              *)
(***************************************************************************)
EXTENDS Sessions, TLAPS

TmuxSteps    == {"reserve", "create", "configure", "track", "go", "cleanup", "untrack",
                 "abort", "unlock"}
ProcessSteps == {"take", "isolate", "store", "gate", "check", "giveBack"}
Unlaunched   == {"idle", "take", "isolate", "giveBack"}

\* Where a request of each kind can be, and what it has looked up.
LabelInv ==
  /\ \A r \in Requests :
       /\ pc[r] \in TmuxSteps => kind[r] = "tmux"
       /\ pc[r] \in ProcessSteps => kind[r] = "process"
       /\ pc[r] \in {"load", "waiting"} => kind[r] = "wait"
       /\ pc[r] \in {"kill", "forget"} => kind[r] = "stop"
       /\ pc[r] \in {"idle", "kill", "forget"} => goal[r] = None
       /\ pc[r] = "forget" => \E s \in Requests : kind[s] = "tmux"
       /\ result[r] # "none" => pc[r] \in {"unlock", "abort", "done"}
  /\ tmux # None => kind[tmux] = "tmux"
  /\ procOf # None => kind[procOf] = "process"

\* The process of a session, its cgroup, its stop and the map.
ShellInv ==
  /\ \A r \in Requests :
       /\ pc[r] \in Unlaunched => shell[r] = "none"
       /\ pc[r] = "store" =>
            shell[r] = "gated" /\ cgroup = r /\ stopPC[r] = "none" /\ procOf # r
       /\ shell[r] = "none" => stopPC[r] = "none" /\ cgroup # r /\ procOf # r
       /\ shell[r] \in {"gated", "alive"} => cgroup = r /\ (pc[r] = "store" \/ procOf = r)
       /\ stopPC[r] \in {"begin", "grace", "kill", "final"} => cgroup = r
       /\ stopPC[r] \in {"release", "delete", "stopped"} => cgroup # r
       /\ stopPC[r] \in {"final", "release", "delete", "stopped"} => shell[r] = "dead"
  /\ procOf # None =>
       cgroup = procOf \/ stopPC[procOf] \in {"release", "delete", "stopped"}

\* Process starts and sessions that count on the reservation, from taking it
\* to giving it back; and tmux starts that do.
Holds(r) == pc[r] \in {"isolate", "giveBack"} \/ cgroup = r \/ stopPC[r] = "release"
TmuxHolds(r) == pc[r] \in TmuxSteps \ {"reserve", "unlock"}

\* While nobody releases the id for another, it is reserved for whom it should,
\* and a process start that has seen no tmux session is safe from a later one.
Calm == AllProcess \/ Undisturbed
ReservedInv ==
  /\ Calm =>
       /\ \A r \in Requests : Holds(r) => reserved = "process"
       /\ \A r, s \in Requests : Holds(r) /\ Holds(s) => r = s
       /\ \A r \in Requests : TmuxHolds(r) => reserved = "tmux"
  /\ Undisturbed /\ tmux # None =>
       \A r \in Requests : ~Holds(r) /\ (pc[r] = "take" => reserved = "tmux")

\* What was let go is known to its start, unless that was cancelled.
RanInv ==
  \A r \in ran : \/ r \in ctxDone \/ pc[r] = "check"
                 \/ pc[r] \in {"unlock", "done"} /\ result[r] \in {"ok", "lost"}

SessionInv ==
  /\ TypeOK /\ LabelInv /\ ShellInv /\ ReservedInv /\ RanInv
  /\ StoppedIsDead /\ NoStrandedWait

-----------------------------------------------------------------------------
(* Steps of requests, stop goroutines and processes: one lemma per part    *)

LEMMA StepTypes ==
  ASSUME SessionInv, NEW r \in Requests, \/ StartStep(r) \/ StopStep(r) \/ Stopper(r) \/ WaitStep(r)
         \/ WaiterSignalled(r) \/ ShellExits(r) \/ PaneExits(r) \/ Cancel(r)
  PROVE  TypeOK'
<1> USE NoneAssumption, KindsAssumption DEF SessionInv, TypeOK, RequestPC, StopPC, OrNone
<1>1. CASE TmuxLock(r)
  BY <1>1 DEF TmuxLock, Goto, processVars, tmuxVars
<1>2. CASE TmuxReserve(r)
  BY <1>2 DEF TmuxReserve, Goto, processVars, tmuxVars
<1>3. CASE TmuxCreate(r)
  BY <1>3 DEF TmuxCreate, Goto, mapVars, processVars, tmuxVars
<1>4. CASE TmuxConfigure(r)
  BY <1>4 DEF TmuxConfigure, Goto, mapVars, processVars
<1>5. CASE TmuxTrack(r)
  BY <1>5 DEF TmuxTrack, Goto, processVars, tmuxVars
<1>6. CASE TmuxGo(r)
  BY <1>6 DEF TmuxGo, Goto, LetGo, mapVars, processVars
<1>7. CASE TmuxCleanup(r)
  BY <1>7 DEF TmuxCleanup, Goto, mapVars, processVars
<1>8. CASE TmuxUntrack(r)
  BY <1>8 DEF TmuxUntrack, Goto, RemoveState, processVars, tmuxVars, LabelInv
<1>9. CASE TmuxAbort(r)
  BY <1>9 DEF TmuxAbort, Goto, processVars, tmuxVars
<1>10. CASE TmuxUnlock(r)
  BY <1>10 DEF TmuxUnlock, Goto, processVars, tmuxVars
<1>11. CASE ProcessCheck(r)
  BY <1>11 DEF ProcessCheck, Goto, Finish, mapVars, processVars, tmuxVars
<1>12. CASE ProcessReserve(r)
  BY <1>12 DEF ProcessReserve, Goto, Finish, processVars, tmuxVars
<1>13. CASE ProcessLaunch(r)
  BY <1>13 DEF ProcessLaunch, Goto, mapVars, tmuxVars
<1>14. CASE ProcessGiveBack(r)
  BY <1>14 DEF ProcessGiveBack, Goto, Finish, processVars, tmuxVars
<1>15. CASE ProcessStore(r)
  BY <1>15 DEF ProcessStore, Goto, processVars, tmuxVars
<1>16. CASE ProcessGate(r)
  BY <1>16 DEF ProcessGate, Goto, Finish, BeginStop, StopNamed, mapVars,
       tmuxVars
<1>17. CASE ProcessConfirm(r)
  BY <1>17 DEF ProcessConfirm, Goto, Finish, BeginStop, StopNamed, mapVars,
       tmuxVars
<1>18. CASE StopLook(r)
  BY <1>18 DEF StopLook, Goto, BeginStop, mapVars, tmuxVars
<1>19. CASE StopWait(r)
  BY <1>19 DEF StopWait, Goto, Finish, mapVars, processVars, tmuxVars
<1>20. CASE StopKill(r)
  BY <1>20 DEF StopKill, Goto, Finish, mapVars, processVars
<1>21. CASE StopForget(r)
  BY <1>21 DEF StopForget, Goto, Finish, RemoveState, processVars, tmuxVars
<1>22. CASE StopTerminate(r)
  BY <1>22 DEF StopTerminate, StopGoto, requestVars, mapVars, tmuxVars
<1>23. CASE StopGrace(r)
  BY <1>23 DEF StopGrace, StopGoto, requestVars, mapVars, tmuxVars
<1>24. CASE StopCgroup(r)
  BY <1>24 DEF StopCgroup, StopGoto, requestVars, mapVars, tmuxVars
<1>25. CASE StopRemoveCgroup(r)
  BY <1>25 DEF StopRemoveCgroup, StopGoto, requestVars, mapVars, tmuxVars
<1>26. CASE StopRelease(r)
  BY <1>26 DEF StopRelease, StopGoto, requestVars, tmuxVars
<1>27. CASE StopDelete(r)
  BY <1>27 DEF StopDelete, StopGoto, requestVars, tmuxVars
<1>28. CASE WaitLook(r)
  BY <1>28 DEF WaitLook, Goto, Finish, mapVars, processVars, tmuxVars
<1>29. CASE WaitLoad(r)
  BY <1>29 DEF WaitLoad, Goto, processVars, tmuxVars
<1>30. CASE WaitReturn(r)
  BY <1>30 DEF WaitReturn, Goto, Finish, mapVars, processVars, tmuxVars
<1>31. CASE WaiterSignalled(r)
  BY <1>31 DEF WaiterSignalled, requestVars, processVars, tmuxVars
<1>32. CASE ShellExits(r)
  BY <1>32 DEF ShellExits, requestVars, mapVars, tmuxVars
<1>33. CASE PaneExits(r)
  BY <1>33 DEF PaneExits, requestVars, mapVars, processVars
<1>34. CASE Cancel(r)
  BY <1>34 DEF Cancel, mapVars, processVars, tmuxVars
<1> QED
  BY <1>1, <1>2, <1>3, <1>4, <1>5, <1>6, <1>7, <1>8, <1>9, <1>10, <1>11,
     <1>12, <1>13, <1>14, <1>15, <1>16, <1>17, <1>18, <1>19, <1>20, <1>21,
     <1>22, <1>23, <1>24, <1>25, <1>26, <1>27, <1>28, <1>29, <1>30, <1>31,
     <1>32, <1>33, <1>34
     DEF StartStep, StopStep, Stopper, WaitStep

LEMMA StepLabels ==
  ASSUME SessionInv, NEW r \in Requests, \/ StartStep(r) \/ StopStep(r) \/ Stopper(r) \/ WaitStep(r)
         \/ WaiterSignalled(r) \/ ShellExits(r) \/ PaneExits(r) \/ Cancel(r)
  PROVE  LabelInv'
<1> USE NoneAssumption, KindsAssumption DEF SessionInv, TypeOK, RequestPC, OrNone, LabelInv, TmuxSteps, ProcessSteps
<1>1. CASE TmuxLock(r)
  BY <1>1 DEF TmuxLock, Goto, processVars, tmuxVars
<1>2. CASE TmuxReserve(r)
  BY <1>2 DEF TmuxReserve, Goto, processVars, tmuxVars
<1>3. CASE TmuxCreate(r)
  BY <1>3 DEF TmuxCreate, Goto, mapVars, processVars, tmuxVars
<1>4. CASE TmuxConfigure(r)
  BY <1>4 DEF TmuxConfigure, Goto, mapVars, processVars
<1>5. CASE TmuxTrack(r)
  BY <1>5 DEF TmuxTrack, Goto, processVars, tmuxVars
<1>6. CASE TmuxGo(r)
  BY <1>6 DEF TmuxGo, Goto, LetGo, mapVars, processVars
<1>7. CASE TmuxCleanup(r)
  BY <1>7 DEF TmuxCleanup, Goto, mapVars, processVars
<1>8. CASE TmuxUntrack(r)
  BY <1>8 DEF TmuxUntrack, Goto, RemoveState, processVars, tmuxVars
<1>9. CASE TmuxAbort(r)
  BY <1>9 DEF TmuxAbort, Goto, processVars, tmuxVars
<1>10. CASE TmuxUnlock(r)
  BY <1>10 DEF TmuxUnlock, Goto, processVars, tmuxVars
<1>11. CASE ProcessCheck(r)
  BY <1>11 DEF ProcessCheck, Goto, Finish, mapVars, processVars, tmuxVars
<1>12. CASE ProcessReserve(r)
  BY <1>12 DEF ProcessReserve, Goto, Finish, processVars, tmuxVars
<1>13. CASE ProcessLaunch(r)
  BY <1>13 DEF ProcessLaunch, Goto, mapVars, tmuxVars
<1>14. CASE ProcessGiveBack(r)
  BY <1>14 DEF ProcessGiveBack, Goto, Finish, processVars, tmuxVars
<1>15. CASE ProcessStore(r)
  BY <1>15 DEF ProcessStore, Goto, processVars, tmuxVars
<1>16. CASE ProcessGate(r)
  BY <1>16 DEF ProcessGate, Goto, Finish, BeginStop, StopNamed, mapVars,
       tmuxVars
<1>17. CASE ProcessConfirm(r)
  BY <1>17 DEF ProcessConfirm, Goto, Finish, BeginStop, StopNamed, mapVars,
       tmuxVars
<1>18. CASE StopLook(r)
  BY <1>18 DEF StopLook, Goto, BeginStop, mapVars, tmuxVars
<1>19. CASE StopWait(r)
  BY <1>19 DEF StopWait, Goto, Finish, mapVars, processVars, tmuxVars
<1>20. CASE StopKill(r)
  BY <1>20 DEF StopKill, Goto, Finish, mapVars, processVars
<1>21. CASE StopForget(r)
  BY <1>21 DEF StopForget, Goto, Finish, RemoveState, processVars, tmuxVars
<1>22. CASE StopTerminate(r)
  BY <1>22 DEF StopTerminate, StopGoto, requestVars, mapVars, tmuxVars
<1>23. CASE StopGrace(r)
  BY <1>23 DEF StopGrace, StopGoto, requestVars, mapVars, tmuxVars
<1>24. CASE StopCgroup(r)
  BY <1>24 DEF StopCgroup, StopGoto, requestVars, mapVars, tmuxVars
<1>25. CASE StopRemoveCgroup(r)
  BY <1>25 DEF StopRemoveCgroup, StopGoto, requestVars, mapVars, tmuxVars
<1>26. CASE StopRelease(r)
  BY <1>26 DEF StopRelease, StopGoto, requestVars, tmuxVars
<1>27. CASE StopDelete(r)
  BY <1>27 DEF StopDelete, StopGoto, requestVars, tmuxVars
<1>28. CASE WaitLook(r)
  BY <1>28 DEF WaitLook, Goto, Finish, mapVars, processVars, tmuxVars
<1>29. CASE WaitLoad(r)
  BY <1>29 DEF WaitLoad, Goto, processVars, tmuxVars
<1>30. CASE WaitReturn(r)
  BY <1>30 DEF WaitReturn, Goto, Finish, mapVars, processVars, tmuxVars
<1>31. CASE WaiterSignalled(r)
  BY <1>31 DEF WaiterSignalled, requestVars, processVars, tmuxVars
<1>32. CASE ShellExits(r)
  BY <1>32 DEF ShellExits, requestVars, mapVars, tmuxVars
<1>33. CASE PaneExits(r)
  BY <1>33 DEF PaneExits, requestVars, mapVars, processVars
<1>34. CASE Cancel(r)
  BY <1>34 DEF Cancel, mapVars, processVars, tmuxVars
<1> QED
  BY <1>1, <1>2, <1>3, <1>4, <1>5, <1>6, <1>7, <1>8, <1>9, <1>10, <1>11,
     <1>12, <1>13, <1>14, <1>15, <1>16, <1>17, <1>18, <1>19, <1>20, <1>21,
     <1>22, <1>23, <1>24, <1>25, <1>26, <1>27, <1>28, <1>29, <1>30, <1>31,
     <1>32, <1>33, <1>34
     DEF StartStep, StopStep, Stopper, WaitStep

\* A session is stopped once, and only begins to be.
LEMMA StopBegins ==
  ASSUME SessionInv, procOf # None, BeginStop(procOf)
  PROVE  /\ procOf \in Requests /\ shell[procOf] # "none"
         /\ \A s \in Requests :
              stopPC'[s] = IF s = procOf /\ stopPC[s] = "none" THEN "begin" ELSE stopPC[s]
BY NoneAssumption DEF SessionInv, TypeOK, OrNone, ShellInv, BeginStop

LEMMA StepShells ==
  ASSUME SessionInv, NEW r \in Requests, \/ StartStep(r) \/ StopStep(r) \/ Stopper(r) \/ WaitStep(r)
         \/ WaiterSignalled(r) \/ ShellExits(r) \/ PaneExits(r) \/ Cancel(r)
  PROVE  ShellInv'
<1> USE NoneAssumption, KindsAssumption DEF SessionInv, TypeOK, RequestPC, StopPC, OrNone, ShellInv, Unlaunched
<1>1. CASE TmuxLock(r)
  BY <1>1 DEF TmuxLock, Goto, processVars, tmuxVars
<1>2. CASE TmuxReserve(r)
  BY <1>2 DEF TmuxReserve, Goto, processVars, tmuxVars
<1>3. CASE TmuxCreate(r)
  BY <1>3 DEF TmuxCreate, Goto, mapVars, processVars, tmuxVars
<1>4. CASE TmuxConfigure(r)
  BY <1>4 DEF TmuxConfigure, Goto, mapVars, processVars
<1>5. CASE TmuxTrack(r)
  BY <1>5 DEF TmuxTrack, Goto, processVars, tmuxVars
<1>6. CASE TmuxGo(r)
  BY <1>6 DEF TmuxGo, Goto, LetGo, mapVars, processVars
<1>7. CASE TmuxCleanup(r)
  BY <1>7 DEF TmuxCleanup, Goto, mapVars, processVars
<1>8. CASE TmuxUntrack(r)
  BY <1>8 DEF TmuxUntrack, Goto, RemoveState, processVars, tmuxVars
<1>9. CASE TmuxAbort(r)
  BY <1>9 DEF TmuxAbort, Goto, processVars, tmuxVars
<1>10. CASE TmuxUnlock(r)
  BY <1>10 DEF TmuxUnlock, Goto, processVars, tmuxVars
<1>11. CASE ProcessCheck(r)
  BY <1>11 DEF ProcessCheck, Goto, Finish, mapVars, processVars, tmuxVars
<1>12. CASE ProcessReserve(r)
  BY <1>12 DEF ProcessReserve, Goto, Finish, processVars, tmuxVars
<1>13. CASE ProcessLaunch(r)
  BY <1>13 DEF ProcessLaunch, Goto, mapVars, tmuxVars
<1>14. CASE ProcessGiveBack(r)
  BY <1>14 DEF ProcessGiveBack, Goto, Finish, processVars, tmuxVars
<1>15. CASE ProcessStore(r)
  BY <1>15 DEF ProcessStore, Goto, processVars, tmuxVars
<1>16. CASE ProcessGate(r)
  <2>1. UNCHANGED <<mapVars, cgroup>> /\ pc[r] \in {"gate", "check", "idle"} /\ (pc[r] = "idle" => kind[r] = "stop")
    BY <1>16 DEF ProcessGate
  <2>2. \/ procOf # None /\ BeginStop(procOf) /\ shell' = shell
        \/ stopPC' = stopPC /\ shell' = shell
        \/ stopPC' = stopPC /\ shell[r] = "gated" /\ shell' = [shell EXCEPT ![r] = "alive"]
    BY <1>16 DEF ProcessGate, StopNamed
  <2>3. \E l \in {"check", "kill", "stopping", "done"} : pc' = [pc EXCEPT ![r] = l]
    BY <1>16 DEF ProcessGate, StopNamed, Goto, Finish
  <2> QED BY <2>1, <2>2, <2>3, StopBegins DEF mapVars, LabelInv
<1>17. CASE ProcessConfirm(r)
  <2>1. UNCHANGED <<mapVars, cgroup>> /\ pc[r] \in {"gate", "check", "idle"} /\ (pc[r] = "idle" => kind[r] = "stop")
    BY <1>17 DEF ProcessConfirm
  <2>2. \/ procOf # None /\ BeginStop(procOf) /\ shell' = shell
        \/ stopPC' = stopPC /\ shell' = shell
        \/ stopPC' = stopPC /\ shell[r] = "gated" /\ shell' = [shell EXCEPT ![r] = "alive"]
    BY <1>17 DEF ProcessConfirm, StopNamed
  <2>3. \E l \in {"check", "kill", "stopping", "done"} : pc' = [pc EXCEPT ![r] = l]
    BY <1>17 DEF ProcessConfirm, StopNamed, Goto, Finish
  <2> QED BY <2>1, <2>2, <2>3, StopBegins DEF mapVars, LabelInv
<1>18. CASE StopLook(r)
  <2>1. UNCHANGED <<mapVars, cgroup>> /\ pc[r] \in {"gate", "check", "idle"} /\ (pc[r] = "idle" => kind[r] = "stop")
    BY <1>18 DEF StopLook
  <2>2. \/ procOf # None /\ BeginStop(procOf) /\ shell' = shell
        \/ stopPC' = stopPC /\ shell' = shell
        \/ stopPC' = stopPC /\ shell[r] = "gated" /\ shell' = [shell EXCEPT ![r] = "alive"]
    BY <1>18 DEF StopLook, StopNamed
  <2>3. \E l \in {"check", "kill", "stopping", "done"} : pc' = [pc EXCEPT ![r] = l]
    BY <1>18 DEF StopLook, StopNamed, Goto, Finish
  <2> QED BY <2>1, <2>2, <2>3, StopBegins DEF mapVars, LabelInv
<1>19. CASE StopWait(r)
  BY <1>19 DEF StopWait, Goto, Finish, mapVars, processVars, tmuxVars
<1>20. CASE StopKill(r)
  BY <1>20 DEF StopKill, Goto, Finish, mapVars, processVars
<1>21. CASE StopForget(r)
  BY <1>21 DEF StopForget, Goto, Finish, RemoveState, processVars, tmuxVars
<1>22. CASE StopTerminate(r)
  BY <1>22 DEF StopTerminate, StopGoto, requestVars, mapVars, tmuxVars
<1>23. CASE StopGrace(r)
  BY <1>23 DEF StopGrace, StopGoto, requestVars, mapVars, tmuxVars
<1>24. CASE StopCgroup(r)
  BY <1>24 DEF StopCgroup, StopGoto, requestVars, mapVars, tmuxVars
<1>25. CASE StopRemoveCgroup(r)
  BY <1>25 DEF StopRemoveCgroup, StopGoto, requestVars, mapVars, tmuxVars
<1>26. CASE StopRelease(r)
  BY <1>26 DEF StopRelease, StopGoto, requestVars, tmuxVars
<1>27. CASE StopDelete(r)
  BY <1>27 DEF StopDelete, StopGoto, requestVars, tmuxVars
<1>28. CASE WaitLook(r)
  BY <1>28 DEF WaitLook, Goto, Finish, mapVars, processVars, tmuxVars
<1>29. CASE WaitLoad(r)
  BY <1>29 DEF WaitLoad, Goto, processVars, tmuxVars
<1>30. CASE WaitReturn(r)
  BY <1>30 DEF WaitReturn, Goto, Finish, mapVars, processVars, tmuxVars
<1>31. CASE WaiterSignalled(r)
  BY <1>31 DEF WaiterSignalled, requestVars, processVars, tmuxVars
<1>32. CASE ShellExits(r)
  BY <1>32 DEF ShellExits, requestVars, mapVars, tmuxVars
<1>33. CASE PaneExits(r)
  BY <1>33 DEF PaneExits, requestVars, mapVars, processVars
<1>34. CASE Cancel(r)
  BY <1>34 DEF Cancel, mapVars, processVars, tmuxVars
<1> QED
  BY <1>1, <1>2, <1>3, <1>4, <1>5, <1>6, <1>7, <1>8, <1>9, <1>10, <1>11,
     <1>12, <1>13, <1>14, <1>15, <1>16, <1>17, <1>18, <1>19, <1>20, <1>21,
     <1>22, <1>23, <1>24, <1>25, <1>26, <1>27, <1>28, <1>29, <1>30, <1>31,
     <1>32, <1>33, <1>34
     DEF StartStep, StopStep, Stopper, WaitStep

LEMMA StepRan ==
  ASSUME SessionInv, NEW r \in Requests, \/ StartStep(r) \/ StopStep(r) \/ Stopper(r) \/ WaitStep(r)
         \/ WaiterSignalled(r) \/ ShellExits(r) \/ PaneExits(r) \/ Cancel(r)
  PROVE  RanInv'
<1> USE NoneAssumption, KindsAssumption DEF SessionInv, TypeOK, RequestPC, LabelInv, RanInv
<1>1. CASE TmuxLock(r)
  BY <1>1 DEF TmuxLock, Goto, processVars, tmuxVars
<1>2. CASE TmuxReserve(r)
  BY <1>2 DEF TmuxReserve, Goto, processVars, tmuxVars
<1>3. CASE TmuxCreate(r)
  BY <1>3 DEF TmuxCreate, Goto, mapVars, processVars, tmuxVars
<1>4. CASE TmuxConfigure(r)
  BY <1>4 DEF TmuxConfigure, Goto, mapVars, processVars
<1>5. CASE TmuxTrack(r)
  BY <1>5 DEF TmuxTrack, Goto, processVars, tmuxVars
<1>6. CASE TmuxGo(r)
  BY <1>6 DEF TmuxGo, Goto, LetGo, mapVars, processVars
<1>7. CASE TmuxCleanup(r)
  BY <1>7 DEF TmuxCleanup, Goto, mapVars, processVars
<1>8. CASE TmuxUntrack(r)
  BY <1>8 DEF TmuxUntrack, Goto, RemoveState, processVars, tmuxVars
<1>9. CASE TmuxAbort(r)
  BY <1>9 DEF TmuxAbort, Goto, processVars, tmuxVars
<1>10. CASE TmuxUnlock(r)
  BY <1>10 DEF TmuxUnlock, Goto, processVars, tmuxVars
<1>11. CASE ProcessCheck(r)
  BY <1>11 DEF ProcessCheck, Goto, Finish, mapVars, processVars, tmuxVars
<1>12. CASE ProcessReserve(r)
  BY <1>12 DEF ProcessReserve, Goto, Finish, processVars, tmuxVars
<1>13. CASE ProcessLaunch(r)
  BY <1>13 DEF ProcessLaunch, Goto, mapVars, tmuxVars
<1>14. CASE ProcessGiveBack(r)
  BY <1>14 DEF ProcessGiveBack, Goto, Finish, processVars, tmuxVars
<1>15. CASE ProcessStore(r)
  BY <1>15 DEF ProcessStore, Goto, processVars, tmuxVars
<1>16. CASE ProcessGate(r)
  BY <1>16 DEF ProcessGate, Goto, Finish, BeginStop, StopNamed, mapVars,
       tmuxVars
<1>17. CASE ProcessConfirm(r)
  BY <1>17 DEF ProcessConfirm, Goto, Finish, BeginStop, StopNamed, mapVars,
       tmuxVars
<1>18. CASE StopLook(r)
  BY <1>18 DEF StopLook, Goto, BeginStop, mapVars, tmuxVars
<1>19. CASE StopWait(r)
  BY <1>19 DEF StopWait, Goto, Finish, mapVars, processVars, tmuxVars
<1>20. CASE StopKill(r)
  BY <1>20 DEF StopKill, Goto, Finish, mapVars, processVars
<1>21. CASE StopForget(r)
  BY <1>21 DEF StopForget, Goto, Finish, RemoveState, processVars, tmuxVars
<1>22. CASE StopTerminate(r)
  BY <1>22 DEF StopTerminate, StopGoto, requestVars, mapVars, tmuxVars
<1>23. CASE StopGrace(r)
  BY <1>23 DEF StopGrace, StopGoto, requestVars, mapVars, tmuxVars
<1>24. CASE StopCgroup(r)
  BY <1>24 DEF StopCgroup, StopGoto, requestVars, mapVars, tmuxVars
<1>25. CASE StopRemoveCgroup(r)
  BY <1>25 DEF StopRemoveCgroup, StopGoto, requestVars, mapVars, tmuxVars
<1>26. CASE StopRelease(r)
  BY <1>26 DEF StopRelease, StopGoto, requestVars, tmuxVars
<1>27. CASE StopDelete(r)
  BY <1>27 DEF StopDelete, StopGoto, requestVars, tmuxVars
<1>28. CASE WaitLook(r)
  BY <1>28 DEF WaitLook, Goto, Finish, mapVars, processVars, tmuxVars
<1>29. CASE WaitLoad(r)
  BY <1>29 DEF WaitLoad, Goto, processVars, tmuxVars
<1>30. CASE WaitReturn(r)
  BY <1>30 DEF WaitReturn, Goto, Finish, mapVars, processVars, tmuxVars
<1>31. CASE WaiterSignalled(r)
  BY <1>31 DEF WaiterSignalled, requestVars, processVars, tmuxVars
<1>32. CASE ShellExits(r)
  BY <1>32 DEF ShellExits, requestVars, mapVars, tmuxVars
<1>33. CASE PaneExits(r)
  BY <1>33 DEF PaneExits, requestVars, mapVars, processVars
<1>34. CASE Cancel(r)
  BY <1>34 DEF Cancel, mapVars, processVars, tmuxVars
<1> QED
  BY <1>1, <1>2, <1>3, <1>4, <1>5, <1>6, <1>7, <1>8, <1>9, <1>10, <1>11,
     <1>12, <1>13, <1>14, <1>15, <1>16, <1>17, <1>18, <1>19, <1>20, <1>21,
     <1>22, <1>23, <1>24, <1>25, <1>26, <1>27, <1>28, <1>29, <1>30, <1>31,
     <1>32, <1>33, <1>34
     DEF StartStep, StopStep, Stopper, WaitStep

LEMMA StepStopped ==
  ASSUME SessionInv, NEW r \in Requests, \/ StartStep(r) \/ StopStep(r) \/ Stopper(r) \/ WaitStep(r)
         \/ WaiterSignalled(r) \/ ShellExits(r) \/ PaneExits(r) \/ Cancel(r)
  PROVE  StoppedIsDead'
<1> USE NoneAssumption, KindsAssumption DEF SessionInv, TypeOK, RequestPC, StopPC, OrNone, LabelInv, ShellInv, Unlaunched, StoppedIsDead, TmuxSteps, ProcessSteps
<1>1. CASE TmuxLock(r)
  BY <1>1 DEF TmuxLock, Goto, processVars, tmuxVars
<1>2. CASE TmuxReserve(r)
  BY <1>2 DEF TmuxReserve, Goto, processVars, tmuxVars
<1>3. CASE TmuxCreate(r)
  BY <1>3 DEF TmuxCreate, Goto, mapVars, processVars, tmuxVars
<1>4. CASE TmuxConfigure(r)
  BY <1>4 DEF TmuxConfigure, Goto, mapVars, processVars
<1>5. CASE TmuxTrack(r)
  BY <1>5 DEF TmuxTrack, Goto, processVars, tmuxVars
<1>6. CASE TmuxGo(r)
  BY <1>6 DEF TmuxGo, Goto, LetGo, mapVars, processVars
<1>7. CASE TmuxCleanup(r)
  BY <1>7 DEF TmuxCleanup, Goto, mapVars, processVars
<1>8. CASE TmuxUntrack(r)
  BY <1>8 DEF TmuxUntrack, Goto, RemoveState, processVars, tmuxVars
<1>9. CASE TmuxAbort(r)
  BY <1>9 DEF TmuxAbort, Goto, processVars, tmuxVars
<1>10. CASE TmuxUnlock(r)
  BY <1>10 DEF TmuxUnlock, Goto, processVars, tmuxVars
<1>11. CASE ProcessCheck(r)
  BY <1>11 DEF ProcessCheck, Goto, Finish, mapVars, processVars, tmuxVars
<1>12. CASE ProcessReserve(r)
  BY <1>12 DEF ProcessReserve, Goto, Finish, processVars, tmuxVars
<1>13. CASE ProcessLaunch(r)
  BY <1>13 DEF ProcessLaunch, Goto, mapVars, tmuxVars
<1>14. CASE ProcessGiveBack(r)
  BY <1>14 DEF ProcessGiveBack, Goto, Finish, processVars, tmuxVars
<1>15. CASE ProcessStore(r)
  BY <1>15 DEF ProcessStore, Goto, processVars, tmuxVars
<1>16. CASE ProcessGate(r)
  BY <1>16 DEF ProcessGate, Goto, Finish, BeginStop, StopNamed, mapVars,
       tmuxVars
<1>17. CASE ProcessConfirm(r)
  BY <1>17 DEF ProcessConfirm, Goto, Finish, BeginStop, StopNamed, mapVars,
       tmuxVars
<1>18. CASE StopLook(r)
  BY <1>18 DEF StopLook, Goto, BeginStop, mapVars, tmuxVars
<1>19. CASE StopWait(r)
  BY <1>19 DEF StopWait, Goto, Finish, mapVars, processVars, tmuxVars
<1>20. CASE StopKill(r)
  BY <1>20 DEF StopKill, Goto, Finish, mapVars, processVars
<1>21. CASE StopForget(r)
  BY <1>21 DEF StopForget, Goto, Finish, RemoveState, processVars, tmuxVars
<1>22. CASE StopTerminate(r)
  BY <1>22 DEF StopTerminate, StopGoto, requestVars, mapVars, tmuxVars
<1>23. CASE StopGrace(r)
  BY <1>23 DEF StopGrace, StopGoto, requestVars, mapVars, tmuxVars
<1>24. CASE StopCgroup(r)
  BY <1>24 DEF StopCgroup, StopGoto, requestVars, mapVars, tmuxVars
<1>25. CASE StopRemoveCgroup(r)
  BY <1>25 DEF StopRemoveCgroup, StopGoto, requestVars, mapVars, tmuxVars
<1>26. CASE StopRelease(r)
  BY <1>26 DEF StopRelease, StopGoto, requestVars, tmuxVars
<1>27. CASE StopDelete(r)
  BY <1>27 DEF StopDelete, StopGoto, requestVars, tmuxVars
<1>28. CASE WaitLook(r)
  BY <1>28 DEF WaitLook, Goto, Finish, mapVars, processVars, tmuxVars
<1>29. CASE WaitLoad(r)
  BY <1>29 DEF WaitLoad, Goto, processVars, tmuxVars
<1>30. CASE WaitReturn(r)
  BY <1>30 DEF WaitReturn, Goto, Finish, mapVars, processVars, tmuxVars
<1>31. CASE WaiterSignalled(r)
  BY <1>31 DEF WaiterSignalled, requestVars, processVars, tmuxVars
<1>32. CASE ShellExits(r)
  BY <1>32 DEF ShellExits, requestVars, mapVars, tmuxVars
<1>33. CASE PaneExits(r)
  BY <1>33 DEF PaneExits, requestVars, mapVars, processVars
<1>34. CASE Cancel(r)
  BY <1>34 DEF Cancel, mapVars, processVars, tmuxVars
<1> QED
  BY <1>1, <1>2, <1>3, <1>4, <1>5, <1>6, <1>7, <1>8, <1>9, <1>10, <1>11,
     <1>12, <1>13, <1>14, <1>15, <1>16, <1>17, <1>18, <1>19, <1>20, <1>21,
     <1>22, <1>23, <1>24, <1>25, <1>26, <1>27, <1>28, <1>29, <1>30, <1>31,
     <1>32, <1>33, <1>34
     DEF StartStep, StopStep, Stopper, WaitStep

LEMMA StepStranded ==
  ASSUME SessionInv, NEW r \in Requests, \/ StartStep(r) \/ StopStep(r) \/ Stopper(r) \/ WaitStep(r)
         \/ WaiterSignalled(r) \/ ShellExits(r) \/ PaneExits(r) \/ Cancel(r)
  PROVE  NoStrandedWait'
<1> USE NoneAssumption, KindsAssumption DEF SessionInv, TypeOK, RequestPC, OrNone, LabelInv, NoStrandedWait
<1>1. CASE TmuxLock(r)
  BY <1>1 DEF TmuxLock, Goto, processVars, tmuxVars
<1>2. CASE TmuxReserve(r)
  BY <1>2 DEF TmuxReserve, Goto, processVars, tmuxVars
<1>3. CASE TmuxCreate(r)
  BY <1>3 DEF TmuxCreate, Goto, mapVars, processVars, tmuxVars
<1>4. CASE TmuxConfigure(r)
  BY <1>4 DEF TmuxConfigure, Goto, mapVars, processVars
<1>5. CASE TmuxTrack(r)
  BY <1>5 DEF TmuxTrack, Goto, processVars, tmuxVars
<1>6. CASE TmuxGo(r)
  BY <1>6 DEF TmuxGo, Goto, LetGo, mapVars, processVars
<1>7. CASE TmuxCleanup(r)
  BY <1>7 DEF TmuxCleanup, Goto, mapVars, processVars
<1>8. CASE TmuxUntrack(r)
  BY <1>8 DEF TmuxUntrack, Goto, RemoveState, processVars, tmuxVars
<1>9. CASE TmuxAbort(r)
  BY <1>9 DEF TmuxAbort, Goto, processVars, tmuxVars
<1>10. CASE TmuxUnlock(r)
  BY <1>10 DEF TmuxUnlock, Goto, processVars, tmuxVars
<1>11. CASE ProcessCheck(r)
  BY <1>11 DEF ProcessCheck, Goto, Finish, mapVars, processVars, tmuxVars
<1>12. CASE ProcessReserve(r)
  BY <1>12 DEF ProcessReserve, Goto, Finish, processVars, tmuxVars
<1>13. CASE ProcessLaunch(r)
  BY <1>13 DEF ProcessLaunch, Goto, mapVars, tmuxVars
<1>14. CASE ProcessGiveBack(r)
  BY <1>14 DEF ProcessGiveBack, Goto, Finish, processVars, tmuxVars
<1>15. CASE ProcessStore(r)
  BY <1>15 DEF ProcessStore, Goto, processVars, tmuxVars
<1>16. CASE ProcessGate(r)
  BY <1>16 DEF ProcessGate, Goto, Finish, BeginStop, StopNamed, mapVars,
       tmuxVars
<1>17. CASE ProcessConfirm(r)
  BY <1>17 DEF ProcessConfirm, Goto, Finish, BeginStop, StopNamed, mapVars,
       tmuxVars
<1>18. CASE StopLook(r)
  BY <1>18 DEF StopLook, Goto, BeginStop, mapVars, tmuxVars
<1>19. CASE StopWait(r)
  BY <1>19 DEF StopWait, Goto, Finish, mapVars, processVars, tmuxVars
<1>20. CASE StopKill(r)
  BY <1>20 DEF StopKill, Goto, Finish, mapVars, processVars
<1>21. CASE StopForget(r)
  BY <1>21 DEF StopForget, Goto, Finish, RemoveState, processVars, tmuxVars
<1>22. CASE StopTerminate(r)
  BY <1>22 DEF StopTerminate, StopGoto, requestVars, mapVars, tmuxVars
<1>23. CASE StopGrace(r)
  BY <1>23 DEF StopGrace, StopGoto, requestVars, mapVars, tmuxVars
<1>24. CASE StopCgroup(r)
  BY <1>24 DEF StopCgroup, StopGoto, requestVars, mapVars, tmuxVars
<1>25. CASE StopRemoveCgroup(r)
  BY <1>25 DEF StopRemoveCgroup, StopGoto, requestVars, mapVars, tmuxVars
<1>26. CASE StopRelease(r)
  BY <1>26 DEF StopRelease, StopGoto, requestVars, tmuxVars
<1>27. CASE StopDelete(r)
  BY <1>27 DEF StopDelete, StopGoto, requestVars, tmuxVars
<1>28. CASE WaitLook(r)
  BY <1>28 DEF WaitLook, Goto, Finish, mapVars, processVars, tmuxVars
<1>29. CASE WaitLoad(r)
  BY <1>29 DEF WaitLoad, Goto, processVars, tmuxVars
<1>30. CASE WaitReturn(r)
  BY <1>30 DEF WaitReturn, Goto, Finish, mapVars, processVars, tmuxVars
<1>31. CASE WaiterSignalled(r)
  BY <1>31 DEF WaiterSignalled, requestVars, processVars, tmuxVars
<1>32. CASE ShellExits(r)
  BY <1>32 DEF ShellExits, requestVars, mapVars, tmuxVars
<1>33. CASE PaneExits(r)
  BY <1>33 DEF PaneExits, requestVars, mapVars, processVars
<1>34. CASE Cancel(r)
  BY <1>34 DEF Cancel, mapVars, processVars, tmuxVars
<1> QED
  BY <1>1, <1>2, <1>3, <1>4, <1>5, <1>6, <1>7, <1>8, <1>9, <1>10, <1>11,
     <1>12, <1>13, <1>14, <1>15, <1>16, <1>17, <1>18, <1>19, <1>20, <1>21,
     <1>22, <1>23, <1>24, <1>25, <1>26, <1>27, <1>28, <1>29, <1>30, <1>31,
     <1>32, <1>33, <1>34
     DEF StartStep, StopStep, Stopper, WaitStep

LEMMA StepCalm ==
  ASSUME SessionInv, NEW r \in Requests, \/ StartStep(r) \/ StopStep(r) \/ Stopper(r) \/ WaitStep(r)
         \/ WaiterSignalled(r) \/ ShellExits(r) \/ PaneExits(r) \/ Cancel(r)
  PROVE  (Undisturbed' => Undisturbed) /\ (AllProcess' <=> AllProcess)
<1> USE NoneAssumption, KindsAssumption DEF SessionInv, TypeOK, RequestPC, LabelInv, Undisturbed, AllProcess, TmuxSteps, ProcessSteps
<1>1. CASE TmuxLock(r)
  BY <1>1 DEF TmuxLock, Goto, processVars, tmuxVars
<1>2. CASE TmuxReserve(r)
  BY <1>2 DEF TmuxReserve, Goto, processVars, tmuxVars
<1>3. CASE TmuxCreate(r)
  BY <1>3 DEF TmuxCreate, Goto, mapVars, processVars, tmuxVars
<1>4. CASE TmuxConfigure(r)
  BY <1>4 DEF TmuxConfigure, Goto, mapVars, processVars
<1>5. CASE TmuxTrack(r)
  BY <1>5 DEF TmuxTrack, Goto, processVars, tmuxVars
<1>6. CASE TmuxGo(r)
  BY <1>6 DEF TmuxGo, Goto, LetGo, mapVars, processVars
<1>7. CASE TmuxCleanup(r)
  BY <1>7 DEF TmuxCleanup, Goto, mapVars, processVars
<1>8. CASE TmuxUntrack(r)
  BY <1>8 DEF TmuxUntrack, Goto, RemoveState, processVars, tmuxVars
<1>9. CASE TmuxAbort(r)
  BY <1>9 DEF TmuxAbort, Goto, processVars, tmuxVars
<1>10. CASE TmuxUnlock(r)
  BY <1>10 DEF TmuxUnlock, Goto, processVars, tmuxVars
<1>11. CASE ProcessCheck(r)
  BY <1>11 DEF ProcessCheck, Goto, Finish, mapVars, processVars, tmuxVars
<1>12. CASE ProcessReserve(r)
  BY <1>12 DEF ProcessReserve, Goto, Finish, processVars, tmuxVars
<1>13. CASE ProcessLaunch(r)
  BY <1>13 DEF ProcessLaunch, Goto, mapVars, tmuxVars
<1>14. CASE ProcessGiveBack(r)
  BY <1>14 DEF ProcessGiveBack, Goto, Finish, processVars, tmuxVars
<1>15. CASE ProcessStore(r)
  BY <1>15 DEF ProcessStore, Goto, processVars, tmuxVars
<1>16. CASE ProcessGate(r)
  BY <1>16 DEF ProcessGate, Goto, Finish, BeginStop, StopNamed, mapVars,
       tmuxVars
<1>17. CASE ProcessConfirm(r)
  BY <1>17 DEF ProcessConfirm, Goto, Finish, BeginStop, StopNamed, mapVars,
       tmuxVars
<1>18. CASE StopLook(r)
  BY <1>18 DEF StopLook, Goto, BeginStop, mapVars, tmuxVars
<1>19. CASE StopWait(r)
  BY <1>19 DEF StopWait, Goto, Finish, mapVars, processVars, tmuxVars
<1>20. CASE StopKill(r)
  BY <1>20 DEF StopKill, Goto, Finish, mapVars, processVars
<1>21. CASE StopForget(r)
  BY <1>21 DEF StopForget, Goto, Finish, RemoveState, processVars, tmuxVars
<1>22. CASE StopTerminate(r)
  BY <1>22 DEF StopTerminate, StopGoto, requestVars, mapVars, tmuxVars
<1>23. CASE StopGrace(r)
  BY <1>23 DEF StopGrace, StopGoto, requestVars, mapVars, tmuxVars
<1>24. CASE StopCgroup(r)
  BY <1>24 DEF StopCgroup, StopGoto, requestVars, mapVars, tmuxVars
<1>25. CASE StopRemoveCgroup(r)
  BY <1>25 DEF StopRemoveCgroup, StopGoto, requestVars, mapVars, tmuxVars
<1>26. CASE StopRelease(r)
  BY <1>26 DEF StopRelease, StopGoto, requestVars, tmuxVars
<1>27. CASE StopDelete(r)
  BY <1>27 DEF StopDelete, StopGoto, requestVars, tmuxVars
<1>28. CASE WaitLook(r)
  BY <1>28 DEF WaitLook, Goto, Finish, mapVars, processVars, tmuxVars
<1>29. CASE WaitLoad(r)
  BY <1>29 DEF WaitLoad, Goto, processVars, tmuxVars
<1>30. CASE WaitReturn(r)
  BY <1>30 DEF WaitReturn, Goto, Finish, mapVars, processVars, tmuxVars
<1>31. CASE WaiterSignalled(r)
  BY <1>31 DEF WaiterSignalled, requestVars, processVars, tmuxVars
<1>32. CASE ShellExits(r)
  BY <1>32 DEF ShellExits, requestVars, mapVars, tmuxVars
<1>33. CASE PaneExits(r)
  BY <1>33 DEF PaneExits, requestVars, mapVars, processVars
<1>34. CASE Cancel(r)
  BY <1>34 DEF Cancel, mapVars, processVars, tmuxVars
<1> QED
  BY <1>1, <1>2, <1>3, <1>4, <1>5, <1>6, <1>7, <1>8, <1>9, <1>10, <1>11,
     <1>12, <1>13, <1>14, <1>15, <1>16, <1>17, <1>18, <1>19, <1>20, <1>21,
     <1>22, <1>23, <1>24, <1>25, <1>26, <1>27, <1>28, <1>29, <1>30, <1>31,
     <1>32, <1>33, <1>34
     DEF StartStep, StopStep, Stopper, WaitStep

\* Nobody who does not hold the id releases it, and stays calm.
LEMMA Disturbing ==
  ASSUME SessionInv, NEW r \in Requests, TmuxUntrack(r) \/ TmuxAbort(r) \/ StopForget(r)
  PROVE  ~Calm' /\ ~Undisturbed'
<1> USE DEF SessionInv, TypeOK, LabelInv, TmuxSteps, Calm, Undisturbed, AllProcess
<1>1. CASE TmuxUntrack(r)
  BY <1>1 DEF TmuxUntrack
<1>2. CASE TmuxAbort(r)
  BY <1>2 DEF TmuxAbort
<1>3. CASE StopForget(r)
  BY <1>3 DEF StopForget
<1> QED BY <1>1, <1>2, <1>3

LEMMA StepReserved ==
  ASSUME SessionInv, NEW r \in Requests, \/ StartStep(r) \/ StopStep(r) \/ Stopper(r) \/ WaitStep(r)
         \/ WaiterSignalled(r) \/ ShellExits(r) \/ PaneExits(r) \/ Cancel(r)
  PROVE  ReservedInv'
<1>0. (Undisturbed' => Undisturbed) /\ (Calm' => Calm)
  BY StepCalm DEF Calm
<1> USE NoneAssumption, KindsAssumption, <1>0 DEF SessionInv, TypeOK, RequestPC, StopPC, OrNone, LabelInv, ShellInv,
     Unlaunched, TmuxSteps, ProcessSteps, ReservedInv, Holds, TmuxHolds
<1>1. CASE TmuxLock(r)
  BY <1>1 DEF TmuxLock, Goto, processVars, tmuxVars
<1>2. CASE TmuxReserve(r)
  BY <1>2 DEF TmuxReserve, Goto, processVars, tmuxVars
<1>3. CASE TmuxCreate(r)
  <2>1. TmuxHolds(r)
    BY <1>3 DEF TmuxCreate
  <2>2. Calm => reserved = "tmux" /\ \A s \in Requests : ~Holds(s)
    BY <2>1
  <2>3. reserved' = reserved /\ \A s \in Requests : Holds(s)' <=> Holds(s)
    BY <1>3 DEF TmuxCreate, Goto, mapVars, processVars
  <2>4. \A s \in Requests : (TmuxHolds(s)' => TmuxHolds(s)) /\ (pc'[s] = "take" => pc[s] = "take")
    BY <1>3 DEF TmuxCreate, Goto
  <2> HIDE DEF Holds, TmuxHolds
  <2> QED BY <2>2, <2>3, <2>4 DEF Calm
<1>4. CASE TmuxConfigure(r)
  BY <1>4 DEF TmuxConfigure, Goto, mapVars, processVars
<1>5. CASE TmuxTrack(r)
  BY <1>5 DEF TmuxTrack, Goto, processVars, tmuxVars
<1>6. CASE TmuxGo(r)
  BY <1>6 DEF TmuxGo, Goto, LetGo, mapVars, processVars
<1>7. CASE TmuxCleanup(r)
  BY <1>7 DEF TmuxCleanup, Goto, mapVars, processVars
<1>8. CASE TmuxUntrack(r)
  BY <1>8, Disturbing
<1>9. CASE TmuxAbort(r)
  BY <1>9, Disturbing
<1>10. CASE TmuxUnlock(r)
  BY <1>10 DEF TmuxUnlock, Goto, processVars, tmuxVars
<1>11. CASE ProcessCheck(r)
  BY <1>11 DEF ProcessCheck, Goto, Finish, mapVars, processVars, tmuxVars
<1>12. CASE ProcessReserve(r)
  BY <1>12 DEF ProcessReserve, Goto, Finish, processVars, tmuxVars
<1>13. CASE ProcessLaunch(r)
  BY <1>13 DEF ProcessLaunch, Goto, mapVars, tmuxVars
<1>14. CASE ProcessGiveBack(r)
  BY <1>14 DEF ProcessGiveBack, Goto, Finish, processVars, tmuxVars
<1>15. CASE ProcessStore(r)
  BY <1>15 DEF ProcessStore, Goto, processVars, tmuxVars
<1>16. CASE ProcessGate(r)
  BY <1>16 DEF ProcessGate, Goto, Finish, BeginStop, StopNamed, mapVars,
       tmuxVars
<1>17. CASE ProcessConfirm(r)
  BY <1>17 DEF ProcessConfirm, Goto, Finish, BeginStop, StopNamed, mapVars,
       tmuxVars
<1>18. CASE StopLook(r)
  BY <1>18 DEF StopLook, Goto, BeginStop, mapVars, tmuxVars
<1>19. CASE StopWait(r)
  BY <1>19 DEF StopWait, Goto, Finish, mapVars, processVars, tmuxVars
<1>20. CASE StopKill(r)
  BY <1>20 DEF StopKill, Goto, Finish, mapVars, processVars
<1>21. CASE StopForget(r)
  BY <1>21, Disturbing
<1>22. CASE StopTerminate(r)
  BY <1>22 DEF StopTerminate, StopGoto, requestVars, mapVars, tmuxVars
<1>23. CASE StopGrace(r)
  BY <1>23 DEF StopGrace, StopGoto, requestVars, mapVars, tmuxVars
<1>24. CASE StopCgroup(r)
  BY <1>24 DEF StopCgroup, StopGoto, requestVars, mapVars, tmuxVars
<1>25. CASE StopRemoveCgroup(r)
  BY <1>25 DEF StopRemoveCgroup, StopGoto, requestVars, mapVars, tmuxVars
<1>26. CASE StopRelease(r)
  BY <1>26 DEF StopRelease, StopGoto, requestVars, tmuxVars
<1>27. CASE StopDelete(r)
  BY <1>27 DEF StopDelete, StopGoto, requestVars, tmuxVars
<1>28. CASE WaitLook(r)
  BY <1>28 DEF WaitLook, Goto, Finish, mapVars, processVars, tmuxVars
<1>29. CASE WaitLoad(r)
  BY <1>29 DEF WaitLoad, Goto, processVars, tmuxVars
<1>30. CASE WaitReturn(r)
  BY <1>30 DEF WaitReturn, Goto, Finish, mapVars, processVars, tmuxVars
<1>31. CASE WaiterSignalled(r)
  BY <1>31 DEF WaiterSignalled, requestVars, processVars, tmuxVars
<1>32. CASE ShellExits(r)
  BY <1>32 DEF ShellExits, requestVars, mapVars, tmuxVars
<1>33. CASE PaneExits(r)
  BY <1>33 DEF PaneExits, requestVars, mapVars, processVars
<1>34. CASE Cancel(r)
  BY <1>34 DEF Cancel, mapVars, processVars, tmuxVars
<1> QED
  BY <1>1, <1>2, <1>3, <1>4, <1>5, <1>6, <1>7, <1>8, <1>9, <1>10, <1>11,
     <1>12, <1>13, <1>14, <1>15, <1>16, <1>17, <1>18, <1>19, <1>20, <1>21,
     <1>22, <1>23, <1>24, <1>25, <1>26, <1>27, <1>28, <1>29, <1>30, <1>31,
     <1>32, <1>33, <1>34
     DEF StartStep, StopStep, Stopper, WaitStep

-----------------------------------------------------------------------------
(* The daemon is replaced, and the theorems                                *)

LEMMA RestartInv == ASSUME SessionInv, Restart PROVE SessionInv'
<1> USE NoneAssumption, RestartsAssumption
    DEF SessionInv, TypeOK, RequestPC, StopPC, OrNone, Restart, Begun, tmuxVars
<1>1. TypeOK'
  OBVIOUS
<1>2. LabelInv'
  BY DEF LabelInv, TmuxSteps, ProcessSteps
<1>3. ShellInv'
  BY DEF ShellInv, Unlaunched
<1>4. ReservedInv'
  <2>1. \A r \in Requests : ~Holds(r)' /\ ~TmuxHolds(r)' /\ pc'[r] # "take"
    BY DEF Holds, TmuxHolds, TmuxSteps
  <2> QED BY <2>1 DEF ReservedInv
<1>5. RanInv'
  BY DEF RanInv
<1>6. StoppedIsDead'
  BY DEF StoppedIsDead, ShellInv
<1>7. NoStrandedWait'
  BY DEF NoStrandedWait
<1> QED BY <1>1, <1>2, <1>3, <1>4, <1>5, <1>6, <1>7

LEMMA InitInv == ASSUME Init PROVE SessionInv
<1> USE NoneAssumption, RestartsAssumption DEF Init
<1>1. TypeOK
  BY DEF TypeOK, RequestPC, StopPC, OrNone
<1>2. LabelInv /\ ShellInv
  BY DEF LabelInv, ShellInv, Unlaunched, TmuxSteps, ProcessSteps
<1>3. ReservedInv
  BY DEF ReservedInv, Holds, TmuxHolds, TmuxSteps
<1>4. RanInv /\ StoppedIsDead /\ NoStrandedWait
  BY DEF RanInv, StoppedIsDead, NoStrandedWait
<1> QED BY <1>1, <1>2, <1>3, <1>4 DEF SessionInv

LEMMA NextInv == ASSUME SessionInv, [Next]_vars PROVE SessionInv'
<1>1. ASSUME NEW r \in Requests,
             \/ StartStep(r) \/ StopStep(r) \/ Stopper(r) \/ WaitStep(r)
             \/ WaiterSignalled(r) \/ ShellExits(r) \/ PaneExits(r) \/ Cancel(r)
      PROVE  SessionInv'
  BY <1>1, StepTypes, StepLabels, StepShells, StepReserved, StepRan, StepStopped,
     StepStranded DEF SessionInv
<1>2. CASE UNCHANGED vars
  BY <1>2 DEF vars, requestVars, mapVars, processVars, tmuxVars, SessionInv, TypeOK,
     LabelInv, ShellInv, ReservedInv, Calm, Undisturbed, AllProcess, Holds, TmuxHolds,
     RanInv, StoppedIsDead, NoStrandedWait
<1> QED BY <1>1, <1>2, RestartInv DEF Next

\* SessionInv holds in every state, for any requests and restarts.
THEOREM SessionInvariant == Spec => []SessionInv
BY InitInv, NextInv, PTL DEF Spec

\* The requests, the maps and the processes are well formed.
THEOREM SessionTypeCorrect == Spec => []TypeOK
<1>1. SessionInv => TypeOK
  BY DEF SessionInv
<1> QED BY <1>1, SessionInvariant, PTL

\* A process session that runs is the one its id names, however often the id is
\* used again while an earlier session is stopped (CompareAndDelete).
THEOREM SessionsStoppable == Spec => []Stoppable
<1>1. SessionInv => Stoppable
  BY DEF SessionInv, ShellInv, Stoppable
<1> QED BY <1>1, SessionInvariant, PTL

\* While nobody releases the id for another, it names one session, and the
\* id of a process session stays reserved until it is stopped.
THEOREM SessionIsOne == Spec => []OneSession
<1>1. ASSUME SessionInv PROVE OneSession
  <2> USE <1>1, NoneAssumption DEF SessionInv, TypeOK, OrNone
  <2>1. \A r \in Requests : shell[r] = "alive" => Holds(r)
    BY DEF ShellInv, Holds
  <2>2. procOf # None /\ stopPC[procOf] \notin {"delete", "stopped"} => Holds(procOf)
    BY DEF ShellInv, Holds
  <2>3. AllProcess => StaysReserved
    BY <2>2 DEF ReservedInv, Calm, StaysReserved
  <2>4. Undisturbed /\ tmux # None => \A r \in Requests : shell[r] # "alive"
    BY <2>1 DEF ReservedInv
  <2> QED BY <2>3, <2>4 DEF OneSession
<1> QED BY <1>1, SessionInvariant, PTL

\* A session reported as stopped is dead, and stays so.
THEOREM SessionsStopDead == Spec => []StoppedIsDead
<1>1. SessionInv => StoppedIsDead
  BY DEF SessionInv
<1> QED BY <1>1, SessionInvariant, PTL

\* A start that fails without having been cancelled never ran its command.
THEOREM FailedStartsNeverRan == Spec => []FailedStartNeverRan
<1>1. ASSUME SessionInv PROVE FailedStartNeverRan
  BY <1>1 DEF SessionInv, LabelInv, RanInv, FailedStartNeverRan
<1> QED BY <1>1, SessionInvariant, PTL

\* No wait is left with a state object that was removed and not completed.
THEOREM WaitsNotStranded == Spec => []NoStrandedWait
<1>1. SessionInv => NoStrandedWait
  BY DEF SessionInv
<1> QED BY <1>1, SessionInvariant, PTL
=============================================================================
