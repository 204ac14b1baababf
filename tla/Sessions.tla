------------------------------ MODULE Sessions ------------------------------
(***************************************************************************)
(* Shell sessions of the daemon under one session id, which its callers may*)
(* choose (remote_bash shellId) and use from concurrent requests.  A        *)
(* session is kept by one of two backends: a tmux session                   *)
(* (daemonStartSession) or a process of the daemon in a cgroup of its own   *)
(* (daemonStartProcessSession).  The id is reserved for one backend at a    *)
(* time.  Sessions with other ids share only daemonTmuxStartMu.             *)
(***************************************************************************)
EXTENDS Naturals, FiniteSets

CONSTANTS
  Requests,   \* concurrent requests naming the session id
  Kinds,      \* what they may ask: "tmux", "process", "stop" or "wait"
  TmuxFails,  \* may a tmux command fail, or be cut off by its context?
  Restarts,   \* bound: how often the daemon is replaced by a new one
  None

ASSUME NoneAssumption == None \notin Requests
ASSUME KindsAssumption == Kinds \subseteq {"tmux", "process", "stop", "wait"}
ASSUME TmuxAssumption == TmuxFails \in BOOLEAN
ASSUME RestartsAssumption == Restarts \in Nat

VARIABLES
  kind, pc, result, ctxDone,
  goal,       \* the session object a stop or a wait has looked up
  kept,       \* tmux starts past keepReservation
  reserved,   \* daemonSessionIDs: "none", "tmux" or "process"
  startMu,    \* holder of daemonTmuxStartMu
  procOf,     \* daemonProcessSessions
  tracked,    \* daemonSessions: the request whose state object is stored
  settled,    \* state objects whose done channel is closed
  cgroup,     \* whose session owns the cgroup directory
  shell,      \* process of each process session
  stopPC,     \* beginStop goroutine of each process session
  tmux,       \* incarnation of the tmux session with this name
  pane,       \* command of each tmux incarnation
  watches,    \* incarnation each state object waits for
  restarts,
  ran         \* history: starts whose command was let go

requestVars == <<kind, pc, result, ctxDone, goal, kept>>
mapVars     == <<reserved, startMu, procOf, tracked, settled, watches>>
processVars == <<cgroup, shell, stopPC>>
tmuxVars    == <<tmux, pane>>
vars == <<requestVars, mapVars, processVars, tmuxVars, restarts, ran>>

RequestPC == {"idle", "reserve", "create", "configure", "track", "go",
              "cleanup", "untrack", "abort", "unlock",
              "take", "isolate", "store", "gate", "check", "giveBack",
              "stopping", "kill", "forget", "load", "waiting", "done"}
StopPC == {"none", "begin", "grace", "kill", "final", "release", "delete",
           "stopped"}
OrNone == Requests \cup {None}

TypeOK ==
  /\ kind \in [Requests -> Kinds]
  /\ pc \in [Requests -> RequestPC]
  /\ result \in [Requests -> {"none", "ok", "error", "ctx", "lost"}]
  /\ ctxDone \subseteq Requests /\ kept \subseteq Requests
  /\ goal \in [Requests -> OrNone]
  /\ reserved \in {"none", "tmux", "process"}
  /\ startMu \in OrNone /\ procOf \in OrNone /\ tracked \in OrNone
  /\ settled \subseteq Requests
  /\ watches \in [Requests -> OrNone]
  /\ cgroup \in OrNone
  /\ shell \in [Requests -> {"none", "gated", "alive", "dead"}]
  /\ stopPC \in [Requests -> StopPC]
  /\ tmux \in OrNone
  /\ pane \in [Requests -> {"none", "plain", "gated", "running", "exited"}]
  /\ restarts \in 0 .. Restarts
  /\ ran \subseteq Requests

Init ==
  /\ kind \in [Requests -> Kinds]
  /\ pc = [r \in Requests |-> "idle"]
  /\ result = [r \in Requests |-> "none"]
  /\ ctxDone = {} /\ kept = {}
  /\ goal = [r \in Requests |-> None]
  /\ reserved = "none" /\ startMu = None /\ procOf = None /\ tracked = None
  /\ settled = {}
  /\ watches = [r \in Requests |-> None]
  /\ cgroup = None
  /\ shell = [r \in Requests |-> "none"]
  /\ stopPC = [r \in Requests |-> "none"]
  /\ tmux = None
  /\ pane = [r \in Requests |-> "none"]
  /\ restarts = 0 /\ ran = {}

Goto(r, l)   == pc' = [pc EXCEPT ![r] = l]
Finish(r, o) == Goto(r, "done") /\ result' = [result EXCEPT ![r] = o]

\* The request's context ends: a cancel frame, or the client is gone.
Cancel(r) ==
  /\ pc[r] # "done" /\ r \notin ctxDone
  /\ ctxDone' = ctxDone \cup {r}
  /\ UNCHANGED <<kind, pc, result, goal, kept, mapVars, processVars, tmuxVars,
                 restarts, ran>>

-----------------------------------------------------------------------------
(* daemonStartSession, under daemonTmuxStartMu                             *)

TmuxLock(r) ==
  /\ kind[r] = "tmux" /\ pc[r] = "idle" /\ startMu = None
  /\ startMu' = r
  /\ Goto(r, "reserve")
  /\ UNCHANGED <<kind, result, ctxDone, goal, kept, reserved, procOf, tracked,
                 settled, watches, processVars, tmuxVars, restarts, ran>>

TmuxReserve(r) ==
  /\ pc[r] = "reserve"
  /\ \/ /\ reserved = "none" /\ reserved' = "tmux"
        /\ Goto(r, "create") /\ UNCHANGED result
     \/ /\ reserved # "none" /\ UNCHANGED reserved
        /\ Goto(r, "unlock") /\ result' = [result EXCEPT ![r] = "error"]
  /\ UNCHANGED <<kind, ctxDone, goal, kept, startMu, procOf, tracked, settled,
                 watches, processVars, tmuxVars, restarts, ran>>

\* Everything up to tmux new-session, which refuses a name in use.  A command
\* cut off by its context may have created the session all the same.
TmuxCreate(r) ==
  /\ pc[r] = "create"
  /\ \/ /\ tmux = None
        /\ tmux' = r /\ pane' = [pane EXCEPT ![r] = "plain"]
        /\ \/ Goto(r, "configure")
           \/ TmuxFails /\ Goto(r, "abort")
     \/ /\ tmux # None \/ TmuxFails
        /\ UNCHANGED tmuxVars /\ Goto(r, "abort")
  /\ UNCHANGED <<kind, result, ctxDone, goal, kept, mapVars, processVars,
                 restarts, ran>>

\* Mutated configuration: the command does not wait for its start channel.
ConfigureUngated(r) ==
  /\ pc[r] = "configure"
  /\ tmux # None
  /\ pane' = [pane EXCEPT ![tmux] = "running"] /\ ran' = ran \cup {tmux}
  /\ Goto(r, "track")
  /\ UNCHANGED <<kind, result, ctxDone, goal, kept, mapVars, processVars, tmux,
                 restarts>>

\* A tmux server that was not running yet has its environment updated, and if
\* that fails the session is killed; then remain-on-exit and the options, the
\* completion channel among them.
TmuxConfigure(r) ==
  /\ pc[r] = "configure"
  /\ \/ /\ tmux # None
        /\ pane' = [pane EXCEPT ![tmux] = IF @ = "plain" THEN "gated" ELSE @]
        /\ Goto(r, "track") /\ UNCHANGED tmux
     \/ /\ tmux = None \/ TmuxFails
        /\ UNCHANGED pane
        /\ \/ Goto(r, "cleanup") /\ UNCHANGED tmux
           \/ Goto(r, "abort") /\ tmux' = None
  /\ UNCHANGED <<kind, result, ctxDone, goal, kept, mapVars, processVars,
                 restarts, ran>>

\* LoadOrStore of the state object, and its completion waiter.
TmuxTrack(r) ==
  /\ pc[r] = "track"
  /\ \/ /\ tracked = None /\ tracked' = r
        /\ watches' = [watches EXCEPT ![r] = r]
        /\ kept' = kept \cup {r}
        /\ Goto(r, "go")
     \/ /\ tracked # None
        /\ Goto(r, "cleanup") /\ UNCHANGED <<tracked, watches, kept>>
  /\ UNCHANGED <<kind, result, ctxDone, goal, reserved, startMu, procOf, settled,
                 processVars, tmuxVars, restarts, ran>>

\* tmux wait-for -S lets the command go, if its session still exists.  Cut off
\* by its context it may have done so.
LetGo(r) ==
  IF tmux = r THEN pane' = [pane EXCEPT ![r] = "running"] /\ ran' = ran \cup {r}
              ELSE UNCHANGED <<pane, ran>>

TmuxGo(r) ==
  /\ pc[r] = "go"
  /\ \/ LetGo(r) /\ Goto(r, "unlock") /\ result' = [result EXCEPT ![r] = "ok"]
     \/ /\ TmuxFails /\ UNCHANGED <<pane, ran>>
        /\ Goto(r, "cleanup") /\ UNCHANGED result
     \/ /\ TmuxFails /\ r \in ctxDone /\ LetGo(r)
        /\ Goto(r, "cleanup") /\ UNCHANGED result
  /\ UNCHANGED <<kind, ctxDone, goal, kept, mapVars, processVars, tmux,
                 restarts>>

\* cleanupCreatedSession: tmux kill-session ...
TmuxCleanup(r) ==
  /\ pc[r] = "cleanup"
  /\ tmux' = None
  /\ Goto(r, "untrack")
  /\ UNCHANGED <<kind, result, ctxDone, goal, kept, mapVars, processVars, pane,
                 restarts, ran>>

\* Mutated removal: forgets to complete the state it removes.
RemoveUnsettled == tracked' = None /\ reserved' = "none" /\ UNCHANGED settled

\* daemonRemoveSessionState also releases the id, whoever reserved it.
RemoveState ==
  /\ tracked' = None /\ reserved' = "none"
  /\ settled' = settled \cup ({tracked} \ {None})

\* ... and daemonRemoveSessionState.
TmuxUntrack(r) ==
  /\ pc[r] = "untrack"
  /\ RemoveState
  /\ Goto(r, IF r \in kept THEN "unlock" ELSE "abort")
  /\ result' = [result EXCEPT ![r] = "error"]
  /\ UNCHANGED <<kind, ctxDone, goal, kept, startMu, procOf, watches, processVars,
                 tmuxVars, restarts, ran>>

\* The deferred release, while keepReservation is false.
TmuxAbort(r) ==
  /\ pc[r] = "abort"
  /\ reserved' = "none"
  /\ Goto(r, "unlock") /\ result' = [result EXCEPT ![r] = "error"]
  /\ UNCHANGED <<kind, ctxDone, goal, kept, startMu, procOf, tracked, settled,
                 watches, processVars, tmuxVars, restarts, ran>>

\* Mutated start: an error path that keeps the lock.
UnlockUnlessFailed(r) ==
  /\ pc[r] = "unlock"
  /\ startMu' = IF result[r] = "ok" THEN None ELSE startMu
  /\ Goto(r, "done")
  /\ UNCHANGED <<kind, result, ctxDone, goal, kept, reserved, procOf, tracked,
                 settled, watches, processVars, tmuxVars, restarts, ran>>

TmuxUnlock(r) ==
  /\ pc[r] = "unlock"
  /\ startMu' = None
  /\ Goto(r, "done")
  /\ UNCHANGED <<kind, result, ctxDone, goal, kept, reserved, procOf, tracked,
                 settled, watches, processVars, tmuxVars, restarts, ran>>

-----------------------------------------------------------------------------
(* daemonStartProcessSession                                               *)

\* Mutated check: does not look for a tmux session of an earlier daemon.
ProcessUnchecked(r) ==
  /\ kind[r] = "process" /\ pc[r] = "idle"
  /\ Goto(r, "take") /\ UNCHANGED result
  /\ UNCHANGED <<kind, ctxDone, goal, kept, mapVars, processVars, tmuxVars,
                 restarts, ran>>

\* The context, then daemonTmuxSessionExists.
ProcessCheck(r) ==
  /\ kind[r] = "process" /\ pc[r] = "idle"
  /\ \/ /\ tmux # None \/ TmuxFails
        /\ Finish(r, "error")
     \/ /\ tmux = None /\ r \notin ctxDone
        /\ Goto(r, "take") /\ UNCHANGED result
  /\ UNCHANGED <<kind, ctxDone, goal, kept, mapVars, processVars, tmuxVars,
                 restarts, ran>>

ProcessReserve(r) ==
  /\ pc[r] = "take"
  /\ \/ /\ reserved = "none" /\ reserved' = "process"
        /\ Goto(r, "isolate") /\ UNCHANGED result
     \/ reserved # "none" /\ Finish(r, "error") /\ UNCHANGED reserved
  /\ UNCHANGED <<kind, ctxDone, goal, kept, startMu, procOf, tracked, settled,
                 watches, processVars, tmuxVars, restarts, ran>>

\* The cgroup directory, named after the id, and the gated process in it.
ProcessLaunch(r) ==
  /\ pc[r] = "isolate"
  /\ \/ Goto(r, "giveBack") /\ UNCHANGED <<cgroup, shell>>
     \/ /\ cgroup = None /\ cgroup' = r
        /\ shell' = [shell EXCEPT ![r] = "gated"]
        /\ Goto(r, "store")
  /\ UNCHANGED <<kind, result, ctxDone, goal, kept, mapVars, stopPC, tmuxVars,
                 restarts, ran>>

ProcessGiveBack(r) ==
  /\ pc[r] = "giveBack"
  /\ reserved' = "none"
  /\ Finish(r, "error")
  /\ UNCHANGED <<kind, ctxDone, goal, kept, startMu, procOf, tracked, settled,
                 watches, processVars, tmuxVars, restarts, ran>>

ProcessStore(r) ==
  /\ pc[r] = "store"
  /\ procOf' = r
  /\ Goto(r, "gate")
  /\ UNCHANGED <<kind, result, ctxDone, goal, kept, reserved, startMu, tracked,
                 settled, watches, processVars, tmuxVars, restarts, ran>>

\* beginStop, once per session.
BeginStop(t) ==
  stopPC' = [stopPC EXCEPT ![t] = IF @ = "none" THEN "begin" ELSE @]

\* daemonStopProcessSession of whatever session the id now names.
StopNamed(r) ==
  \/ /\ procOf # None /\ BeginStop(procOf)
     /\ goal' = [goal EXCEPT ![r] = procOf]
     /\ Goto(r, "stopping") /\ UNCHANGED result
  \/ procOf = None /\ Finish(r, "error") /\ UNCHANGED <<goal, stopPC>>

\* The gate opens; it cannot be written if its process is dead already.
ProcessGate(r) ==
  /\ pc[r] = "gate"
  /\ \/ /\ shell[r] = "gated"
        /\ shell' = [shell EXCEPT ![r] = "alive"] /\ ran' = ran \cup {r}
        /\ Goto(r, "check") /\ UNCHANGED <<result, goal, stopPC>>
     \/ shell[r] # "gated" /\ StopNamed(r) /\ UNCHANGED <<shell, ran>>
  /\ UNCHANGED <<kind, ctxDone, kept, mapVars, cgroup, tmuxVars, restarts>>

\* A start cancelled by now is undone.
ProcessConfirm(r) ==
  /\ pc[r] = "check"
  /\ \/ r \notin ctxDone /\ Finish(r, "ok") /\ UNCHANGED <<goal, stopPC>>
     \/ r \in ctxDone /\ StopNamed(r)
  /\ UNCHANGED <<kind, ctxDone, kept, mapVars, cgroup, shell, tmuxVars, restarts, ran>>

-----------------------------------------------------------------------------
(* daemonStopSession and the goroutine of beginStop                        *)

StopLook(r) ==
  /\ kind[r] = "stop" /\ pc[r] = "idle"
  /\ \/ /\ procOf # None /\ BeginStop(procOf)
        /\ goal' = [goal EXCEPT ![r] = procOf]
        /\ Goto(r, "stopping")
     \/ procOf = None /\ Goto(r, "kill") /\ UNCHANGED <<goal, stopPC>>
  /\ UNCHANGED <<kind, result, ctxDone, kept, mapVars, cgroup, shell, tmuxVars,
                 restarts, ran>>

\* Stopped, possibly with an error recorded, or the caller gave up; a start
\* that stops its own session reports an error and cannot be cancelled again.
StopWait(r) ==
  /\ pc[r] = "stopping"
  /\ \/ /\ stopPC[goal[r]] = "stopped"
        /\ \E o \in {"ok", "error"} : (kind[r] = "process" => o = "error") /\ Finish(r, o)
     \/ kind[r] = "stop" /\ r \in ctxDone /\ Finish(r, "ctx")
  /\ UNCHANGED <<kind, ctxDone, goal, kept, mapVars, processVars, tmuxVars,
                 restarts, ran>>

StopKill(r) ==
  /\ pc[r] = "kill"
  /\ \/ tmux # None /\ tmux' = None /\ Goto(r, "forget") /\ UNCHANGED result
     \/ (tmux = None \/ TmuxFails) /\ Finish(r, "error") /\ UNCHANGED tmux
  /\ UNCHANGED <<kind, ctxDone, goal, kept, mapVars, processVars, pane, restarts, ran>>

StopForget(r) ==
  /\ pc[r] = "forget"
  /\ RemoveState
  /\ Finish(r, "ok")
  /\ UNCHANGED <<kind, ctxDone, goal, kept, startMu, procOf, watches, processVars,
                 tmuxVars, restarts, ran>>

StopGoto(t, l) == stopPC' = [stopPC EXCEPT ![t] = l]

\* SIGTERM to the process tree, unless it is dead already.
StopTerminate(t) ==
  /\ stopPC[t] = "begin"
  /\ StopGoto(t, IF shell[t] = "dead" THEN "kill" ELSE "grace")
  /\ \/ UNCHANGED shell
     \/ shell' = [shell EXCEPT ![t] = "dead"]
  /\ UNCHANGED <<requestVars, mapVars, cgroup, tmuxVars, restarts, ran>>

\* Dead, two seconds later, or at once when the daemon is ending.
StopGrace(t) ==
  /\ stopPC[t] = "grace"
  /\ StopGoto(t, "kill")
  /\ UNCHANGED <<requestVars, mapVars, cgroup, shell, tmuxVars, restarts, ran>>

\* Mutated stop: trusts SIGTERM.
StopWithoutKill(t) ==
  /\ stopPC[t] = "kill"
  /\ StopGoto(t, "final")
  /\ UNCHANGED <<requestVars, mapVars, cgroup, shell, tmuxVars, restarts, ran>>

\* cgroup.kill, or SIGKILL to the tree.
StopCgroup(t) ==
  /\ stopPC[t] = "kill"
  /\ shell' = [shell EXCEPT ![t] = "dead"]
  /\ StopGoto(t, "final")
  /\ UNCHANGED <<requestVars, mapVars, cgroup, tmuxVars, restarts, ran>>

StopRemoveCgroup(t) ==
  /\ stopPC[t] = "final"
  /\ cgroup' = IF cgroup = t THEN None ELSE cgroup
  /\ StopGoto(t, "release")
  /\ UNCHANGED <<requestVars, mapVars, shell, tmuxVars, restarts, ran>>

\* The deferred daemonReleaseSessionID, then CompareAndDelete, then stopped.
StopRelease(t) ==
  /\ stopPC[t] = "release"
  /\ reserved' = "none"
  /\ StopGoto(t, "delete")
  /\ UNCHANGED <<requestVars, startMu, procOf, tracked, settled, watches, cgroup,
                 shell, tmuxVars, restarts, ran>>

\* Mutated removal: Delete instead of CompareAndDelete.
StopDeleteAny(t) ==
  /\ stopPC[t] = "delete"
  /\ procOf' = None
  /\ StopGoto(t, "stopped")
  /\ UNCHANGED <<requestVars, reserved, startMu, tracked, settled, watches,
                 cgroup, shell, tmuxVars, restarts, ran>>

StopDelete(t) ==
  /\ stopPC[t] = "delete"
  /\ procOf' = IF procOf = t THEN None ELSE procOf
  /\ StopGoto(t, "stopped")
  /\ UNCHANGED <<requestVars, reserved, startMu, tracked, settled, watches,
                 cgroup, shell, tmuxVars, restarts, ran>>

-----------------------------------------------------------------------------
(* daemonWaitSession                                                       *)

WaitLook(r) ==
  /\ kind[r] = "wait" /\ pc[r] = "idle"
  /\ \/ /\ procOf # None
        /\ goal' = [goal EXCEPT ![r] = procOf]
        /\ Goto(r, "waiting") /\ UNCHANGED result
     \/ /\ procOf = None
        /\ \/ /\ tmux # None /\ pane[tmux] \in {"gated", "running"}
              /\ goal' = [goal EXCEPT ![r] = tmux]
              /\ Goto(r, "load") /\ UNCHANGED result
           \/ /\ tmux # None /\ pane[tmux] = "exited"
              /\ Finish(r, "ok") /\ UNCHANGED goal
           \/ /\ tmux = None \/ TmuxFails \/ (tmux # None /\ pane[tmux] = "plain")
              /\ Finish(r, "error") /\ UNCHANGED goal
  /\ UNCHANGED <<kind, ctxDone, kept, mapVars, processVars, tmuxVars, restarts, ran>>

\* The state object of the session; after a restart the waiting request makes
\* one, with a completion waiter of its own.
WaitLoad(r) ==
  /\ pc[r] = "load"
  /\ \/ /\ tracked # None
        /\ goal' = [goal EXCEPT ![r] = tracked]
        /\ UNCHANGED <<tracked, watches>>
     \/ /\ tracked = None
        /\ tracked' = r
        /\ watches' = [watches EXCEPT ![r] = goal[r]]
        /\ goal' = [goal EXCEPT ![r] = r]
  /\ Goto(r, "waiting")
  /\ UNCHANGED <<kind, result, ctxDone, kept, reserved, startMu, procOf, settled,
                 processVars, tmuxVars, restarts, ran>>

\* Completed, timed out (the output so far), or cancelled.
WaitReturn(r) ==
  /\ pc[r] = "waiting"
  /\ \/ \E o \in {"ok", "error"} : Finish(r, o)
     \/ r \in ctxDone /\ Finish(r, "ctx")
  /\ UNCHANGED <<kind, ctxDone, goal, kept, mapVars, processVars, tmuxVars,
                 restarts, ran>>

\* The completion waiter sees the channel the supervisor signals at exit.
WaiterSignalled(t) ==
  /\ watches[t] # None /\ t \notin settled
  /\ pane[watches[t]] = "exited"
  /\ settled' = settled \cup {t}
  /\ UNCHANGED <<requestVars, reserved, startMu, procOf, tracked, watches,
                 processVars, tmuxVars, restarts, ran>>

-----------------------------------------------------------------------------
(* Commands and the daemon itself                                          *)

ShellExits(r) ==
  /\ shell[r] = "alive"
  /\ shell' = [shell EXCEPT ![r] = "dead"]
  /\ UNCHANGED <<requestVars, mapVars, cgroup, stopPC, tmuxVars, restarts, ran>>

PaneExits(r) ==
  /\ tmux = r /\ pane[r] = "running"
  /\ pane' = [pane EXCEPT ![r] = "exited"]
  /\ UNCHANGED <<requestVars, mapVars, processVars, tmux, restarts, ran>>

Begun(r) == pc[r] \notin {"idle", "done"}

\* The daemon is gone and the next one has cleaned up the cgroups of dead
\* owners: its requests, maps and processes are lost, tmux lives on.
Restart ==
  /\ restarts < Restarts
  /\ restarts' = restarts + 1
  /\ pc' = [r \in Requests |-> IF Begun(r) THEN "done" ELSE pc[r]]
  /\ result' = [r \in Requests |-> IF Begun(r) THEN "lost" ELSE result[r]]
  /\ reserved' = "none" /\ startMu' = None /\ procOf' = None /\ tracked' = None
  /\ settled' = {} /\ watches' = [r \in Requests |-> None]
  /\ cgroup' = None
  /\ shell' = [r \in Requests |-> IF shell[r] = "none" THEN "none" ELSE "dead"]
  /\ stopPC' = [r \in Requests |-> IF stopPC[r] = "none" THEN "none" ELSE "stopped"]
  /\ UNCHANGED <<kind, ctxDone, goal, kept, tmuxVars, ran>>

-----------------------------------------------------------------------------
StartStep(r) ==
  \/ TmuxLock(r) \/ TmuxReserve(r) \/ TmuxCreate(r) \/ TmuxConfigure(r)
  \/ TmuxTrack(r) \/ TmuxGo(r) \/ TmuxCleanup(r) \/ TmuxUntrack(r)
  \/ TmuxAbort(r) \/ TmuxUnlock(r)
  \/ ProcessCheck(r) \/ ProcessReserve(r) \/ ProcessLaunch(r)
  \/ ProcessGiveBack(r) \/ ProcessStore(r) \/ ProcessGate(r)
  \/ ProcessConfirm(r)
StopStep(r) == StopLook(r) \/ StopWait(r) \/ StopKill(r) \/ StopForget(r)
Stopper(t) ==
  \/ StopTerminate(t) \/ StopGrace(t) \/ StopCgroup(t) \/ StopRemoveCgroup(t)
  \/ StopRelease(t) \/ StopDelete(t)
WaitStep(r) == WaitLook(r) \/ WaitLoad(r) \/ WaitReturn(r)

Next ==
  \/ \E r \in Requests :
       \/ StartStep(r) \/ StopStep(r) \/ Stopper(r) \/ WaitStep(r)
       \/ WaiterSignalled(r) \/ ShellExits(r) \/ PaneExits(r) \/ Cancel(r)
  \/ Restart

Spec == Init /\ [][Next]_vars

\* Every request is made.  Handlers and stop goroutines run, timers fire, and
\* daemonTmuxStartMu, a Go mutex, starves nobody; nothing is assumed
\* of the commands.
FairSpec ==
  /\ Spec
  /\ \A r \in Requests : /\ WF_vars(StartStep(r) \/ StopStep(r) \/ WaitStep(r))
                         /\ SF_vars(TmuxLock(r))
                         /\ WF_vars(Stopper(r))

-----------------------------------------------------------------------------
(* Properties                                                              *)

\* Every process session that runs is the one the id names, so that it can be
\* read and stopped, also when the id is used again while it is being stopped
\* (CompareAndDelete).
Stoppable ==
  \A r \in Requests : shell[r] = "alive" => procOf = r

Undisturbed ==
  \A r \in Requests : kind[r] # "stop" /\ (kind[r] = "tmux" => result[r] # "error")
AllProcess == \A r \in Requests : kind[r] # "tmux"
StaysReserved ==
  procOf # None /\ stopPC[procOf] \notin {"delete", "stopped"} => reserved = "process"
\* An id names one session.  A process does not run beside a tmux session with
\* its id, which may have outlived the daemon that started it
\* (daemonTmuxSessionExists), until a stop or a failed start frees the id; and a
\* process session keeps its id reserved until it is stopped: no other start can
\* take the id meanwhile (daemonReserveSessionID).  Only the error paths of a
\* tmux start, which release the id twice, and the removal of a tmux session
\* that an earlier daemon left behind can take the reservation away.
OneSession ==
  /\ Undisturbed /\ tmux # None => \A r \in Requests : shell[r] # "alive"
  /\ AllProcess => StaysReserved

\* A session reported as stopped is dead, although it may ignore SIGTERM.
StoppedIsDead ==
  \A r \in Requests :
    kind[r] = "stop" /\ result[r] = "ok" /\ goal[r] # None => shell[goal[r]] = "dead"

\* A start that reports an error, its context alive, did not run the command:
\* bashHandler runs it another way then ("keep running once", README).
FailedStartNeverRan ==
  \A r \in Requests : result[r] = "error" /\ r \notin ctxDone => r \notin ran

\* Nobody waits for a state object that has been removed without completing it.
NoStrandedWait ==
  \A r \in Requests :
    pc[r] = "waiting" /\ goal[r] \notin {None, procOf} /\ kind[goal[r]] # "process"
      => goal[r] = tracked \/ goal[r] \in settled
=============================================================================
