----------------------------- MODULE HostProofs -----------------------------
(***************************************************************************)
(* What the extension host and the codespaces promise for any number of    *)
(* calls, codespaces, aliases and faults.                                  *)
(***************************************************************************)
EXTENDS Host, FiniteSetTheorems, TLAPS

Ended      == {"respond", "blocked", "done"}
Connecting == {"ready", "setup", "retired", "digest", "upload", "place", "verify", "wrap",
               "register"}

\* What a call has run, and said, at each step.
RunInv ==
  \A c \in Calls :
    /\ pc[c] \notin Ended \cup {"plain", "again"} => ran[c] = 0
    /\ pc[c] = "plain" => ran[c] \in {0, 1} /\ (tool[c] # "view" => ran[c] = 0)
    /\ pc[c] = "again" => /\ tool[c] = "bash" /\ ran[c] \in {0, 1}
                          /\ target[c] \in daemons => ran[c] = 0
    /\ pc[c] \in {"muxed", "plain"} => target[c] \notin daemons
    /\ pc[c] \in Ended /\ tool[c] = "edit" => ran[c] \in {0, 1}
    /\ pc[c] \in Ended /\ tool[c] = "bash" /\ target[c] \in daemons => ran[c] \in {0, 1}
    /\ pc[c] \notin Ended => result[c] = "none"
    /\ result[c] = "refused" => ran[c] = 0

\* What can be resolved was connected by a call that has ended, and whose
\* executor stays what it is.
TargetInv ==
  /\ \A a \in Aliases : registry[a] \in Calls => pc[registry[a]] \in Ended
  /\ \A c \in Calls : target[c] \in Calls => pc[target[c]] \in Ended
  /\ \A c \in Calls : tool[c] \notin {"edit", "bash"} => alias[c] \in Aliases
  /\ \A c \in Calls : pc[c] = "deregister" => tool[c] = "delete"
  /\ \A c \in Calls : pc[c] \in Connecting => tool[c] \in {"connect", "create"}

\* The executors, and the calls when the host ends.
OpenInv ==
  /\ \A a, b \in Aliases : a # b /\ registry[a] # None /\ registry[b] # None =>
       name[registry[a]] # name[registry[b]]
  /\ \A m \in open : \/ m \in Registered \/ (m \in Calls /\ pc[m] = "register")
                     \/ \E c \in Calls : pc[c] = "cleanup" /\ removed[c] = m
  /\ phase \in {"closing", "returned", "exited"} =>
       \A c \in Calls : pc[c] \in {"idle", "done"}
  /\ phase = "exited" => open = {}

\* Where the answer of a call is that has ended.
AnswerInv ==
  /\ IsFiniteSet(queue)
  /\ phase # "serving" \/ writer = "failed" \/ dropped # {} => stopping
  /\ writer = "stopped" => queue = {} /\ phase \in {"closing", "returned", "exited"}
  /\ \A c \in Calls : pc[c] = "done" => c \in queue \cup written \cup dropped

\* What the sampler knows of the pinned codespace.  Startup does not come back.
SampleInv ==
  /\ ~steady => \/ sampler = "publish"
                \/ sampler = "probing" /\ registry[Pinned] # Startup
  /\ sample = "branch" => sampler = "publish" /\ steady
  /\ sampler = "publish" => sample # "none"
  /\ sampler = "stopped" => published = "disconnected" \/ unwritten

HostInv ==
  /\ TypeOK /\ RunInv /\ TargetInv /\ OpenInv /\ HelperWhole /\ AnswerInv /\ SampleInv

-----------------------------------------------------------------------------
(* The steps of a tool call                                                *)

LEMMA ResolveType ==
  ASSUME CodespacesTypeOK, NEW a \in Aliases \cup {None}
  PROVE  Resolve(a) \in Registered \cup {None} /\ Registered \subseteq Managed
<1>1. Registered \subseteq Managed
  BY DEF CodespacesTypeOK, Registered
<1>2. ASSUME a # None PROVE Resolve(a) \in Registered \cup {None}
  BY <1>2 DEF Resolve, Registered
<1>3. ASSUME a = None PROVE Resolve(a) \in Registered \cup {None}
  <2>1. CASE \E m \in Registered : Registered = {m}
    <3>1. (CHOOSE m \in Registered : Registered = {m}) \in Registered
      BY <2>1
    <3> QED BY <1>3, <2>1, <3>1 DEF Resolve
  <2>2. CASE ~ \E m \in Registered : Registered = {m}
    BY <1>3, <2>2 DEF Resolve
  <2> QED BY <2>1, <2>2
<1> QED BY <1>1, <1>2, <1>3

\* What every step of a call does, whatever else.
AtWork == Steps \ {"idle", "respond", "blocked", "done"}
Works(c) ==
  /\ pc[c] \in AtWork
  /\ \E l \in AtWork \cup {"respond"} : pc' = [pc EXCEPT ![c] = l]
  /\ \A a \in Aliases : registry'[a] \in {registry[a], None, c}
  /\ UNCHANGED <<tool, name, stopping>>

LEMMA CallWorks ==
  ASSUME HostInv, NEW c \in Calls, ConnectStep(c) \/ DeleteStep(c) \/ CommandStep(c)
  PROVE  Works(c)
<1> USE CodespacesAssumption
    DEF HostInv, TypeOK, CodespacesTypeOK, AtWork, Steps, Works, callVars, sshVars, helperVars, executorVars
<1>1. CASE ConnectCheck(c)
  BY <1>1 DEF ConnectCheck, At, Goto, Return, FindByName, DefaultAlias
<1>2. CASE Create(c)
  BY <1>2 DEF Create, Fault, At, Goto, Return
<1>3. CASE WaitReady(c)
  BY <1>3 DEF WaitReady, Fault, At, Goto, Return
<1>4. CASE ReuseMaster(c)
  BY <1>4 DEF ReuseMaster, Fault, At, Goto
<1>5. CASE EstablishMaster(c)
  BY <1>5 DEF EstablishMaster, Fault, At, Goto, Return
<1>6. CASE CheckDigest(c)
  BY <1>6 DEF CheckDigest, Fault, At, Goto, Lost, Undeployed
<1>7. CASE Upload(c)
  BY <1>7 DEF Upload, Fault, At, Goto, Lost, Undeployed
<1>8. CASE Place(c)
  BY <1>8 DEF Place, Fault, At, Goto, Lost, Placed
<1>9. CASE Wrap(c)
  BY <1>9 DEF Wrap, Fault, At, Goto, Lost
<1>10. CASE Finish(c)
  BY <1>10 DEF Finish, At, Return, FindByName, Register
<1>11. CASE DeleteResolve(c)
  BY <1>11 DEF DeleteResolve, At, Goto, Return, Taken
<1>12. CASE DeleteDeregister(c)
  <2>1. /\ pc[c] = "deregister" /\ pc' = [pc EXCEPT ![c] = "cleanup"]
        /\ registry' = [registry EXCEPT ![alias[c]] = None]
        /\ UNCHANGED <<tool, name, stopping>>
    BY <1>12 DEF DeleteDeregister, At, Goto, Deregister
  <2>2. \A a \in Aliases : registry'[a] \in {registry[a], None}
    BY <2>1
  <2> QED BY <2>1, <2>2
<1>13. CASE DeleteCleanup(c)
  BY <1>13 DEF DeleteCleanup, At, Goto, Return
<1>14. CASE DeleteRemote(c)
  BY <1>14 DEF DeleteRemote, Fault, At, Return
<1>15. CASE WorkspaceCall(c)
  BY <1>15 DEF WorkspaceCall, At, Goto, Return, Filesystem, ConnectedPrimary
<1>16. CASE HandlerResolve(c)
  BY <1>16 DEF HandlerResolve, At, Goto, Return, Taken
<1>17. CASE RunOnDaemon(c)
  BY <1>17 DEF RunOnDaemon, Fault, At, Goto, Return, Effect, Started, Fails,
       FallsBack
<1>18. CASE RunDirect(c)
  BY <1>18 DEF RunDirect, At, Goto, Return
<1>19. CASE Muxed(c)
  BY <1>19 DEF Muxed, Fault, At, Goto, Return, Started, Effect, Broken, Retryable,
       RunAgain, Fails, FallsBack
<1>20. CASE Plain(c)
  BY <1>20 DEF Plain, Fault, At, Goto, Return, Started, Effect, Fails, FallsBack
<1>21. CASE RunBash(c)
  BY <1>21 DEF RunBash, Fault, At, Return, Started, Effect
<1> QED
  BY <1>1, <1>2, <1>3, <1>4, <1>5, <1>6, <1>7, <1>8, <1>9, <1>10, <1>11, <1>12,
     <1>13, <1>14, <1>15, <1>16, <1>17, <1>18, <1>19, <1>20, <1>21 DEF ConnectStep,
     DeleteStep, CommandStep

LEMMA ConnectTypes ==
  ASSUME HostInv, NEW c \in Calls, ConnectStep(c)
  PROVE  CodespacesTypeOK'
<1> USE CodespacesAssumption
    DEF HostInv, TypeOK, CodespacesTypeOK, Steps, Managed, callVars, sshVars, helperVars, executorVars
<1>1. CASE ConnectCheck(c)
  BY <1>1 DEF ConnectCheck, At, Goto, Return, FindByName, DefaultAlias
<1>2. CASE Create(c)
  BY <1>2 DEF Create, Fault, At, Goto, Return
<1>3. CASE WaitReady(c)
  BY <1>3 DEF WaitReady, Fault, At, Goto, Return
<1>4. CASE ReuseMaster(c)
  BY <1>4 DEF ReuseMaster, Fault, At, Goto
<1>5. CASE EstablishMaster(c)
  BY <1>5 DEF EstablishMaster, Fault, At, Goto, Return
<1>6. CASE CheckDigest(c)
  BY <1>6 DEF CheckDigest, Fault, At, Goto, Lost, Undeployed
<1>7. CASE Upload(c)
  BY <1>7 DEF Upload, Fault, At, Goto, Lost, Undeployed
<1>8. CASE Place(c)
  BY <1>8 DEF Place, Fault, At, Goto, Lost, Placed
<1>9. CASE Wrap(c)
  BY <1>9 DEF Wrap, Fault, At, Goto, Lost
<1>10. CASE Finish(c)
  BY <1>10 DEF Finish, At, Return, FindByName, Register
<1> QED
  BY <1>1, <1>2, <1>3, <1>4, <1>5, <1>6, <1>7, <1>8, <1>9, <1>10 DEF ConnectStep

LEMMA DeleteTypes ==
  ASSUME HostInv, NEW c \in Calls, DeleteStep(c)
  PROVE  CodespacesTypeOK'
<1> USE CodespacesAssumption
    DEF HostInv, TypeOK, CodespacesTypeOK, TargetInv, Steps, Managed, callVars, sshVars, helperVars, executorVars
<1>1. CASE DeleteResolve(c)
  BY <1>1, ResolveType DEF DeleteResolve, At, Goto, Return, Taken
<1>2. CASE DeleteDeregister(c)
  BY <1>2 DEF DeleteDeregister, At, Goto, Deregister
<1>3. CASE DeleteCleanup(c)
  BY <1>3 DEF DeleteCleanup, At, Goto, Return
<1>4. CASE DeleteRemote(c)
  BY <1>4 DEF DeleteRemote, Fault, At, Return
<1> QED
  BY <1>1, <1>2, <1>3, <1>4 DEF DeleteStep

LEMMA CommandTypes ==
  ASSUME HostInv, NEW c \in Calls, CommandStep(c)
  PROVE  CodespacesTypeOK'
<1> USE CodespacesAssumption
    DEF HostInv, TypeOK, CodespacesTypeOK, Steps, Managed, RunInv, Ended, callVars, sshVars, helperVars, executorVars
<1>1. CASE WorkspaceCall(c)
  BY <1>1 DEF WorkspaceCall, At, Goto, Return, Filesystem, ConnectedPrimary
<1>2. CASE HandlerResolve(c)
  BY <1>2, ResolveType DEF HandlerResolve, At, Goto, Return, Taken
<1>3. CASE RunOnDaemon(c)
  BY <1>3 DEF RunOnDaemon, Fault, At, Goto, Return, Effect, Started, Fails,
       FallsBack
<1>4. CASE RunDirect(c)
  BY <1>4 DEF RunDirect, At, Goto, Return
<1>5. CASE Muxed(c)
  BY <1>5 DEF Muxed, Fault, At, Goto, Return, Started, Effect, Broken, Retryable,
       RunAgain, Fails, FallsBack
<1>6. CASE Plain(c)
  BY <1>6 DEF Plain, Fault, At, Goto, Return, Started, Effect, Fails, FallsBack
<1>7. CASE RunBash(c)
  BY <1>7 DEF RunBash, Fault, At, Return, Started, Effect
<1> QED
  BY <1>1, <1>2, <1>3, <1>4, <1>5, <1>6, <1>7 DEF CommandStep

LEMMA CallRuns ==
  ASSUME HostInv, NEW c \in Calls, ConnectStep(c) \/ DeleteStep(c) \/ CommandStep(c)
  PROVE  RunInv'
<1> USE DEF HostInv, TypeOK, CodespacesTypeOK, Steps, Ended, RunInv, callVars, sshVars, helperVars, executorVars
<1>1. CASE ConnectCheck(c)
  BY <1>1 DEF ConnectCheck, At, Goto, Return, FindByName, DefaultAlias
<1>2. CASE Create(c)
  BY <1>2 DEF Create, Fault, At, Goto, Return
<1>3. CASE WaitReady(c)
  BY <1>3 DEF WaitReady, Fault, At, Goto, Return
<1>4. CASE ReuseMaster(c)
  BY <1>4 DEF ReuseMaster, Fault, At, Goto
<1>5. CASE EstablishMaster(c)
  BY <1>5 DEF EstablishMaster, Fault, At, Goto, Return
<1>6. CASE CheckDigest(c)
  BY <1>6 DEF CheckDigest, Fault, At, Goto, Lost, Undeployed
<1>7. CASE Upload(c)
  BY <1>7 DEF Upload, Fault, At, Goto, Lost, Undeployed
<1>8. CASE Place(c)
  BY <1>8 DEF Place, Fault, At, Goto, Lost, Placed
<1>9. CASE Wrap(c)
  BY <1>9, CodespacesAssumption DEF Wrap, Fault, At, Goto, Lost, TargetInv, Managed
<1>10. CASE Finish(c)
  BY <1>10 DEF Finish, At, Return, FindByName, Register
<1>11. CASE DeleteResolve(c)
  BY <1>11 DEF DeleteResolve, At, Goto, Return, Taken
<1>12. CASE DeleteDeregister(c)
  BY <1>12 DEF DeleteDeregister, At, Goto, Deregister
<1>13. CASE DeleteCleanup(c)
  BY <1>13 DEF DeleteCleanup, At, Goto, Return
<1>14. CASE DeleteRemote(c)
  BY <1>14 DEF DeleteRemote, Fault, At, Return
<1>15. CASE WorkspaceCall(c)
  BY <1>15 DEF WorkspaceCall, At, Goto, Return, Filesystem, ConnectedPrimary
<1>16. CASE HandlerResolve(c)
  BY <1>16 DEF HandlerResolve, At, Goto, Return, Taken
<1>17. CASE RunOnDaemon(c)
  BY <1>17 DEF RunOnDaemon, Fault, At, Goto, Return, Effect, Started, Fails,
       FallsBack
<1>18. CASE RunDirect(c)
  BY <1>18 DEF RunDirect, At, Goto, Return
<1>19. CASE Muxed(c)
  BY <1>19 DEF Muxed, Fault, At, Goto, Return, Started, Effect, Broken, Retryable,
       RunAgain, Fails, FallsBack
<1>20. CASE Plain(c)
  BY <1>20 DEF Plain, Fault, At, Goto, Return, Started, Effect, Fails, FallsBack
<1>21. CASE RunBash(c)
  BY <1>21 DEF RunBash, Fault, At, Return, Started, Effect
<1> QED
  BY <1>1, <1>2, <1>3, <1>4, <1>5, <1>6, <1>7, <1>8, <1>9, <1>10, <1>11, <1>12,
     <1>13, <1>14, <1>15, <1>16, <1>17, <1>18, <1>19, <1>20, <1>21 DEF ConnectStep,
     DeleteStep, CommandStep

LEMMA CallTargets ==
  ASSUME HostInv, NEW c \in Calls, ConnectStep(c) \/ DeleteStep(c) \/ CommandStep(c)
  PROVE  TargetInv'
<1> USE CodespacesAssumption
    DEF HostInv, TypeOK, CodespacesTypeOK, Managed, Steps, Ended, TargetInv, Connecting, callVars, sshVars, helperVars, executorVars
<1>1. CASE ConnectCheck(c)
  BY <1>1 DEF ConnectCheck, At, Goto, Return, FindByName, DefaultAlias
<1>2. CASE Create(c)
  BY <1>2 DEF Create, Fault, At, Goto, Return
<1>3. CASE WaitReady(c)
  BY <1>3 DEF WaitReady, Fault, At, Goto, Return
<1>4. CASE ReuseMaster(c)
  BY <1>4 DEF ReuseMaster, Fault, At, Goto
<1>5. CASE EstablishMaster(c)
  BY <1>5 DEF EstablishMaster, Fault, At, Goto, Return
<1>6. CASE CheckDigest(c)
  BY <1>6 DEF CheckDigest, Fault, At, Goto, Lost, Undeployed
<1>7. CASE Upload(c)
  BY <1>7 DEF Upload, Fault, At, Goto, Lost, Undeployed
<1>8. CASE Place(c)
  BY <1>8 DEF Place, Fault, At, Goto, Lost, Placed
<1>9. CASE Wrap(c)
  BY <1>9 DEF Wrap, Fault, At, Goto, Lost
<1>10. CASE Finish(c)
  BY <1>10 DEF Finish, At, Return, FindByName, Register
<1>11. CASE DeleteResolve(c)
  BY <1>11, ResolveType DEF DeleteResolve, At, Goto, Return, Taken, Registered
<1>12. CASE DeleteDeregister(c)
  BY <1>12 DEF DeleteDeregister, At, Goto, Deregister
<1>13. CASE DeleteCleanup(c)
  BY <1>13 DEF DeleteCleanup, At, Goto, Return
<1>14. CASE DeleteRemote(c)
  BY <1>14 DEF DeleteRemote, Fault, At, Return
<1>15. CASE WorkspaceCall(c)
  BY <1>15 DEF WorkspaceCall, At, Goto, Return, Filesystem, ConnectedPrimary
<1>16. CASE HandlerResolve(c)
  BY <1>16, ResolveType DEF HandlerResolve, At, Goto, Return, Taken, Registered
<1>17. CASE RunOnDaemon(c)
  BY <1>17 DEF RunOnDaemon, Fault, At, Goto, Return, Effect, Started, Fails,
       FallsBack
<1>18. CASE RunDirect(c)
  BY <1>18 DEF RunDirect, At, Goto, Return
<1>19. CASE Muxed(c)
  BY <1>19 DEF Muxed, Fault, At, Goto, Return, Started, Effect, Broken, Retryable,
       RunAgain, Fails, FallsBack
<1>20. CASE Plain(c)
  BY <1>20 DEF Plain, Fault, At, Goto, Return, Started, Effect, Fails, FallsBack
<1>21. CASE RunBash(c)
  BY <1>21 DEF RunBash, Fault, At, Return, Started, Effect
<1> QED
  BY <1>1, <1>2, <1>3, <1>4, <1>5, <1>6, <1>7, <1>8, <1>9, <1>10, <1>11, <1>12,
     <1>13, <1>14, <1>15, <1>16, <1>17, <1>18, <1>19, <1>20, <1>21 DEF ConnectStep,
     DeleteStep, CommandStep

LEMMA CallHelper ==
  ASSUME HostInv, NEW c \in Calls, ConnectStep(c) \/ DeleteStep(c) \/ CommandStep(c)
  PROVE  HelperWhole'
<1> USE CodespacesAssumption
    DEF HostInv, TypeOK, CodespacesTypeOK, Managed, HelperWhole, callVars, sshVars, helperVars, executorVars
<1>1. CASE ConnectCheck(c)
  BY <1>1 DEF ConnectCheck, At, Goto, Return, FindByName, DefaultAlias
<1>2. CASE Create(c)
  BY <1>2 DEF Create, Fault, At, Goto, Return
<1>3. CASE WaitReady(c)
  BY <1>3 DEF WaitReady, Fault, At, Goto, Return
<1>4. CASE ReuseMaster(c)
  BY <1>4 DEF ReuseMaster, Fault, At, Goto
<1>5. CASE EstablishMaster(c)
  BY <1>5 DEF EstablishMaster, Fault, At, Goto, Return
<1>6. CASE CheckDigest(c)
  BY <1>6 DEF CheckDigest, Fault, At, Goto, Lost, Undeployed
<1>7. CASE Upload(c)
  BY <1>7 DEF Upload, Fault, At, Goto, Lost, Undeployed
<1>8. CASE Place(c)
  BY <1>8 DEF Place, Fault, At, Goto, Lost, Placed
<1>9. CASE Wrap(c)
  BY <1>9 DEF Wrap, Fault, At, Goto, Lost
<1>10. CASE Finish(c)
  BY <1>10 DEF Finish, At, Return, FindByName, Register
<1>11. CASE DeleteResolve(c)
  BY <1>11 DEF DeleteResolve, At, Goto, Return, Taken
<1>12. CASE DeleteDeregister(c)
  BY <1>12 DEF DeleteDeregister, At, Goto, Deregister
<1>13. CASE DeleteCleanup(c)
  BY <1>13 DEF DeleteCleanup, At, Goto, Return
<1>14. CASE DeleteRemote(c)
  BY <1>14 DEF DeleteRemote, Fault, At, Return
<1>15. CASE WorkspaceCall(c)
  BY <1>15 DEF WorkspaceCall, At, Goto, Return, Filesystem, ConnectedPrimary
<1>16. CASE HandlerResolve(c)
  BY <1>16 DEF HandlerResolve, At, Goto, Return, Taken
<1>17. CASE RunOnDaemon(c)
  BY <1>17 DEF RunOnDaemon, Fault, At, Goto, Return, Effect, Started, Fails,
       FallsBack
<1>18. CASE RunDirect(c)
  BY <1>18 DEF RunDirect, At, Goto, Return
<1>19. CASE Muxed(c)
  BY <1>19 DEF Muxed, Fault, At, Goto, Return, Started, Effect, Broken, Retryable,
       RunAgain, Fails, FallsBack
<1>20. CASE Plain(c)
  BY <1>20 DEF Plain, Fault, At, Goto, Return, Started, Effect, Fails, FallsBack
<1>21. CASE RunBash(c)
  BY <1>21 DEF RunBash, Fault, At, Return, Started, Effect
<1> QED
  BY <1>1, <1>2, <1>3, <1>4, <1>5, <1>6, <1>7, <1>8, <1>9, <1>10, <1>11, <1>12,
     <1>13, <1>14, <1>15, <1>16, <1>17, <1>18, <1>19, <1>20, <1>21 DEF ConnectStep,
     DeleteStep, CommandStep

LEMMA CallLeavesOpen ==
  ASSUME HostInv, NEW c \in Calls,
         ConnectCheck(c) \/ Create(c) \/ WaitReady(c) \/ ReuseMaster(c) \/
         EstablishMaster(c) \/ CheckDigest(c) \/ Upload(c) \/ Place(c) \/
         DeleteResolve(c) \/ DeleteRemote(c) \/ WorkspaceCall(c) \/
         HandlerResolve(c) \/ RunOnDaemon(c) \/ RunDirect(c) \/ Muxed(c) \/
         Plain(c) \/ RunBash(c)
  PROVE  UNCHANGED <<open, registry, removed>> /\ pc[c] \notin {"register", "cleanup"}
<1> USE DEF callVars, sshVars, helperVars, executorVars
<1>1. CASE ConnectCheck(c)
  BY <1>1 DEF ConnectCheck, At, Goto, Return, FindByName, DefaultAlias
<1>2. CASE Create(c)
  BY <1>2 DEF Create, Fault, At, Goto, Return
<1>3. CASE WaitReady(c)
  BY <1>3 DEF WaitReady, Fault, At, Goto, Return
<1>4. CASE ReuseMaster(c)
  BY <1>4 DEF ReuseMaster, Fault, At, Goto
<1>5. CASE EstablishMaster(c)
  BY <1>5 DEF EstablishMaster, Fault, At, Goto, Return
<1>6. CASE CheckDigest(c)
  BY <1>6 DEF CheckDigest, Fault, At, Goto, Lost, Undeployed
<1>7. CASE Upload(c)
  BY <1>7 DEF Upload, Fault, At, Goto, Lost, Undeployed
<1>8. CASE Place(c)
  BY <1>8 DEF Place, Fault, At, Goto, Lost, Placed
<1>9. CASE DeleteResolve(c)
  BY <1>9 DEF DeleteResolve, At, Goto, Return, Taken
<1>10. CASE DeleteRemote(c)
  BY <1>10 DEF DeleteRemote, Fault, At, Return
<1>11. CASE WorkspaceCall(c)
  BY <1>11 DEF WorkspaceCall, At, Goto, Return, Filesystem, ConnectedPrimary
<1>12. CASE HandlerResolve(c)
  BY <1>12 DEF HandlerResolve, At, Goto, Return, Taken
<1>13. CASE RunOnDaemon(c)
  BY <1>13 DEF RunOnDaemon, Fault, At, Goto, Return, Effect, Started, Fails,
       FallsBack
<1>14. CASE RunDirect(c)
  BY <1>14 DEF RunDirect, At, Goto, Return
<1>15. CASE Muxed(c)
  BY <1>15 DEF Muxed, Fault, At, Goto, Return, Started, Effect, Broken, Retryable,
       RunAgain, Fails, FallsBack
<1>16. CASE Plain(c)
  BY <1>16 DEF Plain, Fault, At, Goto, Return, Started, Effect, Fails, FallsBack
<1>17. CASE RunBash(c)
  BY <1>17 DEF RunBash, Fault, At, Return, Started, Effect
<1> QED
  BY <1>1, <1>2, <1>3, <1>4, <1>5, <1>6, <1>7, <1>8, <1>9, <1>10, <1>11, <1>12,
     <1>13, <1>14, <1>15, <1>16, <1>17

LEMMA CallOpen ==
  ASSUME HostInv, NEW c \in Calls, ConnectStep(c) \/ DeleteStep(c) \/ CommandStep(c),
         phase' = phase, phase # "exited"
  PROVE  OpenInv'
<1> USE CodespacesAssumption
    DEF HostInv, TypeOK, CodespacesTypeOK, Managed, OpenInv, Registered
<1>1. Works(c) /\ phase \notin {"closing", "returned", "exited"}
  BY CallWorks DEF Works, AtWork, OpenInv
<1>2. ASSUME UNCHANGED <<open, registry, removed>>, pc[c] \notin {"register", "cleanup"}
      PROVE  OpenInv'
  BY <1>1, <1>2 DEF Works
<1>3. CASE Wrap(c)
  <2>1. open' \subseteq open \cup {c} /\ pc[c] = "wrap" /\ pc' = [pc EXCEPT ![c] = "register"]
        /\ UNCHANGED <<registry, removed, name>>
    BY <1>3 DEF Wrap, At, Goto, executorVars, callVars
  <2>2. \A d \in Calls : pc'[d] = "cleanup" <=> pc[d] = "cleanup"
    BY <2>1
  <2>3. pc'[c] = "register" /\ \A d \in Calls : pc[d] = "register" => pc'[d] = "register"
    BY <2>1
  <2> QED BY <1>1, <2>1, <2>2, <2>3
<1>4. CASE Finish(c)
  <2>1. pc[c] = "register" /\ UNCHANGED <<removed, name>> /\ pc' = [pc EXCEPT ![c] = "respond"]
    BY <1>4 DEF Finish, At, Return, callVars
  <2>2. CASE Register(c) /\ UNCHANGED open
    BY <1>1, <2>1, <2>2 DEF Register, FindByName, TargetInv, Connecting
  <2>3. CASE open' = open \ {c} /\ UNCHANGED registry
    BY <1>1, <2>1, <2>3
  <2> QED BY <1>4, <2>2, <2>3 DEF Finish
<1>5. CASE DeleteDeregister(c)
  <2>1. /\ registry' = [registry EXCEPT ![alias[c]] = None] /\ alias[c] \in Aliases
        /\ removed' = [removed EXCEPT ![c] = registry[alias[c]]]
        /\ UNCHANGED <<open, name>> /\ pc[c] = "deregister"
        /\ pc' = [pc EXCEPT ![c] = "cleanup"]
    BY <1>5 DEF DeleteDeregister, Deregister, At, Goto, TargetInv, callVars, executorVars
  <2> QED BY <1>1, <2>1
<1>6. CASE DeleteCleanup(c)
  <2>1. /\ open' = open \ {removed[c]} /\ removed' = [removed EXCEPT ![c] = None]
        /\ UNCHANGED <<registry, name>> /\ pc[c] = "cleanup"
    BY <1>6 DEF DeleteCleanup, At, callVars
  <2>2. \A d \in Calls : d # c => pc'[d] = pc[d] /\ removed'[d] = removed[d]
    BY <1>1, <2>1 DEF Works
  <2> QED BY <1>1, <2>1, <2>2
<1> QED
  BY <1>2, <1>3, <1>4, <1>5, <1>6, CallLeavesOpen DEF ConnectStep, DeleteStep, CommandStep

LEMMA CallSample ==
  ASSUME HostInv, NEW c \in Calls, Works(c), Watch,
         UNCHANGED <<phase, writerVars, sampler, sample, published, unwritten>>
  PROVE  AnswerInv' /\ SampleInv'
<1> USE CodespacesAssumption DEF HostInv, TypeOK, CodespacesTypeOK, Works, AtWork, writerVars
<1>1. AnswerInv'
  BY DEF AnswerInv
<1>2. SampleInv'
  BY DEF SampleInv, Watch
<1> QED BY <1>1, <1>2

LEMMA NetworkInv ==
  ASSUME HostInv, MasterDies \/ Retire \/ Refresh, Watch,
         UNCHANGED <<serverVars, writerVars, sampler, sample, published, unwritten>>
  PROVE  HostInv'
<1> USE CodespacesAssumption DEF HostInv, TypeOK, serverVars, writerVars
<1>1. /\ CodespacesTypeOK'
      /\ UNCHANGED <<callVars, helperVars, executorVars, pc, result, target,
                      removed, ran, registry, stopping>>
  <2>1. CASE MasterDies
    BY <2>1 DEF MasterDies, Fault, CodespacesTypeOK, callVars, helperVars, executorVars
  <2>2. CASE Retire
    BY <2>2 DEF Retire, Fault, CodespacesTypeOK, callVars, helperVars, executorVars
  <2>3. CASE Refresh
    BY <2>3 DEF Refresh, CodespacesTypeOK, callVars, helperVars, executorVars
  <2> QED BY <2>1, <2>2, <2>3
<1>2. RunInv' /\ TargetInv' /\ OpenInv' /\ HelperWhole'
  BY <1>1 DEF RunInv, TargetInv, OpenInv, Registered, HelperWhole, callVars, helperVars, executorVars
<1>3. AnswerInv' /\ SampleInv'
  BY <1>1 DEF AnswerInv, SampleInv, Watch
<1>4. TypeOK'
  BY <1>1 DEF Watch
<1> QED BY <1>2, <1>3, <1>4

\* Every step of the codespaces keeps the invariant.
LEMMA CodespaceInv == ASSUME HostInv, CodespaceStep PROVE HostInv'
<1>1. ASSUME NEW c \in Calls, ConnectStep(c) \/ DeleteStep(c) \/ CommandStep(c)
      PROVE  HostInv'
  <2>1. CodespacesTypeOK' /\ Works(c)
    BY <1>1, ConnectTypes, DeleteTypes, CommandTypes, CallWorks
  <2>2. TypeOK'
    BY <2>1 DEF HostInv, TypeOK, CodespaceStep, Watch, serverVars, writerVars
  <2>3. RunInv' /\ TargetInv' /\ OpenInv' /\ HelperWhole'
    BY <1>1, CallRuns, CallTargets, CallOpen, CallHelper DEF CodespaceStep, serverVars
  <2>4. AnswerInv' /\ SampleInv'
    BY <2>1, CallSample DEF CodespaceStep, serverVars
  <2> QED BY <2>2, <2>3, <2>4 DEF HostInv
<1> QED BY <1>1, NetworkInv DEF CodespaceStep

-----------------------------------------------------------------------------
(* The steps of the host                                                   *)

\* Adding an answer to a channel that has room.
LEMMA QueueAdds ==
  ASSUME NEW c \in Calls, TypeOK, IsFiniteSet(queue), Cardinality(queue) < Cap
  PROVE  /\ queue \cup {c} \subseteq Calls /\ IsFiniteSet(queue \cup {c})
         /\ Cardinality(queue \cup {c}) <= Cap
<1>1. Cardinality(queue) \in Nat
  BY FS_CardinalityType
<1>2. /\ IsFiniteSet(queue \cup {c})
      /\ Cardinality(queue \cup {c}) =
           IF c \in queue THEN Cardinality(queue) ELSE Cardinality(queue) + 1
  BY FS_AddElement
<1> QED BY <1>1, <1>2, HostAssumption DEF TypeOK

LEMMA QueueTakes ==
  ASSUME NEW c, TypeOK, IsFiniteSet(queue)
  PROVE  /\ queue \ {c} \subseteq Calls /\ IsFiniteSet(queue \ {c})
         /\ Cardinality(queue \ {c}) <= Cap
<1>1. Cardinality(queue) \in Nat
  BY FS_CardinalityType
<1>2. /\ IsFiniteSet(queue \ {c})
      /\ Cardinality(queue \ {c}) =
           IF c \in queue THEN Cardinality(queue) - 1 ELSE Cardinality(queue)
  BY FS_RemoveElement
<1> QED BY <1>1, <1>2, HostAssumption DEF TypeOK

LEMMA NoQueue == {} \subseteq Calls /\ IsFiniteSet({}) /\ Cardinality({}) <= Cap
BY HostAssumption, FS_EmptySet

\* A step that only moves a call from one label of its end to another.
LEMMA EndingCall ==
  ASSUME HostInv, NEW c \in Calls, Receive(c) \/ Respond(c)
  PROVE  CodespacesTypeOK' /\ RunInv' /\ TargetInv' /\ OpenInv' /\ HelperWhole' /\ SampleInv'
<1> USE DEF HostInv, TypeOK, CodespacesTypeOK, callVars, sshVars, helperVars,
            executorVars, serverVars, samplerVars, At, Goto
<1>1. /\ UNCHANGED <<callVars, sshVars, helperVars, result, target, removed, ran, registry,
                      executorVars, github, stopping, faults, serverVars, samplerVars>>
      /\ \/ pc[c] = "idle" /\ phase = "serving" /\ pc' = [pc EXCEPT ![c] = "start"]
         \/ pc[c] \in {"respond", "blocked"} /\ pc' = [pc EXCEPT ![c] = "done"]
         \/ pc[c] \in {"respond", "blocked"} /\ pc' = [pc EXCEPT ![c] = "blocked"]
  BY DEF Receive, Respond
<1>2. CodespacesTypeOK'
  BY <1>1 DEF Steps
<1>3. RunInv' /\ TargetInv' /\ HelperWhole'
  BY <1>1 DEF RunInv, TargetInv, Connecting, Ended, HelperWhole
<1>4. OpenInv' /\ SampleInv'
  BY <1>1 DEF OpenInv, Registered, SampleInv
<1> QED BY <1>2, <1>3, <1>4

LEMMA ReceiveInv == ASSUME HostInv, NEW c \in Calls, Receive(c) PROVE HostInv'
<1>1. TypeOK'
  BY EndingCall DEF HostInv, TypeOK, Receive, serverVars, writerVars, samplerVars
<1>2. AnswerInv'
  BY DEF HostInv, TypeOK, CodespacesTypeOK, AnswerInv, Receive, At, Goto, serverVars, writerVars
<1> QED BY <1>1, <1>2, EndingCall DEF HostInv

LEMMA RespondInv == ASSUME HostInv, NEW c \in Calls, Respond(c) PROVE HostInv'
<1> USE DEF HostInv, AnswerInv, serverVars, samplerVars, At, Goto
<1>1. \/ Cardinality(queue) < Cap /\ queue' = queue \cup {c} /\ dropped' = dropped
      \/ queue' = queue /\ dropped' = dropped
      \/ queue' = queue /\ dropped' = dropped \cup {c}
  BY DEF Respond
<1>2. queue' \subseteq Calls /\ IsFiniteSet(queue') /\ Cardinality(queue') <= Cap
  BY <1>1, QueueAdds DEF TypeOK
<1>3. TypeOK'
  BY <1>1, <1>2, EndingCall DEF TypeOK, Respond
<1>4. AnswerInv'
  <2>1. phase \notin {"closing", "returned", "exited"} /\ writer # "stopped"
    BY DEF OpenInv, Respond
  <2> QED BY <1>1, <1>2, <2>1 DEF Respond, TypeOK, CodespacesTypeOK
<1> QED BY <1>3, <1>4, EndingCall

\* Writing an answer, or throwing what is left away.
LEMMA WriterInv ==
  ASSUME HostInv, Write \/ WriterFails \/ WriterDrains \/ WriterStops
  PROVE  HostInv'
<1> USE DEF HostInv, codespaceVars, callVars, sshVars, helperVars, executorVars, serverVars, samplerVars
<1>1. \/ \E c \in queue : queue' = queue \ {c}
      \/ queue' = {} \/ queue' = queue
  BY DEF Write, WriterFails, WriterDrains, WriterStops
<1>2. queue' \subseteq Calls /\ IsFiniteSet(queue') /\ Cardinality(queue') <= Cap
  BY <1>1, QueueTakes, NoQueue DEF AnswerInv, TypeOK
<1>3. /\ UNCHANGED <<callVars, sshVars, helperVars, pc, result, target, removed, ran, registry,
                      executorVars, github, serverVars, samplerVars>>
      /\ stopping' \in {stopping, TRUE} /\ faults' \in 0 .. MaxFaults
  <2> USE CodespacesAssumption DEF TypeOK, CodespacesTypeOK
  <2>1. CASE Write
    BY <2>1 DEF Write
  <2>2. CASE WriterFails
    BY <2>2 DEF WriterFails, Fault
  <2>3. CASE WriterDrains
    BY <2>3 DEF WriterDrains
  <2>4. CASE WriterStops
    BY <2>4 DEF WriterStops
  <2> QED BY <2>1, <2>2, <2>3, <2>4
<1>4. TypeOK'
  <2>1. CodespacesTypeOK'
    BY <1>3 DEF TypeOK, CodespacesTypeOK
  <2> QED BY <1>2, <1>3, <2>1
          DEF TypeOK, Write, WriterFails, WriterDrains, WriterStops
<1>5. RunInv' /\ TargetInv' /\ OpenInv' /\ HelperWhole' /\ SampleInv'
  BY <1>3 DEF RunInv, TargetInv, OpenInv, Registered, HelperWhole, SampleInv
<1>6. AnswerInv'
  BY <1>2 DEF AnswerInv, Write, WriterFails, WriterDrains, WriterStops
<1> QED BY <1>4, <1>5, <1>6

\* The end of the host.
LEMMA EndInv == ASSUME HostInv, Drain \/ Close \/ Returns \/ Cleanup PROVE HostInv'
<1> USE DEF HostInv, codespaceVars, callVars, sshVars, helperVars, executorVars, writerVars, samplerVars
<1>1. /\ UNCHANGED <<callVars, sshVars, helperVars, pc, result, target, removed, ran, registry,
                      daemons, github, faults, writerVars, samplerVars>>
      /\ stopping' \in {stopping, TRUE} /\ open' \subseteq open
  BY DEF Drain, Close, Returns, Cleanup
<1>2. TypeOK'
  <2>1. CodespacesTypeOK'
    BY <1>1 DEF TypeOK, CodespacesTypeOK
  <2>2. /\ phase' \in {"serving", "draining", "closing", "returned", "exited"}
        /\ signalled' \in BOOLEAN
    BY DEF Drain, Close, Returns, Cleanup, TypeOK
  <2> QED BY <1>1, <2>1, <2>2 DEF TypeOK
<1>3. RunInv' /\ TargetInv' /\ HelperWhole' /\ SampleInv'
  BY <1>1 DEF RunInv, TargetInv, HelperWhole, SampleInv
<1>4. OpenInv'
  <2>1. CASE Drain \/ Close \/ Returns
    BY <2>1 DEF OpenInv, Registered, Drain, Close, Returns, At
  <2>2. CASE Cleanup
    <3>1. \A m \in open : m \in Registered
      BY <2>2 DEF OpenInv, Cleanup
    <3>2. open' = {}
      BY <2>2, <3>1 DEF Cleanup, Registered
    <3> QED BY <2>2, <3>2 DEF OpenInv, Cleanup
  <2> QED BY <2>1, <2>2
<1>5. AnswerInv'
  BY <1>1 DEF AnswerInv, Drain, Close, Returns, Cleanup, TypeOK, CodespacesTypeOK
<1> QED BY <1>2, <1>3, <1>4, <1>5

LEMMA SamplerInv == ASSUME HostInv, Sampler PROVE HostInv'
<1> USE DEF HostInv, codespaceVars, callVars, sshVars, helperVars, executorVars, serverVars, writerVars
<1>1. /\ UNCHANGED <<callVars, sshVars, helperVars, pc, result, target, removed, ran, registry,
                      executorVars, github, stopping, serverVars, writerVars>>
      /\ faults' \in 0 .. MaxFaults
  BY CodespacesAssumption
     DEF Sampler, SampleBegin, SampleEnd, PublishSample, SamplerStops, Publish,
         Unpublished, Fault, TypeOK, CodespacesTypeOK
<1>2. CodespacesTypeOK'
  BY <1>1 DEF TypeOK, CodespacesTypeOK
<1>3. RunInv' /\ TargetInv' /\ OpenInv' /\ HelperWhole' /\ AnswerInv'
  BY <1>1 DEF RunInv, TargetInv, OpenInv, Registered, HelperWhole, AnswerInv
<1>4. TypeOK' /\ SampleInv'
  <2> USE <1>1, <1>2 DEF TypeOK, SampleInv
  <2>1. CASE SampleBegin
    BY <2>1 DEF SampleBegin
  <2>2. CASE SampleEnd
    BY <2>2, CodespacesAssumption DEF SampleEnd, ConnectedPrimary, Resolve
  <2>3. CASE PublishSample
    BY <2>3 DEF PublishSample, Publish, Unpublished
  <2>4. CASE SamplerStops
    BY <2>4 DEF SamplerStops, Publish, Unpublished
  <2> QED BY <2>1, <2>2, <2>3, <2>4 DEF Sampler
<1> QED BY <1>3, <1>4

-----------------------------------------------------------------------------
(* The invariant                                                           *)

LEMMA InitInv == Init => HostInv
<1> SUFFICES ASSUME Init PROVE HostInv
  OBVIOUS
<1> USE CodespacesAssumption, HostAssumption DEF Init, CodespacesInit
<1>1. TypeOK
  <2>1. /\ pc \in [Calls -> Steps] /\ result \in [Calls -> {"none", "ok", "refused", "failed"}]
        /\ target \in [Calls -> Managed \cup {None}] /\ ran \in [Calls -> 0 .. 2]
        /\ removed \in [Calls -> Managed \cup {None}]
        /\ registry \in [Aliases -> Managed \cup {None}]
        /\ seen \in [Calls -> {"none", "corrupt", "whole"}]
    BY DEF Steps, Managed
  <2>2. /\ daemons \subseteq Managed /\ open \subseteq daemons
        /\ mux \subseteq Managed /\ selected \subseteq Managed
    BY DEF Managed
  <2>3. name \in [Managed -> Names]
    OBVIOUS
  <2>4. github \subseteq Names /\ master \subseteq Names
    BY <2>2, <2>3
  <2>5. faults \in 0 .. MaxFaults
    OBVIOUS
  <2>6. stopping \in BOOLEAN
    OBVIOUS
  <2>7. CodespacesTypeOK
    BY <2>1, <2>2, <2>3, <2>4, <2>5, <2>6 DEF CodespacesTypeOK
  <2> QED BY <2>7, NoQueue DEF TypeOK
<1>2. RunInv /\ TargetInv /\ HelperWhole /\ SampleInv
  BY DEF RunInv, TargetInv, Connecting, Ended, HelperWhole, SampleInv
<1>3. OpenInv
  BY DEF OpenInv, Registered
<1>4. AnswerInv
  BY NoQueue DEF AnswerInv
<1> QED BY <1>1, <1>2, <1>3, <1>4 DEF HostInv

LEMMA NextInv == ASSUME HostInv, [Next]_vars PROVE HostInv'
<1>1. CASE UNCHANGED vars
  BY <1>1 DEF vars, codespaceVars, callVars, sshVars, helperVars, executorVars, serverVars, writerVars,
              samplerVars, HostInv, TypeOK, CodespacesTypeOK, RunInv, TargetInv, OpenInv, Registered,
              HelperWhole, AnswerInv, SampleInv
<1> QED
  BY <1>1, CodespaceInv, ReceiveInv, RespondInv, WriterInv, EndInv, SamplerInv
     DEF Next, Finished

\* HostInv holds in every state of every number of calls.
THEOREM HostInvariant == Spec => []HostInv
BY InitInv, NextInv, PTL DEF Spec

\* The state of the host, the registry and the calls is well formed; in
\* particular the channel of answers never holds more than its capacity.
THEOREM HostTypeCorrect == Spec => []TypeOK
<1>1. HostInv => TypeOK
  BY DEF HostInv
<1> QED BY <1>1, HostInvariant, PTL

\* However many calls connect and delete codespaces at once, each is connected
\* at most once, every open daemon executor belongs to a connected codespace
\* or to the call that will register or close it, and none outlives the host.
THEOREM ExecutorsDoNotLeak == Spec => []NoExecutorLeaks
<1>1. HostInv => NoExecutorLeaks
  BY DEF HostInv, OpenInv, NoExecutorLeaks
<1> QED BY <1>1, HostInvariant, PTL

\* A helper that a client has verified stays whole, whoever deploys it again
\* and wherever their connections break.
THEOREM HelperStaysWhole == Spec => []HelperWhole
<1>1. HostInv => HelperWhole
  BY DEF HostInv
<1> QED BY <1>1, HostInvariant, PTL

\* The status line shows the branch only of a codespace that was connected all
\* through the probe, and at the end that it is not.
THEOREM StatusIsHonest == Spec => []StatusHonest
<1>1. HostInv => StatusHonest
  BY DEF HostInv, SampleInv, StatusHonest
<1> QED BY <1>1, HostInvariant, PTL

\* No answer is dropped before the host stops, and none is forgotten.
THEOREM AnswersAreKept == Spec => []AnswerKept
<1>1. HostInv => AnswerKept
  BY DEF HostInv, AnswerInv, AnswerKept, At
<1> QED BY <1>1, HostInvariant, PTL

\* A tool that changes files is executed at most once, whatever becomes of the
\* daemon, the master and the connection, and so is the command of remote_bash
\* over a daemon; without one its second execution is the fallback's only.
THEOREM CommandsRunOnce == Spec => []RunOnce
<1>1. ASSUME HostInv PROVE RunOnce
  <2> SUFFICES ASSUME NEW c \in Calls
               PROVE  /\ tool[c] = "edit" => ran[c] <= 1
                      /\ tool[c] = "bash" /\ target[c] \in daemons => ran[c] <= 1
                      /\ result[c] = "refused" => ran[c] = 0
    BY DEF RunOnce
  <2> QED BY <1>1 DEF HostInv, RunInv, TypeOK, CodespacesTypeOK, Steps, Ended
<1> QED BY <1>1, HostInvariant, PTL
=============================================================================
