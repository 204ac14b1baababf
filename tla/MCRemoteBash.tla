---------------------------- MODULE MCRemoteBash ----------------------------
(***************************************************************************)
(* Two instances that share no state, checked in one run: what readers of  *)
(* a session see (RemoteBash), and that the daemon's requests on a session *)
(* return (Sessions).  A behaviour is one of either; the other stands      *)
(* still in its initial state.                                             *)
(***************************************************************************)
EXTENDS RemoteBash

CONSTANTS bash, other, r1, r2, Requests, Kinds, TmuxFails, Restarts, None

VARIABLES
  part,    \* which of the two it is
  kind, pc, result, ctxDone, goal, kept, reserved, startMu, procOf, tracked,
  settled, cgroup, shell, stopPC, tmux, pane, watches, restarts, ran

daemonVars ==
  <<kind, pc, result, ctxDone, goal, kept, reserved, startMu, procOf, tracked,
    settled, cgroup, shell, stopPC, tmux, pane, watches, restarts, ran>>
allVars == <<part, vars, daemonVars>>

Daemon == INSTANCE Sessions

PartInit ==
  /\ Init /\ Daemon!Init
  /\ \/ part = "bash" /\ kind = [r \in Requests |-> "stop"]
     \/ part = "daemon" /\ backend = "process" /\ marker = 0

OfDaemon == part = "daemon" /\ UNCHANGED <<part, vars>>
PartNext ==
  \/ part = "bash" /\ Next /\ UNCHANGED <<part, daemonVars>>
  \/ Daemon!Next /\ OfDaemon

Handler(r) == (Daemon!StartStep(r) \/ Daemon!StopStep(r) \/ Daemon!WaitStep(r)) /\ OfDaemon
Lock(r) == Daemon!TmuxLock(r) /\ OfDaemon
StopGoroutine(r) == Daemon!Stopper(r) /\ OfDaemon

\* The fairness is that of Sessions!FairSpec.
PartSpec ==
  /\ PartInit /\ [][PartNext]_allVars
  /\ \A r \in Requests :
       WF_allVars(Handler(r)) /\ SF_allVars(Lock(r)) /\ WF_allVars(StopGoroutine(r))

\* Every request on a session returns: daemonTmuxStartMu is released on every
\* path of a start, and a stop ends although its session ignores SIGTERM.
EveryRequestReturns == \A r \in Requests : part = "daemon" ~> pc[r] = "done"
=============================================================================
