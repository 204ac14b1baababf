---------------------------- MODULE DaemonServer ----------------------------
(***************************************************************************)
(* runDaemonIO of cmd/gh-copilot-codespace/daemon.go: one loop reads frames*)
(* from the client, every request runs in a goroutine of its own, a cancel *)
(* frame or the end of input cancels requests and signals the processes    *)
(* they run, and the daemon ends when all of its goroutines have.          *)
(*                                                                         *)
(* A "bash" request runs a shell in its own process group                  *)
(* (runProcessInDir), a "session" request leaves a process session behind, *)
(* a "file" request works in the daemon itself.                            *)
(***************************************************************************)
EXTENDS Naturals, FiniteSets

CONSTANTS
  Requests,  \* request frames the client may send, each at most once
  Id,        \* the request id of each frame
  Verb,      \* "bash", "session" or "file"
  Escapes    \* may a descendant leave the group of its shell and keep its
             \* output open?

ASSUME IdAssumption == Id \in [Requests -> Nat]
ASSUME VerbAssumption == Verb \in [Requests -> {"bash", "session", "file"}]
ASSUME EscapesAssumption == Escapes \in BOOLEAN

VARIABLES
  mode,      \* what the reading loop does
  doomed,    \* items cancelAll has still to cancel
  target,    \* items whose cancel() is between ctxCancel and the signal
  inflight,  \* the requests entered in the inflight map
  pc,        \* the goroutine of each request
  canceled,  \* the request's context is cancelled
  pgid,      \* the process group is known to the item
  proc,      \* the shell: not started, alive or dead
  held,      \* an escaped descendant holds the shell's output open
  outcome,   \* result of the handler
  response,  \* frame written for the request
  sessions,  \* process sessions alive
  asked      \* history: requests a cancel frame found in flight

vars == <<mode, doomed, target, inflight, pc, canceled, pgid, proc, held,
          outcome, response, sessions, asked>>
loopVars    == <<mode, doomed, target, asked>>
processVars == <<pgid, proc, held>>

Modes == {"serving", "cancelling", "draining", "stopping", "exited"}
HandlerPC == {"unread", "check", "launch", "attach", "select", "grace", "reap",
              "write", "remove", "done"}
Outcomes == {"none", "ok", "error", "canceled"}

TypeOK ==
  /\ mode \in Modes
  /\ doomed \subseteq Requests /\ target \subseteq Requests
  /\ inflight \subseteq Requests
  /\ pc \in [Requests -> HandlerPC]
  /\ canceled \subseteq Requests /\ pgid \subseteq Requests
  /\ proc \in [Requests -> {"none", "alive", "dead"}]
  /\ held \subseteq Requests
  /\ outcome \in [Requests -> Outcomes]
  /\ response \in [Requests -> Outcomes \cup {"lost"}]
  /\ sessions \subseteq Requests
  /\ asked \subseteq Requests

Init ==
  /\ mode = "serving" /\ doomed = {} /\ target = {} /\ inflight = {}
  /\ pc = [r \in Requests |-> "unread"]
  /\ canceled = {} /\ pgid = {} /\ held = {}
  /\ proc = [r \in Requests |-> "none"]
  /\ outcome = [r \in Requests |-> "none"]
  /\ response = [r \in Requests |-> "none"]
  /\ sessions = {} /\ asked = {}

-----------------------------------------------------------------------------
(* The reading loop                                                        *)

Named(i) == {r \in inflight : Id[r] = i}

\* Mutated entry: no check for an id already in flight.
ReadUnchecked(r) ==
  /\ mode = "serving" /\ target = {} /\ pc[r] = "unread"
  /\ inflight' = (inflight \ Named(Id[r])) \cup {r}
  /\ pc' = [pc EXCEPT ![r] = "check"]
  /\ UNCHANGED <<loopVars, canceled, processVars, outcome, response, sessions>>

\* A request whose id is in flight is answered with an error by the loop.
ReadRequest(r) ==
  /\ mode = "serving" /\ target = {} /\ pc[r] = "unread"
  /\ \/ /\ Named(Id[r]) = {}
        /\ inflight' = inflight \cup {r}
        /\ pc' = [pc EXCEPT ![r] = "check"]
        /\ UNCHANGED response
     \/ /\ Named(Id[r]) # {}
        /\ pc' = [pc EXCEPT ![r] = "done"]
        /\ response' = [response EXCEPT ![r] = "error"]
        /\ UNCHANGED inflight
  /\ UNCHANGED <<loopVars, canceled, processVars, outcome, sessions>>

\* Mutated cancel: only signals, the context stays as it is.
CancelBySignal(i) ==
  /\ mode = "serving" /\ target = {} /\ Named(i) # {}
  /\ target' = Named(i) /\ asked' = asked \cup Named(i)
  /\ UNCHANGED <<mode, doomed, inflight, pc, canceled, processVars, outcome,
                 response, sessions>>

\* item.cancel(): the context first, the process group after it.
ReadCancel(i) ==
  /\ mode = "serving" /\ target = {} /\ Named(i) # {}
  /\ canceled' = canceled \cup Named(i)
  /\ target' = Named(i)
  /\ asked' = asked \cup Named(i)
  /\ UNCHANGED <<mode, doomed, inflight, pc, processVars, outcome, response,
                 sessions>>

\* SIGTERM may kill the shell or be ignored by it.
Terminate(r) ==
  \/ UNCHANGED proc
  \/ proc' = [proc EXCEPT ![r] = IF @ = "alive" THEN "dead" ELSE @]

Signal(r) ==
  /\ r \in target
  /\ target' = target \ {r}
  /\ IF r \in pgid THEN Terminate(r) ELSE UNCHANGED proc
  /\ UNCHANGED <<mode, doomed, asked, inflight, pc, canceled, pgid, held,
                 outcome, response, sessions>>

\* Mutated end of input: leaves requests running, as if they were to finish
\* by themselves.
EndUncanceled ==
  /\ mode = "serving" /\ target = {}
  /\ mode' = "cancelling"
  /\ UNCHANGED <<doomed, target, asked, inflight, pc, canceled, processVars,
                 outcome, response, sessions>>

\* End of input or a frame that does not decode: cancelAll takes a snapshot.
EndOfInput ==
  /\ mode = "serving" /\ target = {}
  /\ mode' = "cancelling" /\ doomed' = inflight
  /\ UNCHANGED <<target, asked, inflight, pc, canceled, processVars, outcome,
                 response, sessions>>

CancelNext(r) ==
  /\ mode = "cancelling" /\ target = {} /\ r \in doomed
  /\ doomed' = doomed \ {r} /\ target' = {r}
  /\ canceled' = canceled \cup {r}
  /\ UNCHANGED <<mode, asked, inflight, pc, processVars, outcome, response,
                 sessions>>

AllCanceled ==
  /\ mode = "cancelling" /\ target = {} /\ doomed = {}
  /\ mode' = "draining"
  /\ UNCHANGED <<doomed, target, asked, inflight, pc, canceled, processVars,
                 outcome, response, sessions>>

Finished(r) == pc[r] \in {"unread", "done"}

\* Mutated shutdown: does not wait for the request goroutines.
DrainedEarly ==
  /\ mode = "draining"
  /\ mode' = "stopping"
  /\ UNCHANGED <<doomed, target, asked, inflight, pc, canceled, processVars,
                 outcome, response, sessions>>

\* wg.Wait()
Drained ==
  /\ mode = "draining" /\ \A r \in Requests : Finished(r)
  /\ mode' = "stopping"
  /\ UNCHANGED <<doomed, target, asked, inflight, pc, canceled, processVars,
                 outcome, response, sessions>>

\* The deferred daemonStopAllProcessSessions, then the process ends.
StopSessions ==
  /\ mode = "stopping"
  /\ mode' = "exited" /\ sessions' = {}
  /\ UNCHANGED <<doomed, target, asked, inflight, pc, canceled, processVars,
                 outcome, response>>

-----------------------------------------------------------------------------
(* handleDaemonRequest and runProcessInDir                                 *)

Conclude(r, o) ==
  /\ outcome' = [outcome EXCEPT ![r] = o]
  /\ pc' = [pc EXCEPT ![r] = "write"]

\* The context is checked before the verb is dispatched.  A file operation
\* looks at it again, or completes, fails or panics.
Check(r) ==
  /\ pc[r] = "check"
  /\ \/ r \in canceled /\ Conclude(r, "canceled") /\ UNCHANGED sessions
     \/ /\ r \notin canceled /\ Verb[r] = "bash"
        /\ pc' = [pc EXCEPT ![r] = "launch"]
        /\ UNCHANGED <<outcome, sessions>>
     \/ /\ r \notin canceled /\ Verb[r] = "session"
        /\ pc' = [pc EXCEPT ![r] = "attach"]
        /\ sessions' = sessions \cup {r}
        /\ UNCHANGED outcome
     \/ /\ r \notin canceled /\ Verb[r] = "file"
        /\ pc' = [pc EXCEPT ![r] = "select"]
        /\ UNCHANGED <<outcome, sessions>>
  /\ UNCHANGED <<loopVars, inflight, canceled, processVars, response>>

\* A session started for a request that was cancelled meanwhile is stopped.
SessionStarted(r) ==
  /\ Verb[r] = "session" /\ pc[r] = "attach"
  /\ \/ r \in canceled /\ Conclude(r, "canceled") /\ sessions' = sessions \ {r}
     \/ r \notin canceled /\ Conclude(r, "ok") /\ UNCHANGED sessions
  /\ UNCHANGED <<loopVars, inflight, canceled, processVars, response>>

FileDone(r) ==
  /\ Verb[r] = "file" /\ pc[r] = "select"
  /\ \E o \in {"ok", "error", "canceled"} :
       (o = "canceled" => r \in canceled) /\ Conclude(r, o)
  /\ UNCHANGED <<loopVars, inflight, canceled, processVars, response, sessions>>

\* cmd.Start
Launch(r) ==
  /\ pc[r] = "launch"
  /\ \/ r \in canceled /\ Conclude(r, "canceled") /\ UNCHANGED proc
     \/ r \notin canceled /\ Conclude(r, "error") /\ UNCHANGED proc
     \/ /\ proc' = [proc EXCEPT ![r] = "alive"]
        /\ pc' = [pc EXCEPT ![r] = "attach"]
        /\ UNCHANGED outcome
  /\ UNCHANGED <<loopVars, inflight, canceled, pgid, held, response, sessions>>

\* item.setProcess
Attach(r) ==
  /\ Verb[r] = "bash" /\ pc[r] = "attach"
  /\ pgid' = pgid \cup {r}
  /\ pc' = [pc EXCEPT ![r] = "select"]
  /\ UNCHANGED <<loopVars, inflight, canceled, proc, held, outcome, response,
                 sessions>>

\* cmd.Wait returns when the shell is dead and its output is closed.
Waited(r) == proc[r] = "dead" /\ r \notin held

\* Return from runProcessInDir: the deferred clearProcess comes last.
Return(r, o) == Conclude(r, o) /\ pgid' = pgid \ {r}

Completed(r) ==
  /\ Verb[r] = "bash" /\ pc[r] = "select" /\ Waited(r)
  /\ Return(r, "ok")
  /\ UNCHANGED <<loopVars, inflight, canceled, proc, held, response, sessions>>

SeeCanceled(r) ==
  /\ Verb[r] = "bash" /\ pc[r] = "select" /\ r \in canceled
  /\ Terminate(r)
  /\ pc' = [pc EXCEPT ![r] = "grace"]
  /\ UNCHANGED <<loopVars, inflight, canceled, pgid, held, outcome, response,
                 sessions>>

\* Mutated escalation: gives up on a shell that ignores SIGTERM.
GraceAbandoned(r) ==
  /\ pc[r] = "grace" /\ Return(r, "canceled")
  /\ UNCHANGED <<loopVars, inflight, canceled, proc, held, response, sessions>>

\* Two seconds later SIGKILL, which no shell survives.
GraceOver(r) ==
  /\ pc[r] = "grace"
  /\ proc' = [proc EXCEPT ![r] = "dead"]
  /\ pc' = [pc EXCEPT ![r] = "reap"]
  /\ UNCHANGED <<loopVars, inflight, canceled, pgid, held, outcome, response,
                 sessions>>

Reaped(r) ==
  /\ pc[r] \in {"grace", "reap"} /\ Waited(r)
  /\ Return(r, "canceled")
  /\ UNCHANGED <<loopVars, inflight, canceled, proc, held, response, sessions>>

\* A response that cannot be written is logged and dropped.
WriteResponse(r) ==
  /\ pc[r] = "write"
  /\ \E a \in {outcome[r], "lost"} : response' = [response EXCEPT ![r] = a]
  /\ pc' = [pc EXCEPT ![r] = "remove"]
  /\ UNCHANGED <<loopVars, inflight, canceled, processVars, outcome, sessions>>

RemoveItem(r) ==
  /\ pc[r] = "remove"
  /\ inflight' = inflight \ {r}
  /\ pc' = [pc EXCEPT ![r] = "done"]
  /\ UNCHANGED <<loopVars, canceled, processVars, outcome, response, sessions>>

-----------------------------------------------------------------------------
(* The processes                                                           *)

ShellExits(r) ==
  /\ proc[r] = "alive"
  /\ proc' = [proc EXCEPT ![r] = "dead"]
  /\ UNCHANGED <<loopVars, inflight, pc, canceled, pgid, held, outcome,
                 response, sessions>>

Escape(r) ==
  /\ Escapes /\ proc[r] = "alive" /\ r \notin held
  /\ held' = held \cup {r}
  /\ UNCHANGED <<loopVars, inflight, pc, canceled, pgid, proc, outcome,
                 response, sessions>>

EscapedExits(r) ==
  /\ r \in held
  /\ held' = held \ {r}
  /\ UNCHANGED <<loopVars, inflight, pc, canceled, pgid, proc, outcome,
                 response, sessions>>

-----------------------------------------------------------------------------
LoopStep ==
  \/ \E r \in Requests : Signal(r) \/ CancelNext(r)
  \/ AllCanceled \/ Drained \/ StopSessions

HandlerStep(r) ==
  \/ Check(r) \/ SessionStarted(r) \/ FileDone(r)
  \/ Launch(r) \/ Attach(r) \/ Completed(r) \/ SeeCanceled(r)
  \/ GraceOver(r) \/ Reaped(r)
  \/ WriteResponse(r) \/ RemoveItem(r)

Next ==
  \/ \E r \in Requests : ReadRequest(r) \/ ReadCancel(Id[r])
  \/ EndOfInput \/ LoopStep
  \/ \E r \in Requests :
       HandlerStep(r) \/ ShellExits(r) \/ Escape(r) \/ EscapedExits(r)

Spec == Init /\ [][Next]_vars

\* The loop and the handlers are goroutines; their timers fire.  Nothing is
\* assumed of the client, of the shells or of what escapes them.
FairSpec ==
  /\ Spec
  /\ WF_vars(LoopStep)
  /\ \A r \in Requests : WF_vars(HandlerStep(r))

-----------------------------------------------------------------------------
(* Properties                                                              *)

\* A cancel frame names one request: ids are unique among those in flight
\* (the duplicate check of runDaemonIO), and every handler at work is in the
\* map, so that a cancel or the end of input can still reach it.
Reachable ==
  /\ \A r, s \in inflight : Id[r] = Id[s] => r = s
  /\ \A r \in Requests : ~Finished(r) => r \in inflight

\* No shell outlives the handler that started it, nor the daemon, whenever
\* the cancellation and the end of input come (runProcessInDir, wg.Wait).
NoOrphans ==
  /\ \A r \in Requests : proc[r] = "alive" => ~Finished(r)
  /\ mode = "exited" => sessions = {} /\ \A r \in Requests : proc[r] # "alive"

\* A request answered with an error by the loop is not handled, and the one in
\* flight under its id keeps its own answer: whoever was answered "ok" ran.
Peer == INSTANCE DaemonPeer
          WITH running <- {r \in Requests : pc[r] \notin {"unread", "remove", "done"}},
               answer <- response,
               ended <- mode = "exited"

\* The daemon implements what the client relies on (DaemonPeer).
ServesPeer == Peer!Spec

\* No escaped descendant holds the output of its shell open for ever.
OutputsEnd == []<>(held = {})

\* A cancelled request is answered, or the answer is lost, even when its shell
\* ignores SIGTERM; runProcessInDir waits for no more than the end of output.
\* (There are finitely many requests, and an answer stays.)
CancelIsAnswered ==
  OutputsEnd => <>[](\A r \in asked : response[r] # "none")

\* After the end of input the daemon ends: every handler returns and the
\* process sessions are stopped.
EndOfInputEnds ==
  OutputsEnd => (mode = "cancelling" ~> mode = "exited" /\ sessions = {})
=============================================================================
