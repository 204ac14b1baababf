---------------------------- MODULE DaemonClient ----------------------------
(***************************************************************************)
(* The executor of internal/daemonclient: concurrent callers share one     *)
(* daemon connection ("generation"), a dead generation is replaced by a    *)
(* single shared reconnect attempt, an interrupted operation is never      *)
(* replayed, and Close may race all of it.                                 *)
(*                                                                         *)
(* Each caller performs one operation.  The stream of a generation is a    *)
(* set of frames in flight: the daemon may take them in any order except   *)
(* that a cancel frame never overtakes the request it names, the only      *)
(* order the two sides depend on.                                          *)
(***************************************************************************)
EXTENDS Naturals, FiniteSets

CONSTANTS
  Callers,         \* goroutines calling the executor, one operation each
  Closers,         \* goroutines calling Executor.Close
  Kinds,           \* operations explored: "tool", "ping", "passive"
  Cancelable,      \* bound: the callers whose context may end
  MaxAttempts,     \* bound: reconnect attempts one behaviour may start
  DeadlineStreams, \* does the transport's stream implement SetWriteDeadline?
  None             \* the absent caller or response

ASSUME CallersAssumption == None \notin Callers
ASSUME CancelableAssumption == Cancelable \subseteq Callers
ASSUME KindsAssumption == Kinds \subseteq {"tool", "ping", "passive"}
ASSUME AttemptsAssumption == MaxAttempts \in Nat
ASSUME DeadlineAssumption == DeadlineStreams \in BOOLEAN

Attempts == 1 .. MaxAttempts
\* Generation 1 is the one Dial published; each attempt creates at most one.
Gens == 1 .. (MaxAttempts + 1)

MaxReconnectAttemptsPerCall == 2

VARIABLES
  \* Executor, guarded by Executor.mu
  conn,            \* the published generation
  closed,
  reconnecting,    \* attempt whose waiter channel is installed, 0 when nil
  cooldown,        \* cooldownUntil lies in the future
  nextID,          \* last request id handed out
  nextGeneration,  \* last generation id handed out
  \* connection generations
  err,             \* generations with a sticky terminal error
  readerDone,      \* generations whose readLoop has returned
  shut,            \* generations whose stream was closed on this side
  writer,          \* holder of each generation's write lock
  \* the remote side of each generation
  up,              \* generations whose daemon process runs
  wire,            \* frames written and not yet read by the daemon
  running,         \* requests the daemon is handling
  back,            \* responses written and not yet read by the client
  \* callers
  pc, kind, ctxDone, on, id, attempts, purpose, waitOn, resp, touched, result,
  \* reconnect goroutines, one per attempt
  rpc, fresh, prev,
  \* closers
  cpc, cconn, cwait,
  \* history: how often the daemon started each caller's operation
  ran

executorVars == <<conn, closed, reconnecting, cooldown, nextID, nextGeneration>>
streamVars   == <<err, readerDone, shut, writer>>
remoteVars   == <<up, wire, running, back, ran>>
callerVars   == <<pc, kind, ctxDone, on, id, attempts, purpose, waitOn, resp,
                  touched, result>>
attemptVars  == <<rpc, fresh, prev>>
closeVars    == <<cpc, cconn, cwait>>
vars == <<executorVars, streamVars, remoteVars, callerVars, attemptVars,
          closeVars>>

-----------------------------------------------------------------------------
CallerPC == {"idle", "obtain", "wait", "preflight", "send", "lock", "write",
             "wrote", "cutoff", "await", "probe", "cancel", "done"}
AttemptPC == {"none", "recover", "spawn", "handshake", "publish",
              "aborting", "discard", "discarding", "retire", "retiring",
              "leaving", "done"}
ClosePC == {"open", "dispose", "drain", "await", "transport", "returned"}
\* What a caller in obtainConnection will do with the answer.
Purposes == {"connect", "preflight", "lostUnsent", "lostUnknown"}
Results == {"none", "ok", "canceled", "ctx", "closed", "unavailable",
            "failed", "lostUnsent", "lostUnknown"}

Requests  == [type : {"req"}, id : Nat, op : Callers]
Cancels   == [type : {"cancel"}, id : Nat]
Running   == [id : Nat, op : Callers, canceled : BOOLEAN]
Responses == [id : Nat, op : Callers, status : {"ok", "canceled"}]

ExecutorTypeOK ==
  /\ conn \in Gens
  /\ closed \in BOOLEAN
  /\ reconnecting \in Attempts \cup {0}
  /\ cooldown \in BOOLEAN
  /\ nextID \in Nat
  /\ nextGeneration \in Gens

StreamTypeOK ==
  /\ err \subseteq Gens
  /\ readerDone \subseteq Gens
  /\ shut \subseteq Gens
  /\ writer \in [Gens -> Callers \cup {None}]

RemoteTypeOK ==
  /\ up \subseteq Gens
  /\ wire \in [Gens -> SUBSET (Requests \cup Cancels)]
  /\ running \in [Gens -> SUBSET Running]
  /\ back \in [Gens -> SUBSET Responses]
  /\ ran \in [Callers -> Nat]

CallerTypeOK ==
  /\ pc \in [Callers -> CallerPC]
  /\ kind \in [Callers -> Kinds]
  /\ ctxDone \in [Callers -> BOOLEAN]
  /\ on \in [Callers -> Gens \cup {0}]
  /\ id \in [Callers -> Nat]
  /\ attempts \in [Callers -> 0 .. MaxReconnectAttemptsPerCall]
  /\ purpose \in [Callers -> Purposes]
  /\ waitOn \in [Callers -> Attempts \cup {0}]
  /\ resp \in [Callers -> Responses \cup {None}]
  /\ touched \in [Callers -> BOOLEAN]
  /\ result \in [Callers -> Results]

AttemptTypeOK ==
  /\ rpc \in [Attempts -> AttemptPC]
  /\ fresh \in [Attempts -> Gens \cup {0}]
  /\ prev \in [Attempts -> Gens \cup {0}]

CloserTypeOK ==
  /\ cpc \in [Closers -> ClosePC]
  /\ cconn \in [Closers -> Gens \cup {0}]
  /\ cwait \in [Closers -> Attempts \cup {0}]

TypeOK ==
  /\ ExecutorTypeOK /\ StreamTypeOK /\ RemoteTypeOK
  /\ CallerTypeOK /\ AttemptTypeOK /\ CloserTypeOK

\* Dial has published generation 1 and nothing else has happened.
Init ==
  /\ conn = 1 /\ closed = FALSE /\ reconnecting = 0 /\ cooldown = FALSE
  /\ nextID = 0 /\ nextGeneration = 1
  /\ err = {} /\ readerDone = {} /\ shut = {}
  /\ writer = [g \in Gens |-> None]
  /\ up = {1}
  /\ wire = [g \in Gens |-> {}]
  /\ running = [g \in Gens |-> {}]
  /\ back = [g \in Gens |-> {}]
  /\ ran = [c \in Callers |-> 0]
  /\ pc = [c \in Callers |-> "idle"]
  /\ kind \in [Callers -> Kinds]
  /\ ctxDone = [c \in Callers |-> FALSE]
  /\ on = [c \in Callers |-> 0]
  /\ id = [c \in Callers |-> 0]
  /\ attempts = [c \in Callers |-> 0]
  /\ purpose = [c \in Callers |-> "connect"]
  /\ waitOn = [c \in Callers |-> 0]
  /\ resp = [c \in Callers |-> None]
  /\ touched = [c \in Callers |-> FALSE]
  /\ result = [c \in Callers |-> "none"]
  /\ rpc = [a \in Attempts |-> "none"]
  /\ fresh = [a \in Attempts |-> 0]
  /\ prev = [a \in Attempts |-> 0]
  /\ cpc = [k \in Closers |-> "open"]
  /\ cconn = [k \in Closers |-> 0]
  /\ cwait = [k \in Closers |-> 0]

-----------------------------------------------------------------------------
(* connection                                                              *)

Dead(g) == g \in readerDone \/ g \in err

\* Mutated fail: closes the stream without recording the error.
FailUnrecorded(g) == UNCHANGED err /\ shut' = shut \cup {g}

\* connection.fail: the sticky error first, then the stream.
Fail(g) == err' = err \cup {g} /\ shut' = shut \cup {g}
NoFail  == UNCHANGED <<err, shut>>
\* An abandoned stream write fails its generation in a goroutine of its own,
\* which the abandoning call does not wait for.
MayFail(g) == Fail(g) \/ NoFail

\* Mutated dispose: waits for a reader nothing stops.
DisposeUnclosed(gs) == UNCHANGED shut

\* connection.dispose closes the stream, then waits for readerDone.
BeginDispose(gs) == shut' = shut \cup gs

Release(c) == writer' = [writer EXCEPT ![on[c]] = None]

\* Mutated cancel: names the latest request instead of the caller's.
CancelLatest(c) == [type |-> "cancel", id |-> nextID]

RequestFrame(c) == [type |-> "req", id |-> id[c], op |-> c]
CancelFrame(c)  == [type |-> "cancel", id |-> id[c]]
Put(g, frames)  == wire' = [wire EXCEPT ![g] = @ \cup frames]

-----------------------------------------------------------------------------
(* Executor.call and RunBashIfConnected, up to a captured generation       *)

Goto(c, l)   == pc' = [pc EXCEPT ![c] = l]
Finish(c, r) == Goto(c, "done") /\ result' = [result EXCEPT ![c] = r]

\* Enter obtainConnection, whose attempt counter is a local variable.
EnterObtain(c, p) ==
  /\ Goto(c, "obtain")
  /\ purpose' = [purpose EXCEPT ![c] = p]
  /\ attempts' = [attempts EXCEPT ![c] = 0]

\* A caller's context may be cancelled or expire at any moment.
CtxDone(c) ==
  /\ c \in Cancelable /\ pc[c] # "done" /\ ~ctxDone[c]
  /\ ctxDone' = [ctxDone EXCEPT ![c] = TRUE]
  /\ UNCHANGED <<executorVars, streamVars, remoteVars, attemptVars, closeVars,
                 pc, kind, on, id, attempts, purpose, waitOn, resp, touched,
                 result>>

Begin(c) ==
  /\ pc[c] = "idle"
  /\ IF ctxDone[c]
     THEN Finish(c, "ctx") /\ UNCHANGED <<attempts, purpose>>
     ELSE EnterObtain(c, "connect") /\ UNCHANGED result
  /\ kind[c] # "passive"
  /\ UNCHANGED <<executorVars, streamVars, remoteVars, attemptVars, closeVars,
                 kind, ctxDone, on, id, waitOn, resp, touched>>

\* RunBashIfConnected uses the live generation or none at all.
BeginPassive(c) ==
  /\ pc[c] = "idle" /\ kind[c] = "passive"
  /\ \/ ctxDone[c] /\ Finish(c, "ctx") /\ UNCHANGED on
     \/ ~ctxDone[c] /\ closed /\ Finish(c, "closed") /\ UNCHANGED on
     \/ /\ ~ctxDone[c] /\ ~closed /\ Dead(conn)
        /\ Finish(c, "unavailable") /\ UNCHANGED on
     \/ /\ ~ctxDone[c] /\ ~closed /\ ~Dead(conn)
        /\ Goto(c, "send") /\ on' = [on EXCEPT ![c] = conn]
        /\ UNCHANGED result
  /\ UNCHANGED <<executorVars, streamVars, remoteVars, attemptVars, closeVars,
                 kind, ctxDone, id, attempts, purpose, waitOn, resp, touched>>

Avoid(c)  == IF purpose[c] = "connect" THEN 0 ELSE on[c]
Usable(c) == conn # Avoid(c) /\ ~Dead(conn)

\* What obtainConnection's error becomes in connectionFor (a context error or
\* ErrClosed as it is, anything else a loss before sending), in
\* preflightConnection (always such a loss) and in connectionLost.
Failure(c, why) ==
  CASE purpose[c] = "connect" /\ why \in {"closed", "ctx"} -> why
    [] purpose[c] = "connect" /\ why \notin {"closed", "ctx"} -> "lostUnsent"
    [] purpose[c] = "preflight" -> "lostUnsent"
    [] OTHER -> purpose[c]

ObtainClosed(c) ==
  /\ pc[c] = "obtain" /\ closed
  /\ Finish(c, Failure(c, "closed"))
  /\ UNCHANGED <<executorVars, streamVars, remoteVars, attemptVars, closeVars,
                 kind, ctxDone, on, id, attempts, purpose, waitOn, resp,
                 touched>>

\* A live generation: connectionFor and preflightConnection go on with it,
\* connectionLost only reports it.  Ping skips the idle preflight.
ObtainLive(c) ==
  /\ pc[c] = "obtain" /\ ~closed /\ Usable(c)
  /\ \/ /\ purpose[c] \in {"connect", "preflight"}
        /\ on' = [on EXCEPT ![c] = conn]
        /\ Goto(c, IF purpose[c] = "connect" /\ kind[c] = "tool"
                   THEN "preflight" ELSE "send")
        /\ UNCHANGED result
     \/ /\ purpose[c] \in {"lostUnsent", "lostUnknown"}
        /\ Finish(c, purpose[c]) /\ UNCHANGED on
  /\ UNCHANGED <<executorVars, streamVars, remoteVars, attemptVars, closeVars,
                 kind, ctxDone, id, attempts, purpose, waitOn, resp, touched>>

ObtainWait(c) ==
  /\ pc[c] = "obtain" /\ ~closed /\ ~Usable(c) /\ reconnecting # 0
  /\ Goto(c, "wait") /\ waitOn' = [waitOn EXCEPT ![c] = reconnecting]
  /\ UNCHANGED <<executorVars, streamVars, remoteVars, attemptVars, closeVars,
                 kind, ctxDone, on, id, attempts, purpose, resp, touched,
                 result>>

\* No attempt is allowed now: cooldown, or this caller's own limit.
Refused(c) == cooldown \/ attempts[c] >= MaxReconnectAttemptsPerCall
Unstarted  == {a \in Attempts : rpc[a] = "none"}

\* Past the bound MaxAttempts an attempt is taken to fail at once, which is
\* what the caller would see of it: the cooldown error.
ObtainRefused(c) ==
  /\ pc[c] = "obtain" /\ ~closed /\ ~Usable(c) /\ reconnecting = 0
  /\ Refused(c) \/ Unstarted = {}
  /\ Finish(c, Failure(c, "unavailable"))
  /\ UNCHANGED <<executorVars, streamVars, remoteVars, attemptVars, closeVars,
                 kind, ctxDone, on, id, attempts, purpose, waitOn, resp,
                 touched>>

ObtainStart(c, a) ==
  /\ pc[c] = "obtain" /\ ~closed /\ ~Usable(c) /\ reconnecting = 0
  /\ ~Refused(c)
  /\ a \in Unstarted /\ \A b \in Unstarted : a <= b
  /\ reconnecting' = a
  /\ rpc' = [rpc EXCEPT ![a] = "recover"]
  /\ attempts' = [attempts EXCEPT ![c] = @ + 1]
  /\ Goto(c, "wait") /\ waitOn' = [waitOn EXCEPT ![c] = a]
  /\ UNCHANGED <<streamVars, remoteVars, closeVars, conn, closed, cooldown,
                 nextID, nextGeneration, fresh, prev, kind, ctxDone, on, id,
                 purpose, resp, touched, result>>

\* The waiter channel of attempt a is closed when its goroutine returns.
Awake(c) ==
  /\ pc[c] = "wait" /\ rpc[waitOn[c]] = "done"
  /\ Goto(c, "obtain")
  /\ UNCHANGED <<executorVars, streamVars, remoteVars, attemptVars, closeVars,
                 kind, ctxDone, on, id, attempts, purpose, waitOn, resp,
                 touched, result>>

\* Giving up leaves the shared attempt running.
StopWaiting(c) ==
  /\ pc[c] = "wait" /\ ctxDone[c]
  /\ Finish(c, Failure(c, "ctx"))
  /\ UNCHANGED <<executorVars, streamVars, remoteVars, attemptVars, closeVars,
                 kind, ctxDone, on, id, attempts, purpose, waitOn, resp,
                 touched>>

-----------------------------------------------------------------------------
(* preflightConnection                                                     *)

\* The generation was used recently, or it answered a ping.
PreflightPass(c) ==
  /\ pc[c] = "preflight"
  /\ Goto(c, "send")
  /\ UNCHANGED <<executorVars, streamVars, remoteVars, attemptVars, closeVars,
                 kind, ctxDone, on, id, attempts, purpose, waitOn, resp,
                 touched, result>>

PreflightFail(c) ==
  /\ pc[c] = "preflight"
  /\ \/ /\ ctxDone[c] /\ Finish(c, "ctx") /\ MayFail(on[c])
        /\ UNCHANGED <<attempts, purpose>>
     \/ /\ ~ctxDone[c] /\ EnterObtain(c, "preflight") /\ Fail(on[c])
        /\ UNCHANGED result
  /\ UNCHANGED <<executorVars, readerDone, writer, remoteVars, attemptVars,
                 closeVars, kind, ctxDone, on, id, waitOn, resp, touched>>

-----------------------------------------------------------------------------
(* callOnWithOptions: writing the request                                  *)

\* Mutated connectionLost: repeats the operation on the new generation.
LoseAndReplay(c, outcomeUnknown) ==
  EnterObtain(c, "connect") /\ UNCHANGED result

\* Mutated connectionLost: forgets that bytes were written.
LoseAsUnsent(c, outcomeUnknown) ==
  EnterObtain(c, "lostUnsent") /\ UNCHANGED result

\* connectionLost, or for a passive call just the cause of death.
Lose(c, outcomeUnknown) ==
  IF kind[c] = "passive"
  THEN Finish(c, "failed") /\ UNCHANGED <<attempts, purpose>>
  ELSE /\ EnterObtain(c, IF outcomeUnknown THEN "lostUnknown" ELSE "lostUnsent")
       /\ UNCHANGED result

\* A fresh request id, the pending entry, and writeFrame's first checks.
Send(c) ==
  /\ pc[c] = "send"
  /\ nextID' = nextID + 1
  /\ id' = [id EXCEPT ![c] = nextID + 1]
  /\ \/ ctxDone[c] /\ Finish(c, "ctx") /\ UNCHANGED <<attempts, purpose>>
     \/ ~ctxDone[c] /\ Dead(on[c]) /\ Lose(c, FALSE)
     \/ /\ ~ctxDone[c] /\ ~Dead(on[c]) /\ Goto(c, "lock")
        /\ UNCHANGED <<attempts, purpose, result>>
  /\ UNCHANGED <<streamVars, remoteVars, attemptVars, closeVars, conn, closed,
                 reconnecting, cooldown, nextGeneration, kind, ctxDone, on,
                 waitOn, resp, touched>>

\* The write lock, the context and readerDone race in one select; with the
\* lock held the context and the generation are checked again.
Lock(c) ==
  /\ pc[c] = "lock"
  /\ \/ /\ ctxDone[c] /\ Finish(c, "ctx")
        /\ UNCHANGED <<attempts, purpose, writer>>
     \/ /\ on[c] \in readerDone /\ Lose(c, FALSE)
        /\ UNCHANGED writer
     \/ /\ writer[on[c]] = None /\ ~ctxDone[c] /\ Dead(on[c]) /\ Lose(c, FALSE)
        /\ UNCHANGED writer
     \/ /\ writer[on[c]] = None /\ ~ctxDone[c] /\ ~Dead(on[c])
        /\ writer' = [writer EXCEPT ![on[c]] = c]
        /\ Goto(c, "write")
        /\ UNCHANGED <<attempts, purpose, result>>
  /\ UNCHANGED <<executorVars, err, readerDone, shut, remoteVars, attemptVars,
                 closeVars, kind, ctxDone, on, id, waitOn, resp, touched>>

Writable(g) == g \in up /\ g \notin shut

\* stream.Write accepted the whole frame.
WriteAll(c) ==
  /\ pc[c] = "write" /\ Writable(on[c])
  /\ Put(on[c], {RequestFrame(c)})
  /\ touched' = [touched EXCEPT ![c] = TRUE]
  /\ Goto(c, "wrote")
  /\ UNCHANGED <<executorVars, streamVars, up, running, back, ran, attemptVars,
                 closeVars, kind, ctxDone, on, id, attempts, purpose, waitOn,
                 resp, result>>

\* stream.Write failed after some bytes or none.  What arrived may lack only
\* the newline, which the daemon's JSON decoder does not wait for.
WriteCut(c) ==
  /\ pc[c] = "write"
  /\ ~Writable(on[c]) \/ (DeadlineStreams /\ ctxDone[c])
  /\ \/ UNCHANGED <<touched, wire>>
     \/ touched' = [touched EXCEPT ![c] = TRUE] /\ UNCHANGED wire
     \/ /\ touched' = [touched EXCEPT ![c] = TRUE]
        /\ on[c] \in up /\ Put(on[c], {RequestFrame(c)})
  /\ Goto(c, "cutoff")
  /\ UNCHANGED <<executorVars, streamVars, up, running, back, ran, attemptVars,
                 closeVars, kind, ctxDone, on, id, attempts, purpose, waitOn,
                 resp, result>>

\* Without write deadlines an expired context fails the generation, which is
\* what unblocks the write.
Abandon(c) ==
  /\ pc[c] \in {"write", "wrote", "cutoff"}
  /\ ~DeadlineStreams /\ ctxDone[c] /\ on[c] \notin shut
  /\ Fail(on[c])
  /\ UNCHANGED <<executorVars, readerDone, writer, remoteVars, callerVars,
                 attemptVars, closeVars>>

\* After the write, stopClose and the context check: whether a context that ends
\* about then still fails the generation depends on which comes first.  With
\* deadlines a complete frame counts even when the context has ended meanwhile;
\* without them the context error wins.
Written(c) ==
  /\ pc[c] \in {"wrote", "cutoff"}
  /\ Release(c)
  /\ \/ /\ pc[c] = "wrote" /\ (DeadlineStreams \/ ~ctxDone[c])
        /\ Goto(c, "await")
        /\ NoFail /\ UNCHANGED <<attempts, purpose, result>>
     \/ /\ ctxDone[c] /\ ~DeadlineStreams
        /\ Finish(c, "ctx")
        /\ MayFail(on[c]) /\ UNCHANGED <<attempts, purpose>>
     \/ /\ ctxDone[c] /\ DeadlineStreams /\ pc[c] = "cutoff"
        /\ Finish(c, "ctx")
        /\ IF touched[c] THEN Fail(on[c]) ELSE NoFail
        /\ UNCHANGED <<attempts, purpose>>
     \/ /\ ~ctxDone[c] /\ pc[c] = "cutoff"
        /\ Fail(on[c]) /\ Lose(c, touched[c])
  /\ UNCHANGED <<executorVars, readerDone, remoteVars, attemptVars, closeVars,
                 kind, ctxDone, on, id, waitOn, resp, touched>>

-----------------------------------------------------------------------------
(* callOnWithOptions: waiting for the response                             *)

TakeResponse(c) ==
  /\ pc[c] = "await" /\ resp[c] # None
  /\ Finish(c, resp[c].status)
  /\ UNCHANGED <<executorVars, streamVars, remoteVars, attemptVars, closeVars,
                 kind, ctxDone, on, id, attempts, purpose, waitOn, resp,
                 touched>>

SeeCtxDone(c) ==
  /\ pc[c] = "await" /\ ctxDone[c]
  /\ Goto(c, "cancel")
  /\ UNCHANGED <<executorVars, streamVars, remoteVars, attemptVars, closeVars,
                 kind, ctxDone, on, id, attempts, purpose, waitOn, resp,
                 touched, result>>

SeeReaderDone(c) ==
  /\ pc[c] = "await" /\ on[c] \in readerDone
  /\ Lose(c, TRUE)
  /\ UNCHANGED <<executorVars, streamVars, remoteVars, attemptVars, closeVars,
                 kind, ctxDone, on, id, waitOn, resp, touched>>

\* The liveness timer of a tool call; pings and passive calls have none.
StartProbe(c) ==
  /\ pc[c] = "await" /\ kind[c] = "tool"
  /\ Goto(c, "probe")
  /\ UNCHANGED <<executorVars, streamVars, remoteVars, attemptVars, closeVars,
                 kind, ctxDone, on, id, attempts, purpose, waitOn, resp,
                 touched, result>>

\* A pong, or response bytes while the generation stayed alive.  The pong may
\* have been read just before the stream ended.
ProbeOk(c) ==
  /\ pc[c] = "probe"
  /\ Goto(c, "await")
  /\ UNCHANGED <<executorVars, streamVars, remoteVars, attemptVars, closeVars,
                 kind, ctxDone, on, id, attempts, purpose, waitOn, resp,
                 touched, result>>

\* A failed probe still prefers the response, then the caller's context, and
\* only then declares the generation dead.
ProbeFail(c) ==
  /\ pc[c] = "probe"
  /\ \/ /\ resp[c] # None /\ Finish(c, resp[c].status)
        /\ MayFail(on[c]) /\ UNCHANGED <<attempts, purpose>>
     \/ /\ resp[c] = None /\ ctxDone[c] /\ Goto(c, "cancel")
        /\ MayFail(on[c]) /\ UNCHANGED <<attempts, purpose, result>>
     \/ /\ resp[c] = None /\ ~ctxDone[c]
        /\ Fail(on[c]) /\ Lose(c, TRUE)
  /\ UNCHANGED <<executorVars, readerDone, writer, remoteVars, attemptVars,
                 closeVars, kind, ctxDone, on, id, waitOn, resp, touched>>

\* cancelRequest: the cancel frame is delivered in time, or the generation is
\* failed, or it was dead already.  The caller gets its context error.
CancelRequest(c) ==
  /\ pc[c] = "cancel"
  /\ \/ Dead(on[c]) /\ NoFail /\ UNCHANGED wire
     \/ /\ ~Dead(on[c]) /\ Writable(on[c]) /\ writer[on[c]] = None
        /\ Put(on[c], {CancelFrame(c)}) /\ MayFail(on[c])
     \/ ~Dead(on[c]) /\ Fail(on[c]) /\ UNCHANGED wire
  /\ Finish(c, "ctx")
  /\ UNCHANGED <<executorVars, readerDone, writer, up, running, back, ran,
                 attemptVars, closeVars, kind, ctxDone, on, id, attempts,
                 purpose, waitOn, resp, touched>>

-----------------------------------------------------------------------------
(* connection.readLoop and the daemon at the other end                     *)

\* Mutated lookup: any call on the generation takes the response.
PendingAnyId(g, i) == {c \in Callers : on[c] = g /\ pc[c] # "done"}

\* The reader hands a response to the call pending under its id on this
\* generation; a response nobody waits for is dropped.
Pending(g, i) == {c \in Callers : on[c] = g /\ id[c] = i /\ pc[c] # "done"}

Deliver(g, r) ==
  /\ g \notin readerDone /\ r \in back[g]
  /\ back' = [back EXCEPT ![g] = @ \ {r}]
  /\ resp' = [c \in Callers |->
                IF c \in Pending(g, r.id) /\ resp[c] = None THEN r ELSE resp[c]]
  /\ UNCHANGED <<executorVars, streamVars, up, wire, running, ran, attemptVars,
                 closeVars, pc, kind, ctxDone, on, id, attempts, purpose,
                 waitOn, touched, result>>

\* End of stream, or output that is not a frame.
ReaderExit(g) ==
  /\ g \in 1 .. nextGeneration /\ g \notin readerDone
  /\ err' = err \cup {g} /\ readerDone' = readerDone \cup {g}
  /\ UNCHANGED <<executorVars, shut, writer, remoteVars, callerVars,
                 attemptVars, closeVars>>

\* The daemon starts the operation as soon as it has read the request.
DaemonReceive(g, f) ==
  /\ g \in up /\ f \in wire[g] /\ f.type = "req"
  /\ wire' = [wire EXCEPT ![g] = @ \ {f}]
  /\ running' = [running EXCEPT ![g] =
                   @ \cup {[id |-> f.id, op |-> f.op, canceled |-> FALSE]}]
  /\ ran' = [ran EXCEPT ![f.op] = @ + 1]
  /\ UNCHANGED <<executorVars, streamVars, up, back, callerVars, attemptVars,
                 closeVars>>

\* A cancel frame names a request that was read before it.
DaemonCancel(g, f) ==
  /\ g \in up /\ f \in wire[g] /\ f.type = "cancel"
  /\ \A q \in wire[g] : q.type = "req" => q.id # f.id
  /\ wire' = [wire EXCEPT ![g] = @ \ {f}]
  /\ running' = [running EXCEPT ![g] =
                   {[x EXCEPT !.canceled = @ \/ x.id = f.id] : x \in @}]
  /\ UNCHANGED <<executorVars, streamVars, up, back, ran, callerVars,
                 attemptVars, closeVars>>

DaemonRespond(g, x) ==
  /\ g \in up /\ x \in running[g]
  /\ running' = [running EXCEPT ![g] = @ \ {x}]
  /\ \E s \in {"ok", "canceled"} :
       /\ s = "canceled" => x.canceled
       /\ back' = [back EXCEPT ![g] =
                     @ \cup {[id |-> x.id, op |-> x.op, status |-> s]}]
  /\ UNCHANGED <<executorVars, streamVars, up, wire, ran, callerVars,
                 attemptVars, closeVars>>

\* The daemon ends when its input closes, and it or the network under it may
\* die at any time; unread requests and running handlers go with it.
DaemonEnds(g) ==
  /\ g \in up
  /\ up' = up \ {g}
  /\ wire' = [wire EXCEPT ![g] = {}]
  /\ running' = [running EXCEPT ![g] = {}]
  /\ UNCHANGED <<executorVars, streamVars, back, ran, callerVars, attemptVars,
                 closeVars>>

-----------------------------------------------------------------------------
(* Executor.reconnect, one goroutine per attempt                           *)

AttemptGoto(a, l) == rpc' = [rpc EXCEPT ![a] = l]

\* recordReconnectFailure
RecordFailure(a) ==
  /\ reconnecting' = IF reconnecting = a THEN 0 ELSE reconnecting
  /\ cooldown' = TRUE
  /\ AttemptGoto(a, "leaving")

\* Mutated recovery: drops the waiter before the attempt has ended.
RecoverAndForget(a) ==
  /\ rpc[a] = "recover"
  /\ AttemptGoto(a, "spawn") /\ reconnecting' = 0
  /\ UNCHANGED <<conn, closed, cooldown, nextID, nextGeneration, streamVars,
                 remoteVars, callerVars, fresh, prev, closeVars>>

\* transport.Recover
RecoverTransport(a) ==
  /\ rpc[a] = "recover"
  /\ AttemptGoto(a, "spawn")
  /\ UNCHANGED <<executorVars, streamVars, remoteVars, callerVars, fresh, prev,
                 closeVars>>

\* Mutated failure: recorded, but the attempt goes on to publish nothing.
FailAndPublish(a) ==
  /\ rpc[a] \in {"recover", "spawn"}
  /\ cooldown' = TRUE
  /\ AttemptGoto(a, "publish")
  /\ UNCHANGED <<conn, closed, reconnecting, nextID, nextGeneration, streamVars,
                 remoteVars, callerVars, fresh, prev, closeVars>>

\* transport.Recover or transport.Spawn fails, by itself, by the reconnect
\* timeout or by the context Close cancels.
TransportFails(a) ==
  /\ rpc[a] \in {"recover", "spawn"}
  /\ RecordFailure(a)
  /\ UNCHANGED <<conn, closed, nextID, nextGeneration, streamVars, remoteVars,
                 callerVars, fresh, prev, closeVars>>

\* transport.Spawn and newConnection
Spawn(a) ==
  /\ rpc[a] = "spawn"
  /\ nextGeneration' = nextGeneration + 1
  /\ fresh' = [fresh EXCEPT ![a] = nextGeneration + 1]
  /\ up' = up \cup {nextGeneration + 1}
  /\ AttemptGoto(a, "handshake")
  /\ UNCHANGED <<conn, closed, reconnecting, cooldown, nextID, streamVars, wire,
                 running, back, ran, callerVars, prev, closeVars>>

\* The hello may have been read just before the stream ended.
HandshakeOk(a) ==
  /\ rpc[a] = "handshake"
  /\ AttemptGoto(a, "publish")
  /\ UNCHANGED <<executorVars, streamVars, remoteVars, callerVars, fresh, prev,
                 closeVars>>

\* Wrong hello, hello timeout, cancelled context or reader end: the stream is
\* disposed before the failure is recorded.
HandshakeFail(a) ==
  /\ rpc[a] = "handshake"
  /\ BeginDispose({fresh[a]})
  /\ AttemptGoto(a, "aborting")
  /\ UNCHANGED <<executorVars, err, readerDone, writer, remoteVars, callerVars,
                 fresh, prev, closeVars>>

Aborted(a) ==
  /\ rpc[a] = "aborting" /\ fresh[a] \in readerDone
  /\ RecordFailure(a)
  /\ UNCHANGED <<conn, closed, nextID, nextGeneration, streamVars, remoteVars,
                 callerVars, fresh, prev, closeVars>>

\* Under Executor.mu a closed executor gets nothing published.
Publish(a) ==
  /\ rpc[a] = "publish"
  /\ reconnecting' = 0
  /\ \/ /\ closed
        /\ AttemptGoto(a, "discard")
        /\ UNCHANGED <<conn, cooldown, prev>>
     \/ /\ ~closed
        /\ conn' = fresh[a] /\ cooldown' = FALSE
        /\ prev' = [prev EXCEPT ![a] = conn]
        /\ AttemptGoto(a, "retire")
  /\ UNCHANGED <<closed, nextID, nextGeneration, streamVars, remoteVars,
                 callerVars, fresh, closeVars>>

\* conn.dispose() of the unpublished connection, after the lock is released
Discard(a) ==
  /\ rpc[a] = "discard"
  /\ BeginDispose({fresh[a]})
  /\ AttemptGoto(a, "discarding")
  /\ UNCHANGED <<executorVars, err, readerDone, writer, remoteVars, callerVars,
                 fresh, prev, closeVars>>

\* Mutated retirement: the replaced stream is left to itself.
RetireNothing(a) ==
  /\ rpc[a] = "retire"
  /\ AttemptGoto(a, "retiring")
  /\ UNCHANGED <<executorVars, streamVars, remoteVars, callerVars, fresh, prev,
                 closeVars>>

\* previous.dispose(), after the lock is released
Retire(a) ==
  /\ rpc[a] = "retire"
  /\ BeginDispose({prev[a]})
  /\ AttemptGoto(a, "retiring")
  /\ UNCHANGED <<executorVars, err, readerDone, writer, remoteVars, callerVars,
                 fresh, prev, closeVars>>

Disposed(a) ==
  /\ \/ rpc[a] = "discarding" /\ fresh[a] \in readerDone
     \/ rpc[a] = "retiring" /\ prev[a] \in readerDone
  /\ AttemptGoto(a, "leaving")
  /\ UNCHANGED <<executorVars, streamVars, remoteVars, callerVars, fresh, prev,
                 closeVars>>

\* The deferred close(waiter)
Leave(a) ==
  /\ rpc[a] = "leaving"
  /\ AttemptGoto(a, "done")
  /\ UNCHANGED <<executorVars, streamVars, remoteVars, callerVars, fresh, prev,
                 closeVars>>

CooldownExpires ==
  /\ cooldown /\ cooldown' = FALSE
  /\ UNCHANGED <<conn, closed, reconnecting, nextID, nextGeneration, streamVars,
                 remoteVars, callerVars, attemptVars, closeVars>>

-----------------------------------------------------------------------------
(* Executor.Close                                                          *)

CloseGoto(k, l) == cpc' = [cpc EXCEPT ![k] = l]

CloseBegin(k) ==
  /\ cpc[k] = "open"
  /\ closed' = TRUE
  /\ cconn' = [cconn EXCEPT ![k] = conn]
  /\ cwait' = [cwait EXCEPT ![k] = reconnecting]
  /\ CloseGoto(k, "dispose")
  /\ UNCHANGED <<conn, reconnecting, cooldown, nextID, nextGeneration,
                 streamVars, remoteVars, callerVars, attemptVars>>

CloseDispose(k) ==
  /\ cpc[k] = "dispose"
  /\ BeginDispose({cconn[k]})
  /\ CloseGoto(k, "drain")
  /\ UNCHANGED <<executorVars, err, readerDone, writer, remoteVars, callerVars,
                 attemptVars, cconn, cwait>>

CloseDrained(k) ==
  /\ cpc[k] = "drain" /\ cconn[k] \in readerDone
  /\ CloseGoto(k, "await")
  /\ UNCHANGED <<executorVars, streamVars, remoteVars, callerVars, attemptVars,
                 cconn, cwait>>

\* Mutated Close: does not wait for the attempt in progress.
CloseUnawaited(k) ==
  /\ cpc[k] = "await"
  /\ CloseGoto(k, "transport")
  /\ UNCHANGED <<executorVars, streamVars, remoteVars, callerVars, attemptVars,
                 cconn, cwait>>

\* Wait for the captured attempt, then dispose what it may have published:
\* nothing, because once closed is set nothing is published any more.
CloseAwaited(k) ==
  /\ cpc[k] = "await"
  /\ cwait[k] # 0 => rpc[cwait[k]] = "done"
  /\ BeginDispose({conn} \ {cconn[k]})
  /\ CloseGoto(k, "transport")
  /\ UNCHANGED <<executorVars, err, readerDone, writer, remoteVars, callerVars,
                 attemptVars, cconn, cwait>>

\* closeTransport.Do(transport.Close), then Close returns.
CloseTransport(k) ==
  /\ cpc[k] = "transport"
  /\ CloseGoto(k, "returned")
  /\ UNCHANGED <<executorVars, streamVars, remoteVars, callerVars, attemptVars,
                 cconn, cwait>>

-----------------------------------------------------------------------------
CallerStep(c) ==
  \/ Begin(c) \/ BeginPassive(c)
  \/ ObtainClosed(c) \/ ObtainLive(c) \/ ObtainWait(c) \/ ObtainRefused(c)
  \/ \E a \in Attempts : ObtainStart(c, a)
  \/ Awake(c) \/ StopWaiting(c)
  \/ PreflightPass(c) \/ PreflightFail(c)
  \/ Send(c) \/ Lock(c) \/ WriteAll(c) \/ WriteCut(c) \/ Abandon(c) \/ Written(c)
  \/ TakeResponse(c) \/ SeeCtxDone(c) \/ SeeReaderDone(c)
  \/ StartProbe(c) \/ ProbeOk(c) \/ ProbeFail(c) \/ CancelRequest(c)

AttemptStep(a) ==
  \/ RecoverTransport(a) \/ TransportFails(a) \/ Spawn(a)
  \/ HandshakeOk(a) \/ HandshakeFail(a) \/ Aborted(a)
  \/ Publish(a) \/ Discard(a) \/ Retire(a) \/ Disposed(a) \/ Leave(a)

CloseStep(k) ==
  \/ CloseBegin(k) \/ CloseDispose(k) \/ CloseDrained(k) \/ CloseAwaited(k)
  \/ CloseTransport(k)

StreamStep(g) ==
  \/ ReaderExit(g) \/ DaemonEnds(g)
  \/ \E r \in back[g] : Deliver(g, r)
  \/ \E f \in wire[g] : DaemonReceive(g, f) \/ DaemonCancel(g, f)
  \/ \E x \in running[g] : DaemonRespond(g, x)

Next ==
  \/ \E c \in Callers : CallerStep(c) \/ CtxDone(c)
  \/ \E a \in Attempts : AttemptStep(a)
  \/ \E k \in Closers : CloseStep(k)
  \/ \E g \in Gens : StreamStep(g)
  \/ CooldownExpires

Spec == Init /\ [][Next]_vars

-----------------------------------------------------------------------------
(* Safety properties                                                       *)

\* At most one reconnect attempt works on the transport at a time, whatever
\* callers do ("exactly one reconnect attempt runs at a time",
\* obtainConnection).
Working == {"recover", "spawn", "handshake", "aborting", "publish"}
SingleReconnect ==
  \A a, b \in Attempts : rpc[a] \in Working /\ rpc[b] \in Working => a = b

\* An operation is started by a daemon at most once, over all generations and
\* all failures ("never replays an interrupted operation", Executor).
NeverReplayed == \A c \in Callers : ran[c] <= 1

\* No request of c is in flight and none was ever started.
Unsent(c) ==
  ran[c] = 0 /\ \A g \in Gens : \A f \in wire[g] : f.type = "req" => f.op # c

\* A loss reported with OutcomeUnknown=false ("this operation was not sent"),
\* like a refusal to connect, is the truth: the operation has not run and
\* never will.
NotSent == {"lostUnsent", "closed", "unavailable"}
HonestUnsent == \A c \in Callers : result[c] \in NotSent => Unsent(c)

\* A response reaches the call that asked for it, and only after a daemon
\* started that call's operation ("every response stays pinned", callOn).
ResponsePinned ==
  \A c \in Callers : resp[c] # None => resp[c].op = c /\ ran[c] = 1

\* The request of c is at a daemon that still runs, neither cancelled nor
\* with a cancel frame on the way, on a generation that has not failed.
Orphaned(c) ==
  \E g \in up :
    /\ ~Dead(g)
    /\ \/ \E f \in wire[g] : f.type = "req" /\ f.op = c
       \/ \E x \in running[g] : x.op = c /\ ~x.canceled
    /\ \A f \in wire[g] : f.type = "cancel" => f.id # id[c]

\* A caller that got its context error leaves no operation behind that nobody
\* cancels: it sent a cancel frame or failed the generation (cancelRequest).
CanceledCallIsCanceled ==
  \A c \in Callers : result[c] = "ctx" => ~Orphaned(c)

\* A Close on its way waits for attempt a.
Awaited(a) ==
  \E k \in Closers : cwait[k] = a /\ cpc[k] \in {"dispose", "drain", "await"}

\* Once a Close has returned no attempt works on the transport, the published
\* generation is disposed, and a stream still open is about to be disposed: a
\* replaced one, dead, by the attempt that replaced it, or one made too late,
\* by an attempt that another Close, the first one, still waits for.
QuietAfterClose ==
  \A k \in Closers : cpc[k] = "returned" =>
    /\ \A a \in Attempts :
         rpc[a] \notin Working /\ (rpc[a] \in {"discard", "discarding"} => Awaited(a))
    /\ conn \in shut /\ conn \in readerDone
    /\ \A g \in (1 .. nextGeneration) \ shut : \E a \in Attempts :
         \/ rpc[a] = "retire" /\ prev[a] = g /\ Dead(g)
         \/ rpc[a] = "discard" /\ fresh[a] = g

\* A healthy generation is never replaced under the calls that use it, and
\* generations are published in the order they were made.
OnlyDeadReplaced == [][conn' # conn => Dead(conn) /\ conn' > conn]_vars

-----------------------------------------------------------------------------
(* Refinement: what the executor promises each caller                      *)

ReportOf(r) == CASE r = "none" -> "none"
                 [] r \in {"ok", "canceled"} -> "answered"
                 [] r \in NotSent -> "unsent"
                 [] OTHER -> "unknown"

Promise == INSTANCE AtMostOnceCall
             WITH effect <- ran, report <- [c \in Callers |-> ReportOf(result[c])]

\* The executor implements the at-most-once promise of AtMostOnceCall.
KeepsPromise == Promise!Spec

-----------------------------------------------------------------------------
(* Liveness                                                                *)

(* Goroutines are scheduled and their timers fire (CallerStep, AttemptStep,*)
(* CloseStep).  A select blocked on several channels takes a ready one: a  *)
(* call whose liveness probes keep succeeding still sees its response, its *)
(* context or readerDone (strong fairness).  A daemon whose input is       *)
(* closed exits (the stream's Close kills it after two seconds), a reader  *)
(* at end of file returns, a healthy daemon reads its input and finishes   *)
(* the operations it started, and a blocked write completes or fails.      *)
Fairness ==
  /\ \A c \in Callers : /\ WF_vars(CallerStep(c))
                        /\ SF_vars(TakeResponse(c))
                        /\ SF_vars(SeeCtxDone(c))
                        /\ SF_vars(SeeReaderDone(c))
  /\ \A a \in Attempts : WF_vars(AttemptStep(a))
  /\ \A k \in Closers : WF_vars(cpc[k] # "open" /\ CloseStep(k))
  /\ \A g \in Gens :
       /\ WF_vars(g \in shut /\ DaemonEnds(g))
       /\ WF_vars(g \notin up /\ ReaderExit(g))
       /\ WF_vars(\E r \in back[g] : Deliver(g, r))
       /\ WF_vars(\E f \in wire[g] : DaemonReceive(g, f))
       /\ WF_vars(\E x \in running[g] : DaemonRespond(g, x))

FairSpec == Spec /\ Fairness

\* Every call returns: a dead connection, a failed or shared reconnect, a
\* cancelled context and Close all end the wait.  So does every Close, although
\* it waits for readers and for a running attempt.
EveryCallReturns ==
  /\ \A c \in Callers : pc[c] # "idle" ~> pc[c] = "done"
  /\ \A k \in Closers : cpc[k] # "open" ~> cpc[k] = "returned"

\* After Close every daemon ever spawned ends for good, also the one an
\* attempt was starting and the one it was replacing.
CloseStopsEveryDaemon == closed ~> [](up = {})

=============================================================================
