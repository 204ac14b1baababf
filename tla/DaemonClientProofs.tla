------------------------- MODULE DaemonClientProofs -------------------------
(***************************************************************************)
(* Safety of the executor for any number of callers, closers and attempts: *)
(* its types and its single reconnect, and that it performs an operation at*)
(* most once, says so honestly, and gives each response to the call that   *)
(* asked for it: it implements AtMostOnceCall.  Then the life of its       *)
(* generations: only a dead one is replaced, each open stream has somebody *)
(* who closes it, Close leaves nothing at work, and a call whose context   *)
(* ended leaves no operation uncancelled behind.                           *)
(***************************************************************************)
EXTENDS DaemonClient, TLAPS

\* The attempts: started in order, each spawning at most one generation, and
\* the one that works on the transport is the one Executor.mu knows of.
Spawned == {"handshake", "aborting", "publish", "discard", "discarding",
            "retire", "retiring"}

AttemptInv ==
  /\ \A a \in Attempts :
       /\ rpc[a] \in Working => reconnecting = a
       /\ rpc[a] \in {"none", "recover", "spawn"} => nextGeneration <= a
       /\ rpc[a] \in Spawned => fresh[a] \in Gens
       /\ rpc[a] \in {"retire", "retiring"} => prev[a] \in Gens
  /\ \A a, b \in Attempts : a < b /\ rpc[a] = "none" => rpc[b] = "none"

\* A caller on its way through callOn holds a generation, and so does one
\* that lost it; a closer past its first step holds the one it captured.
OnCall == {"preflight", "send", "lock", "write", "wrote", "cutoff", "await",
           "probe", "cancel"}
HoldInv ==
  /\ \A c \in Callers : pc[c] \in OnCall => on[c] \in Gens
  /\ \A k \in Closers : cpc[k] # "open" => cconn[k] \in Gens

BaseInv == TypeOK /\ AttemptInv /\ HoldInv

-----------------------------------------------------------------------------
(* Every step preserves BaseInv: first the callers, one lemma per part.    *)

LEMMA CallerExecutor ==
  ASSUME BaseInv, NEW c \in Callers, CallerStep(c) \/ CtxDone(c)
  PROVE  ExecutorTypeOK'
<1> USE AttemptsAssumption
    DEF executorVars, BaseInv, TypeOK, ExecutorTypeOK
<1>1. CASE Begin(c)
  BY <1>1 DEF Begin
<1>2. CASE BeginPassive(c)
  BY <1>2 DEF BeginPassive
<1>3. CASE ObtainClosed(c)
  BY <1>3 DEF ObtainClosed
<1>4. CASE ObtainLive(c)
  BY <1>4 DEF ObtainLive
<1>5. CASE ObtainWait(c)
  BY <1>5 DEF ObtainWait
<1>6. CASE ObtainRefused(c)
  BY <1>6 DEF ObtainRefused
<1>7. CASE Awake(c)
  BY <1>7 DEF Awake
<1>8. CASE StopWaiting(c)
  BY <1>8 DEF StopWaiting
<1>9. CASE PreflightPass(c)
  BY <1>9 DEF PreflightPass
<1>10. CASE PreflightFail(c)
  BY <1>10 DEF PreflightFail
<1>11. CASE Send(c)
  BY <1>11 DEF Send
<1>12. CASE Lock(c)
  BY <1>12 DEF Lock
<1>13. CASE WriteAll(c)
  BY <1>13 DEF WriteAll
<1>14. CASE WriteCut(c)
  BY <1>14 DEF WriteCut
<1>15. CASE Abandon(c)
  BY <1>15 DEF Abandon, callerVars
<1>16. CASE Written(c)
  BY <1>16 DEF Written
<1>17. CASE TakeResponse(c)
  BY <1>17 DEF TakeResponse
<1>18. CASE SeeCtxDone(c)
  BY <1>18 DEF SeeCtxDone
<1>19. CASE SeeReaderDone(c)
  BY <1>19 DEF SeeReaderDone
<1>20. CASE StartProbe(c)
  BY <1>20 DEF StartProbe
<1>21. CASE ProbeOk(c)
  BY <1>21 DEF ProbeOk
<1>22. CASE ProbeFail(c)
  BY <1>22 DEF ProbeFail
<1>23. CASE CancelRequest(c)
  BY <1>23 DEF CancelRequest
<1>24. CASE CtxDone(c)
  BY <1>24 DEF CtxDone
<1>25. ASSUME NEW a \in Attempts, ObtainStart(c, a)
      PROVE  ExecutorTypeOK'
  BY <1>25 DEF ObtainStart, Attempts
<1> QED
  BY <1>1, <1>2, <1>3, <1>4, <1>5, <1>6, <1>7, <1>8, <1>9, <1>10, <1>11,
     <1>12, <1>13, <1>14, <1>15, <1>16, <1>17, <1>18, <1>19, <1>20, <1>21,
     <1>22, <1>23, <1>24, <1>25 DEF CallerStep

LEMMA CallerStream ==
  ASSUME BaseInv, NEW c \in Callers, CallerStep(c) \/ CtxDone(c)
  PROVE  StreamTypeOK'
<1> USE CallersAssumption
    DEF streamVars, BaseInv, TypeOK, StreamTypeOK, CallerTypeOK
<1>1. CASE Begin(c)
  BY <1>1 DEF Begin
<1>2. CASE BeginPassive(c)
  BY <1>2 DEF BeginPassive
<1>3. CASE ObtainClosed(c)
  BY <1>3 DEF ObtainClosed
<1>4. CASE ObtainLive(c)
  BY <1>4 DEF ObtainLive
<1>5. CASE ObtainWait(c)
  BY <1>5 DEF ObtainWait
<1>6. CASE ObtainRefused(c)
  BY <1>6 DEF ObtainRefused
<1>7. CASE Awake(c)
  BY <1>7 DEF Awake
<1>8. CASE StopWaiting(c)
  BY <1>8 DEF StopWaiting
<1>9. CASE PreflightPass(c)
  BY <1>9 DEF PreflightPass
<1>10. CASE PreflightFail(c)
  BY <1>10 DEF PreflightFail, MayFail, Fail, NoFail, HoldInv, OnCall
<1>11. CASE Send(c)
  BY <1>11 DEF Send
<1>12. CASE Lock(c)
  <2>1. \/ UNCHANGED writer
        \/ writer' = [writer EXCEPT ![on[c]] = c]
    BY <1>12 DEF Lock
  <2>2. UNCHANGED <<err, readerDone, shut>>
    BY <1>12 DEF Lock
  <2> QED
    BY <2>1, <2>2
<1>13. CASE WriteAll(c)
  BY <1>13 DEF WriteAll
<1>14. CASE WriteCut(c)
  BY <1>14 DEF WriteCut
<1>15. CASE Abandon(c)
  BY <1>15 DEF Abandon, Fail, HoldInv, OnCall
<1>16. CASE Written(c)
  BY <1>16 DEF Written, MayFail, Fail, NoFail, HoldInv, OnCall, Release
<1>17. CASE TakeResponse(c)
  BY <1>17 DEF TakeResponse
<1>18. CASE SeeCtxDone(c)
  BY <1>18 DEF SeeCtxDone
<1>19. CASE SeeReaderDone(c)
  BY <1>19 DEF SeeReaderDone
<1>20. CASE StartProbe(c)
  BY <1>20 DEF StartProbe
<1>21. CASE ProbeOk(c)
  BY <1>21 DEF ProbeOk
<1>22. CASE ProbeFail(c)
  BY <1>22 DEF ProbeFail, MayFail, Fail, NoFail, HoldInv, OnCall
<1>23. CASE CancelRequest(c)
  BY <1>23 DEF CancelRequest, MayFail, Fail, NoFail, HoldInv, OnCall
<1>24. CASE CtxDone(c)
  BY <1>24 DEF CtxDone
<1>25. ASSUME NEW a \in Attempts, ObtainStart(c, a)
      PROVE  StreamTypeOK'
  BY <1>25 DEF ObtainStart, Attempts
<1> QED
  BY <1>1, <1>2, <1>3, <1>4, <1>5, <1>6, <1>7, <1>8, <1>9, <1>10, <1>11,
     <1>12, <1>13, <1>14, <1>15, <1>16, <1>17, <1>18, <1>19, <1>20, <1>21,
     <1>22, <1>23, <1>24, <1>25 DEF CallerStep

LEMMA CallerRemote ==
  ASSUME BaseInv, NEW c \in Callers, CallerStep(c) \/ CtxDone(c)
  PROVE  RemoteTypeOK'
<1> USE CallersAssumption
    DEF remoteVars, BaseInv, TypeOK, RemoteTypeOK
<1>1. CASE Begin(c)
  BY <1>1 DEF Begin
<1>2. CASE BeginPassive(c)
  BY <1>2 DEF BeginPassive
<1>3. CASE ObtainClosed(c)
  BY <1>3 DEF ObtainClosed
<1>4. CASE ObtainLive(c)
  BY <1>4 DEF ObtainLive
<1>5. CASE ObtainWait(c)
  BY <1>5 DEF ObtainWait
<1>6. CASE ObtainRefused(c)
  BY <1>6 DEF ObtainRefused
<1>7. CASE Awake(c)
  BY <1>7 DEF Awake
<1>8. CASE StopWaiting(c)
  BY <1>8 DEF StopWaiting
<1>9. CASE PreflightPass(c)
  BY <1>9 DEF PreflightPass
<1>10. CASE PreflightFail(c)
  BY <1>10 DEF PreflightFail
<1>11. CASE Send(c)
  BY <1>11 DEF Send
<1>12. CASE Lock(c)
  BY <1>12 DEF Lock
<1>13. CASE WriteAll(c)
  <2>1. RequestFrame(c) \in Requests
    BY DEF RequestFrame, Requests, CallerTypeOK
  <2> QED
    BY <1>13, <2>1 DEF WriteAll, Put
<1>14. CASE WriteCut(c)
  <2>1. RequestFrame(c) \in Requests
    BY DEF RequestFrame, Requests, CallerTypeOK
  <2> QED
    BY <1>14, <2>1 DEF WriteCut, Put
<1>15. CASE Abandon(c)
  BY <1>15 DEF Abandon
<1>16. CASE Written(c)
  BY <1>16 DEF Written
<1>17. CASE TakeResponse(c)
  BY <1>17 DEF TakeResponse
<1>18. CASE SeeCtxDone(c)
  BY <1>18 DEF SeeCtxDone
<1>19. CASE SeeReaderDone(c)
  BY <1>19 DEF SeeReaderDone
<1>20. CASE StartProbe(c)
  BY <1>20 DEF StartProbe
<1>21. CASE ProbeOk(c)
  BY <1>21 DEF ProbeOk
<1>22. CASE ProbeFail(c)
  BY <1>22 DEF ProbeFail
<1>23. CASE CancelRequest(c)
  BY <1>23 DEF CancelRequest, Put, CancelFrame, Cancels, CallerTypeOK
<1>24. CASE CtxDone(c)
  BY <1>24 DEF CtxDone
<1>25. ASSUME NEW a \in Attempts, ObtainStart(c, a)
      PROVE  RemoteTypeOK'
  BY <1>25 DEF ObtainStart, Attempts
<1> QED
  BY <1>1, <1>2, <1>3, <1>4, <1>5, <1>6, <1>7, <1>8, <1>9, <1>10, <1>11,
     <1>12, <1>13, <1>14, <1>15, <1>16, <1>17, <1>18, <1>19, <1>20, <1>21,
     <1>22, <1>23, <1>24, <1>25 DEF CallerStep

LEMMA CallerAttempt ==
  ASSUME BaseInv, NEW c \in Callers, CallerStep(c) \/ CtxDone(c)
  PROVE  AttemptTypeOK' /\ AttemptInv' /\ CloserTypeOK'
<1> USE AttemptsAssumption
    DEF attemptVars, closeVars, executorVars, BaseInv, TypeOK, AttemptTypeOK,
       CloserTypeOK, AttemptInv
<1>1. CASE Begin(c)
  BY <1>1 DEF Begin
<1>2. CASE BeginPassive(c)
  BY <1>2 DEF BeginPassive
<1>3. CASE ObtainClosed(c)
  BY <1>3 DEF ObtainClosed
<1>4. CASE ObtainLive(c)
  BY <1>4 DEF ObtainLive
<1>5. CASE ObtainWait(c)
  BY <1>5 DEF ObtainWait
<1>6. CASE ObtainRefused(c)
  BY <1>6 DEF ObtainRefused
<1>7. CASE Awake(c)
  BY <1>7 DEF Awake
<1>8. CASE StopWaiting(c)
  BY <1>8 DEF StopWaiting
<1>9. CASE PreflightPass(c)
  BY <1>9 DEF PreflightPass
<1>10. CASE PreflightFail(c)
  BY <1>10 DEF PreflightFail
<1>11. CASE Send(c)
  BY <1>11 DEF Send
<1>12. CASE Lock(c)
  BY <1>12 DEF Lock
<1>13. CASE WriteAll(c)
  BY <1>13 DEF WriteAll
<1>14. CASE WriteCut(c)
  BY <1>14 DEF WriteCut
<1>15. CASE Abandon(c)
  BY <1>15 DEF Abandon
<1>16. CASE Written(c)
  BY <1>16 DEF Written
<1>17. CASE TakeResponse(c)
  BY <1>17 DEF TakeResponse
<1>18. CASE SeeCtxDone(c)
  BY <1>18 DEF SeeCtxDone
<1>19. CASE SeeReaderDone(c)
  BY <1>19 DEF SeeReaderDone
<1>20. CASE StartProbe(c)
  BY <1>20 DEF StartProbe
<1>21. CASE ProbeOk(c)
  BY <1>21 DEF ProbeOk
<1>22. CASE ProbeFail(c)
  BY <1>22 DEF ProbeFail
<1>23. CASE CancelRequest(c)
  BY <1>23 DEF CancelRequest
<1>24. CASE CtxDone(c)
  BY <1>24 DEF CtxDone
<1>25. ASSUME NEW a \in Attempts, ObtainStart(c, a)
      PROVE  AttemptTypeOK' /\ AttemptInv' /\ CloserTypeOK'
  BY <1>25 DEF ObtainStart, Attempts, Working, Spawned, Unstarted, AttemptPC
<1> QED
  BY <1>1, <1>2, <1>3, <1>4, <1>5, <1>6, <1>7, <1>8, <1>9, <1>10, <1>11,
     <1>12, <1>13, <1>14, <1>15, <1>16, <1>17, <1>18, <1>19, <1>20, <1>21,
     <1>22, <1>23, <1>24, <1>25 DEF CallerStep

LEMMA CallerHold ==
  ASSUME BaseInv, NEW c \in Callers, CallerStep(c) \/ CtxDone(c)
  PROVE  HoldInv'
<1> USE CallersAssumption
    DEF BaseInv, TypeOK, HoldInv, OnCall, CallerTypeOK, closeVars, Goto,
       Finish, EnterObtain
<1>1. CASE Begin(c)
  BY <1>1 DEF Begin
<1>2. CASE BeginPassive(c)
  BY <1>2 DEF BeginPassive, ExecutorTypeOK
<1>3. CASE ObtainClosed(c)
  BY <1>3 DEF ObtainClosed
<1>4. CASE ObtainLive(c)
  BY <1>4 DEF ObtainLive, ExecutorTypeOK
<1>5. CASE ObtainWait(c)
  BY <1>5 DEF ObtainWait
<1>6. CASE ObtainRefused(c)
  BY <1>6 DEF ObtainRefused
<1>7. CASE Awake(c)
  BY <1>7 DEF Awake
<1>8. CASE StopWaiting(c)
  BY <1>8 DEF StopWaiting
<1>9. CASE PreflightPass(c)
  BY <1>9 DEF PreflightPass
<1>10. CASE PreflightFail(c)
  BY <1>10 DEF PreflightFail
<1>11. CASE Send(c)
  BY <1>11 DEF Send, Lose
<1>12. CASE Lock(c)
  BY <1>12 DEF Lock, Lose
<1>13. CASE WriteAll(c)
  BY <1>13 DEF WriteAll
<1>14. CASE WriteCut(c)
  BY <1>14 DEF WriteCut
<1>15. CASE Abandon(c)
  BY <1>15 DEF Abandon, callerVars
<1>16. CASE Written(c)
  BY <1>16 DEF Written, Lose
<1>17. CASE TakeResponse(c)
  BY <1>17 DEF TakeResponse
<1>18. CASE SeeCtxDone(c)
  BY <1>18 DEF SeeCtxDone
<1>19. CASE SeeReaderDone(c)
  BY <1>19 DEF SeeReaderDone, Lose
<1>20. CASE StartProbe(c)
  BY <1>20 DEF StartProbe
<1>21. CASE ProbeOk(c)
  BY <1>21 DEF ProbeOk
<1>22. CASE ProbeFail(c)
  BY <1>22 DEF ProbeFail, Lose
<1>23. CASE CancelRequest(c)
  BY <1>23 DEF CancelRequest
<1>24. CASE CtxDone(c)
  BY <1>24 DEF CtxDone
<1>25. ASSUME NEW a \in Attempts, ObtainStart(c, a)
      PROVE  HoldInv'
  BY <1>25 DEF ObtainStart
<1> QED
  BY <1>1, <1>2, <1>3, <1>4, <1>5, <1>6, <1>7, <1>8, <1>9, <1>10, <1>11,
     <1>12, <1>13, <1>14, <1>15, <1>16, <1>17, <1>18, <1>19, <1>20, <1>21,
     <1>22, <1>23, <1>24, <1>25 DEF CallerStep

LEMMA CallerTypes ==
  ASSUME BaseInv, NEW c \in Callers, CallerStep(c) \/ CtxDone(c)
  PROVE  CallerTypeOK'
<1> USE CallersAssumption, KindsAssumption, AttemptsAssumption
    DEF Gens, executorVars, streamVars, remoteVars, attemptVars, closeVars,
       Goto, Finish, EnterObtain, BaseInv, TypeOK, CallerTypeOK, CallerPC,
       Purposes, Results, MaxReconnectAttemptsPerCall
<1>1. CASE Begin(c)
  BY <1>1 DEF Begin
<1>2. CASE BeginPassive(c)
  BY <1>2 DEF BeginPassive, ExecutorTypeOK, Attempts
<1>3. CASE ObtainClosed(c)
  BY <1>3 DEF ObtainClosed, Failure
<1>4. CASE ObtainLive(c)
  BY <1>4 DEF ObtainLive, ExecutorTypeOK, Attempts
<1>5. CASE ObtainWait(c)
  BY <1>5 DEF ObtainWait, ExecutorTypeOK
<1>6. CASE ObtainRefused(c)
  BY <1>6 DEF ObtainRefused, Failure
<1>7. CASE Awake(c)
  BY <1>7 DEF Awake
<1>8. CASE StopWaiting(c)
  BY <1>8 DEF StopWaiting, Failure
<1>9. CASE PreflightPass(c)
  BY <1>9 DEF PreflightPass
<1>10. CASE PreflightFail(c)
  BY <1>10 DEF PreflightFail
<1>11. CASE Send(c)
  BY <1>11 DEF Send, Lose, ExecutorTypeOK
<1>12. CASE Lock(c)
  BY <1>12 DEF Lock, Lose
<1>13. CASE WriteAll(c)
  BY <1>13 DEF WriteAll
<1>14. CASE WriteCut(c)
  BY <1>14 DEF WriteCut
<1>15. CASE Abandon(c)
  BY <1>15 DEF Abandon, callerVars
<1>16. CASE Written(c)
  BY <1>16 DEF Written, Lose
<1>17. CASE TakeResponse(c)
  BY <1>17 DEF TakeResponse, Responses
<1>18. CASE SeeCtxDone(c)
  BY <1>18 DEF SeeCtxDone
<1>19. CASE SeeReaderDone(c)
  BY <1>19 DEF SeeReaderDone, Lose
<1>20. CASE StartProbe(c)
  BY <1>20 DEF StartProbe
<1>21. CASE ProbeOk(c)
  BY <1>21 DEF ProbeOk
<1>22. CASE ProbeFail(c)
  BY <1>22 DEF ProbeFail, Lose, Responses
<1>23. CASE CancelRequest(c)
  BY <1>23 DEF CancelRequest
<1>24. CASE CtxDone(c)
  BY <1>24 DEF CtxDone
<1>25. ASSUME NEW a \in Attempts, ObtainStart(c, a)
      PROVE  CallerTypeOK'
  BY <1>25 DEF ObtainStart, Refused
<1> QED
  BY <1>1, <1>2, <1>3, <1>4, <1>5, <1>6, <1>7, <1>8, <1>9, <1>10, <1>11,
     <1>12, <1>13, <1>14, <1>15, <1>16, <1>17, <1>18, <1>19, <1>20, <1>21,
     <1>22, <1>23, <1>24, <1>25 DEF CallerStep

-----------------------------------------------------------------------------
(* The reconnect goroutines, Close and the streams.                        *)

LEMMA AttemptExecutor ==
  ASSUME BaseInv, NEW a \in Attempts, AttemptStep(a)
  PROVE  ExecutorTypeOK'
<1> USE AttemptsAssumption
    DEF executorVars, BaseInv, TypeOK, ExecutorTypeOK, AttemptGoto,
       RecordFailure, AttemptInv, Spawned, Attempts, Gens
<1>1. CASE RecoverTransport(a)
  BY <1>1 DEF RecoverTransport
<1>2. CASE TransportFails(a)
  BY <1>2 DEF TransportFails
<1>3. CASE Spawn(a)
  BY <1>3 DEF Spawn
<1>4. CASE HandshakeOk(a)
  BY <1>4 DEF HandshakeOk
<1>5. CASE HandshakeFail(a)
  BY <1>5 DEF HandshakeFail
<1>6. CASE Aborted(a)
  BY <1>6 DEF Aborted
<1>7. CASE Publish(a)
  BY <1>7 DEF Publish
<1>8. CASE Retire(a)
  BY <1>8 DEF Retire
<1>9. CASE Disposed(a)
  BY <1>9 DEF Disposed
<1>10. CASE Leave(a)
  BY <1>10 DEF Leave
<1>11. CASE Discard(a)
  BY <1>11 DEF Discard
<1> QED
  BY <1>1, <1>2, <1>3, <1>4, <1>5, <1>6, <1>7, <1>8, <1>9, <1>10, <1>11
     DEF AttemptStep

LEMMA AttemptOthers ==
  ASSUME BaseInv, NEW a \in Attempts, AttemptStep(a)
  PROVE  StreamTypeOK' /\ RemoteTypeOK' /\ CallerTypeOK' /\ CloserTypeOK' /\
     HoldInv'
<1> USE AttemptsAssumption
    DEF streamVars, remoteVars, callerVars, closeVars, BaseInv, TypeOK,
       StreamTypeOK, RemoteTypeOK, CallerTypeOK, CloserTypeOK, HoldInv,
       BeginDispose, AttemptInv, Spawned
<1>1. CASE RecoverTransport(a)
  BY <1>1 DEF RecoverTransport
<1>2. CASE TransportFails(a)
  BY <1>2 DEF TransportFails
<1>3. CASE Spawn(a)
  BY <1>3 DEF Spawn, ExecutorTypeOK, Gens, Attempts
<1>4. CASE HandshakeOk(a)
  BY <1>4 DEF HandshakeOk
<1>5. CASE HandshakeFail(a)
  BY <1>5 DEF HandshakeFail
<1>6. CASE Aborted(a)
  BY <1>6 DEF Aborted
<1>7. CASE Publish(a)
  BY <1>7 DEF Publish
<1>8. CASE Retire(a)
  BY <1>8 DEF Retire
<1>9. CASE Disposed(a)
  BY <1>9 DEF Disposed
<1>10. CASE Leave(a)
  BY <1>10 DEF Leave
<1>11. CASE Discard(a)
  BY <1>11 DEF Discard
<1> QED
  BY <1>1, <1>2, <1>3, <1>4, <1>5, <1>6, <1>7, <1>8, <1>9, <1>10, <1>11
     DEF AttemptStep

LEMMA AttemptAttempt ==
  ASSUME BaseInv, NEW a \in Attempts, AttemptStep(a)
  PROVE  AttemptTypeOK' /\ AttemptInv'
<1> USE AttemptsAssumption
    DEF executorVars, BaseInv, TypeOK, ExecutorTypeOK, AttemptTypeOK,
       AttemptInv, AttemptGoto, RecordFailure, Spawned, Working, Gens,
       Attempts, AttemptPC
<1>1. CASE RecoverTransport(a)
  BY <1>1 DEF RecoverTransport
<1>2. CASE TransportFails(a)
  BY <1>2 DEF TransportFails
<1>3. CASE Spawn(a)
  BY <1>3 DEF Spawn
<1>4. CASE HandshakeOk(a)
  BY <1>4 DEF HandshakeOk
<1>5. CASE HandshakeFail(a)
  BY <1>5 DEF HandshakeFail
<1>6. CASE Aborted(a)
  BY <1>6 DEF Aborted
<1>7. CASE Publish(a)
  <2>1. /\ rpc[a] = "publish" /\ reconnecting' = 0
        /\ UNCHANGED <<nextGeneration, fresh>>
    BY <1>7 DEF Publish
  <2>2. \/ /\ rpc' = [rpc EXCEPT ![a] = "discard"] /\ prev' = prev
        \/ /\ rpc' = [rpc EXCEPT ![a] = "retire"]
           /\ prev' = [prev EXCEPT ![a] = conn]
    BY <1>7 DEF Publish
  <2>3. conn \in Gens /\ reconnecting = a /\ fresh[a] \in Gens
    BY <2>1
  <2>4. AttemptTypeOK'
    BY <2>1, <2>2, <2>3
  <2>5. \A b \in Attempts : rpc[b] \in Working => b = a
    BY <2>3
  <2>6. AttemptInv'
    BY <2>1, <2>2, <2>3, <2>5, SMTT(30)
  <2> QED
    BY <2>4, <2>6
<1>8. CASE Retire(a)
  BY <1>8 DEF Retire
<1>9. CASE Disposed(a)
  BY <1>9 DEF Disposed
<1>10. CASE Leave(a)
  BY <1>10 DEF Leave
<1>11. CASE Discard(a)
  BY <1>11 DEF Discard
<1> QED
  BY <1>1, <1>2, <1>3, <1>4, <1>5, <1>6, <1>7, <1>8, <1>9, <1>10, <1>11
     DEF AttemptStep

LEMMA CloserBase ==
  ASSUME BaseInv, NEW k \in Closers, CloseStep(k)
  PROVE  BaseInv'
<1> USE AttemptsAssumption
    DEF BaseInv, TypeOK, CloserTypeOK, ExecutorTypeOK, executorVars,
       StreamTypeOK, streamVars, remoteVars, RemoteTypeOK, callerVars,
       CallerTypeOK, attemptVars, AttemptTypeOK, AttemptInv, HoldInv,
       CloseGoto, ClosePC, BeginDispose
<1>1. CASE CloseBegin(k)
  BY <1>1 DEF CloseBegin
<1>2. CASE CloseDispose(k)
  BY <1>2 DEF CloseDispose
<1>3. CASE CloseDrained(k)
  BY <1>3 DEF CloseDrained
<1>4. CASE CloseAwaited(k)
  BY <1>4 DEF CloseAwaited
<1>5. CASE CloseTransport(k)
  BY <1>5 DEF CloseTransport
<1> QED
  BY <1>1, <1>2, <1>3, <1>4, <1>5 DEF CloseStep

LEMMA StreamBase ==
  ASSUME BaseInv, NEW g \in Gens, StreamStep(g)
  PROVE  BaseInv'
<1>1. CloserTypeOK' /\ AttemptTypeOK' /\ AttemptInv' /\ ExecutorTypeOK'
  BY DEF BaseInv, TypeOK, CloserTypeOK, AttemptTypeOK, AttemptInv,
     ExecutorTypeOK, StreamStep, ReaderExit, DaemonEnds, Deliver,
     DaemonReceive, DaemonCancel, DaemonRespond, closeVars, attemptVars,
     executorVars
<1>2. StreamTypeOK'
  BY DEF BaseInv, TypeOK, StreamTypeOK, StreamStep, ReaderExit, DaemonEnds,
     Deliver, DaemonReceive, DaemonCancel, DaemonRespond, streamVars
<1>3. CallerTypeOK' /\ HoldInv'
  BY DEF BaseInv, TypeOK, CallerTypeOK, RemoteTypeOK, HoldInv, StreamStep,
     ReaderExit, DaemonEnds, Deliver, DaemonReceive, DaemonCancel,
     DaemonRespond, callerVars, closeVars
<1>4. RemoteTypeOK'
  <2>1. CASE ReaderExit(g)
    BY <2>1 DEF ReaderExit, remoteVars, BaseInv, TypeOK, RemoteTypeOK
  <2>2. CASE DaemonEnds(g)
    BY <2>2 DEF DaemonEnds, BaseInv, TypeOK, RemoteTypeOK
  <2>3. ASSUME NEW r \in back[g], Deliver(g, r)
        PROVE  RemoteTypeOK'
    BY <2>3 DEF Deliver, BaseInv, TypeOK, RemoteTypeOK
  <2>4. ASSUME NEW f \in wire[g], DaemonReceive(g, f)
        PROVE  RemoteTypeOK'
    <3>1. f \in Requests
      BY <2>4 DEF DaemonReceive, BaseInv, TypeOK, RemoteTypeOK, Requests,
         Cancels
    <3>2. [id |-> f.id, op |-> f.op, canceled |-> FALSE] \in Running /\ f.op
       \in Callers
      BY <3>1 DEF Requests, Running
    <3> DEFINE h == [id |-> f.id, op |-> f.op, canceled |-> FALSE]
    <3>3. /\ running' = [running EXCEPT ![g] = @ \cup {h}]
          /\ running \in [Gens -> SUBSET Running] /\ h \in Running
      BY <2>4, <3>2 DEF DaemonReceive, BaseInv, TypeOK, RemoteTypeOK
    <3> HIDE DEF h
    <3>4. running' \in [Gens -> SUBSET Running]
      BY <3>3
    <3>5. wire' \in [Gens -> SUBSET (Requests \cup Cancels)]
      BY <2>4 DEF DaemonReceive, BaseInv, TypeOK, RemoteTypeOK
    <3>6. ran' \in [Callers -> Nat]
      BY <2>4, <3>2 DEF DaemonReceive, BaseInv, TypeOK, RemoteTypeOK
    <3> QED
      BY <2>4, <3>4, <3>5, <3>6 DEF DaemonReceive, BaseInv, TypeOK,
         RemoteTypeOK
  <2>5. ASSUME NEW f \in wire[g], DaemonCancel(g, f)
        PROVE  RemoteTypeOK'
    <3>1. ASSUME NEW x \in running[g]
          PROVE  [x EXCEPT !.canceled = @ \/ x.id = f.id] \in Running
      <4> DEFINE b == x.canceled \/ x.id = f.id
      <4>1. x \in Running /\ b \in BOOLEAN
        BY DEF BaseInv, TypeOK, RemoteTypeOK
      <4> HIDE DEF b
      <4>2. [x EXCEPT !.canceled = b] \in Running
        BY <4>1 DEF Running
      <4> QED
        BY <4>2 DEF b
    <3>2. QED
      BY <2>5, <3>1 DEF DaemonCancel, BaseInv, TypeOK, RemoteTypeOK
  <2>6. ASSUME NEW x \in running[g], DaemonRespond(g, x)
        PROVE  RemoteTypeOK'
    <3>1. \A s \in {"ok", "canceled"} :
            [id |-> x.id, op |-> x.op, status |-> s] \in Responses
      BY DEF BaseInv, TypeOK, RemoteTypeOK, Running, Responses
    <3>2. QED
      BY <2>6, <3>1 DEF DaemonRespond, BaseInv, TypeOK, RemoteTypeOK
  <2> QED
    BY <2>1, <2>2, <2>3, <2>4, <2>5, <2>6 DEF StreamStep
<1> QED
  BY <1>1, <1>2, <1>3, <1>4 DEF BaseInv, TypeOK

-----------------------------------------------------------------------------
LEMMA BaseInit == ASSUME Init PROVE BaseInv
<1> USE AttemptsAssumption, CallersAssumption DEF Init, Gens, Attempts
<1>1. ExecutorTypeOK /\ StreamTypeOK
  <2>1. 1 \in Gens
    OBVIOUS
  <2>2. ExecutorTypeOK
    BY <2>1 DEF ExecutorTypeOK
  <2>3. writer \in [Gens -> Callers \cup {None}]
    OBVIOUS
  <2> QED
    BY <2>2, <2>3 DEF StreamTypeOK
<1>2. RemoteTypeOK
  <2>1. up \subseteq Gens /\ ran \in [Callers -> Nat]
    OBVIOUS
  <2>2. /\ wire \in [Gens -> SUBSET (Requests \cup Cancels)]
        /\ running \in [Gens -> SUBSET Running]
        /\ back \in [Gens -> SUBSET Responses]
    OBVIOUS
  <2> QED
    BY <2>1, <2>2 DEF RemoteTypeOK
<1>3. CallerTypeOK
  BY DEF CallerTypeOK, CallerPC, Purposes, Results,
     MaxReconnectAttemptsPerCall
<1>4. AttemptTypeOK /\ CloserTypeOK
  BY DEF AttemptTypeOK, CloserTypeOK, AttemptPC, ClosePC
<1>5. AttemptInv /\ HoldInv
  BY DEF AttemptInv, HoldInv, Working, Spawned, OnCall
<1> QED
  BY <1>1, <1>2, <1>3, <1>4, <1>5 DEF BaseInv, TypeOK

LEMMA BaseStep == ASSUME BaseInv, [Next]_vars PROVE BaseInv'
<1>1. ASSUME NEW c \in Callers, CallerStep(c) \/ CtxDone(c)
      PROVE  BaseInv'
  BY <1>1, CallerExecutor, CallerStream, CallerRemote, CallerAttempt,
     CallerHold, CallerTypes DEF BaseInv, TypeOK
<1>2. ASSUME NEW a \in Attempts, AttemptStep(a)
      PROVE  BaseInv'
  BY <1>2, AttemptExecutor, AttemptOthers, AttemptAttempt DEF BaseInv, TypeOK
<1>3. CASE CooldownExpires
  BY <1>3 DEF CooldownExpires, streamVars, remoteVars, callerVars,
     attemptVars,
     closeVars, BaseInv, TypeOK, ExecutorTypeOK, StreamTypeOK, RemoteTypeOK,
     CallerTypeOK, AttemptTypeOK, CloserTypeOK, AttemptInv, HoldInv
<1>4. CASE UNCHANGED vars
  BY <1>4 DEF vars, executorVars, streamVars, remoteVars, callerVars,
     attemptVars, closeVars, BaseInv, TypeOK, ExecutorTypeOK, StreamTypeOK,
     RemoteTypeOK, CallerTypeOK, AttemptTypeOK, CloserTypeOK, AttemptInv,
     HoldInv
<1> QED
  BY <1>1, <1>2, <1>3, <1>4, CloserBase, StreamBase DEF Next

\* BaseInv is an invariant of the executor.
THEOREM BaseInvariant == Spec => []BaseInv
<1>1. Init => BaseInv
  BY BaseInit
<1>2. BaseInv /\ [Next]_vars => BaseInv'
  BY BaseStep
<1> QED
  BY <1>1, <1>2, PTL DEF Spec

\* Every variable of the executor, the generations, the callers, the reconnect
\* goroutines and the closers keeps to its type; in particular no caller ever
\* counts more than maxReconnectAttemptsPerCall attempts in obtainConnection.
THEOREM TypeCorrect == Spec => []TypeOK
<1>1. BaseInv => TypeOK
  BY DEF BaseInv
<1> QED
  BY <1>1, BaseInvariant, PTL

\* At most one reconnect attempt works on the transport at a time, for any
\* number of callers: an attempt at work is the one installed in reconnecting.
THEOREM OneReconnect == Spec => []SingleReconnect
<1>1. BaseInv => SingleReconnect
  BY DEF BaseInv, AttemptInv, SingleReconnect
<1> QED
  BY <1>1, BaseInvariant, PTL

-----------------------------------------------------------------------------
(* The calls: at most once, and honestly                                   *)

\* Request ids are handed out once.
IdInv ==
  /\ \A c \in Callers : id[c] <= nextID
  /\ \A c, d \in Callers : id[c] = id[d] /\ id[c] # 0 => c = d

\* Once bytes of a request may have left, its caller never comes back to a
\* place where it could send again, or claim that nothing was sent.
Sent == {"wrote", "cutoff", "await", "probe", "cancel"}
CallPhase(c) ==
  /\ pc[c] # "done" => result[c] = "none"
  /\ pc[c] \in Sent \cup {"lock", "write"} => id[c] # 0
  /\ touched[c] =>
       /\ id[c] # 0
       /\ \/ pc[c] \in Sent \cup {"done"}
          \/ pc[c] \in {"obtain", "wait"} /\ purpose[c] = "lostUnknown"
       /\ result[c] \notin NotSent

\* Where the operation of c may be: in one frame on one generation, or
\* started once; a response is one to the request of the call it names.
FrameOf(g, f) ==
  f.type = "req" =>
    touched[f.op] /\ g = on[f.op] /\ f.id = id[f.op] /\ ran[f.op] = 0
Started(x) == ran[x.op] = 1 /\ x.id = id[x.op]
FrameInv ==
  /\ \A c \in Callers : ran[c] \in {0, 1} /\ (ran[c] = 1 => touched[c])
  /\ \A g \in Gens : \A f \in wire[g] : FrameOf(g, f)
  /\ \A g \in Gens : \A x \in running[g] : Started(x)
  /\ \A g \in Gens : \A r \in back[g] : Started(r)
AnswerInv ==
  \A c \in Callers :
    /\ resp[c] # None => resp[c].op = c /\ ran[c] = 1
    /\ result[c] \in {"ok", "canceled"} => ran[c] = 1

CallInv == IdInv /\ (\A c \in Callers : CallPhase(c)) /\ FrameInv /\ AnswerInv

-----------------------------------------------------------------------------
(* Every step of a caller preserves CallInv.                               *)

LEMMA CallerIds ==
  ASSUME BaseInv, CallInv, NEW c \in Callers, CallerStep(c) \/ CtxDone(c)
  PROVE  IdInv'
<1> USE DEF BaseInv, TypeOK, CallerTypeOK, ExecutorTypeOK, CallInv, IdInv,
       executorVars, callerVars
<1>1. CASE Begin(c)
  BY <1>1 DEF Begin
<1>2. CASE BeginPassive(c)
  BY <1>2 DEF BeginPassive
<1>3. CASE ObtainClosed(c)
  BY <1>3 DEF ObtainClosed
<1>4. CASE ObtainLive(c)
  BY <1>4 DEF ObtainLive
<1>5. CASE ObtainWait(c)
  BY <1>5 DEF ObtainWait
<1>6. CASE ObtainRefused(c)
  BY <1>6 DEF ObtainRefused
<1>7. CASE Awake(c)
  BY <1>7 DEF Awake
<1>8. CASE StopWaiting(c)
  BY <1>8 DEF StopWaiting
<1>9. CASE PreflightPass(c)
  BY <1>9 DEF PreflightPass
<1>10. CASE PreflightFail(c)
  BY <1>10 DEF PreflightFail
<1>11. CASE Send(c)
  BY <1>11 DEF Send
<1>12. CASE Lock(c)
  BY <1>12 DEF Lock
<1>13. CASE WriteAll(c)
  BY <1>13 DEF WriteAll
<1>14. CASE WriteCut(c)
  BY <1>14 DEF WriteCut
<1>15. CASE Abandon(c)
  BY <1>15 DEF Abandon
<1>16. CASE Written(c)
  BY <1>16 DEF Written
<1>17. CASE TakeResponse(c)
  BY <1>17 DEF TakeResponse
<1>18. CASE SeeCtxDone(c)
  BY <1>18 DEF SeeCtxDone
<1>19. CASE SeeReaderDone(c)
  BY <1>19 DEF SeeReaderDone
<1>20. CASE StartProbe(c)
  BY <1>20 DEF StartProbe
<1>21. CASE ProbeOk(c)
  BY <1>21 DEF ProbeOk
<1>22. CASE ProbeFail(c)
  BY <1>22 DEF ProbeFail
<1>23. CASE CancelRequest(c)
  BY <1>23 DEF CancelRequest
<1>24. CASE CtxDone(c)
  BY <1>24 DEF CtxDone
<1>25. ASSUME NEW a \in Attempts, ObtainStart(c, a)
       PROVE  IdInv'
  BY <1>25 DEF ObtainStart
<1> QED
  BY <1>1, <1>2, <1>3, <1>4, <1>5, <1>6, <1>7, <1>8, <1>9, <1>10, <1>11, <1>12,
     <1>13, <1>14, <1>15, <1>16, <1>17, <1>18, <1>19, <1>20, <1>21, <1>22,
     <1>23, <1>24, <1>25 DEF CallerStep

LEMMA CallerPhases ==
  ASSUME BaseInv, CallInv, NEW c \in Callers, CallerStep(c) \/ CtxDone(c)
  PROVE  \A d \in Callers : CallPhase(d)'
<1> USE DEF BaseInv, TypeOK, CallerTypeOK, ExecutorTypeOK, CallInv, IdInv,
       CallPhase, Sent, NotSent, Goto, Finish, EnterObtain, callerVars
<1>1. CASE Begin(c)
  BY <1>1 DEF Begin
<1>2. CASE BeginPassive(c)
  BY <1>2 DEF BeginPassive
<1>3. CASE ObtainClosed(c)
  BY <1>3 DEF ObtainClosed, Failure
<1>4. CASE ObtainLive(c)
  BY <1>4 DEF ObtainLive
<1>5. CASE ObtainWait(c)
  BY <1>5 DEF ObtainWait
<1>6. CASE ObtainRefused(c)
  BY <1>6 DEF ObtainRefused, Failure
<1>7. CASE Awake(c)
  BY <1>7 DEF Awake
<1>8. CASE StopWaiting(c)
  BY <1>8 DEF StopWaiting, Failure
<1>9. CASE PreflightPass(c)
  BY <1>9 DEF PreflightPass
<1>10. CASE PreflightFail(c)
  BY <1>10 DEF PreflightFail
<1>11. CASE Send(c)
  BY <1>11 DEF Send, Lose
<1>12. CASE Lock(c)
  BY <1>12 DEF Lock, Lose
<1>13. CASE WriteAll(c)
  BY <1>13 DEF WriteAll
<1>14. CASE WriteCut(c)
  BY <1>14 DEF WriteCut
<1>15. CASE Abandon(c)
  BY <1>15 DEF Abandon
<1>16. CASE Written(c)
  BY <1>16 DEF Written, Lose
<1>17. CASE TakeResponse(c)
  BY <1>17 DEF TakeResponse, Responses
<1>18. CASE SeeCtxDone(c)
  BY <1>18 DEF SeeCtxDone
<1>19. CASE SeeReaderDone(c)
  BY <1>19 DEF SeeReaderDone, Lose
<1>20. CASE StartProbe(c)
  BY <1>20 DEF StartProbe
<1>21. CASE ProbeOk(c)
  BY <1>21 DEF ProbeOk
<1>22. CASE ProbeFail(c)
  BY <1>22 DEF ProbeFail, Lose, Responses
<1>23. CASE CancelRequest(c)
  BY <1>23 DEF CancelRequest
<1>24. CASE CtxDone(c)
  BY <1>24 DEF CtxDone
<1>25. ASSUME NEW a \in Attempts, ObtainStart(c, a)
       PROVE  \A d \in Callers : CallPhase(d)'
  BY <1>25 DEF ObtainStart
<1> QED
  BY <1>1, <1>2, <1>3, <1>4, <1>5, <1>6, <1>7, <1>8, <1>9, <1>10, <1>11, <1>12,
     <1>13, <1>14, <1>15, <1>16, <1>17, <1>18, <1>19, <1>20, <1>21, <1>22,
     <1>23, <1>24, <1>25 DEF CallerStep

LEMMA CallerFrames ==
  ASSUME BaseInv, CallInv, NEW c \in Callers, CallerStep(c) \/ CtxDone(c)
  PROVE  FrameInv' /\ AnswerInv'
<1> USE DEF BaseInv, TypeOK, CallerTypeOK, RemoteTypeOK, CallInv, CallPhase,
       FrameInv, FrameOf, Started, AnswerInv, Sent, remoteVars, callerVars,
       Goto, Finish, EnterObtain
<1>1. CASE Begin(c)
  BY <1>1 DEF Begin
<1>2. CASE BeginPassive(c)
  <2>1. /\ \A d \in Callers : touched[d] => on'[d] = on[d]
        /\ UNCHANGED <<remoteVars, id, resp, touched>>
    BY <1>2 DEF BeginPassive
  <2>2. FrameInv'
    BY <2>1 DEF Requests, Cancels
  <2>3. /\ result'[c] \notin {"ok", "canceled"}
        /\ \A d \in Callers : d # c => result'[d] = result[d]
    BY <1>2 DEF BeginPassive
  <2> QED
    BY <2>1, <2>2, <2>3
<1>3. CASE ObtainClosed(c)
  <2>1. Failure(c, "closed") \notin {"ok", "canceled"}
    BY DEF Failure, Purposes
  <2>2. /\ result' = [result EXCEPT ![c] = Failure(c, "closed")]
        /\ UNCHANGED <<remoteVars, on, id, resp, touched>>
    BY <1>3 DEF ObtainClosed
  <2> QED
    BY <2>1, <2>2
<1>4. CASE ObtainLive(c)
  <2>1. /\ \A d \in Callers : touched[d] => on'[d] = on[d]
        /\ UNCHANGED <<remoteVars, id, resp, touched>>
    BY <1>4 DEF ObtainLive
  <2>2. FrameInv'
    BY <2>1 DEF Requests, Cancels
  <2>3. /\ result'[c] \notin {"ok", "canceled"}
        /\ \A d \in Callers : d # c => result'[d] = result[d]
    BY <1>4 DEF ObtainLive
  <2> QED
    BY <2>1, <2>2, <2>3
<1>5. CASE ObtainWait(c)
  BY <1>5 DEF ObtainWait
<1>6. CASE ObtainRefused(c)
  <2>1. Failure(c, "unavailable") \notin {"ok", "canceled"}
    BY DEF Failure, Purposes
  <2>2. /\ result' = [result EXCEPT ![c] = Failure(c, "unavailable")]
        /\ UNCHANGED <<remoteVars, on, id, resp, touched>>
    BY <1>6 DEF ObtainRefused
  <2> QED
    BY <2>1, <2>2
<1>7. CASE Awake(c)
  BY <1>7 DEF Awake
<1>8. CASE StopWaiting(c)
  <2>1. Failure(c, "ctx") \notin {"ok", "canceled"}
    BY DEF Failure, Purposes
  <2>2. /\ result' = [result EXCEPT ![c] = Failure(c, "ctx")]
        /\ UNCHANGED <<remoteVars, on, id, resp, touched>>
    BY <1>8 DEF StopWaiting
  <2> QED
    BY <2>1, <2>2
<1>9. CASE PreflightPass(c)
  BY <1>9 DEF PreflightPass
<1>10. CASE PreflightFail(c)
  BY <1>10 DEF PreflightFail
<1>11. CASE Send(c)
  BY <1>11 DEF Send, Lose
<1>12. CASE Lock(c)
  BY <1>12 DEF Lock, Lose
<1>13. CASE WriteAll(c)
  BY <1>13 DEF WriteAll, Put, RequestFrame
<1>14. CASE WriteCut(c)
  <2> DEFINE f == RequestFrame(c)
  <2>1. /\ ~touched[c] /\ on[c] \in Gens
        /\ f.type = "req" /\ f.op = c /\ f.id = id[c]
    BY <1>14 DEF WriteCut, RequestFrame, HoldInv, OnCall
  <2>2. /\ UNCHANGED <<up, running, back, ran, on, id, resp, result>>
        /\ \/ UNCHANGED <<touched, wire>>
           \/ touched' = [touched EXCEPT ![c] = TRUE] /\ UNCHANGED wire
           \/ /\ touched' = [touched EXCEPT ![c] = TRUE]
              /\ wire' = [wire EXCEPT ![on[c]] = @ \cup {f}]
    BY <1>14 DEF WriteCut, Put
  <2> HIDE DEF f
  <2>3. \A g \in Gens : \A x \in wire'[g] :
          x \in wire[g] \/ (x = f /\ g = on[c] /\ touched'[c])
    BY <2>1, <2>2
  <2>4. \A d \in Callers : touched[d] => touched'[d]
    BY <2>2
  <2>5. \A g \in Gens : \A x \in wire[g] : FrameOf(g, x)'
    BY <2>2, <2>4 DEF Requests, Cancels
  <2>6. ran[c] = 0
    BY <2>1
  <2>7. \A g \in Gens : \A x \in wire'[g] : FrameOf(g, x)'
    BY <2>1, <2>2, <2>3, <2>5, <2>6
  <2> QED
    BY <2>2, <2>4, <2>7
<1>15. CASE Abandon(c)
  BY <1>15 DEF Abandon
<1>16. CASE Written(c)
  BY <1>16 DEF Written, Lose
<1>17. CASE TakeResponse(c)
  BY <1>17 DEF TakeResponse
<1>18. CASE SeeCtxDone(c)
  BY <1>18 DEF SeeCtxDone
<1>19. CASE SeeReaderDone(c)
  BY <1>19 DEF SeeReaderDone, Lose
<1>20. CASE StartProbe(c)
  BY <1>20 DEF StartProbe
<1>21. CASE ProbeOk(c)
  BY <1>21 DEF ProbeOk
<1>22. CASE ProbeFail(c)
  BY <1>22 DEF ProbeFail, Lose
<1>23. CASE CancelRequest(c)
  BY <1>23 DEF CancelRequest, Put, CancelFrame
<1>24. CASE CtxDone(c)
  BY <1>24 DEF CtxDone
<1>25. ASSUME NEW a \in Attempts, ObtainStart(c, a)
       PROVE  FrameInv' /\ AnswerInv'
  BY <1>25 DEF ObtainStart
<1> QED
  BY <1>1, <1>2, <1>3, <1>4, <1>5, <1>6, <1>7, <1>8, <1>9, <1>10, <1>11, <1>12,
     <1>13, <1>14, <1>15, <1>16, <1>17, <1>18, <1>19, <1>20, <1>21, <1>22,
     <1>23, <1>24, <1>25 DEF CallerStep

-----------------------------------------------------------------------------
(* The other actors.                                                       *)

\* Reconnect goroutines, closers and the clock touch none of it.
LEMMA CallUntouched ==
  ASSUME CallInv, UNCHANGED <<callerVars, wire, running, back, ran, nextID>>
  PROVE  CallInv'
<1>1. IdInv' /\ \A c \in Callers : CallPhase(c)'
  BY DEF CallInv, callerVars, IdInv, CallPhase
<1>2. FrameInv' /\ AnswerInv'
  BY DEF CallInv, callerVars, FrameInv, FrameOf, Started, AnswerInv
<1> QED
  BY <1>1, <1>2 DEF CallInv

LEMMA StreamCall ==
  ASSUME BaseInv, CallInv, NEW g \in Gens, StreamStep(g)
  PROVE  CallInv'
<1> USE DEF BaseInv, TypeOK, RemoteTypeOK, CallerTypeOK, callerVars
<1>1. CASE ReaderExit(g)
  BY <1>1, CallUntouched DEF ReaderExit, remoteVars, executorVars
<1>2. CASE DaemonEnds(g)
  <2>1. IdInv' /\ (\A c \in Callers : CallPhase(c)') /\ AnswerInv'
    BY <1>2 DEF DaemonEnds, CallInv, IdInv, CallPhase, AnswerInv,
       executorVars
  <2>2. FrameInv'
    BY <1>2 DEF DaemonEnds, CallInv, FrameInv, FrameOf, Started
  <2> QED
    BY <2>1, <2>2 DEF CallInv
<1>3. ASSUME NEW r \in back[g], Deliver(g, r)
      PROVE  CallInv'
  <2>1. IdInv' /\ \A c \in Callers : CallPhase(c)'
    BY <1>3 DEF Deliver, CallInv, IdInv, CallPhase, executorVars
  <2>2. FrameInv'
    BY <1>3 DEF Deliver, CallInv, FrameInv, FrameOf, Started
  \* Whoever waits under the id of the response is the call it answers.
  <2>3. \A c \in Pending(g, r.id) : r.op = c /\ ran[c] = 1
    <3>1. r \in Responses /\ Started(r)
      BY DEF CallInv, FrameInv
    <3>2. r.op \in Callers /\ id[r.op] = r.id /\ id[r.op] # 0 /\ ran[r.op] = 1
      BY <3>1 DEF Started, Responses, CallInv, FrameInv, CallPhase
    <3> QED
      BY <3>2 DEF Pending, CallInv, IdInv
  <2>4. AnswerInv'
    BY <1>3, <2>3 DEF Deliver, CallInv, AnswerInv
  <2> QED
    BY <2>1, <2>2, <2>4 DEF CallInv
<1>4. ASSUME NEW f \in wire[g], DaemonReceive(g, f)
      PROVE  CallInv'
  <2>1. f \in Requests
    BY <1>4 DEF DaemonReceive, Requests, Cancels
  <2> DEFINE c == f.op
             h == [id |-> f.id, op |-> c, canceled |-> FALSE]
  <2>2. c \in Callers /\ touched[c] /\ g = on[c] /\ f.id = id[c] /\ ran[c] = 0
    BY <2>1 DEF Requests, CallInv, FrameInv, FrameOf
  <2>3. /\ ran' = [ran EXCEPT ![c] = 1]
        /\ wire' = [wire EXCEPT ![g] = @ \ {f}]
        /\ running' = [running EXCEPT ![g] = @ \cup {h}]
        /\ UNCHANGED <<callerVars, back, nextID>>
    BY <1>4, <2>2 DEF DaemonReceive, executorVars
  <2>4. h.op = c /\ h.id = id[c]
    BY <2>2
  \* Its frame was the only one.
  <2>5. \A i \in Gens : \A q \in wire[i] :
          q.type = "req" /\ q.op = c => i = g /\ q = f
    <3> SUFFICES ASSUME NEW i \in Gens, NEW q \in wire[i],
                        q.type = "req", q.op = c
                 PROVE  i = g /\ q = f
      OBVIOUS
    <3>1. q \in Requests
      BY DEF Requests, Cancels
    <3>2. i = g /\ q.id = f.id
      BY <2>2 DEF CallInv, FrameInv, FrameOf
    <3> QED
      BY <2>1, <3>1, <3>2 DEF Requests
  <2> HIDE DEF c, h
  <2>6. IdInv' /\ \A d \in Callers : CallPhase(d)'
    BY <2>3 DEF CallInv, IdInv, CallPhase
  <2>7. \A d \in Callers : ran'[d] = IF d = c THEN 1 ELSE ran[d]
    BY <2>2, <2>3
  <2>8. AnswerInv'
    BY <2>3, <2>7 DEF CallInv, AnswerInv
  <2>9. \A i \in Gens : \A q \in wire'[i] : FrameOf(i, q)'
    <3> SUFFICES ASSUME NEW i \in Gens, NEW q \in wire'[i], q.type = "req"
                 PROVE  FrameOf(i, q)'
      BY DEF FrameOf
    <3>1. q \in wire[i] /\ q.op # c
      BY <2>3, <2>5 DEF c
    <3>2. q.op \in Callers
      BY <3>1 DEF Requests, Cancels
    <3> QED
      BY <2>3, <2>7, <3>1, <3>2 DEF CallInv, FrameInv, FrameOf
  <2>10. \A i \in Gens : \A x \in running'[i] : Started(x)'
    <3> SUFFICES ASSUME NEW i \in Gens, NEW x \in running'[i]
                 PROVE  Started(x)'
      OBVIOUS
    <3>1. x \in running[i] \/ x = h
      BY <2>3
    <3>2. CASE x \in running[i]
      BY <2>3, <2>7, <3>2 DEF CallInv, FrameInv, Started, Running
    <3>3. CASE x = h
      BY <2>2, <2>3, <2>4, <2>7, <3>3 DEF Started
    <3> QED
      BY <3>1, <3>2, <3>3
  <2>11. \A i \in Gens : \A r \in back'[i] : Started(r)'
    BY <2>3, <2>7 DEF CallInv, FrameInv, Started, Responses
  <2>12. FrameInv'
    BY <2>2, <2>3, <2>7, <2>9, <2>10, <2>11 DEF CallInv, FrameInv
  <2> QED
    BY <2>6, <2>8, <2>12 DEF CallInv
<1>5. ASSUME NEW f \in wire[g], DaemonCancel(g, f)
      PROVE  CallInv'
  <2>1. IdInv' /\ (\A c \in Callers : CallPhase(c)') /\ AnswerInv'
    BY <1>5 DEF DaemonCancel, CallInv, IdInv, CallPhase, AnswerInv,
       executorVars
  <2>2. \A i \in Gens : \A x \in running'[i] :
          \E y \in running[i] : x.id = y.id /\ x.op = y.op
    <3> SUFFICES ASSUME NEW x \in running'[g]
                 PROVE  \E y \in running[g] : x.id = y.id /\ x.op = y.op
      BY <1>5 DEF DaemonCancel
    <3>1. PICK y \in running[g] : x = [y EXCEPT !.canceled = @ \/ y.id = f.id]
      BY <1>5 DEF DaemonCancel
    <3>2. y \in Running
      OBVIOUS
    <3> QED
      BY <3>1, <3>2 DEF Running
  <2>3. \A i \in Gens : \A x \in running'[i] : Started(x)'
    BY <1>5, <2>2 DEF DaemonCancel, CallInv, FrameInv, Started
  <2>4. FrameInv'
    BY <1>5, <2>3 DEF DaemonCancel, CallInv, FrameInv, FrameOf, Started
  <2> QED
    BY <2>1, <2>4 DEF CallInv
<1>6. ASSUME NEW x \in running[g], DaemonRespond(g, x)
      PROVE  CallInv'
  <2>1. IdInv' /\ (\A c \in Callers : CallPhase(c)') /\ AnswerInv'
    BY <1>6 DEF DaemonRespond, CallInv, IdInv, CallPhase, AnswerInv,
       executorVars
  <2>2. PICK s \in {"ok", "canceled"} :
          back' = [back EXCEPT ![g] =
                     @ \cup {[id |-> x.id, op |-> x.op, status |-> s]}]
    BY <1>6 DEF DaemonRespond
  <2>3. \A i \in Gens : \A r \in back'[i] : Started(r)'
    <3> SUFFICES ASSUME NEW i \in Gens, NEW r \in back'[i]
                 PROVE  Started(r)'
      OBVIOUS
    <3>1. r \in back[i] \/ (r.id = x.id /\ r.op = x.op)
      BY <2>2
    <3> QED
      BY <1>6, <3>1 DEF DaemonRespond, CallInv, FrameInv, Started
  <2>4. FrameInv'
    BY <1>6, <2>3 DEF DaemonRespond, CallInv, FrameInv, FrameOf, Started
  <2> QED
    BY <2>1, <2>4 DEF CallInv
<1> QED
  BY <1>1, <1>2, <1>3, <1>4, <1>5, <1>6 DEF StreamStep

LEMMA CallInit == ASSUME Init PROVE CallInv
<1>1. IdInv /\ (\A c \in Callers : CallPhase(c)) /\ AnswerInv
  BY DEF Init, IdInv, CallPhase, AnswerInv, Sent
<1>2. FrameInv
  BY DEF Init, FrameInv
<1> QED
  BY <1>1, <1>2 DEF CallInv

LEMMA CallStep == ASSUME BaseInv, CallInv, [Next]_vars PROVE CallInv'
<1>1. ASSUME NEW c \in Callers, CallerStep(c) \/ CtxDone(c)
      PROVE  CallInv'
  BY <1>1, CallerIds, CallerPhases, CallerFrames DEF CallInv
<1>2. ASSUME NEW a \in Attempts, AttemptStep(a)
      PROVE  CallInv'
  BY <1>2, CallUntouched DEF AttemptStep, RecoverTransport, TransportFails,
     Spawn, HandshakeOk, HandshakeFail, Aborted, Publish, Discard, Retire,
     Disposed, Leave, executorVars, remoteVars
<1>3. ASSUME NEW k \in Closers, CloseStep(k)
      PROVE  CallInv'
  BY <1>3, CallUntouched DEF CloseStep, CloseBegin, CloseDispose,
     CloseDrained, CloseAwaited, CloseTransport, executorVars, remoteVars
<1>4. CASE CooldownExpires
  BY <1>4, CallUntouched DEF CooldownExpires, remoteVars
<1>5. CASE UNCHANGED vars
  BY <1>5, CallUntouched DEF vars, executorVars, remoteVars
<1> QED
  BY <1>1, <1>2, <1>3, <1>4, <1>5, StreamCall DEF Next

\* CallInv is an invariant of the executor.
THEOREM CallInvariant == Spec => [](BaseInv /\ CallInv)
<1>1. Init => BaseInv /\ CallInv
  BY BaseInit, CallInit
<1>2. (BaseInv /\ CallInv) /\ [Next]_vars => (BaseInv /\ CallInv)'
  BY BaseStep, CallStep
<1> QED
  BY <1>1, <1>2, PTL DEF Spec

-----------------------------------------------------------------------------
\* However often connections die and are replaced, no daemon starts the
\* operation of a call a second time.
THEOREM NoReplay == Spec => []NeverReplayed
<1>1. BaseInv /\ CallInv => NeverReplayed
  BY DEF CallInv, FrameInv, NeverReplayed
<1> QED
  BY <1>1, CallInvariant, PTL

\* A call told that its operation was not sent can repeat it: the operation
\* has not run, and no frame on any generation can still start it.
THEOREM HonestLosses == Spec => []HonestUnsent
<1>1. ASSUME BaseInv, CallInv
      PROVE  HonestUnsent
  <2> SUFFICES ASSUME NEW c \in Callers, result[c] \in NotSent
               PROVE  Unsent(c)
    BY DEF HonestUnsent
  <2>1. ~touched[c]
    BY <1>1 DEF BaseInv, TypeOK, CallerTypeOK, CallInv, CallPhase
  <2>2. ran[c] = 0
    BY <1>1, <2>1 DEF CallInv, FrameInv
  <2>3. \A g \in Gens : \A f \in wire[g] : f.type = "req" => f.op # c
    BY <1>1, <2>1 DEF CallInv, FrameInv, FrameOf
  <2> QED
    BY <2>2, <2>3 DEF Unsent
<1> QED
  BY <1>1, CallInvariant, PTL

\* A response reaches the call that asked for it and no other.
THEOREM PinnedResponses == Spec => []ResponsePinned
<1>1. BaseInv /\ CallInv => ResponsePinned
  BY DEF CallInv, AnswerInv, ResponsePinned
<1> QED
  BY <1>1, CallInvariant, PTL

-----------------------------------------------------------------------------
(* The executor implements AtMostOnceCall.                                 *)

\* A call is told one result, once.
LEMMA CallerReports ==
  ASSUME BaseInv, CallInv, NEW c \in Callers, CallerStep(c) \/ CtxDone(c)
  PROVE  /\ ran' = ran
         /\ \/ result' = result
            \/ /\ result[c] = "none"
               /\ \E r \in Results \ {"none"} :
                    result' = [result EXCEPT ![c] = r]
<1> USE DEF BaseInv, TypeOK, CallerTypeOK, CallInv, CallPhase, remoteVars,
       callerVars, Goto, Finish, Results
<1>1. CASE Begin(c)
  BY <1>1 DEF Begin, EnterObtain
<1>2. CASE BeginPassive(c)
  BY <1>2 DEF BeginPassive
<1>3. CASE ObtainClosed(c)
  BY <1>3 DEF ObtainClosed, Failure, Purposes
<1>4. CASE ObtainLive(c)
  BY <1>4 DEF ObtainLive
<1>5. CASE ObtainWait(c)
  BY <1>5 DEF ObtainWait
<1>6. CASE ObtainRefused(c)
  BY <1>6 DEF ObtainRefused, Failure, Purposes
<1>7. CASE Awake(c)
  BY <1>7 DEF Awake
<1>8. CASE StopWaiting(c)
  BY <1>8 DEF StopWaiting, Failure, Purposes
<1>9. CASE PreflightPass(c)
  BY <1>9 DEF PreflightPass
<1>10. CASE PreflightFail(c)
  BY <1>10 DEF PreflightFail, EnterObtain
<1>11. CASE Send(c)
  BY <1>11 DEF Send, Lose, EnterObtain
<1>12. CASE Lock(c)
  BY <1>12 DEF Lock, Lose, EnterObtain
<1>13. CASE WriteAll(c)
  BY <1>13 DEF WriteAll
<1>14. CASE WriteCut(c)
  BY <1>14 DEF WriteCut
<1>15. CASE Abandon(c)
  BY <1>15 DEF Abandon
<1>16. CASE Written(c)
  BY <1>16 DEF Written, Lose, EnterObtain
<1>17. CASE TakeResponse(c)
  BY <1>17 DEF TakeResponse, Responses
<1>18. CASE SeeCtxDone(c)
  BY <1>18 DEF SeeCtxDone
<1>19. CASE SeeReaderDone(c)
  BY <1>19 DEF SeeReaderDone, Lose, EnterObtain
<1>20. CASE StartProbe(c)
  BY <1>20 DEF StartProbe
<1>21. CASE ProbeOk(c)
  BY <1>21 DEF ProbeOk
<1>22. CASE ProbeFail(c)
  BY <1>22 DEF ProbeFail, Lose, EnterObtain, Responses
<1>23. CASE CancelRequest(c)
  BY <1>23 DEF CancelRequest
<1>24. CASE CtxDone(c)
  BY <1>24 DEF CtxDone
<1>25. ASSUME NEW a \in Attempts, ObtainStart(c, a)
       PROVE  ran' = ran /\ result' = result
  BY <1>25 DEF ObtainStart
<1> QED
  BY <1>1, <1>2, <1>3, <1>4, <1>5, <1>6, <1>7, <1>8, <1>9, <1>10, <1>11,
     <1>12, <1>13, <1>14, <1>15, <1>16, <1>17, <1>18, <1>19, <1>20, <1>21,
     <1>22, <1>23, <1>24, <1>25 DEF CallerStep

LEMMA OthersReport ==
  ASSUME [Next]_vars, ~\E c \in Callers : CallerStep(c) \/ CtxDone(c)
  PROVE  /\ result' = result
         /\ \/ ran' = ran
            \/ \E g \in Gens : \E f \in wire[g] : DaemonReceive(g, f)
<1>1. ASSUME NEW a \in Attempts, AttemptStep(a)
      PROVE  result' = result /\ ran' = ran
  BY <1>1 DEF AttemptStep, RecoverTransport, TransportFails,
     Spawn, HandshakeOk, HandshakeFail, Aborted, Publish, Discard, Retire,
     Disposed, Leave, callerVars, remoteVars
<1>2. ASSUME NEW k \in Closers, CloseStep(k)
      PROVE  result' = result /\ ran' = ran
  BY <1>2 DEF CloseStep, CloseBegin, CloseDispose,
     CloseDrained, CloseAwaited, CloseTransport, callerVars, remoteVars
<1>3. ASSUME NEW g \in Gens, StreamStep(g)
      PROVE  /\ result' = result
             /\ ran' = ran \/ \E f \in wire[g] : DaemonReceive(g, f)
  BY <1>3 DEF StreamStep, ReaderExit, DaemonEnds, Deliver, DaemonReceive,
     DaemonCancel, DaemonRespond, callerVars, remoteVars
<1>4. CASE CooldownExpires \/ UNCHANGED vars
  BY <1>4 DEF CooldownExpires, vars, callerVars, remoteVars
<1> QED
  BY <1>1, <1>2, <1>3, <1>4 DEF Next

\* What a call was told is the truth of AtMostOnceCall.
LEMMA Truth ==
  ASSUME BaseInv', CallInv', NEW c \in Callers
  PROVE  /\ ReportOf(result'[c]) \in {"none", "answered", "unsent", "unknown"}
         /\ ReportOf(result'[c]) = "none" <=> result'[c] = "none"
         /\ ReportOf(result'[c]) = "answered" => ran'[c] = 1
         /\ ReportOf(result'[c]) = "unsent" => ran'[c] = 0
<1>1. result'[c] \in Results
  BY DEF BaseInv, TypeOK, CallerTypeOK
<1>2. result'[c] \in NotSent => ran'[c] = 0
  BY DEF BaseInv, TypeOK, CallerTypeOK, CallInv, CallPhase, FrameInv
<1>3. result'[c] \in {"ok", "canceled"} => ran'[c] = 1
  BY DEF CallInv, AnswerInv
<1> QED
  BY <1>1, <1>2, <1>3 DEF ReportOf, Results, NotSent

LEMMA PromiseInit == ASSUME Init PROVE Promise!Init
<1>1. \A c \in Callers : ReportOf(result[c]) = "none"
  BY DEF Init, ReportOf, NotSent
<1> QED
  BY <1>1 DEF Init, Promise!Init

LEMMA PromiseStep ==
  ASSUME BaseInv, CallInv, [Next]_vars
  PROVE  [Promise!Next]_<<ran, [c \in Callers |-> ReportOf(result[c])]>>
<1> DEFINE report == [c \in Callers |-> ReportOf(result[c])]
<1>1. BaseInv' /\ CallInv'
  BY BaseStep, CallStep
<1>2. ASSUME NEW c \in Callers, CallerStep(c) \/ CtxDone(c)
      PROVE  [Promise!Next]_<<ran, report>>
  <2>1. CASE result' = result
    BY <1>2, <2>1, CallerReports
  <2>2. CASE result' # result
    <3>1. PICK r \in Results \ {"none"} :
            /\ result[c] = "none" /\ ran' = ran
            /\ result' = [result EXCEPT ![c] = r]
      BY <1>2, <2>2, CallerReports
    <3> DEFINE t == ReportOf(result'[c])
    <3>2. result'[c] = r
      BY <3>1 DEF BaseInv, TypeOK, CallerTypeOK
    <3>3. /\ t \in {"none", "answered", "unsent", "unknown"} /\ t # "none"
          /\ t = "answered" => ran[c] = 1
          /\ t = "unsent" => ran[c] = 0
      BY <1>1, <3>1, <3>2, Truth
    <3>4. report[c] = "none"
      BY <3>1 DEF ReportOf, NotSent
    <3>5. report' = [report EXCEPT ![c] = t]
      BY <3>1 DEF BaseInv, TypeOK, CallerTypeOK
    <3> HIDE DEF report, t
    <3>6. Promise!Report(c, t)
      BY <3>1, <3>3, <3>4, <3>5 DEF Promise!Report, Promise!Reports, report
    <3> QED
      BY <3>3, <3>6 DEF Promise!Next, Promise!Reports
  <2> QED
    BY <2>1, <2>2
<1>3. CASE ~\E c \in Callers : CallerStep(c) \/ CtxDone(c)
  <2>1. result' = result
    BY <1>3, OthersReport
  <2>2. CASE ran' = ran
    BY <2>1, <2>2
  <2>3. ASSUME NEW g \in Gens, NEW f \in wire[g], DaemonReceive(g, f)
        PROVE  Promise!Next
    <3>1. f \in Requests
      BY <2>3 DEF DaemonReceive, BaseInv, TypeOK, RemoteTypeOK,
         Requests, Cancels
    <3>2. f.op \in Callers /\ touched[f.op] /\ ran[f.op] = 0
      BY <3>1 DEF Requests, CallInv, FrameInv, FrameOf
    <3>3. ran' = [ran EXCEPT ![f.op] = 1]
      BY <2>3, <3>2 DEF DaemonReceive
    <3>4. result[f.op] \notin NotSent /\ result[f.op] \in Results
      BY <3>2 DEF BaseInv, TypeOK, CallerTypeOK, CallInv, CallPhase
    <3>5. ReportOf(result[f.op]) # "unsent"
      BY <3>4 DEF ReportOf, Results, NotSent
    <3>6. Promise!Execute(f.op)
      BY <2>1, <3>2, <3>3, <3>5 DEF Promise!Execute
    <3> QED
      BY <3>2, <3>6 DEF Promise!Next
  <2> QED
    BY <1>3, <2>1, <2>2, <2>3, OthersReport
<1> QED
  BY <1>2, <1>3

\* The executor implements AtMostOnceCall: the effect of a call is the number
\* of times a daemon started it, its report what the caller was told.
THEOREM AtMostOnce == Spec => KeepsPromise
<1>1. Init => Promise!Init
  BY PromiseInit
<1>2. (BaseInv /\ CallInv) /\ [Next]_vars
        => [Promise!Next]_<<ran, [c \in Callers |-> ReportOf(result[c])]>>
  BY PromiseStep
<1> QED
  BY <1>1, <1>2, CallInvariant, PTL DEF Spec, KeepsPromise, Promise!Spec

-----------------------------------------------------------------------------
(* The life of the generations, and Close.                                 *)

\* A generation is replaced only when it is dead.  An attempt at work found the
\* published one dead and its own is newer; a caller that comes to
\* obtainConnection to avoid its generation saw that one die.
GenerationInv ==
  /\ conn <= nextGeneration
  /\ \A a \in Attempts :
       /\ rpc[a] \in Working => Dead(conn)
       /\ fresh[a] <= nextGeneration
       /\ rpc[a] \in {"handshake", "aborting", "publish"} => fresh[a] > conn
  /\ \A c \in Callers :
       pc[c] \in {"obtain", "wait"} /\ purpose[c] # "connect" => Dead(on[c])

\* The first Close finds the executor open, and captures the attempt at work;
\* from then on nothing is published and nothing is started, so that every
\* Close captures the generation published last.
Late == {"discard", "discarding"}
CloseInv ==
  /\ \A k \in Closers : cpc[k] # "open" => closed /\ cconn[k] = conn
  /\ \A a \in Attempts :
       /\ closed /\ rpc[a] \in Working =>
            \A k \in Closers : cpc[k] # "open" => cwait[k] = a
       /\ closed /\ rpc[a] \in Working => Awaited(a)
       /\ rpc[a] \in Late => closed /\ Awaited(a)
  /\ \A k \in Closers :
       /\ cpc[k] \in {"drain", "await", "transport", "returned"} => conn \in shut
       /\ cpc[k] \in {"await", "transport", "returned"} => conn \in readerDone
       /\ cpc[k] \in {"transport", "returned"} =>
            \A a \in Attempts : rpc[a] \notin Working

\* Every stream this side has not closed has an owner that will.
Owned(g) ==
  \/ g = conn
  \/ \E a \in Attempts :
       \/ rpc[a] = "retire" /\ prev[a] = g /\ Dead(g)
       \/ rpc[a] \in {"handshake", "publish", "discard"} /\ fresh[a] = g
OwnerInv == \A g \in (1 .. nextGeneration) \ shut : Owned(g)

LifeInv == GenerationInv /\ CloseInv /\ OwnerInv

\* The request of c is not in flight, or is cancelled, or its generation failed.
Settled(c) ==
  \/ Dead(on[c])
  \/ \E f \in wire[on[c]] : f.type = "cancel" /\ f.id = id[c]
  \/ /\ \A f \in wire[on[c]] : f.type = "req" => f.op # c
     /\ \A x \in running[on[c]] : x.op = c => x.canceled
\* A handler runs on the generation its caller sent the request on, and what a
\* call leaves behind when its context ended is settled.
CancelInv ==
  /\ \A g \in Gens : \A x \in running[g] : g = on[x.op]
  /\ \A c \in Callers : touched[c] => on[c] \in Gens
  /\ DeadlineStreams =>
       \A c \in Callers : touched[c] /\ result[c] = "ctx" => Settled(c)

-----------------------------------------------------------------------------
(* Generations: what a caller's step may do to them.                       *)

\* A caller may fail generations and start an attempt, which it does only when
\* the published generation is dead.
CallerEffect ==
  /\ err \subseteq err' /\ shut \subseteq shut'
  /\ UNCHANGED <<readerDone, conn, closed, nextGeneration, fresh, prev, closeVars>>
  /\ \/ UNCHANGED rpc
     \/ /\ ~closed /\ Dead(conn)
        /\ \E a \in Attempts :
             rpc[a] = "none" /\ rpc' = [rpc EXCEPT ![a] = "recover"]

LEMMA CallerGenerations ==
  ASSUME BaseInv, GenerationInv, NEW c \in Callers, CallerStep(c) \/ CtxDone(c)
  PROVE  CallerEffect
<1> USE DEF CallerEffect, executorVars, streamVars, attemptVars, callerVars
<1>1. CASE Begin(c)
  BY <1>1 DEF Begin
<1>2. CASE BeginPassive(c)
  BY <1>2 DEF BeginPassive
<1>3. CASE ObtainClosed(c)
  BY <1>3 DEF ObtainClosed
<1>4. CASE ObtainLive(c)
  BY <1>4 DEF ObtainLive
<1>5. CASE ObtainWait(c)
  BY <1>5 DEF ObtainWait
<1>6. CASE ObtainRefused(c)
  BY <1>6 DEF ObtainRefused
<1>7. CASE Awake(c)
  BY <1>7 DEF Awake
<1>8. CASE StopWaiting(c)
  BY <1>8 DEF StopWaiting
<1>9. CASE PreflightPass(c)
  BY <1>9 DEF PreflightPass
<1>10. CASE PreflightFail(c)
  BY <1>10 DEF PreflightFail, MayFail, Fail, NoFail
<1>11. CASE Send(c)
  BY <1>11 DEF Send
<1>12. CASE Lock(c)
  BY <1>12 DEF Lock
<1>13. CASE WriteAll(c)
  BY <1>13 DEF WriteAll
<1>14. CASE WriteCut(c)
  BY <1>14 DEF WriteCut
<1>15. CASE Abandon(c)
  BY <1>15 DEF Abandon, MayFail, Fail, NoFail
<1>16. CASE Written(c)
  BY <1>16 DEF Written, MayFail, Fail, NoFail
<1>17. CASE TakeResponse(c)
  BY <1>17 DEF TakeResponse
<1>18. CASE SeeCtxDone(c)
  BY <1>18 DEF SeeCtxDone
<1>19. CASE SeeReaderDone(c)
  BY <1>19 DEF SeeReaderDone
<1>20. CASE StartProbe(c)
  BY <1>20 DEF StartProbe
<1>21. CASE ProbeOk(c)
  BY <1>21 DEF ProbeOk
<1>22. CASE ProbeFail(c)
  BY <1>22 DEF ProbeFail, MayFail, Fail, NoFail
<1>23. CASE CancelRequest(c)
  BY <1>23 DEF CancelRequest, MayFail, Fail, NoFail
<1>24. CASE CtxDone(c)
  BY <1>24 DEF CtxDone
<1>25. ASSUME NEW a \in Attempts, ObtainStart(c, a)
       PROVE  CallerEffect
  <2>1. /\ pc[c] = "obtain" /\ rpc[a] = "none" /\ ~closed /\ ~Usable(c)
        /\ rpc' = [rpc EXCEPT ![a] = "recover"]
        /\ UNCHANGED <<err, readerDone, shut, conn, closed, nextGeneration,
                       fresh, prev, closeVars>>
    BY <1>25 DEF ObtainStart, Unstarted
  <2>2. purpose[c] # "connect" => Dead(on[c])
    BY <2>1 DEF GenerationInv
  <2>3. conn # 0
    BY AttemptsAssumption DEF BaseInv, TypeOK, ExecutorTypeOK, Gens
  <2>4. Dead(conn)
    BY <2>1, <2>2, <2>3 DEF Usable, Avoid
  <2> QED
    BY <2>1, <2>4
<1> QED
  BY <1>1, <1>2, <1>3, <1>4, <1>5, <1>6, <1>7, <1>8, <1>9, <1>10, <1>11,
     <1>12, <1>13, <1>14, <1>15, <1>16, <1>17, <1>18, <1>19, <1>20, <1>21,
     <1>22, <1>23, <1>24, <1>25 DEF CallerStep

\* A caller enters obtainConnection to avoid a generation it saw dead.
LEMMA CallerAvoids ==
  ASSUME BaseInv, GenerationInv, NEW c \in Callers, CallerStep(c) \/ CtxDone(c),
         NEW d \in Callers, pc'[d] \in {"obtain", "wait"},
         purpose'[d] # "connect"
  PROVE  Dead(on[d])' /\ on'[d] = on[d]
<1> USE DEF GenerationInv, BaseInv, TypeOK, CallerTypeOK, Goto, Finish,
       EnterObtain, Dead, streamVars, callerVars
<1>1. CASE Begin(c)
  BY <1>1 DEF Begin
<1>2. CASE BeginPassive(c)
  BY <1>2 DEF BeginPassive
<1>3. CASE ObtainClosed(c)
  BY <1>3 DEF ObtainClosed
<1>4. CASE ObtainLive(c)
  BY <1>4 DEF ObtainLive
<1>5. CASE ObtainWait(c)
  BY <1>5 DEF ObtainWait
<1>6. CASE ObtainRefused(c)
  BY <1>6 DEF ObtainRefused
<1>7. CASE Awake(c)
  BY <1>7 DEF Awake
<1>8. CASE StopWaiting(c)
  BY <1>8 DEF StopWaiting
<1>9. CASE PreflightPass(c)
  BY <1>9 DEF PreflightPass
<1>10. CASE PreflightFail(c)
  BY <1>10 DEF PreflightFail, Fail, NoFail, MayFail
<1>11. CASE Send(c)
  BY <1>11 DEF Send, Lose
<1>12. CASE Lock(c)
  BY <1>12 DEF Lock, Lose
<1>13. CASE WriteAll(c)
  BY <1>13 DEF WriteAll
<1>14. CASE WriteCut(c)
  BY <1>14 DEF WriteCut
<1>15. CASE Abandon(c)
  BY <1>15 DEF Abandon, Fail
<1>16. CASE Written(c)
  BY <1>16 DEF Written, Lose, Fail, NoFail, MayFail
<1>17. CASE TakeResponse(c)
  BY <1>17 DEF TakeResponse
<1>18. CASE SeeCtxDone(c)
  BY <1>18 DEF SeeCtxDone
<1>19. CASE SeeReaderDone(c)
  BY <1>19 DEF SeeReaderDone, Lose
<1>20. CASE StartProbe(c)
  BY <1>20 DEF StartProbe
<1>21. CASE ProbeOk(c)
  BY <1>21 DEF ProbeOk
<1>22. CASE ProbeFail(c)
  BY <1>22 DEF ProbeFail, Lose, Fail, NoFail, MayFail
<1>23. CASE CancelRequest(c)
  BY <1>23 DEF CancelRequest, Fail, NoFail, MayFail
<1>24. CASE CtxDone(c)
  BY <1>24 DEF CtxDone
<1>25. ASSUME NEW a \in Attempts, ObtainStart(c, a)
       PROVE  Dead(on[d])' /\ on'[d] = on[d]
  BY <1>25 DEF ObtainStart
<1> QED
  BY <1>1, <1>2, <1>3, <1>4, <1>5, <1>6, <1>7, <1>8, <1>9, <1>10, <1>11,
     <1>12, <1>13, <1>14, <1>15, <1>16, <1>17, <1>18, <1>19, <1>20, <1>21,
     <1>22, <1>23, <1>24, <1>25 DEF CallerStep

\* Streams only end, and what ended stays ended.
LEMMA StaysOwned ==
  ASSUME err \subseteq err', readerDone \subseteq readerDone', conn' = conn,
         UNCHANGED <<fresh, prev>>,
         \A a \in Attempts :
           rpc[a] \in {"retire", "handshake", "publish", "discard"} =>
             rpc'[a] = rpc[a],
         NEW g, Owned(g)
  PROVE  Owned(g)'
BY DEF Owned, Dead

LEMMA CallerLife ==
  ASSUME BaseInv, LifeInv, NEW c \in Callers, CallerStep(c) \/ CtxDone(c)
  PROVE  LifeInv'
<1> USE DEF BaseInv, TypeOK, ExecutorTypeOK, AttemptTypeOK, AttemptPC
<1>1. CallerEffect
  BY CallerGenerations DEF LifeInv
<1>2. GenerationInv'
  <2>1. \A d \in Callers :
          pc'[d] \in {"obtain", "wait"} /\ purpose'[d] # "connect" =>
            Dead(on[d])'
    BY CallerAvoids DEF LifeInv
  <2> QED
    BY <1>1, <2>1 DEF LifeInv, GenerationInv, CallerEffect, Dead, Working
<1>3. CloseInv'
  <2>1. /\ closed' = closed /\ conn' = conn /\ closeVars' = closeVars
        /\ shut \subseteq shut' /\ readerDone' = readerDone
        /\ closed => rpc' = rpc
        /\ \A a \in Attempts : rpc'[a] \in Late => rpc'[a] = rpc[a]
    BY <1>1 DEF CallerEffect, Late
  <2>2. \A a \in Attempts : Awaited(a)' <=> Awaited(a)
    BY <2>1 DEF Awaited, closeVars
  <2> QED
    BY <2>1, <2>2 DEF LifeInv, CloseInv, closeVars
<1>4. OwnerInv'
  <2>1. /\ nextGeneration' = nextGeneration /\ shut \subseteq shut'
        /\ err \subseteq err' /\ readerDone' = readerDone /\ conn' = conn
        /\ UNCHANGED <<fresh, prev>>
        /\ \A a \in Attempts :
             rpc[a] \in {"retire", "handshake", "publish", "discard"} =>
               rpc'[a] = rpc[a]
    BY <1>1 DEF CallerEffect
  <2> QED
    BY <2>1, StaysOwned DEF LifeInv, OwnerInv
<1> QED
  BY <1>2, <1>3, <1>4 DEF LifeInv

-----------------------------------------------------------------------------
(* Generations: reconnect goroutines, closers and streams.                 *)

LEMMA AttemptGenerations ==
  ASSUME BaseInv, GenerationInv, NEW a \in Attempts, AttemptStep(a)
  PROVE  GenerationInv'
<1> USE AttemptsAssumption
    DEF BaseInv, TypeOK, ExecutorTypeOK, AttemptTypeOK, AttemptInv,
       GenerationInv, Dead, Working, Gens, Attempts, AttemptGoto,
       RecordFailure, executorVars, streamVars, callerVars
<1>1. CASE RecoverTransport(a)
  BY <1>1 DEF RecoverTransport
<1>2. CASE TransportFails(a)
  BY <1>2 DEF TransportFails
<1>3. CASE Spawn(a)
  BY <1>3 DEF Spawn
<1>4. CASE HandshakeOk(a)
  BY <1>4 DEF HandshakeOk
<1>5. CASE HandshakeFail(a)
  BY <1>5 DEF HandshakeFail
<1>6. CASE Aborted(a)
  BY <1>6 DEF Aborted
<1>7. CASE Publish(a)
  <2>1. /\ rpc[a] = "publish"
        /\ \A b \in Attempts : b # a => rpc[b] \notin Working
        /\ UNCHANGED <<err, readerDone, nextGeneration, fresh, callerVars>>
        /\ \/ conn' = conn /\ rpc' = [rpc EXCEPT ![a] = "discard"]
           \/ conn' = fresh[a] /\ rpc' = [rpc EXCEPT ![a] = "retire"]
    BY <1>7 DEF Publish
  <2>2. \A b \in Attempts : rpc'[b] \notin Working
    BY <2>1
  <2> QED
    BY <2>1, <2>2
<1>8. CASE Retire(a)
  BY <1>8 DEF Retire
<1>9. CASE Disposed(a)
  BY <1>9 DEF Disposed
<1>10. CASE Leave(a)
  BY <1>10 DEF Leave
<1>11. CASE Discard(a)
  BY <1>11 DEF Discard
<1> QED
  BY <1>1, <1>2, <1>3, <1>4, <1>5, <1>6, <1>7, <1>8, <1>9, <1>10, <1>11
     DEF AttemptStep

LEMMA AttemptClose ==
  ASSUME BaseInv, CloseInv, NEW a \in Attempts, AttemptStep(a)
  PROVE  CloseInv'
<1>1. /\ closed' = closed /\ closeVars' = closeVars
      /\ shut \subseteq shut' /\ readerDone' = readerDone
      /\ closed => conn' = conn
  BY DEF AttemptStep, RecoverTransport, TransportFails, Spawn, HandshakeOk,
     HandshakeFail, Aborted, Publish, Discard, Retire, Disposed, Leave,
     RecordFailure, executorVars, streamVars, BeginDispose
<1>2. /\ \A b \in Attempts : b # a => rpc'[b] = rpc[b]
      /\ rpc'[a] \in Working => rpc[a] \in Working
      /\ rpc'[a] \in Late =>
           rpc[a] \in Late \/ (rpc[a] \in Working /\ closed)
  BY DEF AttemptStep, RecoverTransport, TransportFails, Spawn, HandshakeOk,
     HandshakeFail, Aborted, Publish, Discard, Retire, Disposed, Leave,
     RecordFailure, AttemptGoto, Working, Late, BaseInv, TypeOK, AttemptTypeOK
<1>3. \A b \in Attempts : Awaited(b)' <=> Awaited(b)
  BY <1>1 DEF Awaited, closeVars
<1>4. /\ \A b \in Attempts : rpc'[b] \in Working => rpc[b] \in Working
      /\ \A b \in Attempts :
           rpc'[b] \in Late => rpc[b] \in Late \/ (rpc[b] \in Working /\ closed)
  BY <1>2
<1>5. /\ \A k \in Closers : cpc'[k] = cpc[k] /\ cconn'[k] = cconn[k]
      /\ cwait' = cwait
  BY <1>1 DEF closeVars
<1> QED
  BY <1>1, <1>3, <1>4, <1>5 DEF CloseInv

\* An attempt hands its stream on: to the executor, to itself or to nobody.
LEMMA AttemptOwners ==
  ASSUME BaseInv, LifeInv, NEW a \in Attempts, AttemptStep(a)
  PROVE  OwnerInv'
<1> USE DEF BaseInv, TypeOK, ExecutorTypeOK, AttemptTypeOK, AttemptPC
<1>1. ASSUME UNCHANGED <<nextGeneration, shut, err, readerDone, conn, fresh, prev>>,
             \A b \in Attempts : b # a => rpc'[b] = rpc[b],
             \/ rpc[a] \notin {"retire", "handshake", "publish", "discard"}
             \/ rpc[a] = "handshake" /\ rpc'[a] = "publish"
             \/ rpc[a] = "publish" /\ rpc'[a] = "discard"
      PROVE  OwnerInv'
  <2> SUFFICES ASSUME NEW g \in (1 .. nextGeneration) \ shut
               PROVE  Owned(g)'
    BY <1>1 DEF OwnerInv
  <2>1. Owned(g)
    BY DEF LifeInv, OwnerInv
  <2>2. CASE g = conn
    BY <1>1, <2>2 DEF Owned
  <2>3. ASSUME NEW b \in Attempts, rpc[b] = "retire" /\ prev[b] = g /\ Dead(g)
        PROVE  Owned(g)'
    <3>1. rpc'[b] = "retire" /\ prev'[b] = g /\ Dead(g)'
      BY <1>1, <2>3 DEF Dead
    <3> QED
      BY <3>1 DEF Owned
  <2>4. ASSUME NEW b \in Attempts, fresh[b] = g,
               rpc[b] \in {"handshake", "publish", "discard"}
        PROVE  Owned(g)'
    <3>1. rpc'[b] \in {"handshake", "publish", "discard"} /\ fresh'[b] = g
      BY <1>1, <2>4
    <3> QED
      BY <3>1 DEF Owned
  <2> QED
    BY <2>1, <2>2, <2>3, <2>4 DEF Owned
<1>2. ASSUME UNCHANGED <<nextGeneration, err, readerDone, conn, fresh, prev>>,
             \A b \in Attempts : b # a => rpc'[b] = rpc[b],
             \/ rpc[a] = "retire" /\ shut' = shut \cup {prev[a]}
             \/ /\ rpc[a] \in {"handshake", "discard"}
                /\ shut' = shut \cup {fresh[a]}
      PROVE  OwnerInv'
  <2> SUFFICES ASSUME NEW g \in (1 .. nextGeneration) \ shut'
               PROVE  Owned(g)'
    BY <1>2 DEF OwnerInv
  <2>1. Owned(g)
    BY <1>2 DEF LifeInv, OwnerInv
  <2>2. CASE g = conn
    BY <1>2, <2>2 DEF Owned
  <2>3. ASSUME NEW b \in Attempts, rpc[b] = "retire" /\ prev[b] = g /\ Dead(g)
        PROVE  Owned(g)'
    <3>1. rpc'[b] = "retire" /\ prev'[b] = g /\ Dead(g)'
      BY <1>2, <2>3 DEF Dead
    <3> QED
      BY <3>1 DEF Owned
  <2>4. ASSUME NEW b \in Attempts, fresh[b] = g,
               rpc[b] \in {"handshake", "publish", "discard"}
        PROVE  Owned(g)'
    <3>1. rpc'[b] \in {"handshake", "publish", "discard"} /\ fresh'[b] = g
      BY <1>2, <2>4
    <3> QED
      BY <3>1 DEF Owned
  <2> QED
    BY <2>1, <2>2, <2>3, <2>4 DEF Owned
<1> USE DEF AttemptGoto, RecordFailure, BeginDispose, executorVars, streamVars
<1>3. CASE RecoverTransport(a)
  BY <1>1, <1>3 DEF RecoverTransport
<1>4. CASE TransportFails(a)
  BY <1>1, <1>4 DEF TransportFails
<1>5. CASE Spawn(a)
  <2> SUFFICES ASSUME NEW g \in (1 .. nextGeneration') \ shut'
               PROVE  Owned(g)'
    BY DEF OwnerInv
  <2>1. /\ rpc[a] = "spawn" /\ rpc' = [rpc EXCEPT ![a] = "handshake"]
        /\ nextGeneration' = nextGeneration + 1
        /\ fresh' = [fresh EXCEPT ![a] = nextGeneration + 1]
        /\ UNCHANGED <<conn, err, readerDone, shut, prev>>
    BY <1>5 DEF Spawn
  <2>2. CASE g = nextGeneration + 1
    <3>1. rpc'[a] = "handshake" /\ fresh'[a] = g
      BY <2>1, <2>2
    <3> QED
      BY <3>1 DEF Owned
  <2>3. CASE g # nextGeneration + 1
    <3>1. g \in (1 .. nextGeneration) \ shut
      BY <2>1, <2>3 DEF Gens
    <3>2. Owned(g)
      BY <3>1 DEF LifeInv, OwnerInv
    <3> QED
      BY <2>1, <3>2 DEF Owned, Dead
  <2> QED
    BY <2>2, <2>3
<1>6. CASE HandshakeOk(a)
  BY <1>1, <1>6 DEF HandshakeOk
<1>7. CASE HandshakeFail(a)
  BY <1>2, <1>7 DEF HandshakeFail
<1>8. CASE Aborted(a)
  BY <1>1, <1>8 DEF Aborted
<1>9. CASE Publish(a) /\ closed
  BY <1>1, <1>9 DEF Publish
<1>10. CASE Publish(a) /\ ~closed
  <2> SUFFICES ASSUME NEW g \in (1 .. nextGeneration') \ shut'
               PROVE  Owned(g)'
    BY DEF OwnerInv
  <2>1. /\ rpc[a] = "publish" /\ rpc' = [rpc EXCEPT ![a] = "retire"]
        /\ conn' = fresh[a] /\ prev' = [prev EXCEPT ![a] = conn]
        /\ UNCHANGED <<nextGeneration, fresh, err, readerDone, shut>>
    BY <1>10 DEF Publish
  <2>2. Dead(conn)
    BY <2>1 DEF LifeInv, GenerationInv, Working
  <2>3. Owned(g)
    BY <2>1 DEF LifeInv, OwnerInv
  <2>4. CASE g = conn
    <3>1. rpc'[a] = "retire" /\ prev'[a] = g /\ Dead(g)'
      BY <2>1, <2>2, <2>4 DEF Dead
    <3> QED
      BY <3>1 DEF Owned
  <2>5. CASE g = fresh[a]
    BY <2>1, <2>5 DEF Owned
  <2>6. CASE g # conn /\ g # fresh[a]
    BY <2>1, <2>3, <2>6 DEF Owned, Dead
  <2> QED
    BY <2>4, <2>5, <2>6
<1>11. CASE Discard(a)
  BY <1>2, <1>11 DEF Discard
<1>12. CASE Retire(a)
  BY <1>2, <1>12 DEF Retire
<1>13. CASE Disposed(a)
  BY <1>1, <1>13 DEF Disposed
<1>14. CASE Leave(a)
  BY <1>1, <1>14 DEF Leave
<1> QED
  BY <1>3, <1>4, <1>5, <1>6, <1>7, <1>8, <1>9, <1>10, <1>11, <1>12, <1>13,
     <1>14 DEF AttemptStep

LEMMA CloserLife ==
  ASSUME BaseInv, LifeInv, NEW k \in Closers, CloseStep(k)
  PROVE  LifeInv'
<1> USE DEF BaseInv, TypeOK, ExecutorTypeOK, CloserTypeOK, AttemptTypeOK,
       ClosePC
<1>1. /\ UNCHANGED <<conn, nextGeneration, err, readerDone, callerVars,
                     attemptVars>>
      /\ shut \subseteq shut'
  BY DEF CloseStep, CloseBegin, CloseDispose, CloseDrained, CloseAwaited,
     CloseTransport, executorVars, streamVars, BeginDispose
<1>2. GenerationInv'
  BY <1>1 DEF LifeInv, GenerationInv, Dead, callerVars, attemptVars
<1>3. OwnerInv'
  BY <1>1, StaysOwned DEF LifeInv, OwnerInv, attemptVars
<1> USE DEF CloseGoto, BeginDispose, executorVars, streamVars, attemptVars
<1>4. CASE CloseBegin(k)
  <2>1. /\ cpc[k] = "open" /\ closed'
        /\ cconn' = [cconn EXCEPT ![k] = conn]
        /\ cwait' = [cwait EXCEPT ![k] = reconnecting]
        /\ cpc' = [cpc EXCEPT ![k] = "dispose"]
        /\ UNCHANGED <<conn, rpc, shut, readerDone>>
    BY <1>4 DEF CloseBegin
  <2>2. \A a \in Attempts : Awaited(a) => Awaited(a)'
    BY <2>1 DEF Awaited
  <2>3. \A a \in Attempts : rpc[a] \in Working => reconnecting = a
    BY DEF AttemptInv
  <2>4. cwait'[k] = reconnecting /\ cpc'[k] = "dispose"
    BY <2>1
  <2>5. \A a \in Attempts : rpc'[a] \in Working => Awaited(a)'
    BY <2>1, <2>3, <2>4 DEF Awaited
  <2>6. \A j \in Closers : j # k => /\ cpc'[j] = cpc[j]
                                    /\ cwait'[j] = cwait[j]
                                    /\ cconn'[j] = cconn[j]
    BY <2>1
  <2>7. \A j \in Closers : cpc'[j] # "open" => closed' /\ cconn'[j] = conn'
    BY <2>1, <2>6 DEF LifeInv, CloseInv
  <2>8. ASSUME NEW a \in Attempts, rpc'[a] \in Working, NEW j \in Closers,
               cpc'[j] # "open"
        PROVE  cwait'[j] = a
    BY <2>1, <2>3, <2>4, <2>6, <2>8 DEF LifeInv, CloseInv
  <2>9. \A a \in Attempts : rpc'[a] \in Late => closed' /\ Awaited(a)'
    BY <2>1, <2>2 DEF LifeInv, CloseInv
  <2>10. \A j \in Closers :
           /\ cpc'[j] \in {"drain", "await", "transport", "returned"} =>
                conn' \in shut'
           /\ cpc'[j] \in {"await", "transport", "returned"} =>
                conn' \in readerDone'
           /\ cpc'[j] \in {"transport", "returned"} =>
                \A a \in Attempts : rpc'[a] \notin Working
    BY <2>1, <2>4, <2>6 DEF LifeInv, CloseInv
  <2>11. CloseInv'
    BY <2>5, <2>7, <2>8, <2>9, <2>10 DEF CloseInv
  <2> QED
    BY <1>2, <1>3, <2>11 DEF LifeInv
<1>5. CASE CloseDispose(k)
  <2>1. /\ cpc[k] = "dispose" /\ cpc' = [cpc EXCEPT ![k] = "drain"]
        /\ shut' = shut \cup {cconn[k]}
        /\ UNCHANGED <<conn, closed, rpc, readerDone, cconn, cwait>>
    BY <1>5 DEF CloseDispose
  <2>2. \A a \in Attempts : Awaited(a) => Awaited(a)'
    BY <2>1 DEF Awaited
  <2> QED
    BY <1>2, <1>3, <2>1, <2>2 DEF LifeInv, CloseInv
<1>6. CASE CloseDrained(k)
  <2>1. /\ cpc[k] = "drain" /\ cpc' = [cpc EXCEPT ![k] = "await"]
        /\ cconn[k] \in readerDone
        /\ UNCHANGED <<conn, closed, rpc, shut, readerDone, cconn, cwait>>
    BY <1>6 DEF CloseDrained
  <2>2. \A a \in Attempts : Awaited(a) => Awaited(a)'
    BY <2>1 DEF Awaited
  <2> QED
    BY <1>2, <1>3, <2>1, <2>2 DEF LifeInv, CloseInv
<1>7. CASE CloseAwaited(k)
  <2>1. /\ cpc[k] = "await" /\ cpc' = [cpc EXCEPT ![k] = "transport"]
        /\ cwait[k] # 0 => rpc[cwait[k]] = "done"
        /\ shut \subseteq shut'
        /\ UNCHANGED <<conn, closed, rpc, readerDone, cconn, cwait>>
    BY <1>7 DEF CloseAwaited
  <2>2. \A a \in Attempts : rpc[a] \in Working \cup Late => cwait[k] # a
    BY <2>1, AttemptsAssumption DEF Working, Late, Attempts
  <2>3. \A a \in Attempts :
          rpc[a] \in Working \cup Late /\ Awaited(a) => Awaited(a)'
    BY <2>1, <2>2 DEF Awaited
  <2>4. \A a \in Attempts : rpc[a] \notin Working
    BY <2>1, <2>2 DEF LifeInv, CloseInv
  <2> QED
    BY <1>2, <1>3, <2>1, <2>3, <2>4 DEF LifeInv, CloseInv
<1>8. CASE CloseTransport(k)
  <2>1. /\ cpc[k] = "transport" /\ cpc' = [cpc EXCEPT ![k] = "returned"]
        /\ UNCHANGED <<conn, closed, rpc, shut, readerDone, cconn, cwait>>
    BY <1>8 DEF CloseTransport
  <2>2. \A a \in Attempts : Awaited(a) => Awaited(a)'
    BY <2>1 DEF Awaited
  <2> QED
    BY <1>2, <1>3, <2>1, <2>2 DEF LifeInv, CloseInv
<1> QED
  BY <1>4, <1>5, <1>6, <1>7, <1>8 DEF CloseStep

\* Readers that end only make more generations dead.
LEMMA QuietLife ==
  ASSUME BaseInv, LifeInv, err \subseteq err', readerDone \subseteq readerDone',
         UNCHANGED <<conn, closed, nextGeneration, shut, pc, purpose, on,
                     attemptVars, closeVars>>
  PROVE  LifeInv'
<1>1. GenerationInv'
  BY DEF LifeInv, GenerationInv, Dead, attemptVars
<1>2. OwnerInv'
  BY StaysOwned DEF LifeInv, OwnerInv, attemptVars
<1>3. CloseInv'
  <2>1. \A a \in Attempts : Awaited(a)' <=> Awaited(a)
    BY DEF Awaited, closeVars
  <2> QED
    BY <2>1 DEF LifeInv, CloseInv, attemptVars, closeVars
<1> QED
  BY <1>1, <1>2, <1>3 DEF LifeInv

LEMMA LifeInit == ASSUME Init PROVE LifeInv
<1>1. GenerationInv
  BY DEF Init, GenerationInv, Working, Gens, Attempts
<1>2. CloseInv
  BY DEF Init, CloseInv, Working, Late
<1>3. OwnerInv
  BY DEF Init, OwnerInv, Owned
<1> QED
  BY <1>1, <1>2, <1>3 DEF LifeInv

LEMMA LifeStep == ASSUME BaseInv, LifeInv, [Next]_vars PROVE LifeInv'
<1>1. ASSUME NEW a \in Attempts, AttemptStep(a)
      PROVE  LifeInv'
  BY <1>1, AttemptGenerations, AttemptClose, AttemptOwners DEF LifeInv
<1>2. ASSUME NEW g \in Gens, StreamStep(g)
      PROVE  LifeInv'
  BY <1>2, QuietLife DEF StreamStep, ReaderExit, DaemonEnds, Deliver,
     DaemonReceive, DaemonCancel, DaemonRespond, executorVars, streamVars,
     callerVars
<1>3. CASE CooldownExpires
  BY <1>3, QuietLife DEF CooldownExpires, streamVars, callerVars
<1>4. CASE UNCHANGED vars
  BY <1>4, QuietLife DEF vars, executorVars, streamVars, callerVars
<1> QED
  BY <1>1, <1>2, <1>3, <1>4, CallerLife, CloserLife DEF Next

\* LifeInv is an invariant of the executor.
THEOREM LifeInvariant == Spec => [](BaseInv /\ LifeInv)
<1>1. Init => BaseInv /\ LifeInv
  BY BaseInit, LifeInit
<1>2. (BaseInv /\ LifeInv) /\ [Next]_vars => (BaseInv /\ LifeInv)'
  BY BaseStep, LifeStep
<1> QED
  BY <1>1, <1>2, PTL DEF Spec

\* However many goroutines call Close, and whatever reconnect was under way,
\* a Close that has returned leaves no attempt at work and no stream open that
\* nobody is about to close.
THEOREM CloseIsQuiet == Spec => []QuietAfterClose
<1>1. BaseInv /\ LifeInv => QuietAfterClose
  <2> SUFFICES ASSUME BaseInv, LifeInv, NEW k \in Closers, cpc[k] = "returned"
               PROVE  /\ \A a \in Attempts :
                           /\ rpc[a] \notin Working
                           /\ rpc[a] \in Late => Awaited(a)
                      /\ conn \in shut /\ conn \in readerDone
                      /\ \A g \in (1 .. nextGeneration) \ shut :
                           \E a \in Attempts :
                             \/ rpc[a] = "retire" /\ prev[a] = g /\ Dead(g)
                             \/ rpc[a] = "discard" /\ fresh[a] = g
    BY DEF QuietAfterClose, Late
  <2>1. \A a \in Attempts : rpc[a] \notin Working
    BY DEF LifeInv, CloseInv
  <2>2. \A a \in Attempts : rpc[a] \in Late => Awaited(a)
    BY DEF LifeInv, CloseInv
  <2>3. conn \in shut /\ conn \in readerDone
    BY DEF LifeInv, CloseInv
  <2>4. \A g \in (1 .. nextGeneration) \ shut : Owned(g)
    BY DEF LifeInv, OwnerInv
  <2> QED
    BY <2>1, <2>2, <2>3, <2>4 DEF Owned, Working
<1> QED
  BY <1>1, LifeInvariant, PTL

\* Whatever callers do, the generation they share is replaced only when it is
\* dead, by one that was made later.
THEOREM HealthyIsKept == Spec => OnlyDeadReplaced
<1>1. ASSUME BaseInv, LifeInv, [Next]_vars
      PROVE  [conn' # conn => Dead(conn) /\ conn' > conn]_vars
  <2> SUFFICES ASSUME conn' # conn
               PROVE  Dead(conn) /\ conn' > conn
    OBVIOUS
  <2>1. PICK a \in Attempts : Publish(a)
    <3>1. ASSUME NEW c \in Callers, CallerStep(c) \/ CtxDone(c)
          PROVE  conn' = conn
      BY <1>1, <3>1, CallerGenerations DEF CallerEffect, LifeInv
    <3>2. ASSUME NEW k \in Closers, CloseStep(k)
          PROVE  conn' = conn
      BY <3>2 DEF CloseStep, CloseBegin, CloseDispose, CloseDrained,
         CloseAwaited, CloseTransport, executorVars
    <3>3. ASSUME NEW g \in Gens, StreamStep(g)
          PROVE  conn' = conn
      BY <3>3 DEF StreamStep, ReaderExit, DaemonEnds, Deliver, DaemonReceive,
         DaemonCancel, DaemonRespond, executorVars
    <3>4. ASSUME CooldownExpires \/ UNCHANGED vars
          PROVE  conn' = conn
      BY <3>4 DEF CooldownExpires, vars, executorVars
    <3>5. ASSUME NEW b \in Attempts, AttemptStep(b), ~Publish(b)
          PROVE  conn' = conn
      BY <3>5 DEF AttemptStep, RecoverTransport, TransportFails, Spawn,
         HandshakeOk, HandshakeFail, Aborted, Discard, Retire, Disposed,
         Leave, executorVars
    <3> QED
      BY <1>1, <3>1, <3>2, <3>3, <3>4, <3>5 DEF Next
  <2>2. rpc[a] = "publish" /\ conn' = fresh[a]
    BY <2>1 DEF Publish
  <2> QED
    BY <1>1, <2>2 DEF LifeInv, GenerationInv, Working
<1> QED
  BY <1>1, LifeInvariant, PTL DEF Spec, OnlyDeadReplaced

-----------------------------------------------------------------------------
(* Cancelled calls.                                                        *)

\* What a step of caller c does to the streams and to the callers.
Writes(c) ==
  /\ err \subseteq err' /\ readerDone' = readerDone /\ running' = running
  /\ \A g \in Gens : wire[g] \subseteq wire'[g]
  /\ \A g \in Gens : \A f \in wire'[g] :
       f \in wire[g] \/ f.type = "cancel" \/ f.op = c
  /\ \A d \in Callers : d # c =>
       /\ touched'[d] = touched[d] /\ result'[d] = result[d]
       /\ on'[d] = on[d] /\ id'[d] = id[d]
  /\ touched'[c] => on'[c] = on[c] /\ (touched[c] \/ pc[c] = "write")
  /\ touched[c] => touched'[c] /\ id'[c] = id[c]

LEMMA CallerWrites ==
  ASSUME BaseInv, CallInv, NEW c \in Callers, CallerStep(c) \/ CtxDone(c)
  PROVE  Writes(c)
<1> USE DEF Writes, BaseInv, TypeOK, CallerTypeOK, RemoteTypeOK, CallInv,
       CallPhase, Sent, remoteVars, streamVars, callerVars, Goto, Finish,
       EnterObtain
<1>1. CASE Begin(c)
  BY <1>1 DEF Begin
<1>2. CASE BeginPassive(c)
  BY <1>2 DEF BeginPassive
<1>3. CASE ObtainClosed(c)
  BY <1>3 DEF ObtainClosed
<1>4. CASE ObtainLive(c)
  BY <1>4 DEF ObtainLive
<1>5. CASE ObtainWait(c)
  BY <1>5 DEF ObtainWait
<1>6. CASE ObtainRefused(c)
  BY <1>6 DEF ObtainRefused
<1>7. CASE Awake(c)
  BY <1>7 DEF Awake
<1>8. CASE StopWaiting(c)
  BY <1>8 DEF StopWaiting
<1>9. CASE PreflightPass(c)
  BY <1>9 DEF PreflightPass
<1>10. CASE PreflightFail(c)
  BY <1>10 DEF PreflightFail, MayFail, Fail, NoFail
<1>11. CASE Send(c)
  BY <1>11 DEF Send, Lose
<1>12. CASE Lock(c)
  BY <1>12 DEF Lock, Lose
<1>13. CASE WriteAll(c)
  BY <1>13 DEF WriteAll, RequestFrame, Put
<1>14. CASE WriteCut(c)
  BY <1>14 DEF WriteCut, RequestFrame, Put
<1>15. CASE Abandon(c)
  BY <1>15 DEF Abandon, Fail
<1>16. CASE Written(c)
  BY <1>16 DEF Written, Lose, MayFail, Fail, NoFail
<1>17. CASE TakeResponse(c)
  BY <1>17 DEF TakeResponse
<1>18. CASE SeeCtxDone(c)
  BY <1>18 DEF SeeCtxDone
<1>19. CASE SeeReaderDone(c)
  BY <1>19 DEF SeeReaderDone, Lose
<1>20. CASE StartProbe(c)
  BY <1>20 DEF StartProbe
<1>21. CASE ProbeOk(c)
  BY <1>21 DEF ProbeOk
<1>22. CASE ProbeFail(c)
  BY <1>22 DEF ProbeFail, Lose, MayFail, Fail, NoFail
<1>23. CASE CancelRequest(c)
  BY <1>23 DEF CancelRequest, Put, CancelFrame, MayFail, Fail, NoFail
<1>24. CASE CtxDone(c)
  BY <1>24 DEF CtxDone
<1>25. ASSUME NEW a \in Attempts, ObtainStart(c, a)
       PROVE  Writes(c)
  BY <1>25 DEF ObtainStart
<1> QED
  BY <1>1, <1>2, <1>3, <1>4, <1>5, <1>6, <1>7, <1>8, <1>9, <1>10, <1>11,
     <1>12, <1>13, <1>14, <1>15, <1>16, <1>17, <1>18, <1>19, <1>20, <1>21,
     <1>22, <1>23, <1>24, <1>25 DEF CallerStep

\* With write deadlines a call ends with its context error only when nothing of
\* its request was written, its generation failed or a cancel frame was sent.

LEMMA CallerSettles ==
  ASSUME BaseInv, CallInv, NEW c \in Callers, CallerStep(c),
         DeadlineStreams, touched'[c], result'[c] = "ctx"
  PROVE  Settled(c)'
<1> USE DEF BaseInv, TypeOK, CallerTypeOK, CallInv, CallPhase, Sent, NotSent,
       callerVars, Goto, Finish, EnterObtain
<1>1. CASE Begin(c)
  BY <1>1 DEF Begin
<1>2. CASE BeginPassive(c)
  BY <1>2 DEF BeginPassive
<1>3. CASE ObtainClosed(c)
  BY <1>3 DEF ObtainClosed, Failure
<1>4. CASE ObtainLive(c)
  BY <1>4 DEF ObtainLive
<1>5. CASE ObtainWait(c)
  BY <1>5 DEF ObtainWait
<1>6. CASE ObtainRefused(c)
  BY <1>6 DEF ObtainRefused, Failure
<1>7. CASE Awake(c)
  BY <1>7 DEF Awake
<1>8. CASE StopWaiting(c)
  BY <1>8 DEF StopWaiting, Failure
<1>9. CASE PreflightPass(c)
  BY <1>9 DEF PreflightPass
<1>10. CASE PreflightFail(c)
  BY <1>10 DEF PreflightFail
<1>11. CASE Send(c)
  BY <1>11 DEF Send, Lose
<1>12. CASE Lock(c)
  BY <1>12 DEF Lock, Lose
<1>13. CASE WriteAll(c)
  BY <1>13 DEF WriteAll
<1>14. CASE WriteCut(c)
  BY <1>14 DEF WriteCut
<1>15. CASE Abandon(c)
  BY <1>15 DEF Abandon
<1>16. CASE Written(c)
  <2>1. pc[c] = "cutoff" /\ Fail(on[c])
    BY <1>16 DEF Written, Lose
  <2>2. on[c] \in err' /\ on'[c] = on[c]
    BY <1>16, <2>1 DEF Written, Fail
  <2> QED
    BY <2>2 DEF Settled, Dead
<1>17. CASE TakeResponse(c)
  BY <1>17 DEF TakeResponse, Responses
<1>18. CASE SeeCtxDone(c)
  BY <1>18 DEF SeeCtxDone
<1>19. CASE SeeReaderDone(c)
  BY <1>19 DEF SeeReaderDone, Lose
<1>20. CASE StartProbe(c)
  BY <1>20 DEF StartProbe
<1>21. CASE ProbeOk(c)
  BY <1>21 DEF ProbeOk
<1>22. CASE ProbeFail(c)
  BY <1>22 DEF ProbeFail, Lose, Responses
<1>23. CASE CancelRequest(c)
  <2>1. on'[c] = on[c] /\ id'[c] = id[c] /\ readerDone' = readerDone
    BY <1>23 DEF CancelRequest
  <2>2. CASE Dead(on[c]) /\ NoFail
    BY <2>1, <2>2 DEF Settled, Dead, NoFail
  <2>3. CASE Fail(on[c])
    BY <2>1, <2>3 DEF Settled, Dead, Fail
  <2>4. CASE Put(on[c], {CancelFrame(c)})
    <3>1. on[c] \in Gens
      BY <1>23 DEF CancelRequest, HoldInv, OnCall
    <3>2. CancelFrame(c) \in wire'[on[c]]
      BY <2>4, <3>1 DEF Put, RemoteTypeOK
    <3>3. CancelFrame(c).type = "cancel" /\ CancelFrame(c).id = id[c]
      BY DEF CancelFrame
    <3> QED
      BY <2>1, <3>2, <3>3 DEF Settled
  <2> QED
    BY <1>23, <2>2, <2>3, <2>4 DEF CancelRequest
<1>24. ASSUME NEW a \in Attempts, ObtainStart(c, a)
       PROVE  Settled(c)'
  BY <1>24 DEF ObtainStart
<1> QED
  BY <1>1, <1>2, <1>3, <1>4, <1>5, <1>6, <1>7, <1>8, <1>9, <1>10, <1>11,
     <1>12, <1>13, <1>14, <1>15, <1>16, <1>17, <1>18, <1>19, <1>20, <1>21,
     <1>22, <1>23, <1>24 DEF CallerStep

\* What is settled stays settled, whoever moves next.
LEMMA StaysSettled ==
  ASSUME NEW d \in Callers, Settled(d),
         err \subseteq err', readerDone \subseteq readerDone',
         on'[d] = on[d], id'[d] = id[d],
         wire[on[d]] \subseteq wire'[on[d]],
         \A f \in wire'[on[d]] :
           f \in wire[on[d]] \/ f.type = "cancel" \/ f.op # d,
         running'[on[d]] \subseteq running[on[d]]
  PROVE  Settled(d)'
<1>1. CASE Dead(on[d])
  BY <1>1 DEF Settled, Dead
<1>2. ASSUME NEW f \in wire[on[d]], f.type = "cancel" /\ f.id = id[d]
      PROVE  Settled(d)'
  BY <1>2 DEF Settled
<1>3. CASE /\ \A f \in wire[on[d]] : f.type = "req" => f.op # d
           /\ \A x \in running[on[d]] : x.op = d => x.canceled
  BY <1>3 DEF Settled
<1> QED
  BY <1>1, <1>2, <1>3 DEF Settled

LEMMA CallerCancels ==
  ASSUME BaseInv, CallInv, CancelInv,
         NEW c \in Callers, CallerStep(c) \/ CtxDone(c)
  PROVE  CancelInv'
<1>1. Writes(c)
  BY CallerWrites
<1>2. \A g \in Gens : \A x \in running'[g] : g = on'[x.op]
  <2> SUFFICES ASSUME NEW g \in Gens, NEW x \in running'[g]
               PROVE  g = on'[x.op]
    OBVIOUS
  <2>1. x \in running[g] /\ x.op \in Callers
    BY <1>1 DEF Writes, BaseInv, TypeOK, RemoteTypeOK, Running
  <2>2. g = on[x.op] /\ touched[x.op]
    BY <2>1 DEF CancelInv, CallInv, FrameInv, Started
  <2> QED
    BY <1>1, <2>1, <2>2 DEF Writes
<1>3. ASSUME DeadlineStreams, NEW d \in Callers, d # c, touched'[d],
             result'[d] = "ctx"
      PROVE  Settled(d)'
  <2>1. /\ touched[d] /\ result[d] = "ctx"
        /\ on'[d] = on[d] /\ id'[d] = id[d]
    BY <1>1, <1>3 DEF Writes
  <2>2. Settled(d)
    BY <1>3, <2>1 DEF CancelInv
  <2>3. pc[d] = "done"
    BY <2>1 DEF CallInv, CallPhase
  <2>4. on[d] \in Gens
    BY <2>1 DEF CancelInv
  <2> QED
    BY <1>1, <1>3, <2>1, <2>2, <2>4, StaysSettled DEF Writes
<1>4. ASSUME DeadlineStreams, touched'[c], result'[c] = "ctx"
      PROVE  Settled(c)'
  <2>1. CASE CallerStep(c)
    BY <1>4, <2>1, CallerSettles
  <2>2. CASE CtxDone(c)
    BY <1>4, <2>2 DEF CtxDone, CallInv, CallPhase
  <2> QED
    BY <2>1, <2>2
<1>5. ASSUME NEW d \in Callers, touched'[d]
      PROVE  on'[d] \in Gens
  <2>1. CASE d = c
    BY <1>1, <1>5, <2>1 DEF Writes, CancelInv, BaseInv, HoldInv, OnCall
  <2>2. CASE d # c
    BY <1>1, <1>5, <2>2 DEF Writes, CancelInv
  <2> QED
    BY <2>1, <2>2
<1> QED
  BY <1>2, <1>3, <1>4, <1>5 DEF CancelInv

\* Nothing is written, and handlers at most end.
LEMMA CalmCancels ==
  ASSUME BaseInv, CallInv, CancelInv,
         err \subseteq err', readerDone \subseteq readerDone',
         UNCHANGED <<on, id, touched, result, wire>>,
         \A g \in Gens : running'[g] \subseteq running[g]
  PROVE  CancelInv'
<1>1. ASSUME DeadlineStreams, NEW d \in Callers, touched[d], result[d] = "ctx"
      PROVE  Settled(d)'
  <2>1. Settled(d) /\ on[d] \in Gens
    BY <1>1 DEF CancelInv
  <2> QED
    BY <2>1, StaysSettled
<1> QED
  BY <1>1 DEF CancelInv

LEMMA StreamCancels ==
  ASSUME BaseInv, CallInv, CancelInv, NEW g \in Gens, StreamStep(g)
  PROVE  CancelInv'
<1> USE DEF BaseInv, TypeOK, RemoteTypeOK, CallerTypeOK, streamVars, callerVars
<1>1. CASE ReaderExit(g)
  BY <1>1, CalmCancels DEF ReaderExit, remoteVars
<1>2. CASE DaemonEnds(g)
  <2>1. /\ UNCHANGED <<err, readerDone, on, id, touched, result>>
        /\ wire' = [wire EXCEPT ![g] = {}]
        /\ running' = [running EXCEPT ![g] = {}]
    BY <1>2 DEF DaemonEnds
  <2>2. ASSUME DeadlineStreams, NEW d \in Callers, touched[d],
               result[d] = "ctx"
        PROVE  Settled(d)'
    <3>1. Settled(d) /\ on[d] \in Gens
      BY <2>2 DEF CancelInv
    <3>2. CASE on[d] = g
      BY <2>1, <3>2 DEF Settled
    <3>3. CASE on[d] # g
      BY <2>1, <3>1, <3>3, StaysSettled
    <3> QED
      BY <3>2, <3>3
  <2> QED
    BY <2>1, <2>2 DEF CancelInv
<1>3. ASSUME NEW r \in back[g], Deliver(g, r)
      PROVE  CancelInv'
  BY <1>3, CalmCancels DEF Deliver
<1>4. ASSUME NEW f \in wire[g], DaemonReceive(g, f)
      PROVE  CancelInv'
  <2> DEFINE x0 == [id |-> f.id, op |-> f.op, canceled |-> FALSE]
  <2>1. /\ f.type = "req"
        /\ wire' = [wire EXCEPT ![g] = @ \ {f}]
        /\ running' = [running EXCEPT ![g] = @ \cup {x0}]
        /\ UNCHANGED <<err, readerDone, on, id, touched, result>>
    BY <1>4 DEF DaemonReceive
  <2>2. f.op \in Callers /\ on[f.op] = g
    BY <2>1 DEF CallInv, FrameInv, FrameOf, Requests, Cancels
  <2>3. \A h \in Gens : \A x \in running'[h] : h = on'[x.op]
    BY <2>1, <2>2 DEF CancelInv
  <2>4. ASSUME DeadlineStreams, NEW d \in Callers, touched[d],
               result[d] = "ctx"
        PROVE  Settled(d)'
    <3>1. Settled(d) /\ on[d] \in Gens
      BY <2>4 DEF CancelInv
    <3>2. CASE on[d] # g
      BY <2>1, <3>1, <3>2, StaysSettled
    <3>3. CASE on[d] = g /\ Dead(g)
      BY <2>1, <3>3 DEF Settled, Dead
    <3>4. ASSUME NEW q \in wire[g], on[d] = g,
                 q.type = "cancel" /\ q.id = id[d]
          PROVE  Settled(d)'
      <4>1. q \in wire'[on[d]]
        BY <2>1, <3>4
      <4> QED
        BY <2>1, <3>4, <4>1 DEF Settled
    <3>5. CASE /\ on[d] = g
               /\ \A q \in wire[g] : q.type = "req" => q.op # d
               /\ \A x \in running[g] : x.op = d => x.canceled
      <4>1. f.op # d
        BY <2>1, <3>5
      <4>2. /\ \A q \in wire'[on'[d]] : q.type = "req" => q.op # d
            /\ \A x \in running'[on'[d]] : x.op = d => x.canceled
        BY <2>1, <3>5, <4>1
      <4> QED
        BY <4>2 DEF Settled
    <3> QED
      BY <3>1, <3>2, <3>3, <3>4, <3>5 DEF Settled
  <2> QED
    BY <2>1, <2>3, <2>4 DEF CancelInv
<1>5. ASSUME NEW f \in wire[g], DaemonCancel(g, f)
      PROVE  CancelInv'
  <2>1. /\ f.type = "cancel"
        /\ \A q \in wire[g] : q.type = "req" => q.id # f.id
        /\ wire' = [wire EXCEPT ![g] = @ \ {f}]
        /\ running' = [running EXCEPT ![g] =
                          {[x EXCEPT !.canceled = @ \/ x.id = f.id] : x \in @}]
        /\ UNCHANGED <<err, readerDone, on, id, touched, result>>
    BY <1>5 DEF DaemonCancel
  <2>2. \A y \in running'[g] : \E x \in running[g] :
          /\ y.op = x.op /\ y.id = x.id
          /\ y.canceled <=> (x.canceled \/ x.id = f.id)
    <3> SUFFICES ASSUME NEW y \in running'[g]
                 PROVE  \E x \in running[g] :
                          /\ y.op = x.op /\ y.id = x.id
                          /\ y.canceled <=> (x.canceled \/ x.id = f.id)
      OBVIOUS
    <3>1. PICK x \in running[g] : y = [x EXCEPT !.canceled = @ \/ x.id = f.id]
      BY <2>1
    <3>2. x \in Running
      OBVIOUS
    <3>3. y.op = x.op /\ y.id = x.id
      BY <3>1, <3>2 DEF Running
    <3>4. y.canceled = (x.canceled \/ x.id = f.id)
      BY <3>1, <3>2 DEF Running
    <3> QED
      BY <3>3, <3>4
  <2>3. \A h \in Gens : \A x \in running'[h] : h = on'[x.op]
    BY <2>1, <2>2 DEF CancelInv
  <2>4. ASSUME DeadlineStreams, NEW d \in Callers, touched[d],
               result[d] = "ctx"
        PROVE  Settled(d)'
    <3>1. Settled(d) /\ on[d] \in Gens
      BY <2>4 DEF CancelInv
    <3>2. CASE on[d] # g
      BY <2>1, <3>1, <3>2, StaysSettled
    <3>3. CASE on[d] = g /\ Dead(g)
      BY <2>1, <3>3 DEF Settled, Dead
    <3>4. ASSUME NEW q \in wire[g], on[d] = g,
                 q.type = "cancel" /\ q.id = id[d], q # f
          PROVE  Settled(d)'
      <4>1. q \in wire'[on[d]]
        BY <2>1, <3>4
      <4> QED
        BY <2>1, <3>4, <4>1 DEF Settled
    <3>5. CASE on[d] = g /\ f.id = id[d]
      <4>1. \A q \in wire[g] : q.type = "req" => q.op # d
        BY <2>1, <3>5 DEF CallInv, FrameInv, FrameOf
      <4>2. \A x \in running[g] : x.op = d => x.id = f.id
        BY <3>5 DEF CallInv, FrameInv, Started
      <4>3. /\ \A q \in wire'[on'[d]] : q.type = "req" => q.op # d
            /\ \A y \in running'[on'[d]] : y.op = d => y.canceled
        BY <2>1, <2>2, <3>5, <4>1, <4>2
      <4> QED
        BY <4>3 DEF Settled
    <3>6. CASE /\ on[d] = g
               /\ \A q \in wire[g] : q.type = "req" => q.op # d
               /\ \A x \in running[g] : x.op = d => x.canceled
      <4>1. /\ \A q \in wire'[on'[d]] : q.type = "req" => q.op # d
            /\ \A y \in running'[on'[d]] : y.op = d => y.canceled
        BY <2>1, <2>2, <3>6
      <4> QED
        BY <4>1 DEF Settled
    <3> QED
      BY <3>1, <3>2, <3>3, <3>4, <3>5, <3>6 DEF Settled
  <2> QED
    BY <2>1, <2>3, <2>4 DEF CancelInv
<1>6. ASSUME NEW x \in running[g], DaemonRespond(g, x)
      PROVE  CancelInv'
  BY <1>6, CalmCancels DEF DaemonRespond
<1> QED
  BY <1>1, <1>2, <1>3, <1>4, <1>5, <1>6 DEF StreamStep

LEMMA CancelStep ==
  ASSUME BaseInv, CallInv, CancelInv, [Next]_vars
  PROVE  CancelInv'
<1>1. ASSUME NEW a \in Attempts, AttemptStep(a)
      PROVE  CancelInv'
  BY <1>1, CalmCancels DEF AttemptStep, RecoverTransport, TransportFails,
     Spawn, HandshakeOk, HandshakeFail, Aborted, Publish, Discard, Retire,
     Disposed, Leave, remoteVars, streamVars, callerVars
<1>2. ASSUME NEW k \in Closers, CloseStep(k)
      PROVE  CancelInv'
  BY <1>2, CalmCancels DEF CloseStep, CloseBegin, CloseDispose, CloseDrained,
     CloseAwaited, CloseTransport, remoteVars, streamVars, callerVars
<1>3. CASE CooldownExpires
  BY <1>3, CalmCancels DEF CooldownExpires, remoteVars, streamVars, callerVars
<1>4. CASE UNCHANGED vars
  BY <1>4, CalmCancels DEF vars, remoteVars, streamVars, callerVars
<1> QED
  BY <1>1, <1>2, <1>3, <1>4, CallerCancels, StreamCancels DEF Next

\* CancelInv is an invariant of the executor.
THEOREM CancelInvariant == Spec => [](BaseInv /\ CallInv /\ CancelInv)
<1>1. Init => CancelInv
  BY DEF Init, CancelInv
<1>2. (BaseInv /\ CallInv) /\ CancelInv /\ [Next]_vars => CancelInv'
  BY CancelStep
<1> QED
  BY <1>1, <1>2, CallInvariant, PTL DEF Spec

\* On transports whose stream takes write deadlines, a call that got its
\* context error leaves no operation behind that nobody cancels.  (Without
\* them it may: run client_cancel_pipe.)
THEOREM CancelsReach == DeadlineStreams => (Spec => []CanceledCallIsCanceled)
<1> SUFFICES ASSUME DeadlineStreams PROVE Spec => []CanceledCallIsCanceled
  OBVIOUS
<1>1. BaseInv /\ CallInv /\ CancelInv => CanceledCallIsCanceled
  <2> SUFFICES ASSUME BaseInv, CallInv, CancelInv,
                      NEW c \in Callers, result[c] = "ctx",
                      NEW g \in up, ~Dead(g),
                      \A f \in wire[g] : f.type = "cancel" => f.id # id[c],
                      \/ \E f \in wire[g] : f.type = "req" /\ f.op = c
                      \/ \E x \in running[g] : x.op = c /\ ~x.canceled
               PROVE  FALSE
    BY DEF CanceledCallIsCanceled, Orphaned
  <2>1. g \in Gens
    BY DEF BaseInv, TypeOK, RemoteTypeOK
  <2>2. touched[c] /\ on[c] = g
    BY <2>1 DEF CallInv, FrameInv, FrameOf, Started, CancelInv
  <2>3. Settled(c)
    BY <2>2 DEF CancelInv
  <2> QED
    BY <2>2, <2>3 DEF Settled
<1> QED
  BY <1>1, CancelInvariant, PTL

=============================================================================
