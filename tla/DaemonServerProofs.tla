------------------------- MODULE DaemonServerProofs -------------------------
(***************************************************************************)
(* The daemon's loop and its requests, for any number of requests under    *)
(* any ids, and that it is the peer its client relies on.                  *)
(***************************************************************************)
EXTENDS DaemonServer, TLAPS

Running == {"attach", "select", "grace"}

\* What the handler of each request has started, and what it can answer.
HandlerInv ==
  \A r \in Requests :
    /\ proc[r] = "alive" => Verb[r] = "bash" /\ pc[r] \in Running
    /\ pc[r] = "launch" => Verb[r] = "bash"
    /\ pc[r] \in {"grace", "reap"} => r \in canceled
    /\ pc[r] = "write" => outcome[r] # "none"
    /\ outcome[r] = "canceled" => r \in canceled
    /\ response[r] # "none" => pc[r] \in {"remove", "done"}

\* Nothing is at work, and nothing is accepted any more.
EndInv ==
  /\ mode \in {"stopping", "exited"} => \A r \in Requests : Finished(r)
  /\ mode = "exited" => sessions = {}

ServerInv == TypeOK /\ Reachable /\ HandlerInv /\ EndInv

-----------------------------------------------------------------------------
(* The invariant                                                           *)

LEMMA InitInv == ASSUME Init PROVE ServerInv
BY DEF Init, ServerInv, TypeOK, Modes, HandlerPC, Outcomes, Reachable, HandlerInv, EndInv,
       Finished

\* Every step keeps to the types ...
LEMMA StepTypes ==
  ASSUME ServerInv, [Next]_vars
  PROVE  TypeOK'
<1> USE DEF ServerInv, TypeOK, Modes, HandlerPC, Outcomes
<1>1. ASSUME NEW r \in Requests, Signal(r)
      PROVE  TypeOK'
  BY <1>1 DEF Signal, Terminate
<1>2. ASSUME NEW r \in Requests, CancelNext(r)
      PROVE  TypeOK'
  BY <1>2 DEF CancelNext, processVars
<1>3. ASSUME NEW r \in Requests, ReadRequest(r)
      PROVE  TypeOK'
  BY <1>3 DEF ReadRequest, Named, loopVars, processVars
<1>4. ASSUME NEW r \in Requests, Check(r)
      PROVE  TypeOK'
  BY <1>4 DEF Check, Conclude, loopVars, processVars
<1>5. ASSUME NEW r \in Requests, SessionStarted(r)
      PROVE  TypeOK'
  BY <1>5 DEF SessionStarted, Conclude, loopVars, processVars
<1>6. ASSUME NEW r \in Requests, FileDone(r)
      PROVE  TypeOK'
  BY <1>6 DEF FileDone, Conclude, loopVars, processVars
<1>7. ASSUME NEW r \in Requests, Launch(r)
      PROVE  TypeOK'
  BY <1>7 DEF Launch, Conclude, loopVars
<1>8. ASSUME NEW r \in Requests, Attach(r)
      PROVE  TypeOK'
  BY <1>8 DEF Attach, loopVars
<1>9. ASSUME NEW r \in Requests, Completed(r)
      PROVE  TypeOK'
  BY <1>9 DEF Completed, Conclude, Waited, Return, loopVars
<1>10. ASSUME NEW r \in Requests, SeeCanceled(r)
      PROVE  TypeOK'
  BY <1>10 DEF SeeCanceled, Terminate, loopVars
<1>11. ASSUME NEW r \in Requests, GraceOver(r)
      PROVE  TypeOK'
  BY <1>11 DEF GraceOver, loopVars
<1>12. ASSUME NEW r \in Requests, Reaped(r)
      PROVE  TypeOK'
  BY <1>12 DEF Reaped, Conclude, Waited, Return, loopVars
<1>13. ASSUME NEW r \in Requests, WriteResponse(r)
      PROVE  TypeOK'
  BY <1>13 DEF WriteResponse, loopVars, processVars
<1>14. ASSUME NEW r \in Requests, RemoveItem(r)
      PROVE  TypeOK'
  BY <1>14 DEF RemoveItem, loopVars, processVars
<1>15. ASSUME NEW r \in Requests, ShellExits(r)
      PROVE  TypeOK'
  BY <1>15 DEF ShellExits, loopVars
<1>16. ASSUME NEW r \in Requests, Escape(r)
      PROVE  TypeOK'
  BY <1>16 DEF Escape, loopVars
<1>17. ASSUME NEW r \in Requests, EscapedExits(r)
      PROVE  TypeOK'
  BY <1>17 DEF EscapedExits, loopVars
<1>18. ASSUME NEW r \in Requests, ReadCancel(Id[r])
      PROVE  TypeOK'
  BY <1>18 DEF ReadCancel, Named, processVars
<1>19. CASE EndOfInput
  BY <1>19 DEF EndOfInput, processVars
<1>20. CASE AllCanceled
  BY <1>20 DEF AllCanceled, processVars
<1>21. CASE Drained
  BY <1>21 DEF Drained, processVars
<1>22. CASE StopSessions
  BY <1>22 DEF StopSessions, processVars
<1>23. CASE UNCHANGED vars
  BY <1>23 DEF vars
<1> QED
  BY <1>1, <1>2, <1>3, <1>4, <1>5, <1>6, <1>7, <1>8, <1>9, <1>10, <1>11,
     <1>12, <1>13, <1>14, <1>15, <1>16, <1>17, <1>18, <1>19, <1>20, <1>21,
     <1>22, <1>23
     DEF Next, LoopStep, HandlerStep

\* ... the map of requests in flight ...
LEMMA StepReachable ==
  ASSUME ServerInv, [Next]_vars
  PROVE  Reachable'
<1> USE DEF ServerInv, TypeOK, HandlerPC, Reachable, Finished
<1>1. ASSUME NEW r \in Requests, Signal(r)
      PROVE  Reachable'
  BY <1>1 DEF Signal, Terminate
<1>2. ASSUME NEW r \in Requests, CancelNext(r)
      PROVE  Reachable'
  BY <1>2 DEF CancelNext, processVars
<1>3. ASSUME NEW r \in Requests, ReadRequest(r)
      PROVE  Reachable'
  BY <1>3 DEF ReadRequest, Named, loopVars, processVars
<1>4. ASSUME NEW r \in Requests, Check(r)
      PROVE  Reachable'
  BY <1>4 DEF Check, Conclude, loopVars, processVars
<1>5. ASSUME NEW r \in Requests, SessionStarted(r)
      PROVE  Reachable'
  BY <1>5 DEF SessionStarted, Conclude, loopVars, processVars
<1>6. ASSUME NEW r \in Requests, FileDone(r)
      PROVE  Reachable'
  BY <1>6 DEF FileDone, Conclude, loopVars, processVars
<1>7. ASSUME NEW r \in Requests, Launch(r)
      PROVE  Reachable'
  BY <1>7 DEF Launch, Conclude, loopVars
<1>8. ASSUME NEW r \in Requests, Attach(r)
      PROVE  Reachable'
  BY <1>8 DEF Attach, loopVars
<1>9. ASSUME NEW r \in Requests, Completed(r)
      PROVE  Reachable'
  BY <1>9 DEF Completed, Conclude, Waited, Return, loopVars
<1>10. ASSUME NEW r \in Requests, SeeCanceled(r)
      PROVE  Reachable'
  BY <1>10 DEF SeeCanceled, Terminate, loopVars
<1>11. ASSUME NEW r \in Requests, GraceOver(r)
      PROVE  Reachable'
  BY <1>11 DEF GraceOver, loopVars
<1>12. ASSUME NEW r \in Requests, Reaped(r)
      PROVE  Reachable'
  BY <1>12 DEF Reaped, Conclude, Waited, Return, loopVars
<1>13. ASSUME NEW r \in Requests, WriteResponse(r)
      PROVE  Reachable'
  BY <1>13 DEF WriteResponse, loopVars, processVars
<1>14. ASSUME NEW r \in Requests, RemoveItem(r)
      PROVE  Reachable'
  BY <1>14 DEF RemoveItem, loopVars, processVars
<1>15. ASSUME NEW r \in Requests, ShellExits(r)
      PROVE  Reachable'
  BY <1>15 DEF ShellExits, loopVars
<1>16. ASSUME NEW r \in Requests, Escape(r)
      PROVE  Reachable'
  BY <1>16 DEF Escape, loopVars
<1>17. ASSUME NEW r \in Requests, EscapedExits(r)
      PROVE  Reachable'
  BY <1>17 DEF EscapedExits, loopVars
<1>18. ASSUME NEW r \in Requests, ReadCancel(Id[r])
      PROVE  Reachable'
  BY <1>18 DEF ReadCancel, Named, processVars
<1>19. CASE EndOfInput
  BY <1>19 DEF EndOfInput, processVars
<1>20. CASE AllCanceled
  BY <1>20 DEF AllCanceled, processVars
<1>21. CASE Drained
  BY <1>21 DEF Drained, processVars
<1>22. CASE StopSessions
  BY <1>22 DEF StopSessions, processVars
<1>23. CASE UNCHANGED vars
  BY <1>23 DEF vars
<1> QED
  BY <1>1, <1>2, <1>3, <1>4, <1>5, <1>6, <1>7, <1>8, <1>9, <1>10, <1>11,
     <1>12, <1>13, <1>14, <1>15, <1>16, <1>17, <1>18, <1>19, <1>20, <1>21,
     <1>22, <1>23
     DEF Next, LoopStep, HandlerStep

\* ... the handlers and their shells ...
LEMMA StepHandlers ==
  ASSUME ServerInv, [Next]_vars
  PROVE  HandlerInv'
<1> USE DEF ServerInv, TypeOK, HandlerPC, Outcomes, HandlerInv, Running
<1>1. ASSUME NEW r \in Requests, Signal(r)
      PROVE  HandlerInv'
  BY <1>1 DEF Signal, Terminate
<1>2. ASSUME NEW r \in Requests, CancelNext(r)
      PROVE  HandlerInv'
  BY <1>2 DEF CancelNext, processVars
<1>3. ASSUME NEW r \in Requests, ReadRequest(r)
      PROVE  HandlerInv'
  BY <1>3 DEF ReadRequest, Named, loopVars, processVars
<1>4. ASSUME NEW r \in Requests, Check(r)
      PROVE  HandlerInv'
  BY <1>4 DEF Check, Conclude, loopVars, processVars
<1>5. ASSUME NEW r \in Requests, SessionStarted(r)
      PROVE  HandlerInv'
  BY <1>5 DEF SessionStarted, Conclude, loopVars, processVars
<1>6. ASSUME NEW r \in Requests, FileDone(r)
      PROVE  HandlerInv'
  BY <1>6 DEF FileDone, Conclude, loopVars, processVars
<1>7. ASSUME NEW r \in Requests, Launch(r)
      PROVE  HandlerInv'
  BY <1>7 DEF Launch, Conclude, loopVars
<1>8. ASSUME NEW r \in Requests, Attach(r)
      PROVE  HandlerInv'
  BY <1>8 DEF Attach, loopVars
<1>9. ASSUME NEW r \in Requests, Completed(r)
      PROVE  HandlerInv'
  BY <1>9 DEF Completed, Conclude, Waited, Return, loopVars
<1>10. ASSUME NEW r \in Requests, SeeCanceled(r)
      PROVE  HandlerInv'
  BY <1>10 DEF SeeCanceled, Terminate, loopVars
<1>11. ASSUME NEW r \in Requests, GraceOver(r)
      PROVE  HandlerInv'
  BY <1>11 DEF GraceOver, loopVars
<1>12. ASSUME NEW r \in Requests, Reaped(r)
      PROVE  HandlerInv'
  BY <1>12 DEF Reaped, Conclude, Waited, Return, loopVars
<1>13. ASSUME NEW r \in Requests, WriteResponse(r)
      PROVE  HandlerInv'
  BY <1>13 DEF WriteResponse, loopVars, processVars
<1>14. ASSUME NEW r \in Requests, RemoveItem(r)
      PROVE  HandlerInv'
  BY <1>14 DEF RemoveItem, loopVars, processVars
<1>15. ASSUME NEW r \in Requests, ShellExits(r)
      PROVE  HandlerInv'
  BY <1>15 DEF ShellExits, loopVars
<1>16. ASSUME NEW r \in Requests, Escape(r)
      PROVE  HandlerInv'
  BY <1>16 DEF Escape, loopVars
<1>17. ASSUME NEW r \in Requests, EscapedExits(r)
      PROVE  HandlerInv'
  BY <1>17 DEF EscapedExits, loopVars
<1>18. ASSUME NEW r \in Requests, ReadCancel(Id[r])
      PROVE  HandlerInv'
  BY <1>18 DEF ReadCancel, Named, processVars
<1>19. CASE EndOfInput
  BY <1>19 DEF EndOfInput, processVars
<1>20. CASE AllCanceled
  BY <1>20 DEF AllCanceled, processVars
<1>21. CASE Drained
  BY <1>21 DEF Drained, processVars
<1>22. CASE StopSessions
  BY <1>22 DEF StopSessions, processVars
<1>23. CASE UNCHANGED vars
  BY <1>23 DEF vars
<1> QED
  BY <1>1, <1>2, <1>3, <1>4, <1>5, <1>6, <1>7, <1>8, <1>9, <1>10, <1>11,
     <1>12, <1>13, <1>14, <1>15, <1>16, <1>17, <1>18, <1>19, <1>20, <1>21,
     <1>22, <1>23
     DEF Next, LoopStep, HandlerStep

\* ... and the end.
LEMMA StepEnd ==
  ASSUME ServerInv, [Next]_vars
  PROVE  EndInv'
<1> USE DEF ServerInv, TypeOK, HandlerPC, EndInv, Finished
<1>1. ASSUME NEW r \in Requests, Signal(r)
      PROVE  EndInv'
  BY <1>1 DEF Signal, Terminate
<1>2. ASSUME NEW r \in Requests, CancelNext(r)
      PROVE  EndInv'
  BY <1>2 DEF CancelNext, processVars
<1>3. ASSUME NEW r \in Requests, ReadRequest(r)
      PROVE  EndInv'
  BY <1>3 DEF ReadRequest, Named, loopVars, processVars
<1>4. ASSUME NEW r \in Requests, Check(r)
      PROVE  EndInv'
  BY <1>4 DEF Check, Conclude, loopVars, processVars
<1>5. ASSUME NEW r \in Requests, SessionStarted(r)
      PROVE  EndInv'
  BY <1>5 DEF SessionStarted, Conclude, loopVars, processVars
<1>6. ASSUME NEW r \in Requests, FileDone(r)
      PROVE  EndInv'
  BY <1>6 DEF FileDone, Conclude, loopVars, processVars
<1>7. ASSUME NEW r \in Requests, Launch(r)
      PROVE  EndInv'
  BY <1>7 DEF Launch, Conclude, loopVars
<1>8. ASSUME NEW r \in Requests, Attach(r)
      PROVE  EndInv'
  BY <1>8 DEF Attach, loopVars
<1>9. ASSUME NEW r \in Requests, Completed(r)
      PROVE  EndInv'
  BY <1>9 DEF Completed, Conclude, Waited, Return, loopVars
<1>10. ASSUME NEW r \in Requests, SeeCanceled(r)
      PROVE  EndInv'
  BY <1>10 DEF SeeCanceled, Terminate, loopVars
<1>11. ASSUME NEW r \in Requests, GraceOver(r)
      PROVE  EndInv'
  BY <1>11 DEF GraceOver, loopVars
<1>12. ASSUME NEW r \in Requests, Reaped(r)
      PROVE  EndInv'
  BY <1>12 DEF Reaped, Conclude, Waited, Return, loopVars
<1>13. ASSUME NEW r \in Requests, WriteResponse(r)
      PROVE  EndInv'
  BY <1>13 DEF WriteResponse, loopVars, processVars
<1>14. ASSUME NEW r \in Requests, RemoveItem(r)
      PROVE  EndInv'
  BY <1>14 DEF RemoveItem, loopVars, processVars
<1>15. ASSUME NEW r \in Requests, ShellExits(r)
      PROVE  EndInv'
  BY <1>15 DEF ShellExits, loopVars
<1>16. ASSUME NEW r \in Requests, Escape(r)
      PROVE  EndInv'
  BY <1>16 DEF Escape, loopVars
<1>17. ASSUME NEW r \in Requests, EscapedExits(r)
      PROVE  EndInv'
  BY <1>17 DEF EscapedExits, loopVars
<1>18. ASSUME NEW r \in Requests, ReadCancel(Id[r])
      PROVE  EndInv'
  BY <1>18 DEF ReadCancel, Named, processVars
<1>19. CASE EndOfInput
  BY <1>19 DEF EndOfInput, processVars
<1>20. CASE AllCanceled
  BY <1>20 DEF AllCanceled, processVars
<1>21. CASE Drained
  BY <1>21 DEF Drained, processVars
<1>22. CASE StopSessions
  BY <1>22 DEF StopSessions, processVars
<1>23. CASE UNCHANGED vars
  BY <1>23 DEF vars
<1> QED
  BY <1>1, <1>2, <1>3, <1>4, <1>5, <1>6, <1>7, <1>8, <1>9, <1>10, <1>11,
     <1>12, <1>13, <1>14, <1>15, <1>16, <1>17, <1>18, <1>19, <1>20, <1>21,
     <1>22, <1>23
     DEF Next, LoopStep, HandlerStep

-----------------------------------------------------------------------------
(* The theorems                                                            *)

\* ServerInv holds in every state, for any requests.
THEOREM ServerInvariant == Spec => []ServerInv
<1>1. ServerInv /\ [Next]_vars => ServerInv'
  BY StepTypes, StepReachable, StepHandlers, StepEnd DEF ServerInv
<1> QED BY <1>1, InitInv, PTL DEF Spec

\* A cancel frame names one request in flight, and every handler at work is
\* in the map for the end of input to find (runDaemonIO).
THEOREM RequestsReachable == Spec => []Reachable
<1>1. ServerInv => Reachable
  BY DEF ServerInv
<1> QED BY <1>1, ServerInvariant, PTL

\* No shell outlives its handler, and no shell or session the daemon, whenever
\* requests are cancelled (runProcessInDir, wg.Wait).
THEOREM ShellsNotOrphaned == Spec => []NoOrphans
<1>1. ServerInv => NoOrphans
  BY DEF ServerInv, HandlerInv, EndInv, NoOrphans, Finished, Running
<1> QED BY <1>1, ServerInvariant, PTL

-----------------------------------------------------------------------------
(* The refinement of DaemonPeer                                            *)

Handling == {r \in Requests : pc[r] \notin {"unread", "remove", "done"}}
Shown == <<Handling, canceled, response, mode = "exited">>

LEMMA PeerInit == ASSUME Init PROVE Peer!Init
BY DEF Init, Peer!Init

\* What the client cannot see.
Same ==
  /\ UNCHANGED <<canceled, response>> /\ (mode' = "exited") = (mode = "exited")
  /\ \A r \in Requests : (pc'[r] \in {"unread", "remove", "done"})
                            = (pc[r] \in {"unread", "remove", "done"})

LEMMA SameHidden == ASSUME Same PROVE UNCHANGED Shown
BY DEF Same, Shown, Handling

LEMMA HandlerHidden ==
  ASSUME ServerInv, NEW r \in Requests,
         \/ Signal(r) \/ ShellExits(r) \/ Escape(r) \/ EscapedExits(r)
         \/ HandlerStep(r) /\ ~WriteResponse(r)
  PROVE  Same
<1> USE DEF ServerInv, TypeOK, HandlerPC, Same
<1>1. CASE Signal(r)
  BY <1>1 DEF Signal, Terminate
<1>2. CASE Attach(r)
  BY <1>2 DEF Attach, loopVars
<1>3. CASE SessionStarted(r)
  BY <1>3 DEF SessionStarted, Conclude, loopVars, processVars
<1>4. CASE FileDone(r)
  BY <1>4 DEF FileDone, Conclude, loopVars, processVars
<1>5. CASE Launch(r)
  BY <1>5 DEF Launch, Conclude, loopVars
<1>6. CASE Completed(r)
  BY <1>6 DEF Completed, Conclude, Waited, Return, loopVars
<1>7. CASE SeeCanceled(r)
  BY <1>7 DEF SeeCanceled, Terminate, loopVars
<1>8. CASE GraceOver(r)
  BY <1>8 DEF GraceOver, loopVars
<1>9. CASE Reaped(r)
  BY <1>9 DEF Reaped, Conclude, Waited, Return, loopVars
<1>10. CASE Check(r)
  BY <1>10 DEF Check, Conclude, loopVars, processVars
<1>11. CASE RemoveItem(r)
  BY <1>11 DEF RemoveItem, loopVars, processVars
<1>12. CASE ShellExits(r)
  BY <1>12 DEF ShellExits, loopVars
<1>13. CASE Escape(r)
  BY <1>13 DEF Escape, loopVars
<1>14. CASE EscapedExits(r)
  BY <1>14 DEF EscapedExits, loopVars
<1> QED
  BY <1>1, <1>2, <1>3, <1>4, <1>5, <1>6, <1>7, <1>8,
     <1>9, <1>10, <1>11, <1>12, <1>13, <1>14 DEF HandlerStep

LEMMA LoopHidden == ASSUME ServerInv, EndOfInput \/ AllCanceled \/ Drained PROVE Same
BY DEF Same, ServerInv, TypeOK, EndOfInput, AllCanceled, Drained, processVars

\* The steps it can see are those of DaemonPeer.
LEMMA PeerReads ==
  ASSUME ServerInv, NEW r \in Requests, ReadRequest(r)
  PROVE  Peer!Receive(r) \/ Peer!Refuse(r)
<1> USE DEF ServerInv, TypeOK, HandlerPC, Outcomes
<1>1. /\ pc[r] = "unread" /\ mode = "serving" /\ response[r] = "none"
      /\ UNCHANGED <<mode, canceled>>
  BY DEF ReadRequest, HandlerInv, loopVars
<1>2. CASE pc' = [pc EXCEPT ![r] = "check"] /\ response' = response
  <2>1. Handling' = Handling \cup {r} /\ r \notin Handling
    BY <1>1, <1>2 DEF Handling
  <2> QED BY <1>1, <1>2, <2>1 DEF Peer!Receive, Handling
<1>3. CASE pc' = [pc EXCEPT ![r] = "done"] /\ response' = [response EXCEPT ![r] = "error"]
  <2>1. Handling' = Handling /\ r \notin Handling
    BY <1>1, <1>3 DEF Handling
  <2> QED BY <1>1, <1>3, <2>1 DEF Peer!Refuse, Handling
<1> QED BY <1>2, <1>3 DEF ReadRequest

LEMMA PeerCancels ==
  ASSUME ServerInv, NEW r \in Requests, ReadCancel(Id[r]) \/ CancelNext(r)
  PROVE  \E s \in SUBSET Requests : Peer!Cancel(s)
<1> USE DEF ServerInv, TypeOK
<1>1. CASE ReadCancel(Id[r])
  <2>1. Named(Id[r]) \in SUBSET Requests
    BY DEF Named
  <2>2. Peer!Cancel(Named(Id[r]))
    BY <1>1 DEF Peer!Cancel, ReadCancel
  <2> QED BY <2>1, <2>2
<1>2. CASE CancelNext(r)
  BY <1>2 DEF Peer!Cancel, CancelNext
<1> QED BY <1>1, <1>2

LEMMA PeerResponds ==
  ASSUME ServerInv, NEW r \in Requests, WriteResponse(r)
  PROVE  \E a \in Peer!Answers : Peer!Respond(r, a)
<1> USE DEF ServerInv, TypeOK, HandlerPC, Outcomes
<1>1. PICK a \in {outcome[r], "lost"} : response' = [response EXCEPT ![r] = a]
  BY DEF WriteResponse
<1>2. /\ pc[r] = "write" /\ pc' = [pc EXCEPT ![r] = "remove"]
      /\ UNCHANGED <<mode, canceled>>
  BY DEF WriteResponse, loopVars
<1>3. a \in Peer!Answers \ {"none"} /\ (a = "canceled" => r \in canceled)
  BY <1>2 DEF HandlerInv, Peer!Answers
<1>4. r \in Handling /\ Handling' = Handling \ {r}
  BY <1>2 DEF Handling
<1>5. Peer!Respond(r, a)
  BY <1>1, <1>2, <1>3, <1>4 DEF Peer!Respond, Handling
<1> QED BY <1>3, <1>5

LEMMA PeerEnds == ASSUME ServerInv, StopSessions PROVE Peer!End
<1>1. Handling = {}
  BY DEF ServerInv, EndInv, StopSessions, Finished, Handling
<1>2. Handling' = Handling
  BY DEF StopSessions, Handling
<1> QED BY <1>1, <1>2 DEF StopSessions, Peer!End, Handling

LEMMA PeerStep == ASSUME ServerInv, [Next]_vars PROVE [Peer!Next]_Shown
<1>1. ASSUME NEW r \in Requests, ReadRequest(r) PROVE Peer!Next
  BY <1>1, PeerReads DEF Peer!Next
<1>2. ASSUME NEW r \in Requests, ReadCancel(Id[r]) \/ CancelNext(r) PROVE Peer!Next
  BY <1>2, PeerCancels DEF Peer!Next
<1>3. ASSUME NEW r \in Requests, WriteResponse(r) PROVE Peer!Next
  BY <1>3, PeerResponds DEF Peer!Next
<1>4. CASE StopSessions
  BY <1>4, PeerEnds DEF Peer!Next
<1>5. ASSUME NEW r \in Requests,
             \/ Signal(r) \/ ShellExits(r) \/ Escape(r) \/ EscapedExits(r)
             \/ HandlerStep(r) /\ ~WriteResponse(r)
      PROVE  UNCHANGED Shown
  BY <1>5, HandlerHidden, SameHidden
<1>6. CASE EndOfInput \/ AllCanceled \/ Drained
  BY <1>6, LoopHidden, SameHidden
<1>7. CASE UNCHANGED vars
  BY <1>7 DEF vars, Shown, Handling
<1> QED
  BY <1>1, <1>2, <1>3, <1>4, <1>5, <1>6, <1>7 DEF Next, LoopStep

\* The daemon implements DaemonPeer: reading, refusing, cancelling, answering
\* and ending are its steps, all else the client cannot tell from nothing.
THEOREM DaemonServesPeer == Spec => ServesPeer
<1>1. Init => Peer!Init
  BY PeerInit
<1>2. ServerInv /\ [Next]_vars => [Peer!Next]_(Peer!vars)
  BY PeerStep DEF Shown, Handling, Peer!vars
<1> QED
  BY <1>1, <1>2, ServerInvariant, PTL DEF Spec, ServesPeer, Peer!Spec
=============================================================================
