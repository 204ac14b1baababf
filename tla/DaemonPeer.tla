----------------------------- MODULE DaemonPeer -----------------------------
(***************************************************************************)
(* What internal/daemonclient relies on of the daemon at the other end of  *)
(* its stream: a request it reads is handled once and answered at most     *)
(* once, "canceled" is an answer only to a request that was cancelled, and *)
(* no operation is left running once the daemon has ended.                 *)
(***************************************************************************)
CONSTANT Requests

VARIABLES running,   \* requests read and not yet answered
          canceled,  \* requests a cancel frame or the end of input reached
          answer,    \* the response of each request
          ended

vars == <<running, canceled, answer, ended>>

\* "lost": the response could not be written.
Answers == {"none", "ok", "error", "canceled", "lost"}

Init ==
  /\ running = {} /\ canceled = {} /\ ended = FALSE
  /\ answer = [r \in Requests |-> "none"]

Receive(r) ==
  /\ ~ended /\ r \notin running /\ answer[r] = "none"
  /\ running' = running \cup {r}
  /\ UNCHANGED <<canceled, answer, ended>>

Cancel(s) ==
  /\ ~ended
  /\ canceled' = canceled \cup s
  /\ UNCHANGED <<running, answer, ended>>

Respond(r, a) ==
  /\ r \in running /\ a \in Answers \ {"none"}
  /\ a = "canceled" => r \in canceled
  /\ running' = running \ {r}
  /\ answer' = [answer EXCEPT ![r] = a]
  /\ UNCHANGED <<canceled, ended>>

\* A request refused before it is handled, as a duplicate id is.
Refuse(r) ==
  /\ ~ended /\ r \notin running /\ answer[r] = "none"
  /\ answer' = [answer EXCEPT ![r] = "error"]
  /\ UNCHANGED <<running, canceled, ended>>

End ==
  /\ ~ended /\ running = {}
  /\ ended' = TRUE
  /\ UNCHANGED <<running, canceled, answer>>

Next ==
  \/ \E r \in Requests : Receive(r) \/ Refuse(r) \/ \E a \in Answers : Respond(r, a)
  \/ \E s \in SUBSET Requests : Cancel(s)
  \/ End

Spec == Init /\ [][Next]_vars
=============================================================================
