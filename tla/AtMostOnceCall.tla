--------------------------- MODULE AtMostOnceCall ---------------------------
(***************************************************************************)
(* What internal/daemonclient promises the caller of one remote operation, *)
(* whatever happens to the connection: the operation takes effect at most  *)
(* once; an answer is given only for an operation that was started; and an *)
(* operation reported as not sent has had no effect and never will.  An    *)
(* operation whose outcome is reported as unknown may still start later.   *)
(***************************************************************************)
EXTENDS Naturals

CONSTANT Callers

VARIABLES effect,  \* how often each caller's operation was started
          report   \* what the caller was told

Reports == {"none", "answered", "unsent", "unknown"}

Init ==
  /\ effect = [c \in Callers |-> 0]
  /\ report = [c \in Callers |-> "none"]

Execute(c) ==
  /\ effect[c] = 0 /\ report[c] # "unsent"
  /\ effect' = [effect EXCEPT ![c] = 1]
  /\ UNCHANGED report

Report(c, r) ==
  /\ report[c] = "none" /\ r \in Reports \ {"none"}
  /\ r = "answered" => effect[c] = 1
  /\ r = "unsent" => effect[c] = 0
  /\ report' = [report EXCEPT ![c] = r]
  /\ UNCHANGED effect

Next == \E c \in Callers : Execute(c) \/ \E r \in Reports : Report(c, r)

Spec == Init /\ [][Next]_<<effect, report>>
=============================================================================
