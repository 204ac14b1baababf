--------------------------- MODULE MCDaemonServer ---------------------------
(* Constants for checking DaemonServer with TLC.                           *)
EXTENDS DaemonServer, TLC

CONSTANTS b1, s1, f1

\* A shell and a file operation under one id, and a process session.
SharedId   == b1 :> 1 @@ f1 :> 1 @@ s1 :> 2
SharedVerb == b1 :> "bash" @@ f1 :> "file" @@ s1 :> "session"
=============================================================================
