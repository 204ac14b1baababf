---------------------------- MODULE MCPatchCommit ----------------------------
(* Constants for checking PatchCommit with TLC.                            *)
EXTENDS PatchCommit, TLC

AllKinds == {"add", "delete", "update", "move", "rename"}
=============================================================================
