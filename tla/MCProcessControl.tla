-------------------------- MODULE MCProcessControl --------------------------
(* Instances of ProcessControl for TLC. *)
EXTENDS ProcessControl

\* Enough process numbers for the old, the candidate and the next process
\* besides one in a stale file.
MCPids == 1..4
=============================================================================
