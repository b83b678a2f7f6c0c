---------------------------- MODULE MCAccessLog ----------------------------
(* Instances of AccessLog for TLC. *)
EXTENDS AccessLog

\* A file to read, one to be rotated to, and one more so that the collector
\* can be overtaken; a number returns after a removal.
CONSTANTS i1, i2, i3

\* The first two lines end alike.
MCEnding == [p \in 1..2 * MaxLines |-> IF p > 4 THEN p ELSE p % 2]
=============================================================================
