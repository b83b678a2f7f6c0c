--------------------------- MODULE MCBinaryUpdate ---------------------------
(* Instances of BinaryUpdate for TLC. *)
EXTENDS BinaryUpdate

\* Two releases that work and one that does not: an update, a rollback to a
\* bundle, and a surplus for pruneVersions.
CONSTANTS b1, b2, bad
=============================================================================
