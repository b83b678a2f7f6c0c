-------------------------- MODULE MCManagedRuntime --------------------------
(* Instances of ManagedRuntime for TLC. *)
EXTENDS ManagedRuntime

CONSTANTS b1, b2

MCConfigs == 1..2
\* The second configuration does not pass the test of the bootstrap executable,
\* the first one not that of the second bundle.
MCLoads == (MCConfigs \X {b1, b2, Bootstrap}) \ {<<2, Bootstrap>>, <<1, b2>>}
=============================================================================
