-------------------------- MODULE MCTrafficCounter --------------------------
(* Instances of TrafficCounter for TLC. *)
EXTENDS TrafficCounter

CONSTANTS alice
=============================================================================
