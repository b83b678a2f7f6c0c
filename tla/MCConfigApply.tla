--------------------------- MODULE MCConfigApply ---------------------------
(* Instances of ConfigApply for TLC. *)
EXTENDS ConfigApply

\* Config versions sent by the center: a first one and an update, each with
\* contents that are healthy or not.
MCVersions == 1..2
=============================================================================
