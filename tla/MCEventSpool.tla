---------------------------- MODULE MCEventSpool ----------------------------
(* Instances of EventSpool for TLC. *)
EXTENDS EventSpool

\* Three access lines of different sizes around one that is skipped.
MCLineSize == <<1, 0, 2, 1>>
\* Queue and batch hold fewer events than are produced, and the byte limits
\* bite before the event limits do.
MCOtherSizes == {1, 2}
=============================================================================
