----------------------------- MODULE EventQueue -----------------------------
(***************************************************************************)
(* What the event pipeline of a node promises: events are accepted in an   *)
(* order that never changes, the center receives ever longer prefixes of   *)
(* it, and the node forgets an event only after the center has it.         *)
(***************************************************************************)
EXTENDS Integers

CONSTANT Event

VARIABLES
    accepted,   \* number of events accepted so far
    content,    \* the accepted events, by sequence number
    delivered,  \* the center has 1..delivered
    forgotten   \* the node has forgotten 1..forgotten

qvars == <<accepted, content, delivered, forgotten>>

Init ==
    /\ accepted = 0 /\ content = [i \in 1..0 |-> 0]
    /\ delivered = 0 /\ forgotten = 0

Accept ==
    /\ accepted' = accepted + 1
    /\ \E e \in Event :
         content' = [i \in 1..accepted + 1 |-> IF i = accepted + 1 THEN e ELSE content[i]]
    /\ UNCHANGED <<delivered, forgotten>>

Deliver ==
    /\ delivered' \in delivered + 1..accepted
    /\ UNCHANGED <<accepted, content, forgotten>>

Forget ==
    /\ forgotten' \in forgotten + 1..delivered
    /\ UNCHANGED <<accepted, content, delivered>>

Next == Accept \/ Deliver \/ Forget

Spec == Init /\ [][Next]_qvars
=============================================================================
