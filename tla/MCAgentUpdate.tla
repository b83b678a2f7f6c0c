--------------------------- MODULE MCAgentUpdate ---------------------------
(* Instances of AgentUpdate for TLC. *)
EXTENDS AgentUpdate

\* a is installed, b and d are healthy, x never reaches the center.
CONSTANTS a, b, x, d, c1, c2, c3

\* Every binary has a version string of its own ...
MCVersion == [t \in {a, b, x, d} |->
    CASE t = a -> "1" [] t = b -> "2" [] t = x -> "3" [] t = d -> "4"]

\* ... or d is a second build of a's version.
MCRebuild == [MCVersion EXCEPT ![d] = MCVersion[a]]

MCCommandBinary == [c \in Commands |->
    CASE c = c1 -> b [] c = c2 -> x [] c = c3 -> d]
MCHealthy == {a, b, d}
=============================================================================
