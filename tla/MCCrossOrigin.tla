--------------------------- MODULE MCCrossOrigin ---------------------------
(* An instance of CrossOrigin for TLC. *)
EXTENDS CrossOrigin, TLC

CONSTANTS a1, a2, i1, i2, i3

\* One page that takes any account, one that wants more of the one it expects, one outside
\* the policy
MCAsks == {<<{i1}, None>>, <<{i1, i2}, a1>>, <<{i3}, None>>}

MCTemplate == {[item |-> i1, completion |-> TRUE], [item |-> i2, completion |-> FALSE]}

\* A wallet that supplies both callbacks, and one that supplies neither
MCWired == {[onSign |-> TRUE, ensures |-> TRUE], [onSign |-> FALSE, ensures |-> FALSE]}
=============================================================================
