----------------------------- MODULE MCWireDaemon -----------------------------
(* Two agents that read each other's file, as in examples/git-as-wire. *)
EXTENDS WireDaemon

CONSTANTS a1, a2   \* the two agents, model values

Pair == {a1, a2}
Peer == [a \in Pair |-> IF a = a1 THEN a2 ELSE a1]

OneTwo  == [a \in Pair |-> IF a = a1 THEN 1 ELSE 2]
NoOdd     == [a \in Pair |-> {}]
SecondOdd == [a \in Pair |-> IF a = a1 THEN {} ELSE {2}]

OnlyOne == [a \in Pair |-> IF a = a1 THEN 1 ELSE 0]
=============================================================================
