-------------------------- MODULE MCIdempotencyCache --------------------------
(* Three messages and two correlation ids. *)
EXTENDS IdempotencyCache

CONSTANTS m1, m2, m3, c1, c2   \* messages and correlation ids, model values

\* m1 and m2 are a message and its reply, or a message and its replay.
Thread == [m \in {m1, m2, m3} |-> IF m = m3 THEN c2 ELSE c1]
=============================================================================
