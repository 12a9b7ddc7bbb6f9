--------------------------- MODULE MCSignedCommits ---------------------------
(***************************************************************************)
(* One clone with its hooks for TLC.                                       *)
(***************************************************************************)
EXTENDS SignedCommits, TLC

Shape(format, did, valid) == [format |-> format, did |-> did, valid |-> valid]

\* What both hooks accept; what verify.py refuses; what both refuse.
MixedShapes == {Shape("v30", FALSE, TRUE), Shape("v31", TRUE, TRUE),
                Shape("plain", FALSE, FALSE)}
\* Two kinds of messages that jsonl_schema.py accepts.
ValidShapes == {Shape("plain", FALSE, TRUE), Shape("v30", FALSE, TRUE)}
=============================================================================
