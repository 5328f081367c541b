--------------------------- MODULE MCQueueArbiter ---------------------------
(* Instances of QueueArbiter small enough for TLC. *)
EXTENDS QueueArbiterRefinement, TLC

CONSTANTS c1, c2, c3, anna, boris

\* Two clients of different names; two namesakes and a client that was given the
\* empty name.
DifferentNames == (c1 :> anna) @@ (c2 :> boris)
Namesakes      == (c1 :> anna) @@ (c2 :> anna) @@ (c3 :> NoName)
=============================================================================
