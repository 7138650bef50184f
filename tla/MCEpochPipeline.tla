--------------------------- MODULE MCEpochPipeline ---------------------------
(***************************************************************************)
(* Instances of EpochPipeline for TLC.  Each of two deals has a provider of *)
(* its own, who is a stranger to the other deal.                            *)
(***************************************************************************)
EXTENDS EpochPipeline

CONSTANTS d1, d2, s1, s2

MCSignerOf == [k \in Deals |-> IF k = d1 THEN s1 ELSE s2]

\* Both deals in one cell, each in a deadline of its own, or in a shard of its own.
Together == [k \in Deals |-> 0]
Apart == [k \in Deals |-> IF k = d1 THEN 0 ELSE 1]

\* The deadlines of epoch 1.
FirstDeadline == {1000000}
BothDeadlines == {1000000, 1000001}
=============================================================================
