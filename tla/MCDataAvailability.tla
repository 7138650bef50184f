-------------------------- MODULE MCDataAvailability --------------------------
(***************************************************************************)
(* Instances of DataAvailability for TLC.                                   *)
(***************************************************************************)
EXTENDS DataAvailability, TLC

CONSTANTS c1, c2, s1, s2

MCNodeAddress == [c \in Clients |-> IF c = c1 THEN s1 ELSE s2]

\* The first block, and the first two.
MCWindows == {<<1, 2>>, <<1, 3>>}
=============================================================================
