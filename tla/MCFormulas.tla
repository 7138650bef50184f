------------------------------ MODULE MCFormulas ------------------------------
(***************************************************************************)
(* Instance of Formulas for TLC.                                            *)
(***************************************************************************)
EXTENDS Formulas

\* Nothing, all, and fractions whose inverse is a whole number or is not.
MCFractions == {<<0, 1>>, <<1, 1>>, <<1, 2>>, <<1, 3>>, <<2, 3>>, <<2, 5>>}
=============================================================================
