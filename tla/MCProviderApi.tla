---------------------------- MODULE MCProviderApi ----------------------------
(***************************************************************************)
(* Instance of ProviderApi for TLC: a piece of three chunks, an odd number.  *)
(***************************************************************************)
EXTENDS ProviderApi

MCPiece == <<"a", "b", "c">>

\* The piece in one, in two, with a chunk too many, damaged or cut on the way.
MCBatches ==
    {<<"a", "b", "c">>, <<"a", "b">>, <<"c">>, <<"c", "c">>, <<"x">>,
     <<"a", "NotHex">>, <<"b", "c">>}
=============================================================================
