------------------------- MODULE MC_ZmqFeedHandler --------------------------
(***************************************************************************)
(* ZmqFeedHandler for TLC: fields of three characters and two names, of    *)
(* which one is a prefix of the other in the configuration that asks for   *)
(* it.                                                                     *)
(***************************************************************************)
EXTENDS ZmqFeedHandler

DistinctNames == {<<"A">>, <<"B">>}
PrefixNames   == {<<"A">>, <<"A", "B">>}

\* Whole trades, and quotes that come without their second part.
WholeAndLone == {<<"T", "Trade">>, <<"Q", "none">>}
QuoteOnly    == {<<"Q", "Quote">>}
=============================================================================
