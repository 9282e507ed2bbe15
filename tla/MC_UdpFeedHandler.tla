------------------------- MODULE MC_UdpFeedHandler --------------------------
(***************************************************************************)
(* UdpFeedHandler for TLC: fields of three characters, a one-letter and a  *)
(* two-letter name, and a name as wide as the field for the configuration  *)
(* that asks for it.                                                       *)
(***************************************************************************)
EXTENDS UdpFeedHandler

ShortNames == {<<"A">>, <<"A", "B">>}
WideNames  == {<<"A", "B", "C">>}

\* Both types of message and a payload of the wrong size.
AllKinds  == {<<"Q", "Quote">>, <<"T", "Trade">>, <<"T", "Quote">>}
QuoteOnly == {<<"Q", "Quote">>}
=============================================================================
