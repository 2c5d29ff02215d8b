---------------------------- MODULE MCQuoteGates ----------------------------
(* The gates of refresh_quotes on small instances; the .cfg files fix the bounds. *)
EXTENDS QuoteGates
=============================================================================
