---------------------------- MODULE MCFillLedger ----------------------------
(* The position accounting on small instances; the .cfg files fix the bounds. *)
EXTENDS FillLedger

\* Enough to average, reduce, close and turn around both a long and a short.
MCTrades == {<<2, 1>>, <<1, 3>>, <<-1, 3>>, <<-2, 1>>}

\* One buy, beyond twice the tolerance.
OneTrade == {<<3, 1>>}

=============================================================================
