--------------------------- MODULE MCPairedUnwind ---------------------------
(* PairedUnwind for TLC: a multiplier of one half, two units to the lot.  One lot is  *)
(* below a lot per slice; four unwind in whole lots on both legs; five leave half a   *)
(* lot of the hedge.  A stray is in either direction, or larger than the position.    *)
EXTENDS PairedUnwind

MCOpening == {2, -8, 10}
MCTilts   == {1}
MCStrays  == {-2, 0, 10}
=============================================================================
