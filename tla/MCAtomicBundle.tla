--------------------------- MODULE MCAtomicBundle ---------------------------
(* AtomicBundle for TLC: ticks of four units; a price on the grid, one just
   above it (acked) and one more than half a tick above it (never acked). *)
EXTENDS AtomicBundle
=============================================================================
