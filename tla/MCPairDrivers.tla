--------------------------- MODULE MCPairDrivers ---------------------------
(* The pair drivers on small instances; the .cfg files fix the bounds. *)
EXTENDS PairDrivers
=============================================================================
