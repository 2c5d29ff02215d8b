---------------------------- MODULE MCOrderTable ----------------------------
(* The order manager's maps on small instances; the .cfg files fix the bounds. *)
EXTENDS OrderTable
=============================================================================
