--------------------------- MODULE MCKillLadder ---------------------------
(* Instances of KillLadder for TLC. *)
EXTENDS KillLadder
=============================================================================
