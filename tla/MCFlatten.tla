----------------------------- MODULE MCFlatten -----------------------------
(* Instances of Flatten for TLC, with the mutants its properties must catch. *)
EXTENDS Flatten
=============================================================================
