-------------------------- MODULE MCLeaseAuthority --------------------------
(* LeaseAuthority for TLC; every constant is a number or a Boolean.          *)
EXTENDS LeaseAuthority
=============================================================================
