----------------------------- MODULE MCXrayUsers ----------------------------
(* XrayUsers on small instances.                                           *)
EXTENDS XrayUsers, TLC
Symmetry == Permutations(User) \cup Permutations(Inbound)
=============================================================================
