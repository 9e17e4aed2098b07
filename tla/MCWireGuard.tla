---------------------------- MODULE MCWireGuard ----------------------------
(* WireGuard on small instances.  Keys and addresses are interchangeable.  *)
EXTENDS WireGuard, TLC

Symmetry == Permutations(PubKey) \cup Permutations(IP)
EmailSymmetry == Symmetry \cup Permutations(Email)
=============================================================================
