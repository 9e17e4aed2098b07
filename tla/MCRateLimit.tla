---------------------------- MODULE MCRateLimit ----------------------------
(* RateLimit on small instances.  Addresses nft accepts are interchangeable. *)
EXTENDS RateLimit, TLC

Symmetry == Permutations(Addr \ Ipv6) \cup Permutations(Tunnel)
=============================================================================
