---------------------------- MODULE MCController ----------------------------
(* Controller on small instances.  Requests and clients are interchangeable. *)
EXTENDS Controller, TLC

Symmetry == Permutations(Req) \cup Permutations(Client)
=============================================================================
