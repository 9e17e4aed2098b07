------------------------------ MODULE MCCharon ------------------------------
(* Charon on small instances.  Backends of one kind are interchangeable.   *)
EXTENDS Charon, TLC

Symmetry == Permutations(Renewing) \cup Permutations(Backend \ Renewing)
=============================================================================
