-------------------------- MODULE MCManagedMedia --------------------------
(* Model checking of ManagedMedia: the files are interchangeable.          *)
EXTENDS ManagedMedia, TLC

Symmetry == Permutations(Files)
=============================================================================
