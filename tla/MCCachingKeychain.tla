------------------------- MODULE MCCachingKeychain -------------------------
(* Instances of CachingKeychain for TLC.                                   *)
EXTENDS CachingKeychain, TLC

\* Callers run the same code and no registry is special.
Symmetry == Permutations(Callers) \cup Permutations(Registries)
=============================================================================
