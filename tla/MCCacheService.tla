--------------------------- MODULE MCCacheService ---------------------------
(***************************************************************************)
(* Model checking of CacheService: the callers are interchangeable.        *)
(***************************************************************************)
EXTENDS CacheService, TLC

Symmetry == Permutations(Callers)
=============================================================================
