---------------------------- MODULE MCUnwrapCache ---------------------------
(* Instances of UnwrapCache for TLC: two KEKs of which the process has one, *)
(* and a cache smaller than the number of keys.                             *)
EXTENDS UnwrapCache

CONSTANTS kekA, kekOld

MCKeks == {kekA, kekOld}
MCConfigured == {kekA}
Symmetric == Permutations(Kids) \cup Permutations(Callers)
=============================================================================
