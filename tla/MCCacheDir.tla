---------------------------- MODULE MCCacheDir ----------------------------
(* TLC instances of CacheDir. *)
EXTENDS CacheDir, TLC

Interchangeable == Permutations(Proc) \cup Permutations(Key)
=============================================================================
