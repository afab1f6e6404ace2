---------------------------- MODULE MCCachedRun ----------------------------
(* A TLC instance of CachedRun: two specs, the one refers to document a,   *)
(* the other to a and b; content 1 of a document refers to b.              *)
EXTENDS CachedRun, TLC

CONSTANTS k1, k2, a, b

MCRoot(k) == IF k = k1 THEN {a} ELSE {b}
MCRefs(c) == IF c = 1 THEN {b} ELSE {}

InFlight == Permutations(Run)
=============================================================================
