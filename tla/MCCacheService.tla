--------------------------- MODULE MCCacheService ---------------------------
(* One process with two threads, two cached keys and a rate-limit counter.  *)
EXTENDS CacheService, TLC

\* Threads and cached keys are interchangeable, in the state machine and in
\* the abstract store alike.
Symmetry == Permutations(Threads) \cup Permutations(CacheKeys)
=============================================================================
