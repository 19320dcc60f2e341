---------------------- MODULE MCExtendibleHashTable ----------------------
(* Buckets of one slot, a directory of at most eight slots, three keys    *)
(* with identity hashes, and one value: every second key splits, so      *)
(* global depth 0 to 3 is reached, and the merges, the cascade of          *)
(* ExtraMerges and the shrinking of the directory happen.                  *)
EXTENDS ExtendibleHashTable

MCHashOf == [k \in 0..3 |-> k]

\* Keys whose hashes agree in every bit the directory can use.
MCCollidingHashOf == [k \in 0..3 |-> 0]

MCThreads == Permutations(Threads)
=============================================================================
