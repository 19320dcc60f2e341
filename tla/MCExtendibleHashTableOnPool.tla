------------------- MODULE MCExtendibleHashTableOnPool -------------------
(* The index of MCExtendibleHashTable on a pool of three frames: one for  *)
(* the pinned directory and two for the up to three bucket pages, so      *)
(* buckets are evicted, written back and fetched again.                    *)
EXTENDS ExtendibleHashTableOnPool

MCHashOf == [k \in 0..3 |-> k]

MCThreads == Permutations(Threads)

\* States that differ only in what no later step reads are one state: the
\* locals of a thread between calls (each call sets them before use), and
\* the disk bytes of pages no slot names (page ids are never reused).
MCView ==
    <<dir, pool, [p \in PageIds |-> IF p \in Named THEN disk[p] ELSE 0],
      pc,
      [t \in Threads |-> IF pc[t] = "idle" THEN Idle ELSE req[t]],
      [t \in Threads |-> IF pc[t] = "idle" THEN 0 ELSE page[t]],
      [t \in Threads |-> IF pc[t] = "idle" THEN 0 ELSE frame[t]],
      [t \in Threads |-> pc[t] # "idle" /\ ret[t]]>>
=============================================================================
