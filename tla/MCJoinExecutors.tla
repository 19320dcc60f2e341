-------------------------- MODULE MCJoinExecutors --------------------------
EXTENDS JoinExecutors

\* Every table of up to MaxRows rows over Keys.
MaxRows == 2
MCTables == UNION {[1..n -> Keys] : n \in 0..MaxRows}

\* Every scan predicate over Keys.
MCScanPreds == SUBSET Keys

\* Equality, a non-equality predicate, and one that keeps every pair.
MCPreds == {{<<k, k>> : k \in Keys},
            {<<a, b>> \in Keys \X Keys : a < b},
            Keys \X Keys}
\* One left row and 256 right rows, all with key 0: one join key with
\* more matches than a uint8_t can count.
MCOneRow == {<<0>>}
MCManyRows == {[i \in 1..256 |-> 0]}
MCKeepAll == {{0}}
MCEquality == {{<<0, 0>>}}
=============================================================================
