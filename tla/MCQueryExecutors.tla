------------------------- MODULE MCQueryExecutors --------------------------
EXTENDS QueryExecutors

\* Every table of up to MaxRows rows over Keys.
MaxRows == 2
MCTables == UNION {[1..n -> Keys] : n \in 0..MaxRows}

\* Every scan predicate over Keys.
MCScanPreds == SUBSET Keys

\* Equality, a non-equality predicate, and one that keeps every pair.
MCPreds == {{<<k, k>> : k \in Keys},
            {<<a, b>> \in Keys \X Keys : a < b},
            Keys \X Keys}

\* LIMIT 0, a limit the child reaches first, and one it does not.
MCLimits == {0, 1, 3}

\* No HAVING, and HAVING COUNT( * ) >= 2.
MCHavings == {[isnull |-> TRUE, min |-> 0], [isnull |-> FALSE, min |-> 2]}
\* UPDATE SET key = key + 1, which moves a row out of the scan predicates'
\* keys, and UPDATE SET key = 0.
MCUpdateInfos == {[type |-> "Add", val |-> 1], [type |-> "Set", val |-> 0]}
=============================================================================
