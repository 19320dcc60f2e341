-------------------------- MODULE QueryExecutors ---------------------------
(***************************************************************************)
(* The other executors of src/lab3/src/execution (limit, distinct,         *)
(* aggregation, insert, update and delete), run by the engine one query    *)
(* after the other once the two join queries of JoinExecutors are done.    *)
(* The engine calls an executor's Init once and then Next until it         *)
(* returns false; each call is one step.                                   *)
(*                                                                         *)
(* Every child is a SeqScanExecutor of JoinExecutors, taken through        *)
(* INSTANCE.  A tuple is its RID (its position in its table) and has one   *)
(* column, its key.  The containers the executors keep are declared in     *)
(* headers that are not in src/: tuples_ of DistinctExecutor is a set of   *)
(* tuples, equal when their values are, and aht_ of AggregationExecutor    *)
(* maps a group-by key to its aggregate; both are hash containers, so      *)
(* their iteration order is unspecified and chosen at Init.  The          *)
(* aggregation is COUNT( * ) GROUP BY key, with or without a HAVING on the   *)
(* count.                                                                  *)
(***************************************************************************)
EXTENDS Integers, Sequences, SequencesExt, TLC

CONSTANTS
    Keys, LeftTables, RightTables, ScanPreds, Preds, IndexBits,
    Limits,        \* the LIMIT counts of the plans
    Havings,       \* the HAVING clauses: [isnull, min], COUNT( * ) >= min
    UpdateInfos    \* the plans' UpdateInfo of the key column: [type, val]

VARIABLES
    left, right, lpass, rpass, jpred, nlj, hj, nljOut, hjOut, nljDone, hjDone,
    maxCount,      \* plan_->GetLimit()
    having,        \* plan_->GetHaving()
    stage,         \* the index in Queries of the query the engine runs
    phase,         \* "init" before that executor's Init, "next" after
    ex,            \* the members of the executor the engine is running
    limOut, disOut, aggOut, \* what the engine collected from each query
    rawInsert,     \* plan_->IsRawInsert(); the raw values are the right table
    updateInfo,    \* plan_->GetUpdateAttr() for the key column
    heap,          \* the target table's TableHeap: RID -> key
    deleted,       \* the RIDs MarkDelete has marked
    index          \* the table's one index on the key: a set of <<key, RID>>

J == INSTANCE JoinExecutors

joinVars == <<left, right, lpass, rpass, jpred, nlj, hj, nljOut, hjOut, nljDone, hjDone>>
plans == <<maxCount, having, rawInsert, updateInfo>>
table == <<heap, deleted, index>>
outs == <<limOut, disOut, aggOut>>
vars == <<joinVars, plans, stage, phase, ex, outs, table>>

Queries == <<"limit", "distinct", "aggregation", "insert", "update", "delete">>

\* The engine is at this query and this phase of it.
At(q, ph) == hjDone /\ stage <= Len(Queries) /\ Queries[stage] = q /\ phase = ph

\* Next returned false: the engine's loop ends and it runs the next query.
Finish == stage' = stage + 1 /\ phase' = "init"

\* The tuples a child scan returns from Init until its Next returns false,
\* in order: the drain loops of the Init methods.
RECURSIVE Drain(_, _, _)
Drain(t, pass, cur) ==
    LET r == J!SeqScanNext(t, pass, cur)
    IN IF r.res THEN <<r.tuple>> \o Drain(t, pass, r.cur) ELSE <<>>

-----------------------------------------------------------------------------
(* LimitExecutor *)

\* Init: the child's Init, tuple_count_ = 0, max_count_ = the plan's limit.
LimitInit ==
    /\ At("limit", "init")
    /\ ex' = [count |-> 0, max |-> maxCount, cur |-> J!SeqScanInit]
    /\ phase' = "next"
    /\ UNCHANGED <<joinVars, plans, stage, outs, table>>

\* Mutation: the limit test written tuple_count_ > max_count_.
LimitNextImplOffByOne(st) ==
    IF st.count > st.max THEN [res |-> FALSE, st |-> st]
    ELSE LET r == J!SeqScanNext(left, lpass, st.cur)
         IN [res |-> r.res, out |-> IF r.res THEN r.tuple ELSE 0,
             st |-> [st EXCEPT !.count = @ + 1, !.cur = r.cur]]

\* Next: false once tuple_count_ >= max_count_; otherwise the child's
\* Next, and tuple_count_++ whatever it returned.
LimitNextImpl(st) ==
    IF st.count >= st.max THEN [res |-> FALSE, st |-> st]
    ELSE LET r == J!SeqScanNext(left, lpass, st.cur)
         IN [res |-> r.res, out |-> IF r.res THEN r.tuple ELSE 0,
             st |-> [st EXCEPT !.count = @ + 1, !.cur = r.cur]]

LimitNext ==
    /\ At("limit", "next")
    /\ LET r == LimitNextImpl(ex)
       IN /\ ex' = r.st
          /\ IF r.res THEN limOut' = Append(limOut, r.out) /\ UNCHANGED <<stage, phase>>
             ELSE Finish /\ UNCHANGED limOut
    /\ UNCHANGED <<joinVars, plans, disOut, aggOut, table>>

-----------------------------------------------------------------------------
(* DistinctExecutor *)

\* Mutation: tuples_ kept as a vector, so duplicates are not dropped.
DistinctInitNoDedupe ==
    /\ At("distinct", "init")
    /\ LET rows == Drain(left, lpass, J!SeqScanInit)
       IN ex' = [tuples |-> [i \in DOMAIN rows |-> left[rows[i]]], iter |-> 1]
    /\ phase' = "next"
    /\ UNCHANGED <<joinVars, plans, stage, outs, table>>

\* Init: drain the child into tuples_, then tuples_iter_ = cbegin().
DistinctInit ==
    /\ At("distinct", "init")
    /\ LET tuples == {left[r] : r \in ToSet(Drain(left, lpass, J!SeqScanInit))}
       IN \E order \in SetToSeqs(tuples) : ex' = [tuples |-> order, iter |-> 1]
    /\ phase' = "next"
    /\ UNCHANGED <<joinVars, plans, stage, outs, table>>

\* Next: false at cend(); otherwise *tuples_iter_, and ++tuples_iter_.
DistinctNextImpl(st) ==
    IF st.iter > Len(st.tuples) THEN [res |-> FALSE, st |-> st]
    ELSE [res |-> TRUE, out |-> st.tuples[st.iter], st |-> [st EXCEPT !.iter = @ + 1]]

DistinctNext ==
    /\ At("distinct", "next")
    /\ LET r == DistinctNextImpl(ex)
       IN /\ ex' = r.st
          /\ IF r.res THEN disOut' = Append(disOut, r.out) /\ UNCHANGED <<stage, phase>>
             ELSE Finish /\ UNCHANGED disOut
    /\ UNCHANGED <<joinVars, plans, limOut, aggOut, table>>

-----------------------------------------------------------------------------
(* AggregationExecutor *)

\* Mutation: an existing group is not combined with the new value.
InsertCombineNoCombine(ht, key) ==
    IF key \in DOMAIN ht THEN ht ELSE ht @@ (key :> 1)

\* aht_.InsertCombine(key, value) for COUNT( * ): a new group starts at 1,
\* an existing one is incremented.
InsertCombine(ht, key) ==
    IF key \in DOMAIN ht THEN [ht EXCEPT ![key] = @ + 1] ELSE ht @@ (key :> 1)

\* Init: drain the child, combining each tuple into aht_ under its key,
\* then aht_iterator_ = aht_.Begin().
AggregationInit ==
    /\ At("aggregation", "init")
    /\ LET ht == FoldLeft(LAMBDA h, r : InsertCombine(h, left[r]), <<>>,
                          Drain(left, lpass, J!SeqScanInit))
       IN \E order \in SetToSeqs(DOMAIN ht) : ex' = [ht |-> ht, order |-> order, iter |-> 1]
    /\ phase' = "next"
    /\ UNCHANGED <<joinVars, plans, stage, outs, table>>

\* The HAVING test of the current group; true when having_exr is nullptr.
HavingHolds(count) == having.isnull \/ count >= having.min

\* Next: advance aht_iterator_ past groups the HAVING rejects; output the
\* first it accepts, the iterator already moved past it, or false at End().
RECURSIVE AggregationNextImpl(_)
AggregationNextImpl(st) ==
    IF st.iter > Len(st.order) THEN [res |-> FALSE, st |-> st]
    ELSE LET key == st.order[st.iter]
             nst == [st EXCEPT !.iter = @ + 1]
         IN IF HavingHolds(st.ht[key])
            THEN [res |-> TRUE, out |-> <<key, st.ht[key]>>, st |-> nst]
            ELSE AggregationNextImpl(nst)

AggregationNext ==
    /\ At("aggregation", "next")
    /\ LET r == AggregationNextImpl(ex)
       IN /\ ex' = r.st
          /\ IF r.res THEN aggOut' = Append(aggOut, r.out) /\ UNCHANGED <<stage, phase>>
             ELSE Finish /\ UNCHANGED aggOut
    /\ UNCHANGED <<joinVars, plans, limOut, disOut, table>>

-----------------------------------------------------------------------------
(* The table heap and the index, which are not in src/: InsertTuple        *)
(* appends and returns the new RID, MarkDelete marks a RID, UpdateTuple    *)
(* overwrites in place (a one-int tuple always fits), and the table        *)
(* iterator skips marked tuples.  The lock manager calls and the           *)
(* transaction's IndexWriteRecords serve abort, which is not modelled.     *)

\* The table as a child scan sees it: a marked tuple matches no predicate.
NoKey == -1
Visible(h, del) == [r \in DOMAIN h |-> IF r \in del THEN NoKey ELSE h[r]]

\* A RID is 1.. the table's length; a default-constructed RID is invalid.
INVALID_RID == 0

-----------------------------------------------------------------------------
(* InsertExecutor *)

\* Init: the child's Init, or values_iter_ = RawValues().cbegin().
InsertInit ==
    /\ At("insert", "init")
    /\ ex' = [raw |-> rawInsert, iter |-> 1, cur |-> J!SeqScanInit]
    /\ phase' = "next"
    /\ UNCHANGED <<joinVars, plans, stage, outs, table>>

\* Mutation: the end of the raw values tested one value early.
InsertSourceRawEarlyEnd(st) ==
    IF ~st.raw
    THEN LET r == J!SeqScanNext(right, rpass, st.cur)
         IN [res |-> r.res, val |-> IF r.res THEN right[r.tuple] ELSE 0,
             st |-> [st EXCEPT !.cur = r.cur]]
    ELSE IF st.iter >= Len(right) THEN [res |-> FALSE, val |-> 0, st |-> st]
    ELSE [res |-> TRUE, val |-> right[st.iter], st |-> [st EXCEPT !.iter = @ + 1]]

\* The tuple Next inserts: the child's next, or the next raw value.
InsertSource(st) ==
    IF ~st.raw
    THEN LET r == J!SeqScanNext(right, rpass, st.cur)
         IN [res |-> r.res, val |-> IF r.res THEN right[r.tuple] ELSE 0,
             st |-> [st EXCEPT !.cur = r.cur]]
    ELSE IF st.iter > Len(right) THEN [res |-> FALSE, val |-> 0, st |-> st]
    ELSE [res |-> TRUE, val |-> right[st.iter], st |-> [st EXCEPT !.iter = @ + 1]]

\* Next: on a tuple, InsertTuple assigns insert_rid, and every index gets
\* InsertEntry(key, insert_rid).
InsertNext ==
    /\ At("insert", "next")
    /\ LET r == InsertSource(ex)
           rid == Len(heap) + 1
       IN /\ ex' = r.st
          /\ IF r.res
             THEN /\ heap' = Append(heap, r.val)
                  /\ index' = index \cup {<<r.val, rid>>}
                  /\ UNCHANGED <<stage, phase>>
             ELSE Finish /\ UNCHANGED <<heap, index>>
    /\ UNCHANGED <<joinVars, plans, outs, deleted>>

-----------------------------------------------------------------------------
(* UpdateExecutor *)

\* GenerateUpdatedTuple for the key column: Add or Set the plan's value.
GenerateUpdatedTuple(old) ==
    IF updateInfo.type = "Add" THEN old + updateInfo.val ELSE updateInfo.val

UpdateInit ==
    /\ At("update", "init")
    /\ ex' = [cur |-> J!SeqScanInit]
    /\ phase' = "next"
    /\ UNCHANGED <<joinVars, plans, stage, outs, table>>

\* Mutation: the new entry inserted under update_rid, as computed.
UpdateIndexWithUpdateRid(idx, old, new, child_rid, update_rid) ==
    (idx \ {<<old, child_rid>>}) \cup {<<new, update_rid>>}

\* The index maintenance of Next: DeleteEntry(old key, child_rid), then
\* InsertEntry(new key, child_rid).
UpdateIndex(idx, old, new, child_rid, update_rid) ==
    (idx \ {<<old, child_rid>>}) \cup {<<new, child_rid>>}

\* Next: the child's next tuple over the table as it is now; UpdateTuple
\* of the generated tuple at child_rid, then the index.  update_rid is
\* the RID of the generated tuple, which has none.
UpdateNext ==
    /\ At("update", "next")
    /\ LET r == J!SeqScanNext(Visible(heap, deleted), lpass, ex.cur)
       IN /\ ex' = [ex EXCEPT !.cur = r.cur]
          /\ IF r.res
             THEN LET old == heap[r.tuple]
                      new == GenerateUpdatedTuple(old)
                  IN /\ heap' = [heap EXCEPT ![r.tuple] = new]
                     /\ index' = UpdateIndex(index, old, new, r.tuple, INVALID_RID)
                     /\ UNCHANGED <<stage, phase>>
             ELSE Finish /\ UNCHANGED <<heap, index>>
    /\ UNCHANGED <<joinVars, plans, outs, deleted>>

-----------------------------------------------------------------------------
(* DeleteExecutor *)

DeleteInit ==
    /\ At("delete", "init")
    /\ ex' = [cur |-> J!SeqScanInit]
    /\ phase' = "next"
    /\ UNCHANGED <<joinVars, plans, stage, outs, table>>

\* Next: MarkDelete(child_rid) (which throws on failure; it does not fail
\* for a tuple the scan has just returned), then DeleteEntry in every index.
DeleteNext ==
    /\ At("delete", "next")
    /\ LET r == J!SeqScanNext(Visible(heap, deleted), rpass, ex.cur)
       IN /\ ex' = [ex EXCEPT !.cur = r.cur]
          /\ IF r.res
             THEN /\ deleted' = deleted \cup {r.tuple}
                  /\ index' = index \ {<<heap[r.tuple], r.tuple>>}
                  /\ UNCHANGED <<stage, phase>>
             ELSE Finish /\ UNCHANGED <<deleted, index>>
    /\ UNCHANGED <<joinVars, plans, outs, heap>>

-----------------------------------------------------------------------------
(* The engine *)

Init ==
    /\ J!Init
    /\ maxCount \in Limits
    /\ having \in Havings
    /\ stage = 1 /\ phase = "init" /\ ex = <<>>
    /\ limOut = <<>> /\ disOut = <<>> /\ aggOut = <<>>
    /\ rawInsert \in BOOLEAN
    /\ updateInfo \in UpdateInfos
    /\ heap = left /\ deleted = {}
    /\ index = {<<left[r], r>> : r \in DOMAIN left}

Next ==
    \/ J!Next /\ UNCHANGED <<plans, stage, phase, ex, outs, table>>
    \/ LimitInit \/ LimitNext
    \/ DistinctInit \/ DistinctNext
    \/ AggregationInit \/ AggregationNext
    \/ InsertInit \/ InsertNext
    \/ UpdateInit \/ UpdateNext
    \/ DeleteInit \/ DeleteNext

Spec == Init /\ [][Next]_vars

\* The join properties, checked in the same run.
NestedLoopJoinCorrect == J!NestedLoopJoinCorrect
HashJoinCorrect == J!HashJoinCorrect
-----------------------------------------------------------------------------
(* References: what each query returns, from the rows the child scan      *)
(* keeps (JoinExecutors' Kept, which the join runs check the scan against). *)

\* The engine has run query q to the end.
Done(q) == \E i \in 1..Len(Queries) : Queries[i] = q /\ i < stage

KeptRows == J!Kept(left, lpass)
KeptKeys == {left[KeptRows[i]] : i \in 1..Len(KeptRows)}
GroupCount(k) == Len(SelectSeq(KeptRows, LAMBDA r : left[r] = k))

LimitRef == SubSeq(KeptRows, 1, IF maxCount < Len(KeptRows) THEN maxCount ELSE Len(KeptRows))

Groups == {<<k, GroupCount(k)>> : k \in {g \in KeptKeys : HavingHolds(GroupCount(g))}}

TypeOK ==
    /\ J!TypeOK
    /\ stage \in 1..Len(Queries) + 1 /\ phase \in {"init", "next"}
    /\ maxCount \in Limits /\ having \in Havings
    /\ rawInsert \in BOOLEAN /\ updateInfo \in UpdateInfos
    /\ deleted \subseteq DOMAIN heap

(***************************************************************************)
(* LimitExecutor returns the first max_count_ tuples of its child, and     *)
(* then false: a prefix while running, all of them at the end, whether the *)
(* limit or the child runs out first (tuple_count_ is incremented on the   *)
(* child's false too).                                                     *)
(***************************************************************************)
LimitCorrect ==
    /\ IsPrefix(limOut, LimitRef)
    /\ Done("limit") => limOut = LimitRef

(***************************************************************************)
(* DistinctExecutor returns every value its child returns exactly once:   *)
(* never a value twice, never one the child did not return, and all of    *)
(* them by the time Next returns false, in whatever order tuples_ holds.   *)
(***************************************************************************)
DistinctCorrect ==
    /\ IsInjective(disOut)
    /\ ToSet(disOut) \subseteq KeptKeys
    /\ Done("distinct") => ToSet(disOut) = KeptKeys

(***************************************************************************)
(* AggregationExecutor returns each group that passes the HAVING exactly  *)
(* once, with its COUNT( * ) over the child's tuples: InsertCombine, the     *)
(* HAVING filter and the iterator's advance in both branches of Next.      *)
(***************************************************************************)
AggregationCorrect ==
    /\ IsInjective(aggOut)
    /\ ToSet(aggOut) \subseteq Groups
    /\ Done("aggregation") => ToSet(aggOut) = Groups
\* The table the DML queries should leave: the raw values or the rows the
\* insert's child keeps appended, the rows the update's scan keeps
\* updated once each, and the rows the delete's scan then keeps marked.
Inserted == IF rawInsert THEN right
            ELSE [i \in 1..Len(J!Kept(right, rpass)) |-> right[J!Kept(right, rpass)[i]]]
AfterInsert == left \o Inserted
AfterUpdate == [r \in DOMAIN AfterInsert |->
                  IF AfterInsert[r] \in lpass THEN GenerateUpdatedTuple(AfterInsert[r])
                  ELSE AfterInsert[r]]
DeletedRef == {r \in DOMAIN AfterUpdate : AfterUpdate[r] \in rpass}

(***************************************************************************)
(* The index agrees with the table after every call: it holds exactly     *)
(* <<key, RID>> for each tuple not marked deleted.  InsertExecutor must    *)
(* index the RID InsertTuple assigned, UpdateExecutor must move the entry  *)
(* from the old key to the new one under child_rid, and DeleteExecutor     *)
(* must remove the entry of the tuple it marks.                            *)
(***************************************************************************)
IndexConsistent ==
    index = {<<heap[r], r>> : r \in DOMAIN heap \ deleted}

(***************************************************************************)
(* INSERT, then UPDATE, then DELETE leave the table their plans describe: *)
(* every source tuple inserted once, every row the update's scan keeps     *)
(* updated exactly once (the scan reads the table it is updating), and the *)
(* rows the delete's scan keeps marked.                                    *)
(***************************************************************************)
TableWritesCorrect ==
    /\ Done("insert") => Len(heap) = Len(AfterInsert)
    /\ Done("delete") => heap = AfterUpdate /\ deleted = DeletedRef
=============================================================================
