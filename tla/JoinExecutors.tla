--------------------------- MODULE JoinExecutors ---------------------------
(***************************************************************************)
(* The pull-based join executors of src/lab3/src/execution:                *)
(* seq_scan_executor.cpp, nested_loop_join_executor.cpp and               *)
(* hash_join_executor.cpp, driven the way the execution engine drives a    *)
(* plan: Init once, then Next until it returns false.                      *)
(*                                                                         *)
(* A table is a sequence of join-key values; a tuple is its position in    *)
(* its table (its RID), so the output of a join is a sequence of pairs     *)
(* <<left RID, right RID>>.  Each child is a SeqScanExecutor whose         *)
(* predicate keeps the tuples whose key is in a set; the output schema     *)
(* transformation only formats, and is left out.  A SeqScan's child state  *)
(* is its table_iter_, a position in 1..Len(t)+1.  A Next that returns     *)
(* false leaves its output tuple untouched, as the source does.            *)
(*                                                                         *)
(* Both joins run over the same two scans, one query after the other as  *)
(* the single-threaded engine runs them, and are checked against one       *)
(* reference join.  The nested-loop join evaluates an arbitrary predicate  *)
(* jpred; the hash join is an equi-join on the key.                        *)
(***************************************************************************)
EXTENDS Integers, Sequences, SequencesExt

CONSTANTS
    Keys,          \* the join-key values
    LeftTables,    \* the contents the left table can have
    RightTables,   \* the contents the right table can have
    ScanPreds,     \* the scan predicates, as the sets of keys they keep
    Preds,         \* the join predicates, as relations over Keys
    IndexBits      \* the width of HashJoinExecutor::array_index_ (uint8_t)

VARIABLES
    left, right,   \* the two tables
    lpass, rpass,  \* the keys the two scans' predicates keep
    jpred,         \* the nested-loop join's predicate
    nlj,           \* NestedLoopJoinExecutor's members and its children's
    hj,            \* HashJoinExecutor's members and its children's
    nljOut, hjOut, \* what the engine has collected from each
    nljDone, hjDone  \* each engine loop has seen Next return false

tables == <<left, right, lpass, rpass, jpred>>
vars == <<tables, nlj, hj, nljOut, hjOut, nljDone, hjDone>>

-----------------------------------------------------------------------------
(* SeqScanExecutor *)

\* Init: table_iter_ = Begin().
SeqScanInit == 1

\* Mutation: table_iter_ advanced twice past a rejected tuple.
RECURSIVE SeqScanNextSkip(_, _, _)
SeqScanNextSkip(t, pass, cur) ==
    IF cur > Len(t) THEN [res |-> FALSE, cur |-> cur]
    ELSE IF t[cur] \in pass THEN [res |-> TRUE, tuple |-> cur, cur |-> cur + 1]
    ELSE SeqScanNextSkip(t, pass, cur + 2)

\* Next: advance table_iter_ past tuples the predicate rejects; return the
\* first one it keeps, table_iter_ already moved past it, or false at End().
RECURSIVE SeqScanNext(_, _, _)
SeqScanNext(t, pass, cur) ==
    IF cur > Len(t) THEN [res |-> FALSE, cur |-> cur]
    ELSE IF t[cur] \in pass THEN [res |-> TRUE, tuple |-> cur, cur |-> cur + 1]
    ELSE SeqScanNext(t, pass, cur + 1)

-----------------------------------------------------------------------------
(* NestedLoopJoinExecutor *)

\* Init: both children's Init, and first_execution_ = true.
NLJInit == [first |-> TRUE, ltup |-> 0, rtup |-> 0,
            lcur |-> SeqScanInit, rcur |-> SeqScanInit]

Emit(st) == [res |-> TRUE, st |-> st, out |-> <<st.ltup, st.rtup>>]

Stop(st) == [res |-> FALSE, st |-> st]

\* Mutation: the right child is not re-Init'd when it runs out.
RECURSIVE NLJLoopNoRestart(_)
NLJLoopNoRestart(st) ==
    LET r == SeqScanNext(right, rpass, st.rcur)
        l == SeqScanNext(left, lpass, st.lcur)
        r0 == SeqScanNext(right, rpass, r.cur)
        nst == IF r.res THEN [st EXCEPT !.rtup = r.tuple, !.rcur = r.cur]
               ELSE [st EXCEPT !.ltup = l.tuple, !.lcur = l.cur,
                               !.rtup = IF r0.res THEN r0.tuple ELSE st.rtup,
                               !.rcur = r0.cur]
    IN IF ~r.res /\ ~l.res
       THEN Stop([st EXCEPT !.rcur = r.cur, !.lcur = l.cur])
       ELSE IF <<left[nst.ltup], right[nst.rtup]>> \in jpred
       THEN Emit(nst)
       ELSE NLJLoopNoRestart(nst)

\* The while (true) loop of Next: take the next right tuple; when the
\* right side is done, take the next left tuple (or stop), re-Init the
\* right child and take its first tuple, ignoring whether there was one.
RECURSIVE NLJLoop(_)
NLJLoop(st) ==
    LET r == SeqScanNext(right, rpass, st.rcur)
        l == SeqScanNext(left, lpass, st.lcur)
        r0 == SeqScanNext(right, rpass, SeqScanInit)
        nst == IF r.res THEN [st EXCEPT !.rtup = r.tuple, !.rcur = r.cur]
               ELSE [st EXCEPT !.ltup = l.tuple, !.lcur = l.cur,
                               !.rtup = IF r0.res THEN r0.tuple ELSE st.rtup,
                               !.rcur = r0.cur]
    IN IF ~r.res /\ ~l.res
       THEN Stop([st EXCEPT !.rcur = r.cur, !.lcur = l.cur])
       ELSE IF <<left[nst.ltup], right[nst.rtup]>> \in jpred
       THEN Emit(nst)
       ELSE NLJLoop(nst)

\* Next: on the first call, one tuple from each child (false if either
\* has none), tested against the predicate; then the loop.
NLJNextImpl(st) ==
    IF st.first
    THEN LET l == SeqScanNext(left, lpass, st.lcur)
             r == SeqScanNext(right, rpass, st.rcur)
             nst == [st EXCEPT
                       !.first = FALSE,
                       !.ltup = IF l.res THEN l.tuple ELSE st.ltup,
                       !.lcur = l.cur,
                       !.rtup = IF r.res THEN r.tuple ELSE st.rtup,
                       !.rcur = r.cur]
         IN IF ~l.res \/ ~r.res THEN Stop(nst)
            ELSE IF <<left[nst.ltup], right[nst.rtup]>> \in jpred
            THEN Emit(nst)
            ELSE NLJLoop(nst)
    ELSE NLJLoop(st)

-----------------------------------------------------------------------------
(* HashJoinExecutor *)

\* The build loop of Init: every right tuple the scan returns is appended
\* to hash_table_[its key] (inserted as a one-element vector when the key
\* is new), in scan order.  The RIDs the scan returns from Begin() are the
\* kept positions, in order.
Kept(t, pass) == SelectSeq([i \in 1..Len(t) |-> i], LAMBDA i : t[i] \in pass)

HJBuild ==
    LET rids == Kept(right, rpass)
    IN [k \in {right[rids[j]] : j \in 1..Len(rids)} |->
          SelectSeq(rids, LAMBDA r : right[r] = k)]

\* Init: both children's Init, hash_table_.clear(), the build loop, and
\* first_execution_ = true.
HJInit == [ht |-> HJBuild, first |-> TRUE,
           ltup |-> 0, lkey |-> 0, lcur |-> SeqScanInit, idx |-> 0]

\* FindLeftTuple: pull left tuples until one whose key is in hash_table_;
\* then array_index_ = 0.
RECURSIVE FindLeftTuple(_)
FindLeftTuple(st) ==
    LET l == SeqScanNext(left, lpass, st.lcur)
        nst == [st EXCEPT !.ltup = l.tuple, !.lkey = left[l.tuple],
                          !.lcur = l.cur]
    IN IF ~l.res THEN Stop([st EXCEPT !.lcur = l.cur])
       ELSE IF nst.lkey \notin DOMAIN st.ht THEN FindLeftTuple(nst)
       ELSE [res |-> TRUE, st |-> [nst EXCEPT !.idx = 0]]

\* The output step: pair the left tuple with hash_table_[left_key_]
\* [array_index_], and array_index_++ in its IndexBits-bit width.
HJEmit(st) ==
    [res |-> TRUE,
     st |-> [st EXCEPT !.idx = (st.idx + 1) % (2 ^ IndexBits)],
     out |-> <<st.ltup, st.ht[st.lkey][st.idx + 1]>>]

\* Mutation: first_execution_ never cleared, so every call starts with
\* FindLeftTuple.
HJNextImplFirstKept(st) ==
    IF DOMAIN st.ht = {} THEN Stop(st)
    ELSE LET f == IF st.first THEN FindLeftTuple(st)
                  ELSE [res |-> TRUE, st |-> st]
             s1 == f.st
             g == FindLeftTuple(s1)
         IN IF ~f.res THEN Stop(f.st)
            ELSE IF s1.idx >= Len(s1.ht[s1.lkey])
            THEN IF g.res THEN HJEmit(g.st) ELSE Stop(g.st)
            ELSE HJEmit(s1)

\* Next: false on an empty hash table; on the first call, FindLeftTuple;
\* then, past the end of the current key's vector, FindLeftTuple again.
HJNextImpl(st) ==
    IF DOMAIN st.ht = {} THEN Stop(st)
    ELSE LET f == IF st.first THEN FindLeftTuple(st)
                  ELSE [res |-> TRUE, st |-> st]
             s1 == [f.st EXCEPT !.first = FALSE]
             g == FindLeftTuple(s1)
         IN IF ~f.res THEN Stop(f.st)
            ELSE IF s1.idx >= Len(s1.ht[s1.lkey])
            THEN IF g.res THEN HJEmit(g.st) ELSE Stop(g.st)
            ELSE HJEmit(s1)

-----------------------------------------------------------------------------
(* The engine *)

Init ==
    /\ left \in LeftTables
    /\ right \in RightTables
    /\ lpass \in ScanPreds
    /\ rpass \in ScanPreds
    /\ jpred \in Preds
    /\ nlj = NLJInit
    /\ hj = HJInit
    /\ nljOut = <<>> /\ hjOut = <<>>
    /\ nljDone = FALSE /\ hjDone = FALSE

\* One call of NestedLoopJoinExecutor::Next by the engine loop.
NLJNext ==
    /\ ~nljDone
    /\ LET r == NLJNextImpl(nlj)
       IN /\ nlj' = r.st
          /\ IF r.res THEN nljOut' = Append(nljOut, r.out) /\ UNCHANGED nljDone
             ELSE nljDone' = TRUE /\ UNCHANGED nljOut
    /\ UNCHANGED <<tables, hj, hjOut, hjDone>>

\* One call of HashJoinExecutor::Next by the engine loop, which runs the
\* hash-join query once the nested-loop one has finished.
HJNext ==
    /\ nljDone
    /\ ~hjDone
    /\ LET r == HJNextImpl(hj)
       IN /\ hj' = r.st
          /\ IF r.res THEN hjOut' = Append(hjOut, r.out) /\ UNCHANGED hjDone
             ELSE hjDone' = TRUE /\ UNCHANGED hjOut
    /\ UNCHANGED <<tables, nlj, nljOut, nljDone>>

Next == NLJNext \/ HJNext

Spec == Init /\ [][Next]_vars

\* The engine calls Next again as long as it returns true.
FairSpec == Spec /\ WF_vars(NLJNext) /\ WF_vars(HJNext)

-----------------------------------------------------------------------------
(* The reference: the relational join, in the order of a nested loop over *)
(* the left scan's output and, within it, the right scan's output.         *)

JoinRef(pred) ==
    LET ls == Kept(left, lpass)
        rs == Kept(right, rpass)
        matches(l) == SelectSeq(rs, LAMBDA r : <<left[l], right[r]>> \in pred)
    IN FlattenSeq([k \in 1..Len(ls) |->
                     [j \in 1..Len(matches(ls[k])) |-> <<ls[k], matches(ls[k])[j]>>]])

EquiJoin == {<<k, k>> : k \in Keys}

\* The members of NestedLoopJoinExecutor (nested_loop_join_executor.h):
\* first_execution_, left_tuple_ and right_tuple_ with their RIDs (one
\* position each, 0 before the first Next), and the children's iterators.
NLJState ==
    [first : BOOLEAN, ltup : 0..Len(left), rtup : 0..Len(right),
     lcur : 1..Len(left) + 1, rcur : 1..Len(right) + 1]

\* The members of HashJoinExecutor (hash_join_executor.h): hash_table_, a
\* std::map from a key to the vector of right RIDs with it (ordered by
\* MapComparator, which no lookup depends on), first_execution_, the uint8_t
\* array_index_, left_tuple_ and left_key_, and the left child's iterator.
HJState ==
    [ht : UNION {[D -> BoundedSeq(1..Len(right), Len(right))] : D \in SUBSET Keys},
     first : BOOLEAN, ltup : 0..Len(left), lkey : Keys \cup {0},
     lcur : 1..Len(left) + 1, idx : 0..(2 ^ IndexBits - 1)]

TypeOK ==
    /\ nlj \in NLJState
    /\ hj \in HJState
    /\ nljDone \in BOOLEAN /\ hjDone \in BOOLEAN

(***************************************************************************)
(* NestedLoopJoinExecutor produces the join: what the engine has collected *)
(* is always a prefix of the reference join, and all of it once Next has   *)
(* returned false.  This covers the first-call special case, the restart  *)
(* of the right child when it runs out, and the stop when the left one    *)
(* does, for every table contents and scan predicate of the bounds.       *)
(***************************************************************************)
NestedLoopJoinCorrect ==
    /\ IsPrefix(nljOut, JoinRef(jpred))
    /\ nljDone => nljOut = JoinRef(jpred)

(***************************************************************************)
(* HashJoinExecutor produces the equi-join on the key, in the same order  *)
(* as the nested loop: a prefix of it while running, all of it at the end. *)
(* This covers the build of hash_table_, FindLeftTuple skipping left       *)
(* tuples with no match, and the walk of each key's vector with            *)
(* array_index_.                                                           *)
(***************************************************************************)
HashJoinCorrect ==
    /\ IsPrefix(hjOut, JoinRef(EquiJoin))
    /\ hjDone => hjOut = JoinRef(EquiJoin)

(***************************************************************************)
(* Each engine loop ends: Next eventually returns false.                   *)
(***************************************************************************)
JoinsTerminate == <>nljDone /\ <>hjDone

=============================================================================
