------------------------------ MODULE HashTableSpec ------------------------------
(***************************************************************************)
(* What the extendible hash index promises its callers (spec.md 4.4): a    *)
(* set of (key, value) pairs.  Each caller runs one call at a time, an     *)
(* Insert or a Remove of one pair, and a call changes the set at most      *)
(* once, by its own operation, between its invocation and its return (its *)
(* linearization point).  The effect may coincide with the invocation or   *)
(* with the return.  A call may also return without effect: a duplicate    *)
(* Insert, a Remove of an absent pair, or an Insert into a bucket that     *)
(* cannot split (spec.md 7).  Nothing else changes the set: splits and     *)
(* merges are invisible here.                                              *)
(***************************************************************************)
CONSTANTS Threads, Keys, Values

VARIABLES
    table,  \* the set of pairs
    op,     \* op[t]: the call thread t is in, or NoOp
    done    \* done[t]: the call has taken effect

NoOp == [op |-> "none"]

Ops == [op : {"insert", "remove"}, key : Keys, value : Values]

Apply(o) ==
    table' = IF o.op = "insert" THEN table \cup {<<o.key, o.value>>}
             ELSE table \ {<<o.key, o.value>>}

Init ==
    /\ table = {}
    /\ op = [t \in Threads |-> NoOp]
    /\ done = [t \in Threads |-> FALSE]

Invoke(t) ==
    /\ op[t] = NoOp
    /\ \E o \in Ops : op' = [op EXCEPT ![t] = o]
    /\ UNCHANGED <<table, done>>

InvokeAndTakeEffect(t) ==
    /\ op[t] = NoOp
    /\ \E o \in Ops : Apply(o) /\ op' = [op EXCEPT ![t] = o]
    /\ done' = [done EXCEPT ![t] = TRUE]

TakeEffect(t) ==
    /\ op[t] # NoOp /\ ~done[t]
    /\ Apply(op[t])
    /\ done' = [done EXCEPT ![t] = TRUE]
    /\ UNCHANGED op

TakeEffectAndReturn(t) ==
    /\ op[t] # NoOp /\ ~done[t]
    /\ Apply(op[t])
    /\ op' = [op EXCEPT ![t] = NoOp]
    /\ UNCHANGED done

Return(t) ==
    /\ op[t] # NoOp
    /\ op' = [op EXCEPT ![t] = NoOp]
    /\ done' = [done EXCEPT ![t] = FALSE]
    /\ UNCHANGED table

Next ==
    \E t \in Threads :
       \/ Invoke(t) \/ InvokeAndTakeEffect(t) \/ TakeEffect(t)
       \/ TakeEffectAndReturn(t) \/ Return(t)

vars == <<table, op, done>>

Spec == Init /\ [][Next]_vars
=============================================================================
