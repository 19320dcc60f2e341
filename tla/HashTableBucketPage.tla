--------------------------- MODULE HashTableBucketPage ---------------------------
(***************************************************************************)
(* The bucket page of the extendible hash index,                           *)
(* src/lab3/src/storage/page/hash_table_bucket_page.cpp (the same code as  *)
(* src/lab2.1/hash_table_bucket_page.cpp).                                 *)
(*                                                                         *)
(* A bucket is BUCKET_ARRAY_SIZE slots, each with its bit of the occupied_ *)
(* and readable_ bitmaps and its (key, value) pair.  The bitmaps' byte     *)
(* packing (bucket_idx / 8, bucket_idx % 8) is abstracted to one boolean   *)
(* per slot.  Keys and values are integers, as in the <int, int>           *)
(* instantiation; a zeroed page holds key 0 and value 0 in every slot.     *)
(* The scans are written as recursive operators that follow the loops of  *)
(* the source slot by slot, early exits included.                          *)
(***************************************************************************)
EXTENDS Integers

CONSTANT BUCKET_ARRAY_SIZE

ASSUME BUCKET_ARRAY_SIZE \in Nat \ {0}

Slots == 0..(BUCKET_ARRAY_SIZE - 1)

\* The bytes of a page fresh from NewPage (ResetMemory): all bits clear.
EmptyBucket ==
    [i \in Slots |-> [occupied |-> FALSE, readable |-> FALSE,
                      key |-> 0, value |-> 0]]

\* GetValue: collects the values of readable slots holding key, and stops
\* at the first slot that is neither such a match nor occupied.
RECURSIVE ScanGetValue(_, _, _)
ScanGetValue(b, key, i) ==
    IF i >= BUCKET_ARRAY_SIZE THEN {}
    ELSE IF b[i].readable /\ b[i].key = key
         THEN {b[i].value} \cup ScanGetValue(b, key, i + 1)
    ELSE IF ~b[i].occupied THEN {}
    ELSE ScanGetValue(b, key, i + 1)

GetValue(b, key) == ScanGetValue(b, key, 0)

\* The loop of Insert: DUPLICATE if a readable slot holds (key, value),
\* else the first non-readable slot before the scan stops at an
\* unoccupied one, else BUCKET_ARRAY_SIZE (full).
DUPLICATE == -1

RECURSIVE InsertPos(_, _, _, _, _)
InsertPos(b, key, value, i, pos) ==
    IF i >= BUCKET_ARRAY_SIZE THEN pos
    ELSE IF b[i].readable /\ b[i].key = key /\ b[i].value = value
         THEN DUPLICATE
    ELSE IF ~b[i].readable
         THEN LET p == IF pos = BUCKET_ARRAY_SIZE THEN i ELSE pos
              IN IF ~b[i].occupied THEN p
                 ELSE InsertPos(b, key, value, i + 1, p)
    ELSE InsertPos(b, key, value, i + 1, pos)

Insert(b, key, value) ==
    LET pos == InsertPos(b, key, value, 0, BUCKET_ARRAY_SIZE)
    IN IF pos = DUPLICATE \/ pos = BUCKET_ARRAY_SIZE
       THEN [bucket |-> b, ok |-> FALSE]
       ELSE [bucket |-> [b EXCEPT ![pos] = [occupied |-> TRUE,
                                            readable |-> TRUE,
                                            key |-> key, value |-> value]],
             ok |-> TRUE]

\* Remove: clears the readable bit of the first readable slot holding
\* (key, value), found before the scan stops at an unoccupied slot; the
\* occupied bit stays set.  RemovePos is BUCKET_ARRAY_SIZE when not found.
RECURSIVE RemovePos(_, _, _, _)
RemovePos(b, key, value, i) ==
    IF i >= BUCKET_ARRAY_SIZE THEN BUCKET_ARRAY_SIZE
    ELSE IF b[i].readable /\ b[i].key = key /\ b[i].value = value THEN i
    ELSE IF ~b[i].occupied THEN BUCKET_ARRAY_SIZE
    ELSE RemovePos(b, key, value, i + 1)

\* RemoveAt: SetUnreadable.
RemoveAt(b, i) == [b EXCEPT ![i].readable = FALSE]

Remove(b, key, value) ==
    LET pos == RemovePos(b, key, value, 0)
    IN IF pos = BUCKET_ARRAY_SIZE THEN [bucket |-> b, ok |-> FALSE]
       ELSE [bucket |-> RemoveAt(b, pos), ok |-> TRUE]

\* KeyAt / ValueAt: the slot's pair if readable, else a default ({} = 0).
KeyAt(b, i) == IF b[i].readable THEN b[i].key ELSE 0
ValueAt(b, i) == IF b[i].readable THEN b[i].value ELSE 0

\* IsFull: every readable bit set; IsEmpty: none set.
IsFull(b) == \A i \in Slots : b[i].readable
IsEmpty(b) == \A i \in Slots : ~b[i].readable
=============================================================================
