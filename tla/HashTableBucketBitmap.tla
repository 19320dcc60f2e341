------------------------- MODULE HashTableBucketBitmap -------------------------
(***************************************************************************)
(* The occupied_ and readable_ bitmaps of the bucket page, byte by byte,   *)
(* src/lab2.1/hash_table_bucket_page.cpp (the same code as lab3's copy):   *)
(* slot i is bit i % 8 of byte i / 8, and a bitmap is                      *)
(* (BUCKET_ARRAY_SIZE - 1) / 8 + 1 unsigned chars.  IsFull, NumReadable    *)
(* and IsEmpty read whole bytes.                                           *)
(*                                                                         *)
(* The state is the two bitmaps of one bucket.  Its steps are the bucket   *)
(* operations that change them: an Insert of a pair the bucket does not    *)
(* hold (a duplicate returns before touching a bit), and a Remove or       *)
(* RemoveAt of a readable slot.  The pairs are left out: which readable    *)
(* slot a Remove finds depends only on them, so every readable slot is a   *)
(* possible one.  The bytes are checked against the one-boolean-per-slot   *)
(* reading of HashTableBucketPage.                                         *)
(***************************************************************************)
EXTENDS Integers, FiniteSets

CONSTANT BUCKET_ARRAY_SIZE

ASSUME BUCKET_ARRAY_SIZE \in Nat \ {0}

VARIABLES occupied_, readable_

vars == <<occupied_, readable_>>

Slots == 0..(BUCKET_ARRAY_SIZE - 1)

\* The bytes of a bitmap: the array_size of NumReadable and IsEmpty.
Bytes == 0..((BUCKET_ARRAY_SIZE - 1) \div 8)

Byte == 0..255

\* bm[bucket_idx / 8] & (1 << (bucket_idx % 8)), as a boolean.
Bit(bm, bucket_idx) == (bm[bucket_idx \div 8] \div 2 ^ (bucket_idx % 8)) % 2 = 1

\* Mutation: the bit added with += rather than |=.
SetBitAdd(bm, bucket_idx) == [bm EXCEPT ![bucket_idx \div 8] = @ + 2 ^ (bucket_idx % 8)]

\* Mutation: the byte index of SetBit off by one slot.
SetBitNextByte(bm, bucket_idx) ==
    IF Bit(bm, bucket_idx) THEN bm
    ELSE [bm EXCEPT ![(bucket_idx + 1) \div 8] = @ + 2 ^ (bucket_idx % 8)]

\* bm[bucket_idx / 8] |= 1 << (bucket_idx % 8).
SetBit(bm, bucket_idx) ==
    IF Bit(bm, bucket_idx) THEN bm
    ELSE [bm EXCEPT ![bucket_idx \div 8] = @ + 2 ^ (bucket_idx % 8)]

\* bm[bucket_idx / 8] &= ~(1 << (bucket_idx % 8)).
ClearBit(bm, bucket_idx) ==
    IF Bit(bm, bucket_idx)
    THEN [bm EXCEPT ![bucket_idx \div 8] = @ - 2 ^ (bucket_idx % 8)]
    ELSE bm

IsOccupied(bucket_idx) == Bit(occupied_, bucket_idx)
IsReadable(bucket_idx) == Bit(readable_, bucket_idx)

\* Mutation: the mask of the rest bits taken as 1 << rest.
IsFullRestMask(rd) ==
    LET exact_div_size == BUCKET_ARRAY_SIZE \div 8
        rest == BUCKET_ARRAY_SIZE - (BUCKET_ARRAY_SIZE \div 8) * 8
        expect_value == (2 ^ rest) % 256
    IN /\ \A i \in 0..(exact_div_size - 1) : rd[i] = 255
       /\ ~(rest # 0 /\ rd[(BUCKET_ARRAY_SIZE - 1) \div 8] # expect_value)

\* IsFull: the BUCKET_ARRAY_SIZE / 8 whole bytes are 0xff, and the byte
\* holding the rest bits, if any, equals (1 << rest) - 1.
IsFull(rd) ==
    LET exact_div_size == BUCKET_ARRAY_SIZE \div 8
        rest == BUCKET_ARRAY_SIZE - (BUCKET_ARRAY_SIZE \div 8) * 8
        expect_value == (2 ^ rest - 1) % 256
    IN /\ \A i \in 0..(exact_div_size - 1) : rd[i] = 255
       /\ ~(rest # 0 /\ rd[(BUCKET_ARRAY_SIZE - 1) \div 8] # expect_value)

\* n &= n - 1 clears the lowest set bit of n > 0.
ClearLowestBit(n) ==
    n - (CHOOSE p \in {2 ^ k : k \in 0..7} : n % (2 * p) = p)

\* The inner loop of NumReadable: one count per cleared bit.
RECURSIVE PopCount(_)
PopCount(n) == IF n = 0 THEN 0 ELSE 1 + PopCount(ClearLowestBit(n))

\* NumReadable: the popcounts of every byte, summed.
RECURSIVE NumReadableFrom(_, _)
NumReadableFrom(rd, i) ==
    IF i > (BUCKET_ARRAY_SIZE - 1) \div 8 THEN 0
    ELSE PopCount(rd[i]) + NumReadableFrom(rd, i + 1)

NumReadable(rd) == NumReadableFrom(rd, 0)

\* IsEmpty: every byte is 0.
IsEmpty(rd) == \A i \in Bytes : rd[i] = 0

\* The position the loop of Insert picks for a pair it does not hold: the
\* first non-readable slot, looking no further than the first unoccupied
\* one; BUCKET_ARRAY_SIZE if every slot is readable.
RECURSIVE InsertPos(_, _)
InsertPos(i, pos) ==
    IF i >= BUCKET_ARRAY_SIZE THEN pos
    ELSE IF ~IsReadable(i)
         THEN LET p == IF pos = BUCKET_ARRAY_SIZE THEN i ELSE pos
              IN IF ~IsOccupied(i) THEN p ELSE InsertPos(i + 1, p)
    ELSE InsertPos(i + 1, pos)

Init ==
    /\ occupied_ = [i \in Bytes |-> 0]
    /\ readable_ = [i \in Bytes |-> 0]

\* Mutation: SetOccupied left out.
InsertNoSetOccupied ==
    LET pos == InsertPos(0, BUCKET_ARRAY_SIZE)
    IN /\ pos # BUCKET_ARRAY_SIZE
       /\ occupied_' = occupied_
       /\ readable_' = SetBit(readable_, pos)

\* Insert of a new pair: SetOccupied(pos) and SetReadable(pos), unless
\* the bucket is full.
Insert ==
    LET pos == InsertPos(0, BUCKET_ARRAY_SIZE)
    IN /\ pos # BUCKET_ARRAY_SIZE
       /\ occupied_' = SetBit(occupied_, pos)
       /\ readable_' = SetBit(readable_, pos)

\* Remove of a pair held at slot i, or RemoveAt(i): SetUnreadable(i).
Remove(i) ==
    /\ IsReadable(i)
    /\ readable_' = ClearBit(readable_, i)
    /\ UNCHANGED occupied_

Next == Insert \/ \E i \in Slots : Remove(i)

Spec == Init /\ [][Next]_vars

-----------------------------------------------------------------------------
Bucket == INSTANCE HashTableBucketPage

\* The per-slot bucket these bytes encode (all pairs zero).
Decode ==
    [i \in Slots |-> [occupied |-> IsOccupied(i), readable |-> IsReadable(i),
                      key |-> 0, value |-> 0]]

\* The two bits of each slot.
Flags(b) == [i \in Slots |-> [occupied |-> b[i].occupied, readable |-> b[i].readable]]

TypeOK ==
    /\ occupied_ \in [Bytes -> Byte]
    /\ readable_ \in [Bytes -> Byte]

(***************************************************************************)
(* The byte-wise IsFull, IsEmpty and NumReadable agree with the per-slot   *)
(* bits: IsFull iff every slot is readable, IsEmpty iff none is, and      *)
(* NumReadable counts the readable slots.  IsFull is where the byte        *)
(* arithmetic is delicate: the last byte of a bucket whose size is not a   *)
(* multiple of 8 has only rest slot bits, and is compared with a mask.     *)
(***************************************************************************)
BitmapQueriesAgree ==
    /\ IsFull(readable_) = Bucket!IsFull(Decode)
    /\ IsEmpty(readable_) = Bucket!IsEmpty(Decode)
    /\ NumReadable(readable_) = Cardinality({i \in Slots : IsReadable(i)})

(***************************************************************************)
(* The early exits of the bucket scans are sound: a readable slot is      *)
(* occupied, and no slot after an unoccupied one is occupied (spec.md:     *)
(* occupied bits are set contiguously), so GetValue, Insert and Remove    *)
(* lose nothing by stopping at the first unoccupied slot.                  *)
(***************************************************************************)
ScanStopSound ==
    \A i, j \in Slots :
        /\ IsReadable(i) => IsOccupied(i)
        /\ (i < j /\ IsOccupied(j)) => IsOccupied(i)

(***************************************************************************)
(* Every step on the bytes is a step of the per-slot bucket: an Insert of  *)
(* a pair the bucket does not hold, setting the bits of the slot the      *)
(* per-slot Insert picks, or a RemoveAt of a readable slot.                *)
(***************************************************************************)
StepsAreSlotSteps ==
    [][\/ /\ Bucket!Insert(Decode, 1, 1).ok
          /\ Flags(Decode') = Flags(Bucket!Insert(Decode, 1, 1).bucket)
       \/ \E i \in Slots :
             Decode[i].readable /\ Decode' = Bucket!RemoveAt(Decode, i)
      ]_vars
=============================================================================
