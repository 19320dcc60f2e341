------------------------- MODULE HashTableDirectoryPage -------------------------
(***************************************************************************)
(* The directory page of the extendible hash index,                        *)
(* src/lab3/src/storage/page/hash_table_directory_page.cpp.                *)
(*                                                                         *)
(* A directory is a record of global_depth_ and the two arrays             *)
(* bucket_page_ids_ and local_depths_, both DIRECTORY_ARRAY_SIZE long      *)
(* (512 in the source, 2^MAX_GLOBAL_DEPTH here).  Every bit operation of  *)
(* the source is with a mask 2^n - 1 or a single bit 1 << k, so it is      *)
(* computed exactly by LowBits and FlipBit below.                          *)
(***************************************************************************)
EXTENDS Integers, FiniteSets

LOCAL INSTANCE Bitwise

CONSTANT MAX_GLOBAL_DEPTH

ASSUME MAX_GLOBAL_DEPTH \in Nat

DIRECTORY_ARRAY_SIZE == 2 ^ MAX_GLOBAL_DEPTH

DirSlots == 0..(DIRECTORY_ARRAY_SIZE - 1)

\* The directory as NewPage leaves it: every byte zero.
ZeroDirectory ==
    [global_depth |-> 0,
     bucket_page_ids |-> [i \in DirSlots |-> 0],
     local_depths |-> [i \in DirSlots |-> 0]]

\* x & ((1 << n) - 1): the low n bits of x.
LowBits(x, n) == x % (2 ^ n)

\* x ^ (1 << k): x with bit k flipped.
FlipBit(x, k) == IF (x \div 2 ^ k) % 2 = 1 THEN x - 2 ^ k ELSE x + 2 ^ k

\* The bit set by  1 << n  for a uint32_t n.  n wraps modulo 2^32, and a
\* count of 32 or more, undefined in C++, is taken modulo 32 as the x86-64
\* shl instruction takes it (2^32 is a multiple of 32, so n % 32 is both).
\* A bit at or above MAX_GLOBAL_DEPTH is kept as bit MAX_GLOBAL_DEPTH: no
\* slot index has it, and a stride of it or more passes the directory's
\* end, which is all the directory code can tell of bits up to 31.
ShiftBit(n) == IF n % 32 < MAX_GLOBAL_DEPTH THEN n % 32 ELSE MAX_GLOBAL_DEPTH

\* x & m for an arbitrary 32-bit mask m.
BitAnd(x, m) == x & m

GetGlobalDepthMask(d) == 2 ^ d.global_depth - 1

\* Size: 1 << global_depth_.
Size(d) == 2 ^ d.global_depth

GetLocalDepthMask(d, bucket_idx) == 2 ^ d.local_depths[bucket_idx] - 1

\* CanShrink: no slot below Size has local depth equal to global depth.
CanShrink(d) ==
    \A index \in 0..(Size(d) - 1) : d.local_depths[index] # d.global_depth

\* GetSplitImageIndex: the slot with the highest local-depth bit flipped,
\* masked by the local depth; the slot itself at local depth 0.
GetSplitImageIndex(d, bucket_idx) ==
    LET local_depth == d.local_depths[bucket_idx]
    IN IF local_depth = 0 THEN 0
       ELSE LowBits(FlipBit(bucket_idx, local_depth - 1), local_depth)

\* The slots a loop  for (i = start; i < dir_size; i += step)  visits.
Stride(start, step, dir_size) ==
    {i \in start..(dir_size - 1) : (i - start) % step = 0}

\* A write to slot i of an array of DIRECTORY_ARRAY_SIZE entries leaves the
\* array unchanged when i is past its end; the model keeps only the array.
SetBucketPageIds(d, slots, page_id) ==
    [d EXCEPT !.bucket_page_ids =
        [i \in DirSlots |-> IF i \in slots THEN page_id ELSE @[i]]]

IncrLocalDepths(d, slots) ==
    [d EXCEPT !.local_depths =
        [i \in DirSlots |-> IF i \in slots THEN @[i] + 1 ELSE @[i]]]

DecrLocalDepths(d, slots) ==
    [d EXCEPT !.local_depths =
        [i \in DirSlots |-> IF i \in slots THEN @[i] - 1 ELSE @[i]]]

(***************************************************************************)
(* VerifyIntegrity, the debugging check the index's own VerifyIntegrity   *)
(* runs: the first loop asserts LD <= GD at every slot and records, per   *)
(* bucket page, its pointer count and the local depth of the first slot   *)
(* naming it, asserting every later slot agrees; the second asserts each  *)
(* page's count is 1 << (GD - LD).  TRUE iff no assertion fires.          *)
(***************************************************************************)
VerifyIntegrity(d) ==
    LET slots == 0..(Size(d) - 1)
        ids == {d.bucket_page_ids[i] : i \in slots}
        SlotsOf(p) == {i \in slots : d.bucket_page_ids[i] = p}
        page_id_to_ld(p) ==
            d.local_depths[CHOOSE i \in SlotsOf(p) : \A j \in SlotsOf(p) : i <= j]
    IN /\ \A i \in slots : d.local_depths[i] <= d.global_depth
       /\ \A i \in slots : d.local_depths[i] = page_id_to_ld(d.bucket_page_ids[i])
       /\ \A p \in ids :
             Cardinality(SlotsOf(p)) = 2 ^ (d.global_depth - page_id_to_ld(p))
=============================================================================
