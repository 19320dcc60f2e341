-------------------------- MODULE ExtendibleHashTable --------------------------
(***************************************************************************)
(* The extendible hash index, src/lab3/src/container/hash/                 *)
(* extendible_hash_table.cpp, run by concurrent Threads.                   *)
(*                                                                         *)
(* Locking.  GetValue, Insert and Remove hold table_latch_ in read mode    *)
(* while they route the key through the directory and change one bucket   *)
(* under that page's latch; SplitInsert, Merge and ExtraMerge hold it in   *)
(* write mode for their whole body.  A read-mode section touches one       *)
(* bucket under its latch and only reads the directory, which write-mode   *)
(* sections alone change, so every locked section is one atomic step and   *)
(* the threads interleave between sections.  What a thread does between   *)
(* sections is modelled too: Insert and Remove read IsFull / IsEmpty of    *)
(* the bucket page after unpinning it and unlocking the table.             *)
(*                                                                         *)
(* Pages.  buckets maps each live bucket page id to its content; the       *)
(* directory page (id 0) stays pinned for the index's lifetime and is the *)
(* variable dir.  Page ids come from the buffer pool's AllocatePage, in    *)
(* order; DeletePage never reuses them.  This module assumes a pool large  *)
(* enough that no hash page is evicted; ExtendibleHashTableOnPool drops   *)
(* that assumption.                                                        *)
(***************************************************************************)
EXTENDS Integers, FiniteSets, Functions, TLC

CONSTANTS
    Threads,            \* threads calling the index
    Keys,               \* keys they insert and remove (integers)
    Values,             \* values they insert and remove (integers)
    HashOf,             \* hash_fn_: a function on Keys \cup {0}
    BUCKET_ARRAY_SIZE,  \* slots per bucket page
    MAX_GLOBAL_DEPTH,   \* DIRECTORY_ARRAY_SIZE = 2^MAX_GLOBAL_DEPTH
    MaxPageId           \* bound: an Insert starts only below this page id

Bucket == INSTANCE HashTableBucketPage
Dir == INSTANCE HashTableDirectoryPage

VARIABLES
    dir,           \* the directory page
    buckets,       \* page id -> bucket page content
    next_page_id,  \* the buffer pool's next_page_id_
    pc,            \* per thread: where it is in its call
    req,           \* per thread: the call and its arguments
    page,          \* per thread: the bucket page id it last used
    ret,           \* per thread: the call's result so far
    seen,          \* history: the caller's pair was in the table during the call
    dup            \* history: an Insert's pair was in the table at its in-place insert

vars == <<dir, buckets, next_page_id, pc, req, page, ret, seen, dup>>

DIRECTORY_PAGE_ID == 0

\* Hash: MurmurHash's 64 bits cut to 32.  HashOf gives the 32-bit hash of
\* each key directly (only its low MAX_GLOBAL_DEPTH bits are ever used).
Hash(key) == HashOf[key]

KeyToDirectoryIndex(key, d) == Dir!LowBits(Hash(key), d.global_depth)

KeyToPageId(key, d) == d.bucket_page_ids[KeyToDirectoryIndex(key, d)]

\* The pairs held in readable slots of live bucket pages.
Contents ==
    UNION {{<<buckets[p][i].key, buckets[p][i].value>> :
              i \in {j \in Bucket!Slots : buckets[p][j].readable}} :
           p \in DOMAIN buckets}

Pair(t) == <<req[t].key, req[t].value>>

Idle == [op |-> "none", key |-> 0, value |-> 0]

\* The constructor: directory page 0 and bucket page 1, slot 0 -> page 1.
Init ==
    /\ dir = [Dir!ZeroDirectory EXCEPT !.bucket_page_ids[0] = 1]
    /\ buckets = (1 :> Bucket!EmptyBucket)
    /\ next_page_id = 2
    /\ pc = [t \in Threads |-> "idle"]
    /\ req = [t \in Threads |-> Idle]
    /\ page = [t \in Threads |-> 1]
    /\ ret = [t \in Threads |-> FALSE]
    /\ seen = [t \in Threads |-> FALSE]
    /\ dup = [t \in Threads |-> FALSE]

(***************************************************************************)
(* Insert, the read-locked section: route, insert into the bucket.         *)
(***************************************************************************)
Insert(t, key, value) ==
    /\ pc[t] = "idle"
    /\ next_page_id < MaxPageId
    /\ LET bucket_page_id == KeyToPageId(key, dir)
           r == Bucket!Insert(buckets[bucket_page_id], key, value)
       IN /\ buckets' = [buckets EXCEPT ![bucket_page_id] = r.bucket]
          /\ ret' = [ret EXCEPT ![t] = r.ok]
          /\ page' = [page EXCEPT ![t] = bucket_page_id]
    /\ req' = [req EXCEPT ![t] = [op |-> "insert", key |-> key, value |-> value]]
    /\ pc' = [pc EXCEPT ![t] = "ins_check"]
    /\ UNCHANGED <<dir, next_page_id>>

\* What bucket_page->IsFull() / IsEmpty() can return once the page is
\* unpinned and unlatched: its current content if it is still a live
\* bucket, anything if Merge has deleted it and its frame is reused.
IsFullAfterUnpin(t) ==
    IF page[t] \in DOMAIN buckets THEN {Bucket!IsFull(buckets[page[t]])}
    ELSE BOOLEAN

IsEmptyAfterUnpin(t) ==
    IF page[t] \in DOMAIN buckets THEN {Bucket!IsEmpty(buckets[page[t]])}
    ELSE BOOLEAN

\* Insert, after RUnlock:  if (!ret && bucket_page->IsFull()) SplitInsert.
InsertCheckFull(t) ==
    /\ pc[t] = "ins_check"
    /\ \E full \in IsFullAfterUnpin(t) :
          pc' = [pc EXCEPT ![t] = IF ~ret[t] /\ full THEN "split" ELSE "idle"]
    /\ UNCHANGED <<dir, buckets, next_page_id, req, page, ret>>

(***************************************************************************)
(* SplitInsert, under the write lock.  The directory update of lines      *)
(* 163-213: the slots of the old bucket that keep it get one more bit of  *)
(* local depth; then either the other half of its slots is pointed at the *)
(* new page, or the directory doubles, mirroring its lower half and        *)
(* pointing the split bucket's mirror slot at the new page.                *)
(***************************************************************************)
MirrorDirectory(d1, dir_size, old_id, new_id) ==
    LET upper == dir_size..(2 * dir_size - 1)
    IN [d1 EXCEPT
          !.global_depth = @ + 1,
          !.bucket_page_ids = [i \in Dir!DirSlots |->
              IF i \notin upper THEN @[i]
              ELSE IF @[i - dir_size] = old_id THEN new_id
              ELSE @[i - dir_size]],
          !.local_depths = [i \in Dir!DirSlots |->
              IF i \in upper THEN @[i - dir_size] ELSE @[i]]]

\* Mutant: the slots pointed at the new page keep their old local depth.
SplitDirectoryNoIncrNewHalf(d, bucket_idx, old_id, new_id) ==
    LET local_depth == d.local_depths[bucket_idx]
        old_local_mask == Dir!GetLocalDepthMask(d, bucket_idx)
        new_local_mask == old_local_mask + (old_local_mask + 1)
        old_local_hash == Dir!LowBits(bucket_idx, local_depth + 1)
        new_local_hash == Dir!FlipBit(old_local_hash, local_depth)
        dir_size == Dir!Size(d)
        d1 == Dir!IncrLocalDepths(d,
                 Dir!Stride(old_local_hash, new_local_mask + 1, dir_size))
        new_half == Dir!Stride(new_local_hash, new_local_mask + 1, dir_size)
    IN IF local_depth < d.global_depth
       THEN Dir!SetBucketPageIds(d1, new_half, new_id)
       ELSE MirrorDirectory(d1, dir_size, old_id, new_id)

SplitDirectory(d, bucket_idx, old_id, new_id) ==
    LET local_depth == d.local_depths[bucket_idx]
        old_local_mask == Dir!GetLocalDepthMask(d, bucket_idx)
        new_local_mask == old_local_mask + (old_local_mask + 1)
        old_local_hash == Dir!LowBits(bucket_idx, local_depth + 1)
        new_local_hash == Dir!FlipBit(old_local_hash, local_depth)
        dir_size == Dir!Size(d)
        d1 == Dir!IncrLocalDepths(d,
                 Dir!Stride(old_local_hash, new_local_mask + 1, dir_size))
        new_half == Dir!Stride(new_local_hash, new_local_mask + 1, dir_size)
    IN IF local_depth < d.global_depth
       THEN Dir!IncrLocalDepths(Dir!SetBucketPageIds(d1, new_half, new_id),
                                new_half)
       ELSE MirrorDirectory(d1, dir_size, old_id, new_id)

\* Mutant: the rehash loop runs before the directory is updated, where no
\* slot names the new page yet, so it moves nothing.
RehashBeforeSplit(old, new, d, new_id, i) == [old |-> old, new |-> new]

\* The loop of lines 219-227: every slot of the old bucket whose key now
\* routes to the new page is moved there (KeyAt/ValueAt, RemoveAt, Insert).
RECURSIVE Rehash(_, _, _, _, _)
Rehash(old, new, d, new_id, i) ==
    IF i >= BUCKET_ARRAY_SIZE THEN [old |-> old, new |-> new]
    ELSE LET bucket_key == Bucket!KeyAt(old, i)
         IN IF KeyToPageId(bucket_key, d) = new_id
            THEN Rehash(Bucket!RemoveAt(old, i),
                        Bucket!Insert(new, bucket_key,
                                      Bucket!ValueAt(old, i)).bucket,
                        d, new_id, i + 1)
            ELSE Rehash(old, new, d, new_id, i + 1)

\* SplitInsert when the re-check finds the bucket no longer full.
SplitInsertRecheck(t) ==
    /\ pc[t] = "split"
    /\ LET key == req[t].key
           old_id == KeyToPageId(key, dir)
           r == Bucket!Insert(buckets[old_id], key, req[t].value)
       IN /\ ~Bucket!IsFull(buckets[old_id])
          /\ buckets' = [buckets EXCEPT ![old_id] = r.bucket]
          /\ ret' = [ret EXCEPT ![t] = r.ok]
    /\ pc' = [pc EXCEPT ![t] = "idle"]
    /\ UNCHANGED <<dir, next_page_id, req, page>>

\* SplitInsert of a full bucket: one split, then one insert attempt.
SplitAndInsert(t) ==
    /\ pc[t] = "split"
    /\ LET key == req[t].key
           value == req[t].value
           idx == KeyToDirectoryIndex(key, dir)
           old_id == KeyToPageId(key, dir)
           new_id == next_page_id
           d == SplitDirectory(dir, idx, old_id, new_id)
           moved == Rehash(buckets[old_id], Bucket!EmptyBucket, d, new_id, 0)
           into_old == KeyToPageId(key, d) = old_id
           r == Bucket!Insert(IF into_old THEN moved.old ELSE moved.new,
                              key, value)
       IN /\ Bucket!IsFull(buckets[old_id])
          /\ dir' = d
          /\ next_page_id' = next_page_id + 1
          /\ buckets' = (new_id :> IF into_old THEN moved.new ELSE r.bucket)
                        @@ [buckets EXCEPT ![old_id] =
                              IF into_old THEN r.bucket ELSE moved.old]
          /\ ret' = [ret EXCEPT ![t] = r.ok]
    /\ UNCHANGED <<req, page>>

\* SplitInsert returns the result of its one insert attempt.
SplitInsert(t) ==
    /\ SplitAndInsert(t)
    /\ pc' = [pc EXCEPT ![t] = "idle"]

(***************************************************************************)
(* Remove, the read-locked section, and its check after RUnlock.          *)
(***************************************************************************)
Remove(t, key, value) ==
    /\ pc[t] = "idle"
    /\ LET bucket_page_id == KeyToPageId(key, dir)
           r == Bucket!Remove(buckets[bucket_page_id], key, value)
       IN /\ buckets' = [buckets EXCEPT ![bucket_page_id] = r.bucket]
          /\ ret' = [ret EXCEPT ![t] = r.ok]
          /\ page' = [page EXCEPT ![t] = bucket_page_id]
    /\ req' = [req EXCEPT ![t] = [op |-> "remove", key |-> key, value |-> value]]
    /\ pc' = [pc EXCEPT ![t] = "rem_check"]
    /\ UNCHANGED <<dir, next_page_id>>

RemoveCheckEmpty(t) ==
    /\ pc[t] = "rem_check"
    /\ \E empty \in IsEmptyAfterUnpin(t) :
          pc' = [pc EXCEPT ![t] = IF ret[t] /\ empty THEN "merge" ELSE "idle"]
    /\ UNCHANGED <<dir, buckets, next_page_id, req, page, ret>>

(***************************************************************************)
(* The directory update shared by Merge and ExtraMerge: the slots of the  *)
(* empty bucket at empty_idx (those equal to it in its low local-depth    *)
(* bits) are pointed at survivor_id, the slots of the merged bucket (one  *)
(* bit fewer) lose a bit of local depth, and the directory halves if      *)
(* CanShrink.                                                              *)
(***************************************************************************)
MergeInto(d, empty_idx, survivor_id) ==
    LET local_depth == d.local_depths[empty_idx]
        old_local_mask == Dir!GetLocalDepthMask(d, empty_idx)
        new_local_mask == Dir!FlipBit(old_local_mask, Dir!ShiftBit(local_depth - 1))
        dir_size == Dir!Size(d)
        repointed == Dir!Stride(Dir!LowBits(empty_idx, local_depth),
                                old_local_mask + 1, dir_size)
        lowered == Dir!Stride(Dir!BitAnd(empty_idx, new_local_mask),
                              new_local_mask + 1, dir_size)
        d1 == Dir!DecrLocalDepths(Dir!SetBucketPageIds(d, repointed, survivor_id),
                                  lowered)
    IN [d1 EXCEPT !.global_depth = IF Dir!CanShrink(d1) THEN @ - 1 ELSE @]

\* Merge: the key's bucket, if still empty and at the local depth of its
\* split image, is folded into the image and its page deleted.
\* Mutant: Merge trusts Remove's IsEmpty and does not re-check it.
CanMergeNoRecheck(d, index, bucket_page_id) ==
    /\ d.local_depths[index] > 0
    /\ d.local_depths[Dir!GetSplitImageIndex(d, index)] = d.local_depths[index]

\* Mutant: Merge without the local_depth > 0 test, which a compiler may
\* drop given the undefined shift computed before it.
CanMergeNoDepthTest(d, index, bucket_page_id) ==
    /\ Bucket!IsEmpty(buckets[bucket_page_id])
    /\ d.local_depths[Dir!GetSplitImageIndex(d, index)] = d.local_depths[index]

CanMerge(d, index, bucket_page_id) ==
    /\ d.local_depths[index] > 0
    /\ Bucket!IsEmpty(buckets[bucket_page_id])
    /\ d.local_depths[Dir!GetSplitImageIndex(d, index)] = d.local_depths[index]

Merge(t) ==
    /\ pc[t] = "merge"
    /\ LET index == KeyToDirectoryIndex(req[t].key, dir)
           bucket_page_id == KeyToPageId(req[t].key, dir)
           image == Dir!GetSplitImageIndex(dir, index)
       IN \/ /\ CanMerge(dir, index, bucket_page_id)
             /\ dir' = MergeInto(dir, index, dir.bucket_page_ids[image])
             /\ buckets' = Restrict(buckets, DOMAIN buckets \ {bucket_page_id})
          \/ /\ ~CanMerge(dir, index, bucket_page_id)
             /\ UNCHANGED <<dir, buckets>>
    /\ pc' = [pc EXCEPT ![t] = "extra_merge"]
    /\ UNCHANGED <<next_page_id, req, page, ret>>

\* ExtraMerge, called while it returns true: the split image of the key's
\* bucket, if empty and at the same local depth, is folded into the key's
\* bucket and its page deleted.
CanExtraMerge(d, index) ==
    LET extra_idx == Dir!GetSplitImageIndex(d, index)
    IN /\ d.local_depths[index] > 0
       /\ d.local_depths[extra_idx] = d.local_depths[index]
       /\ Bucket!IsEmpty(buckets[d.bucket_page_ids[extra_idx]])

\* Mutant: ExtraMerge returns true whether or not it merged.
ExtraMergeAlwaysTrue(t) ==
    /\ pc[t] = "extra_merge"
    /\ LET index == KeyToDirectoryIndex(req[t].key, dir)
           extra_id == dir.bucket_page_ids[Dir!GetSplitImageIndex(dir, index)]
       IN \/ /\ CanExtraMerge(dir, index)
             /\ dir' = MergeInto(dir, Dir!GetSplitImageIndex(dir, index),
                                KeyToPageId(req[t].key, dir))
             /\ buckets' = Restrict(buckets, DOMAIN buckets \ {extra_id})
          \/ /\ ~CanExtraMerge(dir, index)
             /\ UNCHANGED <<dir, buckets>>
    /\ UNCHANGED <<pc, next_page_id, req, page, ret>>

ExtraMerge(t) ==
    /\ pc[t] = "extra_merge"
    /\ LET index == KeyToDirectoryIndex(req[t].key, dir)
           extra_idx == Dir!GetSplitImageIndex(dir, index)
           extra_id == dir.bucket_page_ids[extra_idx]
       IN \/ /\ CanExtraMerge(dir, index)
             /\ dir' = MergeInto(dir, extra_idx, KeyToPageId(req[t].key, dir))
             /\ buckets' = Restrict(buckets, DOMAIN buckets \ {extra_id})
             /\ UNCHANGED pc
          \/ /\ ~CanExtraMerge(dir, index)
             /\ pc' = [pc EXCEPT ![t] = "idle"]
             /\ UNCHANGED <<dir, buckets>>
    /\ UNCHANGED <<next_page_id, req, page, ret>>

\* The history variable: while a thread is in a call, its flag records
\* whether the call's pair has been in the table at any state of the call.
SeenNext ==
    seen' = [t \in Threads |->
               IF pc[t] = "idle" /\ pc'[t] = "idle" THEN FALSE
               ELSE \/ pc[t] # "idle" /\ seen[t]
                    \/ Pair(t)' \in Contents
                    \/ Pair(t)' \in Contents']

\* The second history variable: set at the read-locked section of Insert
\* to whether the pair was already there, kept until the call returns.
DupNext ==
    dup' = [t \in Threads |->
              IF pc'[t] = "idle" THEN FALSE
              ELSE IF pc[t] = "idle" /\ pc'[t] = "ins_check"
              THEN Pair(t)' \in Contents
              ELSE dup[t]]

HistoryNext == SeenNext /\ DupNext

Next ==
    \E t \in Threads :
       \/ \E k \in Keys, v \in Values : Insert(t, k, v) /\ HistoryNext
       \/ \E k \in Keys, v \in Values : Remove(t, k, v) /\ HistoryNext
       \/ InsertCheckFull(t) /\ HistoryNext
       \/ SplitInsertRecheck(t) /\ HistoryNext
       \/ SplitInsert(t) /\ HistoryNext
       \/ RemoveCheckEmpty(t) /\ HistoryNext
       \/ Merge(t) /\ HistoryNext
       \/ ExtraMerge(t) /\ HistoryNext

Spec == Init /\ [][Next]_vars

(***************************************************************************)
(* A thread inside a call keeps running: the OS schedules every runnable  *)
(* thread, and the table latch is a shared_mutex whose holders release it *)
(* at the end of each locked section, so each step after the first stays *)
(* enabled until taken (the two outcomes of SplitInsert's re-check are one *)
(* program point, hence one fairness condition).  Starting a new call is  *)
(* never required.                                                        *)
(***************************************************************************)
impl_vars == <<dir, buckets, next_page_id, pc, req, page, ret>>

Fairness ==
    \A t \in Threads :
       /\ WF_impl_vars(InsertCheckFull(t))
       /\ WF_impl_vars(SplitInsertRecheck(t) \/ SplitInsert(t))
       /\ WF_impl_vars(RemoveCheckEmpty(t))
       /\ WF_impl_vars(Merge(t))
       /\ WF_impl_vars(ExtraMerge(t))

FairSpec == Spec /\ Fairness

-----------------------------------------------------------------------------
\* GetValue: route the key, scan its bucket (a read-only call).
GetValue(key) == Bucket!GetValue(buckets[KeyToPageId(key, dir)], key)

DirSize == Dir!Size(dir)

LiveSlots == 0..(DirSize - 1)

PageIdRange == 0..(MaxPageId + Cardinality(Threads))

TypeOK ==
    /\ dir.global_depth \in 0..MAX_GLOBAL_DEPTH
    /\ dir.bucket_page_ids \in [Dir!DirSlots -> PageIdRange]
    /\ dir.local_depths \in [Dir!DirSlots -> 0..MAX_GLOBAL_DEPTH]
    /\ DOMAIN buckets \subseteq PageIdRange \ {DIRECTORY_PAGE_ID}
    /\ \A p \in DOMAIN buckets :
          buckets[p] \in [Bucket!Slots -> [occupied : BOOLEAN,
                                           readable : BOOLEAN,
                                           key : Keys \cup {0},
                                           value : Values \cup {0}]]
    /\ next_page_id \in PageIdRange
    /\ pc \in [Threads -> {"idle", "ins_check", "split", "rem_check",
                           "merge", "extra_merge"}]
    /\ ret \in [Threads -> BOOLEAN]
    /\ page \in [Threads -> PageIdRange]
    /\ seen \in [Threads -> BOOLEAN]
    /\ dup \in [Threads -> BOOLEAN]

\* VerifyIntegrity: under the read latch, the directory page's own check.
VerifyIntegrity == Dir!VerifyIntegrity(dir)

(***************************************************************************)
(* Directory integrity: the debugging check VerifyIntegrity passes (all  *)
(* LD <= GD; one LD per bucket page; 2^(GD-LD) slots per page), and in    *)
(* the stronger form that the slots of a bucket are exactly those that    *)
(* agree in their low local-depth bits; every slot names a live bucket    *)
(* page and every live bucket page is named by some slot.  It is what     *)
(* SplitDirectory's and MergeInto's strided loops must preserve through   *)
(* every split, merge, cascade of ExtraMerges and change of global depth. *)
(***************************************************************************)
DirectoryIntegrity ==
    LET ids == dir.bucket_page_ids
        ld == dir.local_depths
    IN /\ VerifyIntegrity
       /\ \A i, j \in LiveSlots :
             (ids[i] = ids[j]) <=> (i % (2 ^ ld[i]) = j % (2 ^ ld[i]))
       /\ {ids[i] : i \in LiveSlots} = DOMAIN buckets

(***************************************************************************)
(* Lookups are complete: for every key, GetValue (route through the       *)
(* directory, scan the bucket until the first never-occupied slot) finds  *)
(* exactly the values paired with that key anywhere in the table.  It     *)
(* fails if a split's rehash leaves an entry in a bucket the directory no *)
(* longer routes it to, or if a slot behind a never-occupied one holds an *)
(* entry, which the early exits of the bucket scans would skip.           *)
(***************************************************************************)
LookupsComplete ==
    \A k \in Keys : GetValue(k) = {v \in Values : <<k, v>> \in Contents}

(***************************************************************************)
(* Refinement: the index implements HashTableSpec.  The abstract table is *)
(* the set of pairs in readable slots of live buckets; a thread is in a   *)
(* call while its pc is not idle, and its call has taken effect once its  *)
(* Remove has run its bucket operation, or its Insert has succeeded in    *)
(* its bucket.  So the pairs change only by a thread's own Insert or      *)
(* Remove, once per call, and never by a split's rehash, a merge, or an   *)
(* ExtraMerge deleting a page that another thread has refilled since it   *)
(* was found empty.                                                        *)
(***************************************************************************)
CallOf(t) == IF pc[t] = "idle" THEN [op |-> "none"] ELSE req[t]

TookEffect(t) ==
    \/ pc[t] \in {"rem_check", "merge", "extra_merge"}
    \/ pc[t] = "ins_check" /\ ret[t]

Abstract == INSTANCE HashTableSpec
    WITH table <- Contents,
         op <- [t \in Threads |-> CallOf(t)],
         done <- [t \in Threads |-> TookEffect(t)]

ImplementsHashTableSpec == Abstract!Spec

(***************************************************************************)
(* Every call returns: the ExtraMerge loop ends, and no thread is left    *)
(* between its sections, assuming each running thread is scheduled.       *)
(***************************************************************************)
CallsReturn == \A t \in Threads : (pc[t] # "idle") ~> (pc[t] = "idle")

(***************************************************************************)
(* Insert does what spec.md 4.4 says: "If insertion failed specifically   *)
(* because the bucket is full, triggers split-insert; otherwise the false *)
(* result is a genuine duplicate and is returned as-is."  So an Insert    *)
(* returns false only if its pair was in the table at some point during   *)
(* the call, and an Insert whose in-place insert met its own pair goes    *)
(* back to the caller without entering SplitInsert.  This is about the    *)
(* test  !ret && bucket_page->IsFull()  that Insert makes after unpinning *)
(* the bucket, and about the single insert attempt of SplitInsert.        *)
(***************************************************************************)
InsertAsDocumented ==
    [][\A t \in Threads :
         /\ (/\ req[t].op = "insert" /\ pc[t] # "idle"
             /\ pc'[t] = "idle" /\ ~ret'[t]) => seen'[t]
         /\ (pc[t] = "ins_check" /\ pc'[t] = "split") => ~dup[t]]_vars
=============================================================================
