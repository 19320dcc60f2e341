----------------------- MODULE ExtendibleHashTableOnPool -----------------------
(***************************************************************************)
(* The extendible hash index on its buffer pool:                           *)
(* src/lab3/src/container/hash/extendible_hash_table.cpp calling           *)
(* src/lab1.2/buffer_pool_manager_instance.cpp.  Every FetchPage, NewPage, *)
(* UnpinPage and DeletePage of the index is a call of the pool operators   *)
(* of BufferPoolManagerInstance, and a bucket's content lives where the    *)
(* pool keeps it: in its frame while resident, on disk otherwise.  So     *)
(* bucket pages are evicted and read back, and a fetch fails when every    *)
(* frame is pinned.                                                        *)
(*                                                                         *)
(* Locking is that of ExtendibleHashTable, with one refinement: a          *)
(* read-locked section (GetValue, Insert, Remove) is two steps, the fetch  *)
(* of its bucket page and then the bucket operation with its unpin, so    *)
(* that the readers' fetches and unpins interleave as they do under the   *)
(* shared table latch.  Write-locked sections wait for the readers and    *)
(* are one step.  bucket_page, the pointer Insert and Remove keep after    *)
(* unpinning, is frame[t]: their IsFull / IsEmpty read whatever page that *)
(* frame holds by then.  The directory page stays pinned in its frame for *)
(* the index's lifetime (dir_page_); its content is the variable dir.      *)
(*                                                                         *)
(* A fetch or NewPage that returns nullptr is dereferenced at once         *)
(* (FetchBucketPage, CreateBucketPage): the thread's pc becomes "crashed". *)
(***************************************************************************)
EXTENDS Integers, FiniteSets, Functions, TLC

CONSTANTS
    Threads,            \* threads calling the index
    Keys,               \* keys (integers)
    Values,             \* values (integers)
    HashOf,             \* hash_fn_ on Keys \cup {0}
    BUCKET_ARRAY_SIZE,  \* slots per bucket page
    MAX_GLOBAL_DEPTH,   \* DIRECTORY_ARRAY_SIZE = 2^MAX_GLOBAL_DEPTH
    MaxPageId,          \* bound: an Insert starts only below this page id
    PoolSize            \* pool_size_ of the buffer pool

VARIABLES
    dir,    \* the directory page
    pool,   \* the BufferPoolManagerInstance record
    disk,   \* page id -> content on disk
    pc,     \* per thread: where it is in its call
    req,    \* per thread: the call and its arguments
    page,   \* per thread: the bucket page id it fetched last
    frame,  \* per thread: the frame that page was in (bucket_page)
    ret     \* per thread: the call's result so far

vars == <<dir, pool, disk, pc, req, page, frame, ret>>

Bucket == INSTANCE HashTableBucketPage
Dir == INSTANCE HashTableDirectoryPage

\* A bucket page's bytes.
BucketData ==
    [Bucket!Slots -> [occupied : BOOLEAN, readable : BOOLEAN,
                      key : Keys \cup {0}, value : Values \cup {0}]]

\* Page ids 0..MaxPageId + |Threads|: each thread splits at most once per call.
NumPageIds == MaxPageId + Cardinality(Threads) + 1

\* The pool operators; the client variables of that module are not used.
BPM == INSTANCE BufferPoolManagerInstance
    WITH bpm <- pool, disk <- disk, Data <- BucketData,
         ZeroData <- Bucket!EmptyBucket, Clients <- Threads,
         MaxPageId <- NumPageIds, held <- [t \in Threads |-> {}],
         wrote <- [t \in Threads |-> {}], live <- {}, latest <- disk,
         writing <- [t \in Threads |-> -1]

DIRECTORY_PAGE_ID == 0

\* The content of page p where the pool keeps it.
Content(p) ==
    IF p \in DOMAIN pool.page_table THEN pool.pages[pool.page_table[p]].data
    ELSE disk[p]

\* The bucket pages the directory names, with their contents.
Named == {dir.bucket_page_ids[i] : i \in 0..(Dir!Size(dir) - 1)}

Buckets == [p \in Named |-> Content(p)]

\* The directory and split/merge arithmetic of the pool-free model.
H == INSTANCE ExtendibleHashTable
    WITH buckets <- Buckets, next_page_id <- pool.next_page_id,
         seen <- [t \in Threads |-> FALSE],
         dup <- [t \in Threads |-> FALSE]

\* The bytes of resident page p in pool record s, and writing them.
FrameData(s, p) == s.pages[s.page_table[p]].data
SetFrameData(s, p, b) == [s EXCEPT !.pages[s.page_table[p]].data = b]

\* Threads holding table_latch_ in read mode with a bucket page pinned.
Readers == {t \in Threads : pc[t] \in {"get_op", "ins_op", "rem_op"}}

Idle == [op |-> "none", key |-> 0, value |-> 0]

\* Mutation: the constructor keeps the first bucket page pinned.
InitNoBucketUnpin ==
    LET d0 == [p \in 0..(NumPageIds - 1) |-> Bucket!EmptyBucket]
        c1 == BPM!NewPgImp(BPM!NewInstance(1, 0), d0)
        c2 == BPM!NewPgImp(c1.s, c1.disk)
    IN /\ dir = [Dir!ZeroDirectory EXCEPT !.bucket_page_ids[0] = c2.page_id]
       /\ pool = c2.s
       /\ disk = c2.disk
       /\ pc = [t \in Threads |-> "idle"]
       /\ req = [t \in Threads |-> Idle]
       /\ page = [t \in Threads |-> c2.page_id]
       /\ frame = [t \in Threads |-> 0]
       /\ ret = [t \in Threads |-> FALSE]

(***************************************************************************)
(* The constructor: NewPage for the directory (page 0, never unpinned),   *)
(* NewPage for the first bucket (page 1), slot 0 -> page 1, UnpinPage of  *)
(* the bucket, clean.                                                      *)
(***************************************************************************)
Init ==
    LET d0 == [p \in 0..(NumPageIds - 1) |-> Bucket!EmptyBucket]
        c1 == BPM!NewPgImp(BPM!NewInstance(1, 0), d0)
        c2 == BPM!NewPgImp(c1.s, c1.disk)
    IN /\ dir = [Dir!ZeroDirectory EXCEPT !.bucket_page_ids[0] = c2.page_id]
       /\ pool = BPM!UnpinPgImp(c2.s, c2.page_id, FALSE).s
       /\ disk = c2.disk
       /\ pc = [t \in Threads |-> "idle"]
       /\ req = [t \in Threads |-> Idle]
       /\ page = [t \in Threads |-> c2.page_id]
       /\ frame = [t \in Threads |-> 0]
       /\ ret = [t \in Threads |-> FALSE]

\* A null page is dereferenced: the process is gone.
Crash(t) ==
    /\ pc' = [pc EXCEPT ![t] = "crashed"]
    /\ UNCHANGED <<dir, pool, disk, req, page, frame, ret>>

\* Mutation: the page id kept where the frame id belongs.
FetchForReadPageAsFrame(t, call, key, value, next_pc) ==
    LET bucket_page_id == H!KeyToPageId(key, dir)
        r == BPM!FetchPgImp(pool, disk, bucket_page_id)
    IN IF ~r.ok THEN Crash(t)
       ELSE /\ pool' = r.s
            /\ disk' = r.disk
            /\ page' = [page EXCEPT ![t] = bucket_page_id]
            /\ frame' = [frame EXCEPT ![t] = bucket_page_id]
            /\ req' = [req EXCEPT ![t] = [op |-> call, key |-> key,
                                          value |-> value]]
            /\ pc' = [pc EXCEPT ![t] = next_pc]
            /\ UNCHANGED <<dir, ret>>

(***************************************************************************)
(* The first step of a read-locked section: RLock, KeyToPageId,            *)
(* FetchBucketPage.                                                        *)
(***************************************************************************)
FetchForRead(t, call, key, value, next_pc) ==
    LET bucket_page_id == H!KeyToPageId(key, dir)
        r == BPM!FetchPgImp(pool, disk, bucket_page_id)
    IN IF ~r.ok THEN Crash(t)
       ELSE /\ pool' = r.s
            /\ disk' = r.disk
            /\ page' = [page EXCEPT ![t] = bucket_page_id]
            /\ frame' = [frame EXCEPT ![t] = r.s.page_table[bucket_page_id]]
            /\ req' = [req EXCEPT ![t] = [op |-> call, key |-> key,
                                          value |-> value]]
            /\ pc' = [pc EXCEPT ![t] = next_pc]
            /\ UNCHANGED <<dir, ret>>

GetValueFetch(t, key) ==
    /\ pc[t] = "idle"
    /\ FetchForRead(t, "get", key, 0, "get_op")

\* Mutation: GetValue without its UnpinPage.
GetValueReadNoUnpin(t) ==
    /\ pc[t] = "get_op"
    /\ ret' = [ret EXCEPT ![t] =
                 Bucket!GetValue(FrameData(pool, page[t]), req[t].key) # {}]
    /\ pc' = [pc EXCEPT ![t] = "idle"]
    /\ UNCHANGED <<dir, pool, disk, req, page, frame>>

\* GetValue under the page's read latch, UnpinPage clean, RUnlock.
GetValueRead(t) ==
    /\ pc[t] = "get_op"
    /\ ret' = [ret EXCEPT ![t] =
                 Bucket!GetValue(FrameData(pool, page[t]), req[t].key) # {}]
    /\ pool' = BPM!UnpinPgImp(pool, page[t], FALSE).s
    /\ pc' = [pc EXCEPT ![t] = "idle"]
    /\ UNCHANGED <<dir, disk, req, page, frame>>

InsertFetch(t, key, value) ==
    /\ pc[t] = "idle"
    /\ pool.next_page_id < MaxPageId
    /\ FetchForRead(t, "insert", key, value, "ins_op")

\* Insert under the page's write latch, UnpinPage dirty, RUnlock.
InsertOp(t) ==
    /\ pc[t] = "ins_op"
    /\ LET r == Bucket!Insert(FrameData(pool, page[t]), req[t].key, req[t].value)
       IN /\ pool' = BPM!UnpinPgImp(SetFrameData(pool, page[t], r.bucket),
                                    page[t], TRUE).s
          /\ ret' = [ret EXCEPT ![t] = r.ok]
    /\ pc' = [pc EXCEPT ![t] = "ins_check"]
    /\ UNCHANGED <<dir, disk, req, page, frame>>

\* After RUnlock: if (!ret && bucket_page->IsFull()), through the frame.
InsertCheckFull(t) ==
    /\ pc[t] = "ins_check"
    /\ pc' = [pc EXCEPT ![t] =
                IF ~ret[t] /\ Bucket!IsFull(pool.pages[frame[t]].data)
                THEN "split" ELSE "idle"]
    /\ UNCHANGED <<dir, pool, disk, req, page, frame, ret>>

(***************************************************************************)
(* SplitInsert, under the write lock: FetchBucketPage of the old bucket;  *)
(* if it is no longer full, Insert and UnpinPage dirty; otherwise         *)
(* CreateBucketPage (NewPage), the directory update and rehash of         *)
(* ExtendibleHashTable into the two frames, the Insert, and UnpinPage of  *)
(* both pages dirty.                                                       *)
(***************************************************************************)
SplitInsert(t) ==
    /\ pc[t] = "split"
    /\ Readers = {}
    /\ LET key == req[t].key
           value == req[t].value
           old_id == H!KeyToPageId(key, dir)
           f == BPM!FetchPgImp(pool, disk, old_id)
           n == BPM!NewPgImp(f.s, f.disk)
           new_id == n.page_id
           d == H!SplitDirectory(dir, H!KeyToDirectoryIndex(key, dir),
                                 old_id, new_id)
           moved == H!Rehash(FrameData(n.s, old_id), FrameData(n.s, new_id),
                             d, new_id, 0)
           into_old == H!KeyToPageId(key, d) = old_id
           r == Bucket!Insert(IF into_old THEN moved.old ELSE moved.new,
                              key, value)
           s1 == SetFrameData(SetFrameData(n.s, old_id,
                                           IF into_old THEN r.bucket
                                           ELSE moved.old),
                              new_id, IF into_old THEN moved.new ELSE r.bucket)
           recheck == Bucket!Insert(FrameData(f.s, old_id), key, value)
           full == Bucket!IsFull(FrameData(f.s, old_id))
       IN IF ~f.ok \/ (full /\ new_id = BPM!INVALID_PAGE_ID) THEN Crash(t)
          ELSE \/ /\ ~full
                  /\ pool' = BPM!UnpinPgImp(SetFrameData(f.s, old_id,
                                                         recheck.bucket),
                                            old_id, TRUE).s
                  /\ disk' = f.disk
                  /\ ret' = [ret EXCEPT ![t] = recheck.ok]
                  /\ pc' = [pc EXCEPT ![t] = "idle"]
                  /\ UNCHANGED <<dir, req, page, frame>>
               \/ /\ full
                  /\ dir' = d
                  /\ pool' = BPM!UnpinPgImp(BPM!UnpinPgImp(s1, old_id, TRUE).s,
                                            new_id, TRUE).s
                  /\ disk' = n.disk
                  /\ ret' = [ret EXCEPT ![t] = r.ok]
                  /\ pc' = [pc EXCEPT ![t] = "idle"]
                  /\ UNCHANGED <<req, page, frame>>
RemoveFetch(t, key, value) ==
    /\ pc[t] = "idle"
    /\ FetchForRead(t, "remove", key, value, "rem_op")

\* Mutation: the bucket unpinned clean after the remove.
RemoveOpUnpinClean(t) ==
    /\ pc[t] = "rem_op"
    /\ LET r == Bucket!Remove(FrameData(pool, page[t]), req[t].key, req[t].value)
       IN /\ pool' = BPM!UnpinPgImp(SetFrameData(pool, page[t], r.bucket),
                                    page[t], FALSE).s
          /\ ret' = [ret EXCEPT ![t] = r.ok]
    /\ pc' = [pc EXCEPT ![t] = "rem_check"]
    /\ UNCHANGED <<dir, disk, req, page, frame>>

\* Remove under the page's write latch, UnpinPage dirty, RUnlock.
RemoveOp(t) ==
    /\ pc[t] = "rem_op"
    /\ LET r == Bucket!Remove(FrameData(pool, page[t]), req[t].key, req[t].value)
       IN /\ pool' = BPM!UnpinPgImp(SetFrameData(pool, page[t], r.bucket),
                                    page[t], TRUE).s
          /\ ret' = [ret EXCEPT ![t] = r.ok]
    /\ pc' = [pc EXCEPT ![t] = "rem_check"]
    /\ UNCHANGED <<dir, disk, req, page, frame>>

\* After RUnlock: if (ret && bucket_page->IsEmpty()), through the frame.
RemoveCheckEmpty(t) ==
    /\ pc[t] = "rem_check"
    /\ pc' = [pc EXCEPT ![t] =
                IF ret[t] /\ Bucket!IsEmpty(pool.pages[frame[t]].data)
                THEN "merge" ELSE "idle"]
    /\ UNCHANGED <<dir, pool, disk, req, page, frame, ret>>

\* Mutation: DeletePage before UnpinPage.
DeleteBeforeUnpin(s, p) == BPM!UnpinPgImp(BPM!DeletePgImp(s, p).s, p, FALSE).s

\* "先unpin再删除": UnpinPage clean, then DeletePage, of a merged bucket.
UnpinAndDelete(s, p) == BPM!DeletePgImp(BPM!UnpinPgImp(s, p, FALSE).s, p).s

(***************************************************************************)
(* Merge, under the write lock: FetchBucketPage of the key's bucket; if   *)
(* it can merge, the directory update, UnpinPage clean and DeletePage;     *)
(* otherwise UnpinPage clean.                                              *)
(***************************************************************************)
Merge(t) ==
    /\ pc[t] = "merge"
    /\ Readers = {}
    /\ LET index == H!KeyToDirectoryIndex(req[t].key, dir)
           bucket_page_id == H!KeyToPageId(req[t].key, dir)
           image == Dir!GetSplitImageIndex(dir, index)
           f == BPM!FetchPgImp(pool, disk, bucket_page_id)
           merge_occur ==
               /\ dir.local_depths[index] > 0
               /\ Bucket!IsEmpty(FrameData(f.s, bucket_page_id))
               /\ dir.local_depths[image] = dir.local_depths[index]
           unpinned == BPM!UnpinPgImp(f.s, bucket_page_id, FALSE).s
       IN IF ~f.ok THEN Crash(t)
          ELSE /\ dir' = IF merge_occur
                         THEN H!MergeInto(dir, index, dir.bucket_page_ids[image])
                         ELSE dir
               /\ pool' = IF merge_occur
                          THEN UnpinAndDelete(f.s, bucket_page_id)
                          ELSE unpinned
               /\ disk' = f.disk
               /\ pc' = [pc EXCEPT ![t] = "extra_merge"]
               /\ UNCHANGED <<req, page, frame, ret>>

(***************************************************************************)
(* ExtraMerge, under the write lock, called while it returns true.  With  *)
(* local depth 0 it only unpins.  Otherwise it fetches the split image;   *)
(* if that is empty at the same local depth, the directory update,        *)
(* UnpinPage clean and DeletePage of the image, else its UnpinPage.  Last *)
(* comes UnpinPage(bucket_page_id) (line 370), of a page this call never  *)
(* fetched.                                                                *)
(***************************************************************************)
ExtraMerge(t) ==
    /\ pc[t] = "extra_merge"
    /\ Readers = {}
    /\ LET bucket_page_id == H!KeyToPageId(req[t].key, dir)
           index == H!KeyToDirectoryIndex(req[t].key, dir)
           local_depth == dir.local_depths[index]
           extra_idx == Dir!GetSplitImageIndex(dir, index)
           extra_id == dir.bucket_page_ids[extra_idx]
           f == BPM!FetchPgImp(pool, disk, extra_id)
           extra_merge_occur ==
               /\ local_depth > 0
               /\ dir.local_depths[extra_idx] = local_depth
               /\ Bucket!IsEmpty(FrameData(f.s, extra_id))
           unpinned == BPM!UnpinPgImp(f.s, extra_id, FALSE).s
           s1 == IF local_depth = 0 THEN pool
                 ELSE IF extra_merge_occur
                 THEN UnpinAndDelete(f.s, extra_id)
                 ELSE unpinned
       IN IF local_depth > 0 /\ ~f.ok THEN Crash(t)
          ELSE /\ dir' = IF extra_merge_occur
                         THEN H!MergeInto(dir, extra_idx, bucket_page_id)
                         ELSE dir
               /\ pool' = BPM!UnpinPgImp(s1, bucket_page_id, FALSE).s
               /\ disk' = IF local_depth = 0 THEN disk ELSE f.disk
               /\ pc' = [pc EXCEPT ![t] = IF extra_merge_occur
                                          THEN "extra_merge" ELSE "idle"]
               /\ UNCHANGED <<req, page, frame, ret>>

Next ==
    \E t \in Threads :
       \/ \E k \in Keys : GetValueFetch(t, k)
       \/ GetValueRead(t)
       \/ \E k \in Keys, v \in Values : InsertFetch(t, k, v)
       \/ InsertOp(t)
       \/ InsertCheckFull(t)
       \/ SplitInsert(t)
       \/ \E k \in Keys, v \in Values : RemoveFetch(t, k, v)
       \/ RemoveOp(t)
       \/ RemoveCheckEmpty(t)
       \/ Merge(t)
       \/ ExtraMerge(t)

Spec == Init /\ [][Next]_vars
-----------------------------------------------------------------------------
PageIds == 0..(NumPageIds - 1)

TypeOK ==
    /\ pool.pages \in [BPM!Frames -> [page_id : PageIds \cup {BPM!INVALID_PAGE_ID},
                                      pin_count : 0..(Cardinality(Threads) + 1),
                                      is_dirty : BOOLEAN, data : BucketData]]
    /\ DOMAIN pool.page_table \subseteq PageIds
    /\ disk \in [PageIds -> BucketData]
    /\ dir.bucket_page_ids \in [Dir!DirSlots -> PageIds]
    /\ pc \in [Threads -> {"idle", "get_op", "ins_op", "ins_check", "split",
                           "rem_op", "rem_check", "merge", "extra_merge",
                           "crashed"}]
    /\ page \in [Threads -> PageIds]
    /\ frame \in [Threads -> BPM!Frames]
    /\ ret \in [Threads -> BOOLEAN]

PinCount(p) == pool.pages[pool.page_table[p]].pin_count

(***************************************************************************)
(* The index's pins balance: the directory page is resident with exactly  *)
(* the one pin of dir_page_, each reader's bucket page is resident, and a *)
(* bucket page's pin count is the number of readers that fetched it.  So  *)
(* every write-locked section, with all its fetches, NewPage, unpins and  *)
(* deletes, leaves the pins as it found them, including ExtraMerge's       *)
(* closing UnpinPage of a page it did not fetch (extendible_hash_table.cpp *)
(* line 370), and no bucket frame is lost to a leaked pin.                 *)
(***************************************************************************)
PinsBalanced ==
    /\ DIRECTORY_PAGE_ID \in DOMAIN pool.page_table
    /\ \A t \in Readers : page[t] \in DOMAIN pool.page_table
    /\ \A p \in DOMAIN pool.page_table :
          PinCount(p) = IF p = DIRECTORY_PAGE_ID THEN 1
                        ELSE Cardinality({t \in Readers : page[t] = p})

(***************************************************************************)
(* No FetchPage or NewPage of the index returns nullptr, which             *)
(* FetchBucketPage and CreateBucketPage would dereference: a pool of one   *)
(* frame for the directory plus one per thread is never fully pinned,     *)
(* whatever the readers, splits and merges do.                            *)
(***************************************************************************)
NoNullDereference == \A t \in Threads : pc[t] # "crashed"

(***************************************************************************)
(* The pool holds only live pages of the index: a resident page is the    *)
(* directory or a bucket the directory names.  Merge and ExtraMerge must  *)
(* unpin a page before DeletePage, which refuses a pinned page; a page    *)
(* left behind keeps a frame until evicted, and is written back to disk   *)
(* if dirty.                                                               *)
(***************************************************************************)
PoolHoldsOnlyLivePages ==
    DOMAIN pool.page_table \subseteq {DIRECTORY_PAGE_ID} \cup Named

(***************************************************************************)
(* Refinement: the index on the pool implements HashTableSpec, with the   *)
(* table read from the frames and the disk.  Beyond the pool-free model,  *)
(* this says no pair is lost or revived by eviction: every page the index *)
(* changes is unpinned dirty and written back before its frame is reused, *)
(* and a deleted page's stale frame is never read back as a bucket.       *)
(***************************************************************************)
CallOf(t) ==
    IF pc[t] = "idle" \/ req[t].op = "get" THEN [op |-> "none"] ELSE req[t]

TookEffect(t) ==
    \/ pc[t] \in {"rem_check", "merge", "extra_merge"}
    \/ pc[t] = "ins_check" /\ ret[t]

Abstract == INSTANCE HashTableSpec
    WITH table <- H!Contents,
         op <- [t \in Threads |-> CallOf(t)],
         done <- [t \in Threads |-> TookEffect(t)]

ImplementsHashTableSpec == Abstract!Spec
=============================================================================
