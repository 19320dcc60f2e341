# TLA+ models of the BusTub storage core

This directory models the storage core of the repository in TLA+ and checks it with TLC. The parts modelled are:
- the LRU replacer;
- the buffer pool manager instance;
- the sharded (parallel) buffer pool;
- the extendible hash index, with its bucket and directory pages, and the bucket's bitmap bytes;
- the query executors: sequential scan, nested loop join, hash join, limit, distinct, aggregation, insert, update and delete.
- the dense matrix helper of `p0_starter.h`.

Each module follows one source file. Each `MC*.tla` / `*.cfg` pair instantiates a module for TLC. `PROJECT.json` lists the components, the runs, the mutants, and the map from every definition to the source lines it models. It also lists the findings and the hazards.

## The system and how its parts interact

| Part | Source | Role |
|---|---|---|
| LRU replacer | `src/lab3/src/buffer/lru_replacer.cpp` (same code as `src/lru_replacer.cpp`) | Orders unpinned frames. `Victim` takes the least recently unpinned frame. |
| Buffer pool instance | `src/lab1.2/buffer_pool_manager_instance.cpp` | `pool_size_` frames, a page table, a LIFO free list and the replacer, all under one `latch_`. |
| Parallel buffer pool | `src/lab1.3/parallel_buffer_pool_manager.cpp` | N instances over one disk. Page `p` lives in instance `p % N`. `NewPage` round-robins over the instances. |
| Bucket page | `src/lab3/src/storage/page/hash_table_bucket_page.cpp` (same code as `src/lab2.1/…`) | A slot array with occupied and readable bitmaps. |
| Directory page | `src/lab3/src/storage/page/hash_table_directory_page.cpp` | Global depth, and one bucket page id and one local depth per slot. |
| Extendible hash table | `src/lab3/src/container/hash/extendible_hash_table.cpp` | Insert with split and Remove with merge and cascade (`ExtraMerge`). It uses a table `ReaderWriterLatch` plus page latches. |
| Matrix helper | `src/p0_starter.h` | `RowMatrix<T>` with `GetElement`, `SetElement` and `FillFrom`, and `Add`, `Multiply` and `GEMM`. It is sequential, and no other part uses it. |
| Query executors | `src/lab3/src/execution/*_executor.cpp` | Volcano-style `Init`/`Next` iterators. A join pulls tuples from two child scans. Limit, distinct and aggregation pull from one child scan. Insert, update and delete write the table heap and its indexes. |

The hash table keeps its directory page pinned for its whole lifetime. It fetches a bucket page per operation. The buffer pool calls the replacer under its own latch.

## Modules and how they correspond to the code

- **LRUReplacer.** `lru_list_` is a sequence whose head is the list's front. `speed_map_` only indexes the same frames, so it is not kept. `Victim`, `Pin`, `Unpin` and `Size` are operators. The replacer mutex is nested inside the pool latch, so the pool's actions apply these operators atomically.
- **BufferPoolManagerInstance.** The instance is a record with these fields:
  - `pages`: per frame, `page_id`, `pin_count`, `is_dirty` and `data`;
  - `page_table`, `free_list` and `lru`;
  - `next_page_id`, `num_instances` and `instance_index`.

  Each method is an operator from (instance, disk) to (instance, disk, result). Its guards and early returns follow the source: `GetFrame`, `NewPgImp` with `AllocatePage`, `FetchPgImp`, `DeletePgImp`, `UnpinPgImp`, `FlushPgImp` and `FlushAllPgsImp`.

  The environment is a set of `Clients`. Each client calls the methods (one action per call) and writes the pages it holds:
  - `held[c]` is the set of pages client c has pinned;
  - `wrote[c]` is the set of pages c has written since it pinned them;
  - `latest` records the last content written to each page;
  - `writing[c]` is the page whose write latch c holds while it copies new content into the frame (`WriteBegin`, `WriteEnd`).

  Each call is one step because `latch_` is held for the whole method. `FlushPgImp` and `FlushAllPgsImp` copy a frame under `latch_` but not under the page latch (line 78). A copy taken while a client is writing that page is a data race. It may see part of the old content and part of the new, so `RacyCopies` lets it put any content on disk. The page is still marked clean. `NoLostWrite` then says the writer's dirty unpin makes the page dirty again, before it can be evicted.
- **ParallelBufferPoolManager.** `insts` maps each instance index to its record, reusing the instance operators through `INSTANCE`. Every call except `NewPage` is routed through `GetBufferPoolManager`. `NewPgLoop` follows the source loop `for (int i = index; i <= 2 * index; i++)` step by step:
  - it breaks on nullptr;
  - after each success it advances `index`, which also moves the loop bound;
  - an index past `instances_` would be undefined behaviour; the history variable `oob` records it.

  `NewPageAsDocumented` is an action property. It compares each `NewPage` step with the loop's comment: the call allocates exactly the page it returns, and it returns nullptr only when no shard has a frame.
- **HashTableBucketPage / HashTableDirectoryPage.** These are pure operators. The bucket scans are `RECURSIVE` and follow the source loops and their early exits. The directory's mask and shift arithmetic is exact (`LowBits` is `x & (2^n-1)`, `FlipBit` is `x ^ (1<<k)`). `VerifyIntegrity` is the directory's own debugging check, its two loops written as the three assertions they make: every LD <= GD, the same LD at every slot naming a page (the one of its first slot), and `1 << (GD - LD)` slots per page. The bitmap byte packing is abstracted to one boolean per slot.
- **ExtendibleHashTable.** The variables are:
  - `dir` and `buckets` (page id to content), and `next_page_id`;
  - per thread: `pc`, `req`, `page` and `ret`.

  Every section that holds the table latch is one atomic action:
  - read-mode `Insert` and `Remove`, which change one bucket under its page latch;
  - write-mode `SplitInsert`, `Merge` and `ExtraMerge`.

  A history variable `dup[t]` records whether an Insert's pair was already in the table when its in-place insert ran. `InsertAsDocumented` reads it. `Merge`'s masks are computed as on x86: a shift count is taken mod 32 (`ShiftBit`), and `&` is the `Bitwise` operator (`BitAnd`).

  The two reads that the code does *after* unlocking are separate actions: `InsertCheckFull` (line 136) and `RemoveCheckEmpty` (line 258). Such a read returns either value if the page has since been deleted (`IsFullAfterUnpin`, `IsEmptyAfterUnpin`). `SplitInsert` is split into its re-check branch and its split branch. `ExtraMerge` keeps the thread at `extra_merge` while it returns true, as the `while` loop does.
- **HashTableBucketBitmap.** It follows `src/lab2.1/hash_table_bucket_page.cpp`, the bucket page lab; its code is the same as lab3's copy. The two bitmaps of one bucket as functions from byte index to 0..255. `SetBit`, `ClearBit`, `IsFull` (whole bytes compared with 0xff, the last byte with the rest mask), `NumReadable` (the `n &= n-1` popcount loop) and `IsEmpty` follow the byte code. The steps are Insert of a new pair (first non-readable slot before the first unoccupied one) and Remove of a readable slot; the pairs themselves are left out, since which slot a Remove hits depends only on the bits. The bytes are decoded into the per-slot bucket of `HashTableBucketPage` through `INSTANCE`.
- **JoinExecutors.** A table is a sequence of keys; a tuple is its RID (position). A `SeqScanExecutor` is a cursor over the table that skips tuples its predicate rejects. `NLJNextImpl` and `HJNextImpl` are the two `Next` methods, each called once per engine step; a `Next` that returns false leaves the output tuple as it was, as the code does. The hash join's `array_index_` is kept at its declared width (`uint8_t`, `IndexBits = 8`), and the build (`Init`) is the map from key to the RIDs of the right child in scan order. The engine runs the nested loop query to the end and then the hash join query over the same children. `NLJState` and `HJState` are the members the two headers declare, at their declared types, and `TypeOK` checks them.
- **QueryExecutors.** The other executors, composed with `JoinExecutors` through `J == INSTANCE JoinExecutors`. The engine runs them one query after the other, once both joins are done. `stage` and `phase` say which executor the engine is in, and whether its `Init` has been called. `ex` holds that executor's members, and each `Init` and each `Next` is one action.
  - `LimitExecutor`, `DistinctExecutor` and `AggregationExecutor` read a scan of the left table. Distinct and aggregation drain the child in `Init` (`Drain`). Their containers are declared in headers that are not in `src/`. `tuples_` is a set of values, and `aht_` maps a key to its `COUNT( * )` (`InsertCombine`). The iteration order of these hash containers is unspecified, so `Init` chooses any order. `AggregationNextImpl` is the `while` loop: it skips groups the `HAVING` rejects, and advances the iterator in both branches.
  - `InsertExecutor`, `UpdateExecutor` and `DeleteExecutor` write `heap` (RID to key), `deleted` (the RIDs `MarkDelete` has marked) and `index` (a set of <<key, RID>>). The table heap is not in `src/`, so it is abstract: `InsertTuple` appends, `UpdateTuple` overwrites in place, and the iterator skips marked tuples (`Visible`). Insert takes the right table's rows, either as raw values or through a scan. Update (`Add` 1 or `Set` 0) and delete scan the table they write.
- **ExtendibleHashTableOnPool.** The same index running on a `BufferPoolManagerInstance`, whose operators it uses through `INSTANCE`. Each `FetchPage`, `NewPage`, `UnpinPage` and `DeletePage` of the source is a pool call, in source order, inside the action of its section. Bucket contents live in the pool's frames and on its disk, so a page is evicted, written back if dirty, and read again. The variables are:
  - `dir`, `pool`, `disk`;
  - per thread: `pc`, `req`, `page`, `frame` and `ret`.

  A read-locked section (`GetValue`, `Insert`, `Remove`) is two steps: `...Fetch` (RLock and `FetchBucketPage`), then `...Op`/`GetValueRead` (the bucket call and `UnpinPage`). This way the readers' fetches interleave as they do under the shared latch, and write-locked sections wait until no reader holds a pin. `frame[t]` is the `bucket_page` pointer. The post-unlock `IsFull`/`IsEmpty` read whatever page that frame holds by then, which can be another page after an eviction. A `nullptr` from the pool sets `pc` to `"crashed"`. The split, merge and routing arithmetic is taken from `ExtendibleHashTable` through `INSTANCE`. The zeroed page (`ZeroData` of the pool module) is the empty bucket. The directory stays pinned in its frame, and its content is the variable `dir`. The MC module's `VIEW` drops the locals of idle threads and the disk bytes of deleted pages, which no later step reads.
- **Matrix.** `p0_starter.h`: `RowMatrix<int>` and `RowMatrixOperations`. The handles of a program map to matrices, each a record of rows, cols and a function from cells to values. A new matrix holds any values, because `new T[cols]` leaves ints uninitialised. `GetElement`, `SetElement` and `FillFrom` follow the code. The loops of `Add` and `Multiply` are `RECURSIVE` operators (`AddLoop`, `MulLoop`, `DotLoop`). They visit cells in the code's order and stop at the first exception. `GEMM` is Multiply followed by Add. Each call is one step, and the history variable `last` records its arguments and outcome. `Documented` is the reference: the header comments with the sum and product written as plain definitions.
- **HashTableSpec** is the abstract specification of the index: a set of pairs. Each caller's Insert or Remove changes the set at most once, by its own operation, between invocation and return. `ExtendibleHashTable` is shown to implement it through `INSTANCE HashTableSpec WITH table <- Contents, op <- …, done <- …`, checked as the property `ImplementsHashTableSpec`.

## Runs

| Run | Config | Expect | What it shows |
|---|---|---|---|
| bpm_instance | `MCBufferPoolManagerInstance.cfg` | pass | 2 clients, 2 frames, 3 page ids, 2 data values. Checks `FramesAccounted`: every frame is either free or holds one page, and it is in the replacer iff its pin count is 0. Checks `PinsMatchHolders`. Checks `NoLostWrite`: no write is lost through eviction, flush or unpin, including a flush that races a write in progress and copies a torn page. |
| hash_table | `MCExtendibleHashTable.cfg` | pass | 2 threads, 3 keys, 1-slot buckets, directory up to depth 3. Checks `DirectoryIntegrity` (VerifyIntegrity in strong form, plus live pages = named pages). Checks `LookupsComplete` and the refinement `ImplementsHashTableSpec`. |
| hash_table_live | `MCExtendibleHashTableLive.cfg` | pass | `CallsReturn` under weak fairness: every call returns, and the ExtraMerge loop ends. |
| joins | `MCQueryExecutors.cfg` | pass | Every pair of tables of at most 2 rows over keys {0,1}, every scan predicate and join predicate, LIMIT 0, 1 and 3, with and without `HAVING COUNT( * ) >= 2`, both update types, raw and child inserts. Both joins emit exactly the nested-loop join of the filtered children, in order, and then stop (`NestedLoopJoinCorrect`, `HashJoinCorrect`). Limit, distinct and aggregation return exactly their reference results (`LimitCorrect`, `DistinctCorrect`, `AggregationCorrect`). After every call the index holds exactly the live rows (`IndexConsistent`). INSERT, UPDATE and DELETE leave the table their plans describe, each scanned row updated once (`TableWritesCorrect`). |
| bucket_bitmap | `MCHashTableBucketBitmap.cfg` | pass | A 10-slot bucket (two bytes, rest 2). `BitmapQueriesAgree`: the byte-wise queries agree with the per-slot bits. `ScanStopSound`: readable implies occupied, and occupied slots are a prefix. `StepsAreSlotSteps`: every byte step is a step of the per-slot bucket. |
| hash_pool | `MCExtendibleHashTableOnPool.cfg` | pass | The index of `hash_table` (2 threads, 3 keys) on a 3-frame pool. `PinsBalanced`: the directory has its one pin, and every bucket page's pin count is the number of readers that fetched it, through every split and merge, including ExtraMerge's unpin of a page it never fetched (line 370). `NoNullDereference`: no fetch fails. `PoolHoldsOnlyLivePages`: deleted pages leave the pool. `ImplementsHashTableSpec` holds with the table read from frames and disk. |
| parallel_bpm | `MCParallelBufferPoolManager.cfg` | pass | 3 shards of 1 frame. Calls are routed to the owning shard. `NewPageInBounds` holds: the loop never reads past `instances_`. `ShardsKeepWrites` holds: the last write to each live page is in its owner's frame or on the shared disk. Eviction and reload happen only on shard 2. NewPage returns only pages of the last shard its loop reaches, and it leaves a pin with no holder on the pages it allocates on shards 0 and 1. A larger pool does not change this: with two frames per shard, shards 0 and 1 still hold only pinned pages. |
| hash_insert_fails | `MCExtendibleHashTableInsertFails.cfg` | violation | `InsertAsDocumented`: an Insert returns false only for a pair already present, and a duplicate never makes a split. TLC's trace is a duplicate insert into a full bucket, which splits. Three other scenarios were checked reachable: repeated duplicate splits push global depth past the directory array; two keys that collide on every bit cannot be separated, so the new pair is refused; a Remove between Insert's unlock and its `IsFull` read. |
| parallel_new_page | `MCParallelBufferPoolManagerNewPage.cfg` | violation | `NewPageAsDocumented`: one `NewPage` pins a page on each shard but returns one, and the others stay pinned with no holder (TLC's trace). With the loop made to return at its first success, `NewPage` still fails when its start shard is full although another shard has a free frame. Both were checked reachable. |
| hash_join_overflow | `MCJoinExecutorsOverflow.cfg` | violation | A left row matching 256 right rows: `array_index_` wraps to 0 and the join emits the same matches again, forever. |
| matrix_documented | `MCMatrix.cfg` | violation | `OperationsAsDocumented`, with two handles and matrices up to 2 x 2 over {0,1}. TLC's trace constructs a matrix and reads row 0, and `GetElement` throws. With get and set left out of the property, `Add` of two 1 x 1 matrices throws instead of returning their sum. With the bounds test written `i<0`, every Add, Multiply and GetElement of matrices up to 2 x 2 agrees with the reference. |
| hash_pool_small | `MCExtendibleHashTableOnPoolSmall.cfg` | violation | On 2 frames, the first split's `NewPage` fails while the directory and the old bucket are pinned, and `CreateBucketPage` dereferences `nullptr`. |

The findings are written up in `PROJECT.json` under `findings`. In short:
- the sharded `NewPgImp` leaks pins and never wraps around (spec.md §4.3 and §9 already flag this loop);
- `Insert`'s stale `IsFull` read loses inserts;
- a split that cannot separate the keys is reported like a duplicate, where spec.md §7 says it is fatal;
- a duplicate insert into a full bucket triggers a split, repeatedly, up to a directory overflow;
- the index dereferences a `nullptr` page when the pool is fully pinned, and a split needs three frames (spec.md §7 says no component crashes);
- `GetElement` and `SetElement` reject row 0 (`i<=0`), so the matrix operations throw on every non-empty matrix;
- the hash join's `uint8_t array_index_` wraps when one key matches 256 or more right tuples, so `Next` never returns false.

Each property of a passing run has a mutant in `PROJECT.json`. A mutant is a plausible coding slip in the mapped definition, and the property catches it. The mutants are:
- a dropped nullptr check;
- a pin count set instead of incremented;
- a replacer `Pin` dropped on delete;
- `is_dirty_` assigned instead of or-ed;
- a missing local-depth increment;
- the rehash run before the directory update;
- Merge without its re-check, or without its `local_depth > 0` test;
- ExtraMerge returning true unconditionally;
- routing off by one shard;
- the parallel pool's `UnpinPgImp` forwarding `is_dirty = false`;
- the loop bound frozen at `2*start_index`;
- a bucket unpinned clean after Remove;
- GetValue without its unpin, or the constructor keeping the first bucket pinned;
- DeletePage before UnpinPage in a merge;
- a frame id confused with a page id;
- the inner scan of the nested loop join not restarted;
- the hash join probing only the first match;
- a scan that skips a tuple after a rejected one;
- a limit test `>` for `>=`;
- distinct keeping duplicates;
- an aggregate not combined into an existing group;
- the updated entry indexed under `update_rid`;
- the raw-value end test one value early;
- a bit set with `+=` instead of `|=`, in the wrong byte, or the occupied bit left out;
- the `IsFull` rest mask taken as `1 << rest`.

## Bounds and why they suffice

- **Buffer pool.** Two frames and three page ids make eviction, reuse of a freed frame and refetch of an evicted dirty page all happen. Two clients make a page with two holders, which is where `is_dirty` being sticky matters. Clients are a symmetry set.
- **Hash table.** One slot per bucket means every second key splits. Three keys with identity hashes reach global depth 2 and 3, both branches of the split (repoint and double), merges, cascaded `ExtraMerge` and directory halving. Two threads give every interleaving of one locked section with another and with the post-unlock reads. `MaxPageId` bounds how many pages are allocated, which bounds the splits. Per-thread program points are reported by TLC coverage, and every action and both outcomes of each branch fire.
- **Hash table on the pool.** Three frames: one for the directory and one per thread, the least that `NoNullDereference` needs with two threads and that a split needs. `MaxPageId = 3` lets inserts start until the second bucket exists; the splits in flight then make up to three buckets for two free frames, so buckets are evicted and fetched again, and post-unlock reads find their frame holding another page (both checked reachable). With two threads, inserts no longer start once there are three buckets, so an insert into a bucket that was evicted and fetched again is not reached at this bound; a remove into one is. The state space of `hash_pool` is about 150,000 states, and one more page id with two threads goes past several million.
- **Matrix.** Row 0 and column 0 exist in every non-empty matrix, so the off-by-one shows at 1 x 1. Sizes 0 to 2 give empty matrices, mismatched sizes for Add, and a Multiply with an inner dimension of 2. Indices -1..2 cover every bound of the range test. The space is not explored to the end. The run stops at its violation, and the operators were compared with the reference separately, over every pair of matrices up to 2 x 2.
- **Executors.** The same tables and predicates as the joins. A LIMIT of 0, of 1 (the limit runs out first) and of 3 (the child runs out first). A HAVING that keeps only a group of two rows. `Add 1` moves a row's key out of every scan predicate; `Set 0` keeps it in the update's own predicate, so a scan that met an updated row again would update it twice. The space is about 1.3 million states.
- **Joins.** Tables of 0, 1 and 2 rows over two keys, with every subset of keys as scan predicate and equality, `<` and always-true as join predicates: empty children, a left tuple with no match, with one and with two matches, and filtered rows in every position. The overflow needs 256 right rows, so that run has one left row, 256 right rows of the same key and `IndexBits` at its real width 8.
- **Bitmap.** Ten slots span two bytes and leave a rest of 2 bits in the last byte, so both the whole-byte test and the rest mask of `IsFull` are exercised, and `ClearBit` and `SetBit` act on both bytes.
- **Parallel pool.** Three shards are the smallest number where the start index visits a middle shard. One frame per shard makes "shard full" reachable in a few steps.

## Fairness

`FairSpec` gives weak fairness to each step a thread takes *inside* a call:
- the post-unlock checks;
- the split;
- Merge and ExtraMerge.

The OS schedules every runnable thread. The table latch is released at the end of every section, so each such step stays enabled until taken. Starting a new call is never required.

The executor runs set `CHECK_DEADLOCK FALSE`. The engine stops once the last query's `Next` has returned false, which is its end state. The re-check and the split are one program point (`SplitInsert`) and share one fairness condition.

## Not modelled, and why

- **In the query executors:**
  - the lock manager calls and the transaction's `IndexWriteRecord`s, which serve isolation and abort (not in `src/`);
  - aggregates other than `COUNT( * )`;
  - more than one index.

  Tuples have one column, the key. An `INSERT` whose child scans its own target table is left out: whether the table iterator reaches tuples appended after its creation depends on `TableHeap`, which is not in `src/`.
- **The matrix destructors**: they free memory and nothing else. Element overflow of `int` cannot happen with values in {0,1} and 2 x 2 matrices, and it is not a property here.
- **The disk manager and page latches**: not in `src/`. The disk is a function from page id to content, and a disk write is atomic. The page latch is modelled only as far as the buffer pool's flush race needs: a client's write of a page is two steps.
- **The lock manager and transactions**: not in `src/`.
- **`GetGlobalDepth`, and the fetch and unpin around `VerifyIntegrity`.** They fetch and unpin the always-pinned directory page, which changes no state. The check itself is modelled and is part of `DirectoryIntegrity`. The `UnpinPage` is written inside `assert(...)` (lines 382 and 395). A build with `NDEBUG` drops the call, so every call leaves one more pin on the directory page. The directory is never unpinned anyway, so no property can tell the difference. It is listed as a hazard.
- **Another user of the index's pool.** `ExtendibleHashTableOnPool` gives the pool to the index alone. The extra unpin at line 370 would take a pin from anyone else holding the same page, and no such holder exists here.

## Plan for later work

1. No liveness run is planned for the buffer pool. No pool method waits: `NewPage` and `FetchPage` return nullptr when no frame is free, and every method runs to its end under `latch_`. A property that a client eventually gets a frame would be about the callers' retries, not about this code. The one place in `src/` where threads wait on each other is the hash table's latch, and `hash_table_live` checks it (`CallsReturn`).
