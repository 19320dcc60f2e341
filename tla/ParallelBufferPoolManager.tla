--------------------- MODULE ParallelBufferPoolManager ---------------------
(***************************************************************************)
(* The sharded buffer pool, src/lab1.3/parallel_buffer_pool_manager.cpp:   *)
(* NumInstances BufferPoolManagerInstances over one disk.  Page p belongs  *)
(* to instance p % num_instances_ (each instance allocates ids             *)
(* instance_index_, instance_index_ + num_instances_, ...), and every call *)
(* but NewPage is passed to that instance, whose latch makes it atomic.    *)
(* NewPgImp runs its loop over instances under no latch of its own; it is  *)
(* modelled as one step, since its own loop is what is at issue here.      *)
(* The clients are those of BufferPoolManagerInstance.                     *)
(***************************************************************************)
EXTENDS Integers, FiniteSets, Functions, TLC

CONSTANTS NumInstances, PoolSize, MaxPageId, Data, ZeroData, Clients

ASSUME NumInstances \in Nat \ {0}

VARIABLES
    insts,        \* instances_: the record of each BufferPoolManagerInstance
    disk,         \* the shared DiskManager
    start_index,  \* start_index_
    held, wrote, live, latest,  \* the clients, as in BufferPoolManagerInstance
    oob           \* history: NewPgImp has read instances_[i], i >= size

vars == <<insts, disk, start_index, held, wrote, live, latest, oob>>

Instances == 0..(NumInstances - 1)

\* The instance operators; bpm is unused by them.
BPMI == INSTANCE BufferPoolManagerInstance
    WITH bpm <- insts[0], writing <- [c \in Clients |-> -1]

PageIds == BPMI!PageIds

INVALID_PAGE_ID == BPMI!INVALID_PAGE_ID

\* The constructor.
Init ==
    /\ insts = [i \in Instances |-> BPMI!NewInstance(NumInstances, i)]
    /\ disk = [p \in PageIds |-> ZeroData]
    /\ start_index = 0
    /\ held = [c \in Clients |-> {}]
    /\ wrote = [c \in Clients |-> {}]
    /\ live = {}
    /\ latest = [p \in PageIds |-> ZeroData]
    /\ oob = FALSE

\* Mutation: routing off by one shard.
GetBufferPoolManagerOffByOne(page_id) == (page_id + 1) % NumInstances

\* GetBufferPoolManager: instances_[page_id % num_instances_].
GetBufferPoolManager(page_id) == page_id % NumInstances

\* Mutation: the bound read once, as if index were not advanced.
RECURSIVE NewPgLoopFixedBound(_, _, _, _, _, _)
NewPgLoopFixedBound(is, d, i, index, last, allocated) ==
    IF i > 2 * index
    THEN [insts |-> is, disk |-> d, page_id |-> last,
          allocated |-> allocated, oob |-> FALSE]
    ELSE IF i >= NumInstances
    THEN [insts |-> is, disk |-> d, page_id |-> INVALID_PAGE_ID,
          allocated |-> allocated, oob |-> TRUE]
    ELSE LET r == BPMI!NewPgImp(is[i], d)
         IN IF r.page_id = INVALID_PAGE_ID
            THEN [insts |-> [is EXCEPT ![i] = r.s], disk |-> r.disk,
                  page_id |-> INVALID_PAGE_ID, allocated |-> allocated,
                  oob |-> FALSE]
            ELSE NewPgLoopFixedBound([is EXCEPT ![i] = r.s], r.disk, i + 1,
                                     index, r.page_id,
                                     allocated \cup {r.page_id})

(***************************************************************************)
(* The loop of NewPgImp:                                                   *)
(*   for (int i = index; i <= 2 * index; i++)                              *)
(* calling instances_[i]->NewPage, breaking on nullptr, and after each     *)
(* success advancing index = (index + 1) % num_instances_, which moves the *)
(* loop's own bound.  Each success allocates and pins a page, and page_id  *)
(* is overwritten with the latest.  An i past the end of instances_ is     *)
(* undefined behaviour: the loop is ended there, returning nullptr, and    *)
(* oob records it.                                                         *)
(***************************************************************************)
RECURSIVE NewPgLoop(_, _, _, _, _, _)
NewPgLoop(is, d, i, index, last, allocated) ==
    IF i > 2 * index
    THEN [insts |-> is, disk |-> d, page_id |-> last,
          allocated |-> allocated, oob |-> FALSE]
    ELSE IF i >= NumInstances
    THEN [insts |-> is, disk |-> d, page_id |-> INVALID_PAGE_ID,
          allocated |-> allocated, oob |-> TRUE]
    ELSE LET r == BPMI!NewPgImp(is[i], d)
         IN IF r.page_id = INVALID_PAGE_ID
            THEN [insts |-> [is EXCEPT ![i] = r.s], disk |-> r.disk,
                  page_id |-> INVALID_PAGE_ID, allocated |-> allocated,
                  oob |-> FALSE]
            ELSE NewPgLoop([is EXCEPT ![i] = r.s], r.disk, i + 1,
                           (index + 1) % NumInstances,
                           r.page_id, allocated \cup {r.page_id})

\* NewPage: the loop, then start_index_ moves on.  The caller learns only
\* the returned id; every page allocated on the way is live.
NewPage(c) ==
    /\ \A i \in Instances : insts[i].next_page_id < MaxPageId
    /\ LET r == NewPgLoop(insts, disk, start_index, start_index,
                          INVALID_PAGE_ID, {})
       IN /\ insts' = r.insts
          /\ disk' = r.disk
          /\ oob' = (oob \/ r.oob)
          /\ live' = live \cup r.allocated
          /\ latest' = [p \in PageIds |->
                          IF p \in r.allocated THEN ZeroData ELSE latest[p]]
          /\ held' = IF r.page_id = INVALID_PAGE_ID THEN held
                     ELSE [held EXCEPT ![c] = @ \cup {r.page_id}]
    /\ start_index' = (start_index + 1) % NumInstances
    /\ UNCHANGED wrote

FetchPage(c, p) ==
    /\ p \in live \ held[c]
    /\ LET i == GetBufferPoolManager(p)
           r == BPMI!FetchPgImp(insts[i], disk, p)
       IN /\ insts' = [insts EXCEPT ![i] = r.s]
          /\ disk' = r.disk
          /\ held' = IF r.ok THEN [held EXCEPT ![c] = @ \cup {p}] ELSE held
    /\ UNCHANGED <<start_index, wrote, live, latest, oob>>

WritePage(c, p, d) ==
    /\ p \in held[c]
    /\ LET i == GetBufferPoolManager(p)
       IN insts' = [insts EXCEPT
                      ![i].pages[insts[i].page_table[p]].data = d]
    /\ wrote' = [wrote EXCEPT ![c] = @ \cup {p}]
    /\ latest' = [latest EXCEPT ![p] = d]
    /\ UNCHANGED <<disk, start_index, held, live, oob>>

\* Mutation: UnpinPgImp forwards is_dirty = false to the instance.
UnpinPageDropsDirty(c, p) ==
    /\ p \in held[c]
    /\ LET i == GetBufferPoolManager(p)
       IN insts' = [insts EXCEPT ![i] = BPMI!UnpinPgImp(insts[i], p, FALSE).s]
    /\ held' = [held EXCEPT ![c] = @ \ {p}]
    /\ wrote' = [wrote EXCEPT ![c] = @ \ {p}]
    /\ UNCHANGED <<disk, start_index, live, latest, oob>>

UnpinPage(c, p) ==
    /\ p \in held[c]
    /\ LET i == GetBufferPoolManager(p)
       IN \E is_dirty \in BOOLEAN :
             /\ p \in wrote[c] => is_dirty
             /\ insts' = [insts EXCEPT
                            ![i] = BPMI!UnpinPgImp(insts[i], p, is_dirty).s]
    /\ held' = [held EXCEPT ![c] = @ \ {p}]
    /\ wrote' = [wrote EXCEPT ![c] = @ \ {p}]
    /\ UNCHANGED <<disk, start_index, live, latest, oob>>

FlushPage(p) ==
    /\ LET i == GetBufferPoolManager(p)
           r == BPMI!FlushPgImp(insts[i], disk, p)
       IN insts' = [insts EXCEPT ![i] = r.s] /\ disk' = r.disk
    /\ UNCHANGED <<start_index, held, wrote, live, latest, oob>>

\* FlushAllPgsImp: FlushAllPages on every instance, one after the other.
FlushAllPages ==
    /\ LET step(i, acc) ==
              LET r == BPMI!FlushAllPgsImp(acc.insts[i], acc.disk)
              IN [insts |-> [acc.insts EXCEPT ![i] = r.s], disk |-> r.disk]
           r == FoldFunctionOnSet(step, [insts |-> insts, disk |-> disk],
                                  [i \in Instances |-> i], Instances)
       IN insts' = r.insts /\ disk' = r.disk
    /\ UNCHANGED <<start_index, held, wrote, live, latest, oob>>

DeletePage(p) ==
    /\ p \in live
    /\ LET i == GetBufferPoolManager(p)
           r == BPMI!DeletePgImp(insts[i], p)
       IN /\ insts' = [insts EXCEPT ![i] = r.s]
          /\ live' = IF r.ok THEN live \ {p} ELSE live
    /\ UNCHANGED <<disk, start_index, held, wrote, latest, oob>>

Next ==
    \/ \E c \in Clients : NewPage(c)
    \/ \E c \in Clients, p \in PageIds : FetchPage(c, p)
    \/ \E c \in Clients, p \in PageIds, d \in Data : WritePage(c, p, d)
    \/ \E c \in Clients, p \in PageIds : UnpinPage(c, p)
    \/ \E p \in PageIds : FlushPage(p)
    \/ FlushAllPages
    \/ \E p \in PageIds : DeletePage(p)

Spec == Init /\ [][Next]_vars

-----------------------------------------------------------------------------
TypeOK ==
    /\ DOMAIN insts = Instances
    /\ \A i \in Instances :
          /\ DOMAIN insts[i].page_table \subseteq
                {p \in PageIds : GetBufferPoolManager(p) = i}
          /\ insts[i].next_page_id % NumInstances = i
    /\ start_index \in Instances
    /\ disk \in [PageIds -> Data]
    /\ held \in [Clients -> SUBSET PageIds]
    /\ live \subseteq PageIds
    /\ oob \in BOOLEAN

\* An instance can supply a frame: its free list or its replacer is not empty.
HasFrame(i) == insts[i].free_list # <<>> \/ insts[i].lru # <<>>

(***************************************************************************)
(* NewPgImp indexes only instances that exist.  Its loop runs i from      *)
(* start_index_ while i <= 2 * index, and index wraps to 0 once i reaches *)
(* num_instances_, so the bound is 0 exactly when i would first leave     *)
(* instances_.  Broken if the bound stopped moving with index.            *)
(***************************************************************************)
NewPageInBounds == ~oob

(***************************************************************************)
(* No write is lost across the shards: the content a client last gave a   *)
(* live page is in the frame of the instance GetBufferPoolManager routes  *)
(* it to while that instance holds it, and on the shared disk otherwise.  *)
(* It fails if a call reached a shard other than the page's owner, or if  *)
(* an unpin lost the dirty flag on the way to the instance.  NewPgImp's    *)
(* loop hands its caller only a page of the last shard it reaches (the    *)
(* others keep a pin nobody holds), so on three shards eviction and       *)
(* reload happen on shard 2 only.  Shards 0 and 1 see routed fetches,     *)
(* writes and unpins of their leaked pages, which are never evicted.      *)
(***************************************************************************)
ShardsKeepWrites ==
    \A p \in live :
        LET i == GetBufferPoolManager(p)
        IN IF p \in DOMAIN insts[i].page_table
           THEN insts[i].pages[insts[i].page_table[p]].data = latest[p]
           ELSE disk[p] = latest[p]

(***************************************************************************)
(* NewPage does what NewPgImp's comment says: it calls NewPageImpl "until  *)
(* either 1) success and return 2) looped around to starting index and     *)
(* return nullptr" (spec.md 4.3).  So a call that hands its caller a page  *)
(* allocates that page and no other, and a call that returns nullptr       *)
(* allocates nothing and happens while no instance has a frame.  A page    *)
(* allocated and not returned stays pinned with no holder, its frame lost  *)
(* to its instance.                                                        *)
(***************************************************************************)
NewPageAsDocumented ==
    [][\A c \in Clients :
          NewPage(c) =>
             IF held'[c] = held[c]
             THEN live' = live /\ \A i \in Instances : ~HasFrame(i)
             ELSE live' \ live = held'[c] \ held[c]]_vars
=============================================================================
