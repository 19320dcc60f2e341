--------------------- MODULE BufferPoolManagerInstance ---------------------
(***************************************************************************)
(* One buffer pool instance, src/lab1.2/buffer_pool_manager_instance.cpp.  *)
(*                                                                         *)
(* Every public method takes the instance's latch_ for its whole body, so  *)
(* each call is one atomic step.  The methods are written as operators on  *)
(* a record holding the instance's fields (pages_, page_table_,            *)
(* free_list_, the replacer's list, next_page_id_, num_instances_,         *)
(* instance_index_) and on the shared disk, so that ParallelBufferPool can *)
(* reuse them for each of its instances.  Page contents are abstracted to  *)
(* a member of the small set Data; ZeroData stands for the zeroed page.   *)
(*                                                                         *)
(* The second half of the module is the environment: Clients that create,  *)
(* fetch, write, unpin, flush and delete pages through the public methods, *)
(* following the caller's contract (write only a page you pinned, unpin   *)
(* it dirty if you wrote it).                                              *)
(***************************************************************************)
EXTENDS Integers, Sequences, SequencesExt, FiniteSets, Functions, TLC

CONSTANTS
    PoolSize,    \* pool_size_: number of frames
    MaxPageId,   \* bound: page ids 0..MaxPageId-1 may be allocated
    Data,        \* page contents
    ZeroData,    \* the content of a zeroed page (ResetMemory)
    Clients      \* threads calling the pool

ASSUME PoolSize \in Nat \ {0} /\ MaxPageId \in Nat \ {0} /\ ZeroData \in Data

LOCAL Replacer == INSTANCE LRUReplacer

Frames == 0..(PoolSize - 1)
PageIds == 0..(MaxPageId - 1)
INVALID_PAGE_ID == -1
NUMLL_FRAME == -1

\* A Page object with its metadata reset (the state of a frame never used
\* or returned to the free list).
ResetPage == [page_id |-> INVALID_PAGE_ID, pin_count |-> 0,
              is_dirty |-> FALSE, data |-> ZeroData]

\* page_table_.erase(k) and page_table_[k] = v
Erase(pt, k) == Restrict(pt, DOMAIN pt \ {k})
Put(pt, k, v) == (k :> v) @@ Erase(pt, k)

\* The constructor: every frame on the free list in order 0..pool_size-1.
NewInstance(num_instances, instance_index) ==
    [pages |-> [f \in Frames |-> ResetPage],
     page_table |-> [p \in {} |-> NUMLL_FRAME],
     free_list |-> [i \in 1..PoolSize |-> i - 1],
     lru |-> <<>>,
     next_page_id |-> instance_index,
     num_instances |-> num_instances,
     instance_index |-> instance_index]

(***************************************************************************)
(* GetFrame: the back of the free list, else the replacer's victim, whose  *)
(* page is written back if dirty and erased from the page table.           *)
(***************************************************************************)
GetFrame(s, disk) ==
    IF s.free_list # <<>>
    THEN [frame |-> Last(s.free_list),
          s |-> [s EXCEPT !.free_list = Front(@)], disk |-> disk]
    ELSE IF ~Replacer!CanVictim(s.lru)
    THEN [frame |-> NUMLL_FRAME, s |-> s, disk |-> disk]
    ELSE LET f == Replacer!VictimFrame(s.lru)
             victim == s.pages[f].page_id
         IN [frame |-> f,
             s |-> [s EXCEPT !.lru = Replacer!Victim(@),
                             !.page_table = Erase(@, victim)],
             disk |-> IF s.pages[f].is_dirty
                      THEN [disk EXCEPT ![victim] = s.pages[f].data]
                      ELSE disk]

\* The frame f now holds page_id, pinned once and clean.
Install(s, f, page_id, data) ==
    [s EXCEPT !.page_table = Put(@, page_id, f),
              !.pages[f] = [page_id |-> page_id, pin_count |-> 1,
                            is_dirty |-> FALSE, data |-> data]]

\* Mutation: NewPgImp without the nullptr check on GetFrame's result.
NewPgImpNoFrameCheck(s, disk) ==
    LET g == GetFrame(s, disk)
        new_page_id == s.next_page_id
    IN [s |-> [Install(g.s, g.frame, new_page_id, ZeroData)
                  EXCEPT !.next_page_id = @ + s.num_instances],
        disk |-> [g.disk EXCEPT ![new_page_id] = ZeroData],
        page_id |-> new_page_id]

(***************************************************************************)
(* NewPgImp: a frame, a fresh id from AllocatePage (next_page_id_ advances *)
(* by num_instances_), a zeroed frame, written to disk at once.  Result    *)
(* page_id is INVALID_PAGE_ID for nullptr.                                 *)
(***************************************************************************)
NewPgImp(s, disk) ==
    LET g == GetFrame(s, disk)
        new_page_id == s.next_page_id
    IN IF g.frame = NUMLL_FRAME
       THEN [s |-> s, disk |-> disk, page_id |-> INVALID_PAGE_ID]
       ELSE [s |-> [Install(g.s, g.frame, new_page_id, ZeroData)
                       EXCEPT !.next_page_id = @ + s.num_instances],
             disk |-> [g.disk EXCEPT ![new_page_id] = ZeroData],
             page_id |-> new_page_id]

\* Mutation: a hit sets the pin count to 1 instead of incrementing it.
FetchPgImpResetsPin(s, disk, page_id) ==
    IF page_id \in DOMAIN s.page_table
    THEN LET f == s.page_table[page_id]
         IN [s |-> [s EXCEPT !.lru = Replacer!Pin(@, f),
                             !.pages[f].pin_count = 1],
             disk |-> disk, ok |-> TRUE]
    ELSE LET g == GetFrame(s, disk)
         IN IF g.frame = NUMLL_FRAME
            THEN [s |-> s, disk |-> disk, ok |-> FALSE]
            ELSE [s |-> Install(g.s, g.frame, page_id, g.disk[page_id]),
                  disk |-> g.disk, ok |-> TRUE]

(***************************************************************************)
(* FetchPgImp: a resident page is pinned once more (and leaves the         *)
(* replacer if its pin count was 0); otherwise a frame is obtained and the *)
(* page read from disk.  ok is FALSE for nullptr.                          *)
(***************************************************************************)
FetchPgImp(s, disk, page_id) ==
    IF page_id \in DOMAIN s.page_table
    THEN LET f == s.page_table[page_id]
         IN [s |-> [s EXCEPT
                      !.lru = IF s.pages[f].pin_count = 0
                              THEN Replacer!Pin(@, f) ELSE @,
                      !.pages[f].pin_count = @ + 1],
             disk |-> disk, ok |-> TRUE]
    ELSE LET g == GetFrame(s, disk)
         IN IF g.frame = NUMLL_FRAME
            THEN [s |-> s, disk |-> disk, ok |-> FALSE]
            ELSE [s |-> Install(g.s, g.frame, page_id, g.disk[page_id]),
                  disk |-> g.disk, ok |-> TRUE]

\* Mutation: DeletePgImp without replacer_->Pin(frame_id).
DeletePgImpKeepsCandidate(s, page_id) ==
    IF page_id \notin DOMAIN s.page_table THEN [s |-> s, ok |-> TRUE]
    ELSE LET f == s.page_table[page_id]
         IN IF s.pages[f].pin_count # 0 THEN [s |-> s, ok |-> FALSE]
            ELSE [s |-> [s EXCEPT !.page_table = Erase(@, page_id),
                                  !.free_list = Append(@, f),
                                  !.pages[f] = [ResetPage EXCEPT
                                                  !.data = s.pages[f].data]],
                  ok |-> TRUE]

(***************************************************************************)
(* DeletePgImp: TRUE if not resident; FALSE if pinned; otherwise the page  *)
(* leaves the page table and the replacer, its frame is reset and pushed   *)
(* on the free list, and its content is discarded without a write.         *)
(***************************************************************************)
DeletePgImp(s, page_id) ==
    IF page_id \notin DOMAIN s.page_table THEN [s |-> s, ok |-> TRUE]
    ELSE LET f == s.page_table[page_id]
         IN IF s.pages[f].pin_count # 0 THEN [s |-> s, ok |-> FALSE]
            ELSE [s |-> [s EXCEPT !.page_table = Erase(@, page_id),
                                  !.lru = Replacer!Pin(@, f),
                                  !.free_list = Append(@, f),
                                  !.pages[f] = [ResetPage EXCEPT
                                                  !.data = s.pages[f].data]],
                  ok |-> TRUE]

\* Mutation: is_dirty_ = is_dirty, the assignment the source warns against.
UnpinPgImpAssignsDirty(s, page_id, is_dirty) ==
    IF page_id \notin DOMAIN s.page_table THEN [s |-> s, ok |-> FALSE]
    ELSE LET f == s.page_table[page_id]
             pins == s.pages[f].pin_count - 1
         IN IF s.pages[f].pin_count <= 0 THEN [s |-> s, ok |-> FALSE]
            ELSE [s |-> [s EXCEPT
                           !.pages[f].is_dirty = is_dirty,
                           !.pages[f].pin_count = pins,
                           !.lru = IF pins = 0 THEN Replacer!Unpin(@, f)
                                   ELSE @],
                  ok |-> TRUE]

(***************************************************************************)
(* UnpinPgImp: FALSE if not resident or already at pin count 0.  The dirty *)
(* flag is only ever set here, never cleared; at pin count 0 the frame is  *)
(* handed to the replacer.                                                 *)
(***************************************************************************)
UnpinPgImp(s, page_id, is_dirty) ==
    IF page_id \notin DOMAIN s.page_table THEN [s |-> s, ok |-> FALSE]
    ELSE LET f == s.page_table[page_id]
             pins == s.pages[f].pin_count - 1
         IN IF s.pages[f].pin_count <= 0 THEN [s |-> s, ok |-> FALSE]
            ELSE [s |-> [s EXCEPT
                           !.pages[f].is_dirty = @ \/ is_dirty,
                           !.pages[f].pin_count = pins,
                           !.lru = IF pins = 0 THEN Replacer!Unpin(@, f)
                                   ELSE @],
                  ok |-> TRUE]

\* FlushPgImp: writes a resident page unconditionally and marks it clean.
FlushPgImp(s, disk, page_id) ==
    IF page_id \notin DOMAIN s.page_table
    THEN [s |-> s, disk |-> disk, ok |-> FALSE]
    ELSE LET f == s.page_table[page_id]
         IN [s |-> [s EXCEPT !.pages[f].is_dirty = FALSE],
             disk |-> [disk EXCEPT ![page_id] = s.pages[f].data],
             ok |-> TRUE]

\* FlushAllPgsImp: the same for every page in the page table.
FlushAllPgsImp(s, disk) ==
    LET pt == s.page_table
    IN [s |-> [s EXCEPT !.pages = [f \in Frames |->
                  IF f \in Range(pt) THEN [s.pages[f] EXCEPT !.is_dirty = FALSE]
                  ELSE s.pages[f]]],
        disk |-> [p \in DOMAIN disk |->
                  IF p \in DOMAIN pt THEN s.pages[pt[p]].data ELSE disk[p]]]

-----------------------------------------------------------------------------
(***************************************************************************)
(* Environment: clients of one instance (num_instances_ = 1).  held[c] is  *)
(* the set of pages c has pinned, wrote[c] those it modified since, and    *)
(* live the pages allocated and not deleted.  latest[p] is a history       *)
(* variable: the last content any client gave page p.  A write holds the   *)
(* page's write latch and not the pool latch, so it is two steps, and      *)
(* FlushPgImp, GetFrame or FlushAllPgsImp may copy the frame in between:  *)
(* writing[c] is the page c is writing, or INVALID_PAGE_ID.                *)
(***************************************************************************)
VARIABLES bpm, disk, held, wrote, live, latest, writing

vars == <<bpm, disk, held, wrote, live, latest, writing>>

\* The pages whose write latch a client holds.
BeingWritten == {writing[c] : c \in Clients} \ {INVALID_PAGE_ID}

\* A copy of a frame taken while its bytes are being written is a data
\* race: it may see part of the old and part of the new content, so it
\* can put any content on disk.  The disk after copying the frames of the
\* pages in copied, when the copy would have given d.
RacyCopies(d, copied) ==
    {[q \in PageIds |-> IF q \in copied \cap BeingWritten THEN x[q] ELSE d[q]] :
        x \in [copied \cap BeingWritten -> Data]}

Init ==
    /\ bpm = NewInstance(1, 0)
    /\ disk = [p \in PageIds |-> ZeroData]
    /\ held = [c \in Clients |-> {}]
    /\ wrote = [c \in Clients |-> {}]
    /\ live = {}
    /\ latest = [p \in PageIds |-> ZeroData]
    /\ writing = [c \in Clients |-> INVALID_PAGE_ID]

\* NewPage, while the bound on allocated ids allows another one.
NewPage(c) ==
    /\ bpm.next_page_id < MaxPageId
    /\ LET r == NewPgImp(bpm, disk)
       IN /\ bpm' = r.s
          /\ disk' = r.disk
          /\ IF r.page_id = INVALID_PAGE_ID
             THEN UNCHANGED <<held, live, latest>>
             ELSE /\ held' = [held EXCEPT ![c] = @ \cup {r.page_id}]
                  /\ live' = live \cup {r.page_id}
                  /\ latest' = [latest EXCEPT ![r.page_id] = ZeroData]
    /\ UNCHANGED <<wrote, writing>>

FetchPage(c, p) ==
    /\ p \in live \ held[c]
    /\ LET r == FetchPgImp(bpm, disk, p)
       IN /\ bpm' = r.s
          /\ disk' = r.disk
          /\ held' = IF r.ok THEN [held EXCEPT ![c] = @ \cup {p}] ELSE held
    /\ UNCHANGED <<wrote, live, latest, writing>>

\* A holder takes the page's write latch (a second writer waits for it)
\* and starts copying d into the frame.
WriteBegin(c, p, d) ==
    /\ p \in held[c]
    /\ writing[c] = INVALID_PAGE_ID
    /\ \A o \in Clients : writing[o] # p
    /\ bpm' = [bpm EXCEPT !.pages[bpm.page_table[p]].data = d]
    /\ wrote' = [wrote EXCEPT ![c] = @ \cup {p}]
    /\ latest' = [latest EXCEPT ![p] = d]
    /\ writing' = [writing EXCEPT ![c] = p]
    /\ UNCHANGED <<disk, held, live>>

\* The copy ends and the write latch is released.
WriteEnd(c) ==
    /\ writing[c] # INVALID_PAGE_ID
    /\ writing' = [writing EXCEPT ![c] = INVALID_PAGE_ID]
    /\ UNCHANGED <<bpm, disk, held, wrote, live, latest>>

\* A holder not writing the page releases its pin; a page it wrote is
\* released dirty.
UnpinPage(c, p) ==
    /\ p \in held[c]
    /\ writing[c] # p
    /\ \E is_dirty \in BOOLEAN :
          /\ p \in wrote[c] => is_dirty
          /\ bpm' = UnpinPgImp(bpm, p, is_dirty).s
    /\ held' = [held EXCEPT ![c] = @ \ {p}]
    /\ wrote' = [wrote EXCEPT ![c] = @ \ {p}]
    /\ UNCHANGED <<disk, live, latest, writing>>

FlushPage(p) ==
    /\ LET r == FlushPgImp(bpm, disk, p)
       IN bpm' = r.s /\ disk' \in RacyCopies(r.disk, {p})
    /\ UNCHANGED <<held, wrote, live, latest, writing>>

FlushAllPages ==
    /\ LET r == FlushAllPgsImp(bpm, disk)
       IN bpm' = r.s /\ disk' \in RacyCopies(r.disk, PageIds)
    /\ UNCHANGED <<held, wrote, live, latest, writing>>

\* A client deletes a live page; on success the page is gone for everyone.
DeletePage(p) ==
    /\ p \in live
    /\ LET r == DeletePgImp(bpm, p)
       IN /\ bpm' = r.s
          /\ live' = IF r.ok THEN live \ {p} ELSE live
    /\ UNCHANGED <<disk, held, wrote, latest, writing>>

Next ==
    \/ \E c \in Clients : NewPage(c)
    \/ \E c \in Clients, p \in PageIds : FetchPage(c, p)
    \/ \E c \in Clients, p \in PageIds, d \in Data : WriteBegin(c, p, d)
    \/ \E c \in Clients : WriteEnd(c)
    \/ \E c \in Clients, p \in PageIds : UnpinPage(c, p)
    \/ \E p \in PageIds : FlushPage(p)
    \/ FlushAllPages
    \/ \E p \in PageIds : DeletePage(p)

Spec == Init /\ [][Next]_vars

-----------------------------------------------------------------------------
Resident == DOMAIN bpm.page_table

FrameOf(p) == bpm.page_table[p]

Holders(p) == {c \in Clients : p \in held[c]}

TypeOK ==
    /\ bpm.pages \in [Frames -> [page_id : PageIds \cup {INVALID_PAGE_ID},
                                 pin_count : 0..Cardinality(Clients),
                                 is_dirty : BOOLEAN, data : Data]]
    /\ Resident \subseteq PageIds
    /\ \A p \in Resident : FrameOf(p) \in Frames
    /\ bpm.free_list \in Seq(Frames) /\ bpm.lru \in Seq(Frames)
    /\ disk \in [PageIds -> Data]
    /\ held \in [Clients -> SUBSET PageIds]
    /\ wrote \in [Clients -> SUBSET PageIds]
    /\ live \subseteq PageIds
    /\ latest \in [PageIds -> Data]
    /\ writing \in [Clients -> PageIds \cup {INVALID_PAGE_ID}]

(***************************************************************************)
(* Frame accounting.  Every frame is in exactly one place: on the free     *)
(* list, or holding exactly one resident page, and a resident page is in   *)
(* the replacer exactly when its pin count is 0.  Broken if any of         *)
(* GetFrame, DeletePgImp, FetchPgImp or UnpinPgImp forgets its half of a   *)
(* move between free list, page table and replacer: the same frame would   *)
(* later be handed out twice, or a pinned page evicted.                    *)
(***************************************************************************)
FramesAccounted ==
    LET free == ToSet(bpm.free_list)
        candidates == ToSet(bpm.lru)
    IN /\ Len(bpm.free_list) = Cardinality(free)
       /\ Len(bpm.lru) = Cardinality(candidates)
       /\ IsInjective(bpm.page_table)
       /\ free \cap Range(bpm.page_table) = {}
       /\ free \cup Range(bpm.page_table) = Frames
       /\ \A f \in free : bpm.pages[f].page_id = INVALID_PAGE_ID
       /\ \A p \in Resident : bpm.pages[FrameOf(p)].page_id = p
       /\ \A p \in Resident :
             (bpm.pages[FrameOf(p)].pin_count = 0) <=> FrameOf(p) \in candidates
       /\ candidates \subseteq Range(bpm.page_table)

(***************************************************************************)
(* Pin counts count holders: a page some client holds is resident, and its *)
(* pin count equals the number of its holders.  A lower count lets a held  *)
(* page be evicted under its holder; a higher one leaks the frame.         *)
(***************************************************************************)
PinsMatchHolders ==
    \A p \in PageIds :
        /\ Holders(p) # {} => p \in Resident
        /\ p \in Resident =>
              bpm.pages[FrameOf(p)].pin_count = Cardinality(Holders(p))

(***************************************************************************)
(* No lost write: the content a client last gave a live page is in its     *)
(* frame while resident and on disk otherwise.  This is what the dirty flag is for: UnpinPgImp *)
(* may only ever set it, GetFrame must write a dirty victim back, and      *)
(* FlushPgImp may clear it only after writing.  FlushPgImp copies the      *)
(* frame under the pool latch but not the page latch, so a flush during a  *)
(* write puts a torn copy on disk and marks the page clean; the property   *)
(* says that copy is never what is left of the page once it is evicted:   *)
(* the writer's unpin, dirty, must make it dirty again.                    *)
(***************************************************************************)
NoLostWrite ==
    \A p \in live :
        IF p \in Resident THEN bpm.pages[FrameOf(p)].data = latest[p]
        ELSE disk[p] = latest[p]
=============================================================================
