---------------------------- MODULE LRUReplacer ----------------------------
(***************************************************************************)
(* The LRU eviction policy of src/lab3/src/buffer/lru_replacer.cpp (the    *)
(* same code as src/lru_replacer.cpp).                                      *)
(*                                                                         *)
(* The replacer keeps lru_list_, a std::list of frame ids ordered from the *)
(* most recently unpinned (front) to the least recently unpinned (back),   *)
(* and speed_map_, an index from frame id to list node.  The index only    *)
(* makes membership tests O(1); it always holds exactly the frames of the  *)
(* list, so the model keeps the list alone, as a sequence whose head is    *)
(* the front.  The replacer's mutex makes each call atomic; the buffer     *)
(* pool calls it only while holding its own latch, so the calls are pure  *)
(* operators on the list, applied inside the buffer pool's actions.        *)
(***************************************************************************)
EXTENDS Sequences, SequencesExt

\* speed_map_.count(frame_id) > 0
InReplacer(lru_list, frame_id) == Contains(lru_list, frame_id)

\* Victim: fails on an empty list, else pops the back (least recent) frame.
\* The buffer pool reads the chosen frame with VictimFrame.
CanVictim(lru_list) == lru_list # <<>>

VictimFrame(lru_list) == Last(lru_list)

Victim(lru_list) == Front(lru_list)

\* Pin: removes the frame if present, otherwise leaves the list alone.
Pin(lru_list, frame_id) == RemoveFirst(lru_list, frame_id)

\* Unpin: pushes the frame at the front unless it is already present
\* (a second Unpin without an intervening Pin has no effect).
Unpin(lru_list, frame_id) ==
    IF InReplacer(lru_list, frame_id) THEN lru_list
    ELSE <<frame_id>> \o lru_list

\* Size: the number of evictable frames.
Size(lru_list) == Len(lru_list)
=============================================================================
