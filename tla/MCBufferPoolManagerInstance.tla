-------------------- MODULE MCBufferPoolManagerInstance --------------------
(* Two clients on a pool of two frames with three page ids: enough to fill *)
(* the pool with pinned pages, evict dirty and clean pages, and share one  *)
(* page between both clients.                                              *)
EXTENDS BufferPoolManagerInstance

MCClients == Permutations(Clients)
=============================================================================
