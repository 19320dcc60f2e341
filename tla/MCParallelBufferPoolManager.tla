-------------------- MODULE MCParallelBufferPoolManager --------------------
EXTENDS ParallelBufferPoolManager

MCClients == Permutations(Clients)
=============================================================================
