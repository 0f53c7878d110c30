-------------------------------- MODULE MCRing --------------------------------
(* An instance of Ring for TLC. *)
EXTENDS Ring, TLC

\* free_list: a calm write may last through one write of the other thread, fewer than gc
\* leaves in the ring.
FreeList == [name |-> "free_list", size |-> 4, keep |-> 2, writes |-> 6, room |-> 3, lag |-> 1]
\* node_pool, the smallest ring, written beyond its size.  It may be read empty, so that a
\* calm write lasts through none.
NodePool == [name |-> "node_pool", size |-> 3, keep |-> 0, writes |-> 4, room |-> 2, lag |-> 0]
MCRings == {FreeList, NodePool}

\* The threads run the same code.
Sym == Permutations(Threads)
=============================================================================
