----------------------------- MODULE MCL2Cache -----------------------------
(* Small instances of L2Cache. *)
EXTENDS L2Cache, TLC

CONSTANTS blkA, blkB, n1, c1, c2, u1

\* Blocks blkA and blkB compete for one L2 set with one way.
OneSet == [i \in {blkA, blkB, n1} |-> 1]

\* Clients that share both blocks of the set; the uncached client uses one of them.
BothBlocks == [c \in Client |-> {blkA, blkB}] @@ [u \in Uncached |-> {blkA}]

\* Clients that compete for the line with different blocks.
Rivals == c1 :> {blkA, blkB} @@ c2 :> {blkA} @@ u1 :> {blkB}

Symmetry == Permutations(Client) \cup Permutations(Value)
=============================================================================
