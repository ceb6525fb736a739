------------------------------- MODULE Partition -------------------------------
(***************************************************************************)
(* How DAGonFS_Write and DAGonFS_Read cut a file into blocks and share     *)
(* them out: size / BLOCK + (size % BLOCK > 0) blocks, contiguous runs of  *)
(* n / W of them per process and one more for the first n % W processes.   *)
(* The same lines are in MasterProcessCode.cpp, NodeProcessCode.cpp and    *)
(* the peer-to-peer DistributedCode.cpp.                                   *)
(***************************************************************************)
EXTENDS Integers

CONSTANTS
    W,         \* mpi_world_size
    BlockSize  \* FILE_SYSTEM_SINGLE_BLOCK_SIZE

ASSUME PartitionAssumption ==
    /\ W \in Nat \ {0}
    /\ BlockSize \in Nat \ {0}

Ranks == 0 .. W - 1

BlocksFor(size) == size \div BlockSize + (IF size % BlockSize > 0 THEN 1 ELSE 0)

\* numberOfBlocksForRequest
RequestBlocks(fileSize, reqSize) ==
    IF reqSize > fileSize THEN BlocksFor(fileSize) ELSE BlocksFor(reqSize)

\* blockPerProcess + (rank < remainingBlocks)
Count(n, r) == n \div W + (IF r < n % W THEN 1 ELSE 0)

\* scatterOffset when the loop over the processes reaches r (PartitionProofs:
\* it starts at 0, grows by Count, and ends at n).
Displ(n, r) == r * (n \div W) + (IF r < n % W THEN r ELSE n % W)

\* The process whose run holds block i, blocks counted from 1 as in TLA+.
Owner(n, i) == CHOOSE r \in Ranks : Displ(n, r) < i /\ i <= Displ(n, r) + Count(n, r)

\* Bug: displacements as if every process had blockPerProcess blocks.
Share_Bug(s, n, r) == [k \in 1 .. Count(n, r) |-> s[r * (n \div W) + k]]

\* MPI_Scatterv's share of process r, and what MPI_Gatherv puts together.
Share(s, n, r)   == [k \in 1 .. Count(n, r) |-> s[Displ(n, r) + k]]
Assemble(got, n) == [i \in 1 .. n |-> got[Owner(n, i)][i - Displ(n, Owner(n, i))]]
=============================================================================
