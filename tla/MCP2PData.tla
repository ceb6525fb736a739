------------------------------- MODULE MCP2PData -------------------------------
(* P2PData with the writes of a small instance.                            *)
EXTENDS P2PData, TLC
CONSTANTS b1, b2, b3

\* One block, of which only the first process has a share, and two.
Short == <<b1>>
Long  == <<b2, b3>>
OnlyLong     == {Long}
ShortAndLong == {Short, Long}

FileSymmetry == Permutations(Inodes)
=============================================================================
