------------------------------- MODULE MCFileIO -------------------------------
(* FileIO on small instances: bytes, handles and files are interchangeable.*)
EXTENDS FileIO, TLC

Symmetry == Permutations(Byte) \cup Permutations(Handles) \cup Permutations(Inodes)
=============================================================================
