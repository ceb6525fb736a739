------------------------------- MODULE MCXAttr -------------------------------
(* XAttr on small instances: names, bytes and clients are interchangeable. *)
EXTENDS XAttr, TLC

Symmetry == Permutations(Names) \cup Permutations(Byte) \cup Permutations(Clients)
=============================================================================
