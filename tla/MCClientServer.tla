---------------------------- MODULE MCClientServer ----------------------------
(* ClientServer on small instances: block values are interchangeable.      *)
EXTENDS ClientServer, TLC

BlockSymmetry == Permutations(Block)
=============================================================================
