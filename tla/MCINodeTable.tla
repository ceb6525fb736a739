--------------------------- MODULE MCINodeTable ---------------------------
(* INodeTable on small instances: names are interchangeable model values.  *)
EXTENDS INodeTable, TLC

NameSymmetry == Permutations(Names)
=============================================================================
