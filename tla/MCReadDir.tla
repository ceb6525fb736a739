------------------------------ MODULE MCReadDir ------------------------------
(* ReadDir with entries of three sizes, the last of them too long.         *)
EXTENDS ReadDir, TLC

Sizes == 1 :> 2 @@ 2 :> 3 @@ 3 :> 1 @@ 4 :> 1 @@ 5 :> 7
=============================================================================
