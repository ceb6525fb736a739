----------------------------- MODULE OperationLog -----------------------------
(***************************************************************************)
(* What the peer-to-peer program can promise about names: one sequence of  *)
(* operations, applied by every process in that order.  A process whose    *)
(* users start an operation has applied all that came before.  It is       *)
(* promised as long as things are orderly; afterwards nothing is.          *)
(***************************************************************************)
EXTENDS Naturals, Sequences

CONSTANTS Procs, Operations

VARIABLES
    log,     \* the operations users have started, anywhere
    done,    \* how many of them each process has applied
    orderly

Init == log = <<>> /\ done = [p \in Procs |-> 0] /\ orderly = TRUE

Apply(p) == done[p] < Len(log') /\ done' = [done EXCEPT ![p] = @ + 1]

Do(p, op) == done[p] = Len(log) /\ log' = Append(log, op) /\ Apply(p)

Replay(p) == UNCHANGED log /\ Apply(p)

Next ==
    \/ ~ orderly'
    \/ /\ orderly' /\ orderly
       /\ \E p \in Procs : Replay(p) \/ \E op \in Operations : Do(p, op)

Spec == Init /\ [][Next]_<<log, done, orderly>>
=============================================================================
