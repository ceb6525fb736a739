------------------------------ MODULE BlockStore ------------------------------
(***************************************************************************)
(* What the block level of the client-server program promises the FUSE     *)
(* handlers: MasterProcess->DAGonFS_Write(m_buf, ino, st_size) replaces    *)
(* the blocks kept for a file, and DAGonFS_Read(ino, st_size, st_size, 0)  *)
(* returns them.  The promise has a condition that nothing in the code     *)
(* checks: a read must ask for the number of blocks of the last write.     *)
(* For any other number the addresses kept by the master are spread over   *)
(* the processes another way than the blocks are, or there are too few of  *)
(* them, and the caller gets anything.                                     *)
(*                                                                         *)
(* ClientServer implements this module; FileIO uses it.                    *)
(***************************************************************************)
EXTENDS Integers, Sequences

CONSTANTS
    Inodes,   \* i-node numbers of files
    Block,    \* what a block can hold
    Garbage,  \* what a block fetched through a wrong address holds
    MaxSize   \* bound: blocks of one file

VARIABLES
    call,     \* the call the one FUSE thread is in, NoCall between two
    content,  \* the blocks of each file, as last written
    result    \* what the last read returned; <<>> is the null pointer

NoCall         == [op |-> "none"]
Write(ino, buf) == [op |-> "write", ino |-> ino, buf |-> buf]
Read(ino, n)    == [op |-> "read", ino |-> ino, n |-> n]

Init == /\ call = NoCall
        /\ content = [ino \in Inodes |-> <<>>]
        /\ result = <<>>

\* A handler calls DAGonFS_Write or DAGonFS_Read.
Calls == /\ call = NoCall
         /\ \E ino \in Inodes, n \in 0 .. MaxSize :
               \/ call' = Read(ino, n)
               \/ \E buf \in [1 .. n -> Block] : call' = Write(ino, buf)
         /\ UNCHANGED <<content, result>>

\* The effect of each on the two other variables.
Store(ino, buf) ==
    /\ content' = [content EXCEPT ![ino] = buf]
    /\ UNCHANGED result

\* What a read of n blocks can return.
Loadable(ino, n) ==
    IF n = Len(content[ino]) THEN {content[ino]} ELSE [1 .. n -> Block \cup {Garbage}]

Load(ino, n) ==
    /\ result' \in Loadable(ino, n)
    /\ UNCHANGED content

Returns == /\ call' = NoCall
           /\ \/ call.op = "write" /\ Store(call.ino, call.buf)
              \/ call.op = "read"  /\ Load(call.ino, call.n)

Next == Calls \/ Returns

Spec == Init /\ [][Next]_<<call, content, result>>
=============================================================================
