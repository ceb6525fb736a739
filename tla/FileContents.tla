----------------------------- MODULE FileContents -----------------------------
(***************************************************************************)
(* What a client of the mounted file system expects of the contents of     *)
(* its files: a sequence of bytes each, that writes overlay and reads      *)
(* return.  An open for writing only erases the file, as FuseOpen says it  *)
(* does.  The bytes of a hole, between the old end of a file and a write   *)
(* past it, may be anything: FuseWrite leaves them as realloc gives them.  *)
(***************************************************************************)
EXTENDS Integers, Sequences

CONSTANTS
    Inodes,   \* i-node numbers of files
    Byte,     \* what the clients write
    Junk      \* a byte nobody wrote

VARIABLES
    file,     \* the bytes of each file
    last      \* the last request that was answered, with its data

Requests ==
    [op : {"erase"}, ino : Inodes]
    \cup [op : {"write"}, ino : Inodes, off : Nat, data : Seq(Byte)]
    \cup [op : {"read"}, ino : Inodes, off : Nat, size : Nat, data : Seq(Byte \cup {Junk})]
    \cup [op : {"other"}]

Init == /\ file = [ino \in Inodes |-> <<>>]
        /\ last = [op |-> "other"]

Max(a, b) == IF a >= b THEN a ELSE b
Min(a, b) == IF a <= b THEN a ELSE b

\* g is f with data written at off; a hole before it is filled with anything.
Overlays(g, f, off, data) ==
    /\ g \in Seq(Byte \cup {Junk})
    /\ Len(g) = Max(Len(f), off + Len(data))
    /\ \A i \in 1 .. Len(g) :
          IF i > off /\ i <= off + Len(data) THEN g[i] = data[i - off]
                                             ELSE i <= Len(f) => g[i] = f[i]

Erase(r) == /\ r.op = "erase"
            /\ file' = [file EXCEPT ![r.ino] = <<>>]

Write(r) == /\ r.op = "write"
            /\ Overlays(file'[r.ino], file[r.ino], r.off, r.data)
            /\ file' = [file EXCEPT ![r.ino] = file'[r.ino]]

Read(r) == /\ r.op = "read"
           /\ r.data = SubSeq(file[r.ino], r.off + 1, Min(r.off + r.size, Len(file[r.ino])))
           /\ UNCHANGED file

Other(r) == r.op = "other" /\ UNCHANGED file

Next == /\ last' \in Requests
        /\ Erase(last') \/ Write(last') \/ Read(last') \/ Other(last')

Spec == Init /\ [][Next]_<<file, last>>
=============================================================================
