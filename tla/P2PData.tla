-------------------------------- MODULE P2PData --------------------------------
(***************************************************************************)
(* The contents of files in the peer-to-peer program, and how it ends.     *)
(* Any process can be the one that writes or reads a file: its FUSE thread *)
(* sends a header and an IORequest to the second threads of the others     *)
(* (DistributedCode::start), which then enter the MPI collectives rooted   *)
(* at it: MPI_Scatterv and MPI_Allgatherv to write, MPI_Scatterv and       *)
(* MPI_Gatherv to read.  Collectives are matched by their order alone, the *)
(* k-th a process enters with the k-th of every other process.  The first  *)
(* process that is unmounted has the others unmounted by TERMINATE.        *)
(*                                                                         *)
(* Sizes are in blocks here, and all processes know the same files under   *)
(* the same numbers: bytes are in FileIO, numbers in P2PNamespace.  What   *)
(* statfs reports is left out.  The program stops in this model when it    *)
(* does what MPI or C++ do not define (fault).                             *)
(***************************************************************************)
EXTENDS Partition, Sequences, FiniteSets

CONSTANTS
    Inodes,   \* i-node numbers of files
    Block,    \* what a block can hold
    Garbage,  \* what is found at an address where the process keeps no block
    NoBuf,    \* the null pointer
    Payloads, \* what a write request carries: sequences of blocks
    MaxSize,  \* bound: blocks of a file
    MaxOps,   \* bound: opens and writes
    MaxLoose  \* bound: of these, how many at most when things are not orderly

ASSUME P2PDataAssumption ==
    /\ Inodes # {} /\ Garbage \notin Block /\ NoBuf \notin Seq(Block \cup {Garbage})
    /\ Payloads \subseteq Seq(Block) \ {<<>>}
    /\ MaxSize \in Nat /\ MaxOps \in Nat /\ MaxLoose \in Nat

VARIABLES
    handle,    \* kernel of each process: how a file is open there
    st_size,   \* attributes of the files at each process
    st_blocks,
    m_buf,     \* File::m_buf, NoBuf for the null pointer
    waiting,   \* File::isWaitingForDistributedWrite
    list,      \* Blocks::FileSystemDataBlocks: the addresses of a file's blocks
    mem,       \* the blocks each process has allocated; mem[p][a] is at address a
    fuse,      \* FUSE thread: where it is
    loop,      \* second thread: where it is in DistributedCode::start
    chan,      \* chan[s][r]: what s has sent to r and r has not received
    calls,     \* the pairs of collectives each process has entered
    unmountFromThread,
    result,    \* history: what the last DAGonFS_Read returned
    stored,    \* history: blocks of the last DAGonFS_Write of each file
    origin,    \* history: the process whose users came last
    orderly,   \* history: have users kept to what is said at Turn?
    ops,       \* history: opens and writes so far
    fault      \* what undefined thing has been done

attrs  == <<st_size, st_blocks>>
buffer == <<m_buf, waiting>>
blocks == <<list, mem>>
mpi    == <<chan, calls>>
told   == <<result, stored>>
users  == <<handle, origin, orderly, ops>>
vars   == <<attrs, buffer, blocks, fuse, loop, mpi, unmountFromThread, told, users, fault>>

-----------------------------------------------------------------------------
Max(a, b) == IF a >= b THEN a ELSE b

\* Places of a thread; ino is the file of the handler.
At(place)          == [at |-> place]
Handling(place, f) == [at |-> place, ino |-> f]
Resting            == {At("idle"), At("unmounted"), At("ended")}
Inside(thread)     == thread.at \in {"scatter", "allgather", "gather"}

\* Packets.
Header(op)      == [kind |-> "header", op |-> op]
IORequest(f, n) == [kind |-> "io", ino |-> f, size |-> n]

\* MPI_Send of so few bytes does not wait.
ToOthers(p, m) ==
    chan' = [chan EXCEPT ![p] = [r \in Ranks |-> IF r = p THEN @[r] ELSE Append(@[r], m)]]
ToAll(p, m) == chan' = [chan EXCEPT ![p] = [r \in Ranks |-> Append(@[r], m)]]

\* MPI_Recv from MPI_ANY_SOURCE takes m of s: messages of one sender come in
\* order, senders in any.
Receive(r, s, m) ==
    /\ chan[s][r] # <<>> /\ m = Head(chan[s][r])
    /\ chan' = [chan EXCEPT ![s][r] = Tail(@)]

\* Blocks and addresses of process p.
NewAddresses(p, s) == [k \in 1 .. Len(s) |-> Len(mem[p]) + k]
Fetch(p, a)        == IF a \in 1 .. Len(mem[p]) THEN mem[p][a] ELSE Garbage

\* Bug: the addresses themselves, not what is there.
FetchAll_Bug(p, as) == as

FetchAll(p, as) == [k \in 1 .. Len(as) |-> Fetch(p, as[k])]

\* The first n items of s, and whatever follows it in memory.
Items(s, n, beyond) == [i \in 1 .. n |-> IF i <= Len(s) THEN s[i] ELSE beyond]

\* Bug: only the blocks that are new to the list get their addresses.
UpdateList_Bug(as, addresses) == as \o SubSeq(addresses, Len(as) + 1, Len(addresses))

\* addDataBlocksTo, then setData of the blocks written: a list never gets shorter.
UpdateList(as, addresses) ==
    [i \in 1 .. Max(Len(as), Len(addresses)) |->
        IF i <= Len(addresses) THEN addresses[i] ELSE as[i]]

-----------------------------------------------------------------------------
(* Collectives.  A process enters them in pairs: down is what the root     *)
(* scatters, up what the process then contributes to the gather; the file  *)
(* ino is history, MPI does not see it.                                    *)

Call(op, root, f, n, down, up) ==
    [op |-> op, root |-> root, ino |-> f, n |-> n, down |-> down, up |-> up]

NextCall(p)      == Len(calls[p]) + 1
Enter(p, call)   == calls' = [calls EXCEPT ![p] = Append(@, call)]
Same(c, op, root, n) == c.op = op /\ c.root = root /\ c.n = n

\* Another process has entered something else in this place, or the other thread
\* of p is in a collective: it uses the same scatterCounts and gatherCounts.
Crossing(p, other, op, root, n) ==
    \/ Inside(other)
    \/ \E q \in Ranks : NextCall(p) <= Len(calls[q])
                        /\ ~ Same(calls[q][NextCall(p)], op, root, n)

\* MPI_Scatterv waits for the root and MPI_Gatherv for the processes, where there
\* is something to come.
Scattered(p, root, n) == Count(n, p) > 0 => NextCall(p) <= Len(calls[root])
ShareOf(p, root, n) ==
    IF Count(n, p) > 0 THEN Share(calls[root][NextCall(p)].down, n, p) ELSE <<>>

\* The pair p entered last.
Current(p)  == calls[p][Len(calls[p])]
AllIn(p)    == \A q \in Ranks : Count(Current(p).n, q) > 0 => Len(calls[p]) <= Len(calls[q])
Gathered(p) ==
    Assemble([q \in Ranks |-> IF Len(calls[p]) <= Len(calls[q])
                                THEN calls[q][Len(calls[p])].up ELSE <<>>], Current(p).n)

-----------------------------------------------------------------------------
(* What users do is free.  It is orderly as long as                        *)
(*  - processes take turns: one whose users were not the last to open,     *)
(*    write back or unmount finds nothing under way anywhere (Turn);       *)
(*  - a file that is open for writing is open at one process only, and     *)
(*    nothing is open when a process is unmounted, nor opened later;       *)
(*  - a file that an open has erased is written before it is closed: else  *)
(*    no other process is told.                                            *)

Modes == {"r", "rw", "w"}   \* "w" are O_WRONLY and O_TRUNC, which erase the file

Request(m) == m.kind = "io" \/ m.op # "TERMINATE"
Quiet == \A p \in Ranks :
    /\ fuse[p] \in Resting /\ loop[p].at \in {"header", "unmounting", "stopped"}
    /\ \A r \in Ranks : \A k \in DOMAIN chan[p][r] : ~ Request(chan[p][r][k])

Turn(p) == p = origin \/ Quiet
Comes(p, rule) ==
    /\ origin' = p
    /\ orderly' = (orderly /\ Turn(p) /\ rule)

MayOpen(p, f, mode) ==
    /\ \A q \in Ranks : fuse[q].at \notin {"unmounted", "ended"}
    /\ \A q \in Ranks \ {p} :
          handle[q][f] \in (IF mode = "r" THEN {"closed", "r"} ELSE {"closed"})

NothingOpen(p) == \A f \in Inodes : handle[p][f] = "closed"

-----------------------------------------------------------------------------
(* The FUSE thread.  The session loop calls one handler at a time.         *)

Idle(p) == fuse[p] = At("idle")

\* Any open: of these, FuseOpen with O_WRONLY or O_TRUNC only sets attributes;
\* the others begin by sendReadRequest.
FuseOpen(p, f, mode) ==
    /\ Idle(p) /\ handle[p][f] = "closed" /\ ops < MaxOps
    /\ ops' = ops + 1
    /\ handle' = [handle EXCEPT ![p][f] = mode]
    /\ Comes(p, MayOpen(p, f, mode))
    /\ IF mode = "w"
         THEN /\ st_size' = [st_size EXCEPT ![p][f] = 0]
              /\ st_blocks' = [st_blocks EXCEPT ![p][f] = 0]
              /\ UNCHANGED <<fuse, chan>>
         ELSE /\ fuse' = [fuse EXCEPT ![p] = Handling("read", f)]
              /\ ToOthers(p, Header("READ"))
              /\ UNCHANGED attrs
    /\ UNCHANGED <<buffer, blocks, loop, calls, unmountFromThread, told, fault>>

\* realloc if the size, by st_blocks, is not enough, then memcpy.
FuseWrite(p, f, off, data) ==
    LET newSize == off + Len(data)
        grows   == newSize > st_blocks[p][f]
        held    == IF m_buf[p][f] = NoBuf THEN <<>> ELSE m_buf[p][f]
        room    == IF grows THEN Items(held, newSize, Garbage) ELSE held
        fits    == newSize <= Len(room)
    IN  /\ Idle(p) /\ handle[p][f] \in {"rw", "w"} /\ ops < MaxOps
        /\ newSize <= MaxSize
        /\ ops' = ops + 1
        /\ waiting' = [waiting EXCEPT ![p][f] = TRUE]
        /\ st_blocks' = [st_blocks EXCEPT ![p][f] = Max(@, newSize)]
        /\ m_buf' = [m_buf EXCEPT ![p][f] =
               [i \in DOMAIN room |-> IF i \in off + 1 .. newSize THEN data[i - off] ELSE room[i]]]
        /\ st_size' = [st_size EXCEPT ![p][f] = Max(@, newSize)]
        /\ fault' = IF fits THEN fault ELSE "overflow"
        /\ UNCHANGED <<handle, origin, orderly, blocks, fuse, loop, mpi, unmountFromThread, told>>

\* The flush of a close; a buffer that was written is kept until it is stored.
\* FuseRelease finds no buffer to free.
FuseFlush(p, f) ==
    LET writes == m_buf[p][f] # NoBuf /\ waiting[p][f]
    IN  /\ Idle(p) /\ handle[p][f] # "closed"
        /\ handle' = [handle EXCEPT ![p][f] = "closed"]
        /\ IF writes
             THEN /\ fuse' = [fuse EXCEPT ![p] = Handling("write", f)]
                  /\ ToOthers(p, Header("WRITE"))
                  /\ UNCHANGED <<buffer, ops>>
                  /\ Comes(p, TRUE)
             ELSE /\ m_buf' = [m_buf EXCEPT ![p][f] = NoBuf]
                  /\ orderly' = (orderly /\ handle[p][f] # "w")
                  /\ UNCHANGED <<waiting, fuse, chan, origin, ops>>
        /\ UNCHANGED <<attrs, blocks, loop, calls, unmountFromThread, told, fault>>

\* DAGonFS_Write at its root: the IORequests, the scatter of m_buf, the root's own
\* blocks.  What lies beyond m_buf is anything.
RootWrite(p) ==
    LET f   == fuse[p].ino
        n   == st_size[p][f]
        buf == Items(m_buf[p][f], n, Garbage)
        own == Share(buf, n, p)
    IN  /\ fuse[p].at = "write"
        /\ ~ Crossing(p, loop[p], "WRITE", p, n)
        /\ ToOthers(p, IORequest(f, n))
        /\ Enter(p, Call("WRITE", p, f, n, buf, NewAddresses(p, own)))
        /\ mem' = [mem EXCEPT ![p] = @ \o own]
        /\ fuse' = [fuse EXCEPT ![p] = Handling("allgather", f)]
        /\ UNCHANGED <<attrs, buffer, list, loop, unmountFromThread, told, users, fault>>

\* The rest of it, and of FuseFlush.
RootWritten(p) ==
    LET f == fuse[p].ino
    IN  /\ fuse[p].at = "allgather" /\ AllIn(p)
        /\ list' = [list EXCEPT ![p][f] = UpdateList(@, Gathered(p))]
        /\ waiting' = [waiting EXCEPT ![p][f] = FALSE]
        /\ m_buf' = [m_buf EXCEPT ![p][f] = NoBuf]
        /\ stored' = [stored EXCEPT ![f] = Current(p).n]
        /\ fuse' = [fuse EXCEPT ![p] = At("idle")]
        /\ UNCHANGED <<attrs, mem, loop, mpi, unmountFromThread, result, users, fault>>

\* DAGonFS_Read at its root, which returns the null pointer for an empty file.
RootRead(p) ==
    LET f         == fuse[p].ino
        n         == st_size[p][f]
        addresses == Items(list[p][f], n, 0)
        own       == FetchAll(p, Share(addresses, n, p))
    IN  /\ fuse[p].at = "read"
        /\ ToOthers(p, IORequest(f, n))
        /\ IF n = 0
             THEN /\ m_buf' = [m_buf EXCEPT ![p][f] = NoBuf]
                  /\ result' = <<>>
                  /\ fuse' = [fuse EXCEPT ![p] = At("idle")]
                  /\ UNCHANGED calls
             ELSE /\ ~ Crossing(p, loop[p], "READ", p, n)
                  /\ Enter(p, Call("READ", p, f, n, addresses, own))
                  /\ fuse' = [fuse EXCEPT ![p] = Handling("gather", f)]
                  /\ UNCHANGED <<m_buf, result>>
        /\ UNCHANGED <<attrs, waiting, blocks, loop, unmountFromThread, stored, users, fault>>

\* The rest of it, and of FuseOpen.
RootLoaded(p) ==
    /\ fuse[p].at = "gather" /\ AllIn(p)
    /\ m_buf' = [m_buf EXCEPT ![p][fuse[p].ino] = Gathered(p)]
    /\ result' = Gathered(p)
    /\ fuse' = [fuse EXCEPT ![p] = At("idle")]
    /\ UNCHANGED <<attrs, waiting, blocks, loop, mpi, unmountFromThread, stored, users, fault>>

-----------------------------------------------------------------------------
(* The second thread.                                                      *)

\* RequestPacket from any source.  An IORequest is too long for it, and MPI ends
\* the program.
ReceiveHeader(r) ==
    /\ loop[r].at = "header"
    /\ \E s \in Ranks : LET m == Head(chan[s][r]) IN
          /\ Receive(r, s, m)
          /\ IF m.kind = "io"
               THEN fault' = "message" /\ UNCHANGED <<loop, unmountFromThread>>
               ELSE /\ loop' = [loop EXCEPT ![r] =
                           CASE m.op # "TERMINATE"         -> [at |-> "io", op |-> m.op]
                             [] m.op = "TERMINATE" /\ s = r -> At("stopped")
                             [] m.op = "TERMINATE" /\ s # r -> At("unmounting")]
                    /\ unmountFromThread' = [unmountFromThread EXCEPT ![r] =
                           @ \/ (m.op = "TERMINATE" /\ s # r)]
                    /\ UNCHANGED fault
    /\ UNCHANGED <<attrs, buffer, blocks, fuse, calls, told, users>>

\* Bug: the addresses of an empty file are waited for.
ReceiveIO_Bug(r) ==
    /\ loop[r].at = "io"
    /\ \E s \in Ranks : LET m == Head(chan[s][r]) IN
          /\ Receive(r, s, m)
          /\ m.kind = "io"
          /\ loop' = [loop EXCEPT ![r] = [at |-> "scatter", op |-> loop[r].op, root |-> s,
                                          ino |-> m.ino, size |-> m.size]]
    /\ UNCHANGED <<attrs, buffer, blocks, fuse, calls, unmountFromThread, told, users, fault>>

\* IORequestPacket from any source, which is then taken for the root; of a header
\* the rest would be read uninitialized.
ReceiveIO(r) ==
    /\ loop[r].at = "io"
    /\ \E s \in Ranks : LET m == Head(chan[s][r]) IN
          /\ Receive(r, s, m)
          /\ IF m.kind = "header"
               THEN fault' = "message" /\ UNCHANGED loop
               ELSE /\ loop' = [loop EXCEPT ![r] =
                           IF loop[r].op = "READ" /\ m.size = 0
                             THEN At("header")
                             ELSE [at |-> "scatter", op |-> loop[r].op, root |-> s,
                                   ino |-> m.ino, size |-> m.size]]
                    /\ UNCHANGED fault
    /\ UNCHANGED <<attrs, buffer, blocks, fuse, calls, unmountFromThread, told, users>>

Joins(r, op) ==
    /\ loop[r].at = "scatter" /\ loop[r].op = op
    /\ ~ Crossing(r, fuse[r], op, loop[r].root, loop[r].size)
    /\ Scattered(r, loop[r].root, loop[r].size)

\* Bug: a process that gets no block does not take part.
JoinWrite_Bug(r) ==
    LET io  == loop[r]
        own == ShareOf(r, io.root, io.size)
    IN  /\ Joins(r, "WRITE")
        /\ IF own = <<>>
             THEN loop' = [loop EXCEPT ![r] = At("header")] /\ UNCHANGED calls
             ELSE /\ Enter(r, Call("WRITE", io.root, io.ino, io.size, <<>>, NewAddresses(r, own)))
                  /\ loop' = [loop EXCEPT ![r].at = "allgather"]
        /\ mem' = [mem EXCEPT ![r] = @ \o own]
        /\ UNCHANGED <<attrs, buffer, list, fuse, chan, unmountFromThread, told, users, fault>>

\* DAGonFS_Write at another process: the scatter and the blocks,
JoinWrite(r) ==
    LET io  == loop[r]
        own == ShareOf(r, io.root, io.size)
    IN  /\ Joins(r, "WRITE")
        /\ Enter(r, Call("WRITE", io.root, io.ino, io.size, <<>>, NewAddresses(r, own)))
        /\ mem' = [mem EXCEPT ![r] = @ \o own]
        /\ loop' = [loop EXCEPT ![r].at = "allgather"]
        /\ UNCHANGED <<attrs, buffer, list, fuse, chan, unmountFromThread, told, users, fault>>

\* Bug: st_blocks stays.
Joined_BlocksBug(r) ==
    LET f == loop[r].ino
    IN  /\ loop[r].at = "allgather" /\ AllIn(r)
        /\ list' = [list EXCEPT ![r][f] = UpdateList(@, Gathered(r))]
        /\ st_size' = [st_size EXCEPT ![r][f] = loop[r].size]
        /\ loop' = [loop EXCEPT ![r] = At("header")]
        /\ UNCHANGED <<st_blocks, buffer, mem, fuse, mpi, unmountFromThread, told, users, fault>>

\* Bug: st_size is set by a process that has a share only.
Joined_SizeBug(r) ==
    LET f == loop[r].ino
    IN  /\ loop[r].at = "allgather" /\ AllIn(r)
        /\ list' = [list EXCEPT ![r][f] = UpdateList(@, Gathered(r))]
        /\ st_size' = [st_size EXCEPT ![r][f] = IF Current(r).up = <<>> THEN @ ELSE loop[r].size]
        /\ st_blocks' = [st_blocks EXCEPT ![r][f] = Len(list'[r][f])]
        /\ loop' = [loop EXCEPT ![r] = At("header")]
        /\ UNCHANGED <<buffer, mem, fuse, mpi, unmountFromThread, told, users, fault>>

\* and the addresses of all, from which the list and the attributes.
Joined(r) ==
    LET f == loop[r].ino
    IN  /\ loop[r].at = "allgather" /\ AllIn(r)
        /\ list' = [list EXCEPT ![r][f] = UpdateList(@, Gathered(r))]
        /\ st_size' = [st_size EXCEPT ![r][f] = loop[r].size]
        /\ st_blocks' = [st_blocks EXCEPT ![r][f] = Len(list'[r][f])]
        /\ loop' = [loop EXCEPT ![r] = At("header")]
        /\ UNCHANGED <<buffer, mem, fuse, mpi, unmountFromThread, told, users, fault>>

\* DAGonFS_Read at another process: it does not wait for the root to gather.
JoinRead(r) ==
    LET io == loop[r]
    IN  /\ Joins(r, "READ")
        /\ Enter(r, Call("READ", io.root, io.ino, io.size, <<>>,
                         FetchAll(r, ShareOf(r, io.root, io.size))))
        /\ loop' = [loop EXCEPT ![r] = At("header")]
        /\ UNCHANGED <<attrs, buffer, blocks, fuse, chan, unmountFromThread, told, users, fault>>

\* A process enters a collective that is not the one the others are in.
Crossed(p) ==
    /\ LET f == fuse[p].ino io == loop[p] IN
          \/ /\ fuse[p].at \in {"read", "write"} /\ st_size[p][f] # 0
             /\ Crossing(p, loop[p], IF fuse[p].at = "read" THEN "READ" ELSE "WRITE",
                         p, st_size[p][f])
          \/ /\ loop[p].at = "scatter"
             /\ Crossing(p, fuse[p], io.op, io.root, io.size)
    /\ fault' = "collective"
    /\ UNCHANGED <<attrs, buffer, blocks, fuse, loop, mpi, unmountFromThread, told, users>>

-----------------------------------------------------------------------------
(* The end.  unmount.sh is not in the repository: it unmounts, unless a    *)
(* file is open.                                                           *)

\* A user unmounts process p, and its session loop returns.
Unmount(p) ==
    /\ Idle(p) /\ NothingOpen(p)
    /\ fuse' = [fuse EXCEPT ![p] = At("unmounted")]
    /\ Comes(p, \A q \in Ranks : NothingOpen(q))
    /\ UNCHANGED <<attrs, buffer, blocks, loop, mpi, unmountFromThread, told, handle, ops, fault>>

\* DistributedCode::unmountFileSystem, whose system() has the session end too.
UnmountFromThread(r) ==
    /\ loop[r].at = "unmounting"
    /\ fuse' = [fuse EXCEPT ![r] = IF Idle(r) /\ NothingOpen(r) THEN At("unmounted") ELSE @]
    /\ loop' = [loop EXCEPT ![r] = At("stopped")]
    /\ UNCHANGED <<attrs, buffer, blocks, mpi, unmountFromThread, told, users, fault>>

\* Bug: TERMINATE is sent to the others only, like READ and WRITE.
SessionEnds_Bug(p) ==
    /\ fuse[p].at = "unmounted"
    /\ IF unmountFromThread[p] THEN UNCHANGED chan ELSE ToOthers(p, Header("TERMINATE"))
    /\ fuse' = [fuse EXCEPT ![p] = At("ended")]
    /\ UNCHANGED <<attrs, buffer, blocks, loop, calls, unmountFromThread, told, users, fault>>

\* The end of FileSystem::start: sendTerminationRequest, to the process's own
\* second thread too.
SessionEnds(p) ==
    /\ fuse[p].at = "unmounted"
    /\ IF unmountFromThread[p] THEN UNCHANGED chan ELSE ToAll(p, Header("TERMINATE"))
    /\ fuse' = [fuse EXCEPT ![p] = At("ended")]
    /\ UNCHANGED <<attrs, buffer, blocks, loop, calls, unmountFromThread, told, users, fault>>

\* main has joined the second thread and is at MPI_Finalize.
Finalized(p) == fuse[p] = At("ended") /\ loop[p] = At("stopped")

-----------------------------------------------------------------------------
Init ==
    /\ handle    = [p \in Ranks |-> [f \in Inodes |-> "closed"]]
    /\ st_size   = [p \in Ranks |-> [f \in Inodes |-> 0]]
    /\ st_blocks = [p \in Ranks |-> [f \in Inodes |-> 0]]
    /\ m_buf     = [p \in Ranks |-> [f \in Inodes |-> NoBuf]]
    /\ waiting   = [p \in Ranks |-> [f \in Inodes |-> FALSE]]
    /\ list      = [p \in Ranks |-> [f \in Inodes |-> <<>>]]
    /\ mem       = [p \in Ranks |-> <<>>]
    /\ fuse      = [p \in Ranks |-> At("idle")]
    /\ loop      = [p \in Ranks |-> At("header")]
    /\ chan      = [s \in Ranks |-> [r \in Ranks |-> <<>>]]
    /\ calls     = [p \in Ranks |-> <<>>]
    /\ unmountFromThread = [p \in Ranks |-> FALSE]
    /\ result = <<>>
    /\ stored = [f \in Inodes |-> 0]
    /\ origin \in Ranks
    /\ orderly = TRUE
    /\ ops = 0
    /\ fault = "none"

Session(p) == RootWrite(p) \/ RootWritten(p) \/ RootRead(p) \/ RootLoaded(p) \/ SessionEnds(p)

Second(r) == \/ ReceiveHeader(r) \/ ReceiveIO(r)
             \/ JoinWrite(r) \/ Joined(r) \/ JoinRead(r) \/ UnmountFromThread(r)

User(p) ==
    /\ \/ Unmount(p)
       \/ \E f \in Inodes :
             \/ FuseFlush(p, f)
             \/ \E mode \in Modes : FuseOpen(p, f, mode)
             \/ \E off \in 0 .. st_size[p][f], data \in Payloads : FuseWrite(p, f, off, data)
    /\ orderly' \/ ops' <= MaxLoose

\* A program that has done something undefined, or has nothing to do, may stay so;
\* and one in which threads wait for each other, if users were not orderly.
Rest == (fault # "none" \/ Quiet \/ ~ orderly) /\ UNCHANGED vars

Next ==
    \/ fault = "none" /\ \E p \in Ranks : Session(p) \/ Second(p) \/ Crossed(p) \/ User(p)
    \/ Rest

Spec == Init /\ [][Next]_vars

\* The threads run and MPI delivers; users do as they like.
FairSpec == Spec /\ \A p \in Ranks :
    /\ WF_vars(fault = "none" /\ Session(p))
    /\ WF_vars(fault = "none" /\ Second(p))

-----------------------------------------------------------------------------
(* Properties.                                                             *)

PerFile(S) == [Ranks -> [Inodes -> S]]
Content    == Seq(Block \cup {Garbage})

TypeOK ==
    /\ handle \in PerFile(Modes \cup {"closed"})
    /\ st_size \in PerFile(Nat) /\ st_blocks \in PerFile(Nat)
    /\ m_buf \in PerFile(Content \cup {NoBuf}) /\ waiting \in PerFile(BOOLEAN)
    /\ list \in PerFile(Seq(Nat)) /\ mem \in [Ranks -> Content]
    /\ result \in Content /\ stored \in [Inodes -> Nat]
    /\ origin \in Ranks /\ orderly \in BOOLEAN
    /\ fault \in {"none", "overflow", "message", "collective"}

\* No message is taken for another and no process is in another collective than
\* the others, though messages come from any source and collectives are matched
\* by their order alone (DistributedCode::start).
InStep == orderly => fault \notin {"message", "collective"}

\* The assumption of FuseWrite, "there can be no buffer overflow since realloc has
\* already been called with the new size and offset".
NoOverflow == orderly => fault # "overflow"

\* Where a file has never been stored longer, st_blocks says what m_buf has room
\* for and st_size what it holds, as FuseWrite and FuseRead count on.
RoomIsThere ==
    orderly /\ fault = "none" =>
        \A p \in Ranks, f \in Inodes :
            handle[p][f] # "closed" /\ Idle(p) =>
                LET room == IF m_buf[p][f] = NoBuf THEN 0 ELSE Len(m_buf[p][f])
                IN  /\ st_size[p][f] <= room
                    /\ st_blocks[p][f] = room \/ Len(list[p][f]) > stored[f]

\* How many of the writes a process has entered it has also made its own.
Writes(p)  == Cardinality({k \in DOMAIN calls[p] : calls[p][k].op = "WRITE"})
Applied(p) == Writes(p) - (IF "allgather" \in {fuse[p].at, loop[p].at} THEN 1 ELSE 0)

\* Processes that have applied as many writes keep the same addresses for every
\* file, and the same size for those no user of theirs is writing.
Settled(p, f) == handle[p][f] \in {"closed", "r"} /\ ~ waiting[p][f]
SameFiles ==
    orderly => \A p, q \in Ranks : Applied(p) = Applied(q) =>
        /\ list[p] = list[q]
        /\ \A f \in Inodes : Settled(p, f) /\ Settled(q, f) => st_size[p][f] = st_size[q][f]

\* The interface of BlockStore, seen through the processes: the call that a FUSE
\* thread is in, and the blocks at the addresses the last user's process keeps.
Active == {p \in Ranks : fuse[p].at \in {"write", "allgather", "read", "gather"}}
InCall ==
    IF Active = {} THEN [op |-> "none"]
    ELSE LET p == CHOOSE p \in Active : TRUE
             f == fuse[p].ino
         IN  IF fuse[p].at \in {"write", "allgather"}
               THEN [op |-> "write", ino |-> f, buf |-> SubSeq(m_buf[p][f], 1, st_size[p][f])]
               ELSE [op |-> "read", ino |-> f, n |-> st_size[p][f]]
Blocks ==
    [f \in Inodes |-> [i \in 1 .. stored[f] |->
        Fetch(Owner(stored[f], i), list[origin][f][i])]]
Abstract == INSTANCE BlockStore WITH call <- InCall, content <- Blocks

\* Whichever process writes, and whatever the threads interleave, a DAGonFS_Write
\* replaces the blocks of a file at one instant by those of m_buf and touches no
\* other file, and a later DAGonFS_Read at any process returns them.
ImplementsBlockStore ==
    Abstract!Init /\ [][orderly' => Abstract!Next \/ UNCHANGED <<InCall, Blocks, result>>]_vars

\* Every open and every flush is answered, in whatever order the threads of the
\* others take part (DistributedCode::start);
Excused     == ~ orderly \/ fault = "overflow"
HandlersEnd == \A p \in Ranks : fuse[p] \notin Resting ~> fuse[p] \in Resting \/ Excused

\* every process applies every write in the end;
AllCatchUp ==
    \A p, q \in Ranks : Applied(p) < Applied(q) ~> Applied(p) >= Applied(q) \/ Excused

\* and when one process has been unmounted all of them end, with no thread left
\* waiting in a collective or for a message (FileSystem::start, case TERMINATE).
AllEnd ==
    (\E p \in Ranks : fuse[p] = At("unmounted")) ~> (\A p \in Ranks : Finalized(p)) \/ Excused
=============================================================================
