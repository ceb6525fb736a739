-------------------------------- MODULE FileIO --------------------------------
(***************************************************************************)
(* File contents between the FUSE kernel client and the block store:       *)
(* FuseCreate, FuseOpen, FuseRead, FuseWrite, FuseFlush, FuseRelease and   *)
(* FuseSetAttr of ramfs/FileSystem.cpp over File::m_buf,                   *)
(* isWaitingForDistributedWrite and the attributes st_size and st_blocks.  *)
(* An open loads the whole file into m_buf, writes go to m_buf, and the    *)
(* flush that each close(2) sends writes it back and frees it.  There is   *)
(* one m_buf per file however many times it is open, and st_blocks, not    *)
(* the buffer, says how much of it is allocated.                           *)
(*                                                                         *)
(* The blocks are kept by BlockStore, which ClientServer implements; its   *)
(* two calls return before the handler does, and handlers run one at a     *)
(* time.  A byte copied from or to memory that is not the buffer's stops   *)
(* the process in this model (fault).                                      *)
(***************************************************************************)
EXTENDS Integers, Sequences, FiniteSets, FiniteSetsExt

CONSTANTS
    Inodes,       \* i-node numbers of files
    Handles,      \* open files of the kernel (struct file)
    Byte,         \* what the clients write
    Junk,         \* a byte nobody wrote: what realloc returns
    BlockSize,    \* Nodes::INodeBufBlockSize, FILE_SYSTEM_SINGLE_BLOCK_SIZE
    MaxSize,      \* bound: bytes of a file
    MaxWrite,     \* bound: bytes of one write request
    MaxUsed,      \* bound: usedBlocks past which no write is asked for
    MaxStrays     \* bound: requests once clients are not orderly

ASSUME FileIOAssumption ==
    /\ Inodes # {} /\ IsFiniteSet(Inodes)
    /\ Junk \notin Byte /\ "nullptr" \notin Byte \cup {Junk}
    /\ BlockSize \in Nat \ {0}
    /\ MaxSize \in Nat /\ MaxWrite \in Nat /\ MaxUsed \in Nat /\ MaxStrays \in Nat

VARIABLES
    st_size,     \* attributes of the file
    st_blocks,
    m_buf,       \* File::m_buf, NoBuf for the null pointer
    waiting,     \* File::isWaitingForDistributedWrite
    usedBlocks,  \* kTotalBlocks - m_stbuf.f_bfree
    content,     \* BlockStore: the blocks of each file
    handle,      \* kernel: file, mode and state of each open file
    last,        \* the last request and the data it wrote or was answered with
    strays,      \* history: requests since clients left what is said at Keeps
    fault        \* the handler that has accessed memory outside of the buffer

attrs == <<st_size, st_blocks, usedBlocks>>
vars  == <<attrs, m_buf, waiting, content, handle, last, strays, fault>>

-----------------------------------------------------------------------------
NoBuf    == << "nullptr" >>
NoHandle == [mode |-> "none"]
Other    == [op |-> "other"]

\* Classes of open flags: O_RDONLY; O_RDWR; with O_WRONLY; O_RDWR with O_TRUNC.
Modes    == {"r", "rw", "w", "rwt"}
Erasing  == {"w", "rwt"}             \* fi->flags & (O_WRONLY | O_TRUNC)
Writable == {"rw", "w", "rwt"}
Readable == {"r", "rw", "rwt"}

Block == [1 .. BlockSize -> Byte \cup {Junk}]
Store == INSTANCE BlockStore WITH call <- [op |-> "none"], result <- <<>>, Garbage <- Junk

BlocksFor(size) == size \div BlockSize + (IF size % BlockSize > 0 THEN 1 ELSE 0)

\* Bytes as blocks, and blocks as bytes.
ToBlocks(buf, n) ==
    [k \in 1 .. n |-> [j \in 1 .. BlockSize |-> buf[(k - 1) * BlockSize + j]]]
ToBytes(blocks) ==
    [i \in 1 .. Len(blocks) * BlockSize |->
        LET block == blocks[(i - 1) \div BlockSize + 1]
        IN  IF block \in Block THEN block[((i - 1) % BlockSize) + 1] ELSE Junk]

\* How many bytes m_buf has room for.
Room(ino) == IF m_buf[ino] = NoBuf THEN 0 ELSE Len(m_buf[ino])

\* Bug: malloc, the bytes written so far are not kept.
Realloc_Bug(buf, n) == [i \in 1 .. n |-> Junk]

Realloc(buf, n) ==
    [i \in 1 .. n |-> IF buf # NoBuf /\ i <= Len(buf) THEN buf[i] ELSE Junk]

\* Open files of the kernel.
OpenOn(ino) == {h \in Handles : handle[h] # NoHandle /\ handle[h].ino = ino}
Usable(h)   == fault = "none" /\ handle[h] # NoHandle /\ handle[h].state = "open"
CanOpen(ino, h) == fault = "none" /\ handle[h] = NoHandle

\* What clients do is free.  It is orderly as long as a file is open once at a
\* time, a handle is not used after a flush (as it is after close(dup(fd))), no
\* size is set by setattr and no read starts past the end.
Alone(ino) == OpenOn(ino) = {}
Keeps(rule) == strays' = IF strays = 0 /\ rule THEN 0 ELSE strays + 1

Opened(ino, h, mode) ==
    handle' = [handle EXCEPT ![h] = [ino |-> ino, mode |-> mode, state |-> "open"]]

Init ==
    /\ st_size = [i \in Inodes |-> 0]
    /\ st_blocks = [i \in Inodes |-> 0]
    /\ usedBlocks = 0
    /\ m_buf = [i \in Inodes |-> NoBuf]
    /\ waiting = [i \in Inodes |-> FALSE]
    /\ content = [i \in Inodes |-> <<>>]
    /\ handle = [h \in Handles |-> NoHandle]
    /\ last = Other
    /\ strays = 0
    /\ fault = "none"

\* The access of handler f is outside of the buffer.
Faults(f) == /\ fault' = f
             /\ last' = Other
             /\ UNCHANGED <<attrs, m_buf, waiting, content, handle>>

-----------------------------------------------------------------------------
(* The handlers.  Before the flush that ends a handle (state "closed") it  *)
(* can be read and written; FuseRelease follows.                           *)

\* Bug: the blocks of the deleted file are returned but not forgotten.
FuseCreate_Bug(ino, h, mode) ==
    /\ OpenOn(ino) = {}
    /\ usedBlocks' = usedBlocks - st_blocks[ino]
    /\ st_size'   = [st_size   EXCEPT ![ino] = 0]
    /\ m_buf'     = [m_buf     EXCEPT ![ino] = NoBuf]
    /\ waiting'   = [waiting   EXCEPT ![ino] = FALSE]
    /\ CanOpen(ino, h) /\ Opened(ino, h, mode) /\ Keeps(Alone(ino))
    /\ last' = [op |-> "erase", ino |-> ino]
    /\ UNCHANGED <<st_blocks, content, fault>>

\* A new file at a number of which every earlier file has been given back:
\* RegisterINode returns the blocks of the deleted one.
FuseCreate(ino, h, mode) ==
    /\ OpenOn(ino) = {}
    /\ usedBlocks' = usedBlocks - st_blocks[ino]
    /\ st_size'   = [st_size   EXCEPT ![ino] = 0]
    /\ st_blocks' = [st_blocks EXCEPT ![ino] = 0]
    /\ m_buf'     = [m_buf     EXCEPT ![ino] = NoBuf]
    /\ waiting'   = [waiting   EXCEPT ![ino] = FALSE]
    /\ CanOpen(ino, h) /\ Opened(ino, h, mode) /\ Keeps(Alone(ino))
    /\ last' = [op |-> "erase", ino |-> ino]
    /\ UNCHANGED <<content, fault>>

\* Bug: the blocks are given back and st_blocks stays.
FuseOpenErasing_Bug(ino, h, mode) ==
    /\ CanOpen(ino, h) /\ Opened(ino, h, mode) /\ Keeps(Alone(ino))
    /\ st_size'   = [st_size   EXCEPT ![ino] = 0]
    /\ usedBlocks' = usedBlocks - st_blocks[ino]
    /\ last' = [op |-> "erase", ino |-> ino]
    /\ UNCHANGED <<st_blocks, m_buf, waiting, content, fault>>

\* Open with O_WRONLY or O_TRUNC.
FuseOpenErasing(ino, h, mode) ==
    /\ CanOpen(ino, h) /\ Opened(ino, h, mode) /\ Keeps(Alone(ino))
    /\ st_size'   = [st_size   EXCEPT ![ino] = 0]
    /\ st_blocks' = [st_blocks EXCEPT ![ino] = 0]
    /\ last' = [op |-> "erase", ino |-> ino]
    /\ UNCHANGED <<usedBlocks, m_buf, waiting, content, fault>>

\* Bug: the last, partial block is not asked for.
FuseOpenLoading_Bug(ino, h, mode) ==
    /\ CanOpen(ino, h) /\ Opened(ino, h, mode) /\ Keeps(Alone(ino))
    /\ \E blocks \in Store!Loadable(ino, st_size[ino] \div BlockSize) :
          m_buf' = [m_buf EXCEPT ![ino] = IF st_size[ino] = 0 THEN NoBuf ELSE ToBytes(blocks)]
    /\ last' = Other
    /\ UNCHANGED <<attrs, waiting, content, fault>>

\* Any other open loads the file, whatever m_buf holds.
FuseOpenLoading(ino, h, mode) ==
    /\ CanOpen(ino, h) /\ Opened(ino, h, mode) /\ Keeps(Alone(ino))
    /\ \E blocks \in Store!Loadable(ino, BlocksFor(st_size[ino])) :
          m_buf' = [m_buf EXCEPT ![ino] = IF st_size[ino] = 0 THEN NoBuf ELSE ToBytes(blocks)]
    /\ last' = Other
    /\ UNCHANGED <<attrs, waiting, content, fault>>

FuseOpen(ino, h, mode) == IF mode \in Erasing THEN FuseOpenErasing(ino, h, mode)
                                              ELSE FuseOpenLoading(ino, h, mode)

\* A read that starts past the end is answered with no bytes, and then once
\* more with bytes from there on.
FuseRead(h, off, n) ==
    LET ino == handle[h].ino
        end == IF off + n > st_size[ino] THEN st_size[ino] ELSE off + n
    IN  /\ Usable(h) /\ handle[h].mode \in Readable
        /\ Keeps(off <= st_size[ino])
        /\ IF off > st_size[ino] \/ end > Room(ino)
             THEN Faults("read")
             ELSE /\ last' = [op |-> "read", ino |-> ino, off |-> off, size |-> n,
                              data |-> IF off < end THEN SubSeq(m_buf[ino], off + 1, end) ELSE <<>>]
                  /\ UNCHANGED <<attrs, m_buf, waiting, content, handle, fault>>

\* memcpy to m_buf + off.
Copied(buf, off, data) ==
    [i \in DOMAIN buf |-> IF i > off /\ i <= off + Len(data) THEN data[i - off] ELSE buf[i]]

\* The buffer is reallocated when st_blocks says it is too small.
FuseWrite(h, off, data) ==
    LET ino       == handle[h].ino
        newSize   == off + Len(data)
        newBlocks == BlocksFor(newSize)
        grows     == newSize > BlockSize * st_blocks[ino]
        buf       == IF grows THEN Realloc(m_buf[ino], newBlocks * BlockSize)
                              ELSE m_buf[ino]
    IN  /\ Usable(h) /\ handle[h].mode \in Writable
        /\ newSize <= MaxSize
        /\ usedBlocks + newBlocks <= MaxUsed
        /\ Keeps(TRUE)
        /\ IF ~grows /\ newSize > Room(ino)
             THEN Faults("write")
             ELSE /\ m_buf' = [m_buf EXCEPT ![ino] = Copied(buf, off, data)]
                  /\ waiting' = [waiting EXCEPT ![ino] = TRUE]
                  /\ IF grows
                       THEN /\ st_blocks' = [st_blocks EXCEPT ![ino] = newBlocks]
                            /\ usedBlocks' = usedBlocks + newBlocks - st_blocks[ino]
                       ELSE UNCHANGED <<st_blocks, usedBlocks>>
                  /\ st_size' = [st_size EXCEPT ![ino] = IF newSize > @ THEN newSize ELSE @]
                  /\ last' = [op |-> "write", ino |-> ino, off |-> off, data |-> data]
                  /\ UNCHANGED <<content, handle, fault>>

\* Bug: a file that waits to be written is freed before it is.
FuseFlush_Bug(h, keep) ==
    LET ino == handle[h].ino
    IN  /\ Usable(h)
        /\ Keeps(~ keep)
        /\ handle' = [handle EXCEPT ![h].state = IF keep THEN "open" ELSE "closed"]
        /\ m_buf' = [m_buf EXCEPT ![ino] = NoBuf]
        /\ waiting' = [waiting EXCEPT ![ino] = FALSE]
        /\ last' = Other
        /\ UNCHANGED <<attrs, content, fault>>

\* keep: h is used on after the flush.
FuseFlush(h, keep) ==
    LET ino == handle[h].ino
        n   == BlocksFor(st_size[ino])
    IN  /\ Usable(h)
        /\ Keeps(~ keep)
        /\ IF m_buf[ino] # NoBuf /\ waiting[ino] /\ n * BlockSize > Room(ino)
             THEN Faults("flush")
             ELSE /\ handle' = [handle EXCEPT ![h].state = IF keep THEN "open" ELSE "closed"]
                  /\ IF m_buf[ino] # NoBuf /\ waiting[ino]
                       THEN Store!Store(ino, ToBlocks(m_buf[ino], n))
                       ELSE UNCHANGED content
                  /\ waiting' = [waiting EXCEPT ![ino] = @ /\ m_buf[ino] = NoBuf]
                  /\ m_buf' = [m_buf EXCEPT ![ino] = NoBuf]
                  /\ last' = Other
                  /\ UNCHANGED <<attrs, fault>>

\* Called for each open file of the kernel; whatever is in m_buf is freed.
FuseRelease(h) ==
    LET ino == handle[h].ino
    IN  /\ fault = "none" /\ handle[h] # NoHandle /\ handle[h].state = "closed"
        /\ Keeps(TRUE)
        /\ handle' = [handle EXCEPT ![h] = NoHandle]
        /\ m_buf' = [m_buf EXCEPT ![ino] = NoBuf]
        /\ last' = Other
        /\ UNCHANGED <<attrs, waiting, content, fault>>

\* SetINodeAttributes with FUSE_SET_ATTR_SIZE.
FuseSetAttr(ino, size) ==
    /\ fault = "none" /\ Keeps(FALSE)
    /\ st_size' = [st_size EXCEPT ![ino] = size]
    /\ UNCHANGED <<st_blocks, usedBlocks, m_buf, waiting, content, handle, fault>>
    /\ last' = Other

Request ==
    \/ \E ino \in Inodes, h \in Handles, mode \in Modes :
          FuseCreate(ino, h, mode) \/ FuseOpen(ino, h, mode)
    \/ \E h \in Handles :
          \/ \E off \in 0 .. MaxSize, n \in 1 .. MaxSize : FuseRead(h, off, n)
          \/ \E off \in 0 .. MaxSize, n \in 1 .. MaxWrite :
                \E data \in [1 .. n -> Byte] : FuseWrite(h, off, data)
          \/ \E keep \in BOOLEAN : FuseFlush(h, keep)
          \/ FuseRelease(h)
    \/ \E ino \in Inodes, size \in 0 .. MaxSize : FuseSetAttr(ino, size)

Next == Request /\ strays' <= MaxStrays

Spec == Init /\ [][Next]_vars

-----------------------------------------------------------------------------
(* Properties.                                                             *)

TypeOK ==
    /\ st_size \in [Inodes -> 0 .. MaxSize]
    /\ st_blocks \in [Inodes -> Nat]
    /\ m_buf \in [Inodes -> {NoBuf} \cup Seq(Byte \cup {Junk})]
    /\ waiting \in [Inodes -> BOOLEAN]
    /\ usedBlocks \in Nat
    /\ content \in [Inodes -> Seq(Block)]
    /\ handle \in [Handles -> {NoHandle} \cup
           [ino : Inodes, mode : Modes, state : {"open", "closed"}]]
    /\ last.op \in {"erase", "write", "read", "other"}
    /\ strays \in Nat
    /\ fault \in {"none", "read", "write", "flush"}

\* A handler only touches bytes that m_buf has (the memcpy of FuseWrite, the
\* reply of FuseRead, the MPI_Scatterv of FuseFlush), though it goes by st_blocks
\* and st_size.
StaysInBuffer == strays = 0 => fault = "none"

\* A file that nobody has open has been written back: nothing waits, nothing is
\* left in m_buf, and the store holds the blocks of st_size bytes.
ClosedIsStored ==
    \A ino \in Inodes : strays = 0 /\ OpenOn(ino) = {} =>
        /\ ~waiting[ino] /\ m_buf[ino] = NoBuf
        /\ st_size[ino] > 0 => Len(content[ino]) = BlocksFor(st_size[ino])

\* What st_blocks and the free blocks of statfs are kept for.
BlocksInUse == MapThenSumSet(LAMBDA ino : st_blocks[ino], Inodes)

\* statfs never reports more free blocks than there are (UpdateUsedBlocks), in the
\* client-server program: in the other one MPI threads set st_blocks without it.
FreeBlocksExist == usedBlocks >= BlocksInUse

\* The file as the next open, or the buffer, would show it.
Contents == [ino \in Inodes |->
    LET bytes == IF m_buf[ino] # NoBuf THEN m_buf[ino] ELSE ToBytes(content[ino])
    IN  [i \in 1 .. st_size[ino] |-> IF i <= Len(bytes) THEN bytes[i] ELSE Junk]]
File == INSTANCE FileContents WITH file <- Contents

\* Through open, write, flush, release and the next open a file keeps the bytes
\* that were written to it, and reads return them.
ImplementsFileContents ==
    File!Init /\ [][strays' = 0 => File!Next \/ UNCHANGED <<Contents, last>>]_vars
=============================================================================
