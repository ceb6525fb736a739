----------------------------- MODULE ClientServer -----------------------------
(***************************************************************************)
(* The block level of the client-server program.  Rank 0, the master, runs *)
(* the FUSE session in one thread (mpi/MasterProcessCode.cpp); ranks 1 to  *)
(* W - 1, the nodes, loop in NodeProcessCode::start.  They meet only in    *)
(* MPI collectives rooted at the master, matched by their order alone: the *)
(* master calls MPI_Bcast, MPI_Scatterv and goes on, a node takes the      *)
(* collectives in the order they were issued and must call, each time, the *)
(* one that was issued, with the count that was issued, which both compute *)
(* for themselves from fileSize and reqSize.                               *)
(*                                                                         *)
(* A block's address is a pointer of the process that allocated it, here   *)
(* its index in the memory of that process: two processes can hold         *)
(* different blocks at equal addresses.  The code frees no block.          *)
(***************************************************************************)
EXTENDS Partition, Sequences

CONSTANTS
    Inodes,      \* i-node numbers of files
    Block,       \* what a block can hold
    Garbage,     \* what is found at an address where the process keeps no block
    MaxFileSize, \* bound: bytes of a file
    MaxOps,      \* bound: operations the master starts
    WholeReads   \* do reads ask for as many blocks as were last written?

ASSUME ClientServerAssumption ==
    /\ Inodes # {}
    /\ Garbage \notin Block
    /\ MaxFileSize \in Nat
    /\ MaxOps \in Nat
    /\ WholeReads \in BOOLEAN

VARIABLES
    mpc,      \* master: the MPI call it is at
    cur,      \* master: inode, fileSize, reqSize and buffer of the operation
    lists,    \* master: Blocks::FileSystemDataBlocks, an address and a rank each
    result,   \* master: what the last DAGonFS_Read returned
    written,  \* history: blocks of the last DAGonFS_Write of each file
    ops,      \* operations started
    chan,     \* what the master has issued and rank r has not yet taken
    up,       \* what rank r has sent to MPI_Gatherv and the master has not taken
    npc,      \* node: the MPI call it is at
    req,      \* node: its ioRequest
    mem,      \* the blocks each rank has allocated; mem[r][a] is at address a
    kept      \* node: dataBlockPointers, the addresses kept for createFileDump

masterVars == <<mpc, cur, lists, result, written, ops>>
nodeVars   == <<npc, req, kept>>
vars       == <<masterVars, nodeVars, chan, up, mem>>

-----------------------------------------------------------------------------
Nodes == Ranks \ {0}
Sizes == 0 .. MaxFileSize
Max(a, b) == IF a >= b THEN a ELSE b

\* Packets.  type of an IORequestPacket is not in the code: it repeats the
\* request it follows, for the invariants.
Request(t)  == [op |-> "request", type |-> t]
IORequest(t, c) ==
    [op |-> "io", type |-> t, ino |-> c.ino, fileSize |-> c.fileSize, reqSize |-> c.reqSize]
Scattered(op, s) == [op |-> op, items |-> s]

Bcast(m)        == chan' = [r \in Nodes |-> Append(chan[r], m)]
Scatterv(op, s) == chan' = [r \in Nodes |->
                       Append(chan[r], Scattered(op, Share(s, Len(s), r)))]

\* The sender's side of MPI_Gatherv: a process with nothing to send is not
\* waited for.
Send(r, items) == up' = [up EXCEPT ![r] = IF items = <<>> THEN @ ELSE Append(@, items)]

\* malloc and memcpy of the blocks in s at rank r, and the addresses they get.
Keep(r, s)      == mem' = [mem EXCEPT ![r] = @ \o s]
NewAddresses(r, s) == [k \in 1 .. Len(s) |-> Len(mem[r]) + k]

\* memcpy from an address of rank r's.
Fetch(r, a) == IF a \in 1 .. Len(mem[r]) THEN mem[r][a] ELSE Garbage
FetchAll(r, as) == [k \in 1 .. Len(as) |-> Fetch(r, as[k])]

Init ==
    /\ mpc = "mounting"
    /\ cur = [ino |-> CHOOSE i \in Inodes : TRUE, fileSize |-> 0, reqSize |-> 0,
              buf |-> <<>>]
    /\ lists = [i \in Inodes |-> <<>>]
    /\ result = <<>>
    /\ written = [i \in Inodes |-> 0]
    /\ ops = 0
    /\ chan = [r \in Nodes |-> <<>>]
    /\ up = [r \in Ranks |-> <<>>]
    /\ npc = [r \in Nodes |-> "request"]
    /\ req = [r \in Nodes |-> IORequest("none", cur)]
    /\ mem = [r \in Ranks |-> <<>>]
    /\ kept = [r \in Nodes |-> [i \in Inodes |-> <<>>]]

-----------------------------------------------------------------------------
(* The master.  ops bounds the operations it starts.                       *)

\* FuseInit ends with sendChangedir, a request the nodes take and ignore.
FuseInit ==
    /\ mpc = "mounting"
    /\ mpc' = "idle"
    /\ Bcast(Request("CHANGE_DIR"))
    /\ UNCHANGED <<cur, lists, result, written, ops, nodeVars, up, mem>>

Start(t, pc, ino, fileSize, reqSize, buf) ==
    /\ mpc = "idle" /\ ops < MaxOps
    /\ mpc' = pc
    /\ ops' = ops + 1
    /\ cur' = [ino |-> ino, fileSize |-> fileSize, reqSize |-> reqSize, buf |-> buf]
    /\ Bcast(Request(t))
    /\ UNCHANGED <<lists, result, written, nodeVars, up, mem>>

\* FuseFlush of a file that waits to be written: sendWriteRequest.
FuseFlush(ino, size, buf) == Start("WRITE", "write_io", ino, size, 0, buf)

\* FuseOpen of a file to be loaded: sendReadRequest.  st_size is both the size
\* of the file and of the request.
FuseOpen(ino, size) ==
    /\ WholeReads => BlocksFor(size) = written[ino]
    /\ Start("READ", "read_io", ino, size, size, <<>>)

\* FileSystem::start after the session loop: sendTermination.
Unmount ==
    /\ mpc = "idle"
    /\ mpc' = "terminated"
    /\ Bcast(Request("TERMINATE"))
    /\ UNCHANGED <<cur, lists, result, written, ops, nodeVars, up, mem>>

WriteIO ==
    /\ mpc = "write_io"
    /\ mpc' = "write_scatter"
    /\ Bcast(IORequest("WRITE", cur))
    /\ UNCHANGED <<cur, lists, result, written, ops, nodeVars, up, mem>>

\* MPI_Scatterv, then the master's own blocks, then its part of MPI_Gatherv.
WriteScatter ==
    LET n   == BlocksFor(cur.fileSize)
        own == Share(cur.buf, n, 0)
    IN  /\ mpc = "write_scatter"
        /\ mpc' = "write_gather"
        /\ Scatterv("blocks", cur.buf)
        /\ Keep(0, own)
        /\ Send(0, NewAddresses(0, own))
        /\ UNCHANGED <<cur, lists, result, written, ops, nodeVars>>

\* Bug: rank_i is not set back to 0 at mpi_world_size.
AddDataBlocksTo_Bug(list, nblocks) ==
    LET last == IF list = <<>> THEN 0 ELSE list[Len(list)].rank
    IN  list \o [k \in 1 .. nblocks |-> [data |-> 0, rank |-> last + k - 1]]

\* DataBlockManager::addDataBlocksTo: nblocks more entries, with the ranks in
\* turn from that of the last entry.
AddDataBlocksTo(list, nblocks) ==
    LET last == IF list = <<>> THEN 0 ELSE list[Len(list)].rank
    IN  list \o [k \in 1 .. nblocks |-> [data |-> 0, rank |-> (last + k - 1) % W]]

\* The block list of a file after addresses have been gathered for it.
UpdateList(list, addresses) ==
    LET longer == AddDataBlocksTo(list, Max(Len(addresses) - Len(list), 0))
    IN  [i \in DOMAIN longer |->
            IF i <= Len(addresses) THEN [longer[i] EXCEPT !.data = addresses[i]]
                                   ELSE longer[i]]

\* The master's side of MPI_Gatherv of n items.
Gatherv(n) ==
    /\ \A r \in Ranks : Count(n, r) > 0 => up[r] # <<>>
    /\ up' = [r \in Ranks |-> IF Count(n, r) > 0 THEN Tail(up[r]) ELSE up[r]]

Gathered(n) == Assemble([r \in Ranks |-> Head(up[r])], n)

\* Bug: only the blocks that are new to the list get their addresses.
WriteGather_Bug ==
    LET n == BlocksFor(cur.fileSize)
    IN  /\ mpc = "write_gather"
        /\ mpc' = "idle"
        /\ Gatherv(n)
        /\ lists' = [lists EXCEPT ![cur.ino] = [i \in 1 .. Max(n, Len(@)) |->
                        IF i <= Len(@) THEN @[i] ELSE UpdateList(@, Gathered(n))[i]]]
        /\ written' = [written EXCEPT ![cur.ino] = n]
        /\ UNCHANGED <<cur, result, ops, chan, nodeVars, mem>>

\* The rest of DAGonFS_Write: the addresses, then the block list.
WriteGather ==
    LET n == BlocksFor(cur.fileSize)
    IN  /\ mpc = "write_gather"
        /\ mpc' = "idle"
        /\ Gatherv(n)
        /\ lists' = [lists EXCEPT ![cur.ino] = UpdateList(@, Gathered(n))]
        /\ written' = [written EXCEPT ![cur.ino] = n]
        /\ UNCHANGED <<cur, result, ops, chan, nodeVars, mem>>

\* Bug: the null pointer is returned after the addresses have been scattered.
ReadIO_Bug ==
    /\ mpc = "read_io"
    /\ Bcast(IORequest("READ", cur))
    /\ mpc' = "read_scatter"
    /\ UNCHANGED <<cur, lists, result, written, ops, nodeVars, up, mem>>

\* DAGonFS_Read returns the null pointer for an empty file.
ReadIO ==
    /\ mpc = "read_io"
    /\ Bcast(IORequest("READ", cur))
    /\ IF cur.fileSize = 0
         THEN mpc' = "idle" /\ result' = <<>>
         ELSE mpc' = "read_scatter" /\ UNCHANGED result
    /\ UNCHANGED <<cur, lists, written, ops, nodeVars, up, mem>>

ReadBlocks == RequestBlocks(cur.fileSize, cur.reqSize)

\* Past the end of the list, dataBlockList[i] is not a DataBlock: address 0
\* stands for whatever is read there.
ReadScatter ==
    LET list == lists[cur.ino]
        addresses == [i \in 1 .. ReadBlocks |->
                         IF i <= Len(list) THEN list[i].data ELSE 0]
    IN  /\ mpc = "read_scatter"
        /\ mpc' = "read_gather"
        /\ Scatterv("addresses", addresses)
        /\ Send(0, FetchAll(0, Share(addresses, ReadBlocks, 0)))
        /\ UNCHANGED <<cur, lists, result, written, ops, nodeVars, mem>>

ReadGather ==
    /\ mpc = "read_gather"
    /\ mpc' = "idle"
    /\ Gatherv(ReadBlocks)
    /\ result' = Gathered(ReadBlocks)
    /\ UNCHANGED <<cur, lists, written, ops, chan, nodeVars, mem>>

-----------------------------------------------------------------------------
(* A node: NodeProcessCode::start, DAGonFS_Write and DAGonFS_Read.         *)

Take(r) == chan' = [chan EXCEPT ![r] = Tail(@)]

\* Bug: TERMINATE falls into the default case.
NodeRequest_Bug(r) ==
    /\ npc[r] = "request" /\ chan[r] # <<>> /\ Head(chan[r]).op = "request"
    /\ npc' = [npc EXCEPT ![r] = CASE Head(chan[r]).type = "WRITE" -> "write_io"
                                   [] Head(chan[r]).type = "READ"  -> "read_io"
                                   [] OTHER -> "request"]
    /\ Take(r)
    /\ UNCHANGED <<masterVars, req, kept, up, mem>>

NodeRequest(r) ==
    /\ npc[r] = "request" /\ chan[r] # <<>> /\ Head(chan[r]).op = "request"
    /\ npc' = [npc EXCEPT ![r] = CASE Head(chan[r]).type = "WRITE" -> "write_io"
                                   [] Head(chan[r]).type = "READ"  -> "read_io"
                                   [] Head(chan[r]).type = "TERMINATE" -> "stopped"
                                   [] OTHER -> "request"]
    /\ Take(r)
    /\ UNCHANGED <<masterVars, req, kept, up, mem>>

\* Bug: the node waits for the addresses of an empty file.
NodeIO_Bug(r) ==
    /\ npc[r] \in {"write_io", "read_io"} /\ chan[r] # <<>> /\ Head(chan[r]).op = "io"
    /\ req' = [req EXCEPT ![r] = Head(chan[r])]
    /\ npc' = [npc EXCEPT ![r] = IF @ = "write_io" THEN "write" ELSE "read"]
    /\ Take(r)
    /\ UNCHANGED <<masterVars, kept, up, mem>>

NodeIO(r) ==
    /\ npc[r] \in {"write_io", "read_io"} /\ chan[r] # <<>> /\ Head(chan[r]).op = "io"
    /\ req' = [req EXCEPT ![r] = Head(chan[r])]
    /\ npc' = [npc EXCEPT ![r] = CASE @ = "write_io" -> "write"
                                   [] @ = "read_io" /\ Head(chan[r]).fileSize = 0 -> "request"
                                   [] OTHER -> "read"]
    /\ Take(r)
    /\ UNCHANGED <<masterVars, kept, up, mem>>

\* Bug: the node forgets to send the addresses.
NodeWrite_Bug(r) ==
    LET items == Head(chan[r]).items
    IN  /\ npc[r] = "write" /\ chan[r] # <<>> /\ Head(chan[r]).op = "blocks"
        /\ npc' = [npc EXCEPT ![r] = "request"]
        /\ Keep(r, items)
        /\ kept' = [kept EXCEPT ![r][req[r].ino] = @ \o NewAddresses(r, items)]
        /\ Take(r)
        /\ UNCHANGED <<masterVars, req, up>>

\* Bug: effectiveBlocks with rank <= remainingBlocks.
NodeWrite_CountBug(r) ==
    LET items == Head(chan[r]).items
        n     == BlocksFor(req[r].fileSize)
    IN  /\ npc[r] = "write" /\ chan[r] # <<>> /\ Head(chan[r]).op = "blocks"
        /\ npc' = [npc EXCEPT ![r] = "request"]
        /\ Keep(r, items)
        /\ Send(r, [k \in 1 .. n \div W + (IF r <= n % W THEN 1 ELSE 0) |-> Len(mem[r]) + k])
        /\ kept' = [kept EXCEPT ![r][req[r].ino] = @ \o NewAddresses(r, items)]
        /\ Take(r)
        /\ UNCHANGED <<masterVars, req>>

\* MPI_Scatterv, malloc of the blocks, MPI_Gatherv of their addresses.
NodeWrite(r) ==
    LET items == Head(chan[r]).items
    IN  /\ npc[r] = "write" /\ chan[r] # <<>> /\ Head(chan[r]).op = "blocks"
        /\ npc' = [npc EXCEPT ![r] = "request"]
        /\ Keep(r, items)
        /\ Send(r, NewAddresses(r, items))
        /\ kept' = [kept EXCEPT ![r][req[r].ino] = @ \o NewAddresses(r, items)]
        /\ Take(r)
        /\ UNCHANGED <<masterVars, req>>

\* MPI_Scatterv of addresses, memcpy from them, MPI_Gatherv of the blocks.
NodeRead(r) ==
    /\ npc[r] = "read" /\ chan[r] # <<>> /\ Head(chan[r]).op = "addresses"
    /\ npc' = [npc EXCEPT ![r] = "request"]
    /\ Send(r, FetchAll(r, Head(chan[r]).items))
    /\ Take(r)
    /\ UNCHANGED <<masterVars, req, kept, mem>>

-----------------------------------------------------------------------------
MasterStep == \/ FuseInit \/ WriteIO \/ WriteScatter \/ WriteGather
              \/ ReadIO \/ ReadScatter \/ ReadGather

NodeStep(r) == NodeRequest(r) \/ NodeIO(r) \/ NodeWrite(r) \/ NodeRead(r)

\* Every process has left its loop and reached MPI_Finalize.
Finalized == mpc = "terminated" /\ \A r \in Nodes : npc[r] = "stopped"

Next ==
    \/ MasterStep
    \/ Unmount
    \/ \E ino \in Inodes, size \in Sizes :
          \/ FuseOpen(ino, size)
          \/ \E buf \in [1 .. BlocksFor(size) -> Block] : FuseFlush(ino, size, buf)
    \/ \E r \in Nodes : NodeStep(r)
    \/ Finalized /\ UNCHANGED vars

Spec == Init /\ [][Next]_vars

\* The processes run and MPI delivers; nobody has to open, close or unmount.
FairSpec == Spec /\ WF_vars(MasterStep) /\ \A r \in Nodes : WF_vars(NodeStep(r))

-----------------------------------------------------------------------------
Address == Nat
Item    == Address \cup Block \cup {Garbage}

Msg ==
    [op : {"request"}, type : {"CHANGE_DIR", "WRITE", "READ", "TERMINATE"}]
    \cup [op : {"io"}, type : {"WRITE", "READ"}, ino : Inodes,
          fileSize : Sizes, reqSize : Sizes]
    \cup [op : {"blocks"}, items : Seq(Block)]
    \cup [op : {"addresses"}, items : Seq(Address)]

TypeOK ==
    /\ mpc \in {"mounting", "idle", "write_io", "write_scatter", "write_gather",
                "read_io", "read_scatter", "read_gather", "terminated"}
    /\ cur \in [ino : Inodes, fileSize : Sizes, reqSize : Sizes, buf : Seq(Block)]
    /\ lists \in [Inodes -> Seq([data : Address, rank : Ranks])]
    /\ result \in Seq(Block \cup {Garbage})
    /\ written \in [Inodes -> Nat]
    /\ ops \in 0 .. MaxOps
    /\ chan \in [Nodes -> Seq(Msg)]
    /\ up \in [Ranks -> Seq(Seq(Item))]
    /\ npc \in [Nodes -> {"request", "write_io", "read_io", "write", "read", "stopped"}]
    /\ req \in [Nodes -> [op : {"io"}, type : {"none", "WRITE", "READ"}, ino : Inodes,
                         fileSize : Sizes, reqSize : Sizes]]
    /\ mem \in [Ranks -> Seq(Block)]
    /\ kept \in [Nodes -> [Inodes -> Seq(Address)]]

-----------------------------------------------------------------------------
(* What collective comes next, on either side: the call, the request it    *)
(* belongs to where that decides what the node does, and the count.        *)

Call(op, type, n) == [op |-> op, type |-> type, count |-> n]
NextRequest       == Call("request", "any", 0)

CallOf(m) == CASE m.op = "request" -> NextRequest
               [] m.op = "io"      -> Call("io", m.type, 0)
               [] OTHER            -> Call(m.op, "any", Len(m.items))

\* The two scatters at rank r, with the count either side computes for itself.
BlocksCall(io, r)    == Call("blocks", "any", Count(BlocksFor(io.fileSize), r))
AddressesCall(io, r) ==
    Call("addresses", "any", Count(RequestBlocks(io.fileSize, io.reqSize), r))

After(m, r) ==
    CASE m.op = "request" /\ m.type \in {"WRITE", "READ"} -> Call("io", m.type, 0)
      [] m.op = "request" /\ m.type = "TERMINATE" -> Call("none", "any", 0)
      [] m.op = "io" /\ m.type = "WRITE" -> BlocksCall(m, r)
      [] m.op = "io" /\ m.type = "READ" /\ m.fileSize # 0 -> AddressesCall(m, r)
      [] OTHER -> NextRequest

\* What rank r waits for, and what the master will issue next.
Awaited(r) ==
    CASE npc[r] = "request"  -> NextRequest
      [] npc[r] = "write_io" -> Call("io", "WRITE", 0)
      [] npc[r] = "read_io"  -> Call("io", "READ", 0)
      [] npc[r] = "write"    -> BlocksCall(req[r], r)
      [] npc[r] = "read"     -> AddressesCall(req[r], r)
      [] npc[r] = "stopped"  -> Call("none", "any", 0)

Issued(r) ==
    CASE mpc = "write_io" -> Call("io", "WRITE", 0)
      [] mpc = "read_io"  -> Call("io", "READ", 0)
      [] mpc = "write_scatter" -> BlocksCall(cur, r)
      [] mpc = "read_scatter"  -> AddressesCall(cur, r)
      [] mpc = "terminated"    -> Call("none", "any", 0)
      [] OTHER -> NextRequest

\* How many items the MPI_Gatherv the master waits in is to take from rank r.
Gathers(r) == CASE mpc = "write_gather" -> Count(BlocksFor(cur.fileSize), r)
                [] mpc = "read_gather"  -> Count(ReadBlocks, r)
                [] OTHER -> 0

-----------------------------------------------------------------------------
(* Properties.                                                             *)

\* Whatever the master runs ahead, the collective a node finds issued is the
\* one it has called, of the same operation and with the count it computed
\* itself (NodeProcessCode::start, DAGonFS_Write, DAGonFS_Read).
NodesInStep ==
    \A r \in Nodes : chan[r] # <<>> => CallOf(Head(chan[r])) = Awaited(r)

\* A contribution to MPI_Gatherv belongs to the gather the master waits in and
\* is as long as the master's gatherCounts say; none is left for the next one.
GathersInStep ==
    \A r \in Ranks : up[r] # <<>> =>
        Len(up[r]) = 1 /\ Gathers(r) > 0 /\ Len(Head(up[r])) = Gathers(r)

\* What makes the two inductive.  The request in progress is consistent;
RequestInStep ==
    /\ mpc \in {"write_io", "write_scatter"} => Len(cur.buf) = BlocksFor(cur.fileSize)
    /\ mpc = "read_scatter" => cur.fileSize # 0

\* the collectives in chan[r], one following from the other, lead from what rank
\* r waits for to what the master will issue;
Leads(c, from, to, r) ==
    /\ \A k \in 1 .. Len(c) : CallOf(c[k]) = IF k = 1 THEN from ELSE After(c[k - 1], r)
    /\ to = IF c = <<>> THEN from ELSE After(c[Len(c)], r)

Chained == \A r \in Nodes : Leads(chan[r], Awaited(r), Issued(r), r)

\* and while rank r has yet to take a scatter of any items, the master waits for
\* as many in the gather of the same operation.
GatherOf(op) == IF op = "blocks" THEN "write_gather" ELSE "read_gather"

MasterWaits ==
    \A r \in Nodes : \A k \in 1 .. Len(chan[r]) :
        (chan[r][k].op \in {"blocks", "addresses"} /\ chan[r][k].items # <<>>) =>
            /\ k = Len(chan[r])
            /\ mpc = GatherOf(chan[r][k].op)
            /\ Len(chan[r][k].items) = Gathers(r)
            /\ up[r] = <<>>

\* A write gathers addresses, a read blocks.
GathersOwn ==
    \A r \in Ranks : up[r] # <<>> =>
        Head(up[r]) \in Seq(IF mpc = "write_gather" THEN Address ELSE Block \cup {Garbage})

StepInv == /\ TypeOK /\ RequestInStep /\ Chained /\ MasterWaits
           /\ GathersInStep /\ GathersOwn

\* The addresses of a file's blocks, shared out by the partition of its last
\* write, each reach the process that allocated the block and, on a node, keeps
\* it in dataBlockPointers of that file; no two blocks share one.
BlocksAtHome ==
    LET live == {b \in Inodes \X (1 .. BlocksFor(MaxFileSize)) : b[2] <= written[b[1]]}
        home(b) == Owner(written[b[1]], b[2])
        addr(b) == lists[b[1]][b[2]].data
    IN  /\ \A b \in live :
              /\ b[2] <= Len(lists[b[1]])
              /\ addr(b) \in 1 .. Len(mem[home(b)])
              /\ home(b) # 0 => \E k \in DOMAIN kept[home(b)][b[1]] :
                                    kept[home(b)][b[1]][k] = addr(b)
        /\ \A b, c \in live : home(b) = home(c) /\ addr(b) = addr(c) => b = c

\* The interface of BlockStore, seen through the processes: the call the FUSE
\* thread is in, and the blocks that are at a file's addresses.
Content == [ino \in Inodes |->
               [i \in 1 .. written[ino] |->
                   Fetch(Owner(written[ino], i), lists[ino][i].data)]]
InCall ==
    CASE mpc \in {"write_io", "write_scatter", "write_gather"} ->
             [op |-> "write", ino |-> cur.ino, buf |-> cur.buf]
      [] mpc \in {"read_io", "read_scatter", "read_gather"} ->
             [op |-> "read", ino |-> cur.ino, n |-> ReadBlocks]
      [] OTHER -> [op |-> "none"]
Abstract == INSTANCE BlockStore WITH call <- InCall, content <- Content,
                                     MaxSize <- BlocksFor(MaxFileSize)

\* Whatever the processes interleave, a DAGonFS_Write replaces the blocks of a
\* file at one instant by those of m_buf and touches no other file, and a
\* DAGonFS_Read of as many blocks returns them in order.
ImplementsBlockStore == Abstract!Spec

\* The master never waits for ever in an operation, and after the unmount every
\* node leaves its loop (NodeProcessCode::start, case TERMINATE).
OperationsEnd  == mpc \notin {"idle", "terminated"} ~> mpc = "idle"
AllTerminate   == mpc = "terminated" ~> Finalized
=============================================================================
