# DAGonFS: specifications, model checking and proofs

DAGonFS is a file system in the memory of the processes of an MPI job. The
repository builds two programs from nearly the same sources:

- `DAGonFS_CS` (`src/src/client-server/`): rank 0, the *master*, mounts the
  file system and runs the FUSE session; the other ranks, the *nodes*, only
  hold blocks of files.
- `DAGonFS_P2P` (`src/src/peer-to-peer/`): every rank mounts the file system,
  and repeats on its own mount point what the others do on theirs.

There are no tests; the documentation is a man page. What the code promises is
in its comments and log lines, and in what the kernel's FUSE client relies on.

Paths below are relative to `src/src/client-server/include/` (CS) or
`src/src/peer-to-peer/include/` (P2P).

## 1. Inventory

### I-node table, directories, reference counts (both programs)

*Files* `ramfs/FileSystem.cpp`, `nodes/Nodes.cpp`, `INode.cpp`, `Directory.cpp`.
*State* the vector `INodes`, the queue `DeletedINodes`, `m_reclaimingINodes`,
the i-nodes used in `m_stbuf`; per i-node `st_nlink`, `m_nlookup`,
`markedForDeletion`; per directory the map `m_children`.
*Operations* `FuseInit`, `FuseLookup`, `FuseForget`, `FuseCreate`, `FuseMknod`,
`FuseSymlink`, `FuseMkdir`, `FuseUnlink`, `FuseRmdir`, `FuseRename`, `FuseLink`,
and `RegisterINode`, which all the creating ones call.
*Hard* handlers run one at a time; the difficulty is sequences. A number may be
reused once its lookup count and its link count are both 0, and any order of
unlink, rename, link, lookup and forget can lead there.
*Correct if* a number waiting for reuse has neither name nor reference and waits
once; lookup counts are what the kernel will forget; link counts cover the
names; statfs accounts for every number.

### File contents (both programs)

*Files* `ramfs/FileSystem.cpp`, `nodes/File.*`, `Nodes::SetINodeAttributes`.
*State* per file `m_buf`, `isWaitingForDistributedWrite`, `st_size`,
`st_blocks`; the free blocks of `m_stbuf`.
*Operations* `FuseOpen` (erase, or load all of the file), `FuseRead`,
`FuseWrite`, `FuseFlush` (distributed write, free), `FuseRelease`, `FuseSetAttr`.
*Hard* one buffer per file however many handles there are; its capacity is
computed from `st_blocks`, which outlives it; sizes at block boundaries.
*Correct if* no handler leaves the buffer; a closed file is in the block store;
reads return what was written.

### Partition (both programs)

The arithmetic that cuts a file into blocks and the blocks into runs, repeated
for every `MPI_Scatterv` and `MPI_Gatherv` on both sides.
*Correct if* displacements are the sums of the counts, the runs cover all blocks
once, and gathering undoes scattering.

### Block store: master and nodes (CS)

*Files* `mpi/MasterProcessCode.cpp`, `NodeProcessCode.cpp`,
`DataBlockManager.cpp`, `blocks/Blocks.cpp`, `main.cpp`.
*State* the master's list of block addresses per file; on each process the
blocks it allocated; on the nodes `dataBlockPointers`; in MPI what the master has
issued and a node has not yet taken.
*Operations* `DAGonFS_Write`, `DAGonFS_Read`, the `send...` broadcasts,
`NodeProcessCode::start`.
*Hard* collectives are matched by order alone. The master runs ahead, each node
computes for itself which collective comes next and with what count, and an
address means something only on the process that allocated it.
*Correct if* a node always calls the collective that was issued, with its
count; contributions belong to the gather they are used in; a file's addresses
reach the processes that own them; a read returns the last write; nobody waits
for ever.

### Replication of the namespace (P2P)

*Files* `mpi/RequestSender.cpp`, `mpi/DistributedCode.cpp`,
`ramfs/FileSystem.cpp`.
*State* each process's own i-node table; the five `...FromThread` flags shared by
its FUSE and MPI threads; messages between processes.
*Operations* a local create, unlink, mkdir, rmdir or rename sends a header and a
name to every process; their MPI threads repeat it with `fopen`, `unlink`, ... on
their own mount point, whose handler must not send it again.
*Hard* two threads per process, all processes at once; header and name are two
messages received from any source; numbers are given out locally.
*Correct if* the processes come to agree on names and numbers, every operation
is repeated once everywhere and none for ever.

### Distributed data (P2P)

*Files* `mpi/DistributedCode.cpp`, `mpi/RequestSender.cpp`,
`mpi/DataBlockManager.cpp`, `blocks/`, `ramfs/FileSystem.cpp`.
*State* on every process the block list, `st_size`, `st_blocks` and `m_buf` of
every file, and the blocks it allocated; requests on their way.
*Operations* `FuseOpen` and `FuseFlush` send READ or WRITE and an `IORequest` to
the second threads of the others, and all enter `DAGonFS_Read` or
`DAGonFS_Write`, with the sender as the root of the collectives.
*Hard* any process can be the root, so that two can be at the same time; request
and `IORequest` are received from any source; both threads of a process use the
same communicator and counts; the second thread changes the attributes of a file
its FUSE thread may have open; a process with no share of the blocks is waited
for by nobody.
*Correct if* no message and no collective is taken for another; the processes
agree on addresses and sizes; a read anywhere returns the last write, wherever it
was made; every handler ends and every process catches up.

### Termination (P2P)

*Files* `FileSystem::start`, `DistributedCode::start` and `unmountFileSystem`,
`main.cpp`.
*State* `unmountFromThread`; where the two threads of each process are.
*Operations* the end of a session sends TERMINATE to all processes, its own
second thread included; a second thread that receives it from another process
unmounts its own mount point and ends.
*Hard* several unmounts at once; a second thread that has ended while another
process still reads or writes.
*Correct if* after the first unmount all processes come to `MPI_Finalize`.

### Reading directories (both programs)

*Files* `FuseOpenDir`, `FuseReadDir`, `FuseReleaseDir`, `nodes/Directory.cpp`.
*State* per open directory an iterator into `m_children`, on the heap; its
address is the offset the kernel is given.
*Hard* entries come and go between two responses; an entry that does not fit
moves the iterator back; all entries of a response carry one offset.
*Correct if* a listing names every entry that is there all the time, none twice,
and ends.

### Extended attributes (both programs)

*Files* `FuseSetXAttr`, `FuseGetXAttr`, `FuseListXAttr`, `FuseRemoveXAttr`,
`nodes/INode.cpp`.
*State* the map `m_xattr` of an i-node.
*Hard* a value is read by two requests, size and value; flags; lengths.
*Correct if* a read returns all of the value last set.

### Others

Requests that only look, start-up and the launcher, logging and timing. Section 7
says what becomes of them.

### How they interact

The kernel calls the handlers of one FUSE session one at a time. `FuseOpen` and
`FuseFlush` call `DAGonFS_Read` and `DAGonFS_Write`, which return only when the
collectives are over; in the P2P program the create, delete and rename handlers
also call `RequestSender` after their reply. Partition is used by both stores.
The i-node table supplies the numbers under which contents are stored; a reused
number keeps its block list.

`PROJECT.json` lists the hazards of all of these at their lines.

## 2. Plan

| order | module | composes | abstract specification | state |
|---|---|---|---|---|
| 1 | `INodeTable` | | | done, proved |
| 2 | `Partition` | | | done, proved |
| 3 | `ClientServer` | `Partition` | `BlockStore` | done, proved |
| 4 | `FileIO` | `BlockStore` | `FileContents` | done, proved |
| 5 | `P2PNamespace` | | `OperationLog`: one sequence, applied everywhere | done, proved |
| 6 | `P2PData`, with termination | `Partition` | `BlockStore` | done, proved |
| 7 | `ReadDir` | | | done, proved |
| 8 | `XAttr` | | `Attributes`: a map of values | done, proved |

"Proved" means every invariant and action property of the runs that pass, and the
refinement of the abstract specification; what stays with TLC is listed at the end
of section 6.

## 3. Modules

| module | what it is |
|---|---|
| `INodeTable`, `MCINodeTable` | i-node table, directories and counts |
| `INodeTableProofs` | types, `KernelRefs`, `ReclaimSafe`, `LinksCoverEntries`, `LinksExact`, `StatfsAccounts` |
| `Partition`, `PartitionProofs` | block and run arithmetic, its theorems, and lemmas on sequences |
| `BlockStore` | what the block level promises the handlers |
| `ClientServer`, `MCClientServer` | master and nodes; implements `BlockStore` |
| `ClientServerProofs` | types, `NodesInStep`, `GathersInStep`, `BlocksAtHome`, and that it implements `BlockStore` |
| `FileContents` | what a client expects of the contents of files |
| `FileIO`, `MCFileIO` | `m_buf` and the handlers; uses `BlockStore`, implements `FileContents` |
| `FileIOProofs` | types, `FreeBlocksExist`, `StaysInBuffer`, `ClosedIsStored`, and that it implements `FileContents` |
| `OperationLog` | what the peer-to-peer program can promise about names |
| `P2PNamespace` | handlers, flags, messages and second threads of all processes; implements `OperationLog` |
| `P2PNamespaceProofs` | types, `NoneFails`, `SameNumbers`, `ShowsItsPrefix`, and that it implements `OperationLog` |
| `P2PData`, `MCP2PData` | contents of files in the peer-to-peer program, and its end; implements `BlockStore` |
| `P2PDataProofs` | types, `InStep`, `SameFiles`, `RoomIsThere`, and that it implements `BlockStore` |
| `ReadDir`, `MCReadDir` | a listing of a directory that changes |
| `ReadDirProofs` | types, `Complete`, `OnlyLastAgain` |
| `Attributes` | what a client expects of extended attributes |
| `XAttr`, `MCXAttr` | `m_xattr` and its handlers; implements `Attributes` |
| `XAttrProofs` | types, and that it implements `Attributes` |

A definition whose name ends in `_Bug` (or `...Bug`) is the definition after it
with a mistake planted. It is used by no specification; with it in place of the
real one, the property it is listed with in `PROJECT.json` fails.

Much of this code is right only for users who do not do certain things at the
same time, or at all. Such modules let them do everything and have a history
variable, `orderly` (in `FileIO` it is `strays = 0`, in `INodeTable` the set
`spoiled`), that says whether things have been as the comment at `Keeps` or
`Turn` says. What is promised of orderly behaviours only says so in its formula.
Every rule listed below is needed: TLC refutes the property named with it when
it is dropped. A hazard that a rule excludes has no property in `PROJECT.json`,
only a note saying which rule it is.

### INodeTable

One action per handler; variables carry the source's names. A handler that
replies an error changes nothing and is no step. The kernel is the environment:
`kref` are the references it was granted and has not forgotten, `dead` the
directories it saw removed, and `CanAdd`, `CanRemove`, `CanRename`, `CanForget`
are the checks of its VFS before it sends a request. A rename is one without
`RENAME_NOREPLACE` or `RENAME_EXCHANGE`: `FuseRename` is given the flags and
ignores them, so that with one of them it does what was not asked for; here and
in `P2PNamespace` nobody sets one. `st_nlink`, unsigned in the code, is compared
with 0 only; an underflow is a negative number here.

`DirsMove` says whether directories may be renamed into another parent; the counts
are wrong if they are (`inodes_moveddir`). `spoiled` is the history of the other
rename that goes wrong: a file whose name it replaces keeps a link too many. Its
number is then never given back, which `LinksExact` and `StatfsAccounts` allow for
these numbers and no others. `FuseMknod` of special files registers nothing the
model tells apart from a file.

### Partition

`Count` and `Displ` are `blockPerProcess + (rank < remainingBlocks)` and the
running `scatterOffset`, in closed form. `Share` and `Assemble` are what
`MPI_Scatterv` and `MPI_Gatherv` do with them.

### ClientServer

The master is a program counter `mpc` that stands at an MPI call, and so is each
node (`npc`); an action goes from one call to the next. `chan[r]` is the sequence
of collectives issued and not yet taken by node `r`: a root's broadcast or
scatter may return before a node has entered it. `up[r]` is what rank `r` has
contributed to a gather; the master waits for all who have something to send
(a contribution of no bytes is not waited for, which MPI allows). An address is
an index into the memory `mem[r]` of one process, so equal addresses on two
processes are different blocks, and a wrong one fetches another block or
`Garbage`. No block is ever freed, as in the code.

`FuseOpen` and `FuseFlush` are here only the requests they make; with
`WholeReads` a read asks for as many blocks as were last written. `FuseCreate`
leaves an existing block list as it is (`createEmptyBlockListForInode` creates
only a missing one), so it is no action here.

`Content` is the refinement mapping to `BlockStore`: the blocks found at a
file's addresses, each at the process the partition gives it to.

### FileIO

One action per handler over an atomic `BlockStore`; that `DAGonFS_Write` is
atomic seen from the handlers is what `ClientServer` implements. A handler that
would touch memory outside `m_buf` ends the behaviour with `fault` set. `realloc`
leaves new bytes undefined (`Junk`). The kernel's open files are `handle`;
between the flush that ends a handle and its release the file is "closed".
`FuseCreate` reuses a number whose file has been given back.

Clients may do anything; `strays` counts the requests since they were first not
orderly, up to `MaxStrays`. The rules, and what fails without them: a file is
open once at a time (`ImplementsFileContents`: a release frees the buffer others
use), no handle is used after a flush (`StaysInBuffer`: `m_buf` is null and
`st_blocks` is not 0), setattr sets no size (`ClosedIsStored`: only `st_size`
changes), no read starts past the end (`StaysInBuffer`: the second answer).
`FreeBlocksExist` and the types hold without them. `FreeBlocksExist` is about
the client-server program: in the other one `DAGonFS_Write` and `DAGonFS_Read`
set `st_blocks` on every process (P2P `DistributedCode.cpp:236`) without
`UpdateUsedBlocks`.

### P2PNamespace

Each process has its own `nodes`, an i-node table, with `links`, the `st_nlink`
of each i-node, and the queue `deleted` of numbers that may be used again.
Lookup counts are left out: `FuseForget` is the last FORGET of an i-node, which
the kernel may send, once there are no links left, at once or whenever it likes
(a file can still be open at one process and not at another). Beyond `Threshold`
waiting numbers `RegisterINode` takes numbers from the queue. A process also has
two program counters. `fuse[p]` is the FUSE thread between the reply of a
handler and its return: a handler changes the table and replies in one step,
`TestFlag` looks at the FromThread flag and sends, `ClearFlag` clears it; the
second thread can do anything in between. `loop[p]` is that thread:
`ReceiveHeader` (which sets the flag), `ReceivePayload`, then the system call on
its own mount point, which is `Repeat` if the kernel passes it to a handler and
`Refused` if not. `chan[s][r]` are MPI's messages, in order per sender; a
receive takes from any sender.

A process that takes the wrong message, or closes the null pointer, is "failed"
and followed no further. A header taken for a name would be a path next to the
mount point, and its payload too long for the next receive.

The replication works if users and threads behave, so the history variable
`orderly` says whether they have: one process is used at a time, with all
messages of the last one done; no directory is renamed; no node or link is made;
a FUSE thread has finished a handler when the header of the next operation is
received; and no process comes to use numbers again, that is, none has had more
than `kINodeReclamationThreshold` (256) i-nodes forgotten that had no links
left. The model allows all the rest, and TLC finds, for each of these, an
execution that breaks a property when it is left out of `orderly`: crossing
headers are taken for names; below a renamed directory names are sent with its
old path; a node nobody was told of makes a later operation a refused one, whose
flag stays set; a flag that is cleared late lets the next repeated operation be
sent back. The last needs a single user and two operations. The rule on numbers
is needed for `SameNumbers`: each process takes them from its own queue, filled
as its own kernel forgets, so a file that is open a little longer at one process
gets the next one another number there. `NoneFails` and `ShowsItsPrefix` hold in
the instance checked without this rule. The repository says nothing to the
contrary, so these are no findings.

### P2PData

Every process has a FUSE thread (`fuse`), which stands between two MPI calls of
the handler it is in, and a second thread (`loop`). A read or write is a pair of
collectives: `MPI_Scatterv` and then `MPI_Allgatherv` (write) or `MPI_Gatherv`
(read). `calls[p]` is the sequence of pairs process `p` has entered; the k-th of
one process is matched with the k-th of the others. What the root scatters and
what a process contributes are in its entry (and, as history, the file), and a
process waits only for those that have something to send it. Entering a pair that
differs from what another process has entered there, or while the other thread of
the process is in one (they share `scatterCounts` and the rest), is `Crossed`: MPI
does not define it, and the behaviour ends with `fault`, as it does when a message
is taken for another or a `memcpy` goes beyond `m_buf`. The `IORequest`s of a root, its scatter
and its own blocks are one step: in between it only sends.

Sizes are in blocks, so that a file has as many as its size; the arithmetic of
bytes is `FileIO`'s and `Partition`'s. `FuseRelease` finds no buffer, because here
a process has a file open once at a time.

The rules of orderly use, and what fails without them: processes take turns, one
comes when nothing is under way anywhere (`InStep`, `ImplementsBlockStore`); a
file open for writing is open at one process only (`RoomIsThere`: the second
thread sets the attributes under the buffer); nothing is open when a process is
unmounted, and nothing is opened after (`InStep`, each of the two); a file that an
open has erased is written before it is closed (`SameFiles`: the others are only
told by the write). "Nothing under way" means FUSE threads at rest and no READ or
WRITE unread; the second threads of the others may still be anywhere, and those
with no share of the blocks often are.

`InCall` and `Blocks` are the refinement mapping to `BlockStore`: the call the
FUSE thread in use is in, and the blocks at the addresses its process has. The
store changes when the root has its addresses, while the others may not yet.

### ReadDir

A response is one step, `FuseReadDir(n)`; `Added` are the entries its loop adds,
those up to the first that does not fit, and `Back` the iterator moved back from one that does not fit. Names are numbers
in the order of the map, `Size` gives the bytes of each in a response. The iterator
is the entry it points to, `End`, or `Erased` if it is not valid. `n` is how many
entries the reader takes of the response.

Rules: an entry leaves room for any other in a response (`ListingEnds`: two that
together do not fit are sent one at a time, the iterator back at the first each
time; and `Complete` for one that fits alone in none); the entry an iterator
points to is not erased or renamed (`Complete`: an invalid iterator is used); a
response is taken whole (`Complete`: the offset is the same for all entries).

### XAttr

One action per handler on one i-node. `reply` is the answer to the last request;
`asked` are the sizes clients have been told and not used yet. Rules, each of
them needed for `ImplementsAttributes`: no `XATTR_CREATE` or `XATTR_REPLACE` (the
tests are exchanged), no value shorter than the one before (the rest of it stays),
no set between the two requests of a reader, values asked for by their size
(a larger one is refused), and no request for the size of the list (it is
answered twice).

## 4. Runs

| run | instance | shows |
|---|---|---|
| `inodes_onedir` | 2 names, 5 i-nodes, 2 lookups, 2 links, threshold 1 | types, `KernelRefs`, `ReclaimSafe`, `LinksCoverEntries`, `LinksExact`, `StatfsAccounts` while no directory changes its parent |
| `inodes_moveddir` | 1 lookup, directories move | *violation* of `DeletedAreNameless` |
| `store_files` | 2 files, master and a node, 3 operations, files of 0 to 5 bytes in blocks of 2 | in step, blocks at home, implements `BlockStore` |
| `store_anysize` | 1 file, 3 processes, 2 operations, 0 to 7 bytes, reads of any size, fairness | in step, implements `BlockStore`, operations and unmount end |
| `fileio_handles` | 1 file, 2 handles, 3 bytes in blocks of 2, 2 requests once not orderly | while orderly: stays in the buffer, closed is stored, implements `FileContents`; always: types, `FreeBlocksExist` |
| `p2p_names` | 2 processes, 2 names in paths of 2, 3 operations (2 if not orderly), threshold 0, fairness | while orderly: no receive is wrong, same numbers and names, implements `OperationLog`, all catch up |
| `p2p_two` | 2 processes, 2 files, writes of 1 or 2 blocks, 5 opens and writes (4 if not orderly) | while orderly: in step, `RoomIsThere`, `SameFiles`, implements `BlockStore`; types |
| `p2p_three` | 3 processes, 1 file of 2 blocks, 3 opens and writes, fairness | while orderly: handlers end, all catch up, all end |
| `p2p_shorter` | 2 processes, 1 file, 6 opens and writes | *violation* of `NoOverflow` |
| `readdir_changes` | 5 names of 4 sizes, one of them too long; a response of 6 units, 4 entries | while orderly: complete, only the last sent again; with a reader that goes on, ends |
| `readdir_again` | the same | *violation* of `NothingAgain` |
| `xattr_clients` | 2 clients, 2 attributes of 0 to 2 bytes | while orderly: implements `Attributes`; types |

`fileio_handles` does not check deadlock: a fault stops the process. The other modules
stutter explicitly where the program rests or has stopped.

*Bounds.* Five i-nodes are the two fixed ones and three more: a directory with a
file in it and one to rename over, or one that waits while two live. A threshold
of 1 makes the table reclaim after the second number. Two lookups tell a count
from a flag; two links make a second name. For the store, 5 or 7 bytes in blocks
of 2 are 0 to 4 blocks, a partial last one included, over 2 or 3 processes: fewer
blocks than processes, as many, and more with a remainder. Three operations
are a write, a longer or shorter rewrite and a read. Two block values are enough
since blocks are only copied, and are interchangeable (symmetry is used only in
runs without liveness). For the namespace, paths of 2 names make a file in a directory, the case where
`dir_name` matters, and three operations a mkdir, a create in it and a rename or
unlink of that, or two users' turns after one another. A threshold of 0 makes a
process use numbers again after the first one; that is not orderly, and then a third
operation is allowed if it does so, at rest. Two processes are a sender
and a receiver that sends too, as every header also goes to its sender.
For the contents in the
peer-to-peer program, five operations are an open and a write at one process, a
longer or shorter rewrite at the other and an open that reads it; with three
processes two blocks leave one process without a share, and it may be a whole
operation late. For listings, six units and four entries make both limits of a response
bind, with and without the dots, and five names make three responses. Attributes
of 0, 1 and 2 bytes are an empty, a shorter and a longer value.
`MaxOps`, `MaxLoose`, `MaxStrays`, `MaxLength`, `MaxDepth`, `MaxLookups`, `MaxLinks`, `MaxUsed`,
`MaxSize`, `MaxWrite` and `MaxFileSize` are bounds of the model, not of the code.

*Fairness.* `FairSpec` has weak fairness on the master's step inside an operation
and on each node's step: the processes are running programs, and MPI delivers
what was sent. Nothing obliges the users to open, close or unmount.
`OperationsEnd` and `AllTerminate` are checked under it. In `P2PNamespace` it is
weak fairness on the two threads of each process together, for `AllCatchUp`; in
`P2PData` on each of the two, which are threads of the operating system, for
`HandlersEnd`, `AllCatchUp` and `AllEnd`. In `ReadDir` it is on the reader, for
`ListingEnds`: readdir(3) in a loop; who changes the directory is not obliged to
anything. These excuse users who are not orderly and an overflow
(`p2p_shorter`); a collective or message taken for another is no excuse, and ends
in a handler that never does.

## 5. Findings

Each is a run of the table that TLC ends with a counterexample.

- `inodes_moveddir`: renaming a directory into another parent leaves both link
  counts behind; after later rmdirs a parent that still has a name is queued.
- `p2p_shorter`: a process that stores a file shorter makes `st_blocks` of the
  others the length of the block list, which never gets shorter. The next open
  there allocates fewer blocks than `st_blocks` says, and a write goes beyond
  `m_buf`, against the comment on the `memcpy`.
- `readdir_again`: the iterator is moved back from an entry that does not fit, past
  the last one that did, which is then sent again, against the comment above the
  loop.

Each rule of orderly use in section 3 is a place where the code goes wrong without
it. Some of these contradict comments too: a release "when there's no other
references" (`FileSystem.cpp:951`) frees a buffer that another handle uses; a write
after the flush of a duplicated descriptor goes to the null pointer, where "there
can be no buffer overflow"; and for an entry that does not fit the comment says
"increase the buffer size and add the child again" (`FileSystem.cpp:1077`), which
is not done: two entries whose names take more than a buffer of 384 bytes make the
listing repeat one of them for ever. A rename onto an existing file takes no link
from it (`spoiled`), so its number is never given back.

Smaller ones, read and not run: DeletedINodes is first in, first out, though
`Nodes::reclaimINode` is said to give the smallest number; an erasing open sets
`st_blocks` to 0 without giving the blocks back to statfs; `FuseRead` past the
end replies twice. Where `FuseForget` queues a number (CS `FileSystem.cpp:396`,
P2P `:422`) the comment says that "directory entries will still point to this
inode. This is OK since we'll update those entries as soon as someone reads the
directory". The code is otherwise: unlink and rmdir take the entry away before
the number can be queued, so that none points to it (`ReclaimSafe`, checked and
proved). When directories have moved one can (`inodes_moveddir`), and then it is
not OK: the test in `FuseReadDir` is commented out (CS `1126-1128`) and nothing
updates the entry, which leads to the file that is given the number next.

## 6. Proofs

Everything here holds for every value of the constants that satisfies the named
assumptions of the modules (`ConstantsAssumption`, `PartitionAssumption`, ...),
which TLC evaluates in the runs. An invariant is proved from an inductive one;
each action has a lemma for each part of it.

`INodeTableProofs`:

- `TypeCorrect` and `RefsKept`: `TypeOK /\ KernelRefs` is inductive by itself.
- `ReclaimSafety` and `LinksCoverSafety`: under `~DirsMove`, `ReclaimSafe` and
  `LinksCoverEntries`. Neither is inductive. That a waiting number has no name
  rests on its link count being 0 and covering its names; that link counts cover
  the names rests on directories having one name; that a reused number starts
  clean rests on nothing referring to it. `IInv` is the conjunction of these, and
  says moreover that the numbers not handed out, and the special i-node, are out
  of reach. Each action has a lemma for its effect on the entries of one i-node
  (`RemoveEntry`, `EnterEntries`) and one for the invariant (`...Step`).
  The assumption is needed: `inodes_moveddir`.
- `LinksExactSafety` and `StatfsSafety`, under the same assumption. `IInv` bounds
  links from one side; `AInv` adds the other: the link count of an i-node no
  rename has spoiled is no more than its names, a spoiled one keeps too many for
  good and so is never queued, and whatever nothing refers to is one of the two.
  The numbers handed out are then counted as a disjoint union (`CountsAll`).

`PartitionProofs`: the displacements are the running sums of the counts and end
at the number of blocks (`LoopOfDisplacements`), every block is in one run, and
what is scattered is gathered in order (`ScatterGather`).

`ClientServerProofs`: `TypeCorrect`, `NodesStayInStep` and `GathersStayInStep`
from `StepInv`. It relates the queues to both sides: the collectives in `chan[r]`
follow from one another and lead from the call rank `r` is at to the one the
master will make (`Chained`), so that appending one (`LeadsAppend`) or taking one
(`LeadsTail`) leaves the rest in step; and while a scatter of any items waits for
`r`, the master is in the gather of that operation with nothing of `r`'s
(`MasterWaits`), so that a contribution can never be one gather late. The lemmas
`BcastStep`, `ScattervStep`, `GathervStep` and `TakeStep` say this of the four
kinds of MPI call. `store_anysize` checks `StepInv` over three processes.

`BlocksAtHomeSafety` and `Refinement` need `DataInv` beside it. Blocks are never
moved or overwritten (`Grows`), so what is at an address stays there; the
invariant says that the blocks of a file as last written are at their addresses
and no two at one (`Stored`, `Apart`), that what is on its way to a node is its
share of the buffer or of the addresses of the call in progress (`InTransit`), and
that what a node has contributed is at new addresses, or was fetched from the old
ones (`NewBlocks`, `Found`). The gather of a write turns the second into the first
(`WriteGatherData`); that is the step `BlockStore` writes in. The gather of a read
returns the file by `ScatterGather` (`ReadResult`). All other steps leave `Content`
as it is.

`FileIOProofs`:

- `TypeCorrect` and `FreeBlocksSafety`, whatever clients do. `FreeBlocksExist` is
  about a sum over all files, which the community modules define by recursion on
  sets. What is needed of it is that it changes as one summand does
  (`SumExcept`). Where an induction over sets is meant, a least counterexample is
  taken (`LeastSet`): the induction theorems of the library take an operator as a
  parameter, and the provers cannot use them, but well-foundedness can be cited.
- `StaysInBufferSafety` and `ClosedIsStoredSafety`, from `OInv`: in orderly use a
  file is open once, and size, blocks, buffer and store belong together (`Agree`).
- `Refinement`: with `OInv`, an orderly request is one of `FileContents`. The file
  a client sees is `Shown`, the buffer if there is one and else the store. Most of
  the proof is arithmetic of bytes and blocks (`ToBytes`, `ToBlocks`, `realloc`).

`P2PNamespaceProofs`:

- `TypeInvariance` and `TypeCorrect`, whatever users do. The i-nodes of a process
  are a `Tree`: beside what `TypeOK` says, the root is a directory and every other
  directory has a name, which is what makes a path that is sent a path.
  `TableType` and `QueueOK` say of `links` and `deleted` that a number waits once
  and no entry leads to it, so that what `RegisterINode` gives is `Usable`: new,
  or named by nobody (`NewInoUsable`). All that handlers make is an i-node at a
  usable number and an entry for it (`MadeAt`), and keeps the tree.
- `OrderInvariance`, for orderly use. `OrderInv` has two halves. One is about what
  the processes show: there are trees `T[0]`, `T[1]`, ..., each made of the one
  before by the next operation of `log` (`Grows`), and every process has that of
  the number of operations it has done (`Shown`). In all of them every directory
  keeps the path that leads to it (`Kept`), so that what a handler sends, put
  together of `dir_name`s, is what was asked of it (`ResolveKept`, `MadeTree`); a
  rename of a directory is what would spoil this. The other half is about what is on
  the way (`InOrder`): the process whose users came last has done all operations and
  has no flag set (`Leads`), and for each other the headers and payloads in its
  channel are those of the operations it has not taken, in order (`Carries`,
  counted by `Sent` and `Taken`), while its flag is set from the header to the end
  of the handler that repeats the operation (`Follows`). When users turn to another
  process nothing is under way, and each half holds of it too (`QuietInOrder`). No
  process reclaims, so each handler takes the number after the last (`MadeNext`), the
  same at every process; a FORGET changes only the queue (`ForgetOrder`).
- `NoneFailsSafety`, `SameNumbersSafety` and `Refinement` follow. A second thread
  with a payload stands before the tree its operation was accepted in
  (`CallFacts`), so it is not refused, and its handler is the `Replay` of
  `OperationLog`; a handler for a user is `Do`.
- `ShowsItsPrefixSafety`: `View` of the trees of `Grows` is what `After` makes
  of the operations (`ViewMade`). What is entered, removed or moved has nothing
  below it (`NothingBeyond`), and a directory has one entry, so every other path
  leads where it led (`SameElsewhere`). The walk along a path and the paths made
  are recursive functions; where an induction is meant, a least number is taken
  (`LeastNumber`).

`P2PDataProofs`:

- `TypeInvariance` and `TypeCorrect`, whatever users do: beside the types, the k-th
  pair of collectives is the same wherever it has been entered, and what each
  process contributes to it has the length the partition says.
- `InStepSafety`. `InStep` says only that the fault has not happened yet; `InOrder(o)`
  says why it cannot, of the process `o` whose users came last. It is the root of
  all that is under way. The headers and `IORequest`s in `chan[o][r]` alternate, and
  each that makes `r` enter a pair names the next of those that `o` has entered and
  `r` has not (`Leads`, `FollowsRoot`), over any number of operations, since a
  process with no share of the blocks may be any number behind. Requests are of `o`
  alone, TERMINATE is the last thing a process sends, and that of another process
  comes when no request is left (`RequestsOf`, `Ending`, `EndOf`). `LeadsAppend` and
  `LeadsTail` are the two ways a channel changes. Another process becomes the root
  when nothing is under way (`TurnStep`): then all have entered as many. The runs
  `p2p_two` and `p2p_three` were used to check `InOrder` before it was proved.
- `FilesInvariance` and `SameFilesSafety`. `InOrder` keeps processes in step, but
  one may be several writes behind another, so what is true of the files at two
  processes can only be said by way of what they have been: there is a sequence `h`
  of them, the files after each pair of collectives (`History`), each made of the
  one before by what the pair carries (`Outcome`), which is the same from wherever
  it is read (`Sound`). Every process shows what `h` says of the number of pairs it
  is `Through` (`Shows`); the sizes of files its own users are changing excepted
  (`Clean`). Beside addresses and sizes `h` has the blocks that were scattered, and
  those are at the addresses for good (`AtHome`), since each process in a write has
  allocated its share of them (`SharesKept`) and none is moved. A pair that is
  entered changes nothing yet (`EnterFiles`); the first process to leave the
  allgather of a write makes `h` longer, any other finds the outcome there
  (`Advance`, `ApplyFiles`). Processes that have applied as many writes are
  reads apart at most, which leave the files as they are (`SameAfterSameWrites`).
- `DataInvariance` and `RoomSafety`. `DataInv(o)` says, of the root `o` of what is
  under way, what buffers and attributes have to do with each other and with what
  has been stored. What collectives carry is blocks, and a read asks for addresses
  at which there are some and is answered with them (`CarriesBlocks`,
  `CarriesReads`). Of one file at one process (`FileAt`): there is a buffer if it is
  open or being stored (`BufferOf`); while it is open `st_size` is the length of the
  buffer, and `st_blocks` too or else the length of a list that is longer than what
  is stored (`RoomOf`), as `DAGonFS_Write` left it (`SizesOf`). This is inductive
  only because the second thread cannot set the attributes under a buffer: a file
  open for writing is closed at the others (`Exclusive`), and where a file is open
  no write of it is still to come (`NotBehind`). Last, the sizes that are stored are
  those of the history of `FilesInvariance` as far as the root is through with it
  (`StoredTold`; there is one history only, `OneHistory`), and what the root has
  scattered is what its buffer or list holds (`Scattering`). `RoomInv` is `DataInv`
  of the process whose users came last, until a `FuseWrite` goes beyond its buffer;
  `RoomIsThere` is `RoomOf` of it.
- `Refinement`. A call of `BlockStore` begins with the user's step that leaves the
  FUSE thread before a collective (`UserCalls`) and returns with the step in which
  the root is through with the last one (`RootWrittenReturns`: the blocks that were
  scattered are at the new addresses; `RootLoadedReturns`: the blocks gathered are
  those at the addresses in the list), or at once if a file is empty
  (`RootReadReturns`). All others leave the
  call, the blocks and the result as they are (`Unseen`): blocks are only ever
  added (`BlocksStay`), the second threads change lists the abstraction does not
  look at (`SecondUnseen`), and when another process's users come its list is the
  same (`TurnList`), so that the blocks seen through it are.

`ReadDirProofs`: `TypeCorrect`, `CompleteSafety` and `OnlyLastAgainSafety`. The
invariant `LInv` divides the names at the iterator: those that stay and are before
it have been sent, and behind it none has but the last of the last response
(`Sides`). `WhereItStops` says where a response leaves the iterator, from `Bytes`,
a recursive function over sets, of which least counterexamples give what is needed.

`XAttrProofs`: `TypeCorrect`, and `Refinement`: an orderly request is one of
`Attributes`, since a size a client has been told is that of the value still
(`AskedIsLength`).

Only model-checked: liveness (`OperationsEnd`, `AllTerminate`, `AllCatchUp`,
`HandlersEnd`, `AllEnd`, `ListingEnds`), which is beyond the prover with ENABLED.

## 7. Not modelled

- `FuseReadLink`, `FuseStatfs`, `FuseAccess`, `FuseGetLock`, `FuseFsync`: change
  nothing.
- Allocation that fails, and a start that fails before the session loop: the code
  goes on with a null pointer, or leaves the nodes waiting; nothing says what
  should happen.
- In the peer-to-peer program other processes are not told of attributes,
  extended attributes, links, symbolic links and special files; there is nothing to
  model beyond the local handler.
- The script `unmount.sh`, which is not in the repository.
- What a process does after something undefined.
- Times, owners and modes, block dumps, logging, the launcher, the build.
