----------------------------- MODULE P2PNamespace -----------------------------
(***************************************************************************)
(* How the peer-to-peer program keeps the directories of all processes the *)
(* same.  Every process runs a FUSE session (ramfs/FileSystem.cpp) and, in *)
(* a second thread, DistributedCode::start.  A handler that makes, removes *)
(* or renames something replies, and then has RequestSender send a header  *)
(* and a payload of paths to the other processes; their second thread      *)
(* repeats the operation by a system call on its own mount point, which    *)
(* comes back to its own FUSE thread as a request.  The FromThread flags   *)
(* tell that thread not to send the operation on once more.                *)
(*                                                                         *)
(* Here are names, numbers and messages.  Lookup counts, and what goes     *)
(* wrong with the links of directories that move, are in INodeTable.       *)
(***************************************************************************)
EXTENDS Integers, SequencesExt

CONSTANTS
    Procs,      \* the processes
    Names,      \* names of files and directories
    Threshold,  \* kINodeReclamationThreshold
    MaxDepth,   \* bound: names in a path
    MaxOps,     \* bound: operations users start
    MaxLoose    \* bound: of these, how many at most when things are not orderly

ASSUME P2PNamespaceAssumption ==
    /\ Procs # {} /\ Threshold \in Nat
    /\ MaxDepth \in Nat /\ MaxOps \in Nat /\ MaxLoose \in Nat

VARIABLES
    nodes,      \* INodes of each process, from the root on
    links,      \* st_nlink of each of them
    deleted,    \* DeletedINodes of each process, numbers that may be used again
    reclaiming, \* m_reclaimingINodes of each process
    fuse,       \* FUSE thread: where it is in a handler after the reply
    loop,       \* second thread: where it is in DistributedCode::start
    flags,      \* the operations whose FromThread flag is set
    chan,       \* chan[s][r]: what s has sent to r and r has not received
    origin,     \* history: the process whose users started the last operation
    orderly,    \* history: have users and threads kept to what is said at User?
    log,        \* history: the operations users started
    done        \* history: the handlers each process has run

vars == <<nodes, links, deleted, reclaiming, fuse, loop, flags, chan, origin, orderly, log, done>>
queue == <<deleted, reclaiming>>
inodes == <<nodes, links, deleted, reclaiming>>
users == <<origin, orderly, log>>

-----------------------------------------------------------------------------
(* A process's files and directories.                                      *)

Ops   == {"CREATE_FILE", "DELETE_FILE", "CREATE_DIR", "DELETE_DIR", "RENAME"}
Paths == UNION {[1 .. n -> Names] : n \in 1 .. MaxDepth}
Root  == 1

Request(op, path)    == [op |-> op, paths |-> <<path>>]
RenameOf(path, dest) == [op |-> "RENAME", paths |-> <<path, dest>>]
Requests == {Request(op, path) : op \in Ops \ {"RENAME"}, path \in Paths}
            \cup {RenameOf(path, dest) : path \in Paths, dest \in Paths}

\* dirName is dir_name of a directory; kids its children, a partial function.
INode(kind, dirName) == [kind |-> kind, dirName |-> dirName, kids |-> <<>>]

IsDir(t, i)    == i # 0 /\ t[i].kind = "DIRECTORY"
IsFile(t, i)   == i # 0 /\ t[i].kind = "REGULAR_FILE"
Child(t, d, n) == IF IsDir(t, d) /\ n \in DOMAIN t[d].kids THEN t[d].kids[n] ELSE 0

\* The kernel's walk along a path, by FuseLookup: 0 where there is nothing.
Resolve(t, path) ==
    LET at[k \in 0 .. Len(path)] == IF k = 0 THEN Root ELSE Child(t, at[k - 1], path[k])
    IN  at[Len(path)]
ParentOf(t, path) == Resolve(t, Front(path))

UpdateChild(t, d, n, i) ==
    [t EXCEPT ![d].kids = [m \in DOMAIN @ \cup {n} |-> IF m = n THEN i ELSE @[m]]]
DeleteChild(t, d, n) ==
    [t EXCEPT ![d].kids = [m \in DOMAIN @ \ {n} |-> @[m]]]

\* Which system calls the kernel passes on to a handler that does not fail.  A
\* rename is one without flags, which FuseRename does not look at.
CanMake(t, path)   == IsDir(t, ParentOf(t, path)) /\ Resolve(t, path) = 0
CanUnlink(t, path) == IsFile(t, Resolve(t, path))
CanRmdir(t, path)  == IsDir(t, Resolve(t, path)) /\ DOMAIN t[Resolve(t, path)].kids = {}
CanRename(t, path, dest) ==
    /\ Resolve(t, path) # 0 /\ IsDir(t, ParentOf(t, dest)) /\ ~ IsPrefix(path, dest)
    /\ Resolve(t, path) # Resolve(t, dest)
    /\ \/ Resolve(t, dest) = 0
       \/ CanUnlink(t, path) /\ CanUnlink(t, dest)
       \/ IsDir(t, Resolve(t, path)) /\ CanRmdir(t, dest)

Accepts(t, req) ==
    \/ req.op \in {"CREATE_FILE", "CREATE_DIR"} /\ CanMake(t, req.paths[1])
    \/ req.op = "DELETE_FILE" /\ CanUnlink(t, req.paths[1])
    \/ req.op = "DELETE_DIR" /\ CanRmdir(t, req.paths[1])
    \/ req.op = "RENAME" /\ CanRename(t, req.paths[1], req.paths[2])

-----------------------------------------------------------------------------
(* Messages.                                                               *)

Header(req)  == [kind |-> "header", req |-> [op |-> req.op, paths |-> <<>>]]
Payload(req) == [kind |-> "payload", req |-> req]

\* Bug: the sender gets the payload as well.
Broadcast_Bug(p, req) ==
    chan' = [chan EXCEPT ![p] = [r \in Procs |-> @[r] \o <<Header(req), Payload(req)>>]]

\* RequestSender::send...Request: a header to every process, the sender too, and
\* a payload to the others.  MPI_Send of so few bytes does not wait.
Broadcast(p, req) ==
    chan' = [chan EXCEPT ![p] = [r \in Procs |->
                @[r] \o IF r = p THEN <<Header(req)>> ELSE <<Header(req), Payload(req)>>]]

\* MPI_Recv from MPI_ANY_SOURCE takes m of s: messages of one sender come in
\* order, senders in any.
Receive(r, s, m) ==
    /\ chan[s][r] # <<>> /\ m = Head(chan[s][r])
    /\ chan' = [chan EXCEPT ![s][r] = Tail(@)]

-----------------------------------------------------------------------------
(* The FUSE thread.  A handler changes the tree and replies; then it looks *)
(* at the flag, and then clears it.                                        *)

NoRequest == [op |-> "none", paths |-> <<>>]
NoHandler == [at |-> "idle", req |-> NoRequest]
Idle(p)   == fuse[p] = NoHandler

Reply(p, tree, nlinks, sent) ==
    /\ nodes' = [nodes EXCEPT ![p] = tree]
    /\ links' = [links EXCEPT ![p] = nlinks]
    /\ fuse' = [fuse EXCEPT ![p] = [at |-> "replied", req |-> sent]]
    /\ done' = [done EXCEPT ![p] = @ + 1]

\* dir_name of the parent and the name, as the handlers put a path together.
Named(t, path) == Append(t[ParentOf(t, path)].dirName, Last(path))

AddLinks(nlinks, i, n) == [nlinks EXCEPT ![i] = @ + n]
Put(s, i, x) == IF i <= Len(s) THEN [s EXCEPT ![i] = x] ELSE Append(s, x)

\* Reclaiming ends when nothing waits; while it lasts, numbers come from the queue.
Reclaims(p) == reclaiming[p] /\ deleted[p] # <<>>
NewIno(p)   == IF Reclaims(p) THEN Head(deleted[p]) ELSE Len(nodes[p]) + 1
RegisterINode(p) ==
    /\ deleted' = [deleted EXCEPT ![p] = IF Reclaims(p) THEN Tail(@) ELSE @]
    /\ reclaiming' = [reclaiming EXCEPT ![p] = Reclaims(p)]

\* The new i-node under its number, and its entry.
Enter(t, ino, path, inode) ==
    UpdateChild(Put(t, ino, inode), ParentOf(t, path), Last(path), ino)

FuseCreate(p, path) ==
    LET t == nodes[p]
    IN  /\ CanMake(t, path)
        /\ RegisterINode(p)
        /\ Reply(p, Enter(t, NewIno(p), path, INode("REGULAR_FILE", <<>>)),
                 Put(links[p], NewIno(p), 1),
                 Request("CREATE_FILE", Named(t, path)))

\* Bug: the name of the new directory is put to the root.
FuseMkdir_Bug(p, path) ==
    LET t == nodes[p]
    IN  /\ CanMake(t, path)
        /\ RegisterINode(p)
        /\ Reply(p, Enter(t, NewIno(p), path, INode("DIRECTORY", <<>>)),
                 AddLinks(Put(links[p], NewIno(p), 2), ParentOf(t, path), 1),
                 Request("CREATE_DIR", Named(t, path)))

FuseMkdir(p, path) ==
    LET t == nodes[p]
    IN  /\ CanMake(t, path)
        /\ RegisterINode(p)
        /\ Reply(p, Enter(t, NewIno(p), path, INode("DIRECTORY", Named(t, path))),
                 AddLinks(Put(links[p], NewIno(p), 2), ParentOf(t, path), 1),
                 Request("CREATE_DIR", Named(t, path)))

FuseUnlink(p, path) ==
    LET t == nodes[p]
    IN  /\ CanUnlink(t, path)
        /\ Reply(p, DeleteChild(t, ParentOf(t, path), Last(path)),
                 AddLinks(links[p], Resolve(t, path), -1),
                 Request("DELETE_FILE", Named(t, path)))
        /\ UNCHANGED queue

FuseRmdir(p, path) ==
    LET t == nodes[p]
    IN  /\ CanRmdir(t, path)
        /\ Reply(p, DeleteChild(t, ParentOf(t, path), Last(path)),
                 [AddLinks(links[p], ParentOf(t, path), -1) EXCEPT ![Resolve(t, path)] = 0],
                 Request("DELETE_DIR", t[Resolve(t, path)].dirName))
        /\ UNCHANGED queue

\* Only where dest is a directory.
LinksRenamed(p, path, dest) ==
    LET t == nodes[p]
    IN  IF IsDir(t, Resolve(t, dest))
        THEN AddLinks(AddLinks(links[p], ParentOf(t, path), -1), ParentOf(t, dest), 1)
        ELSE links[p]

\* Bug: the old name stays.
FuseRename_Bug(p, path, dest) ==
    LET t == nodes[p]
    IN  /\ CanRename(t, path, dest)
        /\ Reply(p, UpdateChild(t, ParentOf(t, dest), Last(dest), Resolve(t, path)),
                 LinksRenamed(p, path, dest), RenameOf(Named(t, path), Named(t, dest)))
        /\ UNCHANGED queue

\* Bug: the new name is put together with the old parent.
FuseRename_ParentBug(p, path, dest) ==
    LET t     == nodes[p]
        moved == UpdateChild(t, ParentOf(t, dest), Last(dest), Resolve(t, path))
    IN  /\ CanRename(t, path, dest)
        /\ Reply(p, DeleteChild(moved, ParentOf(t, path), Last(path)),
                 LinksRenamed(p, path, dest),
                 RenameOf(Named(t, path), Append(Front(Named(t, path)), Last(dest))))
        /\ UNCHANGED queue

FuseRename(p, path, dest) ==
    LET t     == nodes[p]
        moved == UpdateChild(t, ParentOf(t, dest), Last(dest), Resolve(t, path))
    IN  /\ CanRename(t, path, dest)
        /\ Reply(p, DeleteChild(moved, ParentOf(t, path), Last(path)),
                 LinksRenamed(p, path, dest), RenameOf(Named(t, path), Named(t, dest)))
        /\ UNCHANGED queue

\* The session loop calls one handler at a time.
Handler(p, req) ==
    /\ Idle(p)
    /\ \/ req.op = "CREATE_FILE" /\ FuseCreate(p, req.paths[1])
       \/ req.op = "CREATE_DIR"  /\ FuseMkdir(p, req.paths[1])
       \/ req.op = "DELETE_FILE" /\ FuseUnlink(p, req.paths[1])
       \/ req.op = "DELETE_DIR"  /\ FuseRmdir(p, req.paths[1])
       \/ req.op = "RENAME"      /\ FuseRename(p, req.paths[1], req.paths[2])

\* Bug: the operation is sent whether the flag is set or not.
TestFlag_Bug(p) ==
    /\ fuse[p].at = "replied"
    /\ Broadcast(p, fuse[p].req)
    /\ fuse' = [fuse EXCEPT ![p].at = "tested"]
    /\ UNCHANGED <<inodes, loop, flags, users, done>>

\* Two handlers that tell nobody; FuseSymlink makes an i-node like FuseMknod.
FuseMknod(p, path) ==
    /\ CanMake(nodes[p], path)
    /\ RegisterINode(p)
    /\ nodes' = [nodes EXCEPT ![p] = Enter(@, NewIno(p), path, INode("REGULAR_FILE", <<>>))]
    /\ links' = [links EXCEPT ![p] = Put(@, NewIno(p), 1)]

FuseLink(p, path, dest) ==
    LET t == nodes[p]
    IN  /\ CanUnlink(t, path) /\ CanMake(t, dest)
        /\ nodes' = [nodes EXCEPT ![p] =
               UpdateChild(t, ParentOf(t, dest), Last(dest), Resolve(t, path))]
        /\ links' = [links EXCEPT ![p] = AddLinks(@, Resolve(t, path), 1)]
        /\ UNCHANGED queue

\* if (!...FromThread) RequestSender::send...Request; only FuseRename does not
\* clear a flag it found clear.
TestFlag(p) ==
    LET req  == fuse[p].req
        mine == req.op \notin flags[p]
    IN  /\ fuse[p].at = "replied"
        /\ IF mine THEN Broadcast(p, req) ELSE UNCHANGED chan
        /\ fuse' = [fuse EXCEPT ![p] =
               IF mine /\ req.op = "RENAME" THEN NoHandler ELSE [@ EXCEPT !.at = "tested"]]
        /\ UNCHANGED <<inodes, loop, flags, users, done>>

\* Bug: the flag stays set.
ClearFlag_Bug(p) ==
    /\ fuse[p].at = "tested"
    /\ fuse' = [fuse EXCEPT ![p] = NoHandler]
    /\ UNCHANGED <<inodes, flags, loop, chan, users, done>>

ClearFlag(p) ==
    /\ fuse[p].at = "tested"
    /\ flags' = [flags EXCEPT ![p] = @ \ {fuse[p].req.op}]
    /\ fuse' = [fuse EXCEPT ![p] = NoHandler]
    /\ UNCHANGED <<inodes, loop, chan, users, done>>

-----------------------------------------------------------------------------
(* The second thread, DistributedCode::start.                              *)

At(place, req) == [at |-> place, req |-> req]
NextHeader     == At("header", NoRequest)
Failed         == At("failed", NoRequest)

\* The header of another process sets the flag before the payload has come.  A
\* payload is longer than a header, and MPI ends the program.
ReceiveHeader(r) ==
    /\ loop[r] = NextHeader
    /\ \E s \in Procs : LET m == Head(chan[s][r]) IN
          /\ Receive(r, s, m)
          /\ flags' = [flags EXCEPT ![r] =
                 IF m.kind = "header" /\ s # r THEN @ \cup {m.req.op} ELSE @]
          /\ loop' = [loop EXCEPT ![r] = CASE m.kind = "payload" -> Failed
                                           [] m.kind = "header" /\ s = r -> @
                                           [] m.kind = "header" /\ s # r -> At("payload", m.req)]
    /\ orderly' = (orderly /\ Idle(r))
    /\ ~ (orderly /\ ~ orderly' /\ Len(log) > MaxLoose)
    /\ UNCHANGED <<inodes, fuse, origin, log, done>>

\* createFile, deleteFile, ...: the paths, from whichever process sends next.
\* What a thread does with the bytes of a header is not followed.
ReceivePayload(r) ==
    /\ loop[r].at = "payload"
    /\ \E s \in Procs : LET m == Head(chan[s][r]) IN
          /\ Receive(r, s, m)
          /\ loop' = [loop EXCEPT ![r] = IF m.kind = "payload" THEN At("call", m.req) ELSE Failed]
    /\ UNCHANGED <<inodes, fuse, flags, users, done>>

\* The system call on the process's own mount point, when it comes to a handler.
Repeat(r) ==
    /\ loop[r].at = "call"
    /\ Handler(r, loop[r].req)
    /\ loop' = [loop EXCEPT ![r] = NextHeader]
    /\ UNCHANGED <<flags, chan, users>>

\* When it does not, unlink, mkdir, rmdir and rename return an error that is not
\* looked at; fopen opens a file that exists, and otherwise fclose is called with
\* the null pointer.
Refused(r) ==
    LET req    == loop[r].req
        opened == IsFile(nodes[r], Resolve(nodes[r], req.paths[1]))
    IN  /\ loop[r].at = "call" /\ Idle(r) /\ ~ Accepts(nodes[r], req)
        /\ loop' = [loop EXCEPT ![r] =
               IF req.op = "CREATE_FILE" /\ ~ opened THEN Failed ELSE NextHeader]
        /\ UNCHANGED <<inodes, fuse, flags, chan, users, done>>

-----------------------------------------------------------------------------
(* What users do is free.  It is orderly as long as they use one process   *)
(* at a time, rename no directory (FuseRename leaves dir_name as it was),  *)
(* make no node, link or symbolic link (nobody is told), a FUSE thread     *)
(* ends its handler before the header of the next operation is received    *)
(* (ReceiveHeader), and no process comes to use numbers again (FuseForget):*)
(* each takes them from its own queue, when its own kernel has forgotten.  *)

\* Nothing is under way anywhere.
Quiet == \A p \in Procs : /\ Idle(p) /\ loop[p] = NextHeader
                          /\ \A r \in Procs : chan[p][r] = <<>>

\* A user of process p makes a system call that comes to a handler.  Bound: not
\* after MaxLoose of them when things are not orderly, but at rest to use a number
\* again.
User(p, req) ==
    /\ Len(log) < MaxOps
    /\ Handler(p, req)
    /\ log' = Append(log, req)
    /\ origin' = p
    /\ orderly' = (/\ orderly
                   /\ p = origin \/ Quiet
                   /\ req.op = "RENAME" => IsFile(nodes[p], Resolve(nodes[p], req.paths[1])))
    /\ orderly' \/ Len(log') <= MaxLoose \/ (Quiet /\ Reclaims(p))
    /\ UNCHANGED <<loop, flags, chan>>

\* The kernel of process p forgets the i-node i, after the last lookup and the last
\* close.  With links left nothing comes of it; one that is named and has none is
\* in INodeTable.
FuseForget(p, i) ==
    LET named == \E d \in DOMAIN nodes[p] : i \in Range(nodes[p][d].kids)
    IN  /\ Idle(p) /\ links[p][i] = 0 /\ ~ named /\ i # Root /\ i \notin Range(deleted[p])
        /\ deleted' = [deleted EXCEPT ![p] = Append(@, i)]
        /\ reclaiming' = [reclaiming EXCEPT ![p] = @ \/ Len(deleted[p]) + 1 > Threshold]
        /\ orderly' = (orderly /\ ~ reclaiming'[p])
        /\ ~ (orderly /\ ~ orderly' /\ Len(log) > MaxLoose)
        /\ UNCHANGED <<nodes, links, fuse, loop, flags, chan, origin, log, done>>

\* A user of process p makes a node or a link.  Bound: once, and at rest.
UserAlone(p) ==
    /\ orderly /\ Len(log) < MaxLoose /\ Quiet
    /\ \E path, dest \in Paths : FuseMknod(p, path) \/ FuseLink(p, path, dest)
    /\ orderly' = FALSE
    /\ UNCHANGED <<fuse, loop, flags, chan, origin, log, done>>

Init ==
    /\ nodes = [p \in Procs |-> <<INode("DIRECTORY", <<>>)>>]
    /\ links = [p \in Procs |-> <<3>>]
    /\ deleted = [p \in Procs |-> <<>>]
    /\ reclaiming = [p \in Procs |-> FALSE]
    /\ fuse = [p \in Procs |-> NoHandler]
    /\ loop = [p \in Procs |-> NextHeader]
    /\ flags = [p \in Procs |-> {}]
    /\ chan = [s \in Procs |-> [r \in Procs |-> <<>>]]
    /\ origin \in Procs
    /\ orderly = TRUE
    /\ log = <<>>
    /\ done = [p \in Procs |-> 0]

Serve(p) ==
    \/ TestFlag(p) \/ ClearFlag(p)
    \/ ReceiveHeader(p) \/ ReceivePayload(p) \/ Repeat(p) \/ Refused(p)

\* A program that MPI or fclose has ended, or that has nothing to do, may stay so.
Rest == (Quiet \/ \E p \in Procs : loop[p] = Failed) /\ UNCHANGED vars

Next ==
    \/ \E p \in Procs : \/ Serve(p) \/ UserAlone(p)
                        \/ \E req \in Requests : User(p, req)
                        \/ \E i \in DOMAIN nodes[p] : FuseForget(p, i)
    \/ Rest

Spec == Init /\ [][Next]_vars

\* The threads run; users do as they like.
FairSpec == Spec /\ \A p \in Procs : WF_vars(Serve(p))

-----------------------------------------------------------------------------
(* Properties.                                                             *)

\* A tree of i-nodes: entries lead to i-nodes, to a directory one at most.  A number
\* that may be used again waits once, and no entry leads to it.
TypeOK ==
    /\ \A p \in Procs : LET t == nodes[p] IN
          /\ DOMAIN t = 1 .. Len(t)
          /\ \A i \in DOMAIN t :
                /\ t[i].kind \in {"DIRECTORY", "REGULAR_FILE"}
                /\ DOMAIN t[i].kids \subseteq Names
                /\ \A n \in DOMAIN t[i].kids : t[i].kids[n] \in 2 .. Len(t)
          /\ links[p] \in Seq(Int) /\ Len(links[p]) = Len(t)
          /\ \A k \in DOMAIN deleted[p] :
                /\ deleted[p][k] \in 2 .. Len(t)
                /\ \A i \in DOMAIN t : \A n \in DOMAIN t[i].kids : t[i].kids[n] # deleted[p][k]
                /\ \A j \in DOMAIN deleted[p] : deleted[p][j] = deleted[p][k] => j = k
          /\ \A i, j \in DOMAIN t : \A n \in DOMAIN t[i].kids, m \in DOMAIN t[j].kids :
                t[i].kids[n] = t[j].kids[m] /\ IsDir(t, t[i].kids[n]) => <<i, n>> = <<j, m>>
    /\ \A p \in Procs : /\ fuse[p].at \in {"idle", "replied", "tested"}
                        /\ loop[p].at \in {"header", "payload", "call", "failed"}
                        /\ flags[p] \subseteq Ops /\ reclaiming[p] \in BOOLEAN
    /\ origin \in Procs /\ orderly \in BOOLEAN
    /\ log \in Seq(Requests) /\ done \in [Procs -> Nat]

\* No receive takes another message than the one it is for, and no file that is
\* to be repeated fails to open (DistributedCode::start, createFile).
NoneFails == orderly => \A p \in Procs : loop[p] # Failed

\* Processes that have run as many handlers have the same i-nodes under the same
\* numbers, by which DAGonFS_Write and DAGonFS_Read name a file to each other; until
\* one of them comes to use numbers again.
SameNumbers == orderly => \A p, q \in Procs : done[p] = done[q] => nodes[p] = nodes[q]

\* The files and directories of a process by their paths, and what operations
\* make of these, whatever the i-nodes.
View(t) == [path \in {q \in Paths : Resolve(t, q) # 0} |-> t[Resolve(t, path)].kind]

With(v, path, kind) == [q \in DOMAIN v \cup {path} |-> IF q = path THEN kind ELSE v[q]]
Without(v, path)    == [q \in DOMAIN v \ {path} |-> v[q]]
After(v, req) ==
    CASE req.op = "CREATE_FILE" -> With(v, req.paths[1], "REGULAR_FILE")
      [] req.op = "CREATE_DIR"  -> With(v, req.paths[1], "DIRECTORY")
      [] req.op \in {"DELETE_FILE", "DELETE_DIR"} -> Without(v, req.paths[1])
      [] req.op = "RENAME" -> With(Without(v, req.paths[1]), req.paths[2], "REGULAR_FILE")

\* Every process shows the paths that the operations it has applied, in the order
\* users started them, have made.
ShowsItsPrefix ==
    LET made[k \in 0 .. Len(log)] == IF k = 0 THEN <<>> ELSE After(made[k - 1], log[k])
    IN  orderly => \A p \in Procs : View(nodes[p]) = made[done[p]]

Log == INSTANCE OperationLog WITH Operations <- Requests

\* No operation is repeated twice, skipped, or echoed back to where it came from
\* (the FromThread flags): every process runs the one sequence of them.
ImplementsLog == Log!Spec

\* Every process applies every operation in the end: none waits for a payload or
\* keeps an operation from being sent.
AllCatchUp ==
    \A p \in Procs : orderly /\ done[p] < Len(log) ~> ~ orderly \/ done[p] = Len(log)
=============================================================================
