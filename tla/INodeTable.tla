----------------------------- MODULE INodeTable -----------------------------
(***************************************************************************)
(* The i-node table of one DAGonFS process, as the FUSE kernel client      *)
(* drives it: FileSystem::Fuse* handlers (ramfs/FileSystem.cpp) over the   *)
(* singleton Nodes (vector INodes, queue DeletedINodes), INode (hard links *)
(* and lookup counts) and Directory (m_children).  The handlers run one at *)
(* a time inside fuse_session_loop, so each is one action; what is hard is *)
(* the long sequences of legal calls: an i-node number is given back only  *)
(* when its lookup count and its link count have both come to 0, it waits  *)
(* in DeletedINodes, and past kINodeReclamationThreshold waiting numbers   *)
(* it is handed to the next file that is created.                          *)
(*                                                                         *)
(* A handler that answers with an error changes nothing and is no step.    *)
(* Attributes other than st_nlink, file contents and extended attributes   *)
(* are left out.  The kernel's side (kref, dead) is the environment: it    *)
(* decides which requests can reach the handlers.                          *)
(*                                                                         *)
(* A definition whose name ends in _Bug is no part of the model: it is the *)
(* definition after it with a mistake planted, to see a property fail.     *)
(***************************************************************************)
EXTENDS Integers, Sequences, FiniteSets

CONSTANTS
    Names,       \* names a directory entry can have
    MaxINodes,   \* bound: how many i-node numbers are ever pushed on INodes
    MaxLookups,  \* bound: lookups of one i-node the kernel can owe a FORGET for
    MaxLinks,    \* bound: st_nlink past which no link(2) is asked for
    Threshold,   \* FileSystem::kINodeReclamationThreshold
    DirsMove     \* does the kernel ask to move directories between parents?

ASSUME ConstantsAssumption ==
    /\ IsFiniteSet(Names)
    /\ MaxINodes \in Nat /\ MaxINodes >= 2
    /\ MaxLookups \in Nat /\ MaxLookups >= 1
    /\ MaxLinks \in Nat
    /\ Threshold \in Nat
    /\ DirsMove \in BOOLEAN

VARIABLES
    size,        \* INodes.size()
    kind,        \* the class of INodes[i]
    nlink,       \* st_nlink; the code tests it against 0 only, so an
                 \* underflowed unsigned counter is its negative representative
    nlookup,     \* INode::m_nlookup
    marked,      \* INode::markedForDeletion
    children,    \* Directory::m_children, NoIno where there is no entry
    deleted,     \* Nodes::DeletedINodes, oldest first
    reclaiming,  \* FileSystem::m_reclaimingINodes
    usedINodes,  \* kTotalInodes - m_stbuf.f_ffree
    kref,        \* kernel: lookups it has been granted and not yet forgotten
    dead,        \* kernel: directories it saw removed or replaced (S_DEAD)
    spoiled      \* history: i-nodes a rename onto a name has left too many links

vars == <<size, kind, nlink, nlookup, marked, children, deleted, reclaiming,
          usedINodes, kref, dead, spoiled>>

-----------------------------------------------------------------------------
Ino   == 0 .. MaxINodes - 1
NoIno == -1          \* what ChildINodeNumberWithName returns for no entry
Root  == 1           \* FUSE_ROOT_ID; number 0 is the SpecialINode

Kinds      == {"none", "file", "dir", "symlink", "special"}
NoChildren == [n \in Names |-> NoIno]
IsDir(i)   == kind[i] = "dir"

\* The directory entries that name i, and the entries of d that are directories.
Entries(i) == {e \in Ino \X Names : children[e[1]][e[2]] = i}
Named(i)   == Entries(i) # {}
Subdirs(d) == {n \in Names : \E c \in Ino : children[d][n] = c /\ IsDir(c)}
Queued     == {deleted[k] : k \in DOMAIN deleted}

-----------------------------------------------------------------------------
(* FileSystem::RegisterINode and the Lookup() every caller of it does next.*)

\* m_reclaimingINodes after the test that switches it off on an empty queue.
Reclaims == reclaiming /\ deleted # <<>>
NewIno   == IF Reclaims THEN Head(deleted) ELSE size

\* Bug: also a reused number is counted as a new one.
RegisterINode_Bug(k) ==
    /\ Reclaims \/ size < MaxINodes
    /\ reclaiming' = Reclaims
    /\ deleted'    = IF Reclaims THEN Tail(deleted) ELSE deleted
    /\ size'       = IF Reclaims THEN size ELSE size + 1
    /\ usedINodes' = usedINodes + 1
    /\ kind'       = [kind    EXCEPT ![NewIno] = k]
    /\ marked'     = [marked  EXCEPT ![NewIno] = FALSE]
    /\ nlookup'    = [nlookup EXCEPT ![NewIno] = 1]
    /\ kref'       = [kref    EXCEPT ![NewIno] = 1]
    /\ dead'       = dead \ {NewIno}
    /\ UNCHANGED spoiled

RegisterINode(k) ==
    /\ Reclaims \/ size < MaxINodes
    /\ reclaiming' = Reclaims
    /\ deleted'    = IF Reclaims THEN Tail(deleted) ELSE deleted
    /\ size'       = IF Reclaims THEN size ELSE size + 1
    /\ usedINodes' = IF Reclaims THEN usedINodes ELSE usedINodes + 1
    /\ kind'       = [kind    EXCEPT ![NewIno] = k]
    /\ marked'     = [marked  EXCEPT ![NewIno] = FALSE]
    /\ nlookup'    = [nlookup EXCEPT ![NewIno] = 1]
    /\ kref'       = [kref    EXCEPT ![NewIno] = 1]
    /\ dead'       = dead \ {NewIno}
    /\ UNCHANGED spoiled

\* The new i-node's children are empty and its parent's entry points to it.
Enter(p, n) ==
    children' = [children EXCEPT ![NewIno] = NoChildren, ![p][n] = NewIno]

\* INode::RemoveHardLink marks the i-node whose last link it takes.
MarkAtZero(i) == [marked EXCEPT ![i] = @ \/ nlink[i] - 1 = 0]

Init ==    \* after FuseInit: the SpecialINode and the root directory
    /\ size = 2
    /\ kind = [i \in Ino |-> CASE i = 0 -> "special" [] i = Root -> "dir"
                               [] OTHER -> "none"]
    /\ nlink = [i \in Ino |-> IF i = Root THEN 3 ELSE 0]
    /\ nlookup = [i \in Ino |-> 0]
    /\ marked = [i \in Ino |-> FALSE]
    /\ children = [i \in Ino |-> NoChildren]
    /\ deleted = <<>>
    /\ reclaiming = FALSE
    /\ usedINodes = 2
    /\ kref = [i \in Ino |-> 0]
    /\ dead = {}
    /\ spoiled = {}

-----------------------------------------------------------------------------
(* The kernel's rules (fs/namei.c, fs/fuse): what it checks before a       *)
(* request is sent, and the references it keeps.                           *)

Known(i) == i = Root \/ (i \in Ino /\ kref[i] > 0)

CanAdd(p, n)    == IsDir(p) /\ Known(p) /\ p \notin dead /\ children[p][n] = NoIno
CanRemove(p, n) == IsDir(p) /\ Known(p) /\ p \notin dead /\ Known(children[p][n])

\* Is d in the tree below i?  (every set that holds i and is closed under
\* children holds d)
InSubtree(d, i) ==
    \A S \in SUBSET Ino :
        (i \in S /\ \A c \in S, n \in Names : children[c][n] \in S \cup {NoIno})
            => d \in S

CanReplace(i, p, j) ==
    /\ Known(j) /\ j # i
    /\ IsDir(i) <=> IsDir(j)
    /\ ~ InSubtree(p, j)

\* Without flags: FuseRename is given RENAME_NOREPLACE and RENAME_EXCHANGE and does
\* not look at them, and a caller that sets one is not in this environment.
CanRename(p, n, q, m) ==
    LET i == children[p][n]
        j == children[q][m]
    IN  /\ CanRemove(p, n)
        /\ IsDir(q) /\ Known(q) /\ q \notin dead
        /\ j = NoIno \/ CanReplace(i, p, j)
        /\ IsDir(i) => /\ ~ InSubtree(q, i)
                       /\ p = q \/ DirsMove

\* A directory's dentry is pinned by the dentries of the directories in it.
CanForget(i, n) ==
    /\ i # Root
    /\ n \in 1 .. kref[i]
    /\ n = kref[i] => \A m \in Subdirs(i) : kref[children[i][m]] = 0

-----------------------------------------------------------------------------
FuseLookup(p, n) ==
    LET i == children[p][n]
    IN  /\ IsDir(p) /\ Known(p) /\ p \notin dead
        /\ i # NoIno
        /\ kref[i] < MaxLookups
        /\ nlookup' = [nlookup EXCEPT ![i] = @ + 1]
        /\ kref'    = [kref EXCEPT ![i] = @ + 1]
        /\ UNCHANGED <<size, kind, nlink, marked, children, deleted, reclaiming,
                       usedINodes, dead, spoiled>>

\* Bug: the number is given back when it is forgotten, links or not.
FuseForget_LinkedBug(i, n) ==
    LET gone == nlookup[i] = n
    IN  /\ CanForget(i, n)
        /\ nlookup'    = [nlookup EXCEPT ![i] = @ - n]
        /\ kref'       = [kref EXCEPT ![i] = @ - n]
        /\ deleted'    = IF gone THEN Append(deleted, i) ELSE deleted
        /\ reclaiming' = (reclaiming \/ (gone /\ Len(deleted) + 1 > Threshold))
        /\ UNCHANGED <<size, kind, nlink, marked, children, usedINodes, dead, spoiled>>

\* Bug: one lookup too many is dropped.
FuseForget_CountBug(i, n) ==
    /\ CanForget(i, n)
    /\ nlookup' = [nlookup EXCEPT ![i] = @ - n - 1]
    /\ kref'    = [kref EXCEPT ![i] = @ - n]
    /\ UNCHANGED <<size, kind, nlink, marked, children, deleted, reclaiming,
                   usedINodes, dead, spoiled>>

\* With no lookup and no link left the number goes to DeletedINodes, and past
\* the threshold the table starts to reclaim.
FuseForget(i, n) ==
    LET gone == nlookup[i] = n /\ nlink[i] = 0
    IN  /\ CanForget(i, n)
        /\ nlookup'    = [nlookup EXCEPT ![i] = @ - n]
        /\ kref'       = [kref EXCEPT ![i] = @ - n]
        /\ deleted'    = IF gone THEN Append(deleted, i) ELSE deleted
        /\ reclaiming' = (reclaiming \/ (gone /\ Len(deleted) + 1 > Threshold))
        /\ UNCHANGED <<size, kind, nlink, marked, children, usedINodes, dead, spoiled>>

FuseGetAttr(i) == Known(i) /\ UNCHANGED vars

\* FuseCreate, FuseMknod of a regular file and FuseSymlink: one link, one entry.
MakeLeaf(p, n, k) ==
    /\ CanAdd(p, n)
    /\ RegisterINode(k)
    /\ nlink' = [nlink EXCEPT ![NewIno] = 1]
    /\ Enter(p, n)

FuseCreate(p, n)  == MakeLeaf(p, n, "file")
FuseMknod(p, n)   == MakeLeaf(p, n, "file")
FuseSymlink(p, n) == MakeLeaf(p, n, "symlink")

\* Bug: the parent does not get the link of the new directory's "..".
FuseMkdir_Bug(p, n) ==
    /\ CanAdd(p, n)
    /\ RegisterINode("dir")
    /\ nlink' = [nlink EXCEPT ![NewIno] = 2]
    /\ Enter(p, n)

FuseMkdir(p, n) ==
    /\ CanAdd(p, n)
    /\ RegisterINode("dir")
    /\ nlink' = [nlink EXCEPT ![NewIno] = 2, ![p] = @ + 1]
    /\ Enter(p, n)

FuseUnlink(p, n) ==
    LET i == children[p][n]
    IN  /\ CanRemove(p, n)
        /\ ~ IsDir(i)
        /\ nlink'    = [nlink EXCEPT ![i] = @ - 1]
        /\ marked'   = MarkAtZero(i)
        /\ children' = [children EXCEPT ![p][n] = NoIno]
        /\ UNCHANGED <<size, kind, nlookup, deleted, reclaiming, usedINodes, kref,
                       dead, spoiled>>

\* Bug: the parent keeps the link of the removed directory's "..".
FuseRmdir_Bug(p, n) ==
    LET i == children[p][n]
    IN  /\ CanRemove(p, n)
        /\ IsDir(i)
        /\ children[i] = NoChildren
        /\ nlink'    = [nlink EXCEPT ![i] = 0]
        /\ marked'   = [marked EXCEPT ![i] = @ \/ nlink[i] # 0]
        /\ children' = [children EXCEPT ![p][n] = NoIno]
        /\ dead'     = dead \cup {i}
        /\ spoiled'  = spoiled \ {i}
        /\ UNCHANGED <<size, kind, nlookup, deleted, reclaiming, usedINodes, kref>>

\* The removed directory loses all its links at once.
FuseRmdir(p, n) ==
    LET i == children[p][n]
    IN  /\ CanRemove(p, n)
        /\ IsDir(i)
        /\ children[i] = NoChildren
        /\ nlink'    = [nlink EXCEPT ![p] = @ - 1, ![i] = 0]
        /\ marked'   = [MarkAtZero(p) EXCEPT ![i] = @ \/ nlink[i] # 0]
        /\ children' = [children EXCEPT ![p][n] = NoIno]
        /\ dead'     = dead \cup {i}
        /\ spoiled'  = spoiled \ {i}
        /\ UNCHANGED <<size, kind, nlookup, deleted, reclaiming, usedINodes, kref>>

\* The links change only when the name replaced was a directory's, and then
\* those of the two parents, never those of the i-node that lost its name.
FuseRename(p, n, q, m) ==
    LET i == children[p][n]
        j == children[q][m]
        overDir == j # NoIno /\ IsDir(j)
    IN  /\ CanRename(p, n, q, m)
        /\ nlink'    = IF overDir
                       THEN [[nlink EXCEPT ![p] = @ - 1] EXCEPT ![q] = @ + 1]
                       ELSE nlink
        /\ marked'   = IF overDir THEN MarkAtZero(p) ELSE marked
        /\ children' = [children EXCEPT ![q][m] = i, ![p][n] = NoIno]
        /\ dead'     = IF overDir THEN dead \cup {j} ELSE dead
        /\ spoiled'  = spoiled \cup (IF j = NoIno THEN {} ELSE IF overDir THEN {j, q} ELSE {j})
        /\ UNCHANGED <<size, kind, nlookup, deleted, reclaiming, usedINodes, kref>>

\* Bug: the entry is sent back to the kernel without counting the lookup.
FuseLink_Bug(i, q, m) ==
    /\ CanAdd(q, m)
    /\ Known(i) /\ ~ IsDir(i) /\ Named(i)
    /\ kref[i] < MaxLookups /\ nlink[i] < MaxLinks
    /\ nlink'    = [nlink EXCEPT ![i] = @ + 1]
    /\ kref'     = [kref EXCEPT ![i] = @ + 1]
    /\ children' = [children EXCEPT ![q][m] = i]
    /\ UNCHANGED <<size, kind, nlookup, marked, deleted, reclaiming, usedINodes, dead, spoiled>>

FuseLink(i, q, m) ==
    /\ CanAdd(q, m)
    /\ Known(i) /\ ~ IsDir(i) /\ Named(i)   \* link(2) finds i by a path
    /\ kref[i] < MaxLookups /\ nlink[i] < MaxLinks
    /\ nlink'    = [nlink EXCEPT ![i] = @ + 1]
    /\ nlookup'  = [nlookup EXCEPT ![i] = @ + 1]
    /\ kref'     = [kref EXCEPT ![i] = @ + 1]
    /\ children' = [children EXCEPT ![q][m] = i]
    /\ UNCHANGED <<size, kind, marked, deleted, reclaiming, usedINodes, dead, spoiled>>

Next ==
    \/ \E i \in Ino : FuseGetAttr(i)
    \/ \E i \in Ino, n \in 1 .. MaxLookups : FuseForget(i, n)
    \/ \E p \in Ino, n \in Names :
          \/ FuseLookup(p, n)
          \/ FuseCreate(p, n)
          \/ FuseMknod(p, n)
          \/ FuseSymlink(p, n)
          \/ FuseMkdir(p, n)
          \/ FuseUnlink(p, n)
          \/ FuseRmdir(p, n)
          \/ \E i \in Ino : FuseLink(i, p, n)
          \/ \E q \in Ino, m \in Names : FuseRename(p, n, q, m)

Spec == Init /\ [][Next]_vars

-----------------------------------------------------------------------------
(* Properties.                                                             *)

\* Every variable keeps its type, and no directory entry leads outside INodes.
TypeOK ==
    /\ size \in 2 .. MaxINodes
    /\ kind \in [Ino -> Kinds]
    /\ nlink \in [Ino -> Int]
    /\ nlookup \in [Ino -> Nat]
    /\ marked \in [Ino -> BOOLEAN]
    /\ children \in [Ino -> [Names -> Ino \cup {NoIno}]]
    /\ deleted \in Seq(Ino)
    /\ reclaiming \in BOOLEAN
    /\ usedINodes \in Nat
    /\ kref \in [Ino -> Nat]
    /\ dead \subseteq Ino /\ spoiled \subseteq Ino

\* The lookup count in every i-node is what the kernel owes a FORGET for:
\* registering, looking up, linking and forgetting never drift apart, also
\* across the reuse of a number.
KernelRefs == nlookup = kref

\* A number waits in DeletedINodes at most once, and while it waits neither the
\* kernel nor a directory entry refers to it: RegisterINode can hand it to a new
\* file without another file, or another name, coming to share it.  The comment in
\* FuseForget says that entries still point to the number, and are updated when the
\* directory is read; nothing updates them, and where no directory changes its
\* parent there are none.
ReclaimSafe ==
    /\ \A j, k \in DOMAIN deleted : deleted[j] = deleted[k] => j = k
    /\ \A i \in Queued : i \notin {0, Root} /\ kref[i] = 0 /\ ~ Named(i)

\* st_nlink never falls below the names that keep an i-node alive: the entries
\* of a file, and for a directory "." and ".." of itself and of each directory
\* in it, until it is removed, when it is empty, nameless and dead.
LinksCover(i) ==
    IF IsDir(i)
    THEN /\ Cardinality(Entries(i)) <= 1
         /\ \/ nlink[i] >= 2 + Cardinality(Subdirs(i))
            \/ nlink[i] = 0 /\ i \in dead /\ ~ Named(i) /\ children[i] = NoChildren
    ELSE nlink[i] >= Cardinality(Entries(i))

LinksCoverEntries == \A i \in 1 .. size - 1 : LinksCover(i)

\* The inductive invariant behind ReclaimSafe: numbers not handed out yet, the
\* special i-node and the waiting ones are out of reach, and the waiting ones
\* have no link left.
Unreached(i) == kref[i] = 0 /\ ~ Named(i)

IInv ==
    /\ TypeOK
    /\ KernelRefs
    /\ LinksCoverEntries
    /\ \A i \in Ino : i >= size => Unreached(i) /\ i \notin Queued
    /\ Unreached(0) /\ ~ Named(Root)
    /\ \A j, k \in DOMAIN deleted : deleted[j] = deleted[k] => j = k
    /\ \A i \in Queued : i \notin {0, Root} /\ kref[i] = 0 /\ nlink[i] = 0

\* The links that the names around i-node i stand for.
LinksOf(i) ==
    IF ~ IsDir(i)      THEN Cardinality(Entries(i))
    ELSE IF i = Root   THEN 3 + Cardinality(Subdirs(i))
    ELSE IF ~ Named(i) THEN 0
    ELSE 2 + Cardinality(Subdirs(i))

\* Where no directory changes its parent, st_nlink is exact, and 0 just when
\* FuseForget may give the number back; only a rename onto an existing name, which
\* takes no link from what it replaces, leaves too many.
LinksExact == \A i \in (1 .. size - 1) \ spoiled : nlink[i] = LinksOf(i)

\* Statfs loses no i-node but those: every number it counts as used is the special
\* one, is held by the kernel or by a name, waits, once, to be reused, or has lost
\* its name to a rename.
StatfsAccounts ==
    LET held == {i \in 1 .. size - 1 : Known(i) \/ Named(i)}
    IN  usedINodes = 1 + Cardinality(held) + Len(deleted) + Cardinality(spoiled \ held)

\* The inductive invariant behind LinksExact and StatfsAccounts: an i-node that a
\* rename spoiled has a link too many for good, so that it is never queued, and
\* whatever else nothing refers to is queued.
TooMany(i) == IF IsDir(i) THEN nlink[i] # 0 ELSE nlink[i] > Cardinality(Entries(i))

AInv ==
    /\ IInv
    /\ LinksExact
    /\ \A i \in Ino : ~ IsDir(i) => children[i] = NoChildren
    /\ \A i \in Ino : i >= size => ~ IsDir(i)
    /\ \A i \in spoiled : i \in 1 .. size - 1 /\ TooMany(i)
    /\ \A i \in 1 .. size - 1 : Known(i) \/ Named(i) \/ i \in spoiled \cup Queued
    /\ usedINodes = size

\* What DeletedINodes holds, "The inodes which have been deleted": no number in
\* it is still the target of a directory entry.
DeletedAreNameless == \A i \in Queued : ~ Named(i)
=============================================================================
