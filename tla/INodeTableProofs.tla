-------------------------- MODULE INodeTableProofs --------------------------
(***************************************************************************)
(* Proofs about INodeTable, for every set of names, table size, threshold  *)
(* and bound.  TypeOK and KernelRefs hold unconditionally; the others      *)
(* where the kernel moves no directory between parents: the run            *)
(* inodes_moveddir shows that ReclaimSafe is false otherwise.              *)
(***************************************************************************)
EXTENDS INodeTable, TLAPS, FiniteSetTheorems

-----------------------------------------------------------------------------
(* Type correctness and the kernel's reference counts.                     *)

TypeRefs == TypeOK /\ KernelRefs

\* The number RegisterINode hands out is one of the table.
LEMMA NewInoType ==
    ASSUME TypeOK, Reclaims \/ size < MaxINodes
    PROVE  NewIno \in Ino
  <1>1. CASE Reclaims
    <2>1. deleted \in Seq(Ino) /\ deleted # <<>>
      BY <1>1 DEF TypeOK, Reclaims
    <2>2. QED  BY <1>1, <2>1 DEF NewIno
  <1>2. CASE ~ Reclaims
    BY <1>2, ConstantsAssumption DEF TypeOK, NewIno, Ino
  <1>3. QED  BY <1>1, <1>2

\* What RegisterINode assigns is of the right type.
LEMMA RegisterType ==
    ASSUME TypeRefs, NEW k \in Kinds, RegisterINode(k)
    PROVE  /\ NewIno \in Ino
           /\ size' \in 2 .. MaxINodes
           /\ kind' \in [Ino -> Kinds]
           /\ nlookup' \in [Ino -> Nat]
           /\ marked' \in [Ino -> BOOLEAN]
           /\ deleted' \in Seq(Ino)
           /\ reclaiming' \in BOOLEAN
           /\ usedINodes' \in Nat
           /\ kref' \in [Ino -> Nat]
           /\ dead' \subseteq Ino /\ spoiled' \subseteq Ino
           /\ KernelRefs'
  <1>1. NewIno \in Ino
    BY NewInoType DEF RegisterINode, TypeRefs
  <1>2. deleted' \in Seq(Ino)
    <2>1. CASE Reclaims
      <3>1. deleted \in Seq(Ino) /\ deleted # <<>>
        BY <2>1 DEF TypeRefs, TypeOK, Reclaims
      <3>2. QED  BY <2>1, <3>1 DEF RegisterINode
    <2>2. CASE ~ Reclaims
      BY <2>2 DEF RegisterINode, TypeRefs, TypeOK
    <2>3. QED  BY <2>1, <2>2
  <1>3. reclaiming' \in BOOLEAN
    BY Zenon DEF RegisterINode, Reclaims, TypeRefs, TypeOK
  <1>4. size' \in 2 .. MaxINodes /\ usedINodes' \in Nat
    BY ConstantsAssumption DEF RegisterINode, TypeRefs, TypeOK
  <1>5. /\ kind' \in [Ino -> Kinds] /\ marked' \in [Ino -> BOOLEAN]
        /\ nlookup' \in [Ino -> Nat] /\ kref' \in [Ino -> Nat]
        /\ dead' \subseteq Ino /\ spoiled' \subseteq Ino /\ KernelRefs'
    BY <1>1 DEF RegisterINode, TypeRefs, TypeOK, KernelRefs
  <1>6. QED  BY <1>1, <1>2, <1>3, <1>4, <1>5

\* A leaf or a directory entered under its parent keeps the types of the rest.
LEMMA EnterType ==
    ASSUME TypeOK, NEW p \in Ino, NEW n \in Names, NewIno \in Ino, Enter(p, n)
    PROVE  children' \in [Ino -> [Names -> Ino \cup {NoIno}]]
  <1>1. NoChildren \in [Names -> Ino \cup {NoIno}]
    BY DEF NoChildren
  <1> DEFINE f == [children EXCEPT ![NewIno] = NoChildren]
  <1>2. f \in [Ino -> [Names -> Ino \cup {NoIno}]]
    BY <1>1 DEF TypeOK
  <1>3. children' = [f EXCEPT ![p] = [@ EXCEPT ![n] = NewIno]]
    BY DEF Enter
  <1> HIDE DEF f
  <1>4. QED  BY <1>2, <1>3

LEMMA KnownIno == \A i : Known(i) => i \in Ino
  <1>1. Root \in Ino
    BY ConstantsAssumption DEF Root, Ino
  <1>2. QED  BY <1>1, Zenon DEF Known

LEMMA MarkType ==
    ASSUME TypeOK, NEW i \in Ino
    PROVE  MarkAtZero(i) \in [Ino -> BOOLEAN]
  <1>1. marked \in [Ino -> BOOLEAN]
    BY DEF TypeOK
  <1>2. \A b : [marked EXCEPT ![i] = @ \/ b] \in [Ino -> BOOLEAN]
    BY <1>1, Zenon
  <1>3. QED  BY <1>2, Zenon DEF MarkAtZero

\* Init and every step keep the types, and the two counts together.
LEMMA TypeInit == Init => TypeRefs
  <1> SUFFICES ASSUME Init PROVE TypeRefs
    OBVIOUS
  <1>1. Root \in Ino /\ 0 \in Ino
    BY ConstantsAssumption DEF Root, Ino
  <1>2. deleted \in Seq(Ino)
    BY DEF Init
  <1>3. children \in [Ino -> [Names -> Ino \cup {NoIno}]]
    BY DEF Init, NoChildren
  <1>4. kind \in [Ino -> Kinds]
    BY DEF Init, Kinds
  <1>5. size \in 2 .. MaxINodes /\ usedINodes \in Nat
    BY ConstantsAssumption DEF Init
  <1>6. /\ nlink \in [Ino -> Int] /\ nlookup \in [Ino -> Nat]
        /\ kref \in [Ino -> Nat] /\ KernelRefs
    BY DEF Init, KernelRefs
  <1>7. /\ marked \in [Ino -> BOOLEAN] /\ reclaiming \in BOOLEAN
        /\ dead \subseteq Ino /\ spoiled \subseteq Ino
    BY Zenon DEF Init
  <1>8. QED  BY <1>2, <1>3, <1>4, <1>5, <1>6, <1>7 DEF TypeRefs, TypeOK

LEMMA TypeStep == TypeRefs /\ [Next]_vars => TypeRefs'
  <1> SUFFICES ASSUME TypeRefs, [Next]_vars PROVE TypeRefs'
    OBVIOUS
  <1> USE DEF TypeRefs
  <1>leaf. ASSUME NEW p \in Ino, NEW n \in Names, NEW k \in Kinds, MakeLeaf(p, n, k)
           PROVE  TypeRefs'
    <2>1. RegisterINode(k) /\ Enter(p, n) /\ nlink' = [nlink EXCEPT ![NewIno] = 1]
      BY <1>leaf DEF MakeLeaf
    <2>2. nlink' \in [Ino -> Int]
      BY <2>1, RegisterType DEF TypeOK
    <2>3. QED  BY <2>1, <2>2, RegisterType, EnterType DEF TypeOK
  <1>1. CASE \E i \in Ino : FuseGetAttr(i)
    BY <1>1 DEF FuseGetAttr, vars, TypeOK, KernelRefs
  <1>2. ASSUME NEW i \in Ino, NEW n \in 1 .. MaxLookups, FuseForget(i, n)
        PROVE  TypeRefs'
    <2>1. kref[i] - n \in Nat /\ nlookup = kref
      BY <1>2 DEF FuseForget, CanForget, TypeOK, KernelRefs
    <2>2. deleted' \in Seq(Ino)
      BY <1>2 DEF FuseForget, TypeOK
    <2>3. reclaiming' \in BOOLEAN
      BY <1>2 DEF FuseForget
    <2>4. QED  BY <1>2, <2>1, <2>2, <2>3 DEF FuseForget, TypeOK, KernelRefs
  <1>3. ASSUME NEW p \in Ino, NEW n \in Names, FuseLookup(p, n) PROVE TypeRefs'
    <2>1. children[p][n] \in Ino
      BY <1>3 DEF FuseLookup, TypeOK
    <2>2. QED  BY <1>3, <2>1 DEF FuseLookup, TypeOK, KernelRefs
  <1>4. ASSUME NEW p \in Ino, NEW n \in Names, FuseCreate(p, n) PROVE TypeRefs'
    BY <1>4, <1>leaf DEF FuseCreate, Kinds
  <1>5. ASSUME NEW p \in Ino, NEW n \in Names, FuseMknod(p, n) PROVE TypeRefs'
    BY <1>5, <1>leaf DEF FuseMknod, Kinds
  <1>6. ASSUME NEW p \in Ino, NEW n \in Names, FuseSymlink(p, n) PROVE TypeRefs'
    BY <1>6, <1>leaf DEF FuseSymlink, Kinds
  <1>7. ASSUME NEW p \in Ino, NEW n \in Names, FuseMkdir(p, n) PROVE TypeRefs'
    <2>1. /\ RegisterINode("dir") /\ Enter(p, n)
          /\ nlink' = [nlink EXCEPT ![NewIno] = 2, ![p] = @ + 1]
      BY <1>7 DEF FuseMkdir
    <2>2. NewIno \in Ino
      BY <2>1, RegisterType DEF Kinds
    <2>3. nlink' \in [Ino -> Int]
      BY <2>1, <2>2 DEF TypeOK
    <2>4. QED  BY <2>1, <2>3, RegisterType, EnterType DEF TypeOK, Kinds
  <1>8. ASSUME NEW p \in Ino, NEW n \in Names, FuseUnlink(p, n) PROVE TypeRefs'
    <2>1. children[p][n] \in Ino
      BY <1>8, KnownIno DEF FuseUnlink, CanRemove
    <2>2. marked' \in [Ino -> BOOLEAN]
      BY <1>8, <2>1, MarkType DEF FuseUnlink
    <2>3. QED  BY <1>8, <2>1, <2>2 DEF FuseUnlink, TypeOK, KernelRefs
  <1>9. ASSUME NEW p \in Ino, NEW n \in Names, FuseRmdir(p, n) PROVE TypeRefs'
    <2>1. children[p][n] \in Ino
      BY <1>9, KnownIno DEF FuseRmdir, CanRemove
    <2>2. marked' \in [Ino -> BOOLEAN]
      <3>1. MarkAtZero(p) \in [Ino -> BOOLEAN]
        BY MarkType
      <3>2. \A b, i : [MarkAtZero(p) EXCEPT ![i] = @ \/ b] \in [Ino -> BOOLEAN]
        BY <3>1, Zenon
      <3>3. QED  BY <1>9, <3>2, Zenon DEF FuseRmdir
    <2>3. QED  BY <1>9, <2>1, <2>2 DEF FuseRmdir, TypeOK, KernelRefs
  <1>10. ASSUME NEW p \in Ino, NEW n \in Names, NEW i \in Ino, FuseLink(i, p, n)
         PROVE  TypeRefs'
    BY <1>10 DEF FuseLink, TypeOK, KernelRefs
  <1>11. ASSUME NEW p \in Ino, NEW n \in Names, NEW q \in Ino, NEW m \in Names,
                FuseRename(p, n, q, m)
         PROVE  TypeRefs'
    <2>1. children[p][n] \in Ino /\ children[q][m] \in Ino \cup {NoIno}
      BY <1>11, KnownIno DEF FuseRename, CanRename, CanRemove, TypeOK
    <2>2. children' \in [Ino -> [Names -> Ino \cup {NoIno}]]
      BY <1>11, <2>1 DEF FuseRename, TypeOK
    <2>3. nlink' \in [Ino -> Int]
      <3> DEFINE f == [nlink EXCEPT ![p] = @ - 1]
      <3>1. nlink' = nlink \/ nlink' = [f EXCEPT ![q] = @ + 1]
        BY <1>11, Zenon DEF FuseRename
      <3>2. nlink \in [Ino -> Int] /\ f \in [Ino -> Int]
        BY DEF TypeOK
      <3> HIDE DEF f
      <3>3. QED  BY <3>1, <3>2
    <2>4. marked' \in [Ino -> BOOLEAN]
      <3>1. marked' = MarkAtZero(p) \/ marked' = marked
        BY <1>11, Zenon DEF FuseRename
      <3>2. QED  BY <3>1, MarkType DEF TypeOK
    <2>5. dead' \subseteq Ino /\ spoiled' \subseteq Ino
      BY <1>11, <2>1 DEF FuseRename, TypeOK
    <2>6. QED
      BY <1>11, <2>2, <2>3, <2>4, <2>5 DEF FuseRename, TypeOK, KernelRefs
  <1>12. CASE UNCHANGED vars
    BY <1>12 DEF vars, TypeOK, KernelRefs
  <1>13. QED
    BY <1>1, <1>2, <1>3, <1>4, <1>5, <1>6, <1>7, <1>8, <1>9, <1>10, <1>11, <1>12
       DEF Next

\* Every variable keeps its type: no directory entry, and no number in
\* DeletedINodes, ever leads outside the table INodes.
THEOREM TypeCorrect == Spec => []TypeOK
  BY TypeInit, TypeStep, PTL DEF Spec, TypeRefs

\* The lookup count of every i-node is the number of references the kernel owes a
\* FORGET for (INode::Lookup, Forget), also across the reuse of its number.
THEOREM RefsKept == Spec => []KernelRefs
  BY TypeInit, TypeStep, PTL DEF Spec, TypeRefs

-----------------------------------------------------------------------------
(* Cardinalities of sets that a step enlarges or shrinks by one element.   *)

LEMMA CardSub ==
    ASSUME NEW S, IsFiniteSet(S), NEW T, T \subseteq S
    PROVE  /\ IsFiniteSet(T)
           /\ Cardinality(T) \in Nat /\ Cardinality(S) \in Nat
           /\ Cardinality(T) <= Cardinality(S)
  BY FS_Subset, FS_CardinalityType

LEMMA CardAdd ==
    ASSUME NEW S, IsFiniteSet(S), NEW e, NEW T, T \subseteq S \cup {e}
    PROVE  Cardinality(T) <= Cardinality(S) + 1
  <1>1. /\ IsFiniteSet(S \cup {e}) /\ Cardinality(S) \in Nat
        /\ \/ Cardinality(S \cup {e}) = Cardinality(S)
           \/ Cardinality(S \cup {e}) = Cardinality(S) + 1
    BY FS_AddElement, FS_CardinalityType
  <1>2. /\ Cardinality(T) \in Nat /\ Cardinality(S \cup {e}) \in Nat
        /\ Cardinality(T) <= Cardinality(S \cup {e})
    BY <1>1, CardSub
  <1>3. QED  BY <1>1, <1>2

LEMMA CardRem ==
    ASSUME NEW S, IsFiniteSet(S), NEW e \in S, NEW T, T \subseteq S \ {e}
    PROVE  Cardinality(T) <= Cardinality(S) - 1
  <1>1. /\ IsFiniteSet(S \ {e}) /\ Cardinality(S) \in Nat
        /\ Cardinality(S \ {e}) = Cardinality(S) - 1
    BY FS_RemoveElement, FS_CardinalityType
  <1>2. Cardinality(T) <= Cardinality(S \ {e})
    BY <1>1, CardSub
  <1>3. QED  BY <1>1, <1>2

LEMMA CardSwap ==
    ASSUME NEW S, IsFiniteSet(S), NEW e \in S, NEW g, NEW T,
           T \subseteq (S \ {e}) \cup {g}
    PROVE  Cardinality(T) <= Cardinality(S)
  <1>1. /\ IsFiniteSet(S \ {e}) /\ Cardinality(S) \in Nat
        /\ Cardinality(S \ {e}) = Cardinality(S) - 1
    BY FS_RemoveElement, FS_CardinalityType
  <1>2. Cardinality(T) <= Cardinality(S \ {e}) + 1
    BY <1>1, CardAdd
  <1>3. /\ IsFiniteSet((S \ {e}) \cup {g})
        /\ Cardinality(T) \in Nat
    BY <1>1, FS_AddElement, CardSub
  <1>4. QED  BY <1>1, <1>2, <1>3

\* The sets of entries are finite, before and after a step.
LEMMA EntriesFinite ==
    /\ \A i : /\ IsFiniteSet(Entries(i)) /\ Cardinality(Entries(i)) \in Nat
              /\ IsFiniteSet(Subdirs(i)) /\ Cardinality(Subdirs(i)) \in Nat
    /\ \A i : /\ IsFiniteSet(Entries(i)') /\ Cardinality(Entries(i)') \in Nat
              /\ IsFiniteSet(Subdirs(i)') /\ Cardinality(Subdirs(i)') \in Nat
  <1>1. IsFiniteSet(Ino \X Names) /\ IsFiniteSet(Names)
    <2>1. IsFiniteSet(Ino)
      BY FS_Interval, ConstantsAssumption DEF Ino
    <2>2. QED  BY <2>1, FS_Product, ConstantsAssumption
  <1>2. \A i : Entries(i) \subseteq Ino \X Names /\ Subdirs(i) \subseteq Names
    BY DEF Entries, Subdirs
  <1>3. \A i : Entries(i)' \subseteq Ino \X Names /\ Subdirs(i)' \subseteq Names
    BY DEF Entries, Subdirs
  <1>4. QED  BY <1>1, <1>2, <1>3, CardSub

-----------------------------------------------------------------------------
(* The inductive invariant, one lemma per kind of step.                    *)

\* A number that waits has no name; one the kernel knows does not wait.
LEMMA Reach ==
    ASSUME IInv
    PROVE  /\ \A i \in Queued : i \in 2 .. size - 1 /\ ~ Named(i)
           /\ \A i : Known(i) => i \in 1 .. size - 1 /\ i \notin Queued
           /\ \A p \in Ino, n \in Names : children[p][n] # NoIno =>
                  /\ children[p][n] \in 2 .. size - 1
                  /\ Named(children[p][n])
  <1> USE DEF IInv
  <1>1. \A p \in Ino, n \in Names : children[p][n] # NoIno =>
            /\ children[p][n] \in Ino
            /\ Named(children[p][n])
    <2> TAKE p \in Ino, n \in Names
    <2>1. <<p, n>> \in Entries(children[p][n])
      BY DEF Entries
    <2>2. QED  BY <2>1 DEF TypeOK, Named
  <1>2. \A p \in Ino, n \in Names : children[p][n] # NoIno =>
            children[p][n] \in 2 .. size - 1
    BY <1>1 DEF TypeOK, Unreached, Ino, Root
  <1>3. Queued \subseteq Ino
    BY DEF TypeOK, Queued
  <1>4. \A i \in Queued : i \in 2 .. size - 1
    BY <1>3 DEF TypeOK, Ino, Root
  <1>5. \A i \in Queued : ~ Named(i)
    <2> TAKE i \in Queued
    <2>1. LinksCover(i) /\ nlink[i] = 0
      BY <1>4 DEF LinksCoverEntries, TypeOK
    <2>2. CASE IsDir(i)
      BY <2>1, <2>2, EntriesFinite DEF LinksCover
    <2>3. CASE ~ IsDir(i)
      <3>1. Cardinality(Entries(i)) = 0
        BY <2>1, <2>3, EntriesFinite DEF LinksCover
      <3>2. QED  BY <3>1, EntriesFinite, FS_EmptySet DEF Named
    <2>4. QED  BY <2>2, <2>3
  <1>6. \A i : Known(i) => i \in 1 .. size - 1 /\ i \notin Queued
    BY <1>4, KnownIno, ConstantsAssumption DEF Known, Unreached, TypeOK, Root, Ino
  <1>7. QED  BY <1>1, <1>2, <1>4, <1>5, <1>6

\* Nothing that LinksCover(x) depends on gets worse.
LEMMA CoverKeptCard ==
    ASSUME NEW x \in Ino, LinksCover(x), TypeOK,
           kind'[x] = kind[x], nlink'[x] = nlink[x],
           Cardinality(Entries(x)') <= Cardinality(Entries(x)),
           Cardinality(Subdirs(x)') <= Cardinality(Subdirs(x)),
           ~ Named(x) => ~ Named(x)',
           x \in dead => /\ x \in dead'
                         /\ children[x] = NoChildren => children'[x] = NoChildren
    PROVE  LinksCover(x)'
  <1>1. IsDir(x)' <=> IsDir(x)
    BY DEF IsDir
  <1>2. nlink[x] \in Int
    BY DEF TypeOK
  <1>3. CASE IsDir(x)
    <2>1. Cardinality(Entries(x)) <= 1 /\ Cardinality(Entries(x)') <= 1
      BY <1>3, EntriesFinite DEF LinksCover
    <2>2. CASE nlink[x] >= 2 + Cardinality(Subdirs(x))
      <3>1. nlink'[x] >= 2 + Cardinality(Subdirs(x)')
        BY <1>2, <2>2, EntriesFinite
      <3>2. QED  BY <1>1, <1>3, <2>1, <3>1 DEF LinksCover
    <2>3. CASE nlink[x] = 0 /\ x \in dead /\ ~ Named(x) /\ children[x] = NoChildren
      <3>1. /\ nlink'[x] = 0 /\ x \in dead' /\ ~ Named(x)'
            /\ children'[x] = NoChildren
        BY <2>3, Zenon
      <3>2. QED  BY <1>1, <1>3, <2>1, <3>1, Zenon DEF LinksCover
    <2>4. QED  BY <1>3, <2>2, <2>3 DEF LinksCover
  <1>4. CASE ~ IsDir(x)
    BY <1>1, <1>2, <1>4, EntriesFinite DEF LinksCover
  <1>5. QED  BY <1>3, <1>4

LEMMA CoverKept ==
    ASSUME NEW x \in Ino, LinksCover(x), TypeOK,
           kind'[x] = kind[x], nlink'[x] = nlink[x],
           Entries(x)' \subseteq Entries(x), Subdirs(x)' \subseteq Subdirs(x),
           x \in dead => /\ x \in dead'
                         /\ children[x] = NoChildren => children'[x] = NoChildren
    PROVE  LinksCover(x)'
  <1>1. /\ Cardinality(Entries(x)') <= Cardinality(Entries(x))
        /\ Cardinality(Subdirs(x)') <= Cardinality(Subdirs(x))
    BY CardSub, EntriesFinite
  <1>2. ~ Named(x) => ~ Named(x)'
    BY DEF Named
  <1>3. QED  BY <1>1, <1>2, CoverKeptCard

LEMMA InTable == TypeOK => \A x \in 1 .. size - 1 : x \in Ino
  <1>1. TypeOK => size \in 2 .. MaxINodes
    BY DEF TypeOK
  <1>2. QED  BY <1>1, ConstantsAssumption DEF Ino

LEMMA QueuedType ==
    ASSUME deleted \in Seq(Ino) PROVE Queued \subseteq Ino /\ 0 \in Ino /\ 1 \in Ino
  <1>1. 0 \in Ino /\ 1 \in Ino
    BY ConstantsAssumption DEF Ino
  <1>2. QED  BY <1>1 DEF Queued

\* Steps of the reference counts alone.
LEMMA ForgetStep ==
    ASSUME IInv, TypeRefs', NEW i \in Ino, NEW n \in 1 .. MaxLookups,
           FuseForget(i, n)
    PROVE  IInv'
  <1> USE DEF IInv
  <1>1. /\ i # Root /\ kref[i] > 0 /\ n \in 1 .. kref[i]
        /\ kref' = [kref EXCEPT ![i] = @ - n] /\ nlookup = kref
        /\ UNCHANGED <<size, kind, nlink, children, dead>>
    BY ConstantsAssumption DEF FuseForget, CanForget, KernelRefs, TypeOK
  <1>2. i \in 1 .. size - 1 /\ i \notin Queued
    BY <1>1, Reach, Zenon DEF Known
  <1>3. LinksCoverEntries'
    BY <1>1 DEF LinksCoverEntries, LinksCover, IsDir, Entries, Named, Subdirs
  <1>4. \A x : Named(x)' <=> Named(x)
    BY <1>1 DEF Named, Entries
  <1>5. \A x \in Ino : kref[x] = 0 => kref'[x] = 0
    BY <1>1 DEF TypeOK
  <1>6. CASE UNCHANGED deleted
    <2>1. Queued' = Queued
      BY <1>6 DEF Queued
    <2>2. Queued \subseteq Ino /\ 0 \in Ino
      BY QueuedType DEF TypeOK
    <2>3. (\A x \in Queued : x \notin {0, Root} /\ kref[x] = 0 /\ nlink[x] = 0)'
      BY <1>1, <1>5, <2>1, <2>2
    <2>4. (\A x \in Ino : x >= size => Unreached(x) /\ x \notin Queued)'
      BY <1>1, <1>4, <1>5, <2>1 DEF Unreached
    <2>5. (Unreached(0) /\ ~ Named(Root))'
      BY <1>4, <1>5, <2>2 DEF Unreached
    <2>6. (\A j, k \in DOMAIN deleted : deleted[j] = deleted[k] => j = k)'
      BY <1>6
    <2>7. QED  BY <1>3, <2>3, <2>4, <2>5, <2>6 DEF TypeRefs
  <1>7. CASE deleted' = Append(deleted, i) /\ nlookup[i] = n /\ nlink[i] = 0
    <2>1. deleted \in Seq(Ino)
      BY DEF TypeOK
    <2>2. Queued' = Queued \cup {i}
      BY <1>7, <2>1 DEF Queued
    <2>3. (\A j, k \in DOMAIN deleted : deleted[j] = deleted[k] => j = k)'
      BY <1>2, <1>7, <2>1 DEF Queued
    <2>4. kref'[i] = 0 /\ i \notin {0, Root} /\ nlink'[i] = 0
      BY <1>1, <1>2, <1>7 DEF TypeOK
    <2>5. Queued \subseteq Ino /\ 0 \in Ino
      BY QueuedType DEF TypeOK
    <2>6. (\A x \in Queued : x \notin {0, Root} /\ kref[x] = 0 /\ nlink[x] = 0)'
      BY <1>1, <1>5, <2>2, <2>4, <2>5
    <2>7. (\A x \in Ino : x >= size => Unreached(x) /\ x \notin Queued)'
      <3>1. size' = size /\ size \in Nat /\ i < size
        BY <1>1, <1>2, ConstantsAssumption DEF TypeOK
      <3>2. QED  BY <1>4, <1>5, <2>2, <3>1 DEF Unreached, Ino
    <2>8. (Unreached(0) /\ ~ Named(Root))'
      BY <1>4, <1>5, <2>5 DEF Unreached
    <2>9. QED  BY <1>3, <2>3, <2>6, <2>7, <2>8 DEF TypeRefs
  <1>8. QED  BY <1>6, <1>7, Zenon DEF FuseForget

LEMMA LookupStep ==
    ASSUME IInv, TypeRefs', NEW p \in Ino, NEW n \in Names, FuseLookup(p, n)
    PROVE  IInv'
  <1> USE DEF IInv
  <1> DEFINE i == children[p][n]
  <1>1. i \in 2 .. size - 1 /\ Named(i)
    BY Reach DEF FuseLookup
  <1>2. i \notin Queued
    BY <1>1, Reach
  <1>3. /\ kref' = [kref EXCEPT ![i] = @ + 1]
        /\ UNCHANGED <<size, kind, nlink, children, dead, deleted>>
    BY DEF FuseLookup
  <1>4. LinksCoverEntries'
    BY <1>3 DEF LinksCoverEntries, LinksCover, IsDir, Entries, Named, Subdirs
  <1>5. (\A x : Named(x)' <=> Named(x)) /\ Queued' = Queued
    BY <1>3 DEF Named, Entries, Queued
  <1>6. Queued \subseteq Ino /\ 0 \in Ino
    BY QueuedType DEF TypeOK
  <1>7. \A x \in Ino : x # i => kref'[x] = kref[x]
    BY <1>3 DEF TypeOK
  <1> HIDE DEF i
  <1>8. size \in Nat /\ i < size /\ i # 0
    BY <1>1, ConstantsAssumption DEF TypeOK
  <1>9. (\A x \in Queued : x \notin {0, Root} /\ kref[x] = 0 /\ nlink[x] = 0)'
    BY <1>2, <1>3, <1>5, <1>6, <1>7
  <1>10. (\A x \in Ino : x >= size => Unreached(x) /\ x \notin Queued)'
    BY <1>3, <1>5, <1>7, <1>8 DEF Unreached, Ino
  <1>11. (Unreached(0) /\ ~ Named(Root))'
    BY <1>5, <1>6, <1>7, <1>8 DEF Unreached
  <1>12. (\A j, k \in DOMAIN deleted : deleted[j] = deleted[k] => j = k)'
    BY <1>3
  <1>13. QED  BY <1>4, <1>9, <1>10, <1>11, <1>12 DEF TypeRefs

\* The number handed out is out of reach, and the queue only gets shorter.
LEMMA Fresh ==
    ASSUME IInv, NEW k \in Kinds, RegisterINode(k)
    PROVE  /\ NewIno \in 2 .. size' - 1
           /\ size' >= size
           /\ \A x \in Ino : x >= size' => x >= size
           /\ \A x \in 1 .. size' - 1 : x # NewIno => x \in 1 .. size - 1
           /\ Unreached(NewIno)
           /\ NewIno \notin Queued'
           /\ Queued' \subseteq Queued
           /\ (\A i, j \in DOMAIN deleted : deleted[i] = deleted[j] => i = j)'
  <1> USE DEF IInv
  <1>1. NewIno \in Ino
    BY NewInoType DEF RegisterINode
  <1>2. CASE Reclaims
    <2>1. deleted \in Seq(Ino) /\ deleted # <<>>
      BY <1>2 DEF TypeOK, Reclaims
    <2>2. NewIno = Head(deleted) /\ deleted' = Tail(deleted) /\ size' = size
      BY <1>2 DEF NewIno, RegisterINode
    <2>3. 1 \in DOMAIN deleted /\ NewIno = deleted[1]
      BY <2>1, <2>2
    <2>4. NewIno \in Queued
      BY <2>3 DEF Queued
    <2>5. /\ \A j \in DOMAIN Tail(deleted) : /\ j + 1 \in DOMAIN deleted
                                             /\ Tail(deleted)[j] = deleted[j + 1]
          /\ DOMAIN Tail(deleted) \subseteq Nat \ {0}
      BY <2>1
    <2>6. NewIno \notin Queued' /\ Queued' \subseteq Queued
      BY <2>2, <2>3, <2>5 DEF Queued
    <2>7. (\A i, j \in DOMAIN deleted : deleted[i] = deleted[j] => i = j)'
      BY <2>2, <2>5
    <2>8. Unreached(NewIno) /\ NewIno \in 2 .. size - 1
      BY <2>4, Reach DEF Unreached
    <2>9. QED  BY <2>2, <2>6, <2>7, <2>8 DEF TypeOK, Ino
  <1>3. CASE ~ Reclaims
    <2>1. NewIno = size /\ deleted' = deleted /\ size' = size + 1
      BY <1>3 DEF NewIno, RegisterINode
    <2>2. Queued' = Queued
      BY <2>1 DEF Queued
    <2>3. size \in Nat /\ size >= 2 /\ size \in Ino
      BY <1>1, <2>1 DEF TypeOK
    <2>4. QED  BY <2>1, <2>2, <2>3 DEF TypeOK, Ino
  <1>4. QED  BY <1>2, <1>3

\* Entering the new i-node names it once and unnames what a reused number held.
LEMMA EnterEntries ==
    ASSUME IInv, NEW k \in Kinds, RegisterINode(k), NEW p \in Ino, NEW n \in Names,
           CanAdd(p, n), Enter(p, n), NEW r, r = NewIno
    PROVE  /\ p # r
           /\ children'[r] = NoChildren
           /\ children'[p][n] = r
           /\ \A x \in Ino : x \notin {p, r} => children'[x] = children[x]
           /\ \A x \in Ino : x # r => Entries(x)' \subseteq Entries(x)
           /\ Entries(r)' \subseteq {<<p, n>>}
           /\ Subdirs(r)' = {}
           /\ \A x \in Ino : x \notin {p, r} => Subdirs(x)' \subseteq Subdirs(x)
           /\ Subdirs(p)' \subseteq Subdirs(p) \cup {n}
           /\ k # "dir" => Subdirs(p)' \subseteq Subdirs(p)
  <1> USE DEF IInv
  <1>1. r \in Ino /\ ~ Named(r) /\ kref[r] = 0 /\ r # Root
    <2>1. r \in Ino
      BY NewInoType DEF RegisterINode
    <2>2. Unreached(r) /\ r # 1
      BY Fresh DEF TypeOK
    <2>3. QED  BY <2>1, <2>2 DEF Unreached, Root
  <1>2. p # r
    BY <1>1 DEF CanAdd, Known
  <1> DEFINE f == [children EXCEPT ![r] = NoChildren]
  <1>3. children' = [f EXCEPT ![p] = [@ EXCEPT ![n] = r]]
    BY DEF Enter
  <1>4. /\ f \in [Ino -> [Names -> Ino \cup {NoIno}]]
        /\ f[r] = NoChildren
        /\ \A x \in Ino : x # r => f[x] = children[x]
    BY <1>1 DEF TypeOK, NoChildren
  <1> HIDE DEF f
  <1>5. /\ children'[r] = NoChildren
        /\ children'[p][n] = r
        /\ \A m \in Names : m # n => children'[p][m] = children[p][m]
        /\ \A x \in Ino : x \notin {p, r} => children'[x] = children[x]
    BY <1>1, <1>2, <1>3, <1>4
  <1>6. \A d \in Ino, m \in Names : children'[d][m] \notin {r, NoIno} =>
            children'[d][m] = children[d][m]
    BY <1>5 DEF NoChildren
  <1>7. \A d \in Ino, m \in Names : children[d][m] # r
    <2> SUFFICES ASSUME NEW d \in Ino, NEW m \in Names, children[d][m] = r
                 PROVE  FALSE
      OBVIOUS
    <2>1. <<d, m>> \in Entries(r)
      BY DEF Entries
    <2>2. QED  BY <1>1, <2>1 DEF Named
  <1>8. \A x \in Ino : x # r => Entries(x)' \subseteq Entries(x)
    <2> SUFFICES ASSUME NEW x \in Ino, x # r, NEW e \in Entries(x)'
                 PROVE  e \in Entries(x)
      OBVIOUS
    <2>1. e \in Ino \X Names /\ children'[e[1]][e[2]] = x
      BY DEF Entries
    <2>2. x # NoIno
      BY DEF Ino, NoIno
    <2>3. children[e[1]][e[2]] = x
      BY <1>6, <2>1, <2>2
    <2>4. QED  BY <2>1, <2>3 DEF Entries
  <1>9. Entries(r)' \subseteq {<<p, n>>}
    <2> SUFFICES ASSUME NEW e \in Entries(r)' PROVE e = <<p, n>>
      OBVIOUS
    <2>1. PICK d \in Ino, m \in Names : e = <<d, m>> /\ children'[d][m] = r
      BY DEF Entries
    <2>2. r # NoIno
      BY <1>1 DEF Ino, NoIno
    <2>3. d # r
      BY <1>5, <2>1, <2>2 DEF NoChildren
    <2>4. d = p /\ m = n
      BY <1>5, <1>7, <2>1, <2>3
    <2>5. QED  BY <2>1, <2>4
  <1>10. Subdirs(r)' = {}
    BY <1>5 DEF Subdirs, NoChildren, Ino, NoIno
  <1>11. kind' = [kind EXCEPT ![r] = k]
    BY DEF RegisterINode
  <1>12. \A x \in Ino : x \notin {p, r} => Subdirs(x)' \subseteq Subdirs(x)
    <2> SUFFICES ASSUME NEW x \in Ino, x \notin {p, r}, NEW m \in Subdirs(x)'
                 PROVE  m \in Subdirs(x)
      OBVIOUS
    <2>1. PICK c \in Ino : m \in Names /\ children'[x][m] = c /\ kind'[c] = "dir"
      BY DEF Subdirs, IsDir
    <2>2. children[x][m] = c /\ c # r
      BY <1>5, <1>7, <2>1
    <2>3. QED  BY <1>11, <2>1, <2>2 DEF Subdirs, IsDir, TypeOK
  <1>13. \A m \in Subdirs(p)' : m # n => m \in Subdirs(p)
    <2> SUFFICES ASSUME NEW m \in Subdirs(p)', m # n PROVE m \in Subdirs(p)
      OBVIOUS
    <2>1. PICK c \in Ino : m \in Names /\ children'[p][m] = c /\ kind'[c] = "dir"
      BY DEF Subdirs, IsDir
    <2>2. children[p][m] = c /\ c # r
      BY <1>5, <1>7, <2>1
    <2>3. QED  BY <1>11, <2>1, <2>2 DEF Subdirs, IsDir, TypeOK
  <1>14. k # "dir" => n \notin Subdirs(p)'
    BY <1>1, <1>5, <1>11 DEF Subdirs, IsDir, TypeOK
  <1>15. QED
    BY <1>2, <1>5, <1>8, <1>9, <1>10, <1>12, <1>13, <1>14

\* FuseCreate, FuseMknod, FuseSymlink, FuseMkdir: whatever the links of the
\* new i-node and its parent are, if they cover the new entries.
LEMMA RegisterStep ==
    ASSUME IInv, TypeRefs', NEW k \in Kinds, NEW p \in Ino, NEW n \in Names,
           CanAdd(p, n), RegisterINode(k), Enter(p, n), NEW r, r = NewIno,
           \A x \in Ino : x \notin {p, r} => nlink'[x] = nlink[x],
           k # "dir" => nlink'[r] >= 1 /\ nlink'[p] = nlink[p],
           k = "dir" => nlink'[r] >= 2 /\ nlink'[p] = nlink[p] + 1
    PROVE  IInv'
  <1> USE DEF IInv
  <1>1. /\ r \in Ino /\ r \in 2 .. size' - 1
        /\ kind' = [kind EXCEPT ![r] = k]
        /\ kref' = [kref EXCEPT ![r] = 1]
        /\ dead' = dead \ {r}
    BY NewInoType, Fresh DEF RegisterINode
  <1>2. p \in 1 .. size - 1 /\ p \notin Queued /\ IsDir(p) /\ p \notin dead
    BY Reach DEF CanAdd
  <1>3. \A x \in 1 .. size' - 1 : x # r => x \in Ino /\ LinksCover(x)
    <2> SUFFICES ASSUME NEW x \in 1 .. size' - 1, x # r
                 PROVE  x \in Ino /\ LinksCover(x)
      OBVIOUS
    <2>1. x \in 1 .. size - 1
      BY Fresh
    <2>2. QED  BY <2>1, ConstantsAssumption DEF LinksCoverEntries, TypeOK, Ino
  <1>4. LinksCover(r)'
    <2>1. Cardinality(Entries(r)') <= 1
      <3>1. IsFiniteSet({<<p, n>>}) /\ Cardinality({<<p, n>>}) = 1
        BY FS_Singleton
      <3>2. QED  BY <3>1, EnterEntries, CardSub
    <2>2. Cardinality(Subdirs(r)') = 0
      BY EnterEntries, FS_EmptySet
    <2>3. IsDir(r)' <=> k = "dir"
      BY <1>1 DEF IsDir, TypeOK
    <2>4. nlink'[r] \in Int /\ Cardinality(Entries(r)') \in Nat
      BY <1>1, EntriesFinite DEF TypeRefs, TypeOK
    <2>5. CASE k = "dir"
      BY <2>1, <2>2, <2>3, <2>4, <2>5 DEF LinksCover
    <2>6. CASE k # "dir"
      BY <2>1, <2>3, <2>4, <2>6 DEF LinksCover
    <2>7. QED  BY <2>5, <2>6
  <1>5. \A x \in 1 .. size' - 1 : x \notin {p, r} => LinksCover(x)'
    <2> SUFFICES ASSUME NEW x \in 1 .. size' - 1, x \notin {p, r}
                 PROVE  LinksCover(x)'
      OBVIOUS
    <2>1. x \in Ino /\ LinksCover(x) /\ kind'[x] = kind[x] /\ nlink'[x] = nlink[x]
      BY <1>1, <1>3 DEF TypeOK
    <2>2. /\ Entries(x)' \subseteq Entries(x) /\ Subdirs(x)' \subseteq Subdirs(x)
          /\ children'[x] = children[x] /\ (x \in dead => x \in dead')
      BY <1>1, <2>1, EnterEntries
    <2>3. QED  BY <2>1, <2>2, CoverKept
  <1>6. LinksCover(p)'
    <2>1. LinksCover(p) /\ p # r /\ Entries(p)' \subseteq Entries(p)
      BY <1>2, EnterEntries DEF LinksCoverEntries
    <2>2. IsDir(p)'
      BY <1>1, <1>2, <2>1 DEF IsDir, TypeOK
    <2>3. Cardinality(Entries(p)') <= Cardinality(Entries(p))
      BY <2>1, CardSub, EntriesFinite
    <2>4. Cardinality(Entries(p)) <= 1 /\ nlink[p] >= 2 + Cardinality(Subdirs(p))
      BY <1>2, <2>1 DEF LinksCover
    <2>5. nlink'[p] >= 2 + Cardinality(Subdirs(p)')
      <3>1. nlink[p] \in Int /\ nlink'[p] \in Int
        BY DEF TypeRefs, TypeOK
      <3>2. CASE k = "dir"
        <4>1. Cardinality(Subdirs(p)') <= Cardinality(Subdirs(p)) + 1
          BY EnterEntries, CardAdd, EntriesFinite
        <4>2. QED  BY <2>4, <3>1, <3>2, <4>1, EntriesFinite
      <3>3. CASE k # "dir"
        <4>1. Cardinality(Subdirs(p)') <= Cardinality(Subdirs(p))
          BY <3>3, EnterEntries, CardSub, EntriesFinite
        <4>2. QED  BY <2>4, <3>1, <3>3, <4>1, EntriesFinite
      <3>4. QED  BY <3>2, <3>3
    <2>6. QED  BY <2>2, <2>3, <2>4, <2>5, EntriesFinite DEF LinksCover
  <1>7. LinksCoverEntries'
    BY <1>4, <1>5, <1>6 DEF LinksCoverEntries
  <1>8. \A x \in Ino : x # r => (Unreached(x) => Unreached(x)')
    BY <1>1, EnterEntries DEF Unreached, Named, TypeOK
  <1>9. (\A x \in Ino : x >= size => Unreached(x) /\ x \notin Queued)'
    <2> SUFFICES ASSUME NEW x \in Ino, x >= size'
                 PROVE  Unreached(x)' /\ x \notin Queued'
      OBVIOUS
    <2>1. x >= size
      BY Fresh
    <2>2. x # r
      <3>1. size' \in Int /\ x \in Int
        BY ConstantsAssumption DEF TypeRefs, TypeOK, Ino
      <3>2. \A a, b, c : a \in Int /\ b \in Int /\ a >= b /\ c \in 2 .. b - 1 => a # c
        OBVIOUS
      <3>3. QED  BY <1>1, <3>1, <3>2
    <2>3. Unreached(x)'
      BY <1>8, <2>1, <2>2
    <2>4. QED  BY <2>1, <2>3, Fresh
  <1>10. (Unreached(0) /\ ~ Named(Root))'
    <2>1. {0, 1} \subseteq Ino
      BY ConstantsAssumption DEF Ino
    <2>2. Unreached(0)'
      BY <1>1, <1>8, <2>1
    <2>3. Entries(Root)' \subseteq Entries(Root)
      BY <1>1, <2>1, EnterEntries DEF Root
    <2>4. QED  BY <2>2, <2>3 DEF Named
  <1>11. (\A x \in Queued : x \notin {0, Root} /\ kref[x] = 0 /\ nlink[x] = 0)'
    <2> SUFFICES ASSUME NEW x \in Queued'
                 PROVE  x \notin {0, Root} /\ kref'[x] = 0 /\ nlink'[x] = 0
      BY DEF Root
    <2>1. x \in Queued /\ x # r /\ x # p
      BY <1>2, Fresh
    <2>2. x \in Ino
      BY <2>1 DEF Queued, TypeOK
    <2>3. QED  BY <1>1, <2>1, <2>2 DEF TypeOK
  <1>12. QED  BY <1>7, <1>9, <1>10, <1>11, Fresh DEF TypeRefs

\* Steps that neither register a number nor touch the queue.
LEMMA QuietStep ==
    ASSUME IInv, TypeRefs', LinksCoverEntries',
           UNCHANGED <<size, deleted>>,
           \A x \in Ino : kref[x] = 0 => kref'[x] = 0,
           \A x \in Queued : nlink'[x] = nlink[x],
           \A x \in Ino : ~ Named(x) => ~ Named(x)'
    PROVE  IInv'
  <1> USE DEF IInv
  <1>1. Queued' = Queued /\ Queued \subseteq Ino /\ {0, 1} \subseteq Ino
    <2>1. Queued' = Queued
      BY DEF Queued
    <2>2. QED  BY <2>1, QueuedType DEF TypeOK
  <1>2. \A x \in Ino : Unreached(x) => Unreached(x)'
    BY DEF Unreached
  <1>3. (\A x \in Ino : x >= size => Unreached(x) /\ x \notin Queued)'
    BY <1>1, <1>2
  <1>4. (Unreached(0) /\ ~ Named(Root))'
    BY <1>1, <1>2 DEF Root
  <1>5. (\A x \in Queued : x \notin {0, Root} /\ kref[x] = 0 /\ nlink[x] = 0)'
    BY <1>1
  <1>6. QED  BY <1>3, <1>4, <1>5 DEF TypeRefs

\* One entry taken away, the sets of entries shrink.
LEMMA RemoveEntry ==
    ASSUME TypeOK, NEW p \in Ino, NEW n \in Names,
           children' = [children EXCEPT ![p][n] = NoIno], kind' = kind
    PROVE  /\ \A x \in Ino : Entries(x)' \subseteq Entries(x) \ {<<p, n>>}
           /\ \A x \in Ino : Subdirs(x)' \subseteq Subdirs(x)
           /\ \A x \in Ino : children[x] = NoChildren => children'[x] = NoChildren
           /\ n \notin Subdirs(p)'
  <1>1. /\ children'[p][n] = NoIno
        /\ \A m \in Names : m # n => children'[p][m] = children[p][m]
        /\ \A x \in Ino : x # p => children'[x] = children[x]
        /\ children'[p] = [children[p] EXCEPT ![n] = NoIno]
    BY DEF TypeOK
  <1>2. \A x \in Ino : x # NoIno
    BY DEF Ino, NoIno
  <1>3. \A x \in Ino : Entries(x)' \subseteq Entries(x) \ {<<p, n>>}
    <2> SUFFICES ASSUME NEW x \in Ino, NEW e \in Entries(x)'
                 PROVE  e \in Entries(x) \ {<<p, n>>}
      OBVIOUS
    <2>1. PICK d \in Ino, m \in Names : e = <<d, m>> /\ children'[d][m] = x
      BY DEF Entries
    <2>2. <<d, m>> # <<p, n>> /\ children[d][m] = x
      BY <1>1, <1>2, <2>1
    <2>3. QED  BY <2>1, <2>2 DEF Entries
  <1>4. \A x \in Ino : Subdirs(x)' \subseteq Subdirs(x)
    BY <1>1, <1>2 DEF Subdirs, IsDir
  <1>5. n \notin Subdirs(p)'
    BY <1>1, <1>2 DEF Subdirs
  <1>6. \A x \in Ino : children[x] = NoChildren => children'[x] = NoChildren
    BY <1>1 DEF NoChildren
  <1>7. QED  BY <1>3, <1>4, <1>5, <1>6

LEMMA UnlinkStep ==
    ASSUME IInv, TypeRefs', NEW p \in Ino, NEW n \in Names, FuseUnlink(p, n)
    PROVE  IInv'
  <1> USE DEF IInv
  <1>1. PICK c \in Ino :
          /\ c = children[p][n] /\ c \in 1 .. size - 1 /\ c \notin Queued
          /\ ~ IsDir(c) /\ nlink' = [nlink EXCEPT ![c] = @ - 1]
    BY KnownIno, Reach DEF FuseUnlink, CanRemove
  <1>2. /\ children' = [children EXCEPT ![p][n] = NoIno]
        /\ UNCHANGED <<size, kind, deleted, kref, dead>>
    BY DEF FuseUnlink
  <1>3. \A x \in Ino : /\ Entries(x)' \subseteq Entries(x) \ {<<p, n>>}
                       /\ Subdirs(x)' \subseteq Subdirs(x)
                       /\ children[x] = NoChildren => children'[x] = NoChildren
    BY <1>2, RemoveEntry
  <1>4. \A x \in 1 .. size - 1 : x # c => LinksCover(x)'
    <2> SUFFICES ASSUME NEW x \in 1 .. size - 1, x # c PROVE LinksCover(x)'
      OBVIOUS
    <2>1. x \in Ino /\ LinksCover(x)
      BY InTable DEF LinksCoverEntries
    <2>2. kind'[x] = kind[x] /\ nlink'[x] = nlink[x]
      BY <1>1, <1>2, <2>1 DEF TypeOK
    <2>3. QED  BY <1>2, <1>3, <2>1, <2>2, CoverKept
  <1>5. LinksCover(c)'
    <2>1. <<p, n>> \in Entries(c)
      BY <1>1 DEF Entries
    <2>2. Cardinality(Entries(c)') <= Cardinality(Entries(c)) - 1
      BY <1>3, <2>1, CardRem, EntriesFinite
    <2>3. nlink[c] >= Cardinality(Entries(c))
      BY <1>1 DEF LinksCoverEntries, LinksCover
    <2>4. nlink'[c] = nlink[c] - 1 /\ nlink[c] \in Int
      BY <1>1 DEF TypeOK
    <2>5. nlink'[c] >= Cardinality(Entries(c)')
      BY <2>2, <2>3, <2>4, EntriesFinite
    <2>6. ~ IsDir(c)'
      BY <1>1, <1>2 DEF IsDir
    <2>7. QED  BY <2>5, <2>6 DEF LinksCover
  <1>6. LinksCoverEntries'
    BY <1>2, <1>4, <1>5 DEF LinksCoverEntries
  <1>7. \A x \in Queued : nlink'[x] = nlink[x]
    BY <1>1 DEF TypeOK, Queued
  <1>8. \A x \in Ino : ~ Named(x) => ~ Named(x)'
    BY <1>3 DEF Named
  <1>9. QED  BY <1>2, <1>6, <1>7, <1>8, QuietStep

LEMMA RmdirStep ==
    ASSUME IInv, TypeRefs', NEW p \in Ino, NEW n \in Names, FuseRmdir(p, n)
    PROVE  IInv'
  <1> USE DEF IInv
  <1>1. PICK c \in Ino :
          /\ c = children[p][n] /\ c \in 1 .. size - 1 /\ c \notin Queued
          /\ IsDir(c) /\ children[c] = NoChildren
          /\ nlink' = [nlink EXCEPT ![p] = @ - 1, ![c] = 0]
          /\ dead' = dead \cup {c}
    BY KnownIno, Reach DEF FuseRmdir, CanRemove
  <1>2. /\ children' = [children EXCEPT ![p][n] = NoIno]
        /\ UNCHANGED <<size, kind, deleted, kref>>
    BY DEF FuseRmdir
  <1>3. /\ p \in 1 .. size - 1 /\ p \notin Queued /\ IsDir(p) /\ p \notin dead
    BY Reach DEF FuseRmdir, CanRemove
  <1>4. \A x \in Ino : /\ Entries(x)' \subseteq Entries(x) \ {<<p, n>>}
                       /\ Subdirs(x)' \subseteq Subdirs(x)
                       /\ children[x] = NoChildren => children'[x] = NoChildren
    BY <1>2, RemoveEntry
  <1>5. p # c
    BY <1>1, <1>2, ConstantsAssumption DEF NoChildren, NoIno, Ino
  <1>6. /\ nlink'[c] = 0 /\ nlink'[p] = nlink[p] - 1 /\ nlink[p] \in Int
        /\ \A x \in Ino : x \notin {p, c} => nlink'[x] = nlink[x]
    BY <1>1, <1>5 DEF TypeOK
  <1>7. \A x \in 1 .. size - 1 : x \notin {p, c} => LinksCover(x)'
    <2> SUFFICES ASSUME NEW x \in 1 .. size - 1, x \notin {p, c} PROVE LinksCover(x)'
      OBVIOUS
    <2>1. x \in Ino /\ LinksCover(x)
      BY InTable DEF LinksCoverEntries
    <2>2. kind'[x] = kind[x] /\ nlink'[x] = nlink[x] /\ (x \in dead => x \in dead')
      BY <1>1, <1>2, <1>6, <2>1
    <2>3. QED  BY <1>4, <2>1, <2>2, CoverKept
  <1>8. LinksCover(c)'
    <2>1. <<p, n>> \in Entries(c) /\ Cardinality(Entries(c)) <= 1
      BY <1>1 DEF Entries, LinksCoverEntries, LinksCover
    <2>2. Cardinality(Entries(c)') <= Cardinality(Entries(c)) - 1
      BY <1>4, <2>1, CardRem, EntriesFinite
    <2>3. Cardinality(Entries(c)') = 0
      BY <2>1, <2>2, EntriesFinite
    <2>4. Entries(c)' = {}
      BY <2>3, EntriesFinite, FS_EmptySet
    <2>5. ~ Named(c)' /\ children'[c] = NoChildren /\ c \in dead'
      BY <1>1, <1>4, <2>4 DEF Named
    <2>6. QED  BY <1>6, <2>3, <2>5 DEF LinksCover
  <1>9. LinksCover(p)'
    <2>1. Cardinality(Entries(p)) <= 1 /\ nlink[p] >= 2 + Cardinality(Subdirs(p))
      BY <1>3 DEF LinksCoverEntries, LinksCover
    <2>2. n \in Subdirs(p)
      BY <1>1 DEF Subdirs
    <2>3. Subdirs(p)' \subseteq Subdirs(p) \ {n}
      BY <1>2, <1>4, RemoveEntry
    <2>4. Cardinality(Subdirs(p)') <= Cardinality(Subdirs(p)) - 1
      BY <2>2, <2>3, CardRem, EntriesFinite
    <2>5. Cardinality(Entries(p)') <= Cardinality(Entries(p))
      BY <1>4, CardSub, EntriesFinite
    <2>6. IsDir(p)'
      BY <1>2, <1>3 DEF IsDir
    <2>7. nlink'[p] >= 2 + Cardinality(Subdirs(p)')
      BY <1>6, <2>1, <2>4, EntriesFinite
    <2>8. Cardinality(Entries(p)') <= 1
      BY <2>1, <2>5, EntriesFinite
    <2>9. QED  BY <2>6, <2>7, <2>8 DEF LinksCover
  <1>10. LinksCoverEntries'
    BY <1>2, <1>7, <1>8, <1>9 DEF LinksCoverEntries
  <1>11. \A x \in Queued : nlink'[x] = nlink[x]
    <2>1. Queued \subseteq Ino
      BY DEF TypeOK, Queued
    <2>2. QED  BY <1>1, <1>3, <1>6, <2>1
  <1>12. \A x \in Ino : ~ Named(x) => ~ Named(x)'
    BY <1>4 DEF Named
  <1>13. QED  BY <1>2, <1>10, <1>11, <1>12, QuietStep

LEMMA LinkStep ==
    ASSUME IInv, TypeRefs', NEW i \in Ino, NEW q \in Ino, NEW m \in Names,
           FuseLink(i, q, m)
    PROVE  IInv'
  <1> USE DEF IInv
  <1>1. /\ i \in 1 .. size - 1 /\ i \notin Queued /\ ~ IsDir(i)
        /\ q \notin dead /\ children[q][m] = NoIno /\ Named(i)
    BY Reach DEF FuseLink, CanAdd
  <1>2. /\ nlink' = [nlink EXCEPT ![i] = @ + 1]
        /\ kref' = [kref EXCEPT ![i] = @ + 1]
        /\ children' = [children EXCEPT ![q][m] = i]
        /\ UNCHANGED <<size, kind, deleted, dead>>
    BY DEF FuseLink
  <1>3. /\ children'[q][m] = i
        /\ \A n \in Names : n # m => children'[q][n] = children[q][n]
        /\ \A x \in Ino : x # q => children'[x] = children[x]
    BY <1>2 DEF TypeOK
  <1>4. \A x \in Ino : Entries(x)' \subseteq Entries(x) \cup {<<q, m>>}
    <2> SUFFICES ASSUME NEW x \in Ino, NEW e \in Entries(x)', e # <<q, m>>
                 PROVE  e \in Entries(x)
      OBVIOUS
    <2>1. PICK d \in Ino, n \in Names : e = <<d, n>> /\ children'[d][n] = x
      BY DEF Entries
    <2>2. children[d][n] = x
      BY <1>3, <2>1
    <2>3. QED  BY <2>1, <2>2 DEF Entries
  <1>5. \A x \in Ino : x # i => Entries(x)' \subseteq Entries(x)
    <2>1. \A x \in Ino : x # i => <<q, m>> \notin Entries(x)'
      BY <1>3 DEF Entries
    <2>2. QED  BY <1>4, <2>1
  <1>6. \A x \in Ino : Subdirs(x)' \subseteq Subdirs(x)
    <2>1. \A c \in Ino : IsDir(c)' => IsDir(c) /\ c # i
      BY <1>1, <1>2 DEF IsDir
    <2>2. QED  BY <1>3, <2>1 DEF Subdirs
  <1>7. \A x \in 1 .. size - 1 : x # i => LinksCover(x)'
    <2> SUFFICES ASSUME NEW x \in 1 .. size - 1, x # i PROVE LinksCover(x)'
      OBVIOUS
    <2>1. x \in Ino /\ LinksCover(x)
      BY InTable DEF LinksCoverEntries
    <2>2. kind'[x] = kind[x] /\ nlink'[x] = nlink[x]
      BY <1>2, <2>1 DEF TypeOK
    <2>3. x \in dead => x \in dead' /\ children'[x] = children[x]
      BY <1>1, <1>2, <1>3, <2>1
    <2>4. QED  BY <1>5, <1>6, <2>1, <2>2, <2>3, CoverKept
  <1>8. LinksCover(i)'
    <2>1. nlink[i] >= Cardinality(Entries(i))
      BY <1>1 DEF LinksCoverEntries, LinksCover
    <2>2. Cardinality(Entries(i)') <= Cardinality(Entries(i)) + 1
      BY <1>4, CardAdd, EntriesFinite
    <2>3. nlink'[i] = nlink[i] + 1 /\ nlink[i] \in Int
      BY <1>2 DEF TypeOK
    <2>4. nlink'[i] >= Cardinality(Entries(i)')
      BY <2>1, <2>2, <2>3, EntriesFinite
    <2>5. ~ IsDir(i)'
      BY <1>1, <1>2 DEF IsDir
    <2>6. QED  BY <2>4, <2>5 DEF LinksCover
  <1>9. LinksCoverEntries'
    BY <1>2, <1>7, <1>8 DEF LinksCoverEntries
  <1>10. \A x \in Queued : nlink'[x] = nlink[x]
    BY <1>1, <1>2 DEF TypeOK, Queued
  <1>11. \A x \in Ino : ~ Named(x) => ~ Named(x)'
    BY <1>1, <1>5 DEF Named
  <1>12. \A x \in Ino : kref[x] = 0 => kref'[x] = 0
    <2>1. kref[i] # 0
      BY <1>1 DEF FuseLink, Known, Named, Root
    <2>2. QED  BY <1>2, <2>1 DEF TypeOK
  <1>13. QED  BY <1>2, <1>9, <1>10, <1>11, <1>12, QuietStep

LEMMA RenameStep ==
    ASSUME IInv, TypeRefs', ~ DirsMove,
           NEW p \in Ino, NEW n \in Names, NEW q \in Ino, NEW m \in Names,
           FuseRename(p, n, q, m)
    PROVE  IInv'
  <1> USE DEF IInv
  <1>1. PICK i \in Ino : /\ i = children[p][n] /\ i # NoIno /\ Named(i)
                         /\ i \in 1 .. size - 1
    <2>1. children[p][n] \in 1 .. size - 1 /\ children[p][n] \in Ino
      BY KnownIno, Reach DEF FuseRename, CanRename, CanRemove
    <2>2. children[p][n] # NoIno
      BY <2>1 DEF Ino, NoIno
    <2>3. QED  BY <2>1, <2>2, Reach
  <1>2. /\ p \notin dead /\ q \notin dead /\ children[q][m] # i
        /\ IsDir(i) => p = q
        /\ \/ children[q][m] = NoIno
           \/ children[q][m] # NoIno /\ (IsDir(children[q][m]) => IsDir(i))
    BY <1>1, Zenon DEF FuseRename, CanRename, CanRemove, CanReplace
  <1>3. /\ children' = [children EXCEPT ![q][m] = i, ![p][n] = NoIno]
        /\ UNCHANGED <<size, kind, deleted, kref>>
    BY <1>1 DEF FuseRename
  <1>4. nlink' = nlink
    <2>1. \/ nlink' = nlink
          \/ p = q /\ nlink' = [[nlink EXCEPT ![p] = @ - 1] EXCEPT ![q] = @ + 1]
      BY <1>2, Zenon DEF FuseRename
    <2> DEFINE g == [nlink EXCEPT ![p] = @ - 1]
    <2>2. /\ nlink \in [Ino -> Int] /\ g \in [Ino -> Int] /\ g[p] = nlink[p] - 1
          /\ \A x \in Ino : x # p => g[x] = nlink[x]
      BY DEF TypeOK
    <2>3. nlink' = nlink \/ nlink' = [g EXCEPT ![p] = @ + 1]
      BY <2>1
    <2> HIDE DEF g
    <2>4. ASSUME nlink' = [g EXCEPT ![p] = @ + 1] PROVE nlink' = nlink
      <3>1. nlink' \in [Ino -> Int] /\ \A x \in Ino : nlink'[x] = nlink[x]
        BY <2>2, <2>4
      <3>2. QED  BY <2>2, <3>1
    <2>5. QED  BY <2>3, <2>4
  <1>5. dead \subseteq dead'
    BY Zenon DEF FuseRename
  <1>6. <<p, n>> # <<q, m>>
    BY <1>1, <1>2
  <1> DEFINE f == [children EXCEPT ![q] = [@ EXCEPT ![m] = i]]
  <1>7. /\ f \in [Ino -> [Names -> Ino \cup {NoIno}]]
        /\ f[q][m] = i
        /\ \A x \in Names : x # m => f[q][x] = children[q][x]
        /\ \A d \in Ino : d # q => f[d] = children[d]
    BY DEF TypeOK
  <1>8. children' = [f EXCEPT ![p] = [@ EXCEPT ![n] = NoIno]]
    BY <1>3
  <1> HIDE DEF f
  <1>9. /\ children'[p][n] = NoIno
        /\ \A d \in Ino, x \in Names : <<d, x>> \notin {<<p, n>>, <<q, m>>} =>
                children'[d][x] = children[d][x]
        /\ children'[q][m] = i
        /\ \A d \in Ino : d \notin {p, q} => children'[d] = children[d]
    BY <1>6, <1>7, <1>8
  <1>10. \A x \in Ino : x # NoIno
    BY DEF Ino, NoIno
  <1>11. Entries(i)' \subseteq (Entries(i) \ {<<p, n>>}) \cup {<<q, m>>}
    <2> SUFFICES ASSUME NEW e \in Entries(i)', e # <<q, m>>
                 PROVE  e \in Entries(i) \ {<<p, n>>}
      OBVIOUS
    <2>1. PICK d \in Ino, x \in Names : e = <<d, x>> /\ children'[d][x] = i
      BY DEF Entries
    <2>2. <<d, x>> # <<p, n>> /\ children[d][x] = i
      BY <1>9, <1>10, <2>1
    <2>3. QED  BY <2>1, <2>2 DEF Entries
  <1>12. \A c \in Ino : c # i => Entries(c)' \subseteq Entries(c)
    <2> SUFFICES ASSUME NEW c \in Ino, c # i, NEW e \in Entries(c)'
                 PROVE  e \in Entries(c)
      OBVIOUS
    <2>1. PICK d \in Ino, x \in Names : e = <<d, x>> /\ children'[d][x] = c
      BY DEF Entries
    <2>2. children[d][x] = c
      BY <1>9, <1>10, <2>1
    <2>3. QED  BY <2>1, <2>2 DEF Entries
  <1>13. \A d \in Ino : Cardinality(Subdirs(d)') <= Cardinality(Subdirs(d))
    <2>0. \A c \in Ino : IsDir(c)' <=> IsDir(c)
      BY <1>3 DEF IsDir
    <2>1. \A d \in Ino, x \in Names : <<d, x>> # <<q, m>> =>
              (x \in Subdirs(d)' => x \in Subdirs(d) /\ <<d, x>> # <<p, n>>)
      BY <1>9, <1>10, <2>0 DEF Subdirs
    <2>2. \A d : Subdirs(d)' \subseteq Names
      BY DEF Subdirs
    <2>3. \A d \in Ino : d # q => Subdirs(d)' \subseteq Subdirs(d)
      BY <2>1, <2>2
    <2>4. Cardinality(Subdirs(q)') <= Cardinality(Subdirs(q))
      <3>1. CASE IsDir(i)
        <4>1. n \in Subdirs(q) /\ p = q
          BY <1>1, <1>2, <3>1 DEF Subdirs
        <4>2. Subdirs(q)' \subseteq (Subdirs(q) \ {n}) \cup {m}
          BY <2>1, <2>2, <4>1
        <4>3. QED  BY <4>1, <4>2, CardSwap, EntriesFinite
      <3>2. CASE ~ IsDir(i)
        <4>1. m \notin Subdirs(q)'
          BY <1>9, <2>0, <3>2 DEF Subdirs
        <4>2. Subdirs(q)' \subseteq Subdirs(q)
          BY <2>1, <2>2, <4>1
        <4>3. QED  BY <4>2, CardSub, EntriesFinite
      <3>3. QED  BY <3>1, <3>2
    <2>5. QED  BY <2>3, <2>4, CardSub, EntriesFinite
  <1>14. \A x \in Ino : Cardinality(Entries(x)') <= Cardinality(Entries(x))
    <2>1. <<p, n>> \in Entries(i)
      BY <1>1 DEF Entries
    <2>2. Cardinality(Entries(i)') <= Cardinality(Entries(i))
      BY <1>11, <2>1, CardSwap, EntriesFinite
    <2>3. \A x \in Ino : x # i => Cardinality(Entries(x)') <= Cardinality(Entries(x))
      BY <1>12, CardSub, EntriesFinite
    <2>4. QED  BY <2>2, <2>3
  <1>15. \A x \in Ino : ~ Named(x) => ~ Named(x)'
    BY <1>1, <1>12 DEF Named
  <1>16. LinksCoverEntries'
    <2> SUFFICES ASSUME NEW x \in 1 .. size - 1 PROVE LinksCover(x)'
      BY <1>3 DEF LinksCoverEntries
    <2>1. x \in Ino /\ LinksCover(x)
      BY InTable DEF LinksCoverEntries
    <2>2. kind'[x] = kind[x] /\ nlink'[x] = nlink[x]
      BY <1>3, <1>4
    <2>3. x \in dead => x \in dead' /\ children'[x] = children[x]
      BY <1>2, <1>5, <1>9, <2>1
    <2>4. QED  BY <1>13, <1>14, <1>15, <2>1, <2>2, <2>3, CoverKeptCard
  <1>17. QED  BY <1>3, <1>4, <1>15, <1>16, QuietStep

-----------------------------------------------------------------------------
LEMMA InvInit == Init => IInv
  <1> SUFFICES ASSUME Init PROVE IInv
    OBVIOUS
  <1>1. TypeRefs /\ Queued = {}
    BY TypeInit DEF Init, Queued
  <1>2. \A x \in Ino : Entries(x) = {} /\ Subdirs(x) = {} /\ kref[x] = 0
    BY DEF Init, Entries, Subdirs, NoChildren, Ino, NoIno
  <1>3. 0 \in Ino /\ Root \in Ino
    BY ConstantsAssumption DEF Ino, Root
  <1>4. LinksCover(Root) /\ size = 2
    <2>1. Cardinality(Entries(Root)) = 0 /\ Cardinality(Subdirs(Root)) = 0
      BY <1>2, <1>3, FS_EmptySet
    <2>2. nlink[Root] = 3 /\ kind[Root] = "dir" /\ size = 2
      BY <1>3 DEF Init, Root
    <2>3. QED  BY <2>1, <2>2 DEF LinksCover, IsDir
  <1>5. LinksCoverEntries
    BY <1>4 DEF LinksCoverEntries, Root
  <1>6. \A j, k \in DOMAIN deleted : deleted[j] = deleted[k] => j = k
    BY DEF Init
  <1>7. QED
    BY <1>1, <1>2, <1>3, <1>5, <1>6 DEF IInv, TypeRefs, Unreached, Named

LEMMA InvStep == ~ DirsMove /\ IInv /\ [Next]_vars => IInv'
  <1> SUFFICES ASSUME ~ DirsMove, IInv, [Next]_vars PROVE IInv'
    OBVIOUS
  <1>0. TypeRefs /\ TypeRefs' /\ TypeOK /\ \E r : r = NewIno
    BY TypeStep DEF IInv, TypeRefs
  <1>1. PICK r : r = NewIno
    BY <1>0
  <1>leaf. ASSUME NEW p \in Ino, NEW n \in Names, NEW k \in Kinds, k # "dir",
                  MakeLeaf(p, n, k)
           PROVE  IInv'
    <2>1. /\ CanAdd(p, n) /\ RegisterINode(k) /\ Enter(p, n)
          /\ nlink' = [nlink EXCEPT ![r] = 1]
      BY <1>1, <1>leaf DEF MakeLeaf
    <2>2. r \in Ino /\ p # r
      BY <1>0, <1>1, <2>1, NewInoType, EnterEntries DEF RegisterINode
    <2>3. /\ nlink'[r] = 1
          /\ \A x \in Ino : x # r => nlink'[x] = nlink[x]
      BY <1>0, <2>1, <2>2 DEF TypeOK
    <2>4. QED  BY <1>0, <1>1, <1>leaf, <2>1, <2>2, <2>3, RegisterStep
  <1>quiet. ASSUME UNCHANGED vars PROVE IInv'
    <2>1. UNCHANGED <<size, kind, nlink, children, deleted, kref, dead>>
      BY <1>quiet DEF vars
    <2>2. LinksCoverEntries'
      BY <2>1 DEF IInv, LinksCoverEntries, LinksCover, IsDir, Entries, Named, Subdirs
    <2>3. \A x : ~ Named(x) => ~ Named(x)'
      BY <2>1 DEF Named, Entries
    <2>4. QED  BY <1>0, <2>1, <2>2, <2>3, QuietStep
  <1>2. CASE \E i \in Ino : FuseGetAttr(i)
    BY <1>2, <1>quiet DEF FuseGetAttr
  <1>3. ASSUME NEW p \in Ino, NEW n \in Names, FuseMkdir(p, n) PROVE IInv'
    <2>1. /\ CanAdd(p, n) /\ RegisterINode("dir") /\ Enter(p, n) /\ "dir" \in Kinds
          /\ nlink' = [nlink EXCEPT ![r] = 2, ![p] = @ + 1]
      BY <1>1, <1>3 DEF FuseMkdir, Kinds
    <2>2. r \in Ino /\ p # r
      BY <1>0, <1>1, <2>1, NewInoType, EnterEntries DEF RegisterINode
    <2>3. /\ nlink'[r] >= 2 /\ nlink'[p] = nlink[p] + 1
          /\ \A x \in Ino : x \notin {p, r} => nlink'[x] = nlink[x]
      BY <1>0, <2>1, <2>2 DEF TypeOK
    <2>4. QED  BY <1>0, <1>1, <2>1, <2>2, <2>3, RegisterStep
  <1>4. CASE UNCHANGED vars
    BY <1>4, <1>quiet
  <1>5. ASSUME NEW p \in Ino, NEW n \in Names,
               FuseCreate(p, n) \/ FuseMknod(p, n) \/ FuseSymlink(p, n)
        PROVE  IInv'
    BY <1>5, <1>leaf DEF FuseCreate, FuseMknod, FuseSymlink, Kinds
  <1>6. QED
    BY <1>0, <1>2, <1>3, <1>4, <1>5, ForgetStep, LookupStep, UnlinkStep, RmdirStep,
       LinkStep, RenameStep DEF Next

LEMMA InvSafe == IInv => ReclaimSafe
  BY Reach DEF IInv, ReclaimSafe

\* Where the kernel moves no directory to another parent, a number in
\* DeletedINodes is waiting there once, has no name and no reference left: the
\* file FuseCreate gives it to is the only one that has it.
THEOREM ReclaimSafety ==
    ASSUME ~ DirsMove
    PROVE  Spec => []ReclaimSafe
  <1>1. Init => IInv
    BY InvInit
  <1>2. IInv /\ [Next]_vars => IInv'
    BY InvStep
  <1>3. IInv => ReclaimSafe
    BY InvSafe
  <1>4. QED  BY <1>1, <1>2, <1>3, PTL DEF Spec

\* Under the same condition st_nlink never falls below the names it stands for.
THEOREM LinksCoverSafety ==
    ASSUME ~ DirsMove
    PROVE  Spec => []LinksCoverEntries
  <1>1. Init => IInv
    BY InvInit
  <1>2. IInv /\ [Next]_vars => IInv'
    BY InvStep
  <1>3. IInv => LinksCoverEntries
    BY DEF IInv
  <1>4. QED  BY <1>1, <1>2, <1>3, PTL DEF Spec
-----------------------------------------------------------------------------
(* Exact links, and what statfs counts: IInv says how few the links can    *)
(* be, AInv how many.                                                      *)

LEMMA LinksOfKept ==
    ASSUME NEW x \in Ino, kind'[x] = kind[x],
           Cardinality(Entries(x)') = Cardinality(Entries(x)),
           Cardinality(Subdirs(x)') = Cardinality(Subdirs(x)),
           Named(x)' <=> Named(x)
    PROVE  LinksOf(x)' = LinksOf(x)
  <1>1. IsDir(x)' <=> IsDir(x)
    BY DEF IsDir
  <1>2. QED  BY <1>1 DEF LinksOf

LEMMA TooManyKept ==
    ASSUME NEW x \in Ino, TypeOK, TooMany(x), kind'[x] = kind[x], nlink'[x] = nlink[x],
           Cardinality(Entries(x)') <= Cardinality(Entries(x))
    PROVE  TooMany(x)'
  <1>1. IsDir(x)' <=> IsDir(x)
    BY DEF IsDir
  <1>2. nlink[x] \in Int
    BY DEF TypeOK
  <1>3. QED  BY <1>1, <1>2, EntriesFinite DEF TooMany

\* What nothing refers to and no rename has spoiled waits, and has no link; what
\* is spoiled does not wait.
LEMMA Apart ==
    ASSUME AInv
    PROVE  /\ spoiled \cap Queued = {}
           /\ \A x \in 1 .. size - 1 : x \in Ino
           /\ \A x \in spoiled : x \in Ino /\ x \in 1 .. size - 1
  <1>1. \A x \in 1 .. size - 1 : x \in Ino
    BY InTable DEF AInv, IInv
  <1>2. ASSUME NEW x \in spoiled, x \in Queued PROVE FALSE
    <2>1. x \in Ino /\ nlink[x] = 0 /\ TooMany(x)
      BY <1>1, <1>2 DEF AInv, IInv
    <2>2. QED  BY <2>1, EntriesFinite DEF TooMany
  <1>3. QED  BY <1>1, <1>2 DEF AInv

\* Steps of the reference counts alone.
LEMMA AccountRefs ==
    ASSUME AInv, IInv', UNCHANGED <<size, kind, nlink, children, usedINodes, spoiled>>,
           Queued \subseteq Queued',
           \A x \in 1 .. size - 1 : Known(x) =>
               Known(x)' \/ Named(x)' \/ x \in spoiled' \cup Queued'
    PROVE  AInv'
  <1>1. \A x : /\ Entries(x)' = Entries(x) /\ Subdirs(x)' = Subdirs(x)
               /\ (Named(x)' <=> Named(x)) /\ (IsDir(x)' <=> IsDir(x))
    BY DEF Entries, Subdirs, Named, IsDir
  <1>2. LinksExact'
    BY <1>1 DEF AInv, LinksExact, LinksOf
  <1>3. (\A x \in spoiled : x \in 1 .. size - 1 /\ TooMany(x))'
    BY <1>1 DEF AInv, TooMany
  <1>4. (\A x \in 1 .. size - 1 : Known(x) \/ Named(x) \/ x \in spoiled \cup Queued)'
    BY <1>1 DEF AInv
  <1>5. (\A x \in Ino : ~ IsDir(x) => children[x] = NoChildren)'
    BY <1>1 DEF AInv
  <1>6. (\A x \in Ino : x >= size => ~ IsDir(x))' /\ (usedINodes = size)'
    BY <1>1 DEF AInv
  <1>7. QED  BY <1>2, <1>3, <1>4, <1>5, <1>6 DEF AInv

LEMMA ForgetAccount ==
    ASSUME AInv, IInv', NEW i \in Ino, NEW n \in 1 .. MaxLookups, FuseForget(i, n)
    PROVE  AInv'
  <1>1. /\ UNCHANGED <<size, kind, nlink, children, usedINodes, spoiled>>
        /\ kref' = [kref EXCEPT ![i] = @ - n]
        /\ i # Root /\ n \in 1 .. kref[i] /\ nlookup = kref
        /\ deleted \in Seq(Ino)
    BY DEF FuseForget, CanForget, AInv, IInv, TypeOK, KernelRefs
  <1>2. /\ Queued \subseteq Queued'
        /\ nlookup[i] = n /\ nlink[i] = 0 => i \in Queued'
    <2>1. CASE nlookup[i] = n /\ nlink[i] = 0
      <3>1. deleted' = Append(deleted, i)
        BY <2>1, Zenon DEF FuseForget
      <3>2. QED  BY <1>1, <3>1 DEF Queued
    <2>2. CASE ~ (nlookup[i] = n /\ nlink[i] = 0)
      <3>1. deleted' = deleted
        BY <2>2, Zenon DEF FuseForget
      <3>2. QED  BY <2>2, <3>1 DEF Queued
    <2>3. QED  BY <2>1, <2>2
  <1>3. \A x : Named(x)' <=> Named(x)
    BY <1>1 DEF Named, Entries
  <1>4. \A x \in 1 .. size - 1 : Known(x) =>
            Known(x)' \/ Named(x)' \/ x \in spoiled' \cup Queued'
    <2> SUFFICES ASSUME NEW x \in 1 .. size - 1, Known(x),
                        ~ Known(x)', ~ Named(x)', x \notin spoiled'
                 PROVE  x \in Queued'
      OBVIOUS
    <2>1. x \in Ino /\ kref \in [Ino -> Nat]
      BY InTable DEF AInv, IInv, TypeOK
    <2>2. x = i /\ kref[i] = n
      BY <1>1, <2>1 DEF Known
    <2>3. nlink[i] = LinksOf(i) /\ ~ Named(i) /\ i # Root
      BY <1>1, <1>3, <2>2 DEF AInv, LinksExact
    <2>4. Cardinality(Entries(i)) = 0
      BY <2>3, FS_EmptySet DEF Named
    <2>5. nlink[i] = 0
      BY <2>3, <2>4 DEF LinksOf
    <2>6. QED  BY <1>1, <1>2, <2>2, <2>5
  <1>5. QED  BY <1>1, <1>2, <1>4, AccountRefs

LEMMA LookupAccount ==
    ASSUME AInv, IInv', NEW p \in Ino, NEW n \in Names, FuseLookup(p, n)
    PROVE  AInv'
  <1>1. PICK i : i = children[p][n]
    OBVIOUS
  <1>2. /\ UNCHANGED <<size, kind, nlink, children, usedINodes, spoiled, deleted>>
        /\ kref' = [kref EXCEPT ![i] = @ + 1]
        /\ kref \in [Ino -> Nat]
    BY <1>1 DEF FuseLookup, AInv, IInv, TypeOK
  <1>3. \A x \in 1 .. size - 1 : Known(x) => Known(x)'
    BY <1>2, InTable DEF Known, AInv, IInv
  <1>4. Queued' = Queued
    BY <1>2 DEF Queued
  <1>5. QED  BY <1>2, <1>3, <1>4, AccountRefs

\* The new i-node's entry is all that the names in the table gain.
LEMMA EnterExact ==
    ASSUME AInv, NEW k \in Kinds, RegisterINode(k), NEW p \in Ino, NEW n \in Names,
           CanAdd(p, n), Enter(p, n), NEW r, r = NewIno
    PROVE  /\ Entries(r)' = {<<p, n>>}
           /\ \A x \in Ino : x # r => Entries(x)' = Entries(x)
           /\ \A x \in Ino : x \notin {p, r} => Subdirs(x)' = Subdirs(x)
           /\ k = "dir" => n \notin Subdirs(p) /\ Subdirs(p)' = Subdirs(p) \cup {n}
           /\ k # "dir" => Subdirs(p)' = Subdirs(p)
  <1> USE DEF AInv
  <1>1. /\ r \in Ino /\ p # r /\ children'[r] = NoChildren /\ children'[p][n] = r
        /\ \A x \in Ino : x \notin {p, r} => children'[x] = children[x]
        /\ kind' = [kind EXCEPT ![r] = k] /\ kind \in [Ino -> Kinds]
    <2>1. r \in Ino
      BY NewInoType DEF RegisterINode, IInv
    <2>2. kind' = [kind EXCEPT ![r] = k] /\ kind \in [Ino -> Kinds]
      BY DEF RegisterINode, IInv, TypeOK
    <2>3. QED  BY <2>1, <2>2, EnterEntries
  <1>2. children[r] = NoChildren
    <2>1. CASE r \in Queued
      <3>1. r \in 2 .. size - 1 /\ nlink[r] = 0 /\ ~ Named(r)
        BY <2>1, Reach DEF IInv
      <3>2. LinksCover(r) /\ size \in Nat /\ r # Root
        BY <3>1, ConstantsAssumption DEF IInv, LinksCoverEntries, TypeOK, Root
      <3>3. QED  BY <1>1, <3>1, <3>2, EntriesFinite DEF LinksCover
    <2>2. CASE r = size
      BY <1>1, <2>2, ConstantsAssumption DEF IInv, TypeOK, Ino
    <2>3. r \in Queued \/ r = size
      <3>1. CASE Reclaims
        <4>1. deleted \in Seq(Ino) /\ deleted # <<>>
          BY <3>1 DEF Reclaims, IInv, TypeOK
        <4>2. r = deleted[1] /\ 1 \in DOMAIN deleted
          BY <3>1, <4>1 DEF NewIno
        <4>3. QED  BY <4>2 DEF Queued
      <3>2. CASE ~ Reclaims
        BY <3>2 DEF NewIno
      <3>3. QED  BY <3>1, <3>2
    <2>4. QED  BY <2>1, <2>2, <2>3
  <1>3. \A m \in Names : m # n => children'[p][m] = children[p][m]
    <2> DEFINE f == [children EXCEPT ![r] = NoChildren]
    <2>1. children' = [f EXCEPT ![p] = [@ EXCEPT ![n] = r]]
      BY DEF Enter
    <2>2. f \in [Ino -> [Names -> Ino \cup {NoIno}]] /\ f[p] = children[p]
      BY <1>1 DEF IInv, TypeOK, NoChildren
    <2> HIDE DEF f
    <2>3. QED  BY <1>1, <2>1, <2>2
  <1>4. children[p][n] = NoIno /\ \A x \in Ino : x # NoIno
    BY DEF CanAdd, Ino, NoIno
  <1>5. \A d \in Ino, m \in Names : <<d, m>> # <<p, n>> => children'[d][m] = children[d][m]
    BY <1>1, <1>2, <1>3
  <1>6. \A x \in Ino : x # r => Entries(x)' = Entries(x)
    <2> SUFFICES ASSUME NEW x \in Ino, x # r, NEW d \in Ino, NEW m \in Names
                 PROVE  children'[d][m] = x <=> children[d][m] = x
      BY DEF Entries
    <2>1. QED  BY <1>1, <1>4, <1>5
  <1>7. ~ Named(r)
    BY Fresh DEF Unreached
  <1>8. \A d \in Ino, m \in Names : children[d][m] # r
    <2> SUFFICES ASSUME NEW d \in Ino, NEW m \in Names, children[d][m] = r
                 PROVE  FALSE
      OBVIOUS
    <2>1. <<d, m>> \in Entries(r)
      BY DEF Entries
    <2>2. QED  BY <1>7, <2>1 DEF Named
  <1>9. Entries(r)' = {<<p, n>>}
    <2>1. <<p, n>> \in Entries(r)'
      BY <1>1 DEF Entries
    <2>2. QED  BY <2>1, EnterEntries
  <1>10. \A c \in Ino : c # r => (IsDir(c)' <=> IsDir(c))
    BY <1>1 DEF IsDir
  <1>11. \A x \in Ino, m \in Names : <<x, m>> # <<p, n>> =>
             (m \in Subdirs(x)' <=> m \in Subdirs(x))
    BY <1>5, <1>8, <1>10 DEF Subdirs
  <1>12. \A x : Subdirs(x)' \subseteq Names /\ Subdirs(x) \subseteq Names
    BY DEF Subdirs
  <1>13. n \notin Subdirs(p) /\ (n \in Subdirs(p)' <=> k = "dir")
    <2>1. IsDir(r)' <=> k = "dir"
      BY <1>1 DEF IsDir
    <2>2. QED  BY <1>1, <1>4, <2>1 DEF Subdirs
  <1>14. \A x \in Ino : x \notin {p, r} => Subdirs(x)' = Subdirs(x)
    BY <1>11, <1>12
  <1>15. \A m : m # n => (m \in Subdirs(p)' <=> m \in Subdirs(p))
    BY <1>11, <1>12
  <1>16. QED  BY <1>6, <1>9, <1>13, <1>14, <1>15

LEMMA RegisterAccount ==
    ASSUME AInv, IInv', NEW k \in Kinds, NEW p \in Ino, NEW n \in Names,
           CanAdd(p, n), RegisterINode(k), Enter(p, n), NEW r, r = NewIno,
           \A x \in Ino : x \notin {p, r} => nlink'[x] = nlink[x],
           k # "dir" => nlink'[r] = 1 /\ nlink'[p] = nlink[p],
           k = "dir" => nlink'[r] = 2 /\ nlink'[p] = nlink[p] + 1
    PROVE  AInv'
  <1> USE DEF AInv
  <1>1. /\ r \in Ino /\ r \in 2 .. size' - 1 /\ p # r
        /\ kind' = [kind EXCEPT ![r] = k] /\ kind \in [Ino -> Kinds]
        /\ kref' = [kref EXCEPT ![r] = 1] /\ kref \in [Ino -> Nat]
        /\ nlink \in [Ino -> Int] /\ nlink' \in [Ino -> Int]
        /\ spoiled' = spoiled /\ size \in Int /\ size' \in Int /\ size' >= size
    <2>1. r \in Ino
      BY NewInoType DEF RegisterINode, IInv
    <2>2. r \in 2 .. size' - 1 /\ size' >= size
      BY Fresh
    <2>3. p # r
      BY EnterEntries
    <2>4. /\ kind' = [kind EXCEPT ![r] = k] /\ kref' = [kref EXCEPT ![r] = 1]
          /\ spoiled' = spoiled
      BY DEF RegisterINode
    <2>5. /\ kind \in [Ino -> Kinds] /\ kref \in [Ino -> Nat]
          /\ nlink \in [Ino -> Int] /\ nlink' \in [Ino -> Int]
      BY DEF IInv, TypeOK
    <2>6. size \in Int /\ size' \in Int
      BY ConstantsAssumption DEF IInv, TypeOK
    <2>7. QED  BY <2>1, <2>2, <2>3, <2>4, <2>5, <2>6
  <1>2. p \in 1 .. size - 1 /\ IsDir(p) /\ p \notin dead
    BY Reach DEF CanAdd
  <1>3. r \notin spoiled
    <2>1. CASE r \in Queued
      BY <2>1, Apart
    <2>2. CASE r = size
      <3>1. size \in Int
        BY ConstantsAssumption DEF IInv, TypeOK
      <3>2. QED  BY <2>2, <3>1
    <2>3. r \in Queued \/ r = size
      <3>1. CASE Reclaims
        <4>1. deleted \in Seq(Ino) /\ deleted # <<>>
          BY <3>1 DEF Reclaims, IInv, TypeOK
        <4>2. r = deleted[1] /\ 1 \in DOMAIN deleted
          BY <3>1, <4>1 DEF NewIno
        <4>3. QED  BY <4>2 DEF Queued
      <3>2. CASE ~ Reclaims
        BY <3>2 DEF NewIno
      <3>3. QED  BY <3>1, <3>2
    <2>4. QED  BY <2>1, <2>2, <2>3
  <1>4. Cardinality(Entries(r)') = 1 /\ Cardinality(Subdirs(r)') = 0
    <2>1. Entries(r)' = {<<p, n>>} /\ Subdirs(r)' = {}
      BY EnterExact, EnterEntries
    <2>2. QED  BY <2>1, FS_Singleton, FS_EmptySet
  <1>5. nlink'[r] = LinksOf(r)'
    <2>1. Named(r)' /\ r # Root
      <3>1. Entries(r)' = {<<p, n>>}
        BY EnterExact
      <3>2. QED  BY <1>1, <3>1 DEF Named, Root
    <2>2. IsDir(r)' <=> k = "dir"
      BY <1>1 DEF IsDir
    <2>3. QED  BY <1>4, <2>1, <2>2 DEF LinksOf
  <1>6. \A x \in Ino : x \notin {p, r} => LinksOf(x)' = LinksOf(x)
    <2> SUFFICES ASSUME NEW x \in Ino, x \notin {p, r} PROVE LinksOf(x)' = LinksOf(x)
      OBVIOUS
    <2>1. /\ kind'[x] = kind[x] /\ Entries(x)' = Entries(x)
          /\ Subdirs(x)' = Subdirs(x)
      BY <1>1, EnterExact
    <2>2. Named(x)' <=> Named(x)
      BY <2>1 DEF Named
    <2>3. QED  BY <2>1, <2>2, LinksOfKept
  <1>7. ASSUME p \notin spoiled PROVE nlink'[p] = LinksOf(p)'
    <2>1. /\ IsDir(p)' /\ Entries(p)' = Entries(p)
          /\ Cardinality(Subdirs(p)') =
               IF k = "dir" THEN Cardinality(Subdirs(p)) + 1 ELSE Cardinality(Subdirs(p))
      <3>1. IsDir(p)' /\ Entries(p)' = Entries(p)
        BY <1>1, <1>2, EnterExact DEF IsDir
      <3>2. CASE k = "dir"
        BY <3>1, <3>2, EnterExact, EntriesFinite, FS_AddElement
      <3>3. CASE k # "dir"
        BY <3>1, <3>3, EnterExact
      <3>4. QED  BY <3>2, <3>3
    <2>2. Named(p)' <=> Named(p)
      BY <2>1 DEF Named
    <2>3. p = Root \/ Named(p)
      <3>1. LinksCover(p) /\ nlink[p] = LinksOf(p)
        BY <1>2, <1>7 DEF IInv, LinksCoverEntries, LinksExact
      <3>2. nlink[p] >= 2 + Cardinality(Subdirs(p))
        BY <1>2, <3>1 DEF LinksCover
      <3>3. nlink[p] # 0
        BY <3>2, EntriesFinite
      <3>4. QED  BY <1>2, <3>1, <3>3 DEF LinksOf
    <2>4. nlink[p] = LinksOf(p)
      BY <1>2, <1>7 DEF LinksExact
    <2>5. QED  BY <1>1, <1>2, <2>1, <2>2, <2>3, <2>4, EntriesFinite DEF LinksOf
  <1>8. LinksExact'
    <2> SUFFICES ASSUME NEW x \in 1 .. size' - 1, x \notin spoiled
                 PROVE  nlink'[x] = LinksOf(x)'
      BY <1>1 DEF LinksExact
    <2>1. CASE x \notin {p, r}
      <3>1. x \in 1 .. size - 1 /\ x \in Ino
        BY <2>1, Fresh, Apart
      <3>2. QED  BY <1>6, <2>1, <3>1 DEF LinksExact
    <2>2. QED  BY <1>5, <1>7, <2>1
  <1>9. \A x \in spoiled : x \in 1 .. size' - 1 /\ TooMany(x)'
    <2> SUFFICES ASSUME NEW x \in spoiled PROVE x \in 1 .. size' - 1 /\ TooMany(x)'
      OBVIOUS
    <2>1. x \in Ino /\ x \in 1 .. size - 1 /\ TooMany(x) /\ x # r
      BY <1>3, Apart
    <2>2. x \in 1 .. size' - 1
      <3>1. \A a, b, c : a \in Int /\ b \in Int /\ b >= a /\ c \in 1 .. a - 1
                => c \in 1 .. b - 1
        OBVIOUS
      <3>2. QED  BY <1>1, <2>1, <3>1
    <2>3. Entries(x)' = Entries(x) /\ kind'[x] = kind[x]
      BY <1>1, <2>1, EnterExact
    <2>4. CASE x = p
      <3>1. nlink[p] >= 2 + Cardinality(Subdirs(p))
        BY <1>2 DEF IInv, LinksCoverEntries, LinksCover
      <3>2. nlink'[p] # 0 /\ IsDir(p)'
        BY <1>1, <1>2, <2>3, <2>4, <3>1, EntriesFinite DEF IsDir
      <3>3. QED  BY <2>2, <2>4, <3>2 DEF TooMany
    <2>5. CASE x # p
      <3>1. nlink'[x] = nlink[x]
        BY <2>1, <2>5
      <3>2. TooMany(x)'
        BY <2>1, <2>3, <3>1, TooManyKept, EntriesFinite DEF IInv
      <3>3. QED  BY <2>2, <3>2
    <2>6. QED  BY <2>4, <2>5
  <1>10. (\A x \in Ino : ~ IsDir(x) => children[x] = NoChildren)'
    <2> SUFFICES ASSUME NEW x \in Ino, ~ IsDir(x)' PROVE children'[x] = NoChildren
      OBVIOUS
    <2>1. CASE x = r
      BY <2>1, EnterEntries
    <2>2. CASE x # r
      <3>1. ~ IsDir(x) /\ x # p
        BY <1>1, <1>2, <2>2 DEF IsDir
      <3>2. QED  BY <2>2, <3>1, EnterEntries
    <2>3. QED  BY <2>1, <2>2
  <1>11. (\A x \in Ino : x >= size => ~ IsDir(x))'
    <2> SUFFICES ASSUME NEW x \in Ino, x >= size' PROVE ~ IsDir(x)'
      OBVIOUS
    <2>1. x >= size /\ x \in Int
      BY Fresh DEF Ino
    <2>2. x # r
      <3>1. \A a, b : a \in Int /\ b \in Int /\ a >= b => a \notin 2 .. b - 1
        OBVIOUS
      <3>2. QED  BY <1>1, <2>1, <3>1
    <2>3. QED  BY <1>1, <2>1, <2>2 DEF IsDir
  <1>12. \A x \in 1 .. size' - 1 : Known(x)' \/ Named(x)' \/ x \in spoiled' \cup Queued'
    <2>0. Named(r)'
      <3>1. Entries(r)' = {<<p, n>>}
        BY EnterExact
      <3>2. QED  BY <3>1 DEF Named
    <2> SUFFICES ASSUME NEW x \in 1 .. size' - 1, x # r
                 PROVE  Known(x)' \/ Named(x)' \/ x \in spoiled' \cup Queued'
      BY <2>0
    <2>1. x \in 1 .. size - 1 /\ x \in Ino
      BY Fresh, Apart
    <2>2. Known(x) => Known(x)'
      BY <1>1, <2>1 DEF Known
    <2>3. Named(x) => Named(x)'
      BY <2>1, EnterExact DEF Named
    <2>4. x \in Queued => x \in Queued'
      <3>1. CASE Reclaims
        <4>1. deleted \in Seq(Ino) /\ deleted # <<>> /\ deleted' = Tail(deleted)
          BY <3>1 DEF Reclaims, IInv, TypeOK, RegisterINode
        <4>2. r = deleted[1]
          BY <3>1, <4>1 DEF NewIno
        <4>3. ASSUME NEW j \in DOMAIN deleted, x = deleted[j] PROVE x \in Queued'
          <5>1. j - 1 \in DOMAIN Tail(deleted) /\ Tail(deleted)[j - 1] = x
            BY <4>1, <4>2, <4>3
          <5>2. QED  BY <4>1, <5>1 DEF Queued
        <4>4. QED  BY <4>3 DEF Queued
      <3>2. CASE ~ Reclaims
        BY <3>2 DEF RegisterINode, Queued
      <3>3. QED  BY <3>1, <3>2
    <2>5. QED  BY <1>1, <2>1, <2>2, <2>3, <2>4
  <1>13. usedINodes' = size'
    <2>1. CASE Reclaims
      BY <2>1 DEF RegisterINode
    <2>2. CASE ~ Reclaims
      BY <2>2 DEF RegisterINode
    <2>3. QED  BY <2>1, <2>2
  <1>14. QED  BY <1>1, <1>8, <1>9, <1>10, <1>11, <1>12, <1>13

\* One entry taken away: what names what afterwards.
LEMMA RemoveExact ==
    ASSUME TypeOK, NEW p \in Ino, NEW n \in Names, NEW c \in Ino, children[p][n] = c,
           children' = [children EXCEPT ![p][n] = NoIno], kind' = kind
    PROVE  /\ <<p, n>> \in Entries(c)
           /\ Entries(c)' = Entries(c) \ {<<p, n>>}
           /\ \A x \in Ino : x # c => Entries(x)' = Entries(x)
           /\ \A x \in Ino : x # p => Subdirs(x)' = Subdirs(x)
           /\ IsDir(c) => n \in Subdirs(p) /\ Subdirs(p)' = Subdirs(p) \ {n}
           /\ ~ IsDir(c) => Subdirs(p)' = Subdirs(p)
  <1>1. /\ children'[p][n] = NoIno
        /\ \A d \in Ino, m \in Names : <<d, m>> # <<p, n>> =>
                children'[d][m] = children[d][m]
    BY DEF TypeOK
  <1>2. \A x \in Ino : x # NoIno
    BY DEF Ino, NoIno
  <1>3. \A x \in Ino, d \in Ino, m \in Names :
            children'[d][m] = x <=> children[d][m] = x /\ <<d, m>> # <<p, n>>
    BY <1>1, <1>2
  <1>4. <<p, n>> \in Entries(c) /\ Entries(c)' = Entries(c) \ {<<p, n>>}
    BY <1>3 DEF Entries
  <1>5. \A x \in Ino : x # c => Entries(x)' = Entries(x)
    <2> SUFFICES ASSUME NEW x \in Ino, x # c PROVE Entries(x)' = Entries(x)
      OBVIOUS
    <2>1. \A d \in Ino, m \in Names : children'[d][m] = x <=> children[d][m] = x
      BY <1>3
    <2>2. QED  BY <2>1 DEF Entries
  <1>6. \A x : IsDir(x)' <=> IsDir(x)
    BY DEF IsDir
  <1>7. \A x \in Ino, m \in Names :
            m \in Subdirs(x)' <=> m \in Subdirs(x) /\ <<x, m>> # <<p, n>>
    BY <1>3, <1>6 DEF Subdirs
  <1>8. \A x : Subdirs(x)' \subseteq Names /\ Subdirs(x) \subseteq Names
    BY DEF Subdirs
  <1>9. \A x \in Ino : x # p => Subdirs(x)' = Subdirs(x)
    BY <1>7, <1>8
  <1>10. Subdirs(p)' = Subdirs(p) \ {n}
    BY <1>7, <1>8
  <1>11. n \in Subdirs(p) <=> IsDir(c)
    BY DEF Subdirs
  <1>12. QED  BY <1>4, <1>5, <1>9, <1>10, <1>11

LEMMA RemoveLeaf ==
    ASSUME TypeOK, NEW p \in Ino, NEW n \in Names, NEW c \in Ino, children[p][n] = c,
           children' = [children EXCEPT ![p][n] = NoIno], kind' = kind, ~ IsDir(c)
    PROVE  /\ <<p, n>> \in Entries(c)
           /\ Entries(c)' = Entries(c) \ {<<p, n>>}
           /\ \A x \in Ino : x # c => Entries(x)' = Entries(x)
           /\ \A x \in Ino : Subdirs(x)' = Subdirs(x)
  <1>1. <<p, n>> \in Entries(c) /\ Entries(c)' = Entries(c) \ {<<p, n>>}
    BY RemoveExact
  <1>2. \A x \in Ino : x # c => Entries(x)' = Entries(x)
    BY RemoveExact, ZenonT(60)
  <1>3. \A x \in Ino : x # p => Subdirs(x)' = Subdirs(x)
    BY RemoveExact
  <1>4. Subdirs(p)' = Subdirs(p)
    BY RemoveExact
  <1>5. QED  BY <1>1, <1>2, <1>3, <1>4

LEMMA UnlinkAccount ==
    ASSUME AInv, IInv', NEW p \in Ino, NEW n \in Names, FuseUnlink(p, n)
    PROVE  AInv'
  <1> USE DEF AInv
  <1>1. PICK c \in Ino :
          /\ c = children[p][n] /\ c \in 1 .. size - 1 /\ Known(c)
          /\ ~ IsDir(c) /\ nlink' = [nlink EXCEPT ![c] = @ - 1]
    BY KnownIno, Reach DEF FuseUnlink, CanRemove
  <1>2. /\ children' = [children EXCEPT ![p][n] = NoIno] /\ TypeOK
        /\ UNCHANGED <<size, kind, deleted, kref, spoiled, usedINodes>>
    BY DEF FuseUnlink, IInv
  <1>3. /\ <<p, n>> \in Entries(c)
        /\ Entries(c)' = Entries(c) \ {<<p, n>>}
        /\ \A x \in Ino : x # c => Entries(x)' = Entries(x)
        /\ \A x \in Ino : Subdirs(x)' = Subdirs(x)
        /\ \A x \in Ino : children[x] = NoChildren => children'[x] = NoChildren
    <2>1. \A x \in Ino : children[x] = NoChildren => children'[x] = NoChildren
      BY <1>2, RemoveEntry
    <2>2. TypeOK /\ kind' = kind /\ children[p][n] = c /\ ~ IsDir(c)
      BY <1>1, <1>2
    <2>3. children' = [children EXCEPT ![p][n] = NoIno]
      BY <1>2
    <2>4. QED  BY <2>1, <2>2, <2>3, RemoveLeaf
  <1>4. Cardinality(Entries(c)') = Cardinality(Entries(c)) - 1
    BY <1>3, EntriesFinite, FS_RemoveElement
  <1>5. /\ nlink'[c] = nlink[c] - 1 /\ nlink[c] \in Int
        /\ \A x \in Ino : x # c => nlink'[x] = nlink[x]
        /\ \A x : (IsDir(x)' <=> IsDir(x)) /\ (Known(x)' <=> Known(x))
    BY <1>1, <1>2 DEF TypeOK, IsDir, Known
  <1>6. \A x \in Ino : x # c => (Named(x)' <=> Named(x))
    BY <1>3 DEF Named
  <1>7. \A x \in Ino : x # c => LinksOf(x)' = LinksOf(x)
    BY <1>2, <1>3, <1>6, LinksOfKept
  <1>8. LinksOf(c)' = LinksOf(c) - 1
    BY <1>1, <1>4, <1>5 DEF LinksOf
  <1>9. LinksExact'
    BY <1>2, <1>5, <1>7, <1>8, Apart DEF LinksExact
  <1>10. (\A x \in spoiled : x \in 1 .. size - 1 /\ TooMany(x))'
    <2> SUFFICES ASSUME NEW x \in spoiled PROVE TooMany(x)'
      BY <1>2
    <2>1. x \in Ino /\ TooMany(x)
      BY Apart
    <2>2. CASE x = c
      BY <1>1, <1>4, <1>5, <2>1, <2>2, EntriesFinite DEF TooMany
    <2>3. CASE x # c
      BY <1>2, <1>3, <1>5, <2>1, <2>3, TooManyKept, EntriesFinite
    <2>4. QED  BY <2>2, <2>3
  <1>11. (\A x \in 1 .. size - 1 : Known(x) \/ Named(x) \/ x \in spoiled \cup Queued)'
    <2>1. Queued' = Queued
      BY <1>2 DEF Queued
    <2>2. QED  BY <1>1, <1>2, <1>5, <1>6, <2>1, Apart
  <1>12. QED  BY <1>2, <1>3, <1>5, <1>9, <1>10, <1>11

LEMMA RmdirAccount ==
    ASSUME AInv, IInv', NEW p \in Ino, NEW n \in Names, FuseRmdir(p, n)
    PROVE  AInv'
  <1> USE DEF AInv
  <1>1. PICK c \in Ino :
          /\ c = children[p][n] /\ c \in 2 .. size - 1 /\ Known(c) /\ IsDir(c)
          /\ children[c] = NoChildren
          /\ nlink' = [nlink EXCEPT ![p] = @ - 1, ![c] = 0]
          /\ spoiled' = spoiled \ {c} /\ dead' = dead \cup {c}
    <2>1. children[p][n] \in Ino /\ children[p][n] # NoIno
      BY KnownIno DEF FuseRmdir, CanRemove, Ino, NoIno
    <2>2. children[p][n] \in 2 .. size - 1
      BY <2>1, Reach
    <2>3. QED  BY <2>1, <2>2 DEF FuseRmdir, CanRemove
  <1>2. /\ children' = [children EXCEPT ![p][n] = NoIno] /\ TypeOK
        /\ UNCHANGED <<size, kind, deleted, kref, usedINodes>>
        /\ IsDir(p) /\ p \notin dead /\ p \in 1 .. size - 1
    BY Reach DEF FuseRmdir, CanRemove, IInv
  <1>3. /\ Entries(c)' = Entries(c) \ {<<p, n>>} /\ <<p, n>> \in Entries(c)
        /\ \A x \in Ino : x # c => Entries(x)' = Entries(x)
        /\ \A x \in Ino : x # p => Subdirs(x)' = Subdirs(x)
        /\ n \in Subdirs(p) /\ Subdirs(p)' = Subdirs(p) \ {n}
        /\ \A x \in Ino : children[x] = NoChildren => children'[x] = NoChildren
    BY <1>1, <1>2, RemoveExact, RemoveEntry
  <1>4. p # c
    BY <1>1, <1>2, ConstantsAssumption DEF NoChildren, NoIno, Ino
  <1>5. /\ nlink'[c] = 0 /\ nlink'[p] = nlink[p] - 1 /\ nlink[p] \in Int
        /\ \A x \in Ino : x \notin {p, c} => nlink'[x] = nlink[x]
        /\ \A x : (IsDir(x)' <=> IsDir(x)) /\ (Known(x)' <=> Known(x))
    BY <1>1, <1>2, <1>4 DEF TypeOK, IsDir, Known
  <1>6. Entries(c)' = {}
    <2>1. Cardinality(Entries(c)) <= 1
      BY <1>1 DEF IInv, LinksCoverEntries, LinksCover
    <2>2. Cardinality(Entries(c)') <= Cardinality(Entries(c)) - 1
      BY <1>3, EntriesFinite, CardRem
    <2>3. Cardinality(Entries(c)') = 0
      BY <2>1, <2>2, EntriesFinite
    <2>4. QED  BY <2>3, EntriesFinite, FS_EmptySet
  <1>7. \A x \in Ino : x # c => (Named(x)' <=> Named(x))
    BY <1>3 DEF Named
  <1>8. LinksOf(c)' = 0
    BY <1>1, <1>5, <1>6 DEF LinksOf, Named, Root
  <1>9. \A x \in Ino : x \notin {p, c} => LinksOf(x)' = LinksOf(x)
    BY <1>2, <1>3, <1>7, LinksOfKept
  <1>10. nlink[p] >= 2 + Cardinality(Subdirs(p)) /\ Cardinality(Subdirs(p)) >= 1
    <2>1. nlink[p] >= 2 + Cardinality(Subdirs(p))
      BY <1>2 DEF IInv, LinksCoverEntries, LinksCover
    <2>2. Cardinality(Subdirs(p)) # 0
      BY <1>3, EntriesFinite, FS_EmptySet
    <2>3. QED  BY <2>1, <2>2, EntriesFinite
  <1>11. ASSUME p \notin spoiled PROVE nlink'[p] = LinksOf(p)'
    <2>1. nlink[p] = LinksOf(p)
      BY <1>2, <1>11 DEF LinksExact
    <2>2. p = Root \/ Named(p)
      BY <1>2, <1>10, <2>1, EntriesFinite DEF LinksOf
    <2>3. Cardinality(Subdirs(p)') = Cardinality(Subdirs(p)) - 1
      BY <1>3, EntriesFinite, FS_RemoveElement
    <2>4. Named(p)' <=> Named(p)
      BY <1>4, <1>7
    <2>5. QED  BY <1>2, <1>5, <2>1, <2>2, <2>3, <2>4, EntriesFinite DEF LinksOf
  <1>12. LinksExact'
    <2> SUFFICES ASSUME NEW x \in 1 .. size - 1, x \notin spoiled'
                 PROVE  nlink'[x] = LinksOf(x)'
      BY <1>2 DEF LinksExact
    <2>1. CASE x \in {p, c}
      BY <1>1, <1>4, <1>5, <1>8, <1>11, <2>1
    <2>2. CASE x \notin {p, c}
      BY <1>1, <1>5, <1>9, <2>2, Apart DEF LinksExact
    <2>3. QED  BY <2>1, <2>2
  <1>13. (\A x \in spoiled : x \in 1 .. size - 1 /\ TooMany(x))'
    <2> SUFFICES ASSUME NEW x \in spoiled, x # c PROVE TooMany(x)'
      BY <1>1, <1>2
    <2>1. x \in Ino /\ TooMany(x)
      BY Apart
    <2>2. CASE x = p
      BY <1>2, <1>5, <1>10, <2>2, EntriesFinite DEF TooMany
    <2>3. CASE x # p
      BY <1>2, <1>3, <1>5, <2>1, <2>3, TooManyKept, EntriesFinite
    <2>4. QED  BY <2>2, <2>3
  <1>14. (\A x \in 1 .. size - 1 : Known(x) \/ Named(x) \/ x \in spoiled \cup Queued)'
    <2>1. Queued' = Queued
      BY <1>2 DEF Queued
    <2>2. QED  BY <1>1, <1>2, <1>5, <1>7, <2>1, Apart
  <1>15. QED  BY <1>2, <1>3, <1>5, <1>12, <1>13, <1>14

LEMMA LinkAccount ==
    ASSUME AInv, IInv', NEW i \in Ino, NEW q \in Ino, NEW m \in Names,
           FuseLink(i, q, m)
    PROVE  AInv'
  <1> USE DEF AInv
  <1>1. /\ i \in 1 .. size - 1 /\ ~ IsDir(i) /\ IsDir(q) /\ children[q][m] = NoIno
        /\ nlink' = [nlink EXCEPT ![i] = @ + 1]
        /\ kref' = [kref EXCEPT ![i] = @ + 1]
        /\ children' = [children EXCEPT ![q][m] = i] /\ TypeOK
        /\ UNCHANGED <<size, kind, deleted, spoiled, usedINodes>>
    BY Reach DEF FuseLink, CanAdd, IInv
  <1>2. /\ children'[q][m] = i
        /\ \A d \in Ino, n \in Names : <<d, n>> # <<q, m>> =>
                children'[d][n] = children[d][n]
        /\ \A x \in Ino : x # q => children'[x] = children[x]
    BY <1>1 DEF TypeOK
  <1>3. /\ nlink'[i] = nlink[i] + 1 /\ nlink[i] \in Int
        /\ \A x \in Ino : x # i => nlink'[x] = nlink[x]
        /\ \A x : IsDir(x)' <=> IsDir(x)
        /\ \A x \in Ino : Known(x) => Known(x)'
    BY <1>1 DEF TypeOK, IsDir, Known
  <1>4. \A x \in Ino : x # NoIno
    BY DEF Ino, NoIno
  <1>5. \A x \in Ino : x # i => Entries(x)' = Entries(x)
    <2> SUFFICES ASSUME NEW x \in Ino, x # i PROVE Entries(x)' = Entries(x)
      OBVIOUS
    <2>1. \A d \in Ino, n \in Names : children'[d][n] = x <=> children[d][n] = x
      BY <1>1, <1>2, <1>4
    <2>2. QED  BY <2>1 DEF Entries
  <1>6. <<q, m>> \notin Entries(i) /\ Entries(i)' = Entries(i) \cup {<<q, m>>}
    <2>1. \A d \in Ino, n \in Names :
              children'[d][n] = i <=> children[d][n] = i \/ <<d, n>> = <<q, m>>
      BY <1>2
    <2>2. QED  BY <1>1, <1>4, <2>1 DEF Entries
  <1>7. Cardinality(Entries(i)') = Cardinality(Entries(i)) + 1
    BY <1>6, EntriesFinite, FS_AddElement
  <1>8. \A x \in Ino : Subdirs(x)' = Subdirs(x)
    <2> SUFFICES ASSUME NEW x \in Ino PROVE Subdirs(x)' = Subdirs(x)
      OBVIOUS
    <2>1. \A c \in Ino, n \in Names : IsDir(c) =>
              (children'[x][n] = c <=> children[x][n] = c)
      BY <1>1, <1>2, <1>4
    <2>2. QED  BY <1>3, <2>1 DEF Subdirs
  <1>9. \A x \in Ino : x # i => (Named(x)' <=> Named(x))
    BY <1>5 DEF Named
  <1>10. Named(i)'
    BY <1>6 DEF Named
  <1>11. LinksExact'
    <2> SUFFICES ASSUME NEW x \in 1 .. size - 1, x \notin spoiled
                 PROVE  nlink'[x] = LinksOf(x)'
      BY <1>1 DEF LinksExact
    <2>1. x \in Ino /\ nlink[x] = LinksOf(x)
      BY Apart DEF LinksExact
    <2>2. CASE x = i
      BY <1>1, <1>3, <1>7, <2>1, <2>2, EntriesFinite DEF LinksOf
    <2>3. CASE x # i
      BY <1>1, <1>3, <1>5, <1>8, <1>9, <2>1, <2>3, LinksOfKept
    <2>4. QED  BY <2>2, <2>3
  <1>12. (\A x \in spoiled : x \in 1 .. size - 1 /\ TooMany(x))'
    <2> SUFFICES ASSUME NEW x \in spoiled PROVE TooMany(x)'
      BY <1>1
    <2>1. x \in Ino /\ TooMany(x)
      BY Apart
    <2>2. CASE x = i
      BY <1>1, <1>3, <1>7, <2>1, <2>2, EntriesFinite DEF TooMany
    <2>3. CASE x # i
      BY <1>1, <1>3, <1>5, <2>1, <2>3, TooManyKept, EntriesFinite
    <2>4. QED  BY <2>2, <2>3
  <1>13. (\A x \in 1 .. size - 1 : Known(x) \/ Named(x) \/ x \in spoiled \cup Queued)'
    <2>1. Queued' = Queued
      BY <1>1 DEF Queued
    <2>2. QED  BY <1>1, <1>3, <1>9, <1>10, <2>1, Apart
  <1>14. (\A x \in Ino : ~ IsDir(x) => children[x] = NoChildren)'
    BY <1>1, <1>2, <1>3
  <1>15. QED  BY <1>1, <1>3, <1>11, <1>12, <1>13, <1>14

LEMMA CardSwapped ==
    ASSUME NEW S, IsFiniteSet(S), NEW e \in S, NEW g, g \notin S, NEW T,
           T = (S \ {e}) \cup {g}
    PROVE  Cardinality(T) = Cardinality(S)
  <1>1. /\ IsFiniteSet(S \ {e}) /\ Cardinality(S) \in Nat
        /\ Cardinality(S \ {e}) = Cardinality(S) - 1
    BY FS_RemoveElement, FS_CardinalityType
  <1>2. Cardinality(T) = Cardinality(S \ {e}) + 1
    BY <1>1, FS_AddElement
  <1>3. QED  BY <1>1, <1>2

\* The links of the parents of a renamed directory come out even; what lost its
\* name, and the parent of a directory that did, are spoiled.
LEMMA RenameAccount ==
    ASSUME AInv, IInv', ~ DirsMove,
           NEW p \in Ino, NEW n \in Names, NEW q \in Ino, NEW m \in Names,
           FuseRename(p, n, q, m)
    PROVE  AInv'
  <1> USE DEF AInv
  <1>1. PICK i \in Ino : /\ i = children[p][n] /\ i # NoIno /\ Known(i)
                         /\ i \in 1 .. size - 1
    <2>1. children[p][n] \in Ino /\ Known(children[p][n])
      BY KnownIno DEF FuseRename, CanRename, CanRemove
    <2>2. children[p][n] # NoIno
      BY <2>1 DEF Ino, NoIno
    <2>3. QED  BY <2>1, <2>2, Reach
  <1>2. PICK j : j = children[q][m]
    OBVIOUS
  <1>3. /\ IsDir(p) /\ IsDir(q) /\ (IsDir(i) => p = q)
        /\ \/ j = NoIno
           \/ j # NoIno /\ Known(j) /\ j # i /\ (IsDir(i) <=> IsDir(j))
    BY <1>1, <1>2, Zenon DEF FuseRename, CanRename, CanRemove, CanReplace
  <1>4. /\ children' = [children EXCEPT ![q][m] = i, ![p][n] = NoIno] /\ TypeOK
        /\ UNCHANGED <<size, kind, deleted, kref, usedINodes>>
        /\ spoiled' = spoiled \cup (IF j = NoIno THEN {}
                                    ELSE IF IsDir(j) THEN {j, q} ELSE {j})
    BY <1>1, <1>2 DEF FuseRename, IInv
  <1>5. nlink' = nlink
    <2>1. \/ nlink' = nlink
          \/ p = q /\ nlink' = [[nlink EXCEPT ![p] = @ - 1] EXCEPT ![q] = @ + 1]
      BY <1>2, <1>3, Zenon DEF FuseRename
    <2> DEFINE g == [nlink EXCEPT ![p] = @ - 1]
    <2>2. /\ nlink \in [Ino -> Int] /\ g \in [Ino -> Int] /\ g[p] = nlink[p] - 1
          /\ \A x \in Ino : x # p => g[x] = nlink[x]
      BY <1>4 DEF TypeOK
    <2>3. nlink' = nlink \/ nlink' = [g EXCEPT ![p] = @ + 1]
      BY <2>1
    <2> HIDE DEF g
    <2>4. ASSUME nlink' = [g EXCEPT ![p] = @ + 1] PROVE nlink' = nlink
      <3>1. nlink' \in [Ino -> Int] /\ \A x \in Ino : nlink'[x] = nlink[x]
        BY <2>2, <2>4
      <3>2. QED  BY <2>2, <3>1
    <2>5. QED  BY <2>3, <2>4
  <1>6. <<p, n>> # <<q, m>>
    <2>1. j # i
      BY <1>1, <1>3
    <2>2. QED  BY <1>1, <1>2, <2>1
  <1> DEFINE f == [children EXCEPT ![q] = [@ EXCEPT ![m] = i]]
  <1>7. /\ f \in [Ino -> [Names -> Ino \cup {NoIno}]]
        /\ f[q][m] = i
        /\ \A x \in Names : x # m => f[q][x] = children[q][x]
        /\ \A d \in Ino : d # q => f[d] = children[d]
    BY <1>4 DEF TypeOK
  <1>8. children' = [f EXCEPT ![p] = [@ EXCEPT ![n] = NoIno]]
    BY <1>4
  <1> HIDE DEF f
  <1>9. /\ children'[p][n] = NoIno
        /\ \A d \in Ino, x \in Names : <<d, x>> \notin {<<p, n>>, <<q, m>>} =>
                children'[d][x] = children[d][x]
        /\ children'[q][m] = i
        /\ \A d \in Ino : d \notin {p, q} => children'[d] = children[d]
    BY <1>6, <1>7, <1>8
  <1>10. \A x \in Ino : x # NoIno
    BY DEF Ino, NoIno
  <1>11. \A x : IsDir(x)' <=> IsDir(x)
    BY <1>4 DEF IsDir
  <1>12. \A x \in Ino : x \notin {i, j} => Entries(x)' = Entries(x)
    <2> SUFFICES ASSUME NEW x \in Ino, x \notin {i, j} PROVE Entries(x)' = Entries(x)
      OBVIOUS
    <2>1. \A d \in Ino, e \in Names : children'[d][e] = x <=> children[d][e] = x
      BY <1>1, <1>2, <1>9, <1>10
    <2>2. QED  BY <2>1 DEF Entries
  <1>13. /\ Entries(i)' = (Entries(i) \ {<<p, n>>}) \cup {<<q, m>>}
         /\ <<p, n>> \in Entries(i) /\ <<q, m>> \notin Entries(i)
    <2>1. j # i
      BY <1>1, <1>3
    <2>2. \A d \in Ino, e \in Names : children'[d][e] = i <=>
              (children[d][e] = i /\ <<d, e>> # <<p, n>>) \/ <<d, e>> = <<q, m>>
      BY <1>1, <1>2, <1>9, <1>10
    <2>3. <<p, n>> \in Entries(i) /\ <<q, m>> \notin Entries(i)
      BY <1>1, <1>2, <2>1 DEF Entries
    <2>4. QED  BY <2>2, <2>3 DEF Entries
  <1>14. j # NoIno => /\ j \in Ino /\ <<q, m>> \in Entries(j)
                      /\ Entries(j)' = Entries(j) \ {<<q, m>>}
    <2> SUFFICES ASSUME j # NoIno
                 PROVE  /\ j \in Ino /\ <<q, m>> \in Entries(j)
                        /\ Entries(j)' = Entries(j) \ {<<q, m>>}
      OBVIOUS
    <2>1. j \in Ino /\ j # i
      BY <1>3, KnownIno
    <2>2. \A d \in Ino, e \in Names : children'[d][e] = j <=>
              children[d][e] = j /\ <<d, e>> # <<q, m>>
      BY <1>1, <1>2, <1>9, <1>10, <2>1
    <2>3. QED  BY <1>2, <2>1, <2>2 DEF Entries
  <1>15. Cardinality(Entries(i)') = Cardinality(Entries(i))
    BY <1>13, EntriesFinite, CardSwapped
  <1>16. \A x \in Ino, e \in Names : <<x, e>> \notin {<<p, n>>, <<q, m>>} =>
             (e \in Subdirs(x)' <=> e \in Subdirs(x))
    BY <1>9, <1>11 DEF Subdirs
  <1>17. \A x : Subdirs(x)' \subseteq Names /\ Subdirs(x) \subseteq Names
    BY DEF Subdirs
  <1>18. /\ (n \in Subdirs(p)' <=> FALSE) /\ (n \in Subdirs(p) <=> IsDir(i))
         /\ (m \in Subdirs(q)' <=> IsDir(i)) /\ (m \in Subdirs(q) <=> j # NoIno /\ IsDir(j))
    <2>1. ~ (n \in Subdirs(p)') /\ (n \in Subdirs(p) <=> IsDir(i))
      BY <1>1, <1>9, <1>10 DEF Subdirs
    <2>2. m \in Subdirs(q)' <=> IsDir(i)
      BY <1>9, <1>11 DEF Subdirs
    <2>3. m \in Subdirs(q) <=> j # NoIno /\ IsDir(j)
      BY <1>2, <1>10, <1>14 DEF Subdirs
    <2>4. QED  BY <2>1, <2>2, <2>3
  <1>19. ASSUME NEW x \in Ino, x = q => j = NoIno \/ ~ IsDir(j)
         PROVE  Cardinality(Subdirs(x)') = Cardinality(Subdirs(x))
    <2>1. CASE ~ IsDir(i)
      <3>1. ~ (j # NoIno /\ IsDir(j))
        BY <1>3, <2>1
      <3>2. \A e \in Names : e \in Subdirs(x)' <=> e \in Subdirs(x)
        BY <1>16, <1>18, <2>1, <3>1
      <3>3. Subdirs(x)' = Subdirs(x)
        BY <1>17, <3>2
      <3>4. QED  BY <3>3
    <2>2. CASE IsDir(i) /\ x # q
      <3>1. \A e \in Names : e \in Subdirs(x)' <=> e \in Subdirs(x)
        BY <1>3, <1>16, <2>2
      <3>2. Subdirs(x)' = Subdirs(x)
        BY <1>17, <3>1
      <3>3. QED  BY <3>2
    <2>3. CASE IsDir(i) /\ x = q
      <3>1. /\ p = q /\ n # m
            /\ n \in Subdirs(x) /\ m \notin Subdirs(x)
            /\ n \notin Subdirs(x)' /\ m \in Subdirs(x)'
        BY <1>3, <1>6, <1>18, <1>19, <2>3
      <3>2. \A e \in Names : e \notin {n, m} => (e \in Subdirs(x)' <=> e \in Subdirs(x))
        BY <1>16, <2>3, <3>1
      <3>3. Subdirs(x)' = (Subdirs(x) \ {n}) \cup {m}
        BY <1>17, <3>1, <3>2
      <3>4. QED  BY <3>1, <3>3, EntriesFinite, CardSwapped
    <2>4. QED  BY <2>1, <2>2, <2>3
  <1>20. \A x \in Ino : x # j => (Named(x)' <=> Named(x))
    <2>1. Named(i) /\ Named(i)'
      BY <1>13 DEF Named
    <2>2. \A x \in Ino : x \notin {i, j} => (Named(x)' <=> Named(x))
      BY <1>12 DEF Named
    <2>3. QED  BY <2>1, <2>2
  <1>21. LinksExact'
    <2> SUFFICES ASSUME NEW x \in 1 .. size - 1, x \notin spoiled'
                 PROVE  nlink'[x] = LinksOf(x)'
      BY <1>4 DEF LinksExact
    <2>1. x \in Ino /\ nlink[x] = LinksOf(x) /\ x # j /\ (x = q => j = NoIno \/ ~ IsDir(j))
      <3>1. x \in Ino
        BY Apart
      <3>2. x # NoIno
        BY <1>10, <3>1
      <3>3. x \notin spoiled /\ x # j /\ (x = q => j = NoIno \/ ~ IsDir(j))
        BY <1>4, <3>2
      <3>4. QED  BY <3>1, <3>3 DEF LinksExact
    <2>2. Cardinality(Entries(x)') = Cardinality(Entries(x))
      BY <1>12, <1>15, <2>1
    <2>3. Cardinality(Subdirs(x)') = Cardinality(Subdirs(x))
      BY <1>19, <2>1
    <2>4. kind'[x] = kind[x] /\ nlink'[x] = nlink[x]
      BY <1>4, <1>5
    <2>5. Named(x)' <=> Named(x)
      BY <1>20, <2>1
    <2>6. LinksOf(x)' = LinksOf(x)
      BY <2>1, <2>2, <2>3, <2>4, <2>5, LinksOfKept
    <2>7. QED  BY <2>1, <2>4, <2>6
  <1>22. ASSUME j # NoIno PROVE j \in 1 .. size - 1 /\ TooMany(j)'
    <2>1. j \in 1 .. size - 1 /\ j \in Ino /\ LinksCover(j) /\ Named(j)
      BY <1>2, <1>22, <1>14, Reach DEF IInv, LinksCoverEntries
    <2>2. CASE IsDir(j)
      <3>1. nlink[j] >= 2 + Cardinality(Subdirs(j))
        BY <2>1, <2>2 DEF LinksCover
      <3>2. QED  BY <1>5, <1>11, <2>1, <2>2, <3>1, EntriesFinite DEF TooMany
    <2>3. CASE ~ IsDir(j)
      <3>1. nlink[j] >= Cardinality(Entries(j)) /\ nlink[j] \in Int
        BY <1>4, <2>1, <2>3 DEF LinksCover, TypeOK
      <3>2. Cardinality(Entries(j)') <= Cardinality(Entries(j)) - 1
        BY <1>14, <1>22, EntriesFinite, CardRem
      <3>3. nlink'[j] > Cardinality(Entries(j)')
        BY <1>5, <3>1, <3>2, EntriesFinite
      <3>4. QED  BY <1>11, <2>1, <2>3, <3>3 DEF TooMany
    <2>4. QED  BY <2>2, <2>3
  <1>23. q \in 1 .. size - 1 /\ TooMany(q)'
    <2>1. Known(q) /\ q \notin dead
      BY DEF FuseRename, CanRename
    <2>2. q \in 1 .. size - 1
      BY <2>1, Reach
    <2>3. nlink[q] >= 2 + Cardinality(Subdirs(q))
      BY <1>3, <2>1, <2>2 DEF IInv, LinksCoverEntries, LinksCover
    <2>4. QED  BY <1>3, <1>5, <1>11, <2>2, <2>3, EntriesFinite DEF TooMany
  <1>24. ASSUME NEW x \in spoiled PROVE x \in 1 .. size - 1 /\ TooMany(x)'
    <2>1. x \in Ino /\ TooMany(x) /\ x \in 1 .. size - 1
      BY Apart
    <2>2. CASE x = j
      BY <1>10, <1>22, <2>1, <2>2
    <2>3. CASE x # j
      <3>1. Cardinality(Entries(x)') = Cardinality(Entries(x))
        BY <1>12, <1>15, <2>1, <2>3
      <3>2. Cardinality(Entries(x)') <= Cardinality(Entries(x))
        BY <3>1, EntriesFinite
      <3>3. kind'[x] = kind[x] /\ nlink'[x] = nlink[x]
        BY <1>4, <1>5
      <3>4. QED  BY <1>4, <2>1, <3>2, <3>3, TooManyKept
    <2>4. QED  BY <2>2, <2>3
  <1>25. (\A x \in spoiled : x \in 1 .. size - 1 /\ TooMany(x))'
    <2>1. \A x \in spoiled' : x \in spoiled \/ x = q \/ (j # NoIno /\ x = j)
      BY <1>4
    <2>2. QED  BY <1>4, <1>22, <1>23, <1>24, <2>1
  <1>26. (\A x \in 1 .. size - 1 : Known(x) \/ Named(x) \/ x \in spoiled \cup Queued)'
    <2> SUFFICES ASSUME NEW x \in 1 .. size - 1
                 PROVE  (Known(x) \/ Named(x) \/ x \in spoiled \cup Queued)'
      BY <1>4
    <2>1. x \in Ino /\ Queued' = Queued /\ (Known(x)' <=> Known(x))
      BY <1>4, Apart DEF Queued, Known
    <2>2. CASE x = j
      BY <1>3, <1>10, <2>1, <2>2
    <2>3. CASE x # j
      BY <1>4, <1>20, <2>1, <2>3
    <2>4. QED  BY <2>2, <2>3
  <1>27. (\A x \in Ino : ~ IsDir(x) => children[x] = NoChildren)'
    BY <1>3, <1>9, <1>11
  <1>28. (\A x \in Ino : x >= size => ~ IsDir(x))'
    BY <1>4, <1>11
  <1>29. QED  BY <1>4, <1>21, <1>25, <1>26, <1>27, <1>28

LEMMA AccountInit == Init => AInv
  <1> SUFFICES ASSUME Init PROVE AInv
    OBVIOUS
  <1>1. /\ IInv /\ 0 \in Ino /\ Root \in Ino /\ size = 2 /\ usedINodes = 2 /\ spoiled = {}
        /\ nlink[Root] = 3 /\ kind[Root] = "dir"
        /\ \A x \in Ino : children[x] = NoChildren
        /\ \A x \in Ino : x # Root => kind[x] # "dir"
    BY InvInit, ConstantsAssumption DEF Init, Ino, Root
  <1>2. Cardinality(Subdirs(Root)) = 0
    <2>1. Subdirs(Root) = {}
      BY <1>1 DEF Subdirs, NoChildren, Ino, NoIno
    <2>2. QED  BY <2>1, FS_EmptySet
  <1>3. LinksExact
    BY <1>1, <1>2 DEF LinksExact, LinksOf, IsDir, Root
  <1>4. \A x \in 1 .. size - 1 : Known(x)
    BY <1>1 DEF Known, Root
  <1>5. \A x \in Ino : x >= size => ~ IsDir(x)
    BY <1>1 DEF IsDir, Root
  <1>6. QED  BY <1>1, <1>3, <1>4, <1>5 DEF AInv

LEMMA AccountStep == ~ DirsMove /\ AInv /\ [Next]_vars => AInv'
  <1> SUFFICES ASSUME ~ DirsMove, AInv, [Next]_vars PROVE AInv'
    OBVIOUS
  <1>0. IInv /\ IInv' /\ TypeOK
    BY InvStep DEF AInv, IInv
  <1>1. PICK r : r = NewIno
    OBVIOUS
  <1>leaf. ASSUME NEW p \in Ino, NEW n \in Names, NEW k \in Kinds, k # "dir",
                  MakeLeaf(p, n, k)
           PROVE  AInv'
    <2>1. /\ CanAdd(p, n) /\ RegisterINode(k) /\ Enter(p, n)
          /\ nlink' = [nlink EXCEPT ![r] = 1]
      BY <1>1, <1>leaf DEF MakeLeaf
    <2>2. r \in Ino /\ p # r
      BY <1>0, <1>1, <2>1, NewInoType, EnterEntries DEF RegisterINode
    <2>3. /\ nlink'[r] = 1
          /\ \A x \in Ino : x # r => nlink'[x] = nlink[x]
      BY <1>0, <2>1, <2>2 DEF TypeOK
    <2>4. QED  BY <1>0, <1>1, <1>leaf, <2>1, <2>2, <2>3, RegisterAccount
  <1>quiet. ASSUME UNCHANGED vars PROVE AInv'
    <2>1. UNCHANGED <<size, kind, nlink, children, usedINodes, spoiled, deleted, kref>>
      BY <1>quiet DEF vars
    <2>2. \A x : Known(x) => Known(x)'
      BY <2>1 DEF Known
    <2>3. Queued' = Queued
      BY <2>1 DEF Queued
    <2>4. QED  BY <1>0, <2>1, <2>2, <2>3, AccountRefs
  <1>2. CASE \E i \in Ino : FuseGetAttr(i)
    BY <1>2, <1>quiet DEF FuseGetAttr
  <1>3. ASSUME NEW p \in Ino, NEW n \in Names, FuseMkdir(p, n) PROVE AInv'
    <2>1. /\ CanAdd(p, n) /\ RegisterINode("dir") /\ Enter(p, n) /\ "dir" \in Kinds
          /\ nlink' = [nlink EXCEPT ![r] = 2, ![p] = @ + 1]
      BY <1>1, <1>3 DEF FuseMkdir, Kinds
    <2>2. r \in Ino /\ p # r
      BY <1>0, <1>1, <2>1, NewInoType, EnterEntries DEF RegisterINode
    <2>3. /\ nlink'[r] = 2 /\ nlink'[p] = nlink[p] + 1
          /\ \A x \in Ino : x \notin {p, r} => nlink'[x] = nlink[x]
      BY <1>0, <2>1, <2>2 DEF TypeOK
    <2>4. QED  BY <1>0, <1>1, <2>1, <2>2, <2>3, RegisterAccount
  <1>4. CASE UNCHANGED vars
    BY <1>4, <1>quiet
  <1>5. ASSUME NEW p \in Ino, NEW n \in Names,
               FuseCreate(p, n) \/ FuseMknod(p, n) \/ FuseSymlink(p, n)
        PROVE  AInv'
    BY <1>5, <1>leaf DEF FuseCreate, FuseMknod, FuseSymlink, Kinds
  <1>6. QED
    BY <1>0, <1>2, <1>3, <1>4, <1>5, ForgetAccount, LookupAccount, UnlinkAccount,
       RmdirAccount, LinkAccount, RenameAccount DEF Next

\* As many numbers wait as there are places in the queue.
LEMMA QueueLength ==
    ASSUME NEW S, NEW s \in Seq(S), \A j, k \in DOMAIN s : s[j] = s[k] => j = k
    PROVE  LET Q == {s[k] : k \in DOMAIN s}
           IN  IsFiniteSet(Q) /\ Cardinality(Q) = Len(s)
  <1> DEFINE Q == {s[k] : k \in DOMAIN s}
  <1>1. DOMAIN s = 1 .. Len(s) /\ Len(s) \in Nat
    OBVIOUS
  <1>2. IsFiniteSet(1 .. Len(s)) /\ Cardinality(1 .. Len(s)) = Len(s)
    BY <1>1, FS_Interval
  <1>3. s \in [1 .. Len(s) -> Q]
    BY <1>1
  <1>4. s \in Bijection(1 .. Len(s), Q)
    <2>1. s \in Injection(1 .. Len(s), Q)
      BY <1>1, <1>3 DEF Injection, IsInjective
    <2>2. s \in Surjection(1 .. Len(s), Q)
      BY <1>1, <1>3 DEF Surjection
    <2>3. QED  BY <2>1, <2>2 DEF Bijection
  <1> HIDE DEF Q
  <1>5. IsFiniteSet(Q) /\ Cardinality(Q) = Len(s)
    BY <1>2, <1>4, FS_Bijection DEF ExistsBijection
  <1>6. QED  BY <1>5 DEF Q

LEMMA CardDisjoint ==
    ASSUME NEW S, IsFiniteSet(S), NEW T, IsFiniteSet(T), S \cap T = {}
    PROVE  Cardinality(S \cup T) = Cardinality(S) + Cardinality(T)
  <1>1. Cardinality(S) \in Nat /\ Cardinality(T) \in Nat
    BY FS_CardinalityType
  <1>2. Cardinality(S \cap T) = 0
    BY FS_EmptySet
  <1>3. Cardinality(S \cup T) = Cardinality(S) + Cardinality(T) - Cardinality(S \cap T)
    BY FS_Union
  <1>4. QED  BY <1>1, <1>2, <1>3

LEMMA CountsAll == AInv => StatfsAccounts
  <1> SUFFICES ASSUME AInv PROVE StatfsAccounts
    OBVIOUS
  <1> DEFINE held == {i \in 1 .. size - 1 : Known(i) \/ Named(i)}
             lost == spoiled \ held
  <1>1. size \in Nat /\ size >= 2
    BY ConstantsAssumption DEF AInv, IInv, TypeOK
  <1>2. IsFiniteSet(1 .. size - 1) /\ Cardinality(1 .. size - 1) = size - 1
    BY <1>1, FS_Interval
  <1>3. IsFiniteSet(Queued) /\ Cardinality(Queued) = Len(deleted)
    BY QueueLength DEF AInv, IInv, TypeOK, Queued
  <1>4. Queued \subseteq 1 .. size - 1 /\ held \cap Queued = {}
    <2>1. \A x \in Queued : x \in 2 .. size - 1 /\ ~ Named(x) /\ ~ Known(x)
      BY Reach DEF AInv
    <2>2. QED  BY <1>1, <2>1
  <1>5. /\ 1 .. size - 1 = (held \cup Queued) \cup lost
        /\ (held \cup Queued) \cap lost = {}
    BY <1>4, Apart DEF AInv
  <1>6. IsFiniteSet(held) /\ IsFiniteSet(lost) /\ IsFiniteSet(held \cup Queued)
    BY <1>2, <1>5, FS_Subset
  <1> HIDE DEF held, lost
  <1>7. Cardinality(held \cup Queued) = Cardinality(held) + Cardinality(Queued)
    BY <1>3, <1>4, <1>6, CardDisjoint
  <1>8. Cardinality(1 .. size - 1) = Cardinality(held \cup Queued) + Cardinality(lost)
    BY <1>5, <1>6, CardDisjoint
  <1>9. Cardinality(held) \in Nat /\ Cardinality(lost) \in Nat /\ Len(deleted) \in Nat
    BY <1>3, <1>6, FS_CardinalityType
  <1>10. usedINodes = 1 + Cardinality(held) + Len(deleted) + Cardinality(lost)
    BY <1>1, <1>2, <1>3, <1>7, <1>8, <1>9 DEF AInv
  <1>11. QED  BY <1>10 DEF StatfsAccounts, held, lost

\* Where no directory moves, st_nlink of an i-node that no rename has spoiled is
\* just the number of names it stands for, so that FuseForget gives a number back
\* as soon as, and only when, nothing is left that refers to it.
THEOREM LinksExactSafety ==
    ASSUME ~ DirsMove
    PROVE  Spec => []LinksExact
  <1>1. Init => AInv
    BY AccountInit
  <1>2. AInv /\ [Next]_vars => AInv'
    BY AccountStep
  <1>3. AInv => LinksExact
    BY DEF AInv
  <1>4. QED  BY <1>1, <1>2, <1>3, PTL DEF Spec

\* Under the same condition the i-nodes that FuseStatfs reports as used are the
\* special one, those held, those waiting in DeletedINodes, and those a rename lost.
THEOREM StatfsSafety ==
    ASSUME ~ DirsMove
    PROVE  Spec => []StatfsAccounts
  <1>1. Init => AInv
    BY AccountInit
  <1>2. AInv /\ [Next]_vars => AInv'
    BY AccountStep
  <1>3. AInv => StatfsAccounts
    BY CountsAll
  <1>4. QED  BY <1>1, <1>2, <1>3, PTL DEF Spec
=============================================================================
