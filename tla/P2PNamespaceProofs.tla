-------------------------- MODULE P2PNamespaceProofs --------------------------
(***************************************************************************)
(* Proofs about P2PNamespace, for every set of processes and of names, any *)
(* depth of directories and any number of operations.                      *)
(***************************************************************************)
EXTENDS P2PNamespace, SequenceTheorems, WellFoundedInduction, TLAPS

-----------------------------------------------------------------------------
(* The walk along a path.  Where an induction is meant, a least            *)
(* counterexample is taken.                                                *)

LEMMA LeastNumber ==
    ASSUME NEW T, T \subseteq Nat, T # {}
    PROVE  \E k \in T : \A j \in T : k <= j
  <1>1. PICK k \in T : \A j \in T : <<j, k>> \notin OpToRel(<, Nat)
    BY NatLessThanWellFounded, WFMin
  <1>2. \A j \in T : ~ (j < k)
    BY <1>1 DEF OpToRel
  <1>3. ASSUME NEW j \in T PROVE k <= j
    BY <1>2
  <1>4. QED  BY <1>1, <1>3

\* The i-nodes passed in the first n steps along a path.
Step(t, path, w, k)  == IF k = 0 THEN Root ELSE Child(t, w[k - 1], path[k])
Walks(t, path, w, n) == w = [k \in 0 .. n |-> Step(t, path, w, k)]

LEMMA WalkAt ==
    ASSUME NEW t, NEW path, NEW w, NEW n \in Nat, Walks(t, path, w, n), NEW k \in 0 .. n
    PROVE  w[k] = Step(t, path, w, k)
  <1> DEFINE f == [j \in 0 .. n |-> Step(t, path, w, j)]
  <1>1. f[k] = Step(t, path, w, k)
    OBVIOUS
  <1>2. w = f
    BY DEF Walks
  <1> HIDE DEF f
  <1>3. QED  BY <1>1, <1>2

LEMMA WalkExists ==
    ASSUME NEW t, NEW path, NEW n \in Nat
    PROVE  \E w : Walks(t, path, w, n)
  <1> DEFINE T == {k \in 0 .. n : ~ \E w : Walks(t, path, w, k)}
  <1>1. SUFFICES ASSUME T # {} PROVE FALSE
    OBVIOUS
  <1>2. PICK k \in T : \A j \in T : k <= j
    <2>1. T \subseteq Nat
      OBVIOUS
    <2> HIDE DEF T
    <2>2. QED  BY <1>1, <2>1, LeastNumber
  <1>3. k # 0
    <2>1. Walks(t, path, [j \in 0 .. 0 |-> Root], 0)
      BY DEF Walks, Step
    <2>2. QED  BY <2>1
  <1>4. PICK w : Walks(t, path, w, k - 1)
    BY <1>2, <1>3
  <1> DEFINE v == [j \in 0 .. k |-> IF j = k THEN Child(t, w[k - 1], path[k]) ELSE w[j]]
  <1>5. ASSUME NEW j \in 0 .. k PROVE v[j] = Step(t, path, v, j)
    BY <1>3, <1>4 DEF Walks, Step
  <1>6. Walks(t, path, v, k)
    BY <1>5 DEF Walks
  <1>7. QED  BY <1>6

LEMMA ResolveWalk ==
    ASSUME NEW t, NEW path, Len(path) \in Nat
    PROVE  \E w : Walks(t, path, w, Len(path)) /\ Resolve(t, path) = w[Len(path)]
  <1> DEFINE w == CHOOSE w : Walks(t, path, w, Len(path))
  <1>1. Walks(t, path, w, Len(path))
    BY WalkExists
  <1>2. Resolve(t, path) = w[Len(path)]
    BY DEF Resolve, Walks, Step
  <1>3. QED  BY <1>1, <1>2

\* Where paths begin alike, walks along them do.
LEMMA WalksAgree ==
    ASSUME NEW t, NEW p, NEW q, NEW v, NEW w, NEW m \in Nat, NEW n \in Nat, n <= m,
           Walks(t, p, v, n), Walks(t, q, w, m), \A k \in 1 .. n : p[k] = q[k]
    PROVE  v[n] = w[n]
  <1> DEFINE T == {k \in 0 .. n : v[k] # w[k]}
  <1>1. SUFFICES ASSUME T # {} PROVE FALSE
    OBVIOUS
  <1>2. PICK k \in T : \A j \in T : k <= j
    <2>1. T \subseteq Nat
      OBVIOUS
    <2> HIDE DEF T
    <2>2. QED  BY <1>1, <2>1, LeastNumber
  <1>3. v[k] = Step(t, p, v, k) /\ w[k] = Step(t, q, w, k)
    BY WalkAt
  <1>4. k # 0
    BY <1>3 DEF Step
  <1>5. v[k - 1] = w[k - 1] /\ p[k] = q[k]
    BY <1>2, <1>4
  <1>6. QED  BY <1>3, <1>5 DEF Step

LEMMA SubSeqIsPrefix ==
    ASSUME NEW S, NEW s \in Seq(S), NEW n \in 0 .. Len(s)
    PROVE  /\ SubSeq(s, 1, n) \in Seq(S) /\ Len(SubSeq(s, 1, n)) = n
           /\ \A k \in 1 .. n : SubSeq(s, 1, n)[k] = s[k]
  <1>1. Len(s) \in Nat /\ n \in Nat /\ 1 \in Int /\ n \in Int /\ \A k \in 1 .. n : s[k] \in S
    BY LenProperties, ElementOfSeq
  <1>2. /\ SubSeq(s, 1, n) \in Seq(S)
        /\ Len(SubSeq(s, 1, n)) = IF 1 <= n THEN n - 1 + 1 ELSE 0
        /\ \A k \in 1 .. n - 1 + 1 : SubSeq(s, 1, n)[k] = s[1 + k - 1]
    BY <1>1, SubSeqProperties
  <1>3. QED  BY <1>1, <1>2

LEMMA FrontFacts ==
    ASSUME NEW S, NEW path \in Seq(S), path # <<>>
    PROVE  /\ Len(path) \in Nat \ {0} /\ Last(path) \in S /\ Front(path) \in Seq(S)
           /\ Len(Front(path)) = Len(path) - 1
           /\ \A k \in 1 .. Len(path) - 1 : Front(path)[k] = path[k]
           /\ Append(Front(path), Last(path)) = path
  <1>1. Len(path) \in Nat \ {0} /\ \A k \in 1 .. Len(path) : path[k] \in S
    BY LenProperties, ElementOfSeq, EmptySeq
  <1>2. Front(path) \in Seq(S) /\ Len(Front(path)) = Len(path) - 1
        /\ \A k \in 1 .. Len(path) - 1 : Front(path)[k] = path[k]
    <2>1. Len(path) - 1 \in 0 .. Len(path)
      BY <1>1
    <2>2. QED  BY <2>1, SubSeqIsPrefix DEF Front
  <1>3. Last(path) \in S
    BY <1>1 DEF Last
  <1>4. Append(Front(path), Last(path)) \in Seq(S)
        /\ Len(Append(Front(path), Last(path))) = Len(path)
    BY <1>1, <1>2, <1>3, AppendProperties
  <1>5. ASSUME NEW k \in 1 .. Len(path) PROVE Append(Front(path), Last(path))[k] = path[k]
    BY <1>1, <1>2, <1>3, AppendProperties DEF Last
  <1>6. Append(Front(path), Last(path)) = path
    BY <1>1, <1>4, <1>5, SeqEqual
  <1>7. QED  BY <1>1, <1>2, <1>3, <1>6

\* A path leads where its last name leads in the directory before.
LEMMA ResolveLast ==
    ASSUME NEW t, NEW S, NEW path \in Seq(S), path # <<>>
    PROVE  Resolve(t, path) = Child(t, ParentOf(t, path), Last(path))
  <1>1. /\ Len(path) \in Nat \ {0} /\ Len(Front(path)) = Len(path) - 1
        /\ \A k \in 1 .. Len(path) - 1 : Front(path)[k] = path[k]
    BY FrontFacts
  <1>2. PICK w : Walks(t, path, w, Len(path)) /\ Resolve(t, path) = w[Len(path)]
    BY <1>1, ResolveWalk
  <1>3. PICK v : Walks(t, Front(path), v, Len(path) - 1) /\ ParentOf(t, path) = v[Len(path) - 1]
    BY <1>1, ResolveWalk DEF ParentOf
  <1>4. v[Len(path) - 1] = w[Len(path) - 1]
    <2> DEFINE q == Front(path)
               n == Len(path) - 1
               m == Len(path)
    <2>1. n \in Nat /\ m \in Nat /\ n <= m /\ \A k \in 1 .. n : q[k] = path[k]
      BY <1>1
    <2>2. Walks(t, q, v, n) /\ Walks(t, path, w, m)
      BY <1>2, <1>3
    <2> HIDE DEF q, n, m
    <2>3. v[n] = w[n]
      BY <2>1, <2>2, WalksAgree, Z3
    <2>4. QED  BY <2>3 DEF n
  <1>5. w[Len(path)] = Child(t, w[Len(path) - 1], path[Len(path)])
    BY <1>1, <1>2, WalkAt DEF Step
  <1>6. QED  BY <1>2, <1>3, <1>4, <1>5 DEF Last

-----------------------------------------------------------------------------
(* Trees of i-nodes.                                                       *)

NodeKinds == {"DIRECTORY", "REGULAR_FILE"}
Kids      == UNION {[S -> Nat \ {0, 1}] : S \in SUBSET Names}
Node      == [kind : NodeKinds, dirName : Seq(Names), kids : Kids]

\* In a tree entries lead to i-nodes other than the root, and a directory has one
\* entry at most.
EntriesLead(t) == \A i \in 1 .. Len(t) : \A n \in DOMAIN t[i].kids : t[i].kids[n] <= Len(t)
OneEntry(t) ==
    \A i, j \in 1 .. Len(t) : \A n \in DOMAIN t[i].kids, m \in DOMAIN t[j].kids :
        t[i].kids[n] = t[j].kids[m] /\ t[t[i].kids[n]].kind = "DIRECTORY" => i = j /\ n = m
RootIsDir(t) == t # <<>> /\ t[Root].kind = "DIRECTORY"
OthersNamed(t) ==
    \A i \in 2 .. Len(t) : t[i].kind = "DIRECTORY" => t[i].dirName # <<>>
Tree(t) ==
    t \in Seq(Node) /\ EntriesLead(t) /\ OneEntry(t) /\ RootIsDir(t) /\ OthersNamed(t)

\* Every directory keeps the path that leads to it.
Kept(t) ==
    /\ t[Root].dirName = <<>>
    /\ \A d \in 1 .. Len(t) : \A n \in DOMAIN t[d].kids :
          t[t[d].kids[n]].kind = "DIRECTORY" => t[t[d].kids[n]].dirName = Append(t[d].dirName, n)

LEMMA KidsFacts ==
    ASSUME NEW kids
    PROVE  kids \in Kids <=> /\ DOMAIN kids \subseteq Names
                             /\ kids \in [DOMAIN kids -> Nat \ {0, 1}]
  BY DEF Kids

LEMMA TreeFacts ==
    ASSUME NEW t \in Seq(Node)
    PROVE  /\ Len(t) \in Nat /\ DOMAIN t = 1 .. Len(t)
           /\ \A i \in 1 .. Len(t) :
                 /\ t[i] \in Node /\ t[i].kind \in NodeKinds /\ t[i].dirName \in Seq(Names)
                 /\ DOMAIN t[i].kids \subseteq Names
                 /\ \A n \in DOMAIN t[i].kids : t[i].kids[n] \in Nat \ {0, 1}
  <1>1. Len(t) \in Nat /\ DOMAIN t = 1 .. Len(t) /\ \A i \in 1 .. Len(t) : t[i] \in Node
    BY LenProperties, ElementOfSeq
  <1>2. ASSUME NEW i \in 1 .. Len(t)
        PROVE  /\ t[i].kind \in NodeKinds /\ t[i].dirName \in Seq(Names)
               /\ DOMAIN t[i].kids \subseteq Names
               /\ \A n \in DOMAIN t[i].kids : t[i].kids[n] \in Nat \ {0, 1}
    <2>1. t[i].kind \in NodeKinds /\ t[i].dirName \in Seq(Names) /\ t[i].kids \in Kids
      BY <1>1 DEF Node
    <2>2. QED  BY <2>1, KidsFacts
  <1>3. QED  BY <1>1, <1>2

LEMMA ChildFacts ==
    ASSUME NEW t, Tree(t), NEW d \in 0 .. Len(t), NEW n
    PROVE  /\ Child(t, d, n) \in 0 .. Len(t) /\ Child(t, d, n) # Root
           /\ Child(t, d, n) # 0 =>
                 /\ d \in 1 .. Len(t) /\ IsDir(t, d) /\ n \in DOMAIN t[d].kids
                 /\ Child(t, d, n) = t[d].kids[n]
  BY TreeFacts DEF Tree, EntriesLead, Child, IsDir, Root

LEMMA ResolveType ==
    ASSUME NEW t, Tree(t), NEW path \in Seq(Names)
    PROVE  /\ Resolve(t, path) \in 0 .. Len(t)
           /\ path # <<>> => Resolve(t, path) # Root
           /\ path # <<>> => ParentOf(t, path) \in 0 .. Len(t)
  <1>1. ASSUME NEW p \in Seq(Names) PROVE Resolve(t, p) \in 0 .. Len(t)
    <2>1. Len(p) \in Nat /\ Len(t) \in Nat \ {0}
      BY LenProperties, EmptySeq, TreeFacts DEF Tree, RootIsDir
    <2>2. PICK w : Walks(t, p, w, Len(p)) /\ Resolve(t, p) = w[Len(p)]
      BY <2>1, ResolveWalk
    <2> DEFINE T == {k \in 0 .. Len(p) : w[k] \notin 0 .. Len(t)}
    <2>3. SUFFICES ASSUME T # {} PROVE FALSE
      BY <2>1, <2>2
    <2>4. PICK k \in T : \A j \in T : k <= j
      <3>1. T \subseteq Nat
        BY <2>1
      <3> HIDE DEF T
      <3>2. QED  BY <2>3, <3>1, LeastNumber
    <2>5. k \in 0 .. Len(p) /\ w[k] = Step(t, p, w, k) /\ w[k] \notin 0 .. Len(t)
      BY <2>1, <2>2, WalkAt
    <2>6. k # 0
      BY <2>1, <2>5 DEF Step, Root
    <2>7. w[k - 1] \in 0 .. Len(t) /\ w[k] = Child(t, w[k - 1], p[k])
      BY <2>1, <2>4, <2>5, <2>6 DEF Step
    <2>8. QED  BY <2>5, <2>7, ChildFacts
  <1>2. CASE path = <<>>
    BY <1>1, <1>2
  <1>3. CASE path # <<>>
    <2>1. Front(path) \in Seq(Names)
      BY <1>3, FrontFacts
    <2>2. ParentOf(t, path) \in 0 .. Len(t)
      BY <1>1, <2>1 DEF ParentOf
    <2>3. Resolve(t, path) = Child(t, ParentOf(t, path), Last(path))
      BY <1>3, ResolveLast
    <2>4. QED  BY <1>1, <2>2, <2>3, ChildFacts
  <1>4. QED  BY <1>2, <1>3

\* In a tree that is kept, a directory that is reached keeps the path it was
\* reached by.
LEMMA ResolveKept ==
    ASSUME NEW t, Tree(t), Kept(t), NEW path \in Seq(Names), IsDir(t, Resolve(t, path))
    PROVE  t[Resolve(t, path)].dirName = path
  <1>1. /\ Len(path) \in Nat /\ \A k \in 1 .. Len(path) : path[k] \in Names
        /\ Len(t) \in Nat \ {0}
    BY LenProperties, ElementOfSeq, EmptySeq, TreeFacts DEF Tree, RootIsDir
  <1>2. PICK w : Walks(t, path, w, Len(path)) /\ Resolve(t, path) = w[Len(path)]
    BY <1>1, ResolveWalk
  <1> DEFINE Good(k) == /\ w[k] \in 0 .. Len(t)
                        /\ IsDir(t, w[k]) => t[w[k]].dirName = SubSeq(path, 1, k)
             T == {k \in 0 .. Len(path) : ~ Good(k)}
  <1>3. SubSeq(path, 1, Len(path)) = path
    BY SubSeqFull
  <1>4. SUFFICES ASSUME T # {} PROVE FALSE
    <2>1. T = {} => Good(Len(path))
      BY <1>1
    <2> HIDE DEF T
    <2>2. QED  BY <1>2, <1>3, <2>1
  <1>5. PICK k \in T : \A j \in T : k <= j
    <2>1. T \subseteq Nat
      BY <1>1
    <2> HIDE DEF T
    <2>2. QED  BY <1>4, <2>1, LeastNumber
  <1>6. k \in 0 .. Len(path) /\ ~ Good(k) /\ w[k] = Step(t, path, w, k)
    BY <1>1, <1>2, WalkAt
  <1>7. k # 0
    <2>1. SubSeq(path, 1, 0) = <<>>
      BY SubSeqEmpty
    <2>2. k = 0 => w[k] = Root
      BY <1>6 DEF Step
    <2>3. t[Root].dirName = <<>> /\ Root \in 0 .. Len(t)
      BY <1>1 DEF Kept, Root
    <2>4. k = 0 => Good(k)
      BY <2>1, <2>2, <2>3
    <2>5. QED  BY <1>6, <2>4
  <1>8. Good(k - 1) /\ w[k] = Child(t, w[k - 1], path[k])
    BY <1>1, <1>5, <1>6, <1>7 DEF Step
  <1> DEFINE d == w[k - 1]
             n == path[k]
  <1>9. Child(t, d, n) \in 0 .. Len(t) /\ IsDir(t, Child(t, d, n)) /\ Child(t, d, n) # 0
    BY <1>6, <1>8, ChildFacts DEF IsDir
  <1>10. d \in 1 .. Len(t) /\ IsDir(t, d) /\ n \in DOMAIN t[d].kids /\ Child(t, d, n) = t[d].kids[n]
    BY <1>8, <1>9, ChildFacts
  <1>11. t[Child(t, d, n)].dirName = Append(t[d].dirName, n)
    BY <1>9, <1>10 DEF Kept, IsDir
  <1>12. t[d].dirName = SubSeq(path, 1, k - 1)
    BY <1>8, <1>10
  <1>13. SubSeq(path, 1, k) = Append(SubSeq(path, 1, k - 1), path[k])
    <2>1. k \in 1 .. Len(path)
      BY <1>6, <1>7
    <2>2. /\ SubSeq(path, 1, k) \in Seq(Names) /\ Len(SubSeq(path, 1, k)) = k
          /\ \A j \in 1 .. k : SubSeq(path, 1, k)[j] = path[j]
      BY <1>1, <2>1, SubSeqIsPrefix
    <2>3. /\ SubSeq(path, 1, k - 1) \in Seq(Names) /\ Len(SubSeq(path, 1, k - 1)) = k - 1
          /\ \A j \in 1 .. k - 1 : SubSeq(path, 1, k - 1)[j] = path[j]
      BY <1>1, <2>1, SubSeqIsPrefix
    <2> DEFINE a == SubSeq(path, 1, k)
               b == Append(SubSeq(path, 1, k - 1), path[k])
    <2>4. /\ b \in Seq(Names) /\ Len(b) = k
          /\ \A j \in 1 .. k : b[j] = IF j = k THEN path[k] ELSE SubSeq(path, 1, k - 1)[j]
      BY <1>1, <2>1, <2>3, AppendProperties
    <2>5. \A j \in 1 .. k : a[j] = b[j]
      BY <2>1, <2>2, <2>3, <2>4
    <2> HIDE DEF a, b
    <2>6. a = b
      BY <2>2, <2>4, <2>5, SeqEqual DEF a
    <2>7. QED  BY <2>6 DEF a, b
  <1>14. QED  BY <1>6, <1>8, <1>9, <1>11, <1>12, <1>13

-----------------------------------------------------------------------------
(* What the handlers do to trees.                                          *)

\* t differs from s in the entries of d alone.
LEMMA ExceptKids ==
    ASSUME NEW t \in Seq(Node), NEW d \in 1 .. Len(t), NEW kids \in Kids,
           NEW s, s = [t EXCEPT ![d].kids = kids]
    PROVE  /\ s \in Seq(Node) /\ Len(s) = Len(t)
           /\ \A i \in 1 .. Len(t) :
                 /\ s[i].kind = t[i].kind /\ s[i].dirName = t[i].dirName
                 /\ s[i].kids = IF i = d THEN kids ELSE t[i].kids
  <1>1. t[d] \in Node /\ Len(t) \in Nat /\ DOMAIN t = 1 .. Len(t)
    BY TreeFacts
  <1> DEFINE node == [t[d] EXCEPT !.kids = kids]
  <1>2. /\ node \in Node /\ node.kids = kids
        /\ node.kind = t[d].kind /\ node.dirName = t[d].dirName
    BY <1>1 DEF Node
  <1>3. s = [t EXCEPT ![d] = node]
    OBVIOUS
  <1> HIDE DEF node
  <1>4. s \in Seq(Node) /\ Len(s) = Len(t) /\ \A i \in 1 .. Len(t) : s[i] = IF i = d THEN node ELSE t[i]
    BY <1>1, <1>2, <1>3, ExceptSeq
  <1>5. QED  BY <1>1, <1>2, <1>4

LEMMA UpdateFacts ==
    ASSUME NEW t \in Seq(Node), NEW d \in 1 .. Len(t), NEW n \in Names, NEW i \in Nat \ {0, 1},
           NEW s, s = UpdateChild(t, d, n, i)
    PROVE  /\ s \in Seq(Node) /\ Len(s) = Len(t)
           /\ \A j \in 1 .. Len(t) :
                 /\ s[j].kind = t[j].kind /\ s[j].dirName = t[j].dirName
                 /\ DOMAIN s[j].kids = DOMAIN t[j].kids \cup (IF j = d THEN {n} ELSE {})
                 /\ \A m \in DOMAIN s[j].kids :
                       s[j].kids[m] = IF j = d /\ m = n THEN i ELSE t[j].kids[m]
  <1> DEFINE old  == t[d].kids
             kids == [m \in DOMAIN old \cup {n} |-> IF m = n THEN i ELSE old[m]]
  <1>1. s = [t EXCEPT ![d].kids = kids]
    <2>1. t[d] \in Node /\ d \in DOMAIN t
      BY TreeFacts
    <2>2. QED  BY <2>1 DEF UpdateChild
  <1>2. kids \in Kids
    <2>1. DOMAIN old \subseteq Names /\ \A m \in DOMAIN old : old[m] \in Nat \ {0, 1}
      BY TreeFacts
    <2>2. DOMAIN kids = DOMAIN old \cup {n} /\ kids \in [DOMAIN old \cup {n} -> Nat \ {0, 1}]
      BY <2>1
    <2> HIDE DEF kids
    <2>3. QED  BY <2>1, <2>2, KidsFacts
  <1>3. DOMAIN kids = DOMAIN old \cup {n} /\ \A m \in DOMAIN kids : kids[m] = IF m = n THEN i ELSE old[m]
    OBVIOUS
  <1> HIDE DEF kids
  <1>4. /\ s \in Seq(Node) /\ Len(s) = Len(t)
        /\ \A j \in 1 .. Len(t) :
              /\ s[j].kind = t[j].kind /\ s[j].dirName = t[j].dirName
              /\ s[j].kids = IF j = d THEN kids ELSE t[j].kids
    BY <1>1, <1>2, ExceptKids, Z3
  <1>5. ASSUME NEW j \in 1 .. Len(t)
        PROVE  /\ DOMAIN s[j].kids = DOMAIN t[j].kids \cup (IF j = d THEN {n} ELSE {})
               /\ \A m \in DOMAIN s[j].kids :
                     s[j].kids[m] = IF j = d /\ m = n THEN i ELSE t[j].kids[m]
    <2>1. CASE j = d
      BY <1>3, <1>4, <2>1
    <2>2. CASE j # d
      BY <1>4, <2>2
    <2>3. QED  BY <2>1, <2>2
  <1>6. QED  BY <1>4, <1>5

LEMMA DeleteFacts ==
    ASSUME NEW t \in Seq(Node), NEW d \in 1 .. Len(t), NEW n, NEW s, s = DeleteChild(t, d, n)
    PROVE  /\ s \in Seq(Node) /\ Len(s) = Len(t)
           /\ \A j \in 1 .. Len(t) :
                 /\ s[j].kind = t[j].kind /\ s[j].dirName = t[j].dirName
                 /\ DOMAIN s[j].kids = DOMAIN t[j].kids \ (IF j = d THEN {n} ELSE {})
                 /\ \A m \in DOMAIN s[j].kids : s[j].kids[m] = t[j].kids[m]
  <1> DEFINE old  == t[d].kids
             kids == [m \in DOMAIN old \ {n} |-> old[m]]
  <1>1. s = [t EXCEPT ![d].kids = kids]
    <2>1. t[d] \in Node /\ d \in DOMAIN t
      BY TreeFacts
    <2>2. QED  BY <2>1 DEF DeleteChild
  <1>2. kids \in Kids
    <2>1. DOMAIN old \subseteq Names /\ \A m \in DOMAIN old : old[m] \in Nat \ {0, 1}
      BY TreeFacts
    <2>2. DOMAIN kids = DOMAIN old \ {n} /\ kids \in [DOMAIN old \ {n} -> Nat \ {0, 1}]
      BY <2>1
    <2> HIDE DEF kids
    <2>3. QED  BY <2>1, <2>2, KidsFacts
  <1>3. DOMAIN kids = DOMAIN old \ {n} /\ \A m \in DOMAIN kids : kids[m] = old[m]
    OBVIOUS
  <1> HIDE DEF kids
  <1>4. QED  BY <1>1, <1>2, <1>3, ExceptKids

LEMMA INodeFacts ==
    ASSUME NEW kind \in NodeKinds, NEW name \in Seq(Names)
    PROVE  /\ INode(kind, name) \in Node /\ DOMAIN INode(kind, name).kids = {}
           /\ INode(kind, name).kind = kind /\ INode(kind, name).dirName = name
  <1>1. DOMAIN <<>> = {} /\ <<>> \in [{} -> Nat \ {0, 1}]
    OBVIOUS
  <1>2. <<>> \in Kids
    BY <1>1, KidsFacts
  <1>3. QED  BY <1>1, <1>2 DEF INode, Node

\* A new entry, to an i-node that is no directory or has no entry yet.
Free(t, i) ==
    t[i].kind = "DIRECTORY" => \A j \in 1 .. Len(t) : \A m \in DOMAIN t[j].kids : t[j].kids[m] # i

\* A number that no entry leads to; one that may be given to a new i-node.
Unnamed(t, i) == \A j \in 1 .. Len(t) : \A m \in DOMAIN t[j].kids : t[j].kids[m] # i
Usable(t, i)  == i = Len(t) + 1 \/ (i \in 2 .. Len(t) /\ Unnamed(t, i))

LEMMA UpdateTree ==
    ASSUME NEW t, Tree(t), NEW d \in 1 .. Len(t), NEW n \in Names, NEW i \in 2 .. Len(t), Free(t, i)
    PROVE  /\ Tree(UpdateChild(t, d, n, i))
           /\ /\ Kept(t)
              /\ t[i].kind = "DIRECTORY" => t[i].dirName = Append(t[d].dirName, n)
              => Kept(UpdateChild(t, d, n, i))
  <1> DEFINE s == UpdateChild(t, d, n, i)
  <1>1. t \in Seq(Node) /\ i \in Nat \ {0, 1} /\ Len(t) \in Nat
    BY TreeFacts DEF Tree
  <1>2. /\ s \in Seq(Node) /\ Len(s) = Len(t)
        /\ \A j \in 1 .. Len(t) :
              /\ s[j].kind = t[j].kind /\ s[j].dirName = t[j].dirName
              /\ DOMAIN s[j].kids = DOMAIN t[j].kids \cup (IF j = d THEN {n} ELSE {})
              /\ \A m \in DOMAIN s[j].kids : s[j].kids[m] = IF j = d /\ m = n THEN i ELSE t[j].kids[m]
    BY <1>1, UpdateFacts
  <1>3. \A j \in 1 .. Len(t) : \A m \in DOMAIN t[j].kids : t[j].kids[m] \in 2 .. Len(t)
    BY <1>1, TreeFacts DEF Tree, EntriesLead
  <1> HIDE DEF s
  <1>4. EntriesLead(s)
    BY <1>1, <1>2, <1>3 DEF EntriesLead
  <1>5. OneEntry(s)
    <2> SUFFICES ASSUME NEW j \in 1 .. Len(t), NEW k \in 1 .. Len(t),
                        NEW m \in DOMAIN s[j].kids, NEW o \in DOMAIN s[k].kids,
                        s[j].kids[m] = s[k].kids[o], s[s[j].kids[m]].kind = "DIRECTORY"
                 PROVE  j = k /\ m = o
      BY <1>2 DEF OneEntry
    <2>1. CASE j = d /\ m = n /\ k = d /\ o = n
      BY <2>1
    <2>2. CASE j = d /\ m = n /\ ~ (k = d /\ o = n)
      <3>1. s[j].kids[m] = i /\ s[k].kids[o] = t[k].kids[o] /\ o \in DOMAIN t[k].kids
        BY <1>2, <2>2
      <3>2. t[i].kind = "DIRECTORY"
        BY <1>2, <3>1
      <3>3. QED  BY <3>1, <3>2 DEF Free
    <2>3. CASE ~ (j = d /\ m = n) /\ k = d /\ o = n
      <3>1. s[k].kids[o] = i /\ s[j].kids[m] = t[j].kids[m] /\ m \in DOMAIN t[j].kids
        BY <1>2, <2>3
      <3>2. t[i].kind = "DIRECTORY"
        BY <1>2, <3>1
      <3>3. QED  BY <3>1, <3>2 DEF Free
    <2>4. CASE ~ (j = d /\ m = n) /\ ~ (k = d /\ o = n)
      <3>1. /\ s[j].kids[m] = t[j].kids[m] /\ m \in DOMAIN t[j].kids
            /\ s[k].kids[o] = t[k].kids[o] /\ o \in DOMAIN t[k].kids
        BY <1>2, <2>4
      <3>2. t[t[j].kids[m]].kind = "DIRECTORY"
        BY <1>2, <1>3, <3>1
      <3>3. OneEntry(t) /\ t[j].kids[m] = t[k].kids[o]
        BY <3>1 DEF Tree
      <3>4. QED  BY <3>1, <3>2, <3>3 DEF OneEntry
    <2>5. QED  BY <2>1, <2>2, <2>3, <2>4
  <1>6. RootIsDir(s) /\ OthersNamed(s)
    BY <1>1, <1>2, EmptySeq, LenProperties DEF Tree, RootIsDir, OthersNamed, Root
  <1>7. ASSUME Kept(t), t[i].kind = "DIRECTORY" => t[i].dirName = Append(t[d].dirName, n)
        PROVE  Kept(s)
    <2>1. s[Root].dirName = <<>>
      BY <1>1, <1>2, <1>7 DEF Kept, Root
    <2>2. ASSUME NEW j \in 1 .. Len(t), NEW m \in DOMAIN s[j].kids, s[s[j].kids[m]].kind = "DIRECTORY"
          PROVE  s[s[j].kids[m]].dirName = Append(s[j].dirName, m)
      <3>1. CASE j = d /\ m = n
        <4>1. s[j].kids[m] = i /\ s[i].kind = t[i].kind /\ s[i].dirName = t[i].dirName
              /\ s[j].dirName = t[d].dirName
          BY <1>1, <1>2, <3>1
        <4>2. QED  BY <1>7, <2>2, <3>1, <4>1
      <3>2. CASE ~ (j = d /\ m = n)
        <4>1. s[j].kids[m] = t[j].kids[m] /\ m \in DOMAIN t[j].kids
          BY <1>2, <3>2
        <4> DEFINE c == t[j].kids[m]
        <4>2. c \in 1 .. Len(t)
          BY <1>3, <4>1
        <4> HIDE DEF c
        <4>3. s[c].kind = t[c].kind /\ s[c].dirName = t[c].dirName /\ s[j].dirName = t[j].dirName
          BY <1>2, <4>2
        <4>4. t[c].kind = "DIRECTORY"
          BY <2>2, <4>1, <4>3 DEF c
        <4>5. t[c].dirName = Append(t[j].dirName, m)
          BY <1>7, <4>1, <4>4 DEF Kept, c
        <4>6. QED  BY <4>1, <4>3, <4>5 DEF c
      <3>3. QED  BY <3>1, <3>2
    <2>3. QED  BY <1>2, <2>1, <2>2 DEF Kept
  <1>8. QED  BY <1>2, <1>4, <1>5, <1>6, <1>7 DEF Tree, s

LEMMA DeleteTree ==
    ASSUME NEW t, Tree(t), NEW d \in 1 .. Len(t), NEW n
    PROVE  /\ Tree(DeleteChild(t, d, n))
           /\ Kept(t) => Kept(DeleteChild(t, d, n))
  <1> DEFINE s == DeleteChild(t, d, n)
  <1>1. t \in Seq(Node) /\ Len(t) \in Nat
    BY TreeFacts DEF Tree
  <1>2. /\ s \in Seq(Node) /\ Len(s) = Len(t)
        /\ \A j \in 1 .. Len(t) :
              /\ s[j].kind = t[j].kind /\ s[j].dirName = t[j].dirName
              /\ DOMAIN s[j].kids \subseteq DOMAIN t[j].kids
              /\ \A m \in DOMAIN s[j].kids : s[j].kids[m] = t[j].kids[m]
    BY <1>1, DeleteFacts
  <1>3. \A j \in 1 .. Len(t) : \A m \in DOMAIN t[j].kids : t[j].kids[m] \in 2 .. Len(t)
    BY <1>1, TreeFacts DEF Tree, EntriesLead
  <1> HIDE DEF s
  <1>4. EntriesLead(s)
    BY <1>1, <1>2, <1>3 DEF EntriesLead
  <1>5. OneEntry(s)
    BY <1>1, <1>2, <1>3 DEF Tree, OneEntry
  <1>6. RootIsDir(s) /\ OthersNamed(s)
    BY <1>1, <1>2, EmptySeq, LenProperties DEF Tree, RootIsDir, OthersNamed, Root
  <1>7. ASSUME Kept(t) PROVE Kept(s)
    <2>1. s[Root].dirName = <<>>
      BY <1>1, <1>2, <1>7, EmptySeq, LenProperties DEF Tree, RootIsDir, Kept, Root
    <2>2. ASSUME NEW j \in 1 .. Len(t), NEW m \in DOMAIN s[j].kids, s[s[j].kids[m]].kind = "DIRECTORY"
          PROVE  s[s[j].kids[m]].dirName = Append(s[j].dirName, m)
      <3>1. s[j].kids[m] = t[j].kids[m] /\ m \in DOMAIN t[j].kids
        BY <1>2
      <3> DEFINE c == t[j].kids[m]
      <3>2. c \in 1 .. Len(t)
        BY <1>3, <3>1
      <3> HIDE DEF c
      <3>3. s[c].kind = t[c].kind /\ s[c].dirName = t[c].dirName /\ s[j].dirName = t[j].dirName
        BY <1>2, <3>2
      <3>4. t[c].kind = "DIRECTORY"
        BY <2>2, <3>1, <3>3 DEF c
      <3>5. t[c].dirName = Append(t[j].dirName, m)
        BY <1>7, <3>1, <3>4 DEF Kept, c
      <3>6. QED  BY <3>1, <3>3, <3>5 DEF c
    <2>3. QED  BY <1>2, <2>1, <2>2 DEF Kept
  <1>8. QED  BY <1>2, <1>4, <1>5, <1>6, <1>7 DEF Tree, s

LEMMA AppendTree ==
    ASSUME NEW t, Tree(t), NEW node \in Node, DOMAIN node.kids = {},
           node.kind = "DIRECTORY" => node.dirName # <<>>
    PROVE  /\ Tree(Append(t, node)) /\ Free(Append(t, node), Len(t) + 1)
           /\ Kept(t) => Kept(Append(t, node))
           /\ Len(Append(t, node)) = Len(t) + 1 /\ Append(t, node)[Len(t) + 1] = node
           /\ \A i \in 1 .. Len(t) : Append(t, node)[i] = t[i]
  <1> DEFINE s == Append(t, node)
             n == Len(t)
  <1>1. t \in Seq(Node) /\ n \in Nat /\ n # 0
    BY TreeFacts, EmptySeq, LenProperties DEF Tree, RootIsDir
  <1>2. /\ s \in Seq(Node) /\ Len(s) = n + 1 /\ s[n + 1] = node
        /\ \A i \in 1 .. n : s[i] = t[i]
    BY <1>1, AppendProperties
  <1>3. \A j \in 1 .. n : \A m \in DOMAIN t[j].kids : t[j].kids[m] \in 2 .. n
    BY <1>1, TreeFacts DEF Tree, EntriesLead
  <1> HIDE DEF s, n
  <1>4. \A j \in 1 .. n + 1 : \A m \in DOMAIN s[j].kids :
           /\ j \in 1 .. n /\ s[j] = t[j] /\ m \in DOMAIN t[j].kids
           /\ s[j].kids[m] \in 2 .. n /\ s[s[j].kids[m]] = t[s[j].kids[m]]
    BY <1>1, <1>2, <1>3
  <1>5. EntriesLead(s)
    BY <1>1, <1>2, <1>4 DEF EntriesLead
  <1>6. OneEntry(s)
    <2>1. OneEntry(t)
      BY DEF Tree
    <2> SUFFICES ASSUME NEW j \in 1 .. n + 1, NEW k \in 1 .. n + 1,
                        NEW m \in DOMAIN s[j].kids, NEW o \in DOMAIN s[k].kids,
                        s[j].kids[m] = s[k].kids[o], s[s[j].kids[m]].kind = "DIRECTORY"
                 PROVE  j = k /\ m = o
      BY <1>2 DEF OneEntry
    <2>2. /\ j \in 1 .. n /\ k \in 1 .. n /\ m \in DOMAIN t[j].kids /\ o \in DOMAIN t[k].kids
          /\ t[j].kids[m] = t[k].kids[o] /\ t[t[j].kids[m]].kind = "DIRECTORY"
      BY <1>4
    <2>3. QED  BY <2>1, <2>2 DEF OneEntry, n
  <1>7. RootIsDir(s) /\ OthersNamed(s)
    <2>1. s # <<>> /\ s[Root] = t[Root]
      BY <1>1, <1>2, EmptySeq DEF Root
    <2>2. ASSUME NEW i \in 2 .. n + 1, s[i].kind = "DIRECTORY" PROVE s[i].dirName # <<>>
      BY <1>1, <1>2, <2>2 DEF Tree, OthersNamed, n
    <2>3. QED  BY <1>2, <2>1, <2>2 DEF Tree, RootIsDir, OthersNamed
  <1>8. Free(s, n + 1)
    BY <1>1, <1>2, <1>4 DEF Free
  <1>9. ASSUME Kept(t) PROVE Kept(s)
    <2>1. s[Root].dirName = <<>>
      BY <1>1, <1>2, <1>9 DEF Kept, Root
    <2>2. ASSUME NEW j \in 1 .. n + 1, NEW m \in DOMAIN s[j].kids, s[s[j].kids[m]].kind = "DIRECTORY"
          PROVE  s[s[j].kids[m]].dirName = Append(s[j].dirName, m)
      <3> DEFINE c == s[j].kids[m]
      <3>1. j \in 1 .. n /\ s[j] = t[j] /\ m \in DOMAIN t[j].kids /\ c \in 2 .. n /\ s[c] = t[c]
        BY <1>4
      <3>2. c = t[j].kids[m]
        BY <3>1
      <3>3. t[c].kind = "DIRECTORY"
        BY <2>2, <3>1
      <3> HIDE DEF c
      <3>4. t[c].dirName = Append(t[j].dirName, m)
        BY <1>9, <3>1, <3>2, <3>3 DEF Kept, n
      <3>5. s[c].dirName = Append(s[j].dirName, m)
        BY <3>1, <3>4
      <3>6. QED  BY <3>5 DEF c
    <2>3. QED  BY <1>2, <2>1, <2>2 DEF Kept
  <1>10. QED  BY <1>2, <1>5, <1>6, <1>7, <1>8, <1>9 DEF Tree, s, n

\* An i-node without entries takes the place of one that no entry leads to.
LEMMA ReuseTree ==
    ASSUME NEW t, Tree(t), NEW node \in Node, DOMAIN node.kids = {},
           node.kind = "DIRECTORY" => node.dirName # <<>>,
           NEW i \in 2 .. Len(t), Unnamed(t, i)
    PROVE  /\ Tree([t EXCEPT ![i] = node]) /\ Free([t EXCEPT ![i] = node], i)
           /\ Kept(t) => Kept([t EXCEPT ![i] = node])
           /\ Len([t EXCEPT ![i] = node]) = Len(t)
           /\ \A j \in 1 .. Len(t) : [t EXCEPT ![i] = node][j] = IF j = i THEN node ELSE t[j]
  <1> DEFINE s == [t EXCEPT ![i] = node]
             n == Len(t)
  <1>1. t \in Seq(Node) /\ n \in Nat /\ i \in 1 .. n /\ i # Root
    BY TreeFacts DEF Tree, Root
  <1>2. s \in Seq(Node) /\ Len(s) = n /\ \A j \in 1 .. n : s[j] = IF j = i THEN node ELSE t[j]
    BY <1>1, ExceptSeq
  <1>3. \A j \in 1 .. n : \A m \in DOMAIN t[j].kids : t[j].kids[m] \in 2 .. n /\ t[j].kids[m] # i
    BY <1>1, TreeFacts DEF Tree, EntriesLead, Unnamed
  <1> HIDE DEF s, n
  <1>4. \A j \in 1 .. n : \A m \in DOMAIN s[j].kids :
           /\ j # i /\ s[j] = t[j] /\ m \in DOMAIN t[j].kids
           /\ s[j].kids[m] \in 2 .. n /\ s[j].kids[m] # i /\ s[s[j].kids[m]] = t[s[j].kids[m]]
    <2> SUFFICES ASSUME NEW j \in 1 .. n, NEW m \in DOMAIN s[j].kids
                 PROVE  /\ j # i /\ s[j] = t[j] /\ m \in DOMAIN t[j].kids
                        /\ s[j].kids[m] \in 2 .. n /\ s[j].kids[m] # i
                        /\ s[s[j].kids[m]] = t[s[j].kids[m]]
      OBVIOUS
    <2>1. j # i
      BY <1>2
    <2>2. s[j] = t[j] /\ m \in DOMAIN t[j].kids
      BY <1>2, <2>1
    <2> DEFINE c == t[j].kids[m]
    <2>3. c \in 2 .. n /\ c # i /\ s[j].kids[m] = c
      BY <1>3, <2>2
    <2> HIDE DEF c
    <2>4. s[c] = t[c]
      BY <1>1, <1>2, <2>3
    <2>5. QED  BY <2>1, <2>2, <2>3, <2>4
  <1>5. EntriesLead(s)
    BY <1>1, <1>2, <1>4 DEF EntriesLead
  <1>6. OneEntry(s)
    <2>1. OneEntry(t)
      BY DEF Tree
    <2> SUFFICES ASSUME NEW j \in 1 .. n, NEW k \in 1 .. n,
                        NEW m \in DOMAIN s[j].kids, NEW o \in DOMAIN s[k].kids,
                        s[j].kids[m] = s[k].kids[o], s[s[j].kids[m]].kind = "DIRECTORY"
                 PROVE  j = k /\ m = o
      BY <1>2 DEF OneEntry
    <2>2. /\ m \in DOMAIN t[j].kids /\ o \in DOMAIN t[k].kids
          /\ t[j].kids[m] = t[k].kids[o] /\ t[t[j].kids[m]].kind = "DIRECTORY"
      BY <1>4
    <2>3. QED  BY <2>1, <2>2 DEF OneEntry, n
  <1>7. RootIsDir(s) /\ OthersNamed(s)
    <2>1. s # <<>> /\ s[Root] = t[Root]
      BY <1>1, <1>2, EmptySeq DEF Root
    <2>2. ASSUME NEW j \in 2 .. n, s[j].kind = "DIRECTORY" PROVE s[j].dirName # <<>>
      BY <1>1, <1>2, <2>2 DEF Tree, OthersNamed, n
    <2>3. QED  BY <1>2, <2>1, <2>2 DEF Tree, RootIsDir, OthersNamed
  <1>8. Free(s, i)
    BY <1>2, <1>4 DEF Free
  <1>9. ASSUME Kept(t) PROVE Kept(s)
    <2>1. s[Root].dirName = <<>>
      BY <1>1, <1>2, <1>9 DEF Kept, Root
    <2>2. ASSUME NEW j \in 1 .. n, NEW m \in DOMAIN s[j].kids, s[s[j].kids[m]].kind = "DIRECTORY"
          PROVE  s[s[j].kids[m]].dirName = Append(s[j].dirName, m)
      <3> DEFINE c == s[j].kids[m]
      <3>1. s[j] = t[j] /\ m \in DOMAIN t[j].kids /\ c \in 2 .. n /\ s[c] = t[c]
        BY <1>4
      <3>2. c = t[j].kids[m]
        BY <3>1
      <3>3. t[c].kind = "DIRECTORY"
        BY <2>2, <3>1
      <3> HIDE DEF c
      <3>4. t[c].dirName = Append(t[j].dirName, m)
        BY <1>9, <3>1, <3>2, <3>3 DEF Kept, n
      <3>5. s[c].dirName = Append(s[j].dirName, m)
        BY <3>1, <3>4
      <3>6. QED  BY <3>5 DEF c
    <2>3. QED  BY <1>2, <2>1, <2>2 DEF Kept
  <1>10. QED  BY <1>2, <1>5, <1>6, <1>7, <1>8, <1>9 DEF Tree, s, n

\* What RegisterINode does with a new i-node, whichever number it has.
LEMMA PutTree ==
    ASSUME NEW t, Tree(t), NEW node \in Node, DOMAIN node.kids = {},
           node.kind = "DIRECTORY" => node.dirName # <<>>, NEW i, Usable(t, i),
           NEW s, s = Put(t, i, node)
    PROVE  /\ Tree(s) /\ Free(s, i) /\ (Kept(t) => Kept(s))
           /\ Len(s) = (IF i > Len(t) THEN i ELSE Len(t)) /\ i \in 2 .. Len(s) /\ s[i] = node
           /\ \A j \in 1 .. Len(t) : j # i => s[j] = t[j]
           /\ \A x : Unnamed(t, x) => Unnamed(s, x)
  <1>1. t \in Seq(Node) /\ Len(t) \in Nat \ {0}
    BY TreeFacts, EmptySeq, LenProperties DEF Tree, RootIsDir
  <1>2. CASE i = Len(t) + 1
    <2>1. s = Append(t, node)
      BY <1>1, <1>2 DEF Put
    <2>2. /\ Tree(s) /\ Free(s, i) /\ (Kept(t) => Kept(s)) /\ Len(s) = Len(t) + 1 /\ s[i] = node
          /\ \A j \in 1 .. Len(t) : s[j] = t[j]
      <3> DEFINE u == Append(t, node)
      <3>1. /\ Tree(u) /\ Free(u, Len(t) + 1) /\ (Kept(t) => Kept(u))
            /\ Len(u) = Len(t) + 1 /\ u[Len(t) + 1] = node /\ \A j \in 1 .. Len(t) : u[j] = t[j]
        BY AppendTree
      <3>2. u = s
        BY <2>1
      <3> HIDE DEF u
      <3>3. QED  BY <1>2, <3>1, <3>2
    <2>3. ASSUME NEW x, Unnamed(t, x) PROVE Unnamed(s, x)
      <3> SUFFICES ASSUME NEW j \in 1 .. Len(s), NEW m \in DOMAIN s[j].kids PROVE s[j].kids[m] # x
        BY DEF Unnamed
      <3>1. j # i
        BY <2>2
      <3>2. j \in 1 .. Len(t) /\ s[j] = t[j]
        BY <1>1, <1>2, <2>2, <3>1
      <3>3. QED  BY <2>3, <3>2 DEF Unnamed
    <2>4. QED  BY <1>1, <1>2, <2>2, <2>3
  <1>3. CASE i \in 2 .. Len(t) /\ Unnamed(t, i)
    <2>1. s = [t EXCEPT ![i] = node]
      BY <1>1, <1>3 DEF Put
    <2>2. /\ Tree(s) /\ Free(s, i) /\ (Kept(t) => Kept(s)) /\ Len(s) = Len(t)
          /\ \A j \in 1 .. Len(t) : s[j] = IF j = i THEN node ELSE t[j]
      <3> DEFINE u == [t EXCEPT ![i] = node]
      <3>1. /\ Tree(u) /\ Free(u, i) /\ (Kept(t) => Kept(u)) /\ Len(u) = Len(t)
            /\ \A j \in 1 .. Len(t) : u[j] = IF j = i THEN node ELSE t[j]
        BY <1>3, ReuseTree
      <3>2. u = s
        BY <2>1
      <3> HIDE DEF u
      <3>3. QED  BY <3>1, <3>2
    <2>3. s[i] = node /\ i \in 1 .. Len(t)
      BY <1>1, <1>3, <2>2
    <2>4. ASSUME NEW x, Unnamed(t, x) PROVE Unnamed(s, x)
      <3> SUFFICES ASSUME NEW j \in 1 .. Len(s), NEW m \in DOMAIN s[j].kids PROVE s[j].kids[m] # x
        BY DEF Unnamed
      <3>1. j # i
        BY <2>3
      <3>2. j \in 1 .. Len(t) /\ s[j] = t[j]
        BY <1>1, <2>2, <3>1
      <3>3. QED  BY <2>4, <3>2 DEF Unnamed
    <2>5. QED  BY <1>1, <1>3, <2>2, <2>3, <2>4
  <1>4. QED  BY <1>2, <1>3 DEF Usable

\* An entry made or removed names nothing but what it leads to.
LEMMA EntriesName ==
    ASSUME NEW t \in Seq(Node), NEW d \in 1 .. Len(t), NEW n, NEW x, Unnamed(t, x)
    PROVE  /\ Unnamed(DeleteChild(t, d, n), x)
           /\ \A i \in Nat \ {0, 1} : n \in Names /\ x # i => Unnamed(UpdateChild(t, d, n, i), x)
  <1> DEFINE r == DeleteChild(t, d, n)
  <1>1. /\ Len(r) = Len(t)
        /\ \A j \in 1 .. Len(t) :
              /\ DOMAIN r[j].kids = DOMAIN t[j].kids \ (IF j = d THEN {n} ELSE {})
              /\ \A m \in DOMAIN r[j].kids : r[j].kids[m] = t[j].kids[m]
    BY DeleteFacts
  <1> HIDE DEF r
  <1>2. Unnamed(r, x)
    BY <1>1 DEF Unnamed
  <1>3. ASSUME NEW i \in Nat \ {0, 1}, n \in Names, x # i PROVE Unnamed(UpdateChild(t, d, n, i), x)
    <2> DEFINE s == UpdateChild(t, d, n, i)
    <2>1. /\ Len(s) = Len(t)
          /\ \A j \in 1 .. Len(t) :
                /\ DOMAIN s[j].kids = DOMAIN t[j].kids \cup (IF j = d THEN {n} ELSE {})
                /\ \A m \in DOMAIN s[j].kids : s[j].kids[m] = IF j = d /\ m = n THEN i ELSE t[j].kids[m]
      BY <1>3, UpdateFacts
    <2> HIDE DEF s
    <2>2. ASSUME NEW j \in 1 .. Len(t), NEW m \in DOMAIN s[j].kids PROVE s[j].kids[m] # x
      <3>1. CASE j = d /\ m = n
        BY <1>3, <2>1, <3>1
      <3>2. CASE ~ (j = d /\ m = n)
        <4>1. m \in DOMAIN t[j].kids /\ s[j].kids[m] = t[j].kids[m]
          BY <2>1, <3>2
        <4>2. QED  BY <4>1 DEF Unnamed
      <3>3. QED  BY <3>1, <3>2
    <2>3. Unnamed(s, x)
      BY <2>1, <2>2 DEF Unnamed
    <2>4. QED  BY <2>3 DEF s
  <1>4. QED  BY <1>2, <1>3 DEF r

\* Two entries that differ are made and removed in either order.
LEMMA EntriesCommute ==
    ASSUME NEW t \in Seq(Node), NEW d \in 1 .. Len(t), NEW a, NEW e \in 1 .. Len(t), NEW b \in Names,
           NEW i \in Nat \ {0, 1}, ~ (d = e /\ a = b)
    PROVE  DeleteChild(UpdateChild(t, e, b, i), d, a) = UpdateChild(DeleteChild(t, d, a), e, b, i)
  <1> DEFINE u == UpdateChild(t, e, b, i)
             r == DeleteChild(t, d, a)
             x == DeleteChild(u, d, a)
             y == UpdateChild(r, e, b, i)
  <1>1. /\ u \in Seq(Node) /\ Len(u) = Len(t)
        /\ \A j \in 1 .. Len(t) :
              /\ u[j].kind = t[j].kind /\ u[j].dirName = t[j].dirName
              /\ DOMAIN u[j].kids = DOMAIN t[j].kids \cup (IF j = e THEN {b} ELSE {})
              /\ \A m \in DOMAIN u[j].kids : u[j].kids[m] = IF j = e /\ m = b THEN i ELSE t[j].kids[m]
    BY UpdateFacts
  <1>2. /\ r \in Seq(Node) /\ Len(r) = Len(t)
        /\ \A j \in 1 .. Len(t) :
              /\ r[j].kind = t[j].kind /\ r[j].dirName = t[j].dirName
              /\ DOMAIN r[j].kids = DOMAIN t[j].kids \ (IF j = d THEN {a} ELSE {})
              /\ \A m \in DOMAIN r[j].kids : r[j].kids[m] = t[j].kids[m]
    BY DeleteFacts
  <1> HIDE DEF u, r
  <1>3. /\ x \in Seq(Node) /\ Len(x) = Len(t)
        /\ \A j \in 1 .. Len(t) :
              /\ x[j].kind = t[j].kind /\ x[j].dirName = t[j].dirName
              /\ DOMAIN x[j].kids = DOMAIN u[j].kids \ (IF j = d THEN {a} ELSE {})
              /\ \A m \in DOMAIN x[j].kids : x[j].kids[m] = u[j].kids[m]
    BY <1>1, DeleteFacts
  <1>4. /\ y \in Seq(Node) /\ Len(y) = Len(t)
        /\ \A j \in 1 .. Len(t) :
              /\ y[j].kind = t[j].kind /\ y[j].dirName = t[j].dirName
              /\ DOMAIN y[j].kids = DOMAIN r[j].kids \cup (IF j = e THEN {b} ELSE {})
              /\ \A m \in DOMAIN y[j].kids : y[j].kids[m] = IF j = e /\ m = b THEN i ELSE r[j].kids[m]
    BY <1>2, UpdateFacts
  <1> HIDE DEF x, y
  <1>5. ASSUME NEW j \in 1 .. Len(t) PROVE x[j] = y[j]
    <2>1. DOMAIN x[j].kids = DOMAIN y[j].kids
      <3>1. DOMAIN x[j].kids =
               (DOMAIN t[j].kids \cup (IF j = e THEN {b} ELSE {})) \ (IF j = d THEN {a} ELSE {})
        BY <1>1, <1>3
      <3>2. DOMAIN y[j].kids =
               (DOMAIN t[j].kids \ (IF j = d THEN {a} ELSE {})) \cup (IF j = e THEN {b} ELSE {})
        BY <1>2, <1>4
      <3>3. QED  BY <3>1, <3>2
    <2>2. ASSUME NEW m \in DOMAIN x[j].kids PROVE x[j].kids[m] = y[j].kids[m]
      <3>1. m \in DOMAIN u[j].kids /\ x[j].kids[m] = u[j].kids[m]
        BY <1>3
      <3>2. CASE j = e /\ m = b
        BY <1>1, <1>4, <2>1, <3>1, <3>2
      <3>3. CASE ~ (j = e /\ m = b)
        <4>1. m \in DOMAIN r[j].kids
          BY <1>4, <2>1, <3>3
        <4>2. x[j].kids[m] = t[j].kids[m] /\ y[j].kids[m] = r[j].kids[m] /\ r[j].kids[m] = t[j].kids[m]
          BY <1>1, <1>2, <1>4, <2>1, <3>1, <3>3, <4>1
        <4>3. QED  BY <4>2
      <3>4. QED  BY <3>2, <3>3
    <2>3. x[j] \in Node /\ y[j] \in Node
      BY <1>3, <1>4, ElementOfSeq
    <2>4. x[j].kids \in Kids /\ y[j].kids \in Kids
      BY <2>3 DEF Node
    <2>5. x[j].kids = y[j].kids
      <3> DEFINE f == x[j].kids
                 g == y[j].kids
      <3>1. f \in [DOMAIN f -> Nat \ {0, 1}] /\ g \in [DOMAIN g -> Nat \ {0, 1}]
        BY <2>4, KidsFacts
      <3>2. DOMAIN f = DOMAIN g /\ \A m \in DOMAIN f : f[m] = g[m]
        BY <2>1, <2>2
      <3> HIDE DEF f, g
      <3>3. f = g
        BY <3>1, <3>2
      <3>4. QED  BY <3>3 DEF f, g
    <2>6. x[j].kind = y[j].kind /\ x[j].dirName = y[j].dirName
      BY <1>3, <1>4
    <2>7. \A node \in Node :
             node = [kind |-> node.kind, dirName |-> node.dirName, kids |-> node.kids]
      BY DEF Node
    <2>8. /\ x[j] = [kind |-> x[j].kind, dirName |-> x[j].dirName, kids |-> x[j].kids]
          /\ y[j] = [kind |-> y[j].kind, dirName |-> y[j].dirName, kids |-> y[j].kids]
      BY <2>3, <2>7
    <2>9. QED  BY <2>5, <2>6, <2>8
  <1>6. x = y
    BY <1>3, <1>4, <1>5, SeqEqual
  <1>7. QED  BY <1>6 DEF x, y, u, r

\* The parent of a path, and the path as the handlers put it together.
LEMMA ParentFacts ==
    ASSUME NEW t, Tree(t), NEW path \in Seq(Names), path # <<>>, IsDir(t, ParentOf(t, path))
    PROVE  /\ ParentOf(t, path) \in 1 .. Len(t) /\ Last(path) \in Names
           /\ Named(t, path) \in Seq(Names) /\ Named(t, path) # <<>>
           /\ Kept(t) => Named(t, path) = path
  <1> DEFINE d == ParentOf(t, path)
  <1>1. d \in 1 .. Len(t)
    BY ResolveType, TreeFacts DEF IsDir, Tree
  <1>2. Last(path) \in Names /\ Front(path) \in Seq(Names) /\ Append(Front(path), Last(path)) = path
    BY FrontFacts
  <1>3. t[d].dirName \in Seq(Names)
    BY <1>1, TreeFacts DEF Tree
  <1>4. Named(t, path) = Append(t[d].dirName, Last(path))
    BY DEF Named
  <1>5. Named(t, path) \in Seq(Names) /\ Named(t, path) # <<>>
    BY <1>2, <1>3, <1>4, AppendProperties
  <1>6. ASSUME Kept(t) PROVE Named(t, path) = path
    <2>1. d = Resolve(t, Front(path)) /\ IsDir(t, Resolve(t, Front(path)))
      BY DEF ParentOf
    <2>2. t[d].dirName = Front(path)
      BY <1>2, <1>6, <2>1, ResolveKept
    <2>3. QED  BY <1>2, <1>4, <2>2
  <1>7. QED  BY <1>1, <1>2, <1>5, <1>6

\* What is found is an entry of its parent.
LEMMA FoundFacts ==
    ASSUME NEW t, Tree(t), NEW path \in Seq(Names), path # <<>>, Resolve(t, path) # 0
    PROVE  /\ IsDir(t, ParentOf(t, path)) /\ Resolve(t, path) \in 2 .. Len(t)
           /\ Last(path) \in DOMAIN t[ParentOf(t, path)].kids
           /\ Resolve(t, path) = t[ParentOf(t, path)].kids[Last(path)]
  <1>1. Resolve(t, path) = Child(t, ParentOf(t, path), Last(path))
    BY ResolveLast
  <1>2. /\ ParentOf(t, path) \in 0 .. Len(t) /\ Resolve(t, path) \in 0 .. Len(t)
        /\ Resolve(t, path) # Root /\ Len(t) \in Nat
    BY ResolveType, TreeFacts DEF Tree
  <1>3. QED  BY <1>1, <1>2, ChildFacts DEF Root

\* The directory of a path is the root or has a name.
LEMMA ParentNamed ==
    ASSUME NEW t, Tree(t), NEW path \in Seq(Names), path # <<>>, IsDir(t, ParentOf(t, path)),
           NEW i, i # Root, Unnamed(t, i)
    PROVE  ParentOf(t, path) # i
  <1> DEFINE q == Front(path)
  <1>1. q \in Seq(Names) /\ ParentOf(t, path) = Resolve(t, q)
    BY FrontFacts DEF ParentOf
  <1> HIDE DEF q
  <1>2. CASE q = <<>>
    <2>1. Len(q) = 0
      BY <1>2
    <2>2. PICK w : Walks(t, q, w, 0) /\ Resolve(t, q) = w[0]
      BY <2>1, ResolveWalk
    <2>3. w[0] = Root
      BY <2>2, WalkAt DEF Step
    <2>4. QED  BY <1>1, <2>2, <2>3
  <1>3. CASE q # <<>>
    <2>1. Resolve(t, q) # 0
      BY <1>1 DEF IsDir
    <2>2. /\ IsDir(t, ParentOf(t, q)) /\ Last(q) \in DOMAIN t[ParentOf(t, q)].kids
          /\ Resolve(t, q) = t[ParentOf(t, q)].kids[Last(q)]
      BY <1>1, <1>3, <2>1, FoundFacts
    <2>3. ParentOf(t, q) \in 1 .. Len(t)
      BY <1>1, <1>3, <2>2, ParentFacts
    <2>4. QED  BY <1>1, <2>2, <2>3 DEF Unnamed
  <1>4. QED  BY <1>2, <1>3

LEMMA EnterTree ==
    ASSUME NEW t, Tree(t), NEW path \in Seq(Names), path # <<>>, CanMake(t, path),
           NEW kind \in NodeKinds, NEW name \in Seq(Names), kind = "DIRECTORY" => name # <<>>,
           NEW i, Usable(t, i)
    PROVE  /\ Tree(Enter(t, i, path, INode(kind, name)))
           /\ Kept(t) /\ (kind = "DIRECTORY" => name = Named(t, path)) =>
                 Kept(Enter(t, i, path, INode(kind, name)))
           /\ Len(Enter(t, i, path, INode(kind, name))) = IF i > Len(t) THEN i ELSE Len(t)
           /\ \A x : x # i /\ Unnamed(t, x) => Unnamed(Enter(t, i, path, INode(kind, name)), x)
  <1> DEFINE d == ParentOf(t, path)
             n == Last(path)
             node == INode(kind, name)
             s == Put(t, i, node)
             u == UpdateChild(s, d, n, i)
  <1>1. IsDir(t, d)
    BY DEF CanMake
  <1>2. d \in 1 .. Len(t) /\ n \in Names
    BY <1>1, ParentFacts
  <1>3. node \in Node /\ DOMAIN node.kids = {} /\ node.kind = kind /\ node.dirName = name
    BY INodeFacts
  <1>4. Named(t, path) = Append(t[d].dirName, n)
    BY DEF Named
  <1>5. Enter(t, i, path, node) = u
    BY DEF Enter
  <1>6. Len(t) \in Nat \ {0}
    BY TreeFacts, EmptySeq, LenProperties DEF Tree, RootIsDir
  <1>7. d # i
    <2>1. CASE i = Len(t) + 1
      BY <1>2, <1>6, <2>1
    <2>2. CASE i \in 2 .. Len(t) /\ Unnamed(t, i)
      BY <1>1, <2>2, ParentNamed DEF Root
    <2>3. QED  BY <2>1, <2>2 DEF Usable
  <1> HIDE DEF d, n, node, s
  <1>8. /\ Tree(s) /\ Free(s, i) /\ (Kept(t) => Kept(s))
        /\ Len(s) = (IF i > Len(t) THEN i ELSE Len(t)) /\ i \in 2 .. Len(s) /\ s[i] = node
        /\ \A j \in 1 .. Len(t) : j # i => s[j] = t[j]
        /\ \A x : Unnamed(t, x) => Unnamed(s, x)
    <2>1. node.kind = "DIRECTORY" => node.dirName # <<>>
      BY <1>3
    <2>2. s = Put(t, i, node)
      BY DEF s
    <2>3. QED  BY <1>3, <2>1, <2>2, PutTree
  <1>9. s \in Seq(Node) /\ Len(s) \in Nat /\ d \in 1 .. Len(s) /\ s[d] = t[d] /\ i \in Nat \ {0, 1}
    <2>1. s \in Seq(Node) /\ Len(s) \in Nat
      BY <1>8, TreeFacts DEF Tree
    <2>2. QED  BY <1>2, <1>6, <1>7, <1>8, <2>1
  <1>10. /\ Tree(u)
         /\ /\ Kept(s)
            /\ s[i].kind = "DIRECTORY" => s[i].dirName = Append(s[d].dirName, n)
            => Kept(u)
    BY <1>2, <1>8, <1>9, UpdateTree
  <1>11. Len(u) = Len(s)
    BY <1>2, <1>9, UpdateFacts
  <1>12. \A x : x # i /\ Unnamed(t, x) => Unnamed(u, x)
    BY <1>2, <1>8, <1>9, EntriesName
  <1> HIDE DEF u
  <1>13. QED  BY <1>3, <1>4, <1>5, <1>8, <1>9, <1>10, <1>11, <1>12 DEF node, s

\* FuseLink
LEMMA LinkTree ==
    ASSUME NEW t, Tree(t), NEW path \in Seq(Names), path # <<>>, NEW dest \in Seq(Names), dest # <<>>,
           CanUnlink(t, path), CanMake(t, dest)
    PROVE  Tree(UpdateChild(t, ParentOf(t, dest), Last(dest), Resolve(t, path)))
  <1>1. Resolve(t, path) \in 2 .. Len(t) /\ t[Resolve(t, path)].kind = "REGULAR_FILE"
    BY FoundFacts DEF CanUnlink, IsFile
  <1>2. ParentOf(t, dest) \in 1 .. Len(t) /\ Last(dest) \in Names
    BY ParentFacts DEF CanMake
  <1>3. Free(t, Resolve(t, path))
    BY <1>1 DEF Free
  <1>4. QED  BY <1>1, <1>2, <1>3, UpdateTree

Renamed(t, path, dest) ==
    DeleteChild(UpdateChild(t, ParentOf(t, dest), Last(dest), Resolve(t, path)),
                ParentOf(t, path), Last(path))

\* The order in which FuseRename changes the two entries does not matter.
LEMMA RenamedIs ==
    ASSUME NEW t, Tree(t), NEW path \in Seq(Names), path # <<>>, NEW dest \in Seq(Names), dest # <<>>,
           CanRename(t, path, dest)
    PROVE  /\ IsDir(t, ParentOf(t, path)) /\ ParentOf(t, path) \in 1 .. Len(t)
           /\ Last(path) \in DOMAIN t[ParentOf(t, path)].kids
           /\ Resolve(t, path) = t[ParentOf(t, path)].kids[Last(path)]
           /\ Resolve(t, path) \in 2 .. Len(t)
           /\ IsDir(t, ParentOf(t, dest)) /\ ParentOf(t, dest) \in 1 .. Len(t) /\ Last(dest) \in Names
           /\ Renamed(t, path, dest) =
                 UpdateChild(DeleteChild(t, ParentOf(t, path), Last(path)),
                             ParentOf(t, dest), Last(dest), Resolve(t, path))
  <1> DEFINE d == ParentOf(t, path)
             a == Last(path)
             e == ParentOf(t, dest)
             b == Last(dest)
             i == Resolve(t, path)
             s == DeleteChild(t, d, a)
  <1>1. /\ IsDir(t, d) /\ i \in 2 .. Len(t) /\ a \in DOMAIN t[d].kids /\ i = t[d].kids[a]
    BY FoundFacts DEF CanRename
  <1>2. d \in 1 .. Len(t) /\ e \in 1 .. Len(t) /\ b \in Names /\ IsDir(t, e)
    BY <1>1, ParentFacts DEF CanRename
  <1>3. ~ (d = e /\ a = b)
    <2>1. i = Child(t, d, a) /\ Resolve(t, dest) = Child(t, e, b)
      BY ResolveLast
    <2>2. QED  BY <2>1 DEF CanRename
  <1>4. t \in Seq(Node) /\ Len(t) \in Nat /\ i \in Nat \ {0, 1}
    BY <1>1, TreeFacts DEF Tree
  <1>5. Renamed(t, path, dest) = UpdateChild(s, e, b, i)
    BY <1>2, <1>3, <1>4, EntriesCommute DEF Renamed
  <1>6. QED  BY <1>1, <1>2, <1>5

LEMMA RenameTree ==
    ASSUME NEW t, Tree(t), NEW path \in Seq(Names), path # <<>>, NEW dest \in Seq(Names), dest # <<>>,
           CanRename(t, path, dest)
    PROVE  /\ Tree(Renamed(t, path, dest))
           /\ Kept(t) /\ IsFile(t, Resolve(t, path)) => Kept(Renamed(t, path, dest))
           /\ Len(Renamed(t, path, dest)) = Len(t)
           /\ \A x : Unnamed(t, x) => Unnamed(Renamed(t, path, dest), x)
  <1> DEFINE d == ParentOf(t, path)
             a == Last(path)
             e == ParentOf(t, dest)
             b == Last(dest)
             i == Resolve(t, path)
             s == DeleteChild(t, d, a)
  <1>1. /\ IsDir(t, d) /\ i \in 2 .. Len(t) /\ a \in DOMAIN t[d].kids /\ i = t[d].kids[a]
    BY RenamedIs
  <1>2. d \in 1 .. Len(t) /\ e \in 1 .. Len(t) /\ b \in Names
    BY RenamedIs
  <1>4. t \in Seq(Node) /\ Len(t) \in Nat /\ i \in Nat \ {0, 1}
    BY <1>1, TreeFacts DEF Tree
  <1>5. Renamed(t, path, dest) = UpdateChild(s, e, b, i)
    BY RenamedIs
  <1>6. Tree(s) /\ (Kept(t) => Kept(s))
    BY <1>2, DeleteTree
  <1>7. /\ Len(s) = Len(t)
        /\ \A j \in 1 .. Len(t) :
              /\ s[j].kind = t[j].kind /\ s[j].dirName = t[j].dirName
              /\ DOMAIN s[j].kids = DOMAIN t[j].kids \ (IF j = d THEN {a} ELSE {})
              /\ \A m \in DOMAIN s[j].kids : s[j].kids[m] = t[j].kids[m]
    BY <1>2, <1>4, DeleteFacts
  <1>8. IsFile(t, i) => t[i].kind = "REGULAR_FILE"
    BY DEF IsFile
  <1>9. OneEntry(t)
    BY DEF Tree
  <1> HIDE DEF d, a, e, b, i, s
  <1>10. Free(s, i)
    <2> SUFFICES ASSUME s[i].kind = "DIRECTORY", NEW j \in 1 .. Len(s),
                        NEW m \in DOMAIN s[j].kids, s[j].kids[m] = i
                 PROVE  FALSE
      BY DEF Free
    <2>1. j \in 1 .. Len(t) /\ m \in DOMAIN t[j].kids /\ t[j].kids[m] = i /\ ~ (j = d /\ m = a)
      BY <1>7
    <2>2. t[i].kind = "DIRECTORY"
      BY <1>1, <1>7
    <2>3. QED  BY <1>1, <1>2, <1>9, <2>1, <2>2 DEF OneEntry
  <1>11. /\ Tree(UpdateChild(s, e, b, i))
         /\ /\ Kept(s)
            /\ s[i].kind = "DIRECTORY" => s[i].dirName = Append(s[e].dirName, b)
            => Kept(UpdateChild(s, e, b, i))
    BY <1>1, <1>2, <1>6, <1>7, <1>10, UpdateTree
  <1>12. s[i].kind = t[i].kind
    BY <1>1, <1>4, <1>7
  <1>13. Len(UpdateChild(s, e, b, i)) = Len(t)
    <2>1. s \in Seq(Node) /\ e \in 1 .. Len(s)
      BY <1>2, <1>6, <1>7 DEF Tree
    <2>2. QED  BY <1>2, <1>4, <1>7, <2>1, UpdateFacts
  <1>14. ASSUME NEW x, Unnamed(t, x) PROVE Unnamed(UpdateChild(s, e, b, i), x)
    <2>1. s \in Seq(Node) /\ e \in 1 .. Len(s)
      BY <1>2, <1>6, <1>7 DEF Tree
    <2>2. x # i
      BY <1>1, <1>2, <1>14 DEF Unnamed
    <2>3. Unnamed(s, x)
      BY <1>2, <1>4, <1>14, EntriesName DEF s
    <2>4. QED  BY <1>2, <1>4, <2>1, <2>2, <2>3, EntriesName
  <1>15. QED  BY <1>5, <1>6, <1>8, <1>11, <1>12, <1>13, <1>14 DEF i

-----------------------------------------------------------------------------
(* Requests, and what a handler makes of a tree.                           *)

\* Paths that are sent may have any length: a directory that was moved keeps the
\* path it was made under.
Path      == Seq(Names) \ {<<>>}
Asked      == {Request(op, path) : op \in Ops \ {"RENAME"}, path \in Path}
              \cup {RenameOf(path, dest) : path \in Path, dest \in Path}
Announced  == {[op |-> op, paths |-> <<>>] : op \in Ops}

LEMMA AskedFacts ==
    ASSUME NEW req \in Asked
    PROVE  /\ req.op \in Ops /\ req.paths[1] \in Path
           /\ req.op = "RENAME" => req.paths[2] \in Path /\ req = RenameOf(req.paths[1], req.paths[2])
           /\ req.op # "RENAME" => req = Request(req.op, req.paths[1])
  <1>1. CASE \E op \in Ops \ {"RENAME"}, path \in Path : req = Request(op, path)
    BY <1>1 DEF Request
  <1>2. CASE \E path, dest \in Path : req = RenameOf(path, dest)
    BY <1>2 DEF RenameOf, Ops
  <1>3. QED  BY <1>1, <1>2 DEF Asked

LEMMA PathsFacts == Paths \subseteq Path
  <1>1. SUFFICES ASSUME NEW n \in 1 .. MaxDepth, NEW path \in [1 .. n -> Names]
                 PROVE  path \in Path
    BY DEF Paths
  <1>2. n \in Nat /\ path \in Seq(Names) /\ Len(path) = n
    <2>1. n \in Nat
      BY P2PNamespaceAssumption
    <2>2. path \in Seq(Names)
      BY <2>1, SeqDef
    <2>3. QED  BY <2>1, <2>2, LenProperties
  <1>3. path # <<>>
    BY <1>2, EmptySeq
  <1>4. QED  BY <1>2, <1>3 DEF Path

LEMMA RequestsFacts == Requests \subseteq Asked
  <1>1. ASSUME NEW op \in Ops \ {"RENAME"}, NEW path \in Paths PROVE Request(op, path) \in Asked
    BY PathsFacts DEF Asked
  <1>2. ASSUME NEW path \in Paths, NEW dest \in Paths PROVE RenameOf(path, dest) \in Asked
    BY PathsFacts DEF Asked
  <1>3. QED  BY <1>1, <1>2 DEF Requests

\* The tree after a handler, when the number of a new i-node is i, and when it is the
\* next one; and the request the handler is then to send.
MadeAt(t, i, req) ==
    CASE req.op = "CREATE_FILE" -> Enter(t, i, req.paths[1], INode("REGULAR_FILE", <<>>))
      [] req.op = "CREATE_DIR"  -> Enter(t, i, req.paths[1], INode("DIRECTORY", Named(t, req.paths[1])))
      [] req.op \in {"DELETE_FILE", "DELETE_DIR"} ->
            DeleteChild(t, ParentOf(t, req.paths[1]), Last(req.paths[1]))
      [] req.op = "RENAME"      -> Renamed(t, req.paths[1], req.paths[2])
Made(t, req) == MadeAt(t, Len(t) + 1, req)
ToSend(t, req) ==
    CASE req.op = "DELETE_DIR" -> Request(req.op, t[Resolve(t, req.paths[1])].dirName)
      [] req.op = "RENAME"     -> RenameOf(Named(t, req.paths[1]), Named(t, req.paths[2]))
      [] OTHER                 -> Request(req.op, Named(t, req.paths[1]))

\* The link counts after a handler of process p, and the handlers that take a number.
LinksMade(p, req) ==
    LET path == req.paths[1]
        t    == nodes[p]
    IN  CASE req.op = "CREATE_FILE" -> Put(links[p], NewIno(p), 1)
          [] req.op = "CREATE_DIR"  -> AddLinks(Put(links[p], NewIno(p), 2), ParentOf(t, path), 1)
          [] req.op = "DELETE_FILE" -> AddLinks(links[p], Resolve(t, path), -1)
          [] req.op = "DELETE_DIR"  ->
                [AddLinks(links[p], ParentOf(t, path), -1) EXCEPT ![Resolve(t, path)] = 0]
          [] req.op = "RENAME"      -> LinksRenamed(p, path, req.paths[2])
Registers(req) == req.op \in {"CREATE_FILE", "CREATE_DIR"}

LEMMA HandlerFacts ==
    ASSUME NEW p, NEW req \in Asked, Handler(p, req)
    PROVE  /\ Idle(p) /\ Accepts(nodes[p], req)
           /\ Reply(p, MadeAt(nodes[p], NewIno(p), req), LinksMade(p, req), ToSend(nodes[p], req))
           /\ Registers(req) => RegisterINode(p)
           /\ ~ Registers(req) => UNCHANGED queue
  <1>1. Idle(p)
    BY DEF Handler
  <1>2. CASE req.op = "CREATE_FILE" /\ FuseCreate(p, req.paths[1])
    BY <1>1, <1>2 DEF FuseCreate, Accepts, MadeAt, LinksMade, ToSend, Registers
  <1>3. CASE req.op = "CREATE_DIR" /\ FuseMkdir(p, req.paths[1])
    BY <1>1, <1>3 DEF FuseMkdir, Accepts, MadeAt, LinksMade, ToSend, Registers
  <1>4. CASE req.op = "DELETE_FILE" /\ FuseUnlink(p, req.paths[1])
    BY <1>1, <1>4 DEF FuseUnlink, Accepts, MadeAt, LinksMade, ToSend, Registers
  <1>5. CASE req.op = "DELETE_DIR" /\ FuseRmdir(p, req.paths[1])
    BY <1>1, <1>5 DEF FuseRmdir, Accepts, MadeAt, LinksMade, ToSend, Registers
  <1>6. CASE req.op = "RENAME" /\ FuseRename(p, req.paths[1], req.paths[2])
    BY <1>1, <1>6 DEF FuseRename, Accepts, MadeAt, LinksMade, ToSend, Registers, Renamed
  <1>7. QED  BY <1>2, <1>3, <1>4, <1>5, <1>6 DEF Handler

\* A handler leaves a tree a tree, and gives no name to a number other than the one
\* it takes.  As long as it renames no directory, a tree that is kept stays so, and
\* what it sends is what was asked of it.
LEMMA MadeTree ==
    ASSUME NEW t, Tree(t), NEW req \in Asked, Accepts(t, req), NEW i, Usable(t, i),
           NEW s, s = MadeAt(t, i, req)
    PROVE  /\ Tree(s) /\ ToSend(t, req) \in Asked
           /\ Kept(t) => ToSend(t, req) = req
           /\ Kept(t) /\ (req.op = "RENAME" => IsFile(t, Resolve(t, req.paths[1]))) => Kept(s)
           /\ Len(s) = IF Registers(req) /\ i > Len(t) THEN i ELSE Len(t)
           /\ \A x : Unnamed(t, x) /\ (Registers(req) => x # i) => Unnamed(s, x)
  <1> DEFINE path == req.paths[1]
             dest == req.paths[2]
             r    == DeleteChild(t, ParentOf(t, path), Last(path))
  <1>1. /\ req.op \in Ops /\ path \in Seq(Names) /\ path # <<>>
        /\ req.op = "RENAME" => dest \in Seq(Names) /\ dest # <<>> /\ req = RenameOf(path, dest)
        /\ req.op # "RENAME" => req = Request(req.op, path)
    BY AskedFacts DEF Path
  <1>2. IsDir(t, ParentOf(t, path))
    BY <1>1, FoundFacts DEF Accepts, CanMake, CanUnlink, CanRmdir, CanRename, IsFile, IsDir, Ops
  <1>3. /\ ParentOf(t, path) \in 1 .. Len(t)
        /\ Named(t, path) \in Seq(Names) /\ Named(t, path) # <<>>
        /\ Kept(t) => Named(t, path) = path
    BY <1>1, <1>2, ParentFacts
  <1>4. <<>> \in Seq(Names)
    BY EmptySeq
  <1>5. \A op \in Ops \ {"RENAME"}, p \in Path : Request(op, p) \in Asked
    BY DEF Asked
  <1> HIDE DEF path, dest, r
  <1>6. /\ Tree(r) /\ (Kept(t) => Kept(r)) /\ Len(r) = Len(t)
        /\ \A x : Unnamed(t, x) => Unnamed(r, x)
    <2>1. t \in Seq(Node)
      BY DEF Tree
    <2>2. Tree(r) /\ (Kept(t) => Kept(r))
      BY <1>3, DeleteTree DEF r
    <2>3. Len(r) = Len(t)
      BY <1>3, <2>1, DeleteFacts DEF r
    <2>4. \A x : Unnamed(t, x) => Unnamed(r, x)
      BY <1>3, <2>1, EntriesName DEF r
    <2>5. QED  BY <2>2, <2>3, <2>4
  <1>7. ASSUME NEW kind \in NodeKinds, NEW name \in Seq(Names), kind = "DIRECTORY" => name # <<>>,
               kind = "DIRECTORY" => name = Named(t, path), CanMake(t, path),
               s = Enter(t, i, path, INode(kind, name)), Registers(req),
               ToSend(t, req) = Request(req.op, Named(t, path)), req.op # "RENAME"
        PROVE  /\ Tree(s) /\ (Kept(t) => Kept(s)) /\ Len(s) = (IF i > Len(t) THEN i ELSE Len(t))
               /\ \A x : Unnamed(t, x) /\ x # i => Unnamed(s, x)
               /\ ToSend(t, req) \in Asked /\ (Kept(t) => ToSend(t, req) = req)
    <2> DEFINE u == Enter(t, i, path, INode(kind, name))
    <2>1. /\ Tree(u) /\ (Kept(t) => Kept(u)) /\ Len(u) = (IF i > Len(t) THEN i ELSE Len(t))
          /\ \A x : x # i /\ Unnamed(t, x) => Unnamed(u, x)
      BY <1>1, <1>7, EnterTree
    <2>2. s = u
      BY <1>7
    <2> HIDE DEF u
    <2>3. ToSend(t, req) \in Asked /\ (Kept(t) => ToSend(t, req) = req)
      BY <1>1, <1>3, <1>5, <1>7 DEF Path
    <2>4. QED  BY <2>1, <2>2, <2>3
  <1>8. CASE req.op = "CREATE_FILE"
    <2>1. /\ CanMake(t, path) /\ s = Enter(t, i, path, INode("REGULAR_FILE", <<>>))
          /\ Registers(req) /\ ToSend(t, req) = Request(req.op, Named(t, path))
      BY <1>8 DEF Accepts, MadeAt, ToSend, Registers, path
    <2>2. QED  BY <1>4, <1>7, <1>8, <2>1 DEF NodeKinds
  <1>9. CASE req.op = "CREATE_DIR"
    <2>1. /\ CanMake(t, path) /\ s = Enter(t, i, path, INode("DIRECTORY", Named(t, path)))
          /\ Registers(req) /\ ToSend(t, req) = Request(req.op, Named(t, path))
      BY <1>9 DEF Accepts, MadeAt, ToSend, Registers, path
    <2>2. QED  BY <1>3, <1>7, <1>9, <2>1 DEF NodeKinds
  <1>10. CASE req.op = "DELETE_FILE"
    <2>1. s = r /\ ~ Registers(req) /\ ToSend(t, req) = Request(req.op, Named(t, path))
      BY <1>10 DEF MadeAt, ToSend, Registers, path, r
    <2>2. ToSend(t, req) \in Asked /\ (Kept(t) => ToSend(t, req) = req)
      BY <1>1, <1>3, <1>5, <1>10, <2>1 DEF Path
    <2>3. QED  BY <1>6, <1>10, <2>1, <2>2
  <1>11. CASE req.op = "DELETE_DIR"
    <2>1. /\ s = r /\ ~ Registers(req)
          /\ ToSend(t, req) = Request(req.op, t[Resolve(t, path)].dirName)
      BY <1>11 DEF MadeAt, ToSend, Registers, path, r
    <2>2. IsDir(t, Resolve(t, path))
      BY <1>11 DEF Accepts, CanRmdir, path
    <2>3. Resolve(t, path) \in 2 .. Len(t) /\ t[Resolve(t, path)].kind = "DIRECTORY"
      BY <1>1, <2>2, FoundFacts DEF IsDir
    <2>4. t[Resolve(t, path)].dirName \in Path
      BY <2>3, TreeFacts DEF Tree, OthersNamed, Path
    <2>5. Kept(t) => t[Resolve(t, path)].dirName = path
      BY <1>1, <2>2, ResolveKept
    <2>6. ToSend(t, req) \in Asked /\ (Kept(t) => ToSend(t, req) = req)
      BY <1>1, <1>5, <1>11, <2>1, <2>4, <2>5
    <2>7. QED  BY <1>6, <1>11, <2>1, <2>6
  <1>12. CASE req.op = "RENAME"
    <2>1. /\ s = Renamed(t, path, dest) /\ ~ Registers(req)
          /\ ToSend(t, req) = RenameOf(Named(t, path), Named(t, dest))
      BY <1>12 DEF MadeAt, ToSend, Registers, path, dest
    <2>2. CanRename(t, path, dest)
      BY <1>12 DEF Accepts, path, dest
    <2>3. /\ Tree(s) /\ (Kept(t) /\ IsFile(t, Resolve(t, path)) => Kept(s)) /\ Len(s) = Len(t)
          /\ \A x : Unnamed(t, x) => Unnamed(s, x)
      BY <1>1, <1>12, <2>1, <2>2, RenameTree
    <2>4. Named(t, dest) \in Path /\ (Kept(t) => Named(t, dest) = dest)
      BY <1>1, <1>12, <2>2, ParentFacts DEF CanRename, Path
    <2>5. ToSend(t, req) \in Asked
      BY <1>3, <2>1, <2>4 DEF Asked, Path
    <2>6. Kept(t) => ToSend(t, req) = req
      BY <1>1, <1>3, <1>12, <2>1, <2>4
    <2>7. QED  BY <1>12, <2>1, <2>3, <2>5, <2>6 DEF path
  <1>13. QED  BY <1>1, <1>8, <1>9, <1>10, <1>11, <1>12, <1>7 DEF Ops

-----------------------------------------------------------------------------
(* Types.                                                                  *)

Message   == [kind : {"header"}, req : Announced] \cup [kind : {"payload"}, req : Asked]
FusePlace == {NoHandler} \cup [at : {"replied", "tested"}, req : Asked]
LoopPlace == {NextHeader, Failed} \cup [at : {"payload"}, req : Announced]
             \cup [at : {"call"}, req : Asked]

ThreadsType ==
    /\ fuse \in [Procs -> FusePlace] /\ loop \in [Procs -> LoopPlace]
    /\ flags \in [Procs -> SUBSET Ops] /\ chan \in [Procs -> [Procs -> Seq(Message)]]
HistoryType ==
    /\ origin \in Procs /\ orderly \in BOOLEAN
    /\ log \in Seq(Requests) /\ done \in [Procs -> Nat]
TreesType == nodes \in [Procs -> {t \in Seq(Node) : Tree(t)}]

\* Numbers that may be used again: each waits once, and no entry leads to it.
QueueOK(t, q) ==
    /\ q \in Seq(Nat)
    /\ \A k \in 1 .. Len(q) : q[k] \in 2 .. Len(t) /\ Unnamed(t, q[k])
    /\ \A j, k \in 1 .. Len(q) : q[j] = q[k] => j = k
TableType ==
    /\ links \in [Procs -> Seq(Int)] /\ deleted \in [Procs -> Seq(Nat)]
    /\ reclaiming \in [Procs -> BOOLEAN]
    /\ \A p \in Procs : Len(links[p]) = Len(nodes[p]) /\ QueueOK(nodes[p], deleted[p])
TypeInv == TreesType /\ TableType /\ ThreadsType /\ HistoryType

LEMMA InodesStill ==
    ASSUME TypeInv, UNCHANGED inodes
    PROVE  TreesType' /\ TableType'
  BY DEF TypeInv, TreesType, TableType, QueueOK, Unnamed, Tree, inodes

LEMMA PlaceFacts ==
    /\ \A x \in FusePlace : /\ x.at \in {"idle", "replied", "tested"}
                            /\ x.at = "idle" <=> x = NoHandler
                            /\ x.at # "idle" => x.req \in Asked
    /\ \A x \in LoopPlace : /\ x.at \in {"header", "failed", "payload", "call"}
                            /\ x.at = "header" <=> x = NextHeader
                            /\ x.at = "failed" <=> x = Failed
                            /\ x.at = "payload" => x.req \in Announced
                            /\ x.at = "call" => x.req \in Asked
    /\ \A m \in Message : /\ m.kind \in {"header", "payload"}
                          /\ m.kind = "header" => m.req \in Announced /\ m.req.op \in Ops
                          /\ m.kind = "payload" => m.req \in Asked
  <1>1. ASSUME NEW x \in FusePlace
        PROVE  /\ x.at \in {"idle", "replied", "tested"}
               /\ x.at = "idle" <=> x = NoHandler
               /\ x.at # "idle" => x.req \in Asked
    BY DEF FusePlace, NoHandler
  <1>2. ASSUME NEW x \in LoopPlace
        PROVE  /\ x.at \in {"header", "failed", "payload", "call"}
               /\ x.at = "header" <=> x = NextHeader
               /\ x.at = "failed" <=> x = Failed
               /\ x.at = "payload" => x.req \in Announced
               /\ x.at = "call" => x.req \in Asked
    BY DEF LoopPlace, NextHeader, Failed, At
  <1>3. ASSUME NEW m \in Message
        PROVE  /\ m.kind \in {"header", "payload"}
               /\ m.kind = "header" => m.req \in Announced /\ m.req.op \in Ops
               /\ m.kind = "payload" => m.req \in Asked
    BY DEF Message, Announced
  <1>4. QED  BY <1>1, <1>2, <1>3

LEMMA PacketFacts ==
    ASSUME NEW req \in Asked
    PROVE  /\ Header(req) \in Message /\ Header(req).kind = "header" /\ Header(req).req.op = req.op
           /\ Payload(req) \in Message /\ Payload(req).kind = "payload" /\ Payload(req).req = req
  <1>1. [op |-> req.op, paths |-> <<>>] \in Announced
    BY AskedFacts DEF Announced
  <1>2. QED  BY <1>1 DEF Header, Payload, Message

LEMMA InitType == ASSUME Init PROVE TypeInv
  <1>1. INode("DIRECTORY", <<>>) \in Node /\ DOMAIN INode("DIRECTORY", <<>>).kids = {}
        /\ INode("DIRECTORY", <<>>).kind = "DIRECTORY"
    BY INodeFacts, EmptySeq DEF NodeKinds
  <1> DEFINE t == <<INode("DIRECTORY", <<>>)>>
  <1>2. t \in Seq(Node) /\ Len(t) = 1 /\ t[1] = INode("DIRECTORY", <<>>)
    BY <1>1
  <1> HIDE DEF t
  <1>3. EntriesLead(t) /\ OneEntry(t) /\ OthersNamed(t)
    BY <1>1, <1>2 DEF EntriesLead, OneEntry, OthersNamed
  <1>4. RootIsDir(t)
    <2>1. t # <<>>
      BY DEF t
    <2>2. QED  BY <1>1, <1>2, <2>1 DEF RootIsDir, Root
  <1>5. TreesType
    BY <1>2, <1>3, <1>4 DEF Init, TreesType, Tree, t
  <1>6. ThreadsType
    BY EmptySeq DEF Init, ThreadsType, FusePlace, LoopPlace
  <1>7. HistoryType
    BY EmptySeq DEF Init, HistoryType
  <1>8. TableType
    <2>1. <<3>> \in Seq(Int) /\ Len(<<3>>) = 1 /\ <<>> \in Seq(Nat)
      BY EmptySeq
    <2>2. QueueOK(t, <<>>)
      BY EmptySeq DEF QueueOK
    <2>3. \A p \in Procs : nodes[p] = t /\ links[p] = <<3>> /\ deleted[p] = <<>>
      BY DEF Init, t
    <2>4. QED  BY <1>2, <2>1, <2>2, <2>3 DEF Init, TableType
  <1>9. QED  BY <1>5, <1>6, <1>7, <1>8 DEF TypeInv

LEMMA BroadcastType ==
    ASSUME ThreadsType, NEW p \in Procs, NEW req \in Asked, Broadcast(p, req)
    PROVE  /\ chan' \in [Procs -> [Procs -> Seq(Message)]]
           /\ \A s, r \in Procs : s # p => chan'[s][r] = chan[s][r]
           /\ \A r \in Procs :
                 chan'[p][r] = chan[p][r] \o IF r = p THEN <<Header(req)>> ELSE <<Header(req), Payload(req)>>
  <1>1. chan[p] \in [Procs -> Seq(Message)] /\ chan \in [Procs -> [Procs -> Seq(Message)]]
    BY DEF ThreadsType
  <1> DEFINE sent(r) == IF r = p THEN <<Header(req)>> ELSE <<Header(req), Payload(req)>>
             row     == [r \in Procs |-> chan[p][r] \o sent(r)]
  <1>2. ASSUME NEW r \in Procs PROVE chan[p][r] \o sent(r) \in Seq(Message)
    <2>1. sent(r) \in Seq(Message)
      BY PacketFacts
    <2> HIDE DEF sent
    <2>2. chan[p][r] \in Seq(Message)
      BY <1>1
    <2>3. QED  BY <2>1, <2>2, ConcatProperties
  <1>3. row \in [Procs -> Seq(Message)] /\ \A r \in Procs : row[r] = chan[p][r] \o sent(r)
    BY <1>2
  <1>4. chan' = [chan EXCEPT ![p] = row]
    BY <1>1 DEF Broadcast
  <1> HIDE DEF row
  <1>5. QED  BY <1>1, <1>3, <1>4

LEMMA ReceiveType ==
    ASSUME ThreadsType, NEW r \in Procs, NEW s \in Procs, Receive(r, s, Head(chan[s][r]))
    PROVE  /\ chan' \in [Procs -> [Procs -> Seq(Message)]]
           /\ Head(chan[s][r]) \in Message /\ chan[s][r] # <<>>
           /\ chan'[s][r] = Tail(chan[s][r])
           /\ \A p, q \in Procs : ~ (p = s /\ q = r) => chan'[p][q] = chan[p][q]
  <1>1. chan \in [Procs -> [Procs -> Seq(Message)]] /\ chan[s][r] \in Seq(Message)
    BY DEF ThreadsType
  <1>2. chan[s][r] # <<>> /\ chan' = [chan EXCEPT ![s][r] = Tail(@)]
    BY DEF Receive
  <1>3. Head(chan[s][r]) \in Message /\ Tail(chan[s][r]) \in Seq(Message)
    BY <1>1, <1>2, HeadTailProperties
  <1>4. QED  BY <1>1, <1>2, <1>3

\* Link counts keep in step with the numbers.
LEMMA CountsFacts ==
    ASSUME NEW ls \in Seq(Int)
    PROVE  /\ \A i \in 1 .. Len(ls) + 1, x \in Int :
                 /\ Put(ls, i, x) \in Seq(Int)
                 /\ Len(Put(ls, i, x)) = IF i > Len(ls) THEN i ELSE Len(ls)
           /\ \A i \in 1 .. Len(ls), n \in Int :
                 AddLinks(ls, i, n) \in Seq(Int) /\ Len(AddLinks(ls, i, n)) = Len(ls)
           /\ \A i \in 1 .. Len(ls), x \in Int :
                 [ls EXCEPT ![i] = x] \in Seq(Int) /\ Len([ls EXCEPT ![i] = x]) = Len(ls)
  <1>1. Len(ls) \in Nat /\ \A i \in 1 .. Len(ls) : ls[i] \in Int
    BY LenProperties, ElementOfSeq
  <1>2. ASSUME NEW i \in 1 .. Len(ls), NEW x \in Int
        PROVE  [ls EXCEPT ![i] = x] \in Seq(Int) /\ Len([ls EXCEPT ![i] = x]) = Len(ls)
    BY ExceptSeq
  <1>3. ASSUME NEW i \in 1 .. Len(ls), NEW n \in Int
        PROVE  AddLinks(ls, i, n) \in Seq(Int) /\ Len(AddLinks(ls, i, n)) = Len(ls)
    <2>1. ls[i] + n \in Int
      BY <1>1
    <2>2. AddLinks(ls, i, n) = [ls EXCEPT ![i] = ls[i] + n]
      BY DEF AddLinks
    <2>3. QED  BY <1>2, <2>1, <2>2
  <1>4. ASSUME NEW i \in 1 .. Len(ls) + 1, NEW x \in Int
        PROVE  /\ Put(ls, i, x) \in Seq(Int)
               /\ Len(Put(ls, i, x)) = IF i > Len(ls) THEN i ELSE Len(ls)
    <2>1. CASE i = Len(ls) + 1
      <3>1. Put(ls, i, x) = Append(ls, x)
        BY <1>1, <2>1 DEF Put
      <3>2. Append(ls, x) \in Seq(Int) /\ Len(Append(ls, x)) = Len(ls) + 1
        BY AppendProperties
      <3>3. QED  BY <1>1, <2>1, <3>1, <3>2
    <2>2. CASE i \in 1 .. Len(ls)
      <3>1. Put(ls, i, x) = [ls EXCEPT ![i] = x]
        BY <1>1, <2>2 DEF Put
      <3>2. QED  BY <1>1, <1>2, <2>2, <3>1
    <2>3. QED  BY <1>1, <2>1, <2>2
  <1>5. QED  BY <1>2, <1>3, <1>4

\* The number RegisterINode gives is new or waits and has no name; until a process
\* comes to use numbers again it is the next one.
LEMMA NewInoUsable ==
    ASSUME TypeInv, NEW p \in Procs
    PROVE  /\ Usable(nodes[p], NewIno(p)) /\ NewIno(p) \in 1 .. Len(nodes[p]) + 1
           /\ ~ reclaiming[p] => NewIno(p) = Len(nodes[p]) + 1 /\ ~ Reclaims(p)
           /\ Reclaims(p) => deleted[p] # <<>> /\ NewIno(p) = Head(deleted[p])
           /\ ~ Reclaims(p) => NewIno(p) = Len(nodes[p]) + 1
  <1>1. QueueOK(nodes[p], deleted[p]) /\ Tree(nodes[p]) /\ Len(nodes[p]) \in Nat
    BY TreeFacts DEF TypeInv, TableType, TreesType
  <1>2. CASE Reclaims(p)
    <2>1. deleted[p] # <<>> /\ NewIno(p) = Head(deleted[p]) /\ reclaiming[p]
      BY <1>2 DEF Reclaims, NewIno
    <2>2. Len(deleted[p]) \in Nat \ {0} /\ Head(deleted[p]) = deleted[p][1]
      BY <1>1, <2>1, LenProperties, EmptySeq DEF QueueOK
    <2>3. NewIno(p) \in 2 .. Len(nodes[p]) /\ Unnamed(nodes[p], NewIno(p))
      BY <1>1, <2>1, <2>2 DEF QueueOK
    <2>4. QED  BY <1>1, <1>2, <2>1, <2>3 DEF Usable
  <1>3. CASE ~ Reclaims(p)
    BY <1>1, <1>3 DEF NewIno, Usable
  <1>4. QED  BY <1>2, <1>3 DEF Reclaims

\* What waits still waits, but for the number given (0 where none is).
LEMMA QueueMade ==
    ASSUME NEW t, NEW q, QueueOK(t, q), NEW s, Len(t) \in Nat, Len(s) \in Nat, Len(t) <= Len(s),
           NEW i, \A x : Unnamed(t, x) /\ x # i => Unnamed(s, x),
           NEW u, \/ u = q /\ i \notin 2 .. Len(t)
                  \/ q # <<>> /\ i = Head(q) /\ u = Tail(q)
    PROVE  QueueOK(s, u)
  <1>1. /\ q \in Seq(Nat) /\ \A k \in 1 .. Len(q) : q[k] \in 2 .. Len(t) /\ Unnamed(t, q[k])
        /\ \A j, k \in 1 .. Len(q) : q[j] = q[k] => j = k
    BY DEF QueueOK
  <1>2. CASE u = q /\ i \notin 2 .. Len(t)
    BY <1>1, <1>2 DEF QueueOK
  <1>3. CASE q # <<>> /\ i = Head(q) /\ u = Tail(q)
    <2>1. Len(q) \in Nat \ {0} /\ Head(q) = q[1]
      BY <1>1, <1>3, LenProperties, EmptySeq
    <2>2. u \in Seq(Nat) /\ Len(u) = Len(q) - 1 /\ \A k \in 1 .. Len(u) : u[k] = q[k + 1]
      BY <1>1, <1>3, HeadTailProperties
    <2>3. ASSUME NEW k \in 1 .. Len(u) PROVE u[k] \in 2 .. Len(s) /\ Unnamed(s, u[k])
      <3>1. k + 1 \in 1 .. Len(q) /\ k + 1 # 1 /\ 1 \in 1 .. Len(q) /\ u[k] = q[k + 1]
        BY <2>1, <2>2
      <3>2. u[k] # i /\ u[k] \in 2 .. Len(t) /\ Unnamed(t, u[k])
        BY <1>1, <1>3, <2>1, <3>1
      <3>3. QED  BY <3>2
    <2>4. ASSUME NEW j \in 1 .. Len(u), NEW k \in 1 .. Len(u), u[j] = u[k] PROVE j = k
      <3>1. j + 1 \in 1 .. Len(q) /\ k + 1 \in 1 .. Len(q) /\ q[j + 1] = q[k + 1]
        BY <2>1, <2>2, <2>4
      <3>2. j + 1 = k + 1
        BY <1>1, <3>1
      <3>3. QED  BY <2>1, <2>2, <3>2
    <2>5. QED  BY <2>2, <2>3, <2>4 DEF QueueOK
  <1>4. QED  BY <1>2, <1>3

LEMMA LinksMadeType ==
    ASSUME TypeInv, NEW p \in Procs, NEW req \in Asked, Accepts(nodes[p], req)
    PROVE  /\ LinksMade(p, req) \in Seq(Int)
           /\ Len(LinksMade(p, req)) =
                 IF Registers(req) /\ NewIno(p) > Len(nodes[p]) THEN NewIno(p) ELSE Len(nodes[p])
  <1> DEFINE t    == nodes[p]
             ls   == links[p]
             path == req.paths[1]
             dest == req.paths[2]
             i    == NewIno(p)
  <1>1. Tree(t) /\ Len(t) \in Nat /\ ls \in Seq(Int) /\ Len(ls) = Len(t) /\ i \in 1 .. Len(ls) + 1
    BY NewInoUsable, TreeFacts DEF TypeInv, TableType, TreesType, Tree
  <1>2. /\ req.op \in Ops /\ path \in Seq(Names) /\ path # <<>>
        /\ req.op = "RENAME" => dest \in Seq(Names) /\ dest # <<>>
    BY AskedFacts DEF Path
  <1>3. IsDir(t, ParentOf(t, path))
    BY <1>1, <1>2, FoundFacts
       DEF Accepts, CanMake, CanUnlink, CanRmdir, CanRename, IsFile, IsDir, Ops
  <1>4. ParentOf(t, path) \in 1 .. Len(ls)
    BY <1>1, <1>2, <1>3, ParentFacts
  <1>5. CASE req.op = "CREATE_FILE"
    <2>1. LinksMade(p, req) = Put(ls, i, 1) /\ Registers(req)
      BY <1>5 DEF LinksMade, Registers
    <2> HIDE DEF i, ls, t
    <2>2. QED  BY <1>1, <2>1, CountsFacts DEF i, t
  <1>6. CASE req.op = "CREATE_DIR"
    <2> DEFINE u == Put(ls, i, 2)
    <2>1. LinksMade(p, req) = AddLinks(u, ParentOf(t, path), 1) /\ Registers(req)
      BY <1>6 DEF LinksMade, Registers
    <2> HIDE DEF i, ls, t, path
    <2>2. u \in Seq(Int) /\ Len(u) = IF i > Len(ls) THEN i ELSE Len(ls)
      BY <1>1, CountsFacts
    <2>3. ParentOf(t, path) \in 1 .. Len(u)
      BY <1>1, <1>4, <2>2
    <2> HIDE DEF u
    <2>4. AddLinks(u, ParentOf(t, path), 1) \in Seq(Int)
          /\ Len(AddLinks(u, ParentOf(t, path), 1)) = Len(u)
      BY <2>2, <2>3, CountsFacts
    <2>5. QED  BY <1>1, <2>1, <2>2, <2>4 DEF i, t
  <1>7. CASE req.op = "DELETE_FILE"
    <2>1. LinksMade(p, req) = AddLinks(ls, Resolve(t, path), -1) /\ ~ Registers(req)
      BY <1>7 DEF LinksMade, Registers
    <2>2. Resolve(t, path) # 0
      BY <1>7 DEF Accepts, CanUnlink, IsFile
    <2> HIDE DEF i, ls, t, path
    <2>3. Resolve(t, path) \in 1 .. Len(ls)
      BY <1>1, <1>2, <2>2, FoundFacts
    <2>4. QED  BY <1>1, <2>1, <2>3, CountsFacts DEF t
  <1>8. CASE req.op = "DELETE_DIR"
    <2> DEFINE u == AddLinks(ls, ParentOf(t, path), -1)
    <2>1. LinksMade(p, req) = [u EXCEPT ![Resolve(t, path)] = 0] /\ ~ Registers(req)
      BY <1>8 DEF LinksMade, Registers
    <2>2. Resolve(t, path) # 0
      BY <1>8 DEF Accepts, CanRmdir, IsDir
    <2> HIDE DEF i, ls, t, path
    <2>3. Resolve(t, path) \in 1 .. Len(ls)
      BY <1>1, <1>2, <2>2, FoundFacts
    <2>4. u \in Seq(Int) /\ Len(u) = Len(ls)
      BY <1>1, <1>4, CountsFacts
    <2> HIDE DEF u
    <2>5. [u EXCEPT ![Resolve(t, path)] = 0] \in Seq(Int)
          /\ Len([u EXCEPT ![Resolve(t, path)] = 0]) = Len(u)
      BY <2>3, <2>4, CountsFacts
    <2>6. QED  BY <1>1, <2>1, <2>4, <2>5 DEF t
  <1>9. CASE req.op = "RENAME"
    <2> DEFINE u == AddLinks(ls, ParentOf(t, path), -1)
    <2>1. LinksMade(p, req) \in {ls, AddLinks(u, ParentOf(t, dest), 1)} /\ ~ Registers(req)
      BY <1>9 DEF LinksMade, LinksRenamed, Registers
    <2>2. IsDir(t, ParentOf(t, dest))
      BY <1>9 DEF Accepts, CanRename
    <2> HIDE DEF i, ls, t, path, dest
    <2>3. ParentOf(t, dest) \in 1 .. Len(ls)
      BY <1>1, <1>2, <1>9, <2>2, ParentFacts
    <2>4. u \in Seq(Int) /\ Len(u) = Len(ls)
      BY <1>1, <1>4, CountsFacts
    <2> HIDE DEF u
    <2>5. AddLinks(u, ParentOf(t, dest), 1) \in Seq(Int)
          /\ Len(AddLinks(u, ParentOf(t, dest), 1)) = Len(u)
      BY <2>3, <2>4, CountsFacts
    <2>6. QED  BY <1>1, <2>1, <2>4, <2>5 DEF t
  <1>10. QED  BY <1>2, <1>5, <1>6, <1>7, <1>8, <1>9 DEF Ops

LEMMA ReplyType ==
    ASSUME TypeInv, NEW p \in Procs, NEW req \in Asked, Handler(p, req)
    PROVE  /\ TreesType' /\ TableType' /\ fuse' \in [Procs -> FusePlace] /\ done' \in [Procs -> Nat]
           /\ Idle(p) /\ Accepts(nodes[p], req) /\ Tree(nodes[p])
           /\ nodes' = [nodes EXCEPT ![p] = MadeAt(nodes[p], NewIno(p), req)]
           /\ fuse' = [fuse EXCEPT ![p] = [at |-> "replied", req |-> ToSend(nodes[p], req)]]
           /\ done' = [done EXCEPT ![p] = @ + 1]
           /\ \A r \in Procs : ~ reclaiming[r] => ~ reclaiming'[r]
  <1> DEFINE t == nodes[p]
             i == NewIno(p)
             s == MadeAt(t, i, req)
             l == LinksMade(p, req)
  <1>1. /\ Idle(p) /\ Accepts(t, req) /\ Reply(p, s, l, ToSend(t, req))
        /\ Registers(req) => RegisterINode(p)
        /\ ~ Registers(req) => UNCHANGED queue
    BY HandlerFacts
  <1>2. Tree(t) /\ QueueOK(t, deleted[p]) /\ Len(t) \in Nat
    BY TreeFacts DEF TypeInv, TreesType, TableType, Tree
  <1>3. /\ Usable(t, i) /\ i \in 1 .. Len(t) + 1
        /\ Reclaims(p) => deleted[p] # <<>> /\ i = Head(deleted[p])
        /\ ~ Reclaims(p) => i = Len(t) + 1
    BY NewInoUsable
  <1>4. l \in Seq(Int) /\ Len(l) = IF Registers(req) /\ i > Len(t) THEN i ELSE Len(t)
    BY <1>1, LinksMadeType
  <1> HIDE DEF t, i, s, l
  <1>5. /\ Tree(s) /\ ToSend(t, req) \in Asked
        /\ Len(s) = IF Registers(req) /\ i > Len(t) THEN i ELSE Len(t)
        /\ \A x : Unnamed(t, x) /\ (Registers(req) => x # i) => Unnamed(s, x)
    BY <1>1, <1>2, <1>3, MadeTree DEF s
  <1>6. /\ nodes' = [nodes EXCEPT ![p] = s] /\ links' = [links EXCEPT ![p] = l]
        /\ fuse' = [fuse EXCEPT ![p] = [at |-> "replied", req |-> ToSend(t, req)]]
        /\ done' = [done EXCEPT ![p] = @ + 1]
    BY <1>1 DEF Reply
  <1>7. TreesType'
    BY <1>5, <1>6 DEF TypeInv, TreesType, Tree
  <1>8. PICK u : /\ QueueOK(s, u) /\ deleted' = [deleted EXCEPT ![p] = u]
                 /\ reclaiming' \in [Procs -> BOOLEAN]
                 /\ \A r \in Procs : ~ reclaiming[r] => ~ reclaiming'[r]
    <2>1. deleted \in [Procs -> Seq(Nat)] /\ reclaiming \in [Procs -> BOOLEAN] /\ Len(s) \in Nat
          /\ Len(t) <= Len(s)
      <3>1. Len(s) \in Nat /\ Len(t) <= Len(s)
        BY <1>2, <1>3, <1>5
      <3>2. QED  BY <3>1 DEF TypeInv, TableType
    <2>2. CASE Registers(req) /\ Reclaims(p)
      <3>1. QueueOK(s, Tail(deleted[p]))
        BY <1>2, <1>3, <1>5, <2>1, <2>2, QueueMade
      <3>2. /\ deleted' = [deleted EXCEPT ![p] = Tail(deleted[p])]
            /\ reclaiming' = [reclaiming EXCEPT ![p] = Reclaims(p)]
        BY <1>1, <2>2 DEF RegisterINode
      <3>3. Reclaims(p) = TRUE /\ reclaiming[p]
        BY <2>2 DEF Reclaims
      <3>4. reclaiming' = [reclaiming EXCEPT ![p] = TRUE]
        BY <2>2, <3>2, <3>3
      <3>5. QED  BY <2>1, <3>1, <3>2, <3>3, <3>4
    <2>3. CASE Registers(req) /\ ~ Reclaims(p)
      <3>1. i \notin 2 .. Len(t)
        BY <1>2, <1>3, <2>3
      <3>2. QueueOK(s, deleted[p])
        BY <1>2, <1>5, <2>1, <2>3, <3>1, QueueMade
      <3>3. /\ deleted' = [deleted EXCEPT ![p] = deleted[p]]
            /\ reclaiming' = [reclaiming EXCEPT ![p] = Reclaims(p)]
        BY <1>1, <2>3 DEF RegisterINode
      <3>4. reclaiming' = [reclaiming EXCEPT ![p] = FALSE]
        <4>1. Reclaims(p) = FALSE
          BY <2>3 DEF Reclaims
        <4>2. QED  BY <3>3, <4>1
      <3>5. QED  BY <2>1, <3>2, <3>3, <3>4
    <2>4. CASE ~ Registers(req)
      <3>1. 0 \notin 2 .. Len(t) /\ \A x : Unnamed(t, x) /\ x # 0 => Unnamed(s, x)
        BY <1>2, <1>5, <2>4
      <3>2. QueueOK(s, deleted[p])
        BY <1>2, <2>1, <3>1, QueueMade
      <3>3. deleted' = [deleted EXCEPT ![p] = deleted[p]] /\ reclaiming' = reclaiming
        BY <1>1, <2>1, <2>4 DEF queue
      <3>4. QED  BY <2>1, <3>2, <3>3
    <2>5. QED  BY <2>2, <2>3, <2>4
  <1>9. TableType'
    <2>1. u \in Seq(Nat)
      BY <1>8 DEF QueueOK
    <2>2. /\ links' \in [Procs -> Seq(Int)] /\ deleted' \in [Procs -> Seq(Nat)]
      BY <1>4, <1>6, <1>8, <2>1 DEF TypeInv, TableType
    <2>3. ASSUME NEW r \in Procs
          PROVE  Len(links'[r]) = Len(nodes'[r]) /\ QueueOK(nodes'[r], deleted'[r])
      <3>1. CASE r = p
        <4>1. links'[r] = l /\ nodes'[r] = s /\ deleted'[r] = u
          BY <1>6, <1>8, <3>1 DEF TypeInv, TableType, TreesType
        <4>2. QED  BY <1>4, <1>5, <1>8, <4>1
      <3>2. CASE r # p
        <4>1. links'[r] = links[r] /\ nodes'[r] = nodes[r] /\ deleted'[r] = deleted[r]
          BY <1>6, <1>8, <3>2 DEF TypeInv, TableType, TreesType
        <4>2. QED  BY <4>1 DEF TypeInv, TableType
      <3>3. QED  BY <3>1, <3>2
    <2>4. QED  BY <1>8, <2>2, <2>3 DEF TableType, QueueOK, Unnamed
  <1>10. fuse' \in [Procs -> FusePlace]
    BY <1>5, <1>6 DEF TypeInv, ThreadsType, FusePlace
  <1>11. done' \in [Procs -> Nat]
    BY <1>6 DEF TypeInv, HistoryType
  <1>12. QED  BY <1>1, <1>2, <1>6, <1>7, <1>8, <1>9, <1>10, <1>11 DEF s, t, i

LEMMA TestFlagType == ASSUME TypeInv, NEW p \in Procs, TestFlag(p) PROVE TypeInv'
  <1>1. fuse[p] \in FusePlace /\ fuse[p].at = "replied" /\ fuse[p].req \in Asked
    BY PlaceFacts DEF TypeInv, ThreadsType, TestFlag
  <1>2. chan' \in [Procs -> [Procs -> Seq(Message)]]
    <2>1. CASE Broadcast(p, fuse[p].req)
      BY <1>1, <2>1, BroadcastType DEF TypeInv
    <2>2. CASE UNCHANGED chan
      BY <2>2 DEF TypeInv, ThreadsType
    <2>3. QED  BY <2>1, <2>2 DEF TestFlag
  <1>3. fuse' \in [Procs -> FusePlace]
    <2>1. [fuse[p] EXCEPT !.at = "tested"] \in FusePlace /\ NoHandler \in FusePlace
      BY <1>1 DEF FusePlace, NoHandler
    <2>2. QED  BY <2>1 DEF TypeInv, ThreadsType, TestFlag
  <1>4. TreesType' /\ TableType'
    BY InodesStill DEF TestFlag
  <1>5. QED
    BY <1>4, <1>2, <1>3 DEF TypeInv, ThreadsType, HistoryType, TestFlag, users

LEMMA ClearFlagType == ASSUME TypeInv, NEW p \in Procs, ClearFlag(p) PROVE TypeInv'
  <1>1. fuse' \in [Procs -> FusePlace]
    BY DEF TypeInv, ThreadsType, ClearFlag, FusePlace
  <1>2. flags' \in [Procs -> SUBSET Ops]
    BY DEF TypeInv, ThreadsType, ClearFlag
  <1>3. TreesType' /\ TableType'
    BY InodesStill DEF ClearFlag
  <1>4. QED
    BY <1>3, <1>1, <1>2 DEF TypeInv, ThreadsType, HistoryType, ClearFlag, users

LEMMA ReceiveHeaderType == ASSUME TypeInv, NEW r \in Procs, ReceiveHeader(r) PROVE TypeInv'
  <1> DEFINE m(s) == Head(chan[s][r])
  <1>1. PICK s \in Procs :
           /\ Receive(r, s, m(s))
           /\ flags' = [flags EXCEPT ![r] =
                  IF m(s).kind = "header" /\ s # r THEN @ \cup {m(s).req.op} ELSE @]
           /\ loop' = [loop EXCEPT ![r] = CASE m(s).kind = "payload" -> Failed
                                            [] m(s).kind = "header" /\ s = r -> @
                                            [] m(s).kind = "header" /\ s # r -> At("payload", m(s).req)]
    BY DEF ReceiveHeader
  <1>2. m(s) \in Message /\ chan' \in [Procs -> [Procs -> Seq(Message)]]
    BY <1>1, ReceiveType DEF TypeInv
  <1>3. /\ m(s).kind \in {"header", "payload"}
        /\ m(s).kind = "header" => m(s).req \in Announced /\ m(s).req.op \in Ops
    BY <1>2, PlaceFacts
  <1> HIDE DEF m
  <1>4. flags' \in [Procs -> SUBSET Ops]
    BY <1>1, <1>3 DEF TypeInv, ThreadsType
  <1>5. loop' \in [Procs -> LoopPlace]
    <2>1. loop[r] \in LoopPlace /\ loop \in [Procs -> LoopPlace]
      BY DEF TypeInv, ThreadsType
    <2>2. Failed \in LoopPlace /\ (m(s).kind = "header" => At("payload", m(s).req) \in LoopPlace)
      BY <1>3 DEF LoopPlace, At
    <2>3. CASE m(s).kind = "payload"
      BY <1>1, <2>1, <2>2, <2>3
    <2>4. CASE m(s).kind = "header" /\ s = r
      BY <1>1, <2>1, <2>4
    <2>5. CASE m(s).kind = "header" /\ s # r
      BY <1>1, <2>1, <2>2, <2>5
    <2>6. QED  BY <1>3, <2>3, <2>4, <2>5
  <1>6. orderly' \in BOOLEAN
    BY DEF TypeInv, HistoryType, ReceiveHeader
  <1>7. TreesType' /\ TableType'
    BY InodesStill DEF ReceiveHeader
  <1>8. QED
    BY <1>2, <1>4, <1>5, <1>6, <1>7 DEF TypeInv, ThreadsType, HistoryType, ReceiveHeader

LEMMA ReceivePayloadType == ASSUME TypeInv, NEW r \in Procs, ReceivePayload(r) PROVE TypeInv'
  <1> DEFINE m(s) == Head(chan[s][r])
  <1>1. PICK s \in Procs :
           /\ Receive(r, s, m(s))
           /\ loop' = [loop EXCEPT ![r] =
                  IF m(s).kind = "payload" THEN At("call", m(s).req) ELSE Failed]
    BY DEF ReceivePayload
  <1>2. m(s) \in Message /\ chan' \in [Procs -> [Procs -> Seq(Message)]]
    BY <1>1, ReceiveType DEF TypeInv
  <1>3. m(s).kind = "payload" => m(s).req \in Asked
    BY <1>2, PlaceFacts
  <1> HIDE DEF m
  <1>4. loop' \in [Procs -> LoopPlace]
    <2>1. Failed \in LoopPlace /\ (m(s).kind = "payload" => At("call", m(s).req) \in LoopPlace)
      BY <1>3 DEF LoopPlace, At
    <2>2. QED  BY <1>1, <2>1 DEF TypeInv, ThreadsType
  <1>5. TreesType' /\ TableType'
    BY InodesStill DEF ReceivePayload
  <1>6. QED
    BY <1>2, <1>4, <1>5 DEF TypeInv, ThreadsType, HistoryType, ReceivePayload, users

LEMMA RepeatType == ASSUME TypeInv, NEW r \in Procs, Repeat(r) PROVE TypeInv'
  <1>1. loop[r].req \in Asked
    BY PlaceFacts DEF TypeInv, ThreadsType, Repeat
  <1>2. TreesType' /\ TableType' /\ fuse' \in [Procs -> FusePlace] /\ done' \in [Procs -> Nat]
    BY <1>1, ReplyType DEF Repeat
  <1>3. loop' \in [Procs -> LoopPlace]
    BY DEF TypeInv, ThreadsType, Repeat, LoopPlace
  <1>4. QED  BY <1>2, <1>3 DEF TypeInv, ThreadsType, HistoryType, Repeat, users

LEMMA RefusedType == ASSUME TypeInv, NEW r \in Procs, Refused(r) PROVE TypeInv'
  <1>1. loop' \in [Procs -> LoopPlace]
    BY DEF TypeInv, ThreadsType, Refused, LoopPlace
  <1>2. TreesType' /\ TableType'
    BY InodesStill DEF Refused
  <1>3. QED
    BY <1>1, <1>2 DEF TypeInv, ThreadsType, HistoryType, Refused, users

LEMMA UserType ==
    ASSUME TypeInv, NEW p \in Procs, NEW req \in Requests, User(p, req)
    PROVE  TypeInv'
  <1>1. req \in Asked
    BY RequestsFacts
  <1>2. TreesType' /\ TableType' /\ fuse' \in [Procs -> FusePlace] /\ done' \in [Procs -> Nat]
    BY <1>1, ReplyType DEF User
  <1>3. log' \in Seq(Requests) /\ origin' \in Procs
    BY AppendProperties DEF TypeInv, HistoryType, User
  <1>4. orderly' \in BOOLEAN
    BY DEF TypeInv, HistoryType, User
  <1>5. QED  BY <1>2, <1>3, <1>4 DEF TypeInv, ThreadsType, HistoryType, User

LEMMA ForgetType ==
    ASSUME TypeInv, NEW p \in Procs, NEW i \in DOMAIN nodes[p], FuseForget(p, i)
    PROVE  TypeInv'
  <1> DEFINE t == nodes[p]
             q == deleted[p]
  <1>1. t \in Seq(Node) /\ QueueOK(t, q) /\ Len(t) \in Nat /\ DOMAIN t = 1 .. Len(t)
    BY TreeFacts DEF TypeInv, TreesType, TableType, Tree
  <1>2. i \in 2 .. Len(t)
    BY <1>1 DEF FuseForget, Root
  <1>3. Unnamed(t, i)
    <2> SUFFICES ASSUME NEW j \in 1 .. Len(t), NEW m \in DOMAIN t[j].kids, t[j].kids[m] = i
                 PROVE  FALSE
      BY DEF Unnamed
    <2>1. i \in Range(t[j].kids) /\ j \in DOMAIN t
      BY <1>1 DEF Range
    <2>2. QED  BY <2>1 DEF FuseForget
  <1>4. q \in Seq(Nat) /\ Len(q) \in Nat /\ DOMAIN q = 1 .. Len(q)
    BY <1>1, LenProperties DEF QueueOK
  <1>5. \A k \in 1 .. Len(q) : q[k] # i
    BY <1>4 DEF FuseForget, Range
  <1> DEFINE u == Append(q, i)
  <1>6. u \in Seq(Nat) /\ Len(u) = Len(q) + 1 /\ u[Len(q) + 1] = i /\ \A k \in 1 .. Len(q) : u[k] = q[k]
    BY <1>2, <1>4, AppendProperties
  <1>7. nodes' = nodes /\ links' = links /\ deleted' = [deleted EXCEPT ![p] = u]
    BY DEF FuseForget
  <1>8. reclaiming' = [reclaiming EXCEPT ![p] = reclaiming[p] \/ Len(q) + 1 > Threshold]
    BY DEF FuseForget, TypeInv, TableType
  <1> HIDE DEF u, q, t
  <1>9. QueueOK(t, u)
    <2>1. ASSUME NEW k \in 1 .. Len(u) PROVE u[k] \in 2 .. Len(t) /\ Unnamed(t, u[k])
      <3>1. CASE k = Len(q) + 1
        BY <1>2, <1>3, <1>6, <3>1
      <3>2. CASE k \in 1 .. Len(q)
        BY <1>1, <1>6, <3>2 DEF QueueOK
      <3>3. QED  BY <1>4, <1>6, <3>1, <3>2
    <2>2. ASSUME NEW j \in 1 .. Len(u), NEW k \in 1 .. Len(u), u[j] = u[k] PROVE j = k
      <3>1. CASE j \in 1 .. Len(q) /\ k \in 1 .. Len(q)
        BY <1>1, <1>6, <2>2, <3>1 DEF QueueOK
      <3>2. CASE j = Len(q) + 1 \/ k = Len(q) + 1
        BY <1>4, <1>5, <1>6, <2>2, <3>2
      <3>3. QED  BY <1>4, <1>6, <3>1, <3>2
    <2>3. QED  BY <1>6, <2>1, <2>2 DEF QueueOK
  <1>10. TableType'
    <2>1. deleted' \in [Procs -> Seq(Nat)] /\ reclaiming' \in [Procs -> BOOLEAN]
      BY <1>6, <1>7, <1>8 DEF TypeInv, TableType
    <2>2. ASSUME NEW r \in Procs
          PROVE  Len(links'[r]) = Len(nodes'[r]) /\ QueueOK(nodes'[r], deleted'[r])
      <3>1. CASE r = p
        <4>1. links'[r] = links[r] /\ nodes'[r] = t /\ deleted'[r] = u
          BY <1>7, <3>1 DEF TypeInv, TableType, TreesType, t
        <4>2. QED  BY <1>9, <3>1, <4>1 DEF TypeInv, TableType, t
      <3>2. CASE r # p
        <4>1. links'[r] = links[r] /\ nodes'[r] = nodes[r] /\ deleted'[r] = deleted[r]
          BY <1>7, <3>2 DEF TypeInv, TableType, TreesType
        <4>2. QED  BY <4>1 DEF TypeInv, TableType
      <3>3. QED  BY <3>1, <3>2
    <2>3. links' \in [Procs -> Seq(Int)]
      BY <1>7 DEF TypeInv, TableType
    <2>4. QED  BY <2>1, <2>2, <2>3 DEF TableType, QueueOK, Unnamed
  <1>11. TreesType'
    BY <1>7 DEF TypeInv, TreesType, Tree
  <1>12. orderly' \in BOOLEAN
    <2>1. reclaiming'[p] \in BOOLEAN
      BY <1>10 DEF TableType
    <2>2. QED  BY <2>1 DEF TypeInv, HistoryType, FuseForget
  <1>13. QED  BY <1>10, <1>11, <1>12 DEF TypeInv, ThreadsType, HistoryType, FuseForget

LEMMA UserAloneType == ASSUME TypeInv, NEW p \in Procs, UserAlone(p) PROVE TypeInv'
  <1> DEFINE t == nodes[p]
             i == NewIno(p)
  <1>1. PICK path \in Paths, dest \in Paths : FuseMknod(p, path) \/ FuseLink(p, path, dest)
    BY DEF UserAlone
  <1>2. /\ path \in Seq(Names) /\ path # <<>> /\ dest \in Seq(Names) /\ dest # <<>>
        /\ Tree(t) /\ t \in Seq(Node) /\ Len(t) \in Nat /\ QueueOK(t, deleted[p])
        /\ links[p] \in Seq(Int) /\ Len(links[p]) = Len(t)
    BY PathsFacts, TreeFacts DEF Path, TypeInv, TreesType, TableType
  <1>3. PICK s, l, u : /\ nodes' = [nodes EXCEPT ![p] = s] /\ links' = [links EXCEPT ![p] = l]
                       /\ deleted' = [deleted EXCEPT ![p] = u] /\ Tree(s)
                       /\ l \in Seq(Int) /\ Len(l) = Len(s) /\ QueueOK(s, u)
                       /\ reclaiming' \in [Procs -> BOOLEAN]
    <2>1. CASE FuseMknod(p, path)
      <3> DEFINE s == Enter(t, i, path, INode("REGULAR_FILE", <<>>))
                 l == Put(links[p], i, 1)
                 u == IF Reclaims(p) THEN Tail(deleted[p]) ELSE deleted[p]
      <3>1. CanMake(t, path) /\ <<>> \in Seq(Names)
        BY <2>1, EmptySeq DEF FuseMknod
      <3>2. /\ nodes' = [nodes EXCEPT ![p] = s] /\ links' = [links EXCEPT ![p] = l]
            /\ deleted' = [deleted EXCEPT ![p] = u]
            /\ reclaiming' = [reclaiming EXCEPT ![p] = Reclaims(p)]
        <4>1. /\ nodes' = [nodes EXCEPT ![p] = s] /\ links' = [links EXCEPT ![p] = l]
          BY <2>1 DEF FuseMknod
        <4>2. RegisterINode(p)
          BY <2>1 DEF FuseMknod
        <4> HIDE DEF s, l
        <4>3. QED  BY <4>1, <4>2 DEF RegisterINode
      <3>3. /\ Usable(t, i) /\ i \in 1 .. Len(t) + 1
            /\ Reclaims(p) => deleted[p] # <<>> /\ i = Head(deleted[p])
            /\ ~ Reclaims(p) => i = Len(t) + 1
        BY NewInoUsable
      <3> HIDE DEF t, i
      <3>4. /\ Tree(s) /\ Len(s) = (IF i > Len(t) THEN i ELSE Len(t))
            /\ \A x : x # i /\ Unnamed(t, x) => Unnamed(s, x)
        <4>1. ASSUME NEW kind \in NodeKinds, NEW name \in Seq(Names), kind # "DIRECTORY",
                     NEW v, v = Enter(t, i, path, INode(kind, name))
              PROVE  /\ Tree(v) /\ Len(v) = (IF i > Len(t) THEN i ELSE Len(t))
                     /\ \A x : x # i /\ Unnamed(t, x) => Unnamed(v, x)
          BY <1>2, <3>1, <3>3, <4>1, EnterTree
        <4>2. "REGULAR_FILE" \in NodeKinds /\ "REGULAR_FILE" # "DIRECTORY"
          BY DEF NodeKinds
        <4>3. QED  BY <3>1, <4>1, <4>2
      <3>5. l \in Seq(Int) /\ Len(l) = Len(s)
        <4> DEFINE ls == links[p]
        <4>1. ls \in Seq(Int) /\ i \in 1 .. Len(ls) + 1
          BY <1>2, <3>3
        <4>2. Len(ls) = Len(t) /\ l = Put(ls, i, 1)
          BY <1>2
        <4> HIDE DEF s, l, ls
        <4>3. Put(ls, i, 1) \in Seq(Int) /\ Len(Put(ls, i, 1)) = IF i > Len(ls) THEN i ELSE Len(ls)
          BY <4>1, CountsFacts
        <4>4. QED  BY <3>4, <4>2, <4>3
      <3> HIDE DEF s, l
      <3>6. Len(s) \in Nat /\ Len(t) <= Len(s)
        BY <1>2, <3>3, <3>4
      <3>7. QueueOK(s, u)
        <4>1. CASE Reclaims(p)
          <5>1. QueueOK(s, Tail(deleted[p]))
            BY <1>2, <3>3, <3>4, <3>6, <4>1, QueueMade
          <5>2. QED  BY <4>1, <5>1
        <4>2. CASE ~ Reclaims(p)
          <5>1. i \notin 2 .. Len(t)
            BY <1>2, <3>3, <4>2
          <5>2. QueueOK(s, deleted[p])
            BY <1>2, <3>4, <3>6, <5>1, QueueMade
          <5>3. QED  BY <4>2, <5>2
        <4>3. QED  BY <4>1, <4>2
      <3>8. reclaiming' \in [Procs -> BOOLEAN]
        <4>1. Reclaims(p) \in BOOLEAN
          BY DEF Reclaims, TypeInv, TableType
        <4>2. QED  BY <3>2, <4>1 DEF TypeInv, TableType
      <3> HIDE DEF u
      <3>9. QED  BY <3>2, <3>4, <3>5, <3>7, <3>8
    <2>2. CASE FuseLink(p, path, dest)
      <3> DEFINE e == ParentOf(t, dest)
                 c == Resolve(t, path)
                 s == UpdateChild(t, e, Last(dest), c)
                 l == AddLinks(links[p], c, 1)
      <3>1. /\ CanUnlink(t, path) /\ CanMake(t, dest) /\ nodes' = [nodes EXCEPT ![p] = s]
            /\ links' = [links EXCEPT ![p] = l] /\ UNCHANGED queue
        BY <2>2 DEF FuseLink
      <3>2. Tree(s)
        BY <1>2, <3>1, LinkTree
      <3>3. IsDir(t, e) /\ c # 0
        BY <3>1 DEF CanMake, CanUnlink, IsFile
      <3> HIDE DEF t
      <3>4. e \in 1 .. Len(t) /\ Last(dest) \in Names /\ c \in 2 .. Len(t)
        BY <1>2, <3>3, ParentFacts, FoundFacts
      <3>5. Last(path) \in DOMAIN t[ParentOf(t, path)].kids /\ c = t[ParentOf(t, path)].kids[Last(path)]
            /\ ParentOf(t, path) \in 1 .. Len(t)
        BY <1>2, <3>3, FoundFacts, ParentFacts
      <3> HIDE DEF e, c
      <3>6. c \in Nat \ {0, 1}
        BY <3>4
      <3>7. Len(s) = Len(t)
        BY <1>2, <3>4, <3>6, UpdateFacts
      <3>8. l \in Seq(Int) /\ Len(l) = Len(s)
        BY <1>2, <3>4, <3>7, CountsFacts
      <3>9. ASSUME NEW x, Unnamed(t, x) PROVE Unnamed(s, x)
        <4>1. x # c
          BY <3>5, <3>9 DEF Unnamed
        <4>2. QED  BY <1>2, <3>4, <3>6, <3>9, <4>1, EntriesName
      <3> HIDE DEF s, l
      <3>10. QueueOK(s, deleted[p])
        <4>1. 0 \notin 2 .. Len(t) /\ \A x : Unnamed(t, x) /\ x # 0 => Unnamed(s, x)
          BY <1>2, <3>9
        <4>2. QED  BY <1>2, <3>7, <4>1, QueueMade
      <3>11. deleted' = [deleted EXCEPT ![p] = deleted[p]] /\ reclaiming' \in [Procs -> BOOLEAN]
        BY <3>1 DEF queue, TypeInv, TableType
      <3>12. QED  BY <3>1, <3>2, <3>8, <3>10, <3>11
    <2>3. QED  BY <1>1, <2>1, <2>2
  <1>4. TreesType'
    BY <1>3 DEF TypeInv, TreesType, Tree
  <1>5. TableType'
    <2>1. u \in Seq(Nat)
      BY <1>3 DEF QueueOK
    <2>2. links' \in [Procs -> Seq(Int)] /\ deleted' \in [Procs -> Seq(Nat)]
      BY <1>3, <2>1 DEF TypeInv, TableType
    <2>3. ASSUME NEW r \in Procs
          PROVE  Len(links'[r]) = Len(nodes'[r]) /\ QueueOK(nodes'[r], deleted'[r])
      <3>1. CASE r = p
        <4>1. links'[r] = l /\ nodes'[r] = s /\ deleted'[r] = u
          BY <1>3, <3>1 DEF TypeInv, TableType, TreesType
        <4>2. QED  BY <1>3, <4>1
      <3>2. CASE r # p
        <4>1. links'[r] = links[r] /\ nodes'[r] = nodes[r] /\ deleted'[r] = deleted[r]
          BY <1>3, <3>2 DEF TypeInv, TableType, TreesType
        <4>2. QED  BY <4>1 DEF TypeInv, TableType
      <3>3. QED  BY <3>1, <3>2
    <2>4. QED  BY <1>3, <2>2, <2>3 DEF TableType, QueueOK, Unnamed
  <1>6. QED  BY <1>4, <1>5 DEF TypeInv, ThreadsType, HistoryType, UserAlone

THEOREM TypeInvariance == Spec => []TypeInv
  <1>1. Init => TypeInv
    BY InitType
  <1>2. TypeInv /\ [Next]_vars => TypeInv'
    <2> SUFFICES ASSUME TypeInv, [Next]_vars PROVE TypeInv'
      OBVIOUS
    <2>1. CASE UNCHANGED vars
      <3>1. TreesType' /\ TableType'
        BY <2>1, InodesStill DEF vars, inodes
      <3>2. QED  BY <2>1, <3>1 DEF TypeInv, ThreadsType, HistoryType, vars
    <2>2. ASSUME NEW p \in Procs, Serve(p) PROVE TypeInv'
      BY <2>2, TestFlagType, ClearFlagType, ReceiveHeaderType, ReceivePayloadType, RepeatType,
         RefusedType DEF Serve
    <2>3. ASSUME NEW p \in Procs, UserAlone(p) PROVE TypeInv'
      BY <2>3, UserAloneType
    <2>4. ASSUME NEW p \in Procs, NEW req \in Requests, User(p, req) PROVE TypeInv'
      BY <2>4, UserType
    <2>5. ASSUME NEW p \in Procs, NEW i \in DOMAIN nodes[p], FuseForget(p, i) PROVE TypeInv'
      BY <2>5, ForgetType
    <2>6. QED  BY <2>1, <2>2, <2>3, <2>4, <2>5 DEF Next, Rest
  <1>3. QED  BY <1>1, <1>2, PTL DEF Spec

\* Trees stay trees on every process, whoever changes them and whichever messages
\* come when: no entry leads nowhere and no directory has two.
THEOREM TypeCorrect == Spec => []TypeOK
  <1>1. TypeInv => TypeOK
    <2> SUFFICES ASSUME TypeInv PROVE TypeOK
      OBVIOUS
    <2>1. ASSUME NEW p \in Procs
          PROVE  LET t == nodes[p] IN
                 /\ DOMAIN t = 1 .. Len(t)
                 /\ \A i \in DOMAIN t :
                       /\ t[i].kind \in {"DIRECTORY", "REGULAR_FILE"}
                       /\ DOMAIN t[i].kids \subseteq Names
                       /\ \A n \in DOMAIN t[i].kids : t[i].kids[n] \in 2 .. Len(t)
                 /\ links[p] \in Seq(Int) /\ Len(links[p]) = Len(t)
                 /\ \A k \in DOMAIN deleted[p] :
                       /\ deleted[p][k] \in 2 .. Len(t)
                       /\ \A i \in DOMAIN t : \A n \in DOMAIN t[i].kids : t[i].kids[n] # deleted[p][k]
                       /\ \A j \in DOMAIN deleted[p] : deleted[p][j] = deleted[p][k] => j = k
                 /\ \A i, j \in DOMAIN t : \A n \in DOMAIN t[i].kids, m \in DOMAIN t[j].kids :
                       t[i].kids[n] = t[j].kids[m] /\ IsDir(t, t[i].kids[n]) => <<i, n>> = <<j, m>>
      <3> DEFINE t == nodes[p]
      <3>1. t \in Seq(Node) /\ EntriesLead(t) /\ OneEntry(t)
        BY DEF TypeInv, TreesType, Tree
      <3> HIDE DEF t
      <3>2. DOMAIN t = 1 .. Len(t)
        BY <3>1, TreeFacts
      <3>3. ASSUME NEW i \in DOMAIN t
            PROVE  /\ t[i].kind \in {"DIRECTORY", "REGULAR_FILE"}
                   /\ DOMAIN t[i].kids \subseteq Names
                   /\ \A n \in DOMAIN t[i].kids : t[i].kids[n] \in 2 .. Len(t)
        BY <3>1, TreeFacts DEF NodeKinds, EntriesLead
      <3>4. \A i, j \in DOMAIN t : \A n \in DOMAIN t[i].kids, m \in DOMAIN t[j].kids :
               t[i].kids[n] = t[j].kids[m] /\ IsDir(t, t[i].kids[n]) => <<i, n>> = <<j, m>>
        BY <3>1, <3>2 DEF OneEntry, IsDir
      <3>5. /\ links[p] \in Seq(Int) /\ Len(links[p]) = Len(t)
            /\ QueueOK(t, deleted[p]) /\ DOMAIN deleted[p] = 1 .. Len(deleted[p])
        BY LenProperties DEF TypeInv, TableType, QueueOK, t
      <3>6. \A k \in DOMAIN deleted[p] :
               /\ deleted[p][k] \in 2 .. Len(t)
               /\ \A i \in DOMAIN t : \A n \in DOMAIN t[i].kids : t[i].kids[n] # deleted[p][k]
               /\ \A j \in DOMAIN deleted[p] : deleted[p][j] = deleted[p][k] => j = k
        BY <3>2, <3>5 DEF QueueOK, Unnamed
      <3>7. QED  BY <3>2, <3>3, <3>4, <3>5, <3>6 DEF t
    <2>2. \A p \in Procs : /\ fuse[p].at \in {"idle", "replied", "tested"}
                           /\ loop[p].at \in {"header", "payload", "call", "failed"}
                           /\ flags[p] \subseteq Ops /\ reclaiming[p] \in BOOLEAN
      BY PlaceFacts DEF TypeInv, ThreadsType, TableType
    <2>3. QED  BY <2>1, <2>2 DEF TypeOK, TypeInv, HistoryType
  <1>2. QED  BY <1>1, TypeInvariance, PTL

-----------------------------------------------------------------------------
(* The order of things, for as long as users and threads are orderly.      *)

\* c brings the header and the payload of each of the first n operations of l, but
\* for as many of these as have been taken from it.
Carries(c, l, n, taken) ==
    /\ n \in 0 .. Len(l) /\ taken \in Nat /\ Len(c) = 2 * n - taken
    /\ \A k \in 1 .. n :
          /\ 2 * k - 1 > taken => c[2 * k - 1 - taken] = Header(l[k])
          /\ 2 * k > taken     => c[2 * k - taken] = Payload(l[k])

LEMMA CarriesMore ==
    ASSUME NEW l \in Seq(Asked), NEW c \in Seq(Message), NEW n \in Nat, NEW taken,
           Carries(c, l, n, taken), n < Len(l)
    PROVE  Carries(c \o <<Header(l[n + 1]), Payload(l[n + 1])>>, l, n + 1, taken)
  <1> DEFINE h == Header(l[n + 1])
             m == Payload(l[n + 1])
             d == c \o <<h, m>>
  <1>1. Len(l) \in Nat /\ Len(c) \in Nat /\ taken \in Nat /\ Len(c) = 2 * n - taken /\ l[n + 1] \in Asked
    BY LenProperties, ElementOfSeq DEF Carries
  <1>2. h \in Message /\ m \in Message
    BY <1>1, PacketFacts
  <1>3. <<h, m>> \in Seq(Message) /\ Len(<<h, m>>) = 2 /\ <<h, m>>[1] = h /\ <<h, m>>[2] = m
    BY <1>2
  <1>4. /\ Len(d) = Len(c) + 2 /\ \A k \in 1 .. Len(c) : d[k] = c[k]
        /\ d[Len(c) + 1] = h /\ d[Len(c) + 2] = m
    <2> DEFINE e == <<h, m>>
    <2> HIDE DEF e
    <2>1. /\ Len(c \o e) = Len(c) + Len(e)
          /\ \A k \in 1 .. Len(c) + Len(e) :
                (c \o e)[k] = IF k <= Len(c) THEN c[k] ELSE e[k - Len(c)]
      BY <1>3, ConcatProperties DEF e
    <2>2. Len(e) = 2 /\ e[1] = h /\ e[2] = m
      BY <1>3 DEF e
    <2>3. d = c \o e
      BY DEF e
    <2> HIDE DEF d, h, m
    <2>4. /\ Len(c) + 1 \in 1 .. Len(c) + Len(e) /\ Len(c) + 2 \in 1 .. Len(c) + Len(e)
          /\ Len(c) + 1 - Len(c) = 1 /\ Len(c) + 2 - Len(c) = 2
          /\ ~ (Len(c) + 1 <= Len(c)) /\ ~ (Len(c) + 2 <= Len(c))
      BY <1>1, <2>2
    <2>5. d[Len(c) + 1] = e[1] /\ d[Len(c) + 2] = e[2]
      BY <2>1, <2>3, <2>4
    <2>6. \A k \in 1 .. Len(c) : d[k] = c[k]
      BY <1>1, <2>1, <2>2, <2>3
    <2>7. Len(d) = Len(c) + 2
      BY <2>1, <2>2, <2>3
    <2>8. QED  BY <2>2, <2>5, <2>6, <2>7
  <1> HIDE DEF d, h, m
  <1>5. ASSUME NEW k \in 1 .. n + 1
        PROVE  /\ 2 * k - 1 > taken => d[2 * k - 1 - taken] = Header(l[k])
               /\ 2 * k > taken     => d[2 * k - taken] = Payload(l[k])
    <2>1. CASE k = n + 1
      <3>1. 2 * k - 1 - taken = Len(c) + 1 /\ 2 * k - taken = Len(c) + 2
        BY <1>1, <2>1
      <3>2. QED  BY <1>4, <2>1, <3>1 DEF h, m
    <2>2. CASE k \in 1 .. n
      <3>1. /\ 2 * k - 1 > taken => 2 * k - 1 - taken \in 1 .. Len(c)
            /\ 2 * k > taken     => 2 * k - taken \in 1 .. Len(c)
        BY <1>1, <2>2
      <3>2. /\ 2 * k - 1 > taken => c[2 * k - 1 - taken] = Header(l[k])
            /\ 2 * k > taken     => c[2 * k - taken] = Payload(l[k])
        BY <2>2 DEF Carries
      <3>3. QED  BY <1>4, <3>1, <3>2
    <2>3. QED  BY <2>1, <2>2
  <1>6. n + 1 \in 0 .. Len(l) /\ Len(d) = 2 * (n + 1) - taken
    BY <1>1, <1>4
  <1>7. Carries(d, l, n + 1, taken)
    BY <1>1, <1>5, <1>6 DEF Carries
  <1>8. QED  BY <1>7 DEF d, h, m

LEMMA CarriesLess ==
    ASSUME NEW l \in Seq(Asked), NEW c \in Seq(Message), NEW n \in Nat, NEW taken,
           Carries(c, l, n, taken), c # <<>>
    PROVE  /\ Carries(Tail(c), l, n, taken + 1) /\ taken < 2 * n
           /\ \A k \in 1 .. n : /\ taken = 2 * k - 2 => Head(c) = Header(l[k])
                                /\ taken = 2 * k - 1 => Head(c) = Payload(l[k])
  <1>1. Len(c) \in Nat \ {0} /\ taken \in Nat /\ Len(c) = 2 * n - taken /\ n \in 0 .. Len(l)
    BY LenProperties, EmptySeq DEF Carries
  <1>2. /\ Len(Tail(c)) = Len(c) - 1 /\ \A i \in 1 .. Len(c) - 1 : Tail(c)[i] = c[i + 1]
        /\ Head(c) = c[1]
    BY HeadTailProperties
  <1>3. ASSUME NEW k \in 1 .. n
        PROVE  /\ 2 * k - 1 > taken + 1 => Tail(c)[2 * k - 1 - (taken + 1)] = Header(l[k])
               /\ 2 * k > taken + 1     => Tail(c)[2 * k - (taken + 1)] = Payload(l[k])
               /\ taken = 2 * k - 2 => Head(c) = Header(l[k])
               /\ taken = 2 * k - 1 => Head(c) = Payload(l[k])
    <2>1. /\ 2 * k - 1 > taken => c[2 * k - 1 - taken] = Header(l[k])
          /\ 2 * k > taken     => c[2 * k - taken] = Payload(l[k])
      BY DEF Carries
    <2> DEFINE i == 2 * k - 1 - (taken + 1)
               j == 2 * k - (taken + 1)
    <2>2. /\ 2 * k - 1 > taken + 1 => i \in 1 .. Len(c) - 1 /\ i + 1 = 2 * k - 1 - taken
          /\ 2 * k > taken + 1     => j \in 1 .. Len(c) - 1 /\ j + 1 = 2 * k - taken
      BY <1>1
    <2> HIDE DEF i, j
    <2>3. 2 * k - 1 > taken + 1 => Tail(c)[i] = Header(l[k])
      BY <1>1, <1>2, <2>1, <2>2
    <2>4. 2 * k > taken + 1 => Tail(c)[j] = Payload(l[k])
      BY <1>1, <1>2, <2>1, <2>2
    <2>5. taken = 2 * k - 2 => Head(c) = Header(l[k])
      BY <1>1, <1>2, <2>1
    <2>6. taken = 2 * k - 1 => Head(c) = Payload(l[k])
      BY <1>1, <1>2, <2>1
    <2>7. QED  BY <2>3, <2>4, <2>5, <2>6 DEF i, j
  <1>4. Carries(Tail(c), l, n, taken + 1)
    BY <1>1, <1>2, <1>3 DEF Carries
  <1>5. QED  BY <1>1, <1>3, <1>4

LEMMA CarriesLonger ==
    ASSUME NEW S, NEW l \in Seq(S), NEW c, NEW n, NEW taken, Carries(c, l, n, taken), NEW x \in S
    PROVE  Carries(c, Append(l, x), n, taken)
  <1>1. /\ Len(l) \in Nat /\ Len(Append(l, x)) = Len(l) + 1
        /\ \A k \in 1 .. Len(l) : Append(l, x)[k] = l[k]
    BY LenProperties, AppendProperties
  <1>2. n \in 0 .. Len(l)
    BY DEF Carries
  <1>3. \A k \in 1 .. n : Append(l, x)[k] = l[k]
    BY <1>1, <1>2
  <1>4. n \in 0 .. Len(Append(l, x))
    BY <1>1, <1>2
  <1>5. QED  BY <1>3, <1>4 DEF Carries

\* T is what the operations make of the first tree, one after another, and what the
\* processes show of it.
FirstTree          == <<INode("DIRECTORY", <<>>)>>
MovesNoDir(t, req) == req.op = "RENAME" => IsFile(t, Resolve(t, req.paths[1]))
Grows(T) ==
    /\ T[0] = FirstTree
    /\ \A k \in 0 .. Len(log) : Tree(T[k]) /\ Kept(T[k])
    /\ \A k \in 1 .. Len(log) : /\ Accepts(T[k - 1], log[k]) /\ MovesNoDir(T[k - 1], log[k])
                                /\ T[k] = Made(T[k - 1], log[k])
Shown(T) == \A p \in Procs : done[p] <= Len(log) /\ nodes[p] = T[done[p]]

\* How many operations the process o has sent, and how many messages of them the
\* process r has received.
Sent(o)  == IF fuse[o].at = "replied" THEN Len(log) - 1 ELSE Len(log)
Taken(r) == 2 * done[r] + CASE loop[r].at = "payload" -> 1
                            [] loop[r].at = "call"    -> 2
                            [] OTHER                  -> 0

\* The process whose users came last, and any other.
Leads(o) ==
    /\ loop[o] = NextHeader /\ flags[o] = {} /\ done[o] = Len(log)
    /\ fuse[o].at = "replied" => Len(log) > 0 /\ fuse[o].req = log[Len(log)]
    /\ \A k \in DOMAIN chan[o][o] : chan[o][o][k].kind = "header"
    /\ \A s \in Procs \ {o}, r \in Procs : chan[s][r] = <<>>
Follows(o, r) ==
    /\ loop[r].at \in {"header", "payload", "call"}
    /\ loop[r].at # "header" => Idle(r)
    /\ Idle(r)   => flags[r] = IF loop[r].at = "header" THEN {} ELSE {log[done[r] + 1].op}
    /\ ~ Idle(r) => flags[r] = {fuse[r].req.op}
    /\ loop[r].at = "call" => loop[r].req = log[done[r] + 1]
    /\ Carries(chan[o][r], log, Sent(o), Taken(r))
InOrder(o) == Leads(o) /\ \A r \in Procs \ {o} : Follows(o, r)

OrderInv ==
    orderly => /\ \E T : Grows(T) /\ Shown(T)
               /\ \A o \in Procs : o = origin => InOrder(o)
               /\ \A p \in Procs : ~ reclaiming[p]

LEMMA LogFacts ==
    ASSUME TypeInv
    PROVE  /\ log \in Seq(Asked) /\ Len(log) \in Nat
           /\ \A k \in 1 .. Len(log) : log[k] \in Requests /\ log[k] \in Asked
  <1>1. log \in Seq(Requests) /\ Len(log) \in Nat /\ \A k \in 1 .. Len(log) : log[k] \in Requests
    BY LenProperties, ElementOfSeq DEF TypeInv, HistoryType
  <1>2. \A k \in 1 .. Len(log) : log[k] \in Asked
    BY <1>1, RequestsFacts
  <1>3. log \in Seq(Asked)
    BY <1>1, <1>2, SeqDef
  <1>4. QED  BY <1>1, <1>2, <1>3

LEMMA ThreadFacts ==
    ASSUME TypeInv, NEW p \in Procs
    PROVE  /\ fuse[p] \in FusePlace /\ loop[p] \in LoopPlace /\ flags[p] \subseteq Ops
           /\ done[p] \in Nat /\ Tree(nodes[p])
           /\ fuse[p].at \in {"idle", "replied", "tested"} /\ (Idle(p) <=> fuse[p].at = "idle")
           /\ fuse[p].at # "idle" => fuse[p].req \in Asked
           /\ loop[p].at \in {"header", "failed", "payload", "call"}
           /\ loop[p].at = "header" <=> loop[p] = NextHeader
           /\ loop[p].at = "failed" <=> loop[p] = Failed
           /\ loop[p].at = "call" => loop[p].req \in Asked
           /\ \A r \in Procs : chan[p][r] \in Seq(Message)
  BY PlaceFacts DEF TypeInv, TreesType, ThreadsType, HistoryType, Idle

\* What a process that follows has done, and what is on its way to it.
LEMMA FollowFacts ==
    ASSUME TypeInv, NEW o \in Procs, NEW r \in Procs, Follows(o, r)
    PROVE  /\ Sent(o) \in 0 .. Len(log) /\ Taken(r) \in Nat /\ Taken(r) <= 2 * Sent(o)
           /\ loop[r].at = "header"  => Taken(r) = 2 * done[r] /\ done[r] \in 0 .. Sent(o)
           /\ loop[r].at = "payload" => Taken(r) = 2 * done[r] + 1 /\ done[r] + 1 \in 1 .. Sent(o)
           /\ loop[r].at = "call"    => Taken(r) = 2 * done[r] + 2 /\ done[r] + 1 \in 1 .. Sent(o)
           /\ Len(chan[o][r]) = 2 * Sent(o) - Taken(r)
  <1>1. Sent(o) \in 0 .. Len(log) /\ Len(chan[o][r]) = 2 * Sent(o) - Taken(r)
    BY DEF Follows, Carries
  <1>2. done[r] \in Nat /\ Len(log) \in Nat /\ Len(chan[o][r]) \in Nat
    BY ThreadFacts, LogFacts, LenProperties
  <1>3. loop[r].at \in {"header", "payload", "call"}
    BY DEF Follows
  <1>4. /\ loop[r].at = "header"  => Taken(r) = 2 * done[r]
        /\ loop[r].at = "payload" => Taken(r) = 2 * done[r] + 1
        /\ loop[r].at = "call"    => Taken(r) = 2 * done[r] + 2
    BY <1>2 DEF Taken
  <1> HIDE DEF Sent, Taken
  <1>5. CASE loop[r].at = "header"
    BY <1>1, <1>2, <1>4, <1>5
  <1>6. CASE loop[r].at = "payload"
    BY <1>1, <1>2, <1>4, <1>6
  <1>7. CASE loop[r].at = "call"
    BY <1>1, <1>2, <1>4, <1>7
  <1>8. QED  BY <1>3, <1>5, <1>6, <1>7

LEMMA InitInOrder == ASSUME Init PROVE OrderInv
  <1> DEFINE node == INode("DIRECTORY", <<>>)
             T == [k \in 0 .. 0 |-> <<node>>]
  <1>1. TypeInv /\ Len(log) = 0 /\ log = <<>>
    BY InitType DEF Init
  <1>2. Grows(T) /\ Shown(T)
    <2>1. \A p \in Procs : Tree(nodes[p]) /\ nodes[p] = <<node>> /\ done[p] = 0
      BY <1>1, ThreadFacts DEF Init
    <2>2. Tree(<<node>>)
      BY <2>1, P2PNamespaceAssumption
    <2>3. Kept(<<node>>)
      <3>1. node.dirName = <<>> /\ node.kids = <<>> /\ DOMAIN node.kids = {}
        BY DEF INode
      <3> HIDE DEF node
      <3>2. Len(<<node>>) = 1 /\ <<node>>[1] = node
        OBVIOUS
      <3>3. QED  BY <3>1, <3>2 DEF Kept, Root
    <2> HIDE DEF node
    <2>4. <<node>> = FirstTree
      BY DEF FirstTree, node
    <2>5. QED  BY <1>1, <2>1, <2>2, <2>3, <2>4 DEF Grows, Shown
  <1>3. ASSUME NEW o \in Procs PROVE InOrder(o)
    <2>1. Leads(o)
      BY <1>1 DEF Init, Leads, NoHandler
    <2>2. ASSUME NEW r \in Procs \ {o} PROVE Follows(o, r)
      <3>1. Sent(o) = 0 /\ Taken(r) = 0
        BY <1>1 DEF Init, Sent, Taken, NoHandler, NextHeader, At
      <3>2. Carries(chan[o][r], log, Sent(o), Taken(r))
        BY <1>1, <3>1 DEF Init, Carries
      <3>3. QED  BY <3>2 DEF Init, Follows, Idle, NextHeader, At
    <2>3. QED  BY <2>1, <2>2 DEF InOrder
  <1>4. \A p \in Procs : ~ reclaiming[p]
    BY DEF Init
  <1>5. QED  BY <1>2, <1>3, <1>4 DEF OrderInv

\* Until numbers are used again, every handler takes the next one.
LEMMA MadeNext ==
    ASSUME NEW t, Tree(t), NEW req \in Asked, Accepts(t, req)
    PROVE  /\ Tree(Made(t, req)) /\ ToSend(t, req) \in Asked
           /\ Kept(t) => ToSend(t, req) = req
           /\ Kept(t) /\ (req.op = "RENAME" => IsFile(t, Resolve(t, req.paths[1]))) =>
                 Kept(Made(t, req))
  <1> DEFINE i == Len(t) + 1
             s == Made(t, req)
  <1>1. Usable(t, i) /\ s = MadeAt(t, i, req)
    BY DEF Usable, Made
  <1> HIDE DEF i, s
  <1>2. QED  BY <1>1, MadeTree DEF s

LEMMA ReplyNext ==
    ASSUME TypeInv, NEW p \in Procs, NEW req \in Asked, Handler(p, req), ~ reclaiming[p]
    PROVE  /\ Idle(p) /\ Accepts(nodes[p], req) /\ Tree(nodes[p])
           /\ nodes' = [nodes EXCEPT ![p] = Made(nodes[p], req)]
           /\ fuse' = [fuse EXCEPT ![p] = [at |-> "replied", req |-> ToSend(nodes[p], req)]]
           /\ done' = [done EXCEPT ![p] = @ + 1]
  <1>1. NewIno(p) = Len(nodes[p]) + 1
    BY NewInoUsable
  <1>2. MadeAt(nodes[p], NewIno(p), req) = Made(nodes[p], req)
    BY <1>1 DEF Made
  <1>3. QED  BY <1>2, ReplyType

\* A process that follows, and that nothing happens to, follows still.
LEMMA FollowsStill ==
    ASSUME TypeInv, NEW o \in Procs, NEW r \in Procs, Follows(o, r),
           fuse'[r] = fuse[r], loop'[r] = loop[r], flags'[r] = flags[r], done'[r] = done[r],
           chan'[o][r] = chan[o][r], log' = log, Sent(o)' = Sent(o)
    PROVE  Follows(o, r)'
  <1>1. Taken(r)' = Taken(r) /\ (Idle(r)' <=> Idle(r))
    BY DEF Taken, Idle
  <1>2. QED  BY <1>1 DEF Follows

LEMMA TestFlagInOrder ==
    ASSUME TypeInv, NEW o \in Procs, InOrder(o), NEW p \in Procs, TestFlag(p)
    PROVE  InOrder(o)'
  <1> DEFINE req == fuse[p].req
             mine == req.op \notin flags[p]
  <1>1. /\ fuse[p].at = "replied" /\ ~ Idle(p) /\ req \in Asked
        /\ IF mine THEN Broadcast(p, req) ELSE UNCHANGED chan
        /\ fuse' = [fuse EXCEPT ![p] =
               IF mine /\ req.op = "RENAME" THEN NoHandler ELSE [@ EXCEPT !.at = "tested"]]
        /\ UNCHANGED <<nodes, loop, flags, origin, orderly, log, done>>
    BY ThreadFacts DEF TestFlag, users, inodes
  <1>2. Leads(o) /\ \A r \in Procs \ {o} : Follows(o, r)
    BY DEF InOrder
  <1>3. fuse \in [Procs -> FusePlace] /\ chan \in [Procs -> [Procs -> Seq(Message)]]
    BY DEF TypeInv, ThreadsType
  <1>4. \A r \in Procs : r # p => fuse'[r] = fuse[r]
    BY <1>1, <1>3
  <1>5. fuse'[p] = NoHandler \/ (fuse'[p].at = "tested" /\ fuse'[p].req = req)
    <2>1. fuse[p] \in [at : {"replied", "tested"}, req : Asked]
      BY <1>1, <1>3 DEF FusePlace, Idle
    <2>2. fuse'[p] = NoHandler \/ fuse'[p] = [fuse[p] EXCEPT !.at = "tested"]
      BY <1>1, <1>3
    <2>3. QED  BY <2>1, <2>2
  <1>6. CASE p = o
    <2>1. mine /\ Len(log) > 0 /\ req = log[Len(log)]
      BY <1>1, <1>2, <1>6 DEF Leads
    <2>2. /\ \A s, r \in Procs : s # p => chan'[s][r] = chan[s][r]
          /\ \A r \in Procs : chan'[p][r] =
                chan[p][r] \o IF r = p THEN <<Header(req)>> ELSE <<Header(req), Payload(req)>>
      BY <1>1, <2>1, BroadcastType DEF TypeInv
    <2>3. Len(log) \in Nat /\ Sent(o) = Len(log) - 1 /\ Sent(o)' = Len(log)
      <3>1. fuse'[o].at # "replied"
        BY <1>5, <1>6 DEF NoHandler
      <3>2. QED  BY <1>1, <1>6, <3>1, LogFacts DEF Sent
    <2>4. Leads(o)'
      <3>1. \A k \in DOMAIN chan'[o][o] : chan'[o][o][k].kind = "header"
        <4> DEFINE c == chan[o][o]
                   h == Header(req)
        <4>1. c \in Seq(Message) /\ h \in Message /\ h.kind = "header"
          BY <1>1, <1>3, PacketFacts
        <4>2. chan'[o][o] = c \o <<h>>
          BY <1>6, <2>2
        <4>3. \A k \in DOMAIN c : c[k].kind = "header"
          BY <1>2 DEF Leads
        <4> HIDE DEF c, h
        <4>4. chan'[o][o] = Append(c, h)
          BY <4>1, <4>2, AppendIsConcat
        <4>5. /\ Len(c) \in Nat /\ DOMAIN c = 1 .. Len(c) /\ Append(c, h) \in Seq(Message)
              /\ Len(Append(c, h)) = Len(c) + 1
              /\ \A k \in 1 .. Len(c) : Append(c, h)[k] = c[k]
              /\ Append(c, h)[Len(c) + 1] = h
          BY <4>1, LenProperties, AppendProperties
        <4>6. DOMAIN Append(c, h) = 1 .. Len(c) + 1
          BY <4>5, LenProperties
        <4>7. ASSUME NEW k \in 1 .. Len(c) + 1 PROVE Append(c, h)[k].kind = "header"
          <5>1. k \in 1 .. Len(c) \/ k = Len(c) + 1
            BY <4>5
          <5>2. QED  BY <4>1, <4>3, <4>5, <5>1
        <4>8. QED  BY <4>4, <4>6, <4>7
      <3>2. \A s \in Procs \ {o}, r \in Procs : chan'[s][r] = <<>>
        BY <1>2, <1>6, <2>2 DEF Leads
      <3>3. fuse'[o].at # "replied"
        BY <1>5, <1>6 DEF NoHandler
      <3>4. QED  BY <1>1, <1>2, <3>1, <3>2, <3>3 DEF Leads
    <2>5. ASSUME NEW r \in Procs \ {o} PROVE Follows(o, r)'
      <3>1. /\ fuse'[r] = fuse[r] /\ loop'[r] = loop[r] /\ flags'[r] = flags[r]
            /\ done'[r] = done[r] /\ log' = log
        BY <1>1, <1>4, <1>6
      <3>2. Carries(chan[o][r], log, Len(log) - 1, Taken(r))
        BY <1>2, <2>3 DEF Follows
      <3>3. chan'[o][r] = chan[o][r] \o <<Header(log[Len(log) - 1 + 1]), Payload(log[Len(log) - 1 + 1])>>
        <4>1. Len(log) - 1 + 1 = Len(log)
          BY <2>3
        <4>2. QED  BY <1>6, <2>1, <2>2, <4>1
      <3>4. log \in Seq(Asked) /\ chan[o][r] \in Seq(Message) /\ Len(log) - 1 \in Nat
        BY <1>3, <2>1, <2>3, LogFacts
      <3> DEFINE n == Len(log) - 1
      <3>5. n < Len(log) /\ n + 1 = Len(log)
        BY <2>3
      <3>6. Carries(chan'[o][r], log, n + 1, Taken(r))
        <4> HIDE DEF n
        <4>1. QED  BY <3>2, <3>3, <3>4, <3>5, CarriesMore DEF n
      <3>7. Taken(r)' = Taken(r) /\ (Idle(r)' <=> Idle(r))
        BY <3>1 DEF Taken, Idle
      <3>8. Follows(o, r)
        BY <1>2
      <3>9. QED  BY <2>3, <3>1, <3>5, <3>6, <3>7, <3>8 DEF Follows
    <2>6. QED  BY <2>4, <2>5 DEF InOrder
  <1>7. CASE p # o
    <2>1. Follows(o, p)
      BY <1>2, <1>7
    <2>2. ~ mine
      BY <1>1, <2>1 DEF Follows
    <2>3. UNCHANGED chan /\ ~ Idle(p)' /\ fuse'[p].req = req
      BY <1>1, <1>3, <1>5, <2>2 DEF Idle, NoHandler
    <2>4. Sent(o)' = Sent(o)
      BY <1>1, <1>4, <1>7 DEF Sent
    <2>5. Leads(o)'
      BY <1>1, <1>2, <1>4, <1>7, <2>3 DEF Leads
    <2>6. Follows(o, p)'
      <3>1. Taken(p)' = Taken(p)
        BY <1>1 DEF Taken
      <3>2. loop[p].at = "header" /\ flags[p] = {req.op}
        BY <1>1, <2>1 DEF Follows
      <3>3. QED  BY <1>1, <2>1, <2>3, <2>4, <3>1, <3>2 DEF Follows
    <2>7. ASSUME NEW r \in Procs \ {o, p} PROVE Follows(o, r)'
      BY <1>1, <1>2, <1>4, <2>3, <2>4, FollowsStill
    <2>8. QED  BY <2>5, <2>6, <2>7 DEF InOrder
  <1>8. QED  BY <1>6, <1>7

LEMMA ClearFlagInOrder ==
    ASSUME TypeInv, NEW o \in Procs, InOrder(o), NEW p \in Procs, ClearFlag(p)
    PROVE  InOrder(o)'
  <1>1. /\ fuse[p].at = "tested" /\ ~ Idle(p)
        /\ flags' = [flags EXCEPT ![p] = @ \ {fuse[p].req.op}]
        /\ fuse' = [fuse EXCEPT ![p] = NoHandler]
        /\ UNCHANGED <<nodes, loop, chan, origin, orderly, log, done>>
    BY ThreadFacts DEF ClearFlag, users, inodes
  <1>2. Leads(o) /\ \A r \in Procs \ {o} : Follows(o, r)
    BY DEF InOrder
  <1>3. /\ \A r \in Procs : r # p => fuse'[r] = fuse[r] /\ flags'[r] = flags[r]
        /\ fuse'[p] = NoHandler /\ flags'[p] = flags[p] \ {fuse[p].req.op} /\ Idle(p)'
    BY <1>1 DEF TypeInv, ThreadsType, Idle
  <1>4. Sent(o)' = Sent(o)
    BY <1>1, <1>3 DEF Sent, NoHandler
  <1>5. Leads(o)'
    BY <1>1, <1>2, <1>3 DEF Leads, NoHandler
  <1>6. ASSUME p # o PROVE Follows(o, p)'
    <2>1. Follows(o, p)
      BY <1>2, <1>6
    <2>2. flags[p] = {fuse[p].req.op} /\ loop[p].at = "header"
      BY <1>1, <2>1 DEF Follows
    <2>3. flags'[p] = {} /\ loop'[p].at = "header" /\ Taken(p)' = Taken(p)
      BY <1>1, <1>3, <2>2 DEF Taken
    <2>4. QED  BY <1>1, <1>3, <1>4, <2>1, <2>3 DEF Follows
  <1>7. ASSUME NEW r \in Procs \ {o, p} PROVE Follows(o, r)'
    BY <1>1, <1>2, <1>3, <1>4, FollowsStill
  <1>8. QED  BY <1>5, <1>6, <1>7 DEF InOrder

\* Messages come from the process whose users came last.
LEMMA SenderIs ==
    ASSUME TypeInv, NEW o \in Procs, InOrder(o), NEW r \in Procs, NEW s \in Procs, chan[s][r] # <<>>
    PROVE  s = o
  BY DEF InOrder, Leads

LEMMA ReceiveHeaderInOrder ==
    ASSUME TypeInv, NEW o \in Procs, InOrder(o), NEW r \in Procs, ReceiveHeader(r), orderly'
    PROVE  InOrder(o)'
  <1> DEFINE m(s) == Head(chan[s][r])
  <1>1. PICK s \in Procs :
           /\ Receive(r, s, m(s))
           /\ flags' = [flags EXCEPT ![r] =
                  IF m(s).kind = "header" /\ s # r THEN @ \cup {m(s).req.op} ELSE @]
           /\ loop' = [loop EXCEPT ![r] = CASE m(s).kind = "payload" -> Failed
                                            [] m(s).kind = "header" /\ s = r -> @
                                            [] m(s).kind = "header" /\ s # r -> At("payload", m(s).req)]
    BY DEF ReceiveHeader, users, inodes
  <1>2. loop[r] = NextHeader /\ Idle(r) /\ UNCHANGED <<nodes, fuse, origin, log, done>>
    BY DEF ReceiveHeader, users, inodes
  <1>3. Leads(o) /\ \A q \in Procs \ {o} : Follows(o, q)
    BY DEF InOrder
  <1>4. /\ m(s) \in Message /\ chan[s][r] # <<>> /\ chan'[s][r] = Tail(chan[s][r])
        /\ \A p, q \in Procs : ~ (p = s /\ q = r) => chan'[p][q] = chan[p][q]
    BY <1>1, ReceiveType DEF TypeInv
  <1>5. s = o
    BY <1>4, SenderIs
  <1>6. chan[o][r] \in Seq(Message) /\ flags[r] \subseteq Ops /\ flags \in [Procs -> SUBSET Ops]
        /\ loop \in [Procs -> LoopPlace]
    BY ThreadFacts DEF TypeInv, ThreadsType
  <1>7. \A q \in Procs : q # r => flags'[q] = flags[q] /\ loop'[q] = loop[q]
    BY <1>1, <1>6
  <1>8. Sent(o)' = Sent(o)
    BY <1>2 DEF Sent
  <1>9. ASSUME NEW q \in Procs \ {o, r} PROVE Follows(o, q)'
    <2>1. chan'[o][q] = chan[o][q]
      BY <1>4, <1>5
    <2>2. QED  BY <1>2, <1>3, <1>7, <1>8, <2>1, FollowsStill
  <1>10. CASE r = o
    <2> DEFINE c == chan[o][o]
    <2>1. c \in Seq(Message) /\ c # <<>> /\ chan'[o][o] = Tail(c) /\ m(s) = Head(c)
      BY <1>4, <1>5, <1>6, <1>10
    <2>2. \A k \in DOMAIN c : c[k].kind = "header"
      BY <1>3 DEF Leads
    <2> HIDE DEF c
    <2>3. /\ Len(c) \in Nat \ {0} /\ DOMAIN c = 1 .. Len(c) /\ Head(c) = c[1]
          /\ Tail(c) \in Seq(Message) /\ Len(Tail(c)) = Len(c) - 1
          /\ \A k \in 1 .. Len(c) - 1 : Tail(c)[k] = c[k + 1]
      BY <2>1, HeadTailProperties, LenProperties, EmptySeq
    <2>4. m(s).kind = "header"
      BY <2>1, <2>2, <2>3
    <2>5. \A k \in DOMAIN Tail(c) : Tail(c)[k].kind = "header"
      <3>1. DOMAIN Tail(c) = 1 .. Len(c) - 1
        BY <2>3, LenProperties
      <3>2. \A k \in 1 .. Len(c) - 1 : k + 1 \in DOMAIN c
        BY <2>3
      <3>3. QED  BY <2>2, <2>3, <3>1, <3>2
    <2>6. loop'[o] = loop[o] /\ flags'[o] = flags[o]
      BY <1>1, <1>5, <1>6, <1>10, <2>4
    <2>7. \A p \in Procs \ {o}, q \in Procs : chan'[p][q] = <<>>
      BY <1>3, <1>4, <1>5 DEF Leads
    <2>8. Leads(o)'
      BY <1>2, <1>3, <2>1, <2>5, <2>6, <2>7 DEF Leads
    <2>9. QED  BY <1>9, <1>10, <2>8 DEF InOrder
  <1>11. CASE r # o
    <2> DEFINE c == chan[o][r]
               d == done[r]
    <2>1. Follows(o, r) /\ loop[r].at = "header"
      BY <1>2, <1>3, <1>11 DEF NextHeader, At
    <2>2. /\ Sent(o) \in 0 .. Len(log) /\ Taken(r) = 2 * d /\ d \in Nat /\ Len(log) \in Nat
          /\ Carries(c, log, Sent(o), Taken(r))
      BY <2>1, FollowFacts, ThreadFacts, LogFacts DEF Follows
    <2>3. /\ Carries(Tail(c), log, Sent(o), 2 * d + 1) /\ 2 * d < 2 * Sent(o)
          /\ \A k \in 1 .. Sent(o) : 2 * d = 2 * k - 2 => Head(c) = Header(log[k])
      <3>1. log \in Seq(Asked) /\ c \in Seq(Message) /\ c # <<>> /\ Sent(o) \in Nat
        BY <1>4, <1>5, <1>6, <2>2, LogFacts
      <3>2. Carries(c, log, Sent(o), 2 * d)
        BY <2>2
      <3> HIDE DEF c, d
      <3> DEFINE n == Sent(o)
      <3> HIDE DEF n
      <3>3. /\ Carries(Tail(c), log, n, 2 * d + 1) /\ 2 * d < 2 * n
            /\ \A k \in 1 .. n : 2 * d = 2 * k - 2 => Head(c) = Header(log[k])
        BY <3>1, <3>2, CarriesLess DEF n
      <3>4. QED  BY <3>3 DEF n
    <2>4. d + 1 \in 1 .. Sent(o) /\ 2 * d = 2 * (d + 1) - 2 /\ d + 1 \in 1 .. Len(log)
      BY <2>2, <2>3
    <2>5. Head(c) = Header(log[d + 1])
      BY <2>3, <2>4
    <2>6. log[d + 1] \in Asked
      BY <2>4, LogFacts
    <2>7. m(s) = Head(c) /\ m(s).kind = "header" /\ m(s).req.op = log[d + 1].op
      BY <1>5, <2>5, <2>6, PacketFacts
    <2>8. flags[r] = {}
      BY <1>2, <2>1 DEF Follows
    <2>9. flags'[r] = {log[d + 1].op} /\ loop'[r] = At("payload", m(s).req)
      <3> HIDE DEF m, c, d
      <3>1. QED  BY <1>1, <1>5, <1>6, <1>11, <2>7, <2>8
    <2>10. loop'[r].at = "payload" /\ Taken(r)' = 2 * d + 1 /\ Idle(r)'
      BY <1>2, <2>9 DEF Taken, Idle, At
    <2>11. chan'[o][r] = Tail(c)
      BY <1>4, <1>5
    <2>12. Follows(o, r)'
      BY <1>2, <1>8, <2>3, <2>9, <2>10, <2>11 DEF Follows
    <2>13. Leads(o)'
      <3>1. \A p \in Procs \ {o}, q \in Procs : chan'[p][q] = <<>>
        BY <1>3, <1>4, <1>5 DEF Leads
      <3>2. chan'[o][o] = chan[o][o] /\ loop'[o] = loop[o] /\ flags'[o] = flags[o]
        BY <1>4, <1>7, <1>11
      <3>3. QED  BY <1>2, <1>3, <3>1, <3>2 DEF Leads
    <2>14. QED  BY <1>9, <2>12, <2>13 DEF InOrder
  <1>12. QED  BY <1>10, <1>11

LEMMA ReceivePayloadInOrder ==
    ASSUME TypeInv, NEW o \in Procs, InOrder(o), NEW r \in Procs, ReceivePayload(r)
    PROVE  InOrder(o)'
  <1> DEFINE m(s) == Head(chan[s][r])
             c == chan[o][r]
             d == done[r]
  <1>1. PICK s \in Procs :
           /\ Receive(r, s, m(s))
           /\ loop' = [loop EXCEPT ![r] =
                  IF m(s).kind = "payload" THEN At("call", m(s).req) ELSE Failed]
    BY DEF ReceivePayload, users, inodes
  <1>2. loop[r].at = "payload" /\ UNCHANGED <<nodes, fuse, flags, origin, orderly, log, done>>
    BY DEF ReceivePayload, users, inodes
  <1>3. Leads(o) /\ \A q \in Procs \ {o} : Follows(o, q)
    BY DEF InOrder
  <1>4. /\ m(s) \in Message /\ chan[s][r] # <<>> /\ chan'[s][r] = Tail(chan[s][r])
        /\ \A p, q \in Procs : ~ (p = s /\ q = r) => chan'[p][q] = chan[p][q]
    BY <1>1, ReceiveType DEF TypeInv
  <1>5. s = o
    BY <1>4, SenderIs
  <1>6. r # o
    BY <1>2, <1>3 DEF Leads, NextHeader, At
  <1>7. chan[o][r] \in Seq(Message) /\ loop \in [Procs -> LoopPlace]
    BY ThreadFacts DEF TypeInv, ThreadsType
  <1>8. \A q \in Procs : q # r => loop'[q] = loop[q]
    BY <1>1, <1>7
  <1>9. Sent(o)' = Sent(o)
    BY <1>2 DEF Sent
  <1>10. ASSUME NEW q \in Procs \ {o, r} PROVE Follows(o, q)'
    <2>1. chan'[o][q] = chan[o][q]
      BY <1>4, <1>5
    <2>2. QED  BY <1>2, <1>3, <1>8, <1>9, <2>1, FollowsStill
  <1>11. Follows(o, r)
    BY <1>3, <1>6
  <1>12. /\ Sent(o) \in 0 .. Len(log) /\ Taken(r) = 2 * d + 1 /\ d \in Nat /\ Len(log) \in Nat
         /\ d + 1 \in 1 .. Sent(o) /\ Carries(c, log, Sent(o), Taken(r))
    BY <1>2, <1>11, FollowFacts, ThreadFacts, LogFacts DEF Follows
  <1>13. /\ Carries(Tail(c), log, Sent(o), 2 * d + 1 + 1)
         /\ \A k \in 1 .. Sent(o) : 2 * d + 1 = 2 * k - 1 => Head(c) = Payload(log[k])
    <2>1. log \in Seq(Asked) /\ c \in Seq(Message) /\ c # <<>> /\ Sent(o) \in Nat
      BY <1>4, <1>5, <1>7, <1>12, LogFacts
    <2>2. Carries(c, log, Sent(o), 2 * d + 1)
      BY <1>12
    <2> DEFINE n == Sent(o)
               k0 == 2 * d + 1
    <2> HIDE DEF c, d, n, k0
    <2>3. /\ Carries(Tail(c), log, n, k0 + 1)
          /\ \A k \in 1 .. n : k0 = 2 * k - 1 => Head(c) = Payload(log[k])
      BY <2>1, <2>2, CarriesLess DEF n, k0
    <2>4. QED  BY <2>3 DEF n, k0
  <1>14. Head(c) = Payload(log[d + 1]) /\ log[d + 1] \in Asked
    <2>1. 2 * d + 1 = 2 * (d + 1) - 1 /\ d + 1 \in 1 .. Len(log)
      BY <1>12
    <2>2. QED  BY <1>12, <1>13, <2>1, LogFacts
  <1>15. m(s).kind = "payload" /\ m(s).req = log[d + 1]
    BY <1>5, <1>14, PacketFacts
  <1>16. loop'[r] = At("call", log[d + 1])
    <2> HIDE DEF m, c, d
    <2>1. QED  BY <1>1, <1>7, <1>15
  <1>17. loop'[r].at = "call" /\ loop'[r].req = log[d + 1] /\ Taken(r)' = 2 * d + 2
    BY <1>2, <1>16 DEF At, Taken
  <1>18. Idle(r) /\ Idle(r)' /\ flags'[r] = {log[d + 1].op}
    BY <1>2, <1>11 DEF Follows, Idle
  <1>19. Carries(chan'[o][r], log, Sent(o), 2 * d + 2)
    <2>1. 2 * d + 1 + 1 = 2 * d + 2 /\ chan'[o][r] = Tail(c)
      BY <1>4, <1>5, <1>12
    <2>2. QED  BY <1>13, <2>1
  <1>20. Follows(o, r)'
    BY <1>2, <1>9, <1>17, <1>18, <1>19 DEF Follows
  <1>21. Leads(o)'
    <2>1. \A p \in Procs \ {o}, q \in Procs : chan'[p][q] = <<>>
      BY <1>3, <1>4, <1>5 DEF Leads
    <2>2. chan'[o][o] = chan[o][o] /\ loop'[o] = loop[o]
      BY <1>4, <1>6, <1>8
    <2>3. QED  BY <1>2, <1>3, <2>1, <2>2 DEF Leads
  <1>22. QED  BY <1>10, <1>20, <1>21 DEF InOrder

\* A second thread that is at a call repeats the next operation on the tree before
\* it, which accepts it.
LEMMA CallFacts ==
    ASSUME TypeInv, NEW o \in Procs, InOrder(o), NEW T, Grows(T), Shown(T),
           NEW r \in Procs, loop[r].at = "call"
    PROVE  /\ r # o /\ Follows(o, r) /\ Idle(r) /\ done[r] + 1 \in 1 .. Sent(o)
           /\ done[r] + 1 \in 1 .. Len(log) /\ loop[r].req = log[done[r] + 1]
           /\ loop[r].req \in Asked /\ nodes[r] = T[done[r]]
           /\ Tree(nodes[r]) /\ Kept(nodes[r]) /\ Accepts(nodes[r], loop[r].req)
           /\ T[done[r] + 1] = Made(nodes[r], loop[r].req)
  <1>1. r # o
    BY DEF InOrder, Leads, NextHeader, At
  <1>2. Follows(o, r)
    BY <1>1 DEF InOrder
  <1>3. Sent(o) \in 0 .. Len(log) /\ done[r] + 1 \in 1 .. Sent(o) /\ Len(log) \in Nat /\ done[r] \in Nat
    BY <1>2, FollowFacts, LogFacts, ThreadFacts
  <1>4. done[r] + 1 \in 1 .. Len(log) /\ done[r] \in 0 .. Len(log) /\ done[r] + 1 - 1 = done[r]
    BY <1>3
  <1>5. Idle(r) /\ loop[r].req = log[done[r] + 1] /\ loop[r].req \in Asked
    BY <1>2, ThreadFacts DEF Follows
  <1>6. nodes[r] = T[done[r]]
    BY DEF Shown
  <1>7. Tree(nodes[r]) /\ Kept(nodes[r])
    BY <1>4, <1>6 DEF Grows
  <1>8. /\ Accepts(T[done[r] + 1 - 1], log[done[r] + 1])
        /\ T[done[r] + 1] = Made(T[done[r] + 1 - 1], log[done[r] + 1])
    BY <1>4 DEF Grows
  <1>9. QED  BY <1>1, <1>2, <1>3, <1>4, <1>5, <1>6, <1>7, <1>8

LEMMA RepeatInOrder ==
    ASSUME TypeInv, NEW o \in Procs, InOrder(o), NEW T, Grows(T), Shown(T),
           NEW r \in Procs, Repeat(r), ~ reclaiming[r]
    PROVE  InOrder(o)' /\ Grows(T)' /\ Shown(T)'
  <1> DEFINE d == done[r]
             req == loop[r].req
  <1>1. loop[r].at = "call" /\ Handler(r, req) /\ loop' = [loop EXCEPT ![r] = NextHeader]
        /\ UNCHANGED <<flags, chan, origin, orderly, log>>
    BY DEF Repeat, users
  <1>2. /\ r # o /\ Follows(o, r) /\ Idle(r) /\ d + 1 \in 1 .. Sent(o)
        /\ d + 1 \in 1 .. Len(log) /\ req = log[d + 1]
        /\ req \in Asked /\ nodes[r] = T[d]
        /\ Tree(nodes[r]) /\ Kept(nodes[r]) /\ Accepts(nodes[r], req)
        /\ T[d + 1] = Made(nodes[r], req)
    BY <1>1, CallFacts
  <1>3. /\ nodes' = [nodes EXCEPT ![r] = Made(nodes[r], req)]
        /\ fuse' = [fuse EXCEPT ![r] = [at |-> "replied", req |-> ToSend(nodes[r], req)]]
        /\ done' = [done EXCEPT ![r] = @ + 1]
    BY <1>1, <1>2, ReplyNext
  <1>4. ToSend(nodes[r], req) = req
    BY <1>2, MadeNext
  <1> HIDE DEF req
  <1>5. /\ nodes'[r] = T[d + 1] /\ fuse'[r] = [at |-> "replied", req |-> req] /\ done'[r] = d + 1
        /\ loop'[r] = NextHeader
        /\ \A q \in Procs : q # r =>
              /\ nodes'[q] = nodes[q] /\ fuse'[q] = fuse[q] /\ done'[q] = done[q] /\ loop'[q] = loop[q]
    BY <1>1, <1>2, <1>3, <1>4 DEF TypeInv, TreesType, ThreadsType, HistoryType
  <1>6. Grows(T)'
    BY <1>1 DEF Grows
  <1>7. Shown(T)'
    BY <1>1, <1>2, <1>5 DEF Shown
  <1>8. Sent(o)' = Sent(o)
    BY <1>1, <1>2, <1>5 DEF Sent
  <1>9. Leads(o)'
    BY <1>1, <1>2, <1>5 DEF Leads, InOrder
  <1>10. ASSUME NEW q \in Procs \ {o, r} PROVE Follows(o, q)'
    BY <1>1, <1>5, <1>8, FollowsStill DEF InOrder
  <1>11. Follows(o, r)'
    <2>1. flags[r] = {req.op} /\ Taken(r) = 2 * d + 2 /\ d \in Nat
      BY <1>1, <1>2, FollowFacts, ThreadFacts DEF Follows
    <2>2. loop'[r].at = "header" /\ fuse'[r].at = "replied" /\ fuse'[r].req = req /\ ~ Idle(r)'
      BY <1>5 DEF NextHeader, At, Idle, NoHandler
    <2>3. Taken(r)' = Taken(r)
      <3>1. Taken(r)' = 2 * (d + 1)
        BY <1>5, <2>1, <2>2 DEF Taken
      <3> HIDE DEF d
      <3>2. QED  BY <2>1, <3>1
    <2>4. QED  BY <1>1, <1>2, <1>8, <2>1, <2>2, <2>3 DEF Follows
  <1>12. QED  BY <1>6, <1>7, <1>9, <1>10, <1>11 DEF InOrder

\* At rest every process has done everything, and any may be the one whose users
\* come next.
LEMMA QuietInOrder ==
    ASSUME TypeInv, NEW o \in Procs, InOrder(o), Quiet, NEW p \in Procs
    PROVE  InOrder(p)
  <1>1. Leads(o) /\ \A r \in Procs \ {o} : Follows(o, r)
    BY DEF InOrder
  <1>2. \A q \in Procs : /\ Idle(q) /\ fuse[q].at = "idle" /\ loop[q] = NextHeader /\ loop[q].at = "header"
                         /\ \A r \in Procs : chan[q][r] = <<>>
    BY ThreadFacts DEF Quiet
  <1>3. Sent(o) = Len(log) /\ Sent(p) = Len(log) /\ Len(log) \in Nat
    BY <1>2, LogFacts DEF Sent
  <1>4. ASSUME NEW r \in Procs PROVE done[r] = Len(log) /\ flags[r] = {}
    <2>1. CASE r = o
      BY <1>1, <2>1 DEF Leads
    <2>2. CASE r # o
      <3>1. Follows(o, r)
        BY <1>1, <2>2
      <3>2. Len(chan[o][r]) = 2 * Sent(o) - Taken(r) /\ Taken(r) = 2 * done[r] /\ done[r] \in Nat
        BY <1>2, <3>1, FollowFacts, ThreadFacts
      <3>3. Len(chan[o][r]) = 0
        BY <1>2
      <3> HIDE DEF Taken, Sent
      <3>4. done[r] = Len(log)
        BY <1>3, <3>2, <3>3
      <3>5. QED  BY <1>2, <3>1, <3>4 DEF Follows
    <2>3. QED  BY <2>1, <2>2
  <1>5. Leads(p)
    BY <1>2, <1>4 DEF Leads
  <1>6. ASSUME NEW r \in Procs \ {p} PROVE Follows(p, r)
    <2>1. Taken(r) = 2 * Len(log)
      <3>1. loop[r].at = "header" /\ done[r] = Len(log)
        BY <1>2, <1>4
      <3>2. QED  BY <1>3, <3>1 DEF Taken
    <2> DEFINE n == Len(log)
               c == chan[p][r]
    <2>2. Len(c) = 0
      BY <1>2
    <2>3. n \in Nat /\ Sent(p) = n
      BY <1>3
    <2>4. Carries(c, log, n, 2 * n)
      <3>1. n \in 0 .. Len(log) /\ 2 * n \in Nat /\ 2 * n - 2 * n = 0
        BY <2>3
      <3>2. \A k \in 1 .. n : ~ (2 * k - 1 > 2 * n) /\ ~ (2 * k > 2 * n)
        BY <2>3
      <3> HIDE DEF n, c
      <3>3. QED  BY <2>2, <3>1, <3>2 DEF Carries
    <2>5. Carries(chan[p][r], log, Sent(p), Taken(r))
      BY <2>1, <2>3, <2>4
    <2>6. QED  BY <1>2, <1>4, <2>5 DEF Follows
  <1>7. QED  BY <1>5, <1>6 DEF InOrder

LEMMA UserInOrder ==
    ASSUME TypeInv, NEW p \in Procs, InOrder(p), NEW T, Grows(T), Shown(T),
           NEW req \in Requests, User(p, req), orderly', ~ reclaiming[p]
    PROVE  InOrder(p)' /\ \E U : Grows(U)' /\ Shown(U)'
  <1> DEFINE n == Len(log)
             t == nodes[p]
  <1>1. /\ Handler(p, req) /\ log' = Append(log, req) /\ req \in Asked
        /\ MovesNoDir(t, req)
        /\ UNCHANGED <<loop, flags, chan>>
    BY RequestsFacts DEF User, MovesNoDir
  <1>2. /\ Idle(p) /\ Accepts(t, req) /\ Tree(t)
        /\ nodes' = [nodes EXCEPT ![p] = Made(t, req)]
        /\ fuse' = [fuse EXCEPT ![p] = [at |-> "replied", req |-> ToSend(t, req)]]
        /\ done' = [done EXCEPT ![p] = @ + 1]
    BY <1>1, ReplyNext
  <1>3. n \in Nat /\ done[p] = n /\ log \in Seq(Requests)
    BY LogFacts DEF InOrder, Leads, TypeInv, HistoryType
  <1>4. t = T[n] /\ Kept(t)
    <2>1. n \in 0 .. Len(log)
      BY <1>3
    <2>2. QED  BY <1>3, <2>1 DEF Shown, Grows
  <1>5. Tree(Made(t, req)) /\ Kept(Made(t, req)) /\ ToSend(t, req) = req
    BY <1>1, <1>2, <1>4, MadeNext DEF MovesNoDir
  <1>6. /\ Len(log') = n + 1 /\ log'[n + 1] = req /\ \A k \in 1 .. n : log'[k] = log[k]
    BY <1>1, <1>3, AppendProperties
  <1>7. /\ nodes'[p] = Made(t, req) /\ fuse'[p] = [at |-> "replied", req |-> req] /\ done'[p] = n + 1
        /\ \A q \in Procs : q # p =>
              /\ nodes'[q] = nodes[q] /\ fuse'[q] = fuse[q] /\ done'[q] = done[q]
    BY <1>2, <1>3, <1>5 DEF TypeInv, TreesType, ThreadsType, HistoryType
  <1>8. PICK U : U[n + 1] = Made(t, req) /\ U[n] = t /\ \A k \in 0 .. n : U[k] = T[k]
    <2> DEFINE U == [k \in 0 .. n + 1 |-> IF k = n + 1 THEN Made(t, req) ELSE T[k]]
    <2>1. U[n + 1] = Made(t, req) /\ U[n] = t /\ \A k \in 0 .. n : U[k] = T[k]
      BY <1>3, <1>4
    <2>2. QED  BY <2>1
  <1> HIDE DEF t, n
  <1>9. Grows(U)'
    <2>1. ASSUME NEW k \in 0 .. n + 1 PROVE Tree(U[k]) /\ Kept(U[k])
      <3>1. k \in 0 .. n \/ k = n + 1
        BY <1>3
      <3>2. QED  BY <1>5, <1>8, <3>1 DEF Grows, n
    <2>2. ASSUME NEW k \in 1 .. n + 1
          PROVE  /\ Accepts(U[k - 1], log'[k]) /\ MovesNoDir(U[k - 1], log'[k])
                 /\ U[k] = Made(U[k - 1], log'[k])
      <3>1. CASE k \in 1 .. n
        <4>1. /\ Accepts(T[k - 1], log[k]) /\ MovesNoDir(T[k - 1], log[k])
              /\ T[k] = Made(T[k - 1], log[k])
          BY <3>1 DEF Grows, n
        <4>2. k \in 0 .. n /\ k - 1 \in 0 .. n
          BY <1>3, <3>1
        <4>3. QED  BY <1>6, <1>8, <3>1, <4>1, <4>2
      <3>2. CASE k = n + 1
        <4>1. U[k - 1] = t /\ U[k] = Made(t, req) /\ log'[k] = req
          BY <1>3, <1>6, <1>8, <3>2
        <4>2. QED  BY <1>1, <1>2, <4>1
      <3>3. QED  BY <1>3, <3>1, <3>2
    <2>3. U[0] = FirstTree
      BY <1>3, <1>8 DEF Grows
    <2>4. QED  BY <1>6, <2>1, <2>2, <2>3 DEF Grows
  <1>10. Shown(U)'
    <2>1. ASSUME NEW q \in Procs PROVE done'[q] <= n + 1 /\ nodes'[q] = U[done'[q]]
      <3>1. CASE q = p
        BY <1>3, <1>7, <1>8, <3>1
      <3>2. CASE q # p
        <4>1. done[q] <= n /\ nodes[q] = T[done[q]] /\ done[q] \in Nat
          BY ThreadFacts DEF Shown, n
        <4>2. done[q] \in 0 .. n
          BY <1>3, <4>1
        <4>3. QED  BY <1>3, <1>7, <1>8, <3>2, <4>1, <4>2
      <3>3. QED  BY <3>1, <3>2
    <2>2. QED  BY <1>6, <2>1 DEF Shown
  <1>11. Sent(p) = n /\ Sent(p)' = n
    <2>1. fuse[p].at # "replied" /\ fuse'[p].at = "replied"
      BY <1>2, <1>7, ThreadFacts
    <2>2. Sent(p) = n
      BY <2>1 DEF Sent, n
    <2>3. Sent(p)' = Len(log') - 1
      BY <2>1 DEF Sent
    <2>4. QED  BY <1>3, <1>6, <2>2, <2>3
  <1>12. Leads(p)'
    BY <1>1, <1>3, <1>6, <1>7 DEF Leads, InOrder
  <1>13. ASSUME NEW r \in Procs \ {p} PROVE Follows(p, r)'
    <2>1. Follows(p, r)
      BY DEF InOrder
    <2>2. /\ fuse'[r] = fuse[r] /\ done'[r] = done[r] /\ loop'[r] = loop[r] /\ flags'[r] = flags[r]
          /\ chan'[p][r] = chan[p][r] /\ (Idle(r)' <=> Idle(r)) /\ Taken(r)' = Taken(r)
      BY <1>1, <1>7 DEF Idle, Taken
    <2>3. Carries(chan[p][r], log', n, Taken(r))
      <3>1. Carries(chan[p][r], log, n, Taken(r))
        BY <1>11, <2>1 DEF Follows
      <3>2. QED  BY <1>1, <1>3, <3>1, CarriesLonger
    <2>4. loop[r].at # "header" => log'[done[r] + 1] = log[done[r] + 1]
      <3>1. loop[r].at # "header" => done[r] + 1 \in 1 .. n
        BY <1>11, <2>1, FollowFacts DEF Follows
      <3>2. QED  BY <1>6, <3>1
    <2>5. QED  BY <1>11, <2>1, <2>2, <2>3, <2>4 DEF Follows
  <1>14. QED  BY <1>9, <1>10, <1>12, <1>13 DEF InOrder

\* While things are orderly no receive takes another message than its own, and what
\* is to be repeated is not refused.
LEMMA SecondNeverFails ==
    ASSUME TypeInv, NEW o \in Procs, InOrder(o), NEW T, Grows(T), Shown(T), NEW r \in Procs
    PROVE  ~ Refused(r)
  <1>1. SUFFICES ASSUME Refused(r) PROVE FALSE
    OBVIOUS
  <1>2. loop[r].at = "call" /\ ~ Accepts(nodes[r], loop[r].req)
    BY <1>1 DEF Refused
  <1>3. QED  BY <1>2, CallFacts

LEMMA StayOrderly ==
    ASSUME Next, orderly'
    PROVE  orderly
  BY DEF Next, Rest, Serve, TestFlag, ClearFlag, ReceiveHeader, ReceivePayload, Repeat, Refused,
         User, UserAlone, FuseForget, users, vars

LEMMA ServeOrder ==
    ASSUME TypeInv, OrderInv, NEW p \in Procs, Serve(p), orderly, orderly'
    PROVE  OrderInv'
  <1>1. PICK T : Grows(T) /\ Shown(T)
    BY DEF OrderInv
  <1>2. PICK o \in Procs : o = origin /\ InOrder(o)
    BY DEF OrderInv, TypeInv, HistoryType
  <1>3. ~ Refused(p)
    BY <1>1, <1>2, SecondNeverFails
  <1>4. CASE Repeat(p)
    <2>1. \A r \in Procs : ~ reclaiming[r]
      BY DEF OrderInv
    <2>2. InOrder(o)' /\ Grows(T)' /\ Shown(T)' /\ origin' = origin
      BY <1>1, <1>2, <1>4, <2>1, RepeatInOrder DEF Repeat, users
    <2>3. Handler(p, loop[p].req) /\ loop[p].req \in Asked
      BY <1>4, ThreadFacts DEF Repeat
    <2>4. \A r \in Procs : ~ reclaiming'[r]
      BY <2>1, <2>3, ReplyType
    <2>5. QED  BY <1>2, <2>2, <2>4 DEF OrderInv
  <1>5. CASE TestFlag(p) \/ ClearFlag(p) \/ ReceiveHeader(p) \/ ReceivePayload(p)
    <2>1. InOrder(o)'
      BY <1>2, <1>5, TestFlagInOrder, ClearFlagInOrder, ReceiveHeaderInOrder, ReceivePayloadInOrder
    <2>2. UNCHANGED <<nodes, reclaiming, done, log, origin>>
      BY <1>5 DEF TestFlag, ClearFlag, ReceiveHeader, ReceivePayload, users, inodes
    <2>3. Grows(T)' /\ Shown(T)'
      BY <1>1, <2>2 DEF Grows, Shown
    <2>4. \A r \in Procs : ~ reclaiming'[r]
      BY <2>2 DEF OrderInv
    <2>5. QED  BY <1>2, <2>1, <2>2, <2>3, <2>4 DEF OrderInv
  <1>6. QED  BY <1>3, <1>4, <1>5 DEF Serve

LEMMA UserOrder ==
    ASSUME TypeInv, OrderInv, NEW p \in Procs, NEW req \in Requests, User(p, req), orderly, orderly'
    PROVE  OrderInv' /\ InOrder(p)
  <1>1. PICK T : Grows(T) /\ Shown(T)
    BY DEF OrderInv
  <1>2. PICK o \in Procs : o = origin /\ InOrder(o)
    BY DEF OrderInv, TypeInv, HistoryType
  <1>3. origin' = p /\ (p = origin \/ Quiet)
    BY DEF User
  <1>4. InOrder(p)
    BY <1>2, <1>3, QuietInOrder
  <1>5. \A r \in Procs : ~ reclaiming[r]
    BY DEF OrderInv
  <1>6. InOrder(p)' /\ \E U : Grows(U)' /\ Shown(U)'
    BY <1>1, <1>4, <1>5, UserInOrder
  <1>7. Handler(p, req) /\ req \in Asked
    BY RequestsFacts DEF User
  <1>8. \A r \in Procs : ~ reclaiming'[r]
    BY <1>5, <1>7, ReplyType
  <1>9. QED  BY <1>3, <1>4, <1>6, <1>8 DEF OrderInv

\* Where nothing happens to names, threads and messages, the order stays.
LEMMA StillInOrder ==
    ASSUME TypeInv, OrderInv, orderly, \A p \in Procs : ~ reclaiming'[p],
           UNCHANGED <<nodes, fuse, loop, flags, chan, origin, log, done>>
    PROVE  OrderInv'
  <1>1. PICK T : Grows(T) /\ Shown(T)
    BY DEF OrderInv
  <1>2. Grows(T)' /\ Shown(T)'
    BY <1>1 DEF Grows, Shown
  <1>3. PICK o \in Procs : o = origin /\ InOrder(o)
    BY DEF OrderInv, TypeInv, HistoryType
  <1>4. Leads(o)'
    BY <1>3 DEF InOrder, Leads
  <1>5. Sent(o)' = Sent(o)
    BY DEF Sent
  <1>6. ASSUME NEW r \in Procs \ {o} PROVE Follows(o, r)'
    BY <1>3, <1>5, FollowsStill DEF InOrder
  <1>7. InOrder(o)' /\ origin' = o
    BY <1>3, <1>4, <1>6 DEF InOrder
  <1>8. QED  BY <1>2, <1>7 DEF OrderInv

\* A number may be queued on any process, as long as it is not given again.
LEMMA ForgetOrder ==
    ASSUME TypeInv, OrderInv, NEW p \in Procs, NEW i \in DOMAIN nodes[p], FuseForget(p, i), orderly'
    PROVE  OrderInv'
  <1>1. orderly /\ ~ reclaiming'[p] /\ \A r \in Procs : ~ reclaiming[r]
    BY DEF FuseForget, OrderInv
  <1>2. \A r \in Procs : ~ reclaiming'[r]
    BY <1>1 DEF FuseForget, TypeInv, TableType
  <1>3. QED  BY <1>1, <1>2, StillInOrder DEF FuseForget

THEOREM OrderInvariance == Spec => []OrderInv
  <1>1. Init => OrderInv
    BY InitInOrder
  <1>2. TypeInv /\ OrderInv /\ [Next]_vars => OrderInv'
    <2> SUFFICES ASSUME TypeInv, OrderInv, [Next]_vars, orderly' PROVE OrderInv'
      BY DEF OrderInv
    <2>1. CASE UNCHANGED vars
      <3>1. orderly /\ UNCHANGED <<nodes, fuse, loop, flags, chan, origin, log, done>>
            /\ UNCHANGED reclaiming
        BY <2>1 DEF vars
      <3>2. \A p \in Procs : ~ reclaiming'[p]
        BY <3>1 DEF OrderInv
      <3>3. QED  BY <3>1, <3>2, StillInOrder
    <2>2. ASSUME Next PROVE orderly
      BY <2>2, StayOrderly
    <2>3. ASSUME NEW p \in Procs, Serve(p), orderly PROVE OrderInv'
      BY <2>3, ServeOrder
    <2>4. ASSUME NEW p \in Procs, UserAlone(p) PROVE FALSE
      BY <2>4 DEF UserAlone
    <2>5. ASSUME NEW p \in Procs, NEW req \in Requests, User(p, req), orderly PROVE OrderInv'
      BY <2>5, UserOrder
    <2>6. ASSUME NEW p \in Procs, NEW i \in DOMAIN nodes[p], FuseForget(p, i) PROVE OrderInv'
      BY <2>6, ForgetOrder
    <2>7. QED  BY <2>1, <2>2, <2>3, <2>4, <2>5, <2>6 DEF Next, Rest
  <1>3. QED  BY <1>1, <1>2, TypeInvariance, PTL DEF Spec

\* No receive of a second thread takes another message than the one it is for, and
\* no file that is to be repeated fails to open (DistributedCode::start, createFile).
THEOREM NoneFailsSafety == Spec => []NoneFails
  <1>1. TypeInv /\ OrderInv => NoneFails
    <2> SUFFICES ASSUME TypeInv, OrderInv, orderly, NEW p \in Procs PROVE loop[p] # Failed
      BY DEF NoneFails
    <2>1. PICK o \in Procs : InOrder(o)
      BY DEF OrderInv, TypeInv, HistoryType
    <2>2. CASE p = o
      BY <2>1, <2>2 DEF InOrder, Leads, NextHeader, Failed, At
    <2>3. CASE p # o
      <3>1. loop[p].at # "failed"
        BY <2>1, <2>3 DEF InOrder, Follows
      <3>2. QED  BY <3>1 DEF Failed, At
    <2>4. QED  BY <2>2, <2>3
  <1>2. QED  BY <1>1, TypeInvariance, OrderInvariance, PTL

\* Processes that have run as many handlers have the same i-nodes under the same
\* numbers (RegisterINode, and the paths that RequestSender sends): kernels may
\* forget when they like, until a process comes to use numbers again.
THEOREM SameNumbersSafety == Spec => []SameNumbers
  <1>1. OrderInv => SameNumbers
    BY DEF OrderInv, Shown, SameNumbers
  <1>2. QED  BY <1>1, OrderInvariance, PTL

\* Every process runs the one sequence of operations that the users of all have
\* started: none is repeated twice, skipped or echoed (the FromThread flags).
THEOREM Refinement == Spec => ImplementsLog
  <1>1. Init => Log!Init
    BY DEF Init, Log!Init
  <1>2. TypeInv /\ OrderInv /\ [Next]_vars => [Log!Next]_<<log, done, orderly>>
    <2> SUFFICES ASSUME TypeInv, OrderInv, Next, orderly'
                 PROVE  Log!Next \/ UNCHANGED <<log, done, orderly>>
      BY DEF Log!Next, vars
    <2>1. orderly
      BY StayOrderly
    <2>2. PICK T : Grows(T) /\ Shown(T)
      BY <2>1 DEF OrderInv
    <2>3. PICK o \in Procs : o = origin /\ InOrder(o)
      BY <2>1 DEF OrderInv, TypeInv, HistoryType
    <2>4. ASSUME NEW p \in Procs, Repeat(p) PROVE Log!Next
      <3>1. loop[p].at = "call" /\ Handler(p, loop[p].req) /\ UNCHANGED <<log, orderly>>
        BY <2>4 DEF Repeat, users
      <3>2. loop[p].req \in Asked /\ done[p] + 1 \in 1 .. Len(log)
        BY <2>2, <2>3, <3>1, CallFacts
      <3>3. done' = [done EXCEPT ![p] = @ + 1]
        BY <3>1, <3>2, ReplyType
      <3>4. done[p] < Len(log)
        BY <3>2, ThreadFacts, LogFacts
      <3>5. Log!Replay(p)
        BY <3>1, <3>3, <3>4 DEF Log!Replay, Log!Apply
      <3>6. QED  BY <2>1, <3>5 DEF Log!Next
    <2>5. ASSUME NEW p \in Procs, Serve(p), ~ Repeat(p) PROVE UNCHANGED <<log, done, orderly>>
      <3>1. UNCHANGED <<log, done>>
        BY <2>5 DEF Serve, TestFlag, ClearFlag, ReceiveHeader, ReceivePayload, Refused, users
      <3>2. QED  BY <2>1, <3>1 DEF TypeInv, HistoryType, Serve, TestFlag, ClearFlag, ReceiveHeader,
                                   ReceivePayload, Refused, users
    <2>6. ASSUME NEW p \in Procs, UserAlone(p) PROVE FALSE
      BY <2>6 DEF UserAlone
    <2>7. ASSUME NEW p \in Procs, NEW req \in Requests, User(p, req) PROVE Log!Next
      <3>1. InOrder(p)
        BY <2>1, <2>7, UserOrder
      <3>2. done[p] = Len(log)
        BY <3>1 DEF InOrder, Leads
      <3>3. log' = Append(log, req) /\ done' = [done EXCEPT ![p] = @ + 1]
        BY <2>7, RequestsFacts, ReplyType DEF User
      <3>4. done[p] < Len(log')
        <4>1. Len(log) \in Nat /\ Len(log') = Len(log) + 1
          BY <3>3, LogFacts, AppendProperties, RequestsFacts DEF TypeInv, HistoryType
        <4>2. QED  BY <3>2, <4>1
      <3>5. Log!Do(p, req)
        BY <3>2, <3>3, <3>4 DEF Log!Do, Log!Apply
      <3>6. QED  BY <2>1, <3>5 DEF Log!Next
    <2>8. ASSUME NEW p \in Procs, NEW i \in DOMAIN nodes[p], FuseForget(p, i)
          PROVE  UNCHANGED <<log, done, orderly>>
      <3>1. UNCHANGED <<log, done>> /\ orderly' = (orderly /\ ~ reclaiming'[p])
        BY <2>8 DEF FuseForget
      <3>2. orderly = TRUE /\ orderly' = TRUE
        BY <2>1, <3>1 DEF TypeInv, HistoryType
      <3>3. QED  BY <3>1, <3>2
    <2>9. QED  BY <2>4, <2>5, <2>6, <2>7, <2>8 DEF Next, Rest, vars
  <1>3. QED  BY <1>1, <1>2, TypeInvariance, OrderInvariance, PTL DEF Spec, ImplementsLog, Log!Spec

-----------------------------------------------------------------------------
(* What the operations make of the paths.                                  *)

\* q begins with the names of path.
Begins(q, path) == Len(path) <= Len(q) /\ \A k \in 1 .. Len(path) : q[k] = path[k]

\* Beyond a file, an empty directory or nothing there is nothing.
LEMMA NothingBeyond ==
    ASSUME NEW t, NEW path \in Seq(Names), NEW q \in Seq(Names), Begins(q, path), q # path,
           \A n : Child(t, Resolve(t, path), n) = 0
    PROVE  Resolve(t, q) = 0
  <1>1. Len(path) \in Nat /\ Len(q) \in Nat
    BY LenProperties
  <1>2. Len(path) < Len(q)
    <2>1. CASE Len(path) = Len(q)
      <3>1. q = path
        BY <1>1, <2>1, SeqEqual DEF Begins
      <3>2. QED  BY <3>1
    <2>2. QED  BY <1>1, <2>1 DEF Begins
  <1>3. PICK w : Walks(t, q, w, Len(q)) /\ Resolve(t, q) = w[Len(q)]
    BY <1>1, ResolveWalk
  <1>4. PICK v : Walks(t, path, v, Len(path)) /\ Resolve(t, path) = v[Len(path)]
    BY <1>1, ResolveWalk
  <1> DEFINE n == Len(path)
             m == Len(q)
  <1>5. w[n] = Resolve(t, path)
    <2>1. n \in Nat /\ m \in Nat /\ n <= m /\ \A k \in 1 .. n : path[k] = q[k]
      BY <1>1 DEF Begins
    <2>2. Walks(t, path, v, n) /\ Walks(t, q, w, m)
      BY <1>3, <1>4
    <2> HIDE DEF n, m
    <2>3. v[n] = w[n]
      BY <2>1, <2>2, WalksAgree, Z3
    <2>4. QED  BY <1>4, <2>3 DEF n
  <1> DEFINE T == {k \in n + 1 .. m : w[k] # 0}
  <1>6. SUFFICES ASSUME T # {} PROVE FALSE
    BY <1>1, <1>2, <1>3
  <1>7. PICK k \in T : \A j \in T : k <= j
    <2>1. T \subseteq Nat
      BY <1>1
    <2> HIDE DEF T
    <2>2. QED  BY <1>6, <2>1, LeastNumber
  <1>8. k \in 0 .. m /\ w[k] # 0 /\ w[k] = Child(t, w[k - 1], q[k])
    BY <1>1, <1>3, WalkAt DEF Step
  <1>9. CASE k = n + 1
    BY <1>1, <1>5, <1>8, <1>9
  <1>10. CASE k # n + 1
    <2>1. w[k - 1] = 0
      BY <1>1, <1>7, <1>10
    <2>2. QED  BY <1>8, <2>1 DEF Child, IsDir
  <1>11. QED  BY <1>9, <1>10

\* s differs from t in the entry path leads to, and in i-nodes t does not have.
DifferAt(t, s, path) ==
    /\ Len(t) <= Len(s) /\ \A i \in 1 .. Len(t) : s[i].kind = t[i].kind
    /\ \A d \in 0 .. Len(t) : \A n :
          ~ (d = ParentOf(t, path) /\ n = Last(path)) => Child(s, d, n) = Child(t, d, n)

\* Paths that do not begin so lead where they led.
LEMMA SameElsewhere ==
    ASSUME NEW t, Tree(t), Kept(t), NEW path \in Seq(Names), path # <<>>, IsDir(t, ParentOf(t, path)),
           NEW s, DifferAt(t, s, path), NEW q \in Seq(Names), ~ Begins(q, path)
    PROVE  Resolve(s, q) = Resolve(t, q)
  <1>1. /\ Len(path) \in Nat \ {0} /\ Len(q) \in Nat /\ Len(t) \in Nat \ {0}
        /\ Len(Front(path)) = Len(path) - 1 /\ Front(path) \in Seq(Names)
        /\ \A k \in 1 .. Len(path) - 1 : Front(path)[k] = path[k]
        /\ \A k \in 1 .. Len(q) : q[k] \in Names
    <2>1. /\ Len(path) \in Nat \ {0} /\ Len(Front(path)) = Len(path) - 1
          /\ Front(path) \in Seq(Names) /\ \A k \in 1 .. Len(path) - 1 : Front(path)[k] = path[k]
      BY FrontFacts
    <2>2. Len(q) \in Nat /\ \A k \in 1 .. Len(q) : q[k] \in Names
      BY LenProperties, ElementOfSeq
    <2>3. Len(t) \in Nat \ {0}
      BY LenProperties, EmptySeq, TreeFacts DEF Tree, RootIsDir
    <2>4. QED  BY <2>1, <2>2, <2>3
  <1>2. PICK w : Walks(t, q, w, Len(q)) /\ Resolve(t, q) = w[Len(q)]
    BY <1>1, ResolveWalk
  <1>3. PICK v : Walks(s, q, v, Len(q)) /\ Resolve(s, q) = v[Len(q)]
    BY <1>1, ResolveWalk
  <1> DEFINE T == {k \in 0 .. Len(q) : ~ (v[k] = w[k] /\ w[k] \in 0 .. Len(t))}
  <1>4. SUFFICES ASSUME T # {} PROVE FALSE
    BY <1>1, <1>2, <1>3
  <1>5. PICK k \in T : \A j \in T : k <= j
    <2>1. T \subseteq Nat
      BY <1>1
    <2> HIDE DEF T
    <2>2. QED  BY <1>4, <2>1, LeastNumber
  <1>6. k \in 0 .. Len(q) /\ w[k] = Step(t, q, w, k) /\ v[k] = Step(s, q, v, k)
    BY <1>1, <1>2, <1>3, WalkAt
  <1>7. k # 0
    BY <1>1, <1>5, <1>6 DEF Step, Root
  <1>8. /\ v[k - 1] = w[k - 1] /\ w[k - 1] \in 0 .. Len(t)
        /\ w[k] = Child(t, w[k - 1], q[k]) /\ v[k] = Child(s, w[k - 1], q[k])
    BY <1>1, <1>5, <1>6, <1>7 DEF Step
  <1>9. w[k] \in 0 .. Len(t)
    BY <1>8, ChildFacts
  <1>10. w[k - 1] = ParentOf(t, path) /\ q[k] = Last(path)
    BY <1>5, <1>8, <1>9 DEF DifferAt
  <1> DEFINE p == SubSeq(q, 1, k - 1)
  <1>11. p \in Seq(Names) /\ Len(p) = k - 1 /\ \A j \in 1 .. k - 1 : p[j] = q[j]
    <2>1. k - 1 \in 0 .. Len(q)
      BY <1>1, <1>6, <1>7
    <2>2. QED  BY <2>1, SubSeqIsPrefix
  <1>12. Resolve(t, p) = w[k - 1]
    <2> HIDE DEF p
    <2>1. PICK u : Walks(t, p, u, k - 1) /\ Resolve(t, p) = u[k - 1]
      <3>1. Len(p) = k - 1 /\ Len(p) \in Nat
        BY <1>6, <1>7, <1>11
      <3>2. QED  BY <3>1, ResolveWalk
    <2> DEFINE n == k - 1
               m == Len(q)
    <2>2. n \in Nat /\ m \in Nat /\ n <= m /\ \A j \in 1 .. n : p[j] = q[j]
      BY <1>1, <1>6, <1>7, <1>11
    <2>3. Walks(t, p, u, n) /\ Walks(t, q, w, m)
      BY <1>2, <2>1
    <2> HIDE DEF n, m
    <2>4. u[n] = w[n]
      BY <2>2, <2>3, WalksAgree, Z3
    <2>5. QED  BY <2>1, <2>4 DEF n
  <1>13. p = Front(path)
    <2>1. IsDir(t, Resolve(t, p))
      BY <1>10, <1>12
    <2>2. t[Resolve(t, p)].dirName = p
      BY <1>11, <2>1, ResolveKept
    <2>3. t[Resolve(t, Front(path))].dirName = Front(path)
      BY <1>1, ResolveKept DEF ParentOf
    <2>4. QED  BY <1>10, <1>12, <2>2, <2>3 DEF ParentOf
  <1>14. Len(path) = k /\ \A j \in 1 .. k - 1 : q[j] = path[j]
    BY <1>1, <1>6, <1>7, <1>11, <1>13
  <1>15. q[Len(path)] = path[Len(path)]
    BY <1>10, <1>14 DEF Last
  <1>16. Begins(q, path)
    <2>1. \A j \in 1 .. Len(path) : j \in 1 .. k - 1 \/ j = Len(path)
      BY <1>1, <1>14
    <2>2. QED  BY <1>6, <1>14, <1>15, <2>1 DEF Begins
  <1>17. QED  BY <1>16

\* Where path led to what has nothing below it, and does so afterwards, every other
\* path leads where it led.
LEMMA OthersSame ==
    ASSUME NEW t, Tree(t), Kept(t), NEW path \in Seq(Names), path # <<>>, IsDir(t, ParentOf(t, path)),
           NEW s, DifferAt(t, s, path),
           \A n : Child(t, Resolve(t, path), n) = 0,
           \A n : Child(s, Child(s, ParentOf(t, path), Last(path)), n) = 0
    PROVE  /\ Resolve(s, path) = Child(s, ParentOf(t, path), Last(path))
           /\ \A q \in Seq(Names) : q # path =>
                 /\ Resolve(s, q) = Resolve(t, q)
                 /\ Resolve(t, q) # 0 => s[Resolve(s, q)].kind = t[Resolve(t, q)].kind
  <1>1. Resolve(s, path) = Child(s, ParentOf(t, path), Last(path))
    <2>1. /\ Len(path) \in Nat \ {0} /\ Len(Front(path)) = Len(path) - 1 /\ Front(path) \in Seq(Names)
      BY FrontFacts
    <2>2. ~ Begins(Front(path), path)
      BY <2>1 DEF Begins
    <2>3. Resolve(s, Front(path)) = Resolve(t, Front(path))
      BY <2>1, <2>2, SameElsewhere
    <2>4. Resolve(s, path) = Child(s, ParentOf(s, path), Last(path))
      BY ResolveLast
    <2>5. QED  BY <2>3, <2>4 DEF ParentOf
  <1>2. ASSUME NEW q \in Seq(Names), q # path
        PROVE  /\ Resolve(s, q) = Resolve(t, q)
               /\ Resolve(t, q) # 0 => s[Resolve(s, q)].kind = t[Resolve(t, q)].kind
    <2>1. CASE Begins(q, path)
      <3>1. Resolve(t, q) = 0
        BY <1>2, <2>1, NothingBeyond
      <3>2. \A n : Child(s, Resolve(s, path), n) = 0
        BY <1>1
      <3>3. Resolve(s, q) = 0
        BY <1>2, <2>1, <3>2, NothingBeyond
      <3>4. QED  BY <3>1, <3>3
    <2>2. CASE ~ Begins(q, path)
      <3>1. Resolve(s, q) = Resolve(t, q)
        BY <2>2, SameElsewhere
      <3>2. Resolve(t, q) \in 0 .. Len(t) /\ Len(t) \in Nat
        BY ResolveType, TreeFacts DEF Tree
      <3>3. QED  BY <3>1, <3>2 DEF DifferAt
    <2>3. QED  BY <2>1, <2>2
  <1>3. QED  BY <1>1, <1>2

LEMMA ViewWith ==
    ASSUME NEW t, Tree(t), Kept(t), NEW path \in Paths, IsDir(t, ParentOf(t, path)),
           NEW s, DifferAt(t, s, path),
           \A n : Child(t, Resolve(t, path), n) = 0,
           NEW i, i = Child(s, ParentOf(t, path), Last(path)), i # 0, \A n : Child(s, i, n) = 0,
           NEW kind, s[i].kind = kind
    PROVE  View(s) = With(View(t), path, kind)
  <1>1. path \in Seq(Names) /\ path # <<>> /\ Paths \subseteq Seq(Names)
    BY PathsFacts DEF Path
  <1>2. /\ Resolve(s, path) = i
        /\ \A q \in Seq(Names) : q # path =>
              /\ Resolve(s, q) = Resolve(t, q)
              /\ Resolve(t, q) # 0 => s[Resolve(s, q)].kind = t[Resolve(t, q)].kind
    BY <1>1, OthersSame
  <1> DEFINE A == {q \in Paths : Resolve(t, q) # 0}
             B == {q \in Paths : Resolve(s, q) # 0}
             f == [q \in A |-> t[Resolve(t, q)].kind]
             g == [q \in B |-> s[Resolve(s, q)].kind]
             h == [q \in A \cup {path} |-> IF q = path THEN kind ELSE f[q]]
  <1>3. View(t) = f /\ View(s) = g
    BY DEF View
  <1>4. With(View(t), path, kind) = h
    BY <1>3 DEF With
  <1>5. B = A \cup {path}
    BY <1>1, <1>2
  <1>6. ASSUME NEW q \in B PROVE g[q] = h[q]
    <2>1. CASE q = path
      BY <1>2, <1>5, <2>1
    <2>2. CASE q # path
      <3>1. q \in A /\ q \in Seq(Names)
        BY <1>1, <1>5, <2>2
      <3>2. g[q] = s[Resolve(s, q)].kind /\ h[q] = t[Resolve(t, q)].kind
        BY <1>5, <2>2, <3>1
      <3>3. QED  BY <1>2, <2>2, <3>1, <3>2
    <2>3. QED  BY <2>1, <2>2
  <1>7. DOMAIN g = B /\ DOMAIN h = B /\ g = [q \in B |-> g[q]] /\ h = [q \in B |-> h[q]]
    BY <1>5
  <1> HIDE DEF A, B, f, g, h
  <1>8. g = h
    BY <1>6, <1>7
  <1>9. QED  BY <1>3, <1>4, <1>8

LEMMA ViewWithout ==
    ASSUME NEW t, Tree(t), Kept(t), NEW path \in Paths, IsDir(t, ParentOf(t, path)),
           NEW s, DifferAt(t, s, path),
           \A n : Child(t, Resolve(t, path), n) = 0,
           Child(s, ParentOf(t, path), Last(path)) = 0
    PROVE  View(s) = Without(View(t), path)
  <1>1. path \in Seq(Names) /\ path # <<>> /\ Paths \subseteq Seq(Names)
    BY PathsFacts DEF Path
  <1>2. \A n : Child(s, 0, n) = 0
    BY DEF Child, IsDir
  <1>3. /\ Resolve(s, path) = 0
        /\ \A q \in Seq(Names) : q # path =>
              /\ Resolve(s, q) = Resolve(t, q)
              /\ Resolve(t, q) # 0 => s[Resolve(s, q)].kind = t[Resolve(t, q)].kind
    BY <1>1, <1>2, OthersSame
  <1> DEFINE A == {q \in Paths : Resolve(t, q) # 0}
             B == {q \in Paths : Resolve(s, q) # 0}
             f == [q \in A |-> t[Resolve(t, q)].kind]
             g == [q \in B |-> s[Resolve(s, q)].kind]
             h == [q \in A \ {path} |-> f[q]]
  <1>4. View(t) = f /\ View(s) = g
    BY DEF View
  <1>5. Without(View(t), path) = h
    BY <1>4 DEF Without
  <1>6. B = A \ {path}
    BY <1>1, <1>3
  <1>7. ASSUME NEW q \in B PROVE g[q] = h[q]
    <2>1. q \in A /\ q \in Seq(Names) /\ q # path
      BY <1>1, <1>6
    <2>2. g[q] = s[Resolve(s, q)].kind /\ h[q] = t[Resolve(t, q)].kind
      BY <1>6, <2>1
    <2>3. QED  BY <1>3, <2>1, <2>2
  <1>8. DOMAIN g = B /\ DOMAIN h = B /\ g = [q \in B |-> g[q]] /\ h = [q \in B |-> h[q]]
    BY <1>6
  <1> HIDE DEF A, B, f, g, h
  <1>9. g = h
    BY <1>7, <1>8
  <1>10. QED  BY <1>4, <1>5, <1>9

\* Below a file, an empty directory or nothing.
LEMMA NoChild ==
    ASSUME NEW t, NEW i, i = 0 \/ t[i].kind = "REGULAR_FILE" \/ DOMAIN t[i].kids = {}
    PROVE  \A n : Child(t, i, n) = 0
  BY DEF Child, IsDir

LEMMA DeleteDiffers ==
    ASSUME NEW t, Tree(t), NEW path, ParentOf(t, path) \in 1 .. Len(t),
           NEW s, s = DeleteChild(t, ParentOf(t, path), Last(path))
    PROVE  DifferAt(t, s, path) /\ Child(s, ParentOf(t, path), Last(path)) = 0
  <1> DEFINE d == ParentOf(t, path)
             n == Last(path)
  <1>1. t \in Seq(Node) /\ Len(t) \in Nat
    BY TreeFacts DEF Tree
  <1> HIDE DEF d, n
  <1>2. /\ Len(s) = Len(t)
        /\ \A j \in 1 .. Len(t) :
              /\ s[j].kind = t[j].kind
              /\ DOMAIN s[j].kids = DOMAIN t[j].kids \ (IF j = d THEN {n} ELSE {})
              /\ \A m \in DOMAIN s[j].kids : s[j].kids[m] = t[j].kids[m]
    BY <1>1, DeleteFacts DEF d, n
  <1>3. Child(s, d, n) = 0
    BY <1>2 DEF Child, d
  <1>4. ASSUME NEW j \in 0 .. Len(t), NEW m, ~ (j = d /\ m = n) PROVE Child(s, j, m) = Child(t, j, m)
    <2>1. CASE j = 0
      BY <2>1 DEF Child, IsDir
    <2>2. CASE j # 0
      <3>1. j \in 1 .. Len(t)
        BY <1>1, <2>2
      <3>2. s[j].kind = t[j].kind /\ (m \in DOMAIN s[j].kids <=> m \in DOMAIN t[j].kids)
            /\ (m \in DOMAIN s[j].kids => s[j].kids[m] = t[j].kids[m])
        BY <1>2, <1>4, <3>1
      <3>3. QED  BY <3>2 DEF Child, IsDir
    <2>3. QED  BY <2>1, <2>2
  <1>5. QED  BY <1>1, <1>2, <1>3, <1>4 DEF DifferAt, d, n

LEMMA UpdateDiffers ==
    ASSUME NEW t, Tree(t), NEW path, ParentOf(t, path) \in 1 .. Len(t), IsDir(t, ParentOf(t, path)),
           Last(path) \in Names, NEW i \in Nat \ {0, 1},
           NEW s, s = UpdateChild(t, ParentOf(t, path), Last(path), i)
    PROVE  /\ DifferAt(t, s, path) /\ Child(s, ParentOf(t, path), Last(path)) = i
           /\ Len(s) = Len(t) /\ \A j \in 1 .. Len(t) : s[j].kind = t[j].kind
  <1> DEFINE d == ParentOf(t, path)
             n == Last(path)
  <1>1. t \in Seq(Node) /\ Len(t) \in Nat /\ d # 0 /\ t[d].kind = "DIRECTORY"
    BY TreeFacts DEF Tree, IsDir
  <1> HIDE DEF d, n
  <1>2. /\ Len(s) = Len(t)
        /\ \A j \in 1 .. Len(t) :
              /\ s[j].kind = t[j].kind
              /\ DOMAIN s[j].kids = DOMAIN t[j].kids \cup (IF j = d THEN {n} ELSE {})
              /\ \A m \in DOMAIN s[j].kids : s[j].kids[m] = IF j = d /\ m = n THEN i ELSE t[j].kids[m]
    BY <1>1, UpdateFacts DEF d, n
  <1>3. Child(s, d, n) = i
    <2>1. d \in 1 .. Len(t)
      BY DEF d
    <2>2. s[d].kind = "DIRECTORY" /\ n \in DOMAIN s[d].kids /\ s[d].kids[n] = i
      BY <1>1, <1>2, <2>1
    <2>3. QED  BY <1>1, <2>2 DEF Child, IsDir
  <1>4. ASSUME NEW j \in 0 .. Len(t), NEW m, ~ (j = d /\ m = n) PROVE Child(s, j, m) = Child(t, j, m)
    <2>1. CASE j = 0
      BY <2>1 DEF Child, IsDir
    <2>2. CASE j # 0
      <3>1. j \in 1 .. Len(t)
        BY <1>1, <2>2
      <3>2. s[j].kind = t[j].kind /\ (m \in DOMAIN s[j].kids <=> m \in DOMAIN t[j].kids)
            /\ (m \in DOMAIN s[j].kids => s[j].kids[m] = t[j].kids[m])
        BY <1>2, <1>4, <3>1
      <3>3. QED  BY <3>2 DEF Child, IsDir
    <2>3. QED  BY <2>1, <2>2
  <1>5. QED  BY <1>1, <1>2, <1>3, <1>4 DEF DifferAt, d, n

LEMMA EnterDiffers ==
    ASSUME NEW t, Tree(t), NEW path \in Seq(Names), path # <<>>, CanMake(t, path),
           NEW kind \in NodeKinds, NEW name \in Seq(Names), kind = "DIRECTORY" => name # <<>>,
           NEW s, s = Enter(t, Len(t) + 1, path, INode(kind, name))
    PROVE  /\ DifferAt(t, s, path) /\ Child(s, ParentOf(t, path), Last(path)) = Len(t) + 1
           /\ s[Len(t) + 1].kind = kind /\ DOMAIN s[Len(t) + 1].kids = {}
  <1> DEFINE d == ParentOf(t, path)
             n == Last(path)
             i == Len(t) + 1
             node == INode(kind, name)
             u == Append(t, node)
  <1>1. IsDir(t, d)
    BY DEF CanMake
  <1>2. d \in 1 .. Len(t) /\ n \in Names /\ d # 0 /\ t[d].kind = "DIRECTORY"
    BY <1>1, ParentFacts DEF IsDir
  <1>3. node \in Node /\ DOMAIN node.kids = {} /\ node.kind = kind /\ node.dirName = name
    BY INodeFacts
  <1>4. t \in Seq(Node) /\ Len(t) \in Nat \ {0}
    BY TreeFacts, EmptySeq, LenProperties DEF Tree, RootIsDir
  <1>5. s = UpdateChild(u, d, n, i)
    <2>1. Put(t, i, node) = u
      BY <1>4 DEF Put
    <2>2. QED  BY <2>1 DEF Enter
  <1> HIDE DEF d, n, node, u
  <1>6. /\ u \in Seq(Node) /\ Len(u) = i /\ u[i] = node
        /\ \A j \in 1 .. Len(t) : u[j] = t[j]
    BY <1>3, <1>4, AppendProperties DEF u
  <1>7. d \in 1 .. Len(u) /\ i \in Nat \ {0, 1}
    BY <1>2, <1>4, <1>6
  <1>8. /\ Len(s) = Len(u)
        /\ \A j \in 1 .. Len(u) :
              /\ s[j].kind = u[j].kind
              /\ DOMAIN s[j].kids = DOMAIN u[j].kids \cup (IF j = d THEN {n} ELSE {})
              /\ \A m \in DOMAIN s[j].kids : s[j].kids[m] = IF j = d /\ m = n THEN i ELSE u[j].kids[m]
    <2> HIDE DEF i
    <2>1. u \in Seq(Node) /\ d \in 1 .. Len(u) /\ n \in Names /\ i \in Nat \ {0, 1}
      BY <1>2, <1>6, <1>7
    <2>2. QED  BY <1>5, <2>1, UpdateFacts
  <1>9. Child(s, d, n) = i
    <2>1. s[d].kind = "DIRECTORY" /\ n \in DOMAIN s[d].kids /\ s[d].kids[n] = i
      BY <1>2, <1>6, <1>7, <1>8
    <2>2. QED  BY <1>2, <2>1 DEF Child, IsDir
  <1>10. s[i].kind = kind /\ DOMAIN s[i].kids = {}
    <2>1. i \in 1 .. Len(u) /\ i # d
      BY <1>2, <1>4, <1>6
    <2> HIDE DEF i
    <2>2. QED  BY <1>3, <1>6, <1>8, <2>1
  <1>11. ASSUME NEW j \in 0 .. Len(t), NEW m, ~ (j = d /\ m = n) PROVE Child(s, j, m) = Child(t, j, m)
    <2>1. CASE j = 0
      BY <2>1 DEF Child, IsDir
    <2>2. CASE j # 0
      <3>1. j \in 1 .. Len(t) /\ j \in 1 .. Len(u) /\ u[j] = t[j]
        BY <1>4, <1>6, <2>2
      <3>2. s[j].kind = t[j].kind /\ (m \in DOMAIN s[j].kids <=> m \in DOMAIN t[j].kids)
            /\ (m \in DOMAIN s[j].kids => s[j].kids[m] = t[j].kids[m])
        BY <1>8, <1>11, <3>1
      <3>3. QED  BY <3>2 DEF Child, IsDir
    <2>3. QED  BY <2>1, <2>2
  <1>12. Len(t) <= Len(s) /\ \A j \in 1 .. Len(t) : s[j].kind = t[j].kind
    BY <1>4, <1>6, <1>8
  <1>13. QED  BY <1>9, <1>10, <1>11, <1>12 DEF DifferAt, d, n

LEMMA RequestsPaths ==
    ASSUME NEW req \in Requests
    PROVE  req.paths[1] \in Paths /\ (req.op = "RENAME" => req.paths[2] \in Paths)
  <1>1. CASE \E op \in Ops \ {"RENAME"}, path \in Paths : req = Request(op, path)
    BY <1>1 DEF Request
  <1>2. CASE \E path, dest \in Paths : req = RenameOf(path, dest)
    BY <1>2 DEF RenameOf
  <1>3. QED  BY <1>1, <1>2 DEF Requests

LEMMA ViewCreated ==
    ASSUME NEW t, Tree(t), Kept(t), NEW path \in Paths, CanMake(t, path),
           NEW kind \in NodeKinds, NEW name \in Seq(Names), kind = "DIRECTORY" => name # <<>>
    PROVE  View(Enter(t, Len(t) + 1, path, INode(kind, name))) = With(View(t), path, kind)
  <1> DEFINE s == Enter(t, Len(t) + 1, path, INode(kind, name))
             i == Len(t) + 1
  <1>1. path \in Seq(Names) /\ path # <<>>
    BY PathsFacts DEF Path
  <1>2. IsDir(t, ParentOf(t, path)) /\ Resolve(t, path) = 0
    BY DEF CanMake
  <1>3. /\ DifferAt(t, s, path) /\ Child(s, ParentOf(t, path), Last(path)) = i
        /\ s[i].kind = kind /\ DOMAIN s[i].kids = {}
    BY <1>1, EnterDiffers
  <1>4. i # 0
    BY TreeFacts DEF Tree
  <1> HIDE DEF s, i
  <1>5. (\A n : Child(t, Resolve(t, path), n) = 0) /\ (\A n : Child(s, i, n) = 0)
    BY <1>2, <1>3, NoChild
  <1>6. View(s) = With(View(t), path, kind)
    BY <1>2, <1>3, <1>4, <1>5, ViewWith
  <1>7. QED  BY <1>6 DEF s

LEMMA ViewDeleted ==
    ASSUME NEW t, Tree(t), Kept(t), NEW path \in Paths, CanUnlink(t, path) \/ CanRmdir(t, path)
    PROVE  View(DeleteChild(t, ParentOf(t, path), Last(path))) = Without(View(t), path)
  <1> DEFINE s == DeleteChild(t, ParentOf(t, path), Last(path))
  <1>1. path \in Seq(Names) /\ path # <<>>
    BY PathsFacts DEF Path
  <1>2. IsDir(t, ParentOf(t, path))
    BY <1>1, FoundFacts DEF CanUnlink, CanRmdir, IsFile, IsDir
  <1>3. ParentOf(t, path) \in 1 .. Len(t)
    BY <1>1, <1>2, ParentFacts
  <1>4. \A n : Child(t, Resolve(t, path), n) = 0
    BY NoChild DEF CanUnlink, CanRmdir, IsFile
  <1>5. DifferAt(t, s, path) /\ Child(s, ParentOf(t, path), Last(path)) = 0
    BY <1>3, DeleteDiffers
  <1> HIDE DEF s
  <1>6. View(s) = Without(View(t), path)
    BY <1>2, <1>4, <1>5, ViewWithout
  <1>7. QED  BY <1>6 DEF s

LEMMA ViewRenamed ==
    ASSUME NEW t, Tree(t), Kept(t), NEW path \in Paths, NEW dest \in Paths, CanRename(t, path, dest),
           IsFile(t, Resolve(t, path))
    PROVE  View(Renamed(t, path, dest)) = With(Without(View(t), path), dest, "REGULAR_FILE")
  <1> DEFINE d == ParentOf(t, path)
             a == Last(path)
             e == ParentOf(t, dest)
             b == Last(dest)
             i == Resolve(t, path)
             u == DeleteChild(t, d, a)
             s == UpdateChild(u, e, b, i)
  <1>1. /\ path \in Seq(Names) /\ path # <<>> /\ dest \in Seq(Names) /\ dest # <<>>
    BY PathsFacts DEF Path
  <1>2. /\ IsDir(t, d) /\ d \in 1 .. Len(t) /\ i \in 2 .. Len(t)
        /\ IsDir(t, e) /\ e \in 1 .. Len(t) /\ b \in Names
        /\ Renamed(t, path, dest) = s
    BY <1>1, RenamedIs
  <1>3. t \in Seq(Node) /\ Len(t) \in Nat /\ i \in Nat \ {0, 1}
    BY <1>2, TreeFacts DEF Tree
  <1>4. t[i].kind = "REGULAR_FILE" /\ CanUnlink(t, path)
    BY DEF IsFile, CanUnlink
  <1>5. View(u) = Without(View(t), path)
    BY <1>4, ViewDeleted
  <1>6. Tree(u) /\ Kept(u)
    BY <1>2, DeleteTree
  <1>7. Len(u) = Len(t) /\ \A j \in 1 .. Len(t) : u[j].kind = t[j].kind
    BY <1>2, <1>3, DeleteFacts
  <1>8. DifferAt(t, u, path)
    BY <1>2, DeleteDiffers
  <1>9. Len(path) \in Nat /\ Len(dest) \in Nat
    BY <1>1, LenProperties
  <1>10. ~ Begins(dest, path)
    <2>1. SUFFICES ASSUME Begins(dest, path) PROVE IsPrefix(path, dest)
      BY DEF CanRename
    <2>2. Len(path) \in 0 .. Len(path) /\ Len(path) \in 0 .. Len(dest) /\ Len(path) <= Len(dest)
      BY <1>9, <2>1 DEF Begins
    <2>3. /\ SubSeq(path, 1, Len(path)) \in Seq(Names) /\ SubSeq(dest, 1, Len(path)) \in Seq(Names)
          /\ Len(SubSeq(path, 1, Len(path))) = Len(path) /\ Len(SubSeq(dest, 1, Len(path))) = Len(path)
          /\ \A k \in 1 .. Len(path) : SubSeq(path, 1, Len(path))[k] = path[k]
          /\ \A k \in 1 .. Len(path) : SubSeq(dest, 1, Len(path))[k] = dest[k]
      BY <1>1, <2>2, SubSeqIsPrefix
    <2>4. SubSeq(path, 1, Len(path)) = SubSeq(dest, 1, Len(path))
      BY <2>1, <2>3, SeqEqual DEF Begins
    <2>5. QED  BY <2>2, <2>4 DEF IsPrefix
  <1>11. Front(dest) \in Seq(Names) /\ ~ Begins(Front(dest), path)
    <2>1. /\ Front(dest) \in Seq(Names) /\ Len(Front(dest)) = Len(dest) - 1
          /\ \A k \in 1 .. Len(dest) - 1 : Front(dest)[k] = dest[k]
      BY <1>1, FrontFacts
    <2>2. Begins(Front(dest), path) => Begins(dest, path)
      BY <1>9, <2>1 DEF Begins
    <2>3. QED  BY <1>10, <2>1, <2>2
  <1> HIDE DEF s, u
  <1>12. Resolve(u, dest) = Resolve(t, dest) /\ ParentOf(u, dest) = e
    BY <1>1, <1>2, <1>8, <1>10, <1>11, SameElsewhere DEF ParentOf
  <1>13. IsDir(u, e)
    BY <1>2, <1>7 DEF IsDir
  <1>14. \A n : Child(u, Resolve(u, dest), n) = 0
    <2>1. Resolve(t, dest) = 0 \/ IsFile(t, Resolve(t, dest))
      BY <1>4 DEF CanRename, CanUnlink, IsDir
    <2>2. Resolve(t, dest) \in 0 .. Len(t)
      BY <1>1, ResolveType
    <2>3. Resolve(u, dest) = 0 \/ u[Resolve(u, dest)].kind = "REGULAR_FILE"
      BY <1>3, <1>7, <1>12, <2>1, <2>2 DEF IsFile
    <2>4. QED  BY <2>3, NoChild
  <1>15. /\ DifferAt(u, s, dest) /\ Child(s, ParentOf(u, dest), b) = i
         /\ \A j \in 1 .. Len(u) : s[j].kind = u[j].kind
    <2>1. s = UpdateChild(u, ParentOf(u, dest), Last(dest), i)
      BY <1>12 DEF s
    <2>2. /\ ParentOf(u, dest) \in 1 .. Len(u) /\ IsDir(u, ParentOf(u, dest)) /\ Last(dest) \in Names
      BY <1>2, <1>7, <1>12, <1>13
    <2>3. QED  BY <1>3, <1>6, <2>1, <2>2, UpdateDiffers
  <1>16. s[i].kind = "REGULAR_FILE" /\ i # 0
    BY <1>2, <1>3, <1>4, <1>7, <1>15
  <1>17. \A n : Child(s, i, n) = 0
    BY <1>16, NoChild
  <1>18. View(s) = With(View(u), dest, "REGULAR_FILE")
    <2>1. IsDir(u, ParentOf(u, dest)) /\ i = Child(s, ParentOf(u, dest), Last(dest))
      BY <1>12, <1>13, <1>15
    <2> HIDE DEF i
    <2>2. QED  BY <1>6, <1>14, <1>15, <1>16, <1>17, <2>1, ViewWith
  <1>19. QED  BY <1>2, <1>5, <1>18

\* What a handler makes of the i-nodes shows as what the operation makes of the
\* paths.
LEMMA ViewMade ==
    ASSUME NEW t, Tree(t), Kept(t), NEW req \in Requests, Accepts(t, req),
           req.op = "RENAME" => IsFile(t, Resolve(t, req.paths[1]))
    PROVE  View(Made(t, req)) = After(View(t), req)
  <1> DEFINE path == req.paths[1]
             dest == req.paths[2]
  <1>1. path \in Paths /\ (req.op = "RENAME" => dest \in Paths) /\ req.op \in Ops
    BY RequestsPaths, RequestsFacts, AskedFacts
  <1>2. path \in Seq(Names) /\ path # <<>> /\ <<>> \in Seq(Names)
    BY <1>1, PathsFacts, EmptySeq DEF Path
  <1> HIDE DEF path, dest
  <1>3. CASE req.op = "CREATE_FILE"
    <2>1. CanMake(t, path) /\ Made(t, req) = Enter(t, Len(t) + 1, path, INode("REGULAR_FILE", <<>>))
          /\ After(View(t), req) = With(View(t), path, "REGULAR_FILE")
      BY <1>3 DEF Accepts, Made, MadeAt, After, path
    <2>2. QED  BY <1>1, <1>2, <2>1, ViewCreated DEF NodeKinds
  <1>4. CASE req.op = "CREATE_DIR"
    <2>1. CanMake(t, path) /\ Made(t, req) = Enter(t, Len(t) + 1, path, INode("DIRECTORY", Named(t, path)))
          /\ After(View(t), req) = With(View(t), path, "DIRECTORY")
      BY <1>4 DEF Accepts, Made, MadeAt, After, path
    <2>2. Named(t, path) \in Seq(Names) /\ Named(t, path) # <<>>
      BY <1>2, <2>1, ParentFacts DEF CanMake
    <2>3. QED  BY <1>1, <2>1, <2>2, ViewCreated DEF NodeKinds
  <1>5. CASE req.op \in {"DELETE_FILE", "DELETE_DIR"}
    <2>1. /\ CanUnlink(t, path) \/ CanRmdir(t, path)
          /\ Made(t, req) = DeleteChild(t, ParentOf(t, path), Last(path))
          /\ After(View(t), req) = Without(View(t), path)
      BY <1>5 DEF Accepts, Made, MadeAt, After, path
    <2>2. QED  BY <1>1, <2>1, ViewDeleted
  <1>6. CASE req.op = "RENAME"
    <2>1. /\ CanRename(t, path, dest) /\ IsFile(t, Resolve(t, path))
          /\ Made(t, req) = Renamed(t, path, dest)
          /\ After(View(t), req) = With(Without(View(t), path), dest, "REGULAR_FILE")
      BY <1>6 DEF Accepts, Made, MadeAt, After, path, dest
    <2>2. QED  BY <1>1, <1>6, <2>1, ViewRenamed
  <1>7. QED  BY <1>1, <1>3, <1>4, <1>5, <1>6 DEF Ops

LEMMA FirstView == ASSUME Tree(FirstTree) PROVE View(FirstTree) = <<>>
  <1> DEFINE t == FirstTree
             i == Resolve(t, <<>>)
             A == {q \in Paths : Resolve(t, q) # 0}
             f == [q \in A |-> t[Resolve(t, q)].kind]
  <1>1. Len(t) = 1 /\ DOMAIN t[1].kids = {}
    <2> DEFINE node == INode("DIRECTORY", <<>>)
    <2>1. DOMAIN node.kids = {} /\ t = <<node>>
      BY DEF INode, FirstTree
    <2> HIDE DEF node, t
    <2>2. Len(<<node>>) = 1 /\ <<node>>[1] = node
      OBVIOUS
    <2>3. QED  BY <2>1, <2>2
  <1>2. <<>> \in Seq(Names) /\ Len(<<>>) = 0
    BY EmptySeq
  <1> HIDE DEF t
  <1>3. \A n : Child(t, i, n) = 0
    <2>1. i \in 0 .. 1
      BY <1>1, <1>2, ResolveType DEF t
    <2>2. i = 0 \/ DOMAIN t[i].kids = {}
      BY <1>1, <2>1
    <2>3. QED  BY <2>2, NoChild
  <1>4. ASSUME NEW q \in Paths PROVE Resolve(t, q) = 0
    <2>1. q \in Seq(Names) /\ q # <<>>
      BY PathsFacts DEF Path
    <2>2. Begins(q, <<>>)
      BY <1>2, <2>1, LenProperties DEF Begins
    <2>3. QED  BY <1>2, <1>3, <2>1, <2>2, NothingBeyond
  <1>5. A = {}
    BY <1>4
  <1>6. f \in [{} -> {}] /\ <<>> \in [{} -> {}]
    BY <1>5
  <1>7. View(t) = f
    BY DEF View
  <1> HIDE DEF f
  <1>8. QED  BY <1>6, <1>7 DEF t

\* What the first n operations of l make of the paths, one after another.
Makes(l, w, n) == w = [k \in 0 .. n |-> IF k = 0 THEN <<>> ELSE After(w[k - 1], l[k])]

LEMMA MakesAt ==
    ASSUME NEW l, NEW w, NEW n \in Nat, Makes(l, w, n), NEW k \in 0 .. n
    PROVE  w[k] = IF k = 0 THEN <<>> ELSE After(w[k - 1], l[k])
  <1> DEFINE f == [j \in 0 .. n |-> IF j = 0 THEN <<>> ELSE After(w[j - 1], l[j])]
  <1>1. f[k] = IF k = 0 THEN <<>> ELSE After(w[k - 1], l[k])
    OBVIOUS
  <1>2. w = f
    BY DEF Makes
  <1> HIDE DEF f
  <1>3. QED  BY <1>1, <1>2

LEMMA MakesAgree ==
    ASSUME NEW l, NEW v, NEW w, NEW n \in Nat, Makes(l, v, n), Makes(l, w, n)
    PROVE  \A k \in 0 .. n : v[k] = w[k]
  <1> DEFINE T == {k \in 0 .. n : v[k] # w[k]}
  <1>1. SUFFICES ASSUME T # {} PROVE FALSE
    OBVIOUS
  <1>2. PICK k \in T : \A j \in T : k <= j
    <2>1. T \subseteq Nat
      OBVIOUS
    <2> HIDE DEF T
    <2>2. QED  BY <1>1, <2>1, LeastNumber
  <1>3. /\ v[k] = IF k = 0 THEN <<>> ELSE After(v[k - 1], l[k])
        /\ w[k] = IF k = 0 THEN <<>> ELSE After(w[k - 1], l[k])
    BY MakesAt
  <1>4. k # 0
    BY <1>3
  <1>5. v[k - 1] = w[k - 1]
    BY <1>2, <1>4
  <1>6. QED  BY <1>3, <1>5

\* The paths of the trees are what the operations make of none.
LEMMA ViewsMade ==
    ASSUME TypeInv, NEW T, Grows(T)
    PROVE  Makes(log, [k \in 0 .. Len(log) |-> View(T[k])], Len(log))
  <1> DEFINE n == Len(log)
             w == [k \in 0 .. n |-> View(T[k])]
  <1>1. n \in Nat
    BY LogFacts
  <1>2. ASSUME NEW k \in 0 .. n
        PROVE  View(T[k]) = IF k = 0 THEN <<>> ELSE After(w[k - 1], log[k])
    <2>1. CASE k = 0
      <3>1. T[0] = FirstTree /\ Tree(T[0])
        BY <2>1 DEF Grows
      <3>2. View(T[0]) = <<>>
        BY <3>1, FirstView
      <3>3. QED  BY <2>1, <3>2
    <2>2. CASE k # 0
      <3>1. k \in 1 .. n /\ k - 1 \in 0 .. n
        BY <1>1, <2>2
      <3>2. /\ Tree(T[k - 1]) /\ Kept(T[k - 1]) /\ T[k] = Made(T[k - 1], log[k])
            /\ Accepts(T[k - 1], log[k]) /\ MovesNoDir(T[k - 1], log[k]) /\ log[k] \in Requests
        BY <3>1, LogFacts DEF Grows
      <3>3. View(Made(T[k - 1], log[k])) = After(View(T[k - 1]), log[k])
        BY <3>2, ViewMade DEF MovesNoDir
      <3>4. w[k - 1] = View(T[k - 1])
        BY <3>1
      <3>5. QED  BY <2>2, <3>2, <3>3, <3>4
    <2>3. QED  BY <2>1, <2>2
  <1>3. w = [k \in 0 .. n |-> IF k = 0 THEN <<>> ELSE After(w[k - 1], log[k])]
    BY <1>2
  <1>4. QED  BY <1>3 DEF Makes

\* Every process shows the paths that the operations it has applied, in the order
\* users started them, have made.
THEOREM ShowsItsPrefixSafety == Spec => []ShowsItsPrefix
  <1>1. TypeInv /\ OrderInv => ShowsItsPrefix
    <2> SUFFICES ASSUME TypeInv, OrderInv, orderly PROVE ShowsItsPrefix
      BY DEF ShowsItsPrefix
    <2> DEFINE n == Len(log)
               made == CHOOSE w : Makes(log, w, n)
    <2>1. PICK T : Grows(T) /\ Shown(T)
      BY DEF OrderInv
    <2> DEFINE v == [k \in 0 .. n |-> View(T[k])]
    <2>2. Makes(log, v, n) /\ n \in Nat
      BY <2>1, ViewsMade, LogFacts
    <2> HIDE DEF v
    <2>3. Makes(log, made, n)
      BY <2>2
    <2> HIDE DEF made, n
    <2>4. \A k \in 0 .. n : v[k] = made[k]
      BY <2>2, <2>3, MakesAgree
    <2>5. ASSUME NEW p \in Procs PROVE View(nodes[p]) = made[done[p]]
      <3>1. done[p] \in 0 .. n /\ nodes[p] = T[done[p]]
        BY <2>1, <2>2, ThreadFacts DEF Shown, n
      <3>2. v[done[p]] = View(T[done[p]])
        BY <3>1 DEF v
      <3>3. QED  BY <2>4, <3>1, <3>2
    <2>6. QED  BY <2>5 DEF ShowsItsPrefix, Makes, made, n
  <1>2. QED  BY <1>1, TypeInvariance, OrderInvariance, PTL
=============================================================================
