----------------------------- MODULE XAttrProofs -----------------------------
(***************************************************************************)
(* Proofs about XAttr, for every set of names, bytes and clients and every *)
(* length of values: type correctness, and that an attribute is what       *)
(* module Attributes says as long as its clients are orderly.              *)
(***************************************************************************)
EXTENDS XAttr, TLAPS, FiniteSetTheorems, SequenceTheorems

-----------------------------------------------------------------------------
(* Values.                                                                 *)

\* A value is a sequence of at most MaxLength bytes.
LEMMA ValueSeq == \A v : v \in Values <=> v \in Seq(Byte) /\ Len(v) <= MaxLength
  <1>1. ASSUME NEW v, v \in Values PROVE v \in Seq(Byte) /\ Len(v) <= MaxLength
    <2>1. PICK n \in 0 .. MaxLength : v \in [1 .. n -> Byte]
      BY <1>1 DEF Values
    <2>2. n \in Nat /\ n <= MaxLength
      BY XAttrAssumption
    <2>3. v \in Seq(Byte) /\ Len(v) = n
      BY <2>1, <2>2
    <2>4. QED  BY <2>2, <2>3
  <1>2. ASSUME NEW v, v \in Seq(Byte), Len(v) <= MaxLength PROVE v \in Values
    <2>1. Len(v) \in 0 .. MaxLength /\ v \in [1 .. Len(v) -> Byte]
      BY <1>2, XAttrAssumption
    <2>2. QED  BY <2>1 DEF Values
  <1>3. QED  BY <1>1, <1>2

\* What INode::SetXAttr leaves: the value itself if it is no shorter than what was
\* there, and never more bytes than the longer of the two.
LEMMA OverlaidValue ==
    ASSUME NEW old \in Values, NEW value \in Values
    PROVE  /\ Overlaid(old, value) \in Values
           /\ Len(value) >= Len(old) => Overlaid(old, value) = value
  <1>1. /\ old \in Seq(Byte) /\ Len(old) \in Nat /\ Len(old) <= MaxLength
        /\ value \in Seq(Byte) /\ Len(value) \in Nat /\ Len(value) <= MaxLength
    BY ValueSeq
  <1> DEFINE rest == SubSeq(old, Len(value) + 1, Len(old))
  <1>2. CASE Len(value) >= Len(old)
    <2>1. rest = <<>>
      BY <1>1, <1>2
    <2>2. value \o <<>> = value
      BY <1>1
    <2>3. Overlaid(old, value) = value
      BY <2>1, <2>2 DEF Overlaid
    <2>4. QED  BY <2>3
  <1>3. CASE Len(value) < Len(old)
    <2>1. rest \in Seq(Byte) /\ Len(rest) = Len(old) - Len(value)
      BY <1>1, <1>3, SubSeqProperties
    <2>2. value \o rest \in Seq(Byte) /\ Len(value \o rest) = Len(old)
      BY <1>1, <2>1
    <2>3. Overlaid(old, value) \in Values
      BY <1>1, <2>2, ValueSeq DEF Overlaid
    <2>4. QED  BY <1>1, <1>3, <2>3
  <1>4. QED  BY <1>1, <1>2, <1>3

LEMMA NoValue == <<>> \in Values
  <1>1. <<>> \in Seq(Byte) /\ Len(<<>>) = 0
    OBVIOUS
  <1>2. 0 <= MaxLength
    BY XAttrAssumption
  <1>3. QED  BY <1>1, <1>2, ValueSeq

-----------------------------------------------------------------------------
(* Type correctness.                                                       *)

LEMMA TypeInit == Init => TypeOK
  <1> SUFFICES ASSUME Init PROVE TypeOK
    OBVIOUS
  <1>1. Present = {}
    BY DEF Init, Present
  <1>2. asked \in [Clients -> {Nothing} \cup [name : Names, size : 0 .. MaxLength]]
    BY DEF Init
  <1>3. reply.error = "none" /\ orderly = TRUE /\ fault = FALSE
    BY DEF Init, Map!Reply
  <1>4. QED  BY <1>1, <1>2, <1>3 DEF TypeOK

LEMMA TypeStep == TypeOK /\ [Next]_vars => TypeOK'
  <1> SUFFICES ASSUME TypeOK, [Next]_vars PROVE TypeOK'
    OBVIOUS
  <1>1. ASSUME NEW n \in Names, NEW value \in Values, NEW flags \in Flags,
               FuseSetXAttr(n, value, flags)
        PROVE  TypeOK'
    <2>1. Old(n) \in Values
      BY NoValue DEF Old, TypeOK
    <2>2. Present' \subseteq Names /\ \A m \in Present' : m_xattr'[m] \in Values
      <3>1. CASE UNCHANGED m_xattr
        BY <3>1 DEF TypeOK, Present
      <3>2. CASE m_xattr' = [m \in Present \cup {n} |->
                                IF m = n THEN Overlaid(Old(n), value) ELSE m_xattr[m]]
        BY <2>1, <3>2, OverlaidValue DEF TypeOK, Present
      <3>3. QED  BY <1>1, <3>1, <3>2 DEF FuseSetXAttr
    <2>3. reply'.error \in {"none", "EEXIST", "ENODATA", "ERANGE"}
      BY <1>1 DEF FuseSetXAttr, Error, Map!Error, Map!Reply
    <2>4. orderly' \in BOOLEAN /\ UNCHANGED <<asked, fault>>
      BY <1>1 DEF FuseSetXAttr, Keeps
    <2>5. QED  BY <2>2, <2>3, <2>4 DEF TypeOK
  <1>2. ASSUME NEW c \in Clients, NEW n \in Names, NEW size \in 0 .. MaxLength,
               FuseGetXAttr(c, n, size)
        PROVE  TypeOK'
    <2>1. /\ reply'.error \in {"none", "EEXIST", "ENODATA", "ERANGE"}
      BY <1>2 DEF FuseGetXAttr, Error, Map!Error, Map!Reply
    <2>2. orderly' \in BOOLEAN /\ UNCHANGED <<m_xattr, fault>>
      BY <1>2 DEF FuseGetXAttr, Keeps
    <2>3. asked' \in [Clients -> {Nothing} \cup [name : Names, size : 0 .. MaxLength]]
      <3>1. n \in Present => Len(m_xattr[n]) \in 0 .. MaxLength
        BY ValueSeq, XAttrAssumption DEF TypeOK
      <3>2. QED  BY <1>2, <3>1 DEF FuseGetXAttr, TypeOK
    <2>4. QED  BY <2>1, <2>2, <2>3 DEF TypeOK, Present
  <1>3. ASSUME NEW room \in 0 .. Cardinality(Names), FuseListXAttr(room) PROVE TypeOK'
    <2>1. reply'.error \in {"none", "EEXIST", "ENODATA", "ERANGE"}
      BY <1>3 DEF FuseListXAttr, Map!Reply
    <2>2. /\ orderly' \in BOOLEAN /\ fault' \in BOOLEAN /\ UNCHANGED <<m_xattr, asked>>
      BY <1>3 DEF FuseListXAttr, Keeps
    <2>3. QED  BY <2>1, <2>2 DEF TypeOK, Present
  <1>4. ASSUME NEW n \in Names, FuseRemoveXAttr(n) PROVE TypeOK'
    <2>1. reply'.error \in {"none", "EEXIST", "ENODATA", "ERANGE"}
      BY <1>4 DEF FuseRemoveXAttr, RemoveXAttr, Map!Reply
    <2>2. /\ m_xattr' = [m \in Present \ {n} |-> m_xattr[m]]
          /\ UNCHANGED <<asked, orderly, fault>>
      BY <1>4 DEF FuseRemoveXAttr, RemoveXAttr
    <2>3. QED  BY <2>1, <2>2 DEF TypeOK, Present
  <1>5. CASE UNCHANGED vars
    BY <1>5 DEF vars, TypeOK, Present
  <1>6. QED  BY <1>1, <1>2, <1>3, <1>4, <1>5 DEF Next

\* No value is longer than the longest that was set, and whoever has asked for a
\* size has been told one that a value can have (INode::m_xattr, FuseGetXAttr).
THEOREM TypeCorrect == Spec => []TypeOK
  BY TypeInit, TypeStep, PTL DEF Spec

-----------------------------------------------------------------------------
(* The refinement.  What makes it inductive: a size a client has asked for *)
(* is that of the value, unless the attribute has been removed since.      *)

AskedIsLength ==
    \A c \in Clients : asked[c] # Nothing /\ asked[c].name \in Present =>
        asked[c].size = Len(m_xattr[asked[c].name])

RInv == TypeOK /\ (orderly => ~ fault /\ AskedIsLength)

AbstractStep == orderly' => ~ fault' /\ (Map!Next \/ UNCHANGED <<m_xattr, reply>>)

\* Each operation of an orderly client is one of the abstract map's.
LEMMA SetRefines ==
    ASSUME RInv, RInv', NEW n \in Names, NEW value \in Values, NEW flags \in Flags,
           FuseSetXAttr(n, value, flags), orderly'
    PROVE  ~ fault' /\ Map!Set
  <1>1. /\ orderly /\ flags = "none" /\ Len(value) >= Len(Old(n)) /\ fault' = fault
    BY DEF FuseSetXAttr, Keeps
  <1>2. Old(n) \in Values
    BY NoValue DEF Old, RInv, TypeOK
  <1>3. Overlaid(Old(n), value) = value /\ value \in Seq(Byte)
    BY <1>1, <1>2, OverlaidValue, ValueSeq
  <1>4. /\ m_xattr' = [m \in Present \cup {n} |->
                          IF m = n THEN Overlaid(Old(n), value) ELSE m_xattr[m]]
        /\ reply' = Map!Reply("set", {n}, "none", 0, value)
    BY <1>1 DEF FuseSetXAttr
  <1>5. reply'.value = value
    BY <1>4 DEF Map!Reply
  <1>6. Map!Set
    BY <1>3, <1>4, <1>5 DEF Map!Set, Present
  <1>7. QED  BY <1>1, <1>6 DEF RInv

LEMMA GetRefines ==
    ASSUME RInv, NEW c \in Clients, NEW n \in Names, NEW size \in 0 .. MaxLength,
           FuseGetXAttr(c, n, size), orderly'
    PROVE  ~ fault' /\ (Map!Get \/ Map!GetSize)
  <1>1. /\ orderly /\ ~ fault' /\ UNCHANGED m_xattr
        /\ size > 0 => asked[c] = [name |-> n, size |-> size]
    BY DEF FuseGetXAttr, Keeps, RInv
  <1>2. CASE n \notin Present
    BY <1>1, <1>2
       DEF FuseGetXAttr, Error, Map!Error, Map!Get, Map!GetSize, Present
  <1>3. CASE n \in Present /\ size = 0
    BY <1>1, <1>3 DEF FuseGetXAttr, Map!GetSize, Present
  <1>4. CASE n \in Present /\ size # 0
    <2>1. size > 0 /\ size \in Nat
      BY <1>4, XAttrAssumption
    <2>2. asked[c] # Nothing /\ asked[c].name = n /\ asked[c].size = size
      BY <1>1, <2>1 DEF Nothing
    <2>3. size = Len(m_xattr[n])
      BY <1>1, <1>4, <2>2 DEF RInv, AskedIsLength
    <2>4. m_xattr[n] \in Seq(Byte)
      BY <1>4, ValueSeq DEF RInv, TypeOK
    <2>5. SubSeq(m_xattr[n], 1, size) = m_xattr[n]
      BY <2>3, <2>4
    <2>6. reply' = Map!Reply("get", {n}, "none", 0, m_xattr[n])
      <3>1. ~ (size > Len(m_xattr[n]))
        BY <2>1, <2>3
      <3>2. reply' = Map!Reply("get", {n}, "none", 0, SubSeq(m_xattr[n], 1, size))
        BY <1>4, <3>1, Zenon DEF FuseGetXAttr
      <3>3. QED  BY <2>5, <3>2
    <2>7. Map!Get
      BY <1>1, <1>4, <2>6 DEF Map!Get, Present
    <2>8. QED  BY <1>1, <2>7
  <1>5. QED  BY <1>2, <1>3, <1>4

LEMMA ListRefines ==
    ASSUME RInv, NEW room \in 0 .. Cardinality(Names), FuseListXAttr(room), orderly'
    PROVE  ~ fault' /\ Map!List
  <1>1. Cardinality(Names) \in Nat
    BY XAttrAssumption, FS_CardinalityType
  <1>2. room > 0 /\ fault' = (room = 0) /\ UNCHANGED m_xattr
    BY DEF FuseListXAttr, Keeps
  <1>3. ~ fault'
    <2>1. room # 0
      BY <1>1, <1>2
    <2>2. QED  BY <1>2, <2>1, Zenon
  <1>4. Map!List
    BY <1>2 DEF FuseListXAttr, Map!List, Present
  <1>5. QED  BY <1>3, <1>4

LEMMA RemoveRefines ==
    ASSUME RInv, NEW n \in Names, FuseRemoveXAttr(n), orderly'
    PROVE  ~ fault' /\ Map!Remove
  BY DEF RInv, FuseRemoveXAttr, RemoveXAttr, Map!Remove, Present

\* Orderly clients keep the sizes that have been asked for true.
LEMMA AskedStep == RInv /\ [Next]_vars => RInv'
  <1> SUFFICES ASSUME RInv, [Next]_vars, orderly', TypeOK'
               PROVE  ~ fault' /\ AskedIsLength'
    BY TypeStep DEF RInv
  <1>1. ASSUME NEW n \in Names, NEW value \in Values, NEW flags \in Flags,
               FuseSetXAttr(n, value, flags)
        PROVE  ~ fault' /\ AskedIsLength'
    <2>1. /\ orderly /\ flags = "none" /\ UNCHANGED <<asked, fault>>
          /\ \A c \in Clients : asked[c] = Nothing \/ asked[c].name # n
      BY <1>1 DEF FuseSetXAttr, Keeps
    <2>2. m_xattr' = [m \in Present \cup {n} |->
                          IF m = n THEN Overlaid(Old(n), value) ELSE m_xattr[m]]
      BY <1>1, <2>1 DEF FuseSetXAttr
    <2>3. QED  BY <2>1, <2>2 DEF RInv, AskedIsLength, Present
  <1>2. ASSUME NEW c \in Clients, NEW n \in Names, NEW size \in 0 .. MaxLength,
               FuseGetXAttr(c, n, size)
        PROVE  ~ fault' /\ AskedIsLength'
    <2>1. /\ orderly /\ UNCHANGED <<m_xattr, fault>>
          /\ asked' = [asked EXCEPT ![c] =
                 IF size = 0 /\ n \in Present
                 THEN [name |-> n, size |-> Len(m_xattr[n])] ELSE Nothing]
      BY <1>2 DEF FuseGetXAttr, Keeps
    <2>2. \A d \in Clients : \/ asked'[d] = asked[d]
                             \/ asked'[d] = Nothing
                             \/ asked'[d] = [name |-> n, size |-> Len(m_xattr[n])]
      BY <2>1 DEF RInv, TypeOK
    <2>3. QED  BY <2>1, <2>2 DEF RInv, AskedIsLength, Present
  <1>3. ASSUME NEW room \in 0 .. Cardinality(Names), FuseListXAttr(room)
        PROVE  ~ fault' /\ AskedIsLength'
    <2>1. ~ fault'
      BY <1>3, ListRefines
    <2>2. orderly /\ UNCHANGED <<m_xattr, asked>>
      BY <1>3 DEF FuseListXAttr, Keeps
    <2>3. QED  BY <2>1, <2>2 DEF RInv, AskedIsLength, Present
  <1>4. ASSUME NEW n \in Names, FuseRemoveXAttr(n)
        PROVE  ~ fault' /\ AskedIsLength'
    <2>1. /\ m_xattr' = [m \in Present \ {n} |-> m_xattr[m]]
          /\ UNCHANGED <<asked, orderly, fault>>
      BY <1>4 DEF FuseRemoveXAttr, RemoveXAttr
    <2>2. QED  BY <2>1 DEF RInv, AskedIsLength, Present
  <1>5. CASE UNCHANGED vars
    BY <1>5 DEF vars, RInv, AskedIsLength, Present
  <1>6. QED  BY <1>1, <1>2, <1>3, <1>4, <1>5 DEF Next

LEMMA StepRefines == RInv /\ [Next]_vars => [AbstractStep]_vars
  <1> SUFFICES ASSUME RInv, Next, orderly'
               PROVE  ~ fault' /\ (Map!Next \/ UNCHANGED <<m_xattr, reply>>)
    BY DEF AbstractStep
  <1>1. RInv'
    BY AskedStep
  <1>2. CASE fault /\ UNCHANGED vars
    BY <1>1, <1>2 DEF RInv, vars
  <1>3. QED
    BY <1>1, <1>2, SetRefines, GetRefines, ListRefines, RemoveRefines DEF Next, Map!Next

LEMMA RInvInit == Init => RInv /\ Map!Init
  <1> SUFFICES ASSUME Init PROVE RInv /\ Map!Init
    OBVIOUS
  <1>1. AskedIsLength
    BY DEF Init, AskedIsLength
  <1>2. QED  BY <1>1, TypeInit DEF Init, RInv, Map!Init

\* However sets, removals and two-step reads of several clients mix, an attribute
\* keeps the value last set, FuseGetXAttr sends all of it, and no request is
\* answered twice, as long as clients keep to what is said at Keeps.
THEOREM Refinement == Spec => ImplementsAttributes
  <1>1. Init => RInv /\ Map!Init
    BY RInvInit
  <1>2. RInv /\ [Next]_vars => RInv' /\ [AbstractStep]_vars
    BY AskedStep, StepRefines
  <1>3. Spec => Map!Init /\ [][AbstractStep]_vars
    BY <1>1, <1>2, PTL DEF Spec
  <1>4. QED  BY <1>3 DEF ImplementsAttributes, AbstractStep
=============================================================================
