---------------------------- MODULE ReadDirProofs ----------------------------
(***************************************************************************)
(* Proofs about ReadDir, for every finite set of names, every size of an   *)
(* entry and of a response: type correctness, that an orderly listing      *)
(* misses no entry that stays, and that it repeats at most the last entry  *)
(* of a response.                                                          *)
(***************************************************************************)
EXTENDS ReadDir, TLAPS, FiniteSetTheorems, WellFoundedInduction

-----------------------------------------------------------------------------
(* Least and greatest names.                                               *)

\* A finite set of numbers that is not empty has a least and a greatest member.
LEMMA MinMax ==
    ASSUME NEW S, S \subseteq Nat, S # {}, IsFiniteSet(S)
    PROVE  /\ Min(S) \in S /\ \A y \in S : Min(S) <= y
           /\ Max(S) \in S /\ \A y \in S : y <= Max(S)
  <1> DEFINE above(x) == {y \in S : y > x}
             below(x) == {y \in S : y < x}
  <1>1. IsWellFoundedOn(StrictSubsetOrdering(S), SUBSET S)
    BY FS_StrictSubsetOrderingWellFounded, FS_FiniteSubsetsOfFinite
  <1>2. \E x \in S : \A y \in S : y <= x
    <2>1. {above(x) : x \in S} \subseteq SUBSET S /\ {above(x) : x \in S} # {}
      OBVIOUS
    <2>2. PICK A \in {above(x) : x \in S} :
              \A B \in {above(x) : x \in S} : <<B, A>> \notin StrictSubsetOrdering(S)
      BY <1>1, <2>1, WFMin
    <2>3. PICK x \in S : A = above(x)
      BY <2>2
    <2>4. ASSUME NEW y \in S, y > x PROVE FALSE
      <3>1. ASSUME NEW z \in above(y) PROVE z \in above(x)
        <4>1. x \in Nat /\ y \in Nat /\ z \in Nat /\ z > y
          BY <3>1
        <4>2. z > x
          BY <2>4, <4>1
        <4>3. QED  BY <3>1, <4>2
      <3>2. y \in above(x) /\ y \notin above(y)
        BY <2>4
      <3>3. <<above(y), above(x)>> \in StrictSubsetOrdering(S)
        BY <3>1, <3>2 DEF StrictSubsetOrdering
      <3>4. QED  BY <2>2, <2>3, <3>3
    <2>5. QED  BY <2>4
  <1>3. \E x \in S : \A y \in S : x <= y
    <2>1. {below(x) : x \in S} \subseteq SUBSET S /\ {below(x) : x \in S} # {}
      OBVIOUS
    <2>2. PICK A \in {below(x) : x \in S} :
              \A B \in {below(x) : x \in S} : <<B, A>> \notin StrictSubsetOrdering(S)
      BY <1>1, <2>1, WFMin
    <2>3. PICK x \in S : A = below(x)
      BY <2>2
    <2>4. ASSUME NEW y \in S, y < x PROVE FALSE
      <3>1. ASSUME NEW z \in below(y) PROVE z \in below(x)
        <4>1. x \in Nat /\ y \in Nat /\ z \in Nat /\ z < y
          BY <3>1
        <4>2. z < x
          BY <2>4, <4>1
        <4>3. QED  BY <3>1, <4>2
      <3>2. y \in below(x) /\ y \notin below(y)
        BY <2>4
      <3>3. <<below(y), below(x)>> \in StrictSubsetOrdering(S)
        BY <3>1, <3>2 DEF StrictSubsetOrdering
      <3>4. QED  BY <2>2, <2>3, <3>3
    <2>5. QED  BY <2>4
  <1>4. Min(S) \in S /\ \A y \in S : Min(S) <= y
    BY <1>3 DEF Min
  <1>5. \E x \in S : \A y \in S : x >= y
    BY <1>2
  <1>6. Max(S) \in S /\ \A y \in S : Max(S) >= y
    BY <1>5 DEF Max
  <1>7. QED  BY <1>4, <1>6

\* The same of any set of names.
LEMMA MinMaxNames ==
    ASSUME NEW S, S \subseteq Names, S # {}
    PROVE  /\ Min(S) \in S /\ \A y \in S : Min(S) <= y
           /\ Max(S) \in S /\ \A y \in S : y <= Max(S)
  <1>1. S \subseteq Nat /\ IsFiniteSet(S)
    BY ReadDirAssumption, FS_Subset
  <1>2. QED  BY <1>1, MinMax

\* End() is behind every name, and neither it nor an erased entry is a name.
LEMMA Ends ==
    /\ End \in Nat /\ Erased \in Nat /\ End # Erased
    /\ \A m \in Names : m \in Nat /\ m < End /\ m < Erased
  <1>1. Max(Names) \in Names /\ \A y \in Names : y <= Max(Names)
    BY MinMaxNames, ReadDirAssumption
  <1>2. Max(Names) \in Nat
    BY <1>1, ReadDirAssumption
  <1>3. QED  BY <1>1, <1>2, ReadDirAssumption DEF End, Erased

\* The bytes of one entry are its size.
LEMMA OneEntry == ASSUME NEW b \in Names PROVE Bytes[{b}] = Size[b]
  <1> DEFINE choice(s) == CHOOSE x \in s : TRUE
             step(f, s) == IF s = {} THEN 0
                           ELSE Size[choice(s)] + f[s \ {choice(s)}]
             sums == CHOOSE f : f = [s \in SUBSET {b} |-> step(f, s)]
             one == [s \in SUBSET {b} |-> IF s = {} THEN 0 ELSE Size[b]]
  <1>1. MapThenSumSet(LAMBDA m : Size[m], {b}) = sums[{b}]
    BY DEF MapThenSumSet, MapThenFoldSet
  <1>2. Size[b] \in Nat
    BY ReadDirAssumption
  <1>3. ASSUME NEW s \in SUBSET {b} PROVE one[s] = step(one, s)
    <2>1. CASE s = {}
      BY <2>1
    <2>2. CASE s = {b}
      <3>1. choice(s) = b
        BY <2>2
      <3>2. s \ {choice(s)} = {} /\ {} \in SUBSET {b}
        BY <2>2, <3>1
      <3>3. one[s \ {choice(s)}] = 0 /\ one[s] = Size[b]
        BY <2>2, <3>2
      <3>4. QED  BY <1>2, <2>2, <3>1, <3>3
    <2>3. QED  BY <2>1, <2>2
  <1>4. one = [s \in SUBSET {b} |-> step(one, s)]
    BY <1>3
  <1>5. sums = [s \in SUBSET {b} |-> step(sums, s)]
    <2> HIDE DEF one, step
    <2>1. \E f : f = [s \in SUBSET {b} |-> step(f, s)]
      BY <1>4
    <2>2. QED  BY <2>1
  <1>6. sums[{}] = 0
    BY <1>5
  <1>7. sums[{b}] = Size[b]
    <2>1. sums[{b}] = step(sums, {b})
      BY <1>5
    <2>2. choice({b}) = b
      OBVIOUS
    <2>3. {b} \ {b} = {} /\ {b} # {}
      OBVIOUS
    <2>4. step(sums, {b}) = Size[b] + sums[{}]
      BY <2>2, <2>3
    <2>5. QED  BY <1>2, <1>6, <2>1, <2>4
  <1>8. {b} \in SUBSET Names
    OBVIOUS
  <1>9. Bytes[{b}] = MapThenSumSet(LAMBDA m : Size[m], {b})
    BY <1>8 DEF Bytes
  <1>10. QED  BY <1>1, <1>7, <1>9

-----------------------------------------------------------------------------
(* The entries of a response.                                              *)

\* What the loop adds has no gaps: it is in order.
LEMMA AddedInOrder ==
    ASSUME children \subseteq Names, NEW n, NEW first,
           NEW a \in Added(n, first), NEW l \in From(n), l <= a
    PROVE  l \in Added(n, first)
  <1> DEFINE tooMuch == {m \in From(n) :
                 \/ Bytes[UpTo(From(n), m)] > Room(first)
                 \/ Cardinality(UpTo(From(n), m)) > MostNames(first)}
  <1>1. Added(n, first) = {m \in From(n) : \A t \in tooMuch : m < t}
    BY DEF Added
  <1>2. From(n) \subseteq Nat /\ tooMuch \subseteq From(n)
    BY ReadDirAssumption DEF From
  <1> HIDE DEF tooMuch
  <1>3. ASSUME NEW t \in tooMuch PROVE l < t
    <2>1. a < t /\ a \in Nat /\ l \in Nat /\ t \in Nat
      BY <1>1, <1>2
    <2>2. QED  BY <2>1
  <1>4. QED  BY <1>1, <1>3

LEMMA AddedHere == ASSUME NEW n, NEW first PROVE Added(n, first) \subseteq From(n)
  BY DEF Added

\* An entry that fits into a response of its own is added if it is the first.
LEMMA FirstIsAdded ==
    ASSUME children \subseteq Names, NEW n, NEW first \in BOOLEAN, From(n) # {},
           \A m \in children : Fits(m)
    PROVE  /\ Min(From(n)) \in Added(n, first)
           /\ \A y \in From(n) : Min(From(n)) <= y
  <1> DEFINE b == Min(From(n))
  <1>1. b \in From(n) /\ \A y \in From(n) : b <= y
    BY MinMaxNames DEF From
  <1>2. From(n) \subseteq Nat /\ b \in Names /\ b \in Nat /\ Fits(b)
    BY <1>1, ReadDirAssumption DEF From
  <1> HIDE DEF b
  <1>3. UpTo(From(n), b) = {b}
    BY <1>1, <1>2 DEF UpTo
  <1>4. Bytes[{b}] <= Room(first) /\ Bytes[{b}] \in Nat /\ Room(first) \in Int
    <2>1. Size[b] \in Nat /\ BufSize \in Nat /\ DotsSize \in 0 .. BufSize
      BY <1>2, ReadDirAssumption
    <2>2. Bytes[{b}] = Size[b]
      BY <1>2, OneEntry
    <2>3. Size[b] <= BufSize - DotsSize
      BY <1>2 DEF Fits
    <2>4. QED  BY <2>1, <2>2, <2>3 DEF Room
  <1>5. Cardinality({b}) = 1 /\ MostNames(first) >= 1 /\ MostNames(first) \in Int
    BY FS_Singleton, ReadDirAssumption DEF MostNames
  <1>6. ASSUME NEW m \in From(n), \/ Bytes[UpTo(From(n), m)] > Room(first)
                                 \/ Cardinality(UpTo(From(n), m)) > MostNames(first)
        PROVE  b < m
    <2>1. m # b
      BY <1>3, <1>4, <1>5, <1>6
    <2>2. QED  BY <1>1, <1>2, <2>1
  <1>7. b \in Added(n, first)
    BY <1>1, <1>6 DEF Added
  <1>8. QED  BY <1>1, <1>7 DEF b

-----------------------------------------------------------------------------
(* Type correctness.                                                       *)

\* TypeOK is inductive with this: a directory that is not open has no iterator
\* to which an entry could belong.
TInv == TypeOK /\ (off = "closed" => childIterator = End)

LEMMA BeginType == children \subseteq Names => Begin \in children \cup {End}
  BY MinMaxNames DEF Begin

LEMMA BackType ==
    ASSUME children \subseteq Names, NEW n \in Nat
    PROVE  Back(n) \in children \cup {Erased}
  <1>1. CASE \E l \in children : l < n
    <2>1. Max({l \in children : l < n}) \in {l \in children : l < n}
      BY <1>1, MinMaxNames
    <2>2. QED  BY <1>1, <2>1 DEF Back
  <1>2. QED  BY <1>1 DEF Back

LEMMA ReadsOne == ASSUME TypeOK, Reads PROVE \E n \in Nat : FuseReadDir(n)
  <1>1. children \subseteq Names /\ IsFiniteSet(children) /\ Cardinality(children) \in Nat
    BY ReadDirAssumption, FS_Subset, FS_CardinalityType DEF TypeOK
  <1>2. QED  BY <1>1 DEF Reads

LEMMA TypeInit == Init => TInv
  BY DEF Init, TInv, TypeOK

LEMMA TypeStep == TInv /\ [Next]_vars => TInv'
  <1> SUFFICES ASSUME TInv, [Next]_vars PROVE TInv'
    OBVIOUS
  <1> USE DEF TInv, TypeOK
  <1>1. ASSUME NEW n \in Names, UpdateChild(n) PROVE TInv'
    BY <1>1 DEF UpdateChild, Keeps, Fits, listing
  <1>2. ASSUME NEW n \in Names, DeleteChild(n) PROVE TInv'
    BY <1>2 DEF DeleteChild, Gone, PointedTo, Keeps
  <1>3. ASSUME NEW n \in Names, NEW m \in Names, FuseRename(n, m) PROVE TInv'
    BY <1>3 DEF FuseRename, Gone, PointedTo, Keeps, Fits
  <1>4. ASSUME Starts PROVE TInv'
    BY <1>4 DEF Starts
  <1>5. ASSUME FuseReleaseDir PROVE TInv'
    BY <1>5 DEF FuseReleaseDir
  <1>6. ASSUME NEW n \in Nat, FuseReadDir(n) PROVE TInv'
    <2> DEFINE first == off = "start"
               begin == IF first THEN Begin ELSE childIterator
               added == Added(begin, first)
               left  == From(begin) \ added
               taken == {m \in added : Cardinality(UpTo(added, m)) <= n}
    <2>1. CASE begin = Erased
      BY <1>6, <2>1 DEF FuseReadDir, listing
    <2>2. CASE begin # Erased
      <3>1. added \subseteq children /\ left \subseteq children /\ taken \subseteq added
        BY AddedHere DEF From
      <3>2. left # {} => Min(left) \in children /\ Min(left) \in Nat
        BY <3>1, MinMaxNames, ReadDirAssumption
      <3>3. left # {} => Back(Min(left)) \in children \cup {Erased}
        BY <3>2, BackType
      <3> HIDE DEF taken, left, added
      <3>4. /\ children' = children
            /\ childIterator' = IF left = {} THEN End
                               ELSE IF Cardinality(added) = MostNames(first) THEN Min(left)
                               ELSE Back(Min(left))
            /\ off' = IF first \/ added # {} THEN "iterator" ELSE "ended"
            /\ response' = taken /\ sent' = sent \cup taken
            /\ orderly' = (orderly /\ taken = added)
            /\ UNCHANGED <<steady, fault>>
        BY <1>6, <2>2 DEF FuseReadDir, Keeps, taken, left, added
      <3>5. childIterator' \in children \cup {End, Erased}
        BY <3>2, <3>3, <3>4
      <3>6. off' \in {"iterator", "ended"}
        BY <3>4
      <3>7. QED  BY <3>1, <3>4, <3>5, <3>6
    <2>3. QED  BY <2>1, <2>2
  <1>7. CASE UNCHANGED vars
    BY <1>7 DEF vars, listing
  <1>8. Reads => \E n \in Nat : FuseReadDir(n)
    BY ReadsOne
  <1>9. QED
    BY <1>1, <1>2, <1>3, <1>4, <1>5, <1>6, <1>7, <1>8 DEF Next, FuseOpenDir, Rewind

\* Type correctness: what is kept of a listing names entries of the directory, and
\* the iterator points to one of them, behind the last, or has been invalidated.
THEOREM TypeCorrect == Spec => []TypeOK
  <1>1. TInv => TypeOK
    BY DEF TInv
  <1>2. QED  BY TypeInit, TypeStep, <1>1, PTL DEF Spec

-----------------------------------------------------------------------------
(* Listings.                                                               *)

\* The names a listing has sent and has yet to send, on either side of the
\* iterator: all that stay have been sent before it, and none behind it has but
\* the last one of the last response, to which it has been moved back.
Sides ==
    /\ \A m \in steady : m < childIterator => m \in sent
    /\ \A m \in sent : m >= childIterator =>
          m = childIterator /\ m \in response /\ \A l \in response : l <= m

\* Complete is inductive with this.
LInv ==
    /\ TInv
    /\ off = "start" => sent = {}
    /\ orderly =>
          /\ ~ fault /\ childIterator # Erased
          /\ \A m \in children : Fits(m)
          /\ off \in {"iterator", "ended"} => Sides
          /\ off = "ended" => steady \subseteq sent

\* Where an orderly response leaves the iterator: behind all entries it added, or at
\* the last of them, and never behind one it did not add.
LEMMA WhereItStops ==
    ASSUME children \subseteq Names, NEW n, NEW first \in BOOLEAN,
           \A m \in children : Fits(m),
           NEW next,
           next = IF From(n) \ Added(n, first) = {} THEN End
                  ELSE IF Cardinality(Added(n, first)) = MostNames(first)
                  THEN Min(From(n) \ Added(n, first))
                  ELSE Back(Min(From(n) \ Added(n, first)))
    PROVE  /\ next # Erased
           /\ \A m \in From(n) : m < next => m \in Added(n, first)
           /\ \A m \in Added(n, first) : m >= next =>
                 m = next /\ \A l \in Added(n, first) : l <= m
           /\ From(n) # {} => /\ Min(From(n)) \in Added(n, first)
                              /\ Min(From(n)) <= next
                              /\ \A y \in From(n) : Min(From(n)) <= y
  <1> DEFINE rest  == From(n)
             added == Added(n, first)
             left  == rest \ added
             b     == Min(rest)
  <1>1. rest \subseteq children /\ rest \subseteq Nat /\ added \subseteq rest
    BY AddedHere, ReadDirAssumption DEF From
  <1>2. rest # {} => b \in added /\ b \in Nat /\ \A y \in rest : b <= y
    BY <1>1, FirstIsAdded
  <1>3. ASSUME NEW a \in added, NEW l \in rest, l <= a PROVE l \in added
    BY <1>3, AddedInOrder
  <1>4. CASE left = {}
    <2>1. next = End
      BY <1>4
    <2>2. \A m \in rest : m \in added /\ m < End /\ m \in Nat
      BY <1>1, <1>4, Ends
    <2>3. b \in rest => b <= End
      BY <2>2, Ends
    <2>4. \A m \in added : ~ (m >= End)
      BY <1>1, <2>2, Ends
    <2>5. QED  BY <1>1, <1>2, <2>1, <2>2, <2>3, <2>4, Ends
  <1>5. CASE left # {}
    <2> DEFINE l0 == Min(left)
    <2>1. l0 \in left /\ \A y \in left : l0 <= y
      BY <1>1, <1>5, MinMaxNames
    <2>2. l0 \in rest /\ l0 \notin added /\ l0 \in Nat /\ l0 \in Names
      BY <1>1, <2>1
    <2>3. b \in added /\ b \in rest /\ b \in Nat /\ (\A y \in rest : b <= y) /\ b < l0
      BY <1>1, <1>2, <2>2
    <2>4. \A a \in added : a < l0
      <3>1. ASSUME NEW a \in added, ~ (a < l0) PROVE FALSE
        <4>1. a \in Nat /\ l0 <= a
          BY <1>1, <2>2, <3>1
        <4>2. l0 \in added
          BY <1>3, <2>2, <4>1
        <4>3. QED  BY <2>2, <4>2
      <3>2. QED  BY <3>1
    <2>5. \A m \in rest : m < l0 => m \in added
      BY <1>1, <2>1, <2>2
    <2> HIDE DEF l0, b
    <2>6. CASE Cardinality(added) = MostNames(first)
      <3>1. next = l0
        BY <1>5, <2>6 DEF l0
      <3>2. l0 # Erased
        BY <2>2, Ends
      <3>3. \A m \in added : ~ (m >= l0)
        BY <1>1, <2>2, <2>4
      <3>4. b <= l0
        BY <2>2, <2>3
      <3>5. QED  BY <2>3, <2>5, <3>1, <3>2, <3>3, <3>4 DEF b
    <2>7. CASE Cardinality(added) # MostNames(first)
      <3> DEFINE before == {l \in children : l < l0}
                 p      == Max(before)
      <3>1. next = Back(l0)
        BY <1>5, <2>7 DEF l0
      <3>2. b \in before
        BY <1>1, <2>3
      <3>3. next = p
        BY <3>1, <3>2 DEF Back
      <3>4. p \in before /\ \A y \in before : y <= p
        BY <3>2, MinMaxNames
      <3>5. p \in children /\ p \in Nat /\ p < l0 /\ b <= p
        BY <3>2, <3>4, ReadDirAssumption
      <3> HIDE DEF p
      <3>6. \A m \in added : m \in Nat /\ m <= p
        BY <1>1, <2>4, <3>4
      <3>7. \A m \in rest : m < p => m \in added
        <4>1. \A m \in rest : m < p => m < l0
          BY <1>1, <2>2, <3>5
        <4>2. QED  BY <2>5, <4>1
      <3>8. \A m \in added : m >= p => m = p
        BY <3>5, <3>6
      <3>9. p # Erased
        BY <3>5, Ends
      <3>10. QED  BY <2>3, <3>3, <3>5, <3>6, <3>7, <3>8, <3>9 DEF b
    <2>8. QED  BY <2>6, <2>7
  <1>6. QED  BY <1>4, <1>5

LEMMA ListingInit == Init => LInv
  <1>1. Init => TInv
    BY TypeInit
  <1>2. End # Erased
    BY Ends
  <1>3. QED  BY <1>1, <1>2 DEF Init, LInv

\* A request of the reader: what it moves into a response and where the iterator
\* stands after it.
LEMMA ResponseStep ==
    ASSUME LInv, NEW n \in Nat, FuseReadDir(n), orderly', TInv'
    PROVE  /\ LInv'
           /\ \A m \in response' \cap sent :
                 m \in response /\ \A l \in response : l <= m
  <1> DEFINE first == off = "start"
             begin == IF first THEN Begin ELSE childIterator
             added == Added(begin, first)
             rest  == From(begin)
             left  == rest \ added
             taken == {m \in added : Cardinality(UpTo(added, m)) <= n}
  <1>1. /\ children \subseteq Names /\ sent \subseteq Names /\ steady \subseteq children
        /\ response \subseteq sent
        /\ off \in {"closed", "start", "iterator", "ended"} /\ orderly \in BOOLEAN
        /\ childIterator \in children \cup {End, Erased}
    BY DEF LInv, TInv, TypeOK
  <1>2. orderly /\ off # "closed" /\ UNCHANGED children
    BY <1>1 DEF FuseReadDir, Keeps
  <1>3. /\ ~ fault /\ childIterator # Erased /\ \A m \in children : Fits(m)
        /\ off \in {"iterator", "ended"} => Sides
        /\ off = "start" => sent = {}
    BY <1>2 DEF LInv
  <1>4. begin # Erased /\ begin \in Nat
    <2>1. Begin \in children \cup {End}
      BY <1>1, BeginType
    <2>2. QED  BY <1>1, <1>3, <2>1, Ends
  <1>5. /\ childIterator' = IF left = {} THEN End
                           ELSE IF Cardinality(added) = MostNames(first) THEN Min(left)
                           ELSE Back(Min(left))
        /\ off' = IF first \/ added # {} THEN "iterator" ELSE "ended"
        /\ response' = taken /\ sent' = sent \cup taken /\ taken = added
        /\ UNCHANGED <<steady, fault>>
    BY <1>2, <1>4 DEF FuseReadDir, Keeps
  <1>6. first \in BOOLEAN /\ rest \subseteq children /\ added \subseteq rest
    BY AddedHere DEF From
  <1>7. /\ childIterator' # Erased
        /\ \A m \in rest : m < childIterator' => m \in added
        /\ \A m \in added : m >= childIterator' =>
              m = childIterator' /\ \A l \in added : l <= m
        /\ rest # {} => /\ Min(rest) \in added /\ Min(rest) <= childIterator'
                        /\ \A y \in rest : Min(rest) <= y
    <2> DEFINE next == childIterator'
    <2>1. next = IF From(begin) \ Added(begin, first) = {} THEN End
                 ELSE IF Cardinality(Added(begin, first)) = MostNames(first)
                 THEN Min(From(begin) \ Added(begin, first))
                 ELSE Back(Min(From(begin) \ Added(begin, first)))
      BY <1>5
    <2>2. children \subseteq Names /\ first \in BOOLEAN /\ \A m \in children : Fits(m)
      BY <1>1, <1>3
    <2> HIDE DEF begin, first, next
    <2>3. /\ next # Erased
          /\ \A m \in From(begin) : m < next => m \in Added(begin, first)
          /\ \A m \in Added(begin, first) : m >= next =>
                m = next /\ \A l \in Added(begin, first) : l <= m
          /\ From(begin) # {} => /\ Min(From(begin)) \in Added(begin, first)
                                 /\ Min(From(begin)) <= next
                                 /\ \A y \in From(begin) : Min(From(begin)) <= y
      BY <2>1, <2>2, WhereItStops
    <2>4. QED  BY <2>3 DEF next
  <1>8. childIterator \in Nat /\ childIterator' \in Nat
    <2>1. childIterator' \in children' \cup {End, Erased}
      BY DEF TInv, TypeOK
    <2>2. QED  BY <1>1, <1>2, <2>1, Ends, ReadDirAssumption
  <1>9. \A m \in children : m \in Nat /\ (m \in rest <=> m >= begin)
    BY <1>1, ReadDirAssumption DEF From
  <1>10. first => \A m \in children : m >= begin
    <2>1. ASSUME first, NEW m \in children PROVE m >= begin
      <3>1. begin = Min(children)
        BY <2>1 DEF Begin
      <3>2. Min(children) \in Nat /\ Min(children) <= m
        BY <1>1, MinMaxNames, ReadDirAssumption
      <3>3. QED  BY <3>1, <3>2, <1>9
    <2>2. QED  BY <2>1
  <1>11. ~ first => begin = childIterator /\ Sides
    BY <1>1, <1>2, <1>3
  <1>12. rest = {} => begin <= childIterator'
    <2>1. ASSUME rest = {} PROVE left = {}
      BY <2>1
    <2>2. ASSUME rest = {} PROVE begin <= End
      <3>1. Begin \in children \cup {End} /\ childIterator \in children \cup {End}
        BY <1>1, <1>3, BeginType
      <3>2. begin \in children \cup {End}
        BY <3>1
      <3>3. QED  BY <1>1, <3>2, Ends
    <2>3. QED  BY <1>5, <2>1, <2>2
  <1>13. begin <= childIterator'
    <2>1. CASE rest # {}
      <3>1. Min(rest) \in Nat /\ begin <= Min(rest) /\ Min(rest) <= childIterator'
        BY <1>6, <1>7, <1>9, <2>1
      <3>2. QED  BY <1>4, <1>8, <3>1
    <2>2. QED  BY <1>12, <2>1
  <1> HIDE DEF added, rest, begin, taken, left
  <1>14. ASSUME NEW m \in steady', m < childIterator' PROVE m \in sent'
    <2>1. m \in children /\ m \in steady
      BY <1>1, <1>5
    <2>2. CASE m \in rest
      BY <1>5, <1>7, <1>14, <2>2
    <2>3. CASE m \notin rest
      <3>1. m < begin
        BY <1>4, <1>9, <2>1, <2>3
      <3>2. ~ first
        BY <1>4, <1>9, <1>10, <2>1, <3>1
      <3>3. m \in sent
        BY <1>11, <2>1, <3>1, <3>2 DEF Sides
      <3>4. QED  BY <1>5, <3>3
    <2>4. QED  BY <2>2, <2>3
  <1>15. ASSUME NEW m \in sent, m >= begin
         PROVE  m = begin /\ m \in response /\ \A l \in response : l <= m
    <2>1. ~ first
      BY <1>3
    <2>2. QED  BY <1>11, <1>15, <2>1 DEF Sides
  <1>16. ASSUME NEW m \in sent', m >= childIterator'
         PROVE  m = childIterator' /\ m \in response' /\ \A l \in response' : l <= m
    <2>1. CASE m \in added
      BY <1>5, <1>7, <1>16, <2>1
    <2>2. CASE m \notin added
      <3>1. m \in sent /\ m \in Nat
        BY <1>1, <1>5, <2>2, ReadDirAssumption
      <3>2. m >= begin
        BY <1>4, <1>8, <1>13, <1>16, <3>1
      <3>3. m = begin
        BY <1>15, <3>1, <3>2
      <3>4. m = childIterator' /\ m = begin
        BY <1>4, <1>8, <1>13, <1>16, <3>1, <3>3
      <3>5. CASE rest = {}
        <4>1. childIterator' = End
          BY <1>5, <3>5 DEF left
        <4>2. m \in Names /\ m = End
          BY <1>1, <3>1, <3>4, <4>1
        <4>3. QED  BY <4>2, Ends
      <3>6. CASE rest # {}
        <4>1. Min(rest) \in added /\ Min(rest) <= childIterator' /\ Min(rest) \in rest
              /\ Min(rest) \in Nat
          BY <1>6, <1>7, <1>9, <3>6
        <4>2. Min(rest) >= begin
          BY <1>6, <1>9, <4>1
        <4>3. Min(rest) = m
          BY <1>4, <3>4, <4>1, <4>2
        <4>4. QED  BY <2>2, <4>1, <4>3
      <3>7. QED  BY <3>5, <3>6
    <2>3. QED  BY <2>1, <2>2
  <1>17. ASSUME off' = "ended" PROVE steady' \subseteq sent'
    <2>1. added = {} /\ ~ first
      BY <1>5, <1>17
    <2>2. rest = {}
      BY <1>7, <2>1
    <2>3. childIterator' = End
      BY <1>5, <2>2 DEF left
    <2>4. \A m \in steady' : m < childIterator'
      BY <1>1, <1>5, <2>3, Ends
    <2>5. QED  BY <1>14, <2>4
  <1>18. Sides'
    BY <1>14, <1>16 DEF Sides
  <1>19. LInv'
    <2>1. off' # "start"
      BY <1>5
    <2>2. ~ fault' /\ \A m \in children' : Fits(m)
      BY <1>2, <1>3, <1>5
    <2>3. QED  BY <1>7, <1>17, <1>18, <2>1, <2>2 DEF LInv, Fits
  <1>20. ASSUME NEW m \in response' \cap sent
         PROVE  m \in response /\ \A l \in response : l <= m
    <2>1. m \in rest /\ m \in children
      BY <1>5, <1>6
    <2>2. m >= begin
      BY <1>9, <2>1
    <2>3. QED  BY <1>15, <1>20, <2>2
  <1>21. QED  BY <1>19, <1>20

\* What others do to the directory while it is listed. They stay orderly as long as
\* they leave the iterator where it is, and they send nothing.
LEMMA OthersStep ==
    ASSUME LInv, TInv',
           UNCHANGED <<off, response, sent, fault>>,
           steady' \subseteq steady, orderly' => orderly,
           orderly' => childIterator' = childIterator,
           orderly' => \A m \in children' \ children : Fits(m)
    PROVE  LInv'
  <1>1. ASSUME orderly' PROVE /\ ~ fault' /\ childIterator' # Erased
                              /\ \A m \in children' : Fits(m)
                              /\ off' \in {"iterator", "ended"} => Sides'
                              /\ off' = "ended" => steady' \subseteq sent'
    BY <1>1 DEF LInv, Sides
  <1>2. off' = "start" => sent' = {}
    BY DEF LInv
  <1>3. QED  BY <1>1, <1>2 DEF LInv, Fits

LEMMA ListingStep == LInv /\ [Next]_vars => LInv'
  <1> SUFFICES ASSUME LInv, [Next]_vars PROVE LInv'
    OBVIOUS
  <1>0. TInv' /\ TInv
    BY TypeStep DEF LInv
  <1>1. ASSUME NEW n \in Names, UpdateChild(n) PROVE LInv'
    <2>1. \A m \in children' \ children : m = n
      BY <1>1 DEF UpdateChild
    <2>2. orderly' => orderly /\ Fits(n)
      BY <1>1 DEF UpdateChild, Keeps
    <2>3. QED  BY <1>0, <1>1, <2>1, <2>2, OthersStep DEF UpdateChild, listing, TInv, TypeOK
  <1>2. ASSUME NEW n \in Names, DeleteChild(n) PROVE LInv'
    <2>1. children' \subseteq children /\ Gone(n) /\ (orderly' => orderly /\ ~ PointedTo(n))
      BY <1>2 DEF DeleteChild, Keeps
    <2>2. QED  BY <1>0, <2>1, OthersStep DEF Gone, TInv, TypeOK
  <1>3. ASSUME NEW n \in Names, NEW m \in Names, FuseRename(n, m) PROVE LInv'
    <2>1. /\ \A l \in children' \ children : l = m
          /\ Gone(n) /\ (orderly' => orderly /\ ~ PointedTo(n) /\ Fits(m))
      BY <1>3 DEF FuseRename, Keeps
    <2>2. QED  BY <1>0, <2>1, OthersStep DEF Gone, TInv, TypeOK
  <1>4. ASSUME Starts PROVE LInv'
    BY <1>0, <1>4 DEF Starts, LInv, Fits
  <1>5. ASSUME FuseReleaseDir PROVE LInv'
    <2>1. End # Erased
      BY Ends
    <2>2. QED  BY <1>0, <1>5, <2>1 DEF FuseReleaseDir, LInv, Fits
  <1>6. ASSUME NEW n \in Nat, FuseReadDir(n) PROVE LInv'
    <2>1. CASE orderly'
      BY <1>0, <1>6, <2>1, ResponseStep
    <2>2. CASE ~ orderly'
      <3>1. off' = "start" => sent' = {}
        BY <1>6 DEF FuseReadDir, LInv, listing
      <3>2. QED  BY <1>0, <2>2, <3>1 DEF LInv
    <2>3. QED  BY <2>1, <2>2
  <1>7. CASE UNCHANGED vars
    BY <1>0, <1>7 DEF vars, listing, LInv, Sides, Fits
  <1>8. Reads => \E n \in Nat : FuseReadDir(n)
    BY <1>0, ReadsOne DEF TInv
  <1>9. QED
    BY <1>1, <1>2, <1>3, <1>4, <1>5, <1>6, <1>7, <1>8 DEF Next, FuseOpenDir, Rewind

\* A listing names every entry that is there from its beginning to its end, though
\* others come and go meanwhile and the iterator moves back, and in orderly use no
\* invalid iterator is followed.
THEOREM CompleteSafety == Spec => []Complete
  <1>1. LInv => Complete
    BY DEF LInv, Complete
  <1>2. QED  BY ListingInit, ListingStep, <1>1, PTL DEF Spec

\* What an orderly listing sends again is at most the last entry of the response
\* before, to which FuseReadDir has moved the iterator back.
THEOREM OnlyLastAgainSafety == Spec => OnlyLastAgain
  <1>1. LInv /\ [Next]_vars =>
            [orderly' /\ Reads => \A n \in response' \cap sent :
                n \in response /\ \A l \in response : l <= n]_vars
    <2> SUFFICES ASSUME LInv, [Next]_vars, orderly', Reads, NEW m \in response' \cap sent
                 PROVE  m \in response /\ \A l \in response : l <= m
      OBVIOUS
    <2>1. TInv' /\ TInv
      BY TypeStep DEF LInv
    <2>2. PICK n \in Nat : FuseReadDir(n)
      BY <2>1, ReadsOne DEF TInv
    <2>3. QED  BY <2>1, <2>2, ResponseStep
  <1>2. QED  BY ListingInit, ListingStep, <1>1, PTL DEF Spec, OnlyLastAgain
=============================================================================
