----------------------------- MODULE FileIOProofs -----------------------------
(***************************************************************************)
(* Proofs about FileIO, for every set of files, handles and bytes, every   *)
(* size of a block and of a file.                                          *)
(***************************************************************************)
EXTENDS FileIO, TLAPS, FiniteSetTheorems, WellFoundedInduction

-----------------------------------------------------------------------------
(* Sums over finite sets.  Where an induction over sets is meant, a least  *)
(* counterexample is taken: strict inclusion is well-founded.              *)

\* A non-empty collection of subsets of a finite set has a least one.
LEMMA LeastSet ==
    ASSUME NEW S, IsFiniteSet(S), NEW T, T \subseteq SUBSET S, T # {}
    PROVE  \E A \in T : \A B \in T : B \subseteq A => B = A
  <1>1. IsWellFoundedOn(StrictSubsetOrdering(S), SUBSET S)
    BY FS_StrictSubsetOrderingWellFounded, FS_FiniteSubsetsOfFinite
  <1>2. PICK A \in T : \A B \in T : <<B, A>> \notin StrictSubsetOrdering(S)
    BY <1>1, WFMin
  <1>3. ASSUME NEW B \in T, B \subseteq A, B # A PROVE FALSE
    BY <1>2, <1>3 DEF StrictSubsetOrdering
  <1>4. QED  BY <1>3

\* The recursion of MapThenSumSet, at the set s and with f for smaller sets.
Chosen(s)       == CHOOSE x \in s : TRUE
SumAt(g, f, s)  == IF s = {} THEN 0 ELSE g[Chosen(s)] + f[s \ {Chosen(s)}]
Solves(g, f, S) == \A s \in SUBSET S : f[s] = SumAt(g, f, s)
IsSums(g, f, S) == f \in [SUBSET S -> Nat] /\ Solves(g, f, S)
Sums(g, S)     == CHOOSE f : f = [s \in SUBSET S |-> SumAt(g, f, s)]
Sum(g, S)      == Sums(g, S)[S]

LEMMA ChosenIn == ASSUME NEW s, s # {} PROVE Chosen(s) \in s
  BY DEF Chosen

\* Two solutions of the recursion agree where both are defined.
LEMMA SumsAgree ==
    ASSUME NEW S, IsFiniteSet(S), NEW g, NEW f, NEW h, NEW S1, NEW S2,
           S1 \subseteq S, S2 \subseteq S, Solves(g, f, S1), Solves(g, h, S2)
    PROVE  \A s \in SUBSET (S1 \cap S2) : f[s] = h[s]
  <1> DEFINE T == {s \in SUBSET (S1 \cap S2) : f[s] # h[s]}
  <1>1. SUFFICES ASSUME T # {} PROVE FALSE
    OBVIOUS
  <1>2. T \subseteq SUBSET S
    OBVIOUS
  <1>3. PICK A \in T : \A B \in T : B \subseteq A => B = A
    <2> HIDE DEF T
    <2>1. QED  BY <1>1, <1>2, LeastSet
  <1>4. A \in SUBSET S1 /\ A \in SUBSET S2 /\ f[A] # h[A]
    BY <1>3
  <1>5. f[A] = SumAt(g, f, A) /\ h[A] = SumAt(g, h, A)
    BY <1>4 DEF Solves
  <1>6. A # {}
    BY <1>4, <1>5 DEF SumAt
  <1>7. Chosen(A) \in A
    BY <1>6, ChosenIn
  <1> DEFINE B == A \ {Chosen(A)}
  <1>8. B \in SUBSET (S1 \cap S2) /\ B \subseteq A /\ B # A
    BY <1>4, <1>7
  <1>9. f[B] = h[B]
    BY <1>3, <1>8
  <1>10. f[A] = g[Chosen(A)] + f[B] /\ h[A] = g[Chosen(A)] + h[B]
    BY <1>5, <1>6 DEF SumAt
  <1>11. QED  BY <1>4, <1>9, <1>10

\* The recursion has a solution on the subsets of a finite set.
LEMMA SumsExist ==
    ASSUME NEW S, IsFiniteSet(S), NEW g \in [S -> Nat]
    PROVE  \E f : IsSums(g, f, S)
  <1> DEFINE T == {s \in SUBSET S : ~ \E f : IsSums(g, f, s)}
  <1>1. SUFFICES ASSUME T # {} PROVE FALSE
    OBVIOUS
  <1>2. T \subseteq SUBSET S
    OBVIOUS
  <1>3. PICK A \in T : \A B \in T : B \subseteq A => B = A
    <2> HIDE DEF T
    <2>1. QED  BY <1>1, <1>2, LeastSet
  <1>4. A \in SUBSET S /\ ~ \E f : IsSums(g, f, A)
    BY <1>3
  <1> DEFINE sol(B) == CHOOSE f : IsSums(g, f, B)
             below(s) == s \ {Chosen(s)}
             h == [s \in SUBSET A |->
                      IF s # A THEN sol(s)[s]
                      ELSE IF A = {} THEN 0 ELSE g[Chosen(A)] + sol(below(A))[below(A)]]
  <1>5. ASSUME NEW B \in SUBSET A, B # A PROVE IsSums(g, sol(B), B)
    <2>1. \E f : IsSums(g, f, B)
      BY <1>3, <1>4, <1>5
    <2>2. QED  BY <2>1
  <1>6. ASSUME NEW s \in SUBSET A, s # {}
        PROVE  below(s) \in SUBSET A /\ below(s) # A /\ below(s) \subseteq s /\ g[Chosen(s)] \in Nat
    <2>1. Chosen(s) \in s
      BY <1>6, ChosenIn
    <2>2. QED  BY <1>4, <1>6, <2>1
  <1> HIDE DEF sol
  <1>7. ASSUME NEW s \in SUBSET A PROVE h[s] = SumAt(g, h, s) /\ h[s] \in Nat
    <2>1. CASE s = {}
      <3>1. CASE s = A
        BY <2>1, <3>1 DEF SumAt
      <3>2. CASE s # A
        <4>1. IsSums(g, sol(s), s)
          BY <1>5, <3>2
        <4>2. sol(s)[s] = SumAt(g, sol(s), s)
          BY <4>1 DEF IsSums, Solves
        <4>3. QED  BY <2>1, <3>2, <4>2 DEF SumAt
      <3>3. QED  BY <3>1, <3>2
    <2>2. CASE s # {}
      <3> DEFINE b == below(s)
      <3>1. b \in SUBSET A /\ b # A /\ b \subseteq s /\ g[Chosen(s)] \in Nat
        BY <1>6, <2>2
      <3>2. IsSums(g, sol(b), b) /\ h[b] = sol(b)[b]
        BY <1>5, <3>1
      <3>3. sol(b)[b] \in Nat
        BY <3>2 DEF IsSums
      <3>4. h[s] = g[Chosen(s)] + sol(b)[b]
        <4>1. CASE s = A
          BY <2>2, <4>1
        <4>2. CASE s # A
          <5>1. IsSums(g, sol(s), s)
            BY <1>5, <4>2
          <5>2. sol(s)[s] = g[Chosen(s)] + sol(s)[b]
            BY <2>2, <5>1 DEF IsSums, Solves, SumAt
          <5>3. b \in SUBSET (s \cap b) /\ s \subseteq S /\ b \subseteq S
            BY <1>4, <3>1
          <5>4. sol(s)[b] = sol(b)[b]
            BY <3>2, <5>1, <5>3, SumsAgree DEF IsSums
          <5>5. QED  BY <4>2, <5>2, <5>4
        <4>3. QED  BY <4>1, <4>2
      <3>5. SumAt(g, h, s) = g[Chosen(s)] + h[b]
        BY <2>2 DEF SumAt
      <3> HIDE DEF h
      <3>6. QED  BY <3>1, <3>2, <3>3, <3>4, <3>5
    <2>3. QED  BY <2>1, <2>2
  <1>8. h \in [SUBSET A -> Nat]
    BY <1>7
  <1> HIDE DEF h
  <1>9. IsSums(g, h, A)
    BY <1>7, <1>8 DEF IsSums, Solves
  <1>10. QED  BY <1>4, <1>9

LEMMA SumsSolve ==
    ASSUME NEW S, IsFiniteSet(S), NEW g \in [S -> Nat]
    PROVE  IsSums(g, Sums(g, S), S)
  <1> DEFINE c == Sums(g, S)
  <1>1. PICK f : IsSums(g, f, S)
    BY SumsExist
  <1>2. f = [s \in SUBSET S |-> SumAt(g, f, s)]
    BY <1>1 DEF IsSums, Solves
  <1>3. c = [s \in SUBSET S |-> SumAt(g, c, s)]
    BY <1>2 DEF Sums
  <1> HIDE DEF c
  <1>4. Solves(g, c, S)
    BY <1>3 DEF Solves
  <1>5. \A s \in SUBSET (S \cap S) : f[s] = c[s]
    BY <1>1, <1>4, SumsAgree DEF IsSums
  <1>6. \A s \in SUBSET S : c[s] \in Nat
    BY <1>1, <1>5 DEF IsSums
  <1>7. c \in [SUBSET S -> Nat]
    BY <1>3, <1>6
  <1>8. IsSums(g, c, S)
    BY <1>4, <1>7 DEF IsSums
  <1>9. QED  BY <1>8 DEF c

\* Any member can be taken out of a sum, not only the one that is chosen.
LEMMA SumSplit ==
    ASSUME NEW S, IsFiniteSet(S), NEW g \in [S -> Nat], NEW f, IsSums(g, f, S),
           NEW r \in SUBSET S, NEW y \in r
    PROVE  f[r] = g[y] + f[r \ {y}]
  <1> DEFINE T == {s \in SUBSET S : \E x \in s : f[s] # g[x] + f[s \ {x}]}
  <1>1. SUFFICES ASSUME T # {} PROVE FALSE
    OBVIOUS
  <1>2. T \subseteq SUBSET S
    OBVIOUS
  <1>3. PICK A \in T : \A B \in T : B \subseteq A => B = A
    <2> HIDE DEF T
    <2>1. QED  BY <1>1, <1>2, LeastSet
  <1>4. PICK x \in A : f[A] # g[x] + f[A \ {x}]
    BY <1>3
  <1> DEFINE c == Chosen(A)
  <1>5. A \in SUBSET S /\ c \in A
    BY <1>3, <1>4, ChosenIn
  <1>6. f[A] = g[c] + f[A \ {c}]
    BY <1>4, <1>5 DEF IsSums, Solves, SumAt
  <1>7. c # x
    BY <1>4, <1>6
  <1> HIDE DEF c
  <1>8. \A B \in SUBSET A : B # A => \A z \in B : f[B] = g[z] + f[B \ {z}]
    BY <1>3, <1>5
  <1> DEFINE rest == (A \ {c}) \ {x}
  <1>9. f[A \ {c}] = g[x] + f[rest]
    <2>1. A \ {c} \in SUBSET A /\ A \ {c} # A /\ x \in A \ {c}
      BY <1>4, <1>5, <1>7
    <2>2. QED  BY <1>8, <2>1
  <1>10. f[A \ {x}] = g[c] + f[rest]
    <2>1. A \ {x} \in SUBSET A /\ A \ {x} # A /\ c \in A \ {x}
      BY <1>4, <1>5, <1>7
    <2>2. (A \ {x}) \ {c} = rest
      OBVIOUS
    <2>3. QED  BY <1>8, <2>1, <2>2
  <1>11. g[c] \in Nat /\ g[x] \in Nat /\ f[rest] \in Nat
    <2>1. rest \in SUBSET S
      BY <1>5
    <2>2. QED  BY <1>4, <1>5, <2>1 DEF IsSums
  <1>12. QED  BY <1>4, <1>6, <1>9, <1>10, <1>11

\* A sum depends on the summands only.
LEMMA SumLocal ==
    ASSUME NEW S, IsFiniteSet(S), NEW g, NEW h, NEW f, NEW k,
           Solves(g, f, S), Solves(h, k, S),
           NEW s \in SUBSET S, \A y \in s : g[y] = h[y]
    PROVE  f[s] = k[s]
  <1> DEFINE T == {r \in SUBSET s : f[r] # k[r]}
  <1>1. SUFFICES ASSUME T # {} PROVE FALSE
    OBVIOUS
  <1>2. T \subseteq SUBSET S
    OBVIOUS
  <1>3. PICK A \in T : \A B \in T : B \subseteq A => B = A
    <2> HIDE DEF T
    <2>1. QED  BY <1>1, <1>2, LeastSet
  <1>4. A \in SUBSET s /\ A \in SUBSET S /\ f[A] # k[A]
    BY <1>3
  <1>5. f[A] = SumAt(g, f, A) /\ k[A] = SumAt(h, k, A)
    BY <1>4 DEF Solves
  <1>6. A # {}
    BY <1>4, <1>5 DEF SumAt
  <1>7. Chosen(A) \in A
    BY <1>6, ChosenIn
  <1> DEFINE B == A \ {Chosen(A)}
  <1>8. B \in SUBSET s /\ B \subseteq A /\ B # A
    BY <1>4, <1>7
  <1>9. f[B] = k[B]
    BY <1>3, <1>8
  <1>10. f[A] = g[Chosen(A)] + f[B] /\ k[A] = h[Chosen(A)] + k[B]
    BY <1>5, <1>6 DEF SumAt
  <1>11. g[Chosen(A)] = h[Chosen(A)]
    BY <1>4, <1>7
  <1>12. QED  BY <1>4, <1>9, <1>10, <1>11

\* What changing one summand does to a sum, which is no less than any of them.
LEMMA SumExcept ==
    ASSUME NEW S, IsFiniteSet(S), NEW g \in [S -> Nat], NEW x \in S,
           NEW h \in [S -> Nat], \A y \in S \ {x} : h[y] = g[y]
    PROVE  /\ Sum(g, S) \in Nat /\ g[x] \in Nat /\ g[x] <= Sum(g, S)
           /\ Sum(h, S) = Sum(g, S) - g[x] + h[x]
  <1> DEFINE sg == Sums(g, S)
             sh == Sums(h, S)
  <1>2. IsSums(g, sg, S) /\ IsSums(h, sh, S)
    BY SumsSolve
  <1> HIDE DEF sg, sh
  <1>3. sg[S] = g[x] + sg[S \ {x}] /\ sh[S] = h[x] + sh[S \ {x}]
    <2>1. S \in SUBSET S
      OBVIOUS
    <2>2. sg[S] = g[x] + sg[S \ {x}]
      BY <1>2, <2>1, SumSplit
    <2>3. sh[S] = h[x] + sh[S \ {x}]
      <3>1. IsSums(h, sh, S)
        BY <1>2
      <3>2. QED  BY <2>1, <3>1, SumSplit
    <2>4. QED  BY <2>2, <2>3
  <1>4. sg[S \ {x}] = sh[S \ {x}]
    <2>1. \A y \in S \ {x} : g[y] = h[y]
      OBVIOUS
    <2>2. QED  BY <1>2, <2>1, SumLocal DEF IsSums
  <1>5. sg[S] \in Nat /\ sg[S \ {x}] \in Nat /\ g[x] \in Nat /\ h[x] \in Nat
    BY <1>2 DEF IsSums
  <1>6. sh[S] = sg[S] - g[x] + h[x] /\ sg[S] \in Nat /\ g[x] \in Nat /\ g[x] <= sg[S]
    BY <1>3, <1>4, <1>5
  <1>7. QED  BY <1>6 DEF sg, sh, Sum

-----------------------------------------------------------------------------
(* Free blocks.                                                            *)

\* What is said of BlocksInUse below is said of this sum.
LEMMA InUse == BlocksInUse = Sum(st_blocks, Inodes)
  BY DEF BlocksInUse, MapThenSumSet, MapThenFoldSet, Sum, Sums, SumAt, Chosen

LEMMA InUseNext == BlocksInUse' = Sum(st_blocks', Inodes)
  BY DEF BlocksInUse, MapThenSumSet, MapThenFoldSet, Sum, Sums, SumAt, Chosen

-----------------------------------------------------------------------------
(* Sizes, blocks and bytes.                                                *)

Data == Byte \cup {Junk}

LEMMA BlockSizeType == BlockSize \in Nat /\ BlockSize >= 1
  BY FileIOAssumption

\* Multiples of BlockSize are ordered as what they are multiples of.
LEMMA Multiples ==
    ASSUME NEW a \in Nat, NEW b \in Nat
    PROVE  /\ a * BlockSize \in Nat
           /\ a <= b => a * BlockSize <= b * BlockSize
           /\ a * BlockSize < b * BlockSize + BlockSize => a <= b
           /\ (a + 1) * BlockSize = a * BlockSize + BlockSize
  <1>1. \A c, d \in Nat : c * d \in Nat
    OBVIOUS
  <1>2. BlockSize \in Nat /\ BlockSize >= 1
    BY BlockSizeType
  <1>3. a * BlockSize \in Nat /\ b * BlockSize \in Nat
    BY <1>1, <1>2
  <1>4. (a + 1) * BlockSize = a * BlockSize + BlockSize
    BY <1>2
  <1>5. ASSUME a <= b PROVE a * BlockSize <= b * BlockSize
    <2>1. PICK d \in Nat : b = a + d
      BY <1>5, b - a \in Nat
    <2>2. b * BlockSize = a * BlockSize + d * BlockSize /\ d * BlockSize \in Nat
      BY <1>1, <1>2, <2>1
    <2>3. QED  BY <1>3, <2>2
  <1>6. ASSUME a * BlockSize < b * BlockSize + BlockSize, a > b PROVE FALSE
    <2>1. PICK d \in Nat : a = b + 1 + d
      BY <1>6, a - b - 1 \in Nat
    <2>2. a * BlockSize = b * BlockSize + BlockSize + d * BlockSize /\ d * BlockSize \in Nat
      BY <1>1, <1>2, <2>1
    <2>3. QED  BY <1>2, <1>3, <1>6, <2>2
  <1>7. QED  BY <1>3, <1>4, <1>5, <1>6

LEMMA DivMod ==
    ASSUME NEW n \in Nat
    PROVE  /\ n \div BlockSize \in Nat /\ n % BlockSize \in 0 .. BlockSize - 1
           /\ n = (n \div BlockSize) * BlockSize + (n % BlockSize)
  BY FileIOAssumption

\* A quotient and a remainder are determined by their number.
LEMMA DivModUnique ==
    ASSUME NEW q \in Nat, NEW r \in 0 .. BlockSize - 1
    PROVE  /\ (q * BlockSize + r) \div BlockSize = q
           /\ (q * BlockSize + r) % BlockSize = r
  <1> DEFINE n == q * BlockSize + r
             p == n \div BlockSize
             m == n % BlockSize
  <1>1. BlockSize \in Nat /\ BlockSize >= 1 /\ r \in Nat /\ r < BlockSize
    BY BlockSizeType
  <1>2. q * BlockSize \in Nat /\ n \in Nat
    BY <1>1, Multiples
  <1>3. p \in Nat /\ m \in Nat /\ m < BlockSize /\ n = p * BlockSize + m
    BY <1>1, <1>2, DivMod
  <1>4. n = q * BlockSize + r
    OBVIOUS
  <1> HIDE DEF n, p, m
  <1>5. p * BlockSize \in Nat
    BY <1>3, Multiples
  <1>6. p <= q
    <2>1. p * BlockSize < q * BlockSize + BlockSize
      BY <1>1, <1>2, <1>3, <1>4, <1>5
    <2>2. QED  BY <1>3, <2>1, Multiples
  <1>7. q <= p
    <2>1. q * BlockSize < p * BlockSize + BlockSize
      BY <1>1, <1>2, <1>3, <1>4, <1>5
    <2>2. QED  BY <1>3, <2>1, Multiples
  <1>8. p = q
    BY <1>3, <1>6, <1>7
  <1>9. m = r
    BY <1>1, <1>2, <1>3, <1>4, <1>8
  <1>10. QED  BY <1>8, <1>9 DEF n, p, m

\* The blocks of a file have room for it and are not one too many.
LEMMA BlocksForFacts ==
    ASSUME NEW size \in Nat
    PROVE  /\ BlocksFor(size) \in Nat /\ BlocksFor(size) * BlockSize \in Nat
           /\ size <= BlocksFor(size) * BlockSize
           /\ BlocksFor(size) * BlockSize < size + BlockSize
           /\ BlocksFor(size) = 0 <=> size = 0
  <1> DEFINE q == size \div BlockSize
             m == size % BlockSize
  <1>1. BlockSize \in Nat /\ BlockSize >= 1
    BY BlockSizeType
  <1>2. q \in Nat /\ m \in Nat /\ m < BlockSize /\ size = q * BlockSize + m
    BY <1>1, DivMod
  <1>3. BlocksFor(size) = q + (IF m > 0 THEN 1 ELSE 0)
    BY DEF BlocksFor
  <1> HIDE DEF q, m
  <1>4. q * BlockSize \in Nat /\ (q + 1) * BlockSize = q * BlockSize + BlockSize
    BY <1>2, Multiples
  <1>5. q = 0 => q * BlockSize = 0
    BY <1>1
  <1>6. q >= 1 => q * BlockSize >= BlockSize
    <2>1. 1 \in Nat /\ 1 * BlockSize = BlockSize
      BY <1>1
    <2>2. QED  BY <1>2, <2>1, Multiples
  <1>7. CASE m > 0
    BY <1>1, <1>2, <1>3, <1>4, <1>7
  <1>8. CASE m = 0
    <2>1. BlocksFor(size) = q
      BY <1>2, <1>3, <1>8
    <2>2. size = q * BlockSize
      BY <1>2, <1>4, <1>8
    <2>3. QED  BY <1>1, <1>2, <1>4, <1>5, <1>6, <2>1, <2>2
  <1>9. QED  BY <1>2, <1>7, <1>8

\* A file that grows within its blocks has as many of them as before.
LEMMA SameBlocks ==
    ASSUME NEW size \in Nat, NEW larger \in Nat,
           size <= larger, larger <= BlocksFor(size) * BlockSize
    PROVE  BlocksFor(larger) = BlocksFor(size)
  <1> DEFINE n == BlocksFor(size)
             m == BlocksFor(larger)
  <1>1. /\ n \in Nat /\ n * BlockSize \in Nat /\ n * BlockSize < size + BlockSize
        /\ m \in Nat /\ m * BlockSize \in Nat /\ m * BlockSize < larger + BlockSize
        /\ larger <= m * BlockSize /\ larger <= n * BlockSize /\ BlockSize \in Nat
    BY BlocksForFacts, BlockSizeType
  <1> HIDE DEF n, m
  <1>2. m * BlockSize < n * BlockSize + BlockSize /\ n * BlockSize < m * BlockSize + BlockSize
    BY <1>1
  <1>3. m <= n /\ n <= m
    BY <1>1, <1>2, Multiples
  <1>4. m = n
    BY <1>1, <1>3
  <1>5. QED  BY <1>4 DEF n, m

\* Where byte j of block k is, and which byte of which block byte i is.
LEMMA PlaceOf ==
    ASSUME NEW n \in Nat, NEW k \in 1 .. n, NEW j \in 1 .. BlockSize
    PROVE  (k - 1) * BlockSize + j \in 1 .. n * BlockSize
  <1>1. k - 1 \in Nat /\ k \in Nat /\ j \in Nat /\ BlockSize \in Nat
    BY BlockSizeType
  <1>2. (k - 1) * BlockSize \in Nat /\ ((k - 1) + 1) * BlockSize = (k - 1) * BlockSize + BlockSize
    BY <1>1, Multiples
  <1>3. (k - 1) + 1 = k
    BY <1>1
  <1>4. k * BlockSize <= n * BlockSize /\ n * BlockSize \in Nat
    BY <1>1, Multiples
  <1>5. k * BlockSize = (k - 1) * BlockSize + BlockSize
    BY <1>2, <1>3
  <1>6. QED  BY <1>1, <1>2, <1>4, <1>5

LEMMA BlockOf ==
    ASSUME NEW n \in Nat, NEW i \in 1 .. n * BlockSize
    PROVE  /\ (i - 1) \div BlockSize + 1 \in 1 .. n
           /\ ((i - 1) % BlockSize) + 1 \in 1 .. BlockSize
           /\ (i - 1) \div BlockSize \in Nat /\ (i - 1) % BlockSize \in Nat
           /\ ((i - 1) \div BlockSize) * BlockSize + ((i - 1) % BlockSize) + 1 = i
  <1> DEFINE q == (i - 1) \div BlockSize
             m == (i - 1) % BlockSize
  <1>1. BlockSize \in Nat /\ BlockSize >= 1 /\ n * BlockSize \in Nat
    BY BlockSizeType, Multiples
  <1>2. i - 1 \in Nat /\ i \in Nat /\ i <= n * BlockSize
    BY <1>1
  <1>3. q \in Nat /\ m \in Nat /\ m < BlockSize /\ i - 1 = q * BlockSize + m
    BY <1>1, <1>2, DivMod
  <1> HIDE DEF q, m
  <1>4. q * BlockSize \in Nat /\ (q + 1) * BlockSize = q * BlockSize + BlockSize
    BY <1>3, Multiples
  <1>5. (q + 1) * BlockSize < n * BlockSize + BlockSize
    BY <1>1, <1>2, <1>3, <1>4
  <1>6. q + 1 <= n
    <2>1. q + 1 \in Nat
      BY <1>3
    <2>2. QED  BY <1>5, <2>1, Multiples
  <1>8. q * BlockSize + m + 1 = i
    BY <1>1, <1>2, <1>3, <1>4
  <1>9. /\ q + 1 \in 1 .. n /\ m + 1 \in 1 .. BlockSize
        /\ q \in Nat /\ m \in Nat /\ q * BlockSize + m + 1 = i
    BY <1>1, <1>3, <1>6, <1>8
  <1>10. QED  BY <1>9 DEF q, m

\* n blocks cut from a buffer that has room for them.
LEMMA ToBlocksType ==
    ASSUME NEW buf \in Seq(Data), NEW n \in Nat, n * BlockSize <= Len(buf)
    PROVE  ToBlocks(buf, n) \in [1 .. n -> Block]
  <1>1. ASSUME NEW k \in 1 .. n
        PROVE  [j \in 1 .. BlockSize |-> buf[(k - 1) * BlockSize + j]] \in Block
    <2>1. ASSUME NEW j \in 1 .. BlockSize PROVE buf[(k - 1) * BlockSize + j] \in Data
      <3>1. (k - 1) * BlockSize + j \in 1 .. n * BlockSize
        BY PlaceOf
      <3>2. n * BlockSize \in Nat
        BY Multiples
      <3>3. (k - 1) * BlockSize + j \in 1 .. Len(buf)
        BY <3>1, <3>2
      <3>4. QED  BY <3>3
    <2>2. QED  BY <2>1 DEF Block, Data
  <1>2. QED  BY <1>1 DEF ToBlocks

\* The bytes of n blocks, some of which may be the garbage of a wrong read.
LEMMA ToBytesType ==
    ASSUME NEW n \in Nat, NEW blocks, blocks \in [1 .. n -> Block \cup {Junk}]
    PROVE  /\ Len(blocks) = n
           /\ ToBytes(blocks) \in Seq(Data) /\ Len(ToBytes(blocks)) = n * BlockSize
  <1>1. Len(blocks) = n
    OBVIOUS
  <1>2. ASSUME NEW i \in 1 .. n * BlockSize
        PROVE  (LET block == blocks[(i - 1) \div BlockSize + 1]
                IN  IF block \in Block THEN block[((i - 1) % BlockSize) + 1] ELSE Junk) \in Data
    <2>1. (i - 1) \div BlockSize + 1 \in 1 .. n /\ ((i - 1) % BlockSize) + 1 \in 1 .. BlockSize
      BY BlockOf
    <2>2. QED  BY <2>1 DEF Block, Data
  <1>3. n * BlockSize \in Nat
    BY Multiples
  <1>4. ToBytes(blocks) \in [1 .. n * BlockSize -> Data]
    BY <1>1, <1>2 DEF ToBytes
  <1>5. QED  BY <1>1, <1>3, <1>4

\* Cutting a buffer into blocks and putting them together again keeps its bytes.
LEMMA BytesOfBlocks ==
    ASSUME NEW buf \in Seq(Data), NEW n \in Nat, n * BlockSize <= Len(buf)
    PROVE  /\ Len(ToBytes(ToBlocks(buf, n))) = n * BlockSize
           /\ \A i \in 1 .. n * BlockSize : ToBytes(ToBlocks(buf, n))[i] = buf[i]
  <1> DEFINE blocks == ToBlocks(buf, n)
  <1>1. blocks \in [1 .. n -> Block]
    BY ToBlocksType
  <1>2. blocks \in [1 .. n -> Block \cup {Junk}]
    BY <1>1
  <1>3. Len(blocks) = n /\ Len(ToBytes(blocks)) = n * BlockSize
    <2> HIDE DEF blocks
    <2>1. QED  BY <1>2, ToBytesType
  <1>4. ASSUME NEW i \in 1 .. n * BlockSize PROVE ToBytes(blocks)[i] = buf[i]
    <2> DEFINE k == (i - 1) \div BlockSize + 1
               j == ((i - 1) % BlockSize) + 1
    <2>0. i \in 1 .. n * BlockSize
      OBVIOUS
    <2>1. k \in 1 .. n /\ j \in 1 .. BlockSize
      BY <2>0, BlockOf
    <2>2. blocks[k] \in Block
      BY <1>1, <2>1
    <2>3. ToBytes(blocks)[i] = blocks[k][j]
      <3> HIDE DEF blocks
      <3>1. QED  BY <1>3, <2>2 DEF ToBytes
    <2>4. blocks[k] = [l \in 1 .. BlockSize |-> buf[(k - 1) * BlockSize + l]]
      BY <2>1 DEF ToBlocks
    <2>5. blocks[k][j] = buf[(k - 1) * BlockSize + j]
      BY <2>1, <2>4
    <2>6. (k - 1) * BlockSize + j = i
      <3> DEFINE q == (i - 1) \div BlockSize
                 m == (i - 1) % BlockSize
      <3>1. q \in Nat /\ m \in Nat /\ q * BlockSize + m + 1 = i
        BY <2>0, BlockOf
      <3>2. k = q + 1 /\ j = m + 1
        OBVIOUS
      <3> HIDE DEF k, j, q, m
      <3>3. k - 1 = q
        BY <3>1, <3>2
      <3>4. q * BlockSize \in Nat
        BY <3>1, Multiples
      <3>5. QED  BY <3>1, <3>2, <3>3, <3>4
    <2>7. QED  BY <2>3, <2>5, <2>6
  <1>5. QED  BY <1>3, <1>4

LEMMA ReallocFacts ==
    ASSUME NEW buf \in {NoBuf} \cup Seq(Data), NEW n \in Nat
    PROVE  /\ Realloc(buf, n) \in Seq(Data) /\ Len(Realloc(buf, n)) = n
           /\ \A i \in 1 .. n : buf # NoBuf /\ i <= Len(buf) => Realloc(buf, n)[i] = buf[i]
  <1>1. ASSUME NEW i \in 1 .. n
        PROVE  (IF buf # NoBuf /\ i <= Len(buf) THEN buf[i] ELSE Junk) \in Data
    BY DEF Data
  <1>2. Realloc(buf, n) \in [1 .. n -> Data]
    BY <1>1 DEF Realloc
  <1>3. QED  BY <1>2 DEF Realloc

\* The null pointer is no buffer.
LEMMA NoBufNoData == NoBuf \notin Seq(Data)
  <1>1. ASSUME NoBuf \in Seq(Data) PROVE FALSE
    <2>1. NoBuf[1] \in Data
      BY <1>1 DEF NoBuf
    <2>2. QED  BY <2>1, FileIOAssumption DEF NoBuf, Data
  <1>2. QED  BY <1>1

LEMMA CopiedFacts ==
    ASSUME NEW buf \in Seq(Data), NEW off \in Nat, NEW data \in Seq(Byte)
    PROVE  /\ Copied(buf, off, data) \in Seq(Data)
           /\ Len(Copied(buf, off, data)) = Len(buf)
           /\ \A i \in 1 .. Len(buf) :
                 Copied(buf, off, data)[i] =
                     IF i > off /\ i <= off + Len(data) THEN data[i - off] ELSE buf[i]
  <1>1. ASSUME NEW i \in 1 .. Len(buf)
        PROVE  (IF i > off /\ i <= off + Len(data) THEN data[i - off] ELSE buf[i]) \in Data
    <2>1. CASE i > off /\ i <= off + Len(data)
      <3>1. i - off \in 1 .. Len(data)
        BY <2>1
      <3>2. QED  BY <2>1, <3>1 DEF Data
    <2>2. CASE ~ (i > off /\ i <= off + Len(data))
      BY <2>2
    <2>3. QED  BY <2>1, <2>2
  <1>2. Copied(buf, off, data) \in [1 .. Len(buf) -> Data]
    BY <1>1 DEF Copied
  <1>3. QED  BY <1>2 DEF Copied

-----------------------------------------------------------------------------
(* Type correctness, and the free blocks of statfs.  They depend on each   *)
(* other: that usedBlocks is no less than the blocks of all files is what  *)
(* keeps it from becoming negative when those of one file are returned.    *)

TInv == TypeOK /\ FreeBlocksExist

LEMMA TypeInit == Init => TInv
  <1> SUFFICES ASSUME Init PROVE TInv
    OBVIOUS
  <1>1. IsFiniteSet(Inodes)
    BY FileIOAssumption
  <1>2. TypeOK
    <2>1. <<>> \in Seq(Block)
      OBVIOUS
    <2>2. 0 \in 0 .. MaxSize
      BY FileIOAssumption
    <2>3. QED  BY <2>1, <2>2 DEF Init, TypeOK, Other
  <1>3. BlocksInUse = 0
    <2> DEFINE f == [s \in SUBSET Inodes |-> 0]
    <2>1. st_blocks \in [Inodes -> Nat] /\ \A y \in Inodes : st_blocks[y] = 0
      BY DEF Init
    <2>2. IsSums(st_blocks, Sums(st_blocks, Inodes), Inodes)
      BY <1>1, <2>1, SumsSolve
    <2>3. Solves(st_blocks, f, Inodes)
      <3>1. ASSUME NEW s \in SUBSET Inodes PROVE f[s] = SumAt(st_blocks, f, s)
        <4>1. CASE s = {}
          BY <4>1 DEF SumAt
        <4>2. CASE s # {}
          <5>1. Chosen(s) \in s
            BY <4>2, ChosenIn
          <5>2. st_blocks[Chosen(s)] = 0 /\ f[s \ {Chosen(s)}] = 0 /\ f[s] = 0
            BY <2>1, <5>1
          <5> HIDE DEF f
          <5>3. QED  BY <4>2, <5>2 DEF SumAt
        <4>3. QED  BY <4>1, <4>2
      <3> HIDE DEF f
      <3>2. QED  BY <3>1 DEF Solves
    <2>4. Sums(st_blocks, Inodes)[Inodes] = f[Inodes]
      <3> HIDE DEF f
      <3>1. Inodes \in SUBSET Inodes
        OBVIOUS
      <3>2. QED  BY <1>1, <2>2, <2>3, <3>1, SumLocal DEF IsSums
    <2>5. QED  BY <2>4, InUse DEF Sum
  <1>4. QED  BY <1>2, <1>3 DEF TInv, FreeBlocksExist, Init

\* What a request does to st_blocks of its file, or to nothing, does to their sum.
LEMMA InUseStep ==
    ASSUME TypeOK, NEW ino \in Inodes, NEW n \in Nat,
           st_blocks' = [st_blocks EXCEPT ![ino] = n]
    PROVE  /\ BlocksInUse \in Nat /\ st_blocks[ino] \in Nat
           /\ st_blocks[ino] <= BlocksInUse
           /\ BlocksInUse' = BlocksInUse - st_blocks[ino] + n
  <1>1. IsFiniteSet(Inodes) /\ st_blocks \in [Inodes -> Nat]
    BY FileIOAssumption DEF TypeOK
  <1>2. /\ Sum(st_blocks, Inodes) \in Nat /\ st_blocks[ino] \in Nat
        /\ st_blocks[ino] <= Sum(st_blocks, Inodes)
        /\ Sum(st_blocks', Inodes) = Sum(st_blocks, Inodes) - st_blocks[ino] + n
    <2>1. /\ st_blocks' \in [Inodes -> Nat] /\ st_blocks'[ino] = n
          /\ \A y \in Inodes \ {ino} : st_blocks'[y] = st_blocks[y]
      BY <1>1
    <2>2. \A g, h \in [Inodes -> Nat] : (\A y \in Inodes \ {ino} : h[y] = g[y]) =>
             /\ Sum(g, Inodes) \in Nat /\ g[ino] \in Nat /\ g[ino] <= Sum(g, Inodes)
             /\ Sum(h, Inodes) = Sum(g, Inodes) - g[ino] + h[ino]
      BY <1>1, SumExcept
    <2>3. QED  BY <1>1, <2>1, <2>2
  <1>3. QED  BY <1>2, InUse, InUseNext

LEMMA InUseSame == UNCHANGED <<st_blocks, usedBlocks>> /\ FreeBlocksExist => FreeBlocksExist'
  BY InUse, InUseNext DEF FreeBlocksExist

LEMMA KeepsType == ASSUME TypeOK, NEW rule, Keeps(rule)
                   PROVE  strays' \in Nat /\ (strays' = 0 => strays = 0 /\ rule)
  BY DEF Keeps, TypeOK

\* The bytes an open loads.
LEMMA LoadedType ==
    ASSUME TypeOK, NEW ino \in Inodes, NEW n \in Nat, NEW blocks \in Store!Loadable(ino, n)
    PROVE  ToBytes(blocks) \in Seq(Data) /\ Len(ToBytes(blocks)) = n * BlockSize
  <1>1. content[ino] \in Seq(Block)
    BY DEF TypeOK
  <1>2. blocks \in [1 .. n -> Block \cup {Junk}]
    <2>1. CASE n = Len(content[ino])
      <3>1. blocks = content[ino]
        BY <2>1 DEF Store!Loadable
      <3>2. content[ino] \in [1 .. n -> Block]
        BY <1>1, <2>1
      <3>3. QED  BY <3>1, <3>2
    <2>2. CASE n # Len(content[ino])
      BY <2>2 DEF Store!Loadable
    <2>3. QED  BY <2>1, <2>2
  <1>3. QED  BY <1>2, ToBytesType

\* Requests of which little changes: opens, releases and those that only fail.
LEMMA TypeOpened ==
    ASSUME TypeOK, NEW ino \in Inodes, NEW h \in Handles, NEW mode \in Modes,
           Opened(ino, h, mode)
    PROVE  handle' \in [Handles -> {NoHandle} \cup
               [ino : Inodes, mode : Modes, state : {"open", "closed"}]]
  BY DEF Opened, TypeOK

LEMMA TypeFaults ==
    ASSUME TInv, NEW f \in {"read", "write", "flush"}, NEW rule, Keeps(rule), Faults(f)
    PROVE  TInv'
  <1>1. strays' \in Nat
    BY KeepsType DEF TInv
  <1>2. UNCHANGED <<st_blocks, usedBlocks>>
    BY DEF Faults, attrs
  <1>3. FreeBlocksExist'
    BY <1>2, InUseSame DEF TInv
  <1>4. QED  BY <1>1, <1>3 DEF TInv, TypeOK, Faults, attrs, Other

LEMMA TypeCreate ==
    ASSUME TInv, NEW ino \in Inodes, NEW h \in Handles, NEW mode \in Modes,
           FuseCreate(ino, h, mode)
    PROVE  TInv'
  <1>1. strays' \in Nat
    BY KeepsType DEF TInv, FuseCreate
  <1>2. handle' \in [Handles -> {NoHandle} \cup
               [ino : Inodes, mode : Modes, state : {"open", "closed"}]]
    BY TypeOpened DEF TInv, FuseCreate
  <1>3. /\ BlocksInUse \in Nat /\ st_blocks[ino] \in Nat /\ st_blocks[ino] <= BlocksInUse
        /\ BlocksInUse' = BlocksInUse - st_blocks[ino] + 0
    BY InUseStep DEF FuseCreate, TInv
  <1>4. usedBlocks' = usedBlocks - st_blocks[ino] /\ usedBlocks \in Nat /\ usedBlocks >= BlocksInUse
    BY DEF FuseCreate, TInv, TypeOK, FreeBlocksExist
  <1>5. usedBlocks' \in Nat /\ usedBlocks' >= BlocksInUse'
    BY <1>3, <1>4
  <1>6. 0 \in 0 .. MaxSize
    BY FileIOAssumption
  <1>7. TypeOK'
    BY <1>1, <1>2, <1>5, <1>6 DEF TInv, TypeOK, FuseCreate
  <1>8. QED  BY <1>5, <1>7 DEF TInv, FreeBlocksExist

LEMMA TypeErasing ==
    ASSUME TInv, NEW ino \in Inodes, NEW h \in Handles, NEW mode \in Modes,
           FuseOpenErasing(ino, h, mode)
    PROVE  TInv'
  <1>1. strays' \in Nat
    BY KeepsType DEF TInv, FuseOpenErasing
  <1>2. handle' \in [Handles -> {NoHandle} \cup
               [ino : Inodes, mode : Modes, state : {"open", "closed"}]]
    BY TypeOpened DEF TInv, FuseOpenErasing
  <1>3. /\ BlocksInUse \in Nat /\ st_blocks[ino] \in Nat /\ st_blocks[ino] <= BlocksInUse
        /\ BlocksInUse' = BlocksInUse - st_blocks[ino] + 0
    BY InUseStep DEF FuseOpenErasing, TInv
  <1>4. usedBlocks' = usedBlocks /\ usedBlocks \in Nat /\ usedBlocks >= BlocksInUse
    BY DEF FuseOpenErasing, TInv, TypeOK, FreeBlocksExist
  <1>5. usedBlocks' >= BlocksInUse'
    BY <1>3, <1>4
  <1>6. 0 \in 0 .. MaxSize
    BY FileIOAssumption
  <1>7. TypeOK'
    BY <1>1, <1>2, <1>4, <1>6 DEF TInv, TypeOK, FuseOpenErasing
  <1>8. QED  BY <1>5, <1>7 DEF TInv, FreeBlocksExist

LEMMA TypeLoading ==
    ASSUME TInv, NEW ino \in Inodes, NEW h \in Handles, NEW mode \in Modes,
           FuseOpenLoading(ino, h, mode)
    PROVE  TInv'
  <1>1. strays' \in Nat
    BY KeepsType DEF TInv, FuseOpenLoading
  <1>2. handle' \in [Handles -> {NoHandle} \cup
               [ino : Inodes, mode : Modes, state : {"open", "closed"}]]
    BY TypeOpened DEF TInv, FuseOpenLoading
  <1>3. st_size[ino] \in Nat /\ BlocksFor(st_size[ino]) \in Nat
    BY BlocksForFacts, FileIOAssumption DEF TInv, TypeOK
  <1>4. PICK blocks \in Store!Loadable(ino, BlocksFor(st_size[ino])) :
          m_buf' = [m_buf EXCEPT ![ino] = IF st_size[ino] = 0 THEN NoBuf ELSE ToBytes(blocks)]
    BY DEF FuseOpenLoading
  <1>5. ToBytes(blocks) \in Seq(Data)
    BY <1>3, LoadedType DEF TInv
  <1>6. m_buf' \in [Inodes -> {NoBuf} \cup Seq(Data)]
    BY <1>4, <1>5 DEF TInv, TypeOK, Data
  <1>7. UNCHANGED <<attrs, waiting, content, fault>> /\ last' = Other
    BY DEF FuseOpenLoading
  <1>8. TypeOK'
    BY <1>1, <1>2, <1>6, <1>7 DEF TInv, TypeOK, attrs, Other, Data
  <1>9. QED  BY <1>7, <1>8, InUseSame DEF TInv, attrs

LEMMA TypeRead ==
    ASSUME TInv, NEW h \in Handles, NEW off \in 0 .. MaxSize, NEW n \in 1 .. MaxSize,
           FuseRead(h, off, n)
    PROVE  TInv'
  <1> DEFINE ino == handle[h].ino
             end == IF off + n > st_size[ino] THEN st_size[ino] ELSE off + n
  <1>1. strays' \in Nat
    BY KeepsType DEF TInv, FuseRead
  <1>2. CASE off > st_size[ino] \/ end > Room(ino)
    <2>1. Faults("read") /\ Keeps(off <= st_size[ino])
      BY <1>2 DEF FuseRead
    <2>2. QED  BY <2>1, TypeFaults
  <1>3. CASE ~ (off > st_size[ino] \/ end > Room(ino))
    <2>1. last'.op = "read" /\ UNCHANGED <<attrs, m_buf, waiting, content, handle, fault>>
      BY <1>3 DEF FuseRead
    <2>2. TypeOK'
      BY <1>1, <2>1 DEF TInv, TypeOK, attrs
    <2>3. QED  BY <2>1, <2>2, InUseSame DEF TInv, attrs
  <1>4. QED  BY <1>2, <1>3

LEMMA TypeFlush ==
    ASSUME TInv, NEW h \in Handles, NEW keep \in BOOLEAN, FuseFlush(h, keep)
    PROVE  TInv'
  <1> DEFINE ino == handle[h].ino
             n   == BlocksFor(st_size[ino])
  <1>1. strays' \in Nat
    BY KeepsType DEF TInv, FuseFlush
  <1>2. CASE m_buf[ino] # NoBuf /\ waiting[ino] /\ n * BlockSize > Room(ino)
    <2>1. Faults("flush") /\ Keeps(~ keep)
      BY <1>2 DEF FuseFlush
    <2>2. QED  BY <2>1, TypeFaults
  <1>3. CASE ~ (m_buf[ino] # NoBuf /\ waiting[ino] /\ n * BlockSize > Room(ino))
    <2>1. /\ handle[h] \in [ino : Inodes, mode : Modes, state : {"open", "closed"}]
          /\ ino \in Inodes
      BY DEF TInv, TypeOK, FuseFlush, Usable
    <2>2. /\ handle' = [handle EXCEPT ![h].state = IF keep THEN "open" ELSE "closed"]
          /\ IF m_buf[ino] # NoBuf /\ waiting[ino]
               THEN Store!Store(ino, ToBlocks(m_buf[ino], n))
               ELSE UNCHANGED content
          /\ waiting' = [waiting EXCEPT ![ino] = @ /\ m_buf[ino] = NoBuf]
          /\ m_buf' = [m_buf EXCEPT ![ino] = NoBuf]
          /\ last' = Other
          /\ UNCHANGED <<attrs, fault>>
      BY <1>3 DEF FuseFlush
    <2>3. handle' \in [Handles -> {NoHandle} \cup
               [ino : Inodes, mode : Modes, state : {"open", "closed"}]]
      BY <2>1, <2>2 DEF TInv, TypeOK
    <2>4. content' \in [Inodes -> Seq(Block)]
      <3>1. CASE m_buf[ino] # NoBuf /\ waiting[ino]
        <4>1. st_size[ino] \in Nat /\ n \in Nat /\ n * BlockSize \in Nat
          BY <2>1, BlocksForFacts, FileIOAssumption DEF TInv, TypeOK
        <4>2. m_buf[ino] \in Seq(Data) /\ Room(ino) = Len(m_buf[ino])
          BY <2>1, <3>1 DEF TInv, TypeOK, Data, Room
        <4>3. n * BlockSize <= Len(m_buf[ino])
          BY <1>3, <3>1, <4>1, <4>2
        <4> HIDE DEF n
        <4>4. ToBlocks(m_buf[ino], n) \in [1 .. n -> Block]
          BY <4>1, <4>2, <4>3, ToBlocksType
        <4>5. ToBlocks(m_buf[ino], n) \in Seq(Block)
          BY <4>1, <4>4
        <4>6. content' = [content EXCEPT ![ino] = ToBlocks(m_buf[ino], n)]
          BY <2>2, <3>1 DEF Store!Store, n
        <4>7. QED  BY <4>5, <4>6 DEF TInv, TypeOK
      <3>2. CASE ~ (m_buf[ino] # NoBuf /\ waiting[ino])
        BY <2>2, <3>2 DEF TInv, TypeOK
      <3>3. QED  BY <3>1, <3>2
    <2>5. waiting' \in [Inodes -> BOOLEAN]
      <3>1. (waiting[ino] /\ m_buf[ino] = NoBuf) \in BOOLEAN
        OBVIOUS
      <3>2. waiting' = [waiting EXCEPT ![ino] = (waiting[ino] /\ m_buf[ino] = NoBuf)]
        BY <2>2
      <3>3. QED  BY <3>1, <3>2 DEF TInv, TypeOK
    <2>6. TypeOK'
      BY <1>1, <2>2, <2>3, <2>4, <2>5 DEF TInv, TypeOK, attrs, Other
    <2>7. QED  BY <2>2, <2>6, InUseSame DEF TInv, attrs
  <1>4. QED  BY <1>2, <1>3

\* What a write that does not fail does to the buffer of its file.
LEMMA WriteBuffer ==
    ASSUME TypeOK, NEW h \in Handles, NEW off \in 0 .. MaxSize, NEW n \in Nat \ {0},
           NEW data \in [1 .. n -> Byte], FuseWrite(h, off, data),
           NEW ino, ino = handle[h].ino,
           NEW newBlocks, newBlocks = BlocksFor(off + n),
           NEW grows, grows = (off + n > BlockSize * st_blocks[ino]),
           grows \/ off + n <= Room(ino),
           NEW buf, buf = IF grows THEN Realloc(m_buf[ino], newBlocks * BlockSize)
                                   ELSE m_buf[ino]
    PROVE  /\ ino \in Inodes /\ Len(data) = n /\ newBlocks \in Nat
           /\ buf \in Seq(Data) /\ off + n <= Len(buf)
           /\ Len(buf) = IF grows THEN newBlocks * BlockSize ELSE Room(ino)
           /\ m_buf[ino] # NoBuf => /\ m_buf[ino] \in Seq(Data)
                                    /\ Room(ino) = Len(m_buf[ino])
                                    /\ \A i \in 1 .. Len(buf) :
                                          i <= Room(ino) => buf[i] = m_buf[ino][i]
           /\ m_buf' = [m_buf EXCEPT ![ino] = Copied(buf, off, data)]
           /\ waiting' = [waiting EXCEPT ![ino] = TRUE]
           /\ grows => /\ st_blocks' = [st_blocks EXCEPT ![ino] = newBlocks]
                       /\ usedBlocks' = usedBlocks + newBlocks - st_blocks[ino]
           /\ ~ grows => UNCHANGED <<st_blocks, usedBlocks>>
           /\ st_size' = [st_size EXCEPT ![ino] = IF off + n > @ THEN off + n ELSE @]
           /\ last' = [op |-> "write", ino |-> ino, off |-> off, data |-> data]
           /\ off + n <= MaxSize
           /\ UNCHANGED <<content, handle, fault>>
  <1>1. handle[h] \in [ino : Inodes, mode : Modes, state : {"open", "closed"}] /\ ino \in Inodes
    BY DEF TypeOK, FuseWrite, Usable
  <1>2. Len(data) = n /\ off \in Nat /\ n \in Nat /\ n >= 1 /\ off + n \in Nat
    BY FileIOAssumption
  <1>3. m_buf[ino] \in {NoBuf} \cup Seq(Data)
    BY <1>1 DEF TypeOK, Data
  <1>4. /\ newBlocks \in Nat /\ newBlocks * BlockSize \in Nat
        /\ off + n <= newBlocks * BlockSize
    BY <1>2, BlocksForFacts
  <1>5. CASE grows
    <2>1. buf = Realloc(m_buf[ino], newBlocks * BlockSize)
      BY <1>5
    <2>2. /\ buf \in Seq(Data) /\ Len(buf) = newBlocks * BlockSize
          /\ \A i \in 1 .. newBlocks * BlockSize :
                m_buf[ino] # NoBuf /\ i <= Len(m_buf[ino]) => buf[i] = m_buf[ino][i]
      <3> DEFINE room == newBlocks * BlockSize
      <3>1. room \in Nat /\ buf = Realloc(m_buf[ino], room)
        BY <1>4, <2>1
      <3> HIDE DEF room
      <3>2. Realloc(m_buf[ino], room) \in Seq(Data) /\ Len(Realloc(m_buf[ino], room)) = room
        BY <1>3, <3>1, ReallocFacts
      <3>3. \A i \in 1 .. room :
                m_buf[ino] # NoBuf /\ i <= Len(m_buf[ino])
                    => Realloc(m_buf[ino], room)[i] = m_buf[ino][i]
        BY <1>3, <3>1, ReallocFacts
      <3>4. QED  BY <3>1, <3>2, <3>3 DEF room
    <2>3. ~ (~ (off + Len(data) > BlockSize * st_blocks[ino]) /\ off + Len(data) > Room(ino))
      BY <1>2, <1>5
    <2>4. off + Len(data) > BlockSize * st_blocks[ino]
      BY <1>2, <1>5
    <2>5. /\ m_buf' = [m_buf EXCEPT ![ino] = Copied(buf, off, data)]
          /\ waiting' = [waiting EXCEPT ![ino] = TRUE]
          /\ st_blocks' = [st_blocks EXCEPT ![ino] = newBlocks]
          /\ usedBlocks' = usedBlocks + newBlocks - st_blocks[ino]
          /\ st_size' = [st_size EXCEPT ![ino] = IF off + n > @ THEN off + n ELSE @]
          /\ last' = [op |-> "write", ino |-> ino, off |-> off, data |-> data]
          /\ off + n <= MaxSize
          /\ UNCHANGED <<content, handle, fault>>
      BY <1>2, <2>1, <2>3, <2>4 DEF FuseWrite
    <2>6. m_buf[ino] # NoBuf => m_buf[ino] \in Seq(Data) /\ Room(ino) = Len(m_buf[ino])
      BY <1>3 DEF Room
    <2>7. m_buf[ino] # NoBuf =>
              \A i \in 1 .. Len(buf) : i <= Room(ino) => buf[i] = m_buf[ino][i]
      BY <2>2, <2>6
    <2>8. QED  BY <1>1, <1>2, <1>4, <1>5, <2>2, <2>5, <2>6, <2>7
  <1>6. CASE ~ grows
    <2>1. buf = m_buf[ino] /\ off + n <= Room(ino)
      BY <1>6
    <2>2. m_buf[ino] # NoBuf
      BY <1>2, <2>1 DEF Room
    <2>3. buf \in Seq(Data) /\ Room(ino) = Len(buf) /\ Len(buf) \in Nat
      BY <1>3, <2>1, <2>2 DEF Room
    <2>4. ~ (~ (off + Len(data) > BlockSize * st_blocks[ino]) /\ off + Len(data) > Room(ino))
      BY <1>2, <2>1, <2>3
    <2>5. ~ (off + Len(data) > BlockSize * st_blocks[ino])
      BY <1>2, <1>6
    <2>6. /\ m_buf' = [m_buf EXCEPT ![ino] = Copied(buf, off, data)]
          /\ waiting' = [waiting EXCEPT ![ino] = TRUE]
          /\ UNCHANGED <<st_blocks, usedBlocks>>
          /\ st_size' = [st_size EXCEPT ![ino] = IF off + n > @ THEN off + n ELSE @]
          /\ last' = [op |-> "write", ino |-> ino, off |-> off, data |-> data]
          /\ off + n <= MaxSize
          /\ UNCHANGED <<content, handle, fault>>
      BY <1>2, <2>1, <2>4, <2>5 DEF FuseWrite
    <2>7. QED  BY <1>1, <1>2, <1>4, <1>6, <2>1, <2>3, <2>6
  <1>7. QED  BY <1>5, <1>6

LEMMA TypeWrite ==
    ASSUME TInv, NEW h \in Handles, NEW off \in 0 .. MaxSize, NEW n \in Nat \ {0},
           NEW data \in [1 .. n -> Byte], FuseWrite(h, off, data)
    PROVE  TInv'
  <1> DEFINE ino       == handle[h].ino
             newBlocks == BlocksFor(off + n)
             grows     == off + n > BlockSize * st_blocks[ino]
             buf       == IF grows THEN Realloc(m_buf[ino], newBlocks * BlockSize)
                                   ELSE m_buf[ino]
  <1>0. Len(data) = n
    OBVIOUS
  <1>1. strays' \in Nat
    BY KeepsType DEF TInv, FuseWrite
  <1>2. CASE ~ (grows \/ off + n <= Room(ino))
    <2>1. Room(ino) \in Nat
      <3>1. ino \in Inodes
        BY DEF TInv, TypeOK, FuseWrite, Usable
      <3>2. QED  BY <3>1 DEF Room, TInv, TypeOK
    <2>2. off + n \in Nat
      BY FileIOAssumption
    <2>3. off + Len(data) > Room(ino) /\ ~ (off + Len(data) > BlockSize * st_blocks[ino])
      BY <1>0, <1>2, <2>1, <2>2
    <2>4. Faults("write") /\ Keeps(TRUE)
      BY <2>3 DEF FuseWrite
    <2>5. QED  BY <2>4, TypeFaults
  <1>3. CASE grows \/ off + n <= Room(ino)
    <2>1. grows = (off + n > BlockSize * st_blocks[ino])
      OBVIOUS
    <2> HIDE DEF ino, newBlocks, grows, buf
    <2>2. /\ ino \in Inodes /\ Len(data) = n /\ newBlocks \in Nat
          /\ buf \in Seq(Data)
          /\ m_buf' = [m_buf EXCEPT ![ino] = Copied(buf, off, data)]
          /\ waiting' = [waiting EXCEPT ![ino] = TRUE]
          /\ grows => /\ st_blocks' = [st_blocks EXCEPT ![ino] = newBlocks]
                      /\ usedBlocks' = usedBlocks + newBlocks - st_blocks[ino]
          /\ ~ grows => UNCHANGED <<st_blocks, usedBlocks>>
          /\ st_size' = [st_size EXCEPT ![ino] = IF off + n > @ THEN off + n ELSE @]
          /\ last' = [op |-> "write", ino |-> ino, off |-> off, data |-> data]
          /\ off + n <= MaxSize
          /\ UNCHANGED <<content, handle, fault>>
      BY <1>3, <2>1, WriteBuffer DEF TInv, ino, newBlocks, buf
    <2>3. Copied(buf, off, data) \in Seq(Data)
      <3>1. off \in Nat /\ data \in Seq(Byte)
        BY FileIOAssumption
      <3>2. QED  BY <2>2, <3>1, CopiedFacts
    <2>4. st_size' \in [Inodes -> 0 .. MaxSize]
      <3>1. off + n \in 0 .. MaxSize
        BY <2>2, FileIOAssumption
      <3>2. QED  BY <2>2, <3>1 DEF TInv, TypeOK
    <2>5. FreeBlocksExist' /\ usedBlocks' \in Nat /\ st_blocks' \in [Inodes -> Nat]
      <3>1. CASE grows
        <4>1. /\ BlocksInUse \in Nat /\ st_blocks[ino] \in Nat
              /\ st_blocks[ino] <= BlocksInUse
              /\ BlocksInUse' = BlocksInUse - st_blocks[ino] + newBlocks
          BY <2>2, <3>1, InUseStep DEF TInv
        <4>2. usedBlocks \in Nat /\ usedBlocks >= BlocksInUse
          BY DEF TInv, TypeOK, FreeBlocksExist
        <4>3. usedBlocks' \in Nat /\ usedBlocks' >= BlocksInUse'
          BY <2>2, <3>1, <4>1, <4>2
        <4>4. st_blocks' \in [Inodes -> Nat]
          BY <2>2, <3>1 DEF TInv, TypeOK
        <4>5. QED  BY <4>3, <4>4 DEF FreeBlocksExist
      <3>2. CASE ~ grows
        BY <2>2, <3>2, InUseSame DEF TInv, TypeOK
      <3>3. QED  BY <3>1, <3>2
    <2>6. m_buf' \in [Inodes -> {NoBuf} \cup Seq(Data)]
      BY <2>2, <2>3 DEF TInv, TypeOK, Data
    <2>7. TypeOK'
      BY <1>1, <2>2, <2>4, <2>5, <2>6 DEF TInv, TypeOK, Data
    <2>8. QED  BY <2>5, <2>7 DEF TInv
  <1>4. QED  BY <1>2, <1>3

LEMMA TypeRelease == ASSUME TInv, NEW h \in Handles, FuseRelease(h) PROVE TInv'
  <1>1. strays' \in Nat
    BY KeepsType DEF TInv, FuseRelease
  <1>2. TypeOK'
    BY <1>1 DEF TInv, TypeOK, FuseRelease, attrs, Other
  <1>3. QED  BY <1>2, InUseSame DEF TInv, FuseRelease, attrs

LEMMA TypeSetAttr ==
    ASSUME TInv, NEW ino \in Inodes, NEW size \in 0 .. MaxSize, FuseSetAttr(ino, size)
    PROVE  TInv'
  <1>1. strays' \in Nat
    BY KeepsType DEF TInv, FuseSetAttr
  <1>2. TypeOK'
    BY <1>1 DEF TInv, TypeOK, FuseSetAttr, Other
  <1>3. QED  BY <1>2, InUseSame DEF TInv, FuseSetAttr

\* What a request is, with the data of a write of some length.
LEMMA RequestCases ==
    ASSUME Request
    PROVE  \/ \E ino \in Inodes, h \in Handles, mode \in Modes :
                 \/ FuseCreate(ino, h, mode) \/ FuseOpenErasing(ino, h, mode)
                 \/ FuseOpenLoading(ino, h, mode)
           \/ \E h \in Handles :
                 \/ \E off \in 0 .. MaxSize, n \in 1 .. MaxSize : FuseRead(h, off, n)
                 \/ \E off \in 0 .. MaxSize, n \in Nat \ {0} :
                       \E data \in [1 .. n -> Byte] : FuseWrite(h, off, data)
                 \/ \E keep \in BOOLEAN : FuseFlush(h, keep)
                 \/ FuseRelease(h)
           \/ \E ino \in Inodes, size \in 0 .. MaxSize : FuseSetAttr(ino, size)
  BY FileIOAssumption DEF Request, FuseOpen

LEMMA TypeStep == TInv /\ [Next]_vars => TInv'
  <1>1. ASSUME TInv, UNCHANGED vars PROVE TInv'
    <2>1. UNCHANGED <<st_blocks, usedBlocks>>
      BY <1>1 DEF vars, attrs
    <2>2. TypeOK'
      BY <1>1 DEF vars, attrs, TInv, TypeOK
    <2>3. QED  BY <1>1, <2>1, <2>2, InUseSame DEF TInv
  <1>2. ASSUME TInv, Request PROVE TInv'
    BY <1>2, RequestCases, TypeCreate, TypeErasing, TypeLoading, TypeRead, TypeWrite,
       TypeFlush, TypeRelease, TypeSetAttr
  <1>3. QED  BY <1>1, <1>2 DEF Next

\* Type correctness: sizes within the bound, buffers and stored blocks of bytes, and
\* a number of used blocks that never becomes negative.
THEOREM TypeCorrect == Spec => []TypeOK
  <1>1. TInv => TypeOK
    BY DEF TInv
  <1>2. QED  BY TypeInit, TypeStep, <1>1, PTL DEF Spec

\* However files are created, erased, written and created again, statfs reports no
\* more free blocks than there are.
THEOREM FreeBlocksSafety == Spec => []FreeBlocksExist
  <1>1. TInv => FreeBlocksExist
    BY DEF TInv
  <1>2. QED  BY TypeInit, TypeStep, <1>1, PTL DEF Spec

-----------------------------------------------------------------------------
(* Clients that are orderly: a file is open once at a time and not used    *)
(* after its flush.                                                        *)

OneHandle ==
    \A h1, h2 \in Handles :
        handle[h1] # NoHandle /\ handle[h2] # NoHandle /\ handle[h1].ino = handle[h2].ino
            => h1 = h2

\* A file that can be read and written.
Live(ino) == \E h \in Handles :
                handle[h] # NoHandle /\ handle[h].ino = ino /\ handle[h].state = "open"

Stored(ino) == st_size[ino] > 0 => Len(content[ino]) = BlocksFor(st_size[ino])

\* How the sizes that the handlers go by, the buffer and the store belong together.
Agree(ino) ==
    /\ st_blocks[ino] = BlocksFor(st_size[ino])
    /\ m_buf[ino] # NoBuf => Len(m_buf[ino]) = st_blocks[ino] * BlockSize /\ Live(ino)
    /\ m_buf[ino] = NoBuf => ~ waiting[ino] /\ (Live(ino) => st_blocks[ino] = 0)
    /\ ~ waiting[ino] => Stored(ino)
    /\ ~ waiting[ino] /\ m_buf[ino] # NoBuf => m_buf[ino] = ToBytes(content[ino])

\* StaysInBuffer and ClosedIsStored are inductive with this.
OInv == TInv /\ (strays = 0 => fault = "none" /\ OneHandle /\ \A ino \in Inodes : Agree(ino))

LEMMA OrderlyInit == Init => OInv
  <1> SUFFICES ASSUME Init PROVE OInv
    OBVIOUS
  <1>1. TInv
    BY TypeInit
  <1>2. BlocksFor(0) = 0
    BY BlocksForFacts
  <1>3. OneHandle /\ \A ino \in Inodes : ~ Live(ino)
    BY DEF Init, OneHandle, Live
  <1>4. ASSUME NEW ino \in Inodes PROVE Agree(ino)
    BY <1>2, <1>3 DEF Init, Agree, Stored
  <1>5. QED  BY <1>1, <1>3, <1>4 DEF OInv, Init

\* The room a handler has in the buffer of a file that is open.
LEMMA LiveRoom ==
    ASSUME OInv, strays = 0, NEW ino \in Inodes, Live(ino)
    PROVE  /\ Room(ino) = st_blocks[ino] * BlockSize /\ Room(ino) \in Nat
           /\ st_size[ino] \in Nat /\ st_size[ino] <= Room(ino)
           /\ st_blocks[ino] = BlocksFor(st_size[ino]) /\ st_blocks[ino] \in Nat
  <1>1. /\ st_blocks[ino] = BlocksFor(st_size[ino])
        /\ m_buf[ino] # NoBuf => Len(m_buf[ino]) = st_blocks[ino] * BlockSize
        /\ m_buf[ino] = NoBuf => st_blocks[ino] = 0
    BY DEF OInv, Agree
  <1>2. st_size[ino] \in Nat /\ st_blocks[ino] \in Nat
    BY FileIOAssumption DEF OInv, TInv, TypeOK
  <1>3. st_blocks[ino] * BlockSize \in Nat /\ st_size[ino] <= st_blocks[ino] * BlockSize
    BY <1>1, <1>2, BlocksForFacts
  <1>4. st_blocks[ino] = 0 => st_blocks[ino] * BlockSize = 0
    BY BlockSizeType
  <1>5. QED  BY <1>1, <1>2, <1>3, <1>4 DEF Room

LEMMA UsableLive ==
    ASSUME TypeOK, NEW h \in Handles, Usable(h)
    PROVE  handle[h].ino \in Inodes /\ Live(handle[h].ino) /\ fault = "none"
  BY DEF TypeOK, Usable, Live

\* A handler that changes nothing of a file leaves it as it was.
LEMMA AgreeSame ==
    ASSUME NEW ino, Agree(ino), Live(ino)' <=> Live(ino),
           st_size'[ino] = st_size[ino], st_blocks'[ino] = st_blocks[ino],
           m_buf'[ino] = m_buf[ino], waiting'[ino] = waiting[ino],
           content'[ino] = content[ino]
    PROVE  Agree(ino)'
  BY DEF Agree, Stored

\* What an orderly open does to handles.
LEMMA OpenedAlone ==
    ASSUME OInv, strays = 0, NEW ino \in Inodes, NEW h \in Handles, NEW mode \in Modes,
           CanOpen(ino, h), Opened(ino, h, mode), Alone(ino)
    PROVE  /\ OneHandle' /\ Live(ino)' /\ ~ Live(ino)
           /\ \A i \in Inodes \ {ino} : Live(i)' <=> Live(i)
           /\ m_buf[ino] = NoBuf /\ ~ waiting[ino] /\ Stored(ino)
  <1>1. /\ handle[h] = NoHandle /\ OneHandle /\ Agree(ino)
        /\ \A g \in Handles : handle[g] = NoHandle \/ handle[g].ino # ino
    BY DEF OInv, CanOpen, Alone, OpenOn
  <1>2. /\ handle'[h] = [ino |-> ino, mode |-> mode, state |-> "open"]
        /\ \A g \in Handles \ {h} : handle'[g] = handle[g]
    BY DEF Opened, OInv, TInv, TypeOK
  <1>3. handle'[h] # NoHandle /\ handle'[h].ino = ino /\ handle'[h].state = "open"
    BY <1>2 DEF NoHandle
  <1>4. OneHandle'
    BY <1>1, <1>2, <1>3 DEF OneHandle, NoHandle
  <1>5. Live(ino)' /\ ~ Live(ino)
    BY <1>1, <1>3 DEF Live, NoHandle
  <1>6. ASSUME NEW i \in Inodes \ {ino} PROVE Live(i)' <=> Live(i)
    BY <1>1, <1>2, <1>3 DEF Live, NoHandle
  <1>7. QED  BY <1>1, <1>4, <1>5, <1>6 DEF Agree

LEMMA OrderlyErased ==
    ASSUME OInv, TInv', strays = 0, NEW ino \in Inodes, NEW h \in Handles, NEW mode \in Modes,
           FuseCreate(ino, h, mode) \/ FuseOpenErasing(ino, h, mode), Alone(ino)
    PROVE  fault' = "none" /\ OneHandle' /\ \A i \in Inodes : Agree(i)'
  <1>1. /\ CanOpen(ino, h) /\ Opened(ino, h, mode) /\ UNCHANGED <<content, fault>>
        /\ st_size'   = [st_size   EXCEPT ![ino] = 0]
        /\ st_blocks' = [st_blocks EXCEPT ![ino] = 0]
        /\ m_buf' = [m_buf EXCEPT ![ino] = NoBuf] \/ UNCHANGED m_buf
        /\ waiting' = [waiting EXCEPT ![ino] = FALSE] \/ UNCHANGED waiting
    BY DEF FuseCreate, FuseOpenErasing
  <1>2. /\ OneHandle' /\ m_buf[ino] = NoBuf /\ ~ waiting[ino]
        /\ \A i \in Inodes \ {ino} : Live(i)' <=> Live(i)
    BY <1>1, OpenedAlone
  <1>3. /\ st_size'[ino] = 0 /\ st_blocks'[ino] = 0
        /\ m_buf'[ino] = NoBuf /\ ~ waiting'[ino]
    BY <1>1, <1>2 DEF OInv, TInv, TypeOK
  <1>4. Agree(ino)'
    <2>1. BlocksFor(0) = 0
      BY BlocksForFacts
    <2>2. QED  BY <1>3, <2>1 DEF Agree, Stored
  <1>5. ASSUME NEW i \in Inodes \ {ino} PROVE Agree(i)'
    <2>1. /\ st_size'[i] = st_size[i] /\ st_blocks'[i] = st_blocks[i]
          /\ m_buf'[i] = m_buf[i] /\ waiting'[i] = waiting[i] /\ content'[i] = content[i]
      BY <1>1 DEF OInv, TInv, TypeOK
    <2>2. Agree(i)
      BY DEF OInv
    <2>3. QED  BY <1>2, <2>1, <2>2, AgreeSame
  <1>6. QED  BY <1>1, <1>2, <1>4, <1>5 DEF CanOpen

\* An orderly open for reading gets the blocks that were last stored.
LEMMA OrderlyLoading ==
    ASSUME OInv, TInv', strays = 0, NEW ino \in Inodes, NEW h \in Handles, NEW mode \in Modes,
           FuseOpenLoading(ino, h, mode), Alone(ino)
    PROVE  /\ fault' = "none" /\ OneHandle' /\ \A i \in Inodes : Agree(i)'
           /\ m_buf[ino] = NoBuf
           /\ m_buf' = [m_buf EXCEPT ![ino] = IF st_size[ino] = 0 THEN NoBuf
                                              ELSE ToBytes(content[ino])]
  <1> DEFINE n == BlocksFor(st_size[ino])
  <1>1. CanOpen(ino, h) /\ Opened(ino, h, mode) /\ UNCHANGED <<attrs, waiting, content, fault>>
    BY DEF FuseOpenLoading
  <1>2. /\ OneHandle' /\ m_buf[ino] = NoBuf /\ ~ waiting[ino] /\ Stored(ino) /\ Live(ino)'
        /\ \A i \in Inodes \ {ino} : Live(i)' <=> Live(i)
    BY <1>1, OpenedAlone
  <1>3. PICK blocks \in Store!Loadable(ino, n) :
          m_buf' = [m_buf EXCEPT ![ino] = IF st_size[ino] = 0 THEN NoBuf ELSE ToBytes(blocks)]
    BY DEF FuseOpenLoading
  <1>4. st_size[ino] \in Nat /\ n \in Nat /\ (n = 0 <=> st_size[ino] = 0)
    <2>1. st_size[ino] \in Nat
      BY FileIOAssumption DEF OInv, TInv, TypeOK
    <2>2. QED  BY <2>1, BlocksForFacts
  <1>5. st_size[ino] # 0 => blocks = content[ino]
    <2>1. st_size[ino] # 0 => n = Len(content[ino])
      BY <1>2, <1>4 DEF Stored
    <2>2. QED  BY <2>1 DEF Store!Loadable
  <1>6. m_buf' = [m_buf EXCEPT ![ino] = IF st_size[ino] = 0 THEN NoBuf ELSE ToBytes(content[ino])]
    BY <1>3, <1>5
  <1>7. m_buf'[ino] = IF st_size[ino] = 0 THEN NoBuf ELSE ToBytes(content[ino])
    BY <1>6 DEF OInv, TInv, TypeOK
  <1>8. Agree(ino)'
    <2>1. /\ st_blocks'[ino] = n /\ st_blocks[ino] = n /\ st_size' = st_size
          /\ waiting' = waiting /\ content' = content
      BY <1>1 DEF OInv, Agree, attrs
    <2>2. Stored(ino)'
      BY <1>2, <2>1 DEF Stored
    <2>3. CASE st_size[ino] = 0
      BY <1>2, <1>4, <1>7, <2>1, <2>2, <2>3 DEF Agree
    <2>4. CASE st_size[ino] # 0
      <3>1. Len(ToBytes(blocks)) = n * BlockSize
        BY <1>4, LoadedType DEF OInv, TInv
      <3>2. m_buf'[ino] = ToBytes(content[ino]) /\ Len(m_buf'[ino]) = n * BlockSize
        BY <1>5, <1>7, <2>4, <3>1
      <3> HIDE DEF n
      <3>3. BlocksFor(st_size'[ino]) = st_blocks'[ino]
        BY <2>1 DEF n
      <3>4. m_buf'[ino] # NoBuf
        <4>1. m_buf'[ino] \in Seq(Data)
          BY <1>4, <1>5, <2>4, <3>2, LoadedType DEF OInv, TInv, n
        <4>2. NoBuf \notin Seq(Data)
          BY NoBufNoData
        <4>3. QED  BY <4>1, <4>2
      <3>5. QED  BY <1>2, <2>1, <2>2, <3>2, <3>3, <3>4 DEF Agree
    <2>5. QED  BY <2>3, <2>4
  <1>9. ASSUME NEW i \in Inodes \ {ino} PROVE Agree(i)'
    <2>1. /\ st_size'[i] = st_size[i] /\ st_blocks'[i] = st_blocks[i]
          /\ m_buf'[i] = m_buf[i] /\ waiting'[i] = waiting[i] /\ content'[i] = content[i]
      BY <1>1, <1>6 DEF OInv, TInv, TypeOK, attrs
    <2>2. Agree(i)
      BY DEF OInv
    <2>3. QED  BY <1>2, <2>1, <2>2, AgreeSame
  <1>10. QED  BY <1>1, <1>2, <1>6, <1>8, <1>9 DEF CanOpen

LEMMA OrderlyWrite ==
    ASSUME OInv, TInv', strays = 0, NEW h \in Handles, NEW off \in 0 .. MaxSize,
           NEW n \in Nat \ {0}, NEW data \in [1 .. n -> Byte], FuseWrite(h, off, data),
           NEW ino, ino = handle[h].ino
    PROVE  /\ off + n > BlockSize * st_blocks[ino] \/ off + n <= Room(ino)
           /\ fault' = "none" /\ OneHandle' /\ \A i \in Inodes : Agree(i)'
  <1> DEFINE newBlocks == BlocksFor(off + n)
             grows     == off + n > BlockSize * st_blocks[ino]
             buf       == IF grows THEN Realloc(m_buf[ino], newBlocks * BlockSize)
                                   ELSE m_buf[ino]
  <1>1. ino \in Inodes /\ Live(ino) /\ Agree(ino) /\ fault = "none" /\ OneHandle
    BY UsableLive DEF OInv, TInv, FuseWrite
  <1>2. /\ Room(ino) = st_blocks[ino] * BlockSize /\ Room(ino) \in Nat
        /\ st_size[ino] \in Nat /\ st_size[ino] <= Room(ino)
        /\ st_blocks[ino] = BlocksFor(st_size[ino]) /\ st_blocks[ino] \in Nat
    BY <1>1, LiveRoom
  <1>3. off \in Nat /\ n \in Nat /\ n >= 1 /\ off + n \in Nat
    BY FileIOAssumption
  <1>4. BlockSize * st_blocks[ino] = st_blocks[ino] * BlockSize
    BY <1>2, BlockSizeType
  <1>5. grows <=> off + n > Room(ino)
    BY <1>2, <1>4
  <1>6. grows \/ off + n <= Room(ino)
    BY <1>2, <1>3, <1>5
  <1>7. grows = (off + n > BlockSize * st_blocks[ino])
    OBVIOUS
  <1> HIDE DEF newBlocks, grows, buf
  <1>8. /\ newBlocks \in Nat /\ buf \in Seq(Data) /\ off + n <= Len(buf)
        /\ Len(buf) = IF grows THEN newBlocks * BlockSize ELSE Room(ino)
        /\ m_buf' = [m_buf EXCEPT ![ino] = Copied(buf, off, data)]
        /\ waiting' = [waiting EXCEPT ![ino] = TRUE]
        /\ grows => st_blocks' = [st_blocks EXCEPT ![ino] = newBlocks]
        /\ ~ grows => UNCHANGED <<st_blocks, usedBlocks>>
        /\ st_size' = [st_size EXCEPT ![ino] = IF off + n > @ THEN off + n ELSE @]
        /\ UNCHANGED <<content, handle, fault>>
    BY <1>6, <1>7, WriteBuffer DEF OInv, TInv, newBlocks, buf
  <1>9. /\ st_size'[ino] = IF off + n > st_size[ino] THEN off + n ELSE st_size[ino]
        /\ m_buf'[ino] = Copied(buf, off, data) /\ waiting'[ino]
        /\ grows => st_blocks'[ino] = newBlocks
        /\ ~ grows => st_blocks'[ino] = st_blocks[ino]
    BY <1>1, <1>8 DEF OInv, TInv, TypeOK
  <1>10. Len(m_buf'[ino]) = Len(buf) /\ m_buf'[ino] \in Seq(Data)
    <2>1. data \in Seq(Byte)
      BY <1>3
    <2>2. Copied(buf, off, data) \in Seq(Data) /\ Len(Copied(buf, off, data)) = Len(buf)
      BY <1>3, <1>8, <2>1, CopiedFacts
    <2>3. QED  BY <1>9, <2>2
  <1>11. st_blocks'[ino] = BlocksFor(st_size'[ino]) /\ Len(buf) = st_blocks'[ino] * BlockSize
    <2>1. CASE grows
      <3>1. st_size'[ino] = off + n
        BY <1>2, <1>3, <1>5, <1>9, <2>1
      <3>2. QED  BY <1>8, <1>9, <2>1, <3>1 DEF newBlocks
    <2>2. CASE ~ grows
      <3>1. st_size'[ino] \in Nat /\ st_size[ino] <= st_size'[ino] /\ st_size'[ino] <= Room(ino)
        BY <1>2, <1>3, <1>5, <1>9, <2>2
      <3>2. BlocksFor(st_size'[ino]) = BlocksFor(st_size[ino])
        BY <1>2, <3>1, SameBlocks
      <3>3. QED  BY <1>2, <1>8, <1>9, <2>2, <3>2
    <2>3. QED  BY <2>1, <2>2
  <1>12. Agree(ino)'
    <2>1. Live(ino)'
      BY <1>1, <1>8 DEF Live
    <2>2. m_buf'[ino] # NoBuf
      BY <1>10, NoBufNoData
    <2>3. QED  BY <1>9, <1>10, <1>11, <2>1, <2>2 DEF Agree
  <1>13. ASSUME NEW i \in Inodes \ {ino} PROVE Agree(i)'
    <2>1. /\ st_size'[i] = st_size[i] /\ st_blocks'[i] = st_blocks[i]
          /\ m_buf'[i] = m_buf[i] /\ waiting'[i] = waiting[i] /\ content'[i] = content[i]
      BY <1>8 DEF OInv, TInv, TypeOK
    <2>2. Live(i)' <=> Live(i)
      BY <1>8 DEF Live
    <2>3. Agree(i)
      BY DEF OInv
    <2>4. QED  BY <2>1, <2>2, <2>3, AgreeSame
  <1>14. OneHandle' /\ fault' = "none"
    BY <1>1, <1>8 DEF OneHandle
  <1>15. QED  BY <1>6, <1>12, <1>13, <1>14 DEF grows

\* What the end of an orderly handle does to handles.
LEMMA NoLongerLive ==
    ASSUME OInv, strays = 0, NEW h \in Handles, handle[h] # NoHandle,
           NEW ino, ino = handle[h].ino,
           \/ handle' = [handle EXCEPT ![h].state = "closed"]
           \/ handle' = [handle EXCEPT ![h] = NoHandle]
    PROVE  /\ OneHandle' /\ ~ Live(ino)'
           /\ \A i \in Inodes \ {ino} : Live(i)' <=> Live(i)
  <1>1. OneHandle /\ handle[h] \in [ino : Inodes, mode : Modes, state : {"open", "closed"}]
    BY DEF OInv, TInv, TypeOK
  <1>2. \A g \in Handles \ {h} : handle'[g] = handle[g]
    BY DEF OInv, TInv, TypeOK
  <1>3. \/ handle'[h] = NoHandle
        \/ /\ handle'[h] # NoHandle /\ handle'[h].ino = ino
           /\ handle'[h].state = "closed"
    <2>1. CASE handle' = [handle EXCEPT ![h].state = "closed"]
      <3>1. handle'[h] = [handle[h] EXCEPT !.state = "closed"]
        BY <2>1 DEF OInv, TInv, TypeOK
      <3>2. QED  BY <1>1, <3>1 DEF NoHandle
    <2>2. CASE handle' = [handle EXCEPT ![h] = NoHandle]
      BY <2>2 DEF OInv, TInv, TypeOK
    <2>3. QED  BY <2>1, <2>2
  <1>4. OneHandle'
    BY <1>1, <1>2, <1>3 DEF OneHandle
  <1>5. ~ Live(ino)'
    <2>1. ASSUME NEW g \in Handles, handle'[g] # NoHandle,
                 handle'[g].ino = ino, handle'[g].state = "open"
          PROVE  FALSE
      BY <1>1, <1>2, <1>3, <2>1 DEF OneHandle
    <2>2. QED  BY <2>1 DEF Live
  <1>6. ASSUME NEW i \in Inodes \ {ino} PROVE Live(i)' <=> Live(i)
    BY <1>2, <1>3 DEF Live
  <1>7. QED  BY <1>4, <1>5, <1>6

\* The flush that ends an orderly handle writes a file that has been written to.
LEMMA OrderlyFlush ==
    ASSUME OInv, TInv', strays = 0, NEW h \in Handles, FuseFlush(h, FALSE),
           NEW ino, ino = handle[h].ino
    PROVE  /\ fault' = "none" /\ OneHandle' /\ \A i \in Inodes : Agree(i)'
           /\ ino \in Inodes /\ UNCHANGED attrs /\ last' = Other
           /\ m_buf' = [m_buf EXCEPT ![ino] = NoBuf]
           /\ waiting[ino] =>
                 /\ m_buf[ino] # NoBuf
                 /\ Len(m_buf[ino]) = BlocksFor(st_size[ino]) * BlockSize
                 /\ content' = [content EXCEPT ![ino] =
                                   ToBlocks(m_buf[ino], BlocksFor(st_size[ino]))]
           /\ ~ waiting[ino] => UNCHANGED content
  <1> DEFINE n == BlocksFor(st_size[ino])
  <1>1. /\ ino \in Inodes /\ Live(ino) /\ Agree(ino) /\ fault = "none" /\ OneHandle
        /\ handle[h] # NoHandle
    BY UsableLive DEF OInv, TInv, FuseFlush, Usable
  <1>2. /\ Room(ino) = st_blocks[ino] * BlockSize /\ Room(ino) \in Nat
        /\ st_blocks[ino] = n
    BY <1>1, LiveRoom
  <1>3. ~ (m_buf[ino] # NoBuf /\ waiting[ino] /\ n * BlockSize > Room(ino))
    <2> HIDE DEF n
    <2>1. QED  BY <1>2
  <1>4. waiting[ino] \in BOOLEAN /\ (waiting[ino] => m_buf[ino] # NoBuf)
    BY <1>1 DEF Agree, OInv, TInv, TypeOK
  <1>5. /\ handle' = [handle EXCEPT ![h].state = "closed"]
        /\ IF m_buf[ino] # NoBuf /\ waiting[ino]
             THEN Store!Store(ino, ToBlocks(m_buf[ino], n))
             ELSE UNCHANGED content
        /\ waiting' = [waiting EXCEPT ![ino] = @ /\ m_buf[ino] = NoBuf]
        /\ m_buf' = [m_buf EXCEPT ![ino] = NoBuf]
        /\ last' = Other
        /\ UNCHANGED <<attrs, fault>>
    BY <1>3 DEF FuseFlush
  <1>6. /\ OneHandle' /\ ~ Live(ino)'
        /\ \A i \in Inodes \ {ino} : Live(i)' <=> Live(i)
    BY <1>1, <1>5, NoLongerLive
  <1>7. waiting[ino] => content' = [content EXCEPT ![ino] = ToBlocks(m_buf[ino], n)]
    BY <1>4, <1>5 DEF Store!Store
  <1>8. ~ waiting[ino] => UNCHANGED content
    BY <1>5
  <1>9. ~ waiting'[ino] /\ m_buf'[ino] = NoBuf
    <2>1. waiting'[ino] = (waiting[ino] /\ m_buf[ino] = NoBuf)
      BY <1>1, <1>5 DEF OInv, TInv, TypeOK
    <2>2. QED  BY <1>1, <1>4, <1>5, <2>1 DEF OInv, TInv, TypeOK
  <1>10. Stored(ino)'
    <2>1. CASE waiting[ino]
      <3>1. n \in Nat
        <4>1. st_size[ino] \in Nat
          BY <1>1, LiveRoom
        <4>2. QED  BY <4>1, BlocksForFacts
      <3>2. content'[ino] = ToBlocks(m_buf[ino], n)
        BY <1>1, <1>7, <2>1 DEF OInv, TInv, TypeOK
      <3> HIDE DEF n
      <3>3. Len(ToBlocks(m_buf[ino], n)) = n
        BY <3>1 DEF ToBlocks
      <3>4. st_size' = st_size
        BY <1>5 DEF attrs
      <3>5. QED  BY <3>2, <3>3, <3>4 DEF Stored, n
    <2>2. CASE ~ waiting[ino]
      BY <1>1, <1>5, <1>8, <2>2 DEF Agree, Stored, attrs
    <2>3. QED  BY <2>1, <2>2
  <1>11. Agree(ino)'
    <2>1. st_blocks'[ino] = BlocksFor(st_size'[ino])
      BY <1>2, <1>5 DEF attrs
    <2>2. QED  BY <1>6, <1>9, <1>10, <2>1 DEF Agree
  <1>12. ASSUME NEW i \in Inodes \ {ino} PROVE Agree(i)'
    <2>1. /\ st_size'[i] = st_size[i] /\ st_blocks'[i] = st_blocks[i]
          /\ m_buf'[i] = m_buf[i] /\ waiting'[i] = waiting[i]
      BY <1>5 DEF OInv, TInv, TypeOK, attrs
    <2>2. content'[i] = content[i]
      <3>1. CASE waiting[ino]
        BY <1>7, <3>1 DEF OInv, TInv, TypeOK
      <3>2. CASE ~ waiting[ino]
        BY <1>8, <3>2
      <3>3. QED  BY <3>1, <3>2
    <2>3. Agree(i)
      BY DEF OInv
    <2>4. QED  BY <1>6, <2>1, <2>2, <2>3, AgreeSame
  <1>13. waiting[ino] => Len(m_buf[ino]) = n * BlockSize
    BY <1>1, <1>4 DEF Agree
  <1>14. QED  BY <1>1, <1>4, <1>5, <1>6, <1>7, <1>8, <1>11, <1>12, <1>13

\* What follows a flush finds nothing left in the buffer.
LEMMA OrderlyRelease ==
    ASSUME OInv, TInv', strays = 0, NEW h \in Handles, FuseRelease(h)
    PROVE  /\ fault' = "none" /\ OneHandle' /\ \A i \in Inodes : Agree(i)'
           /\ UNCHANGED m_buf
  <1>1. PICK ino \in Inodes : ino = handle[h].ino
    BY DEF OInv, TInv, TypeOK, FuseRelease
  <1>2. /\ fault = "none" /\ handle[h] # NoHandle /\ handle[h].state = "closed"
        /\ handle' = [handle EXCEPT ![h] = NoHandle]
        /\ m_buf' = [m_buf EXCEPT ![ino] = NoBuf]
        /\ UNCHANGED <<attrs, waiting, content, fault>>
    BY <1>1 DEF FuseRelease
  <1>3. OneHandle /\ Agree(ino)
    BY DEF OInv
  <1>4. ~ Live(ino)
    BY <1>1, <1>2, <1>3 DEF Live, OneHandle
  <1>5. UNCHANGED m_buf
    BY <1>2, <1>3, <1>4 DEF Agree, OInv, TInv, TypeOK
  <1>6. OneHandle' /\ ~ Live(ino)' /\ \A i \in Inodes \ {ino} : Live(i)' <=> Live(i)
    BY <1>1, <1>2, NoLongerLive
  <1>7. ASSUME NEW i \in Inodes PROVE Agree(i)'
    <2>1. Live(i)' <=> Live(i)
      BY <1>4, <1>6
    <2>2. Agree(i)
      BY DEF OInv
    <2>3. QED  BY <1>2, <1>5, <2>1, <2>2, AgreeSame DEF attrs
  <1>8. QED  BY <1>2, <1>5, <1>6, <1>7

\* An orderly read finds its bytes in the buffer.
LEMMA OrderlyRead ==
    ASSUME OInv, strays = 0, NEW h \in Handles, NEW off \in 0 .. MaxSize,
           NEW n \in 1 .. MaxSize, FuseRead(h, off, n),
           NEW ino, ino = handle[h].ino, off <= st_size[ino],
           NEW end, end = IF off + n > st_size[ino] THEN st_size[ino] ELSE off + n
    PROVE  /\ ino \in Inodes /\ end <= Room(ino) /\ end \in Nat /\ st_size[ino] \in Nat
           /\ st_size[ino] <= Room(ino)
           /\ last' = [op |-> "read", ino |-> ino, off |-> off, size |-> n,
                       data |-> IF off < end THEN SubSeq(m_buf[ino], off + 1, end) ELSE <<>>]
           /\ UNCHANGED <<attrs, m_buf, waiting, content, handle, fault>>
  <1>1. ino \in Inodes /\ Live(ino)
    BY UsableLive DEF OInv, TInv, FuseRead
  <1>2. Room(ino) \in Nat /\ st_size[ino] \in Nat /\ st_size[ino] <= Room(ino)
    BY <1>1, LiveRoom
  <1>3. off \in Nat /\ n \in Nat
    BY FileIOAssumption
  <1>4. end \in Nat /\ end <= Room(ino)
    BY <1>2, <1>3
  <1>5. ~ (off > st_size[ino] \/ end > Room(ino))
    BY <1>2, <1>3, <1>4
  <1>6. /\ last' = [op |-> "read", ino |-> ino, off |-> off, size |-> n,
                    data |-> IF off < end THEN SubSeq(m_buf[ino], off + 1, end) ELSE <<>>]
        /\ UNCHANGED <<attrs, m_buf, waiting, content, handle, fault>>
    BY <1>5 DEF FuseRead
  <1>7. QED  BY <1>1, <1>2, <1>4, <1>6

LEMMA OrderlySame ==
    ASSUME OInv, TInv', strays = 0,
           UNCHANGED <<attrs, m_buf, waiting, content, handle, fault>>
    PROVE  fault' = "none" /\ OneHandle' /\ \A i \in Inodes : Agree(i)'
  <1>1. \A i \in Inodes : (Live(i)' <=> Live(i)) /\ Agree(i)
    BY DEF OInv, Live
  <1>2. \A i \in Inodes : Agree(i)'
    BY <1>1, AgreeSame DEF attrs
  <1>3. QED  BY <1>2 DEF OInv, OneHandle

LEMMA OrderlyStep == OInv /\ [Next]_vars => OInv'
  <1> SUFFICES ASSUME OInv, [Next]_vars, strays' = 0
               PROVE  fault' = "none" /\ OneHandle' /\ \A i \in Inodes : Agree(i)'
    BY TypeStep DEF OInv
  <1>0. TInv' /\ TypeOK
    BY TypeStep DEF OInv, TInv
  <1>1. CASE UNCHANGED vars
    <2>1. UNCHANGED <<attrs, m_buf, waiting, content, handle, fault>> /\ strays = 0
      BY <1>1 DEF vars
    <2>2. QED  BY <1>0, <2>1, OrderlySame
  <1>2. CASE Request
    <2>1. ASSUME NEW ino \in Inodes, NEW h \in Handles, NEW mode \in Modes,
                 \/ FuseCreate(ino, h, mode) \/ FuseOpenErasing(ino, h, mode)
                 \/ FuseOpenLoading(ino, h, mode)
          PROVE  fault' = "none" /\ OneHandle' /\ \A i \in Inodes : Agree(i)'
      <3>1. Keeps(Alone(ino))
        BY <2>1 DEF FuseCreate, FuseOpenErasing, FuseOpenLoading
      <3>2. strays = 0 /\ Alone(ino)
        BY <1>0, <3>1, KeepsType
      <3>3. QED  BY <1>0, <2>1, <3>2, OrderlyErased, OrderlyLoading
    <2>2. ASSUME NEW h \in Handles, NEW off \in 0 .. MaxSize, NEW n \in 1 .. MaxSize,
                 FuseRead(h, off, n)
          PROVE  fault' = "none" /\ OneHandle' /\ \A i \in Inodes : Agree(i)'
      <3>1. Keeps(off <= st_size[handle[h].ino])
        BY <2>2 DEF FuseRead
      <3>2. strays = 0 /\ off <= st_size[handle[h].ino]
        BY <1>0, <3>1 DEF Keeps, TypeOK
      <3>3. UNCHANGED <<attrs, m_buf, waiting, content, handle, fault>>
        BY <2>2, <3>2, OrderlyRead
      <3>4. QED  BY <1>0, <3>2, <3>3, OrderlySame
    <2>3. ASSUME NEW h \in Handles, NEW off \in 0 .. MaxSize, NEW n \in Nat \ {0},
                 NEW data \in [1 .. n -> Byte], FuseWrite(h, off, data)
          PROVE  fault' = "none" /\ OneHandle' /\ \A i \in Inodes : Agree(i)'
      <3>1. Keeps(TRUE)
        BY <2>3 DEF FuseWrite
      <3>2. strays = 0
        BY <1>0, <3>1, KeepsType
      <3>3. QED  BY <1>0, <2>3, <3>2, OrderlyWrite
    <2>4. ASSUME NEW h \in Handles, NEW keep \in BOOLEAN, FuseFlush(h, keep)
          PROVE  fault' = "none" /\ OneHandle' /\ \A i \in Inodes : Agree(i)'
      <3>1. Keeps(~ keep)
        BY <2>4 DEF FuseFlush
      <3>2. strays = 0 /\ keep = FALSE
        BY <1>0, <3>1, KeepsType
      <3>3. QED  BY <1>0, <2>4, <3>2, OrderlyFlush
    <2>5. ASSUME NEW h \in Handles, FuseRelease(h)
          PROVE  fault' = "none" /\ OneHandle' /\ \A i \in Inodes : Agree(i)'
      <3>1. Keeps(TRUE)
        BY <2>5 DEF FuseRelease
      <3>2. strays = 0
        BY <1>0, <3>1, KeepsType
      <3>3. QED  BY <1>0, <2>5, <3>2, OrderlyRelease
    <2>6. ASSUME NEW ino \in Inodes, NEW size \in 0 .. MaxSize, FuseSetAttr(ino, size)
          PROVE  FALSE
      <3>1. Keeps(FALSE)
        BY <2>6 DEF FuseSetAttr
      <3>2. QED  BY <1>0, <3>1, KeepsType
    <2>7. QED  BY <1>2, <2>1, <2>2, <2>3, <2>4, <2>5, <2>6, RequestCases
  <1>3. QED  BY <1>1, <1>2 DEF Next

\* In orderly use no handler touches a byte that its file's buffer does not have,
\* though writes go by st_blocks, and reads and flushes by st_size.
THEOREM StaysInBufferSafety == Spec => []StaysInBuffer
  <1>1. OInv => StaysInBuffer
    BY DEF OInv, StaysInBuffer
  <1>2. QED  BY OrderlyInit, OrderlyStep, <1>1, PTL DEF Spec

\* In orderly use a file that nobody has open has been written back: nothing waits,
\* no buffer is left, and the store holds the blocks of its size.
THEOREM ClosedIsStoredSafety == Spec => []ClosedIsStored
  <1>1. OInv => ClosedIsStored
    <2> SUFFICES ASSUME OInv, NEW ino \in Inodes, strays = 0, OpenOn(ino) = {}
                 PROVE  /\ ~waiting[ino] /\ m_buf[ino] = NoBuf
                        /\ st_size[ino] > 0 => Len(content[ino]) = BlocksFor(st_size[ino])
      BY DEF ClosedIsStored
    <2>1. ~ Live(ino)
      BY DEF Live, OpenOn
    <2>2. Agree(ino)
      BY DEF OInv
    <2>3. QED  BY <2>1, <2>2 DEF Agree, Stored
  <1>2. QED  BY OrderlyInit, OrderlyStep, <1>1, PTL DEF Spec

-----------------------------------------------------------------------------
(* The refinement: orderly requests are those of FileContents.             *)

\* What the next open, or the buffer, shows of a file.
Shown(ino) == IF m_buf[ino] # NoBuf THEN m_buf[ino] ELSE ToBytes(content[ino])

LEMMA ContentsAt ==
    ASSUME TypeOK, NEW ino \in Inodes
    PROVE  /\ Contents[ino] = [i \in 1 .. st_size[ino] |->
                                  IF i <= Len(Shown(ino)) THEN Shown(ino)[i] ELSE Junk]
           /\ Shown(ino) \in Seq(Data)
           /\ Contents[ino] \in Seq(Data) /\ Len(Contents[ino]) = st_size[ino]
  <1>1. st_size[ino] \in Nat
    BY FileIOAssumption DEF TypeOK
  <1>2. Shown(ino) \in Seq(Data)
    <2>1. CASE m_buf[ino] # NoBuf
      BY <2>1 DEF Shown, TypeOK, Data
    <2>2. CASE m_buf[ino] = NoBuf
      <3>1. content[ino] \in Seq(Block)
        BY DEF TypeOK
      <3>2. Len(content[ino]) \in Nat
            /\ content[ino] \in [1 .. Len(content[ino]) -> Block \cup {Junk}]
        BY <3>1
      <3>3. ToBytes(content[ino]) \in Seq(Data)
        BY <3>2, ToBytesType
      <3>4. QED  BY <2>2, <3>3 DEF Shown
    <2>3. QED  BY <2>1, <2>2
  <1>3. Contents[ino] = [i \in 1 .. st_size[ino] |->
                            IF i <= Len(Shown(ino)) THEN Shown(ino)[i] ELSE Junk]
    BY DEF Contents, Shown
  <1> DEFINE shown == Shown(ino)
             size  == st_size[ino]
  <1> HIDE DEF shown, size
  <1>4. [i \in 1 .. size |-> IF i <= Len(shown) THEN shown[i] ELSE Junk] \in [1 .. size -> Data]
    <2>1. shown \in Seq(Data) /\ size \in Nat
      BY <1>1, <1>2 DEF shown, size
    <2>2. ASSUME NEW i \in 1 .. size PROVE (IF i <= Len(shown) THEN shown[i] ELSE Junk) \in Data
      BY <2>1, <2>2 DEF Data
    <2>3. QED  BY <2>2
  <1>5. Contents[ino] \in [1 .. st_size[ino] -> Data]
    BY <1>3, <1>4 DEF shown, size
  <1>6. Contents[ino] \in Seq(Data) /\ Len(Contents[ino]) = st_size[ino]
    BY <1>1, <1>5
  <1>7. QED  BY <1>2, <1>3, <1>6

LEMMA ContentsSame ==
    ASSUME NEW ino \in Inodes, st_size'[ino] = st_size[ino], m_buf'[ino] = m_buf[ino],
           content'[ino] = content[ino]
    PROVE  Contents'[ino] = Contents[ino]
  BY DEF Contents

\* A handler that shows the same bytes of every file.
LEMMA OtherStep ==
    ASSUME last' = Other, \A i \in Inodes : Contents'[i] = Contents[i]
    PROVE  File!Next
  <1>1. Contents' = Contents
    <2>1. Contents = [i \in Inodes |-> Contents[i]] /\ Contents' = [i \in Inodes |-> Contents'[i]]
      BY DEF Contents
    <2> DEFINE c == Contents
               d == Contents'
    <2>2. c = [i \in Inodes |-> c[i]] /\ d = [i \in Inodes |-> d[i]]
          /\ \A i \in Inodes : d[i] = c[i]
      BY <2>1
    <2> HIDE DEF c, d
    <2>3. d = c
      BY <2>2
    <2>4. QED  BY <2>3 DEF c, d
  <1>2. last' \in File!Requests /\ last'.op = "other"
    BY DEF Other, File!Requests
  <1>3. QED  BY <1>1, <1>2 DEF File!Next, File!Other

LEMMA EraseRefines ==
    ASSUME TypeOK, TypeOK', NEW ino \in Inodes, last' = [op |-> "erase", ino |-> ino],
           st_size' = [st_size EXCEPT ![ino] = 0],
           \A i \in Inodes \ {ino} : m_buf'[i] = m_buf[i] /\ content'[i] = content[i]
    PROVE  File!Next
  <1>1. last' \in File!Requests /\ last'.op = "erase" /\ last'.ino = ino
    BY DEF File!Requests
  <1>2. Contents'[ino] = <<>>
    <2>1. st_size'[ino] = 0
      BY DEF TypeOK
    <2>2. Contents'[ino] = [i \in 1 .. st_size'[ino] |->
                               IF i <= Len(Shown(ino)') THEN Shown(ino)'[i] ELSE Junk]
      BY DEF Contents, Shown
    <2>3. QED  BY <2>1, <2>2
  <1>3. \A i \in Inodes \ {ino} : Contents'[i] = Contents[i]
    BY ContentsSame DEF TypeOK
  <1>4. DOMAIN Contents = Inodes /\ DOMAIN Contents' = Inodes
    BY DEF Contents
  <1>5. Contents' = [Contents EXCEPT ![ino] = <<>>]
    <2>1. /\ Contents = [i \in Inodes |-> Contents[i]]
          /\ Contents' = [i \in Inodes |-> Contents'[i]]
      BY DEF Contents
    <2> DEFINE c == Contents
               d == Contents'
    <2>2. /\ c = [i \in Inodes |-> c[i]] /\ d = [i \in Inodes |-> d[i]]
          /\ d[ino] = <<>> /\ \A i \in Inodes \ {ino} : d[i] = c[i]
      BY <1>2, <1>3, <2>1
    <2> HIDE DEF c, d
    <2>3. d = [c EXCEPT ![ino] = <<>>]
      BY <2>2
    <2>4. QED  BY <2>3 DEF c, d
  <1>6. QED  BY <1>1, <1>5 DEF File!Next, File!Erase

LEMMA WriteRefines ==
    ASSUME OInv, TypeOK', strays = 0, NEW h \in Handles, NEW off \in 0 .. MaxSize,
           NEW n \in Nat \ {0}, NEW data \in [1 .. n -> Byte], FuseWrite(h, off, data),
           NEW ino, ino = handle[h].ino,
           off + n > BlockSize * st_blocks[ino] \/ off + n <= Room(ino)
    PROVE  File!Next
  <1> DEFINE newBlocks == BlocksFor(off + n)
             grows     == off + n > BlockSize * st_blocks[ino]
             buf       == IF grows THEN Realloc(m_buf[ino], newBlocks * BlockSize)
                                   ELSE m_buf[ino]
             size      == IF off + n > st_size[ino] THEN off + n ELSE st_size[ino]
             old       == Contents[ino]
             new       == Contents'[ino]
  <1>1. ino \in Inodes /\ Live(ino) /\ TypeOK
    BY UsableLive DEF OInv, TInv, FuseWrite
  <1>2. /\ Room(ino) = st_blocks[ino] * BlockSize /\ Room(ino) \in Nat
        /\ st_size[ino] \in Nat /\ st_size[ino] <= Room(ino)
        /\ st_blocks[ino] \in Nat
    BY <1>1, LiveRoom
  <1>3. off \in Nat /\ n \in Nat /\ n >= 1 /\ off + n \in Nat /\ data \in Seq(Byte) /\ Len(data) = n
    BY FileIOAssumption
  <1>4. grows <=> off + n > Room(ino)
    <2>1. BlockSize * st_blocks[ino] = st_blocks[ino] * BlockSize
      BY <1>2, BlockSizeType
    <2>2. QED  BY <1>2, <2>1
  <1>5. grows = (off + n > BlockSize * st_blocks[ino]) /\ (grows \/ off + n <= Room(ino))
    OBVIOUS
  <1> HIDE DEF newBlocks, grows, buf
  <1>6. /\ buf \in Seq(Data) /\ off + n <= Len(buf)
        /\ Len(buf) = IF grows THEN newBlocks * BlockSize ELSE Room(ino)
        /\ m_buf[ino] # NoBuf => /\ m_buf[ino] \in Seq(Data)
                                 /\ Room(ino) = Len(m_buf[ino])
                                 /\ \A i \in 1 .. Len(buf) :
                                       i <= Room(ino) => buf[i] = m_buf[ino][i]
        /\ m_buf' = [m_buf EXCEPT ![ino] = Copied(buf, off, data)]
        /\ st_size' = [st_size EXCEPT ![ino] = IF off + n > @ THEN off + n ELSE @]
        /\ last' = [op |-> "write", ino |-> ino, off |-> off, data |-> data]
        /\ UNCHANGED <<content, handle, fault>>
    BY <1>1, <1>5, WriteBuffer DEF newBlocks, buf
  <1>7. /\ m_buf'[ino] = Copied(buf, off, data) /\ st_size'[ino] = size
        /\ \A i \in Inodes \ {ino} : m_buf'[i] = m_buf[i] /\ st_size'[i] = st_size[i]
    BY <1>1, <1>6 DEF TypeOK
  <1>8. /\ size \in Nat /\ st_size[ino] <= size /\ off + n <= size
        /\ size <= Len(buf) /\ Len(buf) \in Nat /\ Room(ino) <= Len(buf)
    BY <1>2, <1>3, <1>4, <1>6
  <1>9. /\ Copied(buf, off, data) \in Seq(Data) /\ Len(Copied(buf, off, data)) = Len(buf)
        /\ \A i \in 1 .. Len(buf) :
              Copied(buf, off, data)[i] =
                  IF i > off /\ i <= off + n THEN data[i - off] ELSE buf[i]
    <2>1. /\ Copied(buf, off, data) \in Seq(Data) /\ Len(Copied(buf, off, data)) = Len(buf)
          /\ \A i \in 1 .. Len(buf) :
                Copied(buf, off, data)[i] =
                    IF i > off /\ i <= off + Len(data) THEN data[i - off] ELSE buf[i]
      <3>1. buf \in Seq(Data) /\ off \in Nat /\ data \in Seq(Byte)
        BY <1>3, <1>6
      <3>2. Copied(buf, off, data) \in Seq(Data) /\ Len(Copied(buf, off, data)) = Len(buf)
        BY <3>1, CopiedFacts
      <3>3. \A i \in 1 .. Len(buf) :
                Copied(buf, off, data)[i] =
                    IF i > off /\ i <= off + Len(data) THEN data[i - off] ELSE buf[i]
        BY <3>1, CopiedFacts, Zenon
      <3>4. QED  BY <3>2, <3>3
    <2>2. QED  BY <1>3, <2>1
  <1>10. m_buf'[ino] # NoBuf
    BY <1>7, <1>9, NoBufNoData
  <1>11. /\ new = [i \in 1 .. size |->
                      IF i <= Len(m_buf'[ino]) THEN m_buf'[ino][i] ELSE Junk]
    BY <1>1, <1>7, <1>10 DEF Contents
  <1>12. /\ old = [i \in 1 .. st_size[ino] |->
                      IF i <= Len(Shown(ino)) THEN Shown(ino)[i] ELSE Junk]
         /\ old \in Seq(Data) /\ Len(old) = st_size[ino]
    BY <1>1, ContentsAt
  <1>13. m_buf[ino] = NoBuf => st_size[ino] = 0
    <2>1. ASSUME m_buf[ino] = NoBuf PROVE st_size[ino] = 0
      <3>1. Room(ino) = 0
        BY <2>1 DEF Room
      <3>2. QED  BY <1>2, <3>1
    <2>2. QED  BY <2>1
  <1> HIDE DEF size, old, new
  <1>14. ASSUME NEW i \in 1 .. size
         PROVE  /\ new[i] = IF i > off /\ i <= off + n THEN data[i - off] ELSE buf[i]
                /\ new[i] \in Data
    <2>1. i \in 1 .. Len(buf)
      BY <1>8
    <2>2. new[i] = Copied(buf, off, data)[i]
      BY <1>7, <1>9, <1>11, <2>1
    <2>3. QED  BY <1>9, <2>1, <2>2
  <1>15. ASSUME NEW i \in 1 .. st_size[ino] PROVE buf[i] = old[i]
    <2>1. m_buf[ino] # NoBuf /\ i <= Room(ino) /\ i \in 1 .. Len(buf)
      BY <1>2, <1>8, <1>13
    <2>2. buf[i] = m_buf[ino][i] /\ Room(ino) = Len(m_buf[ino])
      BY <1>6, <2>1
    <2>3. old[i] = m_buf[ino][i]
      BY <1>12, <2>1, <2>2 DEF Shown
    <2>4. QED  BY <2>2, <2>3
  <1>16. new \in Seq(Data) /\ Len(new) = size
    <2>1. new = [i \in 1 .. size |-> new[i]]
      BY <1>11
    <2>2. new \in [1 .. size -> Data]
      BY <1>14, <2>1
    <2>3. QED  BY <1>8, <2>2
  <1>17. File!Overlays(new, old, off, data)
    <2>1. size = File!Max(Len(old), off + Len(data))
      BY <1>2, <1>3, <1>12 DEF size, File!Max
    <2>2. ASSUME NEW i \in 1 .. Len(new)
          PROVE  IF i > off /\ i <= off + Len(data) THEN new[i] = data[i - off]
                                                    ELSE i <= Len(old) => new[i] = old[i]
      <3>1. i \in 1 .. size /\ i \in Nat
        BY <1>16
      <3>2. CASE i > off /\ i <= off + n
        BY <1>3, <1>14, <3>1, <3>2
      <3>3. CASE ~ (i > off /\ i <= off + n)
        <4>1. new[i] = buf[i]
          BY <1>14, <3>1, <3>3
        <4>2. i <= Len(old) => buf[i] = old[i]
          <5>1. Len(old) = st_size[ino]
            BY <1>12
          <5>2. i <= st_size[ino] => i \in 1 .. st_size[ino]
            BY <1>2, <3>1
          <5>3. QED  BY <1>15, <5>1, <5>2
        <4>3. QED  BY <1>3, <3>3, <4>1, <4>2
      <3>4. QED  BY <3>2, <3>3
    <2>3. QED  BY <1>16, <2>1, <2>2 DEF File!Overlays, Data
  <1>18. \A i \in Inodes \ {ino} : Contents'[i] = Contents[i]
    BY <1>6, <1>7, ContentsSame
  <1>19. Contents' = [Contents EXCEPT ![ino] = Contents'[ino]]
    <2>1. /\ Contents = [i \in Inodes |-> Contents[i]]
          /\ Contents' = [i \in Inodes |-> Contents'[i]]
      BY DEF Contents
    <2> DEFINE c == Contents
               d == Contents'
    <2>2. /\ c = [i \in Inodes |-> c[i]] /\ d = [i \in Inodes |-> d[i]]
          /\ \A i \in Inodes \ {ino} : d[i] = c[i]
      BY <1>18, <2>1
    <2> HIDE DEF c, d
    <2>3. d = [c EXCEPT ![ino] = d[ino]]
      BY <2>2
    <2>4. QED  BY <2>3 DEF c, d
  <1>20. /\ last' \in File!Requests /\ last'.op = "write" /\ last'.ino = ino
         /\ last'.off = off /\ last'.data = data
    BY <1>1, <1>3, <1>6 DEF File!Requests
  <1>21. QED
    BY <1>17, <1>19, <1>20 DEF File!Next, File!Write, old, new

LEMMA ReadRefines ==
    ASSUME OInv, strays = 0, NEW h \in Handles, NEW off \in 0 .. MaxSize,
           NEW n \in 1 .. MaxSize, FuseRead(h, off, n), off <= st_size[handle[h].ino]
    PROVE  File!Next
  <1>1. PICK ino : ino = handle[h].ino
    OBVIOUS
  <1> DEFINE size == st_size[ino]
             end == IF off + n > size THEN size ELSE off + n
             old == Contents[ino]
  <1>2. /\ ino \in Inodes /\ end <= Room(ino) /\ end \in Nat /\ size \in Nat
        /\ size <= Room(ino)
        /\ last' = [op |-> "read", ino |-> ino, off |-> off, size |-> n,
                    data |-> IF off < end THEN SubSeq(m_buf[ino], off + 1, end) ELSE <<>>]
        /\ UNCHANGED <<attrs, m_buf, waiting, content, handle, fault>>
    BY <1>1, OrderlyRead
  <1>3. off \in Nat /\ n \in Nat /\ off <= size
    BY <1>1, FileIOAssumption
  <1>4. /\ old = [i \in 1 .. size |-> IF i <= Len(Shown(ino)) THEN Shown(ino)[i] ELSE Junk]
        /\ old \in Seq(Data) /\ Len(old) = size
    BY <1>2, ContentsAt DEF OInv, TInv
  <1>5. end = File!Min(off + n, Len(old)) /\ end <= size /\ end <= off + n
    BY <1>2, <1>3, <1>4 DEF File!Min
  <1> HIDE DEF end, size, old
  <1>6. SubSeq(old, off + 1, end) = IF off < end THEN SubSeq(m_buf[ino], off + 1, end) ELSE <<>>
    <2>1. CASE off < end
      <3>1. m_buf[ino] # NoBuf /\ m_buf[ino] \in Seq(Data) /\ Room(ino) = Len(m_buf[ino])
        BY <1>2, <1>3, <2>1 DEF Room, OInv, TInv, TypeOK, Data
      <3>2. \A i \in 1 .. size : old[i] = m_buf[ino][i]
        BY <1>2, <1>4, <3>1 DEF Shown
      <3> DEFINE buf == m_buf[ino]
      <3>3. /\ buf \in Seq(Data) /\ end <= Len(buf) /\ Len(buf) \in Nat
            /\ \A i \in 1 .. size : old[i] = buf[i]
        BY <1>2, <3>1, <3>2
      <3> HIDE DEF buf
      <3>4. \A i \in 1 .. end - (off + 1) + 1 : old[off + 1 + i - 1] = buf[off + 1 + i - 1]
        BY <1>2, <1>3, <1>5, <3>3
      <3>5. SubSeq(old, off + 1, end) = SubSeq(buf, off + 1, end)
        BY <1>2, <1>3, <1>4, <1>5, <3>3, <3>4
      <3>6. QED  BY <2>1, <3>5 DEF buf
    <2>2. CASE ~ (off < end)
      BY <1>2, <1>3, <1>4, <2>2
    <2>3. QED  BY <2>1, <2>2
  <1>7. SubSeq(old, off + 1, end) \in Seq(Data)
    BY <1>2, <1>3, <1>4, <1>5
  <1>8. /\ last' \in File!Requests /\ last'.op = "read" /\ last'.ino = ino
        /\ last'.off = off /\ last'.size = n /\ last'.data = SubSeq(old, off + 1, end)
    BY <1>2, <1>3, <1>6, <1>7 DEF File!Requests, Data
  <1>9. UNCHANGED Contents
    BY <1>2 DEF Contents, attrs
  <1>10. QED  BY <1>5, <1>8, <1>9 DEF File!Next, File!Read, old

\* The bytes a file shows survive the flush that stores them, in blocks, and the
\* freeing of the buffer.
LEMMA FlushRefines ==
    ASSUME OInv, TInv', strays = 0, NEW h \in Handles, FuseFlush(h, FALSE)
    PROVE  File!Next
  <1>1. PICK ino : ino = handle[h].ino
    OBVIOUS
  <1> DEFINE n    == BlocksFor(st_size[ino])
             buf  == m_buf[ino]
             size == st_size[ino]
  <1>2. /\ ino \in Inodes /\ UNCHANGED attrs /\ last' = Other
        /\ m_buf' = [m_buf EXCEPT ![ino] = NoBuf]
        /\ waiting[ino] => /\ buf # NoBuf /\ Len(buf) = n * BlockSize
                           /\ content' = [content EXCEPT ![ino] = ToBlocks(buf, n)]
        /\ ~ waiting[ino] => UNCHANGED content
    BY <1>1, OrderlyFlush
  <1>3. m_buf'[ino] = NoBuf /\ \A i \in Inodes \ {ino} : m_buf'[i] = m_buf[i]
    BY <1>2 DEF OInv, TInv, TypeOK
  <1>4. \A i \in Inodes \ {ino} : content'[i] = content[i]
    <2>1. CASE waiting[ino]
      BY <1>2, <2>1 DEF OInv, TInv, TypeOK
    <2>2. CASE ~ waiting[ino]
      BY <1>2, <2>2
    <2>3. QED  BY <2>1, <2>2
  <1>5. ASSUME NEW i \in Inodes \ {ino} PROVE Contents'[i] = Contents[i]
    <2>1. st_size'[i] = st_size[i] /\ m_buf'[i] = m_buf[i] /\ content'[i] = content[i]
      BY <1>2, <1>3, <1>4 DEF attrs
    <2>2. QED  BY <2>1, ContentsSame
  <1>6. /\ Contents[ino] = [i \in 1 .. size |->
              IF i <= Len(Shown(ino)) THEN Shown(ino)[i] ELSE Junk]
        /\ Contents'[ino] = [i \in 1 .. size |->
              IF i <= Len(ToBytes(content'[ino])) THEN ToBytes(content'[ino])[i] ELSE Junk]
    <2>1. st_size' = st_size
      BY <1>2 DEF attrs
    <2>2. QED  BY <1>2, <1>3, <2>1 DEF Contents, Shown
  <1>7. Contents'[ino] = Contents[ino]
    <2>1. CASE waiting[ino]
      <3>1. /\ size \in Nat /\ n \in Nat /\ n * BlockSize \in Nat /\ size <= n * BlockSize
        <4>1. size \in Nat
          BY <1>2, FileIOAssumption DEF OInv, TInv, TypeOK
        <4>2. QED  BY <4>1, BlocksForFacts
      <3>2. buf # NoBuf /\ buf \in Seq(Data) /\ Len(buf) = n * BlockSize /\ Shown(ino) = buf
        BY <1>2, <2>1 DEF OInv, TInv, TypeOK, Data, Shown
      <3>3. content'[ino] = ToBlocks(buf, n)
        BY <1>2, <2>1 DEF OInv, TInv, TypeOK
      <3> HIDE DEF n, buf, size
      <3>4. /\ Len(ToBytes(ToBlocks(buf, n))) = n * BlockSize
            /\ \A i \in 1 .. n * BlockSize : ToBytes(ToBlocks(buf, n))[i] = buf[i]
        BY <3>1, <3>2, BytesOfBlocks
      <3> DEFINE bytes == ToBytes(ToBlocks(buf, n))
                 room  == n * BlockSize
      <3>5. /\ Contents[ino] = [i \in 1 .. size |-> IF i <= Len(buf) THEN buf[i] ELSE Junk]
            /\ Contents'[ino] = [i \in 1 .. size |-> IF i <= Len(bytes) THEN bytes[i] ELSE Junk]
        BY <1>6, <3>2, <3>3
      <3>6. /\ Len(bytes) = room /\ Len(buf) = room /\ room \in Nat
            /\ size \in Nat /\ size <= room /\ \A i \in 1 .. room : bytes[i] = buf[i]
        BY <3>1, <3>2, <3>4
      <3> HIDE DEF bytes, room
      <3>7. \A i \in 1 .. size : (IF i <= Len(bytes) THEN bytes[i] ELSE Junk)
                                   = (IF i <= Len(buf) THEN buf[i] ELSE Junk)
        BY <3>6
      <3>8. QED  BY <3>5, <3>7
    <2>2. CASE ~ waiting[ino]
      <3>1. buf # NoBuf => buf = ToBytes(content[ino])
        BY <1>2, <2>2 DEF OInv, Agree
      <3>2. Shown(ino) = ToBytes(content[ino])
        BY <3>1 DEF Shown
      <3>3. content'[ino] = content[ino]
        BY <1>2, <2>2
      <3>4. QED  BY <1>6, <3>2, <3>3
    <2>3. QED  BY <2>1, <2>2
  <1>8. QED  BY <1>2, <1>5, <1>7, OtherStep

LEMMA LoadingRefines ==
    ASSUME OInv, TInv', strays = 0, NEW ino \in Inodes, NEW h \in Handles, NEW mode \in Modes,
           FuseOpenLoading(ino, h, mode), Alone(ino)
    PROVE  File!Next
  <1>1. /\ m_buf[ino] = NoBuf
        /\ m_buf' = [m_buf EXCEPT ![ino] = IF st_size[ino] = 0 THEN NoBuf
                                           ELSE ToBytes(content[ino])]
    BY OrderlyLoading
  <1>2. UNCHANGED <<attrs, content>> /\ last' = Other
    BY DEF FuseOpenLoading
  <1>3. /\ m_buf'[ino] = IF st_size[ino] = 0 THEN NoBuf ELSE ToBytes(content[ino])
        /\ \A i \in Inodes \ {ino} : m_buf'[i] = m_buf[i]
    BY <1>1 DEF OInv, TInv, TypeOK
  <1>4. ASSUME NEW i \in Inodes \ {ino} PROVE Contents'[i] = Contents[i]
    <2>1. st_size'[i] = st_size[i] /\ m_buf'[i] = m_buf[i] /\ content'[i] = content[i]
      BY <1>2, <1>3 DEF attrs
    <2>2. QED  BY <2>1, ContentsSame
  <1>5. Shown(ino)' = Shown(ino)
    <2>1. CASE st_size[ino] = 0
      BY <1>1, <1>2, <1>3, <2>1 DEF Shown
    <2>2. CASE st_size[ino] # 0
      BY <1>1, <1>2, <1>3, <2>2 DEF Shown
    <2>3. QED  BY <2>1, <2>2
  <1>6. Contents'[ino] = Contents[ino]
    <2>1. /\ Contents[ino] = [i \in 1 .. st_size[ino] |->
                IF i <= Len(Shown(ino)) THEN Shown(ino)[i] ELSE Junk]
          /\ Contents'[ino] = [i \in 1 .. st_size'[ino] |->
                IF i <= Len(Shown(ino)') THEN Shown(ino)'[i] ELSE Junk]
      BY DEF Contents, Shown
    <2>2. st_size' = st_size
      BY <1>2 DEF attrs
    <2>3. QED  BY <1>5, <2>1, <2>2
  <1>7. QED  BY <1>2, <1>4, <1>6, OtherStep

\* Every orderly step of the handlers is one of a client's file, or hidden from it.
LEMMA FileStep ==
    ASSUME OInv, [Next]_vars, strays' = 0
    PROVE  File!Next \/ UNCHANGED <<Contents, last>>
  <1>0. TInv' /\ TInv /\ TypeOK /\ TypeOK'
    BY TypeStep DEF OInv, TInv
  <1>1. CASE UNCHANGED vars
    BY <1>1 DEF vars, attrs, Contents
  <1>2. CASE Request
    <2>1. ASSUME NEW ino \in Inodes, NEW h \in Handles, NEW mode \in Modes,
                 \/ FuseCreate(ino, h, mode) \/ FuseOpenErasing(ino, h, mode)
                 \/ FuseOpenLoading(ino, h, mode)
          PROVE  File!Next
      <3>1. Keeps(Alone(ino))
        BY <2>1 DEF FuseCreate, FuseOpenErasing, FuseOpenLoading
      <3>2. strays = 0 /\ Alone(ino)
        BY <1>0, <3>1, KeepsType
      <3>3. CASE FuseCreate(ino, h, mode) \/ FuseOpenErasing(ino, h, mode)
        <4>1. /\ last' = [op |-> "erase", ino |-> ino]
              /\ st_size' = [st_size EXCEPT ![ino] = 0]
              /\ \A i \in Inodes \ {ino} : m_buf'[i] = m_buf[i] /\ content'[i] = content[i]
          BY <1>0, <3>3 DEF FuseCreate, FuseOpenErasing, TypeOK
        <4>2. QED  BY <1>0, <4>1, EraseRefines
      <3>4. CASE FuseOpenLoading(ino, h, mode)
        BY <1>0, <3>2, <3>4, LoadingRefines
      <3>5. QED  BY <2>1, <3>3, <3>4
    <2>2. ASSUME NEW h \in Handles, NEW off \in 0 .. MaxSize, NEW n \in 1 .. MaxSize,
                 FuseRead(h, off, n)
          PROVE  File!Next
      <3>1. Keeps(off <= st_size[handle[h].ino])
        BY <2>2 DEF FuseRead
      <3>2. strays = 0 /\ off <= st_size[handle[h].ino]
        BY <1>0, <3>1 DEF Keeps, TypeOK
      <3>3. QED  BY <2>2, <3>2, ReadRefines
    <2>3. ASSUME NEW h \in Handles, NEW off \in 0 .. MaxSize, NEW n \in Nat \ {0},
                 NEW data \in [1 .. n -> Byte], FuseWrite(h, off, data)
          PROVE  File!Next
      <3>1. Keeps(TRUE)
        BY <2>3 DEF FuseWrite
      <3>2. strays = 0
        BY <1>0, <3>1, KeepsType
      <3>3. \/ off + n > BlockSize * st_blocks[handle[h].ino]
            \/ off + n <= Room(handle[h].ino)
        BY <1>0, <2>3, <3>2, OrderlyWrite
      <3>4. QED  BY <1>0, <2>3, <3>2, <3>3, WriteRefines
    <2>4. ASSUME NEW h \in Handles, NEW keep \in BOOLEAN, FuseFlush(h, keep)
          PROVE  File!Next
      <3>1. Keeps(~ keep)
        BY <2>4 DEF FuseFlush
      <3>2. strays = 0 /\ keep = FALSE
        BY <1>0, <3>1, KeepsType
      <3>3. QED  BY <1>0, <2>4, <3>2, FlushRefines
    <2>5. ASSUME NEW h \in Handles, FuseRelease(h)
          PROVE  File!Next
      <3>1. Keeps(TRUE)
        BY <2>5 DEF FuseRelease
      <3>2. strays = 0
        BY <1>0, <3>1, KeepsType
      <3>3. UNCHANGED m_buf
        BY <1>0, <2>5, <3>2, OrderlyRelease
      <3>4. UNCHANGED <<attrs, content>> /\ last' = Other
        BY <2>5 DEF FuseRelease
      <3>5. \A i \in Inodes : Contents'[i] = Contents[i]
        BY <3>3, <3>4 DEF Contents, attrs
      <3>6. QED  BY <3>4, <3>5, OtherStep
    <2>6. ASSUME NEW ino \in Inodes, NEW size \in 0 .. MaxSize, FuseSetAttr(ino, size)
          PROVE  FALSE
      <3>1. Keeps(FALSE)
        BY <2>6 DEF FuseSetAttr
      <3>2. QED  BY <1>0, <3>1, KeepsType
    <2>7. QED  BY <1>2, <2>1, <2>2, <2>3, <2>4, <2>5, <2>6, RequestCases
  <1>3. QED  BY <1>1, <1>2 DEF Next

\* In orderly use a file keeps, through open, write, flush, release and the next
\* open, the bytes that were written to it, and reads return them: the handlers over
\* the block store implement FileContents.
THEOREM Refinement == Spec => ImplementsFileContents
  <1>1. Init => File!Init
    <2> SUFFICES ASSUME Init PROVE File!Init
      OBVIOUS
    <2>1. \A i \in Inodes : Contents[i] = <<>>
      BY DEF Init, Contents
    <2>2. Contents = [i \in Inodes |-> <<>>]
      BY <2>1 DEF Contents
    <2>3. QED  BY <2>2 DEF File!Init, Init, Other
  <1>2. OInv /\ [Next]_vars =>
            [strays' = 0 => File!Next \/ UNCHANGED <<Contents, last>>]_vars
    BY FileStep
  <1>3. QED
    BY OrderlyInit, OrderlyStep, <1>1, <1>2, PTL DEF Spec, ImplementsFileContents
===============================================================================
