---------------------------- MODULE PartitionProofs ----------------------------
(***************************************************************************)
(* The partition of a file's blocks over the processes is one: Displ is    *)
(* what the loop over the processes accumulates, and the runs it marks     *)
(* cover the blocks without overlap.                                       *)
(***************************************************************************)
EXTENDS Partition, Sequences, SequenceTheorems, TLAPS

\* Quotient and remainder by the number of processes.
LEMMA DivMod ==
    ASSUME NEW n \in Nat
    PROVE  /\ n \div W \in Nat
           /\ n % W \in 0 .. W - 1
           /\ n = W * (n \div W) + (n % W)
  BY PartitionAssumption

\* The number of blocks of a file, and of each process's run, is a number.
LEMMA CountType ==
    ASSUME NEW n \in Nat, NEW r \in Ranks
    PROVE  Count(n, r) \in Nat /\ Displ(n, r) \in Nat
  <1>1. n \div W \in Nat /\ n % W \in 0 .. W - 1  BY DivMod
  <1>2. \A a, b \in Nat : a * b \in Nat  BY SMT
  <1>3. r \in Nat  BY DEF Ranks
  <1> QED  BY <1>1, <1>2, <1>3 DEF Count, Displ

LEMMA BlocksForType == ASSUME NEW size \in Nat PROVE BlocksFor(size) \in Nat
  BY PartitionAssumption DEF BlocksFor

\* The loop of DAGonFS_Write and DAGonFS_Read: scatterOffset starts at 0, each
\* turn adds the count of a process, and at the end it is the number of blocks.
THEOREM LoopOfDisplacements ==
    ASSUME NEW n \in Nat
    PROVE  /\ Displ(n, 0) = 0
           /\ \A r \in Ranks : Displ(n, r + 1) = Displ(n, r) + Count(n, r)
           /\ Displ(n, W) = n
  <1> DEFINE q == n \div W  m == n % W
  <1>1. q \in Nat /\ m \in 0 .. W - 1 /\ n = W * q + m  BY DivMod
  <1>2. W \in Nat \ {0}  BY PartitionAssumption
  <1>3. Displ(n, 0) = 0
    <2>1. 0 * q = 0  BY <1>1
    <2> QED  BY <1>1, <2>1 DEF Displ
  <1>4. ASSUME NEW r \in Ranks PROVE Displ(n, r + 1) = Displ(n, r) + Count(n, r)
    <2>1. r \in Nat  BY <1>2 DEF Ranks
    <2>2. (r + 1) * q = r * q + q  BY <1>1, <2>1
    <2>3. r * q \in Nat  BY <1>1, <2>1
    <2> HIDE DEF q, m
    <2>4. Displ(n, r + 1) = (r + 1) * q + (IF r + 1 < m THEN r + 1 ELSE m)  BY DEF Displ, q, m
    <2>5. Displ(n, r) = r * q + (IF r < m THEN r ELSE m)  BY DEF Displ, q, m
    <2>6. Count(n, r) = q + (IF r < m THEN 1 ELSE 0)  BY DEF Count, q, m
    <2> QED  BY <1>1, <1>2, <2>1, <2>2, <2>3, <2>4, <2>5, <2>6
  <1>5. Displ(n, W) = n  BY <1>1, <1>2 DEF Displ
  <1> QED  BY <1>3, <1>4, <1>5

-----------------------------------------------------------------------------
\* A later process's run starts where or after an earlier one's ends.
LEMMA RunsAscend ==
    ASSUME NEW n \in Nat, NEW r \in Ranks, NEW s \in Ranks, r < s
    PROVE  Displ(n, r) + Count(n, r) <= Displ(n, s)
  <1> DEFINE q == n \div W  m == n % W
  <1>1. q \in Nat /\ m \in 0 .. W - 1  BY DivMod
  <1>2. r \in Nat /\ s \in Nat  BY PartitionAssumption DEF Ranks
  <1>3. \A a, b, c \in Nat : a < b => a * c + c <= b * c
    <2> SUFFICES ASSUME NEW a \in Nat, NEW b \in Nat, NEW c \in Nat, a < b
                 PROVE  a * c + c <= b * c
      OBVIOUS
    <2>1. PICK d \in Nat : b = a + 1 + d  BY b - a - 1 \in Nat
    <2>2. b * c = a * c + c + d * c  BY <2>1
    <2>3. a * c \in Nat /\ d * c \in Nat  OBVIOUS
    <2> QED  BY <2>2, <2>3
  <1>4. r * q + q <= s * q  BY <1>1, <1>2, <1>3
  <1>5. r * q \in Nat /\ s * q \in Nat  BY <1>1, <1>2
  <1> HIDE DEF q, m
  <1>6. Displ(n, r) = r * q + (IF r < m THEN r ELSE m)  BY DEF Displ, q, m
  <1>7. Displ(n, s) = s * q + (IF s < m THEN s ELSE m)  BY DEF Displ, q, m
  <1>8. Count(n, r) = q + (IF r < m THEN 1 ELSE 0)  BY DEF Count, q, m
  <1> QED  BY <1>1, <1>2, <1>4, <1>5, <1>6, <1>7, <1>8

\* No run reaches past the last block.
LEMMA RunsEnd ==
    ASSUME NEW n \in Nat, NEW r \in Ranks
    PROVE  Displ(n, r) + Count(n, r) <= n
  <1>1. Displ(n, r) + Count(n, r) = Displ(n, r + 1)  BY LoopOfDisplacements, CountType
  <1>2. CASE r = W - 1
    <2>1. r + 1 = W  BY <1>2, PartitionAssumption
    <2> QED  BY <1>1, <2>1, LoopOfDisplacements
  <1>3. CASE r # W - 1
    <2>1. W - 1 \in Ranks /\ r < W - 1  BY <1>3, PartitionAssumption DEF Ranks
    <2>2. Displ(n, r) + Count(n, r) <= Displ(n, W - 1)  BY <2>1, RunsAscend
    <2>3. Displ(n, (W - 1) + 1) = Displ(n, W - 1) + Count(n, W - 1)
      BY <2>1, LoopOfDisplacements
    <2>4. (W - 1) + 1 = W  BY PartitionAssumption
    <2>5. Displ(n, W) = n  BY LoopOfDisplacements
    <2> QED  BY <2>1, <2>2, <2>3, <2>4, <2>5, CountType
  <1> QED  BY <1>2, <1>3

\* Every block is in the run of some process: the r-th run of q + 1 blocks for
\* the first m of them, of q blocks for the rest.
LEMMA RunsCover ==
    ASSUME NEW n \in Nat, NEW i \in 1 .. n
    PROVE  \E r \in Ranks : Displ(n, r) < i /\ i <= Displ(n, r) + Count(n, r)
  <1> DEFINE q == n \div W  m == n % W
  <1>1. q \in Nat /\ m \in 0 .. W - 1 /\ n = W * q + m  BY DivMod
  <1>2. W \in Nat \ {0}  BY PartitionAssumption
  <1>3. \A a \in Nat, d \in Nat \ {0} :
           a \div d \in Nat /\ d * (a \div d) <= a /\ a < d * (a \div d) + d
    OBVIOUS
  <1>a. \A r \in Ranks : /\ Displ(n, r) = r * q + (IF r < m THEN r ELSE m)
                         /\ Count(n, r) = q + (IF r < m THEN 1 ELSE 0)
    BY DEF Displ, Count, q, m
  <1> HIDE DEF q, m
  <1>4. m * (q + 1) \in Nat /\ m * (q + 1) = m * q + m /\ m * q \in Nat  BY <1>1
  <1>5. CASE i <= m * (q + 1)
    <2> DEFINE r == (i - 1) \div (q + 1)
    <2>1. i - 1 \in Nat /\ q + 1 \in Nat \ {0}  BY <1>1
    <2>2. r \in Nat /\ (q + 1) * r <= i - 1 /\ i - 1 < (q + 1) * r + (q + 1)
      BY <1>3, <2>1
    <2> HIDE DEF r
    <2>3. r < m
      <3>1. SUFFICES ASSUME r >= m PROVE FALSE  BY <1>1, <2>2
      <3>2. PICK d \in Nat : r = m + d  BY <1>1, <2>2, <3>1, r - m \in Nat
      <3>3. (q + 1) * r = m * (q + 1) + (q + 1) * d /\ (q + 1) * d \in Nat  BY <1>1, <3>2
      <3> QED  BY <1>4, <1>5, <2>2, <3>3
    <2>4. r \in Ranks  BY <1>1, <1>2, <2>2, <2>3 DEF Ranks
    <2>5. (q + 1) * r = r * q + r /\ r * q \in Nat  BY <1>1, <2>2
    <2>6. Displ(n, r) = r * q + r /\ Count(n, r) = q + 1  BY <1>a, <2>3, <2>4
    <2>7. Displ(n, r) < i /\ i <= Displ(n, r) + Count(n, r)
      BY <1>1, <2>2, <2>5, <2>6
    <2> QED  BY <2>4, <2>7
  <1>6. CASE i > m * (q + 1)
    <2> DEFINE e == i - 1 - m * (q + 1)
    <2>1. e \in Nat  BY <1>4, <1>6
    <2>2. q # 0
      <3>1. SUFFICES ASSUME q = 0 PROVE FALSE  OBVIOUS
      <3>2. W * q = 0 /\ m * q = 0  BY <1>1, <1>2, <3>1
      <3> QED  BY <1>1, <1>4, <1>6, <3>2
    <2> DEFINE d == e \div q
    <2>3. d \in Nat /\ q * d <= e /\ e < q * d + q  BY <1>1, <1>3, <2>1, <2>2
    <2>e. e = i - 1 - m * (q + 1)  OBVIOUS
    <2> HIDE DEF d, e
    <2>4. m + d < W
      <3>1. SUFFICES ASSUME m + d >= W PROVE FALSE  BY <1>1, <1>2, <2>3
      <3>2. PICK c \in Nat : m + d = W + c  BY <1>1, <1>2, <2>3, <3>1, m + d - W \in Nat
      <3>3. (m + d) * q = m * q + q * d  BY <1>1, <2>3
      <3>4. (W + c) * q = W * q + c * q /\ c * q \in Nat  BY <1>1, <1>2, <3>2
      <3>5. m * q + q * d >= W * q  BY <3>2, <3>3, <3>4, <1>1, <1>2
      <3>6. q * d \in Nat /\ W * q \in Nat  BY <1>1, <1>2, <2>3
      <3> QED  BY <1>1, <1>4, <2>e, <2>3, <3>5, <3>6
    <2>5. m + d \in Ranks /\ ~(m + d < m)  BY <1>1, <1>2, <2>3, <2>4 DEF Ranks
    <2>6. (m + d) * q = m * q + q * d /\ q * d \in Nat  BY <1>1, <2>3
    <2>7. Displ(n, m + d) = (m + d) * q + m /\ Count(n, m + d) = q  BY <1>1, <1>a, <2>5
    <2>8. Displ(n, m + d) < i /\ i <= Displ(n, m + d) + Count(n, m + d)
      BY <1>1, <1>4, <2>e, <2>1, <2>3, <2>6, <2>7
    <2> QED  BY <2>5, <2>8
  <1> QED  BY <1>1, <1>4, <1>5, <1>6

-----------------------------------------------------------------------------
\* Owner(n, i) is the one process whose run holds block i.
LEMMA OwnerHolds ==
    ASSUME NEW n \in Nat, NEW i \in 1 .. n
    PROVE  /\ Owner(n, i) \in Ranks
           /\ i - Displ(n, Owner(n, i)) \in 1 .. Count(n, Owner(n, i))
  <1>1. \E r \in Ranks : Displ(n, r) < i /\ i <= Displ(n, r) + Count(n, r)  BY RunsCover
  <1> DEFINE r == Owner(n, i)
  <1>2. r \in Ranks /\ Displ(n, r) < i /\ i <= Displ(n, r) + Count(n, r)
    BY <1>1 DEF Owner
  <1>3. Displ(n, r) \in Nat /\ Count(n, r) \in Nat  BY <1>2, CountType
  <1> QED  BY <1>2, <1>3

LEMMA OwnerIsUnique ==
    ASSUME NEW n \in Nat, NEW r \in Ranks, NEW k \in 1 .. Count(n, r)
    PROVE  Displ(n, r) + k \in 1 .. n /\ Owner(n, Displ(n, r) + k) = r
  <1> DEFINE i == Displ(n, r) + k
  <1>1. Displ(n, r) \in Nat /\ Count(n, r) \in Nat  BY CountType
  <1>2. Displ(n, r) + Count(n, r) <= n  BY RunsEnd
  <1>3. i \in 1 .. n  BY <1>1, <1>2
  <1>4. Displ(n, r) < i /\ i <= Displ(n, r) + Count(n, r)  BY <1>1
  <1>5. ASSUME NEW s \in Ranks, Displ(n, s) < i, i <= Displ(n, s) + Count(n, s)
        PROVE  s = r
    <2>1. Displ(n, s) \in Nat /\ Count(n, s) \in Nat  BY CountType
    <2>2. r \in Nat /\ s \in Nat  BY PartitionAssumption DEF Ranks
    <2> HIDE DEF i
    <2>i. i \in Nat  BY <1>3
    <2>3. ASSUME r < s PROVE FALSE
      <3>1. Displ(n, r) + Count(n, r) <= Displ(n, s)  BY <2>3, RunsAscend
      <3> QED  BY <3>1, <1>1, <1>4, <1>5, <2>1, <2>i
    <2>4. ASSUME s < r PROVE FALSE
      <3>1. Displ(n, s) + Count(n, s) <= Displ(n, r)  BY <2>4, RunsAscend
      <3> QED  BY <3>1, <1>1, <1>4, <1>5, <2>1, <2>i
    <2> QED  BY <2>2, <2>3, <2>4
  <1>6. Owner(n, i) = r
    <2> HIDE DEF i
    <2> QED  BY <1>4, <1>5 DEF Owner
  <1> QED  BY <1>3, <1>6

\* What MPI_Scatterv spreads MPI_Gatherv puts back in order: the write's blocks
\* come back as one address each, a read's addresses as one block each.
THEOREM ScatterGather ==
    ASSUME NEW n \in Nat, NEW s, s = [i \in 1 .. n |-> s[i]]
    PROVE  Assemble([r \in Ranks |-> Share(s, n, r)], n) = s
  <1> DEFINE got == [r \in Ranks |-> Share(s, n, r)]
  <1>1. ASSUME NEW i \in 1 .. n
        PROVE  got[Owner(n, i)][i - Displ(n, Owner(n, i))] = s[i]
    <2> DEFINE r == Owner(n, i)
    <2>1. r \in Ranks /\ i - Displ(n, r) \in 1 .. Count(n, r)  BY OwnerHolds
    <2>2. Displ(n, r) \in Nat  BY <2>1, CountType
    <2> HIDE DEF r
    <2>3. got[r] = Share(s, n, r)  BY <2>1
    <2>4. Share(s, n, r)[i - Displ(n, r)] = s[Displ(n, r) + (i - Displ(n, r))]
      BY <2>1 DEF Share
    <2>5. Displ(n, r) + (i - Displ(n, r)) = i  BY <2>2
    <2> QED  BY <2>3, <2>4, <2>5 DEF r
  <1>2. Assemble(got, n) = [i \in 1 .. n |-> s[i]]
    <2> HIDE DEF got
    <2> QED  BY <1>1 DEF Assemble
  <1> QED  BY <1>2

\* The length and the type of a process's share of a scatter.
LEMMA ShareType ==
    ASSUME NEW S, NEW s \in Seq(S), NEW r \in Ranks
    PROVE  Share(s, Len(s), r) \in Seq(S) /\ Len(Share(s, Len(s), r)) = Count(Len(s), r)
  <1> DEFINE n == Len(s)
  <1>1. n \in Nat  OBVIOUS
  <1> HIDE DEF n
  <1>2. Count(n, r) \in Nat /\ Displ(n, r) \in Nat  BY <1>1, CountType
  <1>3. Displ(n, r) + Count(n, r) <= n  BY <1>1, RunsEnd
  <1>4. \A k \in 1 .. Count(n, r) : s[Displ(n, r) + k] \in S
    <2>1. \A i \in 1 .. n : s[i] \in S  BY DEF n
    <2> QED  BY <1>1, <1>2, <1>3, <2>1
  <1> QED  BY <1>2, <1>4 DEF Share, n

-----------------------------------------------------------------------------
(* Facts about sequences that the proofs about both programs use.          *)

LEMMA AppendFacts ==
    ASSUME NEW S, NEW s \in Seq(S), NEW e \in S
    PROVE  /\ Append(s, e) \in Seq(S) /\ Append(s, e) # <<>>
           /\ Len(s) \in Nat /\ Len(Append(s, e)) = Len(s) + 1
           /\ \A k \in 1 .. Len(s) : Append(s, e)[k] = s[k]
           /\ Append(s, e)[Len(s) + 1] = e
  OBVIOUS

LEMMA TailFacts ==
    ASSUME NEW S, NEW s \in Seq(S), s # <<>>
    PROVE  /\ Head(s) \in S /\ Head(s) = s[1]
           /\ Tail(s) \in Seq(S)
           /\ Len(s) \in Nat \ {0} /\ Len(Tail(s)) = Len(s) - 1
           /\ \A k \in 1 .. Len(s) - 1 : Tail(s)[k] = s[k + 1]
           /\ Tail(s) = <<>> <=> Len(s) = 1
  <1>1. /\ Head(s) \in S /\ Tail(s) \in Seq(S) /\ Len(Tail(s)) = Len(s) - 1
        /\ \A k \in 1 .. Len(Tail(s)) : Tail(s)[k] = s[k + 1]
    BY HeadTailProperties
  <1>2. Len(s) \in Nat \ {0}  BY EmptySeq
  <1>3. Head(s) = s[1]  BY <1>2
  <1>4. Tail(s) = <<>> <=> Len(Tail(s)) = 0
    <2>1. \A t \in Seq(S) : t = <<>> <=> Len(t) = 0  BY EmptySeq
    <2> QED  BY <1>1, <2>1
  <1> QED  BY <1>1, <1>2, <1>3, <1>4
=============================================================================
