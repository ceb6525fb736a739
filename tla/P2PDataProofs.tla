----------------------------- MODULE P2PDataProofs -----------------------------
(***************************************************************************)
(* Proofs about P2PData, for every number of processes, set of files and   *)
(* bound.                                                                  *)
(***************************************************************************)
EXTENDS P2PData, PartitionProofs, FiniteSetTheorems, WellFoundedInduction

-----------------------------------------------------------------------------
(* The state keeps its type, whatever users do: processes that have        *)
(* entered as many collectives have entered the same ones, with as many    *)
(* items as the partition says.                                            *)

Ops       == {"READ", "WRITE"}
FusePlace == [at : {"idle", "unmounted", "ended"}]
             \cup [at : {"write", "allgather", "read", "gather"}, ino : Inodes]
LoopPlace == [at : {"header", "unmounting", "stopped"}]
             \cup [at : {"io"}, op : Ops]
             \cup [at : {"scatter", "allgather"}, op : Ops, root : Ranks, ino : Inodes, size : Nat]
Packet    == [kind : {"header"}, op : Ops \cup {"TERMINATE"}]
             \cup [kind : {"io"}, ino : Inodes, size : Nat]
Entry     == [op : {"WRITE"}, root : Ranks, ino : Inodes, n : Nat, down : Content, up : Seq(Nat)]
             \cup [op : {"READ"}, root : Ranks, ino : Inodes, n : Nat, down : Seq(Nat), up : Content]

Kinds ==
    /\ fuse \in [Ranks -> FusePlace] /\ loop \in [Ranks -> LoopPlace]
    /\ chan \in [Ranks -> [Ranks -> Seq(Packet)]] /\ calls \in [Ranks -> Seq(Entry)]
    /\ unmountFromThread \in [Ranks -> BOOLEAN]

\* The k-th pair of collectives is the same wherever it has been entered,
Agreed ==
    \A p, q \in Ranks : \A k \in 1 .. Len(calls[p]) :
        k <= Len(calls[q]) =>
            Same(calls[q][k], calls[p][k].op, calls[p][k].root, calls[p][k].n)

\* and each process contributes what the partition says, the root the whole.
Contributed ==
    \A q \in Ranks : \A k \in 1 .. Len(calls[q]) :
        /\ Len(calls[q][k].up) = Count(calls[q][k].n, q)
        /\ calls[q][k].root = q => Len(calls[q][k].down) = calls[q][k].n

\* A thread in a collective is in the last one of its process.
Entered ==
    \A p \in Ranks :
        /\ fuse[p].at \in {"allgather", "gather"} =>
              /\ calls[p] # <<>> /\ loop[p].at # "allgather"
              /\ Current(p).op = (IF fuse[p].at = "gather" THEN "READ" ELSE "WRITE")
        /\ loop[p].at = "allgather" => calls[p] # <<>> /\ Current(p).op = "WRITE"

\* A write begins with a buffer.
Buffered == \A p \in Ranks : fuse[p].at = "write" => m_buf[p][fuse[p].ino] # NoBuf

\* No process takes itself for the root of another.
OtherRoot ==
    \A r \in Ranks :
        /\ loop[r].at = "scatter" => loop[r].root # r
        /\ \A k \in 1 .. Len(chan[r][r]) : chan[r][r][k].kind # "io"

TypeInv == TypeOK /\ Kinds /\ Agreed /\ Contributed /\ Entered /\ Buffered /\ OtherRoot

-----------------------------------------------------------------------------
(* Facts about places, files and packets.                                  *)

LEMMA PlaceFacts ==
    ASSUME Kinds, NEW p \in Ranks
    PROVE  /\ fuse[p].at \in {"write", "allgather", "read", "gather"} => fuse[p].ino \in Inodes
           /\ loop[p].at \in {"scatter", "allgather"} =>
                 /\ loop[p] \in [at : {"scatter", "allgather"}, op : Ops, root : Ranks,
                                 ino : Inodes, size : Nat]
           /\ loop[p].at = "io" => loop[p].op \in Ops
  <1>1. fuse[p] \in FusePlace /\ loop[p] \in LoopPlace  BY DEF Kinds
  <1>2. fuse[p].at \in {"write", "allgather", "read", "gather"} => fuse[p].ino \in Inodes
    BY <1>1 DEF FusePlace
  <1>3. loop[p].at \in {"scatter", "allgather"} =>
            loop[p] \in [at : {"scatter", "allgather"}, op : Ops, root : Ranks,
                         ino : Inodes, size : Nat]
    BY <1>1 DEF LoopPlace
  <1>4. loop[p].at = "io" => loop[p].op \in Ops  BY <1>1 DEF LoopPlace
  <1> QED  BY <1>2, <1>3, <1>4

LEMMA PlaceTypes ==
    /\ At("idle") \in FusePlace /\ At("unmounted") \in FusePlace /\ At("ended") \in FusePlace
    /\ \A f \in Inodes : /\ Handling("write", f) \in FusePlace
                         /\ Handling("allgather", f) \in FusePlace
                         /\ Handling("read", f) \in FusePlace
                         /\ Handling("gather", f) \in FusePlace
    /\ At("header") \in LoopPlace /\ At("unmounting") \in LoopPlace /\ At("stopped") \in LoopPlace
    /\ \A op \in Ops : [at |-> "io", op |-> op] \in LoopPlace
  BY DEF FusePlace, LoopPlace, At, Handling

LEMMA PacketFacts ==
    /\ Header("READ") \in Packet /\ Header("WRITE") \in Packet /\ Header("TERMINATE") \in Packet
    /\ \A f \in Inodes, n \in Nat : IORequest(f, n) \in Packet
    /\ \A m \in Packet : /\ m.kind \in {"header", "io"}
                         /\ m.kind = "io" => m.ino \in Inodes /\ m.size \in Nat
                         /\ m.kind = "header" => m.op \in Ops \cup {"TERMINATE"}
  BY DEF Header, IORequest, Packet, Ops

LEMMA EntryFacts ==
    ASSUME NEW c \in Entry
    PROVE  /\ c.op \in Ops /\ c.root \in Ranks /\ c.ino \in Inodes /\ c.n \in Nat
           /\ c.op = "WRITE" => c.down \in Content /\ c.up \in Seq(Nat)
           /\ c.op = "READ" => c.down \in Seq(Nat) /\ c.up \in Content
  BY DEF Entry, Ops

LEMMA PerFileType ==
    ASSUME NEW S, NEW x \in PerFile(S), NEW p \in Ranks, NEW f \in Inodes, NEW v \in S
    PROVE  [x EXCEPT ![p][f] = v] \in PerFile(S)
  BY DEF PerFile

LEMMA MaxType == \A a, b \in Nat : Max(a, b) \in Nat /\ a <= Max(a, b) /\ b <= Max(a, b)
  BY DEF Max

LEMMA ItemsType ==
    ASSUME NEW S, NEW s \in Seq(S), NEW n \in Nat, NEW beyond \in S
    PROVE  Items(s, n, beyond) \in Seq(S) /\ Len(Items(s, n, beyond)) = n
  <1>1. \A i \in 1 .. n : (IF i <= Len(s) THEN s[i] ELSE beyond) \in S
    OBVIOUS
  <1> QED  BY <1>1 DEF Items

LEMMA UpdateListType ==
    ASSUME NEW S, NEW l \in Seq(S), NEW addresses \in Seq(S)
    PROVE  /\ UpdateList(l, addresses) \in Seq(S)
           /\ Len(UpdateList(l, addresses)) = Max(Len(l), Len(addresses))
  <1> DEFINE e(i) == IF i <= Len(addresses) THEN addresses[i] ELSE l[i]
             n == Max(Len(l), Len(addresses))
  <1>1. Len(l) \in Nat /\ Len(addresses) \in Nat  OBVIOUS
  <1>2. n \in Nat /\ \A i \in 1 .. n : i <= Len(addresses) \/ i <= Len(l)
    BY <1>1 DEF Max
  <1>3. \A i \in 1 .. n : e(i) \in S  BY <1>2
  <1> HIDE DEF e, n
  <1>4. [i \in 1 .. n |-> e(i)] \in Seq(S) /\ Len([i \in 1 .. n |-> e(i)]) = n
    BY <1>2, <1>3
  <1> QED  BY <1>4 DEF UpdateList, e, n

LEMMA FetchAllType ==
    ASSUME TypeOK, NEW p \in Ranks, NEW addresses \in Seq(Nat)
    PROVE  FetchAll(p, addresses) \in Content /\ Len(FetchAll(p, addresses)) = Len(addresses)
  <1>1. mem[p] \in Seq(Block \cup {Garbage})  BY DEF TypeOK, Content
  <1>2. Len(addresses) \in Nat  BY LenProperties
  <1>3. ASSUME NEW k \in 1 .. Len(addresses)
        PROVE  Fetch(p, addresses[k]) \in Block \cup {Garbage}
    <2>1. addresses[k] \in 1 .. Len(mem[p]) =>
              mem[p][addresses[k]] \in Block \cup {Garbage}
      BY <1>1, ElementOfSeq
    <2> QED  BY <2>1 DEF Fetch
  <1> DEFINE e(k) == Fetch(p, addresses[k])
             n    == Len(addresses)
  <1>4. n \in Nat /\ \A k \in 1 .. n : e(k) \in Block \cup {Garbage}  BY <1>2, <1>3
  <1> HIDE DEF e, n
  <1>5. [k \in 1 .. n |-> e(k)] \in Seq(Block \cup {Garbage}) /\ Len([k \in 1 .. n |-> e(k)]) = n
    BY <1>4
  <1> QED  BY <1>5 DEF FetchAll, e, n, Content

LEMMA NewAddressesType ==
    ASSUME TypeOK, NEW p \in Ranks, NEW s \in Content
    PROVE  NewAddresses(p, s) \in Seq(Nat) /\ Len(NewAddresses(p, s)) = Len(s)
  <1>1. Len(mem[p]) \in Nat /\ Len(s) \in Nat  BY DEF TypeOK, Content
  <1> QED  BY <1>1 DEF NewAddresses

LEMMA ShareOfItems ==
    ASSUME NEW S, NEW s \in Seq(S), NEW n, n = Len(s), NEW r \in Ranks
    PROVE  Share(s, n, r) \in Seq(S) /\ Len(Share(s, n, r)) = Count(n, r)
  BY ShareType

LEMMA SendType ==
    ASSUME Kinds, NEW p \in Ranks, NEW m \in Packet, ToOthers(p, m) \/ ToAll(p, m)
    PROVE  /\ chan' \in [Ranks -> [Ranks -> Seq(Packet)]]
           /\ \A s \in Ranks \ {p}, r \in Ranks : chan'[s][r] = chan[s][r]
           /\ \A r \in Ranks \ {p} : chan'[p][r] = Append(chan[p][r], m)
           /\ chan'[p][p] \in {chan[p][p], Append(chan[p][p], m)}
           /\ ToOthers(p, m) => chan'[p][p] = chan[p][p]
  <1> DEFINE c == chan[p]
  <1>1. chan \in [Ranks -> [Ranks -> Seq(Packet)]] /\ c \in [Ranks -> Seq(Packet)]
    BY DEF Kinds
  <1>2. \A r \in Ranks : c[r] \in Seq(Packet) /\ Append(c[r], m) \in Seq(Packet)
    BY <1>1, AppendFacts
  <1>3. CASE ToOthers(p, m)
    <2>1. chan' = [chan EXCEPT ![p] = [r \in Ranks |-> IF r = p THEN c[r] ELSE Append(c[r], m)]]
      BY <1>3 DEF ToOthers
    <2> QED  BY <1>1, <1>2, <2>1
  <1>4. CASE ToAll(p, m)
    <2>1. chan' = [chan EXCEPT ![p] = [r \in Ranks |-> Append(c[r], m)]]
      BY <1>4 DEF ToAll
    <2>2. /\ chan' \in [Ranks -> [Ranks -> Seq(Packet)]]
          /\ \A s \in Ranks \ {p}, r \in Ranks : chan'[s][r] = chan[s][r]
          /\ \A r \in Ranks : chan'[p][r] = Append(c[r], m)
      BY <1>1, <1>2, <2>1
    <2>3. ToOthers(p, m) => chan'[p][p] = chan[p][p]
      BY <1>1 DEF ToOthers
    <2> QED  BY <2>2, <2>3
  <1> QED  BY <1>3, <1>4

LEMMA ReceiveType ==
    ASSUME Kinds, NEW r \in Ranks, NEW s \in Ranks, NEW m, Receive(r, s, m)
    PROVE  /\ chan' \in [Ranks -> [Ranks -> Seq(Packet)]]
           /\ m \in Packet /\ chan[s][r] # <<>> /\ chan[s][r] \in Seq(Packet)
           /\ m = chan[s][r][1] /\ m = Head(chan[s][r])
           /\ chan'[s][r] = Tail(chan[s][r])
           /\ \A q, t \in Ranks : q # s \/ t # r => chan'[q][t] = chan[q][t]
  <1>1. chan \in [Ranks -> [Ranks -> Seq(Packet)]] /\ chan[s][r] \in Seq(Packet)
    BY DEF Kinds
  <1>2. chan[s][r] # <<>> /\ m = Head(chan[s][r])
        /\ chan' = [chan EXCEPT ![s][r] = Tail(chan[s][r])]
    BY DEF Receive
  <1>3. m \in Packet /\ m = chan[s][r][1] /\ Tail(chan[s][r]) \in Seq(Packet)
    BY <1>1, <1>2, TailFacts
  <1> QED  BY <1>1, <1>2, <1>3

\* What is left of a channel was there before.
LEMMA ReceiveRest ==
    ASSUME Kinds, NEW r \in Ranks, NEW s \in Ranks, NEW m, Receive(r, s, m)
    PROVE  \A q, t \in Ranks : \A k \in 1 .. Len(chan'[q][t]) :
              \E i \in 1 .. Len(chan[q][t]) : chan'[q][t][k] = chan[q][t][i]
  <1> TAKE q \in Ranks, t \in Ranks
  <1> TAKE k \in 1 .. Len(chan'[q][t])
  <1>1. CASE q # s \/ t # r
    <2>1. chan'[q][t] = chan[q][t]  BY <1>1, ReceiveType
    <2> QED  BY <2>1
  <1>2. CASE q = s /\ t = r
    <2>1. chan[s][r] \in Seq(Packet) /\ chan[s][r] # <<>> /\ chan'[s][r] = Tail(chan[s][r])
      BY ReceiveType
    <2>2. k + 1 \in 1 .. Len(chan[s][r]) /\ chan'[s][r][k] = chan[s][r][k + 1]
      BY <1>2, <2>1, TailFacts
    <2> QED  BY <1>2, <2>2
  <1> QED  BY <1>1, <1>2

LEMMA OwnChannelRest ==
    ASSUME Kinds, OtherRoot, NEW r \in Ranks, NEW s \in Ranks, NEW m, Receive(r, s, m)
    PROVE  \A q \in Ranks : \A k \in 1 .. Len(chan'[q][q]) : chan'[q][q][k].kind # "io"
  <1> TAKE q \in Ranks
  <1> TAKE k \in 1 .. Len(chan'[q][q])
  <1>1. PICK i \in 1 .. Len(chan[q][q]) : chan'[q][q][k] = chan[q][q][i]  BY ReceiveRest
  <1> QED  BY <1>1 DEF OtherRoot

-----------------------------------------------------------------------------
(* Collectives.                                                            *)

\* A process enters a pair of collectives that agrees with those of the others.
LEMMA EnterStep ==
    ASSUME Kinds, Agreed, Contributed, NEW p \in Ranks, NEW c \in Entry, Enter(p, c),
           \A q \in Ranks : NextCall(p) <= Len(calls[q]) =>
               Same(calls[q][NextCall(p)], c.op, c.root, c.n),
           Len(c.up) = Count(c.n, p), c.root = p => Len(c.down) = c.n
    PROVE  /\ calls' \in [Ranks -> Seq(Entry)] /\ Agreed' /\ Contributed'
           /\ calls'[p] # <<>> /\ Current(p)' = c
           /\ \A q \in Ranks \ {p} : calls'[q] = calls[q]
           /\ Len(calls'[p]) = Len(calls[p]) + 1 /\ Len(calls[p]) \in Nat
           /\ \A k \in 1 .. Len(calls[p]) : calls'[p][k] = calls[p][k]
           /\ calls'[p][Len(calls[p]) + 1] = c
  <1>1. calls \in [Ranks -> Seq(Entry)] /\ calls' = [calls EXCEPT ![p] = Append(calls[p], c)]
    BY DEF Kinds, Enter
  <1>2. \A q \in Ranks : calls[q] \in Seq(Entry) /\ Len(calls[q]) \in Nat  BY <1>1
  <1>3. /\ Append(calls[p], c) \in Seq(Entry) /\ Append(calls[p], c) # <<>>
        /\ Len(Append(calls[p], c)) = Len(calls[p]) + 1
        /\ \A k \in 1 .. Len(calls[p]) : Append(calls[p], c)[k] = calls[p][k]
        /\ Append(calls[p], c)[Len(calls[p]) + 1] = c
    BY <1>2, AppendFacts
  <1>4. calls' \in [Ranks -> Seq(Entry)] /\ calls'[p] = Append(calls[p], c)
        /\ \A q \in Ranks \ {p} : calls'[q] = calls[q]
    BY <1>1, <1>3
  <1>5. Current(p)' = c  BY <1>3, <1>4 DEF Current
  <1>6. Agreed'
    <2> SUFFICES ASSUME NEW q \in Ranks, NEW t \in Ranks, NEW k \in 1 .. Len(calls'[q]),
                        k <= Len(calls'[t])
                 PROVE  Same(calls'[t][k], calls'[q][k].op, calls'[q][k].root, calls'[q][k].n)
      BY DEF Agreed
    <2>0. \A u, v \in Ranks : \A i \in 1 .. Len(calls[u]) : i <= Len(calls[v]) =>
             Same(calls[v][i], calls[u][i].op, calls[u][i].root, calls[u][i].n)
      BY DEF Agreed
    <2>1. CASE q # p /\ t # p  BY <1>4, <2>0, <2>1
    <2>2. CASE k <= Len(calls[p])
      <3>1. k \in 1 .. Len(calls[q]) /\ k <= Len(calls[t])
        BY <1>2, <1>3, <1>4, <2>2
      <3>2. \A u \in Ranks : calls'[u][k] = calls[u][k]
        <4> TAKE u \in Ranks
        <4>1. k \in 1 .. Len(calls[p])  BY <1>2, <2>2, <3>1
        <4>2. CASE u = p  BY <1>3, <1>4, <4>1, <4>2
        <4>3. CASE u # p  BY <1>4, <4>3
        <4> QED  BY <4>2, <4>3
      <3> QED  BY <2>0, <3>1, <3>2
    <2>3. CASE k = Len(calls[p]) + 1 /\ (q = p \/ t = p)
      <3>1. \A u \in Ranks : k <= Len(calls'[u]) =>
               Same(calls'[u][k], c.op, c.root, c.n)
        <4> TAKE u \in Ranks
        <4>1. CASE u = p  BY <1>3, <1>4, <2>3, <4>1 DEF Same
        <4>2. CASE u # p  BY <1>4, <2>3, <4>2 DEF NextCall
        <4> QED  BY <4>1, <4>2
      <3>2. k <= Len(calls'[q])  BY <1>2, <1>3, <1>4
      <3> QED  BY <3>1, <3>2 DEF Same
    <2> QED  BY <1>2, <1>3, <1>4, <2>1, <2>2, <2>3
  <1>7. Contributed'
    <2> SUFFICES ASSUME NEW q \in Ranks, NEW k \in 1 .. Len(calls'[q])
                 PROVE  /\ Len(calls'[q][k].up) = Count(calls'[q][k].n, q)
                        /\ calls'[q][k].root = q => Len(calls'[q][k].down) = calls'[q][k].n
      BY DEF Contributed
    <2>1. CASE q = p /\ k = Len(calls[p]) + 1  BY <1>3, <1>4, <2>1
    <2>2. CASE ~ (q = p /\ k = Len(calls[p]) + 1)
      <3>1. k \in 1 .. Len(calls[q]) /\ calls'[q][k] = calls[q][k]
        BY <1>2, <1>3, <1>4, <2>2
      <3> QED  BY <3>1 DEF Contributed
    <2> QED  BY <2>1, <2>2
  <1> QED  BY <1>2, <1>3, <1>4, <1>5, <1>6, <1>7

\* What the gather of its last collective puts together at a process.
LEMMA GatheredType ==
    ASSUME Kinds, Agreed, Contributed, NEW p \in Ranks, calls[p] # <<>>, AllIn(p)
    PROVE  /\ Current(p) \in Entry /\ Len(Gathered(p)) = Current(p).n
           /\ Gathered(p) \in (IF Current(p).op = "WRITE" THEN Seq(Nat) ELSE Content)
  <1> DEFINE k == Len(calls[p])
             n == Current(p).n
             S == IF Current(p).op = "WRITE" THEN Nat ELSE Block \cup {Garbage}
             got == [q \in Ranks |-> IF k <= Len(calls[q]) THEN calls[q][k].up ELSE <<>>]
  <1>1. calls \in [Ranks -> Seq(Entry)]  BY DEF Kinds
  <1>2. k \in 1 .. Len(calls[p])
    <2>1. calls[p] \in Seq(Entry)  BY <1>1
    <2> QED  BY <2>1, EmptySeq
  <1>3. Current(p) \in Entry /\ Current(p) = calls[p][k]
    <2>1. calls[p] \in Seq(Entry)  BY <1>1
    <2> QED  BY <1>2, <2>1, ElementOfSeq DEF Current
  <1>4. n \in Nat  BY <1>3, EntryFacts
  <1>5. ASSUME NEW q \in Ranks, Count(n, q) > 0
        PROVE  got[q] \in Seq(S) /\ Len(got[q]) = Count(n, q)
    <2>1. k <= Len(calls[q])  BY <1>5 DEF AllIn
    <2>2. k \in 1 .. Len(calls[q]) /\ calls[q] \in Seq(Entry)
      BY <1>1, <1>2, <2>1
    <2>3. calls[q][k] \in Entry  BY <2>2, ElementOfSeq
    <2>4. calls[q][k].op = Current(p).op /\ calls[q][k].n = n
      BY <1>2, <1>3, <2>1 DEF Agreed, Same
    <2>5. Len(calls[q][k].up) = Count(n, q)
      BY <2>2, <2>4 DEF Contributed
    <2>6. calls[q][k].up \in Seq(S)
      BY <1>3, <2>3, <2>4, EntryFacts DEF Ops, Content
    <2> QED  BY <2>1, <2>5, <2>6
  <1> HIDE DEF k, S, got
  <1>6. ASSUME NEW i \in 1 .. n
        PROVE  got[Owner(n, i)][i - Displ(n, Owner(n, i))] \in S
    <2> DEFINE q == Owner(n, i)
    <2>1. q \in Ranks /\ i - Displ(n, q) \in 1 .. Count(n, q)  BY <1>4, OwnerHolds
    <2> HIDE DEF q, n
    <2>2. Count(n, q) > 0
      <3>1. Count(n, q) \in Nat  BY <1>4, <2>1, CountType
      <3>2. \A c \in Nat : \A x : x \in 1 .. c => c > 0  OBVIOUS
      <3> QED  BY <2>1, <3>1, <3>2
    <2>3. got[q] \in Seq(S) /\ Len(got[q]) = Count(n, q)  BY <1>5, <2>1, <2>2
    <2>4. got[q][i - Displ(n, q)] \in S  BY <2>1, <2>3, ElementOfSeq
    <2> QED  BY <2>4 DEF q
  <1>7. Gathered(p) = Assemble(got, n)  BY DEF Gathered, got, k
  <1> DEFINE e(i) == got[Owner(n, i)][i - Displ(n, Owner(n, i))]
  <1> HIDE DEF n
  <1>8. Assemble(got, n) = [i \in 1 .. n |-> e(i)] /\ \A i \in 1 .. n : e(i) \in S
    BY <1>6 DEF Assemble
  <1> HIDE DEF e
  <1>9. Assemble(got, n) \in Seq(S) /\ Len(Assemble(got, n)) = n
    BY <1>4, <1>8
  <1> QED  BY <1>3, <1>7, <1>9 DEF S, n, Content

-----------------------------------------------------------------------------
(* TypeInv holds initially and every step preserves it.                    *)

LEMMA InitType == ASSUME Init PROVE TypeInv
  <1>1. TypeOK
    <2>1. \A S : \A v \in S : [p \in Ranks |-> [f \in Inodes |-> v]] \in PerFile(S)
      BY DEF PerFile
    <2>2. /\ "closed" \in Modes \cup {"closed"} /\ 0 \in Nat /\ NoBuf \in Content \cup {NoBuf}
          /\ FALSE \in BOOLEAN /\ <<>> \in Seq(Nat) /\ <<>> \in Content
      BY DEF Content
    <2>3. /\ handle \in PerFile(Modes \cup {"closed"})
          /\ st_size \in PerFile(Nat) /\ st_blocks \in PerFile(Nat)
          /\ m_buf \in PerFile(Content \cup {NoBuf}) /\ waiting \in PerFile(BOOLEAN)
          /\ list \in PerFile(Seq(Nat))
      BY <2>1, <2>2 DEF Init
    <2>4. mem \in [Ranks -> Content] /\ stored \in [Inodes -> Nat]  BY <2>2 DEF Init
    <2> QED  BY <2>2, <2>3, <2>4 DEF Init, TypeOK
  <1>2. Kinds
    <2>1. \A S : <<>> \in Seq(S)  OBVIOUS
    <2>2. calls \in [Ranks -> Seq(Entry)] /\ chan \in [Ranks -> [Ranks -> Seq(Packet)]]
      BY <2>1 DEF Init
    <2> QED  BY <2>2, PlaceTypes DEF Init, Kinds
  <1>3. \A p \in Ranks : calls[p] = <<>> /\ Len(calls[p]) = 0  BY DEF Init
  <1>4. Agreed /\ Contributed  BY <1>3 DEF Agreed, Contributed
  <1>5. Entered  BY DEF Init, At, Entered
  <1>6. Buffered  BY DEF Init, At, Buffered
  <1>7. OtherRoot
    <2>1. \A r \in Ranks : chan[r][r] = <<>> /\ Len(<<>>) = 0 /\ loop[r].at = "header"
      BY DEF Init, At
    <2> QED  BY <2>1 DEF OtherRoot
  <1> QED  BY <1>1, <1>2, <1>4, <1>5, <1>6, <1>7 DEF TypeInv

\* No thread comes into a collective or leaves one.
LEMMA EnteredStays ==
    ASSUME Entered, UNCHANGED calls,
           \A p \in Ranks : fuse'[p].at \in {"allgather", "gather"} => fuse'[p] = fuse[p],
           \A p \in Ranks : loop'[p].at = "allgather" => loop'[p] = loop[p]
    PROVE  Entered'
  BY DEF Entered, Current

LEMMA OtherRootStays ==
    ASSUME Kinds, OtherRoot, NEW p \in Ranks,
           UNCHANGED chan \/ \E m \in Packet : ToOthers(p, m),
           \A r \in Ranks : loop'[r].at = "scatter" => loop'[r] = loop[r]
    PROVE  OtherRoot'
  <1>1. \A r \in Ranks : chan'[r][r] = chan[r][r]
    <2>1. CASE UNCHANGED chan  BY <2>1
    <2>2. ASSUME NEW m \in Packet, ToOthers(p, m)
          PROVE  \A r \in Ranks : chan'[r][r] = chan[r][r]
      <3>1. \A s \in Ranks \ {p}, r \in Ranks : chan'[s][r] = chan[s][r]  BY <2>2, SendType
      <3>2. chan'[p][p] = chan[p][p]  BY <2>2, SendType
      <3> QED  BY <3>1, <3>2
    <2> QED  BY <2>1, <2>2
  <1> QED  BY <1>1 DEF OtherRoot

LEMMA BufferedStays ==
    ASSUME Buffered,
           \A p \in Ranks : fuse'[p].at = "write" => fuse'[p] = fuse[p] /\ m_buf'[p] = m_buf[p]
    PROVE  Buffered'
  BY DEF Buffered

LEMMA CallsStay ==
    ASSUME Agreed, Contributed, UNCHANGED calls
    PROVE  Agreed' /\ Contributed'
  BY DEF Agreed, Contributed

\* FuseOpen, FuseWrite, FuseFlush and Unmount.
LEMMA OpenType ==
    ASSUME TypeInv, NEW p \in Ranks, NEW f \in Inodes, NEW mode \in Modes, FuseOpen(p, f, mode)
    PROVE  TypeInv'
  <1> USE DEF TypeInv
  <1>1. handle' \in PerFile(Modes \cup {"closed"})
    <2>1. handle \in PerFile(Modes \cup {"closed"})  BY DEF TypeOK
    <2>2. handle' = [handle EXCEPT ![p][f] = mode]  BY DEF FuseOpen
    <2> QED  BY <2>1, <2>2, PerFileType
  <1>2. st_size' \in PerFile(Nat) /\ st_blocks' \in PerFile(Nat)
    <2>1. st_size \in PerFile(Nat) /\ st_blocks \in PerFile(Nat)  BY DEF TypeOK
    <2>2. 0 \in Nat  OBVIOUS
    <2>3. /\ st_size' \in {st_size, [st_size EXCEPT ![p][f] = 0]}
          /\ st_blocks' \in {st_blocks, [st_blocks EXCEPT ![p][f] = 0]}
      BY DEF FuseOpen, attrs
    <2> QED  BY <2>1, <2>2, <2>3, PerFileType
  <1>3. origin' \in Ranks /\ orderly' \in BOOLEAN  BY DEF FuseOpen, Comes, TypeOK
  <1>4. UNCHANGED <<buffer, blocks, loop, calls, unmountFromThread, told, fault>>
    BY DEF FuseOpen
  <1>5. TypeOK'
    BY <1>1, <1>2, <1>3, <1>4 DEF TypeOK, buffer, blocks, told
  <1>6. /\ fuse' \in [Ranks -> FusePlace]
        /\ \A q \in Ranks : fuse'[q].at \in {"write", "allgather", "gather"} => fuse'[q] = fuse[q]
    <2>1. fuse \in [Ranks -> FusePlace] /\ Handling("read", f) \in FusePlace
      BY PlaceTypes DEF Kinds
    <2>2. fuse' \in {fuse, [fuse EXCEPT ![p] = Handling("read", f)]}  BY DEF FuseOpen
    <2> QED  BY <2>1, <2>2 DEF Handling
  <1>6a. chan' = chan \/ \E m \in Packet : ToOthers(p, m)
    <2>1. chan' = chan \/ ToOthers(p, Header("READ"))  BY DEF FuseOpen
    <2> QED  BY <2>1, PacketFacts
  <1>7. chan' \in [Ranks -> [Ranks -> Seq(Packet)]]
    BY <1>6a, SendType DEF Kinds
  <1>8. Kinds'  BY <1>4, <1>6, <1>7 DEF Kinds
  <1>9. Agreed' /\ Contributed'  BY <1>4, CallsStay
  <1>10. Entered'  BY <1>4, <1>6, EnteredStays
  <1>11. Buffered'  BY <1>4, <1>6, BufferedStays DEF buffer
  <1>12. OtherRoot'  BY <1>4, <1>6a, OtherRootStays
  <1> QED  BY <1>5, <1>8, <1>9, <1>10, <1>11, <1>12

LEMMA WriteType ==
    ASSUME TypeInv, NEW p \in Ranks, NEW f \in Inodes, NEW off \in Nat, NEW data \in Payloads,
           FuseWrite(p, f, off, data)
    PROVE  TypeInv'
  <1> USE DEF TypeInv
  <1> DEFINE newSize == off + Len(data)
             held == IF m_buf[p][f] = NoBuf THEN <<>> ELSE m_buf[p][f]
             room == IF newSize > st_blocks[p][f] THEN Items(held, newSize, Garbage) ELSE held
             buf == [i \in DOMAIN room |->
                        IF i \in off + 1 .. newSize THEN data[i - off] ELSE room[i]]
  <1>1. data \in Seq(Block) /\ Len(data) \in Nat /\ newSize \in Nat
    BY P2PDataAssumption
  <1>2. room \in Content
    <2>1. m_buf[p][f] \in Content \cup {NoBuf}  BY DEF TypeOK, PerFile
    <2>2. held \in Content  BY <2>1 DEF Content
    <2> HIDE DEF held, newSize
    <2>3. Items(held, newSize, Garbage) \in Content  BY <1>1, <2>2, ItemsType DEF Content
    <2> QED  BY <2>2, <2>3
  <1>3. buf \in Content
    <2>1. DOMAIN room = 1 .. Len(room) /\ Len(room) \in Nat
      <3> HIDE DEF room
      <3> QED  BY <1>2, LenProperties DEF Content
    <2>2. ASSUME NEW i \in 1 .. Len(room)
          PROVE  (IF i \in off + 1 .. newSize THEN data[i - off] ELSE room[i])
                     \in Block \cup {Garbage}
      <3>1. i \in off + 1 .. newSize => i - off \in 1 .. Len(data)  BY <1>1
      <3>2. i \in off + 1 .. newSize => data[i - off] \in Block  BY <1>1, <3>1, ElementOfSeq
      <3> HIDE DEF room, newSize
      <3>3. room[i] \in Block \cup {Garbage}  BY <1>2, ElementOfSeq DEF Content
      <3> QED  BY <3>2, <3>3
    <2> DEFINE e(i) == IF i \in off + 1 .. newSize THEN data[i - off] ELSE room[i]
               len == Len(room)
    <2>3. buf = [i \in 1 .. len |-> e(i)] /\ len \in Nat
          /\ \A i \in 1 .. len : e(i) \in Block \cup {Garbage}
      BY <2>1, <2>2
    <2> HIDE DEF buf, e, len
    <2> QED  BY <2>3 DEF Content
  <1> HIDE DEF buf
  <1>4. m_buf' \in PerFile(Content \cup {NoBuf})
    <2>1. m_buf' = [m_buf EXCEPT ![p][f] = buf]  BY DEF FuseWrite, buf
    <2>2. m_buf \in PerFile(Content \cup {NoBuf})  BY DEF TypeOK
    <2> QED  BY <1>3, <2>1, <2>2, PerFileType
  <1>5. waiting' \in PerFile(BOOLEAN)
    <2>1. waiting' = [waiting EXCEPT ![p][f] = TRUE]  BY DEF FuseWrite
    <2>2. waiting \in PerFile(BOOLEAN)  BY DEF TypeOK
    <2>3. TRUE \in BOOLEAN  OBVIOUS
    <2> QED  BY <2>1, <2>2, <2>3, PerFileType
  <1>6. st_size' \in PerFile(Nat) /\ st_blocks' \in PerFile(Nat)
    <2>1. st_size \in PerFile(Nat) /\ st_blocks \in PerFile(Nat)  BY DEF TypeOK
    <2>2. st_size[p][f] \in Nat /\ st_blocks[p][f] \in Nat  BY <2>1 DEF PerFile
    <2>3. Max(st_size[p][f], newSize) \in Nat /\ Max(st_blocks[p][f], newSize) \in Nat
      BY <1>1, <2>2, MaxType
    <2>4. /\ st_size' = [st_size EXCEPT ![p][f] = Max(st_size[p][f], newSize)]
          /\ st_blocks' = [st_blocks EXCEPT ![p][f] = Max(st_blocks[p][f], newSize)]
      BY DEF FuseWrite
    <2> HIDE DEF newSize
    <2> QED  BY <2>1, <2>3, <2>4, PerFileType
  <1>7. fault' \in {"none", "overflow", "message", "collective"}
    BY DEF FuseWrite, TypeOK
  <1>8. UNCHANGED <<handle, origin, orderly, blocks, fuse, loop, mpi, unmountFromThread, told>>
    BY DEF FuseWrite
  <1>9. TypeOK'
    BY <1>4, <1>5, <1>6, <1>7, <1>8 DEF TypeOK, blocks, told
  <1>10. Kinds'  BY <1>8 DEF Kinds, mpi
  <1>11. Agreed' /\ Contributed'  BY <1>8, CallsStay DEF mpi
  <1>12. Entered'  BY <1>8, EnteredStays DEF mpi
  <1>13. Buffered'
    <2>1. fuse[p].at = "idle"  BY DEF FuseWrite, Idle, At
    <2>2. m_buf \in PerFile(Content \cup {NoBuf})  BY DEF TypeOK
    <2>3. \A q \in Ranks \ {p} : m_buf'[q] = m_buf[q]  BY <2>2 DEF FuseWrite, PerFile
    <2> QED  BY <1>8, <2>1, <2>3, BufferedStays
  <1>14. OtherRoot'  BY <1>8, OtherRootStays DEF mpi
  <1> QED  BY <1>9, <1>10, <1>11, <1>12, <1>13, <1>14

LEMMA FlushType ==
    ASSUME TypeInv, NEW p \in Ranks, NEW f \in Inodes, FuseFlush(p, f)
    PROVE  TypeInv'
  <1> USE DEF TypeInv
  <1>1. handle' \in PerFile(Modes \cup {"closed"})
    <2>1. handle \in PerFile(Modes \cup {"closed"})  BY DEF TypeOK
    <2>2. handle' = [handle EXCEPT ![p][f] = "closed"] /\ "closed" \in Modes \cup {"closed"}
      BY DEF FuseFlush
    <2> QED  BY <2>1, <2>2, PerFileType
  <1>2. m_buf' \in PerFile(Content \cup {NoBuf})
    <2>1. m_buf \in PerFile(Content \cup {NoBuf}) /\ NoBuf \in Content \cup {NoBuf}
      BY DEF TypeOK
    <2>2. m_buf' \in {m_buf, [m_buf EXCEPT ![p][f] = NoBuf]}  BY DEF FuseFlush, buffer
    <2> QED  BY <2>1, <2>2, PerFileType
  <1>3. origin' \in Ranks /\ orderly' \in BOOLEAN  BY DEF FuseFlush, Comes, TypeOK
  <1>4. UNCHANGED <<attrs, waiting, blocks, loop, calls, unmountFromThread, told, fault>>
    BY DEF FuseFlush, buffer
  <1>5. TypeOK'
    BY <1>1, <1>2, <1>3, <1>4 DEF TypeOK, attrs, blocks, told
  <1>6. /\ fuse' \in [Ranks -> FusePlace]
        /\ \A q \in Ranks : fuse'[q].at \in {"allgather", "gather"} => fuse'[q] = fuse[q]
    <2>1. fuse \in [Ranks -> FusePlace] /\ Handling("write", f) \in FusePlace
      BY PlaceTypes DEF Kinds
    <2>2. fuse' \in {fuse, [fuse EXCEPT ![p] = Handling("write", f)]}  BY DEF FuseFlush
    <2> QED  BY <2>1, <2>2 DEF Handling
  <1>6a. chan' = chan \/ \E m \in Packet : ToOthers(p, m)
    <2>1. chan' = chan \/ ToOthers(p, Header("WRITE"))  BY DEF FuseFlush
    <2> QED  BY <2>1, PacketFacts
  <1>7. chan' \in [Ranks -> [Ranks -> Seq(Packet)]]
    BY <1>6a, SendType DEF Kinds
  <1>8. Kinds'  BY <1>4, <1>6, <1>7 DEF Kinds
  <1>9. Agreed' /\ Contributed'  BY <1>4, CallsStay
  <1>10. Entered'  BY <1>4, <1>6, EnteredStays
  <1>11. Buffered'
    <2> SUFFICES ASSUME NEW q \in Ranks, fuse'[q].at = "write"
                 PROVE  m_buf'[q][fuse'[q].ino] # NoBuf
      BY DEF Buffered
    <2>1. fuse[p].at = "idle" /\ fuse \in [Ranks -> FusePlace]
      BY DEF FuseFlush, Idle, At, Kinds
    <2>2. m_buf \in PerFile(Content \cup {NoBuf})  BY DEF TypeOK
    <2>3. CASE m_buf[p][f] # NoBuf /\ waiting[p][f]
      <3>1. fuse' = [fuse EXCEPT ![p] = Handling("write", f)] /\ m_buf' = m_buf
        BY <2>3 DEF FuseFlush, buffer
      <3> QED  BY <2>1, <2>3, <3>1 DEF Buffered, Handling
    <2>4. CASE ~ (m_buf[p][f] # NoBuf /\ waiting[p][f])
      <3>1. fuse' = fuse /\ m_buf' = [m_buf EXCEPT ![p][f] = NoBuf]
        BY <2>4 DEF FuseFlush
      <3> QED  BY <2>1, <2>2, <3>1 DEF Buffered, PerFile
    <2> QED  BY <2>3, <2>4
  <1>12. OtherRoot'  BY <1>4, <1>6a, OtherRootStays
  <1> QED  BY <1>5, <1>8, <1>9, <1>10, <1>11, <1>12

LEMMA UnmountType ==
    ASSUME TypeInv, NEW p \in Ranks, Unmount(p)
    PROVE  TypeInv'
  <1> USE DEF TypeInv
  <1>1. UNCHANGED <<attrs, buffer, blocks, loop, mpi, unmountFromThread, told, handle, ops, fault>>
        /\ fuse' = [fuse EXCEPT ![p] = At("unmounted")]
    BY DEF Unmount
  <1>2. origin' \in Ranks /\ orderly' \in BOOLEAN  BY DEF Unmount, Comes, TypeOK
  <1>3. TypeOK'  BY <1>1, <1>2 DEF TypeOK, attrs, buffer, blocks, told
  <1>4. /\ fuse' \in [Ranks -> FusePlace]
        /\ \A q \in Ranks : fuse'[q].at \in {"write", "allgather", "gather"} => fuse'[q] = fuse[q]
    BY <1>1, PlaceTypes DEF Kinds, At
  <1>5. Kinds'  BY <1>1, <1>4 DEF Kinds, mpi
  <1>6. Agreed' /\ Contributed'  BY <1>1, CallsStay DEF mpi
  <1>7. Entered'  BY <1>1, <1>4, EnteredStays DEF mpi
  <1>8. Buffered'  BY <1>1, <1>4, BufferedStays DEF buffer
  <1>9. OtherRoot'  BY <1>1, OtherRootStays DEF mpi
  <1> QED  BY <1>3, <1>5, <1>6, <1>7, <1>8, <1>9

\* The FUSE thread enters a collective and leaves it.
LEMMA EnteredGrows ==
    ASSUME Entered, NEW p \in Ranks, NEW c, calls'[p] # <<>>, Current(p)' = c,
           \A q \in Ranks \ {p} :
               calls'[q] = calls[q] /\ fuse'[q] = fuse[q] /\ loop'[q] = loop[q],
           fuse'[p].at \in {"allgather", "gather"} =>
               /\ loop'[p].at # "allgather"
               /\ c.op = (IF fuse'[p].at = "gather" THEN "READ" ELSE "WRITE"),
           loop'[p].at = "allgather" => c.op = "WRITE"
    PROVE  Entered'
  <1> SUFFICES ASSUME NEW q \in Ranks
               PROVE  /\ fuse'[q].at \in {"allgather", "gather"} =>
                            /\ calls'[q] # <<>> /\ loop'[q].at # "allgather"
                            /\ Current(q)'.op = (IF fuse'[q].at = "gather" THEN "READ" ELSE "WRITE")
                      /\ loop'[q].at = "allgather" =>
                            calls'[q] # <<>> /\ Current(q)'.op = "WRITE"
    BY DEF Entered
  <1>1. CASE q = p  BY <1>1
  <1>2. CASE q # p
    <2>1. Current(q)' = Current(q)  BY <1>2 DEF Current
    <2> QED  BY <1>2, <2>1 DEF Entered
  <1> QED  BY <1>1, <1>2

LEMMA RootFacts ==
    ASSUME TypeInv, NEW p \in Ranks, fuse[p].at \in {"write", "allgather", "read", "gather"}
    PROVE  /\ fuse[p].ino \in Inodes /\ st_size[p][fuse[p].ino] \in Nat
           /\ list[p][fuse[p].ino] \in Seq(Nat)
           /\ m_buf[p][fuse[p].ino] \in Content \cup {NoBuf}
  <1>1. fuse[p].ino \in Inodes  BY PlaceFacts DEF TypeInv
  <1> QED  BY <1>1 DEF TypeInv, TypeOK, PerFile

\* What m_buf holds, and what lies beyond it; of the null pointer, anything.
LEMMA BufferItems ==
    ASSUME NEW b \in Content \cup {NoBuf}, NEW n \in Nat, b # NoBuf
    PROVE  Items(b, n, Garbage) \in Content /\ Len(Items(b, n, Garbage)) = n
  BY ItemsType DEF Content

\* RootWrite.
LEMMA RootWriteType == ASSUME TypeInv, NEW p \in Ranks, RootWrite(p) PROVE TypeInv'
  <1> USE DEF TypeInv
  <1> DEFINE f   == fuse[p].ino
             n   == st_size[p][f]
             buf == Items(m_buf[p][f], n, Garbage)
             own == Share(buf, n, p)
             c   == Call("WRITE", p, f, n, buf, NewAddresses(p, own))
  <1>1. fuse[p].at = "write" /\ ~ Crossing(p, loop[p], "WRITE", p, n)
        /\ ToOthers(p, IORequest(f, n)) /\ Enter(p, c)
        /\ mem' = [mem EXCEPT ![p] = mem[p] \o own]
        /\ fuse' = [fuse EXCEPT ![p] = Handling("allgather", f)]
        /\ UNCHANGED <<attrs, buffer, list, loop, unmountFromThread, told, users, fault>>
    BY Zenon DEF RootWrite
  <1>2. f \in Inodes /\ n \in Nat /\ m_buf[p][f] \in Content \cup {NoBuf} /\ m_buf[p][f] # NoBuf
    BY Zenon, <1>1, RootFacts DEF Buffered
  <1>3. buf \in Content /\ n = Len(buf)  BY <1>2, BufferItems
  <1> HIDE DEF f, n, buf
  <1>4. own \in Content /\ Len(own) = Count(n, p)  BY <1>2, <1>3, ShareOfItems DEF Content
  <1> HIDE DEF own
  <1>5. NewAddresses(p, own) \in Seq(Nat) /\ Len(NewAddresses(p, own)) = Len(own)
    BY <1>4, NewAddressesType
  <1>6. c \in Entry  BY <1>2, <1>3, <1>5 DEF Call, Entry
  <1>7. c.op = "WRITE" /\ c.root = p /\ c.n = n /\ Len(c.up) = Count(c.n, p) /\ c.down = buf
    BY <1>4, <1>5 DEF Call
  <1> HIDE DEF c
  <1>8. /\ ~ Inside(loop[p])
        /\ \A q \in Ranks : NextCall(p) <= Len(calls[q]) =>
               Same(calls[q][NextCall(p)], c.op, c.root, c.n)
    BY <1>1, <1>7 DEF Crossing
  <1>9. /\ calls' \in [Ranks -> Seq(Entry)] /\ Agreed' /\ Contributed'
        /\ calls'[p] # <<>> /\ Current(p)' = c
        /\ \A q \in Ranks \ {p} : calls'[q] = calls[q]
    BY <1>1, <1>3, <1>6, <1>7, <1>8, EnterStep
  <1>10. /\ fuse' \in [Ranks -> FusePlace] /\ fuse'[p].at = "allgather"
         /\ \A q \in Ranks \ {p} : fuse'[q] = fuse[q]
    <2>1. Handling("allgather", f) \in FusePlace  BY <1>2, PlaceTypes
    <2> QED  BY <1>1, <2>1 DEF Kinds, Handling
  <1>11. loop'[p].at # "allgather"  BY <1>1, <1>8 DEF Inside
  <1>12. Entered'
    <2>1. \A q \in Ranks \ {p} : loop'[q] = loop[q]  BY <1>1
    <2> QED  BY <1>7, <1>9, <1>10, <1>11, <2>1, EnteredGrows
  <1>13. Buffered'  BY <1>1, <1>10, BufferedStays DEF buffer
  <1>14. chan' \in [Ranks -> [Ranks -> Seq(Packet)]]
    <2>1. IORequest(f, n) \in Packet  BY <1>2, PacketFacts
    <2> QED  BY <1>1, <2>1, SendType
  <1>15. mem' \in [Ranks -> Content]
    <2>1. mem[p] \o own \in Content /\ mem \in [Ranks -> Content]
      BY <1>4 DEF TypeOK, Content
    <2> QED  BY <1>1, <2>1
  <1>16. TypeOK'  BY <1>1, <1>15 DEF TypeOK, attrs, buffer, told, users
  <1>17. Kinds'  BY <1>1, <1>9, <1>10, <1>14 DEF Kinds
  <1>18. OtherRoot'  BY <1>1, <1>2, PacketFacts, OtherRootStays
  <1> QED  BY <1>9, <1>12, <1>13, <1>16, <1>17, <1>18

\* RootRead.
LEMMA RootReadType == ASSUME TypeInv, NEW p \in Ranks, RootRead(p) PROVE TypeInv'
  <1> USE DEF TypeInv
  <1> DEFINE f         == fuse[p].ino
             n         == st_size[p][f]
             addresses == Items(list[p][f], n, 0)
             own       == FetchAll(p, Share(addresses, n, p))
             c         == Call("READ", p, f, n, addresses, own)
  <1>1. fuse[p].at = "read" /\ ToOthers(p, IORequest(f, n))
        /\ UNCHANGED <<attrs, waiting, blocks, loop, unmountFromThread, stored, users, fault>>
    BY DEF RootRead
  <1>2. f \in Inodes /\ n \in Nat /\ list[p][f] \in Seq(Nat)  BY <1>1, RootFacts
  <1>3. chan' \in [Ranks -> [Ranks -> Seq(Packet)]]
    <2>1. IORequest(f, n) \in Packet  BY <1>2, PacketFacts
    <2> QED  BY <1>1, <2>1, SendType
  <1>3a. OtherRoot'  BY <1>1, <1>2, PacketFacts, OtherRootStays
  <1>4. CASE n = 0
    <2>1. /\ m_buf' = [m_buf EXCEPT ![p][f] = NoBuf] /\ result' = <<>>
          /\ fuse' = [fuse EXCEPT ![p] = At("idle")] /\ calls' = calls
      BY <1>4 DEF RootRead
    <2>2. m_buf' \in PerFile(Content \cup {NoBuf})
      <3>1. m_buf \in PerFile(Content \cup {NoBuf}) /\ NoBuf \in Content \cup {NoBuf}
        BY DEF TypeOK
      <3> QED  BY <1>2, <2>1, <3>1, PerFileType
    <2>3. result' \in Content  BY <2>1 DEF Content
    <2>4. TypeOK'  BY <1>1, <2>2, <2>3 DEF TypeOK, attrs, blocks, users
    <2>5. /\ fuse' \in [Ranks -> FusePlace] /\ fuse'[p].at = "idle"
          /\ \A q \in Ranks \ {p} : fuse'[q] = fuse[q]
      BY <2>1, PlaceTypes DEF Kinds, At
    <2>6. Kinds'  BY <1>1, <1>3, <2>1, <2>5 DEF Kinds
    <2>7. Agreed' /\ Contributed'  BY <2>1, CallsStay
    <2>8. Entered'  BY <1>1, <2>1, <2>5, EnteredStays
    <2>9. Buffered'
      <3>1. m_buf \in PerFile(Content \cup {NoBuf})  BY DEF TypeOK
      <3>2. \A q \in Ranks \ {p} : m_buf'[q] = m_buf[q]  BY <2>1, <3>1 DEF PerFile
      <3> QED  BY <2>5, <3>2, BufferedStays
    <2> QED  BY <1>3a, <2>4, <2>6, <2>7, <2>8, <2>9
  <1>5. CASE n # 0
    <2>1. /\ ~ Crossing(p, loop[p], "READ", p, n) /\ Enter(p, c)
          /\ fuse' = [fuse EXCEPT ![p] = Handling("gather", f)]
          /\ UNCHANGED <<m_buf, result>>
      BY <1>5 DEF RootRead
    <2>2. addresses \in Seq(Nat) /\ Len(addresses) = n
      <3>1. 0 \in Nat  OBVIOUS
      <3> QED  BY <1>2, <3>1, ItemsType
    <2> HIDE DEF f, n, addresses
    <2>3. Share(addresses, n, p) \in Seq(Nat) /\ Len(Share(addresses, n, p)) = Count(n, p)
      BY <2>2, ShareOfItems
    <2>4. own \in Content /\ Len(own) = Count(n, p)  BY <2>3, FetchAllType
    <2> HIDE DEF own
    <2>5. c \in Entry  BY <1>2, <2>2, <2>4 DEF Call, Entry
    <2>6. /\ c.op = "READ" /\ c.root = p /\ c.n = n /\ Len(c.up) = Count(c.n, p)
          /\ c.down = addresses
      BY <2>4 DEF Call
    <2> HIDE DEF c
    <2>7. /\ ~ Inside(loop[p])
          /\ \A q \in Ranks : NextCall(p) <= Len(calls[q]) =>
                 Same(calls[q][NextCall(p)], c.op, c.root, c.n)
      BY <2>1, <2>6 DEF Crossing
    <2>8. /\ calls' \in [Ranks -> Seq(Entry)] /\ Agreed' /\ Contributed'
          /\ calls'[p] # <<>> /\ Current(p)' = c
          /\ \A q \in Ranks \ {p} : calls'[q] = calls[q]
      BY <2>1, <2>2, <2>5, <2>6, <2>7, EnterStep
    <2>9. /\ fuse' \in [Ranks -> FusePlace] /\ fuse'[p].at = "gather"
          /\ \A q \in Ranks \ {p} : fuse'[q] = fuse[q]
      <3>1. Handling("gather", f) \in FusePlace  BY <1>2, PlaceTypes
      <3> QED  BY <2>1, <3>1 DEF Kinds, Handling
    <2>10. loop'[p].at # "allgather"  BY <1>1, <2>7 DEF Inside
    <2>11. Entered'
      <3>1. \A q \in Ranks \ {p} : loop'[q] = loop[q]  BY <1>1
      <3> QED  BY <2>6, <2>8, <2>9, <2>10, <3>1, EnteredGrows
    <2>12. Buffered'  BY <2>1, <2>9, BufferedStays
    <2>13. TypeOK'  BY <1>1, <2>1 DEF TypeOK, attrs, blocks, users
    <2>14. Kinds'  BY <1>1, <1>3, <2>8, <2>9 DEF Kinds
    <2> QED  BY <1>3a, <2>8, <2>11, <2>12, <2>13, <2>14
  <1> QED  BY <1>4, <1>5

\* RootWritten.
LEMMA RootWrittenType == ASSUME TypeInv, NEW p \in Ranks, RootWritten(p) PROVE TypeInv'
  <1> USE DEF TypeInv
  <1> DEFINE f == fuse[p].ino
             new == UpdateList(list[p][f], Gathered(p))
  <1>1. /\ fuse[p].at = "allgather" /\ AllIn(p)
        /\ list' = [list EXCEPT ![p][f] = new]
        /\ waiting' = [waiting EXCEPT ![p][f] = FALSE]
        /\ m_buf' = [m_buf EXCEPT ![p][f] = NoBuf]
        /\ stored' = [stored EXCEPT ![f] = Current(p).n]
        /\ fuse' = [fuse EXCEPT ![p] = At("idle")]
        /\ UNCHANGED <<attrs, mem, loop, mpi, unmountFromThread, result, users, fault>>
    BY DEF RootWritten
  <1>2. f \in Inodes /\ list[p][f] \in Seq(Nat)  BY <1>1, RootFacts
  <1>3. calls[p] # <<>> /\ Current(p).op = "WRITE"  BY <1>1 DEF Entered
  <1>4. Current(p) \in Entry /\ Gathered(p) \in Seq(Nat)  BY <1>1, <1>3, GatheredType
  <1>5. Current(p).n \in Nat /\ new \in Seq(Nat)
    BY <1>2, <1>4, EntryFacts, UpdateListType
  <1> HIDE DEF f, new
  <1>6. list' \in PerFile(Seq(Nat))
    <2>1. list \in PerFile(Seq(Nat))  BY DEF TypeOK
    <2> QED  BY <1>1, <1>2, <1>5, <2>1, PerFileType
  <1>7. waiting' \in PerFile(BOOLEAN)
    <2>1. waiting \in PerFile(BOOLEAN) /\ FALSE \in BOOLEAN  BY DEF TypeOK
    <2> QED  BY <1>1, <1>2, <2>1, PerFileType
  <1>8. m_buf' \in PerFile(Content \cup {NoBuf})
    <2>1. m_buf \in PerFile(Content \cup {NoBuf}) /\ NoBuf \in Content \cup {NoBuf}
      BY DEF TypeOK
    <2> QED  BY <1>1, <1>2, <2>1, PerFileType
  <1>9. stored' \in [Inodes -> Nat]  BY <1>1, <1>2, <1>5 DEF TypeOK
  <1>10. TypeOK'  BY <1>1, <1>6, <1>7, <1>8, <1>9 DEF TypeOK, attrs, users
  <1>11. /\ fuse' \in [Ranks -> FusePlace] /\ fuse'[p].at = "idle"
         /\ \A q \in Ranks \ {p} : fuse'[q] = fuse[q]
    BY <1>1, PlaceTypes DEF Kinds, At
  <1>12. Kinds'  BY <1>1, <1>11 DEF Kinds, mpi
  <1>13. Agreed' /\ Contributed'  BY <1>1, CallsStay DEF mpi
  <1>14. Entered'  BY <1>1, <1>11, EnteredStays DEF mpi
  <1>15. Buffered'
    <2>1. m_buf \in PerFile(Content \cup {NoBuf})  BY DEF TypeOK
    <2>2. \A q \in Ranks \ {p} : m_buf'[q] = m_buf[q]  BY <1>1, <2>1 DEF PerFile
    <2> QED  BY <1>11, <2>2, BufferedStays
  <1>16. OtherRoot'  BY <1>1, OtherRootStays DEF mpi
  <1> QED  BY <1>10, <1>12, <1>13, <1>14, <1>15, <1>16

\* RootLoaded.
LEMMA RootLoadedType == ASSUME TypeInv, NEW p \in Ranks, RootLoaded(p) PROVE TypeInv'
  <1> USE DEF TypeInv
  <1> DEFINE f == fuse[p].ino
  <1>1. /\ fuse[p].at = "gather" /\ AllIn(p)
        /\ m_buf' = [m_buf EXCEPT ![p][f] = Gathered(p)] /\ result' = Gathered(p)
        /\ fuse' = [fuse EXCEPT ![p] = At("idle")]
        /\ UNCHANGED <<attrs, waiting, blocks, loop, mpi, unmountFromThread, stored, users, fault>>
    BY DEF RootLoaded
  <1>2. f \in Inodes  BY <1>1, RootFacts
  <1>3. calls[p] # <<>> /\ Current(p).op = "READ"  BY <1>1 DEF Entered
  <1>4. Gathered(p) \in Content  BY <1>1, <1>3, GatheredType
  <1> HIDE DEF f
  <1>5. m_buf' \in PerFile(Content \cup {NoBuf})
    <2>1. m_buf \in PerFile(Content \cup {NoBuf}) /\ Gathered(p) \in Content \cup {NoBuf}
      BY <1>4 DEF TypeOK
    <2> QED  BY <1>1, <1>2, <2>1, PerFileType
  <1>6. TypeOK'  BY <1>1, <1>4, <1>5 DEF TypeOK, attrs, blocks, users
  <1>7. /\ fuse' \in [Ranks -> FusePlace] /\ fuse'[p].at = "idle"
        /\ \A q \in Ranks \ {p} : fuse'[q] = fuse[q]
    BY <1>1, PlaceTypes DEF Kinds, At
  <1>8. Kinds'  BY <1>1, <1>7 DEF Kinds, mpi
  <1>9. Agreed' /\ Contributed'  BY <1>1, CallsStay DEF mpi
  <1>10. Entered'  BY <1>1, <1>7, EnteredStays DEF mpi
  <1>11. Buffered'
    <2>1. m_buf \in PerFile(Content \cup {NoBuf})  BY DEF TypeOK
    <2>2. \A q \in Ranks \ {p} : m_buf'[q] = m_buf[q]  BY <1>1, <2>1 DEF PerFile
    <2> QED  BY <1>7, <2>2, BufferedStays
  <1>12. OtherRoot'  BY <1>1, OtherRootStays DEF mpi
  <1> QED  BY <1>6, <1>8, <1>9, <1>10, <1>11, <1>12

LEMMA SessionEndsType == ASSUME TypeInv, NEW p \in Ranks, SessionEnds(p) PROVE TypeInv'
  <1> USE DEF TypeInv
  <1>1. /\ chan' = chan \/ ToAll(p, Header("TERMINATE"))
        /\ fuse' = [fuse EXCEPT ![p] = At("ended")]
        /\ UNCHANGED <<attrs, buffer, blocks, loop, calls, unmountFromThread, told, users, fault>>
    BY DEF SessionEnds
  <1>1a. \A r \in Ranks : \A k \in 1 .. Len(chan'[r][r]) : chan'[r][r][k].kind # "io"
    <2> DEFINE m == Header("TERMINATE")
    <2> SUFFICES ASSUME NEW r \in Ranks, chan'[r][r] # chan[r][r],
                        NEW k \in 1 .. Len(chan'[r][r])
                 PROVE  chan'[r][r][k].kind # "io"
      BY DEF OtherRoot
    <2>1. m \in Packet /\ m.kind = "header"  BY PacketFacts DEF Header
    <2> HIDE DEF m
    <2>2. chan'[r][r] = Append(chan[r][r], m) /\ chan[r][r] \in Seq(Packet)
      BY Zenon, <1>1, <2>1, SendType DEF Kinds, m
    <2>3. /\ Len(chan[r][r]) \in Nat /\ Len(chan'[r][r]) = Len(chan[r][r]) + 1
          /\ \A i \in 1 .. Len(chan[r][r]) : chan'[r][r][i] = chan[r][r][i]
          /\ chan'[r][r][Len(chan[r][r]) + 1] = m
      BY <2>1, <2>2, AppendFacts
    <2>4. CASE k \in 1 .. Len(chan[r][r])  BY <2>3, <2>4 DEF OtherRoot
    <2>5. CASE k = Len(chan[r][r]) + 1  BY <2>1, <2>3, <2>5
    <2> QED  BY <2>3, <2>4, <2>5
  <1>2. chan' \in [Ranks -> [Ranks -> Seq(Packet)]]
    BY <1>1, PacketFacts, SendType DEF Kinds
  <1>3. TypeOK'  BY <1>1 DEF TypeOK, attrs, buffer, blocks, told, users
  <1>4. /\ fuse' \in [Ranks -> FusePlace] /\ fuse'[p].at = "ended"
        /\ \A q \in Ranks \ {p} : fuse'[q] = fuse[q]
    BY <1>1, PlaceTypes DEF Kinds, At
  <1>5. Kinds'  BY <1>1, <1>2, <1>4 DEF Kinds
  <1>6. Agreed' /\ Contributed'  BY <1>1, CallsStay
  <1>7. Entered'  BY <1>1, <1>4, EnteredStays
  <1>8. Buffered'  BY <1>1, <1>4, BufferedStays DEF buffer
  <1>9. OtherRoot'  BY <1>1, <1>1a DEF OtherRoot
  <1> QED  BY <1>3, <1>5, <1>6, <1>7, <1>8, <1>9

\* The second thread: its messages,
LEMMA ReceiveHeaderType == ASSUME TypeInv, NEW r \in Ranks, ReceiveHeader(r) PROVE TypeInv'
  <1> USE DEF TypeInv
  <1>1. PICK s \in Ranks : LET m == Head(chan[s][r]) IN
           /\ Receive(r, s, m)
           /\ IF m.kind = "io"
                THEN fault' = "message" /\ UNCHANGED <<loop, unmountFromThread>>
                ELSE /\ loop' = [loop EXCEPT ![r] =
                            CASE m.op # "TERMINATE"         -> [at |-> "io", op |-> m.op]
                              [] m.op = "TERMINATE" /\ s = r -> At("stopped")
                              [] m.op = "TERMINATE" /\ s # r -> At("unmounting")]
                     /\ unmountFromThread' = [unmountFromThread EXCEPT ![r] =
                            @ \/ (m.op = "TERMINATE" /\ s # r)]
                     /\ UNCHANGED fault
    BY DEF ReceiveHeader
  <1> DEFINE m == Head(chan[s][r])
  <1>2. UNCHANGED <<attrs, buffer, blocks, fuse, calls, told, users>>
    BY DEF ReceiveHeader
  <1>3. Receive(r, s, m)  BY <1>1
  <1>4. m \in Packet /\ chan' \in [Ranks -> [Ranks -> Seq(Packet)]]  BY <1>3, ReceiveType
  <1> HIDE DEF m
  <1>5. /\ loop' \in [Ranks -> LoopPlace] /\ unmountFromThread' \in [Ranks -> BOOLEAN]
        /\ fault' \in {"none", "overflow", "message", "collective"}
        /\ \A q \in Ranks : loop'[q].at \in {"scatter", "allgather"} => loop'[q] = loop[q]
    <2>0. loop \in [Ranks -> LoopPlace] /\ unmountFromThread \in [Ranks -> BOOLEAN]
          /\ fault \in {"none", "overflow", "message", "collective"}
      BY DEF Kinds, TypeOK
    <2>1. CASE m.kind = "io"
      <3>1. fault' = "message" /\ loop' = loop /\ unmountFromThread' = unmountFromThread
        BY <1>1, <2>1 DEF m
      <3> QED  BY <2>0, <3>1
    <2>2. CASE m.kind # "io"
      <3>1. m.op \in Ops \cup {"TERMINATE"}  BY <1>4, <2>2, PacketFacts
      <3>2. /\ loop' = [loop EXCEPT ![r] =
                  CASE m.op # "TERMINATE"         -> [at |-> "io", op |-> m.op]
                    [] m.op = "TERMINATE" /\ s = r -> At("stopped")
                    [] m.op = "TERMINATE" /\ s # r -> At("unmounting")]
            /\ unmountFromThread' = [unmountFromThread EXCEPT ![r] =
                  unmountFromThread[r] \/ (m.op = "TERMINATE" /\ s # r)]
            /\ fault' = fault
        BY <1>1, <2>2 DEF m
      <3>3. \/ m.op \in Ops /\ loop' = [loop EXCEPT ![r] = [at |-> "io", op |-> m.op]]
            \/ loop' = [loop EXCEPT ![r] = At("stopped")]
            \/ loop' = [loop EXCEPT ![r] = At("unmounting")]
        BY <3>1, <3>2
      <3>4. \E l \in LoopPlace : l.at \notin {"scatter", "allgather"} /\ loop' = [loop EXCEPT ![r] = l]
        BY <3>3, PlaceTypes DEF At
      <3>5. unmountFromThread' \in [Ranks -> BOOLEAN]
        <4>1. \A u \in [Ranks -> BOOLEAN] : \A v \in BOOLEAN : [u EXCEPT ![r] = v] \in [Ranks -> BOOLEAN]
          BY Zenon
        <4>2. (unmountFromThread[r] \/ (m.op = "TERMINATE" /\ s # r)) \in BOOLEAN  BY Zenon
        <4> QED  BY <2>0, <3>2, <4>1, <4>2, Zenon
      <3> QED  BY <2>0, <3>2, <3>4, <3>5
    <2> QED  BY <2>1, <2>2
  <1>6. TypeOK'  BY <1>2, <1>5 DEF TypeOK, attrs, buffer, blocks, told, users
  <1>7. Kinds'  BY <1>2, <1>4, <1>5 DEF Kinds
  <1>8. Agreed' /\ Contributed'  BY <1>2, CallsStay
  <1>9. Entered'  BY <1>2, <1>5, EnteredStays
  <1>10. Buffered'  BY <1>2, BufferedStays DEF buffer
  <1>11. OtherRoot'  
    <2>1. \A q \in Ranks : loop'[q].at = "scatter" => loop'[q] = loop[q]  BY <1>5
    <2>2. \A q \in Ranks : \A k \in 1 .. Len(chan'[q][q]) : chan'[q][q][k].kind # "io"
      BY <1>3, OwnChannelRest
    <2> QED  BY <2>1, <2>2 DEF OtherRoot
  <1> QED  BY <1>6, <1>7, <1>8, <1>9, <1>10, <1>11

LEMMA ReceiveIOType == ASSUME TypeInv, NEW r \in Ranks, ReceiveIO(r) PROVE TypeInv'
  <1> USE DEF TypeInv
  <1>1. PICK s \in Ranks : LET m == Head(chan[s][r]) IN
           /\ Receive(r, s, m)
           /\ IF m.kind = "header"
                THEN fault' = "message" /\ UNCHANGED loop
                ELSE /\ loop' = [loop EXCEPT ![r] =
                            IF loop[r].op = "READ" /\ m.size = 0
                              THEN At("header")
                              ELSE [at |-> "scatter", op |-> loop[r].op, root |-> s,
                                    ino |-> m.ino, size |-> m.size]]
                     /\ UNCHANGED fault
    BY DEF ReceiveIO
  <1> DEFINE m == Head(chan[s][r])
             l == [at |-> "scatter", op |-> loop[r].op, root |-> s, ino |-> m.ino, size |-> m.size]
  <1>2. /\ loop[r].at = "io"
        /\ UNCHANGED <<attrs, buffer, blocks, fuse, calls, unmountFromThread, told, users>>
    BY DEF ReceiveIO
  <1>3. Receive(r, s, m)  BY <1>1
  <1>4. m \in Packet /\ chan' \in [Ranks -> [Ranks -> Seq(Packet)]]  BY <1>3, ReceiveType
  <1>5. loop[r].op \in Ops  BY <1>2, PlaceFacts
  <1>5a. m.kind = "io" => s # r
    <2>1. m = chan[s][r][1] /\ chan[s][r] \in Seq(Packet) /\ chan[s][r] # <<>>
      BY <1>3, ReceiveType
    <2>2. 1 \in 1 .. Len(chan[s][r])  BY <2>1, EmptySeq
    <2> HIDE DEF m
    <2> QED  BY <2>1, <2>2 DEF OtherRoot
  <1>6. /\ loop' \in [Ranks -> LoopPlace]
        /\ fault' \in {"none", "overflow", "message", "collective"}
        /\ \A q \in Ranks : loop'[q].at = "allgather" => loop'[q] = loop[q]
        /\ \A q \in Ranks : loop'[q].at = "scatter" => loop'[q] = loop[q] \/ loop'[q].root # q
    <2>0. loop \in [Ranks -> LoopPlace] /\ fault \in {"none", "overflow", "message", "collective"}
      BY DEF Kinds, TypeOK
    <2>1. CASE m.kind = "header"
      <3>1. fault' = "message" /\ loop' = loop  BY <1>1, <2>1
      <3> QED  BY <2>0, <3>1
    <2>2. CASE m.kind # "header"
      <3>1. m.ino \in Inodes /\ m.size \in Nat /\ s # r
        <4> HIDE DEF m
        <4> QED  BY <1>4, <1>5a, <2>2, PacketFacts
      <3>2. fault' = fault /\ loop' \in {[loop EXCEPT ![r] = At("header")], [loop EXCEPT ![r] = l]}
        BY <1>1, <2>2
      <3> HIDE DEF m
      <3>3. l \in LoopPlace /\ l.at = "scatter" /\ l.root # r  BY <1>5, <3>1 DEF LoopPlace
      <3> HIDE DEF l
      <3> QED  BY <2>0, <3>2, <3>3, PlaceTypes DEF At
    <2> QED  BY <2>1, <2>2
  <1>7. TypeOK'  BY <1>2, <1>6 DEF TypeOK, attrs, buffer, blocks, told, users
  <1>8. Kinds'  BY <1>2, <1>4, <1>6 DEF Kinds
  <1>9. Agreed' /\ Contributed'  BY <1>2, CallsStay
  <1>10. Entered'  BY <1>2, <1>6, EnteredStays
  <1>11. Buffered'  BY <1>2, BufferedStays DEF buffer
  <1>12. OtherRoot'  
    <2>1. \A q \in Ranks : \A k \in 1 .. Len(chan'[q][q]) : chan'[q][q][k].kind # "io"
      BY <1>3, OwnChannelRest
    <2> QED  BY <1>6, <2>1 DEF OtherRoot
  <1> QED  BY <1>7, <1>8, <1>9, <1>10, <1>11, <1>12

\* its share of a scatter,
LEMMA ShareOfType ==
    ASSUME TypeInv, NEW r \in Ranks, NEW op \in Ops, Joins(r, op)
    PROVE  /\ ShareOf(r, loop[r].root, loop[r].size) \in (IF op = "WRITE" THEN Content ELSE Seq(Nat))
           /\ Len(ShareOf(r, loop[r].root, loop[r].size)) = Count(loop[r].size, r)
           /\ loop[r].op = op /\ loop[r].root \in Ranks /\ loop[r].ino \in Inodes
           /\ loop[r].size \in Nat
           /\ ~ Inside(fuse[r])
           /\ \A q \in Ranks : NextCall(r) <= Len(calls[q]) =>
                  Same(calls[q][NextCall(r)], op, loop[r].root, loop[r].size)
  <1> DEFINE root == loop[r].root
             n    == loop[r].size
             k    == NextCall(r)
             S    == IF op = "WRITE" THEN Block \cup {Garbage} ELSE Nat
  <1>1. Kinds /\ Contributed  BY DEF TypeInv
  <1>2. /\ loop[r].at = "scatter" /\ loop[r].op = op
        /\ ~ Crossing(r, fuse[r], op, root, n) /\ Scattered(r, root, n)
    BY DEF Joins
  <1>3. root \in Ranks /\ loop[r].ino \in Inodes /\ n \in Nat
    BY <1>1, <1>2, PlaceFacts
  <1> HIDE DEF root, n
  <1>4. /\ ~ Inside(fuse[r])
        /\ \A q \in Ranks : k <= Len(calls[q]) => Same(calls[q][k], op, root, n)
    BY <1>2 DEF Crossing
  <1>5. Count(n, r) \in Nat  BY <1>3, CountType
  <1>6. ShareOf(r, root, n) \in Seq(S) /\ Len(ShareOf(r, root, n)) = Count(n, r)
    <2>1. CASE Count(n, r) > 0
      <3>1. calls[r] \in Seq(Entry) /\ calls[root] \in Seq(Entry)  BY <1>1, <1>3 DEF Kinds
      <3>2. k \in 1 .. Len(calls[root])
        <4>1. k <= Len(calls[root])  BY <1>2, <2>1 DEF Scattered
        <4>2. Len(calls[r]) \in Nat /\ Len(calls[root]) \in Nat  BY <3>1, LenProperties
        <4> QED  BY <4>1, <4>2 DEF NextCall
      <3> HIDE DEF k
      <3>3. calls[root][k] \in Entry  BY <3>1, <3>2, ElementOfSeq
      <3>4. calls[root][k].op = op /\ calls[root][k].root = root /\ calls[root][k].n = n
        BY <1>3, <1>4, <3>2 DEF Same
      <3>5. Len(calls[root][k].down) = n  BY <1>1, <1>3, <3>2, <3>4 DEF Contributed
      <3>6. calls[root][k].down \in Seq(S)
        BY <3>3, <3>4, EntryFacts DEF Ops, Content
      <3> HIDE DEF S
      <3>7. /\ Share(calls[root][k].down, n, r) \in Seq(S)
            /\ Len(Share(calls[root][k].down, n, r)) = Count(n, r)
        BY <3>5, <3>6, ShareOfItems
      <3> QED  BY <2>1, <3>7 DEF ShareOf, k
    <2>2. CASE ~ (Count(n, r) > 0)
      <3>1. ShareOf(r, root, n) = <<>> /\ Count(n, r) = 0  BY <1>5, <2>2 DEF ShareOf
      <3>2. <<>> \in Seq(S) /\ Len(<<>>) = 0  OBVIOUS
      <3> QED  BY <3>1, <3>2
    <2> QED  BY <2>1, <2>2
  <1> QED  BY <1>2, <1>3, <1>4, <1>6 DEF S, root, n, Content

LEMMA JoinWriteType == ASSUME TypeInv, NEW r \in Ranks, JoinWrite(r) PROVE TypeInv'
  <1> USE DEF TypeInv
  <1> DEFINE io  == loop[r]
             own == ShareOf(r, io.root, io.size)
             c   == Call("WRITE", io.root, io.ino, io.size, <<>>, NewAddresses(r, own))
  <1>1. /\ Joins(r, "WRITE") /\ Enter(r, c) /\ mem' = [mem EXCEPT ![r] = mem[r] \o own]
        /\ loop' = [loop EXCEPT ![r] = [io EXCEPT !.at = "allgather"]]
        /\ UNCHANGED <<attrs, buffer, list, fuse, chan, unmountFromThread, told, users, fault>>
    BY DEF JoinWrite
  <1>2. /\ own \in Content /\ Len(own) = Count(io.size, r)
        /\ io.op = "WRITE" /\ io.root \in Ranks /\ io.ino \in Inodes /\ io.size \in Nat
        /\ ~ Inside(fuse[r])
        /\ \A q \in Ranks : NextCall(r) <= Len(calls[q]) =>
               Same(calls[q][NextCall(r)], "WRITE", io.root, io.size)
    <2>1. "WRITE" \in Ops  BY DEF Ops
    <2> QED  BY <1>1, <2>1, ShareOfType
  <1> HIDE DEF own
  <1>3. NewAddresses(r, own) \in Seq(Nat) /\ Len(NewAddresses(r, own)) = Len(own)
    BY <1>2, NewAddressesType
  <1>4. /\ c \in Entry /\ c.op = "WRITE" /\ c.root = io.root /\ c.n = io.size
        /\ Len(c.up) = Count(c.n, r) /\ c.down = <<>>
    <2>1. <<>> \in Content  BY DEF Content
    <2> QED  BY <1>2, <1>3, <2>1 DEF Call, Entry
  <1>5. loop[r].at = "scatter" /\ io.root # r  BY <1>1 DEF Joins, OtherRoot
  <1> HIDE DEF c
  <1>6. /\ calls' \in [Ranks -> Seq(Entry)] /\ Agreed' /\ Contributed'
        /\ calls'[r] # <<>> /\ Current(r)' = c
        /\ \A q \in Ranks \ {r} : calls'[q] = calls[q]
    BY <1>1, <1>2, <1>4, <1>5, EnterStep
  <1>7. /\ loop' \in [Ranks -> LoopPlace] /\ loop'[r].at = "allgather"
        /\ \A q \in Ranks \ {r} : loop'[q] = loop[q]
    <2>1. io \in [at : {"scatter", "allgather"}, op : Ops, root : Ranks, ino : Inodes, size : Nat]
      BY <1>5, PlaceFacts
    <2>2. [io EXCEPT !.at = "allgather"] \in LoopPlace /\ [io EXCEPT !.at = "allgather"].at = "allgather"
      BY <2>1 DEF LoopPlace
    <2> QED  BY <1>1, <2>2 DEF Kinds
  <1>8. Entered'
    <2>1. \A q \in Ranks \ {r} : fuse'[q] = fuse[q]  BY <1>1
    <2>2. fuse'[r].at \notin {"allgather", "gather"}  BY <1>1, <1>2 DEF Inside
    <2> QED  BY <1>4, <1>6, <1>7, <2>1, <2>2, EnteredGrows
  <1>9. mem' \in [Ranks -> Content]
    <2>1. mem[r] \o own \in Content /\ mem \in [Ranks -> Content]
      BY <1>2 DEF TypeOK, Content
    <2> QED  BY <1>1, <2>1
  <1>10. TypeOK'  BY <1>1, <1>9 DEF TypeOK, attrs, buffer, told, users
  <1>11. Kinds'  BY <1>1, <1>6, <1>7 DEF Kinds
  <1>12. Buffered'  BY <1>1, BufferedStays DEF buffer
  <1>13. OtherRoot'  BY <1>1, <1>7, OtherRootStays
  <1> QED  BY <1>6, <1>8, <1>10, <1>11, <1>12, <1>13

\* the addresses of all,
LEMMA JoinedType == ASSUME TypeInv, NEW r \in Ranks, Joined(r) PROVE TypeInv'
  <1> USE DEF TypeInv
  <1> DEFINE f == loop[r].ino
             new == UpdateList(list[r][f], Gathered(r))
  <1>1. /\ loop[r].at = "allgather" /\ AllIn(r)
        /\ list' = [list EXCEPT ![r][f] = new]
        /\ st_size' = [st_size EXCEPT ![r][f] = loop[r].size]
        /\ st_blocks' = [st_blocks EXCEPT ![r][f] = Len(list'[r][f])]
        /\ loop' = [loop EXCEPT ![r] = At("header")]
        /\ UNCHANGED <<buffer, mem, fuse, mpi, unmountFromThread, told, users, fault>>
    BY DEF Joined
  <1>2. f \in Inodes /\ loop[r].size \in Nat  BY <1>1, PlaceFacts
  <1>3. calls[r] # <<>> /\ Current(r).op = "WRITE"  BY <1>1 DEF Entered
  <1>4. Gathered(r) \in Seq(Nat)  BY <1>1, <1>3, GatheredType
  <1>5. new \in Seq(Nat)
    <2>1. list[r][f] \in Seq(Nat)  BY <1>2 DEF TypeOK, PerFile
    <2> QED  BY <1>4, <2>1, UpdateListType
  <1> HIDE DEF f, new
  <1>6. list' \in PerFile(Seq(Nat))
    <2>1. list \in PerFile(Seq(Nat))  BY DEF TypeOK
    <2> QED  BY <1>1, <1>2, <1>5, <2>1, PerFileType
  <1>7. st_size' \in PerFile(Nat)
    <2>1. st_size \in PerFile(Nat)  BY DEF TypeOK
    <2> QED  BY <1>1, <1>2, <2>1, PerFileType
  <1>8. st_blocks' \in PerFile(Nat)
    <2>1. st_blocks \in PerFile(Nat)  BY DEF TypeOK
    <2>2. list'[r][f] \in Seq(Nat)  BY <1>2, <1>6 DEF PerFile
    <2>3. Len(list'[r][f]) \in Nat  BY <2>2, LenProperties
    <2> QED  BY <1>1, <1>2, <2>1, <2>3, PerFileType
  <1>9. TypeOK'  BY <1>1, <1>6, <1>7, <1>8 DEF TypeOK, buffer, told, users
  <1>10. /\ loop' \in [Ranks -> LoopPlace] /\ loop'[r].at = "header"
         /\ \A q \in Ranks \ {r} : loop'[q] = loop[q]
    BY <1>1, PlaceTypes DEF Kinds, At
  <1>11. Kinds'  BY <1>1, <1>10 DEF Kinds, mpi
  <1>12. Agreed' /\ Contributed'  BY <1>1, CallsStay DEF mpi
  <1>13. Entered'  BY <1>1, <1>10, EnteredStays DEF mpi
  <1>14. Buffered'  BY <1>1, BufferedStays DEF buffer
  <1>15. OtherRoot'  BY <1>1, <1>10, OtherRootStays DEF mpi
  <1> QED  BY <1>9, <1>11, <1>12, <1>13, <1>14, <1>15

\* and its part in a read.
LEMMA JoinReadType == ASSUME TypeInv, NEW r \in Ranks, JoinRead(r) PROVE TypeInv'
  <1> USE DEF TypeInv
  <1> DEFINE io  == loop[r]
             got == ShareOf(r, io.root, io.size)
             own == FetchAll(r, got)
             c   == Call("READ", io.root, io.ino, io.size, <<>>, own)
  <1>1. /\ Joins(r, "READ") /\ Enter(r, c)
        /\ loop' = [loop EXCEPT ![r] = At("header")]
        /\ UNCHANGED <<attrs, buffer, blocks, fuse, chan, unmountFromThread, told, users, fault>>
    BY DEF JoinRead
  <1>2. /\ got \in Seq(Nat) /\ Len(got) = Count(io.size, r)
        /\ io.op = "READ" /\ io.root \in Ranks /\ io.ino \in Inodes /\ io.size \in Nat
        /\ ~ Inside(fuse[r])
        /\ \A q \in Ranks : NextCall(r) <= Len(calls[q]) =>
               Same(calls[q][NextCall(r)], "READ", io.root, io.size)
    <2>1. "READ" \in Ops /\ "READ" # "WRITE"  BY DEF Ops
    <2> QED  BY <1>1, <2>1, ShareOfType
  <1> HIDE DEF got
  <1>3. own \in Content /\ Len(own) = Count(io.size, r)  BY <1>2, FetchAllType
  <1> HIDE DEF own
  <1>4. /\ c \in Entry /\ c.op = "READ" /\ c.root = io.root /\ c.n = io.size
        /\ Len(c.up) = Count(c.n, r) /\ c.down = <<>>
    <2>1. <<>> \in Seq(Nat)  OBVIOUS
    <2> QED  BY <1>2, <1>3, <2>1 DEF Call, Entry
  <1>5. loop[r].at = "scatter" /\ io.root # r  BY <1>1 DEF Joins, OtherRoot
  <1> HIDE DEF c
  <1>6. /\ calls' \in [Ranks -> Seq(Entry)] /\ Agreed' /\ Contributed'
        /\ calls'[r] # <<>> /\ Current(r)' = c
        /\ \A q \in Ranks \ {r} : calls'[q] = calls[q]
    BY <1>1, <1>2, <1>4, <1>5, EnterStep
  <1>7. /\ loop' \in [Ranks -> LoopPlace] /\ loop'[r].at = "header"
        /\ \A q \in Ranks \ {r} : loop'[q] = loop[q]
    BY <1>1, PlaceTypes DEF Kinds, At
  <1>8. Entered'
    <2>1. \A q \in Ranks \ {r} : fuse'[q] = fuse[q]  BY <1>1
    <2>2. fuse'[r].at \notin {"allgather", "gather"}  BY <1>1, <1>2 DEF Inside
    <2> QED  BY <1>6, <1>7, <2>1, <2>2, EnteredGrows
  <1>9. TypeOK'  BY <1>1 DEF TypeOK, attrs, buffer, blocks, told, users
  <1>10. Kinds'  BY <1>1, <1>6, <1>7 DEF Kinds
  <1>11. Buffered'  BY <1>1, BufferedStays DEF buffer
  <1>12. OtherRoot'  BY <1>1, <1>7, OtherRootStays
  <1> QED  BY <1>6, <1>8, <1>9, <1>10, <1>11, <1>12

LEMMA UnmountFromThreadType ==
    ASSUME TypeInv, NEW r \in Ranks, UnmountFromThread(r)
    PROVE  TypeInv'
  <1> USE DEF TypeInv
  <1>1. /\ loop' = [loop EXCEPT ![r] = At("stopped")]
        /\ UNCHANGED <<attrs, buffer, blocks, mpi, unmountFromThread, told, users, fault>>
    BY DEF UnmountFromThread
  <1>2. /\ fuse' \in [Ranks -> FusePlace]
        /\ \A q \in Ranks : fuse'[q] = fuse[q] \/ fuse'[q].at = "unmounted"
    <2>1. fuse' = fuse \/ fuse' = [fuse EXCEPT ![r] = At("unmounted")]
      BY DEF UnmountFromThread, Kinds
    <2>2. fuse \in [Ranks -> FusePlace]  BY DEF Kinds
    <2>3. At("unmounted") \in FusePlace /\ At("unmounted").at = "unmounted"
      BY PlaceTypes DEF At
    <2>4. CASE fuse' = fuse  BY <2>2, <2>4
    <2>5. CASE fuse' = [fuse EXCEPT ![r] = At("unmounted")]  BY <2>2, <2>3, <2>5
    <2> QED  BY <2>1, <2>4, <2>5
  <1>3. /\ loop' \in [Ranks -> LoopPlace] /\ loop'[r].at = "stopped"
        /\ \A q \in Ranks \ {r} : loop'[q] = loop[q]
    BY <1>1, PlaceTypes DEF Kinds, At
  <1>4. TypeOK'  BY <1>1 DEF TypeOK, attrs, buffer, blocks, told, users
  <1>5. Kinds'  BY <1>1, <1>2, <1>3 DEF Kinds, mpi
  <1>6. Agreed' /\ Contributed'  BY <1>1, CallsStay DEF mpi
  <1>7. Entered'  BY <1>1, <1>2, <1>3, EnteredStays DEF mpi
  <1>8. Buffered'  BY <1>1, <1>2, BufferedStays DEF buffer
  <1>9. OtherRoot'  BY <1>1, <1>3, OtherRootStays DEF mpi
  <1> QED  BY <1>4, <1>5, <1>6, <1>7, <1>8, <1>9

LEMMA CrossedType == ASSUME TypeInv, NEW p \in Ranks, Crossed(p) PROVE TypeInv'
  <1> USE DEF TypeInv
  <1>1. /\ fault' = "collective"
        /\ UNCHANGED <<attrs, buffer, blocks, fuse, loop, mpi, unmountFromThread, told, users>>
    BY DEF Crossed
  <1>2. TypeOK'  BY <1>1 DEF TypeOK, attrs, buffer, blocks, told, users
  <1>3. Kinds'  BY <1>1 DEF Kinds, mpi
  <1>4. Agreed' /\ Contributed'  BY <1>1, CallsStay DEF mpi
  <1>5. Entered'  BY <1>1, EnteredStays DEF mpi
  <1>6. Buffered'  BY <1>1, BufferedStays DEF buffer
  <1>7. OtherRoot'  BY <1>1, OtherRootStays DEF mpi
  <1> QED  BY <1>2, <1>3, <1>4, <1>5, <1>6, <1>7

LEMMA RestType == ASSUME TypeInv, UNCHANGED vars PROVE TypeInv'
  <1> USE DEF TypeInv
  <1>1. UNCHANGED <<attrs, buffer, blocks, fuse, loop, mpi, unmountFromThread, told, users, fault>>
    BY DEF vars
  <1>2. TypeOK'  BY <1>1 DEF TypeOK, attrs, buffer, blocks, told, users
  <1>3. Kinds'  BY <1>1 DEF Kinds, mpi
  <1>4. Agreed' /\ Contributed'  BY <1>1, CallsStay DEF mpi
  <1>5. Entered'  BY <1>1, EnteredStays DEF mpi
  <1>6. Buffered'  BY <1>1, BufferedStays DEF buffer
  <1>7. OtherRoot'  BY <1>1 DEF OtherRoot, mpi
  <1> QED  BY <1>2, <1>3, <1>4, <1>5, <1>6, <1>7

\* A step of a user: the file and the mode or the data of the call.
LEMMA UserCases ==
    ASSUME TypeInv, NEW p \in Ranks, User(p)
    PROVE  \/ Unmount(p)
           \/ \E f \in Inodes : FuseFlush(p, f)
           \/ \E f \in Inodes, mode \in Modes : FuseOpen(p, f, mode)
           \/ \E f \in Inodes, off \in Nat, data \in Payloads : FuseWrite(p, f, off, data)
  <1>1. \A f \in Inodes : st_size[p][f] \in Nat  BY DEF TypeInv, TypeOK, PerFile
  <1>2. \A f \in Inodes : 0 .. st_size[p][f] \subseteq Nat  BY <1>1
  <1> QED  BY <1>2 DEF User

\* Type correctness, and that the collectives a process has entered are those of
\* the others as far as both have come, whatever users do.
THEOREM TypeInvariance == Spec => []TypeInv
  <1>1. Init => TypeInv  BY InitType
  <1>2. TypeInv /\ [Next]_vars => TypeInv'
    <2> SUFFICES ASSUME TypeInv, [Next]_vars PROVE TypeInv'  OBVIOUS
    <2>1. ASSUME NEW p \in Ranks, Session(p) PROVE TypeInv'
      BY <2>1, RootWriteType, RootWrittenType, RootReadType, RootLoadedType, SessionEndsType
      DEF Session
    <2>2. ASSUME NEW p \in Ranks, Second(p) PROVE TypeInv'
      BY <2>2, ReceiveHeaderType, ReceiveIOType, JoinWriteType, JoinedType, JoinReadType,
         UnmountFromThreadType
      DEF Second
    <2>3. ASSUME NEW p \in Ranks, User(p) PROVE TypeInv'
      BY <2>3, UserCases, UnmountType, FlushType, OpenType, WriteType
    <2>4. ASSUME UNCHANGED vars PROVE TypeInv'  BY <2>4, RestType
    <2> QED  BY <2>1, <2>2, <2>3, <2>4, CrossedType DEF Next, Rest
  <1> QED  BY <1>1, <1>2, PTL DEF Spec

\* The variables keep their types: what is kept or gathered as an address is one,
\* what is returned as a block is a block or Garbage.
THEOREM TypeCorrect == Spec => []TypeOK
  <1>1. TypeInv => TypeOK  BY DEF TypeInv
  <1> QED  BY <1>1, TypeInvariance, PTL

-----------------------------------------------------------------------------
(* What is under way from the root to another process, c, when it is used  *)
(* in an orderly way: headers and IORequests take turns, and those that    *)
(* make the process enter a collective are those that the root has entered *)
(* and the process has not.                                                *)

\* The operation whose IORequest is to come at place k; awaited is what the process
\* waits for before it takes the first.
OpBefore(c, awaited, k) ==
    IF k = 1 THEN awaited
    ELSE IF c[k - 1].kind = "header" /\ c[k - 1].op # "TERMINATE" THEN c[k - 1].op ELSE "none"

Alternates(c, awaited, last) ==
    /\ \A k \in 1 .. Len(c) : c[k].kind = "io" <=> OpBefore(c, awaited, k) # "none"
    /\ OpBefore(c, awaited, Len(c) + 1) = last

\* An IORequest m for op makes the process enter a collective.
Enters(m, op) == m.kind = "io" /\ ~ (op = "READ" /\ m.size = 0)

IsCall(e, op, root, m) == Same(e, op, root, m.size) /\ e.ino = m.ino

\* at[k] is how many collectives the process has entered when it has handled k
\* messages; s is what the root has entered.
Ahead(c, awaited, from, root, s, at) ==
    /\ at \in [0 .. Len(c) -> 0 .. Len(s)]
    /\ at[0] = from /\ at[Len(c)] = Len(s)
    /\ \A k \in 1 .. Len(c) :
          /\ at[k] = at[k - 1] + (IF Enters(c[k], OpBefore(c, awaited, k)) THEN 1 ELSE 0)
          /\ Enters(c[k], OpBefore(c, awaited, k)) =>
                IsCall(s[at[k]], OpBefore(c, awaited, k), root, c[k])

Leads(c, awaited, last, from, root, s) ==
    /\ Alternates(c, awaited, last)
    /\ \E at \in [0 .. Len(c) -> 0 .. Len(s)] : Ahead(c, awaited, from, root, s, at)

\* The root sends a message m, after it has entered what m asks for.
LEMMA LeadsAppend ==
    ASSUME NEW c \in Seq(Packet), NEW m \in Packet, NEW awaited, NEW last, NEW from, NEW root,
           NEW s \in Seq(Entry), NEW s2 \in Seq(Entry),
           Leads(c, awaited, last, from, root, s),
           m.kind = "io" <=> last # "none",
           Len(s2) = Len(s) + (IF Enters(m, last) THEN 1 ELSE 0),
           \A k \in 1 .. Len(s) : s2[k] = s[k],
           Enters(m, last) => IsCall(s2[Len(s2)], last, root, m)
    PROVE  Leads(Append(c, m), awaited,
                 IF m.kind = "header" /\ m.op # "TERMINATE" THEN m.op ELSE "none", from, root, s2)
  <1> DEFINE d == Append(c, m)
             n == Len(c)
             next == IF m.kind = "header" /\ m.op # "TERMINATE" THEN m.op ELSE "none"
  <1>1. /\ n \in Nat /\ Len(d) = n + 1 /\ d[n + 1] = m
        /\ \A k \in 1 .. n : d[k] = c[k]
    BY AppendFacts
  <1>2. Len(s) \in Nat /\ Len(s2) \in Nat  BY LenProperties
  <1>3. OpBefore(c, awaited, n + 1) = last
        /\ \A k \in 1 .. n : c[k].kind = "io" <=> OpBefore(c, awaited, k) # "none"
    BY DEF Leads, Alternates
  <1>4. PICK at \in [0 .. n -> 0 .. Len(s)] : Ahead(c, awaited, from, root, s, at)
    BY DEF Leads
  <1>5. /\ at[0] = from /\ at[n] = Len(s)
        /\ \A k \in 1 .. n :
              /\ at[k] = at[k - 1] + (IF Enters(c[k], OpBefore(c, awaited, k)) THEN 1 ELSE 0)
              /\ Enters(c[k], OpBefore(c, awaited, k)) =>
                    IsCall(s[at[k]], OpBefore(c, awaited, k), root, c[k])
    BY <1>4 DEF Ahead
  <1> HIDE DEF d, n
  <1>6. \A k \in 1 .. n + 1 : OpBefore(d, awaited, k) = OpBefore(c, awaited, k)
    <2> TAKE k \in 1 .. n + 1
    <2>1. CASE k = 1  BY <2>1 DEF OpBefore
    <2>2. CASE k # 1
      <3>1. k - 1 \in 1 .. n  BY <1>1, <2>2
      <3>2. d[k - 1] = c[k - 1]  BY <1>1, <3>1
      <3> QED  BY <2>2, <3>2 DEF OpBefore
    <2> QED  BY <2>1, <2>2
  <1>7. OpBefore(d, awaited, n + 2) = next
    BY <1>1 DEF OpBefore
  <1>8. Alternates(d, awaited, next)
    <2>1. ASSUME NEW k \in 1 .. Len(d)
          PROVE  d[k].kind = "io" <=> OpBefore(d, awaited, k) # "none"
      <3>1. CASE k \in 1 .. n  BY <1>1, <1>3, <1>6, <3>1
      <3>2. CASE k = n + 1  BY <1>1, <1>3, <1>6, <3>2
      <3> QED  BY <1>1, <2>1, <3>1, <3>2
    <2>2. OpBefore(d, awaited, Len(d) + 1) = next  BY <1>1, <1>7
    <2> QED  BY <2>1, <2>2 DEF Alternates
  <1> DEFINE at2 == [k \in 0 .. n + 1 |-> IF k = n + 1 THEN Len(s2) ELSE at[k]]
  <1>9. at2 \in [0 .. Len(d) -> 0 .. Len(s2)]
    <2>1. Len(s) <= Len(s2)  BY <1>2
    <2>2. \A k \in 0 .. n : at[k] \in 0 .. Len(s2)  BY <1>1, <1>2, <2>1
    <2> QED  BY <1>1, <1>2, <2>2
  <1>10. /\ at2[n + 1] = Len(s2) /\ \A k \in 0 .. n : at2[k] = at[k]
    BY <1>1
  <1> HIDE DEF at2
  <1>11. ASSUME NEW k \in 1 .. Len(d)
         PROVE  /\ at2[k] = at2[k - 1] + (IF Enters(d[k], OpBefore(d, awaited, k)) THEN 1 ELSE 0)
                /\ Enters(d[k], OpBefore(d, awaited, k)) =>
                      IsCall(s2[at2[k]], OpBefore(d, awaited, k), root, d[k])
    <2>1. CASE k \in 1 .. n
      <3>1. /\ d[k] = c[k] /\ OpBefore(d, awaited, k) = OpBefore(c, awaited, k)
            /\ at2[k] = at[k] /\ at2[k - 1] = at[k - 1]
        BY <1>1, <1>6, <1>10, <2>1
      <3>2. Enters(d[k], OpBefore(d, awaited, k)) => at[k] \in 1 .. Len(s)
        <4>1. at[k - 1] \in 0 .. Len(s) /\ at[k] \in 0 .. Len(s)  BY <1>1, <2>1
        <4> QED  BY <1>2, <1>5, <2>1, <3>1, <4>1
      <3> QED  BY <1>5, <2>1, <3>1, <3>2
    <2>2. CASE k = n + 1
      <3>1. /\ d[k] = m /\ OpBefore(d, awaited, k) = last
            /\ at2[k] = Len(s2) /\ at2[k - 1] = Len(s)
        BY <1>1, <1>3, <1>5, <1>6, <1>10, <2>2
      <3> QED  BY <3>1
    <2> QED  BY <1>1, <1>11, <2>1, <2>2
  <1>12. at2[0] = from /\ at2[Len(d)] = Len(s2)  BY <1>1, <1>5, <1>10
  <1>13. Ahead(d, awaited, from, root, s2, at2)
    BY <1>9, <1>11, <1>12 DEF Ahead
  <1>14. Leads(d, awaited, next, from, root, s2)  BY <1>8, <1>9, <1>13 DEF Leads
  <1> QED  BY <1>14 DEF d

\* The process takes the first message.
LEMMA LeadsTail ==
    ASSUME NEW c \in Seq(Packet), c # <<>>, NEW m, m = Head(c), NEW awaited, NEW last,
           NEW from, NEW root, NEW s \in Seq(Entry), Leads(c, awaited, last, from, root, s)
    PROVE  /\ Leads(Tail(c),
                    IF m.kind = "header" /\ m.op # "TERMINATE" THEN m.op ELSE "none", last,
                    IF Enters(m, awaited) THEN from + 1 ELSE from, root, s)
           /\ m.kind = "io" <=> awaited # "none"
           /\ Enters(m, awaited) => from + 1 \in 1 .. Len(s) /\ IsCall(s[from + 1], awaited, root, m)
  <1> DEFINE d == Tail(c)
             n == Len(d)
             next == IF m.kind = "header" /\ m.op # "TERMINATE" THEN m.op ELSE "none"
             from2 == IF Enters(m, awaited) THEN from + 1 ELSE from
  <1>1. /\ m = c[1] /\ d \in Seq(Packet) /\ n \in Nat /\ Len(c) = n + 1
        /\ \A k \in 1 .. n : d[k] = c[k + 1]
    BY TailFacts
  <1>2. Len(s) \in Nat  BY LenProperties
  <1>3. /\ OpBefore(c, awaited, Len(c) + 1) = last
        /\ \A k \in 1 .. Len(c) : c[k].kind = "io" <=> OpBefore(c, awaited, k) # "none"
    BY DEF Leads, Alternates
  <1>4. PICK at \in [0 .. Len(c) -> 0 .. Len(s)] : Ahead(c, awaited, from, root, s, at)
    BY DEF Leads
  <1>5. /\ at[0] = from /\ at[Len(c)] = Len(s)
        /\ \A k \in 1 .. Len(c) :
              /\ at[k] = at[k - 1] + (IF Enters(c[k], OpBefore(c, awaited, k)) THEN 1 ELSE 0)
              /\ Enters(c[k], OpBefore(c, awaited, k)) =>
                    IsCall(s[at[k]], OpBefore(c, awaited, k), root, c[k])
    BY <1>4 DEF Ahead
  <1> HIDE DEF d, n
  <1>6. OpBefore(c, awaited, 1) = awaited  BY DEF OpBefore
  <1>7. m.kind = "io" <=> awaited # "none"
    <2>1. 1 \in 1 .. Len(c)  BY <1>1
    <2> QED  BY <1>1, <1>3, <1>6, <2>1
  <1>8. /\ at[1] = from2 /\ from \in 0 .. Len(s) /\ from2 \in 0 .. Len(s)
        /\ Enters(m, awaited) => IsCall(s[from + 1], awaited, root, m)
    <2>1. 1 \in 1 .. Len(c) /\ 1 \in 0 .. Len(c) /\ 0 \in 0 .. Len(c)  BY <1>1
    <2>2. at[1] \in 0 .. Len(s) /\ at[0] \in 0 .. Len(s)  BY <2>1
    <2>3. /\ at[1] = at[1 - 1] + (IF Enters(c[1], OpBefore(c, awaited, 1)) THEN 1 ELSE 0)
          /\ Enters(c[1], OpBefore(c, awaited, 1)) =>
                IsCall(s[at[1]], OpBefore(c, awaited, 1), root, c[1])
      BY <1>5, <2>1
    <2>4. 1 - 1 = 0  OBVIOUS
    <2>5. /\ at[1] = from + (IF Enters(m, awaited) THEN 1 ELSE 0)
          /\ Enters(m, awaited) => IsCall(s[at[1]], awaited, root, m)
      BY <1>1, <1>5, <1>6, <2>3, <2>4
    <2> QED  BY <1>2, <1>5, <2>2, <2>5
  <1>9. \A k \in 1 .. n + 1 : OpBefore(d, next, k) = OpBefore(c, awaited, k + 1)
    <2> SUFFICES ASSUME NEW k \in 1 .. n + 1
                 PROVE  OpBefore(d, next, k) = OpBefore(c, awaited, k + 1)
      OBVIOUS
    <2>1. CASE k = 1  BY <1>1, <2>1 DEF OpBefore
    <2>2. CASE k # 1
      <3>1. k - 1 \in 1 .. n /\ (k + 1) - 1 = (k - 1) + 1 /\ k + 1 # 1  BY <1>1, <2>2
      <3>2. d[k - 1] = c[(k + 1) - 1]  BY <1>1, <3>1
      <3> QED  BY <2>2, <3>1, <3>2 DEF OpBefore
    <2> QED  BY <2>1, <2>2
  <1> HIDE DEF next, from2
  <1>10. Alternates(d, next, last)
    <2>1. ASSUME NEW k \in 1 .. n PROVE d[k].kind = "io" <=> OpBefore(d, next, k) # "none"
      <3>1. k + 1 \in 1 .. Len(c) /\ k \in 1 .. n + 1  BY <1>1
      <3> QED  BY <1>1, <1>3, <1>9, <3>1
    <2>2. OpBefore(d, next, n + 1) = last
      <3>1. n + 1 \in 1 .. n + 1 /\ (n + 1) + 1 = Len(c) + 1  BY <1>1
      <3> QED  BY <1>3, <1>9, <3>1
    <2> QED  BY <2>1, <2>2 DEF Alternates, n
  <1> DEFINE at2 == [k \in 0 .. n |-> at[k + 1]]
  <1>11. at2 \in [0 .. n -> 0 .. Len(s)]
    <2>1. \A k \in 0 .. n : at[k + 1] \in 0 .. Len(s)
      <3>1. \A k \in 0 .. n : k + 1 \in 0 .. Len(c)  BY <1>1
      <3> QED  BY <3>1
    <2> QED  BY <2>1
  <1>12. /\ at2[0] = from2 /\ at2[n] = Len(s)
         /\ \A k \in 1 .. n : at2[k] = at[k + 1] /\ at2[k - 1] = at[k]
    <2>1. 0 \in 0 .. n /\ n \in 0 .. n /\ 0 + 1 = 1  BY <1>1
    <2>2. \A k \in 1 .. n : k \in 0 .. n /\ k - 1 \in 0 .. n /\ (k - 1) + 1 = k  BY <1>1
    <2> QED  BY <1>1, <1>5, <1>8, <2>1, <2>2
  <1> HIDE DEF at2
  <1>13. ASSUME NEW k \in 1 .. n
         PROVE  /\ at2[k] = at2[k - 1] + (IF Enters(d[k], OpBefore(d, next, k)) THEN 1 ELSE 0)
                /\ Enters(d[k], OpBefore(d, next, k)) =>
                      IsCall(s[at2[k]], OpBefore(d, next, k), root, d[k])
    <2>1. k + 1 \in 1 .. Len(c) /\ (k + 1) - 1 = k /\ k \in 1 .. n + 1  BY <1>1
    <2>2. d[k] = c[k + 1] /\ OpBefore(d, next, k) = OpBefore(c, awaited, k + 1)
      BY <1>1, <1>9, <2>1
    <2> QED  BY <1>5, <1>12, <2>1, <2>2
  <1>14. Ahead(d, next, from2, root, s, at2)
    BY <1>11, <1>12, <1>13 DEF Ahead, n
  <1>15. Leads(d, next, last, from2, root, s)  BY <1>10, <1>11, <1>14 DEF Leads, n
  <1>16. Enters(m, awaited) => from + 1 \in 1 .. Len(s)  BY <1>2, <1>8 DEF from2
  <1> QED  BY <1>7, <1>8, <1>15, <1>16 DEF d, next, from2

\* Of a channel that holds no request the process has entered as much as the root.
LEMMA LeadsNothing ==
    ASSUME NEW c \in Seq(Packet), NEW from, NEW root, NEW s \in Seq(Entry), NEW last,
           \A k \in 1 .. Len(c) : ~ Request(c[k]) /\ k = Len(c)
    PROVE  /\ Leads(c, "none", "none", Len(s), root, s)
           /\ Leads(c, "none", last, from, root, s) => from = Len(s)
  <1>1. Len(c) \in Nat /\ Len(s) \in Nat  BY LenProperties
  <1>2. Len(c) \in {0, 1}
    <2>1. 1 \in 1 .. Len(c) => 1 = Len(c)  OBVIOUS
    <2> QED  BY <1>1, <2>1
  <1>3. \A k \in 1 .. Len(c) : c[k].kind = "header" /\ c[k].op = "TERMINATE"
    <2> TAKE k \in 1 .. Len(c)
    <2>1. c[k] \in Packet  BY ElementOfSeq
    <2> QED  BY <2>1, PacketFacts DEF Request
  <1>4. \A k \in 1 .. Len(c) : k = 1 /\ OpBefore(c, "none", k) = "none"
                               /\ ~ Enters(c[k], OpBefore(c, "none", k))
    BY <1>2, <1>3 DEF OpBefore, Enters
  <1>5. Leads(c, "none", "none", Len(s), root, s)
    <2>1. OpBefore(c, "none", Len(c) + 1) = "none"
      <3>1. CASE Len(c) = 0  BY <3>1 DEF OpBefore
      <3>2. CASE Len(c) = 1
        <4>1. Len(c) + 1 # 1 /\ (Len(c) + 1) - 1 = 1 /\ 1 \in 1 .. Len(c)  BY <3>2
        <4>2. c[1].op = "TERMINATE"  BY <1>3, <4>1
        <4> QED  BY <4>1, <4>2 DEF OpBefore
      <3> QED  BY <1>2, <3>1, <3>2
    <2>2. Alternates(c, "none", "none")  BY <1>3, <1>4, <2>1 DEF Alternates
    <2> DEFINE at == [k \in 0 .. Len(c) |-> Len(s)]
    <2>3. at \in [0 .. Len(c) -> 0 .. Len(s)]  BY <1>1
    <2>4. \A k \in 0 .. Len(c) : at[k] = Len(s)  OBVIOUS
    <2> HIDE DEF at
    <2>5. Ahead(c, "none", Len(s), root, s, at)
      <3>1. at[0] = Len(s) /\ at[Len(c)] = Len(s)  BY <1>1, <2>4
      <3>2. \A k \in 1 .. Len(c) : at[k] = at[k - 1] + 0
        <4> TAKE k \in 1 .. Len(c)
        <4>1. k \in 0 .. Len(c) /\ k - 1 \in 0 .. Len(c)  BY <1>1
        <4>2. at[k] = Len(s) /\ at[k - 1] = Len(s)  BY <2>4, <4>1
        <4> QED  BY <1>1, <4>2
      <3> QED  BY <1>4, <2>3, <3>1, <3>2 DEF Ahead
    <2> QED  BY <2>2, <2>3, <2>5 DEF Leads
  <1>6. ASSUME Leads(c, "none", last, from, root, s) PROVE from = Len(s)
    <2>1. PICK at \in [0 .. Len(c) -> 0 .. Len(s)] : Ahead(c, "none", from, root, s, at)
      BY <1>6 DEF Leads
    <2>2. /\ at[0] = from /\ at[Len(c)] = Len(s)
          /\ \A k \in 1 .. Len(c) : at[k] = at[k - 1] + 0
      BY <1>4, <2>1 DEF Ahead
    <2>3. CASE Len(c) = 0  BY <2>2, <2>3
    <2>4. CASE Len(c) = 1
      <3>1. at[1] = at[1 - 1] + 0 /\ 1 - 1 = 0  BY <2>2, <2>4
      <3>2. at[0] \in 0 .. Len(s)  BY <1>1
      <3>3. at[1] = at[0] + 0  BY <3>1
      <3> QED  BY <1>1, <2>2, <2>4, <3>2, <3>3
    <2> QED  BY <1>2, <2>3, <2>4
  <1> QED  BY <1>5, <1>6

-----------------------------------------------------------------------------
(* Orderly use: the process o whose users came last is the root of all     *)
(* that is under way.  A process may be behind it by any number of         *)
(* operations, and o may be unmounted before the others have caught up.    *)

Awaiting(r)  == IF loop[r].at = "io" THEN loop[r].op ELSE "none"
Announced(p) == IF fuse[p].at = "read" THEN "READ"
                ELSE IF fuse[p].at = "write" THEN "WRITE" ELSE "none"
Joining(r)   == Len(calls[r]) + (IF loop[r].at = "scatter" THEN 1 ELSE 0)

\* The messages o has sent to r lead from where r is to where o is.
FollowsRoot(o, r) ==
    /\ Leads(chan[o][r], Awaiting(r), Announced(o), Joining(r), o, calls[o])
    /\ loop[r].at = "scatter" =>
          /\ loop[r].root = o
          /\ IsCall(calls[o][Len(calls[r]) + 1], loop[r].op, o, loop[r])

Rests(p) == fuse[p].at \in {"idle", "unmounted", "ended"}
Alone(p) == loop[p].at \in {"header", "unmounting", "stopped"}

\* All others are between two handlers, and nobody asks anything of o.
OnlyRoot(o) == (\A p \in Ranks \ {o} : Rests(p)) /\ Alone(o)

\* Requests are of o; TERMINATE is the last thing a process sends.
RequestsOf(o) ==
    \A s, r \in Ranks : \A k \in 1 .. Len(chan[s][r]) :
        IF Request(chan[s][r][k]) THEN s = o /\ r # o
        ELSE k = Len(chan[s][r]) /\ fuse[s].at = "ended"

\* Once a process is unmounted, nothing is open and nothing will be.
Over   == \E s \in Ranks : fuse[s].at \in {"unmounted", "ended"}
Ending ==
    /\ Over => \A q \in Ranks : NothingOpen(q) /\ Rests(q)
    /\ \A r \in Ranks : loop[r].at \in {"unmounting", "stopped"} =>
                            \E s \in Ranks : fuse[s].at = "ended"
    /\ \A r \in Ranks : loop[r].at = "unmounting" => unmountFromThread[r]

\* TERMINATE of a process other than o comes when no request is under way.
Terminating(s) ==
    \/ fuse[s].at = "unmounted" /\ ~ unmountFromThread[s]
    \/ \E r \in Ranks : \E k \in 1 .. Len(chan[s][r]) : ~ Request(chan[s][r][k])
NoRequest ==
    \A r \in Ranks : /\ loop[r].at # "io"
                     /\ \A s \in Ranks : \A k \in 1 .. Len(chan[s][r]) : ~ Request(chan[s][r][k])
EndOf(o) == \A s \in Ranks \ {o} : Terminating(s) => NoRequest

InOrder(o) ==
    /\ fault \notin {"message", "collective"}
    /\ \A r \in Ranks \ {o} : FollowsRoot(o, r)
    /\ OnlyRoot(o) /\ RequestsOf(o) /\ Ending /\ EndOf(o)

StepInv == orderly => \A o \in Ranks : o = origin => InOrder(o)

LEMMA ChanFacts ==
    ASSUME Kinds, NEW s \in Ranks, NEW r \in Ranks
    PROVE  /\ chan[s][r] \in Seq(Packet) /\ calls[r] \in Seq(Entry)
           /\ Len(chan[s][r]) \in Nat /\ Len(calls[r]) \in Nat
           /\ fuse[r] \in FusePlace /\ loop[r] \in LoopPlace
  <1>1. chan[s][r] \in Seq(Packet) /\ calls[r] \in Seq(Entry)  BY DEF Kinds
  <1> QED  BY <1>1, LenProperties DEF Kinds

LEMMA JoiningFacts ==
    ASSUME Kinds, NEW r \in Ranks
    PROVE  /\ loop[r].at = "scatter" => Joining(r) = Len(calls[r]) + 1
           /\ loop[r].at # "scatter" => Joining(r) = Len(calls[r])
  <1>1. Len(calls[r]) \in Nat  BY ChanFacts
  <1>2. \A x \in Nat : x + 0 = x  OBVIOUS
  <1> QED  BY <1>1, <1>2 DEF Joining

LEMMA LeadsFrom ==
    ASSUME NEW c \in Seq(Packet), NEW awaited, NEW last, NEW from, NEW root, NEW s \in Seq(Entry),
           Leads(c, awaited, last, from, root, s)
    PROVE  from \in 0 .. Len(s)
  <1>1. PICK at \in [0 .. Len(c) -> 0 .. Len(s)] : Ahead(c, awaited, from, root, s, at)
    BY DEF Leads
  <1>2. 0 \in 0 .. Len(c)  BY LenProperties
  <1> QED  BY <1>1, <1>2 DEF Ahead

\* Other processes have entered no more than the root.
LEMMA Behind ==
    ASSUME TypeInv, NEW o \in Ranks, InOrder(o), NEW q \in Ranks
    PROVE  /\ Len(calls[q]) \in Nat /\ Len(calls[o]) \in Nat /\ Len(calls[q]) <= Len(calls[o])
           /\ q # o /\ loop[q].at = "scatter" => Len(calls[q]) + 1 <= Len(calls[o])
  <1>1. Kinds  BY DEF TypeInv
  <1>2. Len(calls[q]) \in Nat /\ Len(calls[o]) \in Nat  BY <1>1, ChanFacts
  <1>3. CASE q = o  BY <1>2, <1>3
  <1>4. CASE q # o
    <2>1. Leads(chan[o][q], Awaiting(q), Announced(o), Joining(q), o, calls[o])
      BY <1>4 DEF InOrder, FollowsRoot
    <2>2. Joining(q) \in 0 .. Len(calls[o])  BY <1>1, <2>1, ChanFacts, LeadsFrom
    <2>3. \A a, b \in Nat : (a \in 0 .. b => a <= b)
                            /\ (a + 1 \in 0 .. b => a <= b /\ a + 1 <= b)
      OBVIOUS
    <2>4. CASE loop[q].at = "scatter"
      <3>1. Len(calls[q]) + 1 \in 0 .. Len(calls[o])  BY <1>1, <2>2, <2>4, JoiningFacts
      <3> QED  BY <1>2, <2>3, <3>1
    <2>5. CASE loop[q].at # "scatter"
      <3>1. Len(calls[q]) \in 0 .. Len(calls[o])  BY <1>1, <2>2, <2>5, JoiningFacts
      <3> QED  BY <1>2, <2>3, <2>5, <3>1
    <2> QED  BY <2>4, <2>5
  <1> QED  BY <1>3, <1>4

\* Another process comes when nothing is under way, and is the root from then on.
LEMMA TurnStep ==
    ASSUME TypeInv, InOrder(origin), NEW p \in Ranks, Turn(p)
    PROVE  InOrder(p)
  <1>0. origin \in Ranks /\ Kinds  BY DEF TypeInv, TypeOK
  <1>1. CASE p = origin  BY <1>1
  <1>2. CASE p # origin
    <2> DEFINE o == origin
    <2>1. \A q \in Ranks : Rests(q) /\ Alone(q)
      BY <1>2 DEF Turn, Quiet, Resting, Rests, Alone, At
    <2>2. \A s, r \in Ranks : \A k \in 1 .. Len(chan[s][r]) : ~ Request(chan[s][r][k])
      <3> TAKE s \in Ranks, r \in Ranks
      <3>1. DOMAIN chan[s][r] = 1 .. Len(chan[s][r])
        BY <1>0, ChanFacts, LenProperties
      <3>2. \A k \in DOMAIN chan[s][r] : ~ Request(chan[s][r][k])
        BY <1>2 DEF Turn, Quiet
      <3> QED  BY <3>1, <3>2
    <2>3. \A s, r \in Ranks : \A k \in 1 .. Len(chan[s][r]) :
             k = Len(chan[s][r]) /\ fuse[s].at = "ended"
      BY <2>2 DEF InOrder, RequestsOf
    <2>4. \A r \in Ranks : Awaiting(r) = "none" /\ Announced(r) = "none" /\ Joining(r) = Len(calls[r])
      <3> TAKE r \in Ranks
      <3>1. Joining(r) = Len(calls[r])  BY <1>0, <2>1, JoiningFacts DEF Alone
      <3> QED  BY <2>1, <3>1 DEF Awaiting, Announced, Rests, Alone
    <2>5. \A r \in Ranks : Len(calls[r]) = Len(calls[o])
      <3> SUFFICES ASSUME NEW r \in Ranks, r # o PROVE Len(calls[r]) = Len(calls[o])
        OBVIOUS
      <3>1. Leads(chan[o][r], Awaiting(r), Announced(o), Joining(r), o, calls[o])
        BY DEF InOrder, FollowsRoot
      <3>2. Leads(chan[o][r], "none", "none", Len(calls[r]), o, calls[o])
        BY <1>0, <2>4, <3>1
      <3>3. \A k \in 1 .. Len(chan[o][r]) : ~ Request(chan[o][r][k]) /\ k = Len(chan[o][r])
        BY <1>0, <2>2, <2>3
      <3>4. chan[o][r] \in Seq(Packet) /\ calls[o] \in Seq(Entry)  BY <1>0, ChanFacts
      <3> QED  BY <3>2, <3>3, <3>4, LeadsNothing
    <2>6. \A r \in Ranks \ {p} : FollowsRoot(p, r)
      <3> TAKE r \in Ranks \ {p}
      <3>1. \A k \in 1 .. Len(chan[p][r]) : ~ Request(chan[p][r][k]) /\ k = Len(chan[p][r])
        BY <2>2, <2>3
      <3>2. chan[p][r] \in Seq(Packet) /\ calls[p] \in Seq(Entry)  BY <1>0, ChanFacts
      <3>3. Leads(chan[p][r], "none", "none", Len(calls[p]), p, calls[p])
        BY <3>1, <3>2, LeadsNothing
      <3>4. Leads(chan[p][r], Awaiting(r), Announced(p), Joining(r), p, calls[p])
        BY <2>4, <2>5, <3>3
      <3>5. loop[r].at # "scatter"  BY <2>1 DEF Alone
      <3> QED  BY <3>4, <3>5 DEF FollowsRoot
    <2>7. OnlyRoot(p)  BY <2>1 DEF OnlyRoot
    <2>8. RequestsOf(p)  BY <2>2, <2>3 DEF RequestsOf
    <2>9. NoRequest  BY <2>1, <2>2 DEF NoRequest, Alone
    <2> QED  BY <2>6, <2>7, <2>8, <2>9 DEF InOrder, EndOf
  <1> QED  BY <1>1, <1>2

\* While nothing has ended, no process is terminating.
LEMMA NotOver ==
    ASSUME NEW o \in Ranks, RequestsOf(o)', ~ Over',
           \A r \in Ranks : loop'[r].at \notin {"unmounting", "stopped"}
    PROVE  Ending' /\ EndOf(o)'
  <1>1. \A s \in Ranks : fuse'[s].at \notin {"unmounted", "ended"}  BY DEF Over
  <1>2. \A s \in Ranks : ~ Terminating(s)'
    BY <1>1 DEF Terminating, RequestsOf
  <1> QED  BY <1>1, <1>2 DEF Ending, EndOf, Over

\* The root sends a header or an IORequest to the others.
LEMMA SendFollows ==
    ASSUME TypeInv, NEW o \in Ranks, InOrder(o), NEW m \in Packet, ToOthers(o, m),
           m.kind = "io" <=> Announced(o) # "none", UNCHANGED loop,
           calls' \in [Ranks -> Seq(Entry)], \A q \in Ranks \ {o} : calls'[q] = calls[q],
           Len(calls'[o]) = Len(calls[o]) + (IF Enters(m, Announced(o)) THEN 1 ELSE 0),
           \A k \in 1 .. Len(calls[o]) : calls'[o][k] = calls[o][k],
           Enters(m, Announced(o)) => IsCall(calls'[o][Len(calls'[o])], Announced(o), o, m),
           Announced(o)' = (IF m.kind = "header" /\ m.op # "TERMINATE" THEN m.op ELSE "none")
    PROVE  \A r \in Ranks \ {o} : FollowsRoot(o, r)'
  <1> TAKE r \in Ranks \ {o}
  <1>1. Kinds  BY DEF TypeInv
  <1>2. FollowsRoot(o, r)  BY DEF InOrder
  <1>3. /\ chan[o][r] \in Seq(Packet) /\ calls[o] \in Seq(Entry) /\ calls'[o] \in Seq(Entry)
        /\ chan'[o][r] = Append(chan[o][r], m)
    BY <1>1, ChanFacts, SendType
  <1>4. Leads(Append(chan[o][r], m), Awaiting(r),
              IF m.kind = "header" /\ m.op # "TERMINATE" THEN m.op ELSE "none",
              Joining(r), o, calls'[o])
    <2>1. Leads(chan[o][r], Awaiting(r), Announced(o), Joining(r), o, calls[o])
      BY <1>2 DEF FollowsRoot
    <2> QED  BY <1>3, <2>1, LeadsAppend
  <1>5. Awaiting(r)' = Awaiting(r) /\ Joining(r)' = Joining(r)  BY DEF Awaiting, Joining
  <1>6. Leads(chan'[o][r], Awaiting(r)', Announced(o)', Joining(r)', o, calls'[o])
    BY <1>3, <1>4, <1>5
  <1>7. loop[r].at = "scatter" => calls'[o][Len(calls[r]) + 1] = calls[o][Len(calls[r]) + 1]
    <2>1. loop[r].at = "scatter" => Len(calls[r]) + 1 \in 1 .. Len(calls[o])
      BY Behind
    <2> QED  BY <2>1
  <1> QED  BY <1>2, <1>6, <1>7 DEF FollowsRoot

LEMMA SendRequests ==
    ASSUME TypeInv, NEW o \in Ranks, InOrder(o), NEW m \in Packet, ToOthers(o, m), Request(m),
           fuse[o].at # "ended", \A s \in Ranks \ {o} : fuse'[s] = fuse[s]
    PROVE  RequestsOf(o)'
  <1> SUFFICES ASSUME NEW s \in Ranks, NEW r \in Ranks, NEW k \in 1 .. Len(chan'[s][r])
               PROVE  IF Request(chan'[s][r][k]) THEN s = o /\ r # o
                      ELSE k = Len(chan'[s][r]) /\ fuse'[s].at = "ended"
    BY DEF RequestsOf
  <1>1. Kinds  BY DEF TypeInv
  <1>2. chan[s][r] \in Seq(Packet)  BY <1>1, ChanFacts
  <1>3. CASE s # o
    <2>1. chan'[s][r] = chan[s][r]  BY <1>1, <1>3, SendType
    <2> QED  BY <1>3, <2>1 DEF InOrder, RequestsOf
  <1>4. CASE s = o /\ r = o
    <2>1. chan'[s][r] = chan[s][r]  BY <1>1, <1>4, SendType
    <2> QED  BY <1>4, <2>1 DEF InOrder, RequestsOf
  <1>5. CASE s = o /\ r # o
    <2>1. chan'[s][r] = Append(chan[s][r], m)  BY <1>1, <1>5, SendType
    <2>2. k \in 1 .. Len(chan[s][r]) \/ chan'[s][r][k] = m  BY <1>2, <2>1, AppendFacts
    <2>3. CASE k \in 1 .. Len(chan[s][r])
      <3>1. chan'[s][r][k] = chan[s][r][k]  BY <1>2, <2>1, <2>3, AppendFacts
      <3> QED  BY <1>5, <2>3, <3>1 DEF InOrder, RequestsOf
    <2> QED  BY <1>5, <2>2, <2>3
  <1> QED  BY <1>3, <1>4, <1>5

-----------------------------------------------------------------------------
(* Every step keeps to it: users,                                          *)

LEMMA OpenInOrder ==
    ASSUME TypeInv, NEW p \in Ranks, InOrder(p), NEW f \in Inodes, NEW mode \in Modes,
           FuseOpen(p, f, mode), orderly'
    PROVE  InOrder(p)'
  <1>1. Kinds  BY DEF TypeInv
  <1>2. /\ Idle(p) /\ UNCHANGED <<loop, calls, unmountFromThread, fault>>
        /\ MayOpen(p, f, mode)
        /\ \/ UNCHANGED <<fuse, chan>>
           \/ fuse' = [fuse EXCEPT ![p] = Handling("read", f)] /\ ToOthers(p, Header("READ"))
    BY DEF FuseOpen, Comes
  <1>3. ~ Over  BY <1>2 DEF MayOpen, Over
  <1>4. fuse[p].at = "idle" /\ fuse \in [Ranks -> FusePlace]  BY <1>1, <1>2 DEF Idle, At, Kinds
  <1>5. CASE UNCHANGED <<fuse, chan>>
    <2>1. \A r \in Ranks \ {p} : FollowsRoot(p, r)'
      BY <1>2, <1>5 DEF InOrder, FollowsRoot, Awaiting, Announced, Joining
    <2>2. OnlyRoot(p)'  BY <1>2, <1>5 DEF InOrder, OnlyRoot, Rests, Alone
    <2>3. RequestsOf(p)'  BY <1>5 DEF InOrder, RequestsOf
    <2>4. ~ Over'  BY <1>3, <1>5 DEF Over
    <2>5. \A r \in Ranks : loop'[r].at \notin {"unmounting", "stopped"}
      BY <1>2, <1>3 DEF InOrder, Ending, Over
    <2>6. Ending' /\ EndOf(p)'  BY <2>3, <2>4, <2>5, NotOver
    <2> QED  BY <1>2, <2>1, <2>2, <2>3, <2>6 DEF InOrder
  <1>6. CASE fuse' = [fuse EXCEPT ![p] = Handling("read", f)] /\ ToOthers(p, Header("READ"))
    <2> DEFINE m == Header("READ")
    <2>1. m \in Packet /\ m.kind = "header" /\ m.op = "READ" /\ Request(m)
      BY PacketFacts DEF Header, Request
    <2>2. fuse'[p].at = "read" /\ \A q \in Ranks \ {p} : fuse'[q] = fuse[q]
      BY <1>4, <1>6 DEF Handling
    <2>3. Announced(p) = "none" /\ Announced(p)' = "READ" /\ ~ Enters(m, "none")
      BY <1>4, <2>1, <2>2 DEF Announced, Enters
    <2> HIDE DEF m
    <2>4. ToOthers(p, m)  BY <1>6 DEF m
    <2>5. \A r \in Ranks \ {p} : FollowsRoot(p, r)'
      <3>1. /\ calls' \in [Ranks -> Seq(Entry)] /\ \A q \in Ranks \ {p} : calls'[q] = calls[q]
            /\ calls'[p] = calls[p] /\ Len(calls'[p]) = Len(calls[p]) + 0
        <4>1. Len(calls[p]) \in Nat  BY <1>1, ChanFacts
        <4>2. \A x \in Nat : x + 0 = x  OBVIOUS
        <4> QED  BY <1>1, <1>2, <4>1, <4>2 DEF Kinds
      <3> QED  BY <1>2, <2>1, <2>3, <2>4, <3>1, SendFollows
    <2>6. OnlyRoot(p)'  BY <1>2, <2>2 DEF InOrder, OnlyRoot, Rests, Alone
    <2>7. RequestsOf(p)'  BY <1>4, <2>1, <2>2, <2>4, SendRequests
    <2>8. ~ Over'  BY <1>3, <2>2 DEF Over
    <2>9. \A r \in Ranks : loop'[r].at \notin {"unmounting", "stopped"}
      BY <1>2, <1>3 DEF InOrder, Ending, Over
    <2>10. Ending' /\ EndOf(p)'  BY <2>7, <2>8, <2>9, NotOver
    <2> QED  BY <1>2, <2>5, <2>6, <2>7, <2>10 DEF InOrder
  <1> QED  BY <1>2, <1>5, <1>6

\* What neither moves a thread nor sends anything.
LEMMA QuietInOrder ==
    ASSUME NEW o \in Ranks, InOrder(o), UNCHANGED <<fuse, loop, chan, calls, unmountFromThread>>,
           fault' \notin {"message", "collective"},
           Over => \A q \in Ranks : NothingOpen(q)'
    PROVE  InOrder(o)'
  <1>1. \A r \in Ranks \ {o} : FollowsRoot(o, r)'
    BY DEF InOrder, FollowsRoot, Awaiting, Announced, Joining
  <1>2. OnlyRoot(o)'  BY DEF InOrder, OnlyRoot, Rests, Alone
  <1>3. RequestsOf(o)'  BY DEF InOrder, RequestsOf
  <1>4. Ending'  BY DEF InOrder, Ending, Over, Rests
  <1>5. EndOf(o)'
    <2>1. NoRequest' = NoRequest  BY DEF NoRequest
    <2>2. \A s \in Ranks : Terminating(s)' = Terminating(s)  BY DEF Terminating
    <2> QED  BY <2>1, <2>2 DEF InOrder, EndOf
  <1> QED  BY <1>1, <1>2, <1>3, <1>4, <1>5 DEF InOrder

LEMMA WriteInOrder ==
    ASSUME TypeInv, NEW o \in Ranks, InOrder(o), NEW p \in Ranks, NEW f \in Inodes, NEW off,
           NEW data, FuseWrite(p, f, off, data)
    PROVE  InOrder(o)'
  <1>1. /\ UNCHANGED <<fuse, loop, chan, calls, unmountFromThread, handle>>
        /\ fault' \in {fault, "overflow"}
    BY DEF FuseWrite, mpi
  <1>2. fault' \notin {"message", "collective"}  BY <1>1 DEF InOrder
  <1>3. Over => \A q \in Ranks : NothingOpen(q)'
    BY <1>1 DEF InOrder, Ending, NothingOpen
  <1> QED  BY <1>1, <1>2, <1>3, QuietInOrder

\* A flush that stores nothing, of any process, and one that does.
LEMMA FlushInOrder ==
    ASSUME TypeInv, NEW o \in Ranks, InOrder(o), NEW p \in Ranks, NEW f \in Inodes,
           FuseFlush(p, f), m_buf[p][f] # NoBuf /\ waiting[p][f] => o = p
    PROVE  InOrder(o)'
  <1>1. Kinds  BY DEF TypeInv
  <1>2. handle[p][f] # "closed" /\ Idle(p) /\ UNCHANGED <<loop, calls, unmountFromThread, fault>>
    BY DEF FuseFlush
  <1>3. ~ Over  BY <1>2 DEF InOrder, Ending, NothingOpen
  <1>4. fuse[p].at = "idle" /\ fuse \in [Ranks -> FusePlace]  BY <1>1, <1>2 DEF Idle, At, Kinds
  <1>5. CASE ~ (m_buf[p][f] # NoBuf /\ waiting[p][f])
    <2>1. UNCHANGED <<fuse, chan>>  BY <1>5 DEF FuseFlush
    <2>2. fault' \notin {"message", "collective"}  BY <1>2 DEF InOrder
    <2> QED  BY <1>2, <1>3, <2>1, <2>2, QuietInOrder
  <1>6. CASE m_buf[p][f] # NoBuf /\ waiting[p][f]
    <2> DEFINE m == Header("WRITE")
    <2>0. o = p /\ fuse' = [fuse EXCEPT ![p] = Handling("write", f)] /\ ToOthers(p, m)
      BY <1>6 DEF FuseFlush
    <2>1. m \in Packet /\ m.kind = "header" /\ m.op = "WRITE" /\ Request(m)
      BY PacketFacts DEF Header, Request
    <2>2. fuse'[p].at = "write" /\ \A q \in Ranks \ {p} : fuse'[q] = fuse[q]
      BY <1>4, <2>0 DEF Handling
    <2>3. Announced(p) = "none" /\ Announced(p)' = "WRITE" /\ ~ Enters(m, "none")
      BY <1>4, <2>1, <2>2 DEF Announced, Enters
    <2> HIDE DEF m
    <2>5. \A r \in Ranks \ {p} : FollowsRoot(p, r)'
      <3>1. /\ calls' \in [Ranks -> Seq(Entry)] /\ \A q \in Ranks \ {p} : calls'[q] = calls[q]
            /\ calls'[p] = calls[p] /\ Len(calls'[p]) = Len(calls[p]) + 0
        <4>1. Len(calls[p]) \in Nat  BY <1>1, ChanFacts
        <4>2. \A x \in Nat : x + 0 = x  OBVIOUS
        <4> QED  BY <1>1, <1>2, <4>1, <4>2 DEF Kinds
      <3> QED  BY <1>2, <2>0, <2>1, <2>3, <3>1, SendFollows
    <2>6. OnlyRoot(p)'  BY <1>2, <2>0, <2>2 DEF InOrder, OnlyRoot, Rests, Alone
    <2>7. RequestsOf(p)'  BY <1>4, <2>0, <2>1, <2>2, SendRequests
    <2>8. ~ Over'  BY <1>3, <2>2 DEF Over
    <2>9. \A r \in Ranks : loop'[r].at \notin {"unmounting", "stopped"}
      BY <1>2, <1>3 DEF InOrder, Ending, Over
    <2>10. Ending' /\ EndOf(p)'  BY <2>7, <2>8, <2>9, NotOver
    <2> QED  BY <1>2, <2>0, <2>5, <2>6, <2>7, <2>10 DEF InOrder
  <1> QED  BY <1>5, <1>6

LEMMA UnmountInOrder ==
    ASSUME TypeInv, NEW p \in Ranks, InOrder(p), Unmount(p), orderly'
    PROVE  InOrder(p)'
  <1>1. /\ Idle(p) /\ \A q \in Ranks : NothingOpen(q)
        /\ fuse' = [fuse EXCEPT ![p] = At("unmounted")]
        /\ UNCHANGED <<handle, loop, chan, calls, unmountFromThread, fault>>
    BY DEF Unmount, Comes, mpi
  <1>2. /\ fuse[p].at = "idle" /\ fuse'[p].at = "unmounted"
        /\ \A q \in Ranks \ {p} : fuse'[q] = fuse[q]
    BY <1>1 DEF Idle, At, TypeInv, Kinds
  <1>3. \A r \in Ranks \ {p} : FollowsRoot(p, r)'
    <2>1. Announced(p)' = Announced(p)  BY <1>2 DEF Announced
    <2> QED  BY <1>1, <2>1 DEF InOrder, FollowsRoot, Awaiting, Joining
  <1>4. OnlyRoot(p)'  BY <1>1, <1>2 DEF InOrder, OnlyRoot, Rests, Alone
  <1>5. RequestsOf(p)'  BY <1>1, <1>2 DEF InOrder, RequestsOf
  <1>6. Ending'
    <2>1. \A q \in Ranks : NothingOpen(q)' /\ Rests(q)'
      BY <1>1, <1>2 DEF NothingOpen, Rests, InOrder, OnlyRoot
    <2>2. \A s \in Ranks : fuse[s].at = "ended" => fuse'[s].at = "ended"  BY <1>2
    <2> QED  BY <1>1, <2>1, <2>2 DEF InOrder, Ending
  <1>7. EndOf(p)'
    <2>1. \A s \in Ranks \ {p} : Terminating(s)' = Terminating(s)  BY <1>1, <1>2 DEF Terminating
    <2>2. NoRequest' = NoRequest  BY <1>1 DEF NoRequest
    <2> QED  BY <2>1, <2>2 DEF InOrder, EndOf
  <1> QED  BY <1>1, <1>3, <1>4, <1>5, <1>6, <1>7 DEF InOrder

-----------------------------------------------------------------------------
(* the FUSE threads,                                                       *)

\* A process in a handler is the root, and nothing has ended.
LEMMA InHandler ==
    ASSUME NEW o \in Ranks, InOrder(o), NEW p \in Ranks, ~ Rests(p)
    PROVE  p = o /\ ~ Over /\ \A r \in Ranks : loop[r].at \notin {"unmounting", "stopped"}
  <1>1. p = o  BY DEF InOrder, OnlyRoot
  <1>2. ~ Over  BY DEF InOrder, Ending
  <1> QED  BY <1>1, <1>2 DEF InOrder, Ending, Over

\* The root sends its IORequest, and enters the collective if there is one.
LEMMA RootSends ==
    ASSUME TypeInv, NEW p \in Ranks, InOrder(p), fuse[p].at \in {"read", "write"},
           NEW f \in Inodes, NEW n \in Nat, ToOthers(p, IORequest(f, n)),
           NEW place \in FusePlace, fuse' = [fuse EXCEPT ![p] = place],
           place.at \in {"idle", "allgather", "gather"},
           UNCHANGED <<loop, unmountFromThread, fault>>,
           calls' \in [Ranks -> Seq(Entry)], \A q \in Ranks \ {p} : calls'[q] = calls[q],
           Len(calls'[p]) =
               Len(calls[p]) + (IF Enters(IORequest(f, n), Announced(p)) THEN 1 ELSE 0),
           \A k \in 1 .. Len(calls[p]) : calls'[p][k] = calls[p][k],
           Enters(IORequest(f, n), Announced(p)) =>
               IsCall(calls'[p][Len(calls'[p])], Announced(p), p, IORequest(f, n))
    PROVE  InOrder(p)'
  <1> DEFINE m == IORequest(f, n)
  <1>0. Kinds  BY DEF TypeInv
  <1>1. m \in Packet /\ m.kind = "io" /\ Request(m)
    BY PacketFacts DEF IORequest, Request
  <1>2. fuse'[p] = place /\ \A q \in Ranks \ {p} : fuse'[q] = fuse[q]
    BY <1>0 DEF Kinds
  <1>3. Announced(p) # "none" /\ Announced(p)' = "none"  BY <1>2 DEF Announced
  <1> HIDE DEF m
  <1>4. ~ Over /\ \A r \in Ranks : loop[r].at \notin {"unmounting", "stopped"}
    BY InHandler DEF Rests
  <1>5. \A r \in Ranks \ {p} : FollowsRoot(p, r)'
    BY <1>1, <1>3, SendFollows DEF m
  <1>6. OnlyRoot(p)'  BY <1>2 DEF InOrder, OnlyRoot, Rests, Alone
  <1>7. RequestsOf(p)'  BY <1>1, <1>2, SendRequests DEF m
  <1>8. ~ Over'  BY <1>2, <1>4 DEF Over
  <1>9. Ending' /\ EndOf(p)'  BY <1>4, <1>7, <1>8, NotOver
  <1> QED  BY <1>5, <1>6, <1>7, <1>9 DEF InOrder

LEMMA RootEnters ==
    ASSUME Kinds, NEW p \in Ranks, NEW c \in Entry, Enter(p, c)
    PROVE  /\ calls' \in [Ranks -> Seq(Entry)]
           /\ \A q \in Ranks \ {p} : calls'[q] = calls[q]
           /\ Len(calls[p]) \in Nat /\ Len(calls'[p]) = Len(calls[p]) + 1
           /\ \A k \in 1 .. Len(calls[p]) : calls'[p][k] = calls[p][k]
           /\ calls'[p][Len(calls'[p])] = c
  <1>1. calls \in [Ranks -> Seq(Entry)] /\ calls[p] \in Seq(Entry)
        /\ calls' = [calls EXCEPT ![p] = Append(calls[p], c)]
    BY DEF Kinds, Enter
  <1>2. /\ Append(calls[p], c) \in Seq(Entry) /\ Len(calls[p]) \in Nat
        /\ Len(Append(calls[p], c)) = Len(calls[p]) + 1
        /\ \A k \in 1 .. Len(calls[p]) : Append(calls[p], c)[k] = calls[p][k]
        /\ Append(calls[p], c)[Len(calls[p]) + 1] = c
    BY <1>1, AppendFacts
  <1>3. calls'[p] = Append(calls[p], c) /\ calls' \in [Ranks -> Seq(Entry)]
        /\ \A q \in Ranks \ {p} : calls'[q] = calls[q]
    BY <1>1, <1>2
  <1> QED  BY <1>2, <1>3

LEMMA RootWriteInOrder ==
    ASSUME TypeInv, NEW o \in Ranks, InOrder(o), NEW p \in Ranks, RootWrite(p)
    PROVE  InOrder(o)'
  <1> DEFINE f   == fuse[p].ino
             n   == st_size[p][f]
             buf == Items(m_buf[p][f], n, Garbage)
             own == Share(buf, n, p)
             c   == Call("WRITE", p, f, n, buf, NewAddresses(p, own))
  <1>1. fuse[p].at = "write" /\ ToOthers(p, IORequest(f, n)) /\ Enter(p, c)
        /\ fuse' = [fuse EXCEPT ![p] = Handling("allgather", f)]
        /\ UNCHANGED <<loop, unmountFromThread, fault>>
    BY Zenon DEF RootWrite
  <1>2. f \in Inodes /\ n \in Nat /\ m_buf[p][f] \in Content \cup {NoBuf} /\ m_buf[p][f] # NoBuf
        /\ Kinds /\ TypeOK
    BY <1>1, RootFacts DEF TypeInv, Buffered
  <1>3. p = o  BY <1>1, InHandler DEF Rests
  <1>4. buf \in Content /\ n = Len(buf)  BY <1>2, BufferItems
  <1> HIDE DEF f, n, buf
  <1>5. own \in Content  BY <1>2, <1>4, ShareOfItems DEF Content
  <1> HIDE DEF own
  <1>6. c \in Entry
    <2>1. NewAddresses(p, own) \in Seq(Nat)  BY <1>2, <1>5, NewAddressesType
    <2> QED  BY <1>2, <1>4, <2>1 DEF Call, Entry
  <1>7. IsCall(c, "WRITE", p, IORequest(f, n))  BY DEF IsCall, Same, Call, IORequest
  <1> HIDE DEF c
  <1>8. Announced(p) = "WRITE" /\ Enters(IORequest(f, n), Announced(p))
    BY <1>1 DEF Announced, Enters, IORequest
  <1>9. Handling("allgather", f) \in FusePlace /\ Handling("allgather", f).at = "allgather"
    BY <1>2, PlaceTypes DEF Handling
  <1>10. /\ calls' \in [Ranks -> Seq(Entry)] /\ \A q \in Ranks \ {p} : calls'[q] = calls[q]
         /\ Len(calls'[p]) = Len(calls[p]) + 1
         /\ \A k \in 1 .. Len(calls[p]) : calls'[p][k] = calls[p][k]
         /\ calls'[p][Len(calls'[p])] = c
    BY <1>1, <1>2, <1>6, RootEnters
  <1>11. InOrder(p)  BY <1>3
  <1>12. InOrder(p)'
    BY <1>1, <1>2, <1>7, <1>8, <1>9, <1>10, <1>11, RootSends
  <1> QED  BY <1>3, <1>12

LEMMA RootReadInOrder ==
    ASSUME TypeInv, NEW o \in Ranks, InOrder(o), NEW p \in Ranks, RootRead(p)
    PROVE  InOrder(o)'
  <1> DEFINE f         == fuse[p].ino
             n         == st_size[p][f]
             addresses == Items(list[p][f], n, 0)
             own       == FetchAll(p, Share(addresses, n, p))
             c         == Call("READ", p, f, n, addresses, own)
  <1>1. fuse[p].at = "read" /\ ToOthers(p, IORequest(f, n))
        /\ UNCHANGED <<loop, unmountFromThread, fault>>
    BY DEF RootRead
  <1>2. f \in Inodes /\ n \in Nat /\ list[p][f] \in Seq(Nat) /\ Kinds /\ TypeOK
    BY <1>1, RootFacts DEF TypeInv
  <1>3. p = o /\ InOrder(p)  BY <1>1, InHandler DEF Rests
  <1>4. Announced(p) = "READ" /\ (Enters(IORequest(f, n), Announced(p)) <=> n # 0)
    BY <1>1 DEF Announced, Enters, IORequest
  <1>5. CASE n = 0
    <2>1. fuse' = [fuse EXCEPT ![p] = At("idle")] /\ calls' = calls
      BY <1>5 DEF RootRead
    <2>2. At("idle") \in FusePlace /\ At("idle").at = "idle"  BY PlaceTypes DEF At
    <2>3. Len(calls'[p]) = Len(calls[p]) + 0
      <3>1. Len(calls[p]) \in Nat  BY <1>2, ChanFacts
      <3>2. \A x \in Nat : x = x + 0  OBVIOUS
      <3> QED  BY <2>1, <3>1, <3>2
    <2>4. calls' \in [Ranks -> Seq(Entry)]  BY <1>2, <2>1 DEF Kinds
    <2> HIDE DEF f, n
    <2>5. InOrder(p)'
      BY <1>1, <1>2, <1>3, <1>4, <1>5, <2>1, <2>2, <2>3, <2>4, RootSends
    <2> QED  BY <1>3, <2>5
  <1>6. CASE n # 0
    <2>1. Enter(p, c) /\ fuse' = [fuse EXCEPT ![p] = Handling("gather", f)]
      BY <1>6 DEF RootRead
    <2>2. addresses \in Seq(Nat) /\ Len(addresses) = n
      <3>1. 0 \in Nat  OBVIOUS
      <3> QED  BY <1>2, <3>1, ItemsType
    <2> HIDE DEF f, n, addresses
    <2>3. Share(addresses, n, p) \in Seq(Nat)  BY <2>2, ShareOfItems
    <2>4. own \in Content  BY <1>2, <2>3, FetchAllType
    <2> HIDE DEF own
    <2>5. c \in Entry  BY <1>2, <2>2, <2>4 DEF Call, Entry
    <2>6. IsCall(c, "READ", p, IORequest(f, n))  BY DEF IsCall, Same, Call, IORequest
    <2> HIDE DEF c
    <2>7. Handling("gather", f) \in FusePlace /\ Handling("gather", f).at = "gather"
      BY <1>2, PlaceTypes DEF Handling
    <2>8. /\ calls' \in [Ranks -> Seq(Entry)] /\ \A q \in Ranks \ {p} : calls'[q] = calls[q]
          /\ Len(calls'[p]) = Len(calls[p]) + 1
          /\ \A k \in 1 .. Len(calls[p]) : calls'[p][k] = calls[p][k]
          /\ calls'[p][Len(calls'[p])] = c
      BY <1>2, <2>1, <2>5, RootEnters
    <2>9. InOrder(p)'
      BY <1>1, <1>2, <1>3, <1>4, <1>6, <2>1, <2>6, <2>7, <2>8, RootSends
    <2> QED  BY <1>3, <2>9
  <1> QED  BY <1>5, <1>6

\* The root returns from the collective.
LEMMA RootReturns ==
    ASSUME TypeInv, NEW o \in Ranks, InOrder(o), NEW p \in Ranks,
           fuse[p].at \in {"allgather", "gather"}, fuse' = [fuse EXCEPT ![p] = At("idle")],
           UNCHANGED <<loop, chan, calls, unmountFromThread, fault>>
    PROVE  InOrder(o)'
  <1>1. /\ fuse'[p].at = "idle" /\ \A q \in Ranks \ {p} : fuse'[q] = fuse[q]
    BY DEF TypeInv, Kinds, At
  <1>2. p = o /\ ~ Over /\ \A r \in Ranks : loop[r].at \notin {"unmounting", "stopped"}
    BY InHandler DEF Rests
  <1>3. \A r \in Ranks \ {o} : FollowsRoot(o, r)'
    <2>1. Announced(o)' = Announced(o)  BY <1>1, <1>2 DEF Announced
    <2> QED  BY <2>1 DEF InOrder, FollowsRoot, Awaiting, Joining
  <1>4. OnlyRoot(o)'  BY <1>1, <1>2 DEF InOrder, OnlyRoot, Rests, Alone
  <1>5. RequestsOf(o)'  BY <1>1, <1>2 DEF InOrder, RequestsOf
  <1>6. ~ Over'  BY <1>1, <1>2 DEF Over
  <1>7. Ending' /\ EndOf(o)'  BY <1>2, <1>5, <1>6, NotOver
  <1> QED  BY <1>3, <1>4, <1>5, <1>7 DEF InOrder

LEMMA SessionEndsInOrder ==
    ASSUME TypeInv, NEW o \in Ranks, InOrder(o), NEW p \in Ranks, SessionEnds(p)
    PROVE  InOrder(o)'
  <1> DEFINE m == Header("TERMINATE")
  <1>1. Kinds  BY DEF TypeInv
  <1>2. /\ fuse[p].at = "unmounted" /\ fuse' = [fuse EXCEPT ![p] = At("ended")]
        /\ IF unmountFromThread[p] THEN UNCHANGED chan ELSE ToAll(p, m)
        /\ UNCHANGED <<loop, calls, unmountFromThread, fault, handle>>
    BY DEF SessionEnds, users
  <1>3. m \in Packet /\ m.kind = "header" /\ ~ Request(m) /\ m.op = "TERMINATE"
        /\ \A op : ~ Enters(m, op)
    BY PacketFacts DEF Header, Request, Enters
  <1> HIDE DEF m
  <1>4. /\ fuse'[p].at = "ended" /\ \A q \in Ranks \ {p} : fuse'[q] = fuse[q]
    BY <1>1, <1>2 DEF Kinds, At
  <1>5. /\ \A s \in Ranks \ {p}, r \in Ranks : chan'[s][r] = chan[s][r]
        /\ \A r \in Ranks : \/ chan'[p][r] = chan[p][r]
                            \/ chan'[p][r] = Append(chan[p][r], m) /\ ~ unmountFromThread[p]
    <2>1. CASE UNCHANGED chan  BY <2>1
    <2>2. CASE ToAll(p, m) /\ ~ unmountFromThread[p]
      <3>1. /\ \A s \in Ranks \ {p}, r \in Ranks : chan'[s][r] = chan[s][r]
            /\ \A r \in Ranks \ {p} : chan'[p][r] = Append(chan[p][r], m)
            /\ chan'[p][p] \in {chan[p][p], Append(chan[p][p], m)}
        BY <1>1, <1>3, <2>2, SendType
      <3> QED  BY <2>2, <3>1
    <2> QED  BY <1>2, <2>1, <2>2
  <1>6. \A r \in Ranks : \A k \in 1 .. Len(chan[p][r]) : Request(chan[p][r][k])
    BY <1>2 DEF InOrder, RequestsOf
  \* What a process sends in this step comes last.
  <1>7. \A s, r \in Ranks : \A k \in 1 .. Len(chan'[s][r]) :
           \/ k \in 1 .. Len(chan[s][r]) /\ chan'[s][r][k] = chan[s][r][k]
              /\ (s # p => Len(chan'[s][r]) = Len(chan[s][r]))
           \/ s = p /\ k = Len(chan'[s][r]) /\ chan'[s][r][k] = m /\ ~ unmountFromThread[p]
    <2> TAKE s \in Ranks, r \in Ranks
    <2> TAKE k \in 1 .. Len(chan'[s][r])
    <2>1. CASE chan'[s][r] = chan[s][r]  BY <2>1
    <2>2. CASE s = p /\ chan'[p][r] = Append(chan[p][r], m) /\ ~ unmountFromThread[p]
      <3>1. chan[p][r] \in Seq(Packet)  BY <1>1, ChanFacts
      <3>2. /\ Len(chan[p][r]) \in Nat /\ Len(chan'[p][r]) = Len(chan[p][r]) + 1
            /\ \A i \in 1 .. Len(chan[p][r]) : chan'[p][r][i] = chan[p][r][i]
            /\ chan'[p][r][Len(chan[p][r]) + 1] = m
        BY <1>3, <2>2, <3>1, AppendFacts
      <3>3. k \in 1 .. Len(chan[p][r]) \/ k = Len(chan[p][r]) + 1  BY <2>2, <3>2
      <3> QED  BY <2>2, <3>2, <3>3
    <2> QED  BY <1>5, <2>1, <2>2
  <1>8. \A r \in Ranks \ {o} : FollowsRoot(o, r)'
    <2> TAKE r \in Ranks \ {o}
    <2>1. FollowsRoot(o, r)  BY DEF InOrder
    <2>2. Awaiting(r)' = Awaiting(r) /\ Joining(r)' = Joining(r)  BY <1>2 DEF Awaiting, Joining
    <2>3. Announced(o)' = Announced(o)  BY <1>2, <1>4 DEF Announced
    <2>4. Leads(chan'[o][r], Awaiting(r), Announced(o), Joining(r), o, calls[o])
      <3>1. CASE chan'[o][r] = chan[o][r]  BY <2>1, <3>1 DEF FollowsRoot
      <3>2. CASE o = p /\ chan'[p][r] = Append(chan[p][r], m)
        <4>1. Announced(o) = "none"  BY <1>2, <3>2 DEF Announced
        <4>2. chan[o][r] \in Seq(Packet) /\ calls[o] \in Seq(Entry) /\ Len(calls[o]) \in Nat
          BY <1>1, ChanFacts
        <4>3. Len(calls[o]) = Len(calls[o]) + 0  BY <4>2
        <4>4. Leads(chan[o][r], Awaiting(r), "none", Joining(r), o, calls[o])
          BY <2>1, <4>1 DEF FollowsRoot
        <4>5. Leads(Append(chan[o][r], m), Awaiting(r), "none", Joining(r), o, calls[o])
          BY <1>3, <4>2, <4>3, <4>4, LeadsAppend
        <4> QED  BY <3>2, <4>1, <4>5
      <3> QED  BY <1>5, <3>1, <3>2
    <2> QED  BY <1>2, <2>1, <2>2, <2>3, <2>4 DEF FollowsRoot
  <1>9. OnlyRoot(o)'  BY <1>2, <1>4 DEF InOrder, OnlyRoot, Rests, Alone
  <1>10. RequestsOf(o)'
    <2> SUFFICES ASSUME NEW s \in Ranks, NEW r \in Ranks, NEW k \in 1 .. Len(chan'[s][r])
                 PROVE  IF Request(chan'[s][r][k]) THEN s = o /\ r # o
                        ELSE k = Len(chan'[s][r]) /\ fuse'[s].at = "ended"
      BY DEF RequestsOf
    <2>1. CASE s = p /\ k = Len(chan'[s][r]) /\ chan'[s][r][k] = m
      BY <1>3, <1>4, <2>1
    <2>2. CASE k \in 1 .. Len(chan[s][r]) /\ chan'[s][r][k] = chan[s][r][k]
               /\ (s # p => Len(chan'[s][r]) = Len(chan[s][r]))
      <3>1. CASE s = p  BY <1>6, <2>2, <3>1 DEF InOrder, RequestsOf
      <3>2. CASE s # p  BY <1>4, <2>2, <3>2 DEF InOrder, RequestsOf
      <3> QED  BY <3>1, <3>2
    <2> QED  BY <1>7, <2>1, <2>2
  <1>11. Ending'
    <2>1. Over  BY <1>2 DEF Over
    <2>2. \A q \in Ranks : NothingOpen(q)' /\ Rests(q)'
      BY <1>2, <1>4, <2>1 DEF InOrder, Ending, NothingOpen, Rests
    <2>3. \A s \in Ranks : fuse[s].at = "ended" => fuse'[s].at = "ended"  BY <1>4
    <2> QED  BY <1>2, <2>2, <2>3 DEF InOrder, Ending
  <1>12. EndOf(o)'
    <2> SUFFICES ASSUME NEW s \in Ranks, s # o, Terminating(s)' PROVE NoRequest'
      BY DEF EndOf
    <2>1. Terminating(s)
      <3>1. CASE fuse'[s].at = "unmounted" /\ ~ unmountFromThread'[s]
        BY <1>2, <1>4, <3>1 DEF Terminating
      <3>2. CASE \E r \in Ranks : \E k \in 1 .. Len(chan'[s][r]) : ~ Request(chan'[s][r][k])
        <4>1. PICK r \in Ranks : \E k \in 1 .. Len(chan'[s][r]) : ~ Request(chan'[s][r][k])
          BY <3>2
        <4>2. PICK k \in 1 .. Len(chan'[s][r]) : ~ Request(chan'[s][r][k])  BY <4>1
        <4> QED  BY <1>2, <1>7, <4>2 DEF Terminating
      <3> QED  BY <3>1, <3>2 DEF Terminating
    <2>2. NoRequest  BY <2>1 DEF InOrder, EndOf
    <2> QED  BY <1>2, <1>3, <1>7, <2>2 DEF NoRequest
  <1> QED  BY <1>2, <1>8, <1>9, <1>10, <1>11, <1>12 DEF InOrder

-----------------------------------------------------------------------------
(* and the second threads.                                                 *)

\* What is received is the first message of a channel;
LEMMA FirstMessage ==
    ASSUME TypeInv, NEW o \in Ranks, InOrder(o), NEW r \in Ranks, NEW s \in Ranks, NEW m,
           Receive(r, s, m)
    PROVE  /\ Request(m) => s = o /\ r # o
           /\ ~ Request(m) => /\ Len(chan[s][r]) = 1 /\ fuse[s].at = "ended"
                              /\ m.kind = "header" /\ m.op = "TERMINATE"
           /\ s = o /\ r # o => (m.kind = "io" <=> Awaiting(r) # "none")
  <1>1. Kinds  BY DEF TypeInv
  <1>2. m \in Packet /\ chan[s][r] \in Seq(Packet) /\ chan[s][r] # <<>> /\ m = chan[s][r][1]
        /\ m = Head(chan[s][r])
    BY <1>1, ReceiveType
  <1>3. 1 \in 1 .. Len(chan[s][r])  BY <1>2, EmptySeq
  <1>4. IF Request(m) THEN s = o /\ r # o ELSE 1 = Len(chan[s][r]) /\ fuse[s].at = "ended"
    <2>1. \A k \in 1 .. Len(chan[s][r]) :
             IF Request(chan[s][r][k]) THEN s = o /\ r # o
             ELSE k = Len(chan[s][r]) /\ fuse[s].at = "ended"
      BY DEF InOrder, RequestsOf
    <2>2. IF Request(chan[s][r][1]) THEN s = o /\ r # o
          ELSE 1 = Len(chan[s][r]) /\ fuse[s].at = "ended"
      BY <1>3, <2>1
    <2> QED  BY <1>2, <2>2
  <1>5. ~ Request(m) => m.kind = "header" /\ m.op = "TERMINATE"
    BY <1>2, PacketFacts DEF Request
  <1>6. s = o /\ r # o => (m.kind = "io" <=> Awaiting(r) # "none")
    <2> SUFFICES ASSUME s = o, r # o PROVE m.kind = "io" <=> Awaiting(r) # "none"
      OBVIOUS
    <2>1. Leads(chan[o][r], Awaiting(r), Announced(o), Joining(r), o, calls[o])
      BY DEF InOrder, FollowsRoot
    <2>2. calls[o] \in Seq(Entry)  BY <1>1, ChanFacts
    <2> QED  BY <1>2, <2>1, <2>2, LeadsTail
  <1> QED  BY <1>4, <1>5, <1>6

\* the others stay where they are in theirs,
LEMMA ReceiveRequests ==
    ASSUME TypeInv, NEW o \in Ranks, InOrder(o), NEW r \in Ranks, NEW s \in Ranks, NEW m,
           Receive(r, s, m), UNCHANGED fuse
    PROVE  RequestsOf(o)'
  <1> SUFFICES ASSUME NEW q \in Ranks, NEW t \in Ranks, NEW k \in 1 .. Len(chan'[q][t])
               PROVE  IF Request(chan'[q][t][k]) THEN q = o /\ t # o
                      ELSE k = Len(chan'[q][t]) /\ fuse'[q].at = "ended"
    BY DEF RequestsOf
  <1>1. Kinds  BY DEF TypeInv
  <1>2. CASE q # s \/ t # r
    <2>1. chan'[q][t] = chan[q][t]  BY <1>1, <1>2, ReceiveType
    <2> QED  BY <2>1 DEF InOrder, RequestsOf
  <1>3. CASE q = s /\ t = r
    <2>1. chan[s][r] \in Seq(Packet) /\ chan[s][r] # <<>> /\ chan'[s][r] = Tail(chan[s][r])
      BY <1>1, ReceiveType
    <2>2. /\ Len(chan[s][r]) \in Nat \ {0} /\ Len(chan'[s][r]) = Len(chan[s][r]) - 1
          /\ \A i \in 1 .. Len(chan[s][r]) - 1 : chan'[s][r][i] = chan[s][r][i + 1]
      BY <2>1, TailFacts
    <2>3. k + 1 \in 1 .. Len(chan[s][r]) /\ chan'[s][r][k] = chan[s][r][k + 1]
          /\ (k + 1 = Len(chan[s][r]) => k = Len(chan'[s][r]))
      BY <1>3, <2>2
    <2> QED  BY <1>3, <2>3 DEF InOrder, RequestsOf
  <1> QED  BY <1>2, <1>3

\* no process begins to end,
LEMMA ReceiveEnds ==
    ASSUME TypeInv, NEW o \in Ranks, InOrder(o), NEW r \in Ranks, NEW s \in Ranks, NEW m,
           Receive(r, s, m), UNCHANGED fuse,
           \A q \in Ranks : unmountFromThread[q] => unmountFromThread'[q],
           \A q \in Ranks : loop'[q].at = "io" => loop[q].at = "io" \/ Request(m)
    PROVE  EndOf(o)'
  <1> SUFFICES ASSUME NEW q \in Ranks \ {o}, Terminating(q)' PROVE NoRequest'
    BY DEF EndOf
  <1>1. Kinds  BY DEF TypeInv
  <1>2. \A a, b \in Ranks : \A k \in 1 .. Len(chan'[a][b]) :
           \E i \in 1 .. Len(chan[a][b]) : chan'[a][b][k] = chan[a][b][i]
    BY <1>1, ReceiveRest
  <1>3. Terminating(q)
    <2>1. CASE fuse'[q].at = "unmounted" /\ ~ unmountFromThread'[q]  BY <2>1 DEF Terminating
    <2>2. CASE \E b \in Ranks : \E k \in 1 .. Len(chan'[q][b]) : ~ Request(chan'[q][b][k])
      BY <1>2, <2>2 DEF Terminating
    <2> QED  BY <2>1, <2>2 DEF Terminating
  <1>4. NoRequest  BY <1>3 DEF InOrder, EndOf
  <1>5. ~ Request(m)
    <2>1. chan[s][r] \in Seq(Packet) /\ chan[s][r] # <<>> /\ m = chan[s][r][1]
      BY <1>1, ReceiveType
    <2>2. 1 \in 1 .. Len(chan[s][r])  BY <2>1, EmptySeq
    <2> QED  BY <1>4, <2>1, <2>2 DEF NoRequest
  <1> QED  BY <1>2, <1>4, <1>5 DEF NoRequest

\* and a message of the root brings the process one message nearer to it.
LEMMA ReceiveFollows ==
    ASSUME TypeInv, NEW o \in Ranks, InOrder(o), NEW r \in Ranks, NEW s \in Ranks, NEW m,
           Receive(r, s, m), UNCHANGED <<fuse, calls>>,
           \A q \in Ranks \ {r} : loop'[q] = loop[q],
           s = o => Awaiting(r)' =
                        (IF m.kind = "header" /\ m.op # "TERMINATE" THEN m.op ELSE "none"),
           s = o => Joining(r)' =
                        (IF Enters(m, Awaiting(r)) THEN Joining(r) + 1 ELSE Joining(r)),
           s # o => Awaiting(r)' = Awaiting(r) /\ Joining(r)' = Joining(r),
           r # o /\ loop'[r].at = "scatter" =>
               /\ loop'[r].root = o
               /\ IsCall(calls[o][Len(calls[r]) + 1], loop'[r].op, o, loop'[r])
    PROVE  \A q \in Ranks \ {o} : FollowsRoot(o, q)'
  <1> TAKE q \in Ranks \ {o}
  <1>1. Kinds  BY DEF TypeInv
  <1>2. FollowsRoot(o, q)  BY DEF InOrder
  <1>3. Announced(o)' = Announced(o)  BY DEF Announced
  <1>4. CASE q # r
    <2>1. chan'[o][q] = chan[o][q] /\ loop'[q] = loop[q]  BY <1>1, <1>4, ReceiveType
    <2>2. Awaiting(q)' = Awaiting(q) /\ Joining(q)' = Joining(q)
      BY <2>1 DEF Awaiting, Joining
    <2> QED  BY <1>2, <1>3, <2>1, <2>2 DEF FollowsRoot
  <1>5. CASE q = r
    <2>1. Leads(chan[o][r], Awaiting(r), Announced(o), Joining(r), o, calls[o])
      BY <1>2, <1>5 DEF FollowsRoot
    <2>2. Leads(chan'[o][r], Awaiting(r)', Announced(o), Joining(r)', o, calls[o])
      <3>1. CASE s = o
        <4>1. /\ chan[o][r] \in Seq(Packet) /\ chan[o][r] # <<>> /\ m = Head(chan[o][r])
              /\ chan'[o][r] = Tail(chan[o][r])
          BY <1>1, <3>1, ReceiveType
        <4>2. calls[o] \in Seq(Entry)  BY <1>1, ChanFacts
        <4> QED  BY <2>1, <3>1, <4>1, <4>2, LeadsTail
      <3>2. CASE s # o
        <4>1. chan'[o][r] = chan[o][r]  BY <1>1, <3>2, ReceiveType
        <4> QED  BY <2>1, <3>2, <4>1
      <3> QED  BY <3>1, <3>2
    <2> QED  BY <1>3, <1>5, <2>2 DEF FollowsRoot
  <1> QED  BY <1>4, <1>5

LEMMA ReceiveHeaderInOrder ==
    ASSUME TypeInv, NEW o \in Ranks, InOrder(o), NEW r \in Ranks, ReceiveHeader(r)
    PROVE  InOrder(o)'
  <1>0. Kinds  BY DEF TypeInv
  <1>1. PICK s \in Ranks : LET m == Head(chan[s][r]) IN
           /\ Receive(r, s, m)
           /\ IF m.kind = "io"
                THEN fault' = "message" /\ UNCHANGED <<loop, unmountFromThread>>
                ELSE /\ loop' = [loop EXCEPT ![r] =
                            CASE m.op # "TERMINATE"         -> [at |-> "io", op |-> m.op]
                              [] m.op = "TERMINATE" /\ s = r -> At("stopped")
                              [] m.op = "TERMINATE" /\ s # r -> At("unmounting")]
                     /\ unmountFromThread' = [unmountFromThread EXCEPT ![r] =
                            @ \/ (m.op = "TERMINATE" /\ s # r)]
                     /\ UNCHANGED fault
    BY DEF ReceiveHeader
  <1> DEFINE m == Head(chan[s][r])
  <1>2. loop[r].at = "header" /\ UNCHANGED <<fuse, calls, handle>>
    BY DEF ReceiveHeader, users
  <1>3. Receive(r, s, m)  BY <1>1
  <1>4. m \in Packet  BY <1>0, <1>3, ReceiveType
  <1>5. /\ Request(m) => s = o /\ r # o
        /\ ~ Request(m) => /\ Len(chan[s][r]) = 1 /\ fuse[s].at = "ended"
                           /\ m.kind = "header" /\ m.op = "TERMINATE"
        /\ s = o /\ r # o => (m.kind = "io" <=> Awaiting(r) # "none")
    BY <1>3, FirstMessage
  <1>6. Awaiting(r) = "none" /\ Joining(r) = Len(calls[r])
    BY <1>0, <1>2, JoiningFacts DEF Awaiting
  <1>7. m.kind = "header"
    <2>1. m.kind # "io"
      <3> SUFFICES ASSUME m.kind = "io" PROVE FALSE  OBVIOUS
      <3>1. Request(m)  BY DEF Request
      <3> HIDE DEF m
      <3> QED  BY <1>5, <1>6, <3>1
    <2> HIDE DEF m
    <2> QED  BY <1>4, <2>1, PacketFacts
  <1>8. /\ loop' = [loop EXCEPT ![r] =
               CASE m.op # "TERMINATE"         -> [at |-> "io", op |-> m.op]
                 [] m.op = "TERMINATE" /\ s = r -> At("stopped")
                 [] m.op = "TERMINATE" /\ s # r -> At("unmounting")]
        /\ unmountFromThread' = [unmountFromThread EXCEPT ![r] =
               unmountFromThread[r] \/ (m.op = "TERMINATE" /\ s # r)]
        /\ fault' = fault
    BY <1>1, <1>7
  <1> HIDE DEF m
  <1>9. /\ loop'[r] \in {[at |-> "io", op |-> m.op], At("stopped"), At("unmounting")}
        /\ m.op # "TERMINATE" => loop'[r] = [at |-> "io", op |-> m.op]
        /\ m.op = "TERMINATE" => loop'[r] \in {At("stopped"), At("unmounting")}
        /\ m.op = "TERMINATE" /\ s = r => loop'[r] = At("stopped")
        /\ \A q \in Ranks \ {r} : loop'[q] = loop[q]
    BY <1>0, <1>8 DEF Kinds
  <1>10. /\ \A q \in Ranks : unmountFromThread[q] => unmountFromThread'[q]
         /\ m.op = "TERMINATE" /\ s # r => unmountFromThread'[r]
    BY <1>0, <1>8, Zenon DEF Kinds
  <1>11. ~ Enters(m, Awaiting(r)) /\ (Request(m) <=> m.op # "TERMINATE")
    BY <1>7 DEF Enters, Request
  <1>12. Joining(r)' = Joining(r)
    <2>1. loop'[r].at # "scatter"  BY <1>9 DEF At
    <2>2. Len(calls[r]) \in Nat /\ \A x \in Nat : x + 0 = x  BY <1>0, ChanFacts
    <2> QED  BY <1>2, <1>6, <2>1, <2>2 DEF Joining
  <1>13. Awaiting(r)' = (IF m.kind = "header" /\ m.op # "TERMINATE" THEN m.op ELSE "none")
    BY <1>7, <1>9 DEF Awaiting, At
  <1>14. \A q \in Ranks \ {o} : FollowsRoot(o, q)'
    <2>1. s # o => Awaiting(r)' = Awaiting(r)  BY <1>5, <1>6, <1>11, <1>13
    <2>2. loop'[r].at # "scatter"  BY <1>9 DEF At
    <2> QED  BY <1>2, <1>3, <1>9, <1>11, <1>12, <1>13, <2>1, <2>2, ReceiveFollows
  <1>15. OnlyRoot(o)'
    <2>1. Alone(o)'
      <3>1. CASE r # o  BY <1>9, <3>1 DEF InOrder, OnlyRoot, Alone
      <3>2. CASE r = o  BY <1>5, <1>9, <1>11, <3>2 DEF Alone, At
      <3> QED  BY <3>1, <3>2
    <2> QED  BY <1>2, <2>1 DEF InOrder, OnlyRoot, Rests
  <1>16. RequestsOf(o)'  BY <1>2, <1>3, ReceiveRequests
  <1>17. Ending'
    <2>1. Over' => \A q \in Ranks : NothingOpen(q)' /\ Rests(q)'
      BY <1>2 DEF InOrder, Ending, Over, NothingOpen, Rests
    <2>2. \A q \in Ranks : loop'[q].at \in {"unmounting", "stopped"} =>
              \E t \in Ranks : fuse'[t].at = "ended"
      <3> SUFFICES ASSUME NEW q \in Ranks, loop'[q].at \in {"unmounting", "stopped"}
                   PROVE  \E t \in Ranks : fuse'[t].at = "ended"
        OBVIOUS
      <3>1. CASE q # r  BY <1>2, <1>9, <3>1 DEF InOrder, Ending
      <3>2. CASE q = r
        <4>1. m.op = "TERMINATE"  BY <1>9, <3>2
        <4>2. fuse[s].at = "ended"  BY <1>5, <1>11, <4>1
        <4> QED  BY <1>2, <4>2
      <3> QED  BY <3>1, <3>2
    <2>3. \A q \in Ranks : loop'[q].at = "unmounting" => unmountFromThread'[q]
      <3> SUFFICES ASSUME NEW q \in Ranks, loop'[q].at = "unmounting"
                   PROVE  unmountFromThread'[q]
        OBVIOUS
      <3>1. CASE q # r
        <4>1. unmountFromThread[q]  BY <1>9, <3>1 DEF InOrder, Ending
        <4> QED  BY <1>10, <4>1
      <3>2. CASE q = r
        <4>1. m.op = "TERMINATE" /\ s # r  BY <1>9, <3>2 DEF At
        <4> QED  BY <1>10, <3>2, <4>1
      <3> QED  BY <3>1, <3>2
    <2> QED  BY <2>1, <2>2, <2>3 DEF Ending
  <1>18. EndOf(o)'
    <2>1. \A q \in Ranks : loop'[q].at = "io" => loop[q].at = "io" \/ Request(m)
      BY <1>9, <1>11 DEF At
    <2> QED  BY <1>2, <1>3, <1>10, <2>1, ReceiveEnds
  <1> QED  BY <1>8, <1>14, <1>15, <1>16, <1>17, <1>18 DEF InOrder

LEMMA ReceiveIOInOrder ==
    ASSUME TypeInv, NEW o \in Ranks, InOrder(o), NEW r \in Ranks, ReceiveIO(r)
    PROVE  InOrder(o)'
  <1>0. Kinds  BY DEF TypeInv
  <1>1. PICK s \in Ranks : LET m == Head(chan[s][r]) IN
           /\ Receive(r, s, m)
           /\ IF m.kind = "header"
                THEN fault' = "message" /\ UNCHANGED loop
                ELSE /\ loop' = [loop EXCEPT ![r] =
                            IF loop[r].op = "READ" /\ m.size = 0
                              THEN At("header")
                              ELSE [at |-> "scatter", op |-> loop[r].op, root |-> s,
                                    ino |-> m.ino, size |-> m.size]]
                     /\ UNCHANGED fault
    BY DEF ReceiveIO
  <1> DEFINE m == Head(chan[s][r])
             op == loop[r].op
             l == [at |-> "scatter", op |-> op, root |-> s, ino |-> m.ino, size |-> m.size]
  <1>2. loop[r].at = "io" /\ UNCHANGED <<fuse, calls, handle, unmountFromThread>>
    BY DEF ReceiveIO, users
  <1>3. Receive(r, s, m)  BY <1>1
  <1>4. m \in Packet  BY <1>0, <1>3, ReceiveType
  <1>5. /\ Request(m) => s = o /\ r # o
        /\ s = o /\ r # o => (m.kind = "io" <=> Awaiting(r) # "none")
    BY <1>3, FirstMessage
  <1>6. Awaiting(r) = op /\ op \in Ops /\ op # "none" /\ Joining(r) = Len(calls[r])
    BY <1>0, <1>2, JoiningFacts, PlaceFacts DEF Awaiting, Ops
  <1>7. r # o  BY <1>2 DEF InOrder, OnlyRoot, Alone
  \* Of another process only TERMINATE could come, and then no request is left.
  <1>8. s = o
    <2> SUFFICES ASSUME s # o PROVE FALSE  OBVIOUS
    <2>1. chan[s][r] \in Seq(Packet) /\ chan[s][r] # <<>> /\ m = chan[s][r][1]
      BY <1>0, <1>3, ReceiveType
    <2>2. 1 \in 1 .. Len(chan[s][r])  BY <2>1, EmptySeq
    <2> HIDE DEF m
    <2>3. ~ Request(m)  BY <1>5
    <2>4. ~ Request(chan[s][r][1])  BY <2>1, <2>3
    <2>5. Terminating(s)  BY <2>2, <2>4 DEF Terminating
    <2>6. NoRequest  BY <2>5 DEF InOrder, EndOf
    <2> QED  BY <1>2, <2>6 DEF NoRequest
  <1>9. m.kind = "io"
    <2> HIDE DEF m
    <2> QED  BY <1>5, <1>6, <1>7, <1>8
  <1>10. /\ loop' = [loop EXCEPT ![r] = IF op = "READ" /\ m.size = 0 THEN At("header") ELSE l]
         /\ fault' = fault
    BY <1>1, <1>9
  <1>11. Enters(m, op) => IsCall(calls[o][Len(calls[r]) + 1], op, o, m)
    <2>1. Leads(chan[o][r], op, Announced(o), Len(calls[r]), o, calls[o])
      BY <1>6, <1>7 DEF InOrder, FollowsRoot
    <2>2. chan[o][r] \in Seq(Packet) /\ chan[o][r] # <<>> /\ calls[o] \in Seq(Entry)
          /\ m = Head(chan[o][r])
      BY <1>0, <1>3, <1>8, ReceiveType, ChanFacts
    <2> HIDE DEF m, op
    <2> QED  BY <2>1, <2>2, LeadsTail
  <1>12. l.at = "scatter" /\ l.op = op /\ l.root = s /\ l.ino = m.ino /\ l.size = m.size
    OBVIOUS
  <1> HIDE DEF m, op, l
  <1>13. /\ loop'[r] = (IF Enters(m, op) THEN l ELSE At("header"))
         /\ \A q \in Ranks \ {r} : loop'[q] = loop[q]
    BY <1>0, <1>9, <1>10 DEF Kinds, Enters
  <1>14. Joining(r)' = (IF Enters(m, op) THEN Joining(r) + 1 ELSE Joining(r))
    <2>1. Len(calls[r]) \in Nat /\ \A x \in Nat : x + 0 = x  BY <1>0, ChanFacts
    <2>2. CASE Enters(m, op)
      <3>1. loop'[r].at = "scatter"  BY <1>12, <1>13, <2>2
      <3> QED  BY <1>2, <1>6, <2>2, <3>1 DEF Joining
    <2>3. CASE ~ Enters(m, op)
      <3>1. loop'[r].at # "scatter"  BY <1>13, <2>3 DEF At
      <3> QED  BY <1>2, <1>6, <2>1, <2>3, <3>1 DEF Joining
    <2> QED  BY <2>2, <2>3
  <1>15. Awaiting(r)' = "none" /\ loop'[r].at \in {"scatter", "header"}
    BY <1>12, <1>13 DEF Awaiting, At
  <1>16. loop'[r].at = "scatter" =>
             loop'[r].root = o /\ IsCall(calls[o][Len(calls[r]) + 1], loop'[r].op, o, loop'[r])
    <2> SUFFICES ASSUME loop'[r].at = "scatter"
                 PROVE  loop'[r].root = o
                        /\ IsCall(calls[o][Len(calls[r]) + 1], loop'[r].op, o, loop'[r])
      OBVIOUS
    <2>1. Enters(m, op) /\ loop'[r] = l  BY <1>13 DEF At
    <2> QED  BY <1>8, <1>11, <1>12, <2>1 DEF IsCall
  <1>17. \A q \in Ranks \ {o} : FollowsRoot(o, q)'
    <2>1. Awaiting(r)' = (IF m.kind = "header" /\ m.op # "TERMINATE" THEN m.op ELSE "none")
      BY <1>9, <1>15
    <2>2. Joining(r)' = (IF Enters(m, Awaiting(r)) THEN Joining(r) + 1 ELSE Joining(r))
      BY <1>6, <1>14
    <2> QED  BY <1>2, <1>3, <1>8, <1>13, <1>16, <2>1, <2>2, ReceiveFollows DEF m
  <1>18. OnlyRoot(o)'
    BY <1>2, <1>7, <1>13 DEF InOrder, OnlyRoot, Rests, Alone
  <1>19. RequestsOf(o)'  BY <1>2, <1>3, ReceiveRequests DEF m
  <1>20. Ending'
    <2>1. \A q \in Ranks : loop'[q].at \in {"unmounting", "stopped"} => loop'[q] = loop[q]
      BY <1>13, <1>15
    <2> QED  BY <1>2, <2>1 DEF InOrder, Ending, Over, NothingOpen, Rests
  <1>21. EndOf(o)'
    <2>1. \A q \in Ranks : loop'[q].at = "io" => loop[q].at = "io"  BY <1>13, <1>15
    <2> QED  BY <1>2, <1>3, <2>1, ReceiveEnds DEF m
  <1> QED  BY <1>10, <1>17, <1>18, <1>19, <1>20, <1>21 DEF InOrder

\* A process other than the root enters the pair it was told of.
LEMMA JoinInOrder ==
    ASSUME TypeInv, NEW o \in Ranks, InOrder(o), NEW r \in Ranks, loop[r].at = "scatter",
           NEW c, Enter(r, c), loop'[r].at \in {"allgather", "header"},
           \A q \in Ranks \ {r} : loop'[q] = loop[q],
           UNCHANGED <<fuse, chan, handle, unmountFromThread, fault>>
    PROVE  InOrder(o)'
  <1>0. Kinds  BY DEF TypeInv
  <1>1. r # o  BY DEF InOrder, OnlyRoot, Alone
  <1>2. /\ \A q \in Ranks \ {r} : calls'[q] = calls[q]
        /\ Len(calls[r]) \in Nat /\ Len(calls'[r]) = Len(calls[r]) + 1
    <2>1. calls'[r] = Append(calls[r], c) /\ \A q \in Ranks \ {r} : calls'[q] = calls[q]
      BY <1>0 DEF Enter, Kinds
    <2>2. calls[r] \in Seq(Entry)  BY <1>0, ChanFacts
    <2>3. calls[r] \in Seq(Entry \cup {c})  BY <2>2
    <2>4. c \in Entry \cup {c}  OBVIOUS
    <2> QED  BY <2>1, <2>3, <2>4, AppendFacts
  <1>3. Joining(r)' = Joining(r) /\ Awaiting(r)' = "none" /\ Awaiting(r) = "none"
    <2>1. \A x \in Nat : (x + 1) + 0 = x + 1  OBVIOUS
    <2> QED  BY <1>2, <2>1 DEF Joining, Awaiting
  <1>4. \A q \in Ranks \ {o} : FollowsRoot(o, q)'
    <2> TAKE q \in Ranks \ {o}
    <2>1. FollowsRoot(o, q) /\ calls'[o] = calls[o] /\ Announced(o)' = Announced(o)
      BY <1>1, <1>2 DEF InOrder, Announced
    <2>2. CASE q = r
      <3>1. Leads(chan'[o][q], Awaiting(q)', Announced(o)', Joining(q)', o, calls'[o])
        BY <1>3, <2>1, <2>2 DEF FollowsRoot
      <3> QED  BY <2>2, <3>1 DEF FollowsRoot
    <2>3. CASE q # r
      <3>1. Awaiting(q)' = Awaiting(q) /\ Joining(q)' = Joining(q) /\ calls'[q] = calls[q]
        BY <1>2, <2>3 DEF Awaiting, Joining
      <3> QED  BY <2>1, <2>3, <3>1 DEF FollowsRoot
    <2> QED  BY <2>2, <2>3
  <1>5. OnlyRoot(o)'  BY <1>1 DEF InOrder, OnlyRoot, Rests, Alone
  <1>6. RequestsOf(o)'  BY DEF InOrder, RequestsOf
  <1>7. \A q \in Ranks : loop'[q].at \in {"unmounting", "stopped", "io"} => loop'[q] = loop[q]
    OBVIOUS
  <1>8. Ending'  BY <1>7 DEF InOrder, Ending, Over, NothingOpen, Rests
  <1>9. EndOf(o)'
    <2>1. \A s \in Ranks : Terminating(s)' = Terminating(s)  BY DEF Terminating
    <2>2. NoRequest => NoRequest'  BY <1>7 DEF NoRequest
    <2> QED  BY <2>1, <2>2 DEF InOrder, EndOf
  <1> QED  BY <1>4, <1>5, <1>6, <1>8, <1>9 DEF InOrder

LEMMA JoinWriteInOrder ==
    ASSUME TypeInv, NEW o \in Ranks, InOrder(o), NEW r \in Ranks, JoinWrite(r)
    PROVE  InOrder(o)'
  <1> DEFINE io == loop[r]
             c  == Call("WRITE", io.root, io.ino, io.size, <<>>,
                        NewAddresses(r, ShareOf(r, io.root, io.size)))
  <1>1. /\ io.at = "scatter" /\ Enter(r, c)
        /\ loop' = [loop EXCEPT ![r] = [io EXCEPT !.at = "allgather"]]
        /\ UNCHANGED <<fuse, chan, handle, unmountFromThread, fault>>
    BY DEF JoinWrite, Joins, users
  <1>2. loop'[r].at = "allgather" /\ \A q \in Ranks \ {r} : loop'[q] = loop[q]
    <2>1. io \in [at : {"scatter", "allgather"}, op : Ops, root : Ranks, ino : Inodes, size : Nat]
      BY <1>1, PlaceFacts DEF TypeInv
    <2>2. [io EXCEPT !.at = "allgather"].at = "allgather"  BY <2>1
    <2> QED  BY <1>1, <2>2 DEF TypeInv, Kinds
  <1> HIDE DEF c
  <1> QED  BY <1>1, <1>2, JoinInOrder

LEMMA JoinReadInOrder ==
    ASSUME TypeInv, NEW o \in Ranks, InOrder(o), NEW r \in Ranks, JoinRead(r)
    PROVE  InOrder(o)'
  <1> DEFINE io == loop[r]
             c  == Call("READ", io.root, io.ino, io.size, <<>>,
                        FetchAll(r, ShareOf(r, io.root, io.size)))
  <1>1. /\ io.at = "scatter" /\ Enter(r, c) /\ loop' = [loop EXCEPT ![r] = At("header")]
        /\ UNCHANGED <<fuse, chan, handle, unmountFromThread, fault>>
    BY DEF JoinRead, Joins, users
  <1>2. loop'[r].at = "header" /\ \A q \in Ranks \ {r} : loop'[q] = loop[q]
    BY <1>1 DEF TypeInv, Kinds, At
  <1> HIDE DEF c
  <1> QED  BY <1>1, <1>2, JoinInOrder

\* It leaves the collective, or its file system is unmounted by the thread.
LEMMA LoopInOrder ==
    ASSUME TypeInv, NEW o \in Ranks, InOrder(o), NEW r \in Ranks, UNCHANGED <<chan, calls>>,
           UNCHANGED <<handle, unmountFromThread, fault>>,
           \A q \in Ranks \ {r} : loop'[q] = loop[q],
           \/ loop[r].at = "allgather" /\ loop'[r].at = "header"
           \/ loop[r].at = "unmounting" /\ loop'[r].at = "stopped",
           \A q \in Ranks \ {r} : fuse'[q] = fuse[q],
           \/ fuse'[r] = fuse[r]
           \/ (Over /\ unmountFromThread[r] /\ fuse[r].at = "idle" /\ fuse'[r].at = "unmounted")
    PROVE  InOrder(o)'
  <1>1. \A q \in Ranks : /\ Announced(q)' = Announced(q) /\ Rests(q)' = Rests(q)
                         /\ fuse[q].at \in {"unmounted", "ended"} =>
                                fuse'[q] = fuse[q]
    BY DEF Announced, Rests
  <1>2. \A q \in Ranks : /\ Awaiting(q)' = Awaiting(q) /\ Joining(q)' = Joining(q)
                         /\ loop'[q].at \in {"scatter", "io", "unmounting"} => loop'[q] = loop[q]
    BY DEF Awaiting, Joining
  <1>3. \A q \in Ranks \ {o} : FollowsRoot(o, q)'
    <2> TAKE q \in Ranks \ {o}
    <2>1. FollowsRoot(o, q)  BY DEF InOrder
    <2>2. Leads(chan'[o][q], Awaiting(q)', Announced(o)', Joining(q)', o, calls'[o])
      BY <1>1, <1>2, <2>1 DEF FollowsRoot
    <2> QED  BY <1>2, <2>1, <2>2 DEF FollowsRoot
  <1>4. OnlyRoot(o)'  BY <1>1 DEF InOrder, OnlyRoot, Alone
  <1>5. RequestsOf(o)'  BY <1>1 DEF InOrder, RequestsOf
  <1>6. Ending'
    <2>1. Over' => Over  BY DEF Over
    <2>2. \A q \in Ranks : NothingOpen(q)' = NothingOpen(q)  BY DEF NothingOpen
    <2>3. \A q \in Ranks : loop'[q].at \in {"unmounting", "stopped"} =>
              loop[q].at \in {"unmounting", "stopped"}
      OBVIOUS
    <2> QED  BY <1>1, <1>2, <2>1, <2>2, <2>3 DEF InOrder, Ending
  <1>7. EndOf(o)'
    <2>1. \A s \in Ranks : Terminating(s)' => Terminating(s)  BY DEF Terminating
    <2>2. NoRequest => NoRequest'  BY <1>2 DEF NoRequest
    <2> QED  BY <2>1, <2>2 DEF InOrder, EndOf
  <1> QED  BY <1>3, <1>4, <1>5, <1>6, <1>7 DEF InOrder

LEMMA JoinedInOrder ==
    ASSUME TypeInv, NEW o \in Ranks, InOrder(o), NEW r \in Ranks, Joined(r)
    PROVE  InOrder(o)'
  <1>1. /\ loop[r].at = "allgather" /\ loop' = [loop EXCEPT ![r] = At("header")]
        /\ UNCHANGED <<fuse, chan, calls, handle, unmountFromThread, fault>>
    BY DEF Joined, users, mpi
  <1>2. loop'[r].at = "header" /\ \A q \in Ranks \ {r} : loop'[q] = loop[q]
    BY <1>1 DEF TypeInv, Kinds, At
  <1> QED  BY <1>1, <1>2, LoopInOrder

LEMMA UnmountFromThreadInOrder ==
    ASSUME TypeInv, NEW o \in Ranks, InOrder(o), NEW r \in Ranks, UnmountFromThread(r)
    PROVE  InOrder(o)'
  <1>1. /\ loop[r].at = "unmounting" /\ loop' = [loop EXCEPT ![r] = At("stopped")]
        /\ fuse' = [fuse EXCEPT ![r] = IF Idle(r) /\ NothingOpen(r) THEN At("unmounted") ELSE @]
        /\ UNCHANGED <<chan, calls, handle, unmountFromThread, fault>>
    BY DEF UnmountFromThread, users, mpi
  <1>2. loop'[r].at = "stopped" /\ \A q \in Ranks \ {r} : loop'[q] = loop[q]
    BY <1>1 DEF TypeInv, Kinds, At
  <1>3. Over /\ unmountFromThread[r]  BY <1>1 DEF InOrder, Ending, Over
  <1>4. /\ \A q \in Ranks \ {r} : fuse'[q] = fuse[q]
        /\ fuse'[r] = fuse[r] \/ (fuse[r].at = "idle" /\ fuse'[r].at = "unmounted")
    <2>1. CASE Idle(r) /\ NothingOpen(r)
      <3>1. fuse' = [fuse EXCEPT ![r] = At("unmounted")]  BY <1>1, <2>1
      <3> QED  BY <2>1, <3>1 DEF TypeInv, Kinds, Idle, At
    <2>2. CASE ~ (Idle(r) /\ NothingOpen(r))
      <3>1. fuse' = fuse  BY <1>1, <2>2 DEF TypeInv, Kinds
      <3> QED  BY <3>1
    <2> QED  BY <2>1, <2>2
  <1> QED  BY <1>1, <1>2, <1>3, <1>4, LoopInOrder

\* No process enters another collective than the others.
LEMMA NotCrossed ==
    ASSUME TypeInv, NEW o \in Ranks, InOrder(o), NEW p \in Ranks, Crossed(p)
    PROVE  FALSE
  <1>1. CASE fuse[p].at \in {"read", "write"} /\ st_size[p][fuse[p].ino] # 0
             /\ Crossing(p, loop[p], IF fuse[p].at = "read" THEN "READ" ELSE "WRITE",
                         p, st_size[p][fuse[p].ino])
    <2>1. p = o  BY <1>1, InHandler DEF Rests
    <2>2. ~ Inside(loop[p])  BY <2>1 DEF InOrder, OnlyRoot, Alone, Inside
    <2>3. PICK q \in Ranks : Len(calls[p]) + 1 <= Len(calls[q])
      BY <1>1, <2>2 DEF Crossing, NextCall
    <2>4. Len(calls[q]) \in Nat /\ Len(calls[o]) \in Nat /\ Len(calls[q]) <= Len(calls[o])
      BY Behind
    <2> QED  BY <2>1, <2>3, <2>4
  <1>2. CASE loop[p].at = "scatter"
             /\ Crossing(p, fuse[p], loop[p].op, loop[p].root, loop[p].size)
    <2> DEFINE k == Len(calls[p]) + 1
    <2>1. p # o  BY <1>2 DEF InOrder, OnlyRoot, Alone
    <2>2. ~ Inside(fuse[p])  BY <2>1 DEF InOrder, OnlyRoot, Rests, Inside
    <2>3. PICK q \in Ranks : k <= Len(calls[q])
                             /\ ~ Same(calls[q][k], loop[p].op, loop[p].root, loop[p].size)
      BY <1>2, <2>2 DEF Crossing, NextCall
    <2>4. loop[p].root = o /\ Same(calls[o][k], loop[p].op, o, loop[p].size)
      BY <1>2, <2>1 DEF InOrder, FollowsRoot, IsCall
    <2>5. k \in 1 .. Len(calls[o])  BY <1>2, <2>1, Behind
    <2>6. Same(calls[q][k], calls[o][k].op, calls[o][k].root, calls[o][k].n)
      BY <2>3, <2>5 DEF TypeInv, Agreed
    <2> QED  BY <2>3, <2>4, <2>6 DEF Same
  <1> QED  BY <1>1, <1>2 DEF Crossed

-----------------------------------------------------------------------------
(* The whole.                                                              *)

LEMMA InitInOrder == ASSUME Init, NEW o \in Ranks PROVE InOrder(o)
  <1>1. /\ \A p \in Ranks : fuse[p].at = "idle" /\ loop[p].at = "header"
        /\ \A s, r \in Ranks : chan[s][r] = <<>>
        /\ \A p \in Ranks : calls[p] = <<>>
        /\ fault = "none"
    BY DEF Init, At
  <1>2. <<>> \in Seq(Packet) /\ <<>> \in Seq(Entry) /\ Len(<<>>) = 0  OBVIOUS
  <1>3. \A s, r \in Ranks : \A k \in 1 .. Len(chan[s][r]) : FALSE
    <2> TAKE s \in Ranks, r \in Ranks
    <2>1. Len(chan[s][r]) = 0  BY <1>1, <1>2
    <2> QED  BY <2>1
  <1>4. \A r \in Ranks \ {o} : FollowsRoot(o, r)
    <2> TAKE r \in Ranks \ {o}
    <2>1. Leads(chan[o][r], "none", "none", Len(calls[o]), o, calls[o])
      <3>1. \A k \in 1 .. Len(chan[o][r]) : ~ Request(chan[o][r][k]) /\ k = Len(chan[o][r])
        BY <1>3
      <3>2. chan[o][r] \in Seq(Packet) /\ calls[o] \in Seq(Entry)  BY <1>1, <1>2
      <3> QED  BY <3>1, <3>2, LeadsNothing
    <2>2. Joining(r) = Len(calls[o])
      <3>1. Joining(r) = 0 + 0 /\ Len(calls[o]) = 0  BY <1>1, <1>2 DEF Joining
      <3> QED  BY <3>1
    <2>3. Awaiting(r) = "none" /\ Announced(o) = "none"  BY <1>1 DEF Awaiting, Announced
    <2> QED  BY <1>1, <2>1, <2>2, <2>3 DEF FollowsRoot
  <1>5. OnlyRoot(o)  BY <1>1 DEF OnlyRoot, Rests, Alone
  <1>6. RequestsOf(o)  BY <1>3 DEF RequestsOf
  <1>7. Ending  BY <1>1 DEF Ending, Over
  <1>8. NoRequest  BY <1>1, <1>3 DEF NoRequest
  <1> QED  BY <1>1, <1>4, <1>5, <1>6, <1>7, <1>8 DEF InOrder, EndOf

LEMMA ThreadsInOrder ==
    ASSUME TypeInv, NEW o \in Ranks, InOrder(o), NEW p \in Ranks, Session(p) \/ Second(p)
    PROVE  InOrder(o)' /\ UNCHANGED users
  <1>1. CASE RootWrite(p)  BY Zenon, <1>1, RootWriteInOrder DEF RootWrite
  <1>2. CASE RootRead(p)  BY <1>2, RootReadInOrder DEF RootRead
  <1>3. CASE RootWritten(p)
    <2>1. /\ fuse[p].at = "allgather" /\ fuse' = [fuse EXCEPT ![p] = At("idle")]
          /\ UNCHANGED <<loop, chan, calls, unmountFromThread, fault, users>>
      BY <1>3 DEF RootWritten, mpi
    <2> QED  BY <2>1, RootReturns
  <1>4. CASE RootLoaded(p)
    <2>1. /\ fuse[p].at = "gather" /\ fuse' = [fuse EXCEPT ![p] = At("idle")]
          /\ UNCHANGED <<loop, chan, calls, unmountFromThread, fault, users>>
      BY <1>4 DEF RootLoaded, mpi
    <2> QED  BY <2>1, RootReturns
  <1>5. CASE SessionEnds(p)  BY <1>5, SessionEndsInOrder DEF SessionEnds
  <1>6. CASE ReceiveHeader(p)  BY <1>6, ReceiveHeaderInOrder DEF ReceiveHeader
  <1>7. CASE ReceiveIO(p)  BY <1>7, ReceiveIOInOrder DEF ReceiveIO
  <1>8. CASE JoinWrite(p)  BY <1>8, JoinWriteInOrder DEF JoinWrite
  <1>9. CASE JoinRead(p)  BY <1>9, JoinReadInOrder DEF JoinRead
  <1>10. CASE Joined(p)  BY <1>10, JoinedInOrder DEF Joined
  <1>11. CASE UnmountFromThread(p)  BY <1>11, UnmountFromThreadInOrder DEF UnmountFromThread
  <1> QED
    BY <1>1, <1>2, <1>3, <1>4, <1>5, <1>6, <1>7, <1>8, <1>9, <1>10, <1>11 DEF Session, Second

\* A user of another process comes in turn, and his process is the root then.
LEMMA UserInOrder ==
    ASSUME TypeInv, NEW o \in Ranks, o = origin, NEW p \in Ranks, User(p), orderly',
           orderly => InOrder(o)
    PROVE  origin' \in Ranks /\ \A q \in Ranks : q = origin' => InOrder(q)'
  <1>1. \A rule : Comes(p, rule) => /\ origin' = p
                                    /\ InOrder(o) => InOrder(p)
    <2> TAKE rule
    <2> SUFFICES ASSUME Comes(p, rule) PROVE origin' = p /\ (InOrder(o) => InOrder(p))
      OBVIOUS
    <2>1. origin' = p /\ Turn(p)  BY DEF Comes
    <2>2. ASSUME InOrder(o) PROVE InOrder(p)
      <3>1. InOrder(origin)  BY <2>2
      <3> QED  BY <2>1, <3>1, TurnStep
    <2> QED  BY <2>1, <2>2
  <1>2. CASE Unmount(p)
    <2>1. Comes(p, \A q \in Ranks : NothingOpen(q)) /\ orderly
      BY <1>2 DEF Unmount, Comes
    <2>2. origin' = p /\ InOrder(p)  BY <1>1, <2>1
    <2> QED  BY <1>2, <2>2, UnmountInOrder
  <1>3. ASSUME NEW f \in Inodes, FuseFlush(p, f)
        PROVE  origin' \in Ranks /\ \A q \in Ranks : q = origin' => InOrder(q)'
    <2>1. CASE m_buf[p][f] # NoBuf /\ waiting[p][f]
      <3>1. Comes(p, TRUE)  BY <1>3, <2>1 DEF FuseFlush
      <3>2. orderly  BY <3>1 DEF Comes
      <3>3. origin' = p /\ InOrder(p)  BY <1>1, <3>1, <3>2
      <3> QED  BY <1>3, <3>3, FlushInOrder
    <2>2. CASE ~ (m_buf[p][f] # NoBuf /\ waiting[p][f])
      <3>1. origin' = origin /\ orderly  BY <1>3, <2>2 DEF FuseFlush
      <3>2. InOrder(o)'  BY <1>3, <2>2, <3>1, FlushInOrder
      <3> QED  BY <3>1, <3>2
    <2> QED  BY <2>1, <2>2
  <1>4. ASSUME NEW f \in Inodes, NEW mode \in Modes, FuseOpen(p, f, mode)
        PROVE  origin' \in Ranks /\ \A q \in Ranks : q = origin' => InOrder(q)'
    <2>1. Comes(p, MayOpen(p, f, mode))  BY <1>4 DEF FuseOpen
    <2>2. orderly  BY <2>1 DEF Comes
    <2>3. origin' = p /\ InOrder(p)  BY <1>1, <2>1, <2>2
    <2> QED  BY <1>4, <2>3, OpenInOrder
  <1>5. ASSUME NEW f \in Inodes, NEW off \in Nat, NEW data \in Payloads, FuseWrite(p, f, off, data)
        PROVE  origin' \in Ranks /\ \A q \in Ranks : q = origin' => InOrder(q)'
    <2>1. origin' = origin /\ orderly' = orderly  BY <1>5 DEF FuseWrite
    <2>2. InOrder(o)'  BY <1>5, <2>1, WriteInOrder
    <2> QED  BY <2>1, <2>2
  <1> QED  BY <1>2, <1>3, <1>4, <1>5, UserCases

\* While users are orderly, all that is under way is of one process.
THEOREM StepInvariance == Spec => []StepInv
  <1>1. Init => StepInv  BY InitInOrder DEF StepInv
  <1>2. TypeInv /\ StepInv /\ [Next]_vars => StepInv'
    <2> SUFFICES ASSUME TypeInv, StepInv, [Next]_vars, orderly'
                 PROVE  \A q \in Ranks : q = origin' => InOrder(q)'
      BY DEF StepInv
    <2>1. PICK o \in Ranks : o = origin  BY DEF TypeInv, TypeOK
    <2>2. orderly => InOrder(o)  BY <2>1 DEF StepInv
    <2>3. ASSUME NEW p \in Ranks, Session(p) \/ Second(p)
          PROVE  \A q \in Ranks : q = origin' => InOrder(q)'
      <3>1. UNCHANGED users
        BY Zenon, <2>3 DEF Session, Second, RootWrite, RootWritten, RootRead, RootLoaded, SessionEnds,
                    ReceiveHeader, ReceiveIO, JoinWrite, Joined, JoinRead, UnmountFromThread
      <3>2. orderly /\ origin' = o  BY <2>1, <3>1 DEF users
      <3>3. InOrder(o)'  BY <2>2, <2>3, <3>2, ThreadsInOrder
      <3> QED  BY <3>2, <3>3
    <2>4. ASSUME NEW p \in Ranks, User(p)
          PROVE  \A q \in Ranks : q = origin' => InOrder(q)'
      BY <2>1, <2>2, <2>4, UserInOrder
    <2>5. ASSUME NEW p \in Ranks, Crossed(p)
          PROVE  \A q \in Ranks : q = origin' => InOrder(q)'
      <3>1. orderly  BY <2>5 DEF Crossed, users
      <3> QED  BY <2>2, <2>5, <3>1, NotCrossed
    <2>6. ASSUME UNCHANGED vars
          PROVE  \A q \in Ranks : q = origin' => InOrder(q)'
      <3>1. /\ UNCHANGED <<fuse, loop, chan, calls, unmountFromThread, fault, handle>>
            /\ origin' = o /\ orderly
        BY <2>1, <2>6 DEF vars, users, mpi
      <3>2. fault' \notin {"message", "collective"} /\ InOrder(o)
        BY <2>2, <3>1 DEF InOrder
      <3>3. Over => \A q \in Ranks : NothingOpen(q)'
        BY <3>1, <3>2 DEF InOrder, Ending, NothingOpen
      <3>4. InOrder(o)'  BY <3>1, <3>2, <3>3, QuietInOrder
      <3> QED  BY <3>1, <3>4
    <2> QED  BY <2>3, <2>4, <2>5, <2>6 DEF Next, Rest
  <1> QED  BY <1>1, <1>2, TypeInvariance, PTL DEF Spec

\* While users are orderly no second thread takes an IORequest for a header or a
\* header for an IORequest, and no process enters another collective than the
\* others (DistributedCode::start), for any number of processes and operations.
THEOREM InStepSafety == Spec => []InStep
  <1>1. TypeInv /\ StepInv => InStep
    BY DEF TypeInv, TypeOK, StepInv, InStep, InOrder
  <1> QED  BY <1>1, TypeInvariance, StepInvariance, PTL

-----------------------------------------------------------------------------
(* What the files are after each pair of collectives.  c is what each      *)
(* process has entered; where two have entered a k-th pair it is the same, *)
(* of the same file, and its root has entered it.                          *)

Sound(c) ==
    /\ c \in [Ranks -> Seq(Entry)]
    /\ \A p, q \in Ranks : \A k \in 1 .. Len(c[p]) : k <= Len(c[q]) =>
          Same(c[q][k], c[p][k].op, c[p][k].root, c[p][k].n) /\ c[q][k].ino = c[p][k].ino
    /\ \A q \in Ranks : \A k \in 1 .. Len(c[q]) :
          /\ Len(c[q][k].up) = Count(c[q][k].n, q)
          /\ c[q][k].root = q => Len(c[q][k].down) = c[q][k].n
          /\ k <= Len(c[c[q][k].root])

\* What the gather of the k-th pair puts together, once those with a share are in it.
GatheredAt(c, k, n) ==
    Assemble([q \in Ranks |-> IF k <= Len(c[q]) THEN c[q][k].up ELSE <<>>], n)
HaveEntered(c, k, n) == \A q \in Ranks : Count(n, q) > 0 => k <= Len(c[q])

\* Addresses, size and blocks of each file.
Files == [list : [Inodes -> Seq(Nat)], size : [Inodes -> Nat], kept : [Inodes -> Content]]
NoFiles == [list |-> [f \in Inodes |-> <<>>], size |-> [f \in Inodes |-> 0],
            kept |-> [f \in Inodes |-> <<>>]]

\* The k-th pair, as p has entered it, makes x this:
Outcome(c, p, k, x) ==
    LET e == c[p][k]
    IN  IF e.op = "WRITE"
          THEN [list |-> [x.list EXCEPT ![e.ino] = UpdateList(@, GatheredAt(c, k, e.n))],
                size |-> [x.size EXCEPT ![e.ino] = e.n],
                kept |-> [x.kept EXCEPT ![e.ino] = c[e.root][k].down]]
          ELSE x

\* h[k] is what the files are after k pairs.
History(c, N, h) ==
    /\ N \in Nat /\ h \in [0 .. N -> Files] /\ h[0] = NoFiles
    /\ \A k \in 1 .. N :
          /\ \E p \in Ranks : k <= Len(c[p])
          /\ \A p \in Ranks : k <= Len(c[p]) =>
                /\ h[k] = Outcome(c, p, k, h[k - 1])
                /\ c[p][k].op = "WRITE" => HaveEntered(c, k, c[p][k].n)
    /\ \A a, b \in 0 .. N :
          a <= b /\ (\A k \in a + 1 .. b : h[k] = h[k - 1]) => h[a] = h[b]

\* An entered pair of the processes is of an operation, a file, a size and
\* as many blocks as the partition gives the process.
LEMMA SoundEntry ==
    ASSUME NEW c, Sound(c), NEW p \in Ranks, NEW k \in 1 .. Len(c[p])
    PROVE  /\ c[p][k] \in Entry /\ c[p] \in Seq(Entry) /\ Len(c[p]) \in Nat
           /\ c[p][k].op \in Ops /\ c[p][k].root \in Ranks /\ c[p][k].ino \in Inodes
           /\ c[p][k].n \in Nat
           /\ k \in 1 .. Len(c[c[p][k].root])
  <1>1. c[p] \in Seq(Entry) /\ Len(c[p]) \in Nat  BY DEF Sound
  <1>2. c[p][k] \in Entry  BY <1>1, ElementOfSeq
  <1>3. c[p][k].root \in Ranks /\ k <= Len(c[c[p][k].root])  BY <1>2, EntryFacts DEF Sound
  <1>4. Len(c[c[p][k].root]) \in Nat  BY <1>3 DEF Sound
  <1> QED  BY <1>1, <1>2, <1>3, <1>4, EntryFacts

\* What is gathered has its type.
LEMMA GatheredAtType ==
    ASSUME NEW c, Sound(c), NEW p \in Ranks, NEW k \in 1 .. Len(c[p]), c[p][k].op = "WRITE",
           HaveEntered(c, k, c[p][k].n)
    PROVE  /\ GatheredAt(c, k, c[p][k].n) \in Seq(Nat)
           /\ Len(GatheredAt(c, k, c[p][k].n)) = c[p][k].n
           /\ \A i \in 1 .. c[p][k].n :
                 LET q == Owner(c[p][k].n, i) IN
                 /\ q \in Ranks /\ k \in 1 .. Len(c[q])
                 /\ i - Displ(c[p][k].n, q) \in 1 .. Count(c[p][k].n, q)
                 /\ GatheredAt(c, k, c[p][k].n)[i] = c[q][k].up[i - Displ(c[p][k].n, q)]
  <1> DEFINE n == c[p][k].n
             e(i) == c[Owner(n, i)][k].up[i - Displ(n, Owner(n, i))]
  <1>1. n \in Nat  BY SoundEntry
  <1>2. ASSUME NEW i \in 1 .. n
        PROVE  LET q == Owner(n, i) IN
               /\ q \in Ranks /\ k \in 1 .. Len(c[q]) /\ i - Displ(n, q) \in 1 .. Count(n, q)
               /\ e(i) \in Nat
    <2> DEFINE q == Owner(n, i)
    <2>1. q \in Ranks /\ i - Displ(n, q) \in 1 .. Count(n, q)  BY <1>1, OwnerHolds
    <2> HIDE DEF q, n
    <2>2. Count(n, q) > 0
      <3>1. Count(n, q) \in Nat  BY <1>1, <2>1, CountType
      <3>2. \A x \in Nat : \A y : y \in 1 .. x => x > 0  OBVIOUS
      <3> QED  BY <2>1, <3>1, <3>2
    <2>3. k <= Len(c[q])  BY <2>1, <2>2 DEF HaveEntered, n
    <2>4. Len(c[q]) \in Nat /\ c[q] \in Seq(Entry)  BY <2>1 DEF Sound
    <2>5. k \in 1 .. Len(c[q])  BY <2>3, <2>4
    <2>6. c[q][k] \in Entry  BY <2>4, <2>5, ElementOfSeq
    <2>7. c[q][k].op = "WRITE" /\ c[q][k].n = n  BY <2>1, <2>3 DEF Sound, Same, n
    <2>8. c[q][k].up \in Seq(Nat) /\ Len(c[q][k].up) = Count(n, q)
      BY <2>1, <2>5, <2>6, <2>7, EntryFacts DEF Sound
    <2>9. c[q][k].up[i - Displ(n, q)] \in Nat  BY <2>1, <2>8, ElementOfSeq
    <2> QED  BY <2>1, <2>5, <2>9 DEF q
  <1> DEFINE got == [q \in Ranks |-> IF k <= Len(c[q]) THEN c[q][k].up ELSE <<>>]
             d(i) == got[Owner(n, i)][i - Displ(n, Owner(n, i))]
  <1>3. \A i \in 1 .. n : d(i) = e(i) /\ d(i) \in Nat
    <2> TAKE i \in 1 .. n
    <2>1. Owner(n, i) \in Ranks /\ k \in 1 .. Len(c[Owner(n, i)]) /\ e(i) \in Nat  BY <1>2
    <2>2. got[Owner(n, i)] = c[Owner(n, i)][k].up  BY <2>1
    <2> QED  BY SMTT(20), <2>1, <2>2
  <1>4. GatheredAt(c, k, n) = [i \in 1 .. n |-> d(i)]  BY DEF GatheredAt, Assemble
  <1> HIDE DEF n, e, d
  <1>5. /\ GatheredAt(c, k, n) \in Seq(Nat) /\ Len(GatheredAt(c, k, n)) = n
        /\ \A i \in 1 .. n : GatheredAt(c, k, n)[i] = e(i)
    <2>1. [i \in 1 .. n |-> d(i)] \in [1 .. n -> Nat]  BY <1>3
    <2>2. [i \in 1 .. n |-> d(i)] \in Seq(Nat) /\ Len([i \in 1 .. n |-> d(i)]) = n
      BY <1>1, <2>1
    <2> QED  BY <1>3, <1>4, <2>2
  <1> QED  BY <1>2, <1>5 DEF n, e

\* The outcome has its type and is the same wherever the pair has been entered.
LEMMA OutcomeType ==
    ASSUME NEW c, Sound(c), NEW p \in Ranks, NEW k \in 1 .. Len(c[p]), NEW x \in Files,
           c[p][k].op = "WRITE" => HaveEntered(c, k, c[p][k].n)
    PROVE  /\ Outcome(c, p, k, x) \in Files
           /\ \A q \in Ranks : k <= Len(c[q]) => Outcome(c, q, k, x) = Outcome(c, p, k, x)
  <1> DEFINE e == c[p][k]
  <1>1. e \in Entry /\ e.op \in Ops /\ e.root \in Ranks /\ e.ino \in Inodes /\ e.n \in Nat
        /\ k \in 1 .. Len(c[e.root])
    BY SoundEntry
  <1>2. Outcome(c, p, k, x) \in Files
    <2>1. CASE e.op # "WRITE"  BY <2>1 DEF Outcome
    <2>2. CASE e.op = "WRITE"
      <3>1. GatheredAt(c, k, e.n) \in Seq(Nat)  BY <2>2, GatheredAtType
      <3>2. c[e.root][k] \in Entry  BY <1>1, SoundEntry
      <3>3. c[e.root][k].op = "WRITE"
        BY <1>1, <2>2 DEF Sound, Same
      <3>4. c[e.root][k].down \in Content  BY <3>2, <3>3, EntryFacts
      <3>5. x.list[e.ino] \in Seq(Nat)  BY <1>1 DEF Files
      <3>6. UpdateList(x.list[e.ino], GatheredAt(c, k, e.n)) \in Seq(Nat)
        BY <3>1, <3>5, UpdateListType
      <3> DEFINE u == UpdateList(x.list[e.ino], GatheredAt(c, k, e.n))
                 d == c[e.root][k].down
      <3>7. Outcome(c, p, k, x) = [list |-> [x.list EXCEPT ![e.ino] = u],
                                   size |-> [x.size EXCEPT ![e.ino] = e.n],
                                   kept |-> [x.kept EXCEPT ![e.ino] = d]]
        BY <2>2 DEF Outcome
      <3> HIDE DEF u, d, e
      <3> QED  BY <1>1, <3>4, <3>6, <3>7 DEF Files, u, d
    <2> QED  BY <2>1, <2>2
  <1>3. ASSUME NEW q \in Ranks, k <= Len(c[q])
        PROVE  Outcome(c, q, k, x) = Outcome(c, p, k, x)
    <2>1. /\ c[q][k].op = e.op /\ c[q][k].root = e.root /\ c[q][k].n = e.n
          /\ c[q][k].ino = e.ino
      BY <1>3 DEF Sound, Same
    <2> QED  BY <2>1 DEF Outcome
  <1> QED  BY <1>2, <1>3

\* What has been keeps when processes enter more.
LEMMA HistoryGrows ==
    ASSUME NEW c, NEW d, Sound(c), Sound(d),
           \A q \in Ranks : /\ Len(c[q]) <= Len(d[q])
                            /\ \A k \in 1 .. Len(c[q]) : d[q][k] = c[q][k],
           NEW N, NEW h, History(c, N, h)
    PROVE  History(d, N, h)
  <1>1. \A q \in Ranks : Len(c[q]) \in Nat /\ Len(d[q]) \in Nat  BY DEF Sound
  <1>2. N \in Nat /\ h \in [0 .. N -> Files]  BY DEF History
  <1>3. ASSUME NEW k \in 1 .. N
        PROVE  /\ \E p \in Ranks : k <= Len(d[p])
               /\ \A p \in Ranks : k <= Len(d[p]) =>
                     /\ h[k] = Outcome(d, p, k, h[k - 1])
                     /\ d[p][k].op = "WRITE" => HaveEntered(d, k, d[p][k].n)
    <2>1. PICK t \in Ranks : k <= Len(c[t])  BY DEF History
    <2>2. k \in 1 .. Len(c[t]) /\ k \in 1 .. Len(d[t]) /\ d[t][k] = c[t][k] /\ k - 1 \in 0 .. N
      BY <1>1, <1>2, <2>1
    <2> DEFINE e == c[t][k]
    <2>3. /\ e.root \in Ranks /\ e.n \in Nat /\ k \in 1 .. Len(c[e.root]) /\ e.op \in Ops
      BY <2>2, SoundEntry
    <2>4. d[e.root][k] = c[e.root][k]  BY <2>3
    <2>5. h[k] = Outcome(c, t, k, h[k - 1]) /\ (e.op = "WRITE" => HaveEntered(c, k, e.n))
      BY <2>1 DEF History
    <2>6. e.op = "WRITE" => HaveEntered(d, k, e.n)
      BY <1>1, <2>5 DEF HaveEntered
    <2>7. ASSUME e.op = "WRITE" PROVE GatheredAt(d, k, e.n) = GatheredAt(c, k, e.n)
      <3>1. ASSUME NEW q \in Ranks
            PROVE  (IF k <= Len(c[q]) THEN c[q][k].up ELSE <<>>)
                     = (IF k <= Len(d[q]) THEN d[q][k].up ELSE <<>>)
        <4>1. CASE k <= Len(c[q])  BY <1>1, <4>1
        <4>2. CASE ~ (k <= Len(c[q])) /\ k <= Len(d[q])
          <5>1. ~ (Count(e.n, q) > 0)  BY <2>5, <2>7, <4>2 DEF HaveEntered
          <5>2. Count(e.n, q) \in Nat  BY <2>3, CountType
          <5>3. k \in 1 .. Len(d[q])  BY <1>1, <4>2
          <5>4. d[q][k].n = e.n /\ d[q][k].op = "WRITE"
            BY <2>2, <2>7, <4>2 DEF Sound, Same
          <5>5. Len(d[q][k].up) = 0
            <6>1. Len(d[q][k].up) = Count(d[q][k].n, q)  BY <5>3 DEF Sound
            <6>2. Len(d[q][k].up) = Count(e.n, q)  BY <5>4, <6>1
            <6> HIDE DEF e
            <6> QED  BY <5>1, <5>2, <6>2
          <5>6. d[q][k] \in Entry  BY <5>3, SoundEntry
          <5>7. d[q][k].up \in Seq(Nat)  BY <5>4, <5>6, EntryFacts
          <5>8. d[q][k].up = <<>>  BY <5>5, <5>7, EmptySeq
          <5> QED  BY <4>2, <5>8
        <4>3. CASE ~ (k <= Len(c[q])) /\ ~ (k <= Len(d[q]))  BY <4>3
        <4> QED  BY <4>1, <4>2, <4>3
      <3> HIDE DEF e
      <3> QED  BY <3>1 DEF GatheredAt
    <2>8. h[k] = Outcome(d, t, k, h[k - 1])
      BY <2>2, <2>4, <2>5, <2>7 DEF Outcome
    <2>9. h[k - 1] \in Files  BY <1>2, <2>2
    <2>10. ASSUME NEW p \in Ranks, k <= Len(d[p])
           PROVE  /\ h[k] = Outcome(d, p, k, h[k - 1])
                  /\ d[p][k].op = "WRITE" => HaveEntered(d, k, d[p][k].n)
      <3>1. d[p][k].op = e.op /\ d[p][k].n = e.n
        BY <2>2, <2>10 DEF Sound, Same
      <3>2. Outcome(d, p, k, h[k - 1]) = Outcome(d, t, k, h[k - 1])
        <4>1. d[t][k].op = "WRITE" => HaveEntered(d, k, d[t][k].n)  BY <2>2, <2>6
        <4> HIDE DEF e
        <4> QED  BY <2>2, <2>9, <2>10, <4>1, OutcomeType
      <3> QED  BY <2>6, <2>8, <3>1, <3>2
    <2>11. k <= Len(d[t])  BY <1>1, <2>2
    <2> QED  BY <2>10, <2>11
  <1> QED  BY <1>3 DEF History

\* The next pair has its outcome, whether it is known already or not.
LEMMA Advance ==
    ASSUME NEW c, Sound(c), NEW N, NEW h, History(c, N, h), NEW p \in Ranks,
           NEW k \in 1 .. Len(c[p]), k - 1 <= N,
           c[p][k].op = "WRITE" => HaveEntered(c, k, c[p][k].n)
    PROVE  \E M \in Nat : \E g :
              /\ History(c, M, g) /\ N <= M /\ k <= M /\ (M = N \/ M = k)
              /\ \A j \in 0 .. N : g[j] = h[j]
              /\ g[k] = Outcome(c, p, k, g[k - 1])
  <1>1. N \in Nat /\ h \in [0 .. N -> Files]  BY DEF History
  <1>2. Len(c[p]) \in Nat /\ k \in Nat /\ k <= Len(c[p])  BY DEF Sound
  <1>3. CASE k <= N
    <2>1. h[k] = Outcome(c, p, k, h[k - 1])  BY <1>1, <1>2, <1>3 DEF History
    <2>2. N <= N  BY <1>1
    <2> QED  BY <1>1, <1>3, <2>1, <2>2
  <1>4. CASE ~ (k <= N)
    <2> DEFINE x == Outcome(c, p, k, h[N])
               g == [j \in 0 .. N + 1 |-> IF j <= N THEN h[j] ELSE x]
    <2>1. k = N + 1  BY <1>1, <1>2, <1>4
    <2>2. h[N] \in Files  BY <1>1
    <2>3. x \in Files /\ \A q \in Ranks : k <= Len(c[q]) => Outcome(c, q, k, h[N]) = x
      BY <2>2, OutcomeType
    <2> HIDE DEF x
    <2>4. /\ g \in [0 .. N + 1 -> Files] /\ g[N + 1] = x
          /\ \A j \in 0 .. N : g[j] = h[j]
      BY <1>1, <2>3
    <2> HIDE DEF g
    <2>5. \A j \in 1 .. N + 1 :
             /\ \E q \in Ranks : j <= Len(c[q])
             /\ \A q \in Ranks : j <= Len(c[q]) =>
                   /\ g[j] = Outcome(c, q, j, g[j - 1])
                   /\ c[q][j].op = "WRITE" => HaveEntered(c, j, c[q][j].n)
      <3> TAKE j \in 1 .. N + 1
      <3>1. CASE j <= N
        <4>1. j \in 1 .. N /\ g[j] = h[j] /\ g[j - 1] = h[j - 1]  BY <1>1, <2>4, <3>1
        <4> QED  BY <4>1 DEF History
      <3>2. CASE j = N + 1
        <4>1. j = k /\ g[j] = x /\ g[j - 1] = h[N]  BY <1>1, <2>1, <2>4, <3>2
        <4>2. \A q \in Ranks : j <= Len(c[q]) => c[q][j].op = c[p][k].op /\ c[q][j].n = c[p][k].n
          BY <4>1 DEF Sound, Same
        <4> QED  BY <1>2, <2>3, <4>1, <4>2
      <3> QED  BY <1>1, <3>1, <3>2
    <2>6. \A a, b \in 0 .. N + 1 :
             a <= b /\ (\A j \in a + 1 .. b : g[j] = g[j - 1]) => g[a] = g[b]
      <3> SUFFICES ASSUME NEW a \in 0 .. N + 1, NEW b \in 0 .. N + 1, a <= b,
                          \A j \in a + 1 .. b : g[j] = g[j - 1]
                   PROVE  g[a] = g[b]
        OBVIOUS
      <3>0. \A s, t \in 0 .. N :
               s <= t /\ (\A j \in s + 1 .. t : h[j] = h[j - 1]) => h[s] = h[t]
        BY DEF History
      <3>1. CASE b <= N
        <4>1. a \in 0 .. N /\ b \in 0 .. N  BY <1>1, <3>1
        <4>2. \A j \in a + 1 .. b : h[j] = h[j - 1]  BY <1>1, <2>4, <4>1
        <4> QED  BY <2>4, <3>0, <4>1, <4>2
      <3>2. CASE b = N + 1 /\ a <= N
        <4>1. a \in 0 .. N /\ N \in 0 .. N /\ a <= N /\ b \in a + 1 .. b /\ b - 1 = N
          BY <1>1, <3>2
        <4>2. \A j \in a + 1 .. N : h[j] = h[j - 1]  BY <1>1, <2>4, <3>2
        <4>3. h[a] = h[N]  BY <3>0, <4>1, <4>2
        <4>4. g[b] = g[N]  BY <4>1
        <4> QED  BY <2>4, <4>1, <4>3, <4>4
      <3>3. CASE a = N + 1 /\ b = N + 1  BY <3>3
      <3> QED  BY <1>1, <3>1, <3>2, <3>3
    <2>7. N + 1 \in Nat /\ g[0] = NoFiles  BY <1>1, <2>4 DEF History
    <2>8. History(c, N + 1, g)  BY <2>4, <2>5, <2>6, <2>7 DEF History
    <2>9. g[k] = Outcome(c, p, k, g[k - 1]) /\ N <= N + 1 /\ k <= N + 1
      BY <1>1, <2>1, <2>4 DEF x
    <2> QED  BY <2>1, <2>4, <2>7, <2>8, <2>9
  <1> QED  BY <1>3, <1>4

\* Before anything is entered every file is empty.
LEMMA HistoryBegins ==
    ASSUME NEW c PROVE History(c, 0, [k \in 0 .. 0 |-> NoFiles])
  <1>1. NoFiles \in Files
    <2>1. <<>> \in Seq(Nat) /\ <<>> \in Content  BY DEF Content
    <2> QED  BY <2>1 DEF NoFiles, Files
  <1>2. 0 .. 0 = {0} /\ 1 .. 0 = {}  OBVIOUS
  <1> QED  BY <1>1, <1>2 DEF History

-----------------------------------------------------------------------------
(* The blocks are kept: those of a file at the addresses of the processes  *)
(* that the partition names, those of a write by the processes in it.      *)

AtHome(m, x) ==
    \A f \in Inodes :
        /\ x.size[f] <= Len(x.list[f]) /\ Len(x.kept[f]) = x.size[f]
        /\ \A i \in 1 .. x.size[f] :
              LET q == Owner(x.size[f], i)
              IN  x.list[f][i] \in 1 .. Len(m[q]) /\ m[q][x.list[f][i]] = x.kept[f][i]

SharesKept(c, m) ==
    \A q \in Ranks : \A k \in 1 .. Len(c[q]) :
        LET e == c[q][k] IN
        e.op = "WRITE" =>
            \A j \in 1 .. Count(e.n, q) :
                e.up[j] \in 1 .. Len(m[q])
                /\ m[q][e.up[j]] = c[e.root][k].down[Displ(e.n, q) + j]

Extends(m2, m) == \A q \in Ranks : /\ Len(m[q]) <= Len(m2[q])
                                   /\ \A a \in 1 .. Len(m[q]) : m2[q][a] = m[q][a]

\* Blocks that are kept stay where they are.
LEMMA AtHomeLater ==
    ASSUME NEW m \in [Ranks -> Content], NEW m2 \in [Ranks -> Content], Extends(m2, m),
           NEW x \in Files, AtHome(m, x)
    PROVE  AtHome(m2, x)
  <1> SUFFICES ASSUME NEW f \in Inodes, NEW i \in 1 .. x.size[f]
               PROVE  LET q == Owner(x.size[f], i)
                      IN  x.list[f][i] \in 1 .. Len(m2[q]) /\ m2[q][x.list[f][i]] = x.kept[f][i]
    BY DEF AtHome
  <1> DEFINE q == Owner(x.size[f], i)
  <1>1. x.size[f] \in Nat  BY DEF Files
  <1>2. q \in Ranks  BY <1>1, OwnerHolds
  <1>3. x.list[f][i] \in 1 .. Len(m[q]) /\ m[q][x.list[f][i]] = x.kept[f][i]  BY DEF AtHome
  <1>4. Len(m[q]) \in Nat /\ Len(m2[q]) \in Nat  BY <1>2 DEF Content
  <1> HIDE DEF q
  <1>5. x.list[f][i] \in 1 .. Len(m2[q]) /\ m2[q][x.list[f][i]] = x.kept[f][i]
    BY <1>2, <1>3, <1>4 DEF Extends
  <1> QED  BY <1>5 DEF q

\* The blocks of the next pair are kept, if every process in it has its share.
LEMMA AtHomeNext ==
    ASSUME NEW c, Sound(c), NEW m, SharesKept(c, m), NEW p \in Ranks, NEW k \in 1 .. Len(c[p]),
           c[p][k].op = "WRITE" => HaveEntered(c, k, c[p][k].n), NEW x \in Files, AtHome(m, x)
    PROVE  AtHome(m, Outcome(c, p, k, x))
  <1> DEFINE e == c[p][k]
             g == GatheredAt(c, k, e.n)
             d == c[e.root][k].down
             y == Outcome(c, p, k, x)
  <1>1. CASE e.op # "WRITE"  BY <1>1 DEF Outcome
  <1>2. CASE e.op = "WRITE"
    <2>1. /\ e.root \in Ranks /\ e.ino \in Inodes /\ e.n \in Nat /\ k \in 1 .. Len(c[e.root])
      BY SoundEntry
    <2>2. /\ g \in Seq(Nat) /\ Len(g) = e.n
          /\ \A i \in 1 .. e.n :
                LET q == Owner(e.n, i) IN
                /\ q \in Ranks /\ k \in 1 .. Len(c[q]) /\ i - Displ(e.n, q) \in 1 .. Count(e.n, q)
                /\ g[i] = c[q][k].up[i - Displ(e.n, q)]
      BY <1>2, GatheredAtType
    <2>3. /\ y.list = [x.list EXCEPT ![e.ino] = UpdateList(x.list[e.ino], g)]
          /\ y.size = [x.size EXCEPT ![e.ino] = e.n]
          /\ y.kept = [x.kept EXCEPT ![e.ino] = d]
      BY <1>2 DEF Outcome
    <2>4. c[e.root][k].root = e.root /\ c[e.root][k].n = e.n
      BY <2>1 DEF Sound, Same
    <2>5. Len(d) = e.n  BY <2>1, <2>4 DEF Sound
    <2> HIDE DEF y, g, d
    <2>6. ASSUME NEW f \in Inodes, f # e.ino
          PROVE  y.list[f] = x.list[f] /\ y.size[f] = x.size[f] /\ y.kept[f] = x.kept[f]
      BY <2>1, <2>3, <2>6 DEF Files
    <2> DEFINE l == UpdateList(x.list[e.ino], g)
    <2>7. y.list[e.ino] = l /\ y.size[e.ino] = e.n /\ y.kept[e.ino] = d
      BY <2>1, <2>3 DEF Files
    <2>8. x.list[e.ino] \in Seq(Nat)  BY SMTT(20), <2>1 DEF Files
    <2>9. e.n <= Len(l) /\ \A i \in 1 .. e.n : l[i] = g[i]
      <3>1. Len(l) = Max(Len(x.list[e.ino]), e.n)
        <4>1. g \in Seq(Nat) /\ Len(g) = e.n  BY <2>2
        <4> HIDE DEF e
        <4>2. Len(l) = Max(Len(x.list[e.ino]), Len(g))  BY <2>8, <4>1, UpdateListType
        <4> QED  BY <4>1, <4>2
      <3>2. Len(x.list[e.ino]) \in Nat /\ e.n <= Max(Len(x.list[e.ino]), e.n)
            /\ Max(Len(x.list[e.ino]), e.n) \in Nat
        <4>1. Len(x.list[e.ino]) \in Nat  BY <2>8
        <4> HIDE DEF e
        <4> QED  BY <2>1, <4>1, MaxType
      <3>3. \A i \in 1 .. e.n : l[i] = g[i]
        <4> HIDE DEF e
        <4>1. \A a, b \in Nat : a <= b => \A i \in 1 .. a : i \in 1 .. b /\ i <= a  OBVIOUS
        <4>2. Len(g) = e.n  BY <2>2
        <4>3. \A i \in 1 .. e.n : i \in 1 .. Max(Len(x.list[e.ino]), Len(g)) /\ i <= Len(g)
          BY <2>1, <3>2, <4>1, <4>2
        <4> QED  BY <4>3 DEF UpdateList
      <3> QED  BY <3>1, <3>2, <3>3
    <2>10. ASSUME NEW i \in 1 .. e.n
           PROVE  LET q == Owner(e.n, i) IN g[i] \in 1 .. Len(m[q]) /\ m[q][g[i]] = d[i]
      <3> DEFINE q == Owner(e.n, i)
                 j == i - Displ(e.n, q)
      <3>1. q \in Ranks /\ k \in 1 .. Len(c[q]) /\ j \in 1 .. Count(e.n, q) /\ g[i] = c[q][k].up[j]
        BY <2>2
      <3>2. c[q][k].op = "WRITE" /\ c[q][k].n = e.n /\ c[q][k].root = e.root
        <4>1. k <= Len(c[q])  BY <3>1, SoundEntry
        <4> QED  BY <1>2, <3>1, <4>1 DEF Sound, Same
      <3>3. c[q][k].up[j] \in 1 .. Len(m[q])
            /\ m[q][c[q][k].up[j]] = c[e.root][k].down[Displ(e.n, q) + j]
        <4> HIDE DEF e, q, j
        <4> QED  BY <3>1, <3>2 DEF SharesKept
      <3>4. Displ(e.n, q) + j = i
        <4>1. Displ(e.n, q) \in Nat  BY <2>1, <3>1, CountType
        <4> HIDE DEF q
        <4> QED  BY <4>1
      <3> QED  BY Zenon, <3>1, <3>3, <3>4 DEF d
    <2> HIDE DEF l, e
    <2>11. ASSUME NEW f \in Inodes
           PROVE  /\ y.size[f] <= Len(y.list[f]) /\ Len(y.kept[f]) = y.size[f]
                  /\ \A i \in 1 .. y.size[f] :
                        LET q == Owner(y.size[f], i)
                        IN  y.list[f][i] \in 1 .. Len(m[q]) /\ m[q][y.list[f][i]] = y.kept[f][i]
      <3>1. CASE f = e.ino  BY <2>5, <2>7, <2>9, <2>10, <3>1
      <3>2. CASE f # e.ino
        <4>1. /\ x.size[f] <= Len(x.list[f]) /\ Len(x.kept[f]) = x.size[f]
              /\ \A i \in 1 .. x.size[f] :
                    LET q == Owner(x.size[f], i)
                    IN  x.list[f][i] \in 1 .. Len(m[q]) /\ m[q][x.list[f][i]] = x.kept[f][i]
          BY DEF AtHome
        <4>2. y.list[f] = x.list[f] /\ y.size[f] = x.size[f] /\ y.kept[f] = x.kept[f]
          BY <2>6, <3>2
        <4> QED  BY <4>1, <4>2
      <3> QED  BY <3>1, <3>2
    <2> QED  BY <2>11 DEF AtHome, y
  <1> QED  BY <1>1, <1>2

-----------------------------------------------------------------------------
(* The state of the processes.                                             *)

\* How many pairs a process is through with, the addresses in its list.
Through(p) == Len(calls[p]) - (IF "allgather" \in {fuse[p].at, loop[p].at} THEN 1 ELSE 0)

\* No user of p has changed f since.
Clean(p, f) == handle[p][f] # "w" /\ ~ waiting[p][f]

Shows(p, N, h) ==
    /\ Through(p) \in 0 .. N
    /\ list[p] = h[Through(p)].list
    /\ \A f \in Inodes : Clean(p, f) => st_size[p][f] = h[Through(p)].size[f]

\* A thread in a collective is in that of its file.
OfItsFile ==
    \A p \in Ranks :
        /\ fuse[p].at \in {"allgather", "gather"} =>
              /\ Current(p).root = p /\ Current(p).ino = fuse[p].ino
              /\ Current(p).n = st_size[p][fuse[p].ino]
        /\ loop[p].at = "allgather" =>
              /\ Current(p).ino = loop[p].ino /\ Current(p).n = loop[p].size

Told(c, m, N, h) == History(c, N, h) /\ \A k \in 0 .. N : AtHome(m, h[k])

FilesInv ==
    /\ Sound(calls) /\ SharesKept(calls, mem) /\ OfItsFile
    /\ \E N \in Nat : \E h : Told(calls, mem, N, h) /\ \A p \in Ranks : Shows(p, N, h)

\* What a step has to leave right for the files to stay told by a history.
LEMMA FilesStep ==
    ASSUME TypeInv, TypeInv', FilesInv, Sound(calls'), SharesKept(calls', mem'), OfItsFile',
           \A q \in Ranks : /\ Len(calls[q]) <= Len(calls'[q])
                            /\ \A k \in 1 .. Len(calls[q]) : calls'[q][k] = calls[q][k],
           Extends(mem', mem), NEW p \in Ranks,
           \A q \in Ranks : q # p \/ Through(p)' = Through(p) =>
               /\ Through(q)' = Through(q) /\ list'[q] = list[q]
               /\ \A f \in Inodes : Clean(q, f)' => Clean(q, f) /\ st_size'[q][f] = st_size[q][f],
           Through(p)' # Through(p) =>
               /\ Through(p)' = Through(p) + 1 /\ Through(p)' \in 1 .. Len(calls'[p])
               /\ calls'[p][Through(p)'].op = "WRITE" =>
                      HaveEntered(calls', Through(p)', calls'[p][Through(p)'].n)
               /\ \A x \in Files :
                     list[p] = x.list
                     /\ (\A f \in Inodes : Clean(p, f) => st_size[p][f] = x.size[f])
                     => /\ list'[p] = Outcome(calls', p, Through(p)', x).list
                        /\ \A f \in Inodes : Clean(p, f)' =>
                              st_size'[p][f] = Outcome(calls', p, Through(p)', x).size[f]
    PROVE  FilesInv'
  <1>0. PICK N \in Nat : \E h : Told(calls, mem, N, h) /\ \A q \in Ranks : Shows(q, N, h)
    BY DEF FilesInv
  <1>1. PICK h : Told(calls, mem, N, h) /\ \A q \in Ranks : Shows(q, N, h)  BY <1>0
  <1>2. PICK c2 : c2 = calls'  OBVIOUS
  <1>3. PICK m2 : m2 = mem'  OBVIOUS
  <1>4. mem \in [Ranks -> Content] /\ m2 \in [Ranks -> Content] /\ Extends(m2, mem)
    BY <1>3 DEF TypeInv, TypeOK
  <1>5. /\ History(calls, N, h) /\ N \in Nat /\ h \in [0 .. N -> Files]
    BY <1>1 DEF Told, History
  <1>6. History(c2, N, h)
    <2>1. Sound(calls) /\ Sound(c2)  BY <1>2 DEF FilesInv
    <2>2. \A q \in Ranks : /\ Len(calls[q]) <= Len(c2[q])
                           /\ \A k \in 1 .. Len(calls[q]) : c2[q][k] = calls[q][k]
      BY <1>2
    <2> QED  BY <1>5, <2>1, <2>2, HistoryGrows
  <1>7. \A k \in 0 .. N : AtHome(m2, h[k])
    BY <1>1, <1>4, <1>5, AtHomeLater DEF Told
  <1>8. CASE Through(p)' = Through(p)
    <2>1. \A q \in Ranks : Shows(q, N, h)'
      BY <1>1, <1>8 DEF Shows
    <2>2. Told(calls', mem', N, h)  BY <1>2, <1>3, <1>6, <1>7 DEF Told
    <2> QED  BY <2>1, <2>2 DEF FilesInv
  <1>9. CASE Through(p)' # Through(p)
    <2>1. PICK k : k = Through(p)'  OBVIOUS
    <2>2. /\ k = Through(p) + 1 /\ k \in 1 .. Len(c2[p])
          /\ c2[p][k].op = "WRITE" => HaveEntered(c2, k, c2[p][k].n)
      BY <1>2, <1>9, <2>1
    <2>3. Through(p) \in 0 .. N /\ k - 1 = Through(p) /\ k - 1 <= N
      BY <1>1, <2>2 DEF Shows
    <2>4. Sound(c2) /\ SharesKept(c2, m2)  BY <1>2, <1>3
    <2>5. PICK M \in Nat : \E g :
             /\ History(c2, M, g) /\ N <= M /\ k <= M /\ (M = N \/ M = k)
             /\ \A j \in 0 .. N : g[j] = h[j]
             /\ g[k] = Outcome(c2, p, k, g[k - 1])
      BY <1>6, <2>2, <2>3, <2>4, Advance
    <2>6. PICK g :
             /\ History(c2, M, g) /\ N <= M /\ k <= M /\ (M = N \/ M = k)
             /\ \A j \in 0 .. N : g[j] = h[j]
             /\ g[k] = Outcome(c2, p, k, g[k - 1])
      BY <2>5
    <2>7. k - 1 \in 0 .. N /\ g[k - 1] = h[k - 1] /\ h[k - 1] \in Files /\ k \in 0 .. M
      BY <1>5, <2>2, <2>3, <2>6
    <2>8. \A j \in 0 .. M : AtHome(m2, g[j])
      <3>1. AtHome(m2, g[k])  BY <1>7, <2>2, <2>4, <2>6, <2>7, AtHomeNext
      <3>2. \A j \in 0 .. M : j \in 0 .. N \/ j = k
        BY <2>2, <2>3, <2>6
      <3> QED  BY <1>7, <2>6, <3>1, <3>2
    <2>9. Told(c2, m2, M, g)  BY <2>6, <2>8 DEF Told
    <2>10. Shows(p, M, g)'
      <3>1. list[p] = h[k - 1].list
            /\ \A f \in Inodes : Clean(p, f) => st_size[p][f] = h[k - 1].size[f]
        BY <1>1, <2>3 DEF Shows
      <3>2. /\ list'[p] = Outcome(c2, p, k, h[k - 1]).list
            /\ \A f \in Inodes : Clean(p, f)' => st_size'[p][f] = Outcome(c2, p, k, h[k - 1]).size[f]
        BY <1>2, <1>9, <2>1, <2>7, <3>1
      <3> QED  BY <2>1, <2>6, <2>7, <3>2 DEF Shows
    <2>11. ASSUME NEW q \in Ranks, q # p PROVE Shows(q, M, g)'
      <3>1. Shows(q, N, h)  BY <1>1
      <3>2. Through(q) \in 0 .. M /\ g[Through(q)] = h[Through(q)]
        BY <2>6, <3>1 DEF Shows
      <3> QED  BY <2>11, <3>1, <3>2 DEF Shows
    <2>12. Told(calls', mem', M, g) /\ \A q \in Ranks : Shows(q, M, g)'
      BY <1>2, <1>3, <2>9, <2>10, <2>11
    <2> QED  BY <2>12 DEF FilesInv
  <1> QED  BY <1>8, <1>9

-----------------------------------------------------------------------------
(* The steps.                                                              *)

\* A step that enters no collective and applies no write.
LEMMA FilesStay ==
    ASSUME TypeInv, TypeInv', FilesInv, UNCHANGED <<calls, list, mem>>,
           \A q \in Ranks : fuse'[q].at \in {"allgather", "gather"} =>
               fuse'[q] = fuse[q] /\ st_size'[q][fuse[q].ino] = st_size[q][fuse[q].ino],
           \A q \in Ranks : fuse[q].at = "allgather" => fuse'[q] = fuse[q],
           \A q \in Ranks : loop'[q].at = "allgather" \/ loop[q].at = "allgather" =>
               loop'[q] = loop[q],
           \A q \in Ranks, f \in Inodes :
               Clean(q, f)' => Clean(q, f) /\ st_size'[q][f] = st_size[q][f]
    PROVE  FilesInv'
  <1>1. PICK p \in Ranks : p = origin  BY DEF TypeInv, TypeOK
  <1>2. \A q \in Ranks : Through(q)' = Through(q)
    <2> TAKE q \in Ranks
    <2>1. "allgather" \in {fuse'[q].at, loop'[q].at} <=> "allgather" \in {fuse[q].at, loop[q].at}
      OBVIOUS
    <2> QED  BY <2>1 DEF Through
  <1>3. Sound(calls') /\ SharesKept(calls', mem')  BY DEF FilesInv
  <1>4. OfItsFile'
    <2>1. \A q \in Ranks : Current(q)' = Current(q)  BY DEF Current
    <2> QED  BY <2>1 DEF FilesInv, OfItsFile
  <1>5. \A q \in Ranks : /\ Len(calls[q]) <= Len(calls'[q])
                         /\ \A k \in 1 .. Len(calls[q]) : calls'[q][k] = calls[q][k]
    <2>1. \A q \in Ranks : Len(calls[q]) \in Nat  BY DEF FilesInv, Sound
    <2> QED  BY <2>1
  <1>6. Extends(mem', mem)
    <2>1. \A q \in Ranks : Len(mem[q]) \in Nat  BY DEF TypeInv, TypeOK, Content
    <2> QED  BY <2>1 DEF Extends
  <1>7. list' = list  OBVIOUS
  <1> QED  BY <1>1, <1>2, <1>3, <1>4, <1>5, <1>6, <1>7, FilesStep

\* A process enters a pair of collectives, and what it has entered is sound.
LEMMA EnterSound ==
    ASSUME TypeInv, TypeInv', Sound(calls), NEW p \in Ranks, NEW e \in Entry, Enter(p, e),
           \A q \in Ranks : NextCall(p) <= Len(calls[q]) => calls[q][NextCall(p)].ino = e.ino,
           e.root = p \/ NextCall(p) <= Len(calls[e.root])
    PROVE  /\ Sound(calls')
           /\ \A q \in Ranks : /\ Len(calls[q]) \in Nat
                               /\ Len(calls[q]) <= Len(calls'[q])
                               /\ \A k \in 1 .. Len(calls[q]) : calls'[q][k] = calls[q][k]
           /\ \A q \in Ranks \ {p} : calls'[q] = calls[q]
           /\ Len(calls'[p]) = Len(calls[p]) + 1
           /\ calls'[p][Len(calls[p]) + 1] = e
  <1> DEFINE n == Len(calls[p]) + 1
  <1>1. Kinds /\ \A q \in Ranks : Len(calls[q]) \in Nat  BY DEF TypeInv, Sound
  <1>2. /\ calls' \in [Ranks -> Seq(Entry)]
        /\ \A q \in Ranks \ {p} : calls'[q] = calls[q]
        /\ Len(calls'[p]) = n
        /\ \A k \in 1 .. Len(calls[p]) : calls'[p][k] = calls[p][k]
        /\ calls'[p][n] = e
    BY <1>1, RootEnters
  <1>3. \A q \in Ranks : /\ Len(calls[q]) <= Len(calls'[q]) /\ Len(calls'[q]) \in Nat
                         /\ \A k \in 1 .. Len(calls[q]) : calls'[q][k] = calls[q][k]
    <2> TAKE q \in Ranks
    <2>1. CASE q = p  BY <1>1, <1>2, <2>1
    <2>2. CASE q # p  BY <1>1, <1>2, <2>2
    <2> QED  BY <2>1, <2>2
  <1>4. PICK d : d = calls'  OBVIOUS
  <1>5. ASSUME NEW q \in Ranks, NEW t \in Ranks, NEW k \in 1 .. Len(d[q]), k <= Len(d[t])
        PROVE  d[t][k].ino = d[q][k].ino
    <2>1. CASE k <= Len(calls[q]) /\ k <= Len(calls[t])
      <3>1. k \in 1 .. Len(calls[q]) /\ k \in 1 .. Len(calls[t])
        BY <1>1, <1>3, <1>4, <2>1
      <3> QED  BY <1>3, <1>4, <2>1, <3>1 DEF Sound
    <2>2. ASSUME NEW u \in Ranks, k <= Len(d[u]), k = n PROVE d[u][k].ino = e.ino
      <3>1. CASE u = p  BY <1>2, <1>4, <2>2, <3>1
      <3>2. CASE u # p  BY <1>2, <1>4, <2>2, <3>2 DEF NextCall
      <3> QED  BY <3>1, <3>2
    <2>3. CASE k = n
      <3>1. k <= Len(d[q])  BY <1>3, <1>4
      <3> QED  BY <1>5, <2>2, <2>3, <3>1
    <2>4. CASE k # n /\ ~ (k <= Len(calls[q]) /\ k <= Len(calls[t]))
      <3>1. k <= Len(d[q])  BY <1>3, <1>4
      <3>2. \A u \in Ranks : k <= Len(d[u]) => k <= Len(calls[u])
        <4> TAKE u \in Ranks
        <4>1. CASE u = p  BY <1>1, <1>2, <1>4, <2>4, <4>1
        <4>2. CASE u # p  BY <1>2, <1>4, <4>2
        <4> QED  BY <4>1, <4>2
      <3> QED  BY <1>5, <2>4, <3>1, <3>2
    <2> QED  BY <2>1, <2>3, <2>4
  <1>6. ASSUME NEW q \in Ranks, NEW k \in 1 .. Len(d[q])
        PROVE  k <= Len(d[d[q][k].root])
    <2>1. CASE k \in 1 .. Len(calls[q])
      <3>1. d[q][k] = calls[q][k]  BY <1>3, <1>4, <2>1
      <3>2. calls[q][k].root \in Ranks /\ k \in 1 .. Len(calls[calls[q][k].root])
        BY <2>1, SoundEntry
      <3> QED  BY <1>1, <1>3, <1>4, <3>1, <3>2
    <2>2. CASE k \notin 1 .. Len(calls[q])
      <3>1. q = p /\ k = n  BY <1>1, <1>2, <1>4, <2>2
      <3>2. d[q][k] = e /\ e.root \in Ranks  BY <1>2, <1>4, <3>1, EntryFacts
      <3>3. n <= Len(calls'[e.root])
        <4>1. CASE e.root = p  BY <1>1, <1>2, <4>1
        <4>2. CASE e.root # p  BY <1>2, <3>2, <4>2 DEF NextCall
        <4> QED  BY <4>1, <4>2
      <3> QED  BY <1>4, <3>1, <3>2, <3>3
    <2> QED  BY <2>1, <2>2
  <1>7. /\ \A q, t \in Ranks : \A k \in 1 .. Len(d[q]) : k <= Len(d[t]) =>
              Same(d[t][k], d[q][k].op, d[q][k].root, d[q][k].n)
        /\ \A q \in Ranks : \A k \in 1 .. Len(d[q]) :
              /\ Len(d[q][k].up) = Count(d[q][k].n, q)
              /\ d[q][k].root = q => Len(d[q][k].down) = d[q][k].n
    BY <1>4 DEF TypeInv, Agreed, Contributed
  <1>8. Sound(d)  BY Zenon, <1>2, <1>4, <1>5, <1>6, <1>7 DEF Sound
  <1> QED  BY <1>1, <1>2, <1>3, <1>4, <1>8

\* It has its share of what is written, or leaves the blocks alone.
LEMMA EnterShares ==
    ASSUME TypeInv, TypeInv', Sound(calls), SharesKept(calls, mem), NEW p \in Ranks, NEW e \in Entry,
           \A q \in Ranks \ {p} : calls'[q] = calls[q],
           \A q \in Ranks : /\ Len(calls[q]) \in Nat
                            /\ \A k \in 1 .. Len(calls[q]) : calls'[q][k] = calls[q][k],
           Len(calls'[p]) = Len(calls[p]) + 1, calls'[p][Len(calls[p]) + 1] = e,
           \/ e.op = "READ" /\ mem' = mem
           \/ \E own \in Content :
                /\ mem' = [mem EXCEPT ![p] = @ \o own] /\ e.up = NewAddresses(p, own)
                /\ Len(own) = Count(e.n, p)
                /\ \A j \in 1 .. Count(e.n, p) :
                      own[j] = calls'[e.root][Len(calls[p]) + 1].down[Displ(e.n, p) + j]
    PROVE  SharesKept(calls', mem') /\ Extends(mem', mem)
  <1> DEFINE n == Len(calls[p]) + 1
  <1>1. mem \in [Ranks -> Content] /\ mem' \in [Ranks -> Content]  BY DEF TypeInv, TypeOK
  <1>2. \A q \in Ranks : mem[q] \in Seq(Block \cup {Garbage}) /\ Len(mem[q]) \in Nat
                         /\ Len(mem'[q]) \in Nat
    BY <1>1 DEF Content
  <1>3. ASSUME NEW own \in Content, mem' = [mem EXCEPT ![p] = mem[p] \o own]
        PROVE  /\ \A q \in Ranks \ {p} : mem'[q] = mem[q]
               /\ Len(mem'[p]) = Len(mem[p]) + Len(own) /\ Len(own) \in Nat
               /\ \A a \in 1 .. Len(mem[p]) : mem'[p][a] = mem[p][a]
               /\ \A j \in 1 .. Len(own) : mem'[p][Len(mem[p]) + j] = own[j]
    <2>1. mem'[p] = mem[p] \o own /\ \A q \in Ranks \ {p} : mem'[q] = mem[q]
      BY <1>1, <1>3
    <2>2. own \in Seq(Block \cup {Garbage})  BY DEF Content
    <2>3. \A S : \A s, t \in Seq(S) :
             /\ Len(s \o t) = Len(s) + Len(t) /\ Len(t) \in Nat /\ Len(s) \in Nat
             /\ \A a \in 1 .. Len(s) : (s \o t)[a] = s[a]
             /\ \A j \in 1 .. Len(t) : (s \o t)[Len(s) + j] = t[j]
      OBVIOUS
    <2> QED  BY <1>2, <2>1, <2>2, <2>3
  <1>4. Extends(mem', mem)
    <2>1. CASE mem' = mem  BY <1>2, <2>1 DEF Extends
    <2>2. CASE \E own \in Content : mem' = [mem EXCEPT ![p] = @ \o own]
      <3>1. PICK own \in Content : mem' = [mem EXCEPT ![p] = mem[p] \o own]  BY <2>2
      <3>2. /\ \A q \in Ranks \ {p} : mem'[q] = mem[q]
            /\ Len(mem'[p]) = Len(mem[p]) + Len(own) /\ Len(own) \in Nat
            /\ \A a \in 1 .. Len(mem[p]) : mem'[p][a] = mem[p][a]
        BY <1>3, <3>1
      <3>3. \A a, b \in Nat : a <= a + b /\ a <= a  OBVIOUS
      <3> QED  BY SMTT(20), <1>2, <3>2, <3>3 DEF Extends
    <2> QED  BY <2>1, <2>2
  <1>5. ASSUME NEW q \in Ranks, NEW k \in 1 .. Len(calls'[q]), calls'[q][k].op = "WRITE",
               NEW j \in 1 .. Count(calls'[q][k].n, q)
        PROVE  /\ calls'[q][k].up[j] \in 1 .. Len(mem'[q])
               /\ mem'[q][calls'[q][k].up[j]]
                    = calls'[calls'[q][k].root][k].down[Displ(calls'[q][k].n, q) + j]
    <2>1. CASE k \in 1 .. Len(calls[q])
      <3> DEFINE a == calls[q][k].up[j]
                 s == calls[q][k].root
      <3>1. calls'[q][k] = calls[q][k]  BY <2>1
      <3>2. s \in Ranks /\ k \in 1 .. Len(calls[s])  BY <2>1, SoundEntry
      <3>3. calls'[s][k] = calls[s][k]  BY <3>2
      <3>4. a \in 1 .. Len(mem[q]) /\ mem[q][a] = calls[s][k].down[Displ(calls[q][k].n, q) + j]
        <4>1. calls[q][k].op = "WRITE" /\ j \in 1 .. Count(calls[q][k].n, q)  BY SMTT(20), <1>5, <3>1
        <4>2. \A i \in 1 .. Count(calls[q][k].n, q) :
                 /\ calls[q][k].up[i] \in 1 .. Len(mem[q])
                 /\ mem[q][calls[q][k].up[i]] = calls[s][k].down[Displ(calls[q][k].n, q) + i]
          BY <2>1, <4>1 DEF SharesKept
        <4> QED  BY Zenon, <4>1, <4>2
      <3> HIDE DEF a
      <3>5. a \in 1 .. Len(mem'[q]) /\ mem'[q][a] = mem[q][a]
        <4>1. Len(mem[q]) <= Len(mem'[q]) /\ mem'[q][a] = mem[q][a]
          BY <1>4, <3>4 DEF Extends
        <4>2. Len(mem[q]) \in Nat /\ Len(mem'[q]) \in Nat  BY <1>2
        <4>3. \A l, m \in Nat : l <= m => \A i \in 1 .. l : i \in 1 .. m  OBVIOUS
        <4>4. a \in 1 .. Len(mem[q])  BY <3>4
        <4>5. a \in 1 .. Len(mem'[q])  BY <4>1, <4>2, <4>3, <4>4
        <4> QED  BY <4>1, <4>5
      <3> QED  BY Zenon, <3>1, <3>3, <3>4, <3>5 DEF a
    <2>2. CASE k \notin 1 .. Len(calls[q])
      <3>1. q = p /\ k = n /\ calls'[q][k] = e  BY <2>2
      <3>2. e.op = "WRITE"  BY <1>5, <3>1
      <3>3. PICK own \in Content :
                /\ mem' = [mem EXCEPT ![p] = mem[p] \o own] /\ e.up = NewAddresses(p, own)
                /\ Len(own) = Count(e.n, p)
                /\ \A i \in 1 .. Count(e.n, p) :
                      own[i] = calls'[e.root][n].down[Displ(e.n, p) + i]
        BY <3>2
      <3>4. /\ Len(mem'[p]) = Len(mem[p]) + Len(own) /\ Len(own) \in Nat
            /\ \A i \in 1 .. Len(own) : mem'[p][Len(mem[p]) + i] = own[i]
        BY Zenon, <1>3, <3>3
      <3>5. j \in 1 .. Len(own) /\ e.up[j] = Len(mem[p]) + j
        BY Zenon, <1>5, <3>1, <3>3 DEF NewAddresses
      <3>6. Len(mem[p]) + j \in 1 .. Len(mem'[p])  BY <1>2, <3>4, <3>5
      <3>7. mem'[p][e.up[j]] = own[j] /\ own[j] = calls'[e.root][n].down[Displ(e.n, p) + j]
        BY Zenon, <1>5, <3>1, <3>3, <3>4, <3>5
      <3> QED  BY Zenon, <3>1, <3>5, <3>6, <3>7
    <2> QED  BY <2>1, <2>2
  <1> QED  BY Zenon, <1>4, <1>5 DEF SharesKept

\* A process enters a pair: a write, which it is to apply, or a read.
LEMMA EnterFiles ==
    ASSUME TypeInv, TypeInv', FilesInv, NEW p \in Ranks, NEW e \in Entry, Enter(p, e),
           \A q \in Ranks : NextCall(p) <= Len(calls[q]) => calls[q][NextCall(p)].ino = e.ino,
           e.root = p \/ NextCall(p) <= Len(calls[e.root]),
           \/ e.op = "READ" /\ mem' = mem
           \/ \E own \in Content :
                /\ mem' = [mem EXCEPT ![p] = @ \o own] /\ e.up = NewAddresses(p, own)
                /\ Len(own) = Count(e.n, p)
                /\ \A j \in 1 .. Count(e.n, p) :
                      own[j] = (IF e.root = p THEN e ELSE calls[e.root][NextCall(p)]).down
                                   [Displ(e.n, p) + j],
           UNCHANGED <<list, st_size, handle, waiting>>,
           \A q \in Ranks \ {p} : fuse'[q] = fuse[q] /\ loop'[q] = loop[q],
           fuse[p].at # "allgather", loop[p].at # "allgather",
           e.op = "WRITE" <=> "allgather" \in {fuse'[p].at, loop'[p].at},
           fuse'[p].at \in {"allgather", "gather"} =>
               e.root = p /\ e.ino = fuse'[p].ino /\ e.n = st_size[p][fuse'[p].ino],
           loop'[p].at = "allgather" => e.ino = loop'[p].ino /\ e.n = loop'[p].size
    PROVE  FilesInv'
  <1> DEFINE n == Len(calls[p]) + 1
  <1>1. Sound(calls) /\ SharesKept(calls, mem)  BY DEF FilesInv
  <1>2. /\ Sound(calls')
        /\ \A q \in Ranks : /\ Len(calls[q]) \in Nat
                            /\ Len(calls[q]) <= Len(calls'[q])
                            /\ \A k \in 1 .. Len(calls[q]) : calls'[q][k] = calls[q][k]
        /\ \A q \in Ranks \ {p} : calls'[q] = calls[q]
        /\ Len(calls'[p]) = n
        /\ calls'[p][n] = e
    BY SMTT(20), <1>1, EnterSound
  <1>3. SharesKept(calls', mem') /\ Extends(mem', mem)
    <2>1. \A own \in Content :
             /\ mem' = [mem EXCEPT ![p] = @ \o own] /\ e.up = NewAddresses(p, own)
             /\ Len(own) = Count(e.n, p)
             /\ \A j \in 1 .. Count(e.n, p) :
                   own[j] = (IF e.root = p THEN e ELSE calls[e.root][NextCall(p)]).down
                                [Displ(e.n, p) + j]
             => \A j \in 1 .. Count(e.n, p) :
                   own[j] = calls'[e.root][n].down[Displ(e.n, p) + j]
      <3>1. calls'[e.root][n] = (IF e.root = p THEN e ELSE calls[e.root][NextCall(p)])
        <4>1. CASE e.root = p  BY <1>2, <4>1
        <4>2. CASE e.root # p
          <5>1. e.root \in Ranks  BY EntryFacts
          <5> QED  BY <1>2, <4>2, <5>1 DEF NextCall
        <4> QED  BY <4>1, <4>2
      <3> HIDE DEF n
      <3> QED  BY <3>1
    <2>2. \/ e.op = "READ" /\ mem' = mem
          \/ \E own \in Content :
                /\ mem' = [mem EXCEPT ![p] = @ \o own] /\ e.up = NewAddresses(p, own)
                /\ Len(own) = Count(e.n, p)
                /\ \A j \in 1 .. Count(e.n, p) :
                      own[j] = calls'[e.root][Len(calls[p]) + 1].down[Displ(e.n, p) + j]
      BY <2>1
    <2>3. \A q \in Ranks : /\ Len(calls[q]) \in Nat
                           /\ \A k \in 1 .. Len(calls[q]) : calls'[q][k] = calls[q][k]
      BY <1>2
    <2> QED  BY <1>1, <1>2, <2>2, <2>3, EnterShares
  <1>4. n \in Nat /\ Current(p)' = e /\ \A q \in Ranks \ {p} : Current(q)' = Current(q)
    BY <1>2 DEF Current
  <1>5. OfItsFile'
    <2>1. st_size' = st_size  OBVIOUS
    <2>2. ASSUME NEW q \in Ranks
          PROVE  /\ fuse'[q].at \in {"allgather", "gather"} =>
                       /\ Current(q)'.root = q /\ Current(q)'.ino = fuse'[q].ino
                       /\ Current(q)'.n = st_size'[q][fuse'[q].ino]
                 /\ loop'[q].at = "allgather" =>
                       /\ Current(q)'.ino = loop'[q].ino /\ Current(q)'.n = loop'[q].size
      <3>1. CASE q = p  BY <1>4, <2>1, <3>1
      <3>2. CASE q # p
        <4>1. fuse'[q] = fuse[q] /\ loop'[q] = loop[q] /\ Current(q)' = Current(q)
          BY <1>4, <3>2
        <4> QED  BY <2>1, <4>1 DEF FilesInv, OfItsFile
      <3> QED  BY <3>1, <3>2
    <2> QED  BY <2>2 DEF OfItsFile
  <1>0. \A a \in Nat : a - 0 = a /\ (a + 1) - 0 = a + 1 /\ (a + 1) - 1 = a  OBVIOUS
  <1>6. Through(p) = Len(calls[p])
    <2>1. Through(p) = Len(calls[p]) - 0  BY DEF Through
    <2> QED  BY <1>0, <1>2, <2>1
  <1>7. Through(p)' = (IF e.op = "WRITE" THEN Len(calls[p]) ELSE n)
    <2>1. Through(p)' = (Len(calls[p]) + 1) - (IF e.op = "WRITE" THEN 1 ELSE 0)
      BY <1>2 DEF Through
    <2>2. Len(calls[p]) \in Nat  BY <1>2
    <2>3. CASE e.op = "WRITE"  BY <1>0, <2>1, <2>2, <2>3
    <2>4. CASE e.op # "WRITE"  BY <1>0, <2>1, <2>2, <2>4
    <2> QED  BY <2>3, <2>4
  <1>8. \A q \in Ranks \ {p} : Through(q)' = Through(q)  BY <1>2 DEF Through
  <1>9. \A q \in Ranks, f \in Inodes :
           Clean(q, f)' = Clean(q, f) /\ st_size'[q][f] = st_size[q][f]
    BY DEF Clean
  <1>10. list' = list  OBVIOUS
  <1>11. Through(p)' # Through(p) =>
               /\ Through(p)' = Through(p) + 1 /\ Through(p)' \in 1 .. Len(calls'[p])
               /\ calls'[p][Through(p)'].op = "WRITE" =>
                      HaveEntered(calls', Through(p)', calls'[p][Through(p)'].n)
               /\ \A x \in Files :
                     list[p] = x.list
                     /\ (\A f \in Inodes : Clean(p, f) => st_size[p][f] = x.size[f])
                     => /\ list'[p] = Outcome(calls', p, Through(p)', x).list
                        /\ \A f \in Inodes : Clean(p, f)' =>
                              st_size'[p][f] = Outcome(calls', p, Through(p)', x).size[f]
    <2> SUFFICES ASSUME Through(p)' # Through(p)
                 PROVE  /\ Through(p)' = Through(p) + 1 /\ Through(p)' \in 1 .. Len(calls'[p])
                        /\ calls'[p][Through(p)'].op # "WRITE"
                        /\ \A x \in Files : Outcome(calls', p, Through(p)', x) = x
      BY <1>9, <1>10
    <2>1. e.op # "WRITE" /\ Through(p)' = n  BY <1>6, <1>7
    <2>2. calls'[p][n].op # "WRITE"  BY <1>2, <2>1
    <2>3. n = Through(p) + 1 /\ n \in 1 .. Len(calls'[p])  BY <1>2, <1>6
    <2>4. \A x : Outcome(calls', p, n, x) = x  BY <2>2 DEF Outcome
    <2> QED  BY <2>1, <2>2, <2>3, <2>4
  <1> QED  BY <1>2, <1>3, <1>5, <1>8, <1>9, <1>10, <1>11, FilesStep

\* A process applies the write it is in.
LEMMA ApplyFiles ==
    ASSUME TypeInv, TypeInv', FilesInv, NEW p \in Ranks, UNCHANGED <<calls, mem>>,
           calls[p] # <<>>, Current(p).op = "WRITE", AllIn(p),
           "allgather" \in {fuse[p].at, loop[p].at},
           "allgather" \notin {fuse'[p].at, loop'[p].at},
           fuse'[p].at # "gather",
           \A q \in Ranks \ {p} : fuse'[q] = fuse[q] /\ loop'[q] = loop[q] /\ st_size'[q] = st_size[q]
                                  /\ handle'[q] = handle[q] /\ waiting'[q] = waiting[q],
           list' = [list EXCEPT ![p][Current(p).ino] = UpdateList(@, Gathered(p))],
           st_size'[p][Current(p).ino] = Current(p).n,
           \A f \in Inodes \ {Current(p).ino} :
              st_size'[p][f] = st_size[p][f] /\ handle'[p][f] = handle[p][f]
              /\ waiting'[p][f] = waiting[p][f]
    PROVE  FilesInv'
  <1> DEFINE k == Len(calls[p])
             e == Current(p)
             g == Gathered(p)
  <1>1. Sound(calls) /\ Sound(calls') /\ SharesKept(calls', mem')  BY DEF FilesInv
  <1>2. calls[p] \in Seq(Entry)  BY <1>1 DEF Sound
  <1>3. k \in 1 .. Len(calls[p]) /\ k \in Nat  BY <1>2, EmptySeq
  <1>4. e = calls[p][k] /\ e.n \in Nat /\ e.ino \in Inodes  BY <1>1, <1>3, SoundEntry DEF Current
  <1>5. g = GatheredAt(calls, k, e.n)  BY DEF Gathered, GatheredAt
  <1>6. HaveEntered(calls, k, e.n)  BY DEF AllIn, HaveEntered
  <1>7. \A q \in Ranks : Current(q)' = Current(q)  BY DEF Current
  <1>8. OfItsFile'
    <2>1. ASSUME NEW q \in Ranks
          PROVE  /\ fuse'[q].at \in {"allgather", "gather"} =>
                       /\ Current(q)'.root = q /\ Current(q)'.ino = fuse'[q].ino
                       /\ Current(q)'.n = st_size'[q][fuse'[q].ino]
                 /\ loop'[q].at = "allgather" =>
                       /\ Current(q)'.ino = loop'[q].ino /\ Current(q)'.n = loop'[q].size
      <3>1. CASE q = p  BY <3>1
      <3>2. CASE q # p
        <4>1. fuse'[q] = fuse[q] /\ loop'[q] = loop[q] /\ st_size'[q] = st_size[q]
          BY <3>2
        <4> QED  BY <1>7, <4>1 DEF FilesInv, OfItsFile
      <3> QED  BY <3>1, <3>2
    <2> QED  BY <2>1 DEF OfItsFile
  <1>9. \A q \in Ranks : /\ Len(calls[q]) <= Len(calls'[q])
                         /\ \A i \in 1 .. Len(calls[q]) : calls'[q][i] = calls[q][i]
    <2>1. \A q \in Ranks : Len(calls[q]) \in Nat  BY <1>1 DEF Sound
    <2> QED  BY <2>1
  <1>10. Extends(mem', mem)
    <2>1. \A q \in Ranks : Len(mem[q]) \in Nat  BY DEF TypeInv, TypeOK, Content
    <2> QED  BY <2>1 DEF Extends
  <1>11. list \in PerFile(Seq(Nat))  BY DEF TypeInv, TypeOK
  <1>12. /\ \A q \in Ranks \ {p} : list'[q] = list[q]
         /\ list'[p] = [list[p] EXCEPT ![e.ino] = UpdateList(list[p][e.ino], g)]
    BY <1>11 DEF PerFile
  <1>13. Through(p) = k - 1 /\ Through(p)' = k
         /\ \A q \in Ranks \ {p} : Through(q)' = Through(q)
    <2>1. Through(p) = k - 1 /\ Through(p)' = k - 0  BY DEF Through
    <2>2. \A a \in Nat : a - 0 = a  OBVIOUS
    <2>3. \A q \in Ranks \ {p} : Through(q)' = Through(q)  BY DEF Through
    <2> QED  BY <1>3, <2>1, <2>2, <2>3
  <1>14. \A q \in Ranks \ {p} : \A f \in Inodes :
             Clean(q, f)' = Clean(q, f) /\ st_size'[q][f] = st_size[q][f]
    BY DEF Clean
  <1>15. ASSUME NEW x \in Files, list[p] = x.list,
                \A f \in Inodes : Clean(p, f) => st_size[p][f] = x.size[f]
         PROVE  /\ list'[p] = Outcome(calls', p, k, x).list
                /\ \A f \in Inodes : Clean(p, f)' => st_size'[p][f] = Outcome(calls', p, k, x).size[f]
    <2>1. /\ Outcome(calls', p, k, x).list = [x.list EXCEPT ![e.ino] = UpdateList(x.list[e.ino], g)]
          /\ Outcome(calls', p, k, x).size = [x.size EXCEPT ![e.ino] = e.n]
      <3>1. calls' = calls /\ calls[p][k] = e  BY <1>4
      <3>2. e.op = "WRITE"  OBVIOUS
      <3> HIDE DEF e, k
      <3> QED  BY <1>5, <3>1, <3>2 DEF Outcome
    <2>2. \A f \in Inodes : f # e.ino => Clean(p, f)' = Clean(p, f) /\ st_size'[p][f] = st_size[p][f]
      BY DEF Clean
    <2>3. st_size'[p][e.ino] = e.n  OBVIOUS
    <2> HIDE DEF e, k
    <2>4. ASSUME NEW f \in Inodes, Clean(p, f)'
          PROVE  st_size'[p][f] = Outcome(calls', p, k, x).size[f]
      <3>1. CASE f = e.ino  BY <1>4, <2>1, <2>3, <3>1 DEF Files
      <3>2. CASE f # e.ino  BY <1>4, <1>15, <2>1, <2>2, <2>4, <3>2 DEF Files
      <3> QED  BY <3>1, <3>2
    <2> QED  BY <1>12, <1>15, <2>1, <2>4
  <1>16. /\ calls'[p][k].op = "WRITE" => HaveEntered(calls', k, calls'[p][k].n)
         /\ k = (k - 1) + 1 /\ k \in 1 .. Len(calls'[p]) /\ k # k - 1
    BY <1>3, <1>4, <1>6
  <1> HIDE DEF k, e, g
  <1> QED
    BY <1>1, <1>8, <1>9, <1>10, <1>12, <1>13, <1>14, <1>15, <1>16, FilesStep

LEMMA PerFileAt ==
    ASSUME NEW S, NEW x \in PerFile(S), NEW p \in Ranks, NEW f \in Inodes, NEW v
    PROVE  /\ [x EXCEPT ![p][f] = v][p][f] = v
           /\ \A q \in Ranks \ {p} : [x EXCEPT ![p][f] = v][q] = x[q]
           /\ \A g \in Inodes \ {f} : [x EXCEPT ![p][f] = v][p][g] = x[p][g]
  BY DEF PerFile

\* The root enters its write or its read.
LEMMA RootWriteFiles ==
    ASSUME TypeInv, TypeInv', NEW o \in Ranks, InOrder(o), FilesInv, NEW p \in Ranks, RootWrite(p)
    PROVE  FilesInv'
  <1> DEFINE f   == fuse[p].ino
             n   == st_size[p][f]
             buf == Items(m_buf[p][f], n, Garbage)
             own == Share(buf, n, p)
             e   == Call("WRITE", p, f, n, buf, NewAddresses(p, own))
  <1>1. /\ fuse[p].at = "write" /\ Enter(p, e) /\ mem' = [mem EXCEPT ![p] = @ \o own]
        /\ fuse' = [fuse EXCEPT ![p] = Handling("allgather", f)]
        /\ UNCHANGED <<list, st_size, handle, waiting, loop>>
    BY Zenon DEF RootWrite, attrs, buffer, users
  <1>2. p = o  BY <1>1, InHandler DEF Rests
  <1>3. loop[p].at # "allgather"  BY <1>2 DEF InOrder, OnlyRoot, Alone
  <1>4. f \in Inodes /\ n \in Nat /\ m_buf[p][f] \in Content \cup {NoBuf} /\ m_buf[p][f] # NoBuf
    BY Zenon, <1>1, RootFacts DEF TypeInv, Buffered
  <1> HIDE DEF f, n
  <1>5. buf \in Content /\ Len(buf) = n  BY <1>4, BufferItems
  <1> HIDE DEF buf
  <1>6. own \in Content /\ Len(own) = Count(n, p)
    BY <1>5, ShareOfItems DEF Content
  <1>7. \A j \in 1 .. Count(n, p) : own[j] = buf[Displ(n, p) + j]  BY DEF Share
  <1> HIDE DEF own
  <1>8. NewAddresses(p, own) \in Seq(Nat)  BY <1>6, NewAddressesType DEF TypeInv
  <1>9. /\ e \in Entry /\ e.op = "WRITE" /\ e.root = p /\ e.ino = f /\ e.n = n /\ e.down = buf
        /\ e.up = NewAddresses(p, own)
    BY <1>4, <1>5, <1>8 DEF Call, Entry
  <1> HIDE DEF e
  <1>10. \A q \in Ranks : ~ (NextCall(p) <= Len(calls[q]))
    <2> TAKE q \in Ranks
    <2>1. Len(calls[q]) \in Nat /\ Len(calls[o]) \in Nat /\ Len(calls[q]) <= Len(calls[o])
      BY Behind
    <2> QED  BY <1>2, <2>1 DEF NextCall
  <1>11. fuse'[p] = Handling("allgather", f) /\ \A q \in Ranks \ {p} : fuse'[q] = fuse[q]
    BY <1>1 DEF TypeInv, Kinds
  <1>12. fuse'[p].at = "allgather" /\ fuse'[p].ino = f  BY <1>11 DEF Handling
  <1>13. \E w \in Content :
            /\ mem' = [mem EXCEPT ![p] = @ \o w] /\ e.up = NewAddresses(p, w)
            /\ Len(w) = Count(e.n, p)
            /\ \A j \in 1 .. Count(e.n, p) :
                  w[j] = (IF e.root = p THEN e ELSE calls[e.root][NextCall(p)]).down
                             [Displ(e.n, p) + j]
    BY <1>1, <1>6, <1>7, <1>9
  <1>14. e.n = st_size[p][f]  BY <1>9 DEF n
  <1>15. /\ e.op = "WRITE" <=> "allgather" \in {fuse'[p].at, loop'[p].at}
         /\ fuse'[p].at \in {"allgather", "gather"} =>
                e.root = p /\ e.ino = fuse'[p].ino /\ e.n = st_size[p][fuse'[p].ino]
         /\ loop'[p].at = "allgather" => e.ino = loop'[p].ino /\ e.n = loop'[p].size
         /\ \A q \in Ranks \ {p} : fuse'[q] = fuse[q] /\ loop'[q] = loop[q]
         /\ fuse[p].at # "allgather"
         /\ \A q \in Ranks : NextCall(p) <= Len(calls[q]) => calls[q][NextCall(p)].ino = e.ino
    BY <1>1, <1>3, <1>9, <1>10, <1>11, <1>12, <1>14
  <1> QED  BY Zenon, <1>1, <1>3, <1>9, <1>13, <1>15, EnterFiles

\* The root enters a read.
LEMMA RootReadFiles ==
    ASSUME TypeInv, TypeInv', NEW o \in Ranks, InOrder(o), FilesInv, NEW p \in Ranks, RootRead(p)
    PROVE  FilesInv'
  <1> DEFINE f         == fuse[p].ino
             n         == st_size[p][f]
             addresses == Items(list[p][f], n, 0)
             own       == FetchAll(p, Share(addresses, n, p))
             e         == Call("READ", p, f, n, addresses, own)
  <1>1. /\ fuse[p].at = "read"
        /\ UNCHANGED <<list, mem, st_size, handle, waiting, loop>>
    BY DEF RootRead, attrs, blocks, users
  <1>2. p = o  BY <1>1, InHandler DEF Rests
  <1>3. CASE n = 0
    <2>1. fuse' = [fuse EXCEPT ![p] = At("idle")] /\ UNCHANGED calls  BY <1>3 DEF RootRead
    <2>2. /\ fuse'[p].at = "idle" /\ \A q \in Ranks \ {p} : fuse'[q] = fuse[q]
      BY <2>1 DEF TypeInv, Kinds, At
    <2>3. \A q \in Ranks, g \in Inodes : Clean(q, g)' = Clean(q, g)  BY <1>1 DEF Clean
    <2> QED  BY <1>1, <2>1, <2>2, <2>3, FilesStay
  <1>4. CASE n # 0
    <2>1. /\ Enter(p, e) /\ fuse' = [fuse EXCEPT ![p] = Handling("gather", f)]
      BY <1>4 DEF RootRead
    <2>2. loop[p].at # "allgather"  BY <1>2 DEF InOrder, OnlyRoot, Alone
    <2>3. f \in Inodes /\ n \in Nat /\ list[p][f] \in Seq(Nat)  BY <1>1, RootFacts
    <2>4. addresses \in Seq(Nat) /\ Len(addresses) = n
      <3>1. 0 \in Nat  OBVIOUS
      <3> HIDE DEF f, n
      <3> QED  BY <2>3, <3>1, ItemsType
    <2> HIDE DEF addresses
    <2>5. own \in Content
      <3>1. Share(addresses, n, p) \in Seq(Nat)  BY <2>3, <2>4, ShareOfItems
      <3> QED  BY <3>1, FetchAllType DEF TypeInv
    <2> HIDE DEF own
    <2>6. e \in Entry /\ e.op = "READ" /\ e.root = p /\ e.ino = f /\ e.n = n
      BY <2>3, <2>4, <2>5 DEF Call, Entry
    <2> HIDE DEF e
    <2>7. \A q \in Ranks : ~ (NextCall(p) <= Len(calls[q]))
      <3> TAKE q \in Ranks
      <3>1. Len(calls[q]) \in Nat /\ Len(calls[o]) \in Nat /\ Len(calls[q]) <= Len(calls[o])
        BY Behind
      <3> QED  BY <1>2, <3>1 DEF NextCall
    <2>8. /\ fuse'[p].at = "gather" /\ fuse'[p].ino = f
          /\ \A q \in Ranks \ {p} : fuse'[q] = fuse[q]
      BY <2>1 DEF TypeInv, Kinds, Handling
    <2> QED  BY <1>1, <2>1, <2>2, <2>6, <2>7, <2>8, EnterFiles
  <1> QED  BY <1>3, <1>4

\* Another process enters it.
LEMMA JoinIno ==
    ASSUME TypeInv, NEW o \in Ranks, InOrder(o), Sound(calls), NEW r \in Ranks,
           loop[r].at = "scatter"
    PROVE  /\ \A q \in Ranks : NextCall(r) <= Len(calls[q]) =>
                  calls[q][NextCall(r)].ino = loop[r].ino
           /\ NextCall(r) <= Len(calls[loop[r].root]) /\ loop[r].root = o /\ r # o
  <1>1. r # o  BY DEF InOrder, OnlyRoot, Alone
  <1> DEFINE k == NextCall(r)
  <1>2. loop[r].root = o /\ calls[o][k].ino = loop[r].ino
    BY <1>1 DEF InOrder, FollowsRoot, IsCall, NextCall
  <1>3. k <= Len(calls[o]) /\ Len(calls[r]) \in Nat  BY <1>1, Behind DEF NextCall
  <1>4. ASSUME NEW q \in Ranks, k <= Len(calls[q]) PROVE calls[q][k].ino = loop[r].ino
    <2>1. Len(calls[o]) \in Nat  BY Behind
    <2>2. k \in 1 .. Len(calls[o])  BY <1>3, <2>1 DEF NextCall
    <2> HIDE DEF k
    <2> QED  BY <1>2, <1>4, <2>2 DEF Sound
  <1> QED  BY <1>1, <1>2, <1>3, <1>4

\* The process joins a write with the blocks that were scattered to it.
LEMMA JoinWriteFiles ==
    ASSUME TypeInv, TypeInv', NEW o \in Ranks, InOrder(o), FilesInv, NEW r \in Ranks, JoinWrite(r)
    PROVE  FilesInv'
  <1> DEFINE io  == loop[r]
             own == ShareOf(r, io.root, io.size)
             e   == Call("WRITE", io.root, io.ino, io.size, <<>>, NewAddresses(r, own))
  <1>1. /\ Joins(r, "WRITE") /\ Enter(r, e) /\ mem' = [mem EXCEPT ![r] = @ \o own]
        /\ loop' = [loop EXCEPT ![r] = [io EXCEPT !.at = "allgather"]]
        /\ UNCHANGED <<list, st_size, handle, waiting, fuse>>
    BY DEF JoinWrite, attrs, buffer, users
  <1>2. io.at = "scatter"  BY <1>1 DEF Joins
  <1>3. /\ \A q \in Ranks : NextCall(r) <= Len(calls[q]) => calls[q][NextCall(r)].ino = io.ino
        /\ NextCall(r) <= Len(calls[io.root]) /\ io.root # r
    BY <1>2, JoinIno DEF FilesInv
  <1>4. /\ own \in Content /\ Len(own) = Count(io.size, r)
        /\ io.root \in Ranks /\ io.ino \in Inodes /\ io.size \in Nat /\ ~ Inside(fuse[r])
    BY <1>1, ShareOfType DEF Ops
  <1>5. \A j \in 1 .. Count(io.size, r) :
            own[j] = calls[io.root][NextCall(r)].down[Displ(io.size, r) + j]
    <2>1. ASSUME NEW j \in 1 .. Count(io.size, r)
          PROVE  own[j] = calls[io.root][NextCall(r)].down[Displ(io.size, r) + j]
      <3>1. Count(io.size, r) \in Nat  BY <1>4, CountType
      <3>2. \A a \in Nat : \A y : y \in 1 .. a => a > 0  OBVIOUS
      <3>3. Count(io.size, r) > 0  BY <3>1, <3>2
      <3> QED  BY <3>3 DEF ShareOf, Share
    <2> QED  BY <2>1
  <1> HIDE DEF own
  <1>6. NewAddresses(r, own) \in Seq(Nat)  BY <1>4, NewAddressesType DEF TypeInv
  <1>7. <<>> \in Content  BY DEF Content
  <1>8. loop'[r] = [io EXCEPT !.at = "allgather"] /\ \A q \in Ranks \ {r} : loop'[q] = loop[q]
    BY <1>1 DEF TypeInv, Kinds
  <1>9. loop'[r].at = "allgather" /\ loop'[r].ino = io.ino /\ loop'[r].size = io.size
        /\ fuse'[r].at \notin {"allgather", "gather"}
        /\ fuse[r].at # "allgather" /\ loop[r].at # "allgather"
    <2>1. io \in [at : {"scatter", "allgather"}, op : Ops, root : Ranks, ino : Inodes, size : Nat]
      BY <1>2, PlaceFacts DEF TypeInv
    <2>2. [io EXCEPT !.at = "allgather"].at = "allgather"
          /\ [io EXCEPT !.at = "allgather"].ino = io.ino
          /\ [io EXCEPT !.at = "allgather"].size = io.size
      BY <2>1
    <2> QED  BY <1>1, <1>2, <1>4, <1>8, <2>2 DEF Inside
  <1>10. /\ e \in Entry /\ e.op = "WRITE" /\ e.root = io.root /\ e.ino = io.ino /\ e.n = io.size
         /\ e.up = NewAddresses(r, own)
    <2> HIDE DEF io
    <2> QED  BY <1>4, <1>6, <1>7 DEF Call, Entry
  <1> HIDE DEF e, io
  <1>11. \E w \in Content :
            /\ mem' = [mem EXCEPT ![r] = @ \o w] /\ e.up = NewAddresses(r, w)
            /\ Len(w) = Count(e.n, r)
            /\ \A j \in 1 .. Count(e.n, r) :
                  w[j] = (IF e.root = r THEN e ELSE calls[e.root][NextCall(r)]).down
                             [Displ(e.n, r) + j]
    BY <1>1, <1>3, <1>4, <1>5, <1>10
  <1>12. /\ e.op = "WRITE" <=> "allgather" \in {fuse'[r].at, loop'[r].at}
         /\ fuse'[r].at \in {"allgather", "gather"} =>
                e.root = r /\ e.ino = fuse'[r].ino /\ e.n = st_size[r][fuse'[r].ino]
         /\ loop'[r].at = "allgather" => e.ino = loop'[r].ino /\ e.n = loop'[r].size
         /\ \A q \in Ranks \ {r} : fuse'[q] = fuse[q] /\ loop'[q] = loop[q]
         /\ fuse[r].at # "allgather" /\ loop[r].at # "allgather"
         /\ \A q \in Ranks : NextCall(r) <= Len(calls[q]) => calls[q][NextCall(r)].ino = e.ino
         /\ e.root = r \/ NextCall(r) <= Len(calls[e.root])
    BY <1>1, <1>3, <1>8, <1>9, <1>10
  <1> QED  BY <1>1, <1>10, <1>11, <1>12, EnterFiles

\* The process joins a read, of the blocks its list of the file names.
LEMMA JoinReadFiles ==
    ASSUME TypeInv, TypeInv', NEW o \in Ranks, InOrder(o), FilesInv, NEW r \in Ranks, JoinRead(r)
    PROVE  FilesInv'
  <1> DEFINE io  == loop[r]
             own == FetchAll(r, ShareOf(r, io.root, io.size))
             e   == Call("READ", io.root, io.ino, io.size, <<>>, own)
  <1>1. /\ Joins(r, "READ") /\ Enter(r, e) /\ loop' = [loop EXCEPT ![r] = At("header")]
        /\ UNCHANGED <<list, mem, st_size, handle, waiting, fuse>>
    BY DEF JoinRead, attrs, buffer, blocks, users
  <1>2. io.at = "scatter"  BY <1>1 DEF Joins
  <1>3. /\ \A q \in Ranks : NextCall(r) <= Len(calls[q]) => calls[q][NextCall(r)].ino = io.ino
        /\ NextCall(r) <= Len(calls[io.root])
    BY <1>2, JoinIno DEF FilesInv
  <1>4. /\ ShareOf(r, io.root, io.size) \in Seq(Nat)
        /\ io.root \in Ranks /\ io.ino \in Inodes /\ io.size \in Nat /\ ~ Inside(fuse[r])
    BY <1>1, ShareOfType DEF Ops
  <1>5. own \in Content  BY <1>4, FetchAllType DEF TypeInv
  <1> HIDE DEF own
  <1>6. <<>> \in Seq(Nat)  OBVIOUS
  <1>7. e \in Entry /\ e.op = "READ" /\ e.root = io.root /\ e.ino = io.ino /\ e.n = io.size
    <2> HIDE DEF io
    <2> QED  BY <1>4, <1>5, <1>6 DEF Call, Entry
  <1>8. /\ loop'[r].at = "header" /\ \A q \in Ranks \ {r} : loop'[q] = loop[q]
        /\ fuse'[r].at \notin {"allgather", "gather"}
        /\ fuse[r].at # "allgather" /\ loop[r].at # "allgather"
    BY <1>1, <1>2, <1>4 DEF TypeInv, Kinds, At, Inside
  <1> HIDE DEF e, io
  <1> QED  BY <1>1, <1>3, <1>7, <1>8, EnterFiles

\* The root, and another process, apply a write.
LEMMA RootWrittenFiles ==
    ASSUME TypeInv, TypeInv', FilesInv, NEW p \in Ranks, RootWritten(p)
    PROVE  FilesInv'
  <1> DEFINE f == fuse[p].ino
  <1>1. /\ fuse[p].at = "allgather" /\ AllIn(p)
        /\ list' = [list EXCEPT ![p][f] = UpdateList(@, Gathered(p))]
        /\ waiting' = [waiting EXCEPT ![p][f] = FALSE]
        /\ fuse' = [fuse EXCEPT ![p] = At("idle")]
        /\ UNCHANGED <<st_size, handle, mem, loop, calls>>
    BY DEF RootWritten, attrs, users, mpi
  <1>2. /\ calls[p] # <<>> /\ loop[p].at # "allgather" /\ Current(p).op = "WRITE"
    BY <1>1 DEF TypeInv, Entered
  <1>3. Current(p).ino = f /\ Current(p).n = st_size[p][f]  BY <1>1 DEF FilesInv, OfItsFile
  <1>4. fuse'[p].at = "idle" /\ \A q \in Ranks \ {p} : fuse'[q] = fuse[q]
    BY <1>1 DEF TypeInv, Kinds, At
  <1>5. /\ \A q \in Ranks \ {p} : waiting'[q] = waiting[q]
        /\ \A g \in Inodes \ {f} : waiting'[p][g] = waiting[p][g]
    <2>1. f \in Inodes /\ waiting \in PerFile(BOOLEAN)
      BY <1>1, RootFacts DEF TypeInv, TypeOK
    <2> HIDE DEF f
    <2>2. /\ \A q \in Ranks \ {p} : [waiting EXCEPT ![p][f] = FALSE][q] = waiting[q]
          /\ \A g \in Inodes \ {f} : [waiting EXCEPT ![p][f] = FALSE][p][g] = waiting[p][g]
      BY <2>1, PerFileAt
    <2> QED  BY <1>1, <2>2
  <1> HIDE DEF f
  <1>6. st_size'[p][Current(p).ino] = Current(p).n  BY <1>1, <1>3
  <1>7. list' = [list EXCEPT ![p][Current(p).ino] = UpdateList(@, Gathered(p))]
    BY <1>1, <1>3
  <1>8. \A g \in Inodes \ {Current(p).ino} :
           st_size'[p][g] = st_size[p][g] /\ handle'[p][g] = handle[p][g]
           /\ waiting'[p][g] = waiting[p][g]
    BY <1>1, <1>3, <1>5
  <1>9. \A q \in Ranks \ {p} : fuse'[q] = fuse[q] /\ loop'[q] = loop[q] /\ st_size'[q] = st_size[q]
                               /\ handle'[q] = handle[q] /\ waiting'[q] = waiting[q]
    BY <1>1, <1>4, <1>5
  <1> QED  BY <1>1, <1>2, <1>4, <1>6, <1>7, <1>8, <1>9, ApplyFiles

LEMMA JoinedFiles ==
    ASSUME TypeInv, TypeInv', FilesInv, NEW r \in Ranks, Joined(r)
    PROVE  FilesInv'
  <1> DEFINE f == loop[r].ino
  <1>1. /\ loop[r].at = "allgather" /\ AllIn(r)
        /\ list' = [list EXCEPT ![r][f] = UpdateList(@, Gathered(r))]
        /\ st_size' = [st_size EXCEPT ![r][f] = loop[r].size]
        /\ loop' = [loop EXCEPT ![r] = At("header")]
        /\ UNCHANGED <<handle, waiting, mem, fuse, calls>>
    BY DEF Joined, buffer, users, mpi
  <1>2. /\ calls[r] # <<>> /\ fuse[r].at \notin {"allgather", "gather"} /\ Current(r).op = "WRITE"
    BY <1>1 DEF TypeInv, Entered
  <1>3. Current(r).ino = f /\ Current(r).n = loop[r].size  BY <1>1 DEF FilesInv, OfItsFile
  <1>4. loop'[r].at = "header" /\ \A q \in Ranks \ {r} : loop'[q] = loop[q]
    BY <1>1 DEF TypeInv, Kinds, At
  <1>5. f \in Inodes  BY <1>1, PlaceFacts DEF TypeInv
  <1>6. /\ st_size'[r][f] = loop[r].size
        /\ \A q \in Ranks \ {r} : st_size'[q] = st_size[q]
        /\ \A g \in Inodes \ {f} : st_size'[r][g] = st_size[r][g]
    <2>1. st_size \in PerFile(Nat)  BY DEF TypeInv, TypeOK
    <2> DEFINE n == loop[r].size
    <2>2. st_size' = [st_size EXCEPT ![r][f] = n]  BY <1>1
    <2> HIDE DEF f, n
    <2>3. /\ [st_size EXCEPT ![r][f] = n][r][f] = n
          /\ \A q \in Ranks \ {r} : [st_size EXCEPT ![r][f] = n][q] = st_size[q]
          /\ \A g \in Inodes \ {f} : [st_size EXCEPT ![r][f] = n][r][g] = st_size[r][g]
      BY <1>5, <2>1, PerFileAt
    <2> QED  BY <2>2, <2>3 DEF n
  <1> HIDE DEF f
  <1>7. st_size'[r][Current(r).ino] = Current(r).n  BY <1>3, <1>6
  <1>8. list' = [list EXCEPT ![r][Current(r).ino] = UpdateList(@, Gathered(r))]
    BY <1>1, <1>3
  <1>9. \A g \in Inodes \ {Current(r).ino} :
           st_size'[r][g] = st_size[r][g] /\ handle'[r][g] = handle[r][g]
           /\ waiting'[r][g] = waiting[r][g]
    BY <1>1, <1>3, <1>6
  <1>10. \A q \in Ranks \ {r} : fuse'[q] = fuse[q] /\ loop'[q] = loop[q] /\ st_size'[q] = st_size[q]
                                /\ handle'[q] = handle[q] /\ waiting'[q] = waiting[q]
    BY <1>1, <1>4, <1>6
  <1> QED  BY <1>1, <1>2, <1>4, <1>7, <1>8, <1>9, <1>10, ApplyFiles

\* A second thread that receives a message is not in a collective afterwards.
LEMMA ReceiveLoop ==
    ASSUME TypeInv, NEW r \in Ranks, ReceiveHeader(r) \/ ReceiveIO(r)
    PROVE  /\ loop[r].at \in {"header", "io"} /\ loop'[r].at # "allgather"
           /\ \A q \in Ranks \ {r} : loop'[q] = loop[q]
           /\ UNCHANGED <<attrs, buffer, blocks, fuse, calls, told, users>>
  <1>1. loop \in [Ranks -> LoopPlace]  BY DEF TypeInv, Kinds
  <1>2. CASE ReceiveHeader(r)
    <2>6. PICK s \in Ranks : LET m == Head(chan[s][r]) IN
             IF m.kind = "io" THEN UNCHANGED loop
             ELSE loop' = [loop EXCEPT ![r] =
                         CASE m.op # "TERMINATE"         -> [at |-> "io", op |-> m.op]
                           [] m.op = "TERMINATE" /\ s = r -> At("stopped")
                           [] m.op = "TERMINATE" /\ s # r -> At("unmounting")]
      BY <1>2 DEF ReceiveHeader
    <2>7. PICK m : m = Head(chan[s][r])  OBVIOUS
    <2>1. IF m.kind = "io" THEN UNCHANGED loop
          ELSE loop' = [loop EXCEPT ![r] =
                      CASE m.op # "TERMINATE"         -> [at |-> "io", op |-> m.op]
                        [] m.op = "TERMINATE" /\ s = r -> At("stopped")
                        [] m.op = "TERMINATE" /\ s # r -> At("unmounting")]
      BY <2>6, <2>7
    <2>2. /\ loop[r].at = "header"
          /\ UNCHANGED <<attrs, buffer, blocks, fuse, calls, told, users>>
      BY <1>2 DEF ReceiveHeader
    <2>3. loop' = loop \/ \E l : l.at # "allgather" /\ loop' = [loop EXCEPT ![r] = l]
      <3>1. CASE m.kind = "io"  BY <2>1, <3>1
      <3>2. CASE m.kind # "io" /\ m.op # "TERMINATE"
        <4>1. loop' = [loop EXCEPT ![r] = [at |-> "io", op |-> m.op]]  BY <2>1, <3>2
        <4>2. [at |-> "io", op |-> m.op].at # "allgather"  OBVIOUS
        <4> QED  BY <4>1, <4>2
      <3>3. CASE m.kind # "io" /\ m.op = "TERMINATE"
        <4>1. loop' = [loop EXCEPT ![r] = At("stopped")] \/ loop' = [loop EXCEPT ![r] = At("unmounting")]
          BY <2>1, <3>3
        <4>2. At("stopped").at # "allgather" /\ At("unmounting").at # "allgather"  BY DEF At
        <4> QED  BY <4>1, <4>2
      <3> QED  BY <3>1, <3>2, <3>3
    <2> QED  BY <1>1, <2>2, <2>3
  <1>3. CASE ReceiveIO(r)
    <2>6. PICK s \in Ranks : LET m == Head(chan[s][r]) IN
             IF m.kind = "header" THEN UNCHANGED loop
             ELSE loop' = [loop EXCEPT ![r] =
                         IF loop[r].op = "READ" /\ m.size = 0
                           THEN At("header")
                           ELSE [at |-> "scatter", op |-> loop[r].op, root |-> s,
                                 ino |-> m.ino, size |-> m.size]]
      BY <1>3 DEF ReceiveIO
    <2>7. PICK m : m = Head(chan[s][r])  OBVIOUS
    <2>1. IF m.kind = "header" THEN UNCHANGED loop
          ELSE loop' = [loop EXCEPT ![r] =
                      IF loop[r].op = "READ" /\ m.size = 0
                        THEN At("header")
                        ELSE [at |-> "scatter", op |-> loop[r].op, root |-> s,
                              ino |-> m.ino, size |-> m.size]]
      BY <2>6, <2>7
    <2>2. /\ loop[r].at = "io"
          /\ UNCHANGED <<attrs, buffer, blocks, fuse, calls, told, users>>
      BY <1>3 DEF ReceiveIO
    <2>3. loop' = loop \/ \E l : l.at # "allgather" /\ loop' = [loop EXCEPT ![r] = l]
      <3> DEFINE l == IF loop[r].op = "READ" /\ m.size = 0
                        THEN At("header")
                        ELSE [at |-> "scatter", op |-> loop[r].op, root |-> s,
                              ino |-> m.ino, size |-> m.size]
      <3>1. CASE m.kind = "header"  BY <2>1, <3>1
      <3>2. CASE m.kind # "header"
        <4>1. loop' = [loop EXCEPT ![r] = l]  BY <2>1, <3>2
        <4>2. l.at # "allgather"  BY DEF At
        <4> QED  BY <4>1, <4>2
      <3> QED  BY <3>1, <3>2
    <2> QED  BY <1>1, <2>2, <2>3
  <1> QED  BY <1>2, <1>3

\* The other steps of the threads.
LEMMA ThreadsKeepFiles ==
    ASSUME TypeInv, TypeInv', NEW o \in Ranks, InOrder(o), FilesInv, NEW p \in Ranks,
           Session(p) \/ Second(p)
    PROVE  FilesInv'
  <1> DEFINE Frame == /\ UNCHANGED <<calls, list, mem, st_size, handle, waiting>>
                      /\ \A q \in Ranks \ {p} : fuse'[q] = fuse[q] /\ loop'[q] = loop[q]
  <1>1. ASSUME Frame,
               fuse'[p] = fuse[p] \/ (fuse[p].at # "allgather"
                                      /\ fuse'[p].at \notin {"allgather", "gather"}),
               loop'[p] = loop[p] \/ (loop[p].at # "allgather" /\ loop'[p].at # "allgather")
        PROVE  FilesInv'
    <2>1. \A q \in Ranks, f \in Inodes :
             Clean(q, f)' = Clean(q, f) /\ st_size'[q][f] = st_size[q][f]
      BY <1>1 DEF Clean
    <2> QED  BY <1>1, <2>1, FilesStay
  <1>2. fuse \in [Ranks -> FusePlace] /\ loop \in [Ranks -> LoopPlace]  BY DEF TypeInv, Kinds
  <1>3. CASE RootWrite(p)  BY <1>3, RootWriteFiles
  <1>4. CASE RootRead(p)  BY <1>4, RootReadFiles
  <1>5. CASE RootWritten(p)  BY <1>5, RootWrittenFiles
  <1>6. CASE RootLoaded(p)
    <2>1. /\ fuse[p].at = "gather" /\ fuse' = [fuse EXCEPT ![p] = At("idle")]
          /\ UNCHANGED <<calls, list, mem, st_size, handle, waiting, loop>>
      BY <1>6 DEF RootLoaded, attrs, blocks, mpi, users
    <2>2. fuse'[p].at = "idle" /\ \A q \in Ranks \ {p} : fuse'[q] = fuse[q]
      BY <1>2, <2>1 DEF At
    <2> QED  BY <1>1, <2>1, <2>2
  <1>7. CASE SessionEnds(p)
    <2>1. /\ fuse[p].at = "unmounted" /\ fuse' = [fuse EXCEPT ![p] = At("ended")]
          /\ UNCHANGED <<calls, list, mem, st_size, handle, waiting, loop>>
      BY <1>7 DEF SessionEnds, attrs, buffer, blocks, mpi, users
    <2>2. fuse'[p].at = "ended" /\ \A q \in Ranks \ {p} : fuse'[q] = fuse[q]
      BY <1>2, <2>1 DEF At
    <2> QED  BY <1>1, <2>1, <2>2
  <1>8. CASE ReceiveHeader(p) \/ ReceiveIO(p)
    <2>1. /\ loop[p].at \in {"header", "io"} /\ loop'[p].at # "allgather"
          /\ \A q \in Ranks \ {p} : loop'[q] = loop[q]
          /\ UNCHANGED <<attrs, buffer, blocks, fuse, calls, told, users>>
      BY <1>8, ReceiveLoop
    <2> QED  BY <1>1, <2>1 DEF attrs, buffer, blocks, users
  <1>9. CASE JoinWrite(p)  BY <1>9, JoinWriteFiles
  <1>10. CASE JoinRead(p)  BY <1>10, JoinReadFiles
  <1>11. CASE Joined(p)  BY <1>11, JoinedFiles
  <1>12. CASE UnmountFromThread(p)
    <2>1. /\ loop[p].at = "unmounting" /\ loop' = [loop EXCEPT ![p] = At("stopped")]
          /\ UNCHANGED <<calls, list, mem, st_size, handle, waiting>>
          /\ fuse' = fuse \/ (fuse[p] = At("idle") /\ fuse' = [fuse EXCEPT ![p] = At("unmounted")])
      BY <1>2, <1>12 DEF UnmountFromThread, attrs, buffer, blocks, mpi, users, Idle
    <2>2. loop'[p].at = "stopped" /\ \A q \in Ranks \ {p} : loop'[q] = loop[q]
      BY <1>2, <2>1 DEF At
    <2>3. /\ \A q \in Ranks \ {p} : fuse'[q] = fuse[q]
          /\ fuse'[p] = fuse[p] \/ (fuse[p].at = "idle" /\ fuse'[p].at = "unmounted")
      BY <1>2, <2>1 DEF At
    <2> QED  BY <1>1, <2>1, <2>2, <2>3
  <1> QED
    BY <1>3, <1>4, <1>5, <1>6, <1>7, <1>8, <1>9, <1>10, <1>11, <1>12 DEF Session, Second

\* The steps of users.
LEMMA UserKeepsFiles ==
    ASSUME TypeInv, TypeInv', FilesInv, NEW p \in Ranks, User(p), orderly'
    PROVE  FilesInv'
  <1>1. fuse \in [Ranks -> FusePlace] /\ handle \in PerFile(Modes \cup {"closed"})
        /\ waiting \in PerFile(BOOLEAN) /\ st_size \in PerFile(Nat)
    BY DEF TypeInv, TypeOK, Kinds
  <1>2. ASSUME UNCHANGED <<calls, list, mem, loop>>, fuse[p].at = "idle",
               fuse'[p].at \notin {"allgather", "gather"},
               \A q \in Ranks \ {p} : fuse'[q] = fuse[q] /\ st_size'[q] = st_size[q],
               \A q \in Ranks, f \in Inodes :
                   Clean(q, f)' => Clean(q, f) /\ st_size'[q][f] = st_size[q][f]
        PROVE  FilesInv'
    <2>1. \A q \in Ranks : fuse'[q].at \in {"allgather", "gather"} =>
              fuse'[q] = fuse[q] /\ st_size'[q][fuse[q].ino] = st_size[q][fuse[q].ino]
      <3> TAKE q \in Ranks
      <3>1. CASE q = p  BY <1>2, <3>1
      <3>2. CASE q # p  BY <1>2, <3>2
      <3> QED  BY <3>1, <3>2
    <2>2. \A q \in Ranks : fuse[q].at = "allgather" => fuse'[q] = fuse[q]
      BY <1>2
    <2> QED  BY <1>2, <2>1, <2>2, FilesStay
  <1>3. CASE Unmount(p)
    <2>1. /\ fuse[p] = At("idle") /\ fuse' = [fuse EXCEPT ![p] = At("unmounted")]
          /\ UNCHANGED <<calls, list, mem, loop, st_size, handle, waiting>>
      BY <1>3 DEF Unmount, Idle, attrs, buffer, blocks, mpi
    <2>2. fuse[p].at = "idle" /\ fuse'[p].at = "unmounted" /\ \A q \in Ranks \ {p} : fuse'[q] = fuse[q]
      BY <1>1, <2>1 DEF At
    <2>3. \A q \in Ranks, f \in Inodes : Clean(q, f)' = Clean(q, f)  BY <2>1 DEF Clean
    <2> QED  BY <1>2, <2>1, <2>2, <2>3
  <1>4. ASSUME NEW f \in Inodes, FuseFlush(p, f)
        PROVE  FilesInv'
    <2>1. /\ fuse[p] = At("idle") /\ handle' = [handle EXCEPT ![p][f] = "closed"]
          /\ UNCHANGED <<calls, list, mem, loop, st_size, waiting>>
          /\ fuse' = fuse \/ fuse' = [fuse EXCEPT ![p] = Handling("write", f)]
          /\ waiting[p][f] \/ handle[p][f] # "w"
      BY <1>4 DEF FuseFlush, Idle, attrs, buffer, blocks
    <2>2. fuse[p].at = "idle" /\ fuse'[p].at \in {"idle", "write"}
          /\ \A q \in Ranks \ {p} : fuse'[q] = fuse[q]
      BY <1>1, <2>1 DEF At, Handling
    <2>3. \A q \in Ranks, g \in Inodes : q # p \/ g # f => handle'[q][g] = handle[q][g]
      <3>1. /\ \A q \in Ranks \ {p} : [handle EXCEPT ![p][f] = "closed"][q] = handle[q]
            /\ \A g \in Inodes \ {f} : [handle EXCEPT ![p][f] = "closed"][p][g] = handle[p][g]
        BY <1>1, PerFileAt
      <3> QED  BY <2>1, <3>1
    <2>4. \A q \in Ranks, g \in Inodes : Clean(q, g)' => Clean(q, g)
      BY <2>1, <2>3 DEF Clean
    <2> QED  BY <1>2, <2>1, <2>2, <2>4
  <1>5. ASSUME NEW f \in Inodes, NEW mode \in Modes, FuseOpen(p, f, mode)
        PROVE  FilesInv'
    <2>1. /\ fuse[p] = At("idle") /\ handle' = [handle EXCEPT ![p][f] = mode]
          /\ handle[p][f] = "closed" /\ UNCHANGED <<calls, list, mem, loop, waiting>>
          /\ IF mode = "w" THEN /\ st_size' = [st_size EXCEPT ![p][f] = 0] /\ UNCHANGED fuse
             ELSE /\ fuse' = [fuse EXCEPT ![p] = Handling("read", f)] /\ UNCHANGED st_size
      BY <1>5 DEF FuseOpen, Idle, attrs, buffer, blocks
    <2>2. fuse[p].at = "idle" /\ fuse'[p].at \in {"idle", "read"}
          /\ \A q \in Ranks \ {p} : fuse'[q] = fuse[q]
      BY <1>1, <2>1 DEF At, Handling
    <2>3. /\ handle'[p][f] = mode
          /\ \A q \in Ranks, g \in Inodes : q # p \/ g # f => handle'[q][g] = handle[q][g]
      <3>1. /\ [handle EXCEPT ![p][f] = mode][p][f] = mode
            /\ \A q \in Ranks \ {p} : [handle EXCEPT ![p][f] = mode][q] = handle[q]
            /\ \A g \in Inodes \ {f} : [handle EXCEPT ![p][f] = mode][p][g] = handle[p][g]
        <4>1. \E S : handle \in PerFile(S)  BY <1>1
        <4>2. PICK S : handle \in PerFile(S)  BY <4>1
        <4> QED  BY <4>2, PerFileAt
      <3> QED  BY <2>1, <3>1
    <2>4. /\ \A q \in Ranks \ {p} : st_size'[q] = st_size[q]
          /\ \A g \in Inodes : mode # "w" \/ g # f => st_size'[p][g] = st_size[p][g]
      <3>1. /\ \A q \in Ranks \ {p} : [st_size EXCEPT ![p][f] = 0][q] = st_size[q]
            /\ \A g \in Inodes \ {f} : [st_size EXCEPT ![p][f] = 0][p][g] = st_size[p][g]
        BY <1>1, PerFileAt
      <3> QED  BY <2>1, <3>1
    <2>5. \A q \in Ranks, g \in Inodes :
              Clean(q, g)' => Clean(q, g) /\ st_size'[q][g] = st_size[q][g]
      <3> SUFFICES ASSUME NEW q \in Ranks, NEW g \in Inodes, Clean(q, g)'
                   PROVE  Clean(q, g) /\ st_size'[q][g] = st_size[q][g]
        OBVIOUS
      <3>1. CASE q = p /\ g = f
        <4>1. mode # "w" /\ ~ waiting[p][f]  BY <2>1, <2>3, <3>1 DEF Clean
        <4> QED  BY <2>1, <2>4, <3>1, <4>1 DEF Clean
      <3>2. CASE q # p \/ g # f
        <4>1. Clean(q, g)  BY <2>1, <2>3, <3>2 DEF Clean
        <4> QED  BY <2>4, <3>2, <4>1
      <3> QED  BY <3>1, <3>2
    <2> QED  BY <1>2, <2>1, <2>2, <2>4, <2>5
  <1>6. ASSUME NEW f \in Inodes, NEW off \in Nat, NEW data \in Payloads, FuseWrite(p, f, off, data)
        PROVE  FilesInv'
    <2> DEFINE n == Max(st_size[p][f], off + Len(data))
    <2>1. /\ fuse[p] = At("idle") /\ waiting' = [waiting EXCEPT ![p][f] = TRUE]
          /\ st_size' = [st_size EXCEPT ![p][f] = n]
          /\ UNCHANGED <<calls, list, mem, loop, handle, fuse>>
      BY <1>6 DEF FuseWrite, Idle, blocks, mpi
    <2> HIDE DEF n
    <2>2. /\ [waiting EXCEPT ![p][f] = TRUE][p][f] = TRUE
          /\ \A q \in Ranks \ {p} : [waiting EXCEPT ![p][f] = TRUE][q] = waiting[q]
          /\ \A g \in Inodes \ {f} : [waiting EXCEPT ![p][f] = TRUE][p][g] = waiting[p][g]
      BY <1>1, PerFileAt
    <2>3. /\ \A q \in Ranks \ {p} : [st_size EXCEPT ![p][f] = n][q] = st_size[q]
          /\ \A g \in Inodes \ {f} : [st_size EXCEPT ![p][f] = n][p][g] = st_size[p][g]
      BY <1>1, PerFileAt
    <2>4. \A q \in Ranks, g \in Inodes :
              Clean(q, g)' => Clean(q, g) /\ st_size'[q][g] = st_size[q][g]
      BY <2>1, <2>2, <2>3 DEF Clean
    <2>5. \A q \in Ranks \ {p} : st_size'[q] = st_size[q]  BY <2>1, <2>3
    <2>6. fuse[p].at = "idle"  BY <2>1 DEF At
    <2> QED  BY <1>2, <2>1, <2>4, <2>5, <2>6
  <1> QED  BY <1>3, <1>4, <1>5, <1>6, UserCases

\* At the start no process has been through anything.
LEMMA InitFiles == ASSUME Init PROVE FilesInv
  <1>1. /\ \A p \in Ranks : /\ calls[p] = <<>> /\ mem[p] = <<>> /\ Through(p) = 0
                            /\ fuse[p].at = "idle" /\ loop[p].at = "header"
                            /\ list[p] = NoFiles.list /\ st_size[p] = NoFiles.size
        /\ calls \in [Ranks -> Seq(Entry)]
    <2>1. \A p \in Ranks : /\ calls[p] = <<>> /\ mem[p] = <<>> /\ fuse[p].at = "idle"
                            /\ loop[p].at = "header"
      BY DEF Init, At
    <2>2. \A p \in Ranks : Through(p) = 0 - 0  BY <2>1 DEF Through
    <2>3. <<>> \in Seq(Entry)  OBVIOUS
    <2>4. calls \in [Ranks -> Seq(Entry)]  BY <2>3 DEF Init
    <2>5. \A p \in Ranks : list[p] = NoFiles.list /\ st_size[p] = NoFiles.size
      BY DEF Init, NoFiles
    <2> QED  BY <2>1, <2>2, <2>4, <2>5
  <1>2. \A p \in Ranks : \A k \in 1 .. Len(calls[p]) : FALSE
    <2> TAKE p \in Ranks
    <2>1. Len(calls[p]) = 0  BY <1>1
    <2> QED  BY <2>1
  <1>3. Sound(calls)  BY <1>1, <1>2 DEF Sound
  <1>4. SharesKept(calls, mem)  BY <1>2 DEF SharesKept
  <1>5. OfItsFile  BY <1>1 DEF OfItsFile
  <1> DEFINE h == [k \in 0 .. 0 |-> NoFiles]
  <1>6. 0 .. 0 = {0} /\ h[0] = NoFiles  OBVIOUS
  <1>7. AtHome(mem, NoFiles)
    <2>1. \A f \in Inodes : NoFiles.size[f] = 0 /\ NoFiles.list[f] = <<>> /\ NoFiles.kept[f] = <<>>
      BY DEF NoFiles
    <2>2. 1 .. 0 = {} /\ Len(<<>>) = 0 /\ 0 <= 0  OBVIOUS
    <2> QED  BY <2>1, <2>2 DEF AtHome
  <1>8. Told(calls, mem, 0, h)  BY <1>6, <1>7, HistoryBegins DEF Told
  <1>9. \A p \in Ranks : Shows(p, 0, h)  BY <1>1, <1>6 DEF Shows
  <1> QED  BY <1>3, <1>4, <1>5, <1>8, <1>9 DEF FilesInv

\* While users are orderly, the files of a process are those of the writes it has
\* been through.
THEOREM FilesInvariance == Spec => [](orderly => FilesInv)
  <1>1. Init => (orderly => FilesInv)  BY InitFiles
  <1>2. TypeInv /\ TypeInv' /\ StepInv /\ (orderly => FilesInv) /\ [Next]_vars
        => (orderly => FilesInv)'
    <2> SUFFICES ASSUME TypeInv, TypeInv', StepInv, orderly => FilesInv, [Next]_vars, orderly'
                 PROVE  FilesInv'
      OBVIOUS
    <2>1. PICK o \in Ranks : o = origin  BY DEF TypeInv, TypeOK
    <2>2. orderly => InOrder(o)  BY <2>1 DEF StepInv
    <2>3. ASSUME NEW p \in Ranks, Session(p) \/ Second(p) PROVE FilesInv'
      <3>1. UNCHANGED users
        BY Zenon, <2>3 DEF Session, Second, RootWrite, RootWritten, RootRead, RootLoaded, SessionEnds,
                    ReceiveHeader, ReceiveIO, JoinWrite, Joined, JoinRead, UnmountFromThread
      <3>2. orderly  BY <3>1 DEF users
      <3> QED  BY <2>2, <2>3, <3>2, ThreadsKeepFiles
    <2>4. ASSUME NEW p \in Ranks, User(p) PROVE FilesInv'
      <3>1. \A f \in Inodes : FuseFlush(p, f) => orderly  BY DEF FuseFlush, Comes
      <3>2. \A f \in Inodes, mode \in Modes : FuseOpen(p, f, mode) => orderly
        BY DEF FuseOpen, Comes
      <3>3. \A f \in Inodes, off \in Nat, data \in Payloads :
                FuseWrite(p, f, off, data) => orderly
        BY DEF FuseWrite
      <3>4. Unmount(p) => orderly  BY DEF Unmount, Comes
      <3>5. orderly  BY <2>4, <3>1, <3>2, <3>3, <3>4, UserCases
      <3> QED  BY <2>4, <3>5, UserKeepsFiles
    <2>5. ASSUME NEW p \in Ranks, Crossed(p) PROVE FilesInv'
      <3>1. UNCHANGED <<calls, list, mem, fuse, loop, st_size, handle, waiting>> /\ orderly
        BY <2>5 DEF Crossed, attrs, buffer, blocks, mpi, users
      <3>2. \A q \in Ranks, f \in Inodes : Clean(q, f)' = Clean(q, f)  BY <3>1 DEF Clean
      <3> QED  BY <3>1, <3>2, FilesStay
    <2>6. ASSUME UNCHANGED vars PROVE FilesInv'
      <3>1. UNCHANGED <<calls, list, mem, fuse, loop, st_size, handle, waiting>> /\ orderly
        BY <2>6 DEF vars, attrs, buffer, blocks, mpi, users
      <3>2. \A q \in Ranks, f \in Inodes : Clean(q, f)' = Clean(q, f)  BY <3>1 DEF Clean
      <3> QED  BY <3>1, <3>2, FilesStay
    <2> QED  BY <2>3, <2>4, <2>5, <2>6 DEF Next, Rest
  <1> QED  BY <1>1, <1>2, TypeInvariance, StepInvariance, PTL DEF Spec

WritesThrough(p) == {k \in 1 .. Through(p) : calls[p][k].op = "WRITE"}

\* The writes a process has applied are those of the pairs it has been through.
LEMMA AppliedThrough ==
    ASSUME TypeInv, NEW p \in Ranks
    PROVE  /\ Applied(p) = Cardinality(WritesThrough(p)) /\ IsFiniteSet(WritesThrough(p))
           /\ Through(p) \in Nat /\ Through(p) <= Len(calls[p]) /\ Len(calls[p]) \in Nat
  <1> DEFINE n == Len(calls[p])
             S == {k \in 1 .. n : calls[p][k].op = "WRITE"}
             T == {k \in 1 .. n - 1 : calls[p][k].op = "WRITE"}
  <1>1. calls[p] \in Seq(Entry) /\ n \in Nat /\ DOMAIN calls[p] = 1 .. n
    BY LenProperties DEF TypeInv, Kinds
  <1>2. IsFiniteSet(1 .. n) /\ IsFiniteSet(1 .. n - 1)  BY <1>1, FS_Interval
  <1>3. S \subseteq 1 .. n /\ T \subseteq 1 .. n - 1  OBVIOUS
  <1>4. IsFiniteSet(S) /\ IsFiniteSet(T)
    <2> HIDE DEF S, T
    <2> QED  BY <1>2, <1>3, FS_Subset
  <1>5. Cardinality(S) \in Nat /\ Cardinality(T) \in Nat  BY <1>4, FS_CardinalityType
  <1>6. Writes(p) = Cardinality(S)  BY <1>1 DEF Writes
  <1>7. \A a \in Nat : a - 0 = a /\ (a + 1) - 1 = a  OBVIOUS
  <1>8. CASE "allgather" \notin {fuse[p].at, loop[p].at}
    <2>1. Through(p) = n - 0 /\ Applied(p) = Writes(p) - 0  BY <1>8 DEF Through, Applied
    <2>2. Through(p) = n /\ Applied(p) = Cardinality(S)  BY <1>1, <1>5, <1>6, <1>7, <2>1
    <2> QED  BY <1>1, <1>4, <2>2 DEF WritesThrough
  <1>9. CASE "allgather" \in {fuse[p].at, loop[p].at}
    <2>1. Through(p) = n - 1 /\ Applied(p) = Writes(p) - 1  BY <1>9 DEF Through, Applied
    <2>2. calls[p] # <<>> /\ calls[p][n].op = "WRITE"
      BY <1>9 DEF TypeInv, Entered, Current
    <2>3. n >= 1  BY <1>1, <2>2, EmptySeq
    <2>4. S = T \cup {n} /\ n \notin T
      <3>1. \A k : k \in 1 .. n <=> k \in 1 .. n - 1 \/ k = n  BY <1>1, <2>3
      <3>2. n \notin 1 .. n - 1  BY <1>1
      <3> QED  BY <2>2, <3>1, <3>2
    <2>5. Cardinality(S) = Cardinality(T) + 1
      <3> HIDE DEF S, T
      <3> QED  BY <1>4, <2>4, FS_AddElement
    <2>6. Applied(p) = Cardinality(T)  BY <1>5, <1>6, <1>7, <2>1, <2>5
    <2>7. n - 1 \in Nat /\ n - 1 <= n  BY <1>1, <2>3
    <2> QED  BY <1>1, <1>4, <2>1, <2>6, <2>7 DEF WritesThrough
  <1> QED  BY <1>8, <1>9

\* With as many writes behind them two processes show the same files.
LEMMA SameAfterSameWrites ==
    ASSUME TypeInv, Sound(calls), NEW N \in Nat, NEW h, History(calls, N, h),
           NEW p \in Ranks, NEW q \in Ranks, Through(p) \in 0 .. N, Through(q) \in 0 .. N,
           Applied(p) = Applied(q), Through(p) <= Through(q)
    PROVE  h[Through(p)] = h[Through(q)]
  <1>1. /\ Through(p) \in Nat /\ Through(p) <= Len(calls[p]) /\ Len(calls[p]) \in Nat
        /\ Through(q) \in Nat /\ Through(q) <= Len(calls[q]) /\ Len(calls[q]) \in Nat
    BY AppliedThrough
  <1>2. WritesThrough(p) \subseteq WritesThrough(q)
    <2> SUFFICES ASSUME NEW k \in 1 .. Through(p), calls[p][k].op = "WRITE"
                 PROVE  k \in 1 .. Through(q) /\ calls[q][k].op = "WRITE"
      BY DEF WritesThrough
    <2>1. k \in 1 .. Len(calls[p]) /\ k <= Len(calls[q]) /\ k \in 1 .. Through(q)  BY <1>1
    <2> QED  BY <2>1 DEF Sound, Same
  <1>3. WritesThrough(p) = WritesThrough(q)
    <2>1. /\ Cardinality(WritesThrough(p)) = Cardinality(WritesThrough(q))
          /\ IsFiniteSet(WritesThrough(q))
      BY AppliedThrough
    <2> QED  BY <1>2, <2>1, FS_Subset
  <1>4. ASSUME NEW k \in Through(p) + 1 .. Through(q) PROVE h[k] = h[k - 1]
    <2>1. k \notin 1 .. Through(p) /\ k \in 1 .. Through(q) /\ k <= Len(calls[q]) /\ k \in 1 .. N
      BY <1>1
    <2>2. calls[q][k].op # "WRITE"  BY <1>3, <2>1 DEF WritesThrough
    <2>3. h[k] = Outcome(calls, q, k, h[k - 1])  BY <2>1 DEF History
    <2> QED  BY <2>2, <2>3 DEF Outcome
  <1> QED  BY <1>4 DEF History

\* Processes that have applied as many writes keep the same addresses for every
\* file, and the same size of those no user of theirs is writing
\* (DistributedCode::start, DAGonFS_Write), for any number of processes and writes.
THEOREM SameFilesSafety == Spec => []SameFiles
  <1>1. TypeInv /\ (orderly => FilesInv) => SameFiles
    <2> SUFFICES ASSUME TypeInv, FilesInv, NEW p \in Ranks, NEW q \in Ranks,
                        Applied(p) = Applied(q)
                 PROVE  /\ list[p] = list[q]
                        /\ \A f \in Inodes : Settled(p, f) /\ Settled(q, f) =>
                              st_size[p][f] = st_size[q][f]
      BY DEF SameFiles
    <2>0. PICK N \in Nat : \E h : Told(calls, mem, N, h) /\ \A r \in Ranks : Shows(r, N, h)
      BY DEF FilesInv
    <2>1. PICK h : Told(calls, mem, N, h) /\ \A r \in Ranks : Shows(r, N, h)  BY <2>0
    <2>2. History(calls, N, h) /\ Sound(calls)  BY <2>1 DEF FilesInv, Told
    <2>3. \A r \in Ranks : Through(r) \in 0 .. N /\ Through(r) \in Nat
      BY <2>1, AppliedThrough DEF Shows
    <2>4. h[Through(p)] = h[Through(q)]
      <3>1. CASE Through(p) <= Through(q)  BY <2>2, <2>3, <3>1, SameAfterSameWrites
      <3>2. CASE Through(q) <= Through(p)  BY <2>2, <2>3, <3>2, SameAfterSameWrites
      <3>3. \A a, b \in Nat : a <= b \/ b <= a  OBVIOUS
      <3> QED  BY <2>3, <3>1, <3>2, <3>3
    <2>5. \A r \in Ranks, f \in Inodes : Settled(r, f) => Clean(r, f)  BY DEF Settled, Clean
    <2>6. \A r \in Ranks : /\ list[r] = h[Through(r)].list
                           /\ \A f \in Inodes : Clean(r, f) => st_size[r][f] = h[Through(r)].size[f]
      BY <2>1 DEF Shows
    <2> QED  BY <2>4, <2>5, <2>6
  <1> QED  BY <1>1, TypeInvariance, FilesInvariance, PTL

-----------------------------------------------------------------------------
(* There is one history, and stored is the sizes that it has for the       *)
(* process whose users came last.                                          *)

\* Where an induction is meant, a least counterexample is taken.
LEMMA LeastNumber ==
    ASSUME NEW T, T \subseteq Nat, T # {}
    PROVE  \E k \in T : \A j \in T : k <= j
  <1>1. PICK k \in T : \A j \in T : <<j, k>> \notin OpToRel(<, Nat)
    BY NatLessThanWellFounded, WFMin
  <1>2. \A j \in T : ~ (j < k)
    BY <1>1 DEF OpToRel
  <1>3. ASSUME NEW j \in T PROVE k <= j
    BY <1>2
  <1> QED  BY <1>1, <1>3

\* Two histories of the same collectives are the same as far as both go.
LEMMA OneHistory ==
    ASSUME NEW c, NEW N \in Nat, NEW h, History(c, N, h), NEW M \in Nat, NEW g, History(c, M, g)
    PROVE  \A k \in 0 .. N : k <= M => h[k] = g[k]
  <1> DEFINE T == {k \in 0 .. N : k <= M /\ h[k] # g[k]}
  <1>1. T \subseteq Nat  OBVIOUS
  <1>2. CASE T = {}  BY <1>2
  <1>3. CASE T # {}
    <2>1. PICK k \in T : \A j \in T : k <= j
      <3> HIDE DEF T
      <3> QED  BY <1>1, <1>3, LeastNumber
    <2>2. k # 0  BY <2>1 DEF History
    <2>3. k \in 1 .. N /\ k \in 1 .. M /\ k - 1 \in 0 .. N /\ k - 1 <= M /\ ~ (k <= k - 1)
      BY <2>1, <2>2
    <2>4. h[k - 1] = g[k - 1]  BY <2>1, <2>3
    <2>5. PICK p \in Ranks : k <= Len(c[p])  BY <2>3 DEF History
    <2>6. h[k] = Outcome(c, p, k, h[k - 1]) /\ g[k] = Outcome(c, p, k, g[k - 1])
      BY <2>3, <2>5 DEF History
    <2> QED  BY <2>1, <2>4, <2>6
  <1> QED  BY <1>2, <1>3

\* The sizes that the last flush in order left are those of the history as far as the
\* root of what is under way has come.
StoredTold(o) ==
    \A N \in Nat : \A h : History(calls, N, h) /\ Through(o) <= N =>
        \A f \in Inodes : stored[f] = h[Through(o)].size[f]

\* What has been entered stays.
CallsGrow == \A q \in Ranks : /\ Len(calls[q]) <= Len(calls'[q])
                              /\ \A k \in 1 .. Len(calls[q]) : calls'[q][k] = calls[q][k]

\* They are so in every longer history, as there is only one.
LEMMA ToldStill ==
    ASSUME FilesInv, Sound(calls'), CallsGrow, NEW o \in Ranks, StoredTold(o),
           NEW N \in Nat, NEW h, History(calls', N, h), Through(o) <= N
    PROVE  \A f \in Inodes : stored[f] = h[Through(o)].size[f]
  <1>0. PICK M \in Nat : \E g : Told(calls, mem, M, g) /\ \A q \in Ranks : Shows(q, M, g)
    BY DEF FilesInv
  <1>1. PICK g : Told(calls, mem, M, g) /\ \A q \in Ranks : Shows(q, M, g)  BY <1>0
  <1>2. History(calls, M, g) /\ Through(o) \in 0 .. M /\ Sound(calls)
    BY <1>1 DEF Told, Shows, FilesInv
  <1>3. PICK d : d = calls'  OBVIOUS
  <1>4. Sound(d) /\ History(d, N, h)  BY <1>3
  <1>5. \A q \in Ranks : /\ Len(calls[q]) <= Len(d[q])
                         /\ \A k \in 1 .. Len(calls[q]) : d[q][k] = calls[q][k]
    BY <1>3 DEF CallsGrow
  <1>6. History(d, M, g)  BY <1>2, <1>4, <1>5, HistoryGrows
  <1>7. g[Through(o)] = h[Through(o)]  BY <1>2, <1>4, <1>6, OneHistory
  <1>8. \A f \in Inodes : stored[f] = g[Through(o)].size[f]
    <2>1. Through(o) <= M  BY <1>2
    <2> QED  BY <1>2, <2>1 DEF StoredTold
  <1> QED  BY <1>7, <1>8

\* A step in which the process gets through with nothing, or with a read.
LEMMA ToldStays ==
    ASSUME FilesInv, Sound(calls'), CallsGrow, NEW o \in Ranks, StoredTold(o), stored' = stored,
           \/ Through(o)' = Through(o)
           \/ /\ Through(o) \in Nat /\ Through(o)' = Through(o) + 1
              /\ Through(o)' \in 1 .. Len(calls'[o]) /\ calls'[o][Through(o)'].op # "WRITE"
    PROVE  StoredTold(o)'
  <1>1. PICK d : d = calls'  OBVIOUS
  <1>2. PICK t : t = Through(o)'  OBVIOUS
  <1> SUFFICES ASSUME NEW N \in Nat, NEW h, History(d, N, h), t <= N
               PROVE  \A f \in Inodes : stored[f] = h[t].size[f]
    BY <1>1, <1>2 DEF StoredTold
  <1>3. CASE t = Through(o)  BY <1>1, <1>3, ToldStill
  <1>4. CASE /\ Through(o) \in Nat /\ t = Through(o) + 1
             /\ t \in 1 .. Len(d[o]) /\ d[o][t].op # "WRITE"
    <2>1. Through(o) <= N /\ t \in 1 .. N /\ t - 1 = Through(o) /\ t <= Len(d[o])
      BY <1>4
    <2>2. \A f \in Inodes : stored[f] = h[Through(o)].size[f]  BY <1>1, <2>1, ToldStill
    <2>3. h[t] = Outcome(d, o, t, h[t - 1])  BY <2>1 DEF History
    <2>4. h[t] = h[t - 1]  BY <1>4, <2>3 DEF Outcome
    <2> QED  BY <2>1, <2>2, <2>4
  <1> QED  BY <1>1, <1>2, <1>3, <1>4

\* The step in which it gets through with a write.
LEMMA ToldAnew ==
    ASSUME FilesInv, Sound(calls), UNCHANGED calls, NEW o \in Ranks, StoredTold(o),
           Through(o) \in Nat, Through(o)' = Through(o) + 1, Through(o)' = Len(calls[o]),
           stored \in [Inodes -> Nat], Current(o).op = "WRITE",
           stored' = [stored EXCEPT ![Current(o).ino] = Current(o).n]
    PROVE  StoredTold(o)'
  <1>1. PICK t : t = Through(o)'  OBVIOUS
  <1> SUFFICES ASSUME NEW N \in Nat, NEW h, History(calls, N, h), t <= N
               PROVE  \A f \in Inodes : stored'[f] = h[t].size[f]
    BY <1>1 DEF StoredTold
  <1>2. Through(o) <= N /\ t \in 1 .. N /\ t - 1 = Through(o) /\ t <= Len(calls[o])
        /\ t = Len(calls[o])
    BY <1>1
  <1>3. Sound(calls') /\ CallsGrow
    <2>1. \A q \in Ranks : Len(calls[q]) <= Len(calls[q])
      BY DEF Sound
    <2> QED  BY <2>1 DEF CallsGrow
  <1>4. \A f \in Inodes : stored[f] = h[t - 1].size[f]  BY <1>2, <1>3, ToldStill
  <1>5. h[t] = Outcome(calls, o, t, h[t - 1]) /\ h[t - 1] \in Files
    <2>1. t - 1 \in 0 .. N  BY <1>2
    <2> QED  BY <1>2, <2>1 DEF History
  <1>6. h[t].size = [h[t - 1].size EXCEPT ![Current(o).ino] = Current(o).n]
    BY <1>2, <1>5 DEF Outcome, Current
  <1>7. h[t - 1].size \in [Inodes -> Nat]  BY <1>5 DEF Files
  <1> QED  BY <1>4, <1>6, <1>7

\* What the list and the blocks are at the process whose users came last, and the
\* sizes of files that none of a process has changed.
LEMMA StoredFacts ==
    ASSUME TypeInv, FilesInv, NEW o \in Ranks, StoredTold(o)
    PROVE  /\ \A f \in Inodes :
                 /\ stored[f] \in Nat /\ stored[f] <= Len(list[o][f])
                 /\ \A i \in 1 .. stored[f] :
                       list[o][f][i] \in 1 .. Len(mem[Owner(stored[f], i)])
           /\ \A p \in Ranks, f \in Inodes : Clean(p, f) => st_size[p][f] <= Len(list[p][f])
           /\ \A p \in Ranks : Through(p) = Through(o) =>
                 /\ list[p] = list[o]
                 /\ \A f \in Inodes : Clean(p, f) => st_size[p][f] = stored[f]
  <1>0. PICK N \in Nat : \E h : Told(calls, mem, N, h) /\ \A q \in Ranks : Shows(q, N, h)
    BY DEF FilesInv
  <1>1. PICK h : Told(calls, mem, N, h) /\ \A q \in Ranks : Shows(q, N, h)  BY <1>0
  <1>2. \A q \in Ranks : /\ Through(q) \in 0 .. N /\ list[q] = h[Through(q)].list
                         /\ AtHome(mem, h[Through(q)]) /\ h[Through(q)] \in Files
                         /\ \A f \in Inodes : Clean(q, f) => st_size[q][f] = h[Through(q)].size[f]
    BY <1>1 DEF Told, Shows, History
  <1>3. \A f \in Inodes : stored[f] = h[Through(o)].size[f]
    <2>1. Through(o) <= N  BY <1>2
    <2> QED  BY <1>1, <2>1 DEF StoredTold, Told
  <1>4. \A f \in Inodes : stored[f] \in Nat  BY DEF TypeInv, TypeOK
  <1>5. ASSUME NEW f \in Inodes
        PROVE  /\ stored[f] <= Len(list[o][f])
               /\ \A i \in 1 .. stored[f] :
                     list[o][f][i] \in 1 .. Len(mem[Owner(stored[f], i)])
    <2>1. /\ h[Through(o)].size[f] <= Len(h[Through(o)].list[f])
          /\ \A i \in 1 .. h[Through(o)].size[f] :
                h[Through(o)].list[f][i] \in 1 .. Len(mem[Owner(h[Through(o)].size[f], i)])
      BY <1>2 DEF AtHome
    <2> QED  BY <1>2, <1>3, <2>1
  <1>6. ASSUME NEW p \in Ranks, NEW f \in Inodes, Clean(p, f) PROVE st_size[p][f] <= Len(list[p][f])
    <2>1. h[Through(p)].size[f] <= Len(h[Through(p)].list[f])  BY <1>2 DEF AtHome
    <2> QED  BY <1>2, <1>6, <2>1
  <1>7. \A p \in Ranks : Through(p) = Through(o) =>
            /\ list[p] = list[o]
            /\ \A f \in Inodes : Clean(p, f) => st_size[p][f] = stored[f]
    BY <1>2, <1>3
  <1> QED  BY <1>4, <1>5, <1>6, <1>7

-----------------------------------------------------------------------------
(* What the collectives carry: blocks that users wrote, and for a read     *)
(* addresses at which there are blocks and what is found there.            *)

\* What is written to memory or scattered by the root of a write is blocks.
CarriesBlocks(c, m) ==
    /\ m \in [Ranks -> Seq(Block)]
    /\ \A p \in Ranks : \A k \in 1 .. Len(c[p]) :
          /\ c[p][k].n <= MaxSize
          /\ c[p][k].op = "WRITE" /\ c[p][k].root = p => c[p][k].down \in Seq(Block)

\* The k-th pair, a read, at its root and at a process that has a share.
AsksForBlocks(m, e) == \A i \in 1 .. e.n : e.down[i] \in 1 .. Len(m[Owner(e.n, i)])
AnswersFor(m, p, e, down) ==
    \A j \in 1 .. Count(e.n, p) : e.up[j] = m[p][down[Displ(e.n, p) + j]]

\* Every read entered so far asks for, and is answered with, what is in memory.
CarriesReads(c, m) ==
    \A p \in Ranks : \A k \in 1 .. Len(c[p]) : c[p][k].op = "READ" =>
        /\ c[p][k].root = p => AsksForBlocks(m, c[p][k])
        /\ AnswersFor(m, p, c[p][k], c[c[p][k].root][k].down)

\* What a read asks for at the share of a process.
LEMMA AskedOf ==
    ASSUME NEW c, Sound(c), NEW m, CarriesReads(c, m), NEW p \in Ranks, NEW k \in 1 .. Len(c[p]),
           c[p][k].op = "READ"
    PROVE  /\ c[p][k].n \in Nat /\ c[p][k].root \in Ranks
           /\ \A i \in 1 .. c[p][k].n :
                 c[c[p][k].root][k].down[i] \in 1 .. Len(m[Owner(c[p][k].n, i)])
           /\ \A j \in 1 .. Count(c[p][k].n, p) :
                 c[c[p][k].root][k].down[Displ(c[p][k].n, p) + j] \in 1 .. Len(m[p])
  <1> DEFINE n == c[p][k].n
             o == c[p][k].root
             e == c[o][k]
  <1>1. n \in Nat /\ o \in Ranks /\ k \in 1 .. Len(c[o])  BY SoundEntry
  <1>2. e.op = "READ" /\ e.root = o /\ e.n = n
    <2>1. k <= Len(c[o])  BY <1>1, SoundEntry
    <2> QED  BY <1>1, <2>1 DEF Sound, Same
  <1>3. \A i \in 1 .. n : e.down[i] \in 1 .. Len(m[Owner(n, i)])
    <2> HIDE DEF o, n
    <2> QED  BY SMTT(20), <1>1, <1>2 DEF CarriesReads, AsksForBlocks
  <1>4. ASSUME NEW j \in 1 .. Count(n, p) PROVE e.down[Displ(n, p) + j] \in 1 .. Len(m[p])
    <2>1. Displ(n, p) + j \in 1 .. n /\ Owner(n, Displ(n, p) + j) = p
      BY <1>1, OwnerIsUnique
    <2> QED  BY <1>3, <2>1
  <1> QED  BY Zenon, <1>1, <1>3, <1>4

\* Blocks are allocated.
LEMMA CarriesStay ==
    ASSUME NEW c, Sound(c), NEW m \in [Ranks -> Seq(Block)], NEW m2 \in [Ranks -> Seq(Block)],
           Extends(m2, m), CarriesBlocks(c, m), CarriesReads(c, m)
    PROVE  CarriesBlocks(c, m2) /\ CarriesReads(c, m2)
  <1>1. CarriesBlocks(c, m2)  BY DEF CarriesBlocks
  <1>2. \A q \in Ranks : /\ Len(m[q]) \in Nat /\ Len(m2[q]) \in Nat /\ Len(m[q]) <= Len(m2[q])
                         /\ \A a \in 1 .. Len(m[q]) : a \in 1 .. Len(m2[q]) /\ m2[q][a] = m[q][a]
    <2> TAKE q \in Ranks
    <2>1. Len(m[q]) \in Nat /\ Len(m2[q]) \in Nat /\ Len(m[q]) <= Len(m2[q])  BY DEF Extends
    <2>2. \A a \in 1 .. Len(m[q]) : a \in 1 .. Len(m2[q])  BY <2>1
    <2> QED  BY <2>1, <2>2 DEF Extends
  <1>3. ASSUME NEW p \in Ranks, NEW k \in 1 .. Len(c[p]), c[p][k].op = "READ"
        PROVE  /\ c[p][k].root = p => AsksForBlocks(m2, c[p][k])
               /\ AnswersFor(m2, p, c[p][k], c[c[p][k].root][k].down)
    <2>1. c[p][k].n \in Nat  BY SoundEntry
    <2>2. c[p][k].root = p => AsksForBlocks(m2, c[p][k])
      <3> SUFFICES ASSUME c[p][k].root = p, NEW i \in 1 .. c[p][k].n
                   PROVE  c[p][k].down[i] \in 1 .. Len(m2[Owner(c[p][k].n, i)])
        BY DEF AsksForBlocks
      <3>1. c[p][k].down[i] \in 1 .. Len(m[Owner(c[p][k].n, i)])
        BY <1>3 DEF CarriesReads, AsksForBlocks
      <3>2. Owner(c[p][k].n, i) \in Ranks  BY Zenon, <2>1, OwnerHolds
      <3> QED  BY <1>2, <3>1, <3>2
    <2>3. AnswersFor(m2, p, c[p][k], c[c[p][k].root][k].down)
      <3> SUFFICES ASSUME NEW j \in 1 .. Count(c[p][k].n, p)
                   PROVE  c[p][k].up[j] = m2[p][c[c[p][k].root][k].down[Displ(c[p][k].n, p) + j]]
        BY Zenon DEF AnswersFor
      <3>1. c[p][k].up[j] = m[p][c[c[p][k].root][k].down[Displ(c[p][k].n, p) + j]]
        BY Zenon, <1>3 DEF CarriesReads, AnswersFor
      <3>2. c[c[p][k].root][k].down[Displ(c[p][k].n, p) + j] \in 1 .. Len(m[p])
        BY Zenon, <1>3, AskedOf
      <3> QED  BY Zenon, <1>2, <3>1, <3>2
    <2> QED  BY <2>2, <2>3
  <1> QED  BY <1>1, <1>3 DEF CarriesReads

\* A process enters a pair with e.
LEMMA CarriesEnter ==
    ASSUME NEW c, Sound(c), NEW d, Sound(d), NEW m, CarriesBlocks(c, m), CarriesReads(c, m),
           NEW p \in Ranks, NEW e, Len(d[p]) = Len(c[p]) + 1, d[p][Len(c[p]) + 1] = e,
           \A q \in Ranks \ {p} : d[q] = c[q],
           \A k \in 1 .. Len(c[p]) : d[p][k] = c[p][k],
           e.n <= MaxSize,
           e.op = "WRITE" /\ e.root = p => e.down \in Seq(Block),
           e.op = "READ" /\ e.root = p => AsksForBlocks(m, e),
           e.op = "READ" => AnswersFor(m, p, e, d[e.root][Len(c[p]) + 1].down)
    PROVE  CarriesBlocks(d, m) /\ CarriesReads(d, m)
  <1>1. \A q \in Ranks : Len(c[q]) \in Nat /\ Len(d[q]) \in Nat  BY DEF Sound
  <1>2. ASSUME NEW q \in Ranks, NEW k \in 1 .. Len(d[q])
        PROVE  (q = p /\ k = Len(c[p]) + 1 /\ d[q][k] = e)
               \/ (k \in 1 .. Len(c[q]) /\ d[q][k] = c[q][k])
    <2>1. CASE q = p
      <3>1. k \in 1 .. Len(c[p]) \/ k = Len(c[p]) + 1  BY <1>1, <2>1
      <3> QED  BY <2>1, <3>1
    <2>2. CASE q # p  BY <2>2
    <2> QED  BY <2>1, <2>2
  <1>3. ASSUME NEW q \in Ranks, NEW k \in 1 .. Len(c[q]) PROVE d[q][k] = c[q][k]
    <2>1. CASE q = p  BY <2>1
    <2>2. CASE q # p  BY <2>2
    <2> QED  BY <2>1, <2>2
  <1>4. CarriesBlocks(d, m)
    <2> SUFFICES ASSUME NEW q \in Ranks, NEW k \in 1 .. Len(d[q])
                 PROVE  /\ d[q][k].n <= MaxSize
                        /\ d[q][k].op = "WRITE" /\ d[q][k].root = q => d[q][k].down \in Seq(Block)
      BY DEF CarriesBlocks
    <2>1. CASE q = p /\ k = Len(c[p]) + 1 /\ d[q][k] = e  BY <2>1
    <2>2. CASE k \in 1 .. Len(c[q]) /\ d[q][k] = c[q][k]  BY <2>2 DEF CarriesBlocks
    <2> QED  BY <1>2, <2>1, <2>2
  <1>5. ASSUME NEW q \in Ranks, NEW k \in 1 .. Len(d[q]), d[q][k].op = "READ"
        PROVE  /\ d[q][k].root = q => AsksForBlocks(m, d[q][k])
               /\ AnswersFor(m, q, d[q][k], d[d[q][k].root][k].down)
    <2>1. CASE q = p /\ k = Len(c[p]) + 1 /\ d[q][k] = e  BY <1>5, <2>1
    <2>2. CASE k \in 1 .. Len(c[q]) /\ d[q][k] = c[q][k]
      <3>1. c[q][k].root \in Ranks /\ k \in 1 .. Len(c[c[q][k].root])  BY <2>2, SoundEntry
      <3>2. d[c[q][k].root][k] = c[c[q][k].root][k]  BY <1>3, <3>1
      <3> QED  BY <1>5, <2>2, <3>2 DEF CarriesReads
    <2> QED  BY <1>2, <2>1, <2>2
  <1> QED  BY <1>4, <1>5 DEF CarriesReads

\* The gather of a read puts together what is at the addresses that were scattered.
LEMMA ReadGathers ==
    ASSUME NEW c, Sound(c), NEW m, CarriesReads(c, m), NEW o \in Ranks, NEW k \in 1 .. Len(c[o]),
           c[o][k].op = "READ", c[o][k].root = o, HaveEntered(c, k, c[o][k].n)
    PROVE  \A i \in 1 .. c[o][k].n :
              GatheredAt(c, k, c[o][k].n)[i] = m[Owner(c[o][k].n, i)][c[o][k].down[i]]
  <1> DEFINE n == c[o][k].n
             got == [q \in Ranks |-> IF k <= Len(c[q]) THEN c[q][k].up ELSE <<>>]
             at(i) == m[Owner(n, i)][c[o][k].down[i]]
             item(i) == got[Owner(n, i)][i - Displ(n, Owner(n, i))]
  <1>1. n \in Nat /\ k <= Len(c[o])  BY SoundEntry
  <1>2. ASSUME NEW i \in 1 .. n PROVE item(i) = at(i)
    <2> DEFINE q == Owner(n, i)
               j == i - Displ(n, q)
    <2>1. q \in Ranks /\ j \in 1 .. Count(n, q)  BY <1>1, OwnerHolds
    <2>2. Count(n, q) \in Nat /\ Displ(n, q) \in Nat  BY <1>1, <2>1, CountType
    <2>3. Count(n, q) > 0 /\ Displ(n, q) + j = i
      <3> HIDE DEF q, n
      <3>1. j \in Int /\ 1 <= j /\ j <= Count(n, q)  BY <2>1, <2>2
      <3>2. i \in Int /\ j = i - Displ(n, q)  OBVIOUS
      <3> HIDE DEF j
      <3> QED  BY <2>2, <3>1, <3>2
    <2>4. k <= Len(c[q]) /\ got[q] = c[q][k].up /\ k \in 1 .. Len(c[q])
      <3>1. k <= Len(c[q])
        <4> HIDE DEF q
        <4> QED  BY <2>1, <2>3 DEF HaveEntered
      <3>2. Len(c[q]) \in Nat  BY <2>1 DEF Sound
      <3> HIDE DEF q, n, j
      <3> QED  BY <2>1, <3>1, <3>2
    <2>5. c[q][k].op = "READ" /\ c[q][k].root = o /\ c[q][k].n = n
      <3> HIDE DEF q, j
      <3> QED  BY <1>1, <2>1, <2>4 DEF Sound, Same
    <2>6. c[q][k].up[j] = m[q][c[o][k].down[Displ(n, q) + j]]
      <3> HIDE DEF q, j, n
      <3> QED  BY Zenon, <2>1, <2>4, <2>5 DEF CarriesReads, AnswersFor
    <2> QED  BY Zenon, <2>3, <2>4, <2>6
  <1>3. GatheredAt(c, k, n) = [i \in 1 .. n |-> item(i)]  BY DEF GatheredAt, Assemble
  <1> HIDE DEF item, at, n
  <1>4. \A i \in 1 .. n : GatheredAt(c, k, n)[i] = at(i)  BY <1>2, <1>3
  <1> QED  BY <1>4 DEF at, n

-----------------------------------------------------------------------------
(* A file at a process: what its handle, its buffer and its attributes     *)
(* have to do with each other.                                             *)

\* FuseOpen of the file is collecting its blocks, FuseFlush is storing them; the file is
\* open for writing, or was and is being stored; what m_buf holds.
Reading(p, f)    == fuse[p].at \in {"read", "gather"} /\ fuse[p].ino = f
Writing(p, f)    == fuse[p].at \in {"write", "allgather"} /\ fuse[p].ino = f
ForWriting(p, f) == handle[p][f] \in {"rw", "w"} \/ Writing(p, f)
Room(p, f)       == IF m_buf[p][f] = NoBuf THEN 0 ELSE Len(m_buf[p][f])

\* There is a buffer if the file is open or its blocks are being written; what was
\* written is waiting until then.
BufferOf(p, f) ==
    /\ Reading(p, f) => handle[p][f] \in {"r", "rw"} /\ ~ waiting[p][f]
    /\ Writing(p, f) => handle[p][f] = "closed" /\ waiting[p][f]
    /\ waiting[p][f] => m_buf[p][f] # NoBuf /\ ForWriting(p, f)
    /\ handle[p][f] = "closed" /\ ~ Writing(p, f) => m_buf[p][f] = NoBuf
    /\ m_buf[p][f] # NoBuf => m_buf[p][f] \in Seq(Block)

\* Its length is st_size then, and st_blocks that or the length of the list.
RoomOf(p, f) ==
    Writing(p, f) \/ (handle[p][f] # "closed" /\ ~ Reading(p, f)) =>
        /\ st_size[p][f] = Room(p, f)
        /\ \/ st_blocks[p][f] = Room(p, f)
           \/ /\ Room(p, f) <= st_blocks[p][f]
              /\ st_blocks[p][f] = Len(list[p][f]) /\ Len(list[p][f]) > stored[f]

\* Sizes are bounded, and DAGonFS_Write sets st_blocks to st_size or to the length of
\* the block list.
SizesOf(p, f) ==
    /\ st_size[p][f] <= MaxSize
    /\ Clean(p, f) => st_blocks[p][f] \in {st_size[p][f], Len(list[p][f])}

\* The three together, of one file at one process.
FileAt(p, f) == BufferOf(p, f) /\ RoomOf(p, f) /\ SizesOf(p, f)

\* An assignment to what one process keeps of one file.
LEMMA PerFileSet ==
    ASSUME NEW S, NEW x \in PerFile(S), NEW p \in Ranks, NEW f \in Inodes, NEW v
    PROVE  \A q \in Ranks, g \in Inodes :
              [x EXCEPT ![p][f] = v][q][g] = IF q = p /\ g = f THEN v ELSE x[q][g]
  BY DEF PerFile

\* The types of what a process keeps of a file.
LEMMA FileTypes ==
    ASSUME TypeOK, NEW p \in Ranks, NEW f \in Inodes
    PROVE  /\ handle[p][f] \in Modes \cup {"closed"} /\ waiting[p][f] \in BOOLEAN
           /\ st_size[p][f] \in Nat /\ st_blocks[p][f] \in Nat /\ stored[f] \in Nat
           /\ m_buf[p][f] \in Content \cup {NoBuf}
           /\ list[p][f] \in Seq(Nat) /\ Len(list[p][f]) \in Nat
           /\ Room(p, f) \in Nat
  <1>1. list[p][f] \in Seq(Nat) /\ m_buf[p][f] \in Content \cup {NoBuf}
    BY DEF TypeOK, PerFile
  <1>2. Len(list[p][f]) \in Nat  BY <1>1
  <1>3. Room(p, f) \in Nat  BY <1>1 DEF Room, Content
  <1> QED  BY <1>1, <1>2, <1>3 DEF TypeOK, PerFile

\* A step that does not touch the file, or only its size at the last flush while it is closed.
LEMMA FileStays ==
    ASSUME NEW p \in Ranks, NEW f \in Inodes, FileAt(p, f),
           handle'[p][f] = handle[p][f], waiting'[p][f] = waiting[p][f],
           m_buf'[p][f] = m_buf[p][f], st_size'[p][f] = st_size[p][f],
           st_blocks'[p][f] = st_blocks[p][f], list'[p][f] = list[p][f],
           Reading(p, f)' <=> Reading(p, f), Writing(p, f)' <=> Writing(p, f),
           stored'[f] = stored[f] \/ (handle[p][f] = "closed" /\ ~ Writing(p, f))
    PROVE  FileAt(p, f)'
  <1>1. BufferOf(p, f)'  BY DEF FileAt, BufferOf, ForWriting
  <1>2. RoomOf(p, f)'  BY DEF FileAt, RoomOf, Room
  <1>3. SizesOf(p, f)'  BY DEF FileAt, SizesOf, Clean
  <1> QED  BY <1>1, <1>2, <1>3 DEF FileAt

\* What the handlers of users do to files.
LEMMA OpenFile ==
    ASSUME TypeInv, \A q \in Ranks, g \in Inodes : FileAt(q, g),
           NEW p \in Ranks, NEW f \in Inodes, NEW mode \in Modes, FuseOpen(p, f, mode)
    PROVE  /\ \A q \in Ranks, g \in Inodes : FileAt(q, g)'
           /\ fuse[p].at = "idle" /\ fuse'[p].at \in {"idle", "read"}
           /\ \A q \in Ranks \ {p} : fuse'[q] = fuse[q]
           /\ handle[p][f] = "closed" /\ handle'[p][f] = mode
           /\ \A q \in Ranks, g \in Inodes : q # p \/ g # f => handle'[q][g] = handle[q][g]
  <1>0. TypeOK /\ fuse \in [Ranks -> FusePlace]  BY DEF TypeInv, Kinds
  <1>1. /\ handle \in PerFile(Modes \cup {"closed"})
        /\ st_size \in PerFile(Nat) /\ st_blocks \in PerFile(Nat)
    BY <1>0 DEF TypeOK
  <1>2. /\ fuse[p] = At("idle") /\ handle[p][f] = "closed"
        /\ handle' = [handle EXCEPT ![p][f] = mode]
        /\ IF mode = "w"
             THEN /\ st_size' = [st_size EXCEPT ![p][f] = 0]
                  /\ st_blocks' = [st_blocks EXCEPT ![p][f] = 0]
                  /\ UNCHANGED fuse
             ELSE /\ fuse' = [fuse EXCEPT ![p] = Handling("read", f)]
                  /\ UNCHANGED attrs
        /\ UNCHANGED <<m_buf, waiting, list, stored>>
    BY DEF FuseOpen, Idle, buffer, blocks, told
  <1>3. \A q \in Ranks, g \in Inodes :
            handle'[q][g] = IF q = p /\ g = f THEN mode ELSE handle[q][g]
    BY <1>1, <1>2, PerFileSet
  <1>4. \A q \in Ranks, g \in Inodes :
            mode = "w" => /\ st_size'[q][g] = IF q = p /\ g = f THEN 0 ELSE st_size[q][g]
                          /\ st_blocks'[q][g] = IF q = p /\ g = f THEN 0 ELSE st_blocks[q][g]
    <2> SUFFICES ASSUME mode = "w"
                 PROVE  \A q \in Ranks, g \in Inodes :
                           /\ st_size'[q][g] = IF q = p /\ g = f THEN 0 ELSE st_size[q][g]
                           /\ st_blocks'[q][g] = IF q = p /\ g = f THEN 0 ELSE st_blocks[q][g]
      OBVIOUS
    <2>1. /\ st_size' = [st_size EXCEPT ![p][f] = 0]
          /\ st_blocks' = [st_blocks EXCEPT ![p][f] = 0]
      BY <1>2
    <2>2. \A q \in Ranks, g \in Inodes :
              st_size'[q][g] = IF q = p /\ g = f THEN 0 ELSE st_size[q][g]
      <3>1. st_size \in PerFile(Nat)  BY <1>1
      <3>2. \A q \in Ranks, g \in Inodes :
                [st_size EXCEPT ![p][f] = 0][q][g] = IF q = p /\ g = f THEN 0 ELSE st_size[q][g]
        BY SMTT(20), <3>1, PerFileSet
      <3> QED  BY <2>1, <3>2
    <2>3. \A q \in Ranks, g \in Inodes :
              st_blocks'[q][g] = IF q = p /\ g = f THEN 0 ELSE st_blocks[q][g]
      <3>1. st_blocks \in PerFile(Nat)  BY <1>1
      <3>2. \A q \in Ranks, g \in Inodes :
                [st_blocks EXCEPT ![p][f] = 0][q][g] = IF q = p /\ g = f THEN 0 ELSE st_blocks[q][g]
        BY <3>1, PerFileSet
      <3> QED  BY <2>1, <3>2
    <2> QED  BY <2>2, <2>3
  <1>5. /\ fuse[p].at = "idle" /\ \A q \in Ranks \ {p} : fuse'[q] = fuse[q]
        /\ mode = "w" => fuse'[p].at = "idle"
        /\ mode # "w" => fuse'[p].at = "read" /\ fuse'[p].ino = f
    BY <1>0, <1>2 DEF At, Handling
  <1>6. ASSUME NEW q \in Ranks, NEW g \in Inodes, q # p \/ g # f PROVE FileAt(q, g)'
    <2>1. Reading(q, g)' <=> Reading(q, g)
      <3>1. CASE q = p  BY <1>5, <1>6, <3>1 DEF Reading
      <3>2. CASE q # p  BY <1>5, <3>2 DEF Reading
      <3> QED  BY <3>1, <3>2
    <2>2. Writing(q, g)' <=> Writing(q, g)
      <3>1. CASE q = p  BY <1>5, <1>6, <3>1 DEF Writing
      <3>2. CASE q # p  BY <1>5, <3>2 DEF Writing
      <3> QED  BY <3>1, <3>2
    <2>3. handle'[q][g] = handle[q][g]  BY <1>3, <1>6
    <2>4. st_size'[q][g] = st_size[q][g] /\ st_blocks'[q][g] = st_blocks[q][g]
      BY <1>2, <1>4, <1>6 DEF attrs
    <2> QED  BY <1>2, <2>1, <2>2, <2>3, <2>4, FileStays
  <1>7. FileAt(p, f)'
    <2>1. ~ Writing(p, f) /\ ~ Reading(p, f) /\ ~ Writing(p, f)'  BY <1>5 DEF Writing, Reading
    <2>2. m_buf[p][f] = NoBuf /\ ~ waiting[p][f] /\ Clean(p, f)
      BY <1>2, <2>1 DEF FileAt, BufferOf, ForWriting, Clean
    <2>3. m_buf'[p][f] = NoBuf /\ ~ waiting'[p][f] /\ handle'[p][f] = mode
      BY <1>2, <1>3, <2>2
    <2>4. CASE mode = "w"
      <3>1. st_size'[p][f] = 0 /\ st_blocks'[p][f] = 0 /\ 0 <= MaxSize
        BY <1>4, <2>4, P2PDataAssumption
      <3>2. ~ Reading(p, f)' /\ ~ Clean(p, f)'  BY <1>5, <2>3, <2>4 DEF Reading, Clean
      <3>3. BufferOf(p, f)'  BY <2>1, <2>3, <2>4, <3>2 DEF BufferOf
      <3>4. RoomOf(p, f)'  BY <2>3, <3>1 DEF RoomOf, Room
      <3>5. SizesOf(p, f)'  BY <3>1, <3>2 DEF SizesOf
      <3> QED  BY <3>3, <3>4, <3>5 DEF FileAt
    <2>5. CASE mode # "w"
      <3>1. Reading(p, f)' /\ mode \in {"r", "rw"}  BY <1>5, <2>5 DEF Reading, Modes
      <3>2. BufferOf(p, f)'  BY <2>1, <2>3, <3>1 DEF BufferOf
      <3>3. RoomOf(p, f)'  BY <2>1, <3>1 DEF RoomOf
      <3>4. SizesOf(p, f)'  BY <1>2, <2>2, <2>5 DEF SizesOf, FileAt, attrs
      <3> QED  BY <3>2, <3>3, <3>4 DEF FileAt
    <2> QED  BY <2>4, <2>5
  <1> QED  BY <1>2, <1>3, <1>5, <1>6, <1>7

\* The buffer after FuseWrite.
LEMMA WrittenBuffer ==
    ASSUME NEW held \in Seq(Block), NEW off \in Nat, NEW data \in Payloads, off <= Len(held),
           NEW blk \in Nat,
           Len(held) = blk \/ Len(held) <= blk
    PROVE  LET newSize == off + Len(data)
               room == IF newSize > blk THEN Items(held, newSize, Garbage) ELSE held
               buf  == [i \in DOMAIN room |->
                           IF i \in off + 1 .. newSize THEN data[i - off] ELSE room[i]]
           IN  newSize <= Len(room) =>
                  /\ buf \in Seq(Block)
                  /\ Len(buf) = Max(Len(held), newSize)
                  /\ newSize > blk => Len(buf) = newSize
                  /\ newSize <= blk => newSize <= Len(held)
  <1> DEFINE newSize == off + Len(data)
             room == IF newSize > blk THEN Items(held, newSize, Garbage) ELSE held
             e(i) == IF i \in off + 1 .. newSize THEN data[i - off] ELSE room[i]
             buf  == [i \in DOMAIN room |-> e(i)]
             len == Len(room)
  <1>1. data \in Seq(Block) /\ Len(data) \in Nat /\ newSize \in Nat /\ Len(held) \in Nat
    BY P2PDataAssumption
  <1> HIDE DEF newSize
  <1>2. /\ DOMAIN room = 1 .. len /\ len \in Nat
        /\ newSize > blk => len = newSize
        /\ newSize <= blk => len = Len(held)
    <2>1. CASE newSize > blk
      <3>1. Items(held, newSize, Garbage) = [i \in 1 .. newSize |-> IF i <= Len(held) THEN held[i] ELSE Garbage]
        BY DEF Items
      <3>2. Len(Items(held, newSize, Garbage)) = newSize
            /\ DOMAIN Items(held, newSize, Garbage) = 1 .. newSize
        BY <1>1, <3>1
      <3> QED  BY <1>1, <2>1, <3>2
    <2>2. CASE newSize <= blk
      <3>1. ~ (newSize > blk)  BY <1>1, <2>2
      <3> QED  BY <1>1, <3>1, LenProperties
    <2>3. newSize > blk \/ newSize <= blk  BY <1>1
    <2> QED  BY <2>1, <2>2, <2>3
  <1> SUFFICES ASSUME newSize <= len
               PROVE  /\ buf \in Seq(Block)
                      /\ Len(buf) = Max(Len(held), newSize)
                      /\ newSize > blk => Len(buf) = newSize
                      /\ newSize <= blk => newSize <= Len(held)
    BY DEF newSize
  <1>3. ASSUME NEW i \in 1 .. len PROVE e(i) \in Block
    <2>1. CASE i \in off + 1 .. newSize
      <3>1. i - off \in 1 .. Len(data)  BY <1>1, <2>1 DEF newSize
      <3> QED  BY <1>1, <2>1, <3>1, ElementOfSeq
    <2>2. CASE i \notin off + 1 .. newSize
      <3>1. i \in 1 .. Len(held)  BY <1>1, <1>2, <2>2
      <3>2. held[i] \in Block  BY <3>1, ElementOfSeq
      <3>3. room[i] = held[i]
        <4>1. CASE newSize > blk
          <5>1. i \in 1 .. newSize /\ i <= Len(held)  BY <1>1, <1>2, <3>1, <4>1
          <5> QED  BY <4>1, <5>1 DEF Items
        <4>2. CASE ~ (newSize > blk)  BY <4>2
        <4> QED  BY <4>1, <4>2
      <3> QED  BY <2>2, <3>2, <3>3
    <2> QED  BY <2>1, <2>2
  <1>4. buf = [i \in 1 .. len |-> e(i)]  BY <1>2
  <1> HIDE DEF room, e, buf, len
  <1>5. buf \in Seq(Block) /\ Len(buf) = len  BY <1>2, <1>3, <1>4
  <1>6. len = Max(Len(held), newSize)
    BY <1>1, <1>2 DEF Max
  <1>7. newSize <= blk => newSize <= Len(held)  BY <1>2
  <1> QED  BY <1>2, <1>5, <1>6, <1>7

\* FuseWrite puts blocks into m_buf and makes st_size and st_blocks say so.
LEMMA WriteFile ==
    ASSUME TypeInv, \A q \in Ranks, g \in Inodes : FileAt(q, g),
           NEW p \in Ranks, NEW f \in Inodes, NEW off \in 0 .. st_size[p][f],
           NEW data \in Payloads, FuseWrite(p, f, off, data), fault' # "overflow"
    PROVE  \A q \in Ranks, g \in Inodes : FileAt(q, g)'
  <1> DEFINE newSize == off + Len(data)
             held == IF m_buf[p][f] = NoBuf THEN <<>> ELSE m_buf[p][f]
             room == IF newSize > st_blocks[p][f] THEN Items(held, newSize, Garbage) ELSE held
             buf  == [i \in DOMAIN room |->
                         IF i \in off + 1 .. newSize THEN data[i - off] ELSE room[i]]
  <1>0. TypeOK /\ fuse \in [Ranks -> FusePlace]  BY DEF TypeInv, Kinds
  <1>1. /\ waiting \in PerFile(BOOLEAN) /\ m_buf \in PerFile(Content \cup {NoBuf})
        /\ st_size \in PerFile(Nat) /\ st_blocks \in PerFile(Nat)
    BY <1>0 DEF TypeOK
  <1>2. /\ fuse[p] = At("idle") /\ handle[p][f] \in {"rw", "w"} /\ newSize <= MaxSize
        /\ waiting' = [waiting EXCEPT ![p][f] = TRUE]
        /\ m_buf' = [m_buf EXCEPT ![p][f] = buf]
        /\ st_blocks' = [st_blocks EXCEPT ![p][f] = Max(st_blocks[p][f], newSize)]
        /\ st_size' = [st_size EXCEPT ![p][f] = Max(st_size[p][f], newSize)]
        /\ newSize <= Len(room)
        /\ UNCHANGED <<handle, list, fuse, stored>>
    BY DEF FuseWrite, Idle, blocks, told
  <1>3. /\ ~ Reading(p, f) /\ ~ Writing(p, f) /\ ~ Reading(p, f)' /\ ~ Writing(p, f)'
    BY <1>2 DEF Reading, Writing, At
  <1>4. /\ st_size[p][f] = Room(p, f)
        /\ \/ st_blocks[p][f] = Room(p, f)
           \/ /\ Room(p, f) <= st_blocks[p][f]
              /\ st_blocks[p][f] = Len(list[p][f]) /\ Len(list[p][f]) > stored[f]
    BY <1>2, <1>3 DEF FileAt, RoomOf
  <1>5. held \in Seq(Block) /\ Len(held) = Room(p, f) /\ Len(held) \in Nat
    <2>1. held \in Seq(Block)  BY DEF FileAt, BufferOf
    <2>2. Len(held) = Room(p, f)  BY DEF Room
    <2> QED  BY <2>1, <2>2, LenProperties
  <1>6. /\ st_size[p][f] \in Nat /\ st_blocks[p][f] \in Nat /\ newSize \in Nat /\ off \in Nat
        /\ st_size[p][f] <= MaxSize
    <2>1. st_size[p][f] \in Nat /\ st_blocks[p][f] \in Nat  BY <1>0, FileTypes
    <2>2. Len(data) \in Nat  BY P2PDataAssumption
    <2>3. st_size[p][f] <= MaxSize  BY DEF FileAt, SizesOf
    <2> QED  BY <2>1, <2>2, <2>3
  <1>7. /\ buf \in Seq(Block) /\ Len(buf) = Max(Len(held), newSize)
        /\ newSize > st_blocks[p][f] => Len(buf) = newSize
        /\ newSize <= st_blocks[p][f] => newSize <= Len(held)
    <2>1. off <= Len(held) /\ (Len(held) = st_blocks[p][f] \/ Len(held) <= st_blocks[p][f])
      BY <1>4, <1>5, <1>6
    <2>2. PICK h, b : h = held /\ b = st_blocks[p][f]  OBVIOUS
    <2>3. /\ h \in Seq(Block) /\ off \in Nat /\ off <= Len(h) /\ b \in Nat
          /\ Len(h) = b \/ Len(h) <= b
      BY <1>5, <1>6, <2>1, <2>2
    <2> DEFINE room2 == IF newSize > b THEN Items(h, newSize, Garbage) ELSE h
               buf2  == [i \in DOMAIN room2 |->
                           IF i \in off + 1 .. newSize THEN data[i - off] ELSE room2[i]]
    <2>4. newSize <= Len(room2) =>
             /\ buf2 \in Seq(Block) /\ Len(buf2) = Max(Len(h), newSize)
             /\ newSize > b => Len(buf2) = newSize
             /\ newSize <= b => newSize <= Len(h)
      BY <2>3, WrittenBuffer
    <2>5. room2 = room /\ buf2 = buf  BY <2>2
    <2> HIDE DEF room2, buf2, room, buf, held, newSize
    <2> QED  BY <1>2, <2>2, <2>4, <2>5
  <1> HIDE DEF buf, room, held, newSize
  <1>8. \A q \in Ranks, g \in Inodes :
            /\ q # p \/ g # f => waiting'[q][g] = waiting[q][g]
            /\ m_buf'[q][g] = IF q = p /\ g = f THEN buf ELSE m_buf[q][g]
    <2>1. /\ \A q \in Ranks \ {p} : waiting'[q] = waiting[q]
          /\ \A g \in Inodes \ {f} : waiting'[p][g] = waiting[p][g]
      <3>1. waiting \in PerFile(BOOLEAN)  BY <1>1
      <3>2. /\ \A q \in Ranks \ {p} : [waiting EXCEPT ![p][f] = TRUE][q] = waiting[q]
            /\ \A g \in Inodes \ {f} : [waiting EXCEPT ![p][f] = TRUE][p][g] = waiting[p][g]
        BY <3>1, PerFileAt
      <3> QED  BY <1>2, <3>2
    <2>2. \A q \in Ranks, g \in Inodes :
              [m_buf EXCEPT ![p][f] = buf][q][g] = IF q = p /\ g = f THEN buf ELSE m_buf[q][g]
      <3>1. m_buf \in PerFile(Content \cup {NoBuf})  BY <1>1
      <3> QED  BY <3>1, PerFileSet
    <2> QED  BY <1>2, <2>1, <2>2
  <1> DEFINE size == Max(st_size[p][f], newSize)
             blk  == Max(st_blocks[p][f], newSize)
  <1>9. \A q \in Ranks, g \in Inodes :
            /\ st_size'[q][g] = IF q = p /\ g = f THEN size ELSE st_size[q][g]
            /\ st_blocks'[q][g] = IF q = p /\ g = f THEN blk ELSE st_blocks[q][g]
    <2> HIDE DEF size, blk
    <2>1. \A q \in Ranks, g \in Inodes :
              [st_size EXCEPT ![p][f] = size][q][g] = IF q = p /\ g = f THEN size ELSE st_size[q][g]
      <3>1. st_size \in PerFile(Nat)  BY <1>1
      <3> QED  BY <3>1, PerFileSet
    <2>2. \A q \in Ranks, g \in Inodes :
              [st_blocks EXCEPT ![p][f] = blk][q][g] = IF q = p /\ g = f THEN blk ELSE st_blocks[q][g]
      <3>1. st_blocks \in PerFile(Nat)  BY <1>1
      <3> QED  BY <3>1, PerFileSet
    <2> QED  BY <1>2, <2>1, <2>2 DEF size, blk
  <1>10. ASSUME NEW q \in Ranks, NEW g \in Inodes, q # p \/ g # f PROVE FileAt(q, g)'
    <2>1. (Reading(q, g)' <=> Reading(q, g)) /\ (Writing(q, g)' <=> Writing(q, g))
      BY <1>2 DEF Reading, Writing
    <2>2. /\ waiting'[q][g] = waiting[q][g] /\ m_buf'[q][g] = m_buf[q][g]
          /\ st_size'[q][g] = st_size[q][g] /\ st_blocks'[q][g] = st_blocks[q][g]
      BY <1>8, <1>9, <1>10
    <2> QED  BY <1>2, <2>1, <2>2, FileStays
  <1>11. FileAt(p, f)'
    <2>1. /\ waiting'[p][f] = TRUE /\ m_buf'[p][f] = buf
          /\ st_size'[p][f] = size /\ st_blocks'[p][f] = blk
      <3>1. waiting'[p][f]
        <4>1. waiting \in PerFile(BOOLEAN)  BY <1>1
        <4>2. [waiting EXCEPT ![p][f] = TRUE][p][f]  BY <4>1 DEF PerFile
        <4> QED  BY <1>2, <4>2
      <3>2. waiting'[p][f] = TRUE  BY <3>1
      <3> QED  BY <1>8, <1>9, <3>2
    <2>2. buf # NoBuf  BY <1>7, P2PDataAssumption
    <2>3. Room(p, f)' = Len(buf)  BY <2>1, <2>2 DEF Room
    <2>4. BufferOf(p, f)'  BY <1>2, <1>3, <1>7, <2>1, <2>2 DEF BufferOf, ForWriting
    <2>5. size = Len(buf) /\ size <= MaxSize
      BY <1>2, <1>4, <1>5, <1>6, <1>7, P2PDataAssumption DEF Max
    <2>6. \/ blk = Len(buf)
          \/ Len(buf) <= blk /\ blk = Len(list[p][f]) /\ Len(list[p][f]) > stored[f]
      <3>1. CASE newSize > st_blocks[p][f]
        BY <1>6, <1>7, <3>1 DEF Max
      <3>2. CASE newSize <= st_blocks[p][f]
        <4>1. blk = st_blocks[p][f] /\ Len(buf) = Len(held)
          BY <1>5, <1>6, <1>7, <3>2 DEF Max
        <4> QED  BY <1>4, <1>5, <4>1
      <3>3. newSize > st_blocks[p][f] \/ newSize <= st_blocks[p][f]  BY <1>6
      <3> QED  BY <3>1, <3>2, <3>3
    <2> HIDE DEF size, blk
    <2>7. RoomOf(p, f)'  BY <1>2, <2>1, <2>3, <2>5, <2>6 DEF RoomOf
    <2>8. SizesOf(p, f)'  BY <2>1, <2>5 DEF SizesOf, Clean
    <2> QED  BY <2>4, <2>7, <2>8 DEF FileAt
  <1> QED  BY <1>10, <1>11

\* FuseFlush closes the file, and drops the buffer or starts the write of it.
LEMMA FlushFile ==
    ASSUME TypeInv, \A q \in Ranks, g \in Inodes : FileAt(q, g),
           NEW p \in Ranks, NEW f \in Inodes, FuseFlush(p, f), orderly'
    PROVE  /\ \A q \in Ranks, g \in Inodes : FileAt(q, g)'
           /\ fuse[p].at = "idle" /\ fuse'[p].at \in {"idle", "write"}
           /\ \A q \in Ranks \ {p} : fuse'[q] = fuse[q]
           /\ \A q \in Ranks, g \in Inodes :
                 handle'[q][g] = IF q = p /\ g = f THEN "closed" ELSE handle[q][g]
           /\ Writing(p, f)' => ForWriting(p, f)
           /\ fuse'[p].at = "write" => /\ fuse'[p].ino = f /\ origin' = p /\ Turn(p)
                                       /\ m_buf'[p][f] = m_buf[p][f]
           /\ fuse'[p].at # "write" => origin' = origin
  <1> DEFINE writes == m_buf[p][f] # NoBuf /\ waiting[p][f]
  <1>0. TypeOK /\ fuse \in [Ranks -> FusePlace]  BY DEF TypeInv, Kinds
  <1>1. handle \in PerFile(Modes \cup {"closed"}) /\ m_buf \in PerFile(Content \cup {NoBuf})
    BY <1>0 DEF TypeOK
  <1>2. /\ fuse[p] = At("idle") /\ handle[p][f] # "closed"
        /\ handle' = [handle EXCEPT ![p][f] = "closed"]
        /\ IF writes
             THEN /\ fuse' = [fuse EXCEPT ![p] = Handling("write", f)]
                  /\ UNCHANGED m_buf /\ origin' = p /\ Turn(p)
             ELSE /\ m_buf' = [m_buf EXCEPT ![p][f] = NoBuf]
                  /\ handle[p][f] # "w" /\ UNCHANGED <<fuse, origin>>
        /\ UNCHANGED <<waiting, st_size, st_blocks, list, stored>>
    BY DEF FuseFlush, Idle, buffer, blocks, told, attrs, Comes
  <1>3. \A q \in Ranks, g \in Inodes :
            handle'[q][g] = IF q = p /\ g = f THEN "closed" ELSE handle[q][g]
    <2>1. \A q \in Ranks, g \in Inodes :
              [handle EXCEPT ![p][f] = "closed"][q][g]
              = IF q = p /\ g = f THEN "closed" ELSE handle[q][g]
      <3>1. handle \in PerFile(Modes \cup {"closed"})  BY <1>1
      <3> QED  BY <3>1, PerFileSet
    <2> QED  BY <1>2, <2>1
  <1>4. \A q \in Ranks, g \in Inodes :
            m_buf'[q][g] = IF q = p /\ g = f /\ ~ writes THEN NoBuf ELSE m_buf[q][g]
    <2>1. \A q \in Ranks, g \in Inodes :
              [m_buf EXCEPT ![p][f] = NoBuf][q][g] = IF q = p /\ g = f THEN NoBuf ELSE m_buf[q][g]
      <3>1. m_buf \in PerFile(Content \cup {NoBuf})  BY <1>1
      <3> QED  BY <3>1, PerFileSet
    <2>2. CASE writes  BY <1>2, <2>2
    <2>3. CASE ~ writes
      <3>1. m_buf' = [m_buf EXCEPT ![p][f] = NoBuf]
        <4> HIDE DEF writes
        <4> QED  BY <1>2, <2>3
      <3> HIDE DEF writes
      <3> QED  BY <2>1, <2>3, <3>1
    <2> QED  BY <2>2, <2>3
  <1>5. /\ fuse[p].at = "idle" /\ \A q \in Ranks \ {p} : fuse'[q] = fuse[q]
        /\ writes => fuse'[p].at = "write" /\ fuse'[p].ino = f
        /\ ~ writes => fuse'[p].at = "idle"
    BY <1>0, <1>2 DEF At, Handling
  <1>6. ~ Reading(p, f) /\ ~ Writing(p, f) /\ ~ Reading(p, f)' /\ (Writing(p, f)' <=> writes)
    BY <1>5 DEF Reading, Writing
  <1>7. writes => ForWriting(p, f)  BY DEF FileAt, BufferOf
  <1>8. ASSUME NEW q \in Ranks, NEW g \in Inodes, q # p \/ g # f PROVE FileAt(q, g)'
    <2>1. Reading(q, g)' <=> Reading(q, g)
      <3>1. CASE q = p  BY <1>5, <1>8, <3>1 DEF Reading
      <3>2. CASE q # p  BY <1>5, <3>2 DEF Reading
      <3> QED  BY <3>1, <3>2
    <2>2. Writing(q, g)' <=> Writing(q, g)
      <3>1. CASE q = p  BY <1>5, <1>8, <3>1 DEF Writing
      <3>2. CASE q # p  BY <1>5, <3>2 DEF Writing
      <3> QED  BY <3>1, <3>2
    <2>3. handle'[q][g] = handle[q][g] /\ m_buf'[q][g] = m_buf[q][g]  BY <1>3, <1>4, <1>8
    <2> QED  BY <1>2, <2>1, <2>2, <2>3, FileStays
  <1>9. FileAt(p, f)'
    <2>1. handle'[p][f] = "closed" /\ waiting'[p][f] = waiting[p][f]  BY <1>2, <1>3
    <2>2. CASE writes
      <3>1. m_buf'[p][f] = m_buf[p][f]  BY <1>4, <2>2
      <3>2. BufferOf(p, f)'
        BY <1>6, <2>1, <2>2, <3>1 DEF BufferOf, FileAt, ForWriting
      <3>3. RoomOf(p, f)'  BY <1>2, <1>6, <3>1 DEF RoomOf, FileAt, Room
      <3>4. SizesOf(p, f)'  BY <1>2, <2>1, <2>2 DEF SizesOf, FileAt, Clean
      <3> QED  BY <3>2, <3>3, <3>4 DEF FileAt
    <2>3. CASE ~ writes
      <3>1. m_buf'[p][f] = NoBuf  BY <1>4, <2>3
      <3>2. ~ waiting[p][f]  BY <2>3 DEF FileAt, BufferOf
      <3>3. Clean(p, f)  BY <1>2, <2>3, <3>2 DEF Clean
      <3>4. BufferOf(p, f)'  BY <1>6, <2>1, <2>3, <3>1, <3>2 DEF BufferOf
      <3>5. RoomOf(p, f)'  BY <1>6, <2>1, <2>3 DEF RoomOf
      <3>6. SizesOf(p, f)'  BY <1>2, <3>3 DEF SizesOf, FileAt
      <3> QED  BY <3>4, <3>5, <3>6 DEF FileAt
    <2> QED  BY <2>2, <2>3
  <1>10. \A q \in Ranks, g \in Inodes : FileAt(q, g)'  BY <1>8, <1>9
  <1> QED  BY <1>2, <1>3, <1>4, <1>5, <1>6, <1>7, <1>10

-----------------------------------------------------------------------------
(* Who may have a file open, and what has been scattered.                  *)

\* A file that one process writes is closed at the others.
Exclusive ==
    \A p \in Ranks, f \in Inodes : ForWriting(p, f) =>
        \A q \in Ranks \ {p} : handle[q][f] = "closed"

\* A file that is open at a process has no write to come.
NotBehind(o) ==
    \A q \in Ranks, f \in Inodes : handle[q][f] # "closed" =>
        \A k \in Through(q) + 1 .. Len(calls[o]) :
            ~ (calls[o][k].op = "WRITE" /\ calls[o][k].ino = f)

\* A handler in a collective has scattered its buffer, or the addresses in its list.
Scattering(p) ==
    LET f == fuse[p].ino
    IN  /\ fuse[p].at = "allgather" =>
              Current(p).down = Items(m_buf[p][f], st_size[p][f], Garbage)
        /\ fuse[p].at = "gather" => Current(p).down = Items(list[p][f], st_size[p][f], 0)

\* The inductive invariant, with o the root of what is under way.
DataInv(o) ==
    /\ CarriesBlocks(calls, mem) /\ CarriesReads(calls, mem)
    /\ \A p \in Ranks, f \in Inodes : FileAt(p, f)
    /\ Exclusive /\ NotBehind(o) /\ StoredTold(o)
    /\ \A p \in Ranks : Scattering(p)

\* Where a process is through with all it has entered.
LEMMA ThroughAll ==
    ASSUME TypeInv, NEW p \in Ranks
    PROVE  /\ Len(calls[p]) \in Nat
           /\ "allgather" \notin {fuse[p].at, loop[p].at} => Through(p) = Len(calls[p])
           /\ "allgather" \in {fuse[p].at, loop[p].at} => Through(p) = Len(calls[p]) - 1
  <1>1. Len(calls[p]) \in Nat  BY ChanFacts DEF TypeInv
  <1>2. \A l \in Nat : l - 0 = l  OBVIOUS
  <1>3. CASE "allgather" \in {fuse[p].at, loop[p].at}  BY <1>1, <1>3 DEF Through
  <1>4. CASE "allgather" \notin {fuse[p].at, loop[p].at}  BY <1>1, <1>2, <1>4 DEF Through
  <1> QED  BY <1>1, <1>3, <1>4

\* When users of another process come, it knows as much.
LEMMA TurnData ==
    ASSUME TypeInv, FilesInv, NEW o \in Ranks, o = origin, InOrder(o), DataInv(o),
           NEW p \in Ranks, Turn(p)
    PROVE  DataInv(p)
  <1>1. CASE p = o  BY <1>1
  <1>2. CASE p # o
    <2>1. InOrder(p)  BY TurnStep
    <2>2. /\ Len(calls[p]) \in Nat /\ Len(calls[o]) \in Nat
          /\ Len(calls[p]) <= Len(calls[o]) /\ Len(calls[o]) <= Len(calls[p])
      BY <2>1, Behind
    <2>3. Len(calls[p]) = Len(calls[o])  BY <2>2
    <2>4. \A q \in Ranks : "allgather" \notin {fuse[q].at, loop[q].at}
      BY <1>2 DEF Turn, Quiet, Resting, At
    <2>5. Through(p) = Through(o)  BY <2>3, <2>4, ThroughAll
    <2>6. StoredTold(p)  BY <2>5 DEF StoredTold, DataInv
    <2>7. \A k \in 1 .. Len(calls[o]) : calls[p][k].op = calls[o][k].op
                                        /\ calls[p][k].ino = calls[o][k].ino
      BY <2>3 DEF FilesInv, Sound, Same
    <2>8. ASSUME NEW q \in Ranks, NEW f \in Inodes, handle[q][f] # "closed",
                 NEW k \in Through(q) + 1 .. Len(calls[p])
          PROVE  ~ (calls[p][k].op = "WRITE" /\ calls[p][k].ino = f)
      <3>1. Through(q) \in Nat  BY <2>4, ThroughAll
      <3>2. k \in 1 .. Len(calls[o]) /\ k \in Through(q) + 1 .. Len(calls[o])
        BY <2>2, <2>3, <2>8, <3>1
      <3>3. ~ (calls[o][k].op = "WRITE" /\ calls[o][k].ino = f)
        BY <2>8, <3>2 DEF NotBehind, DataInv
      <3> QED  BY <2>7, <3>2, <3>3
    <2>9. NotBehind(p)  BY <2>8 DEF NotBehind
    <2> QED  BY <2>6, <2>9 DEF DataInv
  <1> QED  BY <1>1, <1>2

\* A step in which nobody enters a pair, and no list or block changes.
LEMMA DataRest ==
    ASSUME NEW o \in Ranks, DataInv(o), UNCHANGED <<calls, mem, list, stored>>,
           \A q \in Ranks : Through(q)' = Through(q),
           \A q \in Ranks, f \in Inodes : FileAt(q, f)', Exclusive', NotBehind(o)',
           \A q \in Ranks : fuse'[q].at \in {"allgather", "gather"} =>
               fuse'[q] = fuse[q] /\ m_buf'[q] = m_buf[q] /\ st_size'[q] = st_size[q]
    PROVE  DataInv(o)'
  <1>1. CarriesBlocks(calls, mem)' /\ CarriesReads(calls, mem)'
    BY DEF DataInv, CarriesBlocks, CarriesReads
  <1>2. StoredTold(o)'  BY DEF DataInv, StoredTold
  <1>3. \A q \in Ranks : Scattering(q)'  BY DEF DataInv, Scattering, Current
  <1> QED  BY <1>1, <1>2, <1>3 DEF DataInv

\* Nobody opens a file either: then Exclusive and NotBehind stay.
LEMMA DataStays ==
    ASSUME NEW o \in Ranks, DataInv(o), UNCHANGED <<calls, mem, list, stored>>,
           \A q \in Ranks : Through(q)' = Through(q),
           \A q \in Ranks, f \in Inodes :
               /\ FileAt(q, f)'
               /\ ForWriting(q, f)' => ForWriting(q, f)
               /\ handle'[q][f] # "closed" => handle[q][f] # "closed",
           \A q \in Ranks : fuse'[q].at \in {"allgather", "gather"} =>
               fuse'[q] = fuse[q] /\ m_buf'[q] = m_buf[q] /\ st_size'[q] = st_size[q]
    PROVE  DataInv(o)'
  <1>1. Exclusive'  BY DEF DataInv, Exclusive
  <1>2. NotBehind(o)'  BY DEF DataInv, NotBehind
  <1> QED  BY <1>1, <1>2, DataRest

\* What users do leaves the data right.
LEMMA OpenData ==
    ASSUME TypeInv, NEW p \in Ranks, InOrder(p), DataInv(p), NEW f \in Inodes, NEW mode \in Modes,
           FuseOpen(p, f, mode), orderly'
    PROVE  DataInv(p)'
  <1>1. /\ \A q \in Ranks, g \in Inodes : FileAt(q, g)'
        /\ fuse[p].at = "idle" /\ fuse'[p].at \in {"idle", "read"}
        /\ \A q \in Ranks \ {p} : fuse'[q] = fuse[q]
        /\ handle[p][f] = "closed" /\ handle'[p][f] = mode
        /\ \A q \in Ranks, g \in Inodes : q # p \/ g # f => handle'[q][g] = handle[q][g]
    BY OpenFile DEF DataInv
  <1>2. /\ UNCHANGED <<calls, mem, list, stored, m_buf, waiting, loop>>
        /\ MayOpen(p, f, mode)
        /\ mode = "w" \/ UNCHANGED st_size
        /\ mode = "w" => st_size' = [st_size EXCEPT ![p][f] = 0]
    BY DEF FuseOpen, blocks, told, buffer, Comes, attrs
  <1>3. \A q \in Ranks : (Rests(q) /\ Rests(q)') \/ q = p  BY <1>1 DEF InOrder, OnlyRoot, Rests
  <1>4. \A q \in Ranks : Through(q)' = Through(q)
    <2> TAKE q \in Ranks
    <2>1. CASE q = p  BY <1>1, <1>2, <2>1 DEF Through
    <2>2. CASE q # p  BY <1>1, <1>2, <2>2 DEF Through
    <2> QED  BY <2>1, <2>2
  <1>5. \A q \in Ranks, g \in Inodes : ~ Writing(q, g) /\ ~ Writing(q, g)'
    BY <1>1, <1>3 DEF Writing, Rests
  <1>6. Exclusive'
    <2> SUFFICES ASSUME NEW q \in Ranks, NEW g \in Inodes, ForWriting(q, g)',
                        NEW r \in Ranks \ {q}
                 PROVE  handle'[r][g] = "closed"
      BY DEF Exclusive
    <2>1. handle'[q][g] \in {"rw", "w"}  BY <1>5 DEF ForWriting
    <2>2. CASE q = p /\ g = f
      <3>1. mode # "r"  BY <1>1, <2>1, <2>2
      <3> QED  BY <1>1, <1>2, <2>2, <3>1 DEF MayOpen
    <2>3. CASE q # p \/ g # f
      <3>1. ForWriting(q, g) /\ handle[q][g] \in {"rw", "w"}  BY <1>1, <2>1, <2>3 DEF ForWriting
      <3>2. handle[r][g] = "closed"  BY <3>1 DEF DataInv, Exclusive
      <3>3. r # p \/ g # f
        <4>1. CASE g = f /\ r = p
          <5>1. handle[q][f] \in {"closed", "r"}  BY <1>2, <4>1 DEF MayOpen
          <5> QED  BY <3>1, <4>1, <5>1
        <4> QED  BY <4>1
      <3> QED  BY <1>1, <3>2, <3>3
    <2> QED  BY <2>2, <2>3
  <1>7. NotBehind(p)'
    <2> SUFFICES ASSUME NEW q \in Ranks, NEW g \in Inodes, handle'[q][g] # "closed",
                        NEW k \in Through(q) + 1 .. Len(calls[p])
                 PROVE  ~ (calls[p][k].op = "WRITE" /\ calls[p][k].ino = g)
      BY <1>2, <1>4 DEF NotBehind
    <2>1. CASE q = p
      <3>1. Through(p) = Len(calls[p]) /\ Len(calls[p]) \in Nat
        BY <1>1, ThroughAll DEF InOrder, OnlyRoot, Alone
      <3> QED  BY <2>1, <3>1
    <2>2. CASE q # p
      <3>1. handle[q][g] # "closed"  BY <1>1, <2>2
      <3> QED  BY <3>1 DEF DataInv, NotBehind
    <2> QED  BY <2>1, <2>2
  <1>8. \A q \in Ranks : fuse'[q].at \in {"allgather", "gather"} =>
            fuse'[q] = fuse[q] /\ m_buf'[q] = m_buf[q] /\ st_size'[q] = st_size[q]
    BY <1>1, <1>3 DEF Rests
  <1> QED  BY <1>1, <1>2, <1>4, <1>6, <1>7, <1>8, DataRest

\* FuseFlush.
LEMMA FlushData ==
    ASSUME TypeInv, NEW o \in Ranks, InOrder(o), DataInv(o), NEW p \in Ranks, NEW f \in Inodes,
           FuseFlush(p, f), orderly'
    PROVE  DataInv(o)'
  <1>1. /\ \A q \in Ranks, g \in Inodes : FileAt(q, g)'
        /\ fuse[p].at = "idle" /\ fuse'[p].at \in {"idle", "write"}
        /\ \A q \in Ranks \ {p} : fuse'[q] = fuse[q]
        /\ \A q \in Ranks, g \in Inodes :
              handle'[q][g] = IF q = p /\ g = f THEN "closed" ELSE handle[q][g]
        /\ Writing(p, f)' => ForWriting(p, f)
        /\ fuse'[p].at = "write" => fuse'[p].ino = f
    BY FlushFile DEF DataInv
  <1>2. /\ UNCHANGED <<calls, mem, list, stored, st_size, loop>>
        /\ m_buf' = m_buf \/ m_buf' = [m_buf EXCEPT ![p][f] = NoBuf]
        /\ m_buf \in PerFile(Content \cup {NoBuf})
    BY DEF FuseFlush, blocks, told, attrs, buffer, TypeInv, TypeOK
  <1>3. \A q \in Ranks : Through(q)' = Through(q)
    <2> TAKE q \in Ranks
    <2>1. CASE q = p  BY <1>1, <1>2, <2>1 DEF Through
    <2>2. CASE q # p  BY <1>1, <1>2, <2>2 DEF Through
    <2> QED  BY <2>1, <2>2
  <1>4. ASSUME NEW q \in Ranks, NEW g \in Inodes
        PROVE  /\ ForWriting(q, g)' => ForWriting(q, g)
               /\ handle'[q][g] # "closed" => handle[q][g] # "closed"
    <2>1. CASE q = p /\ g = f  BY <1>1, <2>1 DEF ForWriting, Writing
    <2>2. CASE q # p  BY <1>1, <2>2 DEF ForWriting, Writing
    <2>3. CASE q = p /\ g # f  BY <1>1, <2>3 DEF ForWriting, Writing
    <2> QED  BY <2>1, <2>2, <2>3
  <1>5. ASSUME NEW q \in Ranks, fuse'[q].at \in {"allgather", "gather"}
        PROVE  fuse'[q] = fuse[q] /\ m_buf'[q] = m_buf[q] /\ st_size'[q] = st_size[q]
    <2>1. q # p /\ fuse'[q] = fuse[q]  BY <1>1, <1>5
    <2> QED  BY <1>2, <2>1 DEF PerFile
  <1> QED  BY <1>1, <1>2, <1>3, <1>4, <1>5, DataStays

\* FuseWrite.
LEMMA WriteData ==
    ASSUME TypeInv, NEW o \in Ranks, DataInv(o), NEW p \in Ranks, NEW f \in Inodes,
           NEW off \in 0 .. st_size[p][f], NEW data \in Payloads, FuseWrite(p, f, off, data),
           fault' # "overflow"
    PROVE  DataInv(o)'
  <1>1. \A q \in Ranks, g \in Inodes : FileAt(q, g)'  BY WriteFile DEF DataInv
  <1>2. /\ fuse[p].at = "idle" /\ UNCHANGED <<calls, mem, list, stored, loop, fuse, handle>>
        /\ \A q \in Ranks \ {p} : m_buf'[q] = m_buf[q] /\ st_size'[q] = st_size[q]
    <2>1. /\ fuse[p].at = "idle" /\ UNCHANGED <<calls, mem, list, stored, loop, fuse, handle>>
          /\ st_size' = [st_size EXCEPT ![p][f] = Max(@, off + Len(data))]
      BY DEF FuseWrite, blocks, told, mpi, Idle, At
    <2>2. \E v : m_buf' = [m_buf EXCEPT ![p][f] = v]
      <3> DEFINE newSize == off + Len(data)
                 held == IF m_buf[p][f] = NoBuf THEN <<>> ELSE m_buf[p][f]
                 room == IF newSize > st_blocks[p][f] THEN Items(held, newSize, Garbage) ELSE held
                 buf  == [i \in DOMAIN room |->
                             IF i \in off + 1 .. newSize THEN data[i - off] ELSE room[i]]
      <3>1. m_buf' = [m_buf EXCEPT ![p][f] = buf]  BY DEF FuseWrite
      <3> QED  BY <3>1
    <2>3. m_buf \in PerFile(Content \cup {NoBuf}) /\ st_size \in PerFile(Nat)
      BY DEF TypeInv, TypeOK
    <2> QED  BY <2>1, <2>2, <2>3 DEF PerFile
  <1>3. \A q \in Ranks : Through(q)' = Through(q)  BY <1>2 DEF Through
  <1>4. \A q \in Ranks, g \in Inodes :
            /\ ForWriting(q, g)' => ForWriting(q, g)
            /\ handle'[q][g] # "closed" => handle[q][g] # "closed"
    BY <1>2 DEF ForWriting, Writing
  <1>5. ASSUME NEW q \in Ranks, fuse'[q].at \in {"allgather", "gather"}
        PROVE  fuse'[q] = fuse[q] /\ m_buf'[q] = m_buf[q] /\ st_size'[q] = st_size[q]
    <2>1. q # p  BY <1>2, <1>5
    <2> QED  BY <1>2, <2>1 DEF PerFile
  <1> QED  BY <1>1, <1>2, <1>3, <1>4, <1>5, DataStays

\* A step in which a process that is in no handler, or has just ended one, does
\* nothing to files.
LEMMA PlaceData ==
    ASSUME TypeInv, NEW o \in Ranks, DataInv(o), NEW p \in Ranks,
           UNCHANGED <<handle, attrs, buffer, blocks, stored, calls>>,
           \A q \in Ranks : fuse'[q] = fuse[q] \/ (Rests(q) /\ Rests(q)'),
           \A q \in Ranks : loop'[q].at = "allgather" <=> loop[q].at = "allgather"
    PROVE  DataInv(o)'
  <1>1. \A q \in Ranks, f \in Inodes :
            (Reading(q, f)' <=> Reading(q, f)) /\ (Writing(q, f)' <=> Writing(q, f))
    BY DEF Reading, Writing, Rests
  <1>2. \A q \in Ranks : Through(q)' = Through(q)  BY DEF Through, Rests
  <1>3. \A q \in Ranks, f \in Inodes : FileAt(q, f)'
    <2> TAKE q \in Ranks, f \in Inodes
    <2>1. FileAt(q, f)  BY DEF DataInv
    <2>2. /\ handle'[q][f] = handle[q][f] /\ waiting'[q][f] = waiting[q][f]
          /\ m_buf'[q][f] = m_buf[q][f] /\ st_size'[q][f] = st_size[q][f]
          /\ st_blocks'[q][f] = st_blocks[q][f] /\ list'[q][f] = list[q][f]
          /\ stored'[f] = stored[f]
      BY DEF attrs, buffer, blocks
    <2> QED  BY <1>1, <2>1, <2>2, FileStays
  <1>4. \A q \in Ranks, f \in Inodes :
            /\ ForWriting(q, f)' => ForWriting(q, f)
            /\ handle'[q][f] # "closed" => handle[q][f] # "closed"
    BY <1>1 DEF ForWriting
  <1>5. \A q \in Ranks : fuse'[q].at \in {"allgather", "gather"} =>
            fuse'[q] = fuse[q] /\ m_buf'[q] = m_buf[q] /\ st_size'[q] = st_size[q]
    BY DEF Rests, attrs, buffer
  <1> QED  BY <1>2, <1>3, <1>4, <1>5, DataStays DEF blocks

-----------------------------------------------------------------------------
(* A process enters a pair.                                                *)

\* A buffer of the length asked for is taken as it is.
LEMMA ItemsWhole ==
    ASSUME NEW S, NEW s \in Seq(S), NEW n, n = Len(s), NEW beyond
    PROVE  Items(s, n, beyond) = s
  <1>1. Len(s) \in Nat /\ s = [i \in 1 .. Len(s) |-> s[i]]  OBVIOUS
  <1>2. [i \in 1 .. Len(s) |-> IF i <= Len(s) THEN s[i] ELSE beyond]
        = [i \in 1 .. Len(s) |-> s[i]]
    BY <1>1
  <1> QED  BY <1>1, <1>2 DEF Items

\* Blocks are allocated behind those a process has.
LEMMA Allocates ==
    ASSUME NEW m \in [Ranks -> Seq(Block)], NEW p \in Ranks, NEW own \in Seq(Block),
           NEW m2, m2 = [m EXCEPT ![p] = @ \o own]
    PROVE  m2 \in [Ranks -> Seq(Block)] /\ Extends(m2, m)
  <1>1. \A q \in Ranks : m[q] \in Seq(Block) /\ Len(m[q]) \in Nat  OBVIOUS
  <1>2. /\ m[p] \o own \in Seq(Block) /\ Len(m[p]) <= Len(m[p] \o own)
        /\ \A a \in 1 .. Len(m[p]) : (m[p] \o own)[a] = m[p][a]
    BY <1>1
  <1>3. m2[p] = m[p] \o own /\ \A q \in Ranks \ {p} : m2[q] = m[q]  OBVIOUS
  <1>4. m2 \in [Ranks -> Seq(Block)]  BY <1>2
  <1>5. ASSUME NEW q \in Ranks
        PROVE  Len(m[q]) <= Len(m2[q]) /\ \A a \in 1 .. Len(m[q]) : m2[q][a] = m[q][a]
    <2>1. CASE q = p  BY <1>2, <1>3, <2>1
    <2>2. CASE q # p
      <3>1. m2[q] = m[q] /\ Len(m[q]) \in Nat  BY <1>1, <1>3, <2>2
      <3> QED  BY <3>1
    <2> QED  BY <2>1, <2>2
  <1> QED  BY <1>4, <1>5 DEF Extends

\* A pair that is entered carries blocks, or asks for and answers with what is in memory.
LEMMA EnterCarries ==
    ASSUME TypeInv, Sound(calls), Sound(calls'), CarriesBlocks(calls, mem), CarriesReads(calls, mem),
           NEW p \in Ranks, NEW e \in Entry, Enter(p, e), e.n <= MaxSize,
           mem' = mem \/ \E own \in Seq(Block) : mem' = [mem EXCEPT ![p] = @ \o own],
           e.op = "WRITE" /\ e.root = p => e.down \in Seq(Block),
           e.op = "READ" => mem' = mem /\ AnswersFor(mem, p, e, calls'[e.root][NextCall(p)].down),
           e.op = "READ" /\ e.root = p => AsksForBlocks(mem, e)
    PROVE  CarriesBlocks(calls', mem') /\ CarriesReads(calls', mem')
  <1>1. PICK d, m2 : d = calls' /\ m2 = mem'  OBVIOUS
  <1>2. /\ \A q \in Ranks \ {p} : d[q] = calls[q]
        /\ Len(d[p]) = Len(calls[p]) + 1 /\ d[p][Len(calls[p]) + 1] = e
        /\ \A k \in 1 .. Len(calls[p]) : d[p][k] = calls[p][k]
    <2>1. Kinds  BY DEF TypeInv
    <2> QED  BY <1>1, <2>1, RootEnters
  <1>3. mem \in [Ranks -> Seq(Block)]  BY DEF CarriesBlocks
  <1>4. m2 \in [Ranks -> Seq(Block)] /\ Extends(m2, mem)
    <2>1. CASE mem' = mem
      <3>1. \A q \in Ranks : Len(mem[q]) \in Nat  BY <1>3
      <3>2. \A a \in Nat : a <= a  OBVIOUS
      <3> QED  BY <1>1, <1>3, <2>1, <3>1, <3>2 DEF Extends
    <2>2. CASE \E own \in Seq(Block) : mem' = [mem EXCEPT ![p] = @ \o own]
      <3>1. PICK own \in Seq(Block) : m2 = [mem EXCEPT ![p] = @ \o own]  BY <1>1, <2>2
      <3> QED  BY <1>3, <3>1, Allocates
    <2> QED  BY <2>1, <2>2
  <1>5. CarriesBlocks(calls, m2) /\ CarriesReads(calls, m2)  BY <1>3, <1>4, CarriesStay
  <1>6. /\ Sound(d)
        /\ e.op = "READ" /\ e.root = p => AsksForBlocks(m2, e)
        /\ e.op = "READ" => AnswersFor(m2, p, e, d[e.root][Len(calls[p]) + 1].down)
    BY <1>1 DEF NextCall
  <1>7. CarriesBlocks(d, m2) /\ CarriesReads(d, m2)  BY <1>2, <1>5, <1>6, CarriesEnter
  <1> QED  BY <1>1, <1>7

\* The invariant after a process has entered a pair.
LEMMA EnterData ==
    ASSUME TypeInv, FilesInv, Sound(calls'), NEW o \in Ranks, InOrder(o), DataInv(o),
           NEW p \in Ranks, NEW e \in Entry, Enter(p, e), e.n <= MaxSize,
           mem' = mem \/ \E own \in Seq(Block) : mem' = [mem EXCEPT ![p] = @ \o own],
           e.op = "WRITE" /\ e.root = p => e.down \in Seq(Block),
           e.op = "READ" => mem' = mem /\ AnswersFor(mem, p, e, calls'[e.root][NextCall(p)].down),
           e.op = "READ" /\ e.root = p => AsksForBlocks(mem, e),
           UNCHANGED <<list, stored, handle, attrs, buffer>>,
           \A q \in Ranks \ {p} : fuse'[q] = fuse[q] /\ loop'[q] = loop[q],
           "allgather" \notin {fuse[p].at, loop[p].at},
           e.op = "WRITE" <=> "allgather" \in {fuse'[p].at, loop'[p].at},
           \A f \in Inodes : (Reading(p, f)' <=> Reading(p, f)) /\ (Writing(p, f)' <=> Writing(p, f)),
           p = o /\ e.op = "WRITE" => Writing(p, e.ino),
           p = o => Scattering(p)',
           p # o => fuse'[p] = fuse[p]
    PROVE  DataInv(o)'
  <1>1. CarriesBlocks(calls, mem)' /\ CarriesReads(calls, mem)'
    <2>1. Sound(calls) /\ CarriesBlocks(calls, mem) /\ CarriesReads(calls, mem)
      BY DEF FilesInv, DataInv
    <2> QED  BY <2>1, EnterCarries
  <1>2. /\ \A q \in Ranks \ {p} : calls'[q] = calls[q]
        /\ Len(calls'[p]) = Len(calls[p]) + 1 /\ calls'[p][Len(calls[p]) + 1] = e
        /\ \A k \in 1 .. Len(calls[p]) : calls'[p][k] = calls[p][k]
        /\ \A q \in Ranks : Len(calls[q]) \in Nat
    <2>1. Kinds  BY DEF TypeInv
    <2>2. \A q \in Ranks : Len(calls[q]) \in Nat  BY <2>1, ChanFacts
    <2> QED  BY <2>1, <2>2, RootEnters
  <1>3. CallsGrow
    <2> SUFFICES ASSUME NEW q \in Ranks
                 PROVE  /\ Len(calls[q]) <= Len(calls'[q])
                        /\ \A k \in 1 .. Len(calls[q]) : calls'[q][k] = calls[q][k]
      BY DEF CallsGrow
    <2>1. CASE q = p  BY <1>2, <2>1
    <2>2. CASE q # p
      <3>1. calls'[q] = calls[q] /\ Len(calls[q]) \in Nat  BY <1>2, <2>2
      <3> QED  BY <3>1
    <2> QED  BY <2>1, <2>2
  <1>4. \A q \in Ranks \ {p} : Through(q)' = Through(q)  BY <1>2 DEF Through
  <1>5. /\ Through(p) = Len(calls[p]) /\ Through(p) \in Nat
        /\ e.op = "WRITE" => Through(p)' = Through(p)
        /\ e.op # "WRITE" => Through(p)' = Through(p) + 1
    <2>1. Through(p) = Len(calls[p]) /\ Len(calls[p]) \in Nat  BY <1>2, ThroughAll
    <2>2. e.op = "WRITE" => Through(p)' = Len(calls'[p]) - 1  BY DEF Through
    <2>3. e.op # "WRITE" => Through(p)' = Len(calls'[p]) - 0  BY DEF Through
    <2> QED  BY <1>2, <2>1, <2>2, <2>3
  <1>6. StoredTold(o)'
    <2>1. \/ Through(o)' = Through(o)
          \/ /\ Through(o) \in Nat /\ Through(o)' = Through(o) + 1
             /\ Through(o)' \in 1 .. Len(calls'[o]) /\ calls'[o][Through(o)'].op # "WRITE"
      <3>1. CASE o # p \/ e.op = "WRITE"  BY <1>4, <1>5, <3>1
      <3>2. CASE o = p /\ e.op # "WRITE"  BY <1>2, <1>5, <3>2
      <3> QED  BY <3>1, <3>2
    <2>2. StoredTold(o) /\ stored' = stored  BY DEF DataInv
    <2> QED  BY <1>3, <2>1, <2>2, ToldStays
  <1>7. \A q \in Ranks, f \in Inodes :
            (Reading(q, f)' <=> Reading(q, f)) /\ (Writing(q, f)' <=> Writing(q, f))
    <2> TAKE q \in Ranks, f \in Inodes
    <2>1. CASE q = p  BY <2>1
    <2>2. CASE q # p  BY <2>2 DEF Reading, Writing
    <2> QED  BY <2>1, <2>2
  <1>8. \A q \in Ranks, f \in Inodes : FileAt(q, f)'
    <2> TAKE q \in Ranks, f \in Inodes
    <2>1. FileAt(q, f)  BY DEF DataInv
    <2>2. /\ handle'[q][f] = handle[q][f] /\ waiting'[q][f] = waiting[q][f]
          /\ m_buf'[q][f] = m_buf[q][f] /\ st_size'[q][f] = st_size[q][f]
          /\ st_blocks'[q][f] = st_blocks[q][f] /\ list'[q][f] = list[q][f]
          /\ stored'[f] = stored[f]
      BY DEF attrs, buffer
    <2> QED  BY <1>7, <2>1, <2>2, FileStays
  <1>9. Exclusive'  BY <1>7 DEF DataInv, Exclusive, ForWriting
  <1>10. NotBehind(o)'
    <2> SUFFICES ASSUME NEW q \in Ranks, NEW f \in Inodes, handle[q][f] # "closed",
                        NEW k \in Through(q)' + 1 .. Len(calls'[o])
                 PROVE  ~ (calls'[o][k].op = "WRITE" /\ calls'[o][k].ino = f)
      BY DEF NotBehind
    <2>1. Through(q) \in Nat /\ Through(q)' \in Nat /\ Through(q) <= Through(q)'
      <3>1. Through(q) \in Nat  BY AppliedThrough
      <3>2. CASE q = p  BY <1>5, <3>2
      <3>3. CASE q # p  BY <1>4, <3>1, <3>3
      <3> QED  BY <3>1, <3>2, <3>3
    <2>2. \A i \in Through(q) + 1 .. Len(calls[o]) : ~ (calls[o][i].op = "WRITE" /\ calls[o][i].ino = f)
      BY DEF DataInv, NotBehind
    <2>3. CASE k \in Through(q) + 1 .. Len(calls[o])
      <3>1. k \in 1 .. Len(calls[o])  BY <2>1, <2>3
      <3>2. calls'[o][k] = calls[o][k]  BY <1>3, <3>1 DEF CallsGrow
      <3> QED  BY <2>2, <2>3, <3>2
    <2>4. CASE k \notin Through(q) + 1 .. Len(calls[o])
      <3>1. o = p /\ k = Len(calls[p]) + 1
        <4>1. Len(calls[o]) \in Nat  BY <1>2
        <4>2. CASE o = p  BY <1>2, <2>1, <2>4, <4>1, <4>2
        <4>3. CASE o # p
          <5>1. k \in Through(q)' + 1 .. Len(calls[o])  BY <1>2, <4>3
          <5> QED  BY <2>1, <2>4, <4>1, <5>1
        <4> QED  BY <4>2, <4>3
      <3>2. calls'[o][k] = e  BY <1>2, <3>1
      <3>3. ASSUME e.op = "WRITE" PROVE e.ino # f
        <4>1. Writing(o, e.ino) /\ e.ino \in Inodes  BY <3>1, <3>3, EntryFacts
        <4>2. handle[o][e.ino] = "closed"  BY <4>1 DEF DataInv, FileAt, BufferOf
        <4>3. \A r \in Ranks \ {o} : handle[r][e.ino] = "closed"
          BY <4>1 DEF DataInv, Exclusive, ForWriting
        <4> QED  BY <4>2, <4>3
      <3> QED  BY <3>2, <3>3
    <2> QED  BY <2>3, <2>4
  <1>11. ASSUME NEW q \in Ranks PROVE Scattering(q)'
    <2>1. CASE q = o
      <3>1. CASE q = p  BY <2>1, <3>1
      <3>2. CASE q # p  BY <1>2, <2>1, <3>2 DEF DataInv, Scattering, Current, attrs, buffer
      <3> QED  BY <3>1, <3>2
    <2>2. CASE q # o
      <3>1. Rests(q) /\ fuse'[q] = fuse[q]  BY <2>2 DEF InOrder, OnlyRoot
      <3> QED  BY <3>1 DEF Scattering, Rests
    <2> QED  BY <2>1, <2>2
  <1> QED  BY <1>1, <1>6, <1>8, <1>9, <1>10, <1>11 DEF DataInv

\* The root scatters its buffer.
LEMMA RootWriteData ==
    ASSUME TypeInv, NEW o \in Ranks, InOrder(o), FilesInv, FilesInv', DataInv(o),
           NEW p \in Ranks, RootWrite(p)
    PROVE  DataInv(o)'
  <1> DEFINE f   == fuse[p].ino
             n   == st_size[p][f]
             buf == Items(m_buf[p][f], n, Garbage)
             own == Share(buf, n, p)
             e   == Call("WRITE", p, f, n, buf, NewAddresses(p, own))
  <1>1. /\ fuse[p].at = "write" /\ Enter(p, e) /\ mem' = [mem EXCEPT ![p] = @ \o own]
        /\ fuse' = [fuse EXCEPT ![p] = Handling("allgather", f)]
        /\ UNCHANGED <<list, stored, handle, attrs, buffer, loop>>
    BY Zenon DEF RootWrite, told, users
  <1>2. p = o  BY <1>1, InHandler DEF Rests
  <1>3. loop[p].at # "allgather"  BY <1>2 DEF InOrder, OnlyRoot, Alone
  <1>4. f \in Inodes /\ n \in Nat /\ m_buf[p][f] # NoBuf
    BY Zenon, <1>1, RootFacts DEF TypeInv, Buffered
  <1>5. Writing(p, f) /\ FileAt(p, f)  BY <1>1, <1>4 DEF Writing, DataInv
  <1>6. m_buf[p][f] \in Seq(Block) /\ n = Len(m_buf[p][f]) /\ n <= MaxSize
    BY <1>4, <1>5 DEF FileAt, BufferOf, RoomOf, SizesOf, Room
  <1>7. buf = m_buf[p][f]
    <2> HIDE DEF f, n
    <2> QED  BY <1>6, ItemsWhole
  <1>8. buf \in Seq(Block) /\ n = Len(buf)  BY <1>6, <1>7
  <1> HIDE DEF n, buf
  <1>9. own \in Seq(Block)  BY <1>8, ShareOfItems
  <1>10. own \in Content /\ buf \in Content
    <2>1. Seq(Block) \subseteq Seq(Block \cup {Garbage})  OBVIOUS
    <2> QED  BY <1>8, <1>9, <2>1 DEF Content
  <1> HIDE DEF f, own
  <1>11. NewAddresses(p, own) \in Seq(Nat)  BY <1>10, NewAddressesType DEF TypeInv
  <1>12. e \in Entry /\ e.op = "WRITE" /\ e.root = p /\ e.ino = f /\ e.n = n /\ e.down = buf
    BY <1>4, <1>10, <1>11 DEF Call, Entry
  <1> HIDE DEF e
  <1>13. /\ fuse'[p] = Handling("allgather", f) /\ \A q \in Ranks \ {p} : fuse'[q] = fuse[q]
         /\ fuse'[p].at = "allgather" /\ fuse'[p].ino = f
    BY <1>1 DEF TypeInv, Kinds, Handling
  <1>14. \A g \in Inodes : (Reading(p, g)' <=> Reading(p, g)) /\ (Writing(p, g)' <=> Writing(p, g))
    BY <1>1, <1>13 DEF Reading, Writing, f
  <1>15. Scattering(p)'
    <2>1. Current(p)' = e
      <3>1. Kinds  BY DEF TypeInv
      <3> QED  BY <1>1, <1>12, <3>1, RootEnters DEF Current
    <2>2. m_buf'[p][f] = m_buf[p][f] /\ st_size'[p][f] = n  BY <1>1 DEF attrs, buffer, n
    <2> QED  BY <1>12, <1>13, <2>1, <2>2 DEF Scattering, buf
  <1>16. mem' = mem \/ \E w \in Seq(Block) : mem' = [mem EXCEPT ![p] = @ \o w]
    BY <1>1, <1>9
  <1>17. /\ "allgather" \notin {fuse[p].at, loop[p].at}
         /\ e.op = "WRITE" <=> "allgather" \in {fuse'[p].at, loop'[p].at}
         /\ \A q \in Ranks \ {p} : fuse'[q] = fuse[q] /\ loop'[q] = loop[q]
         /\ Sound(calls')
    BY <1>1, <1>3, <1>12, <1>13 DEF FilesInv
  <1> QED  BY <1>1, <1>2, <1>5, <1>6, <1>8, <1>12, <1>14, <1>15, <1>16, <1>17, EnterData

\* The addresses of a process whose users came last are those of the blocks.
LEMMA RootAddresses ==
    ASSUME TypeInv, FilesInv, NEW o \in Ranks, InOrder(o), DataInv(o), fuse[o].at \in {"read", "gather"}
    PROVE  LET f == fuse[o].ino
           IN  /\ f \in Inodes /\ Reading(o, f) /\ Clean(o, f) /\ FileAt(o, f)
               /\ st_size[o][f] = stored[f] /\ stored[f] \in Nat /\ stored[f] <= Len(list[o][f])
               /\ Len(list[o][f]) \in Nat /\ list[o][f] \in Seq(Nat)
               /\ \A i \in 1 .. stored[f] : list[o][f][i] \in 1 .. Len(mem[Owner(stored[f], i)])
  <1> DEFINE f == fuse[o].ino
  <1>1. f \in Inodes /\ list[o][f] \in Seq(Nat)  BY RootFacts
  <1>2. Reading(o, f)  BY DEF Reading
  <1>3. FileAt(o, f) /\ StoredTold(o)  BY <1>1 DEF DataInv
  <1> HIDE DEF f
  <1>4. Clean(o, f)  BY <1>2, <1>3 DEF FileAt, BufferOf, Clean
  <1>5. /\ st_size[o][f] = stored[f] /\ stored[f] \in Nat /\ stored[f] <= Len(list[o][f])
        /\ \A i \in 1 .. stored[f] : list[o][f][i] \in 1 .. Len(mem[Owner(stored[f], i)])
    BY <1>1, <1>3, <1>4, StoredFacts
  <1>6. Len(list[o][f]) \in Nat  BY <1>1
  <1> QED  BY <1>1, <1>2, <1>3, <1>4, <1>5, <1>6 DEF f

\* The root scatters these addresses; a file that is empty has no buffer.
LEMMA RootReadData ==
    ASSUME TypeInv, NEW o \in Ranks, InOrder(o), FilesInv, FilesInv', DataInv(o),
           NEW p \in Ranks, RootRead(p)
    PROVE  DataInv(o)'
  <1> DEFINE f         == fuse[p].ino
             n         == st_size[p][f]
             addresses == Items(list[p][f], n, 0)
             own       == FetchAll(p, Share(addresses, n, p))
             e         == Call("READ", p, f, n, addresses, own)
  <1>1. /\ fuse[p].at = "read"
        /\ UNCHANGED <<list, stored, handle, mem, attrs, waiting, loop>>
    BY DEF RootRead, users, blocks
  <1>2. p = o  BY <1>1, InHandler DEF Rests
  <1>3. loop[p].at # "allgather"  BY <1>2 DEF InOrder, OnlyRoot, Alone
  <1>4. /\ f \in Inodes /\ Reading(o, f) /\ Clean(o, f) /\ FileAt(o, f)
        /\ n = stored[f] /\ stored[f] \in Nat /\ stored[f] <= Len(list[o][f])
        /\ Len(list[o][f]) \in Nat /\ list[o][f] \in Seq(Nat)
        /\ \A i \in 1 .. n : list[o][f][i] \in 1 .. Len(mem[Owner(n, i)])
    BY <1>1, <1>2, RootAddresses
  <1>5. CASE n = 0
    <2>1. /\ m_buf' = [m_buf EXCEPT ![p][f] = NoBuf] /\ fuse' = [fuse EXCEPT ![p] = At("idle")]
          /\ UNCHANGED calls
      BY <1>5 DEF RootRead
    <2>2. fuse'[p].at = "idle" /\ \A q \in Ranks \ {p} : fuse'[q] = fuse[q]
      BY <2>1 DEF TypeInv, Kinds, At
    <2>3. m_buf \in PerFile(Content \cup {NoBuf})  BY DEF TypeInv, TypeOK
    <2>0. PICK h \in Inodes : h = f  BY <1>4
    <2> HIDE DEF f
    <2>4. \A q \in Ranks, g \in Inodes :
              m_buf'[q][g] = IF q = p /\ g = h THEN NoBuf ELSE m_buf[q][g]
      <3>1. \A q \in Ranks, g \in Inodes :
                [m_buf EXCEPT ![p][h] = NoBuf][q][g] = IF q = p /\ g = h THEN NoBuf ELSE m_buf[q][g]
        BY <2>3, PerFileSet
      <3> QED  BY <2>0, <2>1, <3>1
    <2>5. \A q \in Ranks : Through(q)' = Through(q)
      <3> TAKE q \in Ranks
      <3>1. CASE q = p  BY <1>1, <2>1, <2>2, <3>1 DEF Through
      <3>2. CASE q # p  BY <1>1, <2>1, <2>2, <3>2 DEF Through
      <3> QED  BY <3>1, <3>2
    <2>6. ASSUME NEW q \in Ranks, NEW g \in Inodes, q # p \/ g # h PROVE FileAt(q, g)'
      <3>1. (Reading(q, g)' <=> Reading(q, g)) /\ (Writing(q, g)' <=> Writing(q, g))
        <4>1. CASE q = p  BY <1>1, <2>0, <2>2, <2>6, <4>1 DEF Reading, Writing, f
        <4>2. CASE q # p  BY <2>2, <4>2 DEF Reading, Writing
        <4> QED  BY <4>1, <4>2
      <3>2. /\ handle'[q][g] = handle[q][g] /\ waiting'[q][g] = waiting[q][g]
            /\ m_buf'[q][g] = m_buf[q][g] /\ st_size'[q][g] = st_size[q][g]
            /\ st_blocks'[q][g] = st_blocks[q][g] /\ list'[q][g] = list[q][g]
            /\ stored'[g] = stored[g]
        BY <1>1, <2>4, <2>6 DEF attrs
      <3>3. FileAt(q, g)  BY DEF DataInv
      <3> QED  BY <3>1, <3>2, <3>3, FileStays
    <2>7. FileAt(p, h)'
      <3>0. /\ Reading(p, h) /\ Clean(p, h) /\ FileAt(p, h)
            /\ stored[h] = 0 /\ Len(list[p][h]) \in Nat
        BY <1>2, <1>4, <1>5, <2>0
      <3>1. /\ m_buf'[p][h] = NoBuf /\ handle'[p][h] = handle[p][h] /\ waiting'[p][h] = waiting[p][h]
            /\ st_size'[p][h] = st_size[p][h] /\ st_blocks'[p][h] = st_blocks[p][h]
            /\ list'[p][h] = list[p][h] /\ stored'[h] = stored[h]
        BY <1>1, <2>4 DEF attrs
      <3>2. /\ ~ Reading(p, h)' /\ ~ Writing(p, h)'
            /\ handle[p][h] \in {"r", "rw"} /\ ~ waiting[p][h]
        BY <2>2, <3>0 DEF Reading, Writing, FileAt, BufferOf
      <3>3. BufferOf(p, h)'  BY <3>1, <3>2 DEF BufferOf
      <3>4. st_size[p][h] = 0  BY <1>5, <2>0 DEF n
      <3>5. RoomOf(p, h)'
        <4>1. st_blocks[p][h] \in {0, Len(list[p][h])}
          BY <3>0, <3>4 DEF FileAt, SizesOf
        <4>2. Room(p, h)' = 0  BY <3>1 DEF Room
        <4>3. Len(list[p][h]) = 0 \/ (0 <= Len(list[p][h]) /\ Len(list[p][h]) > stored[h])
          BY <3>0
        <4> QED  BY <3>1, <3>4, <4>1, <4>2, <4>3 DEF RoomOf
      <3>6. SizesOf(p, h)'  BY <3>0, <3>1 DEF SizesOf, FileAt, Clean
      <3> QED  BY <3>3, <3>5, <3>6 DEF FileAt
    <2>8. ASSUME NEW q \in Ranks, fuse'[q].at \in {"allgather", "gather"}
          PROVE  fuse'[q] = fuse[q] /\ m_buf'[q] = m_buf[q] /\ st_size'[q] = st_size[q]
      <3>1. q # p  BY <2>2, <2>8
      <3> QED  BY <1>1, <2>1, <2>2, <2>3, <3>1 DEF attrs, PerFile
    <2>9. \A q \in Ranks, g \in Inodes :
              /\ ForWriting(q, g)' => ForWriting(q, g)
              /\ handle'[q][g] # "closed" => handle[q][g] # "closed"
      <3> TAKE q \in Ranks, g \in Inodes
      <3>1. Writing(q, g)' => Writing(q, g)
        <4>1. CASE q = p  BY <2>2, <4>1 DEF Writing
        <4>2. CASE q # p  BY <2>2, <4>2 DEF Writing
        <4> QED  BY <4>1, <4>2
      <3> QED  BY <1>1, <3>1 DEF ForWriting
    <2> QED  BY <1>1, <2>1, <2>5, <2>6, <2>7, <2>8, <2>9, DataStays
  <1>6. CASE n # 0
    <2>1. /\ Enter(p, e) /\ fuse' = [fuse EXCEPT ![p] = Handling("gather", f)] /\ UNCHANGED m_buf
      BY <1>6 DEF RootRead
    <2>2. n <= MaxSize /\ n \in Nat  BY <1>2, <1>4 DEF FileAt, SizesOf
    <2>3. addresses \in Seq(Nat) /\ Len(addresses) = n
      <3>1. 0 \in Nat  OBVIOUS
      <3> HIDE DEF f, n
      <3> QED  BY <1>2, <1>4, <2>2, <3>1, ItemsType
    <2>4. \A i \in 1 .. n : addresses[i] = list[p][f][i]
      <3> HIDE DEF f, n
      <3>1. \A i \in 1 .. n : i <= Len(list[p][f])  BY <1>2, <1>4
      <3> QED  BY <3>1 DEF Items
    <2> HIDE DEF n, addresses
    <2>5. Share(addresses, n, p) \in Seq(Nat) /\ Len(Share(addresses, n, p)) = Count(n, p)
      BY <2>2, <2>3, ShareOfItems
    <2>6. own \in Content  BY <2>5, FetchAllType DEF TypeInv
    <2>7. ASSUME NEW j \in 1 .. Count(n, p) PROVE own[j] = mem[p][addresses[Displ(n, p) + j]]
      <3>1. Displ(n, p) + j \in 1 .. n /\ Owner(n, Displ(n, p) + j) = p  BY <2>2, OwnerIsUnique
      <3>2. addresses[Displ(n, p) + j] \in 1 .. Len(mem[p])  BY <1>2, <1>4, <2>4, <3>1
      <3>3. own[j] = Fetch(p, Share(addresses, n, p)[j])  BY <2>5 DEF FetchAll
      <3>4. Share(addresses, n, p)[j] = addresses[Displ(n, p) + j]  BY DEF Share
      <3> QED  BY <3>2, <3>3, <3>4 DEF Fetch
    <2> HIDE DEF f, own
    <2>8. /\ e \in Entry /\ e.op = "READ" /\ e.root = p /\ e.ino = f /\ e.n = n
          /\ e.down = addresses /\ e.up = own
      BY <1>4, <2>2, <2>3, <2>6 DEF Call, Entry
    <2> HIDE DEF e
    <2>9. /\ fuse'[p].at = "gather" /\ fuse'[p].ino = f
          /\ \A q \in Ranks \ {p} : fuse'[q] = fuse[q]
      BY <2>1 DEF TypeInv, Kinds, Handling
    <2>10. \A g \in Inodes :
              (Reading(p, g)' <=> Reading(p, g)) /\ (Writing(p, g)' <=> Writing(p, g))
      BY <1>1, <2>9 DEF Reading, Writing, f
    <2>11. calls'[p][NextCall(p)] = e /\ Current(p)' = e
      <3>1. Kinds  BY DEF TypeInv
      <3> QED  BY <2>1, <2>8, <3>1, RootEnters DEF Current, NextCall
    <2>12. Scattering(p)'
      <3>1. list'[p][f] = list[p][f] /\ st_size'[p][f] = n  BY <1>1 DEF attrs, n, f
      <3> QED  BY <2>8, <2>9, <2>11, <3>1 DEF Scattering, addresses
    <2>13. AsksForBlocks(mem, e)  BY <1>2, <1>4, <2>4, <2>8 DEF AsksForBlocks
    <2>14. AnswersFor(mem, p, e, calls'[e.root][NextCall(p)].down)
      BY <2>7, <2>8, <2>11 DEF AnswersFor
    <2>15. /\ "allgather" \notin {fuse[p].at, loop[p].at}
           /\ e.op = "WRITE" <=> "allgather" \in {fuse'[p].at, loop'[p].at}
           /\ \A q \in Ranks \ {p} : fuse'[q] = fuse[q] /\ loop'[q] = loop[q]
           /\ Sound(calls') /\ UNCHANGED buffer /\ e.op # "WRITE"
      BY <1>1, <1>3, <2>1, <2>8, <2>9 DEF FilesInv, buffer
    <2> QED  BY <1>1, <1>2, <2>1, <2>2, <2>8, <2>10, <2>12, <2>13, <2>14, <2>15, EnterData
  <1> QED  BY <1>5, <1>6

\* What the root of a read has gathered: the blocks at the addresses it keeps.
LEMMA GathersBlocks ==
    ASSUME TypeInv, FilesInv, NEW o \in Ranks, InOrder(o), DataInv(o),
           fuse[o].at = "gather", AllIn(o)
    PROVE  LET f == fuse[o].ino
           IN  /\ Gathered(o)
                    = [i \in 1 .. stored[f] |-> mem[Owner(stored[f], i)][list[o][f][i]]]
               /\ Gathered(o) \in Seq(Block) /\ Len(Gathered(o)) = stored[f]
  <1> DEFINE f == fuse[o].ino
             n == stored[f]
             k == Len(calls[o])
             blk(i) == mem[Owner(n, i)][list[o][f][i]]
  <1>1. /\ f \in Inodes /\ st_size[o][f] = n /\ n \in Nat /\ n <= Len(list[o][f])
        /\ Len(list[o][f]) \in Nat
        /\ \A i \in 1 .. n : list[o][f][i] \in 1 .. Len(mem[Owner(n, i)])
    BY RootAddresses
  <1>2. /\ Current(o).op = "READ" /\ Current(o).root = o /\ Current(o).n = n
        /\ k \in 1 .. Len(calls[o]) /\ Current(o) = calls[o][k]
    <2>1. /\ Current(o).root = o /\ Current(o).n = st_size[o][f]  BY DEF FilesInv, OfItsFile
    <2>2. calls[o] # <<>> /\ Current(o).op = "READ"  BY DEF TypeInv, Entered
    <2>3. calls[o] \in Seq(Entry)  BY DEF TypeInv, Kinds
    <2>4. k \in 1 .. Len(calls[o])  BY <2>2, <2>3
    <2> QED  BY <1>1, <2>1, <2>2, <2>4 DEF Current
  <1>3. Current(o).down = Items(list[o][f], n, 0)
    BY <1>1 DEF DataInv, Scattering
  <1>4. Gathered(o) = [i \in 1 .. n |-> mem[Owner(n, i)][Current(o).down[i]]]
    <2>1. HaveEntered(calls, k, n)  BY <1>2 DEF AllIn, HaveEntered
    <2>2. Gathered(o) = GatheredAt(calls, k, n)  BY <1>2 DEF Gathered, GatheredAt
    <2>3. Sound(calls) /\ CarriesReads(calls, mem)  BY DEF FilesInv, DataInv
    <2> HIDE DEF n, k
    <2>4. /\ calls[o][k].op = "READ" /\ calls[o][k].root = o /\ calls[o][k].n = n
          /\ k \in 1 .. Len(calls[o]) /\ HaveEntered(calls, k, calls[o][k].n)
      BY <1>2, <2>1
    <2>5. \A i \in 1 .. calls[o][k].n :
              GatheredAt(calls, k, calls[o][k].n)[i]
              = mem[Owner(calls[o][k].n, i)][calls[o][k].down[i]]
      BY <2>3, <2>4, ReadGathers
    <2>6. \A i \in 1 .. n : Gathered(o)[i] = mem[Owner(n, i)][Current(o).down[i]]
      BY <1>2, <2>2, <2>4, <2>5
    <2>7. Gathered(o) = [i \in 1 .. n |-> Gathered(o)[i]]
      BY <2>2 DEF GatheredAt, Assemble
    <2> QED  BY <2>6, <2>7
  <1>5. \A i \in 1 .. n : Current(o).down[i] = list[o][f][i]
    <2> HIDE DEF n, f
    <2>1. \A i \in 1 .. n : i <= Len(list[o][f])  BY <1>1
    <2> QED  BY <1>3, <2>1 DEF Items
  <1>6. Gathered(o) = [i \in 1 .. n |-> blk(i)]
    <2> HIDE DEF n, f
    <2> QED  BY <1>4, <1>5
  <1>7. \A i \in 1 .. n : blk(i) \in Block
    <2> HIDE DEF n, f
    <2> TAKE i \in 1 .. n
    <2>1. Owner(n, i) \in Ranks  BY <1>1, OwnerHolds
    <2>2. mem[Owner(n, i)] \in Seq(Block)  BY <2>1 DEF DataInv, CarriesBlocks
    <2> QED  BY <1>1, <2>2, ElementOfSeq
  <1>8. [i \in 1 .. n |-> blk(i)] \in Seq(Block) /\ Len([i \in 1 .. n |-> blk(i)]) = n
    <2> HIDE DEF n, blk
    <2> QED  BY <1>1, <1>7
  <1> QED  BY Zenon, <1>6, <1>8

\* What the root of a write has gathered: addresses of the blocks in its buffer.
LEMMA GathersAddresses ==
    ASSUME TypeInv, FilesInv, NEW o \in Ranks, InOrder(o), DataInv(o),
           fuse[o].at = "allgather", AllIn(o)
    PROVE  LET f == fuse[o].ino
               n == st_size[o][f]
           IN  /\ f \in Inodes /\ n \in Nat /\ n <= MaxSize
               /\ Current(o).op = "WRITE" /\ Current(o).ino = f /\ Current(o).n = n
               /\ m_buf[o][f] \in Seq(Block) /\ Len(m_buf[o][f]) = n
               /\ Gathered(o) \in Seq(Nat) /\ Len(Gathered(o)) = n
               /\ \A i \in 1 .. n :
                     /\ Gathered(o)[i] \in 1 .. Len(mem[Owner(n, i)])
                     /\ mem[Owner(n, i)][Gathered(o)[i]] = m_buf[o][f][i]
  <1> DEFINE f == fuse[o].ino
             n == st_size[o][f]
             k == Len(calls[o])
  <1>1. f \in Inodes /\ n \in Nat  BY RootFacts
  <1>2. /\ Current(o).op = "WRITE" /\ Current(o).root = o /\ Current(o).n = n /\ Current(o).ino = f
        /\ k \in 1 .. Len(calls[o]) /\ Current(o) = calls[o][k]
    <2>1. Current(o).root = o /\ Current(o).n = n /\ Current(o).ino = f  BY DEF FilesInv, OfItsFile
    <2>2. calls[o] # <<>> /\ Current(o).op = "WRITE"  BY DEF TypeInv, Entered
    <2>3. calls[o] \in Seq(Entry)  BY DEF TypeInv, Kinds
    <2>4. k \in 1 .. Len(calls[o])  BY <2>2, <2>3
    <2> QED  BY <2>1, <2>2, <2>4 DEF Current
  <1>3. m_buf[o][f] \in Seq(Block) /\ Len(m_buf[o][f]) = n /\ n <= MaxSize
    <2>1. Writing(o, f) /\ FileAt(o, f)  BY <1>1 DEF Writing, DataInv
    <2> HIDE DEF f
    <2> QED  BY <2>1 DEF FileAt, BufferOf, RoomOf, SizesOf, Room
  <1>4. Current(o).down = m_buf[o][f]
    <2>1. Current(o).down = Items(m_buf[o][f], n, Garbage)  BY DEF DataInv, Scattering
    <2> HIDE DEF n, f
    <2> QED  BY <1>3, <2>1, ItemsWhole
  <1>5. HaveEntered(calls, k, n) /\ Gathered(o) = GatheredAt(calls, k, n)
    BY <1>2 DEF AllIn, HaveEntered, Gathered, GatheredAt
  <1>6. Sound(calls) /\ SharesKept(calls, mem)  BY DEF FilesInv
  <1> HIDE DEF n, k, f
  <1>7. /\ Gathered(o) \in Seq(Nat) /\ Len(Gathered(o)) = n
        /\ \A i \in 1 .. n :
              /\ Owner(n, i) \in Ranks /\ k \in 1 .. Len(calls[Owner(n, i)])
              /\ i - Displ(n, Owner(n, i)) \in 1 .. Count(n, Owner(n, i))
              /\ Gathered(o)[i] = calls[Owner(n, i)][k].up[i - Displ(n, Owner(n, i))]
    <2>1. calls[o][k].op = "WRITE" /\ calls[o][k].n = n /\ HaveEntered(calls, k, calls[o][k].n)
      BY <1>2, <1>5
    <2>2. /\ GatheredAt(calls, k, calls[o][k].n) \in Seq(Nat)
          /\ Len(GatheredAt(calls, k, calls[o][k].n)) = calls[o][k].n
          /\ \A i \in 1 .. calls[o][k].n :
                LET q == Owner(calls[o][k].n, i) IN
                /\ q \in Ranks /\ k \in 1 .. Len(calls[q])
                /\ i - Displ(calls[o][k].n, q) \in 1 .. Count(calls[o][k].n, q)
                /\ GatheredAt(calls, k, calls[o][k].n)[i]
                     = calls[q][k].up[i - Displ(calls[o][k].n, q)]
      BY <1>2, <1>6, <2>1, GatheredAtType
    <2> QED  BY <1>5, <2>1, <2>2
  <1>8. ASSUME NEW i \in 1 .. n
        PROVE  /\ Gathered(o)[i] \in 1 .. Len(mem[Owner(n, i)])
               /\ mem[Owner(n, i)][Gathered(o)[i]] = m_buf[o][f][i]
    <2> DEFINE q == Owner(n, i)
               j == i - Displ(n, q)
    <2>1. /\ q \in Ranks /\ k \in 1 .. Len(calls[q]) /\ j \in 1 .. Count(n, q)
          /\ Gathered(o)[i] = calls[q][k].up[j]
      BY <1>7
    <2>2. Displ(n, q) \in Nat  BY <1>1, <2>1, CountType
    <2>3. Displ(n, q) + j = i  BY <2>2
    <2>4. k <= Len(calls[q])  BY <2>1
    <2> HIDE DEF q, j
    <2>5. calls[q][k].op = "WRITE" /\ calls[q][k].root = o /\ calls[q][k].n = n
      BY <1>2, <1>6, <2>1, <2>4 DEF Sound, Same
    <2>6. /\ calls[q][k].up[j] \in 1 .. Len(mem[q])
          /\ mem[q][calls[q][k].up[j]] = calls[o][k].down[Displ(n, q) + j]
      BY <1>6, <2>1, <2>5 DEF SharesKept
    <2>7. Gathered(o)[i] \in 1 .. Len(mem[q]) /\ mem[q][Gathered(o)[i]] = m_buf[o][f][i]
      BY <1>2, <1>4, <2>1, <2>3, <2>6
    <2> QED  BY <2>7 DEF q
  <1> QED  BY Zenon, <1>1, <1>2, <1>3, <1>7, <1>8 DEF n, f

\* The root has what it asked for: there is room for st_size again.
LEMMA RootLoadedData ==
    ASSUME TypeInv, NEW o \in Ranks, InOrder(o), FilesInv, DataInv(o),
           NEW p \in Ranks, RootLoaded(p)
    PROVE  DataInv(o)'
  <1>1. /\ fuse[p].at = "gather" /\ AllIn(p)
        /\ m_buf' = [m_buf EXCEPT ![p][fuse[p].ino] = Gathered(p)]
        /\ fuse' = [fuse EXCEPT ![p] = At("idle")]
        /\ UNCHANGED <<list, stored, handle, mem, attrs, waiting, loop, calls>>
    BY DEF RootLoaded, users, blocks, mpi
  <1>2. p = o  BY <1>1, InHandler DEF Rests
  <1>3. PICK h, b :
            /\ h \in Inodes /\ h = fuse[o].ino /\ b = Gathered(o) /\ Reading(o, h) /\ Clean(o, h) /\ FileAt(o, h)
            /\ st_size[o][h] = stored[h] /\ stored[h] \in Nat /\ stored[h] <= Len(list[o][h])
            /\ Len(list[o][h]) \in Nat
    <2>1. LET f == fuse[o].ino
          IN  /\ f \in Inodes /\ Reading(o, f) /\ Clean(o, f) /\ FileAt(o, f)
              /\ st_size[o][f] = stored[f] /\ stored[f] \in Nat /\ stored[f] <= Len(list[o][f])
              /\ Len(list[o][f]) \in Nat
      BY <1>1, <1>2, RootAddresses
    <2> QED  BY <2>1
  <1>4. b \in Seq(Block) /\ Len(b) = stored[h]  BY <1>1, <1>2, <1>3, GathersBlocks
  <1>5. fuse'[o].at = "idle" /\ \A q \in Ranks \ {o} : fuse'[q] = fuse[q]
    BY <1>1, <1>2 DEF TypeInv, Kinds, At
  <1>6. m_buf \in PerFile(Content \cup {NoBuf})  BY DEF TypeInv, TypeOK
  <1>7. \A q \in Ranks, g \in Inodes : m_buf'[q][g] = IF q = o /\ g = h THEN b ELSE m_buf[q][g]
    <2>1. \A q \in Ranks, g \in Inodes :
              [m_buf EXCEPT ![o][h] = b][q][g] = IF q = o /\ g = h THEN b ELSE m_buf[q][g]
      BY <1>6, PerFileSet
    <2> QED  BY <1>1, <1>2, <1>3, <2>1
  <1>8. \A q \in Ranks : Through(q)' = Through(q)
    <2> TAKE q \in Ranks
    <2>1. CASE q = o  BY <1>1, <1>2, <1>5, <2>1 DEF Through
    <2>2. CASE q # o  BY <1>1, <1>5, <2>2 DEF Through
    <2> QED  BY <2>1, <2>2
  <1>9. ASSUME NEW q \in Ranks, NEW g \in Inodes, q # o \/ g # h PROVE FileAt(q, g)'
    <2>1. (Reading(q, g)' <=> Reading(q, g)) /\ (Writing(q, g)' <=> Writing(q, g))
      <3>1. CASE q = o  BY <1>1, <1>2, <1>3, <1>5, <1>9, <3>1 DEF Reading, Writing
      <3>2. CASE q # o  BY <1>5, <3>2 DEF Reading, Writing
      <3> QED  BY <3>1, <3>2
    <2>2. /\ handle'[q][g] = handle[q][g] /\ waiting'[q][g] = waiting[q][g]
          /\ m_buf'[q][g] = m_buf[q][g] /\ st_size'[q][g] = st_size[q][g]
          /\ st_blocks'[q][g] = st_blocks[q][g] /\ list'[q][g] = list[q][g]
          /\ stored'[g] = stored[g]
      BY <1>1, <1>7, <1>9 DEF attrs
    <2>3. FileAt(q, g)  BY DEF DataInv
    <2> QED  BY <2>1, <2>2, <2>3, FileStays
  <1>10. FileAt(o, h)'
    <2>1. /\ m_buf'[o][h] = b /\ handle'[o][h] = handle[o][h] /\ waiting'[o][h] = waiting[o][h]
          /\ st_size'[o][h] = st_size[o][h] /\ st_blocks'[o][h] = st_blocks[o][h]
          /\ list'[o][h] = list[o][h] /\ stored'[h] = stored[h]
      <3>1. h \in Inodes  BY <1>3
      <3> QED  BY <1>1, <1>7, <3>1 DEF attrs
    <2>2. /\ ~ Reading(o, h)' /\ ~ Writing(o, h)'
          /\ handle[o][h] \in {"r", "rw"} /\ ~ waiting[o][h]
      BY <1>3, <1>5 DEF Reading, Writing, FileAt, BufferOf
    <2>3. BufferOf(o, h)'  BY <1>4, <2>1, <2>2 DEF BufferOf
    <2>4. b # NoBuf
      <3>1. Seq(Block) \subseteq Seq(Block \cup {Garbage})  OBVIOUS
      <3> QED  BY <1>4, <3>1, P2PDataAssumption
    <2>5. Room(o, h)' = stored[h]  BY <1>4, <2>1, <2>4 DEF Room
    <2>6. st_blocks[o][h] \in {stored[h], Len(list[o][h])}  BY <1>3 DEF FileAt, SizesOf
    <2>7. \/ st_blocks[o][h] = stored[h]
          \/ /\ stored[h] <= st_blocks[o][h]
             /\ st_blocks[o][h] = Len(list[o][h]) /\ Len(list[o][h]) > stored[h]
      BY <1>3, <2>6
    <2>8. RoomOf(o, h)'  BY <1>3, <2>1, <2>5, <2>7 DEF RoomOf
    <2>9. SizesOf(o, h)'  BY <1>3, <2>1 DEF SizesOf, FileAt, Clean
    <2> QED  BY <2>3, <2>8, <2>9 DEF FileAt
  <1>11. ASSUME NEW q \in Ranks, fuse'[q].at \in {"allgather", "gather"}
         PROVE  fuse'[q] = fuse[q] /\ m_buf'[q] = m_buf[q] /\ st_size'[q] = st_size[q]
    <2>1. q # o  BY <1>5, <1>11
    <2> QED  BY <1>1, <1>2, <1>5, <1>6, <2>1 DEF attrs, PerFile
  <1>12. \A q \in Ranks, g \in Inodes :
            /\ ForWriting(q, g)' => ForWriting(q, g)
            /\ handle'[q][g] # "closed" => handle[q][g] # "closed"
    <2> TAKE q \in Ranks, g \in Inodes
    <2>1. Writing(q, g)' => Writing(q, g)
      <3>1. CASE q = o  BY <1>5, <3>1 DEF Writing
      <3>2. CASE q # o  BY <1>5, <3>2 DEF Writing
      <3> QED  BY <3>1, <3>2
    <2> QED  BY <1>1, <2>1 DEF ForWriting
  <1> QED  BY <1>1, <1>8, <1>9, <1>10, <1>11, <1>12, DataStays

\* The root has stored what it was asked to.
LEMMA RootWrittenData ==
    ASSUME TypeInv, NEW o \in Ranks, InOrder(o), FilesInv, DataInv(o),
           NEW p \in Ranks, RootWritten(p)
    PROVE  DataInv(o)'
  <1>1. /\ fuse[p].at = "allgather" /\ AllIn(p)
        /\ list' = [list EXCEPT ![p][fuse[p].ino] = UpdateList(@, Gathered(p))]
        /\ waiting' = [waiting EXCEPT ![p][fuse[p].ino] = FALSE]
        /\ m_buf' = [m_buf EXCEPT ![p][fuse[p].ino] = NoBuf]
        /\ stored' = [stored EXCEPT ![fuse[p].ino] = Current(p).n]
        /\ fuse' = [fuse EXCEPT ![p] = At("idle")]
        /\ UNCHANGED <<handle, mem, attrs, loop, calls>>
    BY DEF RootWritten, users, mpi
  <1>2. p = o  BY <1>1, InHandler DEF Rests
  <1>3. PICK h, n, ads :
            /\ h \in Inodes /\ n \in Nat /\ ads \in Seq(Nat)
            /\ h = fuse[o].ino /\ n = st_size[o][h] /\ ads = UpdateList(list[o][h], Gathered(o))
            /\ n <= MaxSize /\ Len(ads) = Max(Len(list[o][h]), n) /\ Len(list[o][h]) \in Nat
            /\ Current(o).op = "WRITE" /\ Current(o).ino = h /\ Current(o).n = n
            /\ m_buf[o][h] \in Seq(Block) /\ Len(m_buf[o][h]) = n
    <2> DEFINE f == fuse[o].ino
               m == st_size[o][f]
    <2>1. /\ f \in Inodes /\ m \in Nat /\ m <= MaxSize
          /\ Current(o).op = "WRITE" /\ Current(o).ino = f /\ Current(o).n = m
          /\ m_buf[o][f] \in Seq(Block) /\ Len(m_buf[o][f]) = m
          /\ Gathered(o) \in Seq(Nat) /\ Len(Gathered(o)) = m
      BY <1>1, <1>2, GathersAddresses
    <2>2. list[o][f] \in Seq(Nat)  BY <2>1 DEF TypeInv, TypeOK, PerFile
    <2> HIDE DEF f, m
    <2>3. UpdateList(list[o][f], Gathered(o)) \in Seq(Nat)
          /\ Len(UpdateList(list[o][f], Gathered(o))) = Max(Len(list[o][f]), Len(Gathered(o)))
      BY <2>1, <2>2, UpdateListType
    <2>4. Len(list[o][f]) \in Nat  BY <2>2
    <2> QED  BY <2>1, <2>3, <2>4 DEF f, m
  <1>4. fuse'[o].at = "idle" /\ \A q \in Ranks \ {o} : fuse'[q] = fuse[q]
    BY <1>1, <1>2 DEF TypeInv, Kinds, At
  <1>5. /\ m_buf \in PerFile(Content \cup {NoBuf}) /\ list \in PerFile(Seq(Nat))
        /\ waiting \in PerFile(BOOLEAN) /\ stored \in [Inodes -> Nat]
    BY DEF TypeInv, TypeOK
  <1>6. \A q \in Ranks, g \in Inodes :
            /\ m_buf'[q][g] = IF q = o /\ g = h THEN NoBuf ELSE m_buf[q][g]
            /\ list'[q][g] = IF q = o /\ g = h THEN ads ELSE list[q][g]
    <2>1. \A q \in Ranks, g \in Inodes :
              [m_buf EXCEPT ![o][h] = NoBuf][q][g] = IF q = o /\ g = h THEN NoBuf ELSE m_buf[q][g]
      <3>1. m_buf \in PerFile(Content \cup {NoBuf})   BY <1>5
      <3>2. h \in Inodes  BY <1>3
      <3> QED  BY <3>1, <3>2, PerFileSet
    <2>2. \A q \in Ranks, g \in Inodes :
              [list EXCEPT ![o][h] = ads][q][g] = IF q = o /\ g = h THEN ads ELSE list[q][g]
      <3>1. list \in PerFile(Seq(Nat)) /\ h \in Inodes  BY <1>3, <1>5
      <3> QED  BY <3>1 DEF PerFile
    <2>3. m_buf' = [m_buf EXCEPT ![o][h] = NoBuf] /\ list' = [list EXCEPT ![o][h] = ads]
      BY <1>1, <1>2, <1>3
    <2> QED  BY <2>1, <2>2, <2>3
  <1>7. \A q \in Ranks, g \in Inodes : q # o \/ g # h => waiting'[q][g] = waiting[q][g]
    <2>1. waiting \in PerFile(BOOLEAN) /\ h \in Inodes  BY <1>3, <1>5
    <2>2. /\ \A q \in Ranks \ {o} : [waiting EXCEPT ![o][h] = FALSE][q] = waiting[q]
          /\ \A g \in Inodes \ {h} : [waiting EXCEPT ![o][h] = FALSE][o][g] = waiting[o][g]
      BY <2>1, PerFileAt
    <2>3. waiting' = [waiting EXCEPT ![o][h] = FALSE]  BY <1>1, <1>2, <1>3
    <2> QED  BY <2>2, <2>3
  <1>8. ~ waiting'[o][h]
    <2>1. waiting \in PerFile(BOOLEAN) /\ h \in Inodes  BY <1>3, <1>5
    <2>2. ~ [waiting EXCEPT ![o][h] = FALSE][o][h]  BY <2>1 DEF PerFile
    <2> QED  BY <1>1, <1>2, <1>3, <2>2
  <1>9. stored'[h] = n /\ \A g \in Inodes \ {h} : stored'[g] = stored[g]
    BY <1>1, <1>2, <1>3, <1>5
  <1>10. Writing(o, h) /\ FileAt(o, h)  BY <1>1, <1>2, <1>3 DEF Writing, DataInv
  <1>11. \A q \in Ranks, g \in Inodes :
            (Writing(q, g)' => Writing(q, g)) /\ ~ Writing(q, g)'
    <2> TAKE q \in Ranks, g \in Inodes
    <2>1. CASE q = o  BY <1>4, <2>1 DEF Writing
    <2>2. CASE q # o
      <3>1. Rests(q)  BY <2>2 DEF InOrder, OnlyRoot
      <3> QED  BY <1>4, <2>2, <3>1 DEF Writing, Rests
    <2> QED  BY <2>1, <2>2
  <1>0. h \in Inodes /\ n \in Nat /\ ads \in Seq(Nat)  BY <1>3
  <1>12. ASSUME NEW q \in Ranks, NEW g \in Inodes, q # o \/ g # h PROVE FileAt(q, g)'
    <2>1. (Reading(q, g)' <=> Reading(q, g)) /\ (Writing(q, g)' <=> Writing(q, g))
      <3>1. CASE q = o  BY <1>1, <1>2, <1>3, <1>4, <1>12, <3>1 DEF Reading, Writing
      <3>2. CASE q # o  BY <1>4, <3>2 DEF Reading, Writing
      <3> QED  BY <3>1, <3>2
    <2>2. /\ handle'[q][g] = handle[q][g] /\ waiting'[q][g] = waiting[q][g]
          /\ m_buf'[q][g] = m_buf[q][g] /\ st_size'[q][g] = st_size[q][g]
          /\ st_blocks'[q][g] = st_blocks[q][g] /\ list'[q][g] = list[q][g]
      <3>1. handle' = handle /\ st_size' = st_size /\ st_blocks' = st_blocks  BY <1>1 DEF attrs
      <3>2. waiting'[q][g] = waiting[q][g]  BY <1>7, <1>12
      <3>3. m_buf'[q][g] = m_buf[q][g] /\ list'[q][g] = list[q][g]  BY <1>6, <1>12
      <3> QED  BY <3>1, <3>2, <3>3
    <2>3. stored'[g] = stored[g] \/ (handle[q][g] = "closed" /\ ~ Writing(q, g))
      <3>1. CASE g # h  BY <1>9, <3>1
      <3>2. CASE g = h
        <4>1. handle[q][g] = "closed"
          BY <1>10, <1>12, <3>2 DEF DataInv, Exclusive, ForWriting
        <4>2. ~ Writing(q, g)  BY <1>11, <2>1
        <4> QED  BY <4>1, <4>2
      <3> QED  BY <3>1, <3>2
    <2>4. FileAt(q, g)  BY DEF DataInv
    <2> QED  BY <2>1, <2>2, <2>3, <2>4, FileStays
  <1>13. FileAt(o, h)'
    <2>1. /\ m_buf'[o][h] = NoBuf /\ handle'[o][h] = "closed" /\ ~ waiting'[o][h]
          /\ st_size'[o][h] = st_size[o][h] /\ st_blocks'[o][h] = st_blocks[o][h]
          /\ list'[o][h] = ads
      <3>1. handle' = handle /\ st_size' = st_size /\ st_blocks' = st_blocks  BY <1>1 DEF attrs
      <3>2. handle[o][h] = "closed"  BY <1>10 DEF FileAt, BufferOf
      <3>3. m_buf'[o][h] = NoBuf /\ list'[o][h] = ads  BY <1>0, <1>6
      <3> QED  BY <1>8, <3>1, <3>2, <3>3
    <2>2. ~ Reading(o, h)' /\ ~ Writing(o, h)'  BY <1>4 DEF Reading, Writing
    <2>3. BufferOf(o, h)'  BY <2>1, <2>2 DEF BufferOf
    <2>4. RoomOf(o, h)'  BY <2>1, <2>2 DEF RoomOf
    <2>5. Room(o, h) = n
      <3>1. Seq(Block) \subseteq Seq(Block \cup {Garbage})  OBVIOUS
      <3>2. m_buf[o][h] # NoBuf  BY <1>3, <3>1, P2PDataAssumption
      <3> QED  BY <1>3, <3>2 DEF Room
    <2>6. st_blocks[o][h] \in {n, Len(ads)}
      <3>1. \/ st_blocks[o][h] = n
            \/ n <= Len(list[o][h]) /\ st_blocks[o][h] = Len(list[o][h])
        BY <1>10, <2>5 DEF FileAt, RoomOf
      <3>2. n <= Len(list[o][h]) => Len(ads) = Len(list[o][h])  BY <1>3 DEF Max
      <3> QED  BY <3>1, <3>2
    <2>7. SizesOf(o, h)'  BY <1>3, <2>1, <2>6 DEF SizesOf
    <2> QED  BY <2>3, <2>4, <2>7 DEF FileAt
  <1>14. \A q \in Ranks, g \in Inodes : FileAt(q, g)'  BY <1>12, <1>13
  <1>15. Exclusive'  BY <1>1, <1>11 DEF DataInv, Exclusive, ForWriting
  <1>16. /\ \A q \in Ranks \ {o} : Through(q)' = Through(q)
         /\ Through(o) \in Nat /\ Through(o)' = Through(o) + 1 /\ Through(o)' = Len(calls[o])
    <2>1. ASSUME NEW q \in Ranks \ {o} PROVE Through(q)' = Through(q)
      BY <1>1, <1>4 DEF Through
    <2>2. loop'[o].at # "allgather"  BY <1>1, <1>2 DEF TypeInv, Entered
    <2>3. Through(o) \in Nat /\ Len(calls[o]) \in Nat /\ Through(o) = Len(calls[o]) - 1
      <3>1. Through(o) \in Nat  BY AppliedThrough
      <3> QED  BY <1>1, <1>2, <3>1, ThroughAll
    <2>4. Through(o)' = Len(calls[o]) - 0  BY <1>1, <1>4, <2>2 DEF Through
    <2> QED  BY <2>1, <2>3, <2>4
  <1>17. NotBehind(o)'
    <2> SUFFICES ASSUME NEW q \in Ranks, NEW g \in Inodes, handle[q][g] # "closed",
                        NEW k \in Through(q)' + 1 .. Len(calls[o])
                 PROVE  ~ (calls[o][k].op = "WRITE" /\ calls[o][k].ino = g)
      BY <1>1 DEF NotBehind
    <2>1. CASE q # o  BY <1>16, <2>1 DEF DataInv, NotBehind
    <2>2. CASE q = o
      <3>1. k \in Len(calls[o]) + 1 .. Len(calls[o]) /\ Len(calls[o]) \in Nat
        BY <1>16, <2>2, ThroughAll
      <3> QED  BY <3>1
    <2> QED  BY <2>1, <2>2
  <1>18. StoredTold(o)'
    <2>1. /\ Sound(calls) /\ StoredTold(o) /\ UNCHANGED calls
          /\ stored' = [stored EXCEPT ![Current(o).ino] = Current(o).n]
      BY <1>1, <1>2, <1>3 DEF FilesInv, DataInv
    <2> QED  BY <1>3, <1>5, <1>16, <2>1, ToldAnew
  <1>19. ASSUME NEW q \in Ranks PROVE Scattering(q)'
    <2>1. CASE q = o  BY <1>4, <2>1 DEF Scattering
    <2>2. CASE q # o
      <3>1. Rests(q) /\ fuse'[q] = fuse[q]  BY <1>4, <2>2 DEF InOrder, OnlyRoot
      <3> QED  BY <3>1 DEF Scattering, Rests
    <2> QED  BY <2>1, <2>2
  <1>20. CarriesBlocks(calls, mem)' /\ CarriesReads(calls, mem)'
    BY <1>1 DEF DataInv, CarriesBlocks, CarriesReads
  <1> QED  BY <1>14, <1>15, <1>17, <1>18, <1>19, <1>20 DEF DataInv

\* Another process stores its share,
LEMMA JoinWriteData ==
    ASSUME TypeInv, NEW o \in Ranks, InOrder(o), FilesInv, FilesInv', DataInv(o),
           NEW r \in Ranks, JoinWrite(r)
    PROVE  DataInv(o)'
  <1> DEFINE io  == loop[r]
             own == ShareOf(r, io.root, io.size)
             e   == Call("WRITE", io.root, io.ino, io.size, <<>>, NewAddresses(r, own))
             k   == NextCall(r)
  <1>1. /\ Joins(r, "WRITE") /\ Enter(r, e) /\ mem' = [mem EXCEPT ![r] = @ \o own]
        /\ loop' = [loop EXCEPT ![r] = [io EXCEPT !.at = "allgather"]]
        /\ UNCHANGED <<list, stored, handle, attrs, buffer, fuse>>
    BY DEF JoinWrite, users, told
  <1>2. io.at = "scatter"  BY <1>1 DEF Joins
  <1>3. k <= Len(calls[o]) /\ io.root = o /\ r # o  BY <1>2, JoinIno DEF FilesInv
  <1>4. /\ own \in Content /\ Len(own) = Count(io.size, r)
        /\ io.root \in Ranks /\ io.ino \in Inodes /\ io.size \in Nat /\ ~ Inside(fuse[r])
        /\ Same(calls[o][k], "WRITE", o, io.size)
    BY <1>1, <1>3, ShareOfType DEF Ops
  <1>5. k \in 1 .. Len(calls[o])
    <2>1. Len(calls[r]) \in Nat /\ Len(calls[o]) \in Nat  BY Behind
    <2> QED  BY <1>3, <2>1 DEF NextCall
  <1>6. /\ calls[o][k].down \in Seq(Block) /\ Len(calls[o][k].down) = io.size
        /\ io.size <= MaxSize
    BY <1>4, <1>5 DEF DataInv, CarriesBlocks, FilesInv, Sound, Same
  <1>7. own \in Seq(Block)
    <2>1. CASE Count(io.size, r) > 0
      <3>1. own = Share(calls[o][k].down, io.size, r)  BY <1>3, <2>1 DEF ShareOf
      <3> QED  BY <1>6, <3>1, ShareOfItems
    <2>2. CASE ~ (Count(io.size, r) > 0)
      <3>1. own = <<>>  BY <2>2 DEF ShareOf
      <3> QED  BY <3>1
    <2> QED  BY <2>1, <2>2
  <1> HIDE DEF own, k
  <1>8. NewAddresses(r, own) \in Seq(Nat)  BY <1>4, NewAddressesType DEF TypeInv
  <1>9. <<>> \in Content  BY DEF Content
  <1>10. loop'[r] = [io EXCEPT !.at = "allgather"] /\ \A q \in Ranks \ {r} : loop'[q] = loop[q]
    BY <1>1 DEF TypeInv, Kinds
  <1>11. loop'[r].at = "allgather"
         /\ fuse[r].at # "allgather" /\ loop[r].at # "allgather"
    <2>1. io \in [at : {"scatter", "allgather"}, op : Ops, root : Ranks, ino : Inodes, size : Nat]
      BY <1>2, PlaceFacts DEF TypeInv
    <2>2. [io EXCEPT !.at = "allgather"].at = "allgather"  BY <2>1
    <2> QED  BY <1>2, <1>4, <1>10, <2>2 DEF Inside
  <1>12. /\ e \in Entry /\ e.op = "WRITE" /\ e.root = io.root /\ e.n = io.size
    <2> HIDE DEF io
    <2> QED  BY <1>4, <1>8, <1>9 DEF Call, Entry
  <1> HIDE DEF e, io
  <1>13. mem' = mem \/ \E w \in Seq(Block) : mem' = [mem EXCEPT ![r] = @ \o w]
    BY <1>1, <1>7
  <1>14. \A g \in Inodes : (Reading(r, g)' <=> Reading(r, g)) /\ (Writing(r, g)' <=> Writing(r, g))
    BY <1>1 DEF Reading, Writing
  <1>15. /\ "allgather" \notin {fuse[r].at, loop[r].at}
         /\ e.op = "WRITE" <=> "allgather" \in {fuse'[r].at, loop'[r].at}
         /\ \A q \in Ranks \ {r} : fuse'[q] = fuse[q] /\ loop'[q] = loop[q]
         /\ Sound(calls') /\ fuse'[r] = fuse[r] /\ e.root # r /\ e.n <= MaxSize
    BY <1>1, <1>3, <1>6, <1>10, <1>11, <1>12 DEF FilesInv
  <1> QED  BY <1>1, <1>3, <1>12, <1>13, <1>14, <1>15, EnterData

\* or answers a read.
LEMMA JoinReadData ==
    ASSUME TypeInv, NEW o \in Ranks, InOrder(o), FilesInv, FilesInv', DataInv(o),
           NEW r \in Ranks, JoinRead(r)
    PROVE  DataInv(o)'
  <1> DEFINE io  == loop[r]
             asked == ShareOf(r, io.root, io.size)
             own == FetchAll(r, asked)
             e   == Call("READ", io.root, io.ino, io.size, <<>>, own)
             k   == NextCall(r)
  <1>1. /\ Joins(r, "READ") /\ Enter(r, e) /\ loop' = [loop EXCEPT ![r] = At("header")]
        /\ UNCHANGED <<list, stored, handle, attrs, buffer, fuse, mem>>
    BY DEF JoinRead, users, told, blocks
  <1>2. io.at = "scatter"  BY <1>1 DEF Joins
  <1>3. k <= Len(calls[o]) /\ io.root = o /\ r # o  BY <1>2, JoinIno DEF FilesInv
  <1>4. /\ asked \in Seq(Nat) /\ Len(asked) = Count(io.size, r)
        /\ io.root \in Ranks /\ io.ino \in Inodes /\ io.size \in Nat /\ ~ Inside(fuse[r])
        /\ Same(calls[o][k], "READ", o, io.size)
    BY <1>1, <1>3, ShareOfType DEF Ops
  <1>5. k \in 1 .. Len(calls[o]) /\ Len(calls[r]) \in Nat
    <2>1. Len(calls[r]) \in Nat /\ Len(calls[o]) \in Nat  BY Behind
    <2> QED  BY <1>3, <2>1 DEF NextCall
  <1>6. /\ calls[o][k].op = "READ" /\ calls[o][k].root = o /\ calls[o][k].n = io.size
        /\ io.size <= MaxSize
    BY <1>4, <1>5 DEF DataInv, CarriesBlocks, Same
  <1>7. AsksForBlocks(mem, calls[o][k])  BY <1>5, <1>6 DEF DataInv, CarriesReads
  <1> HIDE DEF k
  <1>8. ASSUME NEW j \in 1 .. Count(io.size, r)
        PROVE  own[j] = mem[r][calls[o][k].down[Displ(io.size, r) + j]]
    <2>1. Displ(io.size, r) + j \in 1 .. io.size /\ Owner(io.size, Displ(io.size, r) + j) = r
      BY <1>4, OwnerIsUnique
    <2>2. calls[o][k].down[Displ(io.size, r) + j] \in 1 .. Len(mem[r])
      BY <1>6, <1>7, <2>1 DEF AsksForBlocks
    <2>3. Count(io.size, r) > 0
      <3>1. Count(io.size, r) \in Nat  BY <1>4, CountType
      <3>2. \A a \in Nat : \A y : y \in 1 .. a => a > 0  OBVIOUS
      <3> QED  BY <3>1, <3>2
    <2>4. asked[j] = calls[o][k].down[Displ(io.size, r) + j]
      BY <1>3, <2>3 DEF ShareOf, Share, k
    <2>5. own[j] = Fetch(r, asked[j])
      <3> HIDE DEF asked
      <3> QED  BY <1>4 DEF FetchAll
    <2> QED  BY <2>2, <2>4, <2>5 DEF Fetch
  <1>9. own \in Content  BY <1>4, FetchAllType DEF TypeInv
  <1> HIDE DEF own, asked
  <1>10. <<>> \in Seq(Nat)  OBVIOUS
  <1>11. e \in Entry /\ e.op = "READ" /\ e.root = io.root /\ e.n = io.size /\ e.up = own
    <2> HIDE DEF io
    <2> QED  BY <1>4, <1>9, <1>10 DEF Call, Entry
  <1>12. /\ loop'[r].at = "header" /\ \A q \in Ranks \ {r} : loop'[q] = loop[q]
         /\ fuse[r].at # "allgather" /\ loop[r].at # "allgather"
    BY <1>1, <1>2, <1>4 DEF TypeInv, Kinds, At, Inside
  <1> HIDE DEF e, io
  <1>13. \A q \in Ranks \ {r} : calls'[q] = calls[q]
    <2>1. Kinds  BY DEF TypeInv
    <2> QED  BY <1>1, <1>11, <2>1, RootEnters
  <1>14. AnswersFor(mem, r, e, calls'[e.root][NextCall(r)].down)
    <2>1. calls'[e.root][k] = calls[o][k]  BY <1>3, <1>11, <1>13
    <2> QED  BY <1>8, <1>11, <2>1 DEF AnswersFor, k
  <1>15. \A g \in Inodes : (Reading(r, g)' <=> Reading(r, g)) /\ (Writing(r, g)' <=> Writing(r, g))
    BY <1>1 DEF Reading, Writing
  <1>16. /\ "allgather" \notin {fuse[r].at, loop[r].at}
         /\ e.op = "WRITE" <=> "allgather" \in {fuse'[r].at, loop'[r].at}
         /\ \A q \in Ranks \ {r} : fuse'[q] = fuse[q] /\ loop'[q] = loop[q]
         /\ Sound(calls') /\ fuse'[r] = fuse[r] /\ e.root # r /\ e.n <= MaxSize
         /\ e.op # "WRITE" /\ mem' = mem
    BY <1>1, <1>3, <1>6, <1>11, <1>12 DEF FilesInv
  <1> QED  BY <1>1, <1>3, <1>11, <1>14, <1>15, <1>16, EnterData

\* Another process has made a write its own.
LEMMA JoinedData ==
    ASSUME TypeInv, NEW o \in Ranks, InOrder(o), FilesInv, DataInv(o), NEW r \in Ranks, Joined(r)
    PROVE  DataInv(o)'
  <1>1. /\ loop[r].at = "allgather"
        /\ list' = [list EXCEPT ![r][loop[r].ino] = UpdateList(@, Gathered(r))]
        /\ st_size' = [st_size EXCEPT ![r][loop[r].ino] = loop[r].size]
        /\ st_blocks' = [st_blocks EXCEPT ![r][loop[r].ino] = Len(list'[r][loop[r].ino])]
        /\ loop' = [loop EXCEPT ![r] = At("header")]
        /\ UNCHANGED <<m_buf, waiting, mem, fuse, calls, stored, handle>>
    BY DEF Joined, buffer, mpi, told, users
  <1>2. r # o /\ Rests(r)  BY <1>1 DEF InOrder, OnlyRoot, Alone
  <1>3. PICK h, n, l :
            /\ h = loop[r].ino /\ n = loop[r].size /\ l = UpdateList(list[r][loop[r].ino], Gathered(r))
            /\ h \in Inodes /\ n \in Nat
            /\ calls[r] # <<>> /\ Current(r).op = "WRITE" /\ Current(r).ino = h /\ Current(r).n = n
    <2>1. loop[r].ino \in Inodes /\ loop[r].size \in Nat  BY <1>1, PlaceFacts DEF TypeInv
    <2>2. calls[r] # <<>> /\ Current(r).op = "WRITE"  BY <1>1 DEF TypeInv, Entered
    <2>3. Current(r).ino = loop[r].ino /\ Current(r).n = loop[r].size
      BY <1>1 DEF FilesInv, OfItsFile
    <2> QED  BY <2>1, <2>2, <2>3
  <1>4. /\ Len(calls[r]) \in 1 .. Len(calls[r]) /\ Len(calls[r]) \in 1 .. Len(calls[o])
        /\ Len(calls[r]) \in Nat /\ Len(calls[o]) \in Nat
    <2>1. calls[r] \in Seq(Entry) /\ Len(calls[r]) \in Nat /\ Len(calls[o]) \in Nat
      BY ChanFacts DEF TypeInv
    <2>2. Len(calls[r]) # 0  BY <1>3, <2>1
    <2>3. Len(calls[r]) <= Len(calls[o])  BY Behind
    <2> QED  BY <2>1, <2>2, <2>3
  <1>5. n <= MaxSize  BY <1>3, <1>4 DEF DataInv, CarriesBlocks, Current
  <1>6. handle[r][h] = "closed"
    <2>1. calls[o][Len(calls[r])].op = "WRITE" /\ calls[o][Len(calls[r])].ino = h
      BY <1>3, <1>4 DEF FilesInv, Sound, Same, Current
    <2>2. Through(r) = Len(calls[r]) - 1  BY <1>1, ThroughAll
    <2>3. Len(calls[r]) \in Through(r) + 1 .. Len(calls[o])  BY <1>4, <2>2
    <2> QED  BY <1>3, <2>1, <2>3 DEF DataInv, NotBehind
  <1>7. /\ st_size \in PerFile(Nat) /\ st_blocks \in PerFile(Nat) /\ list \in PerFile(Seq(Nat))
    BY DEF TypeInv, TypeOK
  <1>8. \A q \in Ranks, g \in Inodes :
            list'[q][g] = IF q = r /\ g = h THEN l ELSE list[q][g]
    <2>1. list' = [list EXCEPT ![r][h] = l]  BY <1>1, <1>3
    <2>2. list \in PerFile(Seq(Nat)) /\ h \in Inodes  BY <1>3, <1>7
    <2> QED  BY <2>1, <2>2 DEF PerFile
  <1>9. \A q \in Ranks, g \in Inodes :
            st_size'[q][g] = IF q = r /\ g = h THEN n ELSE st_size[q][g]
    <2>1. st_size' = [st_size EXCEPT ![r][h] = n]  BY <1>1, <1>3
    <2>2. st_size \in PerFile(Nat) /\ h \in Inodes  BY <1>3, <1>7
    <2> QED  BY <2>1, <2>2 DEF PerFile
  <1>10. \A q \in Ranks, g \in Inodes :
            st_blocks'[q][g] = IF q = r /\ g = h THEN Len(l) ELSE st_blocks[q][g]
    <2>1. list'[r][h] = l  BY <1>3, <1>8
    <2>2. st_blocks' = [st_blocks EXCEPT ![r][h] = Len(l)]  BY <1>1, <1>3, <2>1
    <2>3. st_blocks \in PerFile(Nat) /\ h \in Inodes  BY <1>3, <1>7
    <2> QED  BY <2>2, <2>3 DEF PerFile
  <1>11. \A q \in Ranks, g \in Inodes :
            (Reading(q, g)' <=> Reading(q, g)) /\ (Writing(q, g)' <=> Writing(q, g))
    BY <1>1 DEF Reading, Writing
  <1>12. loop'[r].at = "header" /\ \A q \in Ranks \ {r} : loop'[q] = loop[q]
    BY <1>1 DEF TypeInv, Kinds, At
  <1>13. ASSUME NEW q \in Ranks, NEW g \in Inodes, q # r \/ g # h PROVE FileAt(q, g)'
    <2>1. FileAt(q, g)  BY DEF DataInv
    <2>2. /\ list'[q][g] = list[q][g] /\ st_size'[q][g] = st_size[q][g]
          /\ st_blocks'[q][g] = st_blocks[q][g]
      BY <1>8, <1>9, <1>10, <1>13
    <2>3. /\ handle'[q][g] = handle[q][g] /\ waiting'[q][g] = waiting[q][g]
          /\ m_buf'[q][g] = m_buf[q][g] /\ stored'[g] = stored[g]
      BY <1>1
    <2> QED  BY <1>11, <2>1, <2>2, <2>3, FileStays
  <1>14. FileAt(r, h)'
    <2>1. FileAt(r, h)  BY <1>3 DEF DataInv
    <2>2. ~ Writing(r, h) /\ ~ Reading(r, h)  BY <1>2 DEF Writing, Reading, Rests
    <2>3. ~ Writing(r, h)' /\ ~ Reading(r, h)'  BY <1>3, <1>11, <2>2
    <2>4. m_buf[r][h] = NoBuf /\ ~ waiting[r][h]
      BY <1>6, <2>1, <2>2 DEF FileAt, BufferOf, ForWriting
    <2>5. handle'[r][h] = "closed" /\ m_buf'[r][h] = NoBuf /\ ~ waiting'[r][h]
      BY <1>1, <1>6, <2>4
    <2>6. BufferOf(r, h)'  BY <2>3, <2>5 DEF BufferOf
    <2>7. RoomOf(r, h)'  BY <2>3, <2>5 DEF RoomOf
    <2>8. st_size'[r][h] = n /\ st_blocks'[r][h] = Len(l) /\ list'[r][h] = l
      BY <1>3, <1>8, <1>9, <1>10
    <2>9. SizesOf(r, h)'  BY <1>5, <2>8 DEF SizesOf
    <2> QED  BY <2>6, <2>7, <2>9 DEF FileAt
  <1>15. \A q \in Ranks, g \in Inodes : FileAt(q, g)'  BY <1>13, <1>14
  <1>16. /\ \A q \in Ranks \ {r} : Through(q)' = Through(q)
         /\ Through(r) \in Nat /\ Through(r)' = Through(r) + 1
    <2>1. ASSUME NEW q \in Ranks \ {r} PROVE Through(q)' = Through(q)
      BY <1>1, <1>12 DEF Through
    <2>2. Through(r) \in Nat /\ Through(r) = Len(calls[r]) - 1
      <3>1. Through(r) \in Nat  BY AppliedThrough
      <3> QED  BY <1>1, <3>1, ThroughAll
    <2>3. Through(r)' = Len(calls[r]) - 0  BY <1>1, <1>2, <1>12 DEF Through, Rests
    <2> QED  BY <1>4, <2>1, <2>2, <2>3
  <1>17. Exclusive'  BY <1>1, <1>11 DEF DataInv, Exclusive, ForWriting
  <1>18. NotBehind(o)'
    <2> SUFFICES ASSUME NEW q \in Ranks, NEW g \in Inodes, handle[q][g] # "closed",
                        NEW k \in Through(q)' + 1 .. Len(calls[o])
                 PROVE  ~ (calls[o][k].op = "WRITE" /\ calls[o][k].ino = g)
      BY <1>1 DEF NotBehind
    <2>1. k \in Through(q) + 1 .. Len(calls[o])
      <3>1. CASE q = r  BY <1>4, <1>16, <3>1
      <3>2. CASE q # r  BY <1>16, <3>2
      <3> QED  BY <3>1, <3>2
    <2> QED  BY <2>1 DEF DataInv, NotBehind
  <1>19. StoredTold(o)'
    <2>1. Through(o)' = Through(o) /\ calls' = calls /\ stored' = stored  BY <1>1, <1>2, <1>16
    <2> QED  BY <2>1 DEF DataInv, StoredTold
  <1>20. ASSUME NEW q \in Ranks PROVE Scattering(q)'
    <2>1. CASE q = r  BY <1>1, <1>2, <2>1 DEF Scattering, Rests
    <2>2. CASE q # r
      <3>1. list'[q] = list[q] /\ st_size'[q] = st_size[q]
        BY <1>1, <1>7, <2>2 DEF PerFile
      <3> QED  BY <1>1, <3>1 DEF DataInv, Scattering, Current
    <2> QED  BY <2>1, <2>2
  <1>21. CarriesBlocks(calls, mem)' /\ CarriesReads(calls, mem)'
    BY <1>1 DEF DataInv, CarriesBlocks, CarriesReads
  <1> QED  BY <1>15, <1>17, <1>18, <1>19, <1>20, <1>21 DEF DataInv

\* The other steps of the threads.
LEMMA ThreadsData ==
    ASSUME TypeInv, NEW o \in Ranks, InOrder(o), FilesInv, FilesInv', DataInv(o),
           NEW p \in Ranks, Session(p) \/ Second(p)
    PROVE  DataInv(o)'
  <1>1. fuse \in [Ranks -> FusePlace] /\ loop \in [Ranks -> LoopPlace]  BY DEF TypeInv, Kinds
  <1>2. CASE RootWrite(p)  BY <1>2, RootWriteData
  <1>3. CASE RootRead(p)  BY <1>3, RootReadData
  <1>4. CASE RootWritten(p)  BY <1>4, RootWrittenData
  <1>5. CASE RootLoaded(p)  BY <1>5, RootLoadedData
  <1>6. CASE SessionEnds(p)
    <2>1. /\ fuse[p].at = "unmounted" /\ fuse' = [fuse EXCEPT ![p] = At("ended")]
          /\ UNCHANGED <<handle, attrs, buffer, blocks, stored, calls, loop>>
      BY <1>6 DEF SessionEnds, told, users
    <2>2. fuse'[p].at = "ended" /\ \A q \in Ranks \ {p} : fuse'[q] = fuse[q]
      BY <1>1, <2>1 DEF At
    <2>3. \A q \in Ranks : fuse'[q] = fuse[q] \/ (Rests(q) /\ Rests(q)')
      BY <2>1, <2>2 DEF Rests
    <2>4. \A q \in Ranks : loop'[q].at = "allgather" <=> loop[q].at = "allgather"  BY <2>1
    <2> QED  BY <2>1, <2>3, <2>4, PlaceData
  <1>7. CASE ReceiveHeader(p) \/ ReceiveIO(p)
    <2>1. /\ loop[p].at \in {"header", "io"} /\ loop'[p].at # "allgather"
          /\ \A q \in Ranks \ {p} : loop'[q] = loop[q]
          /\ UNCHANGED <<attrs, buffer, blocks, fuse, calls, told, users>>
      BY <1>7, ReceiveLoop
    <2>2. UNCHANGED <<handle, attrs, buffer, blocks, stored, calls>>  BY <2>1 DEF told, users
    <2>3. \A q \in Ranks : fuse'[q] = fuse[q] \/ (Rests(q) /\ Rests(q)')  BY <2>1
    <2>4. \A q \in Ranks : loop'[q].at = "allgather" <=> loop[q].at = "allgather"
      <3> TAKE q \in Ranks
      <3>1. CASE q = p  BY <2>1, <3>1
      <3>2. CASE q # p  BY <2>1, <3>2
      <3> QED  BY <3>1, <3>2
    <2> QED  BY <2>2, <2>3, <2>4, PlaceData
  <1>8. CASE JoinWrite(p)  BY <1>8, JoinWriteData
  <1>9. CASE JoinRead(p)  BY <1>9, JoinReadData
  <1>10. CASE Joined(p)  BY <1>10, JoinedData
  <1>11. CASE UnmountFromThread(p)
    <2>1. /\ loop[p].at = "unmounting" /\ loop' = [loop EXCEPT ![p] = At("stopped")]
          /\ UNCHANGED <<handle, attrs, buffer, blocks, stored, calls>>
          /\ fuse' = fuse \/ (fuse[p] = At("idle") /\ fuse' = [fuse EXCEPT ![p] = At("unmounted")])
      BY <1>1, <1>11 DEF UnmountFromThread, mpi, told, users, Idle
    <2>2. loop'[p].at = "stopped" /\ \A q \in Ranks \ {p} : loop'[q] = loop[q]
      BY <1>1, <2>1 DEF At
    <2>3. /\ \A q \in Ranks \ {p} : fuse'[q] = fuse[q]
          /\ fuse'[p] = fuse[p] \/ (fuse[p].at = "idle" /\ fuse'[p].at = "unmounted")
      BY <1>1, <2>1 DEF At
    <2>4. \A q \in Ranks : fuse'[q] = fuse[q] \/ (Rests(q) /\ Rests(q)')
      BY <2>3 DEF Rests
    <2>5. \A q \in Ranks : loop'[q].at = "allgather" <=> loop[q].at = "allgather"
      BY <2>1, <2>2
    <2> QED  BY <2>1, <2>4, <2>5, PlaceData
  <1> QED
    BY <1>2, <1>3, <1>4, <1>5, <1>6, <1>7, <1>8, <1>9, <1>10, <1>11 DEF Session, Second

\* The steps of users.
LEMMA UserData ==
    ASSUME TypeInv, FilesInv, NEW o \in Ranks, o = origin, InOrder(o), DataInv(o),
           NEW p \in Ranks, User(p), orderly', fault' = "none"
    PROVE  \A q \in Ranks : q = origin' => DataInv(q)'
  <1>1. ASSUME NEW rule, Comes(p, rule) PROVE origin' = p /\ InOrder(p) /\ DataInv(p)
    <2>1. origin' = p /\ Turn(p)  BY <1>1 DEF Comes
    <2>2. InOrder(origin)  OBVIOUS
    <2> QED  BY <2>1, <2>2, TurnStep, TurnData
  <1>2. CASE Unmount(p)
    <2>1. /\ fuse[p] = At("idle") /\ fuse' = [fuse EXCEPT ![p] = At("unmounted")]
          /\ UNCHANGED <<handle, attrs, buffer, blocks, stored, calls, loop>>
          /\ Comes(p, \A q \in Ranks : NothingOpen(q))
      BY <1>2 DEF Unmount, Idle, told, mpi
    <2>2. fuse[p].at = "idle" /\ fuse'[p].at = "unmounted" /\ \A q \in Ranks \ {p} : fuse'[q] = fuse[q]
      BY <2>1 DEF TypeInv, Kinds, At
    <2>3. \A q \in Ranks : fuse'[q] = fuse[q] \/ (Rests(q) /\ Rests(q)')
      BY <2>2 DEF Rests
    <2>4. \A q \in Ranks : loop'[q].at = "allgather" <=> loop[q].at = "allgather"  BY <2>1
    <2>5. origin' = p /\ DataInv(p)  BY <1>1, <2>1
    <2>6. DataInv(p)'  BY <2>1, <2>3, <2>4, <2>5, PlaceData
    <2> QED  BY <2>5, <2>6
  <1>3. ASSUME NEW f \in Inodes, FuseFlush(p, f)
        PROVE  \A q \in Ranks : q = origin' => DataInv(q)'
    <2>1. CASE m_buf[p][f] # NoBuf /\ waiting[p][f]
      <3>1. Comes(p, TRUE)  BY <1>3, <2>1 DEF FuseFlush
      <3>2. origin' = p /\ InOrder(p) /\ DataInv(p)  BY <1>1, <3>1
      <3>3. DataInv(p)'  BY <1>3, <3>2, FlushData
      <3> QED  BY <3>2, <3>3
    <2>2. CASE ~ (m_buf[p][f] # NoBuf /\ waiting[p][f])
      <3>1. origin' = o  BY <1>3, <2>2 DEF FuseFlush
      <3>2. DataInv(o)'  BY <1>3, FlushData
      <3> QED  BY <3>1, <3>2
    <2> QED  BY <2>1, <2>2
  <1>4. ASSUME NEW f \in Inodes, NEW mode \in Modes, FuseOpen(p, f, mode)
        PROVE  \A q \in Ranks : q = origin' => DataInv(q)'
    <2>1. Comes(p, MayOpen(p, f, mode))  BY <1>4 DEF FuseOpen
    <2>2. origin' = p /\ InOrder(p) /\ DataInv(p)  BY <1>1, <2>1
    <2>3. DataInv(p)'  BY <1>4, <2>2, OpenData
    <2> QED  BY <2>2, <2>3
  <1>5. ASSUME NEW f \in Inodes, NEW off \in 0 .. st_size[p][f], NEW data \in Payloads,
               FuseWrite(p, f, off, data)
        PROVE  \A q \in Ranks : q = origin' => DataInv(q)'
    <2>1. origin' = o  BY <1>5 DEF FuseWrite
    <2>2. fault' # "overflow"  OBVIOUS
    <2>3. DataInv(o)'  BY <1>5, <2>2, WriteData
    <2> QED  BY <2>1, <2>3
  <1> QED  BY <1>2, <1>3, <1>4, <1>5 DEF User

\* At the start nothing is open and nothing has been stored.
LEMMA InitData == ASSUME Init, NEW o \in Ranks PROVE DataInv(o)
  <1>1. /\ \A p \in Ranks : /\ fuse[p].at = "idle" /\ loop[p].at = "header"
                            /\ calls[p] = <<>>
        /\ \A p \in Ranks, f \in Inodes :
              /\ handle[p][f] = "closed" /\ ~ waiting[p][f] /\ m_buf[p][f] = NoBuf
              /\ st_size[p][f] = 0 /\ st_blocks[p][f] = 0
        /\ \A f \in Inodes : stored[f] = 0
    BY DEF Init, At
  <1>2. \A p \in Ranks : \A k \in 1 .. Len(calls[p]) : FALSE
    <2> TAKE p \in Ranks
    <2>1. Len(calls[p]) = 0  BY <1>1
    <2> QED  BY <2>1
  <1>3. Through(o) = 0
    <2>1. Len(calls[o]) = 0  BY <1>1
    <2>2. Through(o) = 0 - 0  BY <1>1, <2>1 DEF Through
    <2> QED  BY <2>2
  <1>4. CarriesBlocks(calls, mem) /\ CarriesReads(calls, mem)
    <2>1. <<>> \in Seq(Block)  OBVIOUS
    <2>2. mem \in [Ranks -> Seq(Block)]  BY <2>1 DEF Init
    <2> QED  BY <1>2, <2>2 DEF CarriesBlocks, CarriesReads
  <1>5. ASSUME NEW p \in Ranks, NEW f \in Inodes PROVE FileAt(p, f)
    <2>1. ~ Reading(p, f) /\ ~ Writing(p, f)  BY <1>1 DEF Reading, Writing
    <2>2. BufferOf(p, f)  BY <1>1, <2>1 DEF BufferOf
    <2>3. RoomOf(p, f)  BY <1>1, <2>1 DEF RoomOf
    <2>4. SizesOf(p, f)  BY <1>1, P2PDataAssumption DEF SizesOf
    <2> QED  BY <2>2, <2>3, <2>4 DEF FileAt
  <1>6. Exclusive  BY <1>1 DEF Exclusive
  <1>7. NotBehind(o)  BY <1>1 DEF NotBehind
  <1>8. StoredTold(o)
    <2> SUFFICES ASSUME NEW N \in Nat, NEW h, History(calls, N, h), NEW f \in Inodes
                 PROVE  stored[f] = h[0].size[f]
      BY <1>3 DEF StoredTold
    <2>1. h[0] = NoFiles  BY DEF History
    <2> QED  BY <1>1, <2>1 DEF NoFiles
  <1>9. \A p \in Ranks : Scattering(p)  BY <1>1 DEF Scattering
  <1> QED  BY <1>4, <1>5, <1>6, <1>7, <1>8, <1>9 DEF DataInv

\* What the invariant says of a state: orderly use, and no fault so far.
RoomInv == orderly /\ fault = "none" => \A o \in Ranks : o = origin => DataInv(o)

\* While users are orderly, buffers hold what users wrote, attributes say how much
\* that is, and a file is open where it is written only.
THEOREM DataInvariance == Spec => []RoomInv
  <1>1. Init => RoomInv  BY InitData DEF RoomInv
  <1>2. TypeInv /\ StepInv /\ (orderly => FilesInv) /\ (orderly => FilesInv)' /\ RoomInv /\ [Next]_vars
        => RoomInv'
    <2> SUFFICES ASSUME TypeInv, StepInv, orderly => FilesInv, (orderly => FilesInv)', RoomInv,
                        [Next]_vars, orderly', fault' = "none"
                 PROVE  \A q \in Ranks : q = origin' => DataInv(q)'
      BY DEF RoomInv
    <2>0. PICK o \in Ranks : o = origin  BY DEF TypeInv, TypeOK
    <2>1. ASSUME orderly, fault = "none" PROVE FilesInv /\ FilesInv' /\ InOrder(o) /\ DataInv(o)
      BY <2>0, <2>1 DEF StepInv, RoomInv
    <2>2. ASSUME fault = "none", NEW p \in Ranks, Session(p) \/ Second(p)
          PROVE  \A q \in Ranks : q = origin' => DataInv(q)'
      <3>1. UNCHANGED users
        BY Zenon, <2>2 DEF Session, Second, RootWrite, RootWritten, RootRead, RootLoaded, SessionEnds,
                    ReceiveHeader, ReceiveIO, JoinWrite, Joined, JoinRead, UnmountFromThread
      <3>2. orderly /\ origin' = o  BY <2>0, <3>1 DEF users
      <3>3. FilesInv /\ FilesInv' /\ InOrder(o) /\ DataInv(o)  BY <2>1, <2>2, <3>2
      <3>4. DataInv(o)'  BY <2>2, <3>3, ThreadsData
      <3> QED  BY <3>2, <3>4
    <2>3. ASSUME fault = "none", NEW p \in Ranks, User(p)
          PROVE  \A q \in Ranks : q = origin' => DataInv(q)'
      <3>1. \A f \in Inodes : FuseFlush(p, f) => orderly  BY DEF FuseFlush, Comes
      <3>2. \A f \in Inodes, mode \in Modes : FuseOpen(p, f, mode) => orderly
        BY DEF FuseOpen, Comes
      <3>3. \A f \in Inodes, off \in Nat, data \in Payloads :
                FuseWrite(p, f, off, data) => orderly
        BY DEF FuseWrite
      <3>4. Unmount(p) => orderly  BY DEF Unmount, Comes
      <3>5. orderly  BY <2>3, <3>1, <3>2, <3>3, <3>4, UserCases
      <3>6. FilesInv /\ InOrder(o) /\ DataInv(o)  BY <2>1, <2>3, <3>5
      <3> QED  BY <2>0, <2>3, <3>6, UserData
    <2>4. ASSUME fault = "none", NEW p \in Ranks, Crossed(p)
          PROVE  \A q \in Ranks : q = origin' => DataInv(q)'
      <3>1. orderly  BY <2>4 DEF Crossed, users
      <3>2. InOrder(o)  BY <2>1, <2>4, <3>1
      <3> QED  BY <2>4, <3>2, NotCrossed
    <2>5. ASSUME UNCHANGED vars
          PROVE  \A q \in Ranks : q = origin' => DataInv(q)'
      <3>1. /\ UNCHANGED <<handle, attrs, buffer, blocks, stored, calls, fuse, loop>>
            /\ orderly /\ fault = "none" /\ origin' = o
        BY <2>0, <2>5 DEF vars, users, told, mpi
      <3>2. DataInv(o)  BY <2>1, <3>1
      <3>3. \A q \in Ranks : fuse'[q] = fuse[q] \/ (Rests(q) /\ Rests(q)')  BY <3>1
      <3>4. \A q \in Ranks : loop'[q].at = "allgather" <=> loop[q].at = "allgather"  BY <3>1
      <3>5. DataInv(o)'  BY <3>1, <3>2, <3>3, <3>4, PlaceData
      <3> QED  BY <3>1, <3>5
    <2> QED  BY <2>2, <2>3, <2>4, <2>5 DEF Next, Rest
  <1> QED  BY <1>1, <1>2, TypeInvariance, StepInvariance, FilesInvariance, PTL DEF Spec

\* While users are orderly there is room in a buffer for what st_size says and, unless
\* the file was longer once, exactly as much as st_blocks says, from which FuseWrite
\* decides whether to call realloc.
THEOREM RoomSafety == Spec => []RoomIsThere
  <1>1. TypeInv /\ RoomInv => RoomIsThere
    <2> SUFFICES ASSUME TypeInv, RoomInv, orderly, fault = "none", NEW p \in Ranks, NEW f \in Inodes,
                        handle[p][f] # "closed", Idle(p)
                 PROVE  /\ st_size[p][f] <= Room(p, f)
                        /\ st_blocks[p][f] = Room(p, f) \/ Len(list[p][f]) > stored[f]
      BY DEF RoomIsThere, Room
    <2>1. PICK o \in Ranks : o = origin  BY DEF TypeInv, TypeOK
    <2>2. RoomOf(p, f)  BY <2>1 DEF RoomInv, DataInv, FileAt
    <2>3. ~ Reading(p, f)  BY DEF Idle, At, Reading
    <2>4. /\ st_size[p][f] = Room(p, f)
          /\ st_blocks[p][f] = Room(p, f) \/ Len(list[p][f]) > stored[f]
      BY <2>2, <2>3 DEF RoomOf
    <2>5. Room(p, f) \in Nat  BY FileTypes DEF TypeInv
    <2> QED  BY <2>4, <2>5
  <1> QED  BY <1>1, TypeInvariance, DataInvariance, PTL

-----------------------------------------------------------------------------
(* The refinement of BlockStore: which step is a call and which a return.  *)

\* The call of a process whose FUSE thread is in a handler.
CallOf(p) ==
    LET f == fuse[p].ino
    IN  IF fuse[p].at \in {"write", "allgather"}
          THEN [op |-> "write", ino |-> f, buf |-> SubSeq(m_buf[p][f], 1, st_size[p][f])]
          ELSE [op |-> "read", ino |-> f, n |-> st_size[p][f]]

\* It is the one call that anybody is in, before a step and after it.
LEMMA TheCall ==
    ASSUME NEW o \in Ranks
    PROVE  /\ Active = {} => InCall = [op |-> "none"]
           /\ Active' = {} => InCall' = [op |-> "none"]
           /\ Active = {o} => InCall = CallOf(o)
           /\ Active' = {o} => InCall' = CallOf(o)'
  <1>1. (CHOOSE p \in {o} : TRUE) = o  OBVIOUS
  <1>2. Active = {} => InCall = [op |-> "none"]  BY DEF InCall
  <1>3. Active' = {} => InCall' = [op |-> "none"]  BY DEF InCall
  <1>4. ASSUME Active = {o} PROVE InCall = CallOf(o)
    <2>1. PICK q : q = CHOOSE p \in Active : TRUE  OBVIOUS
    <2>2. q = o  BY <1>1, <1>4, <2>1
    <2>3. Active # {}  BY <1>4
    <2>4. InCall = CallOf(q)  BY <2>1, <2>3 DEF InCall, CallOf
    <2> QED  BY <2>2, <2>4
  <1>5. ASSUME Active' = {o} PROVE InCall' = CallOf(o)'
    <2>1. PICK q : q = CHOOSE p \in Active' : TRUE  OBVIOUS
    <2>2. q = o  BY <1>1, <1>5, <2>1
    <2>3. Active' # {}  BY <1>5
    <2>4. InCall' = CallOf(q)'  BY <2>1, <2>3 DEF InCall, CallOf
    <2> QED  BY <2>2, <2>4
  <1> QED  BY <1>2, <1>3, <1>4, <1>5

\* Only the root can be in a call.
LEMMA ActiveOnly ==
    ASSUME NEW o \in Ranks, \A p \in Ranks \ {o} : Rests(p)
    PROVE  /\ fuse[o].at \in {"write", "allgather", "read", "gather"} => Active = {o}
           /\ Rests(o) => Active = {}
  BY DEF Active, Rests

\* A step that leaves the call as it is.
LEMMA CallStays ==
    ASSUME \A q \in Ranks : \/ Rests(q) /\ Rests(q)'
                            \/ fuse'[q] = fuse[q] /\ m_buf'[q] = m_buf[q] /\ st_size'[q] = st_size[q]
    PROVE  InCall' = InCall
  <1>1. Active' = Active  BY DEF Active, Rests
  <1>2. PICK A, q : A = Active /\ q = CHOOSE p \in Active : TRUE  OBVIOUS
  <1>3. CASE A = {}  BY <1>1, <1>2, <1>3 DEF InCall
  <1>4. CASE A # {}
    <2>1. q \in A  BY <1>2, <1>4
    <2>2. fuse'[q] = fuse[q] /\ m_buf'[q] = m_buf[q] /\ st_size'[q] = st_size[q]
      BY <1>2, <2>1 DEF Active, Rests
    <2>3. q = CHOOSE p \in Active' : TRUE  BY <1>1, <1>2
    <2>4. InCall = CallOf(q)  BY <1>2, <1>4 DEF InCall, CallOf
    <2>5. InCall' = CallOf(q)'  BY <1>1, <1>2, <1>4, <2>3 DEF InCall, CallOf
    <2>6. CallOf(q)' = CallOf(q)  BY <2>2 DEF CallOf
    <2> QED  BY <2>4, <2>5, <2>6
  <1> QED  BY <1>3, <1>4

\* The blocks of a file are those at the addresses that the process keeps.
LEMMA BlocksAt ==
    ASSUME TypeInv, FilesInv, NEW o \in Ranks, o = origin, DataInv(o)
    PROVE  /\ Blocks = [f \in Inodes |-> Blocks[f]]
           /\ \A f \in Inodes :
                 /\ Blocks[f] = [i \in 1 .. stored[f] |-> mem[Owner(stored[f], i)][list[o][f][i]]]
                 /\ stored[f] \in Nat /\ Len(Blocks[f]) = stored[f]
                 /\ \A i \in 1 .. stored[f] :
                       list[o][f][i] \in 1 .. Len(mem[Owner(stored[f], i)])
  <1>1. Blocks = [f \in Inodes |-> Blocks[f]]  BY DEF Blocks
  <1>2. ASSUME NEW f \in Inodes
        PROVE  /\ stored[f] \in Nat
               /\ \A i \in 1 .. stored[f] :
                     list[o][f][i] \in 1 .. Len(mem[Owner(stored[f], i)])
    <2>1. StoredTold(o)  BY DEF DataInv
    <2> QED  BY <2>1, StoredFacts
  <1>3. ASSUME NEW f \in Inodes
        PROVE  /\ Blocks[f] = [i \in 1 .. stored[f] |-> mem[Owner(stored[f], i)][list[o][f][i]]]
               /\ Len(Blocks[f]) = stored[f]
    <2> DEFINE n == stored[f]
               blk(i) == mem[Owner(n, i)][list[o][f][i]]
    <2>1. Blocks[f] = [i \in 1 .. n |-> Fetch(Owner(n, i), list[o][f][i])]  BY DEF Blocks
    <2>2. \A i \in 1 .. n : Fetch(Owner(n, i), list[o][f][i]) = blk(i)  BY <1>2 DEF Fetch
    <2>3. Blocks[f] = [i \in 1 .. n |-> blk(i)]
      <3> HIDE DEF n, blk
      <3> QED  BY <2>1, <2>2
    <2>4. n \in Nat  BY <1>2
    <2>5. Len([i \in 1 .. n |-> blk(i)]) = n
      <3> HIDE DEF n, blk
      <3> QED  BY <2>4
    <2> QED  BY <2>3, <2>5
  <1> QED  BY <1>1, <1>2, <1>3

\* What is stored stays as it is where lists and sizes do and blocks are only added.
LEMMA BlocksStay ==
    ASSUME TypeInv, TypeInv', FilesInv, NEW o \in Ranks, o = origin, DataInv(o),
           NEW p \in Ranks, p = origin', list'[p] = list[o], stored' = stored,
           mem' = mem \/ Extends(mem', mem)
    PROVE  Blocks' = Blocks
  <1>1. ASSUME NEW q \in Ranks, NEW a, a \in 1 .. Len(mem[q])
        PROVE  Fetch(q, a)' = Fetch(q, a)
    <2>1. Len(mem[q]) \in Nat /\ Len(mem'[q]) \in Nat  BY DEF TypeInv, TypeOK, Content
    <2>2. CASE mem' = mem  BY <2>2 DEF Fetch
    <2>3. CASE Extends(mem', mem)
      <3>1. Len(mem[q]) <= Len(mem'[q]) /\ mem'[q][a] = mem[q][a]  BY <1>1, <2>3 DEF Extends
      <3>2. a \in 1 .. Len(mem'[q])  BY <1>1, <2>1, <3>1
      <3> QED  BY <1>1, <3>1, <3>2 DEF Fetch
    <2> QED  BY <2>2, <2>3
  <1>2. ASSUME NEW f \in Inodes PROVE Blocks'[f] = Blocks[f]
    <2>1. PICK n, l : n = stored[f] /\ l = list[o][f]  OBVIOUS
    <2>2. Blocks[f] = [i \in 1 .. n |-> Fetch(Owner(n, i), l[i])]  BY <2>1 DEF Blocks
    <2>3. Blocks'[f] = [i \in 1 .. n |-> Fetch(Owner(n, i), l[i])']
      <3>1. stored'[f] = n /\ list'[origin'][f] = l  BY <2>1
      <3> QED  BY <3>1 DEF Blocks
    <2>4. ASSUME NEW i \in 1 .. n PROVE Fetch(Owner(n, i), l[i])' = Fetch(Owner(n, i), l[i])
      <3>1. l[i] \in 1 .. Len(mem[Owner(n, i)]) /\ n \in Nat  BY <2>1, BlocksAt
      <3>2. Owner(n, i) \in Ranks  BY <3>1, OwnerHolds
      <3> QED  BY <1>1, <3>1, <3>2
    <2> QED  BY <2>2, <2>3, <2>4
  <1>3. Blocks' = [f \in Inodes |-> Blocks'[f]] /\ Blocks = [f \in Inodes |-> Blocks[f]]
    BY DEF Blocks
  <1> QED  BY <1>2, <1>3

\* WriteInMemory adds blocks behind those there are.
LEMMA MemGrows ==
    ASSUME TypeInv, NEW p \in Ranks, NEW own \in Content, mem' = [mem EXCEPT ![p] = @ \o own]
    PROVE  Extends(mem', mem)
  <1>1. \A q \in Ranks : mem[q] \in Content /\ Len(mem[q]) \in Nat
    BY DEF TypeInv, TypeOK, Content
  <1>2. PICK m, m2 : m = mem /\ m2 = mem'  OBVIOUS
  <1>3. m2[p] = m[p] \o own /\ \A q \in Ranks \ {p} : m2[q] = m[q]
    BY <1>2 DEF TypeInv, TypeOK
  <1>4. /\ Len(m[p]) <= Len(m[p] \o own)
        /\ \A a \in 1 .. Len(m[p]) : (m[p] \o own)[a] = m[p][a]
    <2>1. m[p] \in Content  BY <1>1, <1>2
    <2> QED  BY <2>1 DEF Content
  <1>5. ASSUME NEW q \in Ranks
        PROVE  Len(m[q]) <= Len(m2[q]) /\ \A a \in 1 .. Len(m[q]) : m2[q][a] = m[q][a]
    <2>1. CASE q = p  BY <1>3, <1>4, <2>1
    <2>2. CASE q # p
      <3>1. m2[q] = m[q] /\ Len(m[q]) \in Nat  BY <1>1, <1>2, <1>3, <2>2
      <3> QED  BY <3>1
    <2> QED  BY <2>1, <2>2
  <1> QED  BY <1>2, <1>5 DEF Extends

\* A process whose users come keeps the same addresses as the one whose users came
\* before.
LEMMA TurnList ==
    ASSUME TypeInv, FilesInv, NEW o \in Ranks, o = origin, InOrder(o), DataInv(o),
           NEW p \in Ranks, Turn(p)
    PROVE  list[p] = list[o] /\ (\A q \in Ranks : q # p => Rests(q)) /\ (p # o => Rests(p))
  <1>1. CASE p = o  BY <1>1 DEF InOrder, OnlyRoot
  <1>2. CASE p # o
    <2>1. InOrder(p)  BY TurnStep
    <2>2. /\ Len(calls[p]) \in Nat /\ Len(calls[o]) \in Nat
          /\ Len(calls[p]) <= Len(calls[o]) /\ Len(calls[o]) <= Len(calls[p])
      BY <2>1, Behind
    <2>3. Len(calls[p]) = Len(calls[o])  BY <2>2
    <2>4. \A q \in Ranks : "allgather" \notin {fuse[q].at, loop[q].at} /\ Rests(q)
      BY <1>2 DEF Turn, Quiet, Resting, At, Rests
    <2>5. Through(p) = Through(o)  BY <2>3, <2>4, ThroughAll
    <2>6. StoredTold(o)  BY DEF DataInv
    <2>7. list[p] = list[o]  BY <2>5, <2>6, StoredFacts
    <2> QED  BY <2>4, <2>7
  <1> QED  BY <1>1, <1>2

\* A step that BlockStore does not see.
Unseen == UNCHANGED <<InCall, Blocks, result>>

\* DAGonFS_Write stores the share of the root and scatters the others.
LEMMA RootWriteUnseen ==
    ASSUME TypeInv, TypeInv', FilesInv, NEW o \in Ranks, o = origin, InOrder(o), DataInv(o),
           NEW p \in Ranks, RootWrite(p)
    PROVE  Unseen
  <1> DEFINE f   == fuse[p].ino
             n   == st_size[p][f]
             buf == Items(m_buf[p][f], n, Garbage)
             own == Share(buf, n, p)
  <1>1. /\ fuse[p].at = "write" /\ mem' = [mem EXCEPT ![p] = @ \o own]
        /\ fuse' = [fuse EXCEPT ![p] = Handling("allgather", f)]
        /\ UNCHANGED <<list, stored, result, origin, attrs, buffer>>
    BY Zenon DEF RootWrite, told, users
  <1>2. p = o  BY <1>1, InHandler DEF Rests
  <1>3. /\ fuse'[o].at = "allgather" /\ fuse'[o].ino = fuse[o].ino
        /\ \A q \in Ranks \ {o} : fuse'[q] = fuse[q] /\ Rests(q)
    BY <1>1, <1>2 DEF TypeInv, Kinds, Handling, InOrder, OnlyRoot
  <1>4. InCall' = InCall
    <2>1. Active = {o} /\ Active' = {o}  BY <1>1, <1>2, <1>3 DEF Active, Rests
    <2>2. CallOf(o)' = CallOf(o)  BY <1>1, <1>2, <1>3 DEF CallOf, attrs, buffer
    <2> QED  BY <2>1, <2>2, TheCall
  <1>5. own \in Content
    <2>1. f \in Inodes /\ n \in Nat /\ m_buf[p][f] # NoBuf /\ m_buf[p][f] \in Content \cup {NoBuf}
      BY <1>1, RootFacts DEF TypeInv, Buffered
    <2>2. buf \in Content /\ Len(buf) = n
      <3> HIDE DEF f, n
      <3> QED  BY <2>1, BufferItems
    <2> HIDE DEF buf, n
    <2> QED  BY <2>1, <2>2, ShareOfItems DEF Content
  <1> HIDE DEF own
  <1>6. Extends(mem', mem)  BY <1>1, <1>5, MemGrows
  <1>7. origin' = o /\ list'[o] = list[o] /\ stored' = stored  BY <1>1
  <1>8. Blocks' = Blocks  BY <1>6, <1>7, BlocksStay
  <1> QED  BY <1>1, <1>4, <1>8 DEF Unseen

\* The root of a write returns from it: the blocks of the file are those of m_buf.
LEMMA RootWrittenReturns ==
    ASSUME TypeInv, FilesInv, NEW o \in Ranks, o = origin, InOrder(o), DataInv(o),
           NEW p \in Ranks, RootWritten(p)
    PROVE  Abstract!Returns
  <1>1. /\ fuse[p].at = "allgather" /\ AllIn(p)
        /\ list' = [list EXCEPT ![p][fuse[p].ino] = UpdateList(@, Gathered(p))]
        /\ stored' = [stored EXCEPT ![fuse[p].ino] = Current(p).n]
        /\ fuse' = [fuse EXCEPT ![p] = At("idle")]
        /\ UNCHANGED <<mem, result, origin>>
    BY DEF RootWritten, users
  <1>2. p = o  BY <1>1, InHandler DEF Rests
  <1>0. PICK h, n, g, b :
            h = fuse[o].ino /\ n = st_size[o][h] /\ g = Gathered(o) /\ b = m_buf[o][h]
    OBVIOUS
  <1>3. /\ h = fuse[o].ino /\ n = st_size[o][h] /\ g = Gathered(o) /\ b = m_buf[o][h]
        /\ h \in Inodes /\ n \in Nat /\ Current(o).n = n
        /\ b \in Seq(Block) /\ Len(b) = n /\ g \in Seq(Nat) /\ Len(g) = n
        /\ \A i \in 1 .. n : /\ g[i] \in 1 .. Len(mem[Owner(n, i)])
                             /\ mem[Owner(n, i)][g[i]] = b[i]
    <2>1. LET f == fuse[o].ino
              m == st_size[o][f]
          IN  /\ f \in Inodes /\ m \in Nat /\ Current(o).n = m
              /\ m_buf[o][f] \in Seq(Block) /\ Len(m_buf[o][f]) = m
              /\ Gathered(o) \in Seq(Nat) /\ Len(Gathered(o)) = m
              /\ \A i \in 1 .. m : /\ Gathered(o)[i] \in 1 .. Len(mem[Owner(m, i)])
                                   /\ mem[Owner(m, i)][Gathered(o)[i]] = m_buf[o][f][i]
      BY <1>1, <1>2, GathersAddresses
    <2> QED  BY <1>0, <2>1
  <1>4. InCall = [op |-> "write", ino |-> h, buf |-> b]
    <2>1. Active = {o}  BY <1>1, <1>2, ActiveOnly DEF InOrder, OnlyRoot
    <2>2. CallOf(o) = [op |-> "write", ino |-> h, buf |-> SubSeq(b, 1, n)]
      BY <1>1, <1>2, <1>3 DEF CallOf
    <2>3. SubSeq(b, 1, n) = b  BY <1>3, SubSeqFull
    <2> QED  BY <2>1, <2>2, <2>3, TheCall
  <1>5. InCall' = [op |-> "none"]
    <2>1. fuse'[o].at = "idle" /\ \A q \in Ranks \ {o} : fuse'[q] = fuse[q] /\ Rests(q)
      BY <1>1, <1>2 DEF TypeInv, Kinds, At, InOrder, OnlyRoot
    <2>2. Active' = {}  BY <2>1 DEF Active, Rests
    <2> QED  BY <2>2, TheCall
  <1>6. /\ stored'[h] = n /\ \A k \in Inodes \ {h} : stored'[k] = stored[k]
        /\ list'[o][h] = UpdateList(list[o][h], g)
        /\ \A k \in Inodes \ {h} : list'[o][k] = list[o][k]
    <2>1. stored \in [Inodes -> Nat] /\ list \in PerFile(Seq(Nat))  BY DEF TypeInv, TypeOK
    <2>2. stored' = [stored EXCEPT ![h] = n]  BY <1>1, <1>2, <1>3
    <2>3. list' = [list EXCEPT ![o][h] = UpdateList(list[o][h], g)]  BY <1>1, <1>2, <1>3
    <2>4. PICK u : u = UpdateList(list[o][h], g)  OBVIOUS
    <2>5. list' = [list EXCEPT ![o][h] = u]  BY <2>3, <2>4
    <2>6. list'[o][h] = u /\ \A k \in Inodes \ {h} : list'[o][k] = list[o][k]
      BY <1>3, <2>1, <2>5 DEF PerFile
    <2> QED  BY <1>3, <2>1, <2>2, <2>4, <2>6
  <1>7. \A i \in 1 .. n : list'[o][h][i] = g[i]
    <2>1. PICK l : l = list[o][h] /\ l \in Seq(Nat)
      BY <1>3 DEF TypeInv, TypeOK, PerFile
    <2>2. \A i \in 1 .. n : i <= Len(g) /\ i \in 1 .. Max(Len(l), Len(g))
      <3>1. Len(l) \in Nat /\ Len(g) \in Nat  BY <1>3, <2>1
      <3> QED  BY <1>3, <3>1 DEF Max
    <2>3. \A i \in 1 .. n : UpdateList(l, g)[i] = g[i]  BY <2>2 DEF UpdateList
    <2> QED  BY <1>6, <2>1, <2>3
  <1>8. Blocks'[h] = b
    <2>1. PICK l : l = list'[o][h]  OBVIOUS
    <2>2. Blocks'[h] = [i \in 1 .. n |-> Fetch(Owner(n, i), l[i])']
      <3>1. stored'[h] = n /\ origin' = o /\ list'[origin'][h] = l  BY <1>1, <1>6, <2>1
      <3> QED  BY <1>3, <3>1 DEF Blocks
    <2>3. ASSUME NEW i \in 1 .. n PROVE Fetch(Owner(n, i), l[i])' = b[i]
      <3>1. l[i] = g[i] /\ mem' = mem  BY <1>1, <1>7, <2>1
      <3> QED  BY <1>3, <3>1 DEF Fetch
    <2>4. b = [i \in 1 .. n |-> b[i]]
      <3>1. b = [i \in 1 .. Len(b) |-> b[i]]  BY <1>3
      <3> QED  BY <1>3, <3>1
    <2> QED  BY <2>2, <2>3, <2>4
  <1>9. ASSUME NEW k \in Inodes \ {h} PROVE Blocks'[k] = Blocks[k]
    <2>1. PICK m, l : m = stored[k] /\ l = list[o][k]  OBVIOUS
    <2>2. Blocks[k] = [i \in 1 .. m |-> Fetch(Owner(m, i), l[i])]  BY <2>1 DEF Blocks
    <2>3. Blocks'[k] = [i \in 1 .. m |-> Fetch(Owner(m, i), l[i])']
      <3>1. stored'[k] = m /\ origin' = o /\ list'[origin'][k] = l  BY <1>1, <1>6, <2>1
      <3> QED  BY <3>1 DEF Blocks
    <2>4. \A i \in 1 .. m : Fetch(Owner(m, i), l[i])' = Fetch(Owner(m, i), l[i])
      BY <1>1 DEF Fetch
    <2> QED  BY <2>2, <2>3, <2>4
  <1>10. Blocks' = [Blocks EXCEPT ![h] = b]
    <2>1. Blocks' = [f \in Inodes |-> Blocks'[f]] /\ Blocks = [f \in Inodes |-> Blocks[f]]
      BY DEF Blocks
    <2> QED  BY <1>8, <1>9, <2>1
  <1> QED
    BY <1>1, <1>4, <1>5, <1>10 DEF Abstract!Returns, Abstract!NoCall, Abstract!Store

\* The root of a read is in it, or returns from it if the file is empty.
LEMMA RootReadReturns ==
    ASSUME TypeInv, TypeInv', FilesInv, NEW o \in Ranks, o = origin, InOrder(o), DataInv(o),
           NEW p \in Ranks, RootRead(p)
    PROVE  Unseen \/ Abstract!Returns
  <1>1. /\ fuse[p].at = "read" /\ UNCHANGED <<list, stored, mem, origin, attrs>>
    BY DEF RootRead, users, blocks
  <1>2. p = o  BY <1>1, InHandler DEF Rests
  <1>3. PICK h, n :
            /\ h = fuse[o].ino /\ n = st_size[o][h] /\ h \in Inodes /\ n = stored[h] /\ n \in Nat
    <2>1. LET f == fuse[o].ino
          IN  f \in Inodes /\ st_size[o][f] = stored[f] /\ stored[f] \in Nat
      BY <1>1, <1>2, RootAddresses
    <2> QED  BY <2>1
  <1>4. Blocks' = Blocks
    <2>1. origin' = o /\ list'[o] = list[o] /\ stored' = stored /\ mem' = mem  BY <1>1
    <2> QED  BY <2>1, BlocksStay
  <1>5. InCall = [op |-> "read", ino |-> h, n |-> n] /\ Active = {o}
    <2>1. Active = {o}  BY <1>1, <1>2, ActiveOnly DEF InOrder, OnlyRoot
    <2>2. CallOf(o) = [op |-> "read", ino |-> h, n |-> n]  BY <1>1, <1>2, <1>3 DEF CallOf
    <2> QED  BY <2>1, <2>2, TheCall
  <1>6. \A q \in Ranks \ {o} : Rests(q)  BY DEF InOrder, OnlyRoot
  <1>7. CASE n = 0
    <2>1. fuse' = [fuse EXCEPT ![o] = At("idle")] /\ result' = <<>>
      BY <1>2, <1>3, <1>7 DEF RootRead
    <2>2. fuse'[o].at = "idle" /\ \A q \in Ranks \ {o} : fuse'[q] = fuse[q]
      BY <2>1 DEF TypeInv, Kinds, At
    <2>3. Active' = {}  BY <1>6, <2>2 DEF Active, Rests
    <2>4. InCall' = [op |-> "none"]  BY <2>3, TheCall
    <2>5. Len(Blocks[h]) = 0 /\ Blocks[h] = <<>>
      <3>1. Len(Blocks[h]) = n  BY <1>3, BlocksAt
      <3>2. Blocks[h] = [i \in 1 .. n |-> mem[Owner(n, i)][list[o][h][i]]]  BY <1>3, BlocksAt
      <3>3. 1 .. 0 = {}  OBVIOUS
      <3>4. \A e : [i \in {} |-> e] = <<>>  OBVIOUS
      <3> QED  BY <1>7, <3>1, <3>2, <3>3
    <2>6. result' \in Abstract!Loadable(h, n)  BY <1>7, <2>1, <2>5 DEF Abstract!Loadable
    <2> QED  BY <1>4, <1>5, <2>4, <2>6 DEF Abstract!Returns, Abstract!NoCall, Abstract!Load
  <1>8. CASE n # 0
    <2>1. fuse' = [fuse EXCEPT ![o] = Handling("gather", h)] /\ result' = result
      BY <1>2, <1>3, <1>8 DEF RootRead
    <2>2. /\ fuse'[o].at = "gather" /\ fuse'[o].ino = h
          /\ \A q \in Ranks \ {o} : fuse'[q] = fuse[q]
      BY <2>1 DEF TypeInv, Kinds, Handling
    <2>3. Active' = {o}  BY <1>6, <2>2 DEF Active, Rests
    <2>4. CallOf(o)' = [op |-> "read", ino |-> h, n |-> n]
      BY <1>1, <1>3, <2>2 DEF CallOf, attrs
    <2>5. InCall' = InCall  BY <1>5, <2>3, <2>4, TheCall
    <2> QED  BY <1>4, <2>1, <2>5 DEF Unseen
  <1> QED  BY <1>7, <1>8

\* The root of a read returns from it with the blocks of the file.
LEMMA RootLoadedReturns ==
    ASSUME TypeInv, TypeInv', FilesInv, NEW o \in Ranks, o = origin, InOrder(o), DataInv(o),
           NEW p \in Ranks, RootLoaded(p)
    PROVE  Abstract!Returns
  <1>1. /\ fuse[p].at = "gather" /\ AllIn(p) /\ result' = Gathered(p)
        /\ fuse' = [fuse EXCEPT ![p] = At("idle")]
        /\ UNCHANGED <<list, stored, mem, origin>>
    BY DEF RootLoaded, users, blocks
  <1>2. p = o  BY <1>1, InHandler DEF Rests
  <1>3. PICK h, n :
            /\ h = fuse[o].ino /\ n = st_size[o][h] /\ h \in Inodes /\ n = stored[h] /\ n \in Nat
    <2>1. LET f == fuse[o].ino
          IN  f \in Inodes /\ st_size[o][f] = stored[f] /\ stored[f] \in Nat
      BY <1>1, <1>2, RootAddresses
    <2> QED  BY <2>1
  <1>4. Blocks' = Blocks
    <2>1. origin' = o /\ list'[o] = list[o] /\ stored' = stored /\ mem' = mem  BY <1>1
    <2> QED  BY <2>1, BlocksStay
  <1>5. InCall = [op |-> "read", ino |-> h, n |-> n]
    <2>1. Active = {o}  BY <1>1, <1>2, ActiveOnly DEF InOrder, OnlyRoot
    <2>2. CallOf(o) = [op |-> "read", ino |-> h, n |-> n]  BY <1>1, <1>2, <1>3 DEF CallOf
    <2> QED  BY <2>1, <2>2, TheCall
  <1>6. InCall' = [op |-> "none"]
    <2>1. fuse'[o].at = "idle" /\ \A q \in Ranks \ {o} : fuse'[q] = fuse[q] /\ Rests(q)
      BY <1>1, <1>2 DEF TypeInv, Kinds, At, InOrder, OnlyRoot
    <2>2. Active' = {}  BY <2>1 DEF Active, Rests
    <2> QED  BY <2>2, TheCall
  <1>7. result' = Blocks[h] /\ Len(Blocks[h]) = n
    <2>1. Gathered(o) = [i \in 1 .. n |-> mem[Owner(n, i)][list[o][h][i]]]
      BY SMTT(20), <1>1, <1>2, <1>3, GathersBlocks
    <2>2. Blocks[h] = [i \in 1 .. n |-> mem[Owner(n, i)][list[o][h][i]]] /\ Len(Blocks[h]) = n
      BY <1>3, BlocksAt
    <2> QED  BY <1>1, <1>2, <2>1, <2>2
  <1>8. result' \in Abstract!Loadable(h, n)  BY <1>7 DEF Abstract!Loadable
  <1> QED
    BY <1>4, <1>5, <1>6, <1>8 DEF Abstract!Returns, Abstract!NoCall, Abstract!Load

\* Nothing else that threads do is seen.
LEMMA SecondUnseen ==
    ASSUME TypeInv, TypeInv', FilesInv, NEW o \in Ranks, o = origin, InOrder(o), DataInv(o),
           NEW p \in Ranks, SessionEnds(p) \/ Second(p)
    PROVE  Unseen
  <1>1. fuse \in [Ranks -> FusePlace] /\ loop \in [Ranks -> LoopPlace]  BY DEF TypeInv, Kinds
  <1>2. ASSUME UNCHANGED <<list, mem, stored, result, origin, m_buf, st_size>>,
               \A q \in Ranks : fuse'[q] = fuse[q] \/ (Rests(q) /\ Rests(q)')
        PROVE  Unseen
    <2>1. InCall' = InCall  BY <1>2, CallStays
    <2>2. origin' = o /\ list'[o] = list[o] /\ stored' = stored /\ mem' = mem  BY <1>2
    <2>3. Blocks' = Blocks  BY <2>2, BlocksStay
    <2> QED  BY <1>2, <2>1, <2>3 DEF Unseen
  <1>3. CASE SessionEnds(p)
    <2>1. /\ fuse[p].at = "unmounted" /\ fuse' = [fuse EXCEPT ![p] = At("ended")]
          /\ UNCHANGED <<list, mem, stored, result, origin, m_buf, st_size>>
      BY <1>3 DEF SessionEnds, attrs, buffer, blocks, told, users
    <2>2. fuse'[p].at = "ended" /\ \A q \in Ranks \ {p} : fuse'[q] = fuse[q]
      BY <1>1, <2>1 DEF At
    <2>3. \A q \in Ranks : fuse'[q] = fuse[q] \/ (Rests(q) /\ Rests(q)')
      BY <2>1, <2>2 DEF Rests
    <2> QED  BY <1>2, <2>1, <2>3
  <1>4. CASE ReceiveHeader(p) \/ ReceiveIO(p)
    <2>1. UNCHANGED <<attrs, buffer, blocks, fuse, calls, told, users>>  BY <1>4, ReceiveLoop
    <2>2. UNCHANGED <<list, mem, stored, result, origin, m_buf, st_size>>
          /\ \A q \in Ranks : fuse'[q] = fuse[q] \/ (Rests(q) /\ Rests(q)')
      BY <2>1 DEF attrs, buffer, blocks, told, users
    <2> QED  BY <1>2, <2>2
  <1>5. CASE JoinRead(p)
    <2>1. UNCHANGED <<list, mem, stored, result, origin, m_buf, st_size>>
          /\ \A q \in Ranks : fuse'[q] = fuse[q] \/ (Rests(q) /\ Rests(q)')
      BY <1>5 DEF JoinRead, attrs, buffer, blocks, told, users
    <2> QED  BY <1>2, <2>1
  <1>6. CASE UnmountFromThread(p)
    <2>1. /\ UNCHANGED <<list, mem, stored, result, origin, m_buf, st_size>>
          /\ fuse' = fuse \/ (fuse[p] = At("idle") /\ fuse' = [fuse EXCEPT ![p] = At("unmounted")])
      BY <1>1, <1>6 DEF UnmountFromThread, attrs, buffer, blocks, told, users, Idle
    <2>2. /\ \A q \in Ranks \ {p} : fuse'[q] = fuse[q]
          /\ fuse'[p] = fuse[p] \/ (fuse[p].at = "idle" /\ fuse'[p].at = "unmounted")
      BY <1>1, <2>1 DEF At
    <2>3. \A q \in Ranks : fuse'[q] = fuse[q] \/ (Rests(q) /\ Rests(q)')
      BY <2>2 DEF Rests
    <2> QED  BY <1>2, <2>1, <2>3
  <1>7. CASE JoinWrite(p)
    <2>1. /\ Joins(p, "WRITE")
          /\ mem' = [mem EXCEPT ![p] = @ \o ShareOf(p, loop[p].root, loop[p].size)]
          /\ UNCHANGED <<list, stored, result, origin, m_buf, st_size, fuse>>
      BY <1>7 DEF JoinWrite, attrs, buffer, told, users
    <2>2. ShareOf(p, loop[p].root, loop[p].size) \in Content
      BY <2>1, ShareOfType DEF Ops
    <2>3. Extends(mem', mem)  BY <2>1, <2>2, MemGrows
    <2>4. origin' = o /\ list'[o] = list[o] /\ stored' = stored  BY <2>1
    <2>5. Blocks' = Blocks  BY <2>3, <2>4, BlocksStay
    <2>6. InCall' = InCall  BY <2>1, CallStays
    <2> QED  BY <2>1, <2>5, <2>6 DEF Unseen
  <1>8. CASE Joined(p)
    <2>1. /\ loop[p].at = "allgather"
          /\ list' = [list EXCEPT ![p][loop[p].ino] = UpdateList(@, Gathered(p))]
          /\ st_size' = [st_size EXCEPT ![p][loop[p].ino] = loop[p].size]
          /\ UNCHANGED <<mem, stored, result, origin, m_buf, fuse>>
      BY <1>8 DEF Joined, buffer, told, users
    <2>2. p # o /\ Rests(p)  BY <2>1 DEF InOrder, OnlyRoot, Alone
    <2>3. list \in PerFile(Seq(Nat)) /\ st_size \in PerFile(Nat)  BY DEF TypeInv, TypeOK
    <2>4. \A q \in Ranks \ {p} : list'[q] = list[q] /\ st_size'[q] = st_size[q]
      BY <2>1, <2>3 DEF PerFile
    <2>5. \A q \in Ranks : \/ Rests(q) /\ Rests(q)'
                           \/ fuse'[q] = fuse[q] /\ m_buf'[q] = m_buf[q] /\ st_size'[q] = st_size[q]
      BY <2>1, <2>2, <2>4 DEF Rests
    <2>6. InCall' = InCall  BY <2>5, CallStays
    <2>7. origin' = o /\ list'[o] = list[o] /\ stored' = stored /\ mem' = mem
      BY <2>1, <2>2, <2>4
    <2>8. Blocks' = Blocks  BY <2>7, BlocksStay
    <2> QED  BY <2>1, <2>6, <2>8 DEF Unseen
  <1> QED  BY <1>3, <1>4, <1>5, <1>6, <1>7, <1>8 DEF Second

\* Users come to a process: nobody is in a call, and the blocks are the same seen
\* from there.
LEMMA ComesSeen ==
    ASSUME TypeInv, TypeInv', FilesInv, NEW o \in Ranks, o = origin, InOrder(o), DataInv(o),
           NEW p \in Ranks, fuse[p].at = "idle", NEW rule, Comes(p, rule), orderly',
           UNCHANGED <<list, mem, stored>>
    PROVE  /\ InCall = [op |-> "none"] /\ Blocks' = Blocks
           /\ \A q \in Ranks : Rests(q)
  <1>1. origin' = p /\ Turn(p)  BY DEF Comes
  <1>2. list[p] = list[o] /\ \A q \in Ranks : q # p => Rests(q)  BY <1>1, TurnList
  <1>3. Blocks' = Blocks
    <2>1. p = origin' /\ list'[p] = list[o] /\ stored' = stored /\ mem' = mem  BY <1>1, <1>2
    <2> QED  BY <2>1, BlocksStay
  <1>4. \A q \in Ranks : Rests(q)  BY <1>2 DEF Rests
  <1>5. Active = {}  BY <1>4, ActiveOnly
  <1> QED  BY <1>3, <1>4, <1>5, TheCall

\* A handler that users are answered by calls DAGonFS_Read or DAGonFS_Write, or
\* nothing.
LEMMA UserCalls ==
    ASSUME TypeInv, TypeInv', FilesInv, NEW o \in Ranks, o = origin, InOrder(o), DataInv(o),
           NEW p \in Ranks, User(p), orderly'
    PROVE  Unseen \/ Abstract!Calls
  <1>0. fuse \in [Ranks -> FusePlace]  BY DEF TypeInv, Kinds
  <1>1. CASE Unmount(p)
    <2>1. /\ fuse[p] = At("idle") /\ fuse' = [fuse EXCEPT ![p] = At("unmounted")]
          /\ UNCHANGED <<list, mem, stored, result>>
          /\ Comes(p, \A q \in Ranks : NothingOpen(q))
      BY <1>1 DEF Unmount, Idle, blocks, told
    <2>2. fuse[p].at = "idle" /\ fuse'[p].at = "unmounted" /\ \A q \in Ranks \ {p} : fuse'[q] = fuse[q]
      BY <1>0, <2>1 DEF At
    <2>3. /\ InCall = [op |-> "none"] /\ Blocks' = Blocks /\ \A q \in Ranks : Rests(q)
      BY <2>1, <2>2, ComesSeen
    <2>4. Active' = {}  BY <2>2, <2>3 DEF Active, Rests
    <2>5. InCall' = [op |-> "none"]  BY <2>4, TheCall
    <2> QED  BY <2>1, <2>3, <2>5 DEF Unseen
  <1>2. ASSUME NEW f \in Inodes, FuseFlush(p, f) PROVE Unseen \/ Abstract!Calls
    <2>1. /\ fuse[p] = At("idle") /\ handle[p][f] # "closed"
          /\ UNCHANGED <<list, mem, stored, result, st_size>>
      BY <1>2 DEF FuseFlush, Idle, blocks, told, attrs
    <2>2. fuse[p].at = "idle"  BY <2>1 DEF At
    <2>3. CASE m_buf[p][f] # NoBuf /\ waiting[p][f]
      <3>1. /\ fuse' = [fuse EXCEPT ![p] = Handling("write", f)] /\ UNCHANGED buffer
            /\ Comes(p, TRUE)
        BY <1>2, <2>3 DEF FuseFlush
      <3>2. /\ fuse'[p].at = "write" /\ fuse'[p].ino = f
            /\ \A q \in Ranks \ {p} : fuse'[q] = fuse[q]
        BY <1>0, <3>1 DEF Handling
      <3>3. InCall = [op |-> "none"] /\ Blocks' = Blocks /\ \A q \in Ranks : Rests(q)
        BY <2>1, <2>2, <3>1, ComesSeen
      <3>4. PICK b, n : b = m_buf[p][f] /\ n = st_size[p][f]  OBVIOUS
      <3>5. b \in Seq(Block) /\ Len(b) = n /\ n \in 0 .. MaxSize
        <4>1. FileAt(p, f) /\ ~ Reading(p, f)  BY <2>2 DEF DataInv, Reading
        <4>2. b \in Seq(Block) /\ Len(b) = n /\ n <= MaxSize
          BY <2>1, <2>3, <3>4, <4>1 DEF FileAt, BufferOf, RoomOf, SizesOf, Room
        <4>3. n \in Nat  BY <3>4, FileTypes DEF TypeInv
        <4> QED  BY <4>2, <4>3, P2PDataAssumption
      <3>6. InCall' = [op |-> "write", ino |-> f, buf |-> b]
        <4>1. Active' = {p}  BY <3>2, <3>3 DEF Active, Rests
        <4>2. CallOf(p)' = [op |-> "write", ino |-> f, buf |-> SubSeq(b, 1, n)]
          <5>1. m_buf'[p][f] = b /\ st_size'[p][f] = n  BY <2>1, <3>1, <3>4 DEF buffer
          <5> QED  BY <3>2, <5>1 DEF CallOf
        <4>3. SubSeq(b, 1, n) = b  BY <3>5, SubSeqFull
        <4> QED  BY <4>1, <4>2, <4>3, TheCall
      <3>7. b \in [1 .. n -> Block]  BY <3>5
      <3> QED
        BY <2>1, <3>3, <3>5, <3>6, <3>7 DEF Abstract!Calls, Abstract!NoCall, Abstract!Write
    <2>4. CASE ~ (m_buf[p][f] # NoBuf /\ waiting[p][f])
      <3>1. /\ m_buf' = [m_buf EXCEPT ![p][f] = NoBuf] /\ UNCHANGED <<fuse, origin>>
        BY <1>2, <2>4 DEF FuseFlush
      <3>2. m_buf \in PerFile(Content \cup {NoBuf})  BY DEF TypeInv, TypeOK
      <3>3. \A q \in Ranks \ {p} : m_buf'[q] = m_buf[q]  BY <3>1, <3>2 DEF PerFile
      <3>4. \A q \in Ranks : \/ Rests(q) /\ Rests(q)'
                             \/ fuse'[q] = fuse[q] /\ m_buf'[q] = m_buf[q] /\ st_size'[q] = st_size[q]
        BY <2>1, <2>2, <3>1, <3>3 DEF Rests
      <3>5. InCall' = InCall  BY <3>4, CallStays
      <3>6. origin' = o /\ list'[o] = list[o] /\ stored' = stored /\ mem' = mem
        BY <2>1, <3>1
      <3>7. Blocks' = Blocks  BY <3>6, BlocksStay
      <3> QED  BY <2>1, <3>5, <3>7 DEF Unseen
    <2> QED  BY <2>3, <2>4
  <1>3. ASSUME NEW f \in Inodes, NEW mode \in Modes, FuseOpen(p, f, mode)
        PROVE  Unseen \/ Abstract!Calls
    <2>1. /\ fuse[p] = At("idle") /\ Comes(p, MayOpen(p, f, mode))
          /\ UNCHANGED <<list, mem, stored, result>>
          /\ IF mode = "w" THEN UNCHANGED fuse
             ELSE fuse' = [fuse EXCEPT ![p] = Handling("read", f)] /\ UNCHANGED st_size
      BY <1>3 DEF FuseOpen, Idle, blocks, told, attrs
    <2>2. fuse[p].at = "idle"  BY <2>1 DEF At
    <2>3. InCall = [op |-> "none"] /\ Blocks' = Blocks /\ \A q \in Ranks : Rests(q)
      BY <2>1, <2>2, ComesSeen
    <2>4. CASE mode = "w"
      <3>1. Active' = {}  BY <2>1, <2>3, <2>4 DEF Active, Rests
      <3>2. InCall' = [op |-> "none"]  BY <3>1, TheCall
      <3> QED  BY <2>1, <2>3, <3>2 DEF Unseen
    <2>5. CASE mode # "w"
      <3>1. /\ fuse'[p].at = "read" /\ fuse'[p].ino = f
            /\ \A q \in Ranks \ {p} : fuse'[q] = fuse[q]
        BY <1>0, <2>1, <2>5 DEF Handling
      <3>2. PICK n : n = st_size[p][f]  OBVIOUS
      <3>3. n \in 0 .. MaxSize
        <4>1. n \in Nat /\ n <= MaxSize
          BY <3>2, FileTypes DEF TypeInv, DataInv, FileAt, SizesOf
        <4> QED  BY <4>1, P2PDataAssumption
      <3>4. InCall' = [op |-> "read", ino |-> f, n |-> n]
        <4>1. Active' = {p}  BY <2>3, <3>1 DEF Active, Rests
        <4>2. CallOf(p)' = [op |-> "read", ino |-> f, n |-> n]
          <5>1. st_size'[p][f] = n  BY <2>1, <2>5, <3>2
          <5> QED  BY <3>1, <5>1 DEF CallOf
        <4> QED  BY <4>1, <4>2, TheCall
      <3> QED
        BY <2>1, <2>3, <3>3, <3>4 DEF Abstract!Calls, Abstract!NoCall, Abstract!Read
    <2> QED  BY <2>4, <2>5
  <1>4. ASSUME NEW f \in Inodes, NEW off \in Nat, NEW data \in Payloads, FuseWrite(p, f, off, data)
        PROVE  Unseen
    <2>1. /\ fuse[p].at = "idle" /\ UNCHANGED <<list, mem, stored, result, fuse, origin>>
          /\ st_size' = [st_size EXCEPT ![p][f] = Max(@, off + Len(data))]
      BY <1>4 DEF FuseWrite, Idle, At, blocks, told
    <2>2. \E v : m_buf' = [m_buf EXCEPT ![p][f] = v]
      <3> DEFINE newSize == off + Len(data)
                 held == IF m_buf[p][f] = NoBuf THEN <<>> ELSE m_buf[p][f]
                 room == IF newSize > st_blocks[p][f] THEN Items(held, newSize, Garbage) ELSE held
                 buf  == [i \in DOMAIN room |->
                             IF i \in off + 1 .. newSize THEN data[i - off] ELSE room[i]]
      <3>1. m_buf' = [m_buf EXCEPT ![p][f] = buf]  BY <1>4 DEF FuseWrite
      <3> QED  BY <3>1
    <2>3. m_buf \in PerFile(Content \cup {NoBuf}) /\ st_size \in PerFile(Nat)
      BY DEF TypeInv, TypeOK
    <2>4. \A q \in Ranks \ {p} : m_buf'[q] = m_buf[q] /\ st_size'[q] = st_size[q]
      BY <2>1, <2>2, <2>3 DEF PerFile
    <2>5. \A q \in Ranks : \/ Rests(q) /\ Rests(q)'
                           \/ fuse'[q] = fuse[q] /\ m_buf'[q] = m_buf[q] /\ st_size'[q] = st_size[q]
      BY <2>1, <2>4 DEF Rests
    <2>6. InCall' = InCall  BY <2>5, CallStays
    <2>7. origin' = o /\ list'[o] = list[o] /\ stored' = stored /\ mem' = mem  BY <2>1
    <2>8. Blocks' = Blocks  BY <2>7, BlocksStay
    <2> QED  BY <2>1, <2>6, <2>8 DEF Unseen
  <1> QED  BY <1>1, <1>2, <1>3, <1>4, UserCases

\* The start is one of BlockStore.
LEMMA InitAbstract == ASSUME Init PROVE Abstract!Init
  <1>1. InCall = [op |-> "none"]
    <2>1. Active = {}  BY DEF Init, At, Active
    <2> QED  BY <2>1 DEF InCall
  <1>2. Blocks = [f \in Inodes |-> <<>>]
    <2>1. ASSUME NEW f \in Inodes PROVE Blocks[f] = <<>>
      <3>1. stored[f] = 0 /\ 1 .. 0 = {}  BY DEF Init
      <3> QED  BY <3>1 DEF Blocks
    <2>2. Blocks = [f \in Inodes |-> Blocks[f]]  BY DEF Blocks
    <2> QED  BY <2>1, <2>2
  <1>3. result = <<>>  BY DEF Init
  <1> QED  BY <1>1, <1>2, <1>3 DEF Abstract!Init, Abstract!NoCall

\* While users are orderly, DAGonFS_Write at any process replaces the blocks of a file
\* at one instant by those of m_buf and leaves the other files alone, and DAGonFS_Read
\* at any process returns them, for any number of processes, files and blocks.
THEOREM Refinement == Spec => ImplementsBlockStore
  <1>1. Init => Abstract!Init  BY InitAbstract
  <1>2. /\ TypeInv /\ TypeInv' /\ StepInv /\ (orderly => FilesInv) /\ RoomInv /\ [Next]_vars
        => [orderly' => Abstract!Next \/ UNCHANGED <<InCall, Blocks, result>>]_vars
    <2> SUFFICES ASSUME TypeInv, TypeInv', StepInv, orderly => FilesInv, RoomInv, Next, orderly'
                 PROVE  Abstract!Next \/ Unseen
      BY DEF Unseen
    <2>0. PICK o \in Ranks : o = origin  BY DEF TypeInv, TypeOK
    <2>1. ASSUME orderly, fault = "none" PROVE FilesInv /\ InOrder(o) /\ DataInv(o)
      BY <2>0, <2>1 DEF StepInv, RoomInv
    <2>2. ASSUME fault = "none", NEW p \in Ranks, Session(p) \/ Second(p)
          PROVE  Abstract!Next \/ Unseen
      <3>1. UNCHANGED users
        BY Zenon, <2>2 DEF Session, Second, RootWrite, RootWritten, RootRead, RootLoaded, SessionEnds,
                    ReceiveHeader, ReceiveIO, JoinWrite, Joined, JoinRead, UnmountFromThread
      <3>2. FilesInv /\ InOrder(o) /\ DataInv(o)  BY <2>1, <2>2, <3>1 DEF users
      <3>3. CASE RootWrite(p)  BY <2>0, <3>2, <3>3, RootWriteUnseen
      <3>4. CASE RootWritten(p)  BY <2>0, <3>2, <3>4, RootWrittenReturns DEF Abstract!Next
      <3>5. CASE RootRead(p)  BY <2>0, <3>2, <3>5, RootReadReturns DEF Abstract!Next
      <3>6. CASE RootLoaded(p)  BY <2>0, <3>2, <3>6, RootLoadedReturns DEF Abstract!Next
      <3>7. CASE SessionEnds(p) \/ Second(p)  BY <2>0, <3>2, <3>7, SecondUnseen
      <3> QED  BY <2>2, <3>3, <3>4, <3>5, <3>6, <3>7 DEF Session
    <2>3. ASSUME fault = "none", NEW p \in Ranks, User(p)
          PROVE  Abstract!Next \/ Unseen
      <3>1. \A f \in Inodes : FuseFlush(p, f) => orderly  BY DEF FuseFlush, Comes
      <3>2. \A f \in Inodes, mode \in Modes : FuseOpen(p, f, mode) => orderly
        BY DEF FuseOpen, Comes
      <3>3. \A f \in Inodes, off \in Nat, data \in Payloads :
                FuseWrite(p, f, off, data) => orderly
        BY DEF FuseWrite
      <3>4. Unmount(p) => orderly  BY DEF Unmount, Comes
      <3>5. orderly  BY <2>3, <3>1, <3>2, <3>3, <3>4, UserCases
      <3>6. FilesInv /\ InOrder(o) /\ DataInv(o)  BY <2>1, <2>3, <3>5
      <3>7. Unseen \/ Abstract!Calls  BY <2>0, <2>3, <3>6, UserCalls
      <3> QED  BY <3>7 DEF Abstract!Next
    <2>4. ASSUME fault = "none", NEW p \in Ranks, Crossed(p) PROVE Unseen
      <3>1. orderly  BY <2>4 DEF Crossed, users
      <3>2. InOrder(o)  BY <2>1, <2>4, <3>1
      <3> QED  BY <2>4, <3>2, NotCrossed
    <2>5. ASSUME UNCHANGED vars PROVE Unseen
      <3>1. UNCHANGED <<fuse, m_buf, st_size, stored, mem, list, origin, result>>
        BY <2>5 DEF vars, attrs, buffer, blocks, told, users
      <3>2. InCall' = InCall  BY <3>1 DEF InCall, Active
      <3>3. Blocks' = Blocks  BY <3>1 DEF Blocks, Fetch
      <3> QED  BY <3>1, <3>2, <3>3 DEF Unseen
    <2> QED  BY <2>2, <2>3, <2>4, <2>5 DEF Next, Rest
  <1> QED
    BY <1>1, <1>2, TypeInvariance, StepInvariance, FilesInvariance, DataInvariance, PTL
    DEF Spec, ImplementsBlockStore

==============================================================================
