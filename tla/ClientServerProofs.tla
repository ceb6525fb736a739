-------------------------- MODULE ClientServerProofs --------------------------
(***************************************************************************)
(* Proofs about ClientServer, for every number of processes, block size,   *)
(* set of files and bound: the processes agree on every collective, the    *)
(* state keeps its type, the blocks of every file are where its list says, *)
(* and the whole implements BlockStore.  The invariants are                *)
(*  - StepInv: a queue of collectives leads a node from what it waits for  *)
(*    to what the master issues next, and the master is held in a gather   *)
(*    while a node has yet to take a scatter of some items;                *)
(*  - DataInv, beside it: what BlocksAtHome says of the files as last      *)
(*    written, and that the items scattered and gathered are the blocks    *)
(*    and the addresses of the operation in progress.                      *)
(***************************************************************************)
EXTENDS ClientServer, PartitionProofs

-----------------------------------------------------------------------------
(* Queues of collectives.                                                  *)

\* A queue that leads to l leads, with a collective of call l put behind it, to
\* what follows that collective.
LEMMA LeadsAppend ==
    ASSUME NEW c \in Seq(Msg), NEW m \in Msg, NEW from, NEW to, NEW r,
           Leads(c, from, to, r), CallOf(m) = to
    PROVE  Leads(Append(c, m), from, After(m, r), r)
  <1> DEFINE d == Append(c, m)
  <1>1. /\ d # <<>> /\ Len(c) \in Nat /\ Len(d) = Len(c) + 1
        /\ \A k \in 1 .. Len(c) : d[k] = c[k]
        /\ d[Len(c) + 1] = m
    BY AppendFacts
  <1>0. c = <<>> <=> Len(c) = 0  BY EmptySeq
  <1> HIDE DEF d
  <1>2. ASSUME NEW k \in 1 .. Len(d)
        PROVE  CallOf(d[k]) = IF k = 1 THEN from ELSE After(d[k - 1], r)
    <2>1. CASE k \in 1 .. Len(c)
      <3>1. d[k] = c[k] /\ (k # 1 => d[k - 1] = c[k - 1])  BY <1>1, <2>1
      <3> QED  BY <2>1, <3>1 DEF Leads
    <2>2. CASE k = Len(c) + 1
      <3>1. d[k] = m  BY <1>1, <2>2
      <3>2. CASE c = <<>>
        <4>1. k = 1 /\ to = from  BY <1>0, <2>2, <3>2 DEF Leads
        <4> QED  BY <3>1, <4>1
      <3>3. CASE c # <<>>
        <4>1. k # 1 /\ d[k - 1] = c[Len(c)]  BY <1>0, <1>1, <2>2, <3>3
        <4>2. to = After(c[Len(c)], r)  BY <3>3 DEF Leads
        <4> QED  BY <3>1, <4>1, <4>2
      <3> QED  BY <3>2, <3>3
    <2> QED  BY <1>1, <2>1, <2>2
  <1>3. After(m, r) = IF d = <<>> THEN from ELSE After(d[Len(d)], r)  BY <1>1
  <1> QED  BY <1>2, <1>3 DEF Leads, d

\* The first collective of a queue is the one waited for, and the rest leads on
\* from what follows it.
LEMMA LeadsTail ==
    ASSUME NEW c \in Seq(Msg), c # <<>>, NEW from, NEW to, NEW r,
           Leads(c, from, to, r)
    PROVE  /\ CallOf(Head(c)) = from
           /\ Leads(Tail(c), After(Head(c), r), to, r)
  <1> DEFINE d == Tail(c)  h == Head(c)
  <1>1. /\ h = c[1] /\ Len(c) \in Nat \ {0} /\ Len(d) = Len(c) - 1
        /\ \A k \in 1 .. Len(c) - 1 : d[k] = c[k + 1]
        /\ d = <<>> <=> Len(c) = 1
    BY TailFacts
  <1> HIDE DEF d, h
  <1>2. CallOf(h) = from  BY <1>1 DEF Leads
  <1>3. ASSUME NEW k \in 1 .. Len(d)
        PROVE  CallOf(d[k]) = IF k = 1 THEN After(h, r) ELSE After(d[k - 1], r)
    <2>1. k + 1 \in 1 .. Len(c) /\ k + 1 # 1 /\ (k + 1) - 1 = k  BY <1>1
    <2>2. CallOf(c[k + 1]) = After(c[k], r)  BY <2>1 DEF Leads
    <2>3. d[k] = c[k + 1]  BY <1>1
    <2>4. k # 1 => d[k - 1] = c[k]  BY <1>1
    <2> QED  BY <1>1, <2>2, <2>3, <2>4
  <1>4. to = IF d = <<>> THEN After(h, r) ELSE After(d[Len(d)], r)
    <2>1. to = After(c[Len(c)], r)  BY <1>1, EmptySeq DEF Leads
    <2>2. d # <<>> => d[Len(d)] = c[Len(c)]  BY <1>1
    <2> QED  BY <1>1, <2>1, <2>2
  <1> QED  BY <1>2, <1>3, <1>4 DEF Leads, d, h

-----------------------------------------------------------------------------
(* The three kinds of step, on the queues and the gathers alone.           *)

Gathering == mpc \in {"write_gather", "read_gather"}
Queues    == Chained /\ MasterWaits /\ GathersInStep /\ GathersOwn

\* Outside a gather nothing has been sent, and no scatter of any items waits.
LEMMA NothingSent ==
    ASSUME TypeOK, GathersInStep, MasterWaits, ~ Gathering
    PROVE  /\ \A r \in Ranks : up[r] = <<>>
           /\ \A r \in Nodes : \A k \in 1 .. Len(chan[r]) :
                  chan[r][k].op \in {"blocks", "addresses"} => chan[r][k].items = <<>>
  <1>1. \A r \in Ranks : Gathers(r) = 0  BY DEF Gathering, Gathers
  <1>2. \A r \in Ranks : up[r] = <<>>  BY <1>1 DEF GathersInStep
  <1>3. \A r \in Nodes : \A k \in 1 .. Len(chan[r]) :
           mpc # GatherOf(chan[r][k].op)
    BY DEF Gathering, GatherOf
  <1> QED  BY <1>2, <1>3 DEF MasterWaits

\* MPI_Bcast of a request or an ioRequest, outside a gather.
LEMMA BcastStep ==
    ASSUME TypeOK, Queues, ~ Gathering, ~ Gathering', UNCHANGED <<npc, req, up>>,
           NEW m \in Msg, m.op \notin {"blocks", "addresses"}, Bcast(m),
           \A r \in Nodes : CallOf(m) = Issued(r) /\ Issued(r)' = After(m, r)
    PROVE  Queues' /\ chan' \in [Nodes -> Seq(Msg)]
  <1>1. chan \in [Nodes -> Seq(Msg)]  BY DEF TypeOK
  <1>2. chan' \in [Nodes -> Seq(Msg)]  BY <1>1, AppendFacts DEF Bcast
  <1>3. \A r \in Nodes : chan'[r] = Append(chan[r], m)  BY DEF Bcast
  <1>4. \A r \in Ranks : up[r] = <<>>  BY NothingSent DEF Queues
  <1>5. Chained'
    <2> SUFFICES ASSUME NEW r \in Nodes
                 PROVE  Leads(chan'[r], Awaited(r)', Issued(r)', r)
      BY DEF Chained
    <2>1. Leads(chan[r], Awaited(r), Issued(r), r) /\ chan[r] \in Seq(Msg)
      BY <1>1 DEF Queues, Chained
    <2>2. Awaited(r)' = Awaited(r)  BY DEF Awaited
    <2> QED  BY <1>3, <2>1, <2>2, LeadsAppend
  <1>6. MasterWaits'
    <2> SUFFICES ASSUME NEW r \in Nodes, NEW k \in 1 .. Len(chan'[r]),
                        chan'[r][k].op \in {"blocks", "addresses"},
                        chan'[r][k].items # <<>>
                 PROVE  FALSE
      BY DEF MasterWaits
    <2>1. chan[r] \in Seq(Msg)  BY <1>1
    <2>2. k \in 1 .. Len(chan[r]) \/ k = Len(chan[r]) + 1  BY <1>3, <2>1, AppendFacts
    <2>3. CASE k \in 1 .. Len(chan[r])
      <3>1. chan'[r][k] = chan[r][k]  BY <1>3, <2>1, <2>3, AppendFacts
      <3> QED  BY <2>3, <3>1, NothingSent DEF Queues
    <2>4. CASE k = Len(chan[r]) + 1
      BY <1>3, <2>1, <2>4, AppendFacts
    <2> QED  BY <2>2, <2>3, <2>4
  <1>7. GathersInStep' /\ GathersOwn'  BY <1>4 DEF GathersInStep, GathersOwn
  <1> QED  BY <1>2, <1>5, <1>6, <1>7 DEF Queues

\* What a scatter of op spreads, and the gather after it collects.
Scatters(op)     == IF op = "blocks" THEN Block ELSE Address
Contribution(op) == IF op = "blocks" THEN Address ELSE Block \cup {Garbage}

\* MPI_Scatterv of s, after which the master sends its own part of the gather.
LEMMA ScattervStep ==
    ASSUME TypeOK, Queues, ~ Gathering, UNCHANGED <<npc, req>>,
           NEW op \in {"blocks", "addresses"}, NEW s \in Seq(Scatters(op)), Scatterv(op, s),
           NEW own \in Seq(Contribution(op)), Len(own) = Count(Len(s), 0), Send(0, own),
           mpc' = GatherOf(op), \A r \in Ranks : Gathers(r)' = Count(Len(s), r),
           \A r \in Nodes : Issued(r) = Call(op, "any", Count(Len(s), r))
    PROVE  /\ Queues' /\ chan' \in [Nodes -> Seq(Msg)]
           /\ up' \in [Ranks -> Seq(Seq(Item))]
  <1> DEFINE part(r) == Scattered(op, Share(s, Len(s), r))
  <1>0. Nodes \subseteq Ranks /\ 0 \in Ranks /\ 0 \notin Nodes
    BY PartitionAssumption DEF Nodes, Ranks
  <1>1. \A r \in Ranks : /\ Share(s, Len(s), r) \in Seq(Scatters(op))
                         /\ Len(Share(s, Len(s), r)) = Count(Len(s), r)
    BY ShareType
  <1>2. \A r \in Nodes : /\ part(r) \in Msg /\ part(r).op = op
                         /\ part(r).items = Share(s, Len(s), r)
    BY <1>0, <1>1 DEF Scattered, Scatters, Msg
  <1>3. \A r \in Nodes : chan[r] \in Seq(Msg) /\ chan'[r] = Append(chan[r], part(r))
    BY DEF TypeOK, Scatterv
  <1> HIDE DEF part
  <1>4. chan' \in [Nodes -> Seq(Msg)]
    <2>1. \A r \in Nodes : Append(chan[r], part(r)) \in Seq(Msg)  BY <1>2, <1>3, AppendFacts
    <2> QED  BY <2>1 DEF Scatterv, part
  <1>5. \A r \in Ranks : up[r] = <<>>  BY NothingSent DEF Queues
  <1>6. /\ up'[0] = IF own = <<>> THEN <<>> ELSE <<own>>
        /\ \A r \in Nodes : up'[r] = <<>>
    <2>1. up \in [Ranks -> Seq(Seq(Item))]  BY DEF TypeOK
    <2>2. up' = [up EXCEPT ![0] = IF own = <<>> THEN <<>> ELSE Append(<<>>, own)]
      BY <1>0, <1>5, <2>1 DEF Send
    <2>3. Append(<<>>, own) = <<own>>  OBVIOUS
    <2>4. up'[0] = IF own = <<>> THEN <<>> ELSE <<own>>  BY <1>0, <2>1, <2>2, <2>3
    <2>5. \A r \in Nodes : up'[r] = up[r]  BY <1>0, <2>1, <2>2
    <2> QED  BY <1>0, <1>5, <2>4, <2>5
  <1>7. up' \in [Ranks -> Seq(Seq(Item))]
    <2>1. own \in Seq(Item)  BY SeqMonotonic DEF Contribution, Item
    <2>2. up' \in [Ranks -> Seq(Seq(Item))]  BY <1>0, <1>5, <2>1 DEF TypeOK, Send
    <2> QED  BY <2>2
  <1>8. Chained'
    <2> SUFFICES ASSUME NEW r \in Nodes
                 PROVE  Leads(chan'[r], Awaited(r)', Issued(r)', r)
      BY DEF Chained
    <2>1. Leads(chan[r], Awaited(r), Issued(r), r)  BY DEF Queues, Chained
    <2>2. Awaited(r)' = Awaited(r)  BY DEF Awaited
    <2>3. CallOf(part(r)) = Issued(r)  BY <1>0, <1>1, <1>2 DEF CallOf, Call
    <2>4. After(part(r), r) = NextRequest /\ Issued(r)' = NextRequest
      BY <1>2 DEF After, Issued, GatherOf
    <2> QED  BY <1>2, <1>3, <2>1, <2>2, <2>3, <2>4, LeadsAppend
  <1>9. MasterWaits'
    <2> SUFFICES ASSUME NEW r \in Nodes, NEW k \in 1 .. Len(chan'[r]),
                        chan'[r][k].op \in {"blocks", "addresses"},
                        chan'[r][k].items # <<>>
                 PROVE  /\ k = Len(chan'[r])
                        /\ mpc' = GatherOf(chan'[r][k].op)
                        /\ Len(chan'[r][k].items) = Gathers(r)'
                        /\ up'[r] = <<>>
      BY DEF MasterWaits
    <2>1. /\ Len(chan'[r]) = Len(chan[r]) + 1 /\ Len(chan[r]) \in Nat
          /\ \A j \in 1 .. Len(chan[r]) : chan'[r][j] = chan[r][j]
          /\ chan'[r][Len(chan[r]) + 1] = part(r)
      <3>1. part(r) \in Msg /\ chan[r] \in Seq(Msg) /\ chan'[r] = Append(chan[r], part(r))
        BY <1>2, <1>3
      <3> QED  BY <3>1, AppendFacts
    <2>2. k \notin 1 .. Len(chan[r])  BY <2>1, NothingSent DEF Queues
    <2>3. k = Len(chan'[r]) /\ chan'[r][k] = part(r)  BY <2>1, <2>2
    <2> QED  BY <1>0, <1>1, <1>2, <1>6, <2>3
  <1>10. GathersInStep'
    <2> SUFFICES ASSUME NEW r \in Ranks, up'[r] # <<>>
                 PROVE  /\ Len(up'[r]) = 1 /\ Gathers(r)' > 0
                        /\ Len(Head(up'[r])) = Gathers(r)'
      BY DEF GathersInStep
    <2>1. r = 0 /\ own # <<>> /\ up'[r] = <<own>>  BY <1>6, <1>0 DEF Nodes
    <2>2. Len(own) \in Nat \ {0}  BY <2>1, EmptySeq
    <2>3. Gathers(r)' = Len(own)  BY <2>1
    <2> QED  BY <2>1, <2>2, <2>3
  <1>11. GathersOwn'
    <2> SUFFICES ASSUME NEW r \in Ranks, up'[r] # <<>>
                 PROVE  Head(up'[r]) \in Seq(IF mpc' = "write_gather" THEN Address
                                            ELSE Block \cup {Garbage})
      BY DEF GathersOwn
    <2>1. up'[r] = <<own>>  BY <1>6, <1>0 DEF Nodes
    <2> QED  BY <2>1 DEF GatherOf, Contribution
  <1> QED  BY <1>4, <1>7, <1>8, <1>9, <1>10, <1>11 DEF Queues

\* The master's MPI_Gatherv takes what each process has sent for it.
LEMMA GathervStep ==
    ASSUME TypeOK, Queues, Gathering, mpc' = "idle", UNCHANGED <<npc, req, chan>>,
           NEW n \in Nat, Gatherv(n), \A r \in Ranks : Gathers(r) = Count(n, r)
    PROVE  /\ Queues' /\ up' \in [Ranks -> Seq(Seq(Item))]
           /\ Gathered(n) \in Seq(IF mpc = "write_gather" THEN Address
                                  ELSE Block \cup {Garbage})
  <1>0. \A r \in Ranks : Count(n, r) \in Nat  BY CountType
  <1>1. \A r \in Ranks : up[r] \in Seq(Seq(Item))  BY DEF TypeOK
  <1>2. \A r \in Ranks : up'[r] = <<>>
    <2> SUFFICES ASSUME NEW r \in Ranks PROVE up'[r] = <<>>  OBVIOUS
    <2>1. up'[r] = IF Count(n, r) > 0 THEN Tail(up[r]) ELSE up[r]  BY DEF Gatherv
    <2>2. CASE Count(n, r) > 0
      <3>1. up[r] # <<>> /\ Len(up[r]) = 1  BY <2>2 DEF Gatherv, Queues, GathersInStep
      <3> QED  BY <1>1, <2>1, <2>2, <3>1, TailFacts
    <2>3. CASE ~ (Count(n, r) > 0)
      BY <2>1, <2>3 DEF Queues, GathersInStep
    <2> QED  BY <2>2, <2>3
  <1>3. up' \in [Ranks -> Seq(Seq(Item))]
    <2>1. \A r \in Ranks :
             (IF Count(n, r) > 0 THEN Tail(up[r]) ELSE up[r]) \in Seq(Seq(Item))
      <3>1. \A r \in Ranks : up'[r] = IF Count(n, r) > 0 THEN Tail(up[r]) ELSE up[r]
        BY DEF Gatherv
      <3>2. <<>> \in Seq(Seq(Item))  OBVIOUS
      <3> QED  BY <1>2, <3>1, <3>2
    <2> QED  BY <2>1 DEF Gatherv
  <1>4. Chained'
    <2> SUFFICES ASSUME NEW r \in Nodes
                 PROVE  Leads(chan'[r], Awaited(r)', Issued(r)', r)
      BY DEF Chained
    <2>1. Leads(chan[r], Awaited(r), Issued(r), r)  BY DEF Queues, Chained
    <2>2. Awaited(r)' = Awaited(r)  BY DEF Awaited
    <2>3. Issued(r)' = Issued(r)  BY DEF Issued, Gathering
    <2> QED  BY <2>1, <2>2, <2>3
  <1>5. MasterWaits'
    <2> SUFFICES ASSUME NEW r \in Nodes, NEW k \in 1 .. Len(chan[r]),
                        chan[r][k].op \in {"blocks", "addresses"},
                        chan[r][k].items # <<>>
                 PROVE  FALSE
      BY DEF MasterWaits
    <2>1. r \in Ranks /\ chan[r] \in Seq(Msg)  BY DEF Nodes, TypeOK
    <2>2. chan[r][k] \in Msg  BY <2>1
    <2>3. chan[r][k].items \in Seq(Block) \cup Seq(Address)  BY <2>2 DEF Msg
    <2>4. Len(chan[r][k].items) > 0  BY <2>3, EmptySeq
    <2>5. Len(chan[r][k].items) = Count(n, r) /\ up[r] = <<>>
      BY <2>1 DEF Queues, MasterWaits
    <2> QED  BY <2>1, <2>4, <2>5 DEF Gatherv
  <1>6. GathersInStep' /\ GathersOwn'  BY <1>2 DEF GathersInStep, GathersOwn
  <1>7. Gathered(n) \in Seq(IF mpc = "write_gather" THEN Address
                            ELSE Block \cup {Garbage})
    <2> DEFINE S == IF mpc = "write_gather" THEN Address ELSE Block \cup {Garbage}
               got == [r \in Ranks |-> Head(up[r])]
    <2>1. ASSUME NEW i \in 1 .. n
          PROVE  got[Owner(n, i)][i - Displ(n, Owner(n, i))] \in S
      <3> DEFINE r == Owner(n, i)
      <3>1. r \in Ranks /\ i - Displ(n, r) \in 1 .. Count(n, r)  BY OwnerHolds
      <3> HIDE DEF r, S
      <3>2. Count(n, r) > 0  BY <1>0, <3>1
      <3>3. up[r] # <<>>  BY <3>1, <3>2 DEF Gatherv
      <3>4. Len(Head(up[r])) = Count(n, r)  BY <3>1, <3>3 DEF Queues, GathersInStep
      <3>5. Head(up[r]) \in Seq(S)  BY <3>1, <3>3 DEF Queues, GathersOwn, S
      <3>6. Head(up[r])[i - Displ(n, r)] \in S  BY <3>1, <3>4, <3>5, ElementOfSeq
      <3> QED  BY <3>1, <3>6 DEF r
    <2> HIDE DEF S, got
    <2>2. Assemble(got, n) \in Seq(S)  BY <2>1 DEF Assemble
    <2> QED  BY <2>2 DEF Gathered, got, S
  <1> QED  BY <1>2, <1>3, <1>4, <1>5, <1>6, <1>7 DEF Queues

\* A node takes a collective and, if it was a scatter, sends what the master is
\* to gather.
LEMMA TakeStep ==
    ASSUME TypeOK, Queues, UNCHANGED <<mpc, cur>>,
           NEW r \in Nodes, chan[r] # <<>>, Take(r), NEW items, Send(r, items),
           items # <<>> => /\ Head(chan[r]).op \in {"blocks", "addresses"}
                           /\ items \in Seq(Contribution(Head(chan[r]).op))
                           /\ Len(items) = Len(Head(chan[r]).items),
           Awaited(r)' = After(Head(chan[r]), r),
           \A q \in Nodes \ {r} : Awaited(q)' = Awaited(q)
    PROVE  /\ Queues' /\ chan' \in [Nodes -> Seq(Msg)]
           /\ up' \in [Ranks -> Seq(Seq(Item))]
  <1> DEFINE m == Head(chan[r])
  <1>1. chan \in [Nodes -> Seq(Msg)] /\ up \in [Ranks -> Seq(Seq(Item))]  BY DEF TypeOK
  <1>2. /\ chan[r] \in Seq(Msg) /\ m \in Msg /\ m = chan[r][1]
        /\ Tail(chan[r]) \in Seq(Msg)
        /\ Len(chan[r]) \in Nat \ {0} /\ Len(Tail(chan[r])) = Len(chan[r]) - 1
        /\ \A k \in 1 .. Len(chan[r]) - 1 : Tail(chan[r])[k] = chan[r][k + 1]
    <2>1. chan[r] \in Seq(Msg)  BY <1>1
    <2> QED  BY <2>1, TailFacts
  <1>3. /\ chan' \in [Nodes -> Seq(Msg)] /\ chan'[r] = Tail(chan[r])
        /\ \A q \in Nodes \ {r} : chan'[q] = chan[q]
    BY <1>1, <1>2 DEF Take
  <1>4. \A q \in Ranks : Gathers(q)' = Gathers(q)  BY DEF Gathers, ReadBlocks
  <1>5. \A q \in Nodes : Issued(q)' = Issued(q)
    BY DEF Issued, BlocksCall, AddressesCall
  <1>6. items # <<>> => /\ Len(items) \in Nat \ {0} /\ items \in Seq(Item)
                        /\ Len(chan[r]) = 1 /\ mpc = GatherOf(m.op)
                        /\ Len(items) = Gathers(r) /\ up[r] = <<>>
    <2> SUFFICES ASSUME items # <<>>
                 PROVE  /\ Len(items) \in Nat \ {0} /\ items \in Seq(Item)
                        /\ Len(chan[r]) = 1 /\ mpc = GatherOf(m.op)
                        /\ Len(items) = Gathers(r) /\ up[r] = <<>>
      OBVIOUS
    <2>1. Len(items) \in Nat \ {0}  BY EmptySeq
    <2>2. Contribution(m.op) \subseteq Item  BY DEF Contribution, Item
    <2>3. items \in Seq(Item)  BY <2>2, SeqMonotonic
    <2>4. m.items # <<>>  BY <2>1
    <2>5. 1 \in 1 .. Len(chan[r])  BY <1>2
    <2>6. /\ 1 = Len(chan[r]) /\ mpc = GatherOf(m.op)
          /\ Len(m.items) = Gathers(r) /\ up[r] = <<>>
      BY <1>2, <2>4, <2>5 DEF Queues, MasterWaits
    <2> QED  BY <2>1, <2>3, <2>6
  <1> HIDE DEF m
  <1>7. r \in Ranks  BY DEF Nodes
  <1>8. /\ up'[r] = IF items = <<>> THEN up[r] ELSE <<items>>
        /\ \A q \in Ranks \ {r} : up'[q] = up[q]
        /\ up' \in [Ranks -> Seq(Seq(Item))]
    <2>1. Append(<<>>, items) = <<items>>  OBVIOUS
    <2>2. up' = [up EXCEPT ![r] = IF items = <<>> THEN up[r] ELSE <<items>>]
      BY <1>1, <1>6, <1>7, <2>1 DEF Send
    <2>3. items # <<>> => <<items>> \in Seq(Seq(Item))  BY <1>6
    <2> QED  BY <1>1, <1>7, <2>2, <2>3
  <1>9. Chained'
    <2> SUFFICES ASSUME NEW q \in Nodes
                 PROVE  Leads(chan'[q], Awaited(q)', Issued(q)', q)
      BY DEF Chained
    <2>1. Leads(chan[q], Awaited(q), Issued(q), q)  BY DEF Queues, Chained
    <2>2. CASE q = r
      <3>1. Leads(chan[r], Awaited(r), Issued(r), r)  BY <2>1, <2>2
      <3>2. Leads(Tail(chan[r]), After(Head(chan[r]), r), Issued(r), r)
        BY <1>2, <3>1, LeadsTail
      <3> QED  BY <1>3, <1>5, <2>2, <3>2
    <2>3. CASE q # r
      BY <1>3, <1>5, <2>1, <2>3
    <2> QED  BY <2>2, <2>3
  <1>10. MasterWaits'
    <2> SUFFICES ASSUME NEW q \in Nodes, NEW k \in 1 .. Len(chan'[q]),
                        chan'[q][k].op \in {"blocks", "addresses"},
                        chan'[q][k].items # <<>>
                 PROVE  /\ k = Len(chan'[q])
                        /\ mpc = GatherOf(chan'[q][k].op)
                        /\ Len(chan'[q][k].items) = Gathers(q)
                        /\ up'[q] = <<>>
      BY <1>4 DEF MasterWaits, Nodes
    <2>1. CASE q # r
      <3>1. chan'[q] = chan[q] /\ up'[q] = up[q]  BY <1>3, <1>8, <2>1 DEF Nodes
      <3> QED  BY <3>1 DEF Queues, MasterWaits
    <2>2. CASE q = r
      <3>1. k + 1 \in 1 .. Len(chan[r]) /\ chan'[q][k] = chan[r][k + 1] /\ Len(chan[r]) # 1
        BY <1>2, <1>3, <2>2
      <3>2. /\ k + 1 = Len(chan[r]) /\ mpc = GatherOf(chan'[q][k].op)
            /\ Len(chan'[q][k].items) = Gathers(r) /\ up[r] = <<>>
        BY <3>1 DEF Queues, MasterWaits
      <3>3. up'[r] = <<>>  BY <1>6, <1>8, <3>1, <3>2
      <3>4. k = Len(chan'[q])  BY <1>2, <1>3, <2>2, <3>2
      <3> QED  BY <2>2, <3>2, <3>3, <3>4
    <2> QED  BY <2>1, <2>2
  <1>11. GathersInStep'
    <2> SUFFICES ASSUME NEW q \in Ranks, up'[q] # <<>>
                 PROVE  /\ Len(up'[q]) = 1 /\ Gathers(q) > 0
                        /\ Len(Head(up'[q])) = Gathers(q)
      BY <1>4 DEF GathersInStep
    <2>1. CASE up'[q] = up[q]  BY <2>1 DEF Queues, GathersInStep
    <2>2. CASE q = r /\ items # <<>>
      <3>1. up'[q] = <<items>>  BY <1>8, <2>2
      <3> QED  BY <1>6, <2>2, <3>1
    <2> QED  BY <1>8, <2>1, <2>2
  <1>12. GathersOwn'
    <2> SUFFICES ASSUME NEW q \in Ranks, up'[q] # <<>>
                 PROVE  Head(up'[q]) \in Seq(IF mpc = "write_gather" THEN Address
                                            ELSE Block \cup {Garbage})
      BY DEF GathersOwn
    <2>1. CASE up'[q] = up[q]  BY <2>1 DEF Queues, GathersOwn
    <2>2. CASE q = r /\ items # <<>>
      <3>1. Head(up'[q]) = items  BY <1>8, <2>2
      <3> QED  BY <1>6, <2>2, <3>1 DEF GatherOf, Contribution, m
    <2> QED  BY <1>8, <2>1, <2>2
  <1> QED  BY <1>3, <1>8, <1>9, <1>10, <1>11, <1>12 DEF Queues

-----------------------------------------------------------------------------
(* StepInv holds initially and every action of the master preserves it.    *)

LEMMA StepInvParts == StepInv <=> TypeOK /\ RequestInStep /\ Queues
  BY DEF StepInv, Queues

LEMMA SizeFacts ==
    ASSUME TypeOK
    PROVE  /\ Sizes \subseteq Nat
           /\ BlocksFor(cur.fileSize) \in Nat /\ ReadBlocks \in Nat
           /\ \A t \in {"WRITE", "READ"} : IORequest(t, cur) \in Msg
  <1>1. Sizes \subseteq Nat  BY ClientServerAssumption DEF Sizes
  <1>2. cur.ino \in Inodes /\ cur.fileSize \in Sizes /\ cur.reqSize \in Sizes  BY DEF TypeOK
  <1>3. BlocksFor(cur.fileSize) \in Nat /\ BlocksFor(cur.reqSize) \in Nat
    BY <1>1, <1>2, BlocksForType
  <1> QED  BY <1>1, <1>2, <1>3 DEF ReadBlocks, RequestBlocks, IORequest, Msg

LEMMA InitStep == ASSUME Init PROVE StepInv
  <1>1. (CHOOSE i \in Inodes : TRUE) \in Inodes  BY ClientServerAssumption
  <1>2. 0 \in Sizes /\ 0 \in 0 .. MaxOps  BY ClientServerAssumption DEF Sizes
  <1>3. cur \in [ino : Inodes, fileSize : Sizes, reqSize : Sizes, buf : Seq(Block)]
    BY <1>1, <1>2 DEF Init
  <1>4. IORequest("none", cur) \in [op : {"io"}, type : {"none", "WRITE", "READ"},
                                   ino : Inodes, fileSize : Sizes, reqSize : Sizes]
    BY <1>3 DEF IORequest
  <1>5. TypeOK  BY <1>2, <1>3, <1>4 DEF Init, TypeOK
  <1>6. \A r \in Nodes : Awaited(r) = NextRequest /\ Issued(r) = NextRequest
    BY DEF Init, Awaited, Issued
  <1>7. \A r \in Nodes : Leads(<<>>, NextRequest, NextRequest, r)  BY DEF Leads
  <1>8. Chained  BY <1>6, <1>7 DEF Init, Chained
  <1>9. MasterWaits /\ GathersInStep /\ GathersOwn
    BY DEF Init, MasterWaits, GathersInStep, GathersOwn
  <1> QED  BY <1>5, <1>8, <1>9 DEF StepInv, RequestInStep, Init

LEMMA RequestType ==
    ASSUME NEW t \in {"CHANGE_DIR", "WRITE", "READ", "TERMINATE"}
    PROVE  Request(t) \in Msg /\ Request(t).op = "request" /\ Request(t).type = t
  BY DEF Request, Msg

LEMMA FuseInitStep == ASSUME StepInv, FuseInit PROVE StepInv'
  <1> DEFINE m == Request("CHANGE_DIR")
  <1>1. m \in Msg /\ m.op = "request" /\ m.type = "CHANGE_DIR"  BY RequestType
  <1> HIDE DEF m
  <1>2. TypeOK /\ Queues  BY StepInvParts
  <1>3. Bcast(m)  BY DEF FuseInit, m
  <1>4. UNCHANGED <<npc, req, up>>  BY DEF FuseInit, nodeVars
  <1>5. ~ Gathering /\ ~ Gathering'  BY DEF FuseInit, Gathering
  <1>6. \A r \in Nodes : CallOf(m) = Issued(r) /\ Issued(r)' = After(m, r)
    BY <1>1 DEF FuseInit, Issued, CallOf, After
  <1>7. Queues' /\ chan' \in [Nodes -> Seq(Msg)]
    BY <1>1, <1>2, <1>3, <1>4, <1>5, <1>6, BcastStep
  <1>8. TypeOK'  BY <1>2, <1>7 DEF TypeOK, FuseInit, nodeVars
  <1>9. RequestInStep'  BY DEF RequestInStep, FuseInit
  <1> QED  BY <1>7, <1>8, <1>9 DEF StepInv, Queues

LEMMA UnmountStep == ASSUME StepInv, Unmount PROVE StepInv'
  <1> DEFINE m == Request("TERMINATE")
  <1>1. m \in Msg /\ m.op = "request" /\ m.type = "TERMINATE"  BY RequestType
  <1> HIDE DEF m
  <1>2. TypeOK /\ Queues  BY StepInvParts
  <1>3. Bcast(m)  BY DEF Unmount, m
  <1>4. UNCHANGED <<npc, req, up>>  BY DEF Unmount, nodeVars
  <1>5. ~ Gathering /\ ~ Gathering'  BY DEF Unmount, Gathering
  <1>6. \A r \in Nodes : CallOf(m) = Issued(r) /\ Issued(r)' = After(m, r)
    BY <1>1 DEF Unmount, Issued, CallOf, After
  <1>7. Queues' /\ chan' \in [Nodes -> Seq(Msg)]
    BY <1>1, <1>2, <1>3, <1>4, <1>5, <1>6, BcastStep
  <1>8. TypeOK'  BY <1>2, <1>7 DEF TypeOK, Unmount, nodeVars
  <1>9. RequestInStep'  BY DEF RequestInStep, Unmount
  <1> QED  BY <1>7, <1>8, <1>9 DEF StepInv, Queues

\* The start of an operation, whichever it is.
LEMMA StartStep ==
    ASSUME StepInv, NEW ino \in Inodes, NEW fileSize \in Sizes, NEW reqSize \in Sizes,
           NEW buf \in Seq(Block), NEW t, NEW pc,
           Start(t, pc, ino, fileSize, reqSize, buf),
           \/ t = "WRITE" /\ pc = "write_io" /\ Len(buf) = BlocksFor(fileSize)
           \/ t = "READ" /\ pc = "read_io"
    PROVE  StepInv'
  <1> DEFINE m == Request(t)
  <1>1. m \in Msg /\ m.op = "request" /\ m.type = t  BY RequestType
  <1> HIDE DEF m
  <1>2. TypeOK /\ Queues  BY StepInvParts
  <1>3. Bcast(m)  BY DEF Start, m
  <1>4. UNCHANGED <<npc, req, up>>  BY DEF Start, nodeVars
  <1>5. ~ Gathering /\ ~ Gathering'  BY DEF Start, Gathering
  <1>6. \A r \in Nodes : CallOf(m) = Issued(r) /\ Issued(r)' = After(m, r)
    <2> SUFFICES ASSUME NEW r \in Nodes
                 PROVE  CallOf(m) = Issued(r) /\ Issued(r)' = After(m, r)
      OBVIOUS
    <2>1. CallOf(m) = Issued(r)  BY <1>1 DEF Start, Issued, CallOf
    <2>2. Issued(r)' = Call("io", t, 0)  BY DEF Start, Issued
    <2>3. After(m, r) = Call("io", t, 0)  BY <1>1 DEF After
    <2> QED  BY <2>1, <2>2, <2>3
  <1>7. Queues' /\ chan' \in [Nodes -> Seq(Msg)]
    BY <1>1, <1>2, <1>3, <1>4, <1>5, <1>6, BcastStep
  <1>8. TypeOK'
    <2>1. /\ mpc' \in {"write_io", "read_io"} /\ ops' \in 0 .. MaxOps
          /\ cur' \in [ino : Inodes, fileSize : Sizes, reqSize : Sizes, buf : Seq(Block)]
      BY <1>2, ClientServerAssumption DEF TypeOK, Start
    <2>2. UNCHANGED <<lists, result, written, nodeVars, up, mem>>  BY DEF Start
    <2> QED  BY <1>2, <1>7, <2>1, <2>2 DEF TypeOK, nodeVars
  <1>9. RequestInStep'  BY DEF RequestInStep, Start
  <1> QED  BY <1>7, <1>8, <1>9 DEF StepInv, Queues

LEMMA WriteIOStep == ASSUME StepInv, WriteIO PROVE StepInv'
  <1> DEFINE m == IORequest("WRITE", cur)
  <1>1. TypeOK /\ Queues /\ RequestInStep  BY StepInvParts
  <1>2. m \in Msg /\ m.op = "io" /\ m.type = "WRITE" /\ m.fileSize = cur.fileSize
    BY <1>1, SizeFacts DEF IORequest
  <1>3. Bcast(m)  BY DEF WriteIO
  <1> HIDE DEF m
  <1>4. UNCHANGED <<npc, req, up>>  BY DEF WriteIO, nodeVars
  <1>5. ~ Gathering /\ ~ Gathering'  BY DEF WriteIO, Gathering
  <1>6. \A r \in Nodes : CallOf(m) = Issued(r) /\ Issued(r)' = After(m, r)
    BY <1>2 DEF WriteIO, Issued, CallOf, After, BlocksCall
  <1>7. Queues' /\ chan' \in [Nodes -> Seq(Msg)]
    BY <1>1, <1>2, <1>3, <1>4, <1>5, <1>6, BcastStep
  <1>8. TypeOK'  BY <1>1, <1>7 DEF TypeOK, WriteIO, nodeVars
  <1>9. RequestInStep'  BY <1>1 DEF RequestInStep, WriteIO
  <1> QED  BY <1>7, <1>8, <1>9 DEF StepInv, Queues

LEMMA ReadIOStep == ASSUME StepInv, ReadIO PROVE StepInv'
  <1> DEFINE m == IORequest("READ", cur)
  <1>1. TypeOK /\ Queues  BY StepInvParts
  <1>2. /\ m \in Msg /\ m.op = "io" /\ m.type = "READ"
        /\ m.fileSize = cur.fileSize /\ m.reqSize = cur.reqSize
    BY <1>1, SizeFacts DEF IORequest
  <1>3. Bcast(m)  BY DEF ReadIO
  <1> HIDE DEF m
  <1>4. UNCHANGED <<npc, req, up>>  BY DEF ReadIO, nodeVars
  <1>5. ~ Gathering /\ ~ Gathering'  BY DEF ReadIO, Gathering
  <1>6. \A r \in Nodes : CallOf(m) = Issued(r) /\ Issued(r)' = After(m, r)
    BY <1>2 DEF ReadIO, Issued, CallOf, After, AddressesCall
  <1>7. Queues' /\ chan' \in [Nodes -> Seq(Msg)]
    BY <1>1, <1>2, <1>3, <1>4, <1>5, <1>6, BcastStep
  <1>8. TypeOK'
    <2>1. mpc' \in {"idle", "read_scatter"} /\ result' \in Seq(Block \cup {Garbage})
      <3>1. /\ mpc' \in {"idle", "read_scatter"}
            /\ result' = <<>> \/ result' = result
        BY DEF ReadIO
      <3>2. result \in Seq(Block \cup {Garbage})  BY <1>1 DEF TypeOK
      <3>3. <<>> \in Seq(Block \cup {Garbage})  BY EmptySeq
      <3> QED  BY <3>1, <3>2, <3>3
    <2>2. UNCHANGED <<cur, lists, written, ops, nodeVars, up, mem>>  BY DEF ReadIO
    <2> QED  BY <1>1, <1>7, <2>1, <2>2 DEF TypeOK, nodeVars
  <1>9. RequestInStep'  BY DEF RequestInStep, ReadIO
  <1> QED  BY <1>7, <1>8, <1>9 DEF StepInv, Queues

\* Memory: what is kept and where, and what is found there.
LEMMA MemoryFacts ==
    ASSUME TypeOK, NEW r \in Ranks
    PROVE  /\ \A s \in Seq(Block) :
                 /\ NewAddresses(r, s) \in Seq(Address) /\ Len(NewAddresses(r, s)) = Len(s)
                 /\ Keep(r, s) => mem' \in [Ranks -> Seq(Block)]
           /\ \A as : Len(as) \in Nat =>
                 /\ FetchAll(r, as) \in Seq(Block \cup {Garbage})
                 /\ Len(FetchAll(r, as)) = Len(as)
  <1>1. mem \in [Ranks -> Seq(Block)] /\ mem[r] \in Seq(Block)  BY DEF TypeOK
  <1>2. Len(mem[r]) \in Nat  BY <1>1
  <1>3. \A a : Fetch(r, a) \in Block \cup {Garbage}  BY <1>1, ElementOfSeq DEF Fetch
  <1>4. ASSUME NEW s \in Seq(Block)
        PROVE  /\ NewAddresses(r, s) \in Seq(Address) /\ Len(NewAddresses(r, s)) = Len(s)
               /\ Keep(r, s) => mem' \in [Ranks -> Seq(Block)]
    <2>1. Len(s) \in Nat  OBVIOUS
    <2>2. \A k \in 1 .. Len(s) : Len(mem[r]) + k \in Address  BY <1>2, <2>1 DEF Address
    <2>3. NewAddresses(r, s) \in Seq(Address) /\ Len(NewAddresses(r, s)) = Len(s)
      BY <2>1, <2>2 DEF NewAddresses
    <2>4. mem[r] \o s \in Seq(Block)  BY <1>1
    <2> QED  BY <1>1, <2>3, <2>4 DEF Keep
  <1>5. ASSUME NEW as, Len(as) \in Nat
        PROVE  /\ FetchAll(r, as) \in Seq(Block \cup {Garbage})
               /\ Len(FetchAll(r, as)) = Len(as)
    <2> DEFINE n == Len(as)  T == Block \cup {Garbage}  e(k) == Fetch(r, as[k])
    <2>1. n \in Nat /\ \A k \in 1 .. n : e(k) \in T  BY <1>3, <1>5
    <2>2. FetchAll(r, as) = [k \in 1 .. n |-> e(k)]  BY DEF FetchAll
    <2> HIDE DEF n, T, e
    <2>3. /\ [k \in 1 .. n |-> e(k)] \in Seq(T)
          /\ Len([k \in 1 .. n |-> e(k)]) = n
      BY <2>1
    <2> QED  BY <2>2, <2>3 DEF n, T
  <1> QED  BY <1>4, <1>5

LEMMA WriteScatterStep == ASSUME StepInv, WriteScatter PROVE StepInv'
  <1> DEFINE n == BlocksFor(cur.fileSize)
             kept0 == Share(cur.buf, n, 0)
             own == NewAddresses(0, kept0)
  <1>1. TypeOK /\ Queues /\ RequestInStep  BY StepInvParts
  <1>2. mpc = "write_scatter" /\ mpc' = "write_gather"  BY DEF WriteScatter
  <1>3. cur.buf \in Seq(Block) /\ Len(cur.buf) = n  BY <1>1, <1>2 DEF TypeOK, RequestInStep
  <1>4. 0 \in Ranks  BY PartitionAssumption DEF Ranks
  <1>5. kept0 \in Seq(Block) /\ Len(kept0) = Count(n, 0)  BY <1>3, <1>4, ShareType
  <1>6. Keep(0, kept0) /\ Send(0, own) /\ Scatterv("blocks", cur.buf)
    BY DEF WriteScatter
  <1> HIDE DEF kept0
  <1>7. own \in Seq(Address) /\ Len(own) = Count(n, 0) /\ mem' \in [Ranks -> Seq(Block)]
    BY <1>1, <1>4, <1>5, <1>6, MemoryFacts
  <1> HIDE DEF own
  <1>8. own \in Seq(Contribution("blocks"))  BY <1>7 DEF Contribution
  <1>9. cur.buf \in Seq(Scatters("blocks"))  BY <1>3 DEF Scatters
  <1>10. UNCHANGED <<cur, lists, result, written, ops, npc, req, kept>>
    BY DEF WriteScatter, nodeVars
  <1>11. ~ Gathering /\ mpc' = GatherOf("blocks")  BY <1>2 DEF Gathering, GatherOf
  <1>12. \A r \in Ranks : Gathers(r)' = Count(n, r)  BY <1>2, <1>10 DEF Gathers
  <1>13. \A r \in Nodes : Issued(r) = Call("blocks", "any", Count(n, r))
    BY <1>2 DEF Issued, BlocksCall
  <1> HIDE DEF n
  <1>14. Queues' /\ chan' \in [Nodes -> Seq(Msg)] /\ up' \in [Ranks -> Seq(Seq(Item))]
    BY <1>1, <1>3, <1>6, <1>7, <1>8, <1>9, <1>10, <1>11, <1>12, <1>13, ScattervStep
  <1>15. TypeOK'  BY <1>1, <1>2, <1>7, <1>10, <1>14 DEF TypeOK
  <1>16. RequestInStep'  BY <1>2 DEF RequestInStep
  <1> QED  BY <1>14, <1>15, <1>16 DEF StepInv, Queues

LEMMA ReadScatterStep == ASSUME StepInv, ReadScatter PROVE StepInv'
  <1> DEFINE list == lists[cur.ino]
             addresses == [i \in 1 .. ReadBlocks |->
                              IF i <= Len(list) THEN list[i].data ELSE 0]
             share0 == Share(addresses, ReadBlocks, 0)
             own == FetchAll(0, share0)
  <1>1. TypeOK /\ Queues /\ RequestInStep  BY StepInvParts
  <1>2. mpc = "read_scatter" /\ mpc' = "read_gather"  BY DEF ReadScatter
  <1>3. ReadBlocks \in Nat  BY <1>1, SizeFacts
  <1>4. 0 \in Ranks  BY PartitionAssumption DEF Ranks
  <1>5. addresses \in Seq(Address) /\ Len(addresses) = ReadBlocks
    <2>1. list \in Seq([data : Address, rank : Ranks])  BY <1>1 DEF TypeOK
    <2> HIDE DEF list
    <2>2. \A i \in 1 .. ReadBlocks : (IF i <= Len(list) THEN list[i].data ELSE 0) \in Address
      <3>1. ASSUME NEW i \in 1 .. Len(list) PROVE list[i].data \in Address
        <4>1. list[i] \in [data : Address, rank : Ranks]  BY <2>1, ElementOfSeq
        <4> QED  BY <4>1
      <3>2. Len(list) \in Nat /\ 0 \in Address  BY <2>1 DEF Address
      <3> QED  BY <1>3, <3>1, <3>2
    <2> QED  BY <1>3, <2>2
  <1>6. Send(0, own) /\ Scatterv("addresses", addresses)  BY DEF ReadScatter
  <1> HIDE DEF addresses
  <1>7. share0 \in Seq(Address) /\ Len(share0) = Count(ReadBlocks, 0)
    BY <1>4, <1>5, ShareType
  <1> HIDE DEF share0
  <1>8. own \in Seq(Block \cup {Garbage}) /\ Len(own) = Count(ReadBlocks, 0)
    BY <1>1, <1>3, <1>4, <1>7, CountType, MemoryFacts
  <1> HIDE DEF own
  <1>9. own \in Seq(Contribution("addresses"))  BY <1>8 DEF Contribution
  <1>10. addresses \in Seq(Scatters("addresses"))  BY <1>5 DEF Scatters
  <1>11. UNCHANGED <<cur, lists, result, written, ops, npc, req, kept, mem>>
    BY DEF ReadScatter, nodeVars
  <1>12. ~ Gathering /\ mpc' = GatherOf("addresses")  BY <1>2 DEF Gathering, GatherOf
  <1>13. \A r \in Ranks : Gathers(r)' = Count(ReadBlocks, r)
    BY <1>2, <1>11 DEF Gathers, ReadBlocks
  <1>14. \A r \in Nodes : Issued(r) = Call("addresses", "any", Count(ReadBlocks, r))
    BY <1>2 DEF Issued, AddressesCall, ReadBlocks
  <1>15. Queues' /\ chan' \in [Nodes -> Seq(Msg)] /\ up' \in [Ranks -> Seq(Seq(Item))]
    BY <1>1, <1>5, <1>6, <1>8, <1>9, <1>10, <1>11, <1>12, <1>13, <1>14, ScattervStep
  <1>16. TypeOK'  BY <1>1, <1>2, <1>11, <1>15 DEF TypeOK
  <1>17. RequestInStep'  BY <1>2 DEF RequestInStep
  <1> QED  BY <1>15, <1>16, <1>17 DEF StepInv, Queues

\* The block list after a write is one of entries of an address and a rank, and
\* its first entries have the addresses that were gathered.
LEMMA UpdateListType ==
    ASSUME NEW list \in Seq([data : Address, rank : Ranks]), NEW as \in Seq(Address)
    PROVE  /\ UpdateList(list, as) \in Seq([data : Address, rank : Ranks])
           /\ Len(as) <= Len(UpdateList(list, as))
           /\ \A i \in 1 .. Len(as) : UpdateList(list, as)[i].data = as[i]
  <1> DEFINE Entry == [data : Address, rank : Ranks]
             nblocks == Max(Len(as) - Len(list), 0)
             last == IF list = <<>> THEN 0 ELSE list[Len(list)].rank
             longer == AddDataBlocksTo(list, nblocks)
  <1>1. Len(list) \in Nat /\ Len(as) \in Nat  BY LenProperties
  <1>2. nblocks \in Nat /\ Len(as) <= Len(list) + nblocks
    <2>1. \A a \in Int : Max(a, 0) \in Nat /\ a <= Max(a, 0)  BY DEF Max
    <2>2. Len(as) - Len(list) \in Int  BY <1>1
    <2>3. nblocks \in Nat /\ Len(as) - Len(list) <= nblocks  BY <2>1, <2>2
    <2>4. \A a, b \in Nat : \A n \in Nat : a - b <= n => a <= b + n  OBVIOUS
    <2> HIDE DEF nblocks
    <2> QED  BY <1>1, <2>3, <2>4
  <1>3. last \in Nat
    <2>1. CASE list # <<>>
      <3>1. Len(list) \in 1 .. Len(list)  BY <2>1, EmptySeq
      <3>2. list[Len(list)] \in Entry  BY <3>1, ElementOfSeq
      <3> QED  BY <2>1, <3>2, PartitionAssumption DEF Ranks
    <2> QED  BY <2>1
  <1> HIDE DEF nblocks, last
  <1>4. \A k \in 1 .. nblocks : [data |-> 0, rank |-> (last + k - 1) % W] \in Entry
    <2> TAKE k \in 1 .. nblocks
    <2>1. last + k - 1 \in Nat  BY <1>2, <1>3
    <2>2. (last + k - 1) % W \in Ranks  BY <2>1, DivMod DEF Ranks
    <2> QED  BY <2>2 DEF Address, Entry
  <1> HIDE DEF Entry
  <1>5. /\ [k \in 1 .. nblocks |-> [data |-> 0, rank |-> (last + k - 1) % W]] \in Seq(Entry)
        /\ Len([k \in 1 .. nblocks |-> [data |-> 0, rank |-> (last + k - 1) % W]]) = nblocks
    <2> DEFINE e(k) == [data |-> 0, rank |-> (last + k - 1) % W]
    <2>1. \A k \in 1 .. nblocks : e(k) \in Entry  BY <1>4
    <2> HIDE DEF e
    <2>2. /\ [k \in 1 .. nblocks |-> e(k)] \in Seq(Entry)
          /\ Len([k \in 1 .. nblocks |-> e(k)]) = nblocks
      BY <1>2, <2>1
    <2> QED  BY <2>2 DEF e
  <1>6. longer \in Seq(Entry) /\ Len(as) <= Len(longer)
    <2>1. list \in Seq(Entry)  BY DEF Entry
    <2>2. longer = list \o [k \in 1 .. nblocks |-> [data |-> 0, rank |-> (last + k - 1) % W]]
      BY DEF AddDataBlocksTo, last
    <2> DEFINE more == [k \in 1 .. nblocks |-> [data |-> 0, rank |-> (last + k - 1) % W]]
    <2>3. Len(more) = nblocks  BY <1>5
    <2> HIDE DEF more
    <2>4. longer \in Seq(Entry) /\ Len(longer) = Len(list) + Len(more)
      BY <1>5, <2>1, <2>2, ConcatProperties DEF more
    <2> QED  BY <1>2, <2>3, <2>4
  <1> HIDE DEF longer
  <1>7. Len(longer) \in Nat /\ DOMAIN longer = 1 .. Len(longer)  BY <1>6, LenProperties
  <1>8. ASSUME NEW i \in DOMAIN longer
        PROVE  (IF i <= Len(as) THEN [longer[i] EXCEPT !.data = as[i]] ELSE longer[i]) \in Entry
    <2>0. i \in 1 .. Len(longer)  BY <1>7
    <2>1. longer[i] \in Entry  BY <1>6, <2>0, ElementOfSeq
    <2>2. ASSUME i <= Len(as) PROVE [longer[i] EXCEPT !.data = as[i]] \in Entry
      <3>0. \A a, b, c \in Nat : c \in 1 .. a /\ c <= b => c \in 1 .. b  OBVIOUS
      <3>1. i \in 1 .. Len(as)
        <4>1. i \in Nat  BY <1>7, <2>0
        <4> QED  BY <1>1, <1>7, <2>0, <2>2, <3>0, <4>1
      <3>2. as[i] \in Address  BY <3>1, ElementOfSeq
      <3> QED  BY <2>1, <3>2 DEF Entry
    <2> QED  BY <2>1, <2>2
  <1>9. UpdateList(list, as) = [i \in DOMAIN longer |->
           IF i <= Len(as) THEN [longer[i] EXCEPT !.data = as[i]] ELSE longer[i]]
    BY DEF UpdateList, longer, nblocks
  <1> DEFINE e(i) == IF i <= Len(as) THEN [longer[i] EXCEPT !.data = as[i]] ELSE longer[i]
  <1>10. /\ UpdateList(list, as) = [i \in 1 .. Len(longer) |-> e(i)]
         /\ \A i \in 1 .. Len(longer) : e(i) \in Entry
    BY <1>7, <1>8, <1>9
  <1> HIDE DEF e
  <1>11. UpdateList(list, as) \in Seq(Entry) /\ Len(UpdateList(list, as)) = Len(longer)
    BY <1>7, <1>10
  <1>12. ASSUME NEW i \in 1 .. Len(as) PROVE UpdateList(list, as)[i].data = as[i]
    <2>0. \A a, b \in Nat : \A k \in 1 .. a : a <= b => k \in 1 .. b /\ k <= a  OBVIOUS
    <2>1. i \in 1 .. Len(longer) /\ i <= Len(as)  BY <1>1, <1>6, <1>7, <2>0
    <2>2. longer[i] \in [data : Address, rank : Ranks]
      BY <1>6, <2>1, ElementOfSeq DEF Entry
    <2>3. UpdateList(list, as)[i] = [longer[i] EXCEPT !.data = as[i]]
      BY <1>10, <2>1 DEF e
    <2> QED  BY <2>2, <2>3
  <1> QED  BY <1>6, <1>11, <1>12 DEF Entry

LEMMA WriteGatherStep == ASSUME StepInv, WriteGather PROVE StepInv'
  <1> DEFINE n == BlocksFor(cur.fileSize)
  <1>1. TypeOK /\ Queues /\ RequestInStep  BY StepInvParts
  <1>2. mpc = "write_gather" /\ mpc' = "idle" /\ Gatherv(n)  BY DEF WriteGather
  <1>3. n \in Nat  BY <1>1, SizeFacts
  <1>4. \A r \in Ranks : Gathers(r) = Count(n, r)  BY <1>2 DEF Gathers
  <1> HIDE DEF n
  <1>5. Gathering /\ UNCHANGED <<npc, req, chan>>
    BY <1>2 DEF Gathering, WriteGather, nodeVars
  <1>6. /\ Queues' /\ up' \in [Ranks -> Seq(Seq(Item))]
        /\ Gathered(n) \in Seq(Address)
    BY <1>1, <1>2, <1>3, <1>4, <1>5, GathervStep
  <1>7. lists' \in [Inodes -> Seq([data : Address, rank : Ranks])]
    <2> DEFINE ino == cur.ino  new == UpdateList(lists[ino], Gathered(n))
    <2>1. ino \in Inodes /\ lists \in [Inodes -> Seq([data : Address, rank : Ranks])]
      BY <1>1 DEF TypeOK
    <2>2. new \in Seq([data : Address, rank : Ranks])  BY <1>6, <2>1, UpdateListType
    <2>3. lists' = [lists EXCEPT ![ino] = new]  BY DEF WriteGather, n
    <2> HIDE DEF ino, new
    <2> QED  BY <2>1, <2>2, <2>3
  <1>8. written' \in [Inodes -> Nat]
    <2>1. written' = [written EXCEPT ![cur.ino] = n]  BY DEF WriteGather, n
    <2> QED  BY <1>1, <1>3, <2>1 DEF TypeOK
  <1>9. UNCHANGED <<cur, result, ops, chan, npc, req, kept, mem>>  BY DEF WriteGather, nodeVars
  <1>10. TypeOK'  BY <1>1, <1>2, <1>6, <1>7, <1>8, <1>9 DEF TypeOK
  <1>11. RequestInStep'  BY <1>2 DEF RequestInStep
  <1> QED  BY <1>6, <1>10, <1>11 DEF StepInv, Queues

LEMMA ReadGatherStep == ASSUME StepInv, ReadGather PROVE StepInv'
  <1> DEFINE n == ReadBlocks
  <1>1. TypeOK /\ Queues /\ RequestInStep  BY StepInvParts
  <1>2. mpc = "read_gather" /\ mpc' = "idle" /\ Gatherv(n) /\ result' = Gathered(n)
    BY DEF ReadGather
  <1>3. n \in Nat  BY <1>1, SizeFacts
  <1>4. \A r \in Ranks : Gathers(r) = Count(n, r)  BY <1>2 DEF Gathers
  <1> HIDE DEF n
  <1>5. Gathering /\ UNCHANGED <<npc, req, chan>>
    BY <1>2 DEF Gathering, ReadGather, nodeVars
  <1>6. /\ Queues' /\ up' \in [Ranks -> Seq(Seq(Item))]
        /\ Gathered(n) \in Seq(Block \cup {Garbage})
    BY <1>1, <1>2, <1>3, <1>4, <1>5, GathervStep
  <1>7. UNCHANGED <<cur, lists, written, ops, chan, npc, req, kept, mem>>
    BY DEF ReadGather, nodeVars
  <1>8. TypeOK'  BY <1>1, <1>2, <1>6, <1>7 DEF TypeOK
  <1>9. RequestInStep'  BY <1>2 DEF RequestInStep
  <1> QED  BY <1>6, <1>8, <1>9 DEF StepInv, Queues

-----------------------------------------------------------------------------
(* So does every action of a node.                                         *)

\* What the head of a queue is, when a node takes it.
LEMMA HeadFacts ==
    ASSUME StepInv, NEW r \in Nodes, chan[r] # <<>>
    PROVE  /\ r \in Ranks /\ Head(chan[r]) \in Msg
           /\ CallOf(Head(chan[r])) = Awaited(r)
  <1>1. chan[r] \in Seq(Msg) /\ r \in Ranks  BY DEF StepInv, TypeOK, Nodes
  <1>2. Leads(chan[r], Awaited(r), Issued(r), r)  BY DEF StepInv, Chained
  <1> QED  BY <1>1, <1>2, TailFacts, LeadsTail

LEMMA NodeRequestStep == ASSUME StepInv, NEW r \in Nodes, NodeRequest(r) PROVE StepInv'
  <1> DEFINE m == Head(chan[r])
  <1>1. TypeOK /\ Queues /\ RequestInStep  BY StepInvParts
  <1>2. npc[r] = "request" /\ chan[r] # <<>> /\ m.op = "request" /\ Take(r)
    BY DEF NodeRequest
  <1>3. r \in Ranks /\ m \in Msg  BY <1>2, HeadFacts
  <1>4. m.type \in {"CHANGE_DIR", "WRITE", "READ", "TERMINATE"}  BY <1>2, <1>3 DEF Msg
  <1>5. npc' = [npc EXCEPT ![r] = CASE m.type = "WRITE" -> "write_io"
                                    [] m.type = "READ"  -> "read_io"
                                    [] m.type = "TERMINATE" -> "stopped"
                                    [] OTHER -> "request"]
    BY DEF NodeRequest
  <1> HIDE DEF m
  <1>6. npc \in [Nodes -> {"request", "write_io", "read_io", "write", "read", "stopped"}]
    BY <1>1 DEF TypeOK
  <1>7. /\ npc' \in [Nodes -> {"request", "write_io", "read_io", "write", "read", "stopped"}]
        /\ \A q \in Nodes \ {r} : npc'[q] = npc[q]
    BY <1>4, <1>5, <1>6
  <1>8. UNCHANGED <<mpc, cur, lists, result, written, ops, req, kept, up, mem>>
    BY DEF NodeRequest, masterVars
  <1>9. Send(r, <<>>)  BY <1>1, <1>3, <1>8 DEF Send, TypeOK
  <1>10. Awaited(r)' = After(m, r)
    <2>1. npc'[r] = CASE m.type = "WRITE" -> "write_io"
                      [] m.type = "READ"  -> "read_io"
                      [] m.type = "TERMINATE" -> "stopped"
                      [] OTHER -> "request"
      BY <1>5, <1>6
    <2>2. CASE m.type = "WRITE"  BY <1>2, <2>1, <2>2 DEF Awaited, After
    <2>3. CASE m.type = "READ"  BY <1>2, <2>1, <2>3 DEF Awaited, After
    <2>4. CASE m.type = "TERMINATE"  BY <1>2, <2>1, <2>4 DEF Awaited, After
    <2>5. CASE m.type = "CHANGE_DIR"  BY <1>2, <2>1, <2>5 DEF Awaited, After
    <2> QED  BY <1>4, <2>2, <2>3, <2>4, <2>5
  <1>11. \A q \in Nodes \ {r} : Awaited(q)' = Awaited(q)  BY <1>7, <1>8 DEF Awaited
  <1>12. Queues' /\ chan' \in [Nodes -> Seq(Msg)] /\ up' \in [Ranks -> Seq(Seq(Item))]
    BY <1>1, <1>2, <1>8, <1>9, <1>10, <1>11, TakeStep DEF m
  <1>13. TypeOK'  BY <1>1, <1>7, <1>8, <1>12 DEF TypeOK
  <1>14. RequestInStep'  BY <1>1, <1>8 DEF RequestInStep
  <1> QED  BY <1>12, <1>13, <1>14 DEF StepInv, Queues

LEMMA NodeIOStep == ASSUME StepInv, NEW r \in Nodes, NodeIO(r) PROVE StepInv'
  <1> DEFINE m == Head(chan[r])
  <1>1. TypeOK /\ Queues /\ RequestInStep  BY StepInvParts
  <1>2. /\ npc[r] \in {"write_io", "read_io"} /\ chan[r] # <<>> /\ m.op = "io" /\ Take(r)
        /\ req' = [req EXCEPT ![r] = m]
    BY DEF NodeIO
  <1>3. r \in Ranks /\ m \in Msg /\ CallOf(m) = Awaited(r)  BY <1>2, HeadFacts
  <1>4. npc' = [npc EXCEPT ![r] = CASE @ = "write_io" -> "write"
                                    [] @ = "read_io" /\ m.fileSize = 0 -> "request"
                                    [] OTHER -> "read"]
    BY DEF NodeIO
  <1> HIDE DEF m
  <1>5. m \in [op : {"io"}, type : {"WRITE", "READ"}, ino : Inodes,
               fileSize : Sizes, reqSize : Sizes]
    BY <1>2, <1>3 DEF Msg
  <1>6. m.type = IF npc[r] = "write_io" THEN "WRITE" ELSE "READ"
    BY <1>2, <1>3 DEF CallOf, Awaited, Call
  <1>7. /\ npc \in [Nodes -> {"request", "write_io", "read_io", "write", "read", "stopped"}]
        /\ req \in [Nodes -> [op : {"io"}, type : {"none", "WRITE", "READ"}, ino : Inodes,
                             fileSize : Sizes, reqSize : Sizes]]
    BY <1>1 DEF TypeOK
  <1>8. /\ npc' \in [Nodes -> {"request", "write_io", "read_io", "write", "read", "stopped"}]
        /\ npc'[r] = IF npc[r] = "write_io" THEN "write"
                     ELSE IF m.fileSize = 0 THEN "request" ELSE "read"
        /\ \A q \in Nodes \ {r} : npc'[q] = npc[q]
    BY <1>2, <1>4, <1>7
  <1>9. /\ req' \in [Nodes -> [op : {"io"}, type : {"none", "WRITE", "READ"}, ino : Inodes,
                              fileSize : Sizes, reqSize : Sizes]]
        /\ req'[r] = m
        /\ \A q \in Nodes \ {r} : req'[q] = req[q]
    <2>1. m \in [op : {"io"}, type : {"none", "WRITE", "READ"}, ino : Inodes,
                 fileSize : Sizes, reqSize : Sizes]
      BY <1>5
    <2> QED  BY <1>2, <1>7, <2>1
  <1>10. UNCHANGED <<mpc, cur, lists, result, written, ops, kept, up, mem>>
    BY DEF NodeIO, masterVars
  <1>11. Send(r, <<>>)  BY <1>1, <1>3, <1>10 DEF Send, TypeOK
  <1>12. Awaited(r)' = After(m, r)
    <2>1. CASE npc[r] = "write_io"
      BY <1>5, <1>6, <1>8, <1>9, <2>1 DEF Awaited, After
    <2>2. CASE npc[r] # "write_io" /\ m.fileSize = 0
      BY <1>5, <1>6, <1>8, <1>9, <2>2 DEF Awaited, After
    <2>3. CASE npc[r] # "write_io" /\ m.fileSize # 0
      BY <1>5, <1>6, <1>8, <1>9, <2>3 DEF Awaited, After
    <2> QED  BY <2>1, <2>2, <2>3
  <1>13. \A q \in Nodes \ {r} : Awaited(q)' = Awaited(q)  BY <1>8, <1>9 DEF Awaited
  <1>14. Queues' /\ chan' \in [Nodes -> Seq(Msg)] /\ up' \in [Ranks -> Seq(Seq(Item))]
    BY <1>1, <1>2, <1>10, <1>11, <1>12, <1>13, TakeStep DEF m
  <1>15. TypeOK'  BY <1>1, <1>8, <1>9, <1>10, <1>14 DEF TypeOK
  <1>16. RequestInStep'  BY <1>1, <1>10 DEF RequestInStep
  <1> QED  BY <1>14, <1>15, <1>16 DEF StepInv, Queues

LEMMA NodeWriteStep == ASSUME StepInv, NEW r \in Nodes, NodeWrite(r) PROVE StepInv'
  <1> DEFINE m == Head(chan[r])
             own == NewAddresses(r, m.items)
             ino == req[r].ino
  <1>1. TypeOK /\ Queues /\ RequestInStep  BY StepInvParts
  <1>2. /\ npc[r] = "write" /\ chan[r] # <<>> /\ m.op = "blocks" /\ Take(r)
        /\ npc' = [npc EXCEPT ![r] = "request"]
        /\ Keep(r, m.items) /\ Send(r, own)
        /\ kept' = [kept EXCEPT ![r][ino] = @ \o own]
    BY DEF NodeWrite
  <1>3. r \in Ranks /\ m \in Msg  BY <1>2, HeadFacts
  <1> HIDE DEF m
  <1>4. m.items \in Seq(Block)  BY <1>2, <1>3 DEF Msg
  <1>5. Len(m.items) \in Nat  BY <1>4
  <1>6. own \in Seq(Address) /\ Len(own) = Len(m.items)
    <2>1. mem[r] \in Seq(Block)  BY <1>1, <1>3 DEF TypeOK
    <2>2. Len(mem[r]) \in Nat  BY <2>1
    <2>3. \A k \in 1 .. Len(m.items) : Len(mem[r]) + k \in Address  BY <1>5, <2>2 DEF Address
    <2> QED  BY <1>5, <2>3 DEF NewAddresses
  <1> HIDE DEF own
  <1>7. own \in Seq(Contribution(m.op))  BY <1>2, <1>6 DEF Contribution
  <1>8. npc \in [Nodes -> {"request", "write_io", "read_io", "write", "read", "stopped"}]
    BY <1>1 DEF TypeOK
  <1>9. /\ npc' \in [Nodes -> {"request", "write_io", "read_io", "write", "read", "stopped"}]
        /\ npc'[r] = "request" /\ \A q \in Nodes \ {r} : npc'[q] = npc[q]
    BY <1>2, <1>8
  <1>10. UNCHANGED <<mpc, cur, lists, result, written, ops, req>>
    BY DEF NodeWrite, masterVars
  <1>11. Awaited(r)' = After(m, r)  BY <1>2, <1>9 DEF Awaited, After
  <1>12. \A q \in Nodes \ {r} : Awaited(q)' = Awaited(q)  BY <1>9, <1>10 DEF Awaited
  <1>13. Queues' /\ chan' \in [Nodes -> Seq(Msg)] /\ up' \in [Ranks -> Seq(Seq(Item))]
    BY <1>1, <1>2, <1>6, <1>7, <1>10, <1>11, <1>12, TakeStep DEF m
  <1>14. mem' \in [Ranks -> Seq(Block)]
    BY <1>1, <1>2, <1>3, <1>4, MemoryFacts
  <1>15. kept' \in [Nodes -> [Inodes -> Seq(Address)]]
    <2>1. kept \in [Nodes -> [Inodes -> Seq(Address)]] /\ ino \in Inodes  BY <1>1 DEF TypeOK
    <2> HIDE DEF ino
    <2>2. kept[r] \in [Inodes -> Seq(Address)] /\ kept[r][ino] \o own \in Seq(Address)
      BY <1>6, <2>1
    <2>3. [kept[r] EXCEPT ![ino] = kept[r][ino] \o own] \in [Inodes -> Seq(Address)]
      BY <2>1, <2>2
    <2>4. kept' = [kept EXCEPT ![r] = [kept[r] EXCEPT ![ino] = kept[r][ino] \o own]]
      BY <1>2, <2>1
    <2> QED  BY <2>1, <2>3, <2>4
  <1>16. TypeOK'  BY <1>1, <1>9, <1>10, <1>13, <1>14, <1>15 DEF TypeOK
  <1>17. RequestInStep'  BY <1>1, <1>10 DEF RequestInStep
  <1> QED  BY <1>13, <1>16, <1>17 DEF StepInv, Queues

LEMMA NodeReadStep == ASSUME StepInv, NEW r \in Nodes, NodeRead(r) PROVE StepInv'
  <1> DEFINE m == Head(chan[r])
             own == FetchAll(r, m.items)
  <1>1. TypeOK /\ Queues /\ RequestInStep  BY StepInvParts
  <1>2. /\ npc[r] = "read" /\ chan[r] # <<>> /\ m.op = "addresses" /\ Take(r)
        /\ npc' = [npc EXCEPT ![r] = "request"] /\ Send(r, own)
    BY DEF NodeRead
  <1>3. r \in Ranks /\ m \in Msg  BY <1>2, HeadFacts
  <1> HIDE DEF m
  <1>4. m.items \in Seq(Address)  BY <1>2, <1>3 DEF Msg
  <1>5. own \in Seq(Block \cup {Garbage}) /\ Len(own) = Len(m.items)
    <2>1. Len(m.items) \in Nat  BY <1>4
    <2> QED  BY <1>1, <1>3, <2>1, MemoryFacts
  <1> HIDE DEF own
  <1>6. own \in Seq(Contribution(m.op))  BY <1>2, <1>5 DEF Contribution
  <1>7. npc \in [Nodes -> {"request", "write_io", "read_io", "write", "read", "stopped"}]
    BY <1>1 DEF TypeOK
  <1>8. /\ npc' \in [Nodes -> {"request", "write_io", "read_io", "write", "read", "stopped"}]
        /\ npc'[r] = "request" /\ \A q \in Nodes \ {r} : npc'[q] = npc[q]
    BY <1>2, <1>7
  <1>9. UNCHANGED <<mpc, cur, lists, result, written, ops, req, kept, mem>>
    BY DEF NodeRead, masterVars
  <1>10. Awaited(r)' = After(m, r)  BY <1>2, <1>8 DEF Awaited, After
  <1>11. \A q \in Nodes \ {r} : Awaited(q)' = Awaited(q)  BY <1>8, <1>9 DEF Awaited
  <1>12. Queues' /\ chan' \in [Nodes -> Seq(Msg)] /\ up' \in [Ranks -> Seq(Seq(Item))]
    BY <1>1, <1>2, <1>5, <1>6, <1>9, <1>10, <1>11, TakeStep DEF m
  <1>13. TypeOK'  BY <1>1, <1>8, <1>9, <1>12 DEF TypeOK
  <1>14. RequestInStep'  BY <1>1, <1>9 DEF RequestInStep
  <1> QED  BY <1>12, <1>13, <1>14 DEF StepInv, Queues

-----------------------------------------------------------------------------
LEMMA StutterStep == ASSUME StepInv, UNCHANGED vars PROVE StepInv'
  <1> USE DEF vars, masterVars, nodeVars
  <1>1. TypeOK' /\ RequestInStep'  BY DEF StepInv, TypeOK, RequestInStep
  <1>2. \A r \in Nodes : Awaited(r)' = Awaited(r) /\ Issued(r)' = Issued(r)
    BY DEF Awaited, Issued, BlocksCall, AddressesCall
  <1>3. Chained'  BY <1>2 DEF StepInv, Chained
  <1>4. \A r \in Ranks : Gathers(r)' = Gathers(r)  BY DEF Gathers, ReadBlocks
  <1>5. MasterWaits' /\ GathersInStep' /\ GathersOwn'
    BY <1>4 DEF StepInv, MasterWaits, GathersInStep, GathersOwn, Nodes
  <1> QED  BY <1>1, <1>3, <1>5 DEF StepInv

\* StepInv is inductive.
THEOREM StepInvariance == Spec => []StepInv
  <1>1. Init => StepInv  BY InitStep
  <1>2. StepInv /\ [Next]_vars => StepInv'
    <2> SUFFICES ASSUME StepInv, [Next]_vars PROVE StepInv'
      OBVIOUS
    <2>1. CASE FuseInit      BY <2>1, FuseInitStep
    <2>2. CASE WriteIO       BY <2>2, WriteIOStep
    <2>3. CASE WriteScatter  BY <2>3, WriteScatterStep
    <2>4. CASE WriteGather   BY <2>4, WriteGatherStep
    <2>5. CASE ReadIO        BY <2>5, ReadIOStep
    <2>6. CASE ReadScatter   BY <2>6, ReadScatterStep
    <2>7. CASE ReadGather    BY <2>7, ReadGatherStep
    <2>8. CASE Unmount       BY <2>8, UnmountStep
    <2>9. ASSUME NEW ino \in Inodes, NEW size \in Sizes, FuseOpen(ino, size)
          PROVE  StepInv'
      <3>1. <<>> \in Seq(Block)  OBVIOUS
      <3>2. Start("READ", "read_io", ino, size, size, <<>>)  BY <2>9 DEF FuseOpen
      <3> QED  BY <3>1, <3>2, StartStep
    <2>10. ASSUME NEW ino \in Inodes, NEW size \in Sizes,
                  NEW buf \in [1 .. BlocksFor(size) -> Block], FuseFlush(ino, size, buf)
           PROVE  StepInv'
      <3>1. 0 \in Sizes /\ size \in Nat  BY ClientServerAssumption DEF Sizes
      <3>2. BlocksFor(size) \in Nat  BY <3>1, BlocksForType
      <3>3. buf \in Seq(Block) /\ Len(buf) = BlocksFor(size)  BY <3>2
      <3>4. Start("WRITE", "write_io", ino, size, 0, buf)  BY <2>10 DEF FuseFlush
      <3> QED  BY <3>1, <3>3, <3>4, StartStep
    <2>11. ASSUME NEW r \in Nodes, NodeStep(r) PROVE StepInv'
      BY <2>11, NodeRequestStep, NodeIOStep, NodeWriteStep, NodeReadStep DEF NodeStep
    <2>12. CASE UNCHANGED vars  BY <2>12, StutterStep
    <2> QED
      BY <2>1, <2>2, <2>3, <2>4, <2>5, <2>6, <2>7, <2>8, <2>9, <2>10, <2>11, <2>12
      DEF Next, MasterStep
  <1> QED  BY <1>1, <1>2, PTL DEF Spec

\* The collective a node finds issued is always the one it has called, of the
\* same operation and with the count it has computed itself, for every number
\* of processes, block size, set of files and interleaving.
THEOREM NodesStayInStep == Spec => []NodesInStep
  <1>1. StepInv => NodesInStep
    BY HeadFacts DEF NodesInStep
  <1> QED  BY <1>1, StepInvariance, PTL

\* What the master finds in a gather was sent for that gather and is as long as
\* its gatherCounts say, and every gather leaves nothing behind.
THEOREM GathersStayInStep == Spec => []GathersInStep
  <1>1. StepInv => GathersInStep  BY DEF StepInv
  <1> QED  BY <1>1, StepInvariance, PTL

\* Type correctness; in particular what is kept as an address is one, and what
\* is returned as a block is a block or Garbage.
THEOREM TypeCorrect == Spec => []TypeOK
  <1>1. StepInv => TypeOK  BY DEF StepInv
  <1> QED  BY <1>1, StepInvariance, PTL

-----------------------------------------------------------------------------
(* The data: where the blocks of a file are, and that what is scattered    *)
(* and gathered is the blocks and the addresses of the operation.  The     *)
(* invariant is DataInv, of BlocksAtHome for the files as last written and *)
(* of what is on its way for the operation in progress.                    *)

\* What rank r has sent to the gather, and what it keeps for file ino.
Sent(r)          == {up[r][j] : j \in 1 .. Len(up[r])}
Recorded(r, ino) == {kept[r][ino][k] : k \in DOMAIN kept[r][ino]}

AddressOf(ino, i) == lists[ino][i].data
HomeOf(ino, i)    == Owner(written[ino], i)

\* Every block of a file is where its list says, and no two are at one place.
Stored ==
    \A ino \in Inodes : \A i \in 1 .. written[ino] :
        /\ i <= Len(lists[ino])
        /\ AddressOf(ino, i) \in 1 .. Len(mem[HomeOf(ino, i)])
        /\ HomeOf(ino, i) # 0 => AddressOf(ino, i) \in Recorded(HomeOf(ino, i), ino)

Apart ==
    \A ino, jno \in Inodes : \A i \in 1 .. written[ino], j \in 1 .. written[jno] :
        HomeOf(ino, i) = HomeOf(jno, j) /\ AddressOf(ino, i) = AddressOf(jno, j)
            => ino = jno /\ i = j

\* The addresses rank r sends for a write are those of its share of the blocks,
\* places of their own that no file has yet.
WriteBlocks == BlocksFor(cur.fileSize)

Placed(r, as) ==
    /\ FetchAll(r, as) = Share(cur.buf, WriteBlocks, r)
    /\ \A k \in 1 .. Len(as) :
          /\ as[k] \in 1 .. Len(mem[r])
          /\ r # 0 => as[k] \in Recorded(r, cur.ino)
          /\ \A j \in 1 .. Len(as) : as[j] = as[k] => j = k
          /\ \A ino \in Inodes : \A i \in 1 .. written[ino] :
                HomeOf(ino, i) = r => AddressOf(ino, i) # as[k]

NewBlocks ==
    mpc = "write_gather" =>
        /\ Len(cur.buf) = WriteBlocks
        /\ \A r \in Ranks : \A as \in Sent(r) : Placed(r, as)

\* What it sends for a read is what is at its share of the addresses.
Addresses == LET list == lists[cur.ino]
             IN  [i \in 1 .. ReadBlocks |-> IF i <= Len(list) THEN list[i].data ELSE 0]

Found ==
    mpc = "read_gather" => \A r \in Ranks : \A bs \in Sent(r) :
        bs = FetchAll(r, Share(Addresses, ReadBlocks, r))

\* What rank r has yet to take is its share of either, and the ioRequest it takes
\* before its share of the blocks names the file they are of.
FileBefore(r, k) == IF k = 1 THEN req[r].ino ELSE chan[r][k - 1].ino

InTransit ==
    /\ mpc = "write_scatter" =>
          \A r \in Nodes : FileBefore(r, Len(chan[r]) + 1) = cur.ino
    /\ \A r \in Nodes : \A k \in 1 .. Len(chan[r]) :
          /\ (chan[r][k].op = "blocks" /\ chan[r][k].items # <<>>) =>
                chan[r][k].items = Share(cur.buf, WriteBlocks, r) /\ FileBefore(r, k) = cur.ino
          /\ (chan[r][k].op = "addresses" /\ chan[r][k].items # <<>>) =>
                chan[r][k].items = Share(Addresses, ReadBlocks, r)

DataInv == Stored /\ Apart /\ NewBlocks /\ Found /\ InTransit

\* Blocks are never moved or overwritten, nor their addresses forgotten.
Grows ==
    \A q \in Ranks :
        /\ \A a \in 1 .. Len(mem[q]) : a \in 1 .. Len(mem'[q]) /\ mem'[q][a] = mem[q][a]
        /\ q # 0 => \A ino \in Inodes : Recorded(q, ino) \subseteq Recorded(q, ino)'

LEMMA HomeIsRank ==
    ASSUME TypeOK, NEW ino \in Inodes, NEW i \in 1 .. written[ino]
    PROVE  HomeOf(ino, i) \in Ranks
  <1>1. written[ino] \in Nat
    BY DEF TypeOK
  <1>2. QED  BY <1>1, OwnerHolds DEF HomeOf

\* So the files stay as they are while memory grows,
LEMMA FilesStay ==
    ASSUME TypeOK, Stored, Apart, Grows, UNCHANGED <<lists, written>>
    PROVE  Stored' /\ Apart' /\ Content' = Content
  <1>1. \A ino \in Inodes : \A i \in 1 .. written[ino] :
           HomeOf(ino, i)' = HomeOf(ino, i) /\ AddressOf(ino, i)' = AddressOf(ino, i)
    BY DEF HomeOf, AddressOf
  <1>2. Stored'
    <2>1. ASSUME NEW ino \in Inodes, NEW i \in 1 .. written[ino],
                 NEW q \in Ranks, q = HomeOf(ino, i)
          PROVE  /\ i <= Len(lists[ino]) /\ AddressOf(ino, i) \in 1 .. Len(mem'[q])
                 /\ q # 0 => AddressOf(ino, i) \in Recorded(q, ino)'
      <3>1. /\ i <= Len(lists[ino]) /\ AddressOf(ino, i) \in 1 .. Len(mem[q])
            /\ q # 0 => AddressOf(ino, i) \in Recorded(q, ino)
        BY <2>1 DEF Stored
      <3>2. AddressOf(ino, i) \in 1 .. Len(mem'[q])
        BY <3>1 DEF Grows
      <3>3. ASSUME q # 0 PROVE AddressOf(ino, i) \in Recorded(q, ino)'
        <4>1. Recorded(q, ino) \subseteq Recorded(q, ino)'
          BY <3>3 DEF Grows
        <4>2. QED  BY <3>1, <3>3, <4>1
      <3>4. QED  BY <3>1, <3>2, <3>3
    <2>2. ASSUME NEW ino \in Inodes, NEW i \in 1 .. written'[ino]
          PROVE  /\ i <= Len(lists'[ino])
                 /\ AddressOf(ino, i)' \in 1 .. Len(mem'[HomeOf(ino, i)'])
                 /\ HomeOf(ino, i)' # 0 =>
                       AddressOf(ino, i)' \in {kept'[HomeOf(ino, i)'][ino][k] :
                                                 k \in DOMAIN kept'[HomeOf(ino, i)'][ino]}
      <3>1. i \in 1 .. written[ino]
        OBVIOUS
      <3>2. PICK q \in Ranks : q = HomeOf(ino, i)
        BY <3>1, HomeIsRank
      <3>3. q = HomeOf(ino, i)' /\ AddressOf(ino, i)' = AddressOf(ino, i)
        BY <1>1, <3>1, <3>2
      <3>4. /\ i <= Len(lists[ino]) /\ AddressOf(ino, i) \in 1 .. Len(mem'[q])
            /\ q # 0 => AddressOf(ino, i) \in Recorded(q, ino)'
        BY <2>1, <3>1, <3>2
      <3>5. QED  BY <3>3, <3>4 DEF Recorded
    <2>3. QED  BY <2>2 DEF Stored, Recorded
  <1>3. Apart'
    BY <1>1 DEF Apart
  <1>4. Content' = Content
    <2>1. ASSUME NEW ino \in Inodes, NEW i \in 1 .. written[ino]
          PROVE  Fetch(Owner(written[ino], i), lists[ino][i].data)'
                     = Fetch(Owner(written[ino], i), lists[ino][i].data)
      <3> DEFINE q == HomeOf(ino, i)  a == AddressOf(ino, i)
      <3>1. q \in Ranks /\ a \in 1 .. Len(mem[q])
        BY HomeIsRank DEF Stored
      <3>2. a \in 1 .. Len(mem'[q]) /\ mem'[q][a] = mem[q][a]
        BY <3>1 DEF Grows
      <3>3. q = Owner(written'[ino], i) /\ a = lists'[ino][i].data
        BY DEF HomeOf, AddressOf
      <3>4. QED  BY <3>1, <3>2, <3>3 DEF Fetch, HomeOf, AddressOf
    <2>2. QED  BY <2>1 DEF Content
  <1>5. QED  BY <1>2, <1>3, <1>4

\* and so does what was sent for a write.
LEMMA PlacedStays ==
    ASSUME TypeOK, Grows, UNCHANGED <<cur, lists, written>>,
           NEW r \in Ranks, NEW as, Placed(r, as)
    PROVE  Placed(r, as)'
  <1>1. \A k \in 1 .. Len(as) : Fetch(r, as[k])' = Fetch(r, as[k])
    <2> SUFFICES ASSUME NEW k \in 1 .. Len(as) PROVE Fetch(r, as[k])' = Fetch(r, as[k])
      OBVIOUS
    <2>1. as[k] \in 1 .. Len(mem[r])
      BY DEF Placed
    <2>2. as[k] \in 1 .. Len(mem'[r]) /\ mem'[r][as[k]] = mem[r][as[k]]
      BY <2>1 DEF Grows
    <2>3. QED  BY <2>1, <2>2 DEF Fetch
  <1>2. FetchAll(r, as)' = FetchAll(r, as)
    BY <1>1 DEF FetchAll
  <1>3. WriteBlocks' = WriteBlocks
    BY DEF WriteBlocks
  <1>4. FetchAll(r, as)' = Share(cur'.buf, WriteBlocks', r)
    BY <1>2, <1>3 DEF Placed
  <1>5. ASSUME NEW k \in 1 .. Len(as)
        PROVE  /\ as[k] \in 1 .. Len(mem'[r])
               /\ r # 0 => as[k] \in Recorded(r, cur.ino)'
               /\ \A j \in 1 .. Len(as) : as[j] = as[k] => j = k
               /\ \A ino \in Inodes : \A i \in 1 .. written'[ino] :
                     HomeOf(ino, i)' = r => AddressOf(ino, i)' # as[k]
    <2>1. /\ as[k] \in 1 .. Len(mem[r])
          /\ r # 0 => as[k] \in Recorded(r, cur.ino)
          /\ \A j \in 1 .. Len(as) : as[j] = as[k] => j = k
          /\ \A ino \in Inodes : \A i \in 1 .. written[ino] :
                HomeOf(ino, i) = r => AddressOf(ino, i) # as[k]
      BY DEF Placed
    <2>2. as[k] \in 1 .. Len(mem'[r])
      BY <2>1 DEF Grows, Recorded
    <2>3. ASSUME r # 0 PROVE as[k] \in Recorded(r, cur.ino)'
      <3>1. PICK c \in Inodes : c = cur.ino
        BY DEF TypeOK
      <3>2. as[k] \in Recorded(r, c)
        BY <2>1, <2>3, <3>1
      <3>3. Recorded(r, c) \subseteq Recorded(r, c)'
        BY <2>3 DEF Grows
      <3>4. as[k] \in Recorded(r, c)'
        BY <3>2, <3>3
      <3>5. c = cur'.ino
        BY <3>1
      <3>6. QED  BY <3>4, <3>5 DEF Recorded
    <2>4. ASSUME NEW ino \in Inodes, NEW i \in 1 .. written'[ino], HomeOf(ino, i)' = r
          PROVE  AddressOf(ino, i)' # as[k]
      BY <2>1, <2>4 DEF HomeOf, AddressOf
    <2>5. QED  BY <2>1, <2>2, <2>3, <2>4
  <1>6. QED  BY <1>4, <1>5 DEF Placed

\* malloc of the blocks of s at rank r: nothing moves, and the addresses are new.
LEMMA KeepGrows ==
    ASSUME TypeOK, NEW r \in Ranks, NEW s \in Seq(Block), Keep(r, s),
           NEW as, as = NewAddresses(r, s),
           \A q \in Ranks : q # 0 =>
               \A ino \in Inodes : Recorded(q, ino) \subseteq Recorded(q, ino)'
    PROVE  /\ Grows
           /\ Len(as) = Len(s) /\ FetchAll(r, as)' = s
           /\ \A k \in 1 .. Len(as) :
                 /\ as[k] \in 1 .. Len(mem'[r])
                 /\ as[k] \notin 1 .. Len(mem[r])
                 /\ \A j \in 1 .. Len(as) : as[j] = as[k] => j = k
  <1>1. mem \in [Ranks -> Seq(Block)] /\ mem[r] \in Seq(Block)
    BY DEF TypeOK
  <1>2. /\ mem'[r] = mem[r] \o s
        /\ \A q \in Ranks \ {r} : mem'[q] = mem[q]
    BY <1>1 DEF Keep
  <1> DEFINE m == mem[r]  l == mem'[r]
  <1>3. /\ Len(m) \in Nat /\ Len(s) \in Nat /\ Len(l) = Len(m) + Len(s)
        /\ \A a \in 1 .. Len(m) : l[a] = m[a]
        /\ \A k \in 1 .. Len(s) : l[Len(m) + k] = s[k]
    BY <1>1, <1>2
  <1>4. s = [k \in 1 .. Len(s) |-> s[k]]
    OBVIOUS
  <1> HIDE DEF m, l
  <1>5. \A a \in 1 .. Len(m) : a \in 1 .. Len(l) /\ l[a] = m[a]
    BY <1>3
  <1>6. Grows
    <2>1. ASSUME NEW q \in Ranks, NEW a \in 1 .. Len(mem[q])
          PROVE  a \in 1 .. Len(mem'[q]) /\ mem'[q][a] = mem[q][a]
      <3>1. CASE q = r  BY <1>5, <3>1 DEF m, l
      <3>2. CASE q # r  BY <1>2, <3>2
      <3>3. QED  BY <3>1, <3>2
    <2>2. QED  BY <2>1 DEF Grows
  <1>7. /\ as = [k \in 1 .. Len(s) |-> Len(m) + k]
        /\ Len(as) = Len(s)
        /\ \A k \in 1 .. Len(as) : as[k] = Len(m) + k
    <2>1. as = [k \in 1 .. Len(s) |-> Len(m) + k]
      BY DEF NewAddresses, m
    <2>2. QED  BY <1>3, <2>1
  <1>8. \A k \in 1 .. Len(as) :
           /\ as[k] \in 1 .. Len(l) /\ as[k] \notin 1 .. Len(m)
           /\ \A j \in 1 .. Len(as) : as[j] = as[k] => j = k
    BY <1>3, <1>7
  <1>9. FetchAll(r, as)' = s
    <2>1. \A k \in 1 .. Len(as) : Fetch(r, as[k])' = s[k]
      BY <1>3, <1>7, <1>8 DEF Fetch, l
    <2>2. FetchAll(r, as)' = [k \in 1 .. Len(as) |-> s[k]]
      BY <2>1 DEF FetchAll
    <2>3. QED  BY <1>4, <1>7, <2>2
  <1>10. QED  BY <1>6, <1>7, <1>8, <1>9 DEF m, l

\* The addresses that rank r sends for its share of a write are Placed.
LEMMA NewlyPlaced ==
    ASSUME TypeOK, Stored, UNCHANGED <<cur, lists, written>>,
           NEW r \in Ranks, NEW s \in Seq(Block), Keep(r, s),
           s = Share(cur.buf, WriteBlocks, r),
           NEW as, as = NewAddresses(r, s),
           \A q \in Ranks : q # 0 =>
               \A ino \in Inodes : Recorded(q, ino) \subseteq Recorded(q, ino)',
           \A k \in 1 .. Len(as) : r # 0 => as[k] \in Recorded(r, cur.ino)'
    PROVE  Placed(r, as)'
  <1>1. /\ FetchAll(r, as)' = s
        /\ \A k \in 1 .. Len(as) :
              /\ as[k] \in 1 .. Len(mem'[r])
              /\ as[k] \notin 1 .. Len(mem[r])
              /\ \A j \in 1 .. Len(as) : as[j] = as[k] => j = k
    BY KeepGrows
  <1>2. FetchAll(r, as)' = Share(cur'.buf, WriteBlocks', r)
    BY <1>1 DEF WriteBlocks
  <1>3. ASSUME NEW k \in 1 .. Len(as), NEW ino \in Inodes, NEW i \in 1 .. written'[ino],
               HomeOf(ino, i)' = r
        PROVE  AddressOf(ino, i)' # as[k]
    <2>1. HomeOf(ino, i) = r /\ AddressOf(ino, i)' = AddressOf(ino, i) /\ i \in 1 .. written[ino]
      BY <1>3 DEF HomeOf, AddressOf
    <2>2. AddressOf(ino, i) \in 1 .. Len(mem[r])
      BY <2>1 DEF Stored
    <2>3. QED  BY <1>1, <2>1, <2>2
  <1>4. \A k \in 1 .. Len(as) : r # 0 => as[k] \in Recorded(r, cur.ino)'
    OBVIOUS
  <1>5. \A k \in 1 .. Len(as) :
           /\ as[k] \in 1 .. Len(mem'[r])
           /\ \A j \in 1 .. Len(as) : as[j] = as[k] => j = k
    BY <1>1
  <1>6. QED  BY <1>2, <1>3, <1>4, <1>5 DEF Placed

\* What is sent after a process has sent items.
LEMMA SendSent ==
    ASSUME TypeOK, NEW r \in Ranks, NEW items, Send(r, items),
           items # <<>> => up[r] = <<>> /\ items \in Seq(Item)
    PROVE  \A q \in Ranks : \A as \in Sent(q)' : as \in Sent(q) \/ (q = r /\ as = items)
  <1>1. up \in [Ranks -> Seq(Seq(Item))]
    BY DEF TypeOK
  <1>2. \A q \in Ranks \ {r} : up'[q] = up[q]
    BY <1>1 DEF Send
  <1>3. \A q \in Ranks \ {r} : Sent(q)' = Sent(q)
    BY <1>2 DEF Sent
  <1>4. CASE items = <<>>
    <2>1. up'[r] = up[r]
      BY <1>1, <1>4 DEF Send
    <2>2. Sent(r)' = Sent(r)
      BY <2>1 DEF Sent
    <2>3. QED  BY <1>3, <2>2
  <1>5. CASE items # <<>>
    <2>1. up'[r] = Append(<<>>, items)
      BY <1>1, <1>5 DEF Send
    <2>2. up'[r] = <<items>>
      BY <2>1
    <2>3. Sent(r)' = {items}
      BY <2>2 DEF Sent
    <2>4. QED  BY <1>3, <2>3
  <1>6. QED  BY <1>4, <1>5

\* Nothing has been sent but in a gather, and what is taken from it was sent.
LEMMA SentFacts ==
    ASSUME TypeOK, NEW r \in Ranks
    PROVE  /\ up[r] = <<>> => Sent(r) = {}
           /\ up[r] # <<>> => Head(up[r]) \in Sent(r)
  <1>1. up[r] \in Seq(Seq(Item))
    BY DEF TypeOK
  <1>2. QED  BY <1>1, TailFacts, EmptySeq DEF Sent

\* Before its share of the blocks a process takes an ioRequest.
LEMMA BlocksFollowIO ==
    ASSUME StepInv, NEW r \in Nodes, NEW k \in 1 .. Len(chan[r]),
           k < Len(chan[r]) => chan[r][k + 1].op = "blocks",
           k = Len(chan[r]) => mpc = "write_scatter"
    PROVE  chan[r][k].op = "io"
  <1>1. chan[r] \in Seq(Msg) /\ Leads(chan[r], Awaited(r), Issued(r), r)
    BY DEF StepInv, TypeOK, Chained
  <1>2. Len(chan[r]) \in Nat /\ chan[r] # <<>>
    BY <1>1
  <1>3. \A m : CallOf(m).op = m.op
    BY DEF CallOf, Call, NextRequest
  <1>4. After(chan[r][k], r).op = "blocks"
    <2>1. CASE k < Len(chan[r])
      <3>1. k + 1 \in 1 .. Len(chan[r]) /\ k + 1 # 1 /\ (k + 1) - 1 = k
        BY <1>2, <2>1
      <3>2. CallOf(chan[r][k + 1]) = After(chan[r][k], r)
        BY <1>1, <3>1 DEF Leads
      <3>3. QED  BY <1>3, <2>1, <3>2
    <2>2. CASE k = Len(chan[r])
      <3>1. Issued(r) = After(chan[r][k], r)
        BY <1>1, <1>2, <2>2 DEF Leads
      <3>2. Issued(r).op = "blocks"
        BY <2>2 DEF Issued, BlocksCall, Call
      <3>3. QED  BY <3>1, <3>2
    <2>3. QED  BY <1>2, <2>1, <2>2
  <1>5. QED  BY <1>4 DEF After, Call, BlocksCall, AddressesCall, NextRequest

LEMMA TakeTransit ==
    ASSUME StepInv, InTransit, UNCHANGED <<mpc, cur, lists>>,
           NEW r \in Nodes, chan[r] # <<>>, Take(r),
           \A q \in Nodes \ {r} : req'[q] = req[q],
           req'[r].ino = IF Head(chan[r]).op = "io" THEN Head(chan[r]).ino ELSE req[r].ino
    PROVE  InTransit'
  <1>1. chan \in [Nodes -> Seq(Msg)]
    BY DEF StepInv, TypeOK
  <1>2. /\ chan'[r] = Tail(chan[r]) /\ Head(chan[r]) = chan[r][1]
        /\ \A q \in Nodes \ {r} : chan'[q] = chan[q]
        /\ Len(chan[r]) \in Nat \ {0} /\ Len(chan'[r]) = Len(chan[r]) - 1
        /\ \A k \in 1 .. Len(chan[r]) - 1 : chan'[r][k] = chan[r][k + 1]
    <2>1. chan[r] \in Seq(Msg)
      BY <1>1
    <2>2. chan'[r] = Tail(chan[r]) /\ \A q \in Nodes \ {r} : chan'[q] = chan[q]
      BY <1>1 DEF Take
    <2>3. QED  BY <2>1, <2>2, TailFacts
  <1>3. WriteBlocks' = WriteBlocks /\ Addresses' = Addresses /\ ReadBlocks' = ReadBlocks
    BY DEF WriteBlocks, Addresses, ReadBlocks
  <1>4. ASSUME NEW k \in 1 .. Len(chan[r]),
               chan[r][k].op = "io" \/ k # 1
        PROVE  FileBefore(r, k)' = FileBefore(r, k + 1)
    <2>1. k + 1 # 1 /\ (k + 1) - 1 = k
      BY <1>2
    <2>2. CASE k = 1
      BY <1>2, <1>4, <2>1, <2>2 DEF FileBefore
    <2>3. CASE k # 1
      <3>1. k - 1 \in 1 .. Len(chan[r]) - 1 /\ (k - 1) + 1 = k
        BY <1>2, <2>3
      <3>2. chan'[r][k - 1] = chan[r][k]
        BY <1>2, <3>1
      <3>3. QED  BY <2>1, <2>3, <3>2 DEF FileBefore
    <2>4. QED  BY <2>2, <2>3
  <1>5. ASSUME NEW q \in Nodes \ {r}, NEW k
        PROVE  FileBefore(q, k)' = FileBefore(q, k)
    BY <1>2 DEF FileBefore
  <1>6. ASSUME mpc = "write_scatter", NEW q \in Nodes
        PROVE  FileBefore(q, Len(chan[q]) + 1)' = cur.ino
    <2>1. FileBefore(q, Len(chan[q]) + 1) = cur.ino
      BY <1>6 DEF InTransit
    <2>2. CASE q # r
      BY <1>2, <2>1, <2>2 DEF FileBefore
    <2>3. CASE q = r
      <3> DEFINE k == Len(chan[r])
      <3>1. k \in 1 .. Len(chan[r])
        BY <1>2
      <3>2. chan[r][k].op = "io"
        <4>1. k = Len(chan[r]) /\ ~ (k < Len(chan[r]))
          BY <1>2
        <4> HIDE DEF k
        <4>2. QED  BY <1>6, <3>1, <4>1, BlocksFollowIO
      <3>3. FileBefore(r, k + 1) = cur.ino
        BY <2>1, <2>3
      <3>4. PICK n \in Nat : n = k
        BY <1>2
      <3>5. FileBefore(r, n)' = FileBefore(r, n + 1)
        BY <1>4, <3>1, <3>2, <3>4
      <3>6. n = Len(chan'[r]) + 1
        BY <1>2, <3>4
      <3>7. FileBefore(r, Len(chan[r]) + 1)' = FileBefore(r, n)'
        BY <3>6 DEF FileBefore
      <3>8. QED  BY <2>3, <3>3, <3>4, <3>5, <3>7
    <2>4. QED  BY <2>2, <2>3
  <1>7. ASSUME NEW q \in Nodes, NEW k \in 1 .. Len(chan'[q]), chan'[q][k].items # <<>>
        PROVE  /\ chan'[q][k].op = "blocks" =>
                     /\ chan'[q][k].items = Share(cur.buf, WriteBlocks, q)
                     /\ FileBefore(q, k)' = cur.ino
               /\ chan'[q][k].op = "addresses" =>
                     chan'[q][k].items = Share(Addresses, ReadBlocks, q)
    <2>1. CASE q # r
      <3>1. chan'[q] = chan[q] /\ FileBefore(q, k)' = FileBefore(q, k)
        BY <1>2, <1>5, <2>1
      <3>2. QED  BY <1>7, <3>1 DEF InTransit
    <2>2. CASE q = r
      <3>0. k \in 1 .. Len(chan[r]) - 1
        BY <1>2, <2>2
      <3>1. /\ k \in 1 .. Len(chan[r]) /\ k + 1 \in 1 .. Len(chan[r])
            /\ k < Len(chan[r]) /\ k # Len(chan[r])
            /\ chan'[r][k] = chan[r][k + 1]
        BY <1>2, <3>0
      <3>2. ASSUME chan[r][k + 1].op = "blocks"
            PROVE  FileBefore(r, k)' = FileBefore(r, k + 1)
        <4>1. chan[r][k].op = "io"
          BY <3>1, <3>2, BlocksFollowIO
        <4>2. QED  BY <1>4, <3>1, <4>1
      <3>3. QED  BY <1>7, <2>2, <3>1, <3>2 DEF InTransit
    <2>3. QED  BY <2>1, <2>2
  <1>8. QED  BY <1>3, <1>6, <1>7 DEF InTransit

\* Outside a gather only empty shares wait, so a collective put behind them decides.
LEMMA AppendTransit ==
    ASSUME StepInv, InTransit, ~ Gathering, UNCHANGED req,
           NEW m, \A r \in Nodes : m[r] \in Msg,
           chan' = [r \in Nodes |-> Append(chan[r], m[r])],
           mpc' = "write_scatter" =>
               \A r \in Nodes : m[r].op = "io" /\ m[r].ino = cur'.ino,
           \A r \in Nodes : m[r].op = "blocks" =>
               /\ mpc = "write_scatter" /\ UNCHANGED cur
               /\ m[r].items = Share(cur'.buf, WriteBlocks', r),
           \A r \in Nodes : m[r].op = "addresses" =>
               m[r].items = Share(Addresses', ReadBlocks', r)
    PROVE  InTransit'
  <1>1. ASSUME NEW r \in Nodes
        PROVE  /\ Len(chan[r]) \in Nat /\ Len(chan'[r]) = Len(chan[r]) + 1
               /\ \A k \in 1 .. Len(chan[r]) : chan'[r][k] = chan[r][k]
               /\ chan'[r][Len(chan[r]) + 1] = m[r]
    <2>1. chan[r] \in Seq(Msg) /\ chan'[r] = Append(chan[r], m[r]) /\ m[r] \in Msg
      BY DEF StepInv, TypeOK
    <2>2. QED  BY <2>1, AppendFacts
  <1>2. ASSUME mpc' = "write_scatter", NEW r \in Nodes
        PROVE  FileBefore(r, Len(chan[r]) + 1)' = cur'.ino
    <2>1. Len(chan'[r]) + 1 # 1 /\ (Len(chan'[r]) + 1) - 1 = Len(chan[r]) + 1
      BY <1>1
    <2>2. FileBefore(r, Len(chan[r]) + 1)' = m[r].ino
      BY <1>1, <2>1 DEF FileBefore
    <2>3. QED  BY <1>2, <2>2
  <1>3. ASSUME NEW r \in Nodes, NEW k \in 1 .. Len(chan'[r]), chan'[r][k].items # <<>>
        PROVE  /\ chan'[r][k].op = "blocks" =>
                     /\ chan'[r][k].items = Share(cur'.buf, WriteBlocks', r)
                     /\ FileBefore(r, k)' = cur'.ino
               /\ chan'[r][k].op = "addresses" =>
                     chan'[r][k].items = Share(Addresses', ReadBlocks', r)
    <2>1. k \in 1 .. Len(chan[r]) \/ k = Len(chan[r]) + 1
      BY <1>1
    <2>2. CASE k \in 1 .. Len(chan[r])
      <3>1. chan'[r][k] = chan[r][k]
        BY <1>1, <2>2
      <3>2. chan[r][k].op \notin {"blocks", "addresses"}
        BY <1>3, <2>2, <3>1, NothingSent DEF StepInv
      <3>3. QED  BY <3>1, <3>2
    <2>3. CASE k = Len(chan[r]) + 1
      <3>1. chan'[r][k] = m[r]
        BY <1>1, <2>3
      <3>2. ASSUME m[r].op = "blocks" PROVE FileBefore(r, k)' = cur'.ino
        <4>1. FileBefore(r, Len(chan[r]) + 1) = cur.ino /\ cur' = cur
          BY <3>2 DEF InTransit
        <4>2. CASE k = 1
          BY <2>3, <4>1, <4>2 DEF FileBefore
        <4>3. CASE k # 1
          <5>1. k - 1 = Len(chan[r]) /\ k - 1 \in 1 .. Len(chan[r])
            BY <1>1, <2>3, <4>3
          <5>2. chan'[r][k - 1] = chan[r][k - 1]
            BY <1>1, <5>1
          <5>3. FileBefore(r, k)' = chan'[r][k - 1].ino
            BY <4>3 DEF FileBefore
          <5>4. FileBefore(r, Len(chan[r]) + 1) = chan[r][k - 1].ino
            BY <2>3, <4>3 DEF FileBefore
          <5>5. QED  BY <4>1, <5>2, <5>3, <5>4
        <4>4. QED  BY <4>2, <4>3
      <3>3. QED  BY <3>1, <3>2
    <2>4. QED  BY <2>1, <2>2, <2>3
  <1>4. QED  BY <1>2, <1>3 DEF InTransit

\* MPI_Bcast of a request or an ioRequest leaves every file as it is.
LEMMA BcastData ==
    ASSUME StepInv, DataInv, ~ Gathering, ~ Gathering',
           UNCHANGED <<lists, written, mem, kept, req>>,
           NEW m \in Msg, m.op \notin {"blocks", "addresses"}, Bcast(m),
           mpc' = "write_scatter" => m.op = "io" /\ m.ino = cur'.ino
    PROVE  DataInv' /\ Content' = Content
  <1>1. Stored' /\ Apart' /\ Content' = Content
    <2>1. Grows
      BY DEF Grows, Recorded
    <2>2. QED  BY <2>1, FilesStay DEF StepInv, DataInv
  <1>2. NewBlocks' /\ Found'
    BY DEF NewBlocks, Found, Gathering
  <1>3. InTransit'
    <2> DEFINE c == [r \in Nodes |-> m]
    <2>1. chan' = [r \in Nodes |-> Append(chan[r], c[r])]
      BY DEF Bcast
    <2>2. \A r \in Nodes : c[r] = m
      OBVIOUS
    <2> HIDE DEF c
    <2>3. QED  BY <2>1, <2>2, AppendTransit DEF DataInv
  <1>4. QED  BY <1>1, <1>2, <1>3 DEF DataInv

LEMMA WriteScatterData ==
    ASSUME StepInv, DataInv, WriteScatter PROVE DataInv' /\ Content' = Content
  <1>1. TypeOK /\ Queues /\ RequestInStep
    BY StepInvParts
  <1>2. /\ mpc = "write_scatter" /\ mpc' = "write_gather"
        /\ UNCHANGED <<cur, lists, written, npc, req, kept>>
        /\ Scatterv("blocks", cur.buf)
    BY DEF WriteScatter, nodeVars
  <1>3. 0 \in Ranks /\ 0 \notin Nodes /\ Nodes \subseteq Ranks
    BY PartitionAssumption DEF Ranks, Nodes
  <1>4. cur.buf \in Seq(Block) /\ Len(cur.buf) = WriteBlocks
    BY <1>1, <1>2 DEF TypeOK, RequestInStep, WriteBlocks
  <1>5. \A r \in Ranks : Share(cur.buf, WriteBlocks, r) \in Seq(Block)
    BY <1>4, ShareType
  <1>6. PICK s \in Seq(Block) : s = Share(cur.buf, WriteBlocks, 0)
    BY <1>3, <1>5
  <1>7. PICK as : as = NewAddresses(0, s)
    OBVIOUS
  <1>8. Keep(0, s) /\ Send(0, as)
    BY <1>6, <1>7 DEF WriteScatter, WriteBlocks
  <1>9. \A q \in Ranks : \A ino \in Inodes : Recorded(q, ino) \subseteq Recorded(q, ino)'
    BY <1>2 DEF Recorded
  <1>10. Grows
    BY <1>1, <1>3, <1>7, <1>8, <1>9, KeepGrows
  <1>11. Stored' /\ Apart' /\ Content' = Content
    BY <1>1, <1>2, <1>10, FilesStay DEF DataInv
  <1>12. ~ Gathering
    BY <1>2 DEF Gathering
  <1>13. NewBlocks'
    <2>1. Placed(0, as)'
      BY <1>1, <1>2, <1>3, <1>6, <1>7, <1>8, <1>9, NewlyPlaced DEF DataInv
    <2>2. \A r \in Ranks : up[r] = <<>> /\ Sent(r) = {}
      BY <1>1, <1>12, NothingSent, SentFacts DEF Queues
    <2>3. as \in Seq(Item)
      <3>1. NewAddresses(0, s) \in Seq(Address)
        BY <1>1, <1>3, MemoryFacts
      <3>2. QED  BY <1>7, <3>1, SeqMonotonic DEF Item
    <2>4. \A r \in Ranks : \A bs \in Sent(r)' : bs \in Sent(r) \/ (r = 0 /\ bs = as)
      BY <1>1, <1>3, <1>8, <2>2, <2>3, SendSent
    <2>5. \A r \in Ranks : \A bs \in Sent(r)' : Placed(r, bs)'
      BY <2>1, <2>2, <2>4
    <2>6. Len(cur'.buf) = WriteBlocks'
      BY <1>2, <1>4 DEF WriteBlocks
    <2>7. QED  BY <2>5, <2>6 DEF NewBlocks
  <1>14. Found'
    BY <1>2 DEF Found
  <1>15. InTransit'
    <2> DEFINE m == [r \in Nodes |-> Scattered("blocks", Share(cur.buf, WriteBlocks, r))]
    <2>1. \A r \in Nodes : /\ m[r].op = "blocks" /\ m[r].items = Share(cur.buf, WriteBlocks, r)
                           /\ m[r] \in Msg
      BY <1>3, <1>5 DEF Scattered, Msg
    <2>2. chan' = [r \in Nodes |-> Append(chan[r], m[r])]
      BY <1>2, <1>4 DEF Scatterv
    <2>3. WriteBlocks' = WriteBlocks
      BY <1>2 DEF WriteBlocks
    <2> HIDE DEF m
    <2>4. \A r \in Nodes : m[r].items = Share(cur'.buf, WriteBlocks', r)
      BY <1>2, <2>1, <2>3
    <2>5. QED  BY <1>2, <1>12, <2>1, <2>2, <2>4, AppendTransit DEF DataInv
  <1>16. QED  BY <1>11, <1>13, <1>14, <1>15 DEF DataInv

\* The addresses the master scatters for a read.
LEMMA AddressesType ==
    ASSUME TypeOK
    PROVE  Addresses \in Seq(Address) /\ Len(Addresses) = ReadBlocks
  <1> DEFINE list == lists[cur.ino]
  <1>1. ReadBlocks \in Nat
    BY SizeFacts
  <1>2. list \in Seq([data : Address, rank : Ranks])
    BY DEF TypeOK
  <1>3. Addresses = [i \in 1 .. ReadBlocks |-> IF i <= Len(list) THEN list[i].data ELSE 0]
    BY DEF Addresses
  <1> HIDE DEF list
  <1>4. \A i \in 1 .. ReadBlocks : (IF i <= Len(list) THEN list[i].data ELSE 0) \in Address
    <2>1. ASSUME NEW i \in 1 .. Len(list) PROVE list[i].data \in Address
      <3>1. list[i] \in [data : Address, rank : Ranks]
        BY <1>2, ElementOfSeq
      <3>2. QED  BY <3>1
    <2>2. Len(list) \in Nat /\ 0 \in Address
      BY <1>2 DEF Address
    <2>3. QED  BY <1>1, <2>1, <2>2
  <1>5. QED  BY <1>1, <1>3, <1>4

LEMMA ReadScatterData ==
    ASSUME StepInv, DataInv, ReadScatter PROVE DataInv' /\ Content' = Content
  <1>1. TypeOK /\ Queues /\ RequestInStep
    BY StepInvParts
  <1>2. /\ mpc = "read_scatter" /\ mpc' = "read_gather"
        /\ UNCHANGED <<cur, lists, written, npc, req, kept, mem>>
    BY DEF ReadScatter, nodeVars
  <1>3. 0 \in Ranks /\ 0 \notin Nodes /\ Nodes \subseteq Ranks
    BY PartitionAssumption DEF Ranks, Nodes
  <1>4. Addresses \in Seq(Address) /\ Len(Addresses) = ReadBlocks /\ ReadBlocks \in Nat
    BY <1>1, AddressesType, SizeFacts
  <1>5. \A r \in Ranks : /\ Share(Addresses, ReadBlocks, r) \in Seq(Address)
                         /\ Len(Share(Addresses, ReadBlocks, r)) = Count(ReadBlocks, r)
    BY <1>4, ShareType
  <1>6. PICK bs : bs = FetchAll(0, Share(Addresses, ReadBlocks, 0))
    OBVIOUS
  <1>7. Send(0, bs) /\ Scatterv("addresses", Addresses)
    BY <1>6 DEF ReadScatter, Addresses
  <1>8. /\ Addresses' = Addresses /\ ReadBlocks' = ReadBlocks
        /\ \A r, as : FetchAll(r, as)' = FetchAll(r, as)
    BY <1>2 DEF Addresses, ReadBlocks, FetchAll, Fetch
  <1>9. ~ Gathering
    BY <1>2 DEF Gathering
  <1>10. Stored' /\ Apart' /\ Content' = Content
    <2>1. Grows
      BY <1>2 DEF Grows, Recorded
    <2>2. QED  BY <1>1, <1>2, <2>1, FilesStay DEF DataInv
  <1>11. Found'
    <2>1. \A r \in Ranks : up[r] = <<>> /\ Sent(r) = {}
      BY <1>1, <1>9, NothingSent, SentFacts DEF Queues
    <2>2. bs \in Seq(Item)
      <3>1. Len(Share(Addresses, ReadBlocks, 0)) \in Nat
        BY <1>3, <1>5
      <3>2. FetchAll(0, Share(Addresses, ReadBlocks, 0)) \in Seq(Block \cup {Garbage})
        BY <1>1, <1>3, <3>1, MemoryFacts
      <3>3. QED  BY <1>6, <3>2, SeqMonotonic DEF Item
    <2>3. \A r \in Ranks : \A cs \in Sent(r)' : cs \in Sent(r) \/ (r = 0 /\ cs = bs)
      BY <1>1, <1>3, <1>7, <2>1, <2>2, SendSent
    <2>4. PICK share : share = Share(Addresses, ReadBlocks, 0)
      OBVIOUS
    <2>5. share = Share(Addresses', ReadBlocks', 0) /\ bs = FetchAll(0, share)'
      BY <1>6, <1>8, <2>4
    <2>6. bs = FetchAll(0, Share(Addresses, ReadBlocks, 0))'
      BY <2>5 DEF FetchAll
    <2>7. QED  BY <2>1, <2>3, <2>6 DEF Found
  <1>12. NewBlocks'
    BY <1>2 DEF NewBlocks
  <1>13. InTransit'
    <2> DEFINE m == [r \in Nodes |-> Scattered("addresses", Share(Addresses, ReadBlocks, r))]
    <2>1. \A r \in Nodes : /\ m[r].op = "addresses"
                           /\ m[r].items = Share(Addresses, ReadBlocks, r)
                           /\ m[r] \in Msg
      BY <1>3, <1>5 DEF Scattered, Msg
    <2>2. chan' = [r \in Nodes |-> Append(chan[r], m[r])]
      BY <1>4, <1>7 DEF Scatterv
    <2> HIDE DEF m
    <2>3. \A r \in Nodes : m[r].items = Share(Addresses', ReadBlocks', r)
      BY <1>8, <2>1
    <2>4. QED  BY <1>2, <1>9, <2>1, <2>2, <2>3, AppendTransit DEF DataInv
  <1>14. QED  BY <1>10, <1>11, <1>12, <1>13 DEF DataInv

\* What a write puts into the block list of its file: the address that the owner of
\* block i has sent for it.
LEMMA NewEntry ==
    ASSUME StepInv, DataInv, WriteGather, NEW ino \in Inodes, ino = cur.ino,
           NEW n \in Nat, n = WriteBlocks, NEW i \in 1 .. n,
           NEW r \in Ranks, r = Owner(n, i), NEW k, k = i - Displ(n, r)
    PROVE  \E as \in Sent(r) :
              /\ as = Head(up[r]) /\ Placed(r, as)
              /\ k \in 1 .. Len(as)
              /\ i <= Len(lists'[ino]) /\ lists'[ino][i].data = as[k]
              /\ Fetch(r, as[k]) = cur.buf[i]
  <1>1. TypeOK /\ Queues /\ RequestInStep
    BY StepInvParts
  <1>2. /\ mpc = "write_gather" /\ mpc' = "idle" /\ Gatherv(n)
        /\ lists' = [lists EXCEPT ![ino] = UpdateList(@, Gathered(n))]
    BY DEF WriteGather, WriteBlocks
  <1>3. \A q \in Ranks : Gathers(q) = Count(n, q)
    BY <1>2 DEF Gathers, WriteBlocks
  <1>4. Gathered(n) \in Seq(Address)
    <2>1. Gathering /\ UNCHANGED <<npc, req, chan>>
      BY <1>2 DEF Gathering, WriteGather, nodeVars
    <2>2. QED  BY <1>1, <1>2, <1>3, <2>1, GathervStep
  <1>5. k \in 1 .. Count(n, r) /\ Count(n, r) \in Nat /\ Displ(n, r) \in Nat
    BY OwnerHolds, CountType
  <1>6. Displ(n, r) + k = i
    BY <1>5
  <1>7. up[r] # <<>> /\ Len(Head(up[r])) = Count(n, r)
    <2>1. Count(n, r) > 0
      BY <1>5
    <2>2. up[r] # <<>>
      BY <1>2, <2>1 DEF Gatherv
    <2>3. QED  BY <1>1, <1>3, <2>2 DEF Queues, GathersInStep
  <1>8. PICK as : as = Head(up[r])
    OBVIOUS
  <1>9. as \in Sent(r) /\ Placed(r, as)
    BY <1>1, <1>2, <1>7, <1>8, SentFacts DEF DataInv, NewBlocks
  <1>10. k \in 1 .. Len(as)
    BY <1>5, <1>7, <1>8
  <1>11. Gathered(n)[i] = as[k] /\ i \in 1 .. Len(Gathered(n))
    <2>1. Gathered(n) = [j \in 1 .. n |->
              [q \in Ranks |-> Head(up[q])][Owner(n, j)][j - Displ(n, Owner(n, j))]]
      BY DEF Gathered, Assemble
    <2>2. Gathered(n)[i] = [q \in Ranks |-> Head(up[q])][r][k]
      BY <2>1
    <2>3. Len(Gathered(n)) = n
      BY <2>1
    <2>4. QED  BY <1>8, <2>2, <2>3
  <1>12. i <= Len(lists'[ino]) /\ lists'[ino][i].data = as[k]
    <2> DEFINE list == lists[ino]  got == Gathered(n)
    <2>1. list \in Seq([data : Address, rank : Ranks])
      BY <1>1 DEF TypeOK
    <2>2. lists'[ino] = UpdateList(list, got)
      BY <1>1, <1>2 DEF TypeOK
    <2> HIDE DEF list, got
    <2>3. /\ UpdateList(list, got) \in Seq([data : Address, rank : Ranks])
          /\ Len(got) <= Len(UpdateList(list, got))
          /\ \A j \in 1 .. Len(got) : UpdateList(list, got)[j].data = got[j]
      BY <1>4, <2>1, UpdateListType DEF got
    <2>4. i \in 1 .. Len(got) /\ got[i] = as[k]
      BY <1>11 DEF got
    <2>5. Len(got) \in Nat /\ Len(UpdateList(list, got)) \in Nat
      <3>1. got \in Seq(Address)
        BY <1>4 DEF got
      <3>2. QED  BY <2>3, <3>1, LenProperties
    <2>6. i <= Len(UpdateList(list, got))
      BY <2>3, <2>4, <2>5
    <2>7. QED  BY <2>2, <2>3, <2>4, <2>6
  <1>13. Fetch(r, as[k]) = cur.buf[i]
    <2>1. FetchAll(r, as) = Share(cur.buf, n, r)
      BY <1>9 DEF Placed
    <2>2. FetchAll(r, as)[k] = Fetch(r, as[k])
      BY <1>10 DEF FetchAll
    <2>3. Share(cur.buf, n, r)[k] = cur.buf[i]
      BY <1>5, <1>6 DEF Share
    <2>4. QED  BY <2>1, <2>2, <2>3
  <1>14. QED  BY <1>8, <1>9, <1>10, <1>12, <1>13

LEMMA WriteGatherData ==
    ASSUME StepInv, DataInv, WriteGather
    PROVE  DataInv' /\ Content' = [Content EXCEPT ![cur.ino] = cur.buf]
  <1>1. TypeOK /\ Queues /\ RequestInStep
    BY StepInvParts
  <1>2. /\ mpc = "write_gather" /\ mpc' = "idle"
        /\ UNCHANGED <<cur, chan, req, mem, kept>>
    BY DEF WriteGather, nodeVars
  <1>3. PICK ino \in Inodes : ino = cur.ino
    BY <1>1 DEF TypeOK
  <1>4. PICK n \in Nat : n = WriteBlocks
    BY <1>1, SizeFacts DEF WriteBlocks
  <1>5. /\ written'[ino] = n
        /\ \A jno \in Inodes \ {ino} : written'[jno] = written[jno] /\ lists'[jno] = lists[jno]
    BY <1>1, <1>3, <1>4 DEF WriteGather, WriteBlocks, TypeOK
  <1>6. ASSUME NEW i \in 1 .. n
        PROVE  \E r \in Ranks :
                  /\ r = HomeOf(ino, i)' /\ Placed(r, Head(up[r]))
                  /\ i - Displ(n, r) \in 1 .. Len(Head(up[r]))
                  /\ i <= Len(lists'[ino])
                  /\ AddressOf(ino, i)' = Head(up[r])[i - Displ(n, r)]
                  /\ Fetch(r, Head(up[r])[i - Displ(n, r)]) = cur.buf[i]
    <2>1. PICK r \in Ranks : r = Owner(n, i)
      BY OwnerHolds
    <2>2. r = HomeOf(ino, i)'
      BY <1>5, <2>1 DEF HomeOf
    <2>3. PICK k : k = i - Displ(n, r)
      OBVIOUS
    <2>4. PICK as \in Sent(r) :
              /\ as = Head(up[r]) /\ Placed(r, as)
              /\ k \in 1 .. Len(as)
              /\ i <= Len(lists'[ino]) /\ lists'[ino][i].data = as[k]
              /\ Fetch(r, as[k]) = cur.buf[i]
      BY <1>3, <1>4, <2>1, <2>3, NewEntry
    <2>5. QED  BY <2>2, <2>3, <2>4 DEF AddressOf
  <1>7. ASSUME NEW jno \in Inodes \ {ino}, NEW j
        PROVE  HomeOf(jno, j)' = HomeOf(jno, j) /\ AddressOf(jno, j)' = AddressOf(jno, j)
    BY <1>5 DEF HomeOf, AddressOf
  <1>8. Stored'
    <2>1. ASSUME NEW jno \in Inodes, NEW i \in 1 .. written'[jno]
          PROVE  /\ i <= Len(lists'[jno])
                 /\ AddressOf(jno, i)' \in 1 .. Len(mem[HomeOf(jno, i)'])
                 /\ HomeOf(jno, i)' # 0 =>
                       AddressOf(jno, i)' \in {kept[HomeOf(jno, i)'][jno][k] :
                                                 k \in DOMAIN kept[HomeOf(jno, i)'][jno]}
      <3>1. CASE jno = ino
        <4>1. PICK r \in Ranks :
                  /\ r = HomeOf(ino, i)' /\ Placed(r, Head(up[r]))
                  /\ i - Displ(n, r) \in 1 .. Len(Head(up[r]))
                  /\ i <= Len(lists'[ino])
                  /\ AddressOf(ino, i)' = Head(up[r])[i - Displ(n, r)]
          BY <1>5, <1>6, <3>1
        <4>2. PICK a : a = Head(up[r])[i - Displ(n, r)]
          OBVIOUS
        <4>3. /\ a \in 1 .. Len(mem[r])
              /\ r # 0 => a \in Recorded(r, ino)
          BY <1>3, <4>1, <4>2 DEF Placed
        <4>4. QED  BY <3>1, <4>1, <4>2, <4>3 DEF Recorded
      <3>2. CASE jno # ino
        <4>1. i \in 1 .. written[jno] /\ lists'[jno] = lists[jno]
          BY <1>5, <3>2
        <4>2. /\ i <= Len(lists[jno])
              /\ AddressOf(jno, i) \in 1 .. Len(mem[HomeOf(jno, i)])
              /\ HomeOf(jno, i) # 0 => AddressOf(jno, i) \in Recorded(HomeOf(jno, i), jno)
          BY <1>1, <4>1 DEF DataInv, Stored
        <4>3. HomeOf(jno, i)' = HomeOf(jno, i) /\ AddressOf(jno, i)' = AddressOf(jno, i)
          BY <1>7, <3>2
        <4>4. QED  BY <4>1, <4>2, <4>3 DEF Recorded
      <3>3. QED  BY <3>1, <3>2
    <2>2. QED  BY <1>2, <2>1 DEF Stored, Recorded
  <1>9. Apart'
    <2>1. ASSUME NEW jno \in Inodes, NEW hno \in Inodes,
                 NEW i \in 1 .. written'[jno], NEW j \in 1 .. written'[hno],
                 HomeOf(jno, i)' = HomeOf(hno, j)', AddressOf(jno, i)' = AddressOf(hno, j)'
          PROVE  jno = hno /\ i = j
      <3>1. ASSUME NEW gno \in Inodes \ {ino}, NEW g \in 1 .. written'[gno], NEW i2 \in 1 .. n,
                   HomeOf(gno, g)' = HomeOf(ino, i2)',
                   AddressOf(gno, g)' = AddressOf(ino, i2)'
            PROVE  FALSE
        <4>1. PICK r \in Ranks :
                  /\ r = HomeOf(ino, i2)' /\ Placed(r, Head(up[r]))
                  /\ i2 - Displ(n, r) \in 1 .. Len(Head(up[r]))
                  /\ AddressOf(ino, i2)' = Head(up[r])[i2 - Displ(n, r)]
          BY <1>6
        <4>2. g \in 1 .. written[gno]
          BY <1>5
        <4>3. HomeOf(gno, g) = r /\ AddressOf(gno, g) = Head(up[r])[i2 - Displ(n, r)]
          BY <1>7, <3>1, <4>1
        <4>4. QED  BY <4>1, <4>2, <4>3 DEF Placed
      <3>2. CASE jno # ino /\ hno # ino
        <4>1. i \in 1 .. written[jno] /\ j \in 1 .. written[hno]
          BY <1>5, <3>2
        <4>2. HomeOf(jno, i) = HomeOf(hno, j) /\ AddressOf(jno, i) = AddressOf(hno, j)
          BY <1>7, <2>1, <3>2
        <4>3. QED  BY <4>1, <4>2 DEF DataInv, Apart
      <3>3. CASE jno = ino /\ hno = ino
        <4>1. i \in 1 .. n /\ j \in 1 .. n
          BY <1>5, <3>3
        <4>2. PICK r \in Ranks :
                  /\ r = HomeOf(ino, i)' /\ Placed(r, Head(up[r]))
                  /\ i - Displ(n, r) \in 1 .. Len(Head(up[r]))
                  /\ AddressOf(ino, i)' = Head(up[r])[i - Displ(n, r)]
          BY <1>6, <4>1
        <4>3. PICK q \in Ranks :
                  /\ q = HomeOf(ino, j)'
                  /\ j - Displ(n, q) \in 1 .. Len(Head(up[q]))
                  /\ AddressOf(ino, j)' = Head(up[q])[j - Displ(n, q)]
          BY <1>6, <4>1
        <4>4. q = r /\ Head(up[r])[i - Displ(n, r)] = Head(up[r])[j - Displ(n, r)]
          BY <2>1, <3>3, <4>2, <4>3
        <4>5. i - Displ(n, r) = j - Displ(n, r)
          BY <4>2, <4>3, <4>4 DEF Placed
        <4>6. Displ(n, r) \in Nat
          BY CountType
        <4>7. i = j
          BY <4>1, <4>5, <4>6
        <4>8. QED  BY <3>3, <4>7
      <3>4. CASE jno = ino /\ hno # ino
        BY <1>5, <2>1, <3>1, <3>4
      <3>5. CASE jno # ino /\ hno = ino
        BY <1>5, <2>1, <3>1, <3>5
      <3>6. QED  BY <3>2, <3>3, <3>4, <3>5
    <2>2. QED  BY <2>1 DEF Apart
  <1>10. NewBlocks' /\ Found'
    BY <1>2 DEF NewBlocks, Found
  <1>11. InTransit'
    <2>1. MasterWaits'
      BY WriteGatherStep DEF StepInv
    <2>2. \A r \in Nodes : \A k \in 1 .. Len(chan'[r]) :
             ~ (chan'[r][k].op \in {"blocks", "addresses"} /\ chan'[r][k].items # <<>>)
      BY <1>2, <2>1 DEF MasterWaits, GatherOf
    <2>3. QED  BY <1>2, <2>2 DEF InTransit
  <1>12. Content' = [Content EXCEPT ![cur.ino] = cur.buf]
    <2>1. cur.buf \in Seq(Block) /\ Len(cur.buf) = n
      BY <1>1, <1>2, <1>4 DEF TypeOK, DataInv, NewBlocks
    <2>2. cur.buf = [i \in 1 .. n |-> cur.buf[i]]
      BY <2>1
    <2>3. Content'[ino] = cur.buf
      <3>1. ASSUME NEW i \in 1 .. n
            PROVE  Fetch(Owner(written[ino], i), lists[ino][i].data)' = cur.buf[i]
        <4>1. PICK r \in Ranks :
                  /\ r = HomeOf(ino, i)'
                  /\ AddressOf(ino, i)' = Head(up[r])[i - Displ(n, r)]
                  /\ Fetch(r, Head(up[r])[i - Displ(n, r)]) = cur.buf[i]
          BY <1>6
        <4>2. /\ r = Owner(written'[ino], i)
              /\ lists'[ino][i].data = Head(up[r])[i - Displ(n, r)]
          BY <4>1 DEF HomeOf, AddressOf
        <4>3. QED  BY <1>2, <4>1, <4>2 DEF Fetch
      <3>2. Content'[ino] = [i \in 1 .. n |->
                                Fetch(Owner(written[ino], i), lists[ino][i].data)']
        BY <1>5 DEF Content
      <3>3. Content'[ino] = [i \in 1 .. n |-> cur.buf[i]]
        BY <3>1, <3>2
      <3>4. QED  BY <2>2, <3>3
    <2>4. ASSUME NEW jno \in Inodes \ {ino} PROVE Content'[jno] = Content[jno]
      BY <1>2, <1>5 DEF Content, Fetch
    <2>5. Content' = [jno \in Inodes |-> Content'[jno]] /\ Content = [jno \in Inodes |-> Content[jno]]
      BY DEF Content
    <2> HIDE DEF Content
    <2>6. Content' = [Content EXCEPT ![ino] = cur.buf]
      BY <2>3, <2>4, <2>5
    <2>7. QED  BY <1>3, <2>6
  <1>13. QED  BY <1>8, <1>9, <1>10, <1>11, <1>12 DEF DataInv

\* A read returns as many blocks as it asks for, and those of the file when that is
\* the number that was last written.
LEMMA ReadResult ==
    ASSUME StepInv, DataInv, ReadGather
    PROVE  /\ result' \in [1 .. ReadBlocks -> Block \cup {Garbage}]
           /\ ReadBlocks = written[cur.ino] => result' = Content[cur.ino]
  <1>1. TypeOK /\ Queues /\ RequestInStep
    BY StepInvParts
  <1>2. PICK n \in Nat : n = ReadBlocks
    BY <1>1, SizeFacts
  <1>3. mpc = "read_gather" /\ mpc' = "idle" /\ Gatherv(n) /\ result' = Gathered(n)
    BY <1>2 DEF ReadGather
  <1>4. \A q \in Ranks : Gathers(q) = Count(n, q)
    BY <1>2, <1>3 DEF Gathers
  <1>5. Gathered(n) \in Seq(Block \cup {Garbage})
    <2>1. Gathering /\ UNCHANGED <<npc, req, chan>>
      BY <1>3 DEF Gathering, ReadGather, nodeVars
    <2>2. mpc # "write_gather"
      BY <1>3
    <2>3. QED  BY <1>1, <1>3, <1>4, <2>1, <2>2, GathervStep
  <1>6. Gathered(n) = [j \in 1 .. n |->
            [q \in Ranks |-> Head(up[q])][Owner(n, j)][j - Displ(n, Owner(n, j))]]
    BY DEF Gathered, Assemble
  <1>7. result' \in [1 .. n -> Block \cup {Garbage}]
    <2>1. Len(Gathered(n)) = n
      BY <1>6
    <2>2. QED  BY <1>3, <1>5, <2>1
  <1>8. ASSUME n = written[cur.ino] PROVE result' = Content[cur.ino]
    <2>1. PICK ino \in Inodes : ino = cur.ino
      BY <1>1 DEF TypeOK
    <2>2. Addresses \in Seq(Address) /\ Len(Addresses) = n
      BY <1>1, <1>2, AddressesType
    <2>3. ASSUME NEW i \in 1 .. n
          PROVE  result'[i] = Fetch(Owner(n, i), lists[ino][i].data)
      <3>1. PICK r \in Ranks : r = Owner(n, i)
        BY OwnerHolds
      <3>2. PICK k : k = i - Displ(n, r)
        OBVIOUS
      <3>3. k \in 1 .. Count(n, r) /\ Count(n, r) \in Nat /\ Displ(n, r) \in Nat
        BY <3>1, <3>2, OwnerHolds, CountType
      <3>4. Displ(n, r) + k = i
        BY <3>2, <3>3
      <3>5. up[r] # <<>>
        BY <1>3, <3>3 DEF Gatherv
      <3>6. Head(up[r]) = FetchAll(r, Share(Addresses, n, r))
        BY <1>1, <1>2, <1>3, <3>5, SentFacts DEF DataInv, Found
      <3>7. Len(Share(Addresses, n, r)) = Count(n, r)
        BY <2>2, ShareType
      <3>8. Head(up[r])[k] = Fetch(r, Share(Addresses, n, r)[k])
        BY <3>3, <3>6, <3>7 DEF FetchAll
      <3>9. Share(Addresses, n, r)[k] = Addresses[i]
        BY <3>3, <3>4 DEF Share
      <3>10. i <= Len(lists[ino])
        BY <1>8, <2>1 DEF DataInv, Stored
      <3>11. Addresses[i] = lists[ino][i].data
        BY <1>2, <2>1, <3>10 DEF Addresses
      <3>12. result'[i] = Head(up[r])[k]
        BY <1>3, <1>6, <3>1, <3>2
      <3>13. QED  BY <3>1, <3>8, <3>9, <3>11, <3>12
    <2>4. result' = [i \in 1 .. n |-> result'[i]]
      BY <1>7
    <2>5. Content[ino] = [i \in 1 .. n |-> Fetch(Owner(n, i), lists[ino][i].data)]
      BY <1>8, <2>1 DEF Content
    <2>6. QED  BY <2>1, <2>3, <2>4, <2>5
  <1>9. QED  BY <1>2, <1>7, <1>8

LEMMA ReadGatherData ==
    ASSUME StepInv, DataInv, ReadGather PROVE DataInv' /\ Content' = Content
  <1>1. /\ mpc' = "idle"
        /\ UNCHANGED <<cur, lists, written, chan, req, mem, kept>>
    BY DEF ReadGather, nodeVars
  <1>2. Stored' /\ Apart' /\ Content' = Content
    <2>1. Grows
      BY <1>1 DEF Grows, Recorded
    <2>2. QED  BY <1>1, <2>1, FilesStay DEF DataInv, StepInv
  <1>3. NewBlocks' /\ Found'
    BY <1>1 DEF NewBlocks, Found
  <1>4. InTransit'
    <2>1. MasterWaits'
      BY ReadGatherStep DEF StepInv
    <2>2. \A r \in Nodes : \A k \in 1 .. Len(chan'[r]) :
             ~ (chan'[r][k].op \in {"blocks", "addresses"} /\ chan'[r][k].items # <<>>)
      BY <1>1, <2>1 DEF MasterWaits, GatherOf
    <2>3. QED  BY <1>1, <2>2 DEF InTransit
  <1>5. QED  BY <1>2, <1>3, <1>4 DEF DataInv

\* A step that moves no block and sends nothing.
LEMMA QuietData ==
    ASSUME StepInv, DataInv, UNCHANGED <<mpc, cur, lists, written, mem, kept, up>>, InTransit'
    PROVE  DataInv' /\ Content' = Content
  <1>1. Stored' /\ Apart' /\ Content' = Content
    <2>1. Grows
      BY DEF Grows, Recorded
    <2>2. QED  BY <2>1, FilesStay DEF DataInv, StepInv
  <1>2. /\ WriteBlocks' = WriteBlocks /\ Addresses' = Addresses /\ ReadBlocks' = ReadBlocks
        /\ \A r : Sent(r)' = Sent(r)
        /\ \A r, as : FetchAll(r, as)' = FetchAll(r, as)
    BY DEF WriteBlocks, Addresses, ReadBlocks, Sent, FetchAll, Fetch
  <1>3. NewBlocks'
    <2>1. Grows
      BY DEF Grows, Recorded
    <2>2. ASSUME mpc = "write_gather", NEW r \in Ranks, NEW as \in Sent(r)
          PROVE  Placed(r, as)'
      BY <2>1, <2>2, PlacedStays DEF DataInv, NewBlocks, StepInv
    <2>3. QED  BY <1>2, <2>2 DEF NewBlocks, DataInv
  <1>4. Found'
    <2>1. ASSUME mpc = "read_gather", NEW r \in Ranks, NEW bs \in Sent(r)
          PROVE  bs = FetchAll(r, Share(Addresses, ReadBlocks, r))'
      <3>1. PICK share : share = Share(Addresses, ReadBlocks, r)
        OBVIOUS
      <3>2. bs = FetchAll(r, share) /\ share = Share(Addresses', ReadBlocks', r)
        BY <1>2, <2>1, <3>1 DEF DataInv, Found
      <3>3. bs = FetchAll(r, share)'
        BY <1>2, <3>2
      <3>4. QED  BY <3>2, <3>3 DEF FetchAll
    <2>2. QED  BY <1>2, <2>1 DEF Found
  <1>5. QED  BY <1>1, <1>3, <1>4 DEF DataInv

LEMMA NodeRequestData ==
    ASSUME StepInv, DataInv, NEW r \in Nodes, NodeRequest(r)
    PROVE  DataInv' /\ Content' = Content
  <1>1. /\ chan[r] # <<>> /\ Head(chan[r]).op = "request" /\ Take(r)
        /\ UNCHANGED <<mpc, cur, lists, written, mem, kept, up, req>>
    BY DEF NodeRequest, masterVars
  <1>2. InTransit'
    BY <1>1, TakeTransit DEF DataInv
  <1>3. QED  BY <1>1, <1>2, QuietData

LEMMA NodeIOData ==
    ASSUME StepInv, DataInv, NEW r \in Nodes, NodeIO(r)
    PROVE  DataInv' /\ Content' = Content
  <1>1. /\ chan[r] # <<>> /\ Head(chan[r]).op = "io" /\ Take(r)
        /\ req' = [req EXCEPT ![r] = Head(chan[r])]
        /\ UNCHANGED <<mpc, cur, lists, written, mem, kept, up>>
    BY DEF NodeIO, masterVars
  <1>2. req'[r].ino = Head(chan[r]).ino /\ \A q \in Nodes \ {r} : req'[q] = req[q]
    BY <1>1 DEF StepInv, TypeOK
  <1>3. InTransit'
    BY <1>1, <1>2, TakeTransit DEF DataInv
  <1>4. QED  BY <1>1, <1>3, QuietData

\* A node's share of the blocks is of the file in progress, and what it sends is placed.
LEMMA NodeWriteData ==
    ASSUME StepInv, DataInv, NEW r \in Nodes, NodeWrite(r)
    PROVE  DataInv' /\ Content' = Content
  <1>1. TypeOK /\ Queues /\ r \in Ranks /\ r # 0
    BY StepInvParts DEF Nodes
  <1>2. /\ chan[r] # <<>> /\ Head(chan[r]).op = "blocks" /\ Take(r)
        /\ UNCHANGED <<mpc, cur, lists, written, req>>
    BY DEF NodeWrite, masterVars
  <1>3. PICK s : s = Head(chan[r]).items
    OBVIOUS
  <1>4. s \in Seq(Block)
    <2>1. Head(chan[r]) \in Msg
      BY <1>2, HeadFacts
    <2>2. QED  BY <1>2, <1>3, <2>1 DEF Msg
  <1>5. PICK as : as = NewAddresses(r, s)
    OBVIOUS
  <1>6. PICK ino \in Inodes : ino = req[r].ino
    BY <1>1 DEF TypeOK
  <1>7. /\ Keep(r, s) /\ Send(r, as)
        /\ kept' = [kept EXCEPT ![r][ino] = @ \o as]
    BY <1>3, <1>5, <1>6 DEF NodeWrite
  <1>8. as \in Seq(Address) /\ Len(as) = Len(s)
    BY <1>1, <1>4, <1>5, MemoryFacts
  <1>9. InTransit'
    BY <1>2, TakeTransit DEF DataInv
  <1>10. kept \in [Nodes -> [Inodes -> Seq(Address)]]
    BY <1>1 DEF TypeOK
  <1>11. /\ kept'[r][ino] = kept[r][ino] \o as
         /\ \A q \in Nodes, jno \in Inodes : q # r \/ jno # ino => kept'[q][jno] = kept[q][jno]
    BY <1>7, <1>10
  <1>12. CASE s = <<>>
    <2>1. as = <<>>
      BY <1>8, <1>12, EmptySeq
    <2>2. mem' = mem
      <3>1. mem \in [Ranks -> Seq(Block)] /\ mem[r] \o <<>> = mem[r]
        BY <1>1 DEF TypeOK
      <3>2. QED  BY <1>7, <1>12, <3>1 DEF Keep
    <2>3. up' = up
      <3>1. up \in [Ranks -> Seq(Seq(Item))]
        BY <1>1 DEF TypeOK
      <3>2. QED  BY <1>7, <2>1, <3>1 DEF Send
    <2>4. kept' = kept
      <3>1. kept[r][ino] \in Seq(Address)
        BY <1>10
      <3>2. kept[r][ino] \o as = kept[r][ino]
        BY <2>1, <3>1
      <3>3. [kept[r] EXCEPT ![ino] = kept[r][ino]] = kept[r]
        BY <1>10
      <3>4. kept' = [kept EXCEPT ![r] = [kept[r] EXCEPT ![ino] = kept[r][ino]]]
        BY <1>7, <1>10, <3>2
      <3>5. QED  BY <1>10, <3>3, <3>4
    <2>5. QED  BY <1>2, <1>9, <2>2, <2>3, <2>4, QuietData
  <1>13. CASE s # <<>>
    <2>1. chan[r][1] = Head(chan[r]) /\ 1 \in 1 .. Len(chan[r])
      <3>1. chan[r] \in Seq(Msg)
        BY <1>1 DEF TypeOK
      <3>2. QED  BY <1>2, <3>1, TailFacts
    <2>2. mpc = "write_gather" /\ up[r] = <<>>
      BY <1>1, <1>2, <1>3, <1>13, <2>1 DEF Queues, MasterWaits, GatherOf
    <2>3. s = Share(cur.buf, WriteBlocks, r) /\ ino = cur.ino
      <3>1. s = Share(cur.buf, WriteBlocks, r) /\ FileBefore(r, 1) = cur.ino
        BY <1>2, <1>3, <1>13, <2>1 DEF DataInv, InTransit
      <3>2. QED  BY <1>6, <3>1 DEF FileBefore
    <2>4. ASSUME NEW q \in Ranks, q # 0, NEW jno \in Inodes
          PROVE  Recorded(q, jno) \subseteq Recorded(q, jno)'
      <3>1. q \in Nodes
        BY <2>4 DEF Nodes
      <3>2. CASE q # r \/ jno # ino
        BY <1>11, <3>1, <3>2 DEF Recorded
      <3>3. CASE q = r /\ jno = ino
        <4>1. \A k \in DOMAIN kept[r][ino] :
                 k \in DOMAIN kept'[r][ino] /\ kept'[r][ino][k] = kept[r][ino][k]
          <5>1. kept[r][ino] \in Seq(Address)
            BY <1>10
          <5>2. \A t, u \in Seq(Address) : \A k \in DOMAIN t :
                   k \in DOMAIN (t \o u) /\ (t \o u)[k] = t[k]
            OBVIOUS
          <5>3. QED  BY <1>8, <1>11, <5>1, <5>2
        <4>2. QED  BY <3>3, <4>1 DEF Recorded
      <3>4. QED  BY <3>2, <3>3
    <2>5. ASSUME NEW k \in 1 .. Len(as) PROVE as[k] \in Recorded(r, cur.ino)'
      <3>1. kept[r][ino] \in Seq(Address)
        BY <1>10
      <3>2. \A t, u \in Seq(Address) : \A i \in 1 .. Len(u) :
               Len(t) + i \in DOMAIN (t \o u) /\ (t \o u)[Len(t) + i] = u[i]
        OBVIOUS
      <3>3. PICK i : i = Len(kept[r][ino]) + k
        OBVIOUS
      <3>4. i \in DOMAIN kept'[r][ino] /\ kept'[r][ino][i] = as[k]
        BY <1>8, <1>11, <3>1, <3>2, <3>3
      <3>5. as[k] \in {kept'[r][ino][j] : j \in DOMAIN kept'[r][ino]}
        BY <3>4
      <3>6. ino = cur'.ino
        BY <1>2, <2>3
      <3>7. QED  BY <3>5, <3>6 DEF Recorded
    <2>6. Grows
      BY <1>1, <1>4, <1>5, <1>7, <2>4, KeepGrows
    <2>7. Stored' /\ Apart' /\ Content' = Content
      BY <1>1, <1>2, <2>6, FilesStay DEF DataInv
    <2>8. Placed(r, as)'
      BY <1>1, <1>2, <1>4, <1>5, <1>7, <2>3, <2>4, <2>5, NewlyPlaced DEF DataInv
    <2>9. as \in Seq(Item)
      BY <1>8, SeqMonotonic DEF Item
    <2>10. \A q \in Ranks : \A bs \in Sent(q)' : bs \in Sent(q) \/ (q = r /\ bs = as)
      BY <1>1, <1>7, <2>2, <2>9, SendSent
    <2>11. NewBlocks'
      <3>1. ASSUME NEW q \in Ranks, NEW bs \in Sent(q)' PROVE Placed(q, bs)'
        <4>1. CASE bs \in Sent(q)
          <5>1. Placed(q, bs)
            BY <2>2, <4>1 DEF DataInv, NewBlocks
          <5>2. QED  BY <1>1, <1>2, <2>6, <5>1, PlacedStays
        <4>2. CASE q = r /\ bs = as
          BY <2>8, <4>2
        <4>3. QED  BY <2>10, <4>1, <4>2
      <3>2. Len(cur'.buf) = WriteBlocks'
        BY <1>2, <2>2 DEF DataInv, NewBlocks, WriteBlocks
      <3>3. QED  BY <3>1, <3>2 DEF NewBlocks
    <2>12. Found'
      BY <1>2, <2>2 DEF Found
    <2>13. QED  BY <1>9, <2>7, <2>11, <2>12 DEF DataInv
  <1>14. QED  BY <1>12, <1>13

\* A node sends the blocks at its share of the addresses.
LEMMA NodeReadData ==
    ASSUME StepInv, DataInv, NEW r \in Nodes, NodeRead(r)
    PROVE  DataInv' /\ Content' = Content
  <1>1. TypeOK /\ Queues /\ r \in Ranks
    BY StepInvParts DEF Nodes
  <1>2. /\ chan[r] # <<>> /\ Head(chan[r]).op = "addresses" /\ Take(r)
        /\ UNCHANGED <<mpc, cur, lists, written, req, kept, mem>>
    BY DEF NodeRead, masterVars
  <1>3. PICK share : share = Head(chan[r]).items
    OBVIOUS
  <1>4. share \in Seq(Address)
    <2>1. Head(chan[r]) \in Msg
      BY <1>2, HeadFacts
    <2>2. QED  BY <1>2, <1>3, <2>1 DEF Msg
  <1>5. PICK bs : bs = FetchAll(r, share)
    OBVIOUS
  <1>6. Send(r, bs)
    BY <1>3, <1>5 DEF NodeRead
  <1>7. bs \in Seq(Block \cup {Garbage}) /\ Len(bs) = Len(share)
    <2>1. Len(share) \in Nat
      BY <1>4
    <2>2. QED  BY <1>1, <1>5, <2>1, MemoryFacts
  <1>8. InTransit'
    BY <1>2, TakeTransit DEF DataInv
  <1>9. CASE share = <<>>
    <2>1. bs = <<>>
      BY <1>7, <1>9, EmptySeq
    <2>2. up' = up
      <3>1. up \in [Ranks -> Seq(Seq(Item))]
        BY <1>1 DEF TypeOK
      <3>2. QED  BY <1>6, <2>1, <3>1 DEF Send
    <2>3. QED  BY <1>2, <1>8, <2>2, QuietData
  <1>10. CASE share # <<>>
    <2>1. chan[r][1] = Head(chan[r]) /\ 1 \in 1 .. Len(chan[r])
      <3>1. chan[r] \in Seq(Msg)
        BY <1>1 DEF TypeOK
      <3>2. QED  BY <1>2, <3>1, TailFacts
    <2>2. mpc = "read_gather" /\ up[r] = <<>>
      BY <1>1, <1>2, <1>3, <1>10, <2>1 DEF Queues, MasterWaits, GatherOf
    <2>3. share = Share(Addresses, ReadBlocks, r)
      BY <1>2, <1>3, <1>10, <2>1 DEF DataInv, InTransit
    <2>4. Stored' /\ Apart' /\ Content' = Content
      <3>1. Grows
        BY <1>2 DEF Grows, Recorded
      <3>2. QED  BY <1>1, <1>2, <3>1, FilesStay DEF DataInv
    <2>5. /\ Addresses' = Addresses /\ ReadBlocks' = ReadBlocks
          /\ \A q, as : FetchAll(q, as)' = FetchAll(q, as)
      BY <1>2 DEF Addresses, ReadBlocks, FetchAll, Fetch
    <2>6. bs \in Seq(Item)
      BY <1>7, SeqMonotonic DEF Item
    <2>7. \A q \in Ranks : \A cs \in Sent(q)' : cs \in Sent(q) \/ (q = r /\ cs = bs)
      BY <1>1, <1>6, <2>2, <2>6, SendSent
    <2>8. Found'
      <3>1. ASSUME NEW q \in Ranks, NEW cs \in Sent(q)'
            PROVE  cs = FetchAll(q, Share(Addresses, ReadBlocks, q))'
        <4>1. PICK mine : mine = Share(Addresses, ReadBlocks, q)
          OBVIOUS
        <4>2. cs = FetchAll(q, mine)
          BY <1>5, <2>2, <2>3, <2>7, <4>1 DEF DataInv, Found
        <4>3. mine = Share(Addresses', ReadBlocks', q) /\ cs = FetchAll(q, mine)'
          BY <2>5, <4>1, <4>2
        <4>4. QED  BY <4>3 DEF FetchAll
      <3>2. QED  BY <3>1 DEF Found
    <2>9. NewBlocks'
      BY <1>2, <2>2 DEF NewBlocks
    <2>10. QED  BY <1>8, <2>4, <2>8, <2>9 DEF DataInv
  <1>11. QED  BY <1>9, <1>10

-----------------------------------------------------------------------------
(* DataInv is inductive beside StepInv, and implements BlockStore.         *)

\* A larger file has no fewer blocks.
LEMMA BlocksForGrows ==
    ASSUME NEW a \in Nat, NEW b \in Nat, a <= b
    PROVE  BlocksFor(a) <= BlocksFor(b)
  <1> DEFINE p == a \div BlockSize  q == b \div BlockSize
             k == a % BlockSize     l == b % BlockSize
  <1>1. BlockSize \in Nat \ {0}
    BY PartitionAssumption
  <1>2. /\ p \in Nat /\ k \in 0 .. BlockSize - 1 /\ a = BlockSize * p + k
        /\ q \in Nat /\ l \in 0 .. BlockSize - 1 /\ b = BlockSize * q + l
    BY <1>1
  <1> HIDE DEF p, q, k, l
  <1>3. p <= q
    <2>1. SUFFICES ASSUME q + 1 <= p PROVE FALSE
      BY <1>2
    <2>2. \A c, x, y \in Nat : y + 1 <= x => c * y + c <= c * x
      <3>1. SUFFICES ASSUME NEW c \in Nat, NEW x \in Nat, NEW y \in Nat, y + 1 <= x
                     PROVE  c * y + c <= c * x
        OBVIOUS
      <3>2. PICK d \in Nat : x = (y + 1) + d
        <4>1. x - (y + 1) \in Nat /\ x = (y + 1) + (x - (y + 1))
          BY <3>1
        <4>2. QED  BY <4>1
      <3>3. c * x = c * y + c + c * d
        BY <3>2
      <3>4. c * d \in Nat /\ c * y \in Nat
        OBVIOUS
      <3>5. QED  BY <3>3, <3>4
    <2>3. BlockSize * q + BlockSize <= BlockSize * p
      BY <1>1, <1>2, <2>1, <2>2
    <2>4. BlockSize * q \in Nat /\ BlockSize * p \in Nat
      BY <1>1, <1>2
    <2>5. QED  BY <1>1, <1>2, <2>3, <2>4
  <1>4. CASE p = q
    <2>1. BlockSize * q \in Nat
      BY <1>1, <1>2
    <2>2. k <= l
      BY <1>1, <1>2, <1>4, <2>1
    <2>3. QED  BY <1>1, <1>2, <1>4, <2>2 DEF BlocksFor, p, q, k, l
  <1>5. CASE p # q
    <2>1. p + 1 <= q
      BY <1>2, <1>3, <1>5
    <2>2. BlocksFor(a) <= p + 1 /\ q <= BlocksFor(b)
      BY <1>2 DEF BlocksFor, p, q, k, l
    <2>3. BlocksFor(a) \in Nat /\ BlocksFor(b) \in Nat
      BY BlocksForType
    <2>4. QED  BY <1>2, <2>1, <2>2, <2>3
  <1>6. QED  BY <1>4, <1>5

LEMMA DataInit ==
    ASSUME Init PROVE StepInv /\ DataInv /\ Abstract!Init
  <1>1. StepInv
    BY InitStep
  <1>2. \A ino \in Inodes : written[ino] = 0
    BY DEF Init
  <1>3. /\ \A r \in Nodes : Len(chan[r]) = 0
        /\ mpc = "mounting"
    BY DEF Init
  <1>4. DataInv
    <2>1. Stored /\ Apart
      BY <1>2 DEF Stored, Apart
    <2>2. NewBlocks /\ Found /\ InTransit
      BY <1>3 DEF NewBlocks, Found, InTransit
    <2>3. QED  BY <2>1, <2>2 DEF DataInv
  <1>5. Content = [ino \in Inodes |-> <<>>]
    BY <1>2 DEF Content
  <1>6. InCall = [op |-> "none"]
    BY <1>3 DEF InCall
  <1>7. result = <<>>
    BY DEF Init
  <1>8. QED  BY <1>1, <1>4, <1>5, <1>6, <1>7 DEF Abstract!Init, Abstract!NoCall

\* The steps between the calls of BlockStore and their returns.
Quiet == InCall' = InCall /\ Content' = Content /\ result' = result

LEMMA FuseInitData ==
    ASSUME StepInv, DataInv, FuseInit PROVE DataInv' /\ Quiet
  <1>1. /\ mpc = "mounting" /\ mpc' = "idle"
        /\ UNCHANGED <<cur, lists, written, result, mem, kept, req>>
        /\ Bcast(Request("CHANGE_DIR"))
    BY DEF FuseInit, nodeVars
  <1>2. Request("CHANGE_DIR") \in Msg /\ Request("CHANGE_DIR").op = "request"
    BY DEF Request, Msg
  <1>3. DataInv' /\ Content' = Content
    BY <1>1, <1>2, BcastData DEF Gathering
  <1>4. InCall' = InCall
    BY <1>1 DEF InCall
  <1>5. QED  BY <1>1, <1>3, <1>4 DEF Quiet

LEMMA UnmountData ==
    ASSUME StepInv, DataInv, Unmount PROVE DataInv' /\ Quiet
  <1>1. /\ mpc = "idle" /\ mpc' = "terminated"
        /\ UNCHANGED <<cur, lists, written, result, mem, kept, req>>
        /\ Bcast(Request("TERMINATE"))
    BY DEF Unmount, nodeVars
  <1>2. Request("TERMINATE") \in Msg /\ Request("TERMINATE").op = "request"
    BY DEF Request, Msg
  <1>3. DataInv' /\ Content' = Content
    BY <1>1, <1>2, BcastData DEF Gathering
  <1>4. InCall' = InCall
    BY <1>1 DEF InCall
  <1>5. QED  BY <1>1, <1>3, <1>4 DEF Quiet

LEMMA WriteIOData ==
    ASSUME StepInv, DataInv, WriteIO PROVE DataInv' /\ Quiet
  <1>1. /\ mpc = "write_io" /\ mpc' = "write_scatter"
        /\ UNCHANGED <<cur, lists, written, result, mem, kept, req>>
        /\ Bcast(IORequest("WRITE", cur))
    BY DEF WriteIO, nodeVars
  <1>2. /\ IORequest("WRITE", cur) \in Msg /\ IORequest("WRITE", cur).op = "io"
        /\ IORequest("WRITE", cur).ino = cur.ino
    BY DEF IORequest, Msg, StepInv, TypeOK
  <1>3. DataInv' /\ Content' = Content
    BY <1>1, <1>2, BcastData DEF Gathering
  <1>4. InCall' = InCall
    BY <1>1 DEF InCall
  <1>5. QED  BY <1>1, <1>3, <1>4 DEF Quiet

\* A call begins.
LEMMA StartData ==
    ASSUME StepInv, DataInv, NEW t \in {"WRITE", "READ"}, NEW pc, pc \in {"write_io", "read_io"},
           NEW ino, NEW fileSize, NEW reqSize, NEW buf,
           Start(t, pc, ino, fileSize, reqSize, buf)
    PROVE  DataInv' /\ Content' = Content
  <1>1. /\ mpc = "idle" /\ mpc' = pc /\ Bcast(Request(t))
        /\ UNCHANGED <<lists, written, mem, kept, req>>
    BY DEF Start, nodeVars
  <1>2. Request(t) \in Msg /\ Request(t).op = "request"
    BY DEF Request, Msg
  <1>3. QED  BY <1>1, <1>2, BcastData DEF Gathering

LEMMA FuseFlushData ==
    ASSUME StepInv, DataInv, NEW ino \in Inodes, NEW size \in Sizes,
           NEW buf \in [1 .. BlocksFor(size) -> Block], FuseFlush(ino, size, buf)
    PROVE  DataInv' /\ Abstract!Calls
  <1>1. Start("WRITE", "write_io", ino, size, 0, buf)
    BY DEF FuseFlush
  <1>2. DataInv' /\ Content' = Content
    BY <1>1, StartData
  <1>3. /\ mpc = "idle" /\ mpc' = "write_io" /\ result' = result
        /\ cur' = [ino |-> ino, fileSize |-> size, reqSize |-> 0, buf |-> buf]
    BY <1>1 DEF Start
  <1>4. InCall = [op |-> "none"] /\ InCall' = [op |-> "write", ino |-> ino, buf |-> buf]
    BY <1>3 DEF InCall
  <1>5. PICK n \in 0 .. BlocksFor(MaxFileSize) : n = BlocksFor(size)
    <2>1. size \in Nat /\ MaxFileSize \in Nat /\ size <= MaxFileSize
      BY ClientServerAssumption DEF Sizes
    <2>2. BlocksFor(size) \in Nat /\ BlocksFor(MaxFileSize) \in Nat
      BY <2>1, BlocksForType
    <2>3. BlocksFor(size) <= BlocksFor(MaxFileSize)
      BY <2>1, BlocksForGrows
    <2>4. QED  BY <2>2, <2>3
  <1>6. buf \in [1 .. n -> Block]
    BY <1>5
  <1>7. QED
    BY <1>2, <1>3, <1>4, <1>6 DEF Abstract!Calls, Abstract!NoCall, Abstract!Write

LEMMA FuseOpenData ==
    ASSUME StepInv, DataInv, NEW ino \in Inodes, NEW size \in Sizes, FuseOpen(ino, size)
    PROVE  DataInv' /\ Abstract!Calls
  <1>1. Start("READ", "read_io", ino, size, size, <<>>)
    BY DEF FuseOpen
  <1>2. DataInv' /\ Content' = Content
    BY <1>1, StartData
  <1>3. /\ mpc = "idle" /\ mpc' = "read_io" /\ result' = result
        /\ cur' = [ino |-> ino, fileSize |-> size, reqSize |-> size, buf |-> <<>>]
    BY <1>1 DEF Start
  <1>4. PICK n \in 0 .. BlocksFor(MaxFileSize) : n = BlocksFor(size)
    <2>1. size \in Nat /\ MaxFileSize \in Nat /\ size <= MaxFileSize
      BY ClientServerAssumption DEF Sizes
    <2>2. BlocksFor(size) \in Nat /\ BlocksFor(MaxFileSize) \in Nat
      BY <2>1, BlocksForType
    <2>3. BlocksFor(size) <= BlocksFor(MaxFileSize)
      BY <2>1, BlocksForGrows
    <2>4. QED  BY <2>2, <2>3
  <1>5. ReadBlocks' = n
    BY <1>3, <1>4 DEF ReadBlocks, RequestBlocks
  <1>6. InCall = [op |-> "none"] /\ InCall' = [op |-> "read", ino |-> ino, n |-> n]
    BY <1>3, <1>5 DEF InCall
  <1>7. QED
    BY <1>2, <1>3, <1>6 DEF Abstract!Calls, Abstract!NoCall, Abstract!Read

LEMMA ContentLength ==
    ASSUME TypeOK, NEW ino \in Inodes
    PROVE  Len(Content[ino]) = written[ino] /\ (written[ino] = 0 => Content[ino] = <<>>)
  <1>1. PICK n \in Nat : n = written[ino]
    BY DEF TypeOK
  <1>2. Content[ino] = [i \in 1 .. n |-> Fetch(Owner(n, i), lists[ino][i].data)]
    BY <1>1 DEF Content
  <1> DEFINE e(i) == Fetch(Owner(n, i), lists[ino][i].data)
  <1>3. Content[ino] = [i \in 1 .. n |-> e(i)]
    BY <1>2
  <1> HIDE DEF e
  <1>4. Len([i \in 1 .. n |-> e(i)]) = n /\ (n = 0 => [i \in 1 .. n |-> e(i)] = <<>>)
    OBVIOUS
  <1>5. QED  BY <1>1, <1>3, <1>4

\* A call returns: a write when its addresses are in the block list,
LEMMA WriteGatherReturns ==
    ASSUME StepInv, DataInv, WriteGather PROVE DataInv' /\ Abstract!Returns
  <1>1. DataInv' /\ Content' = [Content EXCEPT ![cur.ino] = cur.buf]
    BY WriteGatherData
  <1>2. mpc = "write_gather" /\ mpc' = "idle" /\ result' = result
    BY DEF WriteGather
  <1>3. InCall = [op |-> "write", ino |-> cur.ino, buf |-> cur.buf] /\ InCall' = [op |-> "none"]
    BY <1>2 DEF InCall
  <1>4. QED
    BY <1>1, <1>2, <1>3 DEF Abstract!Returns, Abstract!NoCall, Abstract!Store

\* a read when its blocks are assembled,
LEMMA ReadGatherReturns ==
    ASSUME StepInv, DataInv, ReadGather PROVE DataInv' /\ Abstract!Returns
  <1>1. DataInv' /\ Content' = Content
    BY ReadGatherData
  <1>2. mpc = "read_gather" /\ mpc' = "idle"
    BY DEF ReadGather
  <1>3. /\ InCall = [op |-> "read", ino |-> cur.ino, n |-> ReadBlocks]
        /\ InCall' = [op |-> "none"]
    BY <1>2 DEF InCall
  <1>4. Len(Content[cur.ino]) = written[cur.ino]
    BY ContentLength DEF StepInv, TypeOK
  <1>5. result' \in Abstract!Loadable(cur.ino, ReadBlocks)
    BY <1>4, ReadResult DEF Abstract!Loadable
  <1>6. QED
    BY <1>1, <1>3, <1>5 DEF Abstract!Returns, Abstract!NoCall, Abstract!Load

\* or at once when the file is empty.
LEMMA ReadIOData ==
    ASSUME StepInv, DataInv, ReadIO PROVE DataInv' /\ (Quiet \/ Abstract!Returns)
  <1>1. /\ mpc = "read_io" /\ mpc' \in {"idle", "read_scatter"}
        /\ UNCHANGED <<cur, lists, written, mem, kept, req>>
        /\ Bcast(IORequest("READ", cur))
    BY DEF ReadIO, nodeVars
  <1>2. IORequest("READ", cur) \in Msg /\ IORequest("READ", cur).op = "io"
    BY DEF IORequest, Msg, StepInv, TypeOK
  <1>3. DataInv' /\ Content' = Content
    BY <1>1, <1>2, BcastData DEF Gathering
  <1>4. InCall = [op |-> "read", ino |-> cur.ino, n |-> ReadBlocks]
    BY <1>1 DEF InCall
  <1>5. CASE cur.fileSize = 0
    <2>1. mpc' = "idle" /\ result' = <<>>
      BY <1>5 DEF ReadIO
    <2>2. InCall' = [op |-> "none"]
      BY <2>1 DEF InCall
    <2>3. ReadBlocks = 0
      <3>1. BlocksFor(0) = 0
        BY PartitionAssumption DEF BlocksFor
      <3>2. cur.reqSize \in Nat
        BY DEF StepInv, TypeOK, Sizes
      <3>3. QED  BY <1>5, <3>1, <3>2 DEF ReadBlocks, RequestBlocks
    <2>4. result' \in Abstract!Loadable(cur.ino, 0)
      <3>1. PICK ino \in Inodes : ino = cur.ino
        BY DEF StepInv, TypeOK
      <3>2. Len(Content[ino]) = written[ino] /\ (written[ino] = 0 => Content[ino] = <<>>)
        BY ContentLength DEF StepInv
      <3>3. <<>> \in [1 .. 0 -> Block \cup {Garbage}]
        OBVIOUS
      <3>4. QED  BY <2>1, <3>1, <3>2, <3>3 DEF Abstract!Loadable
    <2>5. Abstract!Returns
      BY <1>3, <1>4, <2>2, <2>3, <2>4
      DEF Abstract!Returns, Abstract!NoCall, Abstract!Load
    <2>6. QED  BY <1>3, <2>5
  <1>6. CASE cur.fileSize # 0
    <2>1. mpc' = "read_scatter" /\ result' = result
      BY <1>6 DEF ReadIO
    <2>2. ReadBlocks' = ReadBlocks
      BY <1>1 DEF ReadBlocks
    <2>3. InCall' = InCall
      BY <1>1, <1>4, <2>1, <2>2 DEF InCall
    <2>4. QED  BY <1>3, <2>1, <2>3 DEF Quiet
  <1>7. QED  BY <1>5, <1>6

\* The scatters, and the steps of the nodes.
LEMMA ScatterQuiet ==
    ASSUME StepInv, DataInv, WriteScatter \/ ReadScatter PROVE DataInv' /\ Quiet
  <1>1. DataInv' /\ Content' = Content
    BY WriteScatterData, ReadScatterData
  <1>2. cur' = cur /\ result' = result
    BY DEF WriteScatter, ReadScatter
  <1>3. ReadBlocks' = ReadBlocks
    BY <1>2 DEF ReadBlocks
  <1>4. \/ mpc = "write_scatter" /\ mpc' = "write_gather"
        \/ mpc = "read_scatter" /\ mpc' = "read_gather"
    BY DEF WriteScatter, ReadScatter
  <1>5. InCall' = InCall
    BY <1>2, <1>3, <1>4 DEF InCall
  <1>6. QED  BY <1>1, <1>2, <1>5 DEF Quiet

LEMMA NodeQuiet ==
    ASSUME StepInv, DataInv, NEW r \in Nodes, NodeStep(r) PROVE DataInv' /\ Quiet
  <1>1. DataInv' /\ Content' = Content
    BY NodeRequestData, NodeIOData, NodeWriteData, NodeReadData DEF NodeStep
  <1>2. mpc' = mpc /\ cur' = cur /\ result' = result
    BY DEF NodeStep, NodeRequest, NodeIO, NodeWrite, NodeRead, masterVars
  <1>3. InCall' = InCall
    BY <1>2 DEF InCall, ReadBlocks
  <1>4. QED  BY <1>1, <1>2, <1>3 DEF Quiet

LEMMA StutterQuiet ==
    ASSUME StepInv, DataInv, UNCHANGED vars PROVE DataInv' /\ Quiet
  <1>1. UNCHANGED <<mpc, cur, lists, written, result, mem, kept, up, chan, req>>
    BY DEF vars, masterVars, nodeVars
  <1>2. InTransit'
    BY <1>1 DEF DataInv, InTransit, FileBefore, WriteBlocks, Addresses, ReadBlocks
  <1>3. DataInv' /\ Content' = Content
    BY <1>1, <1>2, QuietData
  <1>4. InCall' = InCall
    BY <1>1 DEF InCall, ReadBlocks
  <1>5. QED  BY <1>1, <1>3, <1>4 DEF Quiet

LEMMA DataStep ==
    ASSUME StepInv, DataInv, [Next]_vars
    PROVE  DataInv' /\ (Quiet \/ Abstract!Next)
  <1>1. CASE FuseInit      BY <1>1, FuseInitData
  <1>2. CASE WriteIO       BY <1>2, WriteIOData
  <1>3. CASE WriteScatter  BY <1>3, ScatterQuiet
  <1>4. CASE WriteGather   BY <1>4, WriteGatherReturns DEF Abstract!Next
  <1>5. CASE ReadIO        BY <1>5, ReadIOData DEF Abstract!Next
  <1>6. CASE ReadScatter   BY <1>6, ScatterQuiet
  <1>7. CASE ReadGather    BY <1>7, ReadGatherReturns DEF Abstract!Next
  <1>8. CASE Unmount       BY <1>8, UnmountData
  <1>9. ASSUME NEW ino \in Inodes, NEW size \in Sizes, FuseOpen(ino, size)
        PROVE  DataInv' /\ Abstract!Next
    BY <1>9, FuseOpenData DEF Abstract!Next
  <1>10. ASSUME NEW ino \in Inodes, NEW size \in Sizes,
                NEW buf \in [1 .. BlocksFor(size) -> Block], FuseFlush(ino, size, buf)
         PROVE  DataInv' /\ Abstract!Next
    BY <1>10, FuseFlushData DEF Abstract!Next
  <1>11. ASSUME NEW r \in Nodes, NodeStep(r) PROVE DataInv' /\ Quiet
    BY <1>11, NodeQuiet
  <1>12. CASE UNCHANGED vars  BY <1>12, StutterQuiet
  <1>13. QED
    BY <1>1, <1>2, <1>3, <1>4, <1>5, <1>6, <1>7, <1>8, <1>9, <1>10, <1>11, <1>12
    DEF Next, MasterStep

\* Both invariants, together.
THEOREM DataInvariance == Spec => [](StepInv /\ DataInv)
  <1>1. Init => StepInv /\ DataInv
    BY DataInit
  <1>2. StepInv /\ DataInv /\ StepInv' /\ [Next]_vars => DataInv'
    BY DataStep
  <1>3. QED  BY <1>1, <1>2, StepInvariance, PTL DEF Spec

\* After any operations of any files, whatever the processes interleave, the blocks
\* of each file are at the addresses of its block list, at the processes that the
\* partition of its last write names, recorded there for the file, and no two
\* blocks share a place.
THEOREM BlocksAtHomeSafety == Spec => []BlocksAtHome
  <1>1. ASSUME StepInv, DataInv PROVE BlocksAtHome
    <2> DEFINE live == {b \in Inodes \X (1 .. BlocksFor(MaxFileSize)) : b[2] <= written[b[1]]}
               home(b) == Owner(written[b[1]], b[2])
               addr(b) == lists[b[1]][b[2]].data
    <2>1. BlocksFor(MaxFileSize) \in Nat
      BY ClientServerAssumption, BlocksForType
    <2>2. ASSUME NEW b \in live
          PROVE  b[1] \in Inodes /\ b[2] \in 1 .. written[b[1]] /\ b = <<b[1], b[2]>>
      <3>1. written[b[1]] \in Nat
        BY <1>1 DEF StepInv, TypeOK
      <3>2. QED  BY <2>1, <3>1
    <2>3. ASSUME NEW b \in live
          PROVE  /\ b[2] <= Len(lists[b[1]])
                 /\ addr(b) \in 1 .. Len(mem[home(b)])
                 /\ home(b) # 0 => \E k \in DOMAIN kept[home(b)][b[1]] :
                                       kept[home(b)][b[1]][k] = addr(b)
      <3> HIDE DEF live
      <3>1. /\ b[2] <= Len(lists[b[1]])
            /\ AddressOf(b[1], b[2]) \in 1 .. Len(mem[HomeOf(b[1], b[2])])
            /\ HomeOf(b[1], b[2]) # 0 =>
                  AddressOf(b[1], b[2]) \in Recorded(HomeOf(b[1], b[2]), b[1])
        BY <1>1, <2>2 DEF DataInv, Stored
      <3>2. QED  BY <3>1 DEF AddressOf, HomeOf, Recorded
    <2>4. ASSUME NEW b \in live, NEW c \in live, home(b) = home(c), addr(b) = addr(c)
          PROVE  b = c
      <3> HIDE DEF live
      <3>1. b[1] = c[1] /\ b[2] = c[2]
        BY <1>1, <2>2, <2>4 DEF DataInv, Apart, AddressOf, HomeOf
      <3>2. QED  BY <2>2, <3>1
    <2>5. QED  BY <2>3, <2>4 DEF BlocksAtHome
  <1>2. QED  BY <1>1, DataInvariance, PTL

\* For every number of processes and size of a block, the block level implements
\* BlockStore: a write replaces the blocks of one file at one instant, and a read of
\* as many blocks as were last written returns them in order.
THEOREM Refinement == Spec => ImplementsBlockStore
  <1>1. Init => Abstract!Init
    BY DataInit
  <1>2. StepInv /\ DataInv /\ [Next]_vars => [Abstract!Next]_<<InCall, Content, result>>
    BY DataStep DEF Quiet
  <1>3. QED
    BY <1>1, <1>2, DataInvariance, PTL DEF Spec, ImplementsBlockStore, Abstract!Spec
=============================================================================
