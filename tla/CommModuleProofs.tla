-------------------------- MODULE CommModuleProofs --------------------------
(***************************************************************************)
(* For every number of blocks, of sending threads, of packets and of       *)
(* ports: the memory of the mail pools is safe and none of it is lost, the *)
(* threads implement the abstract router, and they never all wait.         *)
(***************************************************************************)
EXTENDS CommModule, FiniteSetTheorems, SequenceTheorems, TLAPS

(* Appending a new element keeps a sequence without repetitions. *)
LEMMA AppendNew ==
  ASSUME NEW S, NEW q \in Seq(S), NEW b \in S, Distinct(q), b \notin Elements(q)
  PROVE  /\ Append(q, b) \in Seq(S)
         /\ Distinct(Append(q, b))
         /\ Elements(Append(q, b)) = Elements(q) \cup {b}
<1> DEFINE r == Append(q, b)
<1>1. r \in Seq(S) /\ Len(r) = Len(q) + 1 /\ Len(q) \in Nat
  OBVIOUS
<1>2. \A i \in 1 .. Len(q) : r[i] = q[i]
  OBVIOUS
<1>3. r[Len(q) + 1] = b
  OBVIOUS
<1> HIDE DEF r
<1>4. Distinct(r)
  BY <1>1, <1>2, <1>3 DEF Distinct, Elements
<1>5. Elements(r) = Elements(q) \cup {b}
  <2>1. ASSUME NEW x \in Elements(r) PROVE x \in Elements(q) \cup {b}
    BY <1>1, <1>2, <1>3 DEF Elements
  <2>2. ASSUME NEW x \in Elements(q) PROVE x \in Elements(r)
    <3>1. PICK i \in 1 .. Len(q) : x = q[i]
      BY DEF Elements
    <3> QED BY <3>1, <1>1, <1>2 DEF Elements
  <2>3. b \in Elements(r)
    BY <1>1, <1>3 DEF Elements
  <2> QED BY <2>1, <2>2, <2>3
<1> QED BY <1>1, <1>4, <1>5 DEF r

(* Taking the first element away leaves the others. *)
LEMMA TakeHead ==
  ASSUME NEW S, NEW q \in Seq(S), q # <<>>, Distinct(q)
  PROVE  /\ Tail(q) \in Seq(S) /\ Distinct(Tail(q))
         /\ Head(q) \in S /\ Head(q) \in Elements(q)
         /\ Elements(Tail(q)) = Elements(q) \ {Head(q)}
<1> DEFINE r == Tail(q)
<1>1. r \in Seq(S) /\ Len(r) = Len(q) - 1 /\ Len(q) \in Nat \ {0}
  OBVIOUS
<1>2. \A i \in 1 .. Len(r) : r[i] = q[i + 1]
  OBVIOUS
<1>3. Head(q) = q[1] /\ q[1] \in S
  OBVIOUS
<1> HIDE DEF r
<1>4. Distinct(r)
  BY <1>1, <1>2 DEF Distinct
<1>5. Head(q) \in Elements(q)
  BY <1>1, <1>3 DEF Elements
<1>6. Elements(r) = Elements(q) \ {Head(q)}
  <2>1. ASSUME NEW x \in Elements(r) PROVE x \in Elements(q) \ {Head(q)}
    <3>1. PICK i \in 1 .. Len(r) : x = r[i]
      BY <2>1 DEF Elements
    <3>2. i + 1 \in 1 .. Len(q) /\ x = q[i + 1] /\ i + 1 # 1 /\ 1 \in 1 .. Len(q)
      BY <3>1, <1>1, <1>2
    <3> QED BY <3>2, <1>3 DEF Elements, Distinct
  <2>2. ASSUME NEW x \in Elements(q), x # Head(q) PROVE x \in Elements(r)
    <3>1. PICK i \in 1 .. Len(q) : x = q[i]
      BY DEF Elements
    <3>2. i - 1 \in 1 .. Len(r) /\ r[i - 1] = q[i]
      BY <3>1, <2>2, <1>1, <1>2, <1>3
    <3> QED BY <3>1, <3>2 DEF Elements
  <2> QED BY <2>1, <2>2
<1> QED BY <1>1, <1>3, <1>4, <1>5, <1>6 DEF r

(* Every packet in flight was put there by a sender or by the radio: no    *)
(* callback reads a block that was never filled.                           *)
Contents ==
  /\ \A t \in Producers : prod[t].pc # "idle" => prod[t].pkt \in Packets
  /\ \A d \in Directions : \A b \in Elements(queue[d]) : mem[d][b] \in Packets
  /\ \A d \in Directions : Working(d) => mem[d][work[d].blk] \in Packets

(* The tx worker receives only while it is inside a callback. *)
LoopbackInside == prod[TxWorker].pc # "idle" => work["tx"].pc = "callback"

IInv == TypeOK /\ OneOwner /\ Contents /\ LoopbackInside

LEMMA Directed == \A t \in Producers : DirOf(t) \in Directions
BY DEF DirOf, Directions

LEMMA InitIInv == Init => IInv
<1> SUFFICES ASSUME Init PROVE IInv
  OBVIOUS
<1>1. TypeOK
  <2>1. main \in 0 .. Len(InitOrder) + 1 /\ console \in 0 .. MaxConsole
    BY PortAssumption DEF Init
  <2>2. prod \in [Producers -> [pc : {"idle", "alloc", "put"},
                               pkt : Packets \cup {NoPacket},
                               blk : Blocks \cup {NoBlock}]]
    BY DEF Init, Idle
  <2>3. work \in [Directions -> [pc : {"start", "get", "call", "callback", "free"},
                                blk : Blocks \cup {NoBlock}]]
    BY DEF Init
  <2>4. queue \in [Directions -> Seq(Blocks)] /\ called \in [Directions -> Seq(Packets)]
    BY DEF Init
  <2> QED BY <2>1, <2>2, <2>3, <2>4 DEF Init, TypeOK
<1>2. Contents
  BY DEF Init, Contents, Elements, Working, Idle
<1>3. OneOwner
  <2>1. QueueOwns
    BY DEF Init, QueueOwns, Distinct, Elements
  <2>2. WorkerOwns
    BY DEF Init, WorkerOwns, Working
  <2>3. ProducerOwns /\ ProducersApart
    BY DEF Init, ProducerOwns, ProducersApart, Filling, Idle
  <2>4. NoBlockLost
    BY DEF Init, NoBlockLost, InUse
  <2> QED BY <2>1, <2>2, <2>3, <2>4 DEF OneOwner
<1>4. LoopbackInside
  BY DEF Init, LoopbackInside, Idle, Producers
<1> QED BY <1>1, <1>2, <1>3, <1>4 DEF IInv
-----------------------------------------------------------------------------
(* send() and receive() up to the wait for a block. *)
LEMMA StartKeeps ==
  ASSUME IInv, NEW t \in Producers, NEW p \in Packets, ~Filling(t),
         StartProducing(t, p), UNCHANGED <<free, mem, queue>>,
         \A d \in Directions : Working(d)' <=> Working(d),
         \A d \in Directions : work'[d].blk = work[d].blk
  PROVE  OneOwner' /\ Contents'
<1>1. \A u \in Producers : Filling(u)' => Filling(u)
  BY DEF IInv, TypeOK, StartProducing, Filling
<1>2. \A u \in Producers : Filling(u)' => prod'[u] = prod[u]
  BY DEF IInv, TypeOK, StartProducing, Filling
<1>3. QueueOwns'
  BY DEF IInv, OneOwner, QueueOwns, Elements, Distinct
<1>4. WorkerOwns'
  BY DEF IInv, OneOwner, WorkerOwns, InUse, Elements
<1>5. ProducerOwns'
  BY <1>1, <1>2, Directed DEF IInv, OneOwner, ProducerOwns, InUse, Elements
<1>6. ProducersApart'
  BY <1>1, <1>2 DEF IInv, OneOwner, ProducersApart
<1>7. Contents'
  <2>1. \A u \in Producers : prod'[u].pc # "idle" => prod'[u].pkt \in Packets
    BY DEF IInv, TypeOK, Contents, StartProducing
  <2> QED BY <2>1 DEF IInv, Contents, Elements
<1>8. NoBlockLost'
  <2>1. \A u \in Producers : Filling(u) => Filling(u)' /\ prod'[u] = prod[u]
    BY DEF IInv, TypeOK, StartProducing, Filling
  <2>2. \A d \in Directions : InUse(d)' = InUse(d)
    BY DEF InUse, Elements
  <2> QED BY <2>1, <2>2 DEF IInv, OneOwner, NoBlockLost
<1> QED BY <1>3, <1>4, <1>5, <1>6, <1>7, <1>8 DEF OneOwner

(* A step that touches neither the pools nor the threads' places in them. *)
LEMMA QuietKeeps ==
  ASSUME OneOwner, Contents, UNCHANGED <<free, mem, queue, prod, work>>
  PROVE  OneOwner' /\ Contents'
BY DEF OneOwner, Contents, QueueOwns, WorkerOwns, ProducerOwns, ProducersApart,
       NoBlockLost, Elements, Distinct, Filling, Working, InUse

(* A step that moves a worker without giving or taking a block. *)
LEMMA SameWork ==
  ASSUME OneOwner, Contents, UNCHANGED <<free, mem, queue, prod>>,
         \A d \in Directions : Working(d)' <=> Working(d),
         \A d \in Directions : work'[d].blk = work[d].blk
  PROVE  OneOwner' /\ Contents'
<1>1. QueueOwns' /\ ProducersApart'
  BY DEF OneOwner, QueueOwns, Elements, Distinct, ProducersApart, Filling
<1>2. \A d \in Directions : InUse(d)' = InUse(d)
  BY DEF InUse, Elements
<1>3. WorkerOwns'
  BY <1>2 DEF OneOwner, WorkerOwns
<1>4. ProducerOwns'
  BY <1>2, Directed DEF OneOwner, ProducerOwns, Filling
<1>5. Contents'
  BY DEF Contents, Elements
<1>6. NoBlockLost'
  BY <1>2 DEF OneOwner, NoBlockLost, Filling
<1> QED BY <1>1, <1>3, <1>4, <1>5, <1>6 DEF OneOwner

LEMMA AllocKeeps ==
  ASSUME IInv, NEW t \in Producers, Alloc(t)
  PROVE  OneOwner' /\ Contents'
<1> DEFINE d == DirOf(t)
<1>1. PICK b \in free[d] :
        /\ free' = [free EXCEPT ![d] = @ \ {b}]
        /\ prod' = [prod EXCEPT ![t].pc = "put", ![t].blk = b]
  BY DEF Alloc
<1>2. UNCHANGED <<mem, queue, work>> /\ d \in Directions /\ b \in Blocks
  BY Directed DEF Alloc, IInv, TypeOK
<1>3. /\ prod'[t].pc = "put" /\ prod'[t].blk = b /\ prod'[t].pkt = prod[t].pkt
      /\ \A u \in Producers \ {t} : prod'[u] = prod[u]
  BY <1>1 DEF IInv, TypeOK
<1>4. free'[d] = free[d] \ {b} /\ \A e \in Directions \ {d} : free'[e] = free[e]
  BY <1>1, <1>2 DEF IInv, TypeOK
<1> HIDE DEF d
<1>5. QueueOwns'
  BY <1>2, <1>4 DEF IInv, OneOwner, QueueOwns, Elements, Distinct
<1>6. WorkerOwns'
  BY <1>2, <1>4 DEF IInv, OneOwner, WorkerOwns, InUse, Elements, Working
<1>7. ProducerOwns'
  <2> SUFFICES ASSUME NEW u \in Producers, Filling(u)'
               PROVE (/\ prod[u].blk \in Blocks \ InUse(DirOf(u))
                      /\ Working(DirOf(u)) => work[DirOf(u)].blk # prod[u].blk)'
    BY Zenon DEF ProducerOwns
  <2>1. CASE u = t
    <3>1. b \notin Elements(queue[d]) /\ (Working(d) => work[d].blk # b)
      BY <1>1, <1>2 DEF IInv, OneOwner, QueueOwns, WorkerOwns, InUse
    <3>2. InUse(d)' = (free[d] \ {b}) \cup Elements(queue[d])
      BY <1>2, <1>4 DEF InUse, Elements
    <3>3. (Working(d) => work[d].blk # prod[t].blk)' /\ (prod[t].blk \in Blocks \ InUse(d))'
      BY <3>1, <3>2, <1>2, <1>3 DEF Working
    <3> QED BY <3>3, <2>1 DEF d
  <2>2. CASE u # t
    <3>1. Filling(u) /\ prod'[u] = prod[u]
      BY <2>2, <1>3 DEF Filling
    <3>2. InUse(DirOf(u))' \subseteq InUse(DirOf(u))
      BY <1>2, <1>4, Directed DEF InUse, Elements
    <3> QED BY <3>1, <3>2, <1>2 DEF IInv, OneOwner, ProducerOwns, Working
  <2> QED BY <2>1, <2>2
<1>8. ProducersApart'
  <2>1. \A u \in Producers \ {t} : Filling(u)' => Filling(u) /\ prod'[u] = prod[u]
    BY <1>3 DEF Filling
  <2>2. \A u \in Producers \ {t} : Filling(u)' /\ DirOf(u) = d => prod'[u].blk # b
    BY <2>1, <1>1 DEF IInv, OneOwner, ProducerOwns, InUse
  <2> QED BY <2>1, <2>2, <1>3 DEF d, IInv, OneOwner, ProducersApart
<1>9. Contents'
  <2>1. \A u \in Producers : prod'[u].pc # "idle" => prod'[u].pkt \in Packets
    BY <1>3 DEF IInv, Contents, Alloc
  <2> QED BY <2>1, <1>2 DEF IInv, Contents, Elements, Working
<1>10. NoBlockLost'
  <2>1. \A e \in Directions : InUse(e) \subseteq InUse(e)' \cup {b} /\ (e # d => InUse(e)' = InUse(e))
    BY <1>2, <1>4 DEF InUse, Elements
  <2>2. Filling(t)' /\ ~Filling(t) /\ \A u \in Producers : Filling(u) => Filling(u)' /\ prod'[u] = prod[u]
    BY <1>3 DEF Filling, Alloc
  <2>3. \A e \in Directions : Working(e)' <=> Working(e)
    BY <1>2 DEF Working
  <2> SUFFICES ASSUME NEW e \in Directions, NEW c \in Blocks \ InUse(e)'
               PROVE  \/ Working(e)' /\ work'[e].blk = c
                      \/ \E u \in Producers : Filling(u)' /\ DirOf(u) = e /\ prod'[u].blk = c
    BY DEF NoBlockLost
  <2>4. CASE c \in InUse(e)
    <3>1. c = b /\ e = d
      BY <2>1, <2>4
    <3> QED BY <3>1, <2>2, <1>3 DEF d
  <2>5. CASE c \notin InUse(e)
    BY <2>5, <2>2, <2>3, <1>2 DEF IInv, OneOwner, NoBlockLost
  <2> QED BY <2>4, <2>5
<1> QED BY <1>5, <1>6, <1>7, <1>8, <1>9, <1>10 DEF OneOwner

LEMMA PutKeeps ==
  ASSUME IInv, NEW t \in Producers, Put(t)
  PROVE  OneOwner' /\ Contents'
<1> DEFINE d == DirOf(t)
           b == prod[t].blk
<1>1. d \in Directions /\ b \in Blocks /\ prod[t].pkt \in Packets
  BY Directed DEF Put, IInv, OneOwner, ProducerOwns, Filling, Contents
<1>2. /\ mem' = [mem EXCEPT ![d][b] = prod[t].pkt]
      /\ queue' = [queue EXCEPT ![d] = Append(@, b)]
      /\ prod' = [prod EXCEPT ![t] = Idle]
      /\ UNCHANGED <<free, work>> /\ Filling(t)
  BY DEF Put, Filling
<1>3. b \notin InUse(d) /\ (Working(d) => work[d].blk # b)
  BY <1>2 DEF IInv, OneOwner, ProducerOwns
<1>4. /\ queue[d] \in Seq(Blocks) /\ Distinct(queue[d])
      /\ queue'[d] = Append(queue[d], b)
      /\ \A e \in Directions \ {d} : queue'[e] = queue[e]
  BY <1>1, <1>2 DEF IInv, TypeOK, OneOwner, QueueOwns
<1>5. Distinct(queue'[d]) /\ Elements(queue'[d]) = Elements(queue[d]) \cup {b}
  BY <1>1, <1>3, <1>4, AppendNew DEF InUse
<1>6. \A u \in Producers : Filling(u)' => Filling(u) /\ u # t /\ prod'[u] = prod[u]
  BY <1>2 DEF IInv, TypeOK, Filling, Idle
<1> HIDE DEF d, b
<1>7. QueueOwns'
  <2>1. \A e \in Directions : Distinct(queue'[e])
    BY <1>4, <1>5 DEF IInv, OneOwner, QueueOwns
  <2>2. \A e \in Directions : Elements(queue'[e]) \cap free[e] = {}
    <3>1. \A e \in Directions : Elements(queue[e]) \cap free[e] = {}
      BY DEF IInv, OneOwner, QueueOwns
    <3>2. b \notin free[d]
      BY <1>3 DEF InUse
    <3>3. Elements(queue'[d]) \cap free[d] = {}
      BY <3>1, <3>2, <1>1, <1>5 DEF d
    <3> QED BY <3>1, <3>3, <1>4
  <2> QED BY <2>1, <2>2, <1>2 DEF QueueOwns
<1>8. \A e \in Directions : InUse(e)' = IF e = d THEN InUse(e) \cup {b} ELSE InUse(e)
  BY <1>2, <1>4, <1>5 DEF InUse
<1>9. WorkerOwns'
  BY <1>2, <1>3, <1>8 DEF IInv, OneOwner, WorkerOwns, Working
<1>10. ProducerOwns'
  <2> SUFFICES ASSUME NEW u \in Producers, Filling(u)'
               PROVE (/\ prod[u].blk \in Blocks \ InUse(DirOf(u))
                      /\ Working(DirOf(u)) => work[DirOf(u)].blk # prod[u].blk)'
    BY Zenon DEF ProducerOwns
  <2>1. Filling(u) /\ u # t /\ prod'[u] = prod[u] /\ DirOf(u) \in Directions
    BY <1>6, Directed
  <2>2. /\ prod[u].blk \in Blocks \ InUse(DirOf(u))
        /\ Working(DirOf(u)) => work[DirOf(u)].blk # prod[u].blk
    BY <2>1 DEF IInv, OneOwner, ProducerOwns
  <2>3. DirOf(u) = d => prod[u].blk # b
    BY <2>1, <1>2 DEF IInv, OneOwner, ProducersApart, d, b
  <2> QED BY <2>1, <2>2, <2>3, <1>2, <1>8 DEF Working
<1>11. ProducersApart'
  BY <1>6 DEF IInv, OneOwner, ProducersApart
<1>12. Contents'
  <2>1. \A u \in Producers : prod'[u].pc # "idle" => prod'[u].pkt \in Packets
    BY <1>2 DEF IInv, TypeOK, Contents, Idle
  <2>2. \A e \in Directions, c \in Blocks :
           mem[e][c] \in Packets \/ (e = d /\ c = b) => mem'[e][c] \in Packets
    BY <1>1, <1>2 DEF IInv, TypeOK
  <2>3. \A e \in Directions : \A c \in Elements(queue'[e]) :
           c \in Elements(queue[e]) \/ (e = d /\ c = b)
    BY <1>4, <1>5
  <2>4. \A e \in Directions : Elements(queue[e]) \subseteq Blocks
    BY DEF IInv, TypeOK, Elements
  <2>5. \A e \in Directions : \A c \in Elements(queue'[e]) : mem'[e][c] \in Packets
    BY <2>2, <2>3, <2>4, <1>1 DEF IInv, Contents
  <2>6. \A e \in Directions : Working(e)' => mem'[e][work'[e].blk] \in Packets
    BY <2>2, <1>2 DEF IInv, OneOwner, WorkerOwns, Contents, Working
  <2> QED BY <2>1, <2>5, <2>6 DEF Contents
<1>13. NoBlockLost'
  <2>1. \A u \in Producers : Filling(u) /\ u # t => Filling(u)' /\ prod'[u] = prod[u]
    BY <1>2 DEF IInv, TypeOK, Filling
  <2>2. \A e \in Directions : Working(e)' <=> Working(e)
    BY <1>2 DEF Working
  <2> SUFFICES ASSUME NEW e \in Directions, NEW c \in Blocks \ InUse(e)'
               PROVE  \/ Working(e)' /\ work'[e].blk = c
                      \/ \E u \in Producers : Filling(u)' /\ DirOf(u) = e /\ prod'[u].blk = c
    BY DEF NoBlockLost
  <2>3. c \notin InUse(e) /\ (e = d => c # b)
    BY <1>8
  <2>4. CASE Working(e) /\ work[e].blk = c
    BY <2>4, <2>2, <1>2
  <2>5. ASSUME NEW u \in Producers, Filling(u), DirOf(u) = e, prod[u].blk = c
        PROVE  Filling(u)' /\ prod'[u].blk = c
    BY <2>5, <2>1, <2>3 DEF d, b
  <2> QED BY <2>3, <2>4, <2>5 DEF IInv, OneOwner, NoBlockLost
<1> QED BY <1>7, <1>9, <1>10, <1>11, <1>12, <1>13 DEF OneOwner

LEMMA GetKeeps ==
  ASSUME IInv, NEW d \in Directions, GetMail(d)
  PROVE  OneOwner' /\ Contents'
<1> DEFINE b == Head(queue[d])
<1>1. /\ queue' = [queue EXCEPT ![d] = Tail(@)]
      /\ work' = [work EXCEPT ![d] = [pc |-> "call", blk |-> b]]
      /\ UNCHANGED <<free, mem, prod>>
  BY DEF GetMail
<1>2. queue[d] \in Seq(Blocks) /\ queue[d] # <<>> /\ Distinct(queue[d])
  BY DEF GetMail, IInv, TypeOK, OneOwner, QueueOwns
<1>3. /\ Distinct(Tail(queue[d])) /\ b \in Blocks /\ b \in Elements(queue[d])
      /\ Elements(Tail(queue[d])) = Elements(queue[d]) \ {b}
  BY <1>2, TakeHead
<1>4. /\ queue'[d] = Tail(queue[d]) /\ work'[d].blk = b /\ Working(d)'
      /\ \A e \in Directions \ {d} : queue'[e] = queue[e] /\ work'[e] = work[e]
  BY <1>1 DEF IInv, TypeOK, Working
<1> HIDE DEF b
<1>5. QueueOwns'
  <2>1. \A e \in Directions : Distinct(queue'[e])
    BY <1>3, <1>4 DEF IInv, OneOwner, QueueOwns
  <2>2. \A e \in Directions : Elements(queue'[e]) \cap free[e] = {}
    BY <1>3, <1>4 DEF IInv, OneOwner, QueueOwns
  <2> QED BY <2>1, <2>2, <1>1 DEF QueueOwns
<1>6. \A e \in Directions : InUse(e)' = IF e = d THEN InUse(e) \ {b} ELSE InUse(e)
  BY <1>1, <1>3, <1>4 DEF InUse, IInv, OneOwner, QueueOwns
<1>7. WorkerOwns'
  BY <1>3, <1>4, <1>6 DEF IInv, OneOwner, WorkerOwns, Working
<1>8. ProducerOwns'
  <2> SUFFICES ASSUME NEW u \in Producers, Filling(u)'
               PROVE (/\ prod[u].blk \in Blocks \ InUse(DirOf(u))
                      /\ Working(DirOf(u)) => work[DirOf(u)].blk # prod[u].blk)'
    BY Zenon DEF ProducerOwns
  <2>1. Filling(u) /\ prod'[u] = prod[u] /\ DirOf(u) \in Directions
    BY <1>1, Directed DEF Filling
  <2>2. /\ prod[u].blk \in Blocks \ InUse(DirOf(u))
        /\ Working(DirOf(u)) => work[DirOf(u)].blk # prod[u].blk
    BY <2>1 DEF IInv, OneOwner, ProducerOwns
  <2>3. DirOf(u) = d => prod[u].blk # b
    BY <2>2, <1>3 DEF InUse
  <2> QED BY <2>1, <2>2, <2>3, <1>4, <1>6 DEF Working
<1>9. ProducersApart'
  BY <1>1 DEF IInv, OneOwner, ProducersApart, Filling
<1>10. Contents'
  <2>1. \A e \in Directions : Elements(queue'[e]) \subseteq Elements(queue[e])
    BY <1>3, <1>4
  <2>2. \A e \in Directions : Working(e)' => mem[e][work'[e].blk] \in Packets
    BY <1>3, <1>4 DEF IInv, Contents, Working
  <2> QED BY <2>1, <2>2, <1>1 DEF IInv, Contents
<1>11. NoBlockLost'
  <2>1. ~Working(d) /\ \A e \in Directions \ {d} : Working(e)' <=> Working(e)
    BY <1>4 DEF Working, GetMail
  <2>2. \A u \in Producers : (Filling(u)' <=> Filling(u)) /\ prod'[u] = prod[u]
    BY <1>1 DEF Filling
  <2> QED BY <2>1, <2>2, <1>4, <1>6 DEF IInv, OneOwner, NoBlockLost
<1> QED BY <1>5, <1>7, <1>8, <1>9, <1>10, <1>11 DEF OneOwner

LEMMA FreeKeeps ==
  ASSUME IInv, NEW d \in Directions, FreeMail(d)
  PROVE  OneOwner' /\ Contents'
<1> DEFINE b == work[d].blk
<1>1. /\ free' = [free EXCEPT ![d] = @ \cup {b}]
      /\ work' = [work EXCEPT ![d] = [pc |-> "get", blk |-> NoBlock]]
      /\ UNCHANGED <<mem, queue, prod>> /\ Working(d)
  BY DEF FreeMail, Working
<1>2. b \in Blocks \ InUse(d)
  BY <1>1 DEF IInv, OneOwner, WorkerOwns
<1>3. /\ free'[d] = free[d] \cup {b} /\ ~Working(d)'
      /\ \A e \in Directions \ {d} : free'[e] = free[e] /\ work'[e] = work[e]
  BY <1>1 DEF IInv, TypeOK, Working
<1> HIDE DEF b
<1>4. QueueOwns'
  BY <1>1, <1>2, <1>3 DEF IInv, OneOwner, QueueOwns, InUse, Elements, Distinct
<1>5. \A e \in Directions : InUse(e)' = IF e = d THEN InUse(e) \cup {b} ELSE InUse(e)
  BY <1>1, <1>3 DEF InUse, Elements
<1>6. WorkerOwns'
  BY <1>3, <1>5 DEF IInv, OneOwner, WorkerOwns, Working
<1>7. ProducerOwns'
  <2> SUFFICES ASSUME NEW u \in Producers, Filling(u)'
               PROVE (/\ prod[u].blk \in Blocks \ InUse(DirOf(u))
                      /\ Working(DirOf(u)) => work[DirOf(u)].blk # prod[u].blk)'
    BY Zenon DEF ProducerOwns
  <2>1. Filling(u) /\ prod'[u] = prod[u] /\ DirOf(u) \in Directions
    BY <1>1, Directed DEF Filling
  <2>2. /\ prod[u].blk \in Blocks \ InUse(DirOf(u))
        /\ Working(DirOf(u)) => work[DirOf(u)].blk # prod[u].blk
    BY <2>1 DEF IInv, OneOwner, ProducerOwns
  <2>3. DirOf(u) = d => prod[u].blk # b
    BY <2>2, <1>1 DEF b
  <2> QED BY <2>1, <2>2, <2>3, <1>3, <1>5 DEF Working
<1>8. ProducersApart'
  BY <1>1 DEF IInv, OneOwner, ProducersApart, Filling
<1>9. Contents'
  BY <1>1, <1>3 DEF IInv, Contents, Elements, Working
<1>10. NoBlockLost'
  <2>1. \A e \in Directions \ {d} : Working(e)' <=> Working(e)
    BY <1>3 DEF Working
  <2>2. \A u \in Producers : (Filling(u)' <=> Filling(u)) /\ prod'[u] = prod[u]
    BY <1>1 DEF Filling
  <2> SUFFICES ASSUME NEW e \in Directions, NEW c \in Blocks \ InUse(e)'
               PROVE  \/ Working(e)' /\ work'[e].blk = c
                      \/ \E u \in Producers : Filling(u)' /\ DirOf(u) = e /\ prod'[u].blk = c
    BY DEF NoBlockLost
  <2>3. c \notin InUse(e) /\ (e = d => c # b)
    BY <1>5
  <2>4. CASE Working(e) /\ work[e].blk = c
    <3>1. e # d
      BY <2>4, <2>3 DEF b
    <3> QED BY <3>1, <2>4, <2>1, <1>3
  <2>5. CASE \E u \in Producers : Filling(u) /\ DirOf(u) = e /\ prod[u].blk = c
    BY <2>5, <2>2
  <2> QED BY <2>3, <2>4, <2>5 DEF IInv, OneOwner, NoBlockLost
<1> QED BY <1>4, <1>6, <1>7, <1>8, <1>9, <1>10 DEF OneOwner
-----------------------------------------------------------------------------
(* Every other step leaves the pools and the queues alone. *)
LEMMA WorkerKeeps ==
  ASSUME IInv, NEW d \in Directions, Worker(d)
  PROVE  OneOwner' /\ Contents'
<1>1. CASE StartWorker(d)
  <2>1. UNCHANGED <<free, mem, queue, prod>> /\ work' = [work EXCEPT ![d].pc = "get"]
        /\ ~Working(d)
    BY <1>1 DEF StartWorker, Working, poolVars
  <2>2. /\ \A e \in Directions : Working(e)' <=> Working(e)
        /\ \A e \in Directions : work'[e].blk = work[e].blk
    BY <2>1 DEF IInv, TypeOK, Working
  <2> QED BY <2>1, <2>2, SameWork DEF IInv
<1>2. CASE GetMail(d)
  BY <1>2, GetKeeps
<1>3. CASE CallBack(d)
  <2>1. /\ UNCHANGED <<free, mem, queue>> /\ work' = [work EXCEPT ![d].pc = "callback"]
        /\ Working(d) /\ Callback(d)
    BY <1>3 DEF CallBack, Working, poolVars
  <2>2. /\ \A e \in Directions : Working(e)' <=> Working(e)
        /\ \A e \in Directions : work'[e].blk = work[e].blk
    BY <2>1 DEF IInv, TypeOK, Working
  <2>3. CASE UNCHANGED prod
    BY <2>1, <2>2, <2>3, SameWork DEF IInv
  <2>4. CASE d = "tx" /\ StartProducing(TxWorker, Current(d))
    <3>1. Current(d) \in Packets /\ TxWorker \in Producers
      BY <2>1 DEF IInv, Contents, Current, Producers
    <3>2. d = "tx" /\ ~Filling(TxWorker)
      BY <1>3, <2>4 DEF CallBack, IInv, LoopbackInside, Filling
    <3> QED BY <3>1, <3>2, <2>1, <2>2, <2>4, StartKeeps
  <2> QED BY <2>1, <2>3, <2>4 DEF Callback
<1>4. CASE NoCallBack(d)
  <2>1. /\ UNCHANGED <<free, mem, queue, prod>> /\ work' = [work EXCEPT ![d].pc = "free"]
        /\ Working(d)
    BY <1>4 DEF NoCallBack, Working, poolVars
  <2>2. /\ \A e \in Directions : Working(e)' <=> Working(e)
        /\ \A e \in Directions : work'[e].blk = work[e].blk
    BY <2>1 DEF IInv, TypeOK, Working
  <2> QED BY <2>1, <2>2, SameWork DEF IInv
<1>5. CASE CallbackReturns(d)
  <2>1. /\ UNCHANGED <<free, mem, queue, prod>> /\ work' = [work EXCEPT ![d].pc = "free"]
        /\ Working(d)
    BY <1>5 DEF CallbackReturns, Working, poolVars
  <2>2. /\ \A e \in Directions : Working(e)' <=> Working(e)
        /\ \A e \in Directions : work'[e].blk = work[e].blk
    BY <2>1 DEF IInv, TypeOK, Working
  <2> QED BY <2>1, <2>2, SameWork DEF IInv
<1>6. CASE FreeMail(d)
  BY <1>6, FreeKeeps
<1> QED BY <1>1, <1>2, <1>3, <1>4, <1>5, <1>6 DEF Worker

LEMMA NextKeeps == IInv /\ [Next]_vars => OneOwner' /\ Contents'
<1> SUFFICES ASSUME IInv, [Next]_vars PROVE OneOwner' /\ Contents'
  OBVIOUS
<1>1. ASSUME NEW s \in Senders, NEW p \in OutPackets, Send(s, p)
      PROVE  OneOwner' /\ Contents'
  <2>1. s \in Producers /\ p \in Packets /\ StartProducing(s, p)
        /\ UNCHANGED <<free, mem, queue, work>> /\ ~Filling(s)
    BY <1>1 DEF Send, Producers, Packets, poolVars, Filling
  <2> QED BY <2>1, StartKeeps DEF Working
<1>2. ASSUME NEW p \in AirPackets, LinkReceive(p) PROVE OneOwner' /\ Contents'
  <2>1. Link \in Producers /\ p \in Packets /\ StartProducing(Link, p)
        /\ UNCHANGED <<free, mem, queue, work>> /\ ~Filling(Link)
    BY <1>2 DEF LinkReceive, Producers, Packets, poolVars, Filling
  <2> QED BY <2>1, StartKeeps DEF Working
<1>3. ASSUME NEW t \in Producers, Alloc(t) \/ Put(t) PROVE OneOwner' /\ Contents'
  BY <1>3, AllocKeeps, PutKeeps
<1>4. CASE InitPort \/ InitWait \/ Console \/ UNCHANGED vars
  <2>1. UNCHANGED <<free, mem, queue, prod, work>>
    BY <1>4 DEF InitPort, InitWait, Console, OpenSocket, close, resetCount,
                ConsoleCall, vars, poolVars
  <2> QED BY <2>1, QuietKeeps DEF IInv
<1>5. ASSUME NEW d \in Directions, Worker(d) PROVE OneOwner' /\ Contents'
  BY <1>5, WorkerKeeps
<1> QED BY <1>1, <1>2, <1>3, <1>4, <1>5 DEF Next, Producer
-----------------------------------------------------------------------------
LEMMA LoopbackKeeps == IInv /\ [Next]_vars => LoopbackInside'
<1> SUFFICES ASSUME IInv, [Next]_vars, prod'[TxWorker].pc # "idle"
             PROVE  work'["tx"].pc = "callback"
  BY DEF LoopbackInside
<1> USE DEF IInv, TypeOK, LoopbackInside
<1>1. TxWorker \in Producers /\ "tx" \in Directions /\ TxWorker \notin Senders /\ Link # TxWorker
  BY ThreadAssumption DEF Producers, Directions
<1>2. ASSUME NEW t \in Producers \ {TxWorker}, NEW p, StartProducing(t, p), UNCHANGED work
      PROVE  work'["tx"].pc = "callback"
  BY <1>1, <1>2 DEF StartProducing
<1>3. ASSUME NEW s \in Senders, NEW p \in OutPackets, Send(s, p)
      PROVE  work'["tx"].pc = "callback"
  BY <1>1, <1>2, <1>3 DEF Send, Producers
<1>4. ASSUME NEW p \in AirPackets, LinkReceive(p) PROVE work'["tx"].pc = "callback"
  BY <1>1, <1>2, <1>4 DEF LinkReceive, Producers
<1>5. ASSUME NEW t \in Producers, Alloc(t) \/ Put(t) PROVE work'["tx"].pc = "callback"
  <2>1. prod[TxWorker].pc # "idle" /\ UNCHANGED work
    BY <1>1, <1>5 DEF Alloc, Put, Idle
  <2> QED BY <2>1
<1>6. ASSUME NEW d \in Directions, Worker(d) PROVE work'["tx"].pc = "callback"
  <2>1. CASE CallBack(d)
    BY <2>1, <1>1 DEF CallBack, Callback
  <2>2. CASE CallbackReturns(d)
    BY <2>2, <1>1 DEF CallbackReturns
  <2>3. CASE StartWorker(d) \/ GetMail(d) \/ NoCallBack(d) \/ FreeMail(d)
    BY <2>3, <1>1 DEF StartWorker, GetMail, NoCallBack, FreeMail
  <2> QED BY <1>6, <2>1, <2>2, <2>3 DEF Worker
<1>7. CASE InitPort \/ InitWait \/ Console \/ UNCHANGED vars
  <2>1. UNCHANGED <<prod, work>>
    BY <1>7 DEF InitPort, InitWait, Console, OpenSocket, close, resetCount, ConsoleCall, vars
  <2> QED BY <2>1
<1> QED BY <1>3, <1>4, <1>5, <1>6, <1>7 DEF Next, Producer
-----------------------------------------------------------------------------
(* Type correctness, action by action. *)
ProdType == prod \in [Producers -> [pc : {"idle", "alloc", "put"},
                                    pkt : Packets \cup {NoPacket},
                                    blk : Blocks \cup {NoBlock}]]
WorkType == work \in [Directions -> [pc : {"start", "get", "call", "callback", "free"},
                                     blk : Blocks \cup {NoBlock}]]
PoolType == /\ free \in [Directions -> SUBSET Blocks]
            /\ mem \in [Directions -> [Blocks -> Packets \cup {NoPacket}]]
            /\ queue \in [Directions -> Seq(Blocks)]
PortType == /\ handler \in [Directions -> SUBSET Ports]
            /\ count \in [Directions -> [Ports -> Nat]]
MainType == /\ signal \in [Directions -> BOOLEAN] /\ isReady \in BOOLEAN
            /\ main \in 0 .. Len(InitOrder) + 1 /\ console \in 0 .. MaxConsole
InputType == /\ unsent \subseteq OutPackets /\ air \subseteq AirPackets
             /\ called \in [Directions -> Seq(Packets)]

LEMMA TypeParts ==
  TypeOK <=> ProdType /\ WorkType /\ PoolType /\ PortType /\ MainType /\ InputType
BY DEF TypeOK, ProdType, WorkType, PoolType, PortType, MainType, InputType

LEMMA NextParts ==
  ProdType' /\ WorkType' /\ PoolType' /\ PortType' /\ MainType' /\ InputType' => TypeOK'
BY DEF TypeOK, ProdType, WorkType, PoolType, PortType, MainType, InputType

LEMMA StartType ==
  ASSUME TypeOK, NEW t \in Producers, NEW p \in Packets, StartProducing(t, p)
  PROVE  ProdType'
BY TypeParts DEF StartProducing, ProdType

LEMMA ProducerType ==
  ASSUME IInv, Producer
  PROVE  TypeOK'
<1>1. ASSUME NEW s \in Senders, NEW p \in OutPackets, Send(s, p) PROVE TypeOK'
  <2>1. ProdType'
    BY <1>1, StartType DEF Send, Producers, Packets, IInv
  <2>2. WorkType' /\ PoolType' /\ PortType' /\ MainType'
    BY <1>1 DEF Send, IInv, TypeOK, WorkType, PoolType, PortType, MainType,
                portVars, poolVars, startVars, mainVars
  <2>3. InputType'
    BY <1>1 DEF Send, IInv, TypeOK, InputType
  <2> QED BY <2>1, <2>2, <2>3, NextParts
<1>2. ASSUME NEW p \in AirPackets, LinkReceive(p) PROVE TypeOK'
  <2>1. ProdType'
    BY <1>2, StartType DEF LinkReceive, Producers, Packets, IInv
  <2>2. WorkType' /\ PoolType' /\ PortType' /\ MainType'
    BY <1>2 DEF LinkReceive, IInv, TypeOK, WorkType, PoolType, PortType, MainType,
                portVars, poolVars, startVars, mainVars
  <2>3. InputType'
    BY <1>2 DEF LinkReceive, IInv, TypeOK, InputType
  <2> QED BY <2>1, <2>2, <2>3, NextParts
<1>3. ASSUME NEW t \in Producers, Alloc(t) PROVE TypeOK'
  <2>1. PICK b \in free[DirOf(t)] :
          /\ free' = [free EXCEPT ![DirOf(t)] = @ \ {b}]
          /\ prod' = [prod EXCEPT ![t].pc = "put", ![t].blk = b]
    BY <1>3 DEF Alloc
  <2>2. b \in Blocks
    BY Directed DEF IInv, TypeOK
  <2>3. ProdType'
    <3>1. ProdType
      BY TypeParts DEF IInv
    <3>2. prod[t] \in [pc : {"idle", "alloc", "put"}, pkt : Packets \cup {NoPacket},
                      blk : Blocks \cup {NoBlock}]
      BY <3>1 DEF ProdType
    <3>3. [[prod[t] EXCEPT !.pc = "put"] EXCEPT !.blk = b]
             \in [pc : {"idle", "alloc", "put"}, pkt : Packets \cup {NoPacket},
                 blk : Blocks \cup {NoBlock}]
      BY <3>2, <2>2
    <3>4. prod' = [prod EXCEPT ![t] = [[prod[t] EXCEPT !.pc = "put"] EXCEPT !.blk = b]]
      BY <2>1, <3>1 DEF ProdType
    <3> QED BY <3>1, <3>3, <3>4 DEF ProdType
  <2>4. PoolType'
    BY <1>3, <2>1 DEF Alloc, IInv, TypeOK, PoolType
  <2>5. WorkType' /\ PortType' /\ MainType' /\ InputType'
    BY <1>3 DEF Alloc, IInv, TypeOK, WorkType, PortType, MainType, InputType,
                portVars, startVars, mainVars, inputVars
  <2> QED BY <2>3, <2>4, <2>5, NextParts
<1>4. ASSUME NEW t \in Producers, Put(t) PROVE TypeOK'
  <2>1. DirOf(t) \in Directions /\ prod[t].blk \in Blocks /\ prod[t].pkt \in Packets
    BY <1>4, Directed DEF Put, IInv, OneOwner, ProducerOwns, Filling, Contents
  <2>2. ProdType'
    <3>1. Idle \in [pc : {"idle", "alloc", "put"}, pkt : Packets \cup {NoPacket},
                    blk : Blocks \cup {NoBlock}]
      BY DEF Idle
    <3>2. ProdType /\ prod' = [prod EXCEPT ![t] = Idle]
      BY <1>4, TypeParts DEF Put, IInv
    <3> QED BY <3>1, <3>2 DEF ProdType
  <2>3. PoolType'
    <3>1. mem' \in [Directions -> [Blocks -> Packets \cup {NoPacket}]]
      BY <1>4, <2>1 DEF Put, IInv, TypeOK
    <3>2. queue' \in [Directions -> Seq(Blocks)]
      BY <1>4, <2>1 DEF Put, IInv, TypeOK
    <3> QED BY <3>1, <3>2, <1>4 DEF Put, IInv, TypeOK, PoolType
  <2>4. WorkType' /\ PortType' /\ MainType' /\ InputType'
    BY <1>4 DEF Put, IInv, TypeOK, WorkType, PortType, MainType, InputType,
                portVars, startVars, mainVars, inputVars
  <2> QED BY <2>2, <2>3, <2>4, NextParts
<1> QED BY <1>1, <1>2, <1>3, <1>4 DEF Producer

LEMMA WorkerType ==
  ASSUME IInv, NEW d \in Directions, Worker(d)
  PROVE  TypeOK'
<1> USE TypeParts DEF IInv
<1>1. CASE StartWorker(d)
  <2>1. WorkType' /\ MainType'
    BY <1>1 DEF StartWorker, Release, WorkType, MainType, mainVars, Directions
  <2>2. ProdType' /\ PoolType' /\ PortType' /\ InputType'
    BY <1>1 DEF StartWorker, ProdType, PoolType, PortType, InputType,
                poolVars, portVars, inputVars
  <2> QED BY <2>1, <2>2, NextParts
<1>2. CASE GetMail(d)
  <2>1. queue[d] \in Seq(Blocks) /\ queue[d] # <<>>
    BY <1>2 DEF GetMail, PoolType
  <2>2. Head(queue[d]) \in Blocks /\ Tail(queue[d]) \in Seq(Blocks)
    BY <2>1
  <2>3. WorkType' /\ PoolType'
    BY <1>2, <2>2 DEF GetMail, WorkType, PoolType
  <2>4. ProdType' /\ PortType' /\ MainType' /\ InputType'
    BY <1>2 DEF GetMail, ProdType, PortType, MainType, InputType,
                portVars, startVars, mainVars, inputVars
  <2> QED BY <2>3, <2>4, NextParts
<1>3. CASE CallBack(d)
  <2>1. Current(d) \in Packets
    BY <1>3 DEF CallBack, Contents, Working, Current
  <2>2. ProdType'
    <3>1. TxWorker \in Producers
      BY DEF Producers
    <3> QED BY <1>3, <2>1, <3>1, StartType DEF CallBack, Callback, ProdType
  <2>3. InputType'
    BY <1>3, <2>1 DEF CallBack, InputType, inputVars
  <2>4. WorkType'
    BY <1>3 DEF CallBack, WorkType
  <2>5. PoolType' /\ PortType' /\ MainType'
    BY <1>3 DEF CallBack, PoolType, PortType, MainType,
                portVars, poolVars, startVars, mainVars
  <2> QED BY <2>2, <2>3, <2>4, <2>5, NextParts
<1>4. CASE NoCallBack(d)
  <2>1. WorkType'
    BY <1>4 DEF NoCallBack, WorkType
  <2>2. ProdType' /\ PoolType' /\ PortType' /\ MainType' /\ InputType'
    BY <1>4 DEF NoCallBack, ProdType, PoolType, PortType, MainType, InputType,
                portVars, poolVars, startVars, mainVars, inputVars
  <2> QED BY <2>1, <2>2, NextParts
<1>5. CASE CallbackReturns(d)
  <2>1. Current(d) \in Packets
    BY <1>5 DEF CallbackReturns, Contents, Working, Current
  <2>2. PortOf[Current(d)] \in Ports
    BY <2>1, PortAssumption
  <2>3. PortType'
    BY <1>5, <2>2 DEF CallbackReturns, PortType
  <2>4. WorkType'
    BY <1>5 DEF CallbackReturns, WorkType
  <2>5. ProdType' /\ PoolType' /\ MainType' /\ InputType'
    BY <1>5 DEF CallbackReturns, ProdType, PoolType, MainType, InputType,
                poolVars, startVars, mainVars, inputVars
  <2> QED BY <2>3, <2>4, <2>5, NextParts
<1>6. CASE FreeMail(d)
  <2>1. work[d].blk \in Blocks
    BY <1>6 DEF FreeMail, OneOwner, WorkerOwns, Working
  <2>2. WorkType' /\ PoolType'
    BY <1>6, <2>1 DEF FreeMail, WorkType, PoolType
  <2>3. ProdType' /\ PortType' /\ MainType' /\ InputType'
    BY <1>6 DEF FreeMail, ProdType, PortType, MainType, InputType,
                portVars, startVars, mainVars, inputVars
  <2> QED BY <2>2, <2>3, NextParts
<1> QED BY <1>1, <1>2, <1>3, <1>4, <1>5, <1>6 DEF Worker

LEMMA MainTypeStep ==
  ASSUME IInv, InitPort \/ InitWait \/ Console \/ UNCHANGED vars
  PROVE  TypeOK'
<1> USE TypeParts DEF IInv
<1>1. ASSUME NEW d \in Directions, NEW n \in Ports, SetHandler(d, n)
      PROVE  PortType' /\ signal' \in [Directions -> BOOLEAN] /\ isReady' = isReady
  BY <1>1 DEF SetHandler, PortType, MainType
<1>2. CASE InitPort
  <2>1. main + 1 \in 1 .. Len(InitOrder) /\ main' = main + 1 /\ Len(InitOrder) \in Nat
    BY <1>2, PortAssumption DEF InitPort
  <2>2. InitOrder[main + 1] \in Directions \X Ports
    BY <2>1, PortAssumption
  <2>3. PortType' /\ MainType'
    BY <1>1, <1>2, <2>1, <2>2 DEF InitPort, MainType
  <2>4. ProdType' /\ WorkType' /\ PoolType' /\ InputType'
    BY <1>2 DEF InitPort, ProdType, WorkType, PoolType, InputType, poolVars, inputVars
  <2> QED BY <2>3, <2>4, NextParts
<1>3. CASE InitWait
  <2>1. MainType'
    BY <1>3, PortAssumption DEF InitWait, MainType, startVars
  <2>2. ProdType' /\ WorkType' /\ PoolType' /\ PortType' /\ InputType'
    BY <1>3 DEF InitWait, ProdType, WorkType, PoolType, PortType, InputType,
                poolVars, portVars, inputVars
  <2> QED BY <2>1, <2>2, NextParts
<1>4. CASE Console
  <2>1. ConsoleCall /\ console' \in 0 .. MaxConsole
    <3>1. ConsoleCall
      BY <1>4 DEF Console, OpenSocket, close, resetCount
    <3> QED BY <3>1, PortAssumption DEF ConsoleCall, MainType
  <2>2. PortType' /\ signal' \in [Directions -> BOOLEAN] /\ isReady' = isReady
    <3>1. CASE OpenSocket
      <4>1. PICK d \in Directions : SetHandler(d, ConsolePort)
        BY <3>1 DEF OpenSocket
      <4>2. ConsolePort \in Ports
        BY DEF Ports
      <4> QED BY <4>1, <4>2, <1>1
    <3>2. ASSUME NEW n \in Ports, close(n) \/ resetCount(n)
          PROVE  PortType' /\ UNCHANGED startVars
      <4>1. ZeroCount(n) /\ UNCHANGED startVars
        BY <3>2 DEF close, resetCount, startVars
      <4>2. count' \in [Directions -> [Ports -> Nat]]
        BY <4>1 DEF ZeroCount, PortType
      <4>3. handler' \in [Directions -> SUBSET Ports]
        BY <3>2 DEF close, resetCount, PortType
      <4> QED BY <4>1, <4>2, <4>3 DEF PortType
    <3> QED BY <1>4, <3>1, <3>2 DEF Console, startVars, MainType
  <2>3. MainType'
    BY <2>1, <2>2 DEF ConsoleCall, MainType
  <2>4. ProdType' /\ WorkType' /\ PoolType' /\ InputType'
    BY <2>1 DEF ConsoleCall, ProdType, WorkType, PoolType, InputType, poolVars, inputVars
  <2> QED BY <2>2, <2>3, <2>4, NextParts
<1>5. CASE UNCHANGED vars
  <2>1. ProdType' /\ WorkType' /\ PoolType'
    BY <1>5 DEF vars, poolVars, ProdType, WorkType, PoolType
  <2>2. PortType' /\ MainType' /\ InputType'
    BY <1>5 DEF vars, portVars, startVars, mainVars, inputVars,
                PortType, MainType, InputType
  <2> QED BY <2>1, <2>2, NextParts
<1> QED BY <1>2, <1>3, <1>4, <1>5
-----------------------------------------------------------------------------
(* The invariant holds in every state of every behaviour. *)
THEOREM Invariant == Spec => []IInv
<1>1. IInv /\ [Next]_vars => IInv'
  <2> SUFFICES ASSUME IInv, [Next]_vars PROVE IInv'
    OBVIOUS
  <2>1. TypeOK'
    BY ProducerType, WorkerType, MainTypeStep DEF Next
  <2> QED BY <2>1, NextKeeps, LoopbackKeeps DEF IInv
<1> QED BY <1>1, InitIInv, PTL DEF Spec

(* Every variable of the router stays in its type; in particular an entry  *)
(* of the mail queues is always a block of the pool.                       *)
THEOREM TypeCorrect == Spec => []TypeOK
<1>1. IInv => TypeOK
  BY DEF IInv
<1> QED BY <1>1, Invariant, PTL

(* A block of a mail pool is never free and in use, never twice in the     *)
(* queue, and never held by two threads: a callback reads memory that no   *)
(* other thread may fill or give away while it runs.  And none is lost:    *)
(* a block in use is in the queue or some thread has it.                   *)
THEOREM BlocksHaveOneOwner == Spec => []OneOwner
<1>1. IInv => OneOwner
  BY DEF IInv
<1> QED BY <1>1, Invariant, PTL

(* No callback is called with a block that was never filled. *)
THEOREM ContentsCorrect == Spec => []Contents
<1>1. IInv => Contents
  BY DEF IInv
<1> QED BY <1>1, Invariant, PTL
-----------------------------------------------------------------------------
(* CommModule implements PacketRouter.                                     *)

(* A queue without repetitions is no longer than the pool is large. *)
LEMMA DistinctLength ==
  ASSUME NEW S, IsFiniteSet(S), NEW q \in Seq(S), Distinct(q)
  PROVE  Len(q) <= Cardinality(S)
<1>1. Len(q) \in Nat /\ q \in [1 .. Len(q) -> S]
  OBVIOUS
<1>2. q \in Injection(1 .. Len(q), S)
  BY <1>1 DEF Injection, IsInjective, Distinct
<1>3. Cardinality(1 .. Len(q)) = Len(q)
  BY <1>1, FS_Interval
<1> QED BY <1>2, <1>3, FS_Injection

(* The packets in the mail queue, without the one the worker has taken. *)
Packed(d) == [i \in 1 .. Len(queue[d]) |-> mem[d][queue[d][i]]]

LEMMA WaitingParts ==
  ASSUME IInv, NEW d \in Directions
  PROVE  /\ Packed(d) \in Seq(Packets) /\ Len(Packed(d)) = Len(queue[d])
         /\ work[d].pc # "call" => Waiting(d) = Packed(d)
         /\ work[d].pc = "call" => /\ Current(d) \in Packets
                                   /\ Waiting(d) = <<Current(d)>> \o Packed(d)
<1>1. queue[d] \in Seq(Blocks)
  BY DEF IInv, TypeOK
<1>2. \A i \in 1 .. Len(queue[d]) : mem[d][queue[d][i]] \in Packets
  BY DEF IInv, Contents, Elements
<1>3. Packed(d) \in Seq(Packets) /\ Len(Packed(d)) = Len(queue[d])
  BY <1>1, <1>2 DEF Packed
<1>4. work[d].pc = "call" => Current(d) \in Packets
  BY DEF IInv, Contents, Working, Current
<1>5. work[d].pc # "call" => Waiting(d) = <<>> \o Packed(d)
  BY DEF Waiting, Packed
<1>6. work[d].pc = "call" => Waiting(d) = <<Current(d)>> \o Packed(d)
  BY DEF Waiting, Packed
<1>7. <<>> \o Packed(d) = Packed(d)
  BY <1>3
<1> QED BY <1>3, <1>4, <1>5, <1>6, <1>7

(* Waiting is a sequence of packets, and its first is the worker's. *)
LEMMA WaitingCall ==
  ASSUME IInv, NEW d \in Directions, work[d].pc = "call"
  PROVE  /\ Waiting(d) # <<>> /\ Head(Waiting(d)) = Current(d)
         /\ Tail(Waiting(d)) = Packed(d)
<1> DEFINE p == Packed(d)
           c == Current(d)
<1>1. p \in Seq(Packets) /\ c \in Packets /\ Waiting(d) = <<c>> \o p
  BY WaitingParts
<1> HIDE DEF p, c
<1>2. <<c>> \o p # <<>> /\ Head(<<c>> \o p) = c /\ Tail(<<c>> \o p) = p
  BY <1>1
<1> QED BY <1>1, <1>2 DEF p, c

(* A step that leaves the mail and what the workers hold of it. *)
LEMMA WaitingSame ==
  ASSUME NEW d \in Directions,
         mem'[d] = mem[d], queue'[d] = queue[d], work'[d].blk = work[d].blk,
         work'[d].pc = "call" <=> work[d].pc = "call"
  PROVE  Waiting(d)' = Waiting(d)
BY DEF Waiting, Current

(* A producer that puts its block in the queue accepts a packet, and there *)
(* was room for it: the blocks in use are all different.                   *)
LEMMA PutAccepts ==
  ASSUME IInv, NEW t \in Producers, Put(t)
  PROVE  /\ prod[t].pkt \in Packets
         /\ Len(Waiting(DirOf(t))) < Cardinality(Blocks)
         /\ Waiting(DirOf(t))' = Append(Waiting(DirOf(t)), prod[t].pkt)
         /\ \A e \in Directions \ {DirOf(t)} : Waiting(e)' = Waiting(e)
<1> DEFINE d == DirOf(t)
           b == prod[t].blk
           x == prod[t].pkt
           c == Current(d)
           p == Packed(d)
<1>1. d \in Directions /\ b \in Blocks /\ x \in Packets
  BY Directed DEF Put, IInv, OneOwner, ProducerOwns, Filling, Contents
<1>2. /\ mem' = [mem EXCEPT ![d][b] = x]
      /\ queue' = [queue EXCEPT ![d] = Append(@, b)]
      /\ UNCHANGED work /\ Filling(t)
  BY DEF Put, Filling
<1>3. b \notin Elements(queue[d]) /\ (Working(d) => work[d].blk # b)
  BY <1>2 DEF IInv, OneOwner, ProducerOwns, InUse
<1>4. /\ queue[d] \in Seq(Blocks) /\ Distinct(queue[d])
      /\ queue'[d] = Append(queue[d], b)
      /\ \A e \in Directions \ {d} : queue'[e] = queue[e] /\ mem'[e] = mem[e]
  BY <1>1, <1>2 DEF IInv, TypeOK, OneOwner, QueueOwns
<1>5. mem'[d][b] = x /\ \A a \in Blocks \ {b} : mem'[d][a] = mem[d][a]
  BY <1>1, <1>2 DEF IInv, TypeOK
<1>6. p \in Seq(Packets) /\ Len(p) = Len(queue[d])
  BY <1>1, WaitingParts
<1> HIDE DEF d, b, x, c, p
<1>7. \A e \in Directions \ {d} : Waiting(e)' = Waiting(e)
  BY <1>2, <1>4, WaitingSame
<1>8. Packed(d)' = Append(p, x)
  <2>1. \A i \in 1 .. Len(queue[d]) :
          /\ queue'[d][i] = queue[d][i] /\ queue[d][i] \in Blocks
          /\ queue[d][i] # b
    BY <1>3, <1>4 DEF Elements
  <2>2. Len(queue'[d]) = Len(queue[d]) + 1 /\ queue'[d][Len(queue[d]) + 1] = b
    BY <1>1, <1>4
  <2>3. \A i \in 1 .. Len(queue[d]) : mem'[d][queue'[d][i]] = p[i]
    BY <2>1, <1>5 DEF p, Packed
  <2>4. Len(p) \in Nat /\ Packed(d)' = [i \in 1 .. Len(p) + 1 |-> mem'[d][queue'[d][i]]]
    BY <2>2, <1>6 DEF Packed
  <2>5. \A i \in 1 .. Len(p) + 1 : Packed(d)'[i] = Append(p, x)[i] /\ Packed(d)'[i] \in Packets
    BY <2>2, <2>3, <2>4, <1>1, <1>5, <1>6
  <2>6. /\ Packed(d)' \in Seq(Packets) /\ Len(Packed(d)') = Len(p) + 1
        /\ Append(p, x) \in Seq(Packets) /\ Len(Append(p, x)) = Len(p) + 1
    <3>1. Append(p, x) \in Seq(Packets) /\ Len(Append(p, x)) = Len(p) + 1
      BY <1>1, <1>6
    <3>2. Packed(d)' \in Seq(Packets) /\ Len(Packed(d)') = Len(p) + 1
      <4>1. \A i \in 1 .. Len(p) + 1 : mem'[d][queue'[d][i]] \in Packets
        BY <2>4, <2>5
      <4> QED BY <4>1, <2>4
    <3> QED BY <3>1, <3>2
  <2> QED BY <2>5, <2>6, SeqEqual
<1>9. CASE work[d].pc = "call"
  <2>1. work[d].blk \in Blocks \ InUse(d) /\ work[d].blk # b
    BY <1>1, <1>3, <1>9 DEF IInv, OneOwner, WorkerOwns, Working
  <2>2. c \in Packets /\ Waiting(d) = <<c>> \o p
    BY <1>1, <1>9, WaitingParts DEF c, p
  <2>3. Current(d)' = c
    BY <2>1, <1>2, <1>5 DEF Current, c
  <2>4. Waiting(d)' = <<c>> \o Append(p, x)
    BY <2>3, <1>2, <1>8, <1>9 DEF Waiting, Packed
  <2>5. <<c>> \o Append(p, x) = Append(<<c>> \o p, x) /\ Len(<<c>> \o p) = Len(p) + 1
    BY <2>2, <1>1, <1>6
  <2>6. Len(p) + 2 <= Cardinality(Blocks)
    <3> DEFINE r == Append(Append(queue[d], b), work[d].blk)
    <3>1. /\ Append(queue[d], b) \in Seq(Blocks) /\ Distinct(Append(queue[d], b))
          /\ Elements(Append(queue[d], b)) = Elements(queue[d]) \cup {b}
      BY <1>1, <1>3, <1>4, AppendNew
    <3>2. work[d].blk \in Blocks /\ work[d].blk \notin Elements(Append(queue[d], b))
      BY <2>1, <3>1 DEF InUse
    <3>3. r \in Seq(Blocks) /\ Distinct(r)
      BY <3>1, <3>2, AppendNew
    <3>4. Len(r) = Len(queue[d]) + 2
      BY <1>1, <1>4, <3>2
    <3> QED BY <3>3, <3>4, <1>6, DistinctLength, BlockAssumption
  <2>7. Len(p) \in Nat /\ Cardinality(Blocks) \in Nat
    BY <1>6, FS_CardinalityType, BlockAssumption
  <2> QED BY <2>2, <2>4, <2>5, <2>6, <2>7, <1>1, <1>7 DEF d, x
<1>10. CASE work[d].pc # "call"
  <2>1. Waiting(d) = p
    BY <1>1, <1>10, WaitingParts DEF p
  <2>2. Waiting(d)' = <<>> \o Append(p, x)
    BY <1>2, <1>8, <1>10 DEF Waiting, Packed
  <2>3. <<>> \o Append(p, x) = Append(p, x)
    BY <1>1, <1>6
  <2>4. /\ Append(queue[d], b) \in Seq(Blocks) /\ Distinct(Append(queue[d], b))
        /\ Len(Append(queue[d], b)) = Len(queue[d]) + 1
    BY <1>1, <1>3, <1>4, AppendNew
  <2>5. Len(p) + 1 <= Cardinality(Blocks)
    BY <2>4, <1>6, DistinctLength, BlockAssumption
  <2>6. Len(p) \in Nat /\ Cardinality(Blocks) \in Nat
    BY <1>6, FS_CardinalityType, BlockAssumption
  <2> QED BY <2>1, <2>2, <2>3, <2>5, <2>6, <1>1, <1>7 DEF d, x
<1> QED BY <1>9, <1>10

(* Taking a block out of the queue changes nothing for the router. *)
LEMMA GetWaits ==
  ASSUME IInv, NEW d \in Directions, GetMail(d)
  PROVE  \A e \in Directions : Waiting(e)' = Waiting(e)
<1> DEFINE b == Head(queue[d])
           p == Packed(d)
<1>1. /\ work[d].pc = "get"
      /\ queue' = [queue EXCEPT ![d] = Tail(@)]
      /\ work' = [work EXCEPT ![d] = [pc |-> "call", blk |-> b]]
      /\ UNCHANGED mem
  BY DEF GetMail
<1>2. queue[d] \in Seq(Blocks) /\ queue[d] # <<>>
  BY DEF GetMail, IInv, TypeOK
<1>3. /\ queue'[d] = Tail(queue[d]) /\ work'[d].blk = b /\ work'[d].pc = "call"
      /\ \A e \in Directions \ {d} : queue'[e] = queue[e] /\ work'[e] = work[e]
  BY <1>1 DEF IInv, TypeOK
<1>4. p \in Seq(Packets) /\ Len(p) = Len(queue[d]) /\ Waiting(d) = p
  BY <1>1, WaitingParts
<1>5. \A e \in Directions \ {d} : Waiting(e)' = Waiting(e)
  BY <1>1, <1>3, WaitingSame
<1>6. p # <<>> /\ Head(p) = mem[d][b]
  BY <1>2, <1>4 DEF Packed
<1>7. Packed(d)' = Tail(p)
  <2>1. /\ Tail(p) \in Seq(Packets) /\ Len(Tail(p)) = Len(p) - 1 /\ Len(p) \in Nat \ {0}
        /\ \A i \in 1 .. Len(p) - 1 : Tail(p)[i] = p[i + 1]
    BY <1>2, <1>4
  <2>2. /\ Len(Tail(queue[d])) = Len(p) - 1
        /\ \A i \in 1 .. Len(p) - 1 : Tail(queue[d])[i] = queue[d][i + 1]
    BY <1>2, <1>4
  <2>3. Packed(d)' = [i \in 1 .. Len(p) - 1 |-> mem[d][queue'[d][i]]]
    <3>1. Len(queue'[d]) = Len(p) - 1
      BY <1>3, <2>2
    <3>2. Packed(d)' = [i \in 1 .. Len(queue'[d]) |-> mem'[d][queue'[d][i]]]
      BY DEF Packed
    <3> QED BY <3>1, <3>2, <1>1
  <2>4. \A i \in 1 .. Len(p) - 1 : p[i + 1] = mem[d][queue[d][i + 1]]
    BY <1>4, <2>1 DEF Packed
  <2>5. \A i \in 1 .. Len(p) - 1 : Packed(d)'[i] = Tail(p)[i]
    BY <1>3, <2>1, <2>2, <2>3, <2>4
  <2>6. Packed(d)' \in Seq(Packets) /\ Len(Packed(d)') = Len(p) - 1
    <3>1. \A i \in 1 .. Len(p) - 1 : Tail(p)[i] \in Packets
      BY <2>1
    <3> QED BY <3>1, <2>1, <2>3, <2>5
  <2> QED BY <2>1, <2>5, <2>6, SeqEqual
<1>8. Waiting(d)' = <<mem[d][b]>> \o Packed(d)'
  BY <1>1, <1>3 DEF Waiting, Packed, Current
<1> HIDE DEF p, b
<1>9. <<Head(p)>> \o Tail(p) = p
  BY <1>4, <1>6
<1> QED BY <1>4, <1>5, <1>6, <1>7, <1>8, <1>9

(* A worker that is done with its packet, called or not, has taken it off  *)
(* what waits.                                                             *)
LEMMA CallTakes ==
  ASSUME IInv, NEW d \in Directions, CallBack(d) \/ NoCallBack(d)
  PROVE  /\ Waiting(d) # <<>> /\ Head(Waiting(d)) = Current(d)
         /\ Waiting(d)' = Tail(Waiting(d))
         /\ \A e \in Directions \ {d} : Waiting(e)' = Waiting(e)
<1>1. work[d].pc = "call" /\ UNCHANGED <<mem, queue>>
  BY DEF CallBack, NoCallBack, poolVars
<1>2. /\ work'[d].pc # "call"
      /\ \A e \in Directions \ {d} : work'[e] = work[e]
  BY DEF CallBack, NoCallBack, IInv, TypeOK
<1>3. \A e \in Directions \ {d} : Waiting(e)' = Waiting(e)
  BY <1>1, <1>2, WaitingSame
<1>4. Waiting(d)' = <<>> \o Packed(d)
  BY <1>1, <1>2 DEF Waiting, Packed
<1>5. <<>> \o Packed(d) = Packed(d)
  BY WaitingParts
<1> QED BY <1>1, <1>3, <1>4, <1>5, WaitingCall

waitingBar == [d \in Directions |-> Waiting(d)]
routerVars == <<handler, waitingBar, called>>

(* Steps that leave all that waits. *)
LEMMA BarSame ==
  ASSUME \A d \in Directions : Waiting(d)' = Waiting(d)
  PROVE  waitingBar' = waitingBar
BY DEF waitingBar

LEMMA BarStep ==
  ASSUME NEW d \in Directions, NEW q, Waiting(d)' = q,
         \A e \in Directions \ {d} : Waiting(e)' = Waiting(e)
  PROVE  waitingBar' = [waitingBar EXCEPT ![d] = q] /\ waitingBar[d] = Waiting(d)
BY DEF waitingBar

LEMMA ProducerImplements ==
  ASSUME IInv, Producer
  PROVE  [Router!Next]_routerVars
<1>1. ASSUME NEW s \in Senders, NEW p \in OutPackets, Send(s, p) PROVE UNCHANGED routerVars
  <2>1. UNCHANGED <<handler, mem, queue, work, called>>
    BY <1>1 DEF Send, portVars, poolVars
  <2> QED BY <2>1, WaitingSame, BarSame DEF routerVars
<1>2. ASSUME NEW p \in AirPackets, LinkReceive(p) PROVE UNCHANGED routerVars
  <2>1. UNCHANGED <<handler, mem, queue, work, called>>
    BY <1>2 DEF LinkReceive, portVars, poolVars
  <2> QED BY <2>1, WaitingSame, BarSame DEF routerVars
<1>3. ASSUME NEW t \in Producers, Alloc(t) PROVE UNCHANGED routerVars
  <2>1. UNCHANGED <<handler, mem, queue, work, called>>
    BY <1>3 DEF Alloc, portVars
  <2> QED BY <2>1, WaitingSame, BarSame DEF routerVars
<1>4. ASSUME NEW t \in Producers, Put(t) PROVE Router!Accept(DirOf(t), prod[t].pkt)
  <2>1. UNCHANGED <<handler, called>> /\ DirOf(t) \in Directions
    BY <1>4, Directed DEF Put, portVars
  <2>2. /\ Len(Waiting(DirOf(t))) < Cardinality(Blocks)
        /\ waitingBar' = [waitingBar EXCEPT ![DirOf(t)] = Append(Waiting(DirOf(t)), prod[t].pkt)]
        /\ waitingBar[DirOf(t)] = Waiting(DirOf(t))
    BY <1>4, <2>1, PutAccepts, BarStep
  <2> QED BY <2>1, <2>2 DEF Router!Accept, waitingBar
<1>5. ASSUME NEW t \in Producers, Put(t) PROVE Router!Next
  BY <1>4, <1>5, PutAccepts, Directed DEF Router!Next, Router!Directions, Directions
<1> QED BY <1>1, <1>2, <1>3, <1>5 DEF Producer

LEMMA WorkerImplements ==
  ASSUME IInv, NEW d \in Directions, Worker(d)
  PROVE  [Router!Next]_routerVars
<1>1. d \in Router!Directions
  BY DEF Router!Directions, Directions
<1>2. CASE StartWorker(d) \/ CallbackReturns(d) \/ FreeMail(d)
  <2>1. UNCHANGED <<handler, mem, queue, called>>
    BY <1>2 DEF StartWorker, CallbackReturns, FreeMail, portVars, poolVars
  <2>2. work[d].pc # "call" /\ work'[d].pc # "call"
        /\ \A e \in Directions \ {d} : work'[e] = work[e]
    BY <1>2 DEF StartWorker, CallbackReturns, FreeMail, IInv, TypeOK
  <2>3. Waiting(d)' = Waiting(d)
    BY <2>1, <2>2 DEF Waiting
  <2>4. \A e \in Directions \ {d} : Waiting(e)' = Waiting(e)
    BY <2>1, <2>2, WaitingSame
  <2> QED BY <2>1, <2>3, <2>4, BarSame DEF routerVars
<1>3. CASE GetMail(d)
  <2>1. UNCHANGED <<handler, called>>
    BY <1>3 DEF GetMail, portVars
  <2> QED BY <2>1, <1>3, GetWaits, BarSame DEF routerVars
<1>4. CASE CallBack(d)
  <2>1. /\ Waiting(d) # <<>> /\ Head(Waiting(d)) = Current(d)
        /\ waitingBar' = [waitingBar EXCEPT ![d] = Tail(Waiting(d))]
        /\ waitingBar[d] = Waiting(d)
    BY <1>4, CallTakes, BarStep
  <2>2. /\ PortOf[Current(d)] \in handler[d] /\ UNCHANGED handler
        /\ called' = [called EXCEPT ![d] = Append(@, Current(d))]
    BY <1>4 DEF CallBack, portVars
  <2>3. Router!HandOver(d)
    BY <2>1, <2>2 DEF Router!HandOver, waitingBar
  <2> QED BY <1>1, <2>3 DEF Router!Next
<1>5. CASE NoCallBack(d)
  <2>1. /\ Waiting(d) # <<>> /\ Head(Waiting(d)) = Current(d)
        /\ waitingBar' = [waitingBar EXCEPT ![d] = Tail(Waiting(d))]
        /\ waitingBar[d] = Waiting(d)
    BY <1>5, CallTakes, BarStep
  <2>2. PortOf[Current(d)] \notin handler[d] /\ UNCHANGED <<handler, called>>
    BY <1>5 DEF NoCallBack, portVars
  <2>3. Router!Drop(d)
    BY <2>1, <2>2 DEF Router!Drop, waitingBar
  <2> QED BY <1>1, <2>3 DEF Router!Next
<1> QED BY <1>2, <1>3, <1>4, <1>5 DEF Worker

LEMMA MainImplements ==
  ASSUME IInv, InitPort \/ InitWait \/ Console \/ UNCHANGED vars
  PROVE  [Router!Next]_routerVars
<1>1. UNCHANGED <<waitingBar, called>>
  <2>1. UNCHANGED <<mem, queue, work, called>>
    BY DEF InitPort, InitWait, Console, OpenSocket, close, resetCount, ConsoleCall,
           vars, poolVars
  <2> QED BY <2>1, WaitingSame, BarSame
<1>2. ASSUME NEW d \in Directions, NEW n \in Ports, SetHandler(d, n) PROVE Router!Next
  <2>1. Router!Open(d, n)
    BY <1>1, <1>2 DEF SetHandler, Router!Open, waitingBar
  <2> QED BY <2>1 DEF Router!Next, Router!Directions, Directions
<1>3. CASE InitPort
  <2>1. main + 1 \in 1 .. Len(InitOrder) /\ Len(InitOrder) \in Nat
    BY <1>3, PortAssumption DEF InitPort
  <2>2. InitOrder[main + 1] \in Directions \X Ports
    BY <2>1, PortAssumption
  <2> QED BY <1>2, <1>3, <2>2 DEF InitPort
<1>4. CASE OpenSocket
  <2>1. PICK d \in Directions : SetHandler(d, ConsolePort)
    BY <1>4 DEF OpenSocket
  <2> QED BY <1>2, <2>1 DEF Ports
<1>5. ASSUME NEW n \in Ports, close(n) PROVE Router!Next
  <2>1. Router!Close(n)
    BY <1>1, <1>5 DEF close, Router!Close, Router!Directions, Directions, waitingBar
  <2> QED BY <2>1 DEF Router!Next
<1>6. ASSUME NEW n \in Ports, resetCount(n) PROVE UNCHANGED routerVars
  BY <1>1, <1>6 DEF resetCount, routerVars
<1>7. CASE InitWait \/ UNCHANGED vars
  BY <1>1, <1>7 DEF InitWait, vars, portVars, routerVars
<1> QED BY <1>3, <1>4, <1>5, <1>6, <1>7 DEF Console

(* Every behaviour of the threads, queues and pools is one of the router:  *)
(* in each direction the accepted packets are handed over once, in order   *)
(* and with the contents they were sent with, or dropped because their     *)
(* port has no callback, and no more of them wait than there are blocks.   *)
THEOREM Implementation == Spec => ImplementsRouter
<1>1. Init => Router!Init
  <2> SUFFICES ASSUME Init PROVE Router!Init
    OBVIOUS
  <2>1. \A d \in Directions : Waiting(d) = <<>>
    BY DEF Init, Waiting
  <2> QED BY <2>1 DEF Init, Router!Init, Router!Directions, Directions
<1>2. IInv /\ [Next]_vars => [Router!Next]_Router!vars
  <2>1. IInv /\ [Next]_vars => [Router!Next]_routerVars
    BY ProducerImplements, WorkerImplements, MainImplements DEF Next
  <2>2. routerVars = Router!vars
    BY DEF routerVars, Router!vars, waitingBar
  <2>3. routerVars' = Router!vars'
    BY DEF routerVars, Router!vars, waitingBar
  <2> QED BY <2>1, <2>2, <2>3
<1> QED BY <1>1, <1>2, Invariant, PTL DEF Spec, ImplementsRouter, Router!Spec
-----------------------------------------------------------------------------
(* Nobody waits for everybody.                                             *)

(* What each thread needs to go on. *)
ProducerReady(t) == \/ prod[t].pc = "put"
                    \/ prod[t].pc = "alloc" /\ free[DirOf(t)] # {}
WorkerReady(d) == \/ work[d].pc = "start" /\ signal[d]
                  \/ work[d].pc = "get" /\ queue[d] # <<>>
                  \/ work[d].pc \in {"call", "free"}
                  \/ work[d].pc = "callback" /\ (d = "tx" => prod[TxWorker].pc = "idle")
MainReady == main < Len(InitOrder) \/ (main = Len(InitOrder) /\ isReady)

Pending == \/ main <= Len(InitOrder)
           \/ \E t \in Producers : prod[t].pc # "idle"
           \/ \E d \in Directions : queue[d] # <<>> \/ work[d].pc \notin {"start", "get"}

NobodyIsStuck ==
  Pending => \/ MainReady
             \/ \E t \in Producers : ProducerReady(t)
             \/ \E d \in Directions : WorkerReady(d)

(* The start signal is on its way from the first handler that is set, to   *)
(* the tx worker, to the rx worker, to isReady.                            *)
StartChain ==
  /\ isReady <=> work["rx"].pc # "start"
  /\ work["tx"].pc = "start" => ~isReady /\ (main > 0 => signal["tx"])
  /\ work["tx"].pc # "start" /\ work["rx"].pc = "start" => signal["rx"]
  /\ signal["rx"] => work["tx"].pc # "start"

LEMMA StartChainKeeps == TypeOK /\ StartChain /\ [Next]_vars => StartChain'
<1> SUFFICES ASSUME TypeOK, StartChain, [Next]_vars PROVE StartChain'
  OBVIOUS
<1> USE DEF TypeOK, StartChain, Directions
<1>1. CASE Producer
  <2>1. UNCHANGED <<work, signal, isReady, main>>
    BY <1>1 DEF Producer, Send, LinkReceive, Alloc, Put, startVars, mainVars
  <2> QED BY <2>1
<1>2. ASSUME NEW d \in Directions, Worker(d) PROVE StartChain'
  <2>1. CASE StartWorker(d)
    <3>1. CASE d = "tx"
      <4>1. /\ work'["tx"].pc = "get" /\ work'["rx"] = work["rx"]
            /\ signal'["rx"] = TRUE /\ isReady' = isReady
        BY <2>1, <3>1 DEF StartWorker, Release
      <4> QED BY <4>1
    <3>2. CASE d = "rx"
      <4>1. /\ work'["rx"].pc = "get" /\ work'["tx"] = work["tx"]
            /\ work["rx"].pc = "start" /\ signal["rx"] /\ isReady' = TRUE
        BY <2>1, <3>2 DEF StartWorker, Release
      <4>2. work["tx"].pc # "start"
        BY <4>1
      <4> QED BY <4>1, <4>2
    <3> QED BY <3>1, <3>2
  <2>2. CASE GetMail(d) \/ CallBack(d) \/ NoCallBack(d) \/ CallbackReturns(d) \/ FreeMail(d)
    <3>1. UNCHANGED <<signal, isReady, main>>
      BY <2>2 DEF GetMail, CallBack, NoCallBack, CallbackReturns, FreeMail,
                  startVars, mainVars
    <3>2. work[d].pc # "start" /\ work'[d].pc # "start"
          /\ \A e \in Directions \ {d} : work'[e] = work[e]
      BY <2>2 DEF GetMail, CallBack, NoCallBack, CallbackReturns, FreeMail
    <3> QED BY <3>1, <3>2
  <2> QED BY <1>2, <2>1, <2>2 DEF Worker
<1>3. ASSUME NEW d \in Directions, NEW n, SetHandler(d, n), UNCHANGED work,
             main' \in {main, main + 1}
      PROVE  StartChain'
  BY <1>3 DEF SetHandler
<1>4. CASE InitPort
  <2>1. main + 1 \in 1 .. Len(InitOrder)
    BY <1>4, PortAssumption DEF InitPort
  <2>2. InitOrder[main + 1] \in Directions \X Ports
    BY <2>1, PortAssumption
  <2> QED BY <1>3, <1>4, <2>2 DEF InitPort
<1>5. CASE InitWait
  BY <1>5, PortAssumption DEF InitWait, startVars
<1>6. CASE OpenSocket
  BY <1>3, <1>6 DEF OpenSocket, ConsoleCall
<1>7. ASSUME NEW n \in Ports, close(n) \/ resetCount(n) PROVE StartChain'
  BY <1>7 DEF close, resetCount, ConsoleCall, startVars
<1>8. CASE UNCHANGED vars
  BY <1>8 DEF vars, startVars, mainVars
<1> QED BY <1>1, <1>2, <1>4, <1>5, <1>6, <1>7, <1>8 DEF Next, Console

LEMMA StartChainInvariant == Spec => []StartChain
<1>1. Init => StartChain
  BY DEF Init, StartChain, Directions
<1> QED BY <1>1, StartChainKeeps, TypeCorrect, PTL DEF Spec

(* A worker whose mail is not empty, or that holds a block, can go on,     *)
(* unless it is the tx worker in the callback of the loopback port.        *)
LEMMA WorkerGoes ==
  ASSUME IInv, StartChain, main > 0, NEW d \in Directions,
         queue[d] # <<>> \/ Working(d)
  PROVE  (\E e \in Directions : WorkerReady(e)) \/ (d = "tx" /\ prod[TxWorker].pc # "idle")
<1>1. CASE work[d].pc = "start"
  <2>1. (signal["tx"] /\ work["tx"].pc = "start") \/ (signal["rx"] /\ work["rx"].pc = "start")
    BY <1>1 DEF StartChain, Directions
  <2> QED BY <2>1 DEF WorkerReady, Directions
<1>2. CASE work[d].pc # "start"
  BY <1>2 DEF IInv, TypeOK, WorkerReady, Working
<1> QED BY <1>1, <1>2

(* A pool without a free block has a thread that can go on: a block is     *)
(* never lost, so that somebody has one.                                   *)
LEMMA PoolGoes ==
  ASSUME IInv, StartChain, main > 0, NEW d \in Directions, free[d] = {}
  PROVE  \/ \E t \in Producers : ProducerReady(t)
         \/ \E e \in Directions : WorkerReady(e)
         \/ d = "tx" /\ prod[TxWorker].pc # "idle"
<1>1. PICK b \in Blocks : TRUE
  BY BlockAssumption
<1>2. CASE b \in InUse(d)
  <2>1. b \in Elements(queue[d])
    BY <1>2 DEF InUse
  <2>2. queue[d] # <<>>
    BY <2>1 DEF Elements
  <2> QED BY <2>2, WorkerGoes
<1>3. CASE b \notin InUse(d)
  <2>1. Working(d) \/ \E t \in Producers : Filling(t)
    BY <1>1, <1>3 DEF IInv, OneOwner, NoBlockLost
  <2>2. \A t \in Producers : Filling(t) => ProducerReady(t)
    BY DEF Filling, ProducerReady
  <2> QED BY <2>1, <2>2, WorkerGoes
<1> QED BY <1>2, <1>3

LEMMA StuckImpossible == IInv /\ StartChain => NobodyIsStuck
<1> SUFFICES ASSUME IInv, StartChain, Pending, ~MainReady
             PROVE  \/ \E t \in Producers : ProducerReady(t)
                    \/ \E d \in Directions : WorkerReady(d)
  BY DEF NobodyIsStuck
<1> DEFINE Goes == \/ \E t \in Producers : ProducerReady(t)
                   \/ \E d \in Directions : WorkerReady(d)
<1>1. main \in Nat /\ Len(InitOrder) \in Nat \ {0} /\ main >= Len(InitOrder)
  BY PortAssumption DEF IInv, TypeOK, MainReady
<1>2. main > 0
  BY <1>1
<1>3. TxWorker \in Producers /\ DirOf(TxWorker) = "rx" /\ "rx" \in Directions
  BY ThreadAssumption DEF Producers, DirOf, Directions
<1>4. ASSUME prod[TxWorker].pc # "idle" PROVE Goes
  <2>1. CASE prod[TxWorker].pc = "put" \/ free["rx"] # {}
    BY <1>3, <1>4, <2>1 DEF ProducerReady, IInv, TypeOK
  <2>2. CASE free["rx"] = {}
    BY <1>2, <1>3, <2>2, PoolGoes
  <2> QED BY <2>1, <2>2
<1>5. ASSUME NEW t \in Producers, prod[t].pc # "idle" PROVE Goes
  <2>1. CASE prod[t].pc = "put" \/ free[DirOf(t)] # {}
    BY <1>5, <2>1 DEF ProducerReady, IInv, TypeOK
  <2>2. CASE free[DirOf(t)] = {}
    BY <1>2, <1>4, <2>2, Directed, PoolGoes
  <2> QED BY <2>1, <2>2
<1>6. ASSUME NEW d \in Directions, queue[d] # <<>> \/ work[d].pc \notin {"start", "get"}
      PROVE  Goes
  <2>1. queue[d] # <<>> \/ Working(d)
    BY <1>6 DEF Working, IInv, TypeOK
  <2> QED BY <1>2, <1>4, <2>1, WorkerGoes
<1>7. CASE main <= Len(InitOrder)
  <2>1. work["rx"].pc = "start"
    BY <1>1, <1>7 DEF MainReady, StartChain
  <2>2. (signal["tx"] /\ work["tx"].pc = "start") \/ (signal["rx"] /\ work["rx"].pc = "start")
    BY <1>2, <2>1 DEF StartChain
  <2> QED BY <2>2 DEF WorkerReady, Directions
<1> QED BY <1>5, <1>6, <1>7 DEF Pending

(* As long as start-up is not over, a packet is under way or a thread has  *)
(* a block, some thread can go on: the threads never all wait, neither for *)
(* the start signal, nor for a block of a pool, nor, in the loopback's     *)
(* callback, one worker for the other, whatever the size of the pools.     *)
THEOREM NoDeadlock == Spec => []NobodyIsStuck
BY StuckImpossible, StartChainInvariant, Invariant, PTL
=============================================================================
