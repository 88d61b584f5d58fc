----------------------------- MODULE RingsProofs -----------------------------
(***************************************************************************)
(* For any number of producers and consumers, any capacity and any number  *)
(* of pushes, the ring of ipc/shm_ring.rs is bounded, gives every slot to  *)
(* one writer at a time, shows a reader its own element until the ring is  *)
(* refilled, and implements the queue of TicketQueue; and the disruptor of *)
(* disruptor/ hands out each sequence once, shows a consumer whole events  *)
(* and counts its pending publications.                                    *)
(***************************************************************************)
EXTENDS MCRings, FiniteSetTheorems, WellFoundedInduction, TLAPS

-----------------------------------------------------------------------------
(* Positions less than a lap apart have different slots.                    *)

\* A multiple of c is no number strictly between 0 and c.
LEMMA MultipleGap ==
    ASSUME NEW c \in Nat, c > 0, NEW k \in Int
    PROVE  c * k <= 0 \/ c * k >= c
<1>1. CASE k <= 0
  BY <1>1, SMT
<1>2. CASE k >= 1
  BY <1>2, SMT
<1> QED BY <1>1, <1>2

\* Division with remainder, as the slot computation uses it.
LEMMA Division ==
    ASSUME NEW c \in Nat, c > 0, NEW a \in Nat
    PROVE  /\ a = c * (a \div c) + (a % c)
           /\ a % c \in 0 .. c - 1
           /\ a \div c \in Nat
BY SMT

\* Numbers less than c apart have different remainders.
LEMMA RemaindersDiffer ==
    ASSUME NEW c \in Nat, c > 0, NEW a \in Nat, NEW b \in Nat, a < b, b < a + c
    PROVE  a % c # b % c
<1> SUFFICES ASSUME a % c = b % c PROVE FALSE
  OBVIOUS
<1> DEFINE qa == a \div c
           qb == b \div c
<1>1. /\ a = c * qa + (a % c)
      /\ b = c * qb + (b % c)
      /\ qa \in Int /\ qb \in Int /\ a % c \in Int
  BY Division
<1> HIDE DEF qa, qb
<1>2. b - a = c * qb - c * qa
  BY <1>1
<1>3. c * qb - c * qa = c * (qb - qa)
  BY <1>1, SMT
<1>4. c * (qb - qa) <= 0 \/ c * (qb - qa) >= c
  BY <1>1, MultipleGap
<1> QED BY <1>2, <1>3, <1>4

\* Every position has a slot.
LEMMA SlotType == \A n \in Nat : Slot(n) \in Slots
<1> SUFFICES ASSUME NEW n \in Nat PROVE Slot(n) \in Slots
  OBVIOUS
<1>1. Capacity \in Nat /\ Capacity > 0
  BY RingAssumption
<1>2. n % Capacity \in 0 .. Capacity - 1
  BY <1>1, Division
<1> QED BY <1>2 DEF Slot, Slots

\* The slots of two positions less than a lap apart, the smaller one first.
LEMMA SlotsDiffer ==
    ASSUME NEW a \in Nat, NEW b \in Nat, a < b, b < a + Capacity
    PROVE  Slot(a) # Slot(b)
BY RingAssumption, RemaindersDiffer DEF Slot

\* Two positions of one lap do not share a slot.
LEMMA SlotInjective ==
    ASSUME NEW a \in Nat, NEW b \in Nat, a # b,
           a < b + Capacity, b < a + Capacity
    PROVE  Slot(a) # Slot(b)
<1>1. CASE a < b
  BY <1>1, SlotsDiffer
<1>2. CASE b < a
  BY <1>2, SlotsDiffer
<1> QED BY <1>1, <1>2

-----------------------------------------------------------------------------
(* The inductive invariant.                                                 *)

\* A producer about to CAS has room, since tail only grows; one that writes
\* owns an outstanding position that nobody else writes and that is not
\* published.
ProducerInv ==
    /\ \A p \in Producers : pc[p] = "cas" => pos[p] - tail < Capacity
    /\ \A p \in Writing :
          /\ tail <= pos[p] /\ pos[p] < head
          /\ sequence[Slot(pos[p])] # pos[p] + 1
          /\ pc[p] \in {"hi", "publish"} => lo[Slot(pos[p])] = pos[p]
          /\ pc[p] = "publish" => hi[Slot(pos[p])] = pos[p]
    /\ \A p, q \in Writing : p # q => pos[p] # pos[q]

\* A consumer is never ahead of tail; if its copy is still current when it
\* comes to the CAS, the position is published; one that reads keeps its
\* element until the position one lap later is reserved.
ConsumerInv ==
    /\ \A c \in Consumers :
          /\ pos[c] <= tail
          /\ pc[c] = "sequence" => pos[c] < head
          /\ pc[c] = "cas" /\ pos[c] = tail =>
                tail < head /\ sequence[Slot(tail)] = tail + 1
    /\ \A c \in Reading :
          /\ pos[c] < tail
          /\ head <= pos[c] + Capacity =>
                /\ sequence[Slot(pos[c])] = pos[c] + 1
                /\ pc[c] = "hi" => got[c] = pos[c]

\* A published position of the last lap has both halves of its element; the
\* positions beyond head are not published.
SlotInv ==
    /\ \A i \in Slots : sequence[i] <= head
    /\ \A n \in Nat : n < head /\ head <= n + Capacity
                      /\ sequence[Slot(n)] = n + 1 =>
          lo[Slot(n)] = n /\ hi[Slot(n)] = n

IInv == TypeOK /\ Bounded /\ ProducerInv /\ ConsumerInv /\ SlotInv

\* The initial states satisfy the invariant.
LEMMA InitInv == Init => IInv
<1> SUFFICES ASSUME Init PROVE IInv
  OBVIOUS
<1>0. 0 \in 0 .. head
  BY DEF Init
<1>4. Default \in Int
  BY DEF Default
<1>5. closed \in BOOLEAN
  BY DEF Init
<1>6. lo \in [Slots -> Int] /\ hi \in [Slots -> Int] /\ got \in [Consumers -> Int]
  BY <1>4 DEF Init
<1>1. TypeOK
  BY <1>0, <1>5, <1>6 DEF Init, TypeOK, PC
<1>2. Writing = {} /\ Reading = {}
  BY DEF Init, Writing, Reading, Threads
<1>3. SlotInv
  BY SlotType DEF Init, SlotInv, Slots
<1> QED
  BY <1>1, <1>2, <1>3, RingAssumption
     DEF Init, IInv, Bounded, ProducerInv, ConsumerInv, Threads

\* A step of one thread that touches nothing but its own copies, and does not
\* bring it into or out of possession of a position, preserves the invariant
\* when it establishes what its new place asks.
LEMMA LocalStep ==
    ASSUME IInv, NEW t \in Threads, NEW l \in PC, NEW n \in 0 .. head,
           pc' = [pc EXCEPT ![t] = l], pos' = [pos EXCEPT ![t] = n],
           UNCHANGED <<head, tail, closed, data, got, pushed>>,
           t \in Producers =>
              /\ pc[t] \notin {"lo", "hi", "publish"}
              /\ l \in {"idle", "load", "limit", "cas"}
              /\ l = "cas" => n - tail < Capacity,
           t \in Consumers =>
              /\ pc[t] \notin {"lo", "hi"}
              /\ l \in {"idle", "limit", "sequence", "cas"}
              /\ n <= tail
              /\ l = "sequence" => n < head
              /\ l = "cas" /\ n = tail =>
                    tail < head /\ sequence[Slot(tail)] = tail + 1
    PROVE  IInv'
<1> USE DEF IInv, data
<1>1. TypeOK'
  BY DEF TypeOK
<1>2. Writing' = Writing /\ Reading' = Reading
  BY RingAssumption DEF TypeOK, Writing, Reading, Threads
<1>3. /\ \A u \in Threads : u # t => pc'[u] = pc[u] /\ pos'[u] = pos[u]
      /\ pc'[t] = l /\ pos'[t] = n /\ t \notin Writing /\ t \notin Reading
  BY RingAssumption DEF TypeOK, Threads, Writing, Reading
<1>4. ProducerInv'
  BY <1>2, <1>3 DEF ProducerInv, Threads, Writing
<1>5. ConsumerInv'
  BY <1>2, <1>3 DEF ConsumerInv, Threads, Reading
<1> QED BY <1>1, <1>4, <1>5 DEF Bounded, SlotInv

\* The steps of push() and pop() that only move a thread's own copies.
LEMMA LocalSteps ==
    ASSUME IInv, NEW t \in Threads,
           \/ t \in Producers /\ (\/ PushOpen(t) \/ PushLoadHead(t)
                                  \/ PushLoadTail(t) \/ PushCasFails(t))
           \/ t \in Consumers /\ (\/ PopLoadTail(t) \/ PopLoadHead(t)
                                  \/ PopSequence(t) \/ PopCasFails(t))
    PROVE  IInv'
<1> USE DEF Goto, SetPos, PC
<1>0. /\ head \in Nat /\ tail \in Nat /\ tail <= head /\ head \in 0 .. head
      /\ pos[t] \in 0 .. head
      /\ pos = [pos EXCEPT ![t] = pos[t]]
      /\ Capacity \in Nat
  BY RingAssumption DEF IInv, TypeOK, Bounded
<1>1. CASE t \in Producers
  <2>0. t \notin Consumers
    BY <1>1, RingAssumption
  <2>1. CASE PushOpen(t)
    BY <1>0, <1>1, <2>0, <2>1, LocalStep DEF PushOpen
  <2>2. CASE PushLoadHead(t) \/ PushCasFails(t)
    BY <1>0, <1>1, <2>0, <2>2, LocalStep DEF PushLoadHead, PushCasFails
  <2>3. CASE PushLoadTail(t)
    <3>1. CASE Full(pos[t], tail)
      BY <1>0, <1>1, <2>0, <2>3, <3>1, LocalStep DEF PushLoadTail
    <3>2. CASE ~Full(pos[t], tail)
      <4>1. pos[t] - tail < Capacity
        BY <1>0, <3>2 DEF Full
      <4> QED BY <1>0, <1>1, <2>0, <2>3, <3>2, <4>1, LocalStep DEF PushLoadTail
    <3> QED BY <3>1, <3>2
  <2> QED BY <2>0, <2>1, <2>2, <2>3
<1>2. CASE t \in Consumers
  <2>0. t \notin Producers /\ pos[t] <= tail
    BY <1>2, RingAssumption DEF IInv, ConsumerInv
  <2>1. CASE PopLoadTail(t) \/ PopCasFails(t)
    <3>1. tail \in 0 .. head /\ tail <= tail
      BY <1>0
    <3> QED BY <1>2, <2>0, <2>1, <3>1, LocalStep DEF PopLoadTail, PopCasFails
  <2>2. CASE PopLoadHead(t)
    <3>1. CASE pos[t] >= head
      BY <1>0, <1>2, <2>0, <2>2, <3>1, LocalStep DEF PopLoadHead
    <3>2. CASE ~(pos[t] >= head)
      <4>1. pos[t] < head
        BY <1>0, <3>2
      <4> QED BY <1>0, <1>2, <2>0, <2>2, <3>2, <4>1, LocalStep DEF PopLoadHead
    <3> QED BY <3>1, <3>2
  <2>3. CASE PopSequence(t)
    <3>1. pos[t] < head
      BY <1>2, <2>3 DEF PopSequence, IInv, ConsumerInv
    <3>2. CASE sequence[Slot(pos[t])] # pos[t] + 1
      BY <1>0, <1>2, <2>0, <2>3, <3>2, LocalStep DEF PopSequence
    <3>3. CASE sequence[Slot(pos[t])] = pos[t] + 1
      BY <1>0, <1>2, <2>0, <2>3, <3>1, <3>3, LocalStep, ZenonT(60) DEF PopSequence
    <3> QED BY <3>2, <3>3
  <2> QED BY <2>0, <2>1, <2>2, <2>3
<1> QED BY <1>1, <1>2

\* Winning a position: it is new, in range and not published, and it leaves
\* the readers' condition only stronger.
LEMMA PushCasStep ==
    ASSUME IInv, NEW p \in Producers, PushCas(p)
    PROVE  IInv'
<1> USE DEF PushCas, Goto, data
<1>0. /\ head \in Nat /\ tail \in Nat /\ Capacity \in Nat /\ Capacity > 0
      /\ p \in Threads /\ p \notin Consumers
  BY RingAssumption DEF IInv, TypeOK, Threads
<1>1. TypeOK'
  <2>1. \A t \in Threads : pos[t] \in 0 .. head + 1
    BY <1>0 DEF IInv, TypeOK
  <2> QED BY <1>0, <2>1 DEF IInv, TypeOK, PC
<1>2. /\ pc'[p] = "lo"
      /\ \A t \in Threads : t # p => pc'[t] = pc[t]
      /\ Writing' = Writing \cup {p} /\ Reading' = Reading
      /\ p \notin Writing
  BY <1>0, RingAssumption DEF IInv, TypeOK, Writing, Reading, Threads
<1>3. Bounded'
  BY <1>0 DEF IInv, Bounded, ProducerInv
<1>4. SlotInv'
  <2>1. \A i \in Slots : sequence[i] \in Nat /\ sequence[i] <= head
    BY DEF IInv, SlotInv, TypeOK
  <2>2. ASSUME NEW n \in Nat, n < head + 1, head + 1 <= n + Capacity,
               sequence[Slot(n)] = n + 1
        PROVE  lo[Slot(n)] = n /\ hi[Slot(n)] = n
    <3>1. n # head
      BY <1>0, <2>1, <2>2, SlotType
    <3> QED BY <1>0, <2>2, <3>1 DEF IInv, SlotInv
  <2> QED BY <1>0, <2>1, <2>2 DEF SlotInv
<1>5. ProducerInv'
  <2>1. sequence[Slot(head)] # head + 1
    BY <1>0, SlotType DEF IInv, SlotInv, TypeOK
  <2>2. \A q \in Writing : pos[q] \in Nat /\ pos[q] < head
    BY <1>0 DEF IInv, ProducerInv, TypeOK, Writing, Threads
  <2> QED BY <1>0, <1>2, <2>1, <2>2
           DEF IInv, ProducerInv, Bounded, Threads, Writing
<1>6. ConsumerInv'
  <2>1. \A c \in Consumers : c \in Threads /\ c # p /\ pos[c] \in Nat
    BY <1>0 DEF IInv, TypeOK, Threads
  <2> QED BY <1>0, <1>2, <2>1 DEF IInv, ConsumerInv, Reading
<1> QED BY <1>1, <1>3, <1>4, <1>5, <1>6 DEF IInv

\* Writing a slot changes no published position of the last lap: the slot
\* belongs to the writer's own position, which is not published.
LEMMA OwnSlot ==
    ASSUME IInv, NEW p \in Writing
    PROVE  /\ pos[p] \in Nat /\ Slot(pos[p]) \in Slots
           /\ \A n \in Nat : n < head /\ head <= n + Capacity /\ n # pos[p] =>
                 Slot(n) # Slot(pos[p])
           /\ \A q \in Writing : q # p => Slot(pos[q]) # Slot(pos[p])
           /\ \A c \in Reading : head <= pos[c] + Capacity =>
                 Slot(pos[c]) # Slot(pos[p])
<1>0. /\ head \in Nat /\ tail \in Nat /\ Capacity \in Nat /\ Capacity > 0
      /\ \A t \in Threads : pos[t] \in Nat
      /\ tail <= head /\ head <= tail + Capacity
  BY RingAssumption DEF IInv, TypeOK, Bounded
<1>1. /\ pos[p] \in Nat /\ tail <= pos[p] /\ pos[p] < head
      /\ Slot(pos[p]) \in Slots
  BY <1>0, SlotType DEF IInv, ProducerInv, Writing, Threads
<1>2. ASSUME NEW n \in Nat, n < head, head <= n + Capacity, n # pos[p]
      PROVE  Slot(n) # Slot(pos[p])
  <2>1. n < pos[p] + Capacity /\ pos[p] < n + Capacity
    BY <1>0, <1>1, <1>2
  <2> QED BY <1>1, <1>2, <2>1, SlotInjective
<1>3. ASSUME NEW q \in Writing, q # p
      PROVE  Slot(pos[q]) # Slot(pos[p])
  <2>1. /\ pos[q] \in Nat /\ pos[q] < head /\ tail <= pos[q]
        /\ pos[q] # pos[p]
    BY <1>0, <1>3 DEF IInv, ProducerInv, Writing, Threads
  <2>2. head <= pos[q] + Capacity
    BY <1>0, <2>1
  <2> QED BY <1>2, <2>1, <2>2
<1>4. ASSUME NEW c \in Reading, head <= pos[c] + Capacity
      PROVE  Slot(pos[c]) # Slot(pos[p])
  <2>1. pos[c] \in Nat /\ pos[c] < tail
    BY <1>0 DEF IInv, ConsumerInv, Reading, Threads
  <2>2. pos[c] < head /\ pos[c] # pos[p]
    BY <1>0, <1>1, <2>1
  <2> QED BY <1>2, <1>4, <2>1, <2>2
<1> QED BY <1>1, <1>2, <1>3, <1>4

\* Writing the first or the second half of the data.
LEMMA PushDataStep ==
    ASSUME IInv, NEW p \in Producers, PushLo(p) \/ PushHi(p)
    PROVE  IInv'
<1>0. /\ p \in Threads /\ p \in Writing /\ pos[p] \in Int
      /\ UNCHANGED <<head, tail, closed, sequence, pos, got, pushed>>
      /\ \E l \in {"hi", "publish"} : pc' = [pc EXCEPT ![p] = l]
  BY DEF PushLo, PushHi, Goto, Writing, Threads, IInv, TypeOK
<1>1. TypeOK'
  <2>1. lo' \in [Slots -> Int] /\ hi' \in [Slots -> Int]
    BY <1>0 DEF PushLo, PushHi, IInv, TypeOK
  <2> QED BY <1>0, <2>1 DEF IInv, TypeOK, PC
<1>2. /\ \A t \in Threads : t # p => pc'[t] = pc[t]
      /\ Writing' = Writing /\ Reading' = Reading
  BY <1>0, RingAssumption DEF IInv, TypeOK, Writing, Reading, Threads
<1>3. \A i \in Slots : i # Slot(pos[p]) => lo'[i] = lo[i] /\ hi'[i] = hi[i]
  BY DEF PushLo, PushHi, IInv, TypeOK
<1>4. SlotInv'
  <2>1. ASSUME NEW n \in Nat, n < head, head <= n + Capacity,
               sequence[Slot(n)] = n + 1
        PROVE  lo'[Slot(n)] = n /\ hi'[Slot(n)] = n
    <3>1. n # pos[p]
      BY <1>0, <2>1 DEF IInv, ProducerInv
    <3>2. Slot(n) \in Slots /\ Slot(n) # Slot(pos[p])
      BY <1>0, <2>1, <3>1, OwnSlot, SlotType
    <3> QED BY <1>3, <2>1, <3>2 DEF IInv, SlotInv
  <2> QED BY <1>0, <2>1 DEF IInv, SlotInv
<1>5. ProducerInv'
  <2>1. ASSUME NEW q \in Writing, q # p
        PROVE  /\ Slot(pos[q]) \in Slots /\ Slot(pos[q]) # Slot(pos[p])
               /\ pc'[q] = pc[q]
    BY <1>0, <1>2, <2>1, OwnSlot DEF Writing, Threads
  <2>2. /\ pc'[p] \in {"hi", "publish"} => lo'[Slot(pos[p])] = pos[p]
        /\ pc'[p] = "publish" => hi'[Slot(pos[p])] = pos[p]
        /\ pc'[p] # "cas"
    BY <1>0, OwnSlot DEF PushLo, PushHi, Goto, IInv, TypeOK, ProducerInv
  <2>3. \A q \in Producers : pc'[q] = "cas" => pc[q] = "cas"
    BY <1>2, <2>2 DEF Threads
  <2> QED BY <1>0, <1>2, <1>3, <2>1, <2>2, <2>3 DEF IInv, ProducerInv
<1>6. ConsumerInv'
  <2>1. \A c \in Consumers : pc'[c] = pc[c]
    BY <1>2, RingAssumption DEF Threads
  <2> QED BY <1>0, <1>2, <2>1 DEF IInv, ConsumerInv, Reading
<1> QED BY <1>0, <1>1, <1>4, <1>5, <1>6 DEF IInv, Bounded

\* Publishing a position whose data is complete.
LEMMA PushPublishStep ==
    ASSUME IInv, NEW p \in Producers, PushPublish(p)
    PROVE  IInv'
<1> USE DEF PushPublish, Goto
<1>0. /\ head \in Nat /\ tail \in Nat /\ Capacity \in Nat
      /\ p \in Threads /\ p \in Writing /\ p \notin Consumers
      /\ pos[p] \in Nat /\ Slot(pos[p]) \in Slots
      /\ tail <= pos[p] /\ pos[p] < head /\ head <= tail + Capacity
  BY RingAssumption, OwnSlot
     DEF Writing, Threads, IInv, TypeOK, ProducerInv, Bounded
<1>1. TypeOK'
  <2>1. pushed[p] + 1 \in Nat /\ pos[p] + 1 \in Nat
    BY <1>0 DEF IInv, TypeOK
  <2> QED BY <1>0, <2>1 DEF IInv, TypeOK, PC
<1>2. /\ \A t \in Threads : t # p => pc'[t] = pc[t]
      /\ pc'[p] = "idle"
      /\ Writing' = Writing \ {p} /\ Reading' = Reading
  BY <1>0, RingAssumption DEF IInv, TypeOK, Writing, Reading, Threads
<1>3. /\ \A i \in Slots : i # Slot(pos[p]) => sequence'[i] = sequence[i]
      /\ sequence'[Slot(pos[p])] = pos[p] + 1
  BY <1>0 DEF IInv, TypeOK
<1>4. SlotInv'
  <2>1. \A i \in Slots : sequence'[i] <= head
    BY <1>0, <1>3 DEF IInv, SlotInv
  <2>2. ASSUME NEW n \in Nat, n < head, head <= n + Capacity,
               sequence'[Slot(n)] = n + 1
        PROVE  lo[Slot(n)] = n /\ hi[Slot(n)] = n
    <3>1. CASE n = pos[p]
      BY <1>0, <3>1 DEF IInv, ProducerInv
    <3>2. CASE n # pos[p]
      <4>1. Slot(n) \in Slots /\ Slot(n) # Slot(pos[p])
        BY <1>0, <2>2, <3>2, OwnSlot, SlotType
      <4> QED BY <1>3, <2>2, <4>1 DEF IInv, SlotInv
    <3> QED BY <3>1, <3>2
  <2> QED BY <2>1, <2>2 DEF SlotInv
<1>5. ProducerInv'
  <2>1. ASSUME NEW q \in Writing, q # p
        PROVE  /\ Slot(pos[q]) \in Slots /\ Slot(pos[q]) # Slot(pos[p])
               /\ pc'[q] = pc[q]
    BY <1>0, <1>2, <2>1, OwnSlot DEF Writing, Threads
  <2>2. \A q \in Producers : pc'[q] = "cas" => pc[q] = "cas"
    BY <1>2 DEF Threads
  <2> QED BY <1>2, <1>3, <2>1, <2>2 DEF IInv, ProducerInv
<1>6. ConsumerInv'
  <2>1. \A c \in Consumers : pc'[c] = pc[c] /\ pos'[c] = pos[c]
    BY <1>0, <1>2, RingAssumption DEF Threads
  <2>2. ASSUME tail < head, sequence[Slot(tail)] = tail + 1
        PROVE  sequence'[Slot(tail)] = tail + 1
    <3>1. CASE tail = pos[p]
      BY <1>3, <3>1
    <3>2. CASE tail # pos[p]
      BY <1>0, <1>3, <2>2, <3>2, OwnSlot, SlotType
    <3> QED BY <3>1, <3>2
  <2>3. ASSUME NEW c \in Reading, head <= pos[c] + Capacity
        PROVE  sequence'[Slot(pos[c])] = sequence[Slot(pos[c])]
    <3>1. Slot(pos[c]) \in Slots
      BY SlotType DEF Reading, Threads, IInv, TypeOK
    <3> QED BY <1>0, <1>3, <2>3, <3>1, OwnSlot
  <2> QED BY <1>2, <2>1, <2>2, <2>3 DEF IInv, ConsumerInv, Reading
<1> QED BY <1>1, <1>4, <1>5, <1>6 DEF IInv, Bounded

\* Taking a position: it was published, and the reader keeps its element.
LEMMA PopCasStep ==
    ASSUME IInv, NEW c \in Consumers, PopCas(c)
    PROVE  IInv'
<1> USE DEF PopCas, Goto, data
<1>0. /\ head \in Nat /\ tail \in Nat /\ Capacity \in Nat /\ Capacity > 0
      /\ c \in Threads /\ c \notin Producers
      /\ tail < head /\ sequence[Slot(tail)] = tail + 1
  BY RingAssumption DEF IInv, TypeOK, ConsumerInv, Threads
<1>1. TypeOK'
  BY <1>0 DEF IInv, TypeOK, PC
<1>2. /\ \A t \in Threads : t # c => pc'[t] = pc[t]
      /\ pc'[c] = "lo" /\ pos[c] = tail /\ pos' = pos
      /\ Writing' = Writing /\ Reading' = Reading \cup {c}
  BY <1>0, RingAssumption DEF IInv, TypeOK, Writing, Reading, Threads
<1>3. Bounded'
  BY <1>0 DEF IInv, Bounded
<1>4. SlotInv'
  BY DEF IInv, SlotInv
<1>5. ProducerInv'
  <2>1. \A p \in Producers : p \in Threads /\ p # c /\ pos[p] \in Nat
    BY <1>0 DEF Threads, IInv, TypeOK
  <2>2. ASSUME NEW p \in Writing PROVE tail + 1 <= pos[p]
    <3>1. pos[p] \in Nat /\ tail <= pos[p] /\ pos[p] # tail
      BY <1>0, <2>1 DEF IInv, ProducerInv, Writing
    <3> QED BY <1>0, <3>1
  <2> QED BY <1>0, <1>2, <2>1, <2>2 DEF IInv, ProducerInv, Writing
<1>6. ConsumerInv'
  <2>1. \A d \in Consumers : d \in Threads /\ pos[d] \in Nat /\ pos[d] <= tail
    BY DEF Threads, IInv, TypeOK, ConsumerInv
  <2> QED BY <1>0, <1>2, <2>1 DEF IInv, ConsumerInv, Reading
<1> QED BY <1>1, <1>3, <1>4, <1>5, <1>6 DEF IInv

\* Copying the element out.
LEMMA PopDataStep ==
    ASSUME IInv, NEW c \in Consumers, PopLo(c) \/ PopHi(c)
    PROVE  IInv'
<1>0. /\ c \in Threads /\ c \notin Producers /\ c \in Reading
      /\ pos[c] \in Nat /\ pos[c] < tail /\ tail <= head
      /\ head \in Nat /\ tail \in Nat /\ Capacity \in Nat
      /\ UNCHANGED <<head, tail, closed, sequence, lo, hi, pos, pushed>>
      /\ \E l \in {"hi", "idle"} : pc' = [pc EXCEPT ![c] = l]
  BY RingAssumption DEF PopLo, PopHi, Goto, data, Reading, Threads, IInv,
     TypeOK, ConsumerInv, Bounded
<1>1. TypeOK'
  <2>1. got' \in [Consumers -> Int]
    <3>1. Default \in Int /\ lo[Slot(pos[c])] \in Int
      BY <1>0, SlotType DEF Default, IInv, TypeOK
    <3> QED BY <3>1 DEF PopLo, PopHi, IInv, TypeOK
  <2> QED BY <1>0, <2>1 DEF IInv, TypeOK, PC
<1>2. /\ \A t \in Threads : t # c => pc'[t] = pc[t]
      /\ \A d \in Consumers : d # c => got'[d] = got[d]
      /\ Writing' = Writing
      /\ Reading' \subseteq Reading /\ Reading' \ {c} = Reading \ {c}
  BY <1>0, RingAssumption
     DEF PopLo, PopHi, IInv, TypeOK, Writing, Reading, Threads
<1>3. ASSUME head <= pos[c] + Capacity, pc'[c] = "hi"
      PROVE  got'[c] = pos[c]
  <2>1. sequence[Slot(pos[c])] = pos[c] + 1 /\ pos[c] < head
    BY <1>0, <1>3 DEF IInv, ConsumerInv
  <2>2. lo[Slot(pos[c])] = pos[c]
    BY <1>0, <1>3, <2>1 DEF IInv, SlotInv
  <2>3. PopLo(c)
    BY <1>0, <1>3 DEF PopHi, Goto, IInv, TypeOK
  <2> QED BY <2>2, <2>3 DEF PopLo, IInv, TypeOK
<1>4. ProducerInv'
  <2>1. \A p \in Producers : pc'[p] = pc[p]
    BY <1>0, <1>2 DEF Threads
  <2> QED BY <1>0, <1>2, <2>1 DEF IInv, ProducerInv, Writing
<1>5. ConsumerInv'
  <2>1. pc'[c] \in {"hi", "idle"}
    BY <1>0 DEF IInv, TypeOK
  <2>2. \A d \in Consumers : d # c => pc'[d] = pc[d]
    BY <1>2 DEF Threads
  <2> QED BY <1>0, <1>2, <1>3, <2>1, <2>2 DEF IInv, ConsumerInv, Reading
<1> QED BY <1>0, <1>1, <1>4, <1>5 DEF IInv, Bounded, SlotInv

\* The invariant is inductive.
LEMMA InvInductive == IInv /\ [Next]_vars => IInv'
<1> SUFFICES ASSUME IInv, [Next]_vars PROVE IInv'
  OBVIOUS
<1>1. ASSUME NEW p \in Producers, Push(p) PROVE IInv'
  BY <1>1, LocalSteps, PushCasStep, PushDataStep, PushPublishStep
     DEF Push, Threads
<1>2. ASSUME NEW c \in Consumers, Pop(c) PROVE IInv'
  BY <1>2, LocalSteps, PopCasStep, PopDataStep DEF Pop, Threads
<1>3. CASE close \/ UNCHANGED vars
  <2>1. UNCHANGED <<head, tail, sequence, lo, hi, pc, pos, got, pushed>>
        /\ closed' \in BOOLEAN
    BY <1>3 DEF close, vars, data, IInv, TypeOK
  <2> QED BY <2>1 DEF IInv, TypeOK, Bounded, ProducerInv, ConsumerInv,
           SlotInv, Writing, Reading
<1> QED BY <1>1, <1>2, <1>3 DEF Next

\* The invariant holds in every state of every behaviour.
LEMMA InvHolds == Spec => []IInv
BY InitInv, InvInductive, PTL DEF Spec

-----------------------------------------------------------------------------
\* Types, and copies of head and tail that never run ahead of head.
THEOREM RingTypeOK == Spec => []TypeOK
<1>1. IInv => TypeOK
  BY DEF IInv
<1> QED BY <1>1, InvHolds, PTL

\* push() and pop() of shm_ring.rs never leave more than RING_CAPACITY
\* elements between tail and head.
THEOREM RingBounded == Spec => []Bounded
<1>1. IInv => Bounded
  BY DEF IInv
<1> QED BY <1>1, InvHolds, PTL

\* No two push() calls of shm_ring.rs write one slot at the same time.
THEOREM RingSlotExclusive == Spec => []SlotExclusive
<1>1. IInv => SlotExclusive
  BY OwnSlot DEF SlotExclusive
<1> QED BY <1>1, InvHolds, PTL

\* pop() of shm_ring.rs copies out the element of its own position unless the
\* ring has been refilled past it since the CAS.
THEOREM RingReadsItsElement == Spec => []ReadsItsElement
<1>1. IInv => ReadsItsElement
  <2> SUFFICES ASSUME IInv, NEW c \in Reading, head <= pos[c] + Capacity
               PROVE  /\ hi[Slot(pos[c])] = pos[c]
                      /\ IF pc[c] = "lo" THEN lo[Slot(pos[c])] = pos[c]
                                         ELSE got[c] = pos[c]
    BY DEF ReadsItsElement
  <2>1. /\ pos[c] \in Nat /\ pos[c] < head
        /\ sequence[Slot(pos[c])] = pos[c] + 1
        /\ pc[c] = "hi" => got[c] = pos[c]
        /\ pc[c] \in {"lo", "hi"}
    BY DEF IInv, TypeOK, Bounded, ConsumerInv, Reading, Threads
  <2> QED BY <2>1 DEF IInv, SlotInv
<1> QED BY <1>1, InvHolds, PTL

\* The ring of shm_ring.rs is a queue of positions: every position is taken
\* once, in order, and only after it was published.
THEOREM RingImplementsQueue == Spec => QueueSpec
<1> USE DEF QueueSpec
<1>1. Init => Queue!QInit
  BY DEF Init, Queue!QInit, Ready
<1>2. IInv /\ [Next]_vars => [Queue!QNext]_(Queue!qvars)
  <2> SUFFICES ASSUME IInv, [Next]_vars
               PROVE  Queue!QNext \/ UNCHANGED Queue!qvars
    OBVIOUS
  <2>0. /\ head \in Nat /\ tail \in Nat /\ Capacity \in Nat
        /\ tail <= head /\ head <= tail + Capacity
    BY RingAssumption DEF IInv, TypeOK, Bounded
  <2>1. CASE UNCHANGED <<head, tail, sequence>>
    BY <2>1 DEF Queue!qvars, Ready
  <2>2. ASSUME NEW p \in Producers, PushCas(p)
        PROVE  Queue!Reserve
    <3>1. head - tail < Capacity /\ head' = head + 1
          /\ UNCHANGED <<tail, sequence>>
      BY <2>2 DEF PushCas, data, IInv, ProducerInv
    <3>2. sequence[Slot(head)] # head + 1
      BY <2>0, SlotType DEF IInv, SlotInv, TypeOK
    <3>3. Ready' = Ready
      <4>1. Ready' = {n \in tail .. head : sequence[Slot(n)] = n + 1}
        BY <2>0, <3>1 DEF Ready
      <4> QED BY <2>0, <3>2, <4>1 DEF Ready
    <3> QED BY <3>1, <3>3 DEF Queue!Reserve
  <2>3. ASSUME NEW p \in Producers, PushPublish(p)
        PROVE  Queue!Commit
    <3>1. p \in Writing
      BY <2>3 DEF PushPublish, Writing
    <3>2. /\ pos[p] \in tail .. head - 1 /\ pos[p] \notin Ready
          /\ Slot(pos[p]) \in Slots
      BY <2>0, <3>1, OwnSlot DEF IInv, ProducerInv, Ready
    <3>3. /\ UNCHANGED <<head, tail>>
          /\ sequence' = [sequence EXCEPT ![Slot(pos[p])] = pos[p] + 1]
      BY <2>3 DEF PushPublish
    <3>4. ASSUME NEW n \in tail .. head - 1, n # pos[p]
          PROVE  sequence'[Slot(n)] = sequence[Slot(n)]
      <4>1. n \in Nat /\ n < head /\ head <= n + Capacity
        BY <2>0, <3>4
      <4>2. Slot(n) # Slot(pos[p]) /\ Slot(n) \in Slots
        BY <3>1, <3>4, <4>1, OwnSlot, SlotType
      <4> QED BY <3>3, <4>2 DEF IInv, TypeOK
    <3>5. sequence'[Slot(pos[p])] = pos[p] + 1
      BY <3>2, <3>3 DEF IInv, TypeOK
    <3>6. Ready' = Ready \cup {pos[p]}
      <4>1. Ready' = {n \in tail .. head - 1 : sequence'[Slot(n)] = n + 1}
        BY <3>3 DEF Ready
      <4> QED BY <3>2, <3>4, <3>5, <4>1 DEF Ready
    <3> QED BY <3>2, <3>3, <3>6 DEF Queue!Commit
  <2>4. ASSUME NEW c \in Consumers, PopCas(c)
        PROVE  Queue!Take
    <3>1. tail < head /\ sequence[Slot(tail)] = tail + 1
      BY <2>4 DEF PopCas, IInv, ConsumerInv
    <3>2. tail' = tail + 1 /\ UNCHANGED <<head, sequence>>
      BY <2>4 DEF PopCas, data
    <3>3. Ready' = Ready \ {tail}
      BY <2>0, <3>2 DEF Ready
    <3> QED BY <2>0, <3>1, <3>2, <3>3 DEF Queue!Take, Ready
  <2>5. ASSUME NEW p \in Producers, Push(p)
        PROVE  Queue!QNext \/ UNCHANGED Queue!qvars
    BY <2>1, <2>2, <2>3, <2>5 DEF Push, PushOpen, PushLoadHead, PushLoadTail,
       PushCasFails, PushLo, PushHi, data, Queue!QNext
  <2>6. ASSUME NEW c \in Consumers, Pop(c)
        PROVE  Queue!QNext \/ UNCHANGED Queue!qvars
    BY <2>1, <2>4, <2>6 DEF Pop, PopLoadTail, PopLoadHead, PopSequence,
       PopCasFails, PopLo, PopHi, data, Queue!QNext
  <2> QED BY <2>1, <2>5, <2>6 DEF Next, close, vars, data
<1> QED BY <1>1, <1>2, InvHolds, PTL DEF Spec, Queue!QSpec

-----------------------------------------------------------------------------
(* The disruptor.                                                           *)

\* Nothing claimed, published or let through reaches the next sequence; a
\* consumer reads up to what the barrier returned; a publication under way is
\* within the bound.
DRange ==
    /\ cursor < next_sequence
    /\ \A p \in Producers :
          /\ d_seq[p] < next_sequence /\ d_limit[p] < U64
          /\ d_pc[p] # "idle" => published[p] < MaxEvents
    /\ \A c \in Consumers :
          /\ d_limit[c] < next_sequence /\ d_seq[c] >= 1
          /\ d_pc[c] = "read" => d_seq[c] <= d_limit[c]

Exposing == {"count", "begin", "end", "store"}
Pending == {"begin", "end", "store", "sub"}

\* With its one producer: the others are idle, the cursor is one or two short
\* of the next sequence, the last lap up to the cursor is written, a consumer
\* is let through up to the cursor, and the count follows the producer.
DSingle ==
    /\ \A p \in Producers : p # SingleProducer => d_pc[p] = "idle"
    /\ IF d_pc[SingleProducer] \in Exposing
       THEN d_seq[SingleProducer] = cursor + 1 /\ next_sequence = cursor + 2
       ELSE next_sequence = cursor + 1
    /\ d_pc[SingleProducer] = "store" => event[D!Slot(cursor + 1)] = cursor + 1
    /\ \A n \in 1 .. cursor : next_sequence <= n + Size => event[D!Slot(n)] = n
    /\ \A c \in Consumers : d_limit[c] <= cursor
    /\ pending_count = IF d_pc[SingleProducer] \in Pending THEN 1 ELSE 0
    /\ d_pc[SingleProducer] = "restore" => d_limit[SingleProducer] = 1

DInv == D!TypeOK /\ DRange /\ D!ClaimsDistinct /\ (usage = "spmc" => DSingle)

LEMMA OneModulo ==
    ASSUME NEW c \in Nat, c > 1
    PROVE  1 % c = 1
<1> DEFINE q == 1 \div c
           m == 1 % c
<1>1. 1 = c * q + m /\ m \in 0 .. c - 1 /\ q \in Nat
  BY Division
<1> HIDE DEF q, m
<1>2. CASE q = 0
  <2>1. c * q = 0
    BY <1>2
  <2> QED BY <1>1, <2>1 DEF m
<1>3. CASE q >= 1
  <2>1. c * q >= c
    BY <1>1, <1>3, SMT
  <2>2. c * q \in Int
    BY <1>1
  <2> QED BY <1>1, <2>1, <2>2
<1> QED BY <1>1, <1>2, <1>3

\* The facts about the constants that the steps use.
LEMMA DConstants ==
    /\ Size \in Nat /\ Size > 0 /\ U64 \in Nat /\ U64 > 1 /\ MaxEvents \in Nat
    /\ SingleProducer \in Producers /\ D!Main \notin D!Threads
    /\ Producers \subseteq D!Threads /\ Consumers \subseteq D!Threads
    /\ Producers \cap Consumers = {}
BY DisruptorAssumption, RingAssumption DEF D!Main, D!Threads

LEMMA DSlots ==
    /\ \A n \in Nat : D!Slot(n) \in 0 .. Size - 1
    /\ \A a, b \in Nat : a < b /\ b < a + Size => D!Slot(a) # D!Slot(b)
BY DConstants, Division, RemaindersDiffer DEF D!Slot

\* The least of a set of naturals, which the barrier returns.
LEMMA DMin ==
    ASSUME NEW S \in SUBSET Nat, S # {}
    PROVE  D!Min(S) \in S /\ \A y \in S : D!Min(S) <= y
<1> DEFINE R == OpToRel(<, Nat)
<1>1. IsWellFoundedOn(R, Nat)
  BY NatLessThanWellFounded
<1>2. R = {ss \in Nat \X Nat : ss[1] < ss[2]}
  BY DEF OpToRel
<1> HIDE DEF R
<1>3. PICK x \in S : \A y \in S : ~ (<<y, x>> \in R)
  BY <1>1, WFMin
<1>4. ASSUME NEW y \in S PROVE x <= y
  <2>1. x \in Nat /\ y \in Nat
    OBVIOUS
  <2>2. y < x => <<y, x>> \in R
    BY <2>1, <1>2
  <2> QED BY <2>1, <2>2, <1>3
<1> QED BY <1>4 DEF D!Min

LEMMA DAvailable ==
    ASSUME DInv, NEW c \in Consumers
    PROVE  D!Available(c) \in Nat /\ D!Available(c) <= cursor
<1>1. cursor \in Nat
  BY DEF DInv, D!TypeOK
<1>2. {cursor} \cup Dependencies[c] \in SUBSET Nat
  BY <1>1 DEF Dependencies
<1>3. D!Min({cursor} \cup Dependencies[c]) \in Nat
         /\ D!Min({cursor} \cup Dependencies[c]) <= cursor
  BY <1>2, DMin
<1> QED BY <1>3 DEF D!Available

\* The disruptor as new() makes it.
LEMMA DInvInit == D!Init => DInv
<1> SUFFICES ASSUME D!Init PROVE DInv
  OBVIOUS
<1> USE DConstants DEF D!Init
<1>1. D!TypeOK
  <2>1. {running, sequencer_running, alerted} \subseteq BOOLEAN
    OBVIOUS
  <2>2. d_seq \in [D!Threads -> 0 .. next_sequence] /\ d_limit \in [D!Threads -> Nat]
    OBVIOUS
  <2>3. d_pc \in [D!Threads \cup {D!Main} -> D!PC]
    BY DEF D!PC
  <2> QED BY <2>1, <2>2, <2>3 DEF D!TypeOK
<1>2. \A p \in Producers : d_pc[p] = "idle" /\ d_seq[p] = 0 /\ d_limit[p] = 0
  OBVIOUS
<1>3. \A c \in Consumers : d_pc[c] = "idle" /\ d_seq[c] = 1 /\ d_limit[c] = 0
  OBVIOUS
<1>4. DRange
  BY <1>2, <1>3 DEF DRange
<1>5. D!ClaimsDistinct
  BY <1>2 DEF D!ClaimsDistinct, D!Claimed
<1>6. DSingle
  BY <1>2, <1>3 DEF DSingle, Exposing, Pending
<1> QED BY <1>1, <1>4, <1>5, <1>6 DEF DInv

\* start(), stop() and alert().
LEMMA DOwn ==
    ASSUME DInv, D!Own, usage' = usage
    PROVE  DInv'
<1> USE DEF DInv, D!TypeOK
<1>1. UNCHANGED <<cursor, next_sequence, pending_count, total_published, event, d_seq, d_limit,
                  published>>
  BY DEF D!Own, D!Start, D!SequencerStart, D!Stop, D!SequencerStop, D!Alert, D!seqVars
<1>2. d_pc' \in [D!Threads \cup {D!Main} -> D!PC] /\ \A t \in D!Threads : d_pc'[t] = d_pc[t]
  BY DConstants DEF D!Own, D!Start, D!SequencerStart, D!Stop, D!SequencerStop, D!Alert, D!Goto,
     D!PC
<1>3. running' \in BOOLEAN /\ sequencer_running' \in BOOLEAN /\ alerted' \in BOOLEAN
  BY DEF D!Own, D!Start, D!SequencerStart, D!Stop, D!SequencerStop, D!Alert
<1>4. {running, sequencer_running, alerted}' \subseteq BOOLEAN
  BY <1>3
<1>5. D!TypeOK'
  BY <1>1, <1>2, <1>4
<1>6. \A t \in Producers \cup Consumers : d_pc'[t] = d_pc[t]
  BY <1>2 DEF D!Threads
<1>7. DRange'
  BY <1>1, <1>6 DEF DRange
<1>8. D!ClaimsDistinct'
  BY <1>1, <1>6 DEF D!ClaimsDistinct, D!Claimed
<1>9. DSingle => DSingle'
  BY <1>1, <1>6, DConstants DEF DSingle, Exposing, Pending
<1> QED BY <1>5, <1>7, <1>8, <1>9

\* A consumer at the barrier, and reading.
LEMMA DConsume ==
    ASSUME DInv, NEW c \in Consumers, D!Consume(c), usage' = usage
    PROVE  DInv'
<1> USE DEF DInv, D!TypeOK
<1>1. /\ UNCHANGED <<cursor, next_sequence, pending_count, total_published, running,
                     sequencer_running, alerted, event, published>>
      /\ \A t \in D!Threads : t # c =>
            d_pc'[t] = d_pc[t] /\ d_seq'[t] = d_seq[t] /\ d_limit'[t] = d_limit[t]
  BY DConstants DEF D!Consume, D!WaitAlert, D!WaitCursor, D!Read, D!seqVars, D!flags, D!Goto
<1>2. /\ d_pc' \in [D!Threads \cup {D!Main} -> D!PC]
      /\ d_limit' \in [D!Threads -> Nat] /\ d_limit'[c] < next_sequence
      /\ d_limit'[c] \in {d_limit[c]} \cup 0 .. cursor
      /\ d_seq' \in [D!Threads -> 0 .. next_sequence] /\ d_seq'[c] >= 1
      /\ d_pc'[c] = "read" => d_seq'[c] <= d_limit'[c]
  <2>1. /\ c \in D!Threads /\ d_seq[c] \in Nat /\ d_limit[c] \in Nat /\ cursor \in Nat
        /\ next_sequence \in Nat /\ d_seq[c] >= 1 /\ d_limit[c] < next_sequence
        /\ cursor < next_sequence /\ d_seq[c] <= next_sequence
        /\ d_pc[c] = "read" => d_seq[c] <= d_limit[c]
    BY DConstants DEF DRange
  <2>2. CASE D!WaitAlert(c)
    BY <2>1, <2>2 DEF D!WaitAlert, D!Goto, D!PC
  <2>3. CASE D!WaitCursor(c)
    <3> DEFINE a == D!Available(c)
    <3>1. a \in Nat /\ a <= cursor
      BY DAvailable
    <3>2. /\ d_limit' = [d_limit EXCEPT ![c] = a]
          /\ d_pc' = [d_pc EXCEPT ![c] = IF a >= d_seq[c] THEN "read" ELSE "idle"]
          /\ d_seq' = d_seq
      BY <2>3 DEF D!WaitCursor, D!Goto
    <3> HIDE DEF a
    <3> QED BY <2>1, <3>1, <3>2 DEF D!PC
  <2>4. CASE D!Read(c)
    BY <2>1, <2>4 DEF D!Read, D!Goto, D!PC
  <2> QED BY <2>2, <2>3, <2>4 DEF D!Consume
<1>3. D!TypeOK'
  BY <1>1, <1>2
<1>4. \A p \in Producers :
         d_pc'[p] = d_pc[p] /\ d_seq'[p] = d_seq[p] /\ d_limit'[p] = d_limit[p]
  BY <1>1, DConstants
<1>5. \A d \in Consumers : d # c =>
         d_pc'[d] = d_pc[d] /\ d_seq'[d] = d_seq[d] /\ d_limit'[d] = d_limit[d]
  BY <1>1, DConstants
<1>6. DRange'
  BY <1>1, <1>2, <1>4, <1>5 DEF DRange
<1>7. D!ClaimsDistinct'
  BY <1>1, <1>4 DEF D!ClaimsDistinct, D!Claimed
<1>8. ASSUME DSingle PROVE DSingle'
  <2>1. d_limit'[c] <= cursor
    BY <1>2, <1>8 DEF DSingle
  <2>2. \A d \in Consumers : d_limit'[d] <= cursor
    BY <1>5, <1>8, <2>1 DEF DSingle
  <2> QED BY <1>1, <1>4, <1>8, <2>2, DConstants DEF DSingle, Exposing, Pending
<1> QED BY <1>3, <1>6, <1>7, <1>8

\* The tests before a claim: the producer's place only.
LEMMA DTests ==
    ASSUME DInv, NEW p \in Producers, D!Call(p) \/ D!TryNextCheck(p) \/ D!NextCheck(p),
           usage' = usage, usage = "spmc" => p = SingleProducer
    PROVE  DInv'
<1> USE DEF DInv, D!TypeOK
<1>1. /\ UNCHANGED <<cursor, next_sequence, pending_count, total_published, running,
                     sequencer_running, alerted, event, d_seq, d_limit, published>>
      /\ d_pc[p] \in {"idle", "check", "claim"}
      /\ \E l \in {"idle", "check", "claim", "running"} : d_pc' = [d_pc EXCEPT ![p] = l]
      /\ published[p] < MaxEvents
  BY DEF D!Call, D!TryNextCheck, D!NextCheck, D!seqVars, D!flags, D!Goto, DRange
<1>2. p \in D!Threads
  BY DConstants
<1>3. D!TypeOK'
  BY <1>1, <1>2 DEF D!PC
<1>4. /\ d_pc'[p] \in {"idle", "check", "claim", "running"}
      /\ \A t \in Producers \cup Consumers : t # p => d_pc'[t] = d_pc[t]
  BY <1>1, <1>2, DConstants
<1>5. DRange'
  BY <1>1, <1>4, DConstants DEF DRange
<1>6. D!ClaimsDistinct'
  BY <1>1, <1>4 DEF D!ClaimsDistinct, D!Claimed
<1>7. ASSUME usage = "spmc" PROVE DSingle'
  BY <1>1, <1>4, <1>7, DConstants DEF DSingle, Exposing, Pending
<1> QED BY <1>3, <1>5, <1>6, <1>7

\* fetch_add() on next_sequence.
LEMMA DClaim ==
    ASSUME DInv, NEW p \in Producers, D!Claim(p),
           usage' = usage, usage = "spmc" => p = SingleProducer
    PROVE  DInv'
<1> USE DEF DInv, D!TypeOK
<1>1. /\ d_pc[p] = "running" /\ d_pc' = [d_pc EXCEPT ![p] = "count"]
      /\ d_seq' = [d_seq EXCEPT ![p] = next_sequence] /\ next_sequence' = next_sequence + 1
      /\ UNCHANGED <<cursor, pending_count, total_published, running, sequencer_running,
                     alerted, event, d_limit, published>>
  BY DEF D!Claim, D!Goto, D!flags
<1>2. p \in D!Threads
  BY DConstants
<1>3. D!TypeOK'
  <2>1. d_seq' \in [D!Threads -> 0 .. next_sequence']
    BY <1>1, <1>2
  <2> QED BY <1>1, <1>2, <2>1 DEF D!PC
<1>4. /\ d_pc'[p] = "count" /\ d_seq'[p] = next_sequence
      /\ \A t \in Producers \cup Consumers : t # p =>
            d_pc'[t] = d_pc[t] /\ d_seq'[t] = d_seq[t]
  BY <1>1, <1>2, DConstants
<1>5. \A t \in Producers \cup Consumers : d_seq[t] \in Nat /\ d_limit[t] \in Nat
  BY DConstants
<1>6. DRange'
  <2>1. cursor < next_sequence' /\ next_sequence < next_sequence'
    BY <1>1 DEF DRange
  <2>2. ASSUME NEW q \in Producers
        PROVE  /\ d_seq'[q] < next_sequence' /\ d_limit'[q] < U64
               /\ d_pc'[q] # "idle" => published'[q] < MaxEvents
    BY <1>1, <1>4, <1>5, <2>1 DEF DRange
  <2>3. ASSUME NEW c \in Consumers
        PROVE  /\ d_limit'[c] < next_sequence' /\ d_seq'[c] >= 1
               /\ d_pc'[c] = "read" => d_seq'[c] <= d_limit'[c]
    BY <1>1, <1>4, <1>5, <2>1, DConstants, SMTT(30) DEF DRange
  <2> QED BY <1>1, <2>1, <2>2, <2>3 DEF DRange
<1>7. D!ClaimsDistinct'
  <2>1. ASSUME NEW q \in Producers, NEW r \in Producers, q # r,
               q \in D!Claimed', r \in D!Claimed'
        PROVE  d_seq'[q] # d_seq'[r]
    <3>1. d_seq[q] < next_sequence /\ d_seq[r] < next_sequence
      BY DEF DRange
    <3>2. CASE q # p /\ r # p
      BY <2>1, <1>4, <3>2 DEF D!ClaimsDistinct, D!Claimed
    <3>3. CASE q = p \/ r = p
      BY <2>1, <1>4, <1>5, <3>1, <3>3
    <3> QED BY <3>2, <3>3
  <2> QED BY <2>1 DEF D!ClaimsDistinct, D!Claimed
<1>8. ASSUME usage = "spmc" PROVE DSingle'
  BY <1>1, <1>4, <1>8, DConstants, SMTT(30) DEF DSingle, Exposing, Pending
<1> QED BY <1>3, <1>6, <1>7, <1>8

\* The steps of a publication that write no event and claim nothing.
LEMMA DCounts ==
    ASSUME DInv, NEW p \in Producers,
           \/ D!CountPending(p) \/ D!StoreCursor(p) \/ D!SubPending(p)
           \/ D!RestorePending(p) \/ D!CountPublished(p),
           usage' = usage, usage = "spmc" => p = SingleProducer
    PROVE  DInv'
<1> USE DEF DInv, D!TypeOK
<1>0. /\ p \in D!Threads /\ d_seq[p] \in Nat /\ d_limit[p] \in Nat /\ pending_count \in Nat
      /\ cursor \in Nat /\ next_sequence \in Nat /\ published[p] \in Nat
  BY DConstants
<1>a. /\ d_seq[p] < next_sequence /\ d_limit[p] < U64
      /\ d_pc[p] # "idle" => published[p] < MaxEvents
  BY DEF DRange
<1>1. CASE D!CountPending(p)
  <2>1. /\ d_pc[p] = "count" /\ d_pc' = [d_pc EXCEPT ![p] = "begin"]
        /\ pending_count' = (pending_count + 1) % U64
        /\ UNCHANGED <<cursor, next_sequence, total_published, running, sequencer_running,
                       alerted, event, d_seq, d_limit, published>>
    BY <1>1 DEF D!CountPending, D!Goto, D!flags
  <2>2. pending_count' \in 0 .. U64 - 1 /\ (pending_count = 0 => pending_count' = 1)
    <3>1. pending_count' \in 0 .. U64 - 1
      BY <2>1, <1>0, DConstants, Division
    <3>2. 1 % U64 = 1
      BY DConstants, OneModulo
    <3>3. pending_count = 0 => pending_count + 1 = 1
      OBVIOUS
    <3> QED BY <2>1, <3>1, <3>2, <3>3
  <2>3. D!TypeOK'
    BY <1>0, <2>1, <2>2 DEF D!PC
  <2>4. /\ d_pc'[p] = "begin"
        /\ \A t \in Producers \cup Consumers : t # p => d_pc'[t] = d_pc[t]
    BY <1>0, <2>1, DConstants
  <2>5. DRange'
    BY <1>a, <2>1, <2>4, DConstants DEF DRange
  <2>6. D!ClaimsDistinct'
    BY <2>1, <2>4 DEF D!ClaimsDistinct, D!Claimed
  <2>7. ASSUME usage = "spmc" PROVE DSingle'
    BY <2>1, <2>2, <2>4, <2>7, DConstants DEF DSingle, Exposing, Pending
  <2> QED BY <2>3, <2>5, <2>6, <2>7
<1>2. CASE D!StoreCursor(p)
  <2>1. /\ d_pc[p] = "store" /\ d_pc' = [d_pc EXCEPT ![p] = "sub"] /\ cursor' = d_seq[p]
        /\ UNCHANGED <<next_sequence, pending_count, total_published, running,
                       sequencer_running, alerted, event, d_seq, d_limit, published>>
    BY <1>2 DEF D!StoreCursor, D!Goto, D!flags
  <2>3. D!TypeOK'
    BY <1>0, <2>1 DEF D!PC
  <2>4. /\ d_pc'[p] = "sub"
        /\ \A t \in Producers \cup Consumers : t # p => d_pc'[t] = d_pc[t]
    BY <1>0, <2>1, DConstants
  <2>5. DRange'
    BY <1>a, <2>1, <2>4, DConstants DEF DRange
  <2>6. D!ClaimsDistinct'
    BY <2>1, <2>4 DEF D!ClaimsDistinct, D!Claimed
  <2>7. ASSUME usage = "spmc" PROVE DSingle'
    <3>1. cursor' = cursor + 1 /\ next_sequence' = cursor' + 1 /\ pending_count' = 1
             /\ event'[D!Slot(cursor')] = cursor'
      BY <2>1, <2>7 DEF DSingle, Exposing, Pending
    <3>2. \A c \in Consumers : d_limit'[c] <= cursor'
      BY <1>0, <2>1, <2>7, <3>1, DConstants DEF DSingle
    <3>3. \A n \in 1 .. cursor' : next_sequence' <= n + Size => event'[D!Slot(n)] = n
      BY <1>0, <2>1, <2>7, <3>1 DEF DSingle
    <3> QED BY <2>1, <2>4, <2>7, <3>1, <3>2, <3>3, DConstants DEF DSingle, Exposing, Pending
  <2> QED BY <2>3, <2>5, <2>6, <2>7
<1>3. CASE D!SubPending(p)
  <2>1. /\ d_pc[p] = "sub" /\ d_pc' = [d_pc EXCEPT ![p] = "restore"]
        /\ d_limit' = [d_limit EXCEPT ![p] = pending_count]
        /\ pending_count' = (pending_count + U64 - 1) % U64
        /\ UNCHANGED <<cursor, next_sequence, total_published, running, sequencer_running,
                       alerted, event, d_seq, published>>
    BY <1>3 DEF D!SubPending, D!Goto, D!flags
  <2>2. pending_count' \in 0 .. U64 - 1 /\ (pending_count = 1 => pending_count' = 0)
    BY <2>1, <1>0, DConstants
  <2>8. pending_count < U64
    BY DConstants
  <2>3. D!TypeOK'
    BY <1>0, <2>1, <2>2 DEF D!PC
  <2>4. /\ d_pc'[p] = "restore" /\ d_limit'[p] = pending_count
        /\ \A t \in Producers \cup Consumers : t # p =>
              d_pc'[t] = d_pc[t] /\ d_limit'[t] = d_limit[t]
    BY <1>0, <2>1, DConstants
  <2>5. DRange'
    BY <1>a, <2>1, <2>4, <2>8, DConstants DEF DRange
  <2>6. D!ClaimsDistinct'
    BY <2>1, <2>4 DEF D!ClaimsDistinct, D!Claimed
  <2>7. ASSUME usage = "spmc" PROVE DSingle'
    BY <2>1, <2>2, <2>4, <2>7, DConstants DEF DSingle, Exposing, Pending
  <2> QED BY <2>3, <2>5, <2>6, <2>7
<1>4. CASE D!RestorePending(p)
  <2>1. /\ d_pc[p] = "restore" /\ d_pc' = [d_pc EXCEPT ![p] = "total"]
        /\ pending_count' = IF d_limit[p] > 0 THEN d_limit[p] - 1 ELSE pending_count
        /\ UNCHANGED <<cursor, next_sequence, total_published, running, sequencer_running,
                       alerted, event, d_seq, d_limit, published>>
    BY <1>4 DEF D!RestorePending, D!Goto, D!flags
  <2>2. pending_count' \in 0 .. U64 - 1
    BY <2>1, <1>0, <1>a, DConstants, SMTT(30)
  <2>3. D!TypeOK'
    BY <1>0, <2>1, <2>2 DEF D!PC
  <2>4. /\ d_pc'[p] = "total"
        /\ \A t \in Producers \cup Consumers : t # p => d_pc'[t] = d_pc[t]
    BY <1>0, <2>1, DConstants
  <2>5. DRange'
    BY <1>a, <2>1, <2>4, DConstants DEF DRange
  <2>6. D!ClaimsDistinct'
    BY <2>1, <2>4 DEF D!ClaimsDistinct, D!Claimed
  <2>7. ASSUME usage = "spmc" PROVE DSingle'
    BY <2>1, <2>2, <2>4, <2>7, DConstants, SMTT(30) DEF DSingle, Exposing, Pending
  <2> QED BY <2>3, <2>5, <2>6, <2>7
<1>5. CASE D!CountPublished(p)
  <2>1. /\ d_pc[p] = "total" /\ d_pc' = [d_pc EXCEPT ![p] = "idle"]
        /\ total_published' = total_published + 1
        /\ published' = [published EXCEPT ![p] = published[p] + 1]
        /\ UNCHANGED <<cursor, next_sequence, pending_count, running, sequencer_running,
                       alerted, event, d_seq, d_limit>>
    BY <1>5 DEF D!CountPublished, D!Goto, D!flags
  <2>2. published[p] + 1 \in 0 .. MaxEvents
    BY <1>0, <1>a, <2>1, DConstants, SMTT(30)
  <2>3. D!TypeOK'
    BY <1>0, <2>1, <2>2 DEF D!PC
  <2>4. /\ d_pc'[p] = "idle"
        /\ \A t \in Producers \cup Consumers : t # p => d_pc'[t] = d_pc[t]
        /\ \A q \in Producers : q # p => published'[q] = published[q]
    BY <1>0, <2>1, DConstants
  <2>5. DRange'
    BY <1>a, <2>1, <2>4, DConstants DEF DRange
  <2>6. D!ClaimsDistinct'
    BY <2>1, <2>4 DEF D!ClaimsDistinct, D!Claimed
  <2>7. ASSUME usage = "spmc" PROVE DSingle'
    BY <2>1, <2>4, <2>7, DConstants DEF DSingle, Exposing, Pending
  <2> QED BY <2>3, <2>5, <2>6, <2>7
<1> QED BY <1>1, <1>2, <1>3, <1>4, <1>5

\* Writing the event into its slot.
LEMMA DWrites ==
    ASSUME DInv, NEW p \in Producers, D!WriteBegin(p) \/ D!WriteEnd(p),
           usage' = usage, usage = "spmc" => p = SingleProducer
    PROVE  DInv'
<1> USE DEF DInv, D!TypeOK
<1>0. p \in D!Threads /\ d_seq[p] \in Nat /\ cursor \in Nat /\ next_sequence \in Nat
  BY DConstants
<1> DEFINE s == D!Slot(d_seq[p])
<1>1. s \in 0 .. Size - 1
  BY <1>0, DSlots
<1>2. PICK e \in Int, l \in {"end", "store"} :
         /\ d_pc[p] = (IF l = "end" THEN "begin" ELSE "end")
         /\ event' = [event EXCEPT ![s] = e] /\ d_pc' = [d_pc EXCEPT ![p] = l]
         /\ l = "store" => e = d_seq[p]
  <2>1. CASE D!WriteBegin(p)
    <3>1. /\ d_pc[p] = "begin" /\ event' = [event EXCEPT ![s] = -1]
          /\ d_pc' = [d_pc EXCEPT ![p] = "end"]
      BY <2>1 DEF D!WriteBegin, D!Goto, D!Torn
    <3>2. -1 \in Int
      OBVIOUS
    <3> QED BY <3>1, <3>2
  <2>2. CASE D!WriteEnd(p)
    <3>1. /\ d_pc[p] = "end" /\ event' = [event EXCEPT ![s] = d_seq[p]]
          /\ d_pc' = [d_pc EXCEPT ![p] = "store"]
      BY <2>2 DEF D!WriteEnd, D!Goto
    <3>2. d_seq[p] \in Int
      BY <1>0
    <3> QED BY <3>1, <3>2
  <2> QED BY <2>1, <2>2
<1>3. UNCHANGED <<cursor, next_sequence, pending_count, total_published, running,
                  sequencer_running, alerted, d_seq, d_limit, published>>
  BY DEF D!WriteBegin, D!WriteEnd, D!seqVars, D!flags
<1>4. D!TypeOK'
  BY <1>0, <1>1, <1>2, <1>3 DEF D!PC
<1>5. /\ d_pc'[p] = l
      /\ \A t \in Producers \cup Consumers : t # p => d_pc'[t] = d_pc[t]
  BY <1>0, <1>2, DConstants
<1>6. DRange'
  BY <1>2, <1>3, <1>5, DConstants DEF DRange
<1>7. D!ClaimsDistinct'
  BY <1>2, <1>3, <1>5 DEF D!ClaimsDistinct, D!Claimed
<1>8. ASSUME usage = "spmc" PROVE DSingle'
  <2>1. /\ p = SingleProducer /\ d_seq[p] = cursor + 1 /\ next_sequence = cursor + 2
        /\ pending_count = 1
    BY <1>2, <1>8 DEF DSingle, Exposing, Pending
  <2>2. ASSUME NEW n \in 1 .. cursor, next_sequence <= n + Size PROVE event'[D!Slot(n)] = n
    <3>1. n \in Nat /\ n < cursor + 1 /\ cursor + 1 < n + Size
      BY <1>0, <2>1, <2>2, DConstants
    <3>2. D!Slot(n) # s /\ D!Slot(n) \in 0 .. Size - 1
      BY <1>0, <2>1, <3>1, DSlots
    <3>3. event[D!Slot(n)] = n
      BY <1>8, <2>2 DEF DSingle
    <3> QED BY <1>2, <3>2, <3>3
  <2>3. l = "store" => event'[D!Slot(cursor + 1)] = cursor + 1
    BY <1>1, <1>2, <2>1
  <2> QED BY <1>2, <1>3, <1>5, <1>8, <2>1, <2>2, <2>3, DConstants DEF DSingle, Exposing, Pending
<1> QED BY <1>4, <1>6, <1>7, <1>8

LEMMA DFrame == DInv /\ UNCHANGED <<usage, dvars>> => DInv'
BY DEF dvars, DInv, D!TypeOK, DRange, D!ClaimsDistinct, D!Claimed, DSingle

LEMMA DInvStep == DInv /\ [MCNext]_mcvars => DInv'
<1> SUFFICES ASSUME DInv, [MCNext]_mcvars PROVE DInv'
  OBVIOUS
<1>1. ASSUME NEW p \in Producers, MCPublish(p) PROVE DInv'
  BY <1>1, DTests, DClaim, DCounts, DWrites DEF MCPublish, Dis, D!Publish
<1>2. ASSUME NEW c \in Consumers, MCConsume(c) PROVE DInv'
  BY <1>2, DConsume DEF MCConsume, Dis
<1>3. CASE Dis(D!Own)
  BY <1>3, DOwn DEF Dis
<1>4. CASE UNCHANGED <<usage, dvars>>
  BY <1>4, DFrame
<1> QED BY <1>1, <1>2, <1>3, <1>4 DEF MCNext, mcvars, MCPush, MCPop, Shm

LEMMA DInvHolds == MCSpec => []DInv
<1>1. MCInit => DInv
  BY DInvInit DEF MCInit
<1> QED BY <1>1, DInvStep, PTL DEF MCSpec

\* Sequencer::next() gives no sequence to two publishers, and nobody is beyond
\* the next one, for any number of producers and consumers.
THEOREM DisruptorClaimsHold == MCSpec => []DisruptorClaims
<1>1. DInv => DisruptorClaims
  BY DEF DInv, DisruptorClaims
<1> QED BY <1>1, DInvHolds, PTL

\* With its one producer, wait_for() lets a consumer through to whole events
\* only, and the load, subtraction and store of publish() leave pending_count
\* exact, for a ring of any size.
THEOREM DisruptorSingleHolds == MCSpec => []DisruptorSingle
<1>1. ASSUME DInv, usage = "spmc" PROVE D!BatchIntact
  <2> SUFFICES ASSUME NEW c \in Consumers, d_pc[c] = "read", next_sequence <= d_seq[c] + Size
               PROVE  event[D!Slot(d_seq[c])] = d_seq[c]
    BY DEF D!BatchIntact
  <2>1. d_seq[c] \in 1 .. cursor
    BY <1>1, DConstants DEF DInv, DRange, DSingle, D!TypeOK
  <2> QED BY <1>1, <2>1 DEF DInv, DSingle
<1>2. ASSUME DInv, usage = "spmc" PROVE D!PendingExact
  <2>1. D!Cardinality({p \in Producers : d_pc[p] \in Pending})
          = Cardinality({p \in Producers : d_pc[p] \in Pending})
    BY DEF D!Cardinality, Cardinality
  <2>2. {p \in Producers : d_pc[p] \in Pending}
          = IF d_pc[SingleProducer] \in Pending THEN {SingleProducer} ELSE {}
    BY <1>2, DConstants DEF DInv, DSingle, Pending
  <2>3. Cardinality({SingleProducer}) = 1 /\ Cardinality({}) = 0
    BY FS_Singleton, FS_EmptySet
  <2>4. pending_count = D!Cardinality({p \in Producers : d_pc[p] \in Pending})
    BY <1>2, <2>1, <2>2, <2>3 DEF DInv, DSingle
  <2> QED BY <2>4 DEF D!PendingExact, Pending
<1>3. DInv => DisruptorSingle
  BY <1>1, <1>2 DEF DisruptorSingle
<1> QED BY <1>3, DInvHolds, PTL
=============================================================================
