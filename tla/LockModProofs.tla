--------------------------- MODULE LockModProofs ---------------------------
(***************************************************************************)
(* The two structures of concurrency/lock_mod.rs.                          *)
(*                                                                         *)
(* What read() of the sequence lock returns is whole, for every set of     *)
(* readers and writers and every bound, as long as writes do not overlap.  *)
(* A writer's place tells how far the sequence is ahead of the halves      *)
(* (WriterShows), one writer at a time is inside (OneWriter), and a reader *)
(* whose first load is still the current sequence has met no writer        *)
(* (ReaderSaw): whoever starts writing makes its comparison fail for ever. *)
(*                                                                         *)
(* What read_at() of the tick ring returns is no older than what was asked *)
(* for, again while pushes do not overlap: every position below the head   *)
(* is in its slot or has been overwritten by a later one, but for the last *)
(* one between its claim and its write (TicksWritten).                     *)
(***************************************************************************)
EXTENDS MCRwLock, FiniteSetTheorems, TLAPS

-----------------------------------------------------------------------------
(* The sequence lock.                                                       *)

OneWriter == \A v, w \in SeqWriting : v = w

WriterShows ==
    /\ SeqWriting = {} => sequence = 2 * data_lo /\ data_hi = data_lo
    /\ \A w \in SeqWriters :
        /\ at[w] = "lo" => sequence = 2 * data_lo + 1 /\ data_hi = data_lo
        /\ at[w] = "hi" => sequence = 2 * data_lo - 1 /\ data_hi = data_lo - 1
        /\ at[w] = "end" => sequence = 2 * data_lo - 1 /\ data_hi = data_lo

Undisturbed(r) == seq_start[r] = sequence

ReaderSaw ==
    \A r \in SeqReaders :
        /\ at[r] \in {"lo", "hi", "end"} =>
              /\ seq_start[r] <= sequence
              /\ Undisturbed(r) => SeqWriting = {}
        /\ at[r] \in {"hi", "end"} /\ Undisturbed(r) => got_lo[r] = data_lo
        /\ at[r] = "end" /\ Undisturbed(r) => got_hi[r] = data_lo
        /\ at[r] = "some" => got_lo[r] = got_hi[r] /\ seq_start[r] = 2 * got_lo[r]

SeqInv == SeqTypeOK /\ (~write_overlap => OneWriter /\ WriterShows /\ ReaderSaw)

-----------------------------------------------------------------------------
\* Every step of read() and write() keeps the types of the sequence lock.
LEMMA SeqTypeStep == SeqTypeOK /\ [SeqNext]_seqVars => SeqTypeOK'
<1> SUFFICES ASSUME SeqTypeOK, [SeqNext]_seqVars PROVE SeqTypeOK'
  OBVIOUS
<1> USE DEF SeqTypeOK, SeqThreads, SeqGoto, shared, readLocals
<1>1. CASE UNCHANGED seqVars
  BY <1>1 DEF seqVars
<1>2. ASSUME NEW r \in SeqReaders, SeqRead(r) PROVE SeqTypeOK'
  <2>1. CASE ReadCall(r) \/ SeqReadLo(r) \/ SeqReadHi(r)
    BY <2>1 DEF ReadCall, SeqReadLo, SeqReadHi
  <2>2. CASE LoadStart(r) \/ LoadEnd(r)
    BY <2>2 DEF LoadStart, LoadEnd, Retry
  <2>3. QED
    BY <1>2, <2>1, <2>2 DEF SeqRead
<1>3. ASSUME NEW w \in SeqWriters, SeqWrite(w) PROVE SeqTypeOK'
  <2>1. write_overlap' \in BOOLEAN
    BY <1>3, Zenon DEF SeqWrite, WriteBegin, SeqWriteLo, SeqWriteHi, WriteEnd
  <2>2. {sequence, data_lo, data_hi}' \subseteq Nat
    BY <1>3 DEF SeqWrite, WriteBegin, SeqWriteLo, SeqWriteHi, WriteEnd
  <2>3. at' \in [SeqThreads -> {"idle", "start", "lo", "hi", "end", "some"}]
    BY <1>3 DEF SeqWrite, WriteBegin, SeqWriteLo, SeqWriteHi, WriteEnd
  <2>4. {seq_start, tries, got_lo, got_hi}' \subseteq [SeqReaders -> Nat]
    BY <1>3 DEF SeqWrite, WriteBegin, SeqWriteLo, SeqWriteHi, WriteEnd
  <2>5. QED
    BY <2>1, <2>2, <2>3, <2>4
<1>4. QED
  BY <1>1, <1>2, <1>3 DEF SeqNext

\* A step of read() leaves the writers where they are.
LEMMA ReadersApart ==
    ASSUME SeqTypeOK, NEW r \in SeqReaders, SeqRead(r)
    PROVE  /\ UNCHANGED shared /\ SeqWriting' = SeqWriting
           /\ \A t \in SeqThreads : t # r => at'[t] = at[t]
           /\ \A q \in SeqReaders : q # r => /\ seq_start'[q] = seq_start[q]
                                             /\ got_lo'[q] = got_lo[q]
                                             /\ got_hi'[q] = got_hi[q]
<1> USE DEF SeqTypeOK, SeqThreads, SeqGoto, Retry
<1>1. UNCHANGED shared
  BY DEF SeqRead, ReadCall, LoadStart, SeqReadLo, SeqReadHi, LoadEnd
<1>2. \A t \in SeqThreads : t # r => at'[t] = at[t]
  BY DEF SeqRead, ReadCall, LoadStart, SeqReadLo, SeqReadHi, LoadEnd
<1>3. \A q \in SeqReaders : q # r => /\ seq_start'[q] = seq_start[q]
                                     /\ got_lo'[q] = got_lo[q]
                                     /\ got_hi'[q] = got_hi[q]
  BY DEF SeqRead, ReadCall, LoadStart, SeqReadLo, SeqReadHi, LoadEnd
<1>4. \A w \in SeqWriters : at'[w] = at[w]
  BY <1>2, SeqAssumption
<1>5. SeqWriting' = SeqWriting
  BY <1>4 DEF SeqWriting
<1>6. QED
  BY <1>1, <1>2, <1>3, <1>5

\* A sequence that is even is seen while nobody writes.
LEMMA EvenIsQuiet ==
    ASSUME SeqTypeOK, WriterShows, sequence % 2 = 0 PROVE SeqWriting = {}
<1>1. \A n \in Nat : n = data_lo => (2 * n + 1) % 2 = 1 /\ (2 * n - 1) % 2 = 1
  BY DEF SeqTypeOK
<1>2. \A w \in SeqWriters : at[w] \notin {"lo", "hi", "end"}
  BY <1>1 DEF SeqTypeOK, WriterShows
<1>3. QED
  BY <1>2 DEF SeqWriting

\* Every step of read() and write() keeps the invariant.
LEMMA SeqInvStep == SeqInv /\ [SeqNext]_seqVars => SeqInv'
<1> SUFFICES ASSUME SeqInv, [SeqNext]_seqVars PROVE SeqInv'
  OBVIOUS
<1>t. SeqTypeOK /\ SeqTypeOK'
  BY SeqTypeStep DEF SeqInv
<1> SUFFICES ASSUME ~write_overlap' PROVE OneWriter' /\ WriterShows' /\ ReaderSaw'
  BY <1>t DEF SeqInv
<1>1. CASE UNCHANGED seqVars
  BY <1>1 DEF SeqInv, seqVars, OneWriter, WriterShows, ReaderSaw, Undisturbed, SeqWriting
<1>2. ASSUME NEW r \in SeqReaders, SeqRead(r) PROVE OneWriter' /\ WriterShows' /\ ReaderSaw'
  <2>1. /\ UNCHANGED shared /\ SeqWriting' = SeqWriting
        /\ \A t \in SeqThreads : t # r => at'[t] = at[t]
        /\ \A q \in SeqReaders : q # r => /\ seq_start'[q] = seq_start[q]
                                          /\ got_lo'[q] = got_lo[q]
                                          /\ got_hi'[q] = got_hi[q]
    BY <1>2, <1>t, ReadersApart
  <2>2. ~write_overlap /\ OneWriter /\ WriterShows /\ ReaderSaw
    BY <2>1 DEF SeqInv, shared
  <2>3. OneWriter' /\ WriterShows'
    BY <2>1, <2>2, SeqAssumption DEF OneWriter, WriterShows, shared, SeqThreads
  <2>4. SUFFICES ReaderSaw'
    BY <2>3
  <2>5. SUFFICES ASSUME NEW q \in SeqReaders
                 PROVE  /\ at'[q] \in {"lo", "hi", "end"} =>
                              /\ seq_start'[q] <= sequence'
                              /\ seq_start'[q] = sequence' => SeqWriting' = {}
                        /\ at'[q] \in {"hi", "end"} /\ seq_start'[q] = sequence' =>
                              got_lo'[q] = data_lo'
                        /\ at'[q] = "end" /\ seq_start'[q] = sequence' =>
                              got_hi'[q] = data_lo'
                        /\ at'[q] = "some" => /\ got_lo'[q] = got_hi'[q]
                                              /\ seq_start'[q] = 2 * got_lo'[q]
    BY DEF ReaderSaw, Undisturbed
  <2>6. CASE q # r
    BY <2>1, <2>2, <2>6 DEF ReaderSaw, Undisturbed, shared, SeqThreads
  <2>7. CASE q = r
    <3> USE <2>1, <2>2, <2>7, <1>t DEF SeqTypeOK, SeqThreads, SeqGoto, shared
    <3>1. CASE ReadCall(r)
      BY <3>1 DEF ReadCall
    <3>2. CASE LoadStart(r)
      <4>1. at'[r] \in {"start", "idle"} \/ (at'[r] = "lo" /\ sequence % 2 = 0)
        BY <3>2 DEF LoadStart, Retry
      <4>2. seq_start'[r] = sequence
        BY <3>2 DEF LoadStart
      <4>3. QED
        BY <4>1, <4>2, EvenIsQuiet
    <3>3. CASE SeqReadLo(r)
      BY <3>3 DEF SeqReadLo, ReaderSaw, Undisturbed
    <3>4. CASE SeqReadHi(r)
      BY <3>4 DEF SeqReadHi, ReaderSaw, Undisturbed, WriterShows
    <3>5. CASE LoadEnd(r)
      BY <3>5 DEF LoadEnd, Retry, ReaderSaw, Undisturbed, WriterShows
    <3>6. QED
      BY <1>2, <3>1, <3>2, <3>3, <3>4, <3>5 DEF SeqRead
  <2>8. QED
    BY <2>6, <2>7
<1>3. ASSUME NEW w \in SeqWriters, SeqWrite(w)
      PROVE  OneWriter' /\ WriterShows' /\ ReaderSaw'
  <2>a. ~write_overlap /\ (WriteBegin(w) => SeqWriting = {})
    <3>1. \/ WriteBegin(w) /\ write_overlap' = (write_overlap \/ SeqWriting # {})
          \/ ~WriteBegin(w) /\ write_overlap' = write_overlap
      BY <1>3, Zenon DEF SeqWrite, WriteBegin, SeqWriteLo, SeqWriteHi, WriteEnd
    <3>2. write_overlap = TRUE \/ write_overlap = FALSE
      BY <1>t DEF SeqTypeOK
    <3>3. CASE write_overlap = TRUE
      BY <3>1, <3>3
    <3>4. CASE write_overlap = FALSE /\ ~(WriteBegin(w) /\ SeqWriting # {})
      BY <3>4
    <3>5. CASE WriteBegin(w) /\ SeqWriting # {}
      BY <3>1, <3>5
    <3>6. QED
      BY <3>2, <3>3, <3>4, <3>5
  <2>1. OneWriter /\ WriterShows /\ ReaderSaw
    BY <2>a DEF SeqInv
  <2>2. \A t \in SeqThreads : t # w => at'[t] = at[t]
    BY <1>3, <1>t DEF SeqTypeOK, SeqWrite, WriteBegin, SeqWriteLo, SeqWriteHi, WriteEnd,
                      SeqGoto, SeqThreads
  <2>3. UNCHANGED readLocals /\ \A r \in SeqReaders : at'[r] = at[r]
    BY <1>3, <2>2, SeqAssumption DEF SeqWrite, WriteBegin, SeqWriteLo, SeqWriteHi, WriteEnd,
                                     SeqThreads
  <2>4. at[w] \in {"lo", "hi", "end"} => SeqWriting = {w}
    BY <2>1 DEF OneWriter, SeqWriting
  <2>5. CASE WriteBegin(w)
    <3>1. SeqWriting = {} /\ sequence' = sequence + 1 /\ at'[w] = "lo"
      BY <2>a, <2>5, <1>t DEF WriteBegin, SeqGoto, SeqTypeOK, SeqThreads
    <3>2. SeqWriting' = {w} /\ \A v \in SeqWriters : v # w => at'[v] \notin {"lo", "hi", "end"}
      BY <3>1, <2>2 DEF SeqWriting, SeqThreads
    <3>3. OneWriter'
      BY <3>2 DEF OneWriter
    <3>4. WriterShows'
      BY <3>1, <3>2, <2>1, <2>5, <1>t DEF WriterShows, WriteBegin, SeqTypeOK
    <3>5. ReaderSaw'
      BY <3>1, <2>1, <2>3, <1>t DEF ReaderSaw, Undisturbed, readLocals, SeqTypeOK
    <3>6. QED
      BY <3>3, <3>4, <3>5
  <2>6. CASE SeqWriteLo(w) \/ SeqWriteHi(w)
    <3>1. SeqWriting = {w} /\ sequence' = sequence /\ at'[w] \in {"hi", "end"}
      BY <2>4, <2>6, <1>t DEF SeqWriteLo, SeqWriteHi, SeqGoto, SeqTypeOK, SeqThreads
    <3>2. SeqWriting' = {w} /\ \A v \in SeqWriters : v # w => at'[v] \notin {"lo", "hi", "end"}
      BY <3>1, <2>2 DEF SeqWriting, SeqThreads
    <3>3. OneWriter'
      BY <3>2 DEF OneWriter
    <3>4. WriterShows'
      BY <3>1, <3>2, <2>1, <2>6, <1>t
      DEF WriterShows, SeqWriteLo, SeqWriteHi, SeqTypeOK, SeqGoto, SeqThreads
    <3>5. ReaderSaw'
      BY <3>1, <2>1, <2>3, <1>t DEF ReaderSaw, Undisturbed, readLocals, SeqTypeOK
    <3>6. QED
      BY <3>3, <3>4, <3>5
  <2>7. CASE WriteEnd(w)
    <3>1. SeqWriting = {w} /\ sequence' = sequence + 1 /\ at'[w] = "idle"
      BY <2>4, <2>7, <1>t DEF WriteEnd, SeqGoto, SeqTypeOK, SeqThreads
    <3>2. SeqWriting' = {} /\ \A v \in SeqWriters : at'[v] \notin {"lo", "hi", "end"}
      BY <3>1, <2>2 DEF SeqWriting, SeqThreads
    <3>3. OneWriter'
      BY <3>2 DEF OneWriter
    <3>4. WriterShows'
      BY <3>1, <3>2, <2>1, <2>7, <1>t DEF WriterShows, WriteEnd, SeqTypeOK
    <3>5. ReaderSaw'
      BY <3>1, <2>1, <2>3, <1>t DEF ReaderSaw, Undisturbed, readLocals, SeqTypeOK
    <3>6. QED
      BY <3>3, <3>4, <3>5
  <2>8. QED
    BY <1>3, <2>5, <2>6, <2>7 DEF SeqWrite
<1>4. QED
  BY <1>1, <1>2, <1>3 DEF SeqNext

\* The invariant holds of every behaviour of the sequence lock.
LEMMA SeqInvariant == SeqSpec => []SeqInv
<1>1. SeqInit => SeqInv
  <2> SUFFICES ASSUME SeqInit PROVE SeqInv
    OBVIOUS
  <2>1. write_overlap \in BOOLEAN
    BY Zenon DEF SeqInit
  <2>2. SeqTypeOK
    BY <2>1 DEF SeqInit, SeqTypeOK, SeqThreads
  <2>3. OneWriter /\ WriterShows /\ ReaderSaw
    BY DEF SeqInit, OneWriter, WriterShows, ReaderSaw, SeqWriting, SeqThreads
  <2>4. QED
    BY <2>2, <2>3 DEF SeqInv
<1>2. QED
  BY <1>1, SeqInvStep, PTL DEF SeqSpec

\* SeqLock::read() returns the whole of one write, the one its first load saw,
\* for any readers and writers whose writes do not overlap.
THEOREM SeqWholeRead == SeqSpec => []WholeRead
<1>1. SeqInv => WholeRead
  BY DEF SeqInv, ReaderSaw, WholeRead
<1>2. QED
  BY <1>1, SeqInvariant, PTL

-----------------------------------------------------------------------------
(* The tick ring.                                                           *)

\* The copies of head lie below it, and a pusher that stores the tail is past
\* the first lap.
TickCopies ==
    /\ head <= MaxTicks
    /\ \A p \in Pushers :
          /\ push[p].at # "idle" => push[p].head < head
          /\ push[p].at = "store" => push[p].head >= Capacity
    /\ \A r \in TickReaders : read[r].at # "idle" => read[r].after < head

\* One push at a time is under way, and it has the last position.
OnePush ==
    /\ \A p, q \in T!Pushing : p = q
    /\ \A p \in T!Pushing : push[p].head = head - 1

\* Every position below the head has been written, or overwritten by a later
\* one, but for the last one while its push is before its write.
TicksWritten ==
    \A n \in 0 .. head - 1 :
        \/ tick[T!SlotOf(n)] > n
        \/ n = head - 1 /\ \E p \in Pushers : push[p].at \in {"lock", "write"}

\* The oldest tick a call of read_at() may return.
Floor(r) == read[r].after - (IF read[r].recent THEN Capacity ELSE 0)

\* Before its read a reader's slot holds what it may return, and what it has
\* read stays with it.
ReaderFinds ==
    \A r \in TickReaders :
        /\ read[r].at \in {"lock", "read"} => tick[T!SlotOf(read[r].after)] > Floor(r)
        /\ read[r].at = "drop" => read[r].got > Floor(r)

\* The ring is full at most, and one more while a push is under way.
TickRoom ==
    /\ T!Pushing = {} => head - tail <= Capacity
    /\ T!Pushing # {} => head - 1 - tail <= Capacity

TickInv ==
    /\ T!TickTypeOK /\ TickCopies
    /\ ~overlap => OnePush /\ TicksWritten /\ ReaderFinds /\ TickRoom

\* The capacity is positive and a lock word has room for its writer bit.
LEMMA TickConstants ==
    /\ Capacity \in Nat /\ Capacity > 0 /\ MaxTicks \in Nat
    /\ WRITER_FLAG \in Nat /\ WRITER_FLAG > 0
<1>1. Cardinality(Threads) \in Nat
  BY RwAssumption, FS_CardinalityType
<1> QED BY <1>1, RwAssumption, TickAssumption

\* Adding the divisor does not change the remainder.
LEMMA AddDivisor ==
    ASSUME NEW c \in Nat, c > 0, NEW n \in Nat
    PROVE  (n + c) % c = n % c
<1> DEFINE q == n \div c
           r == n % c
           p == (n + c) \div c
           s == (n + c) % c
<1>1. n = c * q + r /\ r \in 0 .. c - 1 /\ q \in Int
  BY SMT
<1>2. n + c = c * p + s /\ s \in 0 .. c - 1 /\ p \in Int
  BY SMT
<1> HIDE DEF q, r, p, s
<1>3. c * (p - q) = c * p - c * q
  BY <1>1, <1>2, SMT
<1>4. c * (p - q) > 0 /\ c * (p - q) < 2 * c
  BY <1>1, <1>2, <1>3
<1>5. p - q <= 0 => c * (p - q) <= 0
  BY <1>1, <1>2, SMT
<1>6. p - q >= 2 => c * (p - q) >= 2 * c
  BY <1>1, <1>2, SMT
<1>7. p - q = 1
  BY <1>1, <1>2, <1>4, <1>5, <1>6
<1>8. c * (p - q) = c
  BY <1>7
<1> QED BY <1>1, <1>2, <1>3, <1>8 DEF r, s

\* Every position has a slot, and the one a lap later has the same.
LEMMA LapSlot ==
    /\ \A n \in Nat : T!SlotOf(n) \in T!Slots
    /\ \A n \in Nat : T!SlotOf(n + Capacity) = T!SlotOf(n)
<1> USE TickConstants
<1>1. \A n \in Nat : n % Capacity \in 0 .. Capacity - 1
  BY SMT
<1>2. \A n \in Nat : (n + Capacity) % Capacity = n % Capacity
  BY AddDivisor
<1> QED BY <1>1, <1>2 DEF T!SlotOf, T!Slots

-----------------------------------------------------------------------------
\* Every step of push() and read_at() keeps the types and the copies.
LEMMA TickTypeStep ==
    ASSUME T!TickTypeOK, TickCopies, [T!TickNext]_tvars
    PROVE  T!TickTypeOK' /\ TickCopies'
<1> USE TickConstants, LapSlot DEF T!TickTypeOK, TickCopies, T!PushTo, T!ReadTo, T!ring
<1>1. CASE UNCHANGED tvars
  BY <1>1 DEF tvars
<1>2. ASSUME NEW p \in Pushers, T!Push(p) PROVE T!TickTypeOK' /\ TickCopies'
  <2>o. overlap' \in BOOLEAN
    BY <1>2, Zenon DEF T!Push, T!Claim, T!LockSlot, T!WriteTick, T!UnlockSlot, T!LoadTail,
       T!StoreTail
  <2>1. CASE T!Claim(p)
    BY <2>o, <2>1 DEF T!Claim
  <2>2. CASE T!LockSlot(p)
    BY <2>o, <2>2, SMTT(30) DEF T!LockSlot
  <2>3. CASE T!WriteTick(p)
    BY <2>o, <2>3 DEF T!WriteTick
  <2>4. CASE T!UnlockSlot(p)
    BY <2>o, <2>4 DEF T!UnlockSlot
  <2>5. CASE T!LoadTail(p)
    BY <2>o, <2>5 DEF T!LoadTail
  <2>6. CASE T!StoreTail(p)
    BY <2>o, <2>6 DEF T!StoreTail
  <2> QED BY <1>2, <2>1, <2>2, <2>3, <2>4, <2>5, <2>6 DEF T!Push
<1>3. ASSUME NEW r \in TickReaders, T!Read(r) PROVE T!TickTypeOK' /\ TickCopies'
  <2>1. CASE T!LoadHead(r)
    <3>1. PICK offset \in 0 .. head - 1 :
              read' = [read EXCEPT ![r] = [at |-> "lock", after |-> head - 1 - offset,
                                           recent |-> offset = 0, got |-> 0]]
      BY <2>1 DEF T!LoadHead
    <3>2. (offset = 0) \in BOOLEAN
      OBVIOUS
    <3> QED BY <2>1, <3>1, <3>2 DEF T!LoadHead
  <2>2. CASE T!LockRead(r)
    BY <2>2, SMTT(30) DEF T!LockRead
  <2>3. CASE T!ReadTick(r)
    BY <2>3 DEF T!ReadTick
  <2>4. CASE T!DropRead(r)
    <3>1. \A x \in Int : x % (2 * WRITER_FLAG) \in 0 .. 2 * WRITER_FLAG - 1
      BY SMT
    <3> DEFINE s == T!SlotOf(read[r].after)
               w == (word[s] - 1) % (2 * WRITER_FLAG)
    <3>2. s \in T!Slots
      OBVIOUS
    <3>3. w \in 0 .. 2 * WRITER_FLAG - 1
      BY <3>1, <3>2
    <3>4. word' = [word EXCEPT ![s] = w]
      BY <2>4 DEF T!DropRead
    <3> HIDE DEF s, w
    <3>5. word' \in [T!Slots -> 0 .. 2 * WRITER_FLAG - 1]
      BY <3>2, <3>3, <3>4
    <3> QED BY <2>4, <3>5 DEF T!DropRead
  <2> QED BY <1>3, <2>1, <2>2, <2>3, <2>4 DEF T!Read
<1> QED BY <1>1, <1>2, <1>3 DEF T!TickNext

\* A reader's step keeps what is said of pushes, and what it finds and keeps.
LEMMA ReaderStep ==
    ASSUME TickInv, T!TickTypeOK', TickCopies', NEW r \in TickReaders, T!Read(r), ~overlap'
    PROVE  OnePush' /\ TicksWritten' /\ ReaderFinds' /\ TickRoom'
<1> USE TickConstants, LapSlot
<1>1. UNCHANGED <<head, tail, tick, push, overlap>>
  BY DEF T!Read, T!LoadHead, T!LockRead, T!ReadTick, T!DropRead, T!ring
<1>2. T!TickTypeOK /\ TickCopies /\ OnePush /\ TicksWritten /\ ReaderFinds /\ TickRoom
  BY <1>1 DEF TickInv
<1>3. T!Pushing' = T!Pushing
  BY <1>1 DEF T!Pushing
<1>4. OnePush' /\ TickRoom'
  BY <1>1, <1>2, <1>3 DEF OnePush, TickRoom
<1>5. TicksWritten'
  BY <1>1, <1>2 DEF TicksWritten, T!SlotOf
<1>6. ReaderFinds'
  <2> USE <1>1, <1>2 DEF T!TickTypeOK, ReaderFinds, Floor
  <2>1. CASE T!LoadHead(r)
    <3>1. PICK offset \in 0 .. head - 1 :
              read' = [read EXCEPT ![r] = [at |-> "lock", after |-> head - 1 - offset,
                                           recent |-> offset = 0, got |-> 0]]
      BY <2>1 DEF T!LoadHead
    <3> DEFINE n == head - 1 - offset
    <3>2. n \in 0 .. head - 1
      OBVIOUS
    <3>3. CASE offset # 0
      <4>1. tick[T!SlotOf(n)] > n
        BY <3>2, <3>3 DEF TicksWritten
      <4>2. read'[r].after = n /\ read'[r].recent = FALSE /\ read'[r].at = "lock"
        BY <3>1, <3>3
      <4> QED BY <3>1, <4>1, <4>2
    <3>4. CASE offset = 0
      <4>1. tick[T!SlotOf(n)] > n - Capacity
        <5>1. CASE n < Capacity
          BY <3>2, <5>1
        <5>2. CASE n >= Capacity
          <6> DEFINE k == n - Capacity
          <6>1. k \in 0 .. head - 1 /\ k # head - 1 /\ k \in Nat /\ n = k + Capacity
            BY <3>2, <5>2
          <6>2. tick[T!SlotOf(k)] > k
            BY <6>1 DEF TicksWritten
          <6>3. T!SlotOf(n) = T!SlotOf(k)
            BY <6>1
          <6> QED BY <6>2, <6>3
        <5> QED BY <3>2, <5>1, <5>2
      <4>2. read'[r].after = n /\ read'[r].recent = TRUE /\ read'[r].at = "lock"
        BY <3>1, <3>4
      <4> QED BY <3>1, <4>1, <4>2
    <3> QED BY <3>3, <3>4
  <2>2. CASE T!LockRead(r) \/ T!DropRead(r)
    <3>1. PICK l \in {"read", "idle"} :
              read' = [read EXCEPT ![r].at = l] /\ (l = "read" => read[r].at = "lock")
      BY <2>2 DEF T!LockRead, T!DropRead, T!ReadTo
    <3>2. \A q \in TickReaders : /\ Floor(q)' = Floor(q) /\ read'[q].after = read[q].after
                                 /\ read'[q].got = read[q].got
      BY <3>1
    <3>3. \A q \in TickReaders : q # r => read'[q] = read[q]
      BY <3>1
    <3>4. read'[r].at = l
      BY <3>1
    <3> HIDE DEF Floor
    <3> QED BY <3>1, <3>2, <3>3, <3>4
  <2>3. CASE T!ReadTick(r)
    BY <2>3 DEF T!ReadTick
  <2> QED BY <2>1, <2>2, <2>3 DEF T!Read
<1> QED BY <1>4, <1>5, <1>6

\* A step of a push that does not overlap another keeps the written positions,
\* what the readers find and the room.
LEMMA PusherStep ==
    ASSUME TickInv, T!TickTypeOK', TickCopies', NEW p \in Pushers, T!Push(p), ~overlap'
    PROVE  OnePush' /\ TicksWritten' /\ ReaderFinds' /\ TickRoom'
<1> USE TickConstants, LapSlot
<1>1. ~overlap /\ read' = read
  <2>1. read' = read /\ (overlap' = overlap \/ T!Claim(p))
    BY DEF T!Push, T!Claim, T!LockSlot, T!WriteTick, T!UnlockSlot, T!LoadTail,
       T!StoreTail, T!ring
  <2>2. T!Claim(p) => ~overlap
    BY Zenon DEF T!Claim
  <2>3. overlap' = overlap => ~overlap
    OBVIOUS
  <2> QED BY <2>1, <2>2, <2>3
<1>2. T!TickTypeOK /\ TickCopies /\ OnePush /\ TicksWritten /\ ReaderFinds /\ TickRoom
  BY <1>1 DEF TickInv
<1>n. head \in Nat /\ tail \in Nat
  BY <1>2 DEF T!TickTypeOK
<1>3. CASE T!Claim(p)
  <2>1. T!Pushing = {} /\ head' = head + 1 /\ tail' = tail /\ tick' = tick
        /\ push' = [push EXCEPT ![p] = [at |-> "lock", head |-> head]]
    BY <1>3 DEF T!Claim
  <2>2. T!Pushing' = {p}
    BY <2>1, <1>2 DEF T!Pushing, T!TickTypeOK
  <2>3. push'[p].at = "lock" /\ push'[p].head = head
    BY <2>1, <1>2 DEF T!TickTypeOK
  <2>4. OnePush' /\ TickRoom'
    BY <2>1, <2>2, <2>3, <1>2, <1>n DEF OnePush, TickRoom
  <2>5. \A q \in Pushers : push[q].at = "idle"
    BY <2>1 DEF T!Pushing
  <2>6. \A n \in 0 .. head - 1 : tick[T!SlotOf(n)] > n
    BY <2>5, <1>2 DEF TicksWritten
  <2>7. TicksWritten'
    <3> SUFFICES ASSUME NEW n \in 0 .. head, n # head PROVE tick[T!SlotOf(n)] > n
      BY <2>1, <2>3, <1>2 DEF TicksWritten, T!SlotOf, T!TickTypeOK
    <3>1. n \in 0 .. head - 1
      BY <1>n
    <3> QED BY <2>6, <3>1
  <2>8. ReaderFinds'
    BY <2>1, <1>1, <1>2 DEF ReaderFinds, Floor, T!SlotOf
  <2> QED BY <2>4, <2>7, <2>8
<1>4. ASSUME T!Push(p), ~T!Claim(p)
      PROVE  /\ push[p].at # "idle" /\ head' = head /\ push[p].head = head - 1
             /\ \A q \in Pushers : q # p => push[q].at = "idle" /\ push'[q] = push[q]
             /\ push'[p].head = push[p].head
  <2>1. push[p].at # "idle" /\ head' = head
    BY <1>4 DEF T!Push, T!LockSlot, T!WriteTick, T!UnlockSlot, T!LoadTail, T!StoreTail, T!ring
  <2>2. push[p].head = head - 1 /\ \A q \in Pushers : q # p => push[q].at = "idle"
    BY <2>1, <1>2 DEF OnePush, T!Pushing
  <2>3. push'[p].head = push[p].head /\ \A q \in Pushers : q # p => push'[q] = push[q]
    BY <1>4, <1>2, SMTT(30) DEF T!Push, T!LockSlot, T!WriteTick, T!UnlockSlot, T!LoadTail, T!StoreTail,
       T!PushTo, T!TickTypeOK
  <2> QED BY <2>1, <2>2, <2>3
<1>5. ASSUME ~T!Claim(p) PROVE OnePush'
  BY <1>4, <1>5 DEF OnePush, T!Pushing
<1>6. CASE T!LockSlot(p) \/ T!UnlockSlot(p)
  <2>1. /\ push[p].at \in {"lock", "unlock"}
        /\ push'[p].at = (IF push[p].at = "lock" THEN "write" ELSE "tail")
        /\ UNCHANGED <<head, tail, tick>> /\ ~T!Claim(p)
    BY <1>6, <1>2 DEF T!LockSlot, T!UnlockSlot, T!PushTo, T!TickTypeOK, T!Claim
  <2>2. T!Pushing # {}
    BY <2>1 DEF T!Pushing
  <2>3. TickRoom'
    BY <2>1, <2>2, <1>2 DEF TickRoom, T!Pushing
  <2>4. \A q \in Pushers :
            push'[q].at \in {"lock", "write"} <=> push[q].at \in {"lock", "write"}
    BY <2>1, <1>4
  <2>5. TicksWritten'
    BY <2>1, <2>4, <1>2 DEF TicksWritten, T!SlotOf
  <2>6. ReaderFinds'
    BY <2>1, <1>1, <1>2 DEF ReaderFinds, Floor, T!SlotOf
  <2> QED BY <2>1, <2>3, <2>5, <2>6, <1>5
<1>7. CASE T!WriteTick(p)
  <2>1. /\ push[p].at = "write" /\ push'[p].at = "unlock"
        /\ UNCHANGED <<head, tail>> /\ ~T!Claim(p)
        /\ tick' = [tick EXCEPT ![T!SlotOf(push[p].head)] = push[p].head + 1]
    BY <1>7, <1>2 DEF T!WriteTick, T!PushTo, T!TickTypeOK, T!Claim
  <2>2. tick' = [tick EXCEPT ![T!SlotOf(head - 1)] = head] /\ head \in Nat /\ head > 0
    <3>1. push[p].head = head - 1 /\ head > push[p].head /\ push[p].head \in Nat
      BY <2>1, <1>4, <1>2 DEF T!TickTypeOK, TickCopies
    <3>2. push[p].head + 1 = head
      BY <3>1, <1>n
    <3>3. tick' = [tick EXCEPT ![T!SlotOf(head - 1)] = head]
      BY <2>1, <3>1, <3>2, Zenon
    <3> QED BY <3>1, <3>2, <3>3, <1>n
  <2>3. \A s \in T!Slots : tick'[s] = tick[s] \/ tick'[s] = head
    BY <2>2, <1>2 DEF T!TickTypeOK
  <2>4. tick'[T!SlotOf(head - 1)] = head
    BY <2>2, <1>2 DEF T!TickTypeOK
  <2>5. TicksWritten'
    <3> SUFFICES ASSUME NEW n \in 0 .. head - 1 PROVE tick'[T!SlotOf(n)] > n
      BY <2>1, <1>2 DEF TicksWritten, T!SlotOf
    <3>1. CASE n = head - 1
      BY <3>1, <2>4, <2>2
    <3>2. CASE n # head - 1
      <4>1. T!SlotOf(n) \in T!Slots /\ tick[T!SlotOf(n)] > n
        BY <3>2, <1>2, <2>2 DEF TicksWritten
      <4> QED BY <4>1, <2>2, <2>3
    <3> QED BY <3>1, <3>2
  <2>6. ReaderFinds'
    <3> SUFFICES ASSUME NEW r \in TickReaders, read[r].at \in {"lock", "read"}
                 PROVE  tick'[T!SlotOf(read[r].after)] > Floor(r)
      BY <1>1, <1>2 DEF ReaderFinds, Floor, T!SlotOf
    <3>1. /\ T!SlotOf(read[r].after) \in T!Slots
          /\ tick[T!SlotOf(read[r].after)] > Floor(r)
      BY <1>2 DEF T!TickTypeOK, ReaderFinds
    <3>2. head > Floor(r)
      BY <1>2 DEF TickCopies, Floor, T!TickTypeOK
    <3> QED BY <2>3, <3>1, <3>2
  <2>7. TickRoom'
    BY <2>1, <1>2 DEF TickRoom, T!Pushing
  <2> QED BY <2>1, <2>5, <2>6, <2>7, <1>5
<1>8. CASE T!LoadTail(p) \/ T!StoreTail(p)
  <2>1. /\ push[p].at \in {"tail", "store"} /\ push'[p].at \in {"idle", "store"}
        /\ UNCHANGED <<head, tick>> /\ ~T!Claim(p)
    BY <1>8, <1>2 DEF T!LoadTail, T!StoreTail, T!PushTo, T!TickTypeOK, T!Claim, T!ring
  <2>2. head' - 1 - tail' <= Capacity /\ (push'[p].at = "idle" => head' - tail' <= Capacity)
    <3>1. push[p].head = head - 1 /\ T!Pushing # {}
      BY <2>1, <1>4 DEF T!Pushing
    <3>2. CASE T!LoadTail(p)
      BY <3>1, <3>2, <1>2 DEF T!LoadTail, T!PushTo, T!TickTypeOK, T!ring, TickRoom
    <3>3. CASE T!StoreTail(p)
      BY <3>1, <3>3, <1>2 DEF T!StoreTail, T!PushTo, T!TickTypeOK, TickRoom
    <3> QED BY <1>8, <3>2, <3>3
  <2>3. TickRoom'
    BY <2>1, <2>2, <1>4 DEF TickRoom, T!Pushing
  <2>4. \A q \in Pushers :
            push'[q].at \in {"lock", "write"} <=> push[q].at \in {"lock", "write"}
    BY <2>1, <1>4
  <2>5. TicksWritten'
    BY <2>1, <2>4, <1>2 DEF TicksWritten, T!SlotOf
  <2>6. ReaderFinds'
    BY <2>1, <1>1, <1>2 DEF ReaderFinds, Floor, T!SlotOf
  <2> QED BY <2>1, <2>3, <2>5, <2>6, <1>5
<1> QED BY <1>3, <1>6, <1>7, <1>8 DEF T!Push

\* Every step of every use of the locks preserves the invariant of the tick ring.
LEMMA TickInvStep == TickInv /\ [MCNext]_<<vars, usage, seqVars, tvars>> => TickInv'
<1> SUFFICES ASSUME TickInv, [MCNext]_<<vars, usage, seqVars, tvars>> PROVE TickInv'
  OBVIOUS
<1>1. [T!TickNext]_tvars
  BY DEF MCNext, MCStep
<1>2. T!TickTypeOK' /\ TickCopies'
  BY <1>1, TickTypeStep DEF TickInv
<1>3. CASE UNCHANGED tvars
  BY <1>2, <1>3 DEF TickInv, tvars, OnePush, TicksWritten, ReaderFinds, TickRoom, Floor,
                    T!Pushing, T!SlotOf
<1>4. CASE T!TickNext
  BY <1>2, <1>4, ReaderStep, PusherStep DEF T!TickNext, TickInv
<1> QED BY <1>1, <1>3, <1>4

\* While pushes do not overlap, read_at() returns no tick older than the one
\* asked for, but for the newest, and len() is at most the capacity between
\* pushes, for any pushers, readers and capacity; with the types throughout.
THEOREM TickReadsHold == MCSpec => []TickReads
<1>1. MCInit => TickInv
  <2> SUFFICES ASSUME MCInit PROVE TickInv
    OBVIOUS
  <2> USE TickConstants DEF MCInit, T!TickInit
  <2>1. overlap \in BOOLEAN
    BY Zenon
  <2>2. T!TickTypeOK
    BY <2>1 DEF T!TickTypeOK
  <2>3. TickCopies /\ OnePush /\ TicksWritten /\ ReaderFinds /\ TickRoom
    BY DEF TickCopies, OnePush, TicksWritten, ReaderFinds, TickRoom, T!Pushing
  <2> QED BY <2>2, <2>3 DEF TickInv
<1>2. TickInv => TickReads
  BY DEF TickInv, ReaderFinds, TickRoom, Floor, TickReads, T!TickFresh, T!TickLen
<1> QED BY <1>1, <1>2, TickInvStep, PTL DEF MCSpec
=============================================================================
