------------------------ MODULE WaitFreeRwLockProofs ------------------------
(***************************************************************************)
(* Exclusion, the reader count and whole reads of the reader-writer lock,  *)
(* for any finite sets of threads.  write() does not exclude a second      *)
(* writer, so the theorems assume the discipline under which the code is   *)
(* right: a single thread that calls write(), or only callers of           *)
(* try_write().                                                            *)
(***************************************************************************)
EXTENDS MCRwLock, FiniteSetTheorems, TLAPS

OneUpdater == \A a, b \in Updaters : a = b

WriterDiscipline == (TryWriters = {} /\ OneUpdater) \/ Updaters = {}

\* The discipline as it shows in a state: who must not write is idle.
Disciplined ==
    \/ OneUpdater /\ \A w \in TryWriters : pc[w] = "idle"
    \/ \A w \in Updaters : pc[w] = "idle"

\* A write guard shows in the word as exactly the writer bit.
WriterShows == WriteGuards # {} => state = WRITER_FLAG

\* A try_read() or try_write() that is about to CAS has passed its test, and
\* a thread in the loop of read() or write() called one of these.
TryTested ==
    \A t \in Threads :
        /\ pc[t] = "try" => /\ t \in Readers => ~HasWriter(current[t])
                            /\ t \in Writers => current[t] = 0
        /\ pc[t] = "spin" => t \notin TryWriters

\* The halves differ only while a writer is between them.
WholeValue == (\A w \in Writers : pc[w] # "hi") => lo = hi

\* The inductive invariant.
IInv == /\ TypeOK
        /\ Exclusive
        /\ CountsReaders
        /\ WriterShows
        /\ TryTested
        /\ WholeValue
        /\ NoTornRead

-----------------------------------------------------------------------------
\* The read guards are finitely many and fewer than the writer bit.
LEMMA GuardsFinite ==
    /\ IsFiniteSet(ReadGuards)
    /\ Cardinality(ReadGuards) \in Nat
    /\ Cardinality(ReadGuards) < WRITER_FLAG
    /\ WRITER_FLAG > 0
<1>1. ReadGuards \subseteq Threads
  BY DEF ReadGuards, Threads
<1>2. /\ IsFiniteSet(ReadGuards)
      /\ Cardinality(ReadGuards) <= Cardinality(Threads)
  BY <1>1, FS_Subset, RwAssumption
<1>3. Cardinality(ReadGuards) \in Nat /\ Cardinality(Threads) \in Nat
  BY <1>2, FS_CardinalityType, RwAssumption
<1> QED BY <1>2, <1>3, RwAssumption

\* The initial state satisfies the inductive invariant.
LEMMA InitIInv == Init => IInv
<1> SUFFICES ASSUME Init PROVE IInv
  OBVIOUS
<1>1. ReadGuards = {} /\ WriteGuards = {}
  BY DEF Init, ReadGuards, WriteGuards, Holding, Threads, Writers
<1>2. Cardinality(ReadGuards) = 0
  BY <1>1, FS_EmptySet
<1>3. TypeOK
  BY GuardsFinite, RwAssumption DEF Init, TypeOK, Word, PC
<1>4. TryTested /\ WholeValue /\ NoTornRead
  BY DEF Init, TryTested, WholeValue, NoTornRead, Threads, Writers
<1> QED BY <1>1, <1>2, <1>3, <1>4
  DEF Init, IInv, Exclusive, CountsReaders, WriterShows

\* Every step keeps the variables in their types.
LEMMA TypeStep == TypeOK /\ [Next]_vars => TypeOK'
<1> SUFFICES ASSUME TypeOK, [Next]_vars PROVE TypeOK'
  OBVIOUS
<1> USE RwAssumption, GuardsFinite DEF TypeOK, PC, Goto, UnchangedData, Word
<1>1. ASSUME NEW t \in Threads, LoadForLoop(t) PROVE TypeOK'
  BY <1>1 DEF LoadForLoop
<1>2. ASSUME NEW t \in Threads, SpinReload(t) PROVE TypeOK'
  BY <1>2 DEF SpinReload
<1>3. ASSUME NEW t \in Threads, SpinCas(t) PROVE TypeOK'
  <2>1. \A w \in Word : ReaderCount(w) \in 0 .. (WRITER_FLAG - 1)
    BY DEF ReaderCount, HasWriter
  <2>2. \A w \in Word : Wanted(t, w) \in Word
    BY <2>1 DEF Wanted
  <2> QED BY <1>3, <2>2 DEF SpinCas
<1>4. ASSUME NEW t \in Threads, TryLoad(t) PROVE TypeOK'
  BY <1>4 DEF TryLoad
<1>5. ASSUME NEW t \in Threads, TryCas(t) PROVE TypeOK'
  <2>1. \A w \in Word : ReaderCount(w) \in 0 .. (WRITER_FLAG - 1)
    BY DEF ReaderCount, HasWriter
  <2>2. \A w \in Word : Wanted(t, w) \in Word
    BY <2>1 DEF Wanted
  <2> QED BY <1>5, <2>2 DEF TryCas
<1>6. ASSUME NEW t \in Threads, ReadLo(t) \/ ReadHi(t) PROVE TypeOK'
  BY <1>6 DEF ReadLo, ReadHi
<1>7. ASSUME NEW t \in Threads, WriteLo(t) \/ WriteHi(t) PROVE TypeOK'
  BY <1>7 DEF WriteLo, WriteHi
<1>8. ASSUME NEW t \in Threads, BumpGeneration(t) PROVE TypeOK'
  BY <1>8 DEF BumpGeneration
<1>9. ASSUME NEW t \in Threads, DropReadGuard(t) PROVE TypeOK'
  BY <1>9 DEF DropReadGuard, Sub1
<1>10. ASSUME NEW t \in Threads, DropWriteGuard(t) PROVE TypeOK'
  BY <1>10 DEF DropWriteGuard
<1>11. CASE UNCHANGED vars
  BY <1>11 DEF vars
<1> QED
  BY <1>1, <1>2, <1>3, <1>4, <1>5, <1>6, <1>7, <1>8, <1>9, <1>10, <1>11
  DEF Next, Step

-----------------------------------------------------------------------------
\* A step that moves a thread between two places without a guard and leaves
\* word and value alone preserves the invariant, if the thread keeps TryTested.
LEMMA NoGuardStep ==
    ASSUME IInv, TypeOK', NEW t \in Threads, NEW l \in {"idle", "spin", "try"},
           ~Holding(t), pc' = [pc EXCEPT ![t] = l],
           \A u \in Threads \ {t} : current'[u] = current[u],
           UNCHANGED <<state, lo, hi, got>>,
           l = "try" => /\ t \in Readers => ~HasWriter(current'[t])
                        /\ t \in Writers => current'[t] = 0,
           l = "spin" => t \notin TryWriters
    PROVE  IInv'
<1>1. \A u \in Threads : Holding(u)' = Holding(u)
  BY DEF Holding, IInv, TypeOK
<1>2. ReadGuards' = ReadGuards /\ WriteGuards' = WriteGuards
  BY <1>1 DEF ReadGuards, WriteGuards, Threads, Writers
<1>3. Exclusive' /\ CountsReaders' /\ WriterShows'
  BY <1>2 DEF IInv, Exclusive, CountsReaders, WriterShows
<1>4. TryTested'
  BY DEF IInv, TypeOK, TryTested, HasWriter
<1>5. \A u \in Threads : (pc'[u] = "hi") <=> (pc[u] = "hi")
  BY DEF IInv, TypeOK, Holding
<1>6. WholeValue' /\ NoTornRead'
  BY <1>5 DEF IInv, WholeValue, NoTornRead, Threads, Writers
<1> QED BY <1>3, <1>4, <1>6 DEF IInv

\* A reader that takes the word over one without the writer bit finds no
\* write guard, and is counted.
LEMMA ReaderEnters ==
    ASSUME IInv, TypeOK', NEW t \in Readers, ~Holding(t), ~HasWriter(state),
           state' = ReaderCount(state) + 1, pc' = [pc EXCEPT ![t] = "lo"],
           UNCHANGED <<lo, hi, got, current>>
    PROVE  IInv'
<1>1. WriteGuards = {}
  BY DEF IInv, TypeOK, WriterShows, HasWriter, Word
<1>2. state = Cardinality(ReadGuards) /\ state' = state + 1
  BY <1>1 DEF IInv, CountsReaders, ReaderCount
<1>3. ReadGuards' = ReadGuards \cup {t} /\ t \notin ReadGuards
  BY DEF ReadGuards, Holding, IInv, TypeOK, Threads
<1>4. t \notin Writers
  BY RwAssumption
<1>5. WriteGuards' = {}
  BY <1>1, <1>4 DEF WriteGuards, Holding, IInv, TypeOK, Threads, Writers
<1>6. Cardinality(ReadGuards') = Cardinality(ReadGuards) + 1
  BY <1>3, GuardsFinite, FS_AddElement
<1>7. Exclusive' /\ CountsReaders' /\ WriterShows'
  BY <1>2, <1>5, <1>6 DEF Exclusive, CountsReaders, WriterShows
<1>8. TryTested'
  BY DEF IInv, TypeOK, TryTested, HasWriter
<1>9. WholeValue' /\ NoTornRead'
  <2>1. \A u \in Threads : (pc'[u] = "hi") <=> (pc[u] = "hi")
    BY DEF IInv, TypeOK, Holding, Threads
  <2> QED BY <2>1 DEF IInv, WholeValue, NoTornRead, Threads, Writers
<1> QED BY <1>7, <1>8, <1>9 DEF IInv

\* A writer that takes the word over 0 finds no guard at all.
LEMMA WriterEnters ==
    ASSUME IInv, TypeOK', NEW t \in Writers, ~Holding(t), state = 0,
           state' = WRITER_FLAG, pc' = [pc EXCEPT ![t] = "lo"],
           UNCHANGED <<lo, hi, got, current>>
    PROVE  IInv'
<1>1. WriteGuards = {}
  BY GuardsFinite, RwAssumption DEF IInv, WriterShows
<1>2. ReadGuards = {}
  BY <1>1, GuardsFinite, FS_EmptySet DEF IInv, CountsReaders
<1>3. t \notin Readers
  BY RwAssumption
<1>4. ReadGuards' = {}
  BY <1>2, <1>3 DEF ReadGuards, Holding, IInv, TypeOK, Threads
<1>5. WriteGuards' = {t}
  BY <1>1 DEF WriteGuards, Holding, IInv, TypeOK, Threads
<1>6. Exclusive' /\ CountsReaders' /\ WriterShows'
  BY <1>4, <1>5 DEF Exclusive, CountsReaders, WriterShows
<1>7. TryTested'
  BY DEF IInv, TypeOK, TryTested, HasWriter
<1>8. WholeValue' /\ NoTornRead'
  <2>1. \A u \in Threads : (pc'[u] = "hi") <=> (pc[u] = "hi")
    BY DEF IInv, TypeOK, Holding, Threads
  <2> QED BY <2>1 DEF IInv, WholeValue, NoTornRead, Threads, Writers
<1> QED BY <1>6, <1>7, <1>8 DEF IInv

\* A step of a guard holder between two places inside its guard keeps the
\* guards and the word.
LEMMA InsideStep ==
    ASSUME IInv, NEW t \in Threads, NEW l \in {"hi", "gen", "drop"},
           Holding(t), pc' = [pc EXCEPT ![t] = l],
           UNCHANGED <<state, current>>
    PROVE  /\ ReadGuards' = ReadGuards /\ WriteGuards' = WriteGuards
           /\ Exclusive' /\ CountsReaders' /\ WriterShows' /\ TryTested'
<1>1. \A u \in Threads : Holding(u)' = Holding(u)
  BY DEF Holding, IInv, TypeOK
<1>2. ReadGuards' = ReadGuards /\ WriteGuards' = WriteGuards
  BY <1>1 DEF ReadGuards, WriteGuards, Threads, Writers
<1>3. TryTested'
  BY DEF IInv, TypeOK, TryTested, HasWriter
<1> QED BY <1>2, <1>3 DEF IInv, Exclusive, CountsReaders, WriterShows

-----------------------------------------------------------------------------
\* Under the discipline, every step preserves the inductive invariant.
LEMMA StepIInv ==
    ASSUME Disciplined, IInv, [Next]_vars PROVE IInv'
<1>t. TypeOK'
  BY TypeStep DEF IInv
<1>1. ASSUME NEW t \in Threads, LoadForLoop(t) PROVE IInv'
  <2>1. ~Holding(t) /\ t \notin TryWriters
    BY <1>1, RwAssumption DEF LoadForLoop, Holding, Writers
  <2> QED BY <1>1, <1>t, <2>1, NoGuardStep
    DEF LoadForLoop, Goto, UnchangedData, IInv, TypeOK
<1>2. ASSUME NEW t \in Threads, SpinReload(t) PROVE IInv'
  <2>1. ~Holding(t) /\ pc' = [pc EXCEPT ![t] = "spin"] /\ t \notin TryWriters
    BY <1>2 DEF SpinReload, Holding, IInv, TypeOK, TryTested
  <2> QED BY <1>2, <1>t, <2>1, NoGuardStep
    DEF SpinReload, UnchangedData, IInv, TypeOK
<1>3. ASSUME NEW t \in Threads, SpinCas(t) PROVE IInv'
  <2>1. ~Holding(t) /\ t \notin TryWriters
    BY <1>3 DEF SpinCas, Holding, IInv, TryTested
  <2>2. CASE state # current[t]
    <3>1. pc' = [pc EXCEPT ![t] = "spin"]
      BY <1>3, <2>2 DEF SpinCas, IInv, TypeOK
    <3> QED BY <1>3, <1>t, <2>1, <2>2, <3>1, NoGuardStep
      DEF SpinCas, UnchangedData, IInv, TypeOK
  <2>3. CASE state = current[t] /\ t \in Readers
    <3>1. ~HasWriter(state)
      BY <1>3, <2>3 DEF SpinCas, MustRetry, ReaderRetries
    <3> QED BY <1>3, <1>t, <2>1, <2>3, <3>1, ReaderEnters
      DEF SpinCas, Goto, Wanted, UnchangedData
  <2>4. CASE state = current[t] /\ t \notin Readers
    <3>1. t \in Writers
      BY <2>4 DEF Threads
    <3>2. state = 0 \/ state = WRITER_FLAG
      BY <1>3, <2>4 DEF SpinCas, MustRetry, WriterRetries
    <3>3. t \in Updaters
      BY <2>1, <3>1 DEF Writers
    <3>4. ASSUME state = WRITER_FLAG PROVE FALSE
      <4>1. WriteGuards # {}
        BY <3>4, GuardsFinite DEF IInv, CountsReaders
      <4>2. PICK w \in Writers : Holding(w)
        BY <4>1 DEF WriteGuards
      <4>3. w = t
        <5>1. pc[t] # "idle" /\ pc[w] # "idle"
          BY <1>3, <4>2 DEF SpinCas, Holding
        <5> QED BY <3>3, <4>2, <5>1 DEF Disciplined, OneUpdater, Writers
      <4> QED BY <4>2, <4>3, <2>1
    <3> QED BY <1>3, <1>t, <2>1, <2>4, <3>1, <3>2, <3>4, WriterEnters
      DEF SpinCas, Goto, Wanted, UnchangedData
  <2> QED BY <2>2, <2>3, <2>4
<1>4. ASSUME NEW t \in Threads, TryLoad(t) PROVE IInv'
  <2>1. ~Holding(t)
    BY <1>4 DEF TryLoad, Holding
  <2>2. current'[t] = state
    BY <1>4 DEF TryLoad, IInv, TypeOK
  <2>3. /\ t \in Readers => ~HasWriter(current'[t])
        /\ t \in Writers => current'[t] = 0
    BY <1>4, <2>2, RwAssumption DEF TryLoad, Writers
  <2> QED BY <1>4, <1>t, <2>1, <2>3, NoGuardStep
    DEF TryLoad, Goto, UnchangedData, IInv, TypeOK
<1>5. ASSUME NEW t \in Threads, TryCas(t) PROVE IInv'
  <2>1. ~Holding(t)
    BY <1>5 DEF TryCas, Holding
  <2>2. CASE state # current[t]
    BY <1>5, <1>t, <2>1, <2>2, NoGuardStep
    DEF TryCas, Goto, UnchangedData
  <2>3. CASE state = current[t] /\ t \in Readers
    <3>1. ~HasWriter(state)
      BY <1>5, <2>3 DEF TryCas, IInv, TryTested
    <3> QED BY <1>5, <1>t, <2>1, <2>3, <3>1, ReaderEnters
      DEF TryCas, Goto, Wanted, UnchangedData
  <2>4. CASE state = current[t] /\ t \notin Readers
    <3>1. t \in Writers /\ state = 0
      BY <1>5, <2>4 DEF TryCas, IInv, TryTested, Threads
    <3> QED BY <1>5, <1>t, <2>1, <2>4, <3>1, WriterEnters
      DEF TryCas, Goto, Wanted, UnchangedData
  <2> QED BY <2>2, <2>3, <2>4
<1>6. ASSUME NEW t \in Threads, ReadLo(t) PROVE IInv'
  <2>1. t \in ReadGuards /\ WriteGuards = {}
    BY <1>6 DEF ReadLo, ReadGuards, Holding, IInv, Exclusive
  <2>2. /\ Exclusive' /\ CountsReaders' /\ WriterShows' /\ TryTested'
    BY <1>6, InsideStep DEF ReadLo, Goto, Holding
  <2>3. \A w \in Writers : pc[w] # "hi"
    BY <2>1 DEF WriteGuards, Holding
  <2>4. lo = hi
    BY <2>3 DEF IInv, WholeValue
  <2>5. WholeValue' /\ NoTornRead'
    BY <1>6, <2>4 DEF ReadLo, Goto, IInv, TypeOK, WholeValue, NoTornRead, Threads
  <2> QED BY <1>t, <2>2, <2>5 DEF IInv
<1>7. ASSUME NEW t \in Threads, ReadHi(t) PROVE IInv'
  <2>1. Exclusive' /\ CountsReaders' /\ WriterShows' /\ TryTested'
    BY <1>7, InsideStep DEF ReadHi, Goto, Holding
  <2>2. t \notin Writers
    BY <1>7, RwAssumption DEF ReadHi
  <2>3. WholeValue' /\ NoTornRead'
    BY <1>7, <2>2
    DEF ReadHi, Goto, IInv, TypeOK, WholeValue, NoTornRead, Threads, Writers
  <2> QED BY <1>t, <2>1, <2>3 DEF IInv
<1>8. ASSUME NEW t \in Threads, WriteLo(t) \/ WriteHi(t) PROVE IInv'
  <2>1. t \in WriteGuards /\ ReadGuards = {}
    BY <1>8 DEF WriteLo, WriteHi, WriteGuards, Holding, IInv, Exclusive
  <2>2. PICK l \in {"hi", "gen", "drop"} : pc' = [pc EXCEPT ![t] = l]
    BY <1>8 DEF WriteLo, WriteHi, Goto
  <2>3. /\ ReadGuards' = ReadGuards
        /\ Exclusive' /\ CountsReaders' /\ WriterShows' /\ TryTested'
    BY <1>8, <2>2, InsideStep DEF WriteLo, WriteHi, Holding
  <2>4. NoTornRead'
    BY <2>1, <2>3 DEF ReadGuards, Holding, NoTornRead
  <2>5. WholeValue'
    <3>1. CASE WriteLo(t)
      <4>1. t \in Writers /\ pc'[t] = "hi"
        BY <3>1 DEF WriteLo, Goto, IInv, TypeOK
      <4> QED BY <4>1 DEF WholeValue
    <3>2. CASE WriteHi(t)
      BY <3>2 DEF WriteHi, WholeValue
    <3> QED BY <1>8, <3>1, <3>2
  <2> QED BY <1>t, <2>3, <2>4, <2>5 DEF IInv
<1>9. ASSUME NEW t \in Threads, BumpGeneration(t) PROVE IInv'
  <2>1. Exclusive' /\ CountsReaders' /\ WriterShows' /\ TryTested'
    BY <1>9, InsideStep DEF BumpGeneration, Goto, Holding
  <2>2. WholeValue' /\ NoTornRead'
    BY <1>9
    DEF BumpGeneration, Goto, IInv, TypeOK, WholeValue, NoTornRead, Threads, Writers
  <2> QED BY <1>t, <2>1, <2>2 DEF IInv
<1>10. ASSUME NEW t \in Threads, DropReadGuard(t) PROVE IInv'
  <2>1. t \in ReadGuards /\ WriteGuards = {}
    BY <1>10 DEF DropReadGuard, ReadGuards, Holding, IInv, Exclusive
  <2>2. ReadGuards' = ReadGuards \ {t}
    BY <1>10 DEF DropReadGuard, Goto, ReadGuards, Holding, IInv, TypeOK, Threads
  <2>3. Cardinality(ReadGuards') = Cardinality(ReadGuards) - 1
    BY <2>1, <2>2, GuardsFinite, FS_RemoveElement
  <2>4. WriteGuards' = {}
    BY <1>10, <2>1
    DEF DropReadGuard, Goto, WriteGuards, Holding, IInv, TypeOK, Threads, Writers
  <2>5. state = Cardinality(ReadGuards) /\ state # 0
    BY <2>1, GuardsFinite, FS_EmptySet DEF IInv, CountsReaders
  <2>6. state' = state - 1
    BY <1>10, <2>5 DEF DropReadGuard, Sub1
  <2>7. Exclusive' /\ CountsReaders' /\ WriterShows'
    BY <2>3, <2>4, <2>5, <2>6 DEF Exclusive, CountsReaders, WriterShows
  <2>8. TryTested'
    BY <1>10 DEF DropReadGuard, Goto, UnchangedData, IInv, TypeOK, TryTested, HasWriter
  <2>9. WholeValue' /\ NoTornRead'
    BY <1>10 DEF DropReadGuard, Goto, UnchangedData, IInv, TypeOK, WholeValue,
                 NoTornRead, Threads, Writers
  <2> QED BY <1>t, <2>7, <2>8, <2>9 DEF IInv
<1>11. ASSUME NEW t \in Threads, DropWriteGuard(t) PROVE IInv'
  <2>1. WriteGuards = {t} /\ ReadGuards = {}
    BY <1>11 DEF DropWriteGuard, WriteGuards, Holding, IInv, Exclusive
  <2>2. t \notin Readers
    BY <1>11, RwAssumption DEF DropWriteGuard
  <2>3. WriteGuards' = {}
    BY <1>11, <2>1
    DEF DropWriteGuard, Goto, WriteGuards, Holding, IInv, TypeOK, Threads, Writers
  <2>4. ReadGuards' = {}
    BY <1>11, <2>1, <2>2
    DEF DropWriteGuard, Goto, ReadGuards, Holding, IInv, TypeOK, Threads
  <2>5. Exclusive' /\ CountsReaders' /\ WriterShows'
    BY <1>11, <2>3, <2>4, FS_EmptySet
    DEF DropWriteGuard, Exclusive, CountsReaders, WriterShows
  <2>6. TryTested'
    BY <1>11 DEF DropWriteGuard, Goto, UnchangedData, IInv, TypeOK, TryTested, HasWriter
  <2>7. WholeValue' /\ NoTornRead'
    BY <1>11 DEF DropWriteGuard, Goto, UnchangedData, IInv, TypeOK, WholeValue,
                 NoTornRead, Threads, Writers
  <2> QED BY <1>t, <2>5, <2>6, <2>7 DEF IInv
<1>12. CASE UNCHANGED vars
  BY <1>12 DEF vars, IInv, TypeOK, Exclusive, CountsReaders, WriterShows, TryTested,
               WholeValue, NoTornRead, ReadGuards, WriteGuards, Holding
<1> QED
  BY <1>1, <1>2, <1>3, <1>4, <1>5, <1>6, <1>7, <1>8, <1>9, <1>10, <1>11, <1>12
  DEF Next, Step

-----------------------------------------------------------------------------
\* Under the discipline the inductive invariant always holds.
LEMMA AlwaysIInv == ASSUME WriterDiscipline PROVE Spec => []IInv
<1>1. IInv /\ [Next]_vars => IInv'
  BY StepIInv DEF WriterDiscipline, Disciplined
<1> QED BY <1>1, InitIInv, PTL DEF Spec

\* write(), try_write(), read() and try_read() keep writers apart from
\* everybody else.
THEOREM RwExclusive == ASSUME WriterDiscipline PROVE Spec => []Exclusive
<1>1. IInv => Exclusive
  BY DEF IInv
<1> QED BY <1>1, AlwaysIInv, PTL

\* The count the read guards add and subtract is exact.
THEOREM RwCountsReaders == ASSUME WriterDiscipline PROVE Spec => []CountsReaders
<1>1. IInv => CountsReaders
  BY DEF IInv
<1> QED BY <1>1, AlwaysIInv, PTL

\* A reader between its two reads never sees a value being written.
THEOREM RwNoTornRead == ASSUME WriterDiscipline PROVE Spec => []NoTornRead
<1>1. IInv => NoTornRead
  BY DEF IInv
<1> QED BY <1>1, AlwaysIInv, PTL

-----------------------------------------------------------------------------
(* ReadMostly under one updater, among the other uses of the locks.         *)

\* Who must not write in the present use is idle, only an updater is ever at
\* the generation, and the value is one update ahead of the generation exactly
\* between the updater's first store and its bump.
UpdateInv ==
    /\ IInv
    /\ usage # "update" => \A u \in Updaters : pc[u] = "idle"
    /\ usage # "try_write" => \A w \in TryWriters : pc[w] = "idle"
    /\ \A t \in Threads : pc[t] = "gen" => t \in Updaters
    /\ usage = "update" =>
          /\ \A u \in Updaters : pc[u] \in {"hi", "gen"} => lo = generation + 1
          /\ (\A u \in Updaters : pc[u] \notin {"hi", "gen"}) => lo = generation

\* Every step of every use of the locks preserves it.
LEMMA UpdateStep ==
    ASSUME OneUpdater, UpdateInv, [MCNext]_<<vars, usage, seqVars, tvars>>
    PROVE  UpdateInv'
<1> USE RwAssumption
<1>1. Disciplined
  BY Zenon DEF UpdateInv, Disciplined
<1>2. ASSUME UNCHANGED <<vars, usage>> PROVE UpdateInv'
  <2>1. IInv'
    BY <1>1, <1>2, StepIInv DEF UpdateInv
  <2> QED BY <1>2, <2>1 DEF UpdateInv, vars
<1>3. ASSUME NEW t \in Threads, MCStep(t) PROVE UpdateInv'
  <2> DEFINE Behind(u) == pc[u] \in {"hi", "gen"}
  <2>1. IInv' /\ TypeOK /\ TypeOK'
    BY <1>1, <1>3, StepIInv DEF UpdateInv, MCStep, Next, IInv
  <2>2. usage' = usage
    BY <1>3 DEF MCStep
  <2>3. \A u \in Threads : u # t => pc'[u] = pc[u]
    BY <1>3, <2>1 DEF MCStep, Step, LoadForLoop, SpinReload, SpinCas, TryLoad, TryCas,
       ReadLo, ReadHi, WriteLo, WriteHi, BumpGeneration, DropReadGuard, DropWriteGuard,
       Goto, TypeOK
  <2>4. /\ usage # "update" => \A u \in Updaters : pc'[u] = "idle"
        /\ usage # "try_write" => \A w \in TryWriters : pc'[w] = "idle"
    BY <1>3, <2>3 DEF MCStep, UpdateInv, Threads, Writers
  <2>5. \A u \in Threads : pc'[u] = "gen" => u \in Updaters
    BY <1>3, <2>1, <2>3 DEF UpdateInv, MCStep, Step, LoadForLoop, SpinReload, SpinCas,
       TryLoad, TryCas, ReadLo, ReadHi, WriteLo, WriteHi, BumpGeneration, DropReadGuard,
       DropWriteGuard, Goto, TypeOK
  <2>6. ASSUME usage = "update"
        PROVE  /\ \A u \in Updaters : Behind(u)' => lo' = generation' + 1
               /\ (\A u \in Updaters : ~Behind(u)') => lo' = generation'
    <3>1. CASE t \in Readers
      <4>1. UNCHANGED <<lo, generation>>
        BY <1>3, <3>1, <2>5 DEF UpdateInv, MCStep, Step, LoadForLoop, SpinReload, SpinCas,
           TryLoad, TryCas, ReadLo, ReadHi, WriteLo, WriteHi, BumpGeneration,
           DropReadGuard, DropWriteGuard, UnchangedData, Writers
      <4>2. \A u \in Updaters : pc'[u] = pc[u]
        BY <3>1, <2>3 DEF Threads, Writers
      <4> QED BY <4>1, <4>2, <2>6 DEF UpdateInv
    <3>2. CASE t \in Updaters
      <4>1. \A u \in Updaters : u = t
        BY <3>2 DEF OneUpdater
      <4>2. /\ Behind(t) => lo = generation + 1
            /\ ~Behind(t) => lo = generation
        BY <2>6, <3>2, <4>1 DEF UpdateInv
      <4>3. /\ Behind(t)' => lo' = generation' + 1
            /\ ~Behind(t)' => lo' = generation'
        <5>1. CASE LoadForLoop(t) \/ SpinReload(t) \/ SpinCas(t) \/ TryLoad(t) \/ TryCas(t)
                   \/ DropReadGuard(t) \/ DropWriteGuard(t)
          BY <5>1, <2>1, <4>2 DEF LoadForLoop, SpinReload, SpinCas, TryLoad, TryCas,
             DropReadGuard, DropWriteGuard, Goto, UnchangedData, TypeOK
        <5>2. CASE WriteLo(t) \/ WriteHi(t) \/ BumpGeneration(t)
          BY <5>2, <2>1, <4>2, <3>2 DEF WriteLo, WriteHi, BumpGeneration, Goto, TypeOK
        <5>3. CASE ReadLo(t) \/ ReadHi(t)
          BY <5>3, <3>2 DEF ReadLo, ReadHi, Writers
        <5> QED BY <1>3, <5>1, <5>2, <5>3 DEF MCStep, Step
      <4> QED BY <3>2, <4>1, <4>3
    <3> QED BY <1>3, <2>6, <3>1, <3>2 DEF MCStep, Threads, Writers
  <2> QED BY <2>1, <2>2, <2>4, <2>5, <2>6 DEF UpdateInv
<1> QED BY <1>2, <1>3 DEF MCNext

\* With one updater, whoever holds a read guard of a ReadMostly finds the
\* generation equal to the number of updates its value contains: update() bumps
\* it before its guard is dropped, and no read guard is out until then.
THEOREM RwUpdateGeneration == ASSUME OneUpdater PROVE MCSpec => []UpdateGeneration
<1>1. MCInit => UpdateInv
  <2> SUFFICES ASSUME MCInit PROVE UpdateInv
    OBVIOUS
  <2>1. IInv
    BY InitIInv DEF MCInit
  <2> QED BY <2>1 DEF MCInit, Init, UpdateInv, Threads, Writers
<1>2. UpdateInv /\ [MCNext]_<<vars, usage, seqVars, tvars>> => UpdateInv'
  BY UpdateStep
<1>3. UpdateInv => UpdateGeneration
  <2> SUFFICES ASSUME UpdateInv, usage = "update", ReadGuards # {} PROVE generation = lo
    BY DEF UpdateGeneration, GenerationMatchesValue
  <2>1. WriteGuards = {}
    BY DEF UpdateInv, IInv, Exclusive
  <2>2. \A u \in Updaters : pc[u] \notin {"hi", "gen"}
    BY <2>1 DEF WriteGuards, Holding, Writers
  <2> QED BY <2>2 DEF UpdateInv
<1> QED BY <1>1, <1>2, <1>3, PTL DEF MCSpec

=============================================================================
