------------------------------ MODULE SeqLock ------------------------------
(***************************************************************************)
(* The sequence lock of concurrency/lock_mod.rs.  The protected value is a *)
(* pair of halves written and read one after the other; a write leaves the *)
(* number of the write in both, so a read that mixes two writes shows two  *)
(* different numbers.  write() takes &self and no lock: nothing keeps two  *)
(* writers apart but their callers.                                        *)
(***************************************************************************)
EXTENDS Integers

CONSTANTS
    SeqReaders, SeqWriters,
    MaxTries,           \* attempts of read(): 10 in the source
    MaxSequence         \* writes begin below this sequence (a bound)

ASSUME SeqAssumption ==
    /\ SeqReaders \cap SeqWriters = {}
    /\ MaxTries \in Nat \ {0} /\ MaxSequence \in Nat

VARIABLES
    sequence,
    data_lo, data_hi,   \* the halves of `data'
    at,                 \* per thread: its place
    seq_start, tries,   \* locals of read()
    got_lo, got_hi,     \* what the closure of read() copied out
    write_overlap       \* ghost: two writes have been under way at once

seqVars == <<sequence, data_lo, data_hi, at, seq_start, tries, got_lo, got_hi, write_overlap>>
shared == <<sequence, data_lo, data_hi, write_overlap>>
readLocals == <<seq_start, tries, got_lo, got_hi>>

SeqThreads == SeqReaders \cup SeqWriters
SeqWriting == {w \in SeqWriters : at[w] \in {"lo", "hi", "end"}}

SeqTypeOK ==
    /\ {sequence, data_lo, data_hi} \subseteq Nat /\ write_overlap \in BOOLEAN
    /\ at \in [SeqThreads -> {"idle", "start", "lo", "hi", "end", "some"}]
    /\ {seq_start, tries, got_lo, got_hi} \subseteq [SeqReaders -> Nat]

SeqInit ==
    /\ sequence = 0 /\ data_lo = 0 /\ data_hi = 0 /\ write_overlap = FALSE
    /\ at = [t \in SeqThreads |-> "idle"]
    /\ seq_start = [r \in SeqReaders |-> 0] /\ tries = [r \in SeqReaders |-> 0]
    /\ got_lo = [r \in SeqReaders |-> 0] /\ got_hi = [r \in SeqReaders |-> 0]

SeqGoto(t, label) == at' = [at EXCEPT ![t] = label]

-----------------------------------------------------------------------------
(* read().                                                                  *)

\* A new call; what the last one returned is gone.
ReadCall(r) ==
    /\ at[r] \in {"idle", "some"}
    /\ SeqGoto(r, "start")
    /\ tries' = [tries EXCEPT ![r] = 1]
    /\ UNCHANGED <<shared, seq_start, got_lo, got_hi>>

\* `continue', or None once the attempts are used up.
Retry(r) ==
    IF tries[r] < MaxTries
      THEN SeqGoto(r, "start") /\ tries' = [tries EXCEPT ![r] = @ + 1]
      ELSE SeqGoto(r, "idle") /\ UNCHANGED tries

LoadStart(r) ==
    /\ at[r] = "start"
    /\ seq_start' = [seq_start EXCEPT ![r] = sequence]
    /\ IF sequence % 2 # 0 THEN Retry(r) ELSE SeqGoto(r, "lo") /\ UNCHANGED tries
    /\ UNCHANGED <<shared, got_lo, got_hi>>

SeqReadLo(r) ==
    /\ at[r] = "lo"
    /\ got_lo' = [got_lo EXCEPT ![r] = data_lo]
    /\ SeqGoto(r, "hi")
    /\ UNCHANGED <<shared, seq_start, tries, got_hi>>

SeqReadHi(r) ==
    /\ at[r] = "hi"
    /\ got_hi' = [got_hi EXCEPT ![r] = data_hi]
    /\ SeqGoto(r, "end")
    /\ UNCHANGED <<shared, seq_start, tries, got_lo>>

\* The end is only tested for a write in progress (a mutated form).
Bug_EvenIsEnough(r) ==
    /\ at[r] = "end"
    /\ IF sequence % 2 = 0 THEN SeqGoto(r, "some") /\ UNCHANGED tries ELSE Retry(r)
    /\ UNCHANGED <<shared, seq_start, got_lo, got_hi>>

LoadEnd(r) ==
    /\ at[r] = "end"
    /\ IF sequence = seq_start[r] THEN SeqGoto(r, "some") /\ UNCHANGED tries ELSE Retry(r)
    /\ UNCHANGED <<shared, seq_start, got_lo, got_hi>>

-----------------------------------------------------------------------------
(* write().                                                                 *)

WriteBegin(w) ==
    /\ at[w] = "idle" /\ sequence < MaxSequence
    /\ sequence' = sequence + 1
    /\ write_overlap' = (write_overlap \/ SeqWriting # {})
    /\ SeqGoto(w, "lo")
    /\ UNCHANGED <<data_lo, data_hi, readLocals>>

SeqWriteLo(w) ==
    /\ at[w] = "lo"
    /\ data_lo' = data_lo + 1
    /\ SeqGoto(w, "hi")
    /\ UNCHANGED <<sequence, data_hi, write_overlap, readLocals>>

SeqWriteHi(w) ==
    /\ at[w] = "hi"
    /\ data_hi' = data_hi + 1
    /\ SeqGoto(w, "end")
    /\ UNCHANGED <<sequence, data_lo, write_overlap, readLocals>>

WriteEnd(w) ==
    /\ at[w] = "end"
    /\ sequence' = sequence + 1
    /\ SeqGoto(w, "idle")
    /\ UNCHANGED <<data_lo, data_hi, write_overlap, readLocals>>

-----------------------------------------------------------------------------
SeqRead(r) == ReadCall(r) \/ LoadStart(r) \/ SeqReadLo(r) \/ SeqReadHi(r) \/ LoadEnd(r)
SeqWrite(w) == WriteBegin(w) \/ SeqWriteLo(w) \/ SeqWriteHi(w) \/ WriteEnd(w)

SeqNext == (\E r \in SeqReaders : SeqRead(r)) \/ (\E w \in SeqWriters : SeqWrite(w))

SeqSpec == SeqInit /\ [][SeqNext]_seqVars

\* While writes do not overlap, what read() returns is the whole of one write:
\* exactly the one whose end its first load of the sequence saw.
WholeRead ==
    ~write_overlap => \A r \in SeqReaders : at[r] = "some" =>
                    got_lo[r] = got_hi[r] /\ seq_start[r] = 2 * got_lo[r]
=============================================================================
