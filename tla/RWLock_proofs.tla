---------------------------- MODULE RWLock_proofs ----------------------------
(***************************************************************************)
(* Proofs about the reader-preference lock, for any finite set of threads. *)
(***************************************************************************)
EXTENDS RWLock, FiniteSetTheorems, TLAPS

\* The inductive invariant.  The exclusion needs the two fields to tell the
\* truth about where the threads are, and the wakeup properties need both.
IInv ==
    /\ TypeOK
    /\ CountsReaders
    /\ FlagsWriter
    /\ Exclusion
    /\ NoReaderLeftParked
    /\ NoWriterSignalLost

\* A set of threads is finite, no larger than Threads, and empty iff it counts 0.
LEMMA ThreadSets ==
    ASSUME NEW S \in SUBSET Threads
    PROVE  /\ IsFiniteSet(S)
           /\ Cardinality(S) \in 0 .. Cardinality(Threads)
           /\ Cardinality(S) = 0 <=> S = {}
<1>1. IsFiniteSet(Threads) /\ IsFiniteSet(S) /\ Cardinality(S) <= Cardinality(Threads)
  BY ThreadsFinite, FS_Subset
<1>2. Cardinality(S) \in Nat /\ Cardinality(Threads) \in Nat
  BY <1>1, FS_CardinalityType
<1>3. Cardinality(S) = 0 <=> S = {}
  BY <1>1, FS_EmptySet
<1> QED
  BY <1>1, <1>2, <1>3

\* reader_count is 0 exactly when no thread reads.
LEMMA NoReaders ==
    ASSUME CountsReaders
    PROVE  reader_count = 0 <=> \A t \in Threads : at[t] # "reading"
<1>1. In("reading") \in SUBSET Threads
  BY DEF In
<1>2. Cardinality(In("reading")) = 0 <=> In("reading") = {}
  BY <1>1, ThreadSets
<1> QED
  BY <1>2 DEF CountsReaders, In

\* What a signal does: at most one parked writer moves, and one does if any can.
LEMMA SignalEffect ==
    ASSUME NEW after \in [Threads -> Location], SignalCanWrite(after)
    PROVE  \/ at' = after /\ \A u \in Threads : at[u] # "wait_write"
           \/ \E w \in Threads : /\ at[w] = "wait_write"
                                 /\ at' = [after EXCEPT ![w] = "retry_write"]
  BY DEF SignalCanWrite, In

LEMMA TypeInit == InitalizeReadWriteLock => IInv
<1> SUFFICES ASSUME InitalizeReadWriteLock PROVE IInv
  OBVIOUS
<1>1. In("reading") = {} /\ In("writing") = {} /\ In("wait_read") = {}
      /\ In("wait_write") = {}
  BY DEF InitalizeReadWriteLock, In
<1>2. Cardinality({}) = 0 /\ Cardinality({}) \in 0 .. Cardinality(Threads)
  BY ThreadSets
<1> QED
  BY <1>1, <1>2 DEF InitalizeReadWriteLock, IInv, TypeOK, Location, CountsReaders,
                    FlagsWriter, Exclusion, NoReaderLeftParked, NoWriterSignalLost

\* One step for each function of the lock: IInv survives it.
LEMMA ReaderLockKeepsIInv ==
    ASSUME IInv, NEW t \in Threads, ReaderLock(t)
    PROVE  IInv'
<1> USE DEF IInv, TypeOK, Location
<1>1. CASE writer_writing
  <2>1. at' = [at EXCEPT ![t] = "wait_read"] /\ UNCHANGED <<reader_count, writer_writing>>
    BY <1>1 DEF ReaderLock
  <2>2. /\ In("reading")' = In("reading") /\ In("writing")' = In("writing")
        /\ In("wait_write")' = In("wait_write") /\ In("retry_write")' = In("retry_write")
    BY <2>1 DEF In, ReaderLock
  <2> QED
    BY <1>1, <2>1, <2>2 DEF CountsReaders, FlagsWriter, Exclusion, NoReaderLeftParked,
                            NoWriterSignalLost
<1>2. CASE ~writer_writing
  <2>1. /\ at' = [at EXCEPT ![t] = "reading"] /\ reader_count' = reader_count + 1
        /\ UNCHANGED writer_writing /\ at[t] \in {"out", "retry_read"}
    BY <1>2 DEF ReaderLock
  <2>2. /\ In("reading")' = In("reading") \union {t} /\ t \notin In("reading")
        /\ In("writing")' = In("writing") /\ In("wait_write")' = In("wait_write")
        /\ In("retry_write")' = In("retry_write") /\ In("wait_read")' = In("wait_read")
    BY <2>1 DEF In
  <2>3. In("reading") \in SUBSET Threads /\ In("reading")' \in SUBSET Threads
    BY DEF In
  <2>4. IsFiniteSet(In("reading"))
    BY <2>3, ThreadSets
  <2>5. CountsReaders'
    BY <2>1, <2>2, <2>4, FS_AddElement DEF CountsReaders
  <2>6. reader_count' \in 0 .. Cardinality(Threads) /\ reader_count' > 0
    BY <2>1, <2>3, <2>5, ThreadSets DEF CountsReaders
  <2>7. In("writing") = {}
    BY <1>2 DEF FlagsWriter
  <2> QED
    BY <1>2, <2>1, <2>2, <2>5, <2>6, <2>7 DEF FlagsWriter, Exclusion, NoReaderLeftParked,
                                              NoWriterSignalLost
<1> QED
  BY <1>1, <1>2

LEMMA ReaderUnlockKeepsIInv ==
    ASSUME IInv, NEW t \in Threads, ReaderUnlock(t)
    PROVE  IInv'
<1> USE DEF IInv, TypeOK, Location
<1> DEFINE after == [at EXCEPT ![t] = "out"]
<1>1. /\ at[t] = "reading" /\ reader_count' = reader_count - 1
      /\ UNCHANGED writer_writing
  BY DEF ReaderUnlock
<1>2. In("writing") = {} /\ ~writer_writing /\ In("wait_read") = {}
  BY <1>1 DEF Exclusion, In, FlagsWriter, NoReaderLeftParked
<1>3. \/ reader_count' = 0 /\ SignalCanWrite(after)
      \/ reader_count' # 0 /\ at' = after
  BY DEF ReaderUnlock
<1>4. after \in [Threads -> Location]
  OBVIOUS
<1>5. \/ at' = after /\ (reader_count' = 0 => In("wait_write") = {})
      \/ \E w \in Threads : at[w] = "wait_write" /\ at' = [after EXCEPT ![w] = "retry_write"]
  BY <1>3, <1>4, SignalEffect DEF In
<1>6. at' \in [Threads -> Location]
  BY <1>4, <1>5
<1>7. In("reading")' = In("reading") \ {t} /\ t \in In("reading")
  BY <1>1, <1>5 DEF In
<1>8. In("writing")' = {} /\ In("wait_read")' = {}
  BY <1>1, <1>2, <1>5 DEF In
<1>9. In("reading") \in SUBSET Threads /\ In("reading")' \in SUBSET Threads
  BY DEF In
<1>10. CountsReaders'
  <2>1. IsFiniteSet(In("reading"))
    BY <1>9, ThreadSets
  <2> QED
    BY <2>1, <1>1, <1>7, FS_RemoveElement DEF CountsReaders
<1>11. reader_count' \in 0 .. Cardinality(Threads)
  BY <1>9, <1>10, ThreadSets DEF CountsReaders
<1>12. NoWriterSignalLost'
  <2>1. CASE at' = after /\ (reader_count' = 0 => In("wait_write") = {})
    BY <2>1, <1>1, <1>11 DEF NoWriterSignalLost, In
  <2>2. CASE \E w \in Threads : /\ at[w] = "wait_write"
                                /\ at' = [after EXCEPT ![w] = "retry_write"]
    BY <2>2, <1>1 DEF NoWriterSignalLost, In
  <2> QED
    BY <2>1, <2>2, <1>5
<1> QED
  BY <1>1, <1>2, <1>6, <1>8, <1>10, <1>11, <1>12
     DEF FlagsWriter, Exclusion, NoReaderLeftParked

LEMMA WriterLockKeepsIInv ==
    ASSUME IInv, NEW t \in Threads, WriterLock(t)
    PROVE  IInv'
<1> USE DEF IInv, TypeOK, Location
<1>1. CASE reader_count > 0 \/ writer_writing
  <2>1. /\ at' = [at EXCEPT ![t] = "wait_write"] /\ at[t] \in {"out", "retry_write"}
        /\ UNCHANGED <<reader_count, writer_writing>>
    BY <1>1 DEF WriterLock
  <2>2. /\ In("reading")' = In("reading") /\ In("writing")' = In("writing")
        /\ In("wait_read")' = In("wait_read")
    BY <2>1 DEF In
  <2> QED
    BY <1>1, <2>1, <2>2 DEF CountsReaders, FlagsWriter, Exclusion, NoReaderLeftParked,
                            NoWriterSignalLost
<1>2. CASE ~(reader_count > 0 \/ writer_writing)
  <2>1. /\ at' = [at EXCEPT ![t] = "writing"] /\ at[t] \in {"out", "retry_write"}
        /\ reader_count' = reader_count /\ writer_writing' = TRUE
    BY <1>2 DEF WriterLock
  <2>2. reader_count = 0 /\ In("reading") = {} /\ In("writing") = {}
    BY <1>2, NoReaders DEF FlagsWriter, In
  <2>3. In("reading")' = In("reading") /\ In("writing")' = {t}
    BY <2>1, <2>2 DEF In
  <2> QED
    BY <2>1, <2>2, <2>3 DEF CountsReaders, FlagsWriter, Exclusion, NoReaderLeftParked,
                            NoWriterSignalLost
<1> QED
  BY <1>1, <1>2

LEMMA WriterUnlockKeepsIInv ==
    ASSUME IInv, NEW t \in Threads, WriterUnlock(t)
    PROVE  IInv'
<1> USE DEF IInv, TypeOK, Location
<1> DEFINE after == BroadcastCanRead(t)
<1>1. /\ at[t] = "writing" /\ writer_writing' = FALSE /\ reader_count' = reader_count
  BY DEF WriterUnlock
<1>2. In("reading") = {} /\ In("writing") = {t} /\ reader_count = 0
  BY <1>1, NoReaders DEF Exclusion, In
<1>3. after \in [Threads -> Location]
  BY DEF BroadcastCanRead
<1>4. SignalCanWrite(after)
  BY <1>2 DEF WriterUnlock
<1>5. \/ at' = after /\ In("wait_write") = {}
      \/ \E w \in Threads : at[w] = "wait_write" /\ at' = [after EXCEPT ![w] = "retry_write"]
  BY <1>3, <1>4, SignalEffect DEF In
<1>6. at' \in [Threads -> Location]
  BY <1>3, <1>5
<1>7. In("reading")' = {} /\ In("writing")' = {} /\ In("wait_read")' = {}
  BY <1>1, <1>2, <1>5 DEF In, BroadcastCanRead
<1>8. In("wait_write")' # {} => In("retry_write")' # {}
  BY <1>1, <1>5 DEF In, BroadcastCanRead
<1> QED
  BY <1>1, <1>2, <1>6, <1>7, <1>8
     DEF CountsReaders, FlagsWriter, Exclusion, NoReaderLeftParked, NoWriterSignalLost

LEMMA SpuriousWakeupKeepsIInv ==
    ASSUME IInv, NEW t \in Threads, SpuriousWakeup(t)
    PROVE  IInv'
<1> USE DEF IInv, TypeOK, Location
<1>1. /\ UNCHANGED <<reader_count, writer_writing>>
      /\ \/ at[t] = "wait_read"  /\ at' = [at EXCEPT ![t] = "retry_read"]
         \/ at[t] = "wait_write" /\ at' = [at EXCEPT ![t] = "retry_write"]
  BY DEF SpuriousWakeup
<1>2. In("reading")' = In("reading") /\ In("writing")' = In("writing")
  BY <1>1 DEF In
<1>3. In("wait_read")' \in SUBSET In("wait_read")
  BY <1>1 DEF In
<1>4. In("wait_write")' # {} =>
        reader_count > 0 \/ writer_writing \/ In("retry_write")' # {}
  BY <1>1 DEF In, NoWriterSignalLost
<1> QED
  BY <1>1, <1>2, <1>3, <1>4
     DEF CountsReaders, FlagsWriter, Exclusion, NoReaderLeftParked, NoWriterSignalLost

LEMMA StepKeepsIInv == IInv /\ [Next]_lockVars => IInv'
<1> SUFFICES ASSUME IInv, [Next]_lockVars PROVE IInv'
  OBVIOUS
<1>1. CASE UNCHANGED lockVars
  BY <1>1 DEF lockVars, IInv, TypeOK, CountsReaders, FlagsWriter, Exclusion,
              NoReaderLeftParked, NoWriterSignalLost, In
<1>2. ASSUME NEW t \in Threads, ReaderLock(t) PROVE IInv'
  BY <1>2, ReaderLockKeepsIInv
<1>3. ASSUME NEW t \in Threads, ReaderUnlock(t) PROVE IInv'
  BY <1>3, ReaderUnlockKeepsIInv
<1>4. ASSUME NEW t \in Threads, WriterLock(t) PROVE IInv'
  BY <1>4, WriterLockKeepsIInv
<1>5. ASSUME NEW t \in Threads, WriterUnlock(t) PROVE IInv'
  BY <1>5, WriterUnlockKeepsIInv
<1>6. ASSUME NEW t \in Threads, SpuriousWakeup(t) PROVE IInv'
  BY <1>6, SpuriousWakeupKeepsIInv
<1> QED
  BY <1>1, <1>2, <1>3, <1>4, <1>5, <1>6 DEF Next

\* The inductive invariant holds in every reachable state.
THEOREM Inductive == Spec => []IInv
  BY TypeInit, StepKeepsIInv, PTL DEF Spec

\* The fields keep their types: rwlock.c never decrements a count below zero.
THEOREM TypeCorrect == Spec => []TypeOK
<1>1. IInv => TypeOK
  BY DEF IInv
<1> QED
  BY <1>1, Inductive, PTL

\* Readers exclude a writer, and writers exclude each other.
THEOREM MutualExclusion == Spec => []Exclusion
<1>1. IInv => Exclusion
  BY DEF IInv
<1> QED
  BY <1>1, Inductive, PTL

\* No reader and no writer sleeps through the unlock it waits for.
THEOREM NoLostWakeup == Spec => []NoWakeupLost
<1>1. IInv => NoWakeupLost
  BY DEF IInv, NoWakeupLost
<1> QED
  BY <1>1, Inductive, PTL

\* A step that grants or gives back the lock is such a step of the abstract lock,
\* and every other step leaves its readers and writers alone.
LEMMA StepRefines ==
    ASSUME IInv, [Next]_lockVars
    PROVE  [Abstract!Next]_<<In("reading"), In("writing")>>
<1> DEFINE Stutters == In("reading")' = In("reading") /\ In("writing")' = In("writing")
<1> USE DEF IInv, TypeOK, Location
<1>1. CASE UNCHANGED lockVars
  BY <1>1 DEF lockVars, In
<1>2. ASSUME NEW t \in Threads, ReaderLock(t)
      PROVE  Stutters \/ Abstract!AcquireRead(t)
  <2>1. CASE writer_writing
    BY <1>2, <2>1 DEF ReaderLock, In
  <2>2. CASE ~writer_writing
    <3>1. at' = [at EXCEPT ![t] = "reading"] /\ at[t] \in {"out", "retry_read"}
      BY <1>2, <2>2 DEF ReaderLock
    <3>2. /\ In("reading")' = In("reading") \union {t} /\ t \notin In("reading")
          /\ In("writing")' = In("writing")
      BY <3>1 DEF In
    <3>3. In("writing") = {}
      BY <2>2 DEF FlagsWriter
    <3> QED
      BY <3>2, <3>3 DEF Abstract!AcquireRead
  <2> QED
    BY <2>1, <2>2
<1>3. ASSUME NEW t \in Threads, ReaderUnlock(t)
      PROVE  Abstract!ReleaseRead(t)
  <2>1. /\ at[t] = "reading"
        /\ \/ at' = [at EXCEPT ![t] = "out"]
           \/ \E w \in Threads : /\ at[w] = "wait_write"
                                 /\ at' = [at EXCEPT ![t] = "out", ![w] = "retry_write"]
    BY <1>3 DEF ReaderUnlock, SignalCanWrite, In
  <2>2. /\ In("reading")' = In("reading") \ {t} /\ t \in In("reading")
        /\ In("writing")' = In("writing")
    BY <2>1 DEF In
  <2> QED
    BY <2>2 DEF Abstract!ReleaseRead
<1>4. ASSUME NEW t \in Threads, WriterLock(t)
      PROVE  Stutters \/ Abstract!AcquireWrite(t)
  <2>1. CASE reader_count > 0 \/ writer_writing
    BY <1>4, <2>1 DEF WriterLock, In
  <2>2. CASE ~(reader_count > 0 \/ writer_writing)
    <3>1. at' = [at EXCEPT ![t] = "writing"] /\ at[t] \in {"out", "retry_write"}
      BY <1>4, <2>2 DEF WriterLock
    <3>2. In("reading") = {} /\ In("writing") = {}
      BY <2>2, NoReaders DEF FlagsWriter, In
    <3>3. In("reading")' = In("reading") /\ In("writing")' = {t}
      BY <3>1, <3>2 DEF In
    <3> QED
      BY <3>2, <3>3 DEF Abstract!AcquireWrite
  <2> QED
    BY <2>1, <2>2
<1>5. ASSUME NEW t \in Threads, WriterUnlock(t)
      PROVE  Abstract!ReleaseWrite(t)
  <2> DEFINE after == BroadcastCanRead(t)
  <2>1. /\ at[t] = "writing"
        /\ \/ at' = after
           \/ \E w \in Threads : /\ at[w] = "wait_write"
                                 /\ at' = [after EXCEPT ![w] = "retry_write"]
    BY <1>5 DEF WriterUnlock, SignalCanWrite, In
  <2>2. /\ In("reading")' = In("reading")
        /\ In("writing")' = In("writing") \ {t} /\ t \in In("writing")
    BY <2>1 DEF In, BroadcastCanRead
  <2> QED
    BY <2>2 DEF Abstract!ReleaseWrite
<1>6. ASSUME NEW t \in Threads, SpuriousWakeup(t)
      PROVE  Stutters
  BY <1>6 DEF SpuriousWakeup, In
<1> QED
  BY <1>1, <1>2, <1>3, <1>4, <1>5, <1>6 DEF Next, Abstract!Next

\* rwlock.c implements the abstract read-write lock.
THEOREM Refinement == Spec => ImplementsReadWriteLock
<1>1. InitalizeReadWriteLock => Abstract!Init
  BY DEF InitalizeReadWriteLock, Abstract!Init, In
<1>2. IInv /\ [Next]_lockVars => [Abstract!Next]_<<In("reading"), In("writing")>>
  BY StepRefines
<1> QED
  BY <1>1, <1>2, Inductive, PTL DEF Spec, Abstract!Spec, ImplementsReadWriteLock
=============================================================================
