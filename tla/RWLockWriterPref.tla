-------------------------- MODULE RWLockWriterPref --------------------------
(***************************************************************************)
(* The writer-preference read-write lock of                                *)
(* pthreads-sync-code/rwlock/rwlock-writer-pref.cpp.  Actions, locations   *)
(* and atomicity are those of RWLock; here writer_count counts a writer    *)
(* from its first entry to WriterLock, and holds new readers back.         *)
(***************************************************************************)
EXTENDS Integers, FiniteSets

CONSTANT Threads

ASSUME ThreadsFinite == IsFiniteSet(Threads)

VARIABLES reader_count,    \* rw->reader_count
          writer_count,    \* rw->writer_count: writers that write or wait to
          writer_writing,  \* rw->writer_writing
          at               \* where each thread is in the lock's functions

lockVars == <<reader_count, writer_count, writer_writing, at>>

Location == {"out", "wait_read",  "retry_read",  "reading",
                    "wait_write", "retry_write", "writing"}

In(loc) == {t \in Threads : at[t] = loc}

InitalizeReadWriteLock ==
    /\ reader_count = 0
    /\ writer_count = 0
    /\ writer_writing = FALSE
    /\ at = [t \in Threads |-> "out"]

ReaderLock_ReaderPref(t) ==
    /\ at[t] \in {"out", "retry_read"}
    /\ reader_count' = IF writer_writing THEN reader_count ELSE reader_count + 1
    /\ at' = [at EXCEPT ![t] = IF writer_writing THEN "wait_read" ELSE "reading"]
    /\ UNCHANGED <<writer_count, writer_writing>>

ReaderLock(t) ==
    /\ at[t] \in {"out", "retry_read"}
    /\ \/ /\ writer_count > 0 \/ writer_writing
          /\ at' = [at EXCEPT ![t] = "wait_read"]
          /\ UNCHANGED reader_count
       \/ /\ ~(writer_count > 0 \/ writer_writing)
          /\ reader_count' = reader_count + 1
          /\ at' = [at EXCEPT ![t] = "reading"]
    /\ UNCHANGED <<writer_count, writer_writing>>

\* pthread_cond_signal(&rw->can_write), the other threads being as in after
SignalCanWrite(after) ==
    \/ In("wait_write") = {} /\ at' = after
    \/ \E w \in In("wait_write") : at' = [after EXCEPT ![w] = "retry_write"]

\* pthread_cond_broadcast(&rw->can_read) by t, which then leaves the lock
BroadcastCanRead(t) ==
    [u \in Threads |-> IF u = t THEN "out"
                       ELSE IF at[u] = "wait_read" THEN "retry_read" ELSE at[u]]

ReaderUnlock(t) ==
    /\ at[t] = "reading"
    /\ reader_count' = reader_count - 1
    /\ \/ reader_count' = 0 /\ SignalCanWrite([at EXCEPT ![t] = "out"])
       \/ reader_count' # 0 /\ at' = [at EXCEPT ![t] = "out"]
    /\ UNCHANGED <<writer_count, writer_writing>>

WriterLock_OneTest(t) ==
    /\ at[t] \in {"out", "retry_write"}
    /\ writer_count' = IF at[t] = "out" THEN writer_count + 1 ELSE writer_count
    /\ \/ /\ at[t] = "out" /\ (reader_count > 0 \/ writer_writing)
          /\ at' = [at EXCEPT ![t] = "wait_write"]
          /\ UNCHANGED writer_writing
       \/ /\ at[t] = "retry_write" \/ ~(reader_count > 0 \/ writer_writing)
          /\ writer_writing' = TRUE
          /\ at' = [at EXCEPT ![t] = "writing"]
    /\ UNCHANGED reader_count

\* A writer counts itself once, before it tests for the first time.
WriterLock(t) ==
    /\ at[t] \in {"out", "retry_write"}
    /\ writer_count' = IF at[t] = "out" THEN writer_count + 1 ELSE writer_count
    /\ \/ /\ reader_count > 0 \/ writer_writing
          /\ at' = [at EXCEPT ![t] = "wait_write"]
          /\ UNCHANGED writer_writing
       \/ /\ ~(reader_count > 0 \/ writer_writing)
          /\ writer_writing' = TRUE
          /\ at' = [at EXCEPT ![t] = "writing"]
    /\ UNCHANGED reader_count

WriterUnlock_AlwaysSignal(t) ==
    /\ at[t] = "writing"
    /\ writer_writing' = FALSE
    /\ writer_count' = writer_count - 1
    /\ SignalCanWrite([at EXCEPT ![t] = "out"])
    /\ UNCHANGED reader_count

WriterUnlock(t) ==
    /\ at[t] = "writing"
    /\ writer_writing' = FALSE
    /\ writer_count' = writer_count - 1
    /\ \/ writer_count' = 0 /\ at' = BroadcastCanRead(t)
       \/ writer_count' # 0 /\ SignalCanWrite([at EXCEPT ![t] = "out"])
    /\ UNCHANGED reader_count

\* POSIX lets pthread_cond_wait return without a signal.
SpuriousWakeup(t) ==
    /\ \/ at[t] = "wait_read"  /\ at' = [at EXCEPT ![t] = "retry_read"]
       \/ at[t] = "wait_write" /\ at' = [at EXCEPT ![t] = "retry_write"]
    /\ UNCHANGED <<reader_count, writer_count, writer_writing>>

Next == \E t \in Threads : \/ ReaderLock(t) \/ ReaderUnlock(t)
                           \/ WriterLock(t) \/ WriterUnlock(t)
                           \/ SpuriousWakeup(t)

Spec == InitalizeReadWriteLock /\ [][Next]_lockVars
-----------------------------------------------------------------------------
PendingWriters == In("wait_write") \union In("retry_write") \union In("writing")

\* The fields have their types, and every thread is somewhere in the code.
TypeOK ==
    /\ reader_count \in 0 .. Cardinality(Threads)
    /\ writer_count \in 0 .. Cardinality(Threads)
    /\ writer_writing \in BOOLEAN
    /\ at \in [Threads -> Location]

\* reader_count is the number of threads between ReaderLock and ReaderUnlock.
CountsReaders == reader_count = Cardinality(In("reading"))

\* writer_count is the number of threads that write or wait to.
CountsWriters == writer_count = Cardinality(PendingWriters)

\* writer_writing is set exactly while one thread is between WriterLock and
\* WriterUnlock, and never two.
FlagsWriter ==
    /\ writer_writing <=> In("writing") # {}
    /\ \A t, u \in In("writing") : t = u

\* Readers and a writer are never inside together, and writers never are.
Exclusion ==
    \A w \in In("writing") : In("reading") = {} /\ In("writing") = {w}

\* Nobody sleeps through the event it waits for: a reader is parked only while a
\* writer writes or waits to (rwlock-writer-pref.cpp:52-53), and if a writer is
\* parked and nothing holds the lock, a signalled writer is on its way (lines
\* 30-31 and 55).  WriterUnlock signals one of the two sorts only, so the choice
\* it makes at line 52 has to be right every time.
NoWakeupLost ==
    /\ In("wait_read") # {} => PendingWriters # {}
    /\ In("wait_write") # {} =>
         reader_count > 0 \/ writer_writing \/ In("retry_write") # {}

\* Preference: while a writer writes or waits to, no thread becomes a reader,
\* not even one that a broadcast of an earlier writer has already woken.
WritersFirst ==
    [][\A t \in Threads : at[t] # "reading" /\ at'[t] = "reading"
                             => PendingWriters = {}]_lockVars

\* Every step is a step of the abstract lock.
Abstract == INSTANCE ReadWriteLock
                WITH readers <- In("reading"), writers <- In("writing")
ImplementsReadWriteLock == Abstract!Spec
=============================================================================
