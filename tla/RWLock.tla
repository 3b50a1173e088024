------------------------------- MODULE RWLock -------------------------------
(***************************************************************************)
(* The reader-preference read-write lock of kv-server-pool-rwlock/rwlock.c *)
(* (the same algorithm as pthreads-sync-code/rwlock/rwlock-reader-pref.cpp) *)
(*                                                                         *)
(* Every field is read and written under rw->mutex only, so one action is  *)
(* one critical section: from pthread_mutex_lock, or the return from       *)
(* pthread_cond_wait, to the next wait or unlock.  A thread in             *)
(* pthread_cond_wait is parked ("wait_..."); a signal, a broadcast or a    *)
(* spurious wakeup moves it to "retry_...", where it competes for the      *)
(* mutex with every other thread and then tests its condition again.       *)
(***************************************************************************)
EXTENDS Integers, FiniteSets

CONSTANT Threads

ASSUME ThreadsFinite == IsFiniteSet(Threads)

VARIABLES reader_count,    \* rw->reader_count
          writer_writing,  \* rw->writer_writing
          at               \* where each thread is in the lock's functions

lockVars == <<reader_count, writer_writing, at>>

Location == {"out", "wait_read",  "retry_read",  "reading",
                    "wait_write", "retry_write", "writing"}

In(loc) == {t \in Threads : at[t] = loc}

InitalizeReadWriteLock ==
    /\ reader_count = 0
    /\ writer_writing = FALSE
    /\ at = [t \in Threads |-> "out"]

\* The variants named X_... are X with a slip that its author could have made;
\* they are not part of the specification, and each one breaks a property.
ReaderLock_RetryUncounted(t) ==
    /\ at[t] \in {"out", "retry_read"}
    /\ at' = [at EXCEPT ![t] = IF writer_writing THEN "wait_read" ELSE "reading"]
    /\ reader_count' = IF at[t] = "out" /\ ~writer_writing THEN reader_count + 1
                                                           ELSE reader_count
    /\ UNCHANGED writer_writing

ReaderLock(t) ==
    /\ at[t] \in {"out", "retry_read"}
    /\ \/ /\ writer_writing
          /\ at' = [at EXCEPT ![t] = "wait_read"]
          /\ UNCHANGED reader_count
       \/ /\ ~writer_writing
          /\ reader_count' = reader_count + 1
          /\ at' = [at EXCEPT ![t] = "reading"]
    /\ UNCHANGED writer_writing

\* pthread_cond_signal(&rw->can_write), the other threads being as in after
SignalCanWrite(after) ==
    \/ In("wait_write") = {} /\ at' = after
    \/ \E w \in In("wait_write") : at' = [after EXCEPT ![w] = "retry_write"]

\* pthread_cond_broadcast(&rw->can_read) by t, which then leaves the lock
BroadcastCanRead(t) ==
    [u \in Threads |-> IF u = t THEN "out"
                       ELSE IF at[u] = "wait_read" THEN "retry_read" ELSE at[u]]

ReaderUnlock_TestThenDecrement(t) ==
    /\ at[t] = "reading"
    /\ reader_count' = reader_count - 1
    /\ \/ reader_count = 0 /\ SignalCanWrite([at EXCEPT ![t] = "out"])
       \/ reader_count # 0 /\ at' = [at EXCEPT ![t] = "out"]
    /\ UNCHANGED writer_writing

ReaderUnlock(t) ==
    /\ at[t] = "reading"
    /\ reader_count' = reader_count - 1
    /\ \/ reader_count' = 0 /\ SignalCanWrite([at EXCEPT ![t] = "out"])
       \/ reader_count' # 0 /\ at' = [at EXCEPT ![t] = "out"]
    /\ UNCHANGED writer_writing

WriterLock_IgnoreReaders(t) ==
    /\ at[t] \in {"out", "retry_write"}
    /\ \/ writer_writing  /\ at' = [at EXCEPT ![t] = "wait_write"]
       \/ ~writer_writing /\ at' = [at EXCEPT ![t] = "writing"]
    /\ writer_writing' = TRUE
    /\ UNCHANGED reader_count

WriterLock(t) ==
    /\ at[t] \in {"out", "retry_write"}
    /\ \/ /\ reader_count > 0 \/ writer_writing
          /\ at' = [at EXCEPT ![t] = "wait_write"]
          /\ UNCHANGED writer_writing
       \/ /\ ~(reader_count > 0 \/ writer_writing)
          /\ writer_writing' = TRUE
          /\ at' = [at EXCEPT ![t] = "writing"]
    /\ UNCHANGED reader_count

WriterUnlock_NoBroadcast(t) ==
    /\ at[t] = "writing"
    /\ writer_writing' = FALSE
    /\ \/ reader_count = 0 /\ SignalCanWrite([at EXCEPT ![t] = "out"])
       \/ reader_count # 0 /\ at' = [at EXCEPT ![t] = "out"]
    /\ UNCHANGED reader_count

WriterUnlock(t) ==
    /\ at[t] = "writing"
    /\ writer_writing' = FALSE
    /\ \/ reader_count = 0 /\ SignalCanWrite(BroadcastCanRead(t))
       \/ reader_count # 0 /\ at' = BroadcastCanRead(t)
    /\ UNCHANGED reader_count

\* POSIX lets pthread_cond_wait return without a signal.
SpuriousWakeup(t) ==
    /\ \/ at[t] = "wait_read"  /\ at' = [at EXCEPT ![t] = "retry_read"]
       \/ at[t] = "wait_write" /\ at' = [at EXCEPT ![t] = "retry_write"]
    /\ UNCHANGED <<reader_count, writer_writing>>

Next == \E t \in Threads : \/ ReaderLock(t) \/ ReaderUnlock(t)
                           \/ WriterLock(t) \/ WriterUnlock(t)
                           \/ SpuriousWakeup(t)

Spec == InitalizeReadWriteLock /\ [][Next]_lockVars
-----------------------------------------------------------------------------
\* The fields have their types, and every thread is somewhere in the code.
TypeOK ==
    /\ reader_count \in 0 .. Cardinality(Threads)
    /\ writer_writing \in BOOLEAN
    /\ at \in [Threads -> Location]

\* reader_count is the number of threads between ReaderLock and ReaderUnlock.
CountsReaders == reader_count = Cardinality(In("reading"))

\* writer_writing is set exactly while one thread is between WriterLock and
\* WriterUnlock, and never two.
FlagsWriter ==
    /\ writer_writing <=> In("writing") # {}
    /\ \A t, u \in In("writing") : t = u

\* Readers and a writer are never inside together, and writers never are:
\* what handle_client counts on when it walks and relinks the list.
Exclusion ==
    \A w \in In("writing") : In("reading") = {} /\ In("writing") = {w}

\* A reader is parked only while a writer writes: the broadcast in
\* WriterUnlock (rwlock.c:48) leaves none behind.
NoReaderLeftParked == In("wait_read") # {} => writer_writing

\* When a writer is parked and nothing holds the lock, a signalled writer is on
\* its way: the signals at rwlock.c:29 and rwlock.c:49 never get lost.
NoWriterSignalLost ==
    In("wait_write") # {} =>
        reader_count > 0 \/ writer_writing \/ In("retry_write") # {}

\* No thread sleeps through the unlock it waits for.
NoWakeupLost == NoReaderLeftParked /\ NoWriterSignalLost

\* Every step is a step of the abstract lock: the counters and the condition
\* variables grant the lock only when the abstract lock may be granted.
Abstract == INSTANCE ReadWriteLock
                WITH readers <- In("reading"), writers <- In("writing")
ImplementsReadWriteLock == Abstract!Spec
=============================================================================
