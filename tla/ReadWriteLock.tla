---------------------------- MODULE ReadWriteLock ----------------------------
(***************************************************************************)
(* What a read-write lock promises, whatever its algorithm: any number of  *)
(* readers or one writer.  RWLock and RWLockWriterPref implement it.       *)
(***************************************************************************)
CONSTANT Threads

VARIABLES readers,  \* threads that hold the lock for reading
          writers   \* threads that hold the lock for writing

Init == readers = {} /\ writers = {}

AcquireRead(t) ==
    /\ t \notin readers
    /\ writers = {}
    /\ readers' = readers \union {t}
    /\ UNCHANGED writers

ReleaseRead(t) ==
    /\ t \in readers
    /\ readers' = readers \ {t}
    /\ UNCHANGED writers

AcquireWrite(t) ==
    /\ readers = {} /\ writers = {}
    /\ writers' = {t}
    /\ UNCHANGED readers

ReleaseWrite(t) ==
    /\ t \in writers
    /\ writers' = writers \ {t}
    /\ UNCHANGED readers

Next == \E t \in Threads : \/ AcquireRead(t)  \/ ReleaseRead(t)
                           \/ AcquireWrite(t) \/ ReleaseWrite(t)

Spec == Init /\ [][Next]_<<readers, writers>>
=============================================================================
