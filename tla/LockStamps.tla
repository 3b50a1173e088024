----------------------------- MODULE LockStamps -----------------------------
(***************************************************************************)
(* The part the two test programs of pthreads-sync-code/rwlock share: a    *)
(* thread that has the lock takes a stamp from a global index, sleeps,     *)
(* takes a second stamp and releases the lock.  The spinlock around each   *)
(* stamp makes it one step.                                                *)
(***************************************************************************)
EXTENDS Integers

CONSTANTS Readers,   \* the threads that run Reader
          Writers    \* the threads that run Writer

ASSUME RolesDisjoint == Readers \intersect Writers = {}

VARIABLES index,        \* the next stamp
          acquireTime,  \* readerAcquireTime and writerAcquireTime
          releaseTime   \* readerReleaseTime and writerReleaseTime

stampVars == <<index, acquireTime, releaseTime>>

Unset == -1   \* an array element no thread has written yet

InitStamps ==
    /\ index = 0
    /\ acquireTime = [t \in Readers \union Writers |-> Unset]
    /\ releaseTime = [t \in Readers \union Writers |-> Unset]

StampAcquire(t) ==
    /\ acquireTime[t] = Unset
    /\ acquireTime' = [acquireTime EXCEPT ![t] = index]
    /\ index' = index + 1
    /\ UNCHANGED releaseTime

StampRelease(t) ==
    /\ acquireTime[t] # Unset /\ releaseTime[t] = Unset
    /\ releaseTime' = [releaseTime EXCEPT ![t] = index]
    /\ index' = index + 1
    /\ UNCHANGED acquireTime

NotYetLocked(t) == acquireTime[t] = Unset
Stamped(t)      == releaseTime[t] # Unset
-----------------------------------------------------------------------------
\* The programs' verdict "No reader/ writer is allowed when a writer holds lock"
\* (test-writer-pref.cpp:196-202): a writer's two stamps are consecutive.
WriterStampsConsecutive ==
    \A w \in Writers : Stamped(w) => releaseTime[w] - acquireTime[w] = 1
=============================================================================
