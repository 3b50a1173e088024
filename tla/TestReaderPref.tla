--------------------------- MODULE TestReaderPref ---------------------------
(***************************************************************************)
(* test-reader-pref.cpp over the reader-preference lock: every thread      *)
(* locks once, stamps twice and unlocks, and main joins them all.  Threads *)
(* may start in any order whatever order main creates them in.             *)
(***************************************************************************)
EXTENDS RWLock, LockStamps

ASSUME RolesCover == Threads = Readers \union Writers

vars == <<reader_count, writer_writing, at, index, acquireTime, releaseTime>>

Init == InitalizeReadWriteLock /\ InitStamps

Reader(t) ==
    \/ NotYetLocked(t) /\ ReaderLock(t) /\ UNCHANGED stampVars
    \/ at[t] = "reading" /\ StampAcquire(t) /\ UNCHANGED lockVars
    \/ at[t] = "reading" /\ StampRelease(t) /\ UNCHANGED lockVars
    \/ Stamped(t) /\ ReaderUnlock(t) /\ UNCHANGED stampVars

Writer(t) ==
    \/ NotYetLocked(t) /\ WriterLock(t) /\ UNCHANGED stampVars
    \/ at[t] = "writing" /\ StampAcquire(t) /\ UNCHANGED lockVars
    \/ at[t] = "writing" /\ StampRelease(t) /\ UNCHANGED lockVars
    \/ Stamped(t) /\ WriterUnlock(t) /\ UNCHANGED stampVars

Wakeup(t) == SpuriousWakeup(t) /\ UNCHANGED stampVars

Returned(t) == Stamped(t) /\ at[t] = "out"

\* main, after the last pthread_join
Joined == (\A t \in Threads : Returned(t)) /\ UNCHANGED vars

NextTest == \/ \E r \in Readers : Reader(r)
            \/ \E w \in Writers : Writer(w)
            \/ \E t \in Threads : Wakeup(t)
            \/ Joined

\* A thread that can run does run; nothing makes a spurious wakeup happen.
TestSpec ==
    /\ Init /\ [][NextTest]_vars
    /\ \A r \in Readers : WF_vars(Reader(r))
    /\ \A w \in Writers : WF_vars(Writer(w))
-----------------------------------------------------------------------------
\* main's joins all return: every thread gets the lock once and gives it back,
\* without the help of spurious wakeups.
Termination == <>(\A t \in Threads : Returned(t))
=============================================================================
