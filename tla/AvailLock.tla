----------------------------- MODULE AvailLock ------------------------------
(***************************************************************************)
(* How kv-server-pool/server.c and kv-server-thread/server.c guard the     *)
(* list: a mutex, a flag "available" and a condition variable.  A handler  *)
(* takes the mutex, waits while available is 0, clears it, works with the  *)
(* mutex still held, sets it again, signals and unlocks.  The mutex is     *)
(* given up only inside pthread_cond_wait, so it is free iff no thread is  *)
(* "inside".                                                               *)
(***************************************************************************)
CONSTANT Threads

VARIABLES available,
          at          \* where each thread is: outside, parked, woken, inside

lockVars == <<available, at>>

ThreadsAt(s) == {t \in Threads : at[t] = s}
MutexFree == ThreadsAt("inside") = {}

\* lines 35, 300-302
InitLock ==
    /\ available = 1
    /\ at = [t \in Threads |-> "outside"]

\* lines 80-84: the test, repeated whenever the wait returns
Acquire(t) ==
    /\ at[t] \in {"outside", "woken"} /\ MutexFree
    /\ IF available = 0
       THEN /\ at' = [at EXCEPT ![t] = "parked"]
            /\ UNCHANGED available
       ELSE /\ available' = 0
            /\ at' = [at EXCEPT ![t] = "inside"]

\* What pthread_cond_signal(&cond) makes of the threads when they are as in after.
SignalCond(after) ==
    IF ThreadsAt("parked") = {} THEN {after}
    ELSE {[after EXCEPT ![t] = "woken"] : t \in ThreadsAt("parked")}

\* Variants named X_... are X with a slip; each breaks a property.
Release_KeepFlag(t) ==
    /\ at[t] = "inside"
    /\ UNCHANGED available
    /\ at' \in SignalCond([at EXCEPT ![t] = "outside"])

\* lines 124-126
Release(t) ==
    /\ at[t] = "inside"
    /\ available' = 1
    /\ at' \in SignalCond([at EXCEPT ![t] = "outside"])

Next == \E t \in Threads : Acquire(t) \/ Release(t)

Spec == InitLock /\ [][Next]_lockVars
-----------------------------------------------------------------------------
TypeOK ==
    /\ available \in {0, 1}
    /\ at \in [Threads -> {"outside", "parked", "woken", "inside"}]

\* The mutex alone guards the list, and the flag always agrees with it: no
\* thread ever waits on cond (81-83, 132, 170, 206), so that a stalled holder
\* is waited for in pthread_mutex_lock and no signal can be missed.
CondNeverWaited ==
    /\ available = 0 <=> ~MutexFree
    /\ ThreadsAt("parked") \union ThreadsAt("woken") = {}

\* Two handlers are never between their tests and their unlocks together.
OneInside == \A t, u \in ThreadsAt("inside") : t = u
=============================================================================
