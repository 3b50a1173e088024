----------------------------- MODULE TurnTaking -----------------------------
(***************************************************************************)
(* Threads that print in turn: pthreads-sync-code/sequence.c and           *)
(* lab_threads/wu2.c share one condition variable and broadcast;           *)
(* lab_threads/seq.c has one for each thread and signals the next.  In     *)
(* seq.c main also stores 0 into start_thread and signals the first        *)
(* thread, without the lock, so that a thread that holds the lock can be   *)
(* anywhere between its test and its wait: the steps under the lock are    *)
(* actions of their own.                                                   *)
(***************************************************************************)
EXTENDS Integers

CONSTANT N               \* the number of threads

ASSUME TurnAssumption == N \in Nat \ {0}

VARIABLES version,       \* which of the three programs runs
          turn,          \* start_thread in seq.c
          printer,       \* where each thread is
          holder,        \* who holds lock; N: nobody
          read,          \* the value of turn that the holder adds 1 to
          main,          \* where main is: before its store, its signal, the joins
          last,          \* history: the thread that printed last
          disordered,    \* history: a thread printed out of turn
          missed         \* history: main stored before the load that adds 1, or
                         \* signalled before the wait
turnVars == <<version, turn, printer, holder, read, main, last, disordered, missed>>

Broadcasts == version \in {"sequence", "wu2"}
MainStarts == version = "seq"
Ends == version = "wu2"        \* a thread returns when it has printed

Printers == 0 .. N - 1
PrinterState == {"start", "test", "wait", "parked", "woken", "load", "store", "wake",
                 "done"}

InitTurn ==
    /\ version \in {"sequence", "seq", "wu2"}
    /\ turn = 0
    /\ printer = [t \in Printers |-> "start"]
    /\ holder = N /\ read = 0
    /\ main = IF MainStarts THEN "store" ELSE "join"
    /\ last = N - 1 /\ disordered = FALSE /\ missed = FALSE

\* pthread_mutex_lock, at the start and when a wait returns
Lock(t) ==
    /\ printer[t] \in {"start", "woken"} /\ holder = N
    /\ holder' = t
    /\ printer' = [printer EXCEPT ![t] = "test"]
    /\ UNCHANGED <<turn, read, main, last, disordered, missed>>

\* The condition of the while loop; if it is a thread's turn, it prints.
Test(t) ==
    /\ printer[t] = "test"
    /\ \/ /\ turn # t
          /\ printer' = [printer EXCEPT ![t] = "wait"]
          /\ UNCHANGED <<last, disordered>>
       \/ /\ turn = t
          /\ printer' = [printer EXCEPT ![t] = "load"]
          /\ last' = t
          /\ disordered' = (disordered \/ t # (last + 1) % N)
    /\ UNCHANGED <<turn, holder, read, main, missed>>

Park(t) ==
    /\ printer[t] = "wait"
    /\ printer' = [printer EXCEPT ![t] = "parked"]
    /\ holder' = N
    /\ UNCHANGED <<turn, read, main, last, disordered, missed>>

\* turn = (turn + 1) % N, a load and a store; wu2.c only adds 1.
Load(t) ==
    /\ printer[t] = "load"
    /\ read' = turn
    /\ printer' = [printer EXCEPT ![t] = "store"]
    /\ UNCHANGED <<turn, holder, main, last, disordered, missed>>

Store(t) ==
    /\ printer[t] = "store"
    /\ turn' = IF Ends THEN read + 1 ELSE (read + 1) % N
    /\ printer' = [printer EXCEPT ![t] = "wake"]
    /\ UNCHANGED <<holder, read, main, last, disordered, missed>>

WakeUp(S) == [t \in Printers |-> IF t \in S /\ printer[t] = "parked" THEN "woken"
                                                                     ELSE printer[t]]

\* Variants named X_... are X with a slip; each breaks a property.
Wake_Own(t) ==
    /\ printer[t] = "wake"
    /\ printer' = [WakeUp({t}) EXCEPT ![t] = IF Ends THEN "done" ELSE "test"]
    /\ holder' = IF Ends THEN N ELSE holder
    /\ UNCHANGED <<turn, read, main, last, disordered, missed>>

\* The broadcast, or the signal to the next thread; only wu2.c unlocks.
Wake(t) ==
    /\ printer[t] = "wake"
    /\ printer' = [WakeUp(IF Broadcasts THEN Printers ELSE {(t + 1) % N})
                       EXCEPT ![t] = IF Ends THEN "done" ELSE "test"]
    /\ holder' = IF Ends THEN N ELSE holder
    /\ UNCHANGED <<turn, read, main, last, disordered, missed>>

print_thread_message(t) == Lock(t) \/ Test(t) \/ Park(t) \/ Load(t) \/ Store(t) \/ Wake(t)

\* seq.c:49
MainStores ==
    /\ main = "store" /\ main' = "signal"
    /\ turn' = 0
    /\ missed' = (missed \/ \E t \in Printers : printer[t] = "load")
    /\ UNCHANGED <<printer, holder, read, last, disordered>>

\* seq.c:50
MainSignals ==
    /\ main = "signal" /\ main' = "join"
    /\ printer' = WakeUp({0})
    /\ missed' = (missed \/ printer[0] = "wait")
    /\ UNCHANGED <<turn, holder, read, last, disordered>>

SpuriousTurnWakeup(t) ==
    /\ printer[t] = "parked"
    /\ printer' = [printer EXCEPT ![t] = "woken"]
    /\ UNCHANGED <<turn, holder, read, main, last, disordered, missed>>

TakeTurns == /\ \/ MainStores \/ MainSignals
                \/ \E t \in Printers : print_thread_message(t) \/ SpuriousTurnWakeup(t)
             /\ UNCHANGED version

TurnSpec == InitTurn /\ [][TakeTurns]_turnVars
-----------------------------------------------------------------------------
\* The variables have their types.
TurnOK == /\ turn \in 0 .. N /\ printer \in [Printers -> PrinterState]
          /\ holder \in 0 .. N /\ read \in 0 .. N /\ last \in Printers
          /\ main \in {"store", "signal", "join"}
          /\ version \in {"sequence", "seq", "wu2"}

\* The threads print in turn and go on for ever, as sequence.c:48 and seq.c:52 say:
\* they never all sleep, or wait for one that has returned.  The unlocked store of
\* seq.c may break the order, and end the program: its signal may find the first thread
\* between its test and its wait, and the store a thread that then adds 1 to it and
\* wakes another thread than the one whose turn it has made it (seq.c:24-25).
TurnsGoOn ==
    /\ disordered => MainStarts /\ main # "store"
    /\ (\A t \in Printers : printer[t] \in {"parked", "done"})
          => \/ missed
             \/ Ends /\ \A t \in Printers : printer[t] = "done"
             \/ main # "join"
=============================================================================
