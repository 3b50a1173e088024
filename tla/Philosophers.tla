---------------------------- MODULE Philosophers ----------------------------
(***************************************************************************)
(* prac/threads/dining_philosopher.c.  Everything is done under one mutex; *)
(* a critical section, or its part up to pthread_cond_wait, is an action.  *)
(* The code has two states, EATING and HUNGRY: a philosopher that thinks   *)
(* is HUNGRY as well, so that a neighbour may make it EATING meanwhile.    *)
(***************************************************************************)
EXTENDS Integers

CONSTANT NUM_PHILOSOPHERS
ASSUME TableAssumption == NUM_PHILOSOPHERS \in Nat \ {0}

Philosophers == 0 .. NUM_PHILOSOPHERS - 1
LEFT(i) == (i + NUM_PHILOSOPHERS - 1) % NUM_PHILOSOPHERS
RIGHT(i) == (i + 1) % NUM_PHILOSOPHERS

VARIABLES state,     \* EATING or HUNGRY
          at_table   \* where each thread is: thinking, parked, woken, eating
tableVars == <<state, at_table>>

InitTable == /\ state = [i \in Philosophers |-> "HUNGRY"]
             /\ at_table = [i \in Philosophers |-> "thinking"]

Free(s, i) == s[i] = "HUNGRY" /\ s[LEFT(i)] # "EATING" /\ s[RIGHT(i)] # "EATING"

\* Variants named X_... are X with a slip; each breaks a property.
can_take_forks_LeftOnly(s, i) ==
    IF s[i] = "HUNGRY" /\ s[LEFT(i)] # "EATING" THEN [s EXCEPT ![i] = "EATING"] ELSE s

\* can_take_forks(i) in state s, and its signal: i is the only one that waits on
\* cond[i].
can_take_forks(s, i) == IF Free(s, i) THEN [s EXCEPT ![i] = "EATING"] ELSE s
Signal(a, s, i) == IF Free(s, i) /\ a[i] = "parked" THEN [a EXCEPT ![i] = "woken"] ELSE a

\* lines 26-31: up to the end of the critical section, or to the wait
take_forks(i) ==
    LET hungry == [state EXCEPT ![i] = "HUNGRY"]
    IN  /\ at_table[i] = "thinking"
        /\ state' = can_take_forks(hungry, i)
        /\ at_table' = [at_table EXCEPT ![i] = IF state'[i] = "EATING" THEN "eating"
                                                                       ELSE "parked"]

\* The wait returns: lines 30-33
Resume(i) ==
    /\ at_table[i] = "woken"
    /\ at_table' = [at_table EXCEPT ![i] = IF state[i] = "EATING" THEN "eating"
                                                                  ELSE "parked"]
    /\ UNCHANGED state

put_forks_LeftOnly(i) ==
    LET hungry == [state EXCEPT ![i] = "HUNGRY"]
    IN  /\ at_table[i] = "eating"
        /\ state' = can_take_forks(hungry, LEFT(i))
        /\ at_table' = [Signal(at_table, hungry, LEFT(i)) EXCEPT ![i] = "thinking"]

\* lines 37-44
put_forks(i) ==
    LET hungry == [state EXCEPT ![i] = "HUNGRY"]
        left   == can_take_forks(hungry, LEFT(i))
        woken  == Signal(at_table, hungry, LEFT(i))
    IN  /\ at_table[i] = "eating"
        /\ state' = can_take_forks(left, RIGHT(i))
        /\ at_table' = [Signal(woken, left, RIGHT(i)) EXCEPT ![i] = "thinking"]

SpuriousTableWakeup(i) ==
    /\ at_table[i] = "parked"
    /\ at_table' = [at_table EXCEPT ![i] = "woken"]
    /\ UNCHANGED state

handle_philosopher(i) == take_forks(i) \/ Resume(i) \/ put_forks(i)

Dine == \E i \in Philosophers : handle_philosopher(i) \/ SpuriousTableWakeup(i)

DiningSpec == InitTable /\ [][Dine]_tableVars
-----------------------------------------------------------------------------
\* The variables have their types.
TableOK ==
    /\ state \in [Philosophers -> {"EATING", "HUNGRY"}]
    /\ at_table \in [Philosophers -> {"thinking", "parked", "woken", "eating"}]

\* Who eats is EATING, and of two neighbours one at most is, though a philosopher
\* may be made EATING while it thinks and become HUNGRY again when it sits down.
NeighboursExclude ==
    /\ \A i \in Philosophers : at_table[i] = "eating" => state[i] = "EATING"
    /\ \A i \in Philosophers : i # RIGHT(i) =>
          ~(state[i] = "EATING" /\ state[RIGHT(i)] = "EATING")

\* A philosopher sleeps only while a neighbour is EATING, who will call
\* can_take_forks for it: no wakeup is lost, although each is sent once (41-42).
ParkedBehindEater ==
    \A i \in Philosophers :
        at_table[i] = "parked" =>
            /\ state[i] = "HUNGRY"
            /\ state[LEFT(i)] = "EATING" \/ state[RIGHT(i)] = "EATING"
=============================================================================
