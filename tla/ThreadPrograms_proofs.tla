------------------------ MODULE ThreadPrograms_proofs ------------------------
(***************************************************************************)
(* Proofs about programs whose threads share a few variables: the dining   *)
(* philosophers, for any number of them; the masters and workers, for any  *)
(* numbers of them, of items and of places in the stack; the web server,   *)
(* for any threads and users and any size of its queue; the writer-        *)
(* preference lock with its test program, for any threads; and the threads *)
(* that print in turn, for any number of them.                             *)
(***************************************************************************)
EXTENDS Philosophers, MasterWorker, WebServer, TestWriterPref, TurnTaking,
        FiniteSetTheorems, TLAPS

-----------------------------------------------------------------------------
(***************************************************************************)
(* The philosophers.                                                       *)
(***************************************************************************)

\* Philosopher i eats or has a neighbour who does, in state s.
EaterNear(s, i) == "EATING" \in {s[i], s[LEFT(i)], s[RIGHT(i)]}

States == [Philosophers -> {"EATING", "HUNGRY"}]
TablePlaces == [Philosophers -> {"thinking", "parked", "woken", "eating"}]

Exclusive(s) == \A i \in Philosophers : i # RIGHT(i) =>
                    ~(s[i] = "EATING" /\ s[RIGHT(i)] = "EATING")

\* Nobody who waits, or has been woken, waits for nothing in state s, and who is
\* still parked has not been made EATING without a signal.
WaitsForSomeone(s, a) ==
    \A i \in Philosophers :
        /\ a[i] \in {"parked", "woken"} => EaterNear(s, i)
        /\ a[i] = "parked" => s[i] = "HUNGRY"

\* The inductive invariant.  ParkedBehindEater alone is not inductive: a philosopher
\* that wakes up spuriously may park again, so that those who have been woken must
\* have an eater near as well.
TableInv ==
    /\ TableOK
    /\ \A i \in Philosophers : at_table[i] = "eating" => state[i] = "EATING"
    /\ Exclusive(state)
    /\ WaitsForSomeone(state, at_table)
-----------------------------------------------------------------------------
\* The table is round.
LEMMA Neighbours ==
    ASSUME NEW i \in Philosophers
    PROVE  /\ LEFT(i) = IF i = 0 THEN NUM_PHILOSOPHERS - 1 ELSE i - 1
           /\ RIGHT(i) = IF i = NUM_PHILOSOPHERS - 1 THEN 0 ELSE i + 1
<1> DEFINE n == NUM_PHILOSOPHERS
<1>1. n \in Nat \ {0} /\ i \in 0 .. n - 1
  BY TableAssumption DEF Philosophers
<1> HIDE DEF n
<1>2. ASSUME NEW k \in 0 .. n - 1 PROVE k % n = k /\ (k + n) % n = k
  BY <1>1, <1>2
<1>3. n % n = 0
  BY <1>1
<1>4. (i + n - 1) % n = IF i = 0 THEN n - 1 ELSE i - 1
  <2>1. CASE i = 0
    BY <2>1, <1>1, <1>2
  <2>2. CASE i # 0
    <3>1. i - 1 \in 0 .. n - 1 /\ i + n - 1 = (i - 1) + n
      BY <2>2, <1>1
    <3> QED
      BY <3>1, <2>2, <1>2
  <2> QED
    BY <2>1, <2>2
<1>5. (i + 1) % n = IF i = n - 1 THEN 0 ELSE i + 1
  <2>1. CASE i = n - 1
    BY <2>1, <1>1, <1>3
  <2>2. CASE i # n - 1
    <3>1. i + 1 \in 0 .. n - 1
      BY <2>2, <1>1
    <3> QED
      BY <3>1, <2>2, <1>2
  <2> QED
    BY <2>1, <2>2
<1> QED
  BY <1>4, <1>5 DEF n, LEFT, RIGHT

\* A neighbour's neighbour on the other side is the philosopher again.
LEMMA RoundTable ==
    ASSUME NEW i \in Philosophers
    PROVE  /\ LEFT(i) \in Philosophers /\ RIGHT(i) \in Philosophers
           /\ LEFT(RIGHT(i)) = i /\ RIGHT(LEFT(i)) = i
<1>1. NUM_PHILOSOPHERS \in Nat \ {0} /\ i \in 0 .. NUM_PHILOSOPHERS - 1
  BY TableAssumption DEF Philosophers
<1>2. LEFT(i) \in Philosophers /\ RIGHT(i) \in Philosophers
  BY <1>1, Neighbours DEF Philosophers
<1>3. LEFT(RIGHT(i)) = i
  BY <1>1, <1>2, Neighbours
<1>4. RIGHT(LEFT(i)) = i
  BY <1>1, <1>2, Neighbours
<1> QED
  BY <1>2, <1>3, <1>4

\* In an exclusive state can_take_forks(s, i) leaves all but i alone, keeps the
\* exclusion, and leaves i beside an eater or an eater itself.
LEMMA CanTakeForks ==
    ASSUME NEW s \in States, NEW i \in Philosophers, Exclusive(s)
    PROVE  LET r == can_take_forks(s, i)
           IN  /\ r \in States
               /\ Exclusive(r)
               /\ EaterNear(r, i)
               /\ \A k \in Philosophers \ {i} : r[k] = s[k]
               /\ s[i] = "EATING" => r[i] = "EATING"
               /\ Free(s, i) => r[i] = "EATING"
               /\ ~Free(s, i) => r = s
<1> DEFINE r == can_take_forks(s, i)
<1>1. LEFT(i) \in Philosophers /\ RIGHT(i) \in Philosophers
  BY RoundTable
<1>2. CASE ~Free(s, i)
  <2>1. r = s
    BY <1>2 DEF can_take_forks
  <2>2. EaterNear(s, i)
    BY <1>1, <1>2 DEF Free, EaterNear, States
  <2> QED
    BY <1>2, <2>1, <2>2
<1>3. CASE Free(s, i)
  <2>1. r = [s EXCEPT ![i] = "EATING"]
    BY <1>3 DEF can_take_forks
  <2>2. /\ r \in States /\ r[i] = "EATING"
        /\ \A k \in Philosophers \ {i} : r[k] = s[k]
    BY <2>1 DEF States
  <2>3. s[LEFT(i)] # "EATING" /\ s[RIGHT(i)] # "EATING"
    BY <1>3 DEF Free
  <2>4. ASSUME NEW k \in Philosophers, k # RIGHT(k), r[k] = "EATING", r[RIGHT(k)] = "EATING"
        PROVE  FALSE
    <3>1. RIGHT(k) \in Philosophers /\ LEFT(RIGHT(k)) = k
      BY RoundTable
    <3>2. CASE k = i
      BY <2>2, <2>3, <2>4, <3>1, <3>2
    <3>3. CASE RIGHT(k) = i
      BY <2>2, <2>3, <2>4, <3>1, <3>3
    <3>4. CASE k # i /\ RIGHT(k) # i
      BY <2>2, <2>4, <3>1, <3>4 DEF Exclusive
    <3> QED
      BY <3>2, <3>3, <3>4
  <2>5. Exclusive(r)
    BY <2>4 DEF Exclusive
  <2> QED
    BY <1>3, <2>2, <2>5 DEF EaterNear
<1> QED
  BY <1>2, <1>3

\* Nobody who is EATING is disturbed.
COROLLARY EatersStay ==
    ASSUME NEW s \in States, NEW i \in Philosophers, Exclusive(s),
           NEW k \in Philosophers, s[k] = "EATING"
    PROVE  can_take_forks(s, i)[k] = "EATING"
  BY CanTakeForks

\* The signal of can_take_forks reaches i if it has been made EATING.
LEMMA SignalEffect ==
    ASSUME NEW s \in States, NEW i \in Philosophers, NEW a \in TablePlaces
    PROVE  /\ Signal(a, s, i) \in TablePlaces
           /\ \A k \in Philosophers \ {i} : Signal(a, s, i)[k] = a[k]
           /\ Signal(a, s, i)[i] = IF Free(s, i) /\ a[i] = "parked" THEN "woken" ELSE a[i]
  BY DEF Signal, TablePlaces

\* Together they keep what the waiting ones rely on.
LEMMA CanTakeKeepsWaiting ==
    ASSUME NEW s \in States, NEW i \in Philosophers, Exclusive(s), NEW a \in TablePlaces,
           NEW k \in Philosophers,
           a[k] = "parked" => s[k] = "HUNGRY"
    PROVE  /\ Signal(a, s, i)[k] \in {"parked", "woken"} => a[k] \in {"parked", "woken"}
           /\ EaterNear(s, k) \/ k = i => EaterNear(can_take_forks(s, i), k)
           /\ Signal(a, s, i)[k] = "parked" => can_take_forks(s, i)[k] = "HUNGRY"
<1> DEFINE r == can_take_forks(s, i)
<1>1. /\ r \in States /\ EaterNear(r, i)
      /\ \A p \in Philosophers : p # i => r[p] = s[p]
      /\ s[i] = "EATING" => r[i] = "EATING"
      /\ ~Free(s, i) => r = s
  BY CanTakeForks
<1>2. LEFT(k) \in Philosophers /\ RIGHT(k) \in Philosophers
  BY RoundTable
<1>3. EaterNear(s, k) => EaterNear(r, k)
  BY <1>1, <1>2 DEF EaterNear
<1>4. CASE k = i
  BY <1>1, <1>4, SignalEffect
<1>5. CASE k # i
  BY <1>1, <1>3, <1>5, SignalEffect
<1> QED
  BY <1>4, <1>5
-----------------------------------------------------------------------------
\* At the start everybody is HUNGRY and thinks.
LEMMA InitTableInv == InitTable => TableInv
<1> SUFFICES ASSUME InitTable PROVE TableInv
  OBVIOUS
<1>1. \A i \in Philosophers : RIGHT(i) \in Philosophers
  BY RoundTable
<1> QED
  BY <1>1 DEF InitTable, TableInv, TableOK, Exclusive, WaitsForSomeone

\* take_forks may take EATING from i for a moment, but gives it back: who has been
\* made EATING has no eater beside it.
LEMMA TakeForksKeepsInv ==
    ASSUME TableInv, NEW i \in Philosophers, take_forks(i)
    PROVE  TableInv'
<1> DEFINE hungry == [state EXCEPT ![i] = "HUNGRY"]
<1>1. /\ state \in States /\ Exclusive(state) /\ WaitsForSomeone(state, at_table)
      /\ at_table \in TablePlaces
  BY DEF TableInv, TableOK, States, TablePlaces
<1>2. /\ at_table[i] = "thinking" /\ state' = can_take_forks(hungry, i)
      /\ at_table' = [at_table EXCEPT ![i] = IF state'[i] = "EATING" THEN "eating" ELSE "parked"]
  BY DEF take_forks
<1>3. \A k \in Philosophers : /\ LEFT(k) \in Philosophers /\ RIGHT(k) \in Philosophers
                              /\ LEFT(RIGHT(k)) = k /\ RIGHT(LEFT(k)) = k
  BY RoundTable
<1>4. hungry \in States /\ Exclusive(hungry)
  BY <1>1, <1>3 DEF States, Exclusive
<1>5. /\ state' \in States /\ Exclusive(state') /\ EaterNear(state', i)
      /\ \A k \in Philosophers : k # i => state'[k] = hungry[k]
      /\ Free(hungry, i) => state'[i] = "EATING"
  BY <1>2, <1>4, CanTakeForks
<1>6. \A k \in Philosophers : k # i => state'[k] = state[k]
  BY <1>1, <1>5 DEF States
<1>7. ASSUME state[i] = "EATING" PROVE state'[i] = "EATING"
  <2>1. LEFT(i) # i => state[LEFT(i)] # "EATING"
    BY <1>1, <1>3, <1>7 DEF Exclusive
  <2>2. RIGHT(i) # i => state[RIGHT(i)] # "EATING"
    BY <1>1, <1>3, <1>7 DEF Exclusive
  <2>3. Free(hungry, i)
    BY <1>1, <1>3, <2>1, <2>2 DEF Free, States
  <2> QED
    BY <2>3, <1>5
<1>8. \A k \in Philosophers : EaterNear(state, k) => EaterNear(state', k)
  BY <1>1, <1>3, <1>6, <1>7 DEF EaterNear
<1>9. WaitsForSomeone(state', at_table')
  BY <1>1, <1>2, <1>5, <1>6, <1>8 DEF WaitsForSomeone, States, TablePlaces
<1>10. \A k \in Philosophers : at_table'[k] = "eating" => state'[k] = "EATING"
  BY <1>1, <1>2, <1>6 DEF TableInv, TablePlaces
<1> QED
  BY <1>1, <1>2, <1>5, <1>9, <1>10 DEF TableInv, TableOK, States, TablePlaces

\* Who wakes EATING eats; who wakes HUNGRY has an eater beside it and parks again.
LEMMA ResumeKeepsInv ==
    ASSUME TableInv, NEW i \in Philosophers, Resume(i)
    PROVE  TableInv'
  BY DEF Resume, TableInv, TableOK, Exclusive, WaitsForSomeone, EaterNear

\* A wait that returns by itself changes nobody's state.
LEMMA SpuriousKeepsInv ==
    ASSUME TableInv, NEW i \in Philosophers, SpuriousTableWakeup(i)
    PROVE  TableInv'
  BY DEF SpuriousTableWakeup, TableInv, TableOK, Exclusive, WaitsForSomeone, EaterNear

\* put_forks: only the neighbours of i can have relied on it, and each of them is
\* made EATING or found beside another eater.
LEMMA PutForksKeepsInv ==
    ASSUME TableInv, NEW i \in Philosophers, put_forks(i)
    PROVE  TableInv'
<1> DEFINE hungry == [state EXCEPT ![i] = "HUNGRY"]
           left   == can_take_forks(hungry, LEFT(i))
           woken  == Signal(at_table, hungry, LEFT(i))
           signalled == Signal(woken, left, RIGHT(i))
<1>0. /\ hungry = [state EXCEPT ![i] = "HUNGRY"]
      /\ left = can_take_forks(hungry, LEFT(i)) /\ woken = Signal(at_table, hungry, LEFT(i))
      /\ signalled = Signal(woken, left, RIGHT(i))
  OBVIOUS
<1>1. /\ state \in States /\ Exclusive(state) /\ WaitsForSomeone(state, at_table)
      /\ at_table \in TablePlaces
  BY DEF TableInv, TableOK, States, TablePlaces
<1>2. /\ at_table[i] = "eating" /\ state' = can_take_forks(left, RIGHT(i))
      /\ at_table' = [signalled EXCEPT ![i] = "thinking"]
  BY DEF put_forks
<1> HIDE DEF hungry, left, woken, signalled
<1>3. \A k \in Philosophers : /\ LEFT(k) \in Philosophers /\ RIGHT(k) \in Philosophers
                              /\ LEFT(RIGHT(k)) = k /\ RIGHT(LEFT(k)) = k
  BY RoundTable
<1>4. hungry \in States /\ Exclusive(hungry)
  BY <1>0, <1>1, <1>3 DEF States, Exclusive
<1>5. left \in States /\ Exclusive(left)
  BY <1>0, <1>3, <1>4, CanTakeForks
<1>6. woken \in TablePlaces /\ signalled \in TablePlaces
  BY <1>0, <1>1, <1>3, <1>4, <1>5, SignalEffect
<1>7. state' \in States /\ Exclusive(state')
  BY <1>2, <1>3, <1>5, CanTakeForks
<1>8. ASSUME NEW k \in Philosophers
      PROVE  /\ signalled[k] \in {"parked", "woken"} => EaterNear(state', k)
             /\ signalled[k] = "parked" => state'[k] = "HUNGRY"
  <2>1. hungry[k] = "EATING" => state[k] = "EATING" /\ k # i
    BY <1>0, <1>1 DEF States
  <2>2. at_table[k] \in {"parked", "woken"} =>
            EaterNear(hungry, k) \/ k \in {LEFT(i), RIGHT(i)}
    <3>1. ASSUME at_table[k] \in {"parked", "woken"}, k \notin {LEFT(i), RIGHT(i)}
          PROVE  EaterNear(hungry, k)
      <4>1. LEFT(k) # i /\ RIGHT(k) # i /\ k # i
        BY <1>2, <1>3, <3>1
      <4> QED
        BY <1>0, <1>1, <1>3, <3>1, <4>1 DEF WaitsForSomeone, EaterNear, States
    <3> QED
      BY <3>1
  <2>3. at_table[k] = "parked" => hungry[k] = "HUNGRY"
    BY <1>0, <1>1 DEF WaitsForSomeone, States
  <2>4. /\ woken[k] \in {"parked", "woken"} => at_table[k] \in {"parked", "woken"}
        /\ EaterNear(hungry, k) \/ k = LEFT(i) => EaterNear(left, k)
        /\ woken[k] = "parked" => left[k] = "HUNGRY"
    <3>1. /\ LEFT(i) \in Philosophers /\ at_table \in TablePlaces
          /\ left = can_take_forks(hungry, LEFT(i)) /\ woken = Signal(at_table, hungry, LEFT(i))
      BY <1>0, <1>1, <1>3
    <3> QED
      BY <3>1, <1>4, <2>3, CanTakeKeepsWaiting
  <2>5. /\ signalled[k] \in {"parked", "woken"} => woken[k] \in {"parked", "woken"}
        /\ EaterNear(left, k) \/ k = RIGHT(i) => EaterNear(state', k)
        /\ signalled[k] = "parked" => state'[k] = "HUNGRY"
    BY <1>0, <1>2, <1>3, <1>5, <1>6, <2>4, CanTakeKeepsWaiting
  <2> QED
    BY <2>2, <2>4, <2>5
<1>9. WaitsForSomeone(state', at_table')
  BY <1>2, <1>6, <1>8 DEF WaitsForSomeone, TablePlaces
<1>10. \A k \in Philosophers : at_table'[k] = "eating" => state'[k] = "EATING"
  <2> SUFFICES ASSUME NEW k \in Philosophers, at_table'[k] = "eating"
              PROVE  state'[k] = "EATING"
    OBVIOUS
  <2>1. k # i /\ signalled[k] = "eating"
    BY <1>2, <1>6 DEF TablePlaces
  <2>2. at_table[k] = "eating"
    BY <1>0, <2>1, <1>1, <1>3, <1>4, <1>5, <1>6, SignalEffect
  <2>3. hungry[k] = "EATING"
    BY <1>0, <2>1, <2>2, <1>1 DEF TableInv, States
  <2>4. left[k] = "EATING"
    BY <1>0, <2>3, <1>3, <1>4, EatersStay
  <2> QED
    BY <2>4, <1>2, <1>3, <1>5, EatersStay
<1> QED
  BY <1>1, <1>2, <1>6, <1>7, <1>9, <1>10 DEF TableInv, TableOK, States, TablePlaces

\* Every step keeps the invariant.
LEMMA StepKeepsInv == TableInv /\ [Dine]_tableVars => TableInv'
<1> SUFFICES ASSUME TableInv, [Dine]_tableVars PROVE TableInv'
  OBVIOUS
<1>1. CASE UNCHANGED tableVars
  BY <1>1 DEF tableVars, TableInv, TableOK, Exclusive, WaitsForSomeone, EaterNear
<1>2. ASSUME NEW i \in Philosophers, handle_philosopher(i) PROVE TableInv'
  BY <1>2, TakeForksKeepsInv, ResumeKeepsInv, PutForksKeepsInv DEF handle_philosopher
<1>3. ASSUME NEW i \in Philosophers, SpuriousTableWakeup(i) PROVE TableInv'
  BY <1>3, SpuriousKeepsInv
<1> QED
  BY <1>1, <1>2, <1>3 DEF Dine

\* The invariant holds throughout.
THEOREM TableInvariant == DiningSpec => []TableInv
  BY InitTableInv, StepKeepsInv, PTL DEF DiningSpec

\* For every number of philosophers, two neighbours are never EATING together, and
\* who eats is EATING (dining_philosopher.c:15-45).
THEOREM NeighboursNeverBothEat == DiningSpec => []NeighboursExclude
<1>1. TableInv => NeighboursExclude
  BY DEF TableInv, Exclusive, NeighboursExclude
<1> QED
  BY <1>1, TableInvariant, PTL

\* For every number of philosophers, one that sleeps has a neighbour who is EATING and
\* will call can_take_forks for it (dining_philosopher.c:30-32, 41-42).
THEOREM SleepsBehindEater == DiningSpec => []ParkedBehindEater
<1>1. TableInv => ParkedBehindEater
  BY DEF TableInv, WaitsForSomeone, EaterNear, ParkedBehindEater
<1> QED
  BY <1>1, TableInvariant, PTL

-----------------------------------------------------------------------------
(***************************************************************************)
(* Masters and workers.                                                    *)
(***************************************************************************)

\* The inductive invariant: each part is inductive given the types.
BufferInv == BufferOK /\ EachItemOnce /\ NoBufferWakeupLost

\* The stack is empty, and nobody sleeps.
LEMMA InitBufferInv == InitBuffer => BufferInv
<1> SUFFICES ASSUME InitBuffer PROVE BufferInv
  OBVIOUS
<1>1. BufferOK
  BY BufferAssumption DEF InitBuffer, BufferOK, Items, WorkerIds, MasterPlace, WorkerPlace
<1>2. EachItemOnce
  <2>1. ASSUME NEW i \in Items
        PROVE  i \in Nat /\ produced[i] = 0 /\ consumed[i] = 0 /\ Stacked(i) = {}
    BY BufferAssumption DEF InitBuffer, Items, Stacked
  <2>2. ASSUME NEW i \in Items
        PROVE  /\ produced[i] = IF i < item_to_produce THEN 1 ELSE 0
               /\ consumed[i] + Cardinality(Stacked(i)) = produced[i]
    <3>1. Cardinality(Stacked(i)) = 0
      BY <2>1, FS_EmptySet, Zenon
    <3> QED
      BY <2>1, <3>1 DEF InitBuffer
  <2> QED
    BY <2>2 DEF EachItemOnce
<1>3. NoBufferWakeupLost
  BY BufferAssumption DEF InitBuffer, NoBufferWakeupLost, WorkerIds
<1> QED
  BY <1>1, <1>2, <1>3 DEF BufferInv

\* A signal wakes a parked master, if there is one, and moves no other.
LEMMA SignalMasterEffect ==
    ASSUME NEW after \in [Masters -> MasterPlace], SignalMaster(after)
    PROVE  /\ mpc' \in [Masters -> MasterPlace]
           /\ \/ (\A m \in Masters : mpc[m] # "parked") /\ mpc' = after
              \/ \E m \in Masters : mpc'[m] = "woken"
  BY DEF SignalMaster, MasterPlace

\* A broadcast leaves no worker asleep.
LEMMA BroadcastEffect ==
    ASSUME BufferOK
    PROVE  /\ \A w \in WorkerIds, s \in {"start", "done"} : BroadcastWorkers(w, s) =>
                /\ wpc' \in [WorkerIds -> WorkerPlace]
                /\ \A u \in WorkerIds : wpc'[u] \notin {"parked_turn", "parked_item"}
           /\ WakeWorkers =>
                /\ wpc' \in [WorkerIds -> WorkerPlace]
                /\ \A u \in WorkerIds : wpc'[u] \notin {"parked_turn", "parked_item"}
  BY DEF BufferOK, BroadcastWorkers, WakeWorkers, Woken, WorkerPlace

\* The turn stays with the workers.
LEMMA TurnPasses == BufferOK => NextTurn \in WorkerIds
  BY BufferAssumption DEF BufferOK, NextTurn, WorkerIds

\* The places of an item in the stack are finitely many.
LEMMA StackedFinite ==
    ASSUME NEW b \in Seq(Items), NEW i
    PROVE  LET S == {j \in DOMAIN b : b[j] = i}
           IN  IsFiniteSet(S) /\ Cardinality(S) \in Nat
<1> DEFINE S == {j \in DOMAIN b : b[j] = i}
<1>1. IsFiniteSet(1 .. Len(b)) /\ S \subseteq 1 .. Len(b)
  BY FS_Interval
<1> QED
  BY <1>1, FS_Subset, FS_CardinalityType

\* An item pushed is in the stack once more, and the others as often as before.
LEMMA Pushed ==
    ASSUME BufferOK, NEW x \in Items, buffer' = Append(buffer, x), NEW i
    PROVE  Cardinality(Stacked(i)') = Cardinality(Stacked(i)) + (IF i = x THEN 1 ELSE 0)
<1>1. buffer \in Seq(Items) /\ Len(buffer) \in Nat
  BY DEF BufferOK
<1>2. IsFiniteSet(Stacked(i)) /\ Cardinality(Stacked(i)) \in Nat
  BY <1>1, StackedFinite DEF Stacked
<1>3. /\ DOMAIN buffer' = 1 .. Len(buffer) + 1
      /\ \A j \in 1 .. Len(buffer) : buffer'[j] = buffer[j]
      /\ buffer'[Len(buffer) + 1] = x
  BY <1>1
<1>4. CASE i = x
  <2>1. Stacked(i)' = Stacked(i) \union {Len(buffer) + 1} /\ Len(buffer) + 1 \notin Stacked(i)
    BY <1>1, <1>3, <1>4 DEF Stacked
  <2> QED
    BY <1>2, <1>4, <2>1, FS_AddElement
<1>5. CASE i # x
  <2>1. Stacked(i)' = Stacked(i)
    BY <1>1, <1>3, <1>5 DEF Stacked
  <2> QED
    BY <1>2, <1>5, <2>1
<1> QED
  BY <1>4, <1>5

\* An item taken is in the stack once less, and the others as often as before.
LEMMA Popped ==
    ASSUME BufferOK, buffer # <<>>, buffer' = SubSeq(buffer, 1, Len(buffer) - 1), NEW i
    PROVE  Cardinality(Stacked(i)') =
             Cardinality(Stacked(i)) - (IF i = buffer[Len(buffer)] THEN 1 ELSE 0)
<1> DEFINE n == Len(buffer)
<1>1. buffer \in Seq(Items) /\ n \in Nat /\ n >= 1
  BY DEF BufferOK
<1>2. IsFiniteSet(Stacked(i)) /\ Cardinality(Stacked(i)) \in Nat
  BY <1>1, StackedFinite DEF Stacked
<1>3. /\ DOMAIN buffer' = 1 .. n - 1
      /\ \A j \in 1 .. n - 1 : buffer'[j] = buffer[j]
  BY <1>1
<1>4. CASE i = buffer[n]
  <2>1. Stacked(i)' = Stacked(i) \ {n} /\ n \in Stacked(i)
    BY <1>1, <1>3, <1>4 DEF Stacked
  <2> QED
    BY <1>2, <1>4, <2>1, FS_RemoveElement
<1>5. CASE i # buffer[n]
  <2>1. Stacked(i)' = Stacked(i)
    BY <1>1, <1>3, <1>5 DEF Stacked
  <2> QED
    BY <1>2, <1>5, <2>1
<1> QED
  BY <1>4, <1>5

\* A master pushes the next item, or finds the stack full or all items produced.
LEMMA ProduceKeepsInv ==
    ASSUME BufferInv, NEW m \in Masters, Produce(m)
    PROVE  BufferInv'
<1>1. BufferOK /\ EachItemOnce /\ NoBufferWakeupLost /\ worker_turn' = worker_turn /\ consumed' = consumed
  BY DEF BufferInv, Produce
<1>2. CASE Len(buffer) = max_buf_size /\ UNCHANGED <<item_to_produce, buffer, wpc, produced>>
           /\ mpc' = [mpc EXCEPT ![m] = "parked"]
  <2>1. BufferOK' /\ EachItemOnce'
    BY <1>1, <1>2 DEF BufferOK, EachItemOnce, MasterPlace, Stacked
  <2>2. NoBufferWakeupLost'
    BY <1>1, <1>2, BufferAssumption DEF NoBufferWakeupLost
  <2> QED
    BY <2>1, <2>2 DEF BufferInv
<1>3. CASE /\ Len(buffer) # max_buf_size
           /\ SignalMaster([mpc EXCEPT ![m] = "test"]) /\ WakeWorkers
  <2>1. /\ mpc' \in [Masters -> MasterPlace]
        /\ (\E k \in Masters : mpc'[k] = "parked") => \E k \in Masters : mpc'[k] = "woken"
    <3> DEFINE after == [mpc EXCEPT ![m] = "test"]
    <3>1. after \in [Masters -> MasterPlace]
      BY <1>1 DEF BufferOK, MasterPlace
    <3>2. \A k \in Masters : after[k] = "parked" => mpc[k] = "parked"
      BY <1>1 DEF BufferOK
    <3> HIDE DEF after
    <3> QED
      BY <1>3, <3>1, <3>2, SignalMasterEffect DEF after
  <2>2. /\ wpc' \in [WorkerIds -> WorkerPlace]
        /\ \A u \in WorkerIds : wpc'[u] \notin {"parked_turn", "parked_item"}
    BY <1>1, <1>3, BroadcastEffect
  <2>3. NoBufferWakeupLost'
    BY <1>1, <2>1, <2>2 DEF NoBufferWakeupLost, BufferOK
  <2>4. CASE UNCHANGED <<item_to_produce, buffer, produced>>
    <3>1. BufferOK' /\ EachItemOnce'
      BY <1>1, <2>1, <2>2, <2>4 DEF BufferOK, EachItemOnce, Stacked
    <3> QED
      BY <2>3, <3>1 DEF BufferInv
  <2>5. CASE /\ item_to_produce < total_items
             /\ buffer' = Append(buffer, item_to_produce)
             /\ produced' = [produced EXCEPT ![item_to_produce] = @ + 1]
             /\ item_to_produce' = item_to_produce + 1
    <3>1. item_to_produce \in Items /\ item_to_produce \in Nat
      BY <1>1, <2>5, BufferAssumption DEF BufferOK, Items
    <3>2. BufferOK'
      <4>1. buffer' \in Seq(Items) /\ Len(buffer') <= max_buf_size
        BY <1>1, <1>3, <2>5, <3>1, BufferAssumption DEF BufferOK
      <4>2. item_to_produce' \in 0 .. total_items
        BY <1>1, <2>5, <3>1, BufferAssumption DEF BufferOK
      <4>3. produced' \in [Items -> Nat]
        BY <1>1, <2>5, <3>1 DEF BufferOK
      <4> QED
        BY <1>1, <2>1, <2>2, <4>1, <4>2, <4>3 DEF BufferOK
    <3>3. ASSUME NEW i \in Items
          PROVE  /\ produced'[i] = IF i < item_to_produce' THEN 1 ELSE 0
                 /\ consumed'[i] + Cardinality(Stacked(i)') = produced'[i]
      <4>1. i \in Nat /\ produced[i] \in Nat /\ consumed[i] \in Nat
        BY <1>1, BufferAssumption DEF BufferOK, Items
      <4>2. Cardinality(Stacked(i)) \in Nat
        BY <1>1, StackedFinite DEF BufferOK, Stacked
      <4>3. produced'[i] = produced[i] + (IF i = item_to_produce THEN 1 ELSE 0)
        BY <1>1, <2>5, <3>1, <4>1 DEF BufferOK
      <4>4. Cardinality(Stacked(i)') = Cardinality(Stacked(i)) + (IF i = item_to_produce THEN 1 ELSE 0)
        BY <1>1, <2>5, <3>1, Pushed
      <4>5. /\ produced[i] = IF i < item_to_produce THEN 1 ELSE 0
            /\ consumed[i] + Cardinality(Stacked(i)) = produced[i]
        BY <1>1 DEF EachItemOnce
      <4> QED
        BY <1>1, <2>5, <3>1, <4>1, <4>2, <4>3, <4>4, <4>5
    <3> QED
      BY <2>3, <3>2, <3>3 DEF BufferInv, EachItemOnce
  <2> QED
    BY <2>4, <2>5 DEF Produce
<1> QED
  BY <1>2, <1>3 DEF Produce

\* The worker that has the turn takes the last item and passes the turn on, and wakes
\* every worker and one master.
LEMMA ConsumeKeepsInv ==
    ASSUME BufferInv, NEW w \in WorkerIds, Consume(w)
    PROVE  BufferInv'
<1>1. BufferOK /\ EachItemOnce /\ NoBufferWakeupLost /\ buffer # <<>>
  BY DEF BufferInv, Consume
<1>2. /\ mpc' \in [Masters -> MasterPlace]
      /\ (\E k \in Masters : mpc'[k] = "parked") => \E k \in Masters : mpc'[k] = "woken"
  BY <1>1, SignalMasterEffect DEF BufferOK, Consume
<1>3. /\ wpc' \in [WorkerIds -> WorkerPlace]
      /\ \A u \in WorkerIds : wpc'[u] \notin {"parked_turn", "parked_item"}
  BY <1>1, BroadcastEffect DEF Consume
<1>4. worker_turn' \in WorkerIds
  BY <1>1, TurnPasses DEF Consume
<1>5. NoBufferWakeupLost'
  BY <1>2, <1>3, <1>4 DEF NoBufferWakeupLost
<1> DEFINE x == buffer[Len(buffer)]
<1>6. x \in Items /\ Len(buffer) \in Nat /\ Len(buffer) >= 1 /\ buffer \in Seq(Items)
  BY <1>1 DEF BufferOK
<1>7. /\ consumed' = [consumed EXCEPT ![x] = @ + 1]
      /\ buffer' = SubSeq(buffer, 1, Len(buffer) - 1)
      /\ UNCHANGED <<item_to_produce, produced>>
  BY DEF Consume
<1>8. BufferOK'
  <2>1. buffer' \in Seq(Items) /\ Len(buffer') <= max_buf_size
    BY <1>1, <1>6, <1>7, BufferAssumption DEF BufferOK
  <2>2. consumed' \in [Items -> Nat]
    BY <1>1, <1>6, <1>7 DEF BufferOK
  <2> QED
    BY <1>1, <1>2, <1>3, <1>4, <1>7, <2>1, <2>2 DEF BufferOK
<1>9. ASSUME NEW i \in Items
      PROVE  /\ produced'[i] = IF i < item_to_produce' THEN 1 ELSE 0
             /\ consumed'[i] + Cardinality(Stacked(i)') = produced'[i]
  <2>1. produced[i] \in Nat /\ consumed[i] \in Nat
    BY <1>1 DEF BufferOK
  <2>2. Cardinality(Stacked(i)) \in Nat
    BY <1>1, StackedFinite DEF BufferOK, Stacked
  <2>3. consumed'[i] = consumed[i] + (IF i = x THEN 1 ELSE 0)
    BY <1>1, <1>6, <1>7, <2>1 DEF BufferOK
  <2>4. Cardinality(Stacked(i)') = Cardinality(Stacked(i)) - (IF i = x THEN 1 ELSE 0)
    BY <1>1, <1>7, Popped
  <2>5. /\ produced[i] = IF i < item_to_produce THEN 1 ELSE 0
        /\ consumed[i] + Cardinality(Stacked(i)) = produced[i]
    BY <1>1 DEF EachItemOnce
  <2> HIDE DEF x
  <2>6. CASE i = x
    BY <2>1, <2>2, <2>3, <2>4, <2>5, <2>6, <1>7
  <2>7. CASE i # x
    BY <2>1, <2>2, <2>3, <2>4, <2>5, <2>7, <1>7
  <2> QED
    BY <2>6, <2>7
<1> QED
  BY <1>5, <1>8, <1>9 DEF BufferInv, EachItemOnce

\* The other steps leave the items alone.
LEMMA IdleKeepsInv ==
    ASSUME BufferInv,
           \/ \E m \in Masters : TestDone(m)
           \/ \E w \in WorkerIds : WaitTurn(w) \/ WaitItem(w) \/ Leave(w)
           \/ SpuriousBufferWakeup \/ BufferJoined \/ UNCHANGED bufferVars
    PROVE  BufferInv'
<1>1. BufferOK /\ EachItemOnce /\ NoBufferWakeupLost
  BY DEF BufferInv
<1>2. UNCHANGED <<item_to_produce, buffer, produced, consumed>>
  BY DEF TestDone, WaitTurn, WaitItem, Leave, SpuriousBufferWakeup, BufferJoined, bufferVars
<1>3. EachItemOnce'
  BY <1>1, <1>2 DEF EachItemOnce, Stacked
<1>4. /\ mpc' \in [Masters -> MasterPlace]
      /\ (\E m \in Masters : mpc[m] = "woken") => \E m \in Masters : mpc'[m] = "woken"
      /\ \/ \E m \in Masters : mpc'[m] = "woken"
         \/ \A m \in Masters : mpc'[m] = "parked" => mpc[m] = "parked"
  BY <1>1 DEF BufferOK, MasterPlace, TestDone, WaitTurn, WaitItem, Leave, SpuriousBufferWakeup, BufferJoined,
     bufferVars
<1> DEFINE Awake == /\ worker_turn' \in WorkerIds /\ wpc' \in [WorkerIds -> WorkerPlace]
                    /\ wpc'[worker_turn'] # "parked_turn"
                    /\ wpc'[worker_turn'] = "parked_item" =>
                         buffer = <<>> /\ item_to_produce < total_items
<1>5. Awake
  <2>1. ASSUME NEW w \in WorkerIds, Leave(w) PROVE Awake
    BY <1>1, <2>1, TurnPasses, BroadcastEffect DEF Leave
  <2>2. ASSUME NEW w \in WorkerIds, WaitTurn(w) \/ WaitItem(w) PROVE Awake
    BY <1>1, <2>2 DEF WaitTurn, WaitItem, BufferOK, NoBufferWakeupLost, WorkerPlace
  <2>3. ASSUME \/ \E m \in Masters : TestDone(m)
               \/ SpuriousBufferWakeup \/ BufferJoined \/ UNCHANGED bufferVars
        PROVE  Awake
    BY <1>1, <2>3 DEF TestDone, SpuriousBufferWakeup, BufferJoined, bufferVars, BufferOK, NoBufferWakeupLost,
       WorkerPlace, Woken
  <2> QED
    BY <2>1, <2>2, <2>3
<1>6. BufferOK'
  BY <1>1, <1>2, <1>4, <1>5 DEF BufferOK
<1>7. NoBufferWakeupLost'
  BY <1>1, <1>2, <1>4, <1>5 DEF NoBufferWakeupLost
<1> QED
  BY <1>3, <1>6, <1>7 DEF BufferInv

\* Every step keeps the invariant.
LEMMA StepKeepsBufferInv == BufferInv /\ [ProduceAndConsume]_bufferVars => BufferInv'
  BY ProduceKeepsInv, ConsumeKeepsInv, IdleKeepsInv DEF ProduceAndConsume, Master, Worker

\* The invariant holds for any numbers of items, places, masters and workers.
THEOREM BufferInvariant == BufferSpec => []BufferInv
<1> QED
  BY InitBufferInv, StepKeepsBufferInv, PTL DEF BufferSpec

\* Each item is produced once, and is then once in the stack or consumed once, as
\* check.awk counts (master-worker.c 37-52, 86-92).
THEOREM ItemsOnce == BufferSpec => []EachItemOnce
<1>1. BufferInv => EachItemOnce
  BY DEF BufferInv
<1> QED
  BY <1>1, BufferInvariant, PTL

\* One signal for each change of the stack and one broadcast for both conditions of
\* the workers are enough (master-worker.c 49-50, 81-82, 90-91).
THEOREM NobodySleepsThrough == BufferSpec => []NoBufferWakeupLost
<1>1. BufferInv => NoBufferWakeupLost
  BY DEF BufferInv
<1> QED
  BY <1>1, BufferInvariant, PTL
-----------------------------------------------------------------------------
(***************************************************************************)
(* The web server and its users.                                           *)
(***************************************************************************)

\* The users whose connections are in a queue; and a queue holds none twice.
Listed(s) == {s[k] : k \in DOMAIN s}
ListedOnce(s) == \A j, k \in DOMAIN s : s[j] = s[k] => j = k

\* What the places of the threads and of main say of the connections they hold.  A
\* thread between its test and its wait holds the mutex, so the queue is as it saw it.
HoldersKnown ==
    /\ \A t \in Workers : thread[t] \in {"serving", "closing"} <=> serving[t] # NoConn
    /\ running => \A t \in Workers : thread[t] # "closing"
    /\ main_at \in {"to_accept", "accept", "loop", "stopped"} => newsockfd = NoConn
    /\ main_at \in {"lock", "parked", "woken"} => newsockfd # NoConn
    /\ main_at = "accepted" /\ running => newsockfd # NoConn
    /\ main_at \in {"join", "stopped"} => ~running
    /\ main_at = "stopped" => \A t \in Workers : thread[t] = "gone"
    /\ running /\ ~MutexFree => client_queue = <<>>

\* Every open connection is in one hand, and no other is in any.
InOneHand ==
    /\ ListedOnce(client_queue) /\ ListedOnce(backlog)
    /\ Listed(client_queue) \cap Listed(backlog) = {}
    /\ newsockfd \notin Listed(client_queue) \union Listed(backlog)
    /\ \A t \in Workers : /\ serving[t] \notin Listed(client_queue) \union Listed(backlog)
                          /\ serving[t] # NoConn => serving[t] # newsockfd
    /\ \A t, s \in Workers : serving[t] = serving[s] /\ serving[t] # NoConn => t = s
    /\ \A u \in Users : Open(u) <=> \/ u \in Listed(client_queue) \union Listed(backlog)
                                    \/ u = newsockfd
                                    \/ \E t \in Workers : serving[t] = u

\* Who has a request under way has not used up its requests.
RequestsLeft ==
    \A u \in Users :
        user[u] \in {"connected", "sent", "closed", "reset"} => total_count[u] < MaxRequests

\* No thread serves a user again whose connection was once closed unanswered: the server
\* was shutting down by then.
CutForGood ==
    main_at # "stopped" =>
        \A u \in Users : cut[u] # 0 => \A t \in Workers : serving[t] # u

ServerInv == /\ ServerOK /\ HoldersKnown /\ (main_at # "stopped" => InOneHand)
             /\ RequestsLeft /\ AnswersCounted /\ CutForGood /\ NoServerWakeupLost
-----------------------------------------------------------------------------
\* What taking the first connection off a queue leaves.
LEMMA TailOnce ==
    ASSUME NEW s \in Seq(Users), s # <<>>, ListedOnce(s)
    PROVE  /\ Tail(s) \in Seq(Users) /\ Len(Tail(s)) = Len(s) - 1 /\ ListedOnce(Tail(s))
           /\ Head(s) \in Users /\ Head(s) \in Listed(s)
           /\ Listed(Tail(s)) = Listed(s) \ {Head(s)}
<1>1. /\ Len(s) \in Nat \ {0} /\ DOMAIN s = 1 .. Len(s) /\ Head(s) = s[1]
      /\ Tail(s) \in Seq(Users) /\ Len(Tail(s)) = Len(s) - 1
      /\ DOMAIN Tail(s) = 1 .. Len(s) - 1
      /\ \A k \in 1 .. Len(s) - 1 : Tail(s)[k] = s[k + 1]
  OBVIOUS
<1>2. ListedOnce(Tail(s))
  BY <1>1 DEF ListedOnce
<1>3. Head(s) \in Users /\ Head(s) \in Listed(s)
  BY <1>1 DEF Listed
<1>4. ASSUME NEW u \in Listed(Tail(s)) PROVE u \in Listed(s) \ {Head(s)}
  BY <1>1, <1>4 DEF Listed, ListedOnce
<1>5. ASSUME NEW u \in Listed(s) \ {Head(s)} PROVE u \in Listed(Tail(s))
  <2>1. PICK k \in 1 .. Len(s) : s[k] = u
    BY <1>1, <1>5 DEF Listed
  <2>2. k - 1 \in 1 .. Len(s) - 1 /\ (k - 1) + 1 = k
    BY <1>1, <1>5, <2>1
  <2> QED
    BY <1>1, <2>1, <2>2 DEF Listed
<1> QED
  BY <1>1, <1>2, <1>3, <1>4, <1>5

\* What appending a connection that is not in the queue leaves.
LEMMA AppendOnce ==
    ASSUME NEW s \in Seq(Users), NEW u \in Users, ListedOnce(s), u \notin Listed(s)
    PROVE  /\ Append(s, u) \in Seq(Users) /\ Len(Append(s, u)) = Len(s) + 1
           /\ ListedOnce(Append(s, u)) /\ Listed(Append(s, u)) = Listed(s) \union {u}
<1> DEFINE n == Len(s)
           r == Append(s, u)
<1>1. /\ n \in Nat /\ DOMAIN s = 1 .. n /\ r \in Seq(Users) /\ Len(r) = n + 1
      /\ DOMAIN r = 1 .. n + 1 /\ r[n + 1] = u
      /\ \A k \in 1 .. n : r[k] = s[k]
  OBVIOUS
<1> HIDE DEF n, r
<1>2. \A k \in 1 .. n + 1 : k \in 1 .. n \/ k = n + 1
  BY <1>1
<1>3. ListedOnce(r)
  BY <1>1, <1>2 DEF ListedOnce, Listed
<1>4. Listed(r) = Listed(s) \union {u}
  <2>1. ASSUME NEW x \in Listed(r) PROVE x \in Listed(s) \union {u}
    BY <1>1, <1>2, <2>1 DEF Listed
  <2>2. Listed(s) \subseteq Listed(r)
    <3>1. \A k \in 1 .. n : k \in 1 .. n + 1
      BY <1>1
    <3> QED
      BY <1>1, <3>1 DEF Listed
  <2>3. u \in Listed(r)
    <3>1. n + 1 \in 1 .. n + 1
      BY <1>1
    <3> QED
      BY <1>1, <3>1 DEF Listed
  <2> QED
    BY <2>1, <2>2, <2>3
<1> QED
  BY <1>1, <1>3, <1>4 DEF n, r

\* The sets of threads are finite, and one thread more or less counts as one.
LEMMA ThreadSets ==
    ASSUME NEW s
    PROVE  /\ Cardinality(ThreadsIn(s)) \in Nat
           /\ \A t \in Workers \ ThreadsIn(s) :
                Cardinality(ThreadsIn(s) \union {t}) = Cardinality(ThreadsIn(s)) + 1
           /\ \A t \in ThreadsIn(s) :
                Cardinality(ThreadsIn(s) \ {t}) = Cardinality(ThreadsIn(s)) - 1
<1>1. IsFiniteSet(ThreadsIn(s))
  BY WebServerAssumption, FS_Subset DEF ThreadsIn
<1> QED
  BY <1>1, FS_CardinalityType, FS_AddElement, FS_RemoveElement

\* What the step of one thread does to the parked and the woken ones.
LEMMA OneMoves ==
    ASSUME ServerOK, NEW t \in Workers, NEW s \in ThreadState,
           thread' = [thread EXCEPT ![t] = s]
    PROVE  LET woken == Cardinality(ThreadsIn("woken"))
           IN  /\ thread' \in [Workers -> ThreadState]
               /\ s # "parked" => ThreadsIn("parked")' \subseteq ThreadsIn("parked")
               /\ s = "woken" /\ thread[t] # "woken" => woken' = woken + 1
               /\ s # "woken" /\ thread[t] = "woken" => woken' = woken - 1
               /\ s # "woken" /\ thread[t] # "woken" => woken' = woken
<1>1. thread \in [Workers -> ThreadState]
  BY DEF ServerOK
<1>2. /\ thread' \in [Workers -> ThreadState]
      /\ s # "parked" => ThreadsIn("parked")' \subseteq ThreadsIn("parked")
  BY <1>1 DEF ThreadsIn
<1>3. ASSUME s = "woken", thread[t] # "woken"
      PROVE  Cardinality(ThreadsIn("woken")') = Cardinality(ThreadsIn("woken")) + 1
  <2>1. ThreadsIn("woken")' = ThreadsIn("woken") \union {t} /\ t \in Workers \ ThreadsIn("woken")
    BY <1>1, <1>3 DEF ThreadsIn
  <2> QED
    BY <2>1, ThreadSets
<1>4. ASSUME s # "woken", thread[t] = "woken"
      PROVE  Cardinality(ThreadsIn("woken")') = Cardinality(ThreadsIn("woken")) - 1
  <2>1. ThreadsIn("woken")' = ThreadsIn("woken") \ {t} /\ t \in ThreadsIn("woken")
    BY <1>1, <1>4 DEF ThreadsIn
  <2> QED
    BY <2>1, ThreadSets
<1>5. ASSUME s # "woken", thread[t] # "woken" PROVE ThreadsIn("woken")' = ThreadsIn("woken")
  BY <1>1, <1>5 DEF ThreadsIn
<1> QED
  BY <1>2, <1>3, <1>4, <1>5

\* A signal wakes a thread, unless none is parked.
LEMMA SignalEmptyEffect ==
    ASSUME ServerOK, SignalEmpty
    PROVE  /\ thread' \in [Workers -> ThreadState]
           /\ \A t \in Workers : \/ thread'[t] = thread[t]
                                 \/ thread[t] = "parked" /\ thread'[t] = "woken"
           /\ \/ ThreadsIn("parked")' = {}
              \/ Cardinality(ThreadsIn("woken")') = Cardinality(ThreadsIn("woken")) + 1
<1>1. CASE ThreadsIn("parked") = {} /\ UNCHANGED thread
  BY <1>1 DEF ServerOK, ThreadsIn
<1>2. ASSUME NEW t \in ThreadsIn("parked"), thread' = [thread EXCEPT ![t] = "woken"]
      PROVE  /\ thread' \in [Workers -> ThreadState]
             /\ \A s \in Workers : \/ thread'[s] = thread[s]
                                   \/ thread[s] = "parked" /\ thread'[s] = "woken"
             /\ Cardinality(ThreadsIn("woken")') = Cardinality(ThreadsIn("woken")) + 1
  <2>1. t \in Workers /\ thread[t] = "parked" /\ "woken" \in ThreadState
    BY DEF ThreadsIn, ThreadState
  <2>2. /\ thread' \in [Workers -> ThreadState]
        /\ Cardinality(ThreadsIn("woken")') = Cardinality(ThreadsIn("woken")) + 1
    BY <1>2, <2>1, OneMoves
  <2>3. \A s \in Workers : \/ thread'[s] = thread[s]
                           \/ thread[s] = "parked" /\ thread'[s] = "woken"
    BY <1>2, <2>1 DEF ServerOK
  <2> QED
    BY <2>2, <2>3
<1> QED
  BY <1>1, <1>2 DEF SignalEmpty

\* A step that moves no connection leaves each in its hand.
LEMMA HandsStill ==
    ASSUME UNCHANGED <<client_queue, backlog, serving, newsockfd>>,
           \A u \in Users : Open(u)' <=> Open(u)
    PROVE  InOneHand => InOneHand'
  BY DEF InOneHand

\* A step of main or of the threads leaves the users and their counts.
LEMMA CountsStill ==
    ASSUME ServerInv, UNCHANGED <<user, total_count, answered, cut>>,
           running' => running, main_at' = "stopped" <=> main_at = "stopped",
           \A t \in Workers : serving'[t] # NoConn => serving'[t] = serving[t]
    PROVE  RequestsLeft' /\ AnswersCounted' /\ CutForGood'
<1>1. ServerOK /\ HoldersKnown /\ RequestsLeft /\ AnswersCounted /\ CutForGood
  BY DEF ServerInv
<1>2. RequestsLeft'
  BY <1>1 DEF RequestsLeft
<1>3. ASSUME NEW u \in Users
      PROVE  cut[u] <= IF running' THEN 0 ELSE IF main_at' # "stopped" THEN 1 ELSE 2
  <2>1. cut[u] \in Nat /\ cut[u] <= IF running THEN 0 ELSE IF main_at # "stopped" THEN 1 ELSE 2
    BY <1>1, <1>3 DEF AnswersCounted, ServerOK
  <2> QED
    BY <2>1
<1>4. AnswersCounted'
  BY <1>1, <1>3 DEF AnswersCounted
<1>5. CutForGood'
  BY <1>1, WebServerAssumption DEF CutForGood
<1> QED
  BY <1>2, <1>4, <1>5

\* Whoever is woken instead of parked does not hurt, and a queue that does not change
\* needs no wakeup.
LEMMA WakeupsStill ==
    ASSUME NoServerWakeupLost, UNCHANGED client_queue, running' => running,
           ThreadsIn("parked")' \subseteq ThreadsIn("parked"),
           LET woken == Cardinality(ThreadsIn("woken")) IN woken' \in {woken, woken + 1},
           main_at' = "parked" => main_at = "parked", ServerOK
    PROVE  NoServerWakeupLost'
<1>1. Cardinality(ThreadsIn("woken")) \in Nat
  BY ThreadSets
<1>2. Len(client_queue) \in Nat
  BY DEF ServerOK
<1> QED
  BY <1>1, <1>2 DEF NoServerWakeupLost
-----------------------------------------------------------------------------
\* connection_handler

\* A thread finds out whether the server shuts down; it holds nothing yet.
LEMMA TestRunningKeepsInv ==
    ASSUME ServerInv, NEW t \in Workers, TestRunning(t) PROVE ServerInv'
<1>1. /\ ServerOK /\ HoldersKnown /\ NoServerWakeupLost
      /\ thread[t] = "start"
      /\ UNCHANGED <<running, client_queue, serving, main_at, newsockfd, userVars, backlog,
                     answered, cut, heard>>
  BY DEF ServerInv, TestRunning
<1>2. PICK s \in {"lock", "gone"} : thread' = [thread EXCEPT ![t] = s]
  BY DEF TestRunning
<1>3. /\ thread' \in [Workers -> ThreadState]
      /\ ThreadsIn("parked")' \subseteq ThreadsIn("parked")
      /\ Cardinality(ThreadsIn("woken")') = Cardinality(ThreadsIn("woken"))
  <2>1. s \in ThreadState
    BY DEF ThreadState
  <2> QED
    BY <1>1, <1>2, <2>1, OneMoves
<1>4. ServerOK'
  BY <1>1, <1>3 DEF ServerOK, userVars
<1>5. HoldersKnown'
  BY <1>1, <1>2 DEF HoldersKnown, ServerOK, MutexFree
<1>6. InOneHand => InOneHand'
  BY <1>1, HandsStill DEF Open, userVars
<1>7. RequestsLeft' /\ AnswersCounted' /\ CutForGood'
  BY <1>1, CountsStill DEF userVars
<1>8. NoServerWakeupLost'
  BY <1>1, <1>3, WakeupsStill
<1> QED
  BY <1>1, <1>4, <1>5, <1>6, <1>7, <1>8 DEF ServerInv

\* A thread that takes nothing: the queue is empty, or the server shuts down.
LEMMA TakeNothingKeepsInv ==
    ASSUME ServerInv, NEW t \in Workers, thread[t] \in {"lock", "woken"}, MutexFree,
           UNCHANGED <<running, client_queue, serving, main_at, newsockfd, userVars, backlog,
                       answered, cut, heard>>,
           \/ /\ client_queue = <<>> /\ running
              /\ thread' = [thread EXCEPT ![t] = "to_wait"]
           \/ ~running /\ thread' = [thread EXCEPT ![t] = "start"]
    PROVE  ServerInv'
<1>1. ServerOK /\ HoldersKnown /\ NoServerWakeupLost
  BY DEF ServerInv
<1>2. PICK s \in {"to_wait", "start"} :
        /\ thread' = [thread EXCEPT ![t] = s]
        /\ s = "to_wait" => client_queue = <<>>
        /\ s = "start" => ~running
  OBVIOUS
<1>3. thread' \in [Workers -> ThreadState] /\ ThreadsIn("parked")' \subseteq ThreadsIn("parked")
  <2>1. s \in ThreadState
    BY DEF ThreadState
  <2> QED
    BY <1>1, <1>2, <2>1, OneMoves
<1>4. ServerOK'
  BY <1>1, <1>3 DEF ServerOK, userVars
<1>5. HoldersKnown'
  BY <1>1, <1>2 DEF HoldersKnown, ServerOK, MutexFree
<1>6. InOneHand => InOneHand'
  BY HandsStill DEF Open, userVars
<1>7. RequestsLeft' /\ AnswersCounted' /\ CutForGood'
  BY CountsStill DEF userVars
<1>8. NoServerWakeupLost'
  <2>1. CASE ~running
    BY <2>1 DEF NoServerWakeupLost
  <2>2. CASE client_queue = <<>>
    <3>1. Len(client_queue') = 0 /\ QUEUE_MAX # 0 /\ Len(client_queue) = 0
      BY <2>2, WebServerAssumption
    <3>2. Cardinality(ThreadsIn("woken"))' \in Nat
      BY FS_Subset, FS_CardinalityType, WebServerAssumption DEF ThreadsIn
    <3> QED
      BY <1>1, <3>1, <3>2 DEF NoServerWakeupLost
  <2> QED
    BY <2>1, <2>2
<1> QED
  BY <1>4, <1>5, <1>6, <1>7, <1>8 DEF ServerInv

\* A thread that takes the first connection: the queue is shorter by one, and so at most
\* are the woken threads; main has room now, and is woken.
LEMMA TakeKeepsInv ==
    ASSUME ServerInv, NEW t \in Workers, thread[t] \in {"lock", "woken"}, MutexFree,
           client_queue # <<>>, running,
           serving' = [serving EXCEPT ![t] = Head(client_queue)],
           client_queue' = Tail(client_queue),
           thread' = [thread EXCEPT ![t] = "serving"], SignalFull,
           UNCHANGED <<running, newsockfd, userVars, backlog, answered, cut, heard>>
    PROVE  ServerInv'
<1>1. /\ ServerOK /\ HoldersKnown /\ NoServerWakeupLost /\ InOneHand
      /\ serving[t] = NoConn /\ main_at \notin {"join", "stopped"}
  BY DEF ServerInv, HoldersKnown
<1>2. /\ client_queue' \in Seq(Users) /\ Len(client_queue') = Len(client_queue) - 1
      /\ ListedOnce(client_queue') /\ Head(client_queue) \in Users
      /\ Head(client_queue) \in Listed(client_queue)
      /\ Listed(client_queue') = Listed(client_queue) \ {Head(client_queue)}
  BY <1>1, TailOnce DEF ServerOK, InOneHand
<1>3. LET woken == Cardinality(ThreadsIn("woken"))
      IN  /\ thread' \in [Workers -> ThreadState]
          /\ ThreadsIn("parked")' \subseteq ThreadsIn("parked")
          /\ woken' \in {woken, woken - 1} /\ woken \in Nat
  <2>1. "serving" \in ThreadState
    BY DEF ThreadState
  <2> QED
    BY <1>1, <2>1, OneMoves, ThreadSets
<1>4. /\ main_at' \in MainState /\ main_at' # "parked"
      /\ main_at' = main_at \/ (main_at = "parked" /\ main_at' = "woken")
  <2>1. main_at \in MainState
    BY <1>1 DEF ServerOK
  <2> QED
    BY <2>1 DEF SignalFull, MainState
<1>5. Len(client_queue) \in Nat /\ QUEUE_MAX \in Nat
  BY <1>1, WebServerAssumption DEF ServerOK
<1>6. ServerOK'
  <2>1. serving' \in [Workers -> Users \union {NoConn}]
    BY <1>1, <1>2 DEF ServerOK
  <2>2. Len(client_queue') <= QUEUE_MAX
    BY <1>1, <1>2, <1>5 DEF ServerOK
  <2> QED
    BY <1>1, <1>2, <1>3, <1>4, <2>1, <2>2 DEF ServerOK, userVars
<1>7. HoldersKnown'
  <2>1. Head(client_queue) # NoConn /\ MutexFree'
    BY <1>1, <1>2, WebServerAssumption DEF ServerOK, MutexFree
  <2> QED
    BY <1>1, <1>4, <2>1 DEF HoldersKnown, ServerOK
<1>8. InOneHand'
  <2> DEFINE u == Head(client_queue)
  <2>1. serving' = [serving EXCEPT ![t] = u] /\ u # newsockfd /\ u \notin Listed(backlog)
    BY <1>1, <1>2 DEF InOneHand
  <2>2. \A s \in Workers : serving[s] # u
    BY <1>1, <1>2 DEF InOneHand
  <2> HIDE DEF u
  <2>3. \A v \in Users : Open(v)' <=> Open(v)
    BY DEF Open, userVars
  <2>4. serving \in [Workers -> Users \union {NoConn}] /\ u \in Users /\ u \in Listed(client_queue)
        /\ Listed(client_queue)' = Listed(client_queue) \ {u} /\ ListedOnce(client_queue)'
        /\ u # NoConn
    BY <1>1, <1>2, WebServerAssumption DEF ServerOK, u
  <2>5. Listed(backlog)' = Listed(backlog) /\ newsockfd' = newsockfd /\ ListedOnce(backlog)'
    BY <1>1 DEF InOneHand
  <2>6. \A s \in Workers : serving'[s] = IF s = t THEN u ELSE serving[s]
    BY <2>1, <2>4
  <2>7. \A s, r \in Workers : serving'[s] = serving'[r] /\ serving'[s] # NoConn => s = r
    BY <1>1, <2>2, <2>6 DEF InOneHand
  <2>8. \A s \in Workers :
          /\ serving'[s] \notin Listed(client_queue)' \union Listed(backlog)'
          /\ serving'[s] # NoConn => serving'[s] # newsockfd'
    BY <1>1, <2>1, <2>4, <2>5, <2>6 DEF InOneHand
  <2>9. ASSUME NEW v \in Users
        PROVE  Open(v)' <=> \/ v \in Listed(client_queue)' \union Listed(backlog)'
                            \/ v = newsockfd'
                            \/ \E s \in Workers : serving'[s] = v
    <3>1. (\E s \in Workers : serving'[s] = v) <=> v = u \/ \E s \in Workers : serving[s] = v
      <4>1. v # u => t \notin {s \in Workers : serving[s] = v}
        BY <1>1, <2>9, WebServerAssumption
      <4> QED
        BY <2>6, <4>1
    <3> QED
      BY <1>1, <2>3, <2>4, <2>5, <3>1 DEF InOneHand
  <2> QED
    BY <1>1, <2>4, <2>5, <2>7, <2>8, <2>9 DEF InOneHand
<1>9. RequestsLeft' /\ AnswersCounted' /\ CutForGood'
  <2>1. \A v \in Users : cut[v] = 0
    BY <1>1 DEF ServerInv, AnswersCounted, ServerOK
  <2> QED
    BY <1>1, <1>4, <2>1 DEF ServerInv, RequestsLeft, AnswersCounted, CutForGood, userVars
<1>10. NoServerWakeupLost'
  <2>1. ThreadsIn("parked")' # {} => Len(client_queue) <= Cardinality(ThreadsIn("woken"))
    BY <1>1, <1>3 DEF NoServerWakeupLost
  <2>2. ThreadsIn("parked")' # {} => Len(client_queue') <= Cardinality(ThreadsIn("woken")')
    BY <1>2, <1>3, <1>5, <2>1
  <2> QED
    BY <1>4, <2>2 DEF NoServerWakeupLost
<1> QED
  BY <1>6, <1>7, <1>8, <1>9, <1>10 DEF ServerInv

\* The wait gives the mutex up; the queue is still empty.
LEMMA WaitKeepsInv ==
    ASSUME ServerInv, NEW t \in Workers, Wait(t) PROVE ServerInv'
<1>1. /\ ServerOK /\ HoldersKnown /\ NoServerWakeupLost
      /\ thread[t] = "to_wait" /\ thread' = [thread EXCEPT ![t] = "parked"]
      /\ UNCHANGED <<running, client_queue, serving, main_at, newsockfd, userVars, backlog,
                     answered, cut, heard>>
  BY DEF ServerInv, Wait
<1>2. ServerOK'
  BY <1>1 DEF ServerOK, ThreadState, userVars
<1>3. HoldersKnown'
  BY <1>1 DEF HoldersKnown, ServerOK, MutexFree
<1>4. InOneHand => InOneHand'
  BY <1>1, HandsStill DEF Open, userVars
<1>5. RequestsLeft' /\ AnswersCounted' /\ CutForGood'
  BY <1>1, CountsStill DEF userVars
<1>6. NoServerWakeupLost'
  <2>1. running => Len(client_queue) = 0
    BY <1>1 DEF HoldersKnown, MutexFree
  <2>2. Cardinality(ThreadsIn("woken"))' \in Nat
    BY FS_Subset, FS_CardinalityType, WebServerAssumption DEF ThreadsIn
  <2> QED
    BY <1>1, <2>1, <2>2 DEF NoServerWakeupLost
<1> QED
  BY <1>1, <1>2, <1>3, <1>4, <1>5, <1>6 DEF ServerInv

\* A spurious wakeup only adds to those that are woken.
LEMMA SpuriousKeepsServerInv ==
    ASSUME ServerInv, SpuriousServerWakeup PROVE ServerInv'
<1>1. /\ ServerOK /\ HoldersKnown /\ NoServerWakeupLost
      /\ UNCHANGED <<running, client_queue, serving, newsockfd, userVars, backlog, answered, cut, heard>>
  BY DEF ServerInv, SpuriousServerWakeup
<1> DEFINE woken == Cardinality(ThreadsIn("woken"))
           SomeWake == /\ thread' \in [Workers -> ThreadState]
                       /\ \A t \in Workers : \/ thread'[t] = thread[t]
                                             \/ thread[t] = "parked" /\ thread'[t] = "woken"
                       /\ ThreadsIn("parked")' \subseteq ThreadsIn("parked")
                       /\ woken' \in {woken, woken + 1}
<1>2. SomeWake
  <2>1. CASE UNCHANGED thread
    BY <1>1, <2>1 DEF ServerOK, ThreadsIn
  <2>2. ASSUME NEW t \in ThreadsIn("parked"), thread' = [thread EXCEPT ![t] = "woken"]
        PROVE  SomeWake
    <3>1. t \in Workers /\ thread[t] = "parked" /\ "woken" \in ThreadState
      BY DEF ThreadsIn, ThreadState
    <3> QED
      BY <1>1, <2>2, <3>1, OneMoves DEF ServerOK
  <2> QED
    BY <2>1, <2>2 DEF SpuriousServerWakeup
<1>3. /\ main_at' \in MainState
      /\ main_at' = main_at \/ (main_at = "parked" /\ main_at' = "woken")
  <2>1. main_at \in MainState
    BY <1>1 DEF ServerOK
  <2> QED
    BY <2>1 DEF SpuriousServerWakeup, MainState
<1>4. ServerOK'
  BY <1>1, <1>2, <1>3 DEF ServerOK, userVars
<1>5. HoldersKnown'
  BY <1>1, <1>2, <1>3 DEF HoldersKnown, MutexFree
<1>6. InOneHand => InOneHand'
  BY <1>1, HandsStill DEF Open, userVars
<1>7. RequestsLeft' /\ AnswersCounted' /\ CutForGood'
  BY <1>1, <1>3, CountsStill DEF userVars
<1>8. NoServerWakeupLost'
  BY <1>1, <1>2, <1>3, WakeupsStill
<1> QED
  BY <1>3, <1>4, <1>5, <1>6, <1>7, <1>8 DEF ServerInv

\* When a thread closes its connection, that is in no hand any more.
LEMMA CloseEffect ==
    ASSUME ServerInv, NEW t \in Workers, thread[t] \in {"serving", "closing"},
           NEW u, u = serving[t],
           serving' = [serving EXCEPT ![t] = NoConn], thread' = [thread EXCEPT ![t] = "start"],
           UNCHANGED <<running, client_queue, main_at, newsockfd, backlog>>,
           \A v \in Users : Open(v)' <=> Open(v) /\ v # u
    PROVE  HoldersKnown' /\ InOneHand' /\ NoServerWakeupLost' /\ thread' \in [Workers -> ThreadState]
<1>1. /\ ServerOK /\ HoldersKnown /\ NoServerWakeupLost /\ InOneHand
      /\ u \in Users /\ u # NoConn /\ main_at # "stopped"
  BY DEF ServerInv, HoldersKnown, ServerOK
<1>2. /\ thread' \in [Workers -> ThreadState]
      /\ ThreadsIn("parked")' \subseteq ThreadsIn("parked")
      /\ Cardinality(ThreadsIn("woken")') = Cardinality(ThreadsIn("woken"))
  <2>1. "start" \in ThreadState
    BY DEF ThreadState
  <2> QED
    BY <1>1, <2>1, OneMoves
<1>3. HoldersKnown'
  BY <1>1 DEF HoldersKnown, ServerOK, MutexFree
<1>4. InOneHand'
  <2>1. /\ serving \in [Workers -> Users \union {NoConn}] /\ serving[t] = u
        /\ NoConn \notin Users
    BY <1>1, WebServerAssumption DEF ServerOK
  <2>2. NoConn \notin Listed(client_queue) \union Listed(backlog)
    BY <1>1, WebServerAssumption DEF ServerOK, Listed
  <2>3. UNCHANGED <<Listed(client_queue), Listed(backlog)>>
    OBVIOUS
  <2>4. \A v \in Users : (\E s \in Workers : serving'[s] = v)
                          <=> (\E s \in Workers : serving[s] = v) /\ v # u
    BY <1>1, <2>1 DEF InOneHand
  <2>5. u \notin Listed(client_queue) \union Listed(backlog) /\ u # newsockfd
    BY <1>1, <2>1 DEF InOneHand
  <2>6. \A v \in Users : Open(v)' <=> \/ v \in Listed(client_queue)' \union Listed(backlog)'
                                      \/ v = newsockfd'
                                      \/ \E s \in Workers : serving'[s] = v
    BY <1>1, <2>3, <2>4, <2>5 DEF InOneHand
  <2> QED
    BY <1>1, <2>1, <2>2, <2>3, <2>6 DEF InOneHand
<1>5. NoServerWakeupLost'
  BY <1>1, <1>2, WakeupsStill
<1> QED
  BY <1>2, <1>3, <1>4, <1>5

\* The answer is counted as sent.
LEMMA RespondKeepsInv ==
    ASSUME ServerInv, NEW t \in Workers, Respond(t) PROVE ServerInv'
<1> DEFINE u == serving[t]
<1>1. /\ ServerOK /\ RequestsLeft /\ AnswersCounted /\ CutForGood
      /\ thread[t] = "serving" /\ u \in Users /\ Open(u) /\ main_at # "stopped"
  BY DEF ServerInv, Respond, HoldersKnown, ServerOK, Open
<1>2. /\ serving' = [serving EXCEPT ![t] = NoConn]
      /\ thread' = [thread EXCEPT ![t] = "start"]
      /\ UNCHANGED <<running, client_queue, main_at, newsockfd, backlog, done, total_count,
                     cut, heard>>
      /\ \/ /\ user[u] = "sent" /\ user' = [user EXCEPT ![u] = "closed"]
            /\ answered' = [answered EXCEPT ![u] = @ + 1]
         \/ /\ user[u] = "orphaned" /\ user' = [user EXCEPT ![u] = "failed"]
            /\ UNCHANGED answered
  BY DEF Respond
<1>3. u = serving[t]
  OBVIOUS
<1> HIDE DEF u
<1>4. \A v \in Users : Open(v)' <=> Open(v) /\ v # u
  BY <1>1, <1>2 DEF Open, ServerOK
<1>5. HoldersKnown' /\ InOneHand' /\ NoServerWakeupLost' /\ thread' \in [Workers -> ThreadState]
  BY <1>1, <1>2, <1>3, <1>4, CloseEffect
<1>6. ServerOK'
  <2>0. user \in [Users -> UserState] /\ answered \in [Users -> Nat] /\ u \in Users
    BY <1>1 DEF ServerOK
  <2>1. user' \in [Users -> UserState] /\ answered' \in [Users -> Nat]
    <3>1. CASE UNCHANGED answered
      <4>1. \E r \in UserState : user' = [user EXCEPT ![u] = r]
        BY <1>2 DEF UserState
      <4> QED
        BY <2>0, <3>1, <4>1
    <3>2. CASE answered' = [answered EXCEPT ![u] = @ + 1]
      <4>1. \E r \in UserState : user' = [user EXCEPT ![u] = r]
        BY <1>2 DEF UserState
      <4>2. answered[u] + 1 \in Nat
        BY <2>0
      <4>3. answered' \in [Users -> Nat]
        BY <2>0, <3>2, <4>2, Zenon
      <4> QED
        BY <2>0, <4>1, <4>3
    <3> QED
      BY <1>2, <3>1, <3>2
  <2>2. serving' \in [Workers -> Users \union {NoConn}]
    BY <1>1, <1>2 DEF ServerOK
  <2> QED
    BY <1>1, <1>2, <1>5, <2>1, <2>2 DEF ServerOK
<1>7. RequestsLeft' /\ AnswersCounted' /\ CutForGood'
  <2>1. RequestsLeft'
    BY <1>1, <1>2 DEF RequestsLeft, ServerOK
  <2>2. /\ answered \in [Users -> Nat] /\ cut \in [Users -> Nat] /\ total_count \in [Users -> Nat]
        /\ user \in [Users -> UserState]
    BY <1>1, WebServerAssumption DEF ServerOK
  <2>3. AnswersCounted'
    BY <1>1, <1>2, <2>2 DEF AnswersCounted
  <2>4. CutForGood'
    BY <1>1, <1>2, WebServerAssumption DEF CutForGood, ServerOK
  <2> QED
    BY <2>1, <2>3, <2>4
<1> QED
  BY <1>5, <1>6, <1>7 DEF ServerInv

\* Connections closed unanswered are open no more, and each counts once.
LEMMA CutOffEffect ==
    ASSUME ServerInv, NEW S \in SUBSET Users, CutOff(S), \A u \in S : Open(u)
    PROVE  /\ user' \in [Users -> UserState] /\ cut' \in [Users -> Nat]
           /\ \A u \in Users :
                /\ u \notin S => user'[u] = user[u] /\ cut'[u] = cut[u]
                /\ u \in S => \/ user'[u] = "closed" /\ cut'[u] = cut[u] + 1 /\ user[u] # "orphaned"
                              \/ user'[u] = "reset" /\ cut'[u] = cut[u] /\ user[u] # "orphaned"
                              \/ user'[u] = "failed" /\ cut'[u] = cut[u] /\ user[u] = "orphaned"
           /\ \A u \in Users : Open(u)' <=> Open(u) /\ u \notin S
<1>1. ServerOK
  BY DEF ServerInv
<1> DEFINE heldOpen == {u \in S : user[u] # "orphaned"}
<1>2. PICK byRST \in SUBSET heldOpen :
        /\ user' = [u \in Users |-> IF u \in byRST THEN "reset"
                                  ELSE IF u \in heldOpen THEN "closed"
                                  ELSE IF u \in S THEN "failed" ELSE user[u]]
        /\ cut' = [u \in Users |-> IF u \in heldOpen \ byRST THEN cut[u] + 1 ELSE cut[u]]
  BY DEF CutOff
<1>3. \A u \in Users :
        /\ u \notin S => user'[u] = user[u] /\ cut'[u] = cut[u]
        /\ u \in S => \/ user'[u] = "closed" /\ cut'[u] = cut[u] + 1 /\ user[u] # "orphaned"
                      \/ user'[u] = "reset" /\ cut'[u] = cut[u] /\ user[u] # "orphaned"
                      \/ user'[u] = "failed" /\ cut'[u] = cut[u] /\ user[u] = "orphaned"
  BY <1>2
<1>4. cut' \in [Users -> Nat]
  <2>1. \A u \in Users : cut[u] \in Nat /\ cut[u] + 1 \in Nat
    BY <1>1 DEF ServerOK
  <2> QED
    BY <1>2, <2>1
<1>5. user' \in [Users -> UserState]
  <2>1. \A u \in Users : user'[u] \in UserState
    BY <1>1, <1>3 DEF ServerOK, UserState
  <2>2. user' = [u \in Users |-> user'[u]]
    BY <1>2
  <2> QED
    BY <2>1, <2>2
<1>6. \A u \in Users : Open(u)' <=> Open(u) /\ u \notin S
  BY <1>3 DEF Open
<1> QED
  BY <1>3, <1>4, <1>5, <1>6

\* What it does to the figures: who is cut off has had no answer to this request.
LEMMA CutOffCounts ==
    ASSUME ServerInv, NEW S \in SUBSET Users, CutOff(S), \A u \in S : Open(u), ~running,
           running' = running, UNCHANGED <<total_count, answered>>,
           main_at' = "stopped" \/ \A u \in S : cut[u] = 0,
           main_at # "stopped"
    PROVE  RequestsLeft' /\ AnswersCounted'
<1>1. ServerOK /\ RequestsLeft /\ AnswersCounted
  BY DEF ServerInv
<1>2. \A u \in Users :
        /\ u \notin S => user'[u] = user[u] /\ cut'[u] = cut[u]
        /\ u \in S => \/ user'[u] = "closed" /\ cut'[u] = cut[u] + 1 /\ user[u] # "orphaned"
                      \/ user'[u] = "reset" /\ cut'[u] = cut[u] /\ user[u] # "orphaned"
                      \/ user'[u] = "failed" /\ cut'[u] = cut[u] /\ user[u] = "orphaned"
  BY CutOffEffect
<1>3. RequestsLeft'
  <2>1. ASSUME NEW u \in Users, user'[u] \in {"connected", "sent", "closed", "reset"}
        PROVE  user[u] \in {"connected", "sent", "closed", "reset"}
    BY <1>2, <2>1 DEF Open
  <2> QED
    BY <1>1, <2>1 DEF RequestsLeft
<1>4. /\ answered \in [Users -> Nat] /\ cut \in [Users -> Nat] /\ total_count \in [Users -> Nat]
  BY <1>1, WebServerAssumption DEF ServerOK
<1>5. ASSUME NEW u \in Users
      PROVE  answered[u] + cut'[u] - total_count[u] \in
               CASE user'[u] \in {"closed", "finished"} -> {1}
                 [] user'[u] \in {"orphaned", "failed"} -> {0, 1}
                 [] OTHER                               -> {0}
  <2>1. answered[u] + cut[u] - total_count[u] \in
          CASE user[u] \in {"closed", "finished"} -> {1}
            [] user[u] \in {"orphaned", "failed"} -> {0, 1}
            [] OTHER                              -> {0}
    BY <1>1 DEF AnswersCounted
  <2>2. CASE u \notin S
    BY <1>2, <2>1, <2>2
  <2>3. CASE u \in S
    <3>1. user[u] \in {"connected", "sent", "orphaned"}
      BY <2>3 DEF Open
    <3> QED
      BY <1>2, <1>4, <2>1, <2>3, <3>1
  <2> QED
    BY <2>2, <2>3
<1>6. ASSUME NEW u \in Users
      PROVE  cut'[u] <= IF main_at' # "stopped" THEN 1 ELSE 2
  <2>1. cut[u] <= 1
    BY <1>1 DEF AnswersCounted
  <2> QED
    BY <1>2, <1>4, <2>1
<1>7. AnswersCounted'
  BY <1>5, <1>6 DEF AnswersCounted
<1> QED
  BY <1>3, <1>7

\* The interrupted thread closes its connection: it has closed none of this user before.
LEMMA CloseUnreadKeepsInv ==
    ASSUME ServerInv, NEW t \in Workers, CloseUnread(t) PROVE ServerInv'
<1> DEFINE u == serving[t]
<1>1. /\ ServerOK /\ InOneHand /\ CutForGood /\ ~running
      /\ thread[t] = "closing" /\ u \in Users /\ u # NoConn /\ main_at # "stopped"
  BY DEF ServerInv, CloseUnread, HoldersKnown, ServerOK
<1>2. /\ CutOff({u})
      /\ serving' = [serving EXCEPT ![t] = NoConn]
      /\ thread' = [thread EXCEPT ![t] = "start"]
      /\ UNCHANGED <<running, client_queue, main_at, newsockfd, backlog, done, total_count,
                     answered, heard>>
  BY DEF CloseUnread
<1>3. u = serving[t] /\ Open(u) /\ cut[u] = 0
  BY <1>1 DEF InOneHand, CutForGood
<1> HIDE DEF u
<1>4. /\ user' \in [Users -> UserState] /\ cut' \in [Users -> Nat]
      /\ \A v \in Users : v # u => cut'[v] = cut[v]
      /\ \A v \in Users : Open(v)' <=> Open(v) /\ v # u
  <2>1. {u} \in SUBSET Users /\ \A v \in {u} : Open(v)
    BY <1>1, <1>3
  <2> QED
    BY <1>2, <2>1, CutOffEffect
<1>5. HoldersKnown' /\ InOneHand' /\ NoServerWakeupLost' /\ thread' \in [Workers -> ThreadState]
  BY <1>1, <1>2, <1>3, <1>4, CloseEffect
<1>6. ServerOK'
  BY <1>1, <1>2, <1>4, <1>5 DEF ServerOK
<1>7. RequestsLeft' /\ AnswersCounted'
  <2>1. {u} \in SUBSET Users /\ \A v \in {u} : Open(v) /\ cut[v] = 0
    BY <1>1, <1>3
  <2> QED
    BY <1>1, <1>2, <2>1, CutOffCounts
<1>8. CutForGood'
  <2>1. \A s \in Workers : serving'[s] # u
    BY <1>1, <1>2, <1>3 DEF InOneHand, ServerOK
  <2>2. \A s \in Workers : serving'[s] # NoConn => serving'[s] = serving[s]
    BY <1>1, <1>2 DEF ServerOK
  <2> QED
    BY <1>1, <1>2, <1>4, <2>1, <2>2, WebServerAssumption DEF CutForGood
<1> QED
  BY <1>5, <1>6, <1>7, <1>8 DEF ServerInv
-----------------------------------------------------------------------------
\* SIGINT and main

\* The broadcast leaves nobody parked, and with running reset no wakeup is owed.
LEMMA IntHandlerKeepsInv ==
    ASSUME ServerInv, NEW inMain \in BOOLEAN, NEW inRead \in SUBSET Reading,
           IntHandler(inMain, inRead)
    PROVE ServerInv'
<1>1. /\ ServerOK /\ HoldersKnown /\ main_at # "stopped" /\ running' = FALSE
      /\ thread' = [t \in Workers |-> CASE t \in inRead          -> "closing"
                                       [] thread[t] = "parked" -> "woken"
                                       [] OTHER                -> thread[t]]
      /\ UNCHANGED <<client_queue, serving, newsockfd, userVars, backlog, answered, cut>>
  BY DEF ServerInv, IntHandler
<1>2. /\ thread' \in [Workers -> ThreadState]
      /\ \A t \in Workers : \/ thread'[t] = thread[t]
                            \/ thread[t] = "parked" /\ thread'[t] = "woken"
                            \/ thread[t] = "serving" /\ thread'[t] = "closing"
  <2>1. \A t \in inRead : thread[t] = "serving"
    BY DEF Reading, ThreadsIn
  <2>2. \A t \in Workers : \/ thread'[t] = thread[t]
                           \/ thread[t] = "parked" /\ thread'[t] = "woken"
                           \/ thread[t] = "serving" /\ thread'[t] = "closing"
    BY <1>1, <2>1
  <2>3. \A t \in Workers : thread'[t] \in ThreadState
    BY <1>1, <2>2 DEF ServerOK, ThreadState
  <2> QED
    BY <1>1, <2>2, <2>3
<1>3. /\ main_at' \in MainState
      /\ main_at' = main_at \/ (main_at = "accept" /\ main_at' = "accepted")
  <2>1. main_at \in MainState
    BY <1>1 DEF ServerOK
  <2> QED
    BY <2>1 DEF IntHandler, MainState
<1>4. heard' \in BOOLEAN
  BY <1>1 DEF IntHandler, ServerOK
<1>5. ServerOK'
  BY <1>1, <1>2, <1>3, <1>4 DEF ServerOK, userVars
<1>6. HoldersKnown'
  <2>1. \A t \in Workers : thread'[t] \in {"serving", "closing"}
                              <=> thread[t] \in {"serving", "closing"}
    BY <1>2
  <2> QED
    BY <1>1, <1>3, <2>1 DEF HoldersKnown
<1>7. InOneHand => InOneHand'
  BY <1>1, HandsStill DEF Open, userVars
<1>8. RequestsLeft' /\ AnswersCounted' /\ CutForGood'
  BY <1>1, <1>3, CountsStill DEF userVars
<1>9. NoServerWakeupLost'
  BY <1>1 DEF NoServerWakeupLost
<1> QED
  BY <1>1, <1>3, <1>5, <1>6, <1>7, <1>8, <1>9 DEF ServerInv

\* The first of the backlog goes over into main's hand.
LEMMA AcceptKeepsInv ==
    ASSUME ServerInv, Accept PROVE ServerInv'
<1> DEFINE u == Head(backlog)
<1>1. /\ ServerOK /\ HoldersKnown /\ NoServerWakeupLost /\ InOneHand
      /\ main_at \in {"to_accept", "accept"} /\ main_at' = "accepted" /\ backlog # <<>> /\ newsockfd = NoConn
      /\ newsockfd' = u /\ backlog' = Tail(backlog)
      /\ UNCHANGED <<running, client_queue, thread, serving, userVars, answered, cut, heard>>
  BY DEF ServerInv, Accept, HoldersKnown
<1>2. /\ backlog' \in Seq(Users) /\ ListedOnce(backlog')
      /\ u \in Users /\ u # NoConn /\ u \in Listed(backlog)
      /\ Listed(backlog') = Listed(backlog) \ {u}
  BY <1>1, TailOnce, WebServerAssumption DEF ServerOK, InOneHand
<1> HIDE DEF u
<1>3. ServerOK'
  BY <1>1, <1>2 DEF ServerOK, userVars, MainState
<1>4. HoldersKnown'
  BY <1>1, <1>2 DEF HoldersKnown, MutexFree
<1>5. InOneHand'
  <2>1. \A v \in Users : Open(v)' <=> Open(v)
    BY <1>1 DEF Open, userVars
  <2>2. /\ UNCHANGED <<serving, client_queue, Listed(client_queue)>>
        /\ Listed(backlog)' = Listed(backlog) \ {u}
    BY <1>1, <1>2
  <2>3. u \notin Listed(client_queue) /\ \A t \in Workers : serving[t] # u
    BY <1>1, <1>2 DEF InOneHand
  <2> QED
    BY <1>1, <1>2, <2>1, <2>2, <2>3, WebServerAssumption DEF InOneHand
<1>6. RequestsLeft' /\ AnswersCounted' /\ CutForGood'
  BY <1>1, CountsStill DEF userVars
<1>7. NoServerWakeupLost'
  BY <1>1 DEF NoServerWakeupLost, ThreadsIn
<1> QED
  BY <1>3, <1>4, <1>5, <1>6, <1>7 DEF ServerInv

\* main goes on, or parks before a full queue.
LEMMA MainMovesKeepsInv ==
    ASSUME ServerInv,
           \/ Block \/ Accepted \/ TestLoop
           \/ /\ main_at \in {"lock", "woken"} /\ Len(client_queue) = QUEUE_MAX
              /\ main_at' = "parked"
              /\ UNCHANGED <<running, client_queue, thread, serving, newsockfd,
                             userVars, backlog, answered, cut, heard>>
    PROVE  ServerInv'
<1>1. /\ ServerOK /\ HoldersKnown /\ NoServerWakeupLost
      /\ UNCHANGED <<running, client_queue, thread, serving, newsockfd, userVars, backlog,
                     answered, cut, heard>>
  BY DEF ServerInv, Block, Accepted, TestLoop
<1>2. /\ main_at \in {"to_accept", "accepted", "loop", "lock", "woken"}
      /\ main_at' \in {"lock", "join", "to_accept", "accept", "parked"}
      /\ main_at' = "parked" => Len(client_queue) = QUEUE_MAX
  BY DEF Block, Accepted, TestLoop
<1>3. ServerOK'
  BY <1>1, <1>2 DEF ServerOK, userVars, MainState
<1>4. HoldersKnown'
  BY <1>1 DEF HoldersKnown, MutexFree, Block, Accepted, TestLoop
<1>5. InOneHand => InOneHand'
  BY <1>1, HandsStill DEF Open, userVars
<1>6. RequestsLeft' /\ AnswersCounted' /\ CutForGood'
  BY <1>1, <1>2, CountsStill DEF userVars
<1>7. NoServerWakeupLost'
  BY <1>1, <1>2 DEF NoServerWakeupLost, ThreadsIn
<1> QED
  BY <1>2, <1>3, <1>4, <1>5, <1>6, <1>7 DEF ServerInv

\* main's connection goes over into the queue, and one more thread is woken for it.
LEMMA PushKeepsInv ==
    ASSUME ServerInv, main_at \in {"lock", "woken"}, MutexFree,
           Len(client_queue) # QUEUE_MAX,
           client_queue' = Append(client_queue, newsockfd),
           newsockfd' = NoConn, SignalEmpty, main_at' = "loop",
           UNCHANGED <<running, serving, userVars, backlog, answered, cut, heard>>
    PROVE  ServerInv'
<1> DEFINE u == newsockfd
<1>1. /\ ServerOK /\ HoldersKnown /\ NoServerWakeupLost /\ InOneHand
      /\ u \in Users /\ u # NoConn /\ NoConn \notin Users
  BY WebServerAssumption DEF ServerInv, HoldersKnown, ServerOK
<1>2. u \notin Listed(client_queue) /\ u \notin Listed(backlog) /\ \A t \in Workers : serving[t] # u
  BY <1>1 DEF InOneHand
<1>3. /\ client_queue' \in Seq(Users) /\ Len(client_queue') = Len(client_queue) + 1
      /\ ListedOnce(client_queue') /\ Listed(client_queue') = Listed(client_queue) \union {u}
  BY <1>1, <1>2, AppendOnce DEF ServerOK, InOneHand
<1>4. /\ Len(client_queue) \in Nat /\ QUEUE_MAX \in Nat /\ Len(client_queue) <= QUEUE_MAX
      /\ Cardinality(ThreadsIn("woken")) \in Nat
  BY <1>1, WebServerAssumption, ThreadSets DEF ServerOK
<1>5. /\ thread' \in [Workers -> ThreadState]
      /\ \A t \in Workers : \/ thread'[t] = thread[t]
                            \/ thread[t] = "parked" /\ thread'[t] = "woken"
      /\ \/ ThreadsIn("parked")' = {}
         \/ Cardinality(ThreadsIn("woken")') = Cardinality(ThreadsIn("woken")) + 1
  BY <1>1, SignalEmptyEffect
<1>6. ServerOK'
  <2>1. Len(client_queue') <= QUEUE_MAX
    BY <1>3, <1>4
  <2> QED
    BY <1>1, <1>3, <1>5, <2>1 DEF ServerOK, userVars, MainState
<1>7. HoldersKnown'
  <2>1. MutexFree' /\ \A t \in Workers : /\ thread'[t] \in {"serving", "closing"}
                                              <=> thread[t] \in {"serving", "closing"}
                                         /\ thread'[t] = "closing" => thread[t] = "closing"
    BY <1>5 DEF MutexFree
  <2> QED
    BY <1>1, <2>1 DEF HoldersKnown
<1>8. InOneHand'
  <2> HIDE DEF u
  <2>1. \A v \in Users : Open(v)' <=> Open(v)
    BY DEF Open, userVars
  <2>2. /\ Listed(backlog)' = Listed(backlog)
        /\ Listed(client_queue)' = Listed(client_queue) \union {u} /\ ListedOnce(client_queue)'
    BY <1>3
  <2>3. NoConn \notin Listed(client_queue) \union Listed(backlog)
    BY <1>1 DEF ServerOK, Listed
  <2>4. u = newsockfd
    BY DEF u
  <2> QED
    BY <1>1, <1>2, <2>1, <2>2, <2>3, <2>4 DEF InOneHand
<1>9. RequestsLeft' /\ AnswersCounted' /\ CutForGood'
  BY CountsStill DEF userVars
<1>10. NoServerWakeupLost'
  <2>1. ASSUME running, ThreadsIn("parked")' # {}
        PROVE  Len(client_queue') <= Cardinality(ThreadsIn("woken")')
    <3>1. ThreadsIn("parked") # {}
      BY <1>5, <2>1 DEF ThreadsIn
    <3>2. Len(client_queue) <= Cardinality(ThreadsIn("woken"))
      BY <1>1, <2>1, <3>1 DEF NoServerWakeupLost
    <3> QED
      BY <1>3, <1>4, <1>5, <2>1, <3>2
  <2> QED
    BY <2>1 DEF NoServerWakeupLost
<1> QED
  BY <1>6, <1>7, <1>8, <1>9, <1>10 DEF ServerInv

\* With every thread gone no connection is held, and the rest go with the process.
LEMMA JoinKeepsInv ==
    ASSUME ServerInv, Join PROVE ServerInv'
<1> DEFINE S == {u \in Users : Open(u)}
<1>1. /\ ServerOK /\ HoldersKnown /\ ~running /\ main_at = "join" /\ main_at' = "stopped"
      /\ \A t \in Workers : thread[t] = "gone"
      /\ client_queue' = <<>> /\ newsockfd' = NoConn /\ backlog' = <<>> /\ CutOff(S)
      /\ UNCHANGED <<running, thread, serving, done, total_count, answered, heard>>
  BY DEF ServerInv, Join, HoldersKnown
<1>2. S \in SUBSET Users /\ \A u \in S : Open(u)
  OBVIOUS
<1> HIDE DEF S
<1>3. ServerOK'
  <2>1. Len(client_queue') <= QUEUE_MAX /\ client_queue' \in Seq(Users) /\ backlog' \in Seq(Users)
    BY <1>1, WebServerAssumption
  <2>2. user' \in [Users -> UserState] /\ cut' \in [Users -> Nat]
    BY <1>1, <1>2, CutOffEffect
  <2> QED
    BY <1>1, <2>1, <2>2 DEF ServerOK, MainState
<1>4. HoldersKnown'
  BY <1>1 DEF HoldersKnown
<1>5. RequestsLeft' /\ AnswersCounted'
  BY <1>1, <1>2, CutOffCounts
<1> QED
  BY <1>1, <1>3, <1>4, <1>5 DEF ServerInv, NoServerWakeupLost, CutForGood
-----------------------------------------------------------------------------
\* The users

\* A user that opens a connection has no other, so it joins the backlog once.
LEMMA ConnectKeepsInv ==
    ASSUME ServerInv, NEW u \in Users, Connect(u) PROVE ServerInv'
<1>1. /\ ServerOK /\ HoldersKnown /\ NoServerWakeupLost /\ InOneHand
      /\ RequestsLeft /\ AnswersCounted
      /\ user[u] = "think" /\ main_at # "stopped" /\ total_count[u] < MaxRequests
      /\ user' = [user EXCEPT ![u] = "connected"] /\ backlog' = Append(backlog, u)
      /\ UNCHANGED <<serverVars, done, total_count, answered, cut, heard>>
  BY DEF ServerInv, Connect
<1>2. ~Open(u)
  BY <1>1 DEF Open
<1>3. /\ u \notin Listed(client_queue) /\ u \notin Listed(backlog) /\ u # newsockfd
      /\ \A t \in Workers : serving[t] # u
  BY <1>1, <1>2 DEF InOneHand
<1>4. /\ backlog' \in Seq(Users) /\ ListedOnce(backlog')
      /\ Listed(backlog') = Listed(backlog) \union {u}
  BY <1>1, <1>3, AppendOnce DEF ServerOK, InOneHand
<1>5. ServerOK'
  BY <1>1, <1>4 DEF ServerOK, serverVars, UserState
<1>6. HoldersKnown'
  BY <1>1 DEF HoldersKnown, MutexFree, serverVars
<1>7. InOneHand'
  <2>1. \A v \in Users : Open(v)' <=> Open(v) \/ v = u
    BY <1>1 DEF Open, ServerOK
  <2>2. UNCHANGED <<serving, newsockfd, client_queue, Listed(client_queue)>>
    BY <1>1 DEF serverVars
  <2> QED
    BY <1>1, <1>3, <1>4, <2>1, <2>2 DEF InOneHand
<1>8. RequestsLeft' /\ AnswersCounted' /\ CutForGood'
  BY <1>1 DEF ServerInv, RequestsLeft, AnswersCounted, CutForGood, ServerOK, serverVars
<1>9. NoServerWakeupLost'
  BY <1>1 DEF NoServerWakeupLost, ThreadsIn, serverVars
<1> QED
  BY <1>5, <1>6, <1>7, <1>8, <1>9 DEF ServerInv

\* What a user does with the connection it has, or without one, opens and closes none.
LEMMA UserMovesKeepsInv ==
    ASSUME ServerInv, NEW u \in Users, Send(u) \/ Receive(u)
    PROVE  ServerInv'
<1>1. /\ ServerOK /\ HoldersKnown /\ NoServerWakeupLost /\ RequestsLeft /\ AnswersCounted
      /\ UNCHANGED <<serverVars, backlog, done, answered, cut, heard>>
  BY DEF ServerInv, Send, Receive
<1>2. PICK s \in UserState :
        /\ user' = [user EXCEPT ![u] = s]
        /\ \/ user[u] = "connected" /\ s = "sent" /\ UNCHANGED total_count
           \/ user[u] = "closed" /\ s = "finished" /\ UNCHANGED total_count
           \/ /\ user[u] = "closed" /\ s = "think"
              /\ total_count' = [total_count EXCEPT ![u] = @ + 1]
  BY DEF Send, Receive, UserState
<1>3. ServerOK'
  <2>1. total_count' \in [Users -> 0 .. MaxRequests]
    BY <1>1, <1>2, WebServerAssumption DEF ServerOK, RequestsLeft
  <2> QED
    BY <1>1, <1>2, <2>1 DEF ServerOK, serverVars
<1>4. HoldersKnown'
  BY <1>1 DEF HoldersKnown, MutexFree, serverVars
<1>5. InOneHand => InOneHand'
  <2>1. \A v \in Users : Open(v)' <=> Open(v)
    BY <1>1, <1>2 DEF Open, ServerOK
  <2> QED
    BY <1>1, <2>1, HandsStill DEF serverVars
<1>6. RequestsLeft' /\ AnswersCounted' /\ CutForGood'
  <2>1. /\ user \in [Users -> UserState] /\ answered \in [Users -> Nat]
        /\ cut \in [Users -> Nat] /\ UNCHANGED <<running, main_at, cut>>
        /\ total_count \in [Users -> Nat]
    BY <1>1, WebServerAssumption DEF ServerOK, serverVars
  <2>2. ASSUME NEW v \in Users, v # u
        PROVE  user'[v] = user[v] /\ total_count'[v] = total_count[v] /\ answered'[v] = answered[v]
    BY <1>1, <1>2, <2>1, <2>2
  <2>3. /\ user'[u] = s /\ answered'[u] = answered[u]
        /\ total_count'[u] = IF s = "think" THEN total_count[u] + 1 ELSE total_count[u]
        /\ s = "sent" => user[u] = "connected"
        /\ s # "sent" => user[u] = "closed" /\ s \in {"finished", "think"}
    BY <1>1, <1>2, <2>1
  <2>4. RequestsLeft'
    BY <1>1, <2>2, <2>3 DEF RequestsLeft
  <2>5. AnswersCounted'
    BY <1>1, <2>1, <2>2, <2>3 DEF AnswersCounted
  <2>6. CutForGood'
    BY <1>1 DEF ServerInv, CutForGood, serverVars
  <2> QED
    BY <2>4, <2>5, <2>6
<1>7. NoServerWakeupLost'
  BY <1>1 DEF NoServerWakeupLost, ThreadsIn, serverVars
<1> QED
  BY <1>1, <1>3, <1>4, <1>5, <1>6, <1>7 DEF ServerInv, serverVars

\* When one user finds the server gone, the generator exits with all of them; the server
\* keeps what connections it has.
LEMMA FailKeepsInv ==
    ASSUME ServerInv, NEW u \in Users, Fail(u) PROVE ServerInv'
<1>1. /\ ServerOK /\ HoldersKnown /\ NoServerWakeupLost /\ AnswersCounted
      /\ user' = [v \in Users |-> IF Open(v) THEN "orphaned" ELSE "failed"]
      /\ UNCHANGED <<serverVars, backlog, done, total_count, answered, cut, heard>>
  BY DEF ServerInv, Fail
<1>2. ServerOK'
  <2>1. user' \in [Users -> UserState]
    BY <1>1 DEF UserState
  <2> QED
    BY <1>1, <2>1 DEF ServerOK, serverVars
<1>3. HoldersKnown'
  BY <1>1 DEF HoldersKnown, MutexFree, serverVars
<1>4. InOneHand => InOneHand'
  <2>1. \A v \in Users : Open(v)' <=> Open(v)
    BY <1>1 DEF Open
  <2> QED
    BY <1>1, <2>1, HandsStill DEF serverVars
<1>5. RequestsLeft' /\ AnswersCounted' /\ CutForGood'
  <2>1. RequestsLeft' /\ CutForGood'
    BY <1>1 DEF ServerInv, RequestsLeft, CutForGood, serverVars
  <2>2. \A v \in Users : answered[v] + cut[v] - total_count[v] \in {0, 1}
    BY <1>1 DEF AnswersCounted
  <2>3. AnswersCounted'
    BY <1>1, <2>2 DEF AnswersCounted, serverVars
  <2> QED
    BY <2>1, <2>3
<1>6. NoServerWakeupLost'
  BY <1>1 DEF NoServerWakeupLost, ThreadsIn, serverVars
<1> QED
  BY <1>1, <1>2, <1>3, <1>4, <1>5, <1>6 DEF ServerInv, serverVars

\* The end of the generator's test, and a step that changes nothing
LEMMA StillKeepsInv ==
    ASSUME ServerInv, SetDone \/ UNCHANGED webVars PROVE ServerInv'
<1>1. /\ ServerOK /\ HoldersKnown /\ NoServerWakeupLost
      /\ UNCHANGED <<serverVars, backlog, user, total_count, answered, cut, heard>>
      /\ done' \in BOOLEAN
  BY DEF ServerInv, SetDone, webVars, userVars, ServerOK
<1>2. ServerOK'
  BY <1>1 DEF ServerOK, serverVars
<1>3. HoldersKnown'
  BY <1>1 DEF HoldersKnown, MutexFree, serverVars
<1>4. InOneHand => InOneHand'
  BY <1>1, HandsStill DEF Open, serverVars
<1>5. RequestsLeft' /\ AnswersCounted' /\ CutForGood'
  BY <1>1, CountsStill DEF serverVars
<1>6. NoServerWakeupLost'
  BY <1>1 DEF NoServerWakeupLost, ThreadsIn, serverVars
<1> QED
  BY <1>1, <1>2, <1>3, <1>4, <1>5, <1>6 DEF ServerInv, serverVars
-----------------------------------------------------------------------------
\* Nobody has connected, and the threads have not started.
LEMMA InitServerInv == InitServer => ServerInv
<1> SUFFICES ASSUME InitServer PROVE ServerInv
  OBVIOUS
<1>1. ServerOK
  <2>1. /\ client_queue \in Seq(Users) /\ backlog \in Seq(Users)
        /\ Len(client_queue) <= QUEUE_MAX /\ 0 \in 0 .. MaxRequests
    BY WebServerAssumption DEF InitServer
  <2> QED
    BY <2>1 DEF InitServer, ServerOK, ThreadState, MainState, UserState
<1>2. HoldersKnown
  BY DEF InitServer, HoldersKnown, MutexFree
<1>3. InOneHand
  <2>1. Listed(client_queue) = {} /\ Listed(backlog) = {}
    BY DEF InitServer, Listed
  <2>2. \A u \in Users : ~Open(u) /\ u # NoConn
    BY WebServerAssumption DEF InitServer, Open
  <2> QED
    BY <2>1, <2>2 DEF InitServer, InOneHand, ListedOnce
<1>4. RequestsLeft /\ AnswersCounted /\ CutForGood
  BY DEF InitServer, RequestsLeft, AnswersCounted, CutForGood
<1>5. NoServerWakeupLost
  BY DEF InitServer, NoServerWakeupLost, ThreadsIn
<1> QED
  BY <1>1, <1>2, <1>3, <1>4, <1>5 DEF ServerInv

\* Every step keeps the invariant.
LEMMA StepKeepsServerInv == ServerInv /\ [NextServer]_webVars => ServerInv'
<1> SUFFICES ASSUME ServerInv, [NextServer]_webVars PROVE ServerInv'
  OBVIOUS
<1>1. ASSUME NEW t \in Workers, TakeOrWait(t) PROVE ServerInv'
  <2>1. thread[t] \in {"lock", "woken"} /\ MutexFree
    BY <1>1 DEF TakeOrWait
  <2>2. \/ /\ UNCHANGED <<running, client_queue, serving, main_at, newsockfd, userVars, backlog,
                          answered, cut, heard>>
           /\ \/ /\ client_queue = <<>> /\ running
                 /\ thread' = [thread EXCEPT ![t] = "to_wait"]
              \/ ~running /\ thread' = [thread EXCEPT ![t] = "start"]
        \/ /\ client_queue # <<>> /\ running
           /\ serving' = [serving EXCEPT ![t] = Head(client_queue)]
           /\ client_queue' = Tail(client_queue)
           /\ thread' = [thread EXCEPT ![t] = "serving"] /\ SignalFull
           /\ UNCHANGED <<running, newsockfd, userVars, backlog, answered, cut, heard>>
    BY <1>1 DEF TakeOrWait
  <2> QED
    BY <2>1, <2>2, TakeNothingKeepsInv, TakeKeepsInv
<1>2. ASSUME NEW t \in Workers, Thread(t) PROVE ServerInv'
  BY <1>1, <1>2, TestRunningKeepsInv, WaitKeepsInv, RespondKeepsInv,
     CloseUnreadKeepsInv DEF Thread
<1>3. CASE Enqueue
  <2>1. main_at \in {"lock", "woken"} /\ MutexFree
    BY <1>3 DEF Enqueue
  <2>2. \/ /\ Len(client_queue) = QUEUE_MAX /\ main_at' = "parked"
           /\ UNCHANGED <<running, client_queue, thread, serving, newsockfd,
                          userVars, backlog, answered, cut, heard>>
        \/ /\ Len(client_queue) # QUEUE_MAX
           /\ client_queue' = Append(client_queue, newsockfd)
           /\ newsockfd' = NoConn /\ SignalEmpty /\ main_at' = "loop"
           /\ UNCHANGED <<running, serving, userVars, backlog, answered, cut, heard>>
    BY <1>3 DEF Enqueue
  <2> QED
    BY <2>1, <2>2, MainMovesKeepsInv, PushKeepsInv
<1>4. CASE Main
  BY <1>3, <1>4, AcceptKeepsInv, MainMovesKeepsInv, JoinKeepsInv DEF Main
<1>5. ASSUME NEW u \in Users, User(u) PROVE ServerInv'
  BY <1>5, ConnectKeepsInv, UserMovesKeepsInv, FailKeepsInv DEF User
<1>6. CASE Interrupt
  <2>1. {} \in SUBSET Reading /\ \A t \in Reading : {t} \in SUBSET Reading
    OBVIOUS
  <2> QED
    BY <1>6, <2>1, IntHandlerKeepsInv DEF Interrupt
<1> QED
  BY <1>2, <1>4, <1>5, <1>6, SpuriousKeepsServerInv, StillKeepsInv DEF NextServer, Ended

\* The web server and its users keep the invariant (simple_server.cpp:12-208,
\* generator.c:8-111).
THEOREM ServerInvariant == ServerSpec => []ServerInv
  BY InitServerInv, StepKeepsServerInv, PTL DEF ServerSpec

\* A connection in one hand is in one place.
LEMMA OneHandOnePlace ==
    ASSUME ServerInv, main_at # "stopped", NEW u \in Users
    PROVE  Cardinality(Places(u)) = IF Open(u) THEN 1 ELSE 0
<1>1. InOneHand /\ ServerOK /\ u # NoConn
  BY WebServerAssumption DEF ServerInv
<1> DEFINE InQueue(p)   == \E k \in DOMAIN client_queue : client_queue[k] = u /\ p = <<"queue", k>>
           InBacklog(p) == \E k \in DOMAIN backlog : backlog[k] = u /\ p = <<"backlog", k>>
           InMain(p)    == newsockfd = u /\ p = <<"main", 0>>
           InThread(p)  == \E t \in Workers : serving[t] = u /\ p = <<"thread", t>>
<1>2. \A p : p \in Places(u) <=> InQueue(p) \/ InBacklog(p) \/ InMain(p) \/ InThread(p)
  BY DEF Places
<1>3. \A p : /\ InQueue(p) => u \in Listed(client_queue)
             /\ InBacklog(p) => u \in Listed(backlog)
             /\ InThread(p) => \E t \in Workers : serving[t] = u
  BY DEF Listed
<1>4. CASE ~Open(u)
  <2>1. Places(u) = {}
    BY <1>1, <1>2, <1>3, <1>4 DEF InOneHand
  <2> QED
    BY <1>4, <2>1, FS_EmptySet
<1>5. CASE Open(u)
  <2>1. \E p : Places(u) = {p}
    <3>1. CASE u \in Listed(client_queue)
      <4>1. PICK k \in DOMAIN client_queue : client_queue[k] = u
        BY <3>1 DEF Listed
      <4>2. \A p : InQueue(p) <=> p = <<"queue", k>>
        BY <1>1, <4>1 DEF InOneHand, ListedOnce
      <4>3. \A p : ~InBacklog(p) /\ ~InMain(p) /\ ~InThread(p)
        BY <1>1, <1>3, <3>1 DEF InOneHand
      <4>4. Places(u) = {<<"queue", k>>}
        BY <1>2, <4>2, <4>3
      <4> QED
        BY <4>4
    <3>2. CASE u \in Listed(backlog)
      <4>1. PICK k \in DOMAIN backlog : backlog[k] = u
        BY <3>2 DEF Listed
      <4>2. \A p : InBacklog(p) <=> p = <<"backlog", k>>
        BY <1>1, <4>1 DEF InOneHand, ListedOnce
      <4>3. \A p : ~InQueue(p) /\ ~InMain(p) /\ ~InThread(p)
        BY <1>1, <1>3, <3>2 DEF InOneHand
      <4>4. Places(u) = {<<"backlog", k>>}
        BY <1>2, <4>2, <4>3
      <4> QED
        BY <4>4
    <3>3. CASE u = newsockfd
      <4>1. \A p : ~InQueue(p) /\ ~InBacklog(p) /\ ~InThread(p)
        BY <1>1, <1>3, <3>3 DEF InOneHand
      <4>2. Places(u) = {<<"main", 0>>}
        BY <1>2, <3>3, <4>1
      <4> QED
        BY <4>2
    <3>4. CASE \E t \in Workers : serving[t] = u
      <4>1. PICK t \in Workers : serving[t] = u
        BY <3>4
      <4>2. \A p : InThread(p) <=> p = <<"thread", t>>
        BY <1>1, <4>1 DEF InOneHand
      <4>3. \A p : ~InQueue(p) /\ ~InBacklog(p) /\ ~InMain(p)
        BY <1>1, <1>3, <4>1 DEF InOneHand
      <4>4. Places(u) = {<<"thread", t>>}
        BY <1>2, <4>2, <4>3
      <4> QED
        BY <4>4
    <3> QED
      BY <1>1, <1>5, <3>1, <3>2, <3>3, <3>4 DEF InOneHand
  <2> QED
    BY <1>5, <2>1, FS_Singleton
<1> QED
  BY <1>4, <1>5

\* For any finite sets of threads and users, any size of the queue and any number of
\* requests, with spurious wakeups and with SIGINT at any moment, in main or in a thread of
\* the pool: no connection or wakeup is lost or taken twice, and what a user has counted is
\* its answers and the connections closed unanswered, none of those before SIGINT and at
\* most two ever (simple_server.cpp:19-46, 88, 169-208; generator.c:93-101).
THEOREM NothingIsLost == ServerSpec => []NothingLost
<1>1. ServerInv => NothingLost
  <2> SUFFICES ASSUME ServerInv PROVE NothingLost
    OBVIOUS
  <2>1. EachConnectionOncePlaced
    BY OneHandOnePlace DEF EachConnectionOncePlaced
  <2> QED
    BY <2>1 DEF ServerInv, NothingLost
<1> QED
  BY <1>1, ServerInvariant, PTL

-----------------------------------------------------------------------------
(***************************************************************************)
(* The writer-preference lock, for any finite set of threads, and the test *)
(* program that prints a verdict on it.                                    *)
(***************************************************************************)

\* The inductive invariant: on top of what the reader-preference lock needs,
\* writer_count counts the writers that write or wait to.
LockInv ==
    /\ TypeOK
    /\ CountsReaders
    /\ CountsWriters
    /\ FlagsWriter
    /\ Exclusion
    /\ NoWakeupLost

\* A set of threads is finite, no larger than Threads, and empty iff it counts 0.
LEMMA LockThreadSets ==
    ASSUME NEW S \in SUBSET Threads
    PROVE  /\ IsFiniteSet(S)
           /\ Cardinality(S) \in 0 .. Cardinality(Threads)
           /\ Cardinality(S) = 0 <=> S = {}
<1>1. IsFiniteSet(Threads) /\ IsFiniteSet(S) /\ Cardinality(S) <= Cardinality(Threads)
  BY ThreadsFinite, FS_Subset
<1>2. Cardinality(S) \in Nat /\ Cardinality(Threads) \in Nat
  BY <1>1, FS_CardinalityType
<1>3. Cardinality(S) = 0 <=> S = {}
  BY <1>1, FS_EmptySet
<1> QED
  BY <1>1, <1>2, <1>3

LEMMA Subsets ==
    In("reading") \in SUBSET Threads /\ PendingWriters \in SUBSET Threads
  BY DEF In, PendingWriters

\* Each count is 0 exactly when there is nobody to count.
LEMMA NobodyCounted ==
    ASSUME CountsReaders, CountsWriters
    PROVE  /\ reader_count = 0 <=> In("reading") = {}
           /\ writer_count = 0 <=> PendingWriters = {}
  BY Subsets, LockThreadSets DEF CountsReaders, CountsWriters

\* One more or one less thread inside or pending: the counts stay true and within
\* their range.
LEMMA CountUp ==
    ASSUME NEW S \in SUBSET Threads, NEW t \in Threads, t \notin S
    PROVE  Cardinality(S \union {t}) = Cardinality(S) + 1
  BY LockThreadSets, FS_AddElement

LEMMA CountDown ==
    ASSUME NEW S \in SUBSET Threads, NEW t \in S
    PROVE  Cardinality(S \ {t}) = Cardinality(S) - 1
  BY LockThreadSets, FS_RemoveElement

LEMMA CountsInRange ==
    ASSUME CountsReaders', CountsWriters'
    PROVE  /\ reader_count' \in 0 .. Cardinality(Threads)
           /\ writer_count' \in 0 .. Cardinality(Threads)
<1>1. In("reading")' \in SUBSET Threads /\ PendingWriters' \in SUBSET Threads
  BY DEF In, PendingWriters
<1> QED
  BY <1>1, LockThreadSets DEF CountsReaders, CountsWriters

\* What a signal does: at most one parked writer moves, and one does if any can.
LEMMA WriteSignalEffect ==
    ASSUME NEW after, SignalCanWrite(after)
    PROVE  \/ at' = after /\ \A u \in Threads : at[u] # "wait_write"
           \/ \E w \in Threads : /\ at[w] = "wait_write"
                                 /\ at' = [after EXCEPT ![w] = "retry_write"]
  BY DEF SignalCanWrite, In

LEMMA InitKeepsLockInv == InitalizeReadWriteLock => LockInv
<1> SUFFICES ASSUME InitalizeReadWriteLock PROVE LockInv
  OBVIOUS
<1>1. /\ In("reading") = {} /\ In("writing") = {} /\ In("wait_read") = {}
      /\ In("wait_write") = {} /\ In("retry_write") = {}
  BY DEF InitalizeReadWriteLock, In
<1>2. PendingWriters = {}
  BY <1>1 DEF PendingWriters
<1>3. Cardinality({}) = 0 /\ Cardinality({}) \in 0 .. Cardinality(Threads)
  BY LockThreadSets
<1> QED
  BY <1>1, <1>2, <1>3 DEF InitalizeReadWriteLock, LockInv, TypeOK, Location, CountsReaders,
                          CountsWriters, FlagsWriter, Exclusion, NoWakeupLost

\* One lemma for each function of the lock: LockInv survives it.
LEMMA ReaderLockKeepsLockInv ==
    ASSUME LockInv, NEW t \in Threads, ReaderLock(t)
    PROVE  LockInv'
<1> USE DEF LockInv, TypeOK, Location
<1>1. /\ UNCHANGED <<writer_count, writer_writing>>
      /\ at[t] \in {"out", "retry_read"}
  BY DEF ReaderLock
<1>2. CASE writer_count > 0 \/ writer_writing
  <2>1. at' = [at EXCEPT ![t] = "wait_read"] /\ reader_count' = reader_count
    BY <1>2 DEF ReaderLock
  <2>2. /\ In("reading")' = In("reading") /\ In("writing")' = In("writing")
        /\ In("wait_write")' = In("wait_write") /\ In("retry_write")' = In("retry_write")
    BY <1>1, <2>1 DEF In
  <2>3. PendingWriters' = PendingWriters
    BY <2>2 DEF PendingWriters
  <2>4. PendingWriters # {}
    BY <1>2, NobodyCounted DEF FlagsWriter, PendingWriters
  <2> QED
    BY <1>1, <2>1, <2>2, <2>3, <2>4
       DEF CountsReaders, CountsWriters, FlagsWriter, Exclusion, NoWakeupLost
<1>3. CASE ~(writer_count > 0 \/ writer_writing)
  <2>1. at' = [at EXCEPT ![t] = "reading"] /\ reader_count' = reader_count + 1
    BY <1>3 DEF ReaderLock
  <2>2. /\ In("reading")' = In("reading") \union {t} /\ t \notin In("reading")
        /\ In("writing")' = In("writing") /\ In("wait_write")' = In("wait_write")
        /\ In("retry_write")' = In("retry_write")
        /\ In("wait_read")' = In("wait_read")
    BY <1>1, <2>1 DEF In
  <2>3. PendingWriters' = PendingWriters
    BY <2>2 DEF PendingWriters
  <2>4. PendingWriters = {} /\ In("writing") = {}
    BY <1>3, NobodyCounted DEF PendingWriters
  <2>5. CountsReaders'
    BY <2>1, <2>2, Subsets, CountUp DEF CountsReaders
  <2>6. CountsWriters'
    BY <1>1, <2>3 DEF CountsWriters
  <2> QED
    BY <1>1, <2>1, <2>2, <2>3, <2>4, <2>5, <2>6, CountsInRange
       DEF FlagsWriter, Exclusion, NoWakeupLost, PendingWriters
<1> QED
  BY <1>2, <1>3

LEMMA ReaderUnlockKeepsLockInv ==
    ASSUME LockInv, NEW t \in Threads, ReaderUnlock(t)
    PROVE  LockInv'
<1> USE DEF LockInv, TypeOK, Location
<1> DEFINE after == [at EXCEPT ![t] = "out"]
<1>1. /\ at[t] = "reading" /\ reader_count' = reader_count - 1
      /\ UNCHANGED <<writer_count, writer_writing>>
  BY DEF ReaderUnlock
<1>2. In("writing") = {} /\ ~writer_writing
  BY <1>1 DEF Exclusion, In, FlagsWriter
<1>3. \/ at' = after /\ (reader_count' = 0 => In("wait_write") = {})
      \/ \E w \in Threads : at[w] = "wait_write" /\ at' = [after EXCEPT ![w] = "retry_write"]
  BY WriteSignalEffect DEF ReaderUnlock, In
<1>4. at' \in [Threads -> Location]
  BY <1>3
<1>5. /\ In("reading")' = In("reading") \ {t} /\ t \in In("reading")
      /\ In("writing")' = {} /\ In("wait_read")' = In("wait_read")
      /\ PendingWriters' = PendingWriters
  BY <1>1, <1>2, <1>3 DEF In, PendingWriters
<1>6. CountsReaders'
  BY <1>1, <1>5, Subsets, CountDown DEF CountsReaders
<1>7. CountsWriters'
  BY <1>1, <1>5 DEF CountsWriters
<1>8. In("wait_write")' # {} => reader_count' > 0 \/ In("retry_write")' # {}
  <2>1. CASE at' = after /\ (reader_count' = 0 => In("wait_write") = {})
    BY <2>1, <1>1, <1>6, <1>7, CountsInRange DEF In
  <2>2. CASE \E w \in Threads : /\ at[w] = "wait_write"
                                /\ at' = [after EXCEPT ![w] = "retry_write"]
    BY <2>2, <1>1 DEF In
  <2> QED
    BY <1>3, <2>1, <2>2
<1> QED
  BY <1>1, <1>2, <1>4, <1>5, <1>6, <1>7, <1>8, CountsInRange
     DEF FlagsWriter, Exclusion, NoWakeupLost

LEMMA WriterLockKeepsLockInv ==
    ASSUME LockInv, NEW t \in Threads, WriterLock(t)
    PROVE  LockInv'
<1> USE DEF LockInv, TypeOK, Location
<1>1. /\ at[t] \in {"out", "retry_write"} /\ reader_count' = reader_count
      /\ writer_count' = IF at[t] = "out" THEN writer_count + 1 ELSE writer_count
      /\ \/ /\ reader_count > 0 \/ writer_writing
            /\ at' = [at EXCEPT ![t] = "wait_write"]
            /\ writer_writing' = writer_writing
         \/ /\ ~(reader_count > 0 \/ writer_writing)
            /\ writer_writing' = TRUE
            /\ at' = [at EXCEPT ![t] = "writing"]
  BY DEF WriterLock
<1>2. /\ In("reading")' = In("reading") /\ In("wait_read")' = In("wait_read")
      /\ PendingWriters' = PendingWriters \union {t}
      /\ t \in PendingWriters <=> at[t] = "retry_write"
  BY <1>1 DEF In, PendingWriters
<1>3. CountsReaders'
  BY <1>1, <1>2 DEF CountsReaders
<1>4. CountsWriters'
  <2>1. CASE at[t] = "out"
    BY <2>1, <1>1, <1>2, Subsets, CountUp DEF CountsWriters
  <2>2. CASE at[t] = "retry_write"
    <3>1. PendingWriters' = PendingWriters
      BY <2>2, <1>2
    <3> QED
      BY <2>2, <3>1, <1>1 DEF CountsWriters
  <2> QED
    BY <1>1, <2>1, <2>2
<1>5. at' \in [Threads -> Location] /\ writer_writing' \in BOOLEAN
  BY <1>1
<1>6. FlagsWriter' /\ Exclusion' /\ NoWakeupLost'
  <2>1. CASE reader_count > 0 \/ writer_writing
    <3>1. In("writing")' = In("writing") /\ writer_writing' = writer_writing
      BY <2>1, <1>1 DEF In
    <3> QED
      BY <2>1, <3>1, <1>1, <1>2 DEF FlagsWriter, Exclusion, NoWakeupLost
  <2>2. CASE ~(reader_count > 0 \/ writer_writing)
    <3>1. In("reading") = {} /\ In("writing") = {}
      BY <2>2, NobodyCounted DEF FlagsWriter
    <3>2. In("writing")' = {t} /\ writer_writing' = TRUE
      BY <2>2, <3>1, <1>1 DEF In
    <3> QED
      BY <3>1, <3>2, <1>2 DEF FlagsWriter, Exclusion, NoWakeupLost
  <2> QED
    BY <2>1, <2>2
<1> QED
  BY <1>3, <1>4, <1>5, <1>6, CountsInRange

LEMMA WriterUnlockKeepsLockInv ==
    ASSUME LockInv, NEW t \in Threads, WriterUnlock(t)
    PROVE  LockInv'
<1> USE DEF LockInv, TypeOK, Location
<1> DEFINE after == [at EXCEPT ![t] = "out"]
<1>1. /\ at[t] = "writing" /\ writer_writing' = FALSE
      /\ writer_count' = writer_count - 1 /\ reader_count' = reader_count
  BY DEF WriterUnlock
<1>2. In("reading") = {} /\ In("writing") = {t} /\ reader_count = 0
  BY <1>1, NobodyCounted DEF Exclusion, In
<1>3. \/ writer_count' = 0 /\ at' = BroadcastCanRead(t)
      \/ writer_count' # 0 /\ SignalCanWrite(after)
  BY DEF WriterUnlock
<1>4. \/ writer_count' = 0 /\ at' = BroadcastCanRead(t)
      \/ writer_count' # 0 /\ at' = after /\ In("wait_write") = {}
      \/ /\ writer_count' # 0
         /\ \E w \in Threads : /\ at[w] = "wait_write"
                               /\ at' = [after EXCEPT ![w] = "retry_write"]
  BY <1>3, WriteSignalEffect DEF In
<1>5. at' \in [Threads -> Location]
  BY <1>4 DEF BroadcastCanRead
<1>6. /\ In("reading")' = {} /\ In("writing")' = {}
      /\ PendingWriters' = PendingWriters \ {t} /\ t \in PendingWriters
  BY <1>1, <1>2, <1>4 DEF In, PendingWriters, BroadcastCanRead
<1>7. CountsReaders'
  BY <1>1, <1>2, <1>6 DEF CountsReaders
<1>8. CountsWriters'
  BY <1>1, <1>6, Subsets, CountDown DEF CountsWriters
<1>9. writer_count' = 0 <=> PendingWriters' = {}
  <2>1. PendingWriters' \in SUBSET Threads
    BY <1>6, Subsets
  <2> QED
    BY <2>1, <1>8, LockThreadSets DEF CountsWriters
<1>10. In("wait_read")' # {} => PendingWriters' # {}
  BY <1>4, <1>9 DEF In, BroadcastCanRead
<1>11. In("wait_write")' # {} => In("retry_write")' # {}
  <2>1. CASE writer_count' = 0
    BY <2>1, <1>9 DEF PendingWriters
  <2>2. CASE writer_count' # 0 /\ at' = after /\ In("wait_write") = {}
    BY <2>2, <1>1 DEF In
  <2>3. CASE \E w \in Threads : /\ at[w] = "wait_write"
                                /\ at' = [after EXCEPT ![w] = "retry_write"]
    BY <2>3, <1>1 DEF In
  <2> QED
    BY <1>4, <2>1, <2>2, <2>3
<1> QED
  BY <1>1, <1>5, <1>6, <1>7, <1>8, <1>10, <1>11, CountsInRange
     DEF FlagsWriter, Exclusion, NoWakeupLost

LEMMA SpuriousWakeupKeepsLockInv ==
    ASSUME LockInv, NEW t \in Threads, SpuriousWakeup(t)
    PROVE  LockInv'
<1> USE DEF LockInv, TypeOK, Location
<1>1. /\ UNCHANGED <<reader_count, writer_count, writer_writing>>
      /\ \/ at[t] = "wait_read"  /\ at' = [at EXCEPT ![t] = "retry_read"]
         \/ at[t] = "wait_write" /\ at' = [at EXCEPT ![t] = "retry_write"]
  BY DEF SpuriousWakeup
<1>2. /\ In("reading")' = In("reading") /\ In("writing")' = In("writing")
      /\ PendingWriters' = PendingWriters /\ In("wait_read")' \in SUBSET In("wait_read")
  BY <1>1 DEF In, PendingWriters
<1>3. In("wait_write")' # {} =>
        reader_count > 0 \/ writer_writing \/ In("retry_write")' # {}
  BY <1>1 DEF In, NoWakeupLost
<1> QED
  BY <1>1, <1>2, <1>3
     DEF CountsReaders, CountsWriters, FlagsWriter, Exclusion, NoWakeupLost

LEMMA StepKeepsLockInv == LockInv /\ [Next]_lockVars => LockInv'
<1> SUFFICES ASSUME LockInv, [Next]_lockVars PROVE LockInv'
  OBVIOUS
<1>1. CASE UNCHANGED lockVars
  BY <1>1 DEF lockVars, LockInv, TypeOK, CountsReaders, CountsWriters, FlagsWriter,
              Exclusion, NoWakeupLost, PendingWriters, In
<1>2. ASSUME NEW t \in Threads, ReaderLock(t) PROVE LockInv'
  BY <1>2, ReaderLockKeepsLockInv
<1>3. ASSUME NEW t \in Threads, ReaderUnlock(t) PROVE LockInv'
  BY <1>3, ReaderUnlockKeepsLockInv
<1>4. ASSUME NEW t \in Threads, WriterLock(t) PROVE LockInv'
  BY <1>4, WriterLockKeepsLockInv
<1>5. ASSUME NEW t \in Threads, WriterUnlock(t) PROVE LockInv'
  BY <1>5, WriterUnlockKeepsLockInv
<1>6. ASSUME NEW t \in Threads, SpuriousWakeup(t) PROVE LockInv'
  BY <1>6, SpuriousWakeupKeepsLockInv
<1> QED
  BY <1>1, <1>2, <1>3, <1>4, <1>5, <1>6 DEF Next

\* The inductive invariant holds in every reachable state.
THEOREM LockInvariant == Spec => []LockInv
  BY InitKeepsLockInv, StepKeepsLockInv, PTL DEF Spec

\* The fields keep their types; no count goes below zero.
THEOREM TypeCorrect == Spec => []TypeOK
<1>1. LockInv => TypeOK
  BY DEF LockInv
<1> QED
  BY <1>1, LockInvariant, PTL

\* Readers exclude a writer, and writers exclude each other.
THEOREM MutualExclusion == Spec => []Exclusion
<1>1. LockInv => Exclusion
  BY DEF LockInv
<1> QED
  BY <1>1, LockInvariant, PTL

\* WriterUnlock always wakes the sort of thread that needs it.
THEOREM WakeupsSuffice == Spec => []NoWakeupLost
<1>1. LockInv => NoWakeupLost
  BY DEF LockInv
<1> QED
  BY <1>1, LockInvariant, PTL

\* No thread becomes a reader while a writer writes or waits to.
THEOREM WriterPreference == Spec => WritersFirst
<1> DEFINE First == \A t \in Threads :
                      at[t] # "reading" /\ at'[t] = "reading" => PendingWriters = {}
<1>1. LockInv /\ [Next]_lockVars => [First]_lockVars
  <2> SUFFICES ASSUME LockInv, Next, NEW t \in Threads,
                      at[t] # "reading", at'[t] = "reading"
               PROVE  PendingWriters = {}
    BY DEF lockVars
  <2> USE DEF LockInv, TypeOK, Location
  <2>1. PICK u \in Threads : \/ ReaderLock(u) \/ ReaderUnlock(u)
                             \/ WriterLock(u) \/ WriterUnlock(u)
                             \/ SpuriousWakeup(u)
    BY DEF Next
  <2>2. CASE ReaderLock(u)
    <3>1. ~(writer_count > 0 \/ writer_writing)
      BY <2>2 DEF ReaderLock
    <3> QED
      BY <3>1, NobodyCounted
  <2>3. CASE ReaderUnlock(u)
    <3>1. \/ at' = [at EXCEPT ![u] = "out"]
          \/ \E w \in Threads : at' = [at EXCEPT ![u] = "out", ![w] = "retry_write"]
      BY <2>3 DEF ReaderUnlock, SignalCanWrite, In
    <3> QED
      BY <3>1
  <2>4. CASE WriterLock(u)
    BY <2>4 DEF WriterLock
  <2>5. CASE WriterUnlock(u)
    <3>1. \/ at' = BroadcastCanRead(u)
          \/ at' = [at EXCEPT ![u] = "out"]
          \/ \E w \in Threads : at' = [at EXCEPT ![u] = "out", ![w] = "retry_write"]
      BY <2>5 DEF WriterUnlock, SignalCanWrite, In
    <3> QED
      BY <3>1 DEF BroadcastCanRead
  <2>6. CASE SpuriousWakeup(u)
    BY <2>6 DEF SpuriousWakeup
  <2> QED
    BY <2>1, <2>2, <2>3, <2>4, <2>5, <2>6
<1> QED
  BY <1>1, LockInvariant, PTL DEF Spec, WritersFirst

\* A step that grants or gives back the lock is such a step of the abstract lock,
\* and every other step leaves its readers and writers alone.
LEMMA StepRefines ==
    ASSUME LockInv, [Next]_lockVars
    PROVE  [Abstract!Next]_<<In("reading"), In("writing")>>
<1> DEFINE Stutters == In("reading")' = In("reading") /\ In("writing")' = In("writing")
<1> USE DEF LockInv, TypeOK, Location
<1>1. CASE UNCHANGED lockVars
  BY <1>1 DEF lockVars, In
<1>2. ASSUME NEW t \in Threads, ReaderLock(t)
      PROVE  Stutters \/ Abstract!AcquireRead(t)
  <2>1. CASE writer_count > 0 \/ writer_writing
    BY <1>2, <2>1 DEF ReaderLock, In
  <2>2. CASE ~(writer_count > 0 \/ writer_writing)
    <3>1. at' = [at EXCEPT ![t] = "reading"] /\ at[t] \in {"out", "retry_read"}
      BY <1>2, <2>2 DEF ReaderLock
    <3>2. /\ In("reading")' = In("reading") \union {t} /\ t \notin In("reading")
          /\ In("writing")' = In("writing")
      BY <3>1 DEF In
    <3>3. In("writing") = {}
      BY <2>2 DEF FlagsWriter
    <3> QED
      BY <3>2, <3>3 DEF Abstract!AcquireRead
  <2> QED
    BY <2>1, <2>2
<1>3. ASSUME NEW t \in Threads, ReaderUnlock(t)
      PROVE  Abstract!ReleaseRead(t)
  <2>1. /\ at[t] = "reading"
        /\ \/ at' = [at EXCEPT ![t] = "out"]
           \/ \E w \in Threads : /\ at[w] = "wait_write"
                                 /\ at' = [at EXCEPT ![t] = "out", ![w] = "retry_write"]
    BY <1>3 DEF ReaderUnlock, SignalCanWrite, In
  <2>2. /\ In("reading")' = In("reading") \ {t} /\ t \in In("reading")
        /\ In("writing")' = In("writing")
    BY <2>1 DEF In
  <2> QED
    BY <2>2 DEF Abstract!ReleaseRead
<1>4. ASSUME NEW t \in Threads, WriterLock(t)
      PROVE  Stutters \/ Abstract!AcquireWrite(t)
  <2>1. CASE reader_count > 0 \/ writer_writing
    BY <1>4, <2>1 DEF WriterLock, In
  <2>2. CASE ~(reader_count > 0 \/ writer_writing)
    <3>1. at' = [at EXCEPT ![t] = "writing"] /\ at[t] \in {"out", "retry_write"}
      BY <1>4, <2>2 DEF WriterLock
    <3>2. In("reading") = {} /\ In("writing") = {}
      BY <2>2, NobodyCounted DEF FlagsWriter
    <3>3. In("reading")' = In("reading") /\ In("writing")' = {t}
      BY <3>1, <3>2 DEF In
    <3> QED
      BY <3>2, <3>3 DEF Abstract!AcquireWrite
  <2> QED
    BY <2>1, <2>2
<1>5. ASSUME NEW t \in Threads, WriterUnlock(t)
      PROVE  Abstract!ReleaseWrite(t)
  <2>1. /\ at[t] = "writing"
        /\ \/ at' = BroadcastCanRead(t)
           \/ at' = [at EXCEPT ![t] = "out"]
           \/ \E w \in Threads : /\ at[w] = "wait_write"
                                 /\ at' = [at EXCEPT ![t] = "out", ![w] = "retry_write"]
    BY <1>5 DEF WriterUnlock, SignalCanWrite, In
  <2>2. /\ In("reading")' = In("reading")
        /\ In("writing")' = In("writing") \ {t} /\ t \in In("writing")
    BY <2>1 DEF In, BroadcastCanRead
  <2> QED
    BY <2>2 DEF Abstract!ReleaseWrite
<1>6. ASSUME NEW t \in Threads, SpuriousWakeup(t)
      PROVE  Stutters
  BY <1>6 DEF SpuriousWakeup, In
<1> QED
  BY <1>1, <1>2, <1>3, <1>4, <1>5, <1>6 DEF Next, Abstract!Next

\* rwlock-writer-pref.cpp implements the abstract read-write lock.
THEOREM Refinement == Spec => ImplementsReadWriteLock
<1>1. InitalizeReadWriteLock => Abstract!Init
  BY DEF InitalizeReadWriteLock, Abstract!Init, In
<1>2. LockInv /\ [Next]_lockVars => [Abstract!Next]_<<In("reading"), In("writing")>>
  BY StepRefines
<1> QED
  BY <1>1, <1>2, LockInvariant, PTL DEF Spec, Abstract!Spec, ImplementsReadWriteLock
-----------------------------------------------------------------------------
(***************************************************************************)
(* test-writer-pref.cpp over the lock.                                     *)
(***************************************************************************)

\* Stamps are ordered by index.  A thread takes its first stamp inside the lock and
\* leaves only after its second, so what a writer that is inside relies on is that
\* it alone can have moved index since its first stamp.
StampsInv ==
    /\ index \in Nat
    /\ acquireTime \in [Threads -> Nat \union {Unset}]
    /\ releaseTime \in [Threads -> Nat \union {Unset}]
    /\ \A t \in Threads :
         /\ Stamped(t) => ~NotYetLocked(t)
         /\ ~NotYetLocked(t) /\ ~Stamped(t) => at[t] \in {"reading", "writing"}
    /\ \A w \in Writers :
         /\ at[w] \in {"out", "wait_write", "retry_write", "writing"}
         /\ ~NotYetLocked(w) /\ ~Stamped(w) => index = acquireTime[w] + 1
         /\ Stamped(w) => releaseTime[w] = acquireTime[w] + 1
    /\ \A r \in Readers : at[r] \in {"out", "wait_read", "retry_read", "reading"}

\* A step of the test is a step of the lock or leaves the lock alone.
LEMMA TestStepsLock == [NextTest]_vars => [Next]_lockVars
  BY RolesCover DEF NextTest, Reader, Writer, Wakeup, Joined, vars, lockVars, Next

\* So whatever is proved of the lock holds while the test program runs.
THEOREM TestUsesLock == TestSpec => Spec
<1>1. Init => InitalizeReadWriteLock
  BY DEF Init
<1> QED
  BY <1>1, TestStepsLock, PTL DEF TestSpec, Spec

LEMMA InitKeepsStamps == Init => StampsInv
  BY RolesCover DEF Init, InitalizeReadWriteLock, InitStamps, StampsInv, Unset,
                    NotYetLocked, Stamped

\* Where threads go when one of them calls a function of the lock: the others stay
\* in the lock if they have it, and a parked thread may be woken.
LEMMA OthersStay ==
    ASSUME LockInv, NEW t \in Threads,
           \/ ReaderLock(t) \/ ReaderUnlock(t) \/ WriterLock(t) \/ WriterUnlock(t)
           \/ SpuriousWakeup(t)
    PROVE  \A u \in Threads \ {t} : \/ at'[u] = at[u]
                                    \/ at[u] = "wait_read" /\ at'[u] = "retry_read"
                                    \/ at[u] = "wait_write" /\ at'[u] = "retry_write"
<1> USE DEF LockInv, TypeOK
<1>1. CASE ReaderLock(t) \/ WriterLock(t) \/ SpuriousWakeup(t)
  BY <1>1 DEF ReaderLock, WriterLock, SpuriousWakeup
<1>2. CASE ReaderUnlock(t) \/ WriterUnlock(t)
  <2>1. \/ at' = BroadcastCanRead(t)
        \/ at' = [at EXCEPT ![t] = "out"]
        \/ \E w \in Threads : /\ at[w] = "wait_write"
                              /\ at' = [at EXCEPT ![t] = "out", ![w] = "retry_write"]
    BY <1>2 DEF ReaderUnlock, WriterUnlock, SignalCanWrite, In
  <2> QED
    BY <2>1 DEF BroadcastCanRead
<1> QED
  BY <1>1, <1>2

\* Within the lock's functions no thread that holds the lock with one stamp moves.
LEMMA LockStepKeepsStamps ==
    ASSUME LockInv, StampsInv, UNCHANGED stampVars, NEW t \in Threads,
           \/ t \in Readers /\ NotYetLocked(t) /\ ReaderLock(t)
           \/ t \in Readers /\ Stamped(t) /\ ReaderUnlock(t)
           \/ t \in Writers /\ NotYetLocked(t) /\ WriterLock(t)
           \/ t \in Writers /\ Stamped(t) /\ WriterUnlock(t)
           \/ SpuriousWakeup(t)
    PROVE  StampsInv'
<1>1. \A u \in Threads \ {t} : \/ at'[u] = at[u]
                               \/ at[u] = "wait_read" /\ at'[u] = "retry_read"
                               \/ at[u] = "wait_write" /\ at'[u] = "retry_write"
  BY OthersStay
<1>2. \/ t \in Readers /\ NotYetLocked(t) /\ at'[t] \in {"wait_read", "reading"}
      \/ t \in Readers /\ Stamped(t) /\ at'[t] = "out"
      \/ t \in Writers /\ NotYetLocked(t) /\ at'[t] \in {"wait_write", "writing"}
      \/ t \in Writers /\ Stamped(t) /\ at'[t] = "out"
      \/ at[t] = "wait_read" /\ at'[t] = "retry_read"
      \/ at[t] = "wait_write" /\ at'[t] = "retry_write"
  <2> USE DEF LockInv, TypeOK
  <2>1. ASSUME ReaderLock(t) PROVE at'[t] \in {"wait_read", "reading"}
    BY <2>1 DEF ReaderLock
  <2>2. ASSUME WriterLock(t) PROVE at'[t] \in {"wait_write", "writing"}
    BY <2>2 DEF WriterLock
  <2>3. ASSUME ReaderUnlock(t) PROVE at'[t] = "out"
    BY <2>3 DEF ReaderUnlock, SignalCanWrite, In
  <2>4. ASSUME WriterUnlock(t) PROVE at'[t] = "out"
    BY <2>4 DEF WriterUnlock, SignalCanWrite, In, BroadcastCanRead
  <2>5. ASSUME SpuriousWakeup(t)
        PROVE  \/ at[t] = "wait_read" /\ at'[t] = "retry_read"
               \/ at[t] = "wait_write" /\ at'[t] = "retry_write"
    BY <2>5 DEF SpuriousWakeup
  <2> QED
    BY <2>1, <2>2, <2>3, <2>4, <2>5
<1>3. Readers \subseteq Threads /\ Writers \subseteq Threads
  BY RolesCover
<1>4. Readers \intersect Writers = {}
  BY RolesDisjoint
<1> QED
  BY <1>1, <1>2, <1>3, <1>4 DEF StampsInv, stampVars, NotYetLocked, Stamped

\* A stamp is taken inside the lock, so no writer with one stamp is inside as well.
LEMMA StampKeepsStamps ==
    ASSUME LockInv, StampsInv, UNCHANGED lockVars, NEW t \in Threads,
           at[t] \in {"reading", "writing"}, StampAcquire(t) \/ StampRelease(t)
    PROVE  StampsInv'
<1> USE DEF StampsInv, NotYetLocked, Stamped
<1>1. at' = at /\ index' = index + 1 /\ index' \in Nat /\ index # Unset
  BY DEF lockVars, StampAcquire, StampRelease, Unset
<1>2. Readers \subseteq Threads /\ Writers \subseteq Threads
  BY RolesCover
<1>3. \A w \in Writers : w # t => NotYetLocked(w) \/ Stamped(w)
  <2>1. ASSUME NEW w \in Writers, ~NotYetLocked(w), ~Stamped(w) PROVE w = t
    <3>1. at[w] = "writing"
      BY <2>1, <1>2
    <3> QED
      BY <3>1, <1>2 DEF LockInv, Exclusion, In
  <2> QED
    BY <2>1
<1>4. CASE StampAcquire(t)
  BY <1>1, <1>2, <1>3, <1>4 DEF StampAcquire
<1>5. CASE StampRelease(t)
  BY <1>1, <1>2, <1>3, <1>5 DEF StampRelease
<1> QED
  BY <1>4, <1>5

LEMMA TestStepKeepsStamps == LockInv /\ StampsInv /\ [NextTest]_vars => StampsInv'
<1> SUFFICES ASSUME LockInv, StampsInv, [NextTest]_vars PROVE StampsInv'
  OBVIOUS
<1>1. Readers \subseteq Threads /\ Writers \subseteq Threads
  BY RolesCover
<1>2. CASE UNCHANGED vars
  BY <1>2 DEF vars, StampsInv, NotYetLocked, Stamped
<1>3. ASSUME NEW r \in Readers, Reader(r) PROVE StampsInv'
  BY <1>1, <1>3, LockStepKeepsStamps, StampKeepsStamps DEF Reader
<1>4. ASSUME NEW w \in Writers, Writer(w) PROVE StampsInv'
  BY <1>1, <1>4, LockStepKeepsStamps, StampKeepsStamps DEF Writer
<1>5. ASSUME NEW t \in Threads, Wakeup(t) PROVE StampsInv'
  BY <1>5, LockStepKeepsStamps DEF Wakeup
<1> QED
  BY <1>2, <1>3, <1>4, <1>5 DEF NextTest, Joined

\* Between the two stamps of a writer nobody else takes one: the verdict that
\* test-writer-pref.cpp prints is right for any number of readers and writers.
THEOREM WritersAlone == TestSpec => []WriterStampsConsecutive
<1>1. Init => LockInv /\ StampsInv
  BY InitKeepsLockInv, InitKeepsStamps DEF Init
<1>2. LockInv /\ StampsInv /\ [NextTest]_vars => LockInv' /\ StampsInv'
  BY TestStepsLock, StepKeepsLockInv, TestStepKeepsStamps
<1>3. StampsInv => WriterStampsConsecutive
  <2>1. Writers \subseteq Threads
    BY RolesCover
  <2> QED
    BY <2>1 DEF StampsInv, WriterStampsConsecutive, NotYetLocked, Stamped, Unset
<1> QED
  BY <1>1, <1>2, <1>3, PTL DEF TestSpec

-----------------------------------------------------------------------------
(***************************************************************************)
(* The threads that take turns.                                            *)
(***************************************************************************)

\* Where a thread holds the lock
Locked == {"test", "wait", "load", "store", "wake"}

OneHolder == \A t \in Printers : printer[t] \in Locked <=> holder = t

\* The thread that printed last has made it the next one's turn, or will.
InOrder ==
    /\ ~disordered
    /\ \A t \in Printers :
        /\ printer[t] \in {"load", "store"} => turn = t
        /\ printer[t] \in {"load", "store", "wake"} => last = t
        /\ printer[t] = "store" => read = t
    /\ (\A t \in Printers : printer[t] \notin {"load", "store"})
          => turn = N \/ turn = (last + 1) % N

\* In wu2.c the threads return in their order.
ReturnInTurn ==
    /\ turn = N => Ends
    /\ \A t \in Printers : /\ printer[t] = "done" => Ends
                           /\ Ends => (printer[t] \in {"wake", "done"} <=> t < turn)

\* A wakeup for t is still to come.
Coming(t) ==
    \/ \E k \in Printers : \/ printer[k] = "store"
                           \/ printer[k] = "wake" /\ (Broadcasts \/ t = (k + 1) % N)
    \/ main = "signal" /\ t = 0

\* Who waits out of turn is going to be woken.
Awaited ==
    /\ \A t \in Printers : /\ printer[t] = "load" => turn = t
                           /\ printer[t] = "store" => read = t
                           /\ printer[t] = "wait" => turn # t \/ (main = "signal" /\ t = 0)
    /\ \A t \in Printers : turn = t /\ printer[t] = "parked" => Coming(t)

\* The inductive invariant.  TurnsGoOn says nothing of a thread between its test and its
\* wait, nor of main between its store and its signal, where a wakeup can be lost.
TurnInv ==
    /\ TurnOK /\ disordered \in BOOLEAN /\ missed \in BOOLEAN
    /\ OneHolder /\ ReturnInTurn
    /\ version # "seq" => main = "join" /\ ~missed
    /\ (version = "seq" => main = "store") => InOrder
    /\ ~missed => Awaited

LEMMA NextPrinter ==
    ASSUME NEW t \in Printers
    PROVE  /\ (t + 1) % N \in Printers
           /\ t + 1 = N \/ (t + 1 \in Printers /\ t + 1 = (t + 1) % N)
<1>1. N \in Nat /\ N > 0 /\ t \in Nat /\ t < N
  BY TurnAssumption DEF Printers
<1>2. CASE t + 1 = N
  <2>1. N % N = 0
    BY <1>1
  <2> QED
    BY <1>1, <1>2, <2>1 DEF Printers
<1>3. CASE t + 1 # N
  <2>1. t + 1 \in 0 .. N - 1
    BY <1>1, <1>3
  <2>2. (t + 1) % N = t + 1
    BY <1>1, <2>1
  <2> QED
    BY <2>1, <2>2 DEF Printers
<1> QED
  BY <1>2, <1>3

LEMMA Remainder ==
    ASSUME NEW r \in 0 .. N
    PROVE  (r + 1) % N \in Printers
<1>1. N \in Nat /\ N > 0 /\ r + 1 \in Nat
  BY TurnAssumption
<1> QED
  BY <1>1 DEF Printers

LEMMA LockKeeps ==
    ASSUME TurnInv, NEW t \in Printers, Lock(t), version' = version
    PROVE  TurnInv'
<1>1. /\ printer[t] \in {"start", "woken"} /\ holder = N /\ holder' = t
      /\ printer' = [printer EXCEPT ![t] = "test"]
      /\ turn' = turn /\ read' = read /\ main' = main /\ last' = last
      /\ disordered' = disordered /\ missed' = missed
  BY DEF Lock
<1>2. /\ TurnOK /\ OneHolder /\ ReturnInTurn
      /\ (version = "seq" => main = "store") => InOrder
      /\ ~missed => Awaited
  BY DEF TurnInv
<1>3. /\ printer'[t] = "test" /\ \A k \in Printers : k # t => printer'[k] = printer[k]
  BY <1>1, <1>2 DEF TurnOK
<1>4. N \notin Printers /\ N \in Nat
  BY TurnAssumption DEF Printers
<1>5. TurnOK'
  BY <1>1, <1>2 DEF TurnOK, PrinterState, Printers
<1>6. OneHolder'
  BY <1>1, <1>2, <1>3, <1>4 DEF OneHolder, Locked
<1>7. ReturnInTurn'
  BY <1>1, <1>2, <1>3 DEF ReturnInTurn, Ends
<1>8. InOrder => InOrder'
  BY <1>1, <1>3 DEF InOrder
<1>9. Awaited => Awaited'
  BY <1>1, <1>3 DEF Awaited, Coming, Broadcasts
<1> QED
  BY <1>1, <1>2, <1>5, <1>6, <1>7, <1>8, <1>9 DEF TurnInv

LEMMA TestKeeps ==
    ASSUME TurnInv, NEW t \in Printers, Test(t), version' = version
    PROVE  TurnInv'
<1>1. /\ printer[t] = "test"
      /\ \/ /\ turn # t /\ printer' = [printer EXCEPT ![t] = "wait"]
            /\ last' = last /\ disordered' = disordered
         \/ /\ turn = t /\ printer' = [printer EXCEPT ![t] = "load"]
            /\ last' = t /\ disordered' = (disordered \/ t # (last + 1) % N)
      /\ turn' = turn /\ holder' = holder /\ read' = read /\ main' = main /\ missed' = missed
  BY DEF Test
<1>2. /\ TurnOK /\ OneHolder /\ ReturnInTurn
      /\ (version = "seq" => main = "store") => InOrder
      /\ ~missed => Awaited
  BY DEF TurnInv
<1>3. /\ \A k \in Printers : k # t => printer'[k] = printer[k]
      /\ turn # t => printer'[t] = "wait"
      /\ turn = t => printer'[t] = "load"
  BY <1>1, <1>2 DEF TurnOK
<1>4. \A k \in Printers : k # t => printer[k] \notin Locked /\ printer'[k] \notin Locked
  BY <1>1, <1>2, <1>3 DEF OneHolder, Locked
<1>5. TurnOK'
  BY <1>1, <1>2 DEF TurnOK, PrinterState
<1>6. OneHolder'
  BY <1>1, <1>2, <1>3 DEF OneHolder, Locked
<1>7. ReturnInTurn'
  BY <1>1, <1>2, <1>3 DEF ReturnInTurn, Ends
<1>8. InOrder => InOrder'
  <2> SUFFICES ASSUME InOrder PROVE InOrder'
    OBVIOUS
  <2>1. turn = N \/ turn = (last + 1) % N
    BY <1>1, <1>4 DEF InOrder, Locked
  <2>2. t # N
    BY TurnAssumption DEF Printers
  <2>3. ~disordered'
    BY <1>1, <2>1, <2>2 DEF InOrder
  <2> QED
    BY <1>1, <1>3, <1>4, <2>1, <2>3 DEF InOrder, Locked
<1>9. Awaited => Awaited'
  <2> SUFFICES ASSUME Awaited PROVE Awaited'
    OBVIOUS
  <2>1. \A k \in Printers : Coming(k) => Coming(k)'
    BY <1>1, <1>3 DEF Coming, Broadcasts
  <2> QED
    BY <1>1, <1>3, <2>1 DEF Awaited
<1>10. disordered' \in BOOLEAN
  BY <1>1 DEF TurnInv
<1> QED
  BY <1>1, <1>2, <1>5, <1>6, <1>7, <1>8, <1>9, <1>10 DEF TurnInv

LEMMA ParkKeeps ==
    ASSUME TurnInv, NEW t \in Printers, Park(t), version' = version
    PROVE  TurnInv'
<1>1. /\ printer[t] = "wait" /\ holder' = N
      /\ printer' = [printer EXCEPT ![t] = "parked"]
      /\ turn' = turn /\ read' = read /\ main' = main /\ last' = last
      /\ disordered' = disordered /\ missed' = missed
  BY DEF Park
<1>2. /\ TurnOK /\ OneHolder /\ ReturnInTurn
      /\ (version = "seq" => main = "store") => InOrder
      /\ ~missed => Awaited
  BY DEF TurnInv
<1>3. /\ printer'[t] = "parked" /\ \A k \in Printers : k # t => printer'[k] = printer[k]
  BY <1>1, <1>2 DEF TurnOK
<1>4. N \notin Printers /\ N \in Nat
  BY TurnAssumption DEF Printers
<1>5. TurnOK'
  BY <1>1, <1>2, <1>4 DEF TurnOK, PrinterState
<1>6. OneHolder'
  BY <1>1, <1>2, <1>3, <1>4 DEF OneHolder, Locked
<1>7. ReturnInTurn'
  BY <1>1, <1>2, <1>3 DEF ReturnInTurn, Ends
<1>8. InOrder => InOrder'
  BY <1>1, <1>3 DEF InOrder
<1>9. Awaited => Awaited'
  <2> SUFFICES ASSUME Awaited PROVE Awaited'
    OBVIOUS
  <2>1. \A k \in Printers : Coming(k) => Coming(k)'
    BY <1>1, <1>3 DEF Coming, Broadcasts
  <2>2. turn = t => Coming(t)'
    BY <1>1 DEF Awaited, Coming
  <2> QED
    BY <1>1, <1>3, <2>1, <2>2 DEF Awaited
<1> QED
  BY <1>1, <1>2, <1>5, <1>6, <1>7, <1>8, <1>9 DEF TurnInv

LEMMA LoadKeeps ==
    ASSUME TurnInv, NEW t \in Printers, Load(t), version' = version
    PROVE  TurnInv'
<1>1. /\ printer[t] = "load" /\ read' = turn
      /\ printer' = [printer EXCEPT ![t] = "store"]
      /\ turn' = turn /\ holder' = holder /\ main' = main /\ last' = last
      /\ disordered' = disordered /\ missed' = missed
  BY DEF Load
<1>2. /\ TurnOK /\ OneHolder /\ ReturnInTurn
      /\ (version = "seq" => main = "store") => InOrder
      /\ ~missed => Awaited
  BY DEF TurnInv
<1>3. /\ printer'[t] = "store" /\ \A k \in Printers : k # t => printer'[k] = printer[k]
  BY <1>1, <1>2 DEF TurnOK
<1>4. \A k \in Printers : k # t => printer[k] \notin Locked /\ printer'[k] \notin Locked
  BY <1>1, <1>2, <1>3 DEF OneHolder, Locked
<1>5. TurnOK'
  BY <1>1, <1>2 DEF TurnOK, PrinterState
<1>6. OneHolder'
  BY <1>1, <1>2, <1>3 DEF OneHolder, Locked
<1>7. ReturnInTurn'
  BY <1>1, <1>2, <1>3 DEF ReturnInTurn, Ends
<1>8. InOrder => InOrder'
  BY <1>1, <1>3, <1>4 DEF InOrder, Locked
<1>9. Awaited => Awaited'
  <2> SUFFICES ASSUME Awaited PROVE Awaited'
    OBVIOUS
  <2>1. \A k \in Printers : Coming(k)'
    BY <1>3 DEF Coming
  <2> QED
    BY <1>1, <1>3, <1>4, <2>1 DEF Awaited, Locked
<1> QED
  BY <1>1, <1>2, <1>5, <1>6, <1>7, <1>8, <1>9 DEF TurnInv

LEMMA StoreKeeps ==
    ASSUME TurnInv, NEW t \in Printers, Store(t), version' = version
    PROVE  TurnInv'
<1>1. /\ printer[t] = "store"
      /\ turn' = IF Ends THEN read + 1 ELSE (read + 1) % N
      /\ printer' = [printer EXCEPT ![t] = "wake"]
      /\ holder' = holder /\ read' = read /\ main' = main /\ last' = last
      /\ disordered' = disordered /\ missed' = missed
  BY DEF Store
<1>2. /\ TurnOK /\ OneHolder /\ ReturnInTurn
      /\ version # "seq" => main = "join" /\ ~missed
      /\ (version = "seq" => main = "store") => InOrder
      /\ ~missed => Awaited
  BY DEF TurnInv
<1>3. /\ printer'[t] = "wake" /\ \A k \in Printers : k # t => printer'[k] = printer[k]
  BY <1>1, <1>2 DEF TurnOK
<1>4. \A k \in Printers : k # t => printer[k] \notin Locked /\ printer'[k] \notin Locked
  BY <1>1, <1>2, <1>3 DEF OneHolder, Locked
<1>5. /\ (t + 1) % N \in Printers
      /\ t + 1 = N \/ (t + 1 \in Printers /\ t + 1 = (t + 1) % N)
  BY NextPrinter
<1>6. N \in Nat /\ N > 0 /\ N \notin Printers /\ Printers \subseteq 0 .. N
  BY TurnAssumption DEF Printers
<1>7. Ends => read = t /\ turn = t
  BY <1>1, <1>2 DEF Ends, InOrder
<1>8. turn' \in 0 .. N /\ (turn' = N => Ends)
  <2>1. CASE Ends
    BY <1>1, <1>5, <1>6, <1>7, <2>1
  <2>2. CASE ~Ends
    <3>1. read \in 0 .. N
      BY <1>2 DEF TurnOK
    <3>2. turn' \in Printers
      BY <1>1, <2>2, <3>1, Remainder
    <3> QED
      BY <1>6, <3>2
  <2> QED
    BY <2>1, <2>2
<1>9. read = t => turn' = N \/ turn' = (t + 1) % N
  BY <1>1, <1>5
<1>10. TurnOK'
  BY <1>1, <1>2, <1>8 DEF TurnOK, PrinterState
<1>11. OneHolder'
  BY <1>1, <1>2, <1>3 DEF OneHolder, Locked
<1>12. ReturnInTurn'
  <2>1. ASSUME NEW k \in Printers
        PROVE  /\ printer'[k] = "done" => Ends
               /\ Ends => (printer'[k] \in {"wake", "done"} <=> k < turn')
    <3>1. k # t => printer'[k] = printer[k] /\ printer'[k] \notin Locked
      BY <1>3, <1>4
    <3>2. printer'[k] = "done" => Ends
      BY <1>2, <1>3, <3>1 DEF ReturnInTurn
    <3>3. CASE Ends
      <4>1. turn' = t + 1 /\ turn = t
        BY <1>1, <1>7, <3>3
      <4>2. k < t + 1 <=> k < t \/ k = t
        BY DEF Printers
      <4>3. printer[k] \in {"wake", "done"} <=> k < t
        BY <1>2, <3>3, <4>1 DEF ReturnInTurn
      <4> QED
        BY <1>1, <1>3, <3>1, <3>2, <4>1, <4>2, <4>3
    <3> QED
      BY <3>2, <3>3
  <2> QED
    BY <1>8, <2>1 DEF ReturnInTurn, Ends
<1>13. InOrder => InOrder'
  <2> SUFFICES ASSUME InOrder PROVE InOrder'
    OBVIOUS
  <2>1. read = t /\ last = t /\ last' = t /\ ~disordered'
    BY <1>1 DEF InOrder
  <2>2. turn' = N \/ turn' = (last + 1)' % N
    BY <1>9, <2>1
  <2> QED
    BY <1>3, <1>4, <2>1, <2>2 DEF InOrder, Locked
<1>14. Awaited => Awaited'
  <2> SUFFICES ASSUME Awaited PROVE Awaited'
    OBVIOUS
  <2>1. read = t
    BY <1>1 DEF Awaited
  <2>2. ASSUME NEW k \in Printers, turn' = k PROVE Coming(k)'
    <3>1. k = (t + 1) % N
      BY <1>6, <1>9, <2>1, <2>2
    <3> QED
      BY <1>3, <3>1 DEF Coming
  <2> QED
    BY <1>3, <1>4, <2>2 DEF Awaited, Locked
<1> QED
  BY <1>1, <1>2, <1>10, <1>11, <1>12, <1>13, <1>14 DEF TurnInv

\* Those that WakeUp(S) wakes.
LEMMA WakeUpOnly ==
    ASSUME TurnOK, NEW S, NEW t \in Printers
    PROVE  /\ WakeUp(S) \in [Printers -> PrinterState]
           /\ t \in S /\ printer[t] = "parked" => WakeUp(S)[t] = "woken"
           /\ ~(t \in S /\ printer[t] = "parked") => WakeUp(S)[t] = printer[t]
BY DEF TurnOK, WakeUp, PrinterState

LEMMA WakeKeeps ==
    ASSUME TurnInv, NEW t \in Printers, Wake(t), version' = version
    PROVE  TurnInv'
<1> DEFINE S == IF Broadcasts THEN Printers ELSE {(t + 1) % N}
           end == IF Ends THEN "done" ELSE "test"
<1>1. /\ printer[t] = "wake" /\ printer' = [WakeUp(S) EXCEPT ![t] = end]
      /\ holder' = IF Ends THEN N ELSE holder
      /\ turn' = turn /\ read' = read /\ main' = main /\ last' = last
      /\ disordered' = disordered /\ missed' = missed
  BY DEF Wake
<1>2. /\ TurnOK /\ OneHolder /\ ReturnInTurn
      /\ version # "seq" => main = "join" /\ ~missed
      /\ (version = "seq" => main = "store") => InOrder
      /\ ~missed => Awaited
  BY DEF TurnInv
<1>3. /\ WakeUp(S) \in [Printers -> PrinterState] /\ printer' \in [Printers -> PrinterState]
      /\ printer'[t] = end
      /\ \A k \in Printers : k # t =>
            printer'[k] = IF k \in S /\ printer[k] = "parked" THEN "woken" ELSE printer[k]
  <2>1. WakeUp(S) \in [Printers -> PrinterState]
    BY <1>2, WakeUpOnly
  <2>2. end \in PrinterState
    BY DEF PrinterState
  <2>3. \A k \in Printers : WakeUp(S)[k] = IF k \in S /\ printer[k] = "parked"
                                           THEN "woken" ELSE printer[k]
    <3> HIDE DEF S
    <3> QED
      BY <1>2, WakeUpOnly
  <2> HIDE DEF S, end
  <2> QED
    BY <1>1, <2>1, <2>2, <2>3
<1>4. \A k \in Printers : k # t =>
         /\ printer[k] \notin Locked /\ printer'[k] \notin Locked
         /\ printer'[k] = printer[k] \/ (printer[k] = "parked" /\ printer'[k] = "woken")
  BY <1>1, <1>2, <1>3 DEF OneHolder, Locked
<1>5. (Ends => end = "done") /\ (~Ends => end = "test")
  OBVIOUS
<1>6. N \notin Printers /\ N \in 0 .. N
  BY TurnAssumption DEF Printers
<1>8. \A k \in Printers : Coming(k) => k \in S \/ (main = "signal" /\ k = 0)
  BY <1>1, <1>2, <1>4 DEF Coming, Locked
<1> HIDE DEF S, end
<1>9. TurnOK'
  BY <1>1, <1>2, <1>3, <1>6 DEF TurnOK
<1>10. OneHolder'
  <2>1. holder = t
    BY <1>1, <1>2 DEF OneHolder, Locked
  <2> QED
    BY <1>1, <1>3, <1>4, <1>5, <1>6, <2>1 DEF OneHolder, Locked
<1>11. ReturnInTurn'
  <2>1. \A k \in Printers : printer'[k] \in {"wake", "done"} <=>
            IF k = t THEN Ends ELSE printer[k] \in {"wake", "done"}
    BY <1>3, <1>4, <1>5
  <2>2. \A k \in Printers : printer'[k] = "done" => Ends
    BY <1>2, <1>3, <1>4, <1>5 DEF ReturnInTurn
  <2>3. Ends => \A k \in Printers : printer'[k] \in {"wake", "done"} <=> k < turn
    BY <1>1, <1>2, <2>1 DEF ReturnInTurn
  <2> QED
    BY <1>1, <1>2, <2>2, <2>3 DEF ReturnInTurn, Ends
<1>12. InOrder => InOrder'
  <2> SUFFICES ASSUME InOrder PROVE InOrder'
    OBVIOUS
  <2>1. turn = N \/ turn = (last + 1) % N
    BY <1>1, <1>4 DEF InOrder, Locked
  <2> QED
    BY <1>1, <1>3, <1>4, <1>5, <2>1 DEF InOrder, Locked
<1>13. Awaited => Awaited'
  <2> SUFFICES ASSUME Awaited PROVE Awaited'
    OBVIOUS
  <2>1. ASSUME NEW k \in Printers, turn = k, printer'[k] = "parked" PROVE Coming(k)'
    <3>1. k # t /\ printer[k] = "parked" /\ k \notin S
      BY <1>3, <1>4, <1>5, <2>1
    <3>2. main = "signal" /\ k = 0
      BY <1>8, <2>1, <3>1 DEF Awaited
    <3> QED
      BY <1>1, <3>2 DEF Coming
  <2> QED
    BY <1>1, <1>3, <1>4, <1>5, <2>1 DEF Awaited, Locked
<1> QED
  BY <1>1, <1>2, <1>9, <1>10, <1>11, <1>12, <1>13 DEF TurnInv

LEMMA MainKeeps ==
    ASSUME TurnInv, MainStores \/ MainSignals, version' = version
    PROVE  TurnInv'
<1>2. /\ TurnOK /\ OneHolder /\ ReturnInTurn
      /\ version # "seq" => main = "join" /\ ~missed
      /\ (version = "seq" => main = "store") => InOrder
      /\ ~missed => Awaited
  BY DEF TurnInv
<1>3. main # "join" /\ version = "seq" /\ ~Ends /\ ~Ends'
  BY <1>2 DEF MainStores, MainSignals, Ends
<1>4. N \in Nat /\ N > 0 /\ 0 \in Printers /\ 0 \in 0 .. N /\ 0 # N
  BY TurnAssumption DEF Printers
<1>5. CASE MainStores
  <2>1. /\ main = "store" /\ main' = "signal" /\ turn' = 0
        /\ missed' = (missed \/ \E t \in Printers : printer[t] = "load")
        /\ printer' = printer /\ holder' = holder /\ read' = read /\ last' = last
        /\ disordered' = disordered
    BY <1>5 DEF MainStores
  <2>2. TurnOK' /\ OneHolder'
    BY <1>2, <1>4, <2>1 DEF TurnOK, OneHolder
  <2>3. ReturnInTurn'
    BY <1>2, <1>3, <1>4, <2>1 DEF ReturnInTurn
  <2>4. ~missed' => Awaited'
    BY <1>2, <2>1 DEF Awaited, Coming
  <2>5. missed' \in BOOLEAN
    BY <2>1
  <2> QED
    BY <1>3, <2>1, <2>2, <2>3, <2>4, <2>5 DEF TurnInv
<1>6. CASE MainSignals
  <2>1. /\ main = "signal" /\ main' = "join" /\ printer' = WakeUp({0})
        /\ missed' = (missed \/ printer[0] = "wait")
        /\ turn' = turn /\ holder' = holder /\ read' = read /\ last' = last
        /\ disordered' = disordered
    BY <1>6 DEF MainSignals
  <2>2. /\ printer' \in [Printers -> PrinterState]
        /\ \A k \in Printers : printer'[k] = IF k = 0 /\ printer[k] = "parked"
                                             THEN "woken" ELSE printer[k]
    <3> DEFINE S == {0}
    <3>1. printer' = WakeUp(S) /\ \A k : k \in S <=> k = 0
      BY <2>1
    <3> HIDE DEF S
    <3>2. WakeUp(S) \in [Printers -> PrinterState]
      BY <1>2, <1>4, WakeUpOnly
    <3>3. ASSUME NEW k \in Printers
          PROVE  WakeUp(S)[k] = IF k \in S /\ printer[k] = "parked"
                                THEN "woken" ELSE printer[k]
      <4>1. TurnOK
        BY <1>2
      <4> QED
        BY <4>1 DEF WakeUp
    <3> QED
      BY <3>1, <3>2, <3>3
  <2>3. \A k \in Printers : \/ printer'[k] = printer[k]
                            \/ k = 0 /\ printer[k] = "parked" /\ printer'[k] = "woken"
    BY <2>2
  <2>4. TurnOK'
    BY <1>2, <2>1, <2>2 DEF TurnOK
  <2>5. OneHolder'
    BY <1>2, <2>1, <2>3 DEF OneHolder, Locked
  <2>6. ReturnInTurn'
    BY <1>2, <1>3, <2>1, <2>3 DEF ReturnInTurn
  <2>7. ~missed' => Awaited'
    <3> SUFFICES ASSUME ~missed' PROVE Awaited'
      OBVIOUS
    <3>1. Awaited /\ printer[0] # "wait"
      BY <1>2, <2>1
    <3>2. \A k \in Printers : k # 0 /\ Coming(k) => Coming(k)'
      BY <1>3, <2>1, <2>3 DEF Coming, Broadcasts
    <3>3. printer'[0] # "parked"
      BY <1>4, <2>2
    <3> QED
      BY <2>1, <2>3, <3>1, <3>2, <3>3 DEF Awaited
  <2>8. missed' \in BOOLEAN
    BY <2>1 DEF TurnInv
  <2> QED
    BY <1>2, <1>3, <2>1, <2>4, <2>5, <2>6, <2>7, <2>8 DEF TurnInv
<1> QED
  BY <1>5, <1>6

LEMMA WakesUpKeeps ==
    ASSUME TurnInv, NEW t \in Printers, SpuriousTurnWakeup(t), version' = version
    PROVE  TurnInv'
<1>1. /\ printer[t] = "parked" /\ printer' = [printer EXCEPT ![t] = "woken"]
      /\ turn' = turn /\ holder' = holder /\ read' = read /\ main' = main /\ last' = last
      /\ disordered' = disordered /\ missed' = missed
  BY DEF SpuriousTurnWakeup
<1>2. /\ TurnOK /\ OneHolder /\ ReturnInTurn
      /\ (version = "seq" => main = "store") => InOrder
      /\ ~missed => Awaited
  BY DEF TurnInv
<1>3. /\ printer'[t] = "woken" /\ \A k \in Printers : k # t => printer'[k] = printer[k]
  BY <1>1, <1>2 DEF TurnOK
<1>4. TurnOK'
  BY <1>1, <1>2 DEF TurnOK, PrinterState
<1>5. OneHolder'
  BY <1>1, <1>2, <1>3 DEF OneHolder, Locked
<1>6. ReturnInTurn'
  BY <1>1, <1>2, <1>3 DEF ReturnInTurn, Ends
<1>7. InOrder => InOrder'
  BY <1>1, <1>3 DEF InOrder
<1>8. Awaited => Awaited'
  BY <1>1, <1>3 DEF Awaited, Coming, Broadcasts
<1> QED
  BY <1>1, <1>2, <1>4, <1>5, <1>6, <1>7, <1>8 DEF TurnInv

LEMMA TurnStep == TurnInv /\ [TakeTurns]_turnVars => TurnInv'
<1> SUFFICES ASSUME TurnInv, [TakeTurns]_turnVars PROVE TurnInv'
  OBVIOUS
<1>1. CASE UNCHANGED turnVars
  <2>1. /\ version' = version /\ turn' = turn /\ printer' = printer /\ holder' = holder
        /\ read' = read /\ main' = main /\ last' = last /\ disordered' = disordered
        /\ missed' = missed
    BY <1>1 DEF turnVars
  <2>2. TurnOK' = TurnOK /\ OneHolder' = OneHolder /\ ReturnInTurn' = ReturnInTurn
    BY <2>1 DEF TurnOK, OneHolder, ReturnInTurn, Ends
  <2>3. InOrder' = InOrder /\ Awaited' = Awaited
    BY <2>1 DEF InOrder, Awaited, Coming, Broadcasts
  <2> QED
    BY <2>1, <2>2, <2>3 DEF TurnInv
<1>2. CASE TakeTurns
  <2>1. version' = version
    BY <1>2 DEF TakeTurns
  <2> QED
    BY <1>2, <2>1, LockKeeps, TestKeeps, ParkKeeps, LoadKeeps, StoreKeeps, WakeKeeps,
       MainKeeps, WakesUpKeeps DEF TakeTurns, print_thread_message
<1> QED
  BY <1>1, <1>2

LEMMA TurnStart == InitTurn => TurnInv
<1> SUFFICES ASSUME InitTurn PROVE TurnInv
  OBVIOUS
<1>1. /\ version \in {"sequence", "seq", "wu2"} /\ turn = 0
      /\ printer = [t \in Printers |-> "start"] /\ holder = N /\ read = 0
      /\ main = (IF version = "seq" THEN "store" ELSE "join")
      /\ last = N - 1 /\ disordered = FALSE /\ missed = FALSE
  BY DEF InitTurn, MainStarts
<1>2. N \in Nat /\ N > 0 /\ Printers = 0 .. N - 1
  BY TurnAssumption DEF Printers
<1>3. 0 \in 0 .. N /\ N \in 0 .. N /\ N - 1 \in Printers /\ N \notin Printers /\ N # 0
  BY <1>2
<1>4. (N - 1 + 1) % N = 0
  BY <1>2, <1>3, NextPrinter
<1>5. TurnOK
  BY <1>1, <1>3 DEF TurnOK, PrinterState
<1>6. OneHolder
  BY <1>1, <1>3 DEF OneHolder, Locked
<1>7. ReturnInTurn
  <2>1. \A t \in Printers : ~(t < 0)
    BY <1>2
  <2> QED
    BY <1>1, <1>3, <2>1 DEF ReturnInTurn
<1>8. InOrder
  BY <1>1, <1>4 DEF InOrder
<1>9. Awaited
  BY <1>1 DEF Awaited
<1> QED
  BY <1>1, <1>5, <1>6, <1>7, <1>8, <1>9 DEF TurnInv

\* The threads of sequence.c, seq.c and wu2.c, for any number of them and with spurious
\* wakeups, print in turn and never all sleep, or wait for one that has returned, unless
\* main's unlocked store or signal in seq.c came at a moment when it is lost.
THEOREM TurnsTaken == TurnSpec => []TurnsGoOn
<1>1. TurnInv => TurnsGoOn
  <2> SUFFICES ASSUME TurnInv PROVE TurnsGoOn
    OBVIOUS
  <2>1. /\ TurnOK /\ OneHolder /\ ReturnInTurn
        /\ version # "seq" => main = "join" /\ ~missed
        /\ (version = "seq" => main = "store") => InOrder
        /\ ~missed => Awaited
    BY DEF TurnInv
  <2>2. disordered => MainStarts /\ main # "store"
    BY <2>1 DEF InOrder, MainStarts
  <2>3. ASSUME \A t \in Printers : printer[t] \in {"parked", "done"}, ~missed, main = "join"
        PROVE  Ends /\ \A t \in Printers : printer[t] = "done"
    <3>1. turn \notin Printers
      <4>1. SUFFICES ASSUME turn \in Printers PROVE FALSE
        OBVIOUS
      <4>2. printer[turn] # "done"
        <5>1. ~(turn < turn)
          BY <4>1 DEF Printers
        <5> QED
          BY <2>1, <4>1, <5>1 DEF ReturnInTurn
      <4>3. Coming(turn)
        BY <2>1, <2>3, <4>1, <4>2 DEF Awaited
      <4> QED
        BY <2>3, <4>3 DEF Coming
    <3>2. turn = N
      BY <2>1, <3>1, TurnAssumption DEF TurnOK, Printers
    <3>3. Ends
      BY <2>1, <3>2 DEF ReturnInTurn
    <3>4. \A t \in Printers : t < N
      BY TurnAssumption DEF Printers
    <3>5. \A t \in Printers : printer[t] \in {"wake", "done"}
      BY <2>1, <3>2, <3>3, <3>4 DEF ReturnInTurn
    <3> QED
      BY <2>3, <3>3, <3>5
  <2>4. main \in {"store", "signal", "join"}
    BY <2>1 DEF TurnOK
  <2> QED
    BY <2>2, <2>3 DEF TurnsGoOn
<1> QED
  BY <1>1, TurnStart, TurnStep, PTL DEF TurnSpec
=============================================================================
