---------------------------- MODULE MasterWorker ----------------------------
(***************************************************************************)
(* pthreads-sync-code/master-worker/master-worker.c: masters put the items *)
(* 0 .. total_items-1 on a bounded stack, and workers take them off in     *)
(* strict rotation.  The shared variables are touched under lock, so an    *)
(* action is a critical section (to the next wait or unlock); the one      *)
(* exception is the test of item_to_produce at line 54, a step of its own. *)
(* A parked thread that is signalled, broadcast to or spuriously woken     *)
(* is "woken..." and tests its condition again.                            *)
(***************************************************************************)
EXTENDS Integers, Sequences, FiniteSets

CONSTANTS total_items, max_buf_size, num_workers, num_masters

ASSUME BufferAssumption ==
    total_items \in Nat /\ {max_buf_size, num_workers, num_masters} \subseteq Nat \ {0}

VARIABLES item_to_produce,
          buffer,        \* buffer[0 .. curr_buf_size-1]
          worker_turn,
          mpc, wpc,      \* where the masters and the workers are
          produced,      \* how often print_produced was called with an item
          consumed       \* how often print_consumed was called with an item

bufferVars == <<item_to_produce, buffer, worker_turn, mpc, wpc, produced, consumed>>

Items   == 0 .. total_items - 1
Masters == 0 .. num_masters - 1
WorkerIds == 0 .. num_workers - 1

MasterPlace == {"start", "parked", "woken", "test", "done"}
\* "..._turn": in the loop of line 71, "..._item": in the loop of line 75
WorkerPlace == {"start", "parked_turn", "woken_turn",
                         "parked_item", "woken_item", "done"}

InitBuffer ==
    /\ item_to_produce = 0
    /\ buffer = <<>>
    /\ worker_turn = 0
    /\ mpc = [m \in Masters |-> "start"]
    /\ wpc = [w \in WorkerIds |-> "start"]
    /\ produced = [i \in Items |-> 0]
    /\ consumed = [i \in Items |-> 0]

\* pthread_cond_signal(&master), the other masters being as in after
SignalMaster(after) ==
    LET parked == {m \in Masters : mpc[m] = "parked"}
    IN  \/ parked = {} /\ mpc' = after
        \/ \E m \in parked : mpc' = [after EXCEPT ![m] = "woken"]

Woken(s) == CASE s = "parked_turn" -> "woken_turn"
              [] s = "parked_item" -> "woken_item"
              [] OTHER -> s

\* pthread_cond_broadcast(&worker), worker w going to s
BroadcastWorkers(w, s) ==
    wpc' = [u \in WorkerIds |-> IF u = w THEN s ELSE Woken(wpc[u])]

WakeWorkers == wpc' = [u \in WorkerIds |-> Woken(wpc[u])]

\* Variants named X_... are X with a slip; each breaks a property.
Produce_NoSignal(m) ==
    /\ mpc[m] \in {"start", "woken"}
    /\ \/ /\ Len(buffer) = max_buf_size
          /\ mpc' = [mpc EXCEPT ![m] = "parked"]
          /\ UNCHANGED <<item_to_produce, buffer, wpc, produced>>
       \/ /\ Len(buffer) # max_buf_size
          /\ \/ /\ item_to_produce < total_items
                /\ buffer' = Append(buffer, item_to_produce)
                /\ produced' = [produced EXCEPT ![item_to_produce] = @ + 1]
                /\ item_to_produce' = item_to_produce + 1
             \/ /\ item_to_produce >= total_items
                /\ UNCHANGED <<item_to_produce, buffer, produced>>
          /\ WakeWorkers
          /\ mpc' = [mpc EXCEPT ![m] = "test"]
    /\ UNCHANGED <<worker_turn, consumed>>

\* lines 37-52
Produce(m) ==
    /\ mpc[m] \in {"start", "woken"}
    /\ \/ /\ Len(buffer) = max_buf_size
          /\ mpc' = [mpc EXCEPT ![m] = "parked"]
          /\ UNCHANGED <<item_to_produce, buffer, wpc, produced>>
       \/ /\ Len(buffer) # max_buf_size
          /\ \/ /\ item_to_produce < total_items
                /\ buffer' = Append(buffer, item_to_produce)
                /\ produced' = [produced EXCEPT ![item_to_produce] = @ + 1]
                /\ item_to_produce' = item_to_produce + 1
             \/ /\ item_to_produce >= total_items
                /\ UNCHANGED <<item_to_produce, buffer, produced>>
          /\ WakeWorkers
          /\ SignalMaster([mpc EXCEPT ![m] = "test"])
    /\ UNCHANGED <<worker_turn, consumed>>

\* lines 54-55, without the lock
TestDone(m) ==
    /\ mpc[m] = "test"
    /\ mpc' = [mpc EXCEPT ![m] = IF item_to_produce >= total_items
                                 THEN "done" ELSE "start"]
    /\ UNCHANGED <<item_to_produce, buffer, worker_turn, wpc, produced, consumed>>

NextTurn == (worker_turn + 1) % num_workers

WaitTurn(w) ==
    /\ wpc[w] \in {"start", "woken_turn"}
    /\ worker_turn # w
    /\ wpc' = [wpc EXCEPT ![w] = "parked_turn"]
    /\ UNCHANGED <<item_to_produce, buffer, worker_turn, mpc, produced, consumed>>

\* Worker w has come past the loop of line 71.
HasTurn(w) == \/ wpc[w] \in {"start", "woken_turn"} /\ worker_turn = w
              \/ wpc[w] = "woken_item"

WaitItem(w) ==
    /\ HasTurn(w)
    /\ buffer = <<>> /\ item_to_produce < total_items
    /\ wpc' = [wpc EXCEPT ![w] = "parked_item"]
    /\ UNCHANGED <<item_to_produce, buffer, worker_turn, mpc, produced, consumed>>

Leave_KeepTurn(w) ==
    /\ HasTurn(w)
    /\ buffer = <<>> /\ item_to_produce >= total_items
    /\ BroadcastWorkers(w, "done")
    /\ UNCHANGED <<item_to_produce, buffer, worker_turn, mpc, produced, consumed>>

\* lines 77-83
Leave(w) ==
    /\ HasTurn(w)
    /\ buffer = <<>> /\ item_to_produce >= total_items
    /\ worker_turn' = NextTurn
    /\ BroadcastWorkers(w, "done")
    /\ UNCHANGED <<item_to_produce, buffer, mpc, produced, consumed>>

Consume_First(w) ==
    /\ HasTurn(w)
    /\ buffer # <<>>
    /\ consumed' = [consumed EXCEPT ![buffer[1]] = @ + 1]
    /\ buffer' = SubSeq(buffer, 1, Len(buffer) - 1)
    /\ worker_turn' = NextTurn
    /\ SignalMaster(mpc)
    /\ BroadcastWorkers(w, "start")
    /\ UNCHANGED <<item_to_produce, produced>>

\* lines 86-92: the last item is taken, and the turn passes on.
Consume(w) ==
    /\ HasTurn(w)
    /\ buffer # <<>>
    /\ consumed' = [consumed EXCEPT ![buffer[Len(buffer)]] = @ + 1]
    /\ buffer' = SubSeq(buffer, 1, Len(buffer) - 1)
    /\ worker_turn' = NextTurn
    /\ SignalMaster(mpc)
    /\ BroadcastWorkers(w, "start")
    /\ UNCHANGED <<item_to_produce, produced>>

SpuriousBufferWakeup ==
    /\ \/ \E m \in Masters : /\ mpc[m] = "parked"
                             /\ mpc' = [mpc EXCEPT ![m] = "woken"]
                             /\ UNCHANGED wpc
       \/ \E w \in WorkerIds : /\ wpc[w] \in {"parked_turn", "parked_item"}
                             /\ wpc' = [wpc EXCEPT ![w] = Woken(wpc[w])]
                             /\ UNCHANGED mpc
    /\ UNCHANGED <<item_to_produce, buffer, worker_turn, produced, consumed>>

AllDone == /\ \A m \in Masters : mpc[m] = "done"
           /\ \A w \in WorkerIds : wpc[w] = "done"

\* main has joined every thread.
BufferJoined == AllDone /\ UNCHANGED bufferVars

Master(m) == Produce(m) \/ TestDone(m)
Worker(w) == WaitTurn(w) \/ WaitItem(w) \/ Leave(w) \/ Consume(w)

ProduceAndConsume ==
    \/ \E m \in Masters : Master(m)
    \/ \E w \in WorkerIds : Worker(w)
    \/ SpuriousBufferWakeup
    \/ BufferJoined

BufferSpec == InitBuffer /\ [][ProduceAndConsume]_bufferVars

\* Every thread that is not parked runs on; spurious wakeups are not relied on.
FairBufferSpec ==
    /\ BufferSpec
    /\ \A m \in Masters : WF_bufferVars(Master(m))
    /\ \A w \in WorkerIds : WF_bufferVars(Worker(w))
-----------------------------------------------------------------------------
\* The variables have their types; the stack never outgrows the array.
BufferOK ==
    /\ item_to_produce \in 0 .. total_items
    /\ buffer \in Seq(Items) /\ Len(buffer) <= max_buf_size
    /\ worker_turn \in WorkerIds
    /\ mpc \in [Masters -> MasterPlace]
    /\ wpc \in [WorkerIds -> WorkerPlace]
    /\ produced \in [Items -> Nat] /\ consumed \in [Items -> Nat]

Stacked(i) == {j \in DOMAIN buffer : buffer[j] = i}

\* What check.awk counts, in every state: an item has been produced once if it
\* is below item_to_produce and not at all otherwise, and since then it is once
\* in the stack or once consumed, whatever the masters and workers raced for.
EachItemOnce ==
    \A i \in Items :
        /\ produced[i] = IF i < item_to_produce THEN 1 ELSE 0
        /\ consumed[i] + Cardinality(Stacked(i)) = produced[i]

\* The worker whose turn it is sleeps only while the stack is empty and items are
\* still to come, although all workers share one condition variable for two
\* conditions; and a master sleeps with room in the stack only while another one is
\* woken, though one consumption signals one master only.
NoBufferWakeupLost ==
    /\ wpc[worker_turn] # "parked_turn"
    /\ wpc[worker_turn] = "parked_item" => buffer = <<>> /\ item_to_produce < total_items
    /\ (\E m \in Masters : mpc[m] = "parked") /\ Len(buffer) < max_buf_size
          => \E m \in Masters : mpc[m] = "woken"

\* Every thread returns, so that main's joins do, and then check.awk prints OK:
\* every item was produced and consumed once.
BufferTermination == <>(AllDone /\ \A i \in Items : produced[i] = 1 /\ consumed[i] = 1)
=============================================================================
