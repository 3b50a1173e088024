---------------------------- MODULE FdQueue_proofs ----------------------------
(***************************************************************************)
(* Proofs about the connection queue, for any finite set of workers, any   *)
(* set of connections and any number of failing accepts.                   *)
(***************************************************************************)
EXTENDS FdQueue, FiniteSetTheorems, TLAPS

Positions == 1 .. Len(fd_queue)
Queued(c) == \E i \in Positions : fd_queue[i] = c
Served(c) == \E w \in Workers : client_fd[w] = c

\* A connection is queued or with a worker from its accept to its close.
PlacedWhileOpen ==
    /\ fresh \cap closed = {}
    /\ \A c \in Conns : c \in fresh \union closed <=> ~(Queued(c) \/ Served(c))

\* No connection is twice in the queue, with two workers, or in both places.
PlacedOnce ==
    /\ \A i, j \in Positions : fd_queue[i] = fd_queue[j] /\ fd_queue[i] \in Conns => i = j
    /\ \A w, v \in Workers : client_fd[w] = client_fd[v] /\ client_fd[w] \in Conns => w = v
    /\ \A i \in Positions, w \in Workers : client_fd[w] = fd_queue[i] => client_fd[w] \notin Conns

\* The inductive invariant.
QueueInv == QueueTypeOK /\ PlacedWhileOpen /\ PlacedOnce /\ WokenCoverQueue
-----------------------------------------------------------------------------
\* The sets of workers are finite, and one worker more or less counts as one.
LEMMA WorkerSets ==
    ASSUME NEW s
    PROVE  /\ IsFiniteSet(WorkersIn(s)) /\ Cardinality(WorkersIn(s)) \in Nat
           /\ \A w \in Workers \ WorkersIn(s) :
                Cardinality(WorkersIn(s) \union {w}) = Cardinality(WorkersIn(s)) + 1
           /\ \A w \in WorkersIn(s) :
                Cardinality(WorkersIn(s) \ {w}) = Cardinality(WorkersIn(s)) - 1
<1>1. IsFiniteSet(WorkersIn(s))
  BY FdQueueAssumption, FS_Subset DEF WorkersIn
<1> QED
  BY <1>1, FS_CardinalityType, FS_AddElement, FS_RemoveElement

\* A signal wakes one parked worker, if there is any, and moves no other.
LEMMA SignalEffect ==
    ASSUME QueueTypeOK, NEW after \in [Workers -> WorkerState], SignalQueue(after)
    PROVE  /\ worker' \in [Workers -> WorkerState]
           /\ \/ WorkersIn("parked") = {} /\ worker' = after
              \/ \E w \in Workers : worker[w] = "parked" /\ worker' = [after EXCEPT ![w] = "woken"]
  BY DEF SignalQueue, WorkersIn, WorkerState

\* The worker that a signal to the workers as they are moves keeps the count.
LEMMA SignalCovers ==
    ASSUME QueueTypeOK, SignalQueue(worker)
    PROVE  /\ worker' \in [Workers -> WorkerState]
           /\ \A w \in Workers : worker'[w] = "serving" <=> worker[w] = "serving"
           /\ \/ WorkersIn("parked")' = {}
              \/ /\ WorkersIn("parked") # {}
                 /\ Cardinality(WorkersIn("woken")') = Cardinality(WorkersIn("woken")) + 1
<1>1. worker \in [Workers -> WorkerState]
  BY DEF QueueTypeOK
<1>2. CASE WorkersIn("parked") = {} /\ worker' = worker
  BY <1>1, <1>2 DEF WorkersIn
<1>3. CASE \E w \in Workers : worker[w] = "parked" /\ worker' = [worker EXCEPT ![w] = "woken"]
  <2>1. PICK w \in Workers : worker[w] = "parked" /\ worker' = [worker EXCEPT ![w] = "woken"]
    BY <1>3
  <2>2. /\ WorkersIn("woken")' = WorkersIn("woken") \union {w}
        /\ w \in Workers \ WorkersIn("woken") /\ WorkersIn("parked") # {}
    BY <1>1, <2>1 DEF WorkersIn
  <2>3. Cardinality(WorkersIn("woken")') = Cardinality(WorkersIn("woken")) + 1
    BY <2>2, WorkerSets
  <2> QED
    BY <1>1, <2>1, <2>2, <2>3 DEF WorkerState
<1> QED
  BY <1>1, <1>2, <1>3, SignalEffect
-----------------------------------------------------------------------------
\* At the start no connection is anywhere and no worker parked.
LEMMA InitQueueInv == InitQueue => QueueInv
<1> SUFFICES ASSUME InitQueue PROVE QueueInv
  OBVIOUS
<1>1. Positions = {} /\ Len(fd_queue) = 0
  BY DEF InitQueue, Positions
<1>2. QueueTypeOK
  BY FdQueueAssumption DEF InitQueue, QueueTypeOK, WorkerState
<1>3. PlacedWhileOpen /\ PlacedOnce
  BY <1>1, FdQueueAssumption DEF InitQueue, PlacedWhileOpen, PlacedOnce, Queued, Served
<1>4. WokenCoverQueue
  BY <1>1, WorkerSets DEF WokenCoverQueue
<1> QED
  BY <1>2, <1>3, <1>4 DEF QueueInv

\* What Append does to the queue.
LEMMA EnqueueEffect ==
    ASSUME QueueTypeOK, NEW fd \in Conns \union {BadFd}, Enqueue(fd)
    PROVE  /\ fd_queue' \in Seq(Conns \union {BadFd})
           /\ Len(fd_queue') = Len(fd_queue) + 1
           /\ \A i \in Positions : fd_queue'[i] = fd_queue[i]
           /\ fd_queue'[Len(fd_queue) + 1] = fd
           /\ \A c : Queued(c)' <=> Queued(c) \/ c = fd
<1>1. fd_queue \in Seq(Conns \union {BadFd}) /\ fd_queue' = Append(fd_queue, fd)
  BY DEF QueueTypeOK, Enqueue
<1>2. /\ fd_queue' \in Seq(Conns \union {BadFd})
      /\ Len(fd_queue') = Len(fd_queue) + 1 /\ Len(fd_queue) \in Nat
      /\ \A i \in 1 .. Len(fd_queue) : fd_queue'[i] = fd_queue[i]
      /\ fd_queue'[Len(fd_queue) + 1] = fd
  BY <1>1
<1>3. ASSUME NEW c PROVE Queued(c)' <=> Queued(c) \/ c = fd
  BY <1>2 DEF Queued, Positions
<1> QED
  BY <1>2, <1>3 DEF Positions

\* The signal covers the new connection.
LEMMA EnqueueCovers ==
    ASSUME QueueTypeOK, WokenCoverQueue, NEW fd \in Conns \union {BadFd}, Enqueue(fd)
    PROVE  WokenCoverQueue'
<1>1. Len(fd_queue') = Len(fd_queue) + 1 /\ Len(fd_queue) \in Nat
  BY EnqueueEffect DEF QueueTypeOK
<1>2. \/ WorkersIn("parked")' = {}
      \/ /\ WorkersIn("parked") # {}
         /\ Cardinality(WorkersIn("woken")') = Cardinality(WorkersIn("woken")) + 1
  BY SignalCovers DEF Enqueue
<1>3. Cardinality(WorkersIn("woken")) \in Nat
  BY WorkerSets
<1> QED
  BY <1>1, <1>2, <1>3 DEF WokenCoverQueue

\* A new connection was in no place before.
LEMMA AcceptKeepsInv ==
    ASSUME QueueInv, NEW c \in Conns, Accept(c)
    PROVE  QueueInv'
<1>1. /\ c \in fresh /\ fresh' = fresh \ {c} /\ Enqueue(c) /\ c \in Conns \union {BadFd}
      /\ UNCHANGED <<accept_errors, client_fd, closed>>
  BY DEF Accept
<1>2. QueueTypeOK'
  BY <1>1, EnqueueEffect, SignalCovers DEF QueueInv, QueueTypeOK, Enqueue
<1>3. PlacedWhileOpen'
  <2>1. \A d : (Queued(d)' <=> Queued(d) \/ d = c) /\ (Served(d)' <=> Served(d))
    BY <1>1, EnqueueEffect DEF QueueInv, Served
  <2> QED
    BY <1>1, <2>1 DEF QueueInv, PlacedWhileOpen
<1>4. PlacedOnce'
  <2>1. ~Queued(c) /\ ~Served(c)
    BY <1>1 DEF QueueInv, PlacedWhileOpen
  <2>2. /\ Len(fd_queue') = Len(fd_queue) + 1 /\ Len(fd_queue) \in Nat
        /\ \A i \in Positions : fd_queue'[i] = fd_queue[i]
        /\ fd_queue'[Len(fd_queue) + 1] = c
    BY <1>1, EnqueueEffect DEF QueueInv, QueueTypeOK
  <2> QED
    BY <1>1, <2>1, <2>2 DEF QueueInv, PlacedOnce, Queued, Served, Positions
<1>5. WokenCoverQueue'
  BY <1>1, EnqueueCovers DEF QueueInv
<1> QED
  BY <1>2, <1>3, <1>4, <1>5 DEF QueueInv

\* A -1 in the queue is no connection, but wants a worker as one does.
LEMMA AcceptErrorKeepsInv == QueueInv /\ AcceptError => QueueInv'
<1> SUFFICES ASSUME QueueInv, AcceptError PROVE QueueInv'
  OBVIOUS
<1>1. /\ Enqueue(BadFd) /\ BadFd \in Conns \union {BadFd} /\ BadFd \notin Conns
      /\ accept_errors < MaxAcceptErrors /\ accept_errors' = accept_errors + 1
      /\ UNCHANGED <<fresh, client_fd, closed>>
  BY FdQueueAssumption DEF AcceptError
<1>2. QueueTypeOK'
  BY <1>1, EnqueueEffect, SignalCovers, FdQueueAssumption DEF QueueInv, QueueTypeOK, Enqueue
<1>3. PlacedWhileOpen'
  <2>1. \A d : (Queued(d)' <=> Queued(d) \/ d = BadFd) /\ (Served(d)' <=> Served(d))
    BY <1>1, EnqueueEffect DEF QueueInv, Served
  <2> QED
    BY <1>1, <2>1 DEF QueueInv, PlacedWhileOpen
<1>4. PlacedOnce'
  <2>1. /\ Len(fd_queue') = Len(fd_queue) + 1 /\ Len(fd_queue) \in Nat
        /\ \A i \in Positions : fd_queue'[i] = fd_queue[i]
        /\ fd_queue'[Len(fd_queue) + 1] = BadFd
    BY <1>1, EnqueueEffect DEF QueueInv, QueueTypeOK
  <2> QED
    BY <1>1, <2>1 DEF QueueInv, PlacedOnce, Positions
<1>5. WokenCoverQueue'
  BY <1>1, EnqueueCovers DEF QueueInv
<1> QED
  BY <1>2, <1>3, <1>4, <1>5 DEF QueueInv

\* Taking the first connection off moves the others up by one place.
LEMMA TailEffect ==
    ASSUME QueueTypeOK, fd_queue # <<>>, fd_queue' = Tail(fd_queue)
    PROVE  /\ fd_queue' \in Seq(Conns \union {BadFd})
           /\ Len(fd_queue) \in Nat /\ Len(fd_queue) >= 1
           /\ Len(fd_queue') = Len(fd_queue) - 1
           /\ Head(fd_queue) = fd_queue[1] /\ Head(fd_queue) \in Conns \union {BadFd}
           /\ \A i \in Positions' : i + 1 \in Positions /\ fd_queue'[i] = fd_queue[i + 1]
           /\ \A i \in Positions : i = 1 \/ (i - 1 \in Positions' /\ fd_queue'[i - 1] = fd_queue[i])
<1>1. fd_queue \in Seq(Conns \union {BadFd})
  BY DEF QueueTypeOK
<1> QED
  BY <1>1 DEF Positions

\* A worker with a connection leaves the others where they are, and the signal
\* it may have been woken by covered the connection it took.
LEMMA ServeKeepsCover ==
    ASSUME QueueTypeOK, WokenCoverQueue, NEW w \in Workers, worker[w] \in {"idle", "woken"},
           fd_queue # <<>>, fd_queue' = Tail(fd_queue),
           worker' = [worker EXCEPT ![w] = "serving"]
    PROVE  WokenCoverQueue'
<1>1. worker \in [Workers -> WorkerState] /\ Len(fd_queue') = Len(fd_queue) - 1 /\ Len(fd_queue) \in Nat
  BY TailEffect DEF QueueTypeOK
<1>2. WorkersIn("parked")' = WorkersIn("parked")
  BY <1>1 DEF WorkersIn
<1>3. CASE worker[w] = "idle"
  <2>1. WorkersIn("woken")' = WorkersIn("woken")
    BY <1>1, <1>3 DEF WorkersIn
  <2> QED
    BY <1>1, <1>2, <2>1, WorkerSets DEF WokenCoverQueue
<1>4. CASE worker[w] = "woken"
  <2>1. WorkersIn("woken")' = WorkersIn("woken") \ {w} /\ w \in WorkersIn("woken")
    BY <1>1, <1>4 DEF WorkersIn
  <2>2. /\ Cardinality(WorkersIn("woken")') = Cardinality(WorkersIn("woken")) - 1
        /\ Cardinality(WorkersIn("woken")) \in Nat
    BY <2>1, WorkerSets
  <2> QED
    BY <1>1, <1>2, <2>2 DEF WokenCoverQueue
<1> QED
  BY <1>3, <1>4

\* A worker finds the queue empty and parks, or the first connection moves to it.
LEMMA DequeueKeepsInv ==
    ASSUME QueueInv, NEW w \in Workers, Dequeue(w)
    PROVE  QueueInv'
<1>1. QueueTypeOK /\ PlacedWhileOpen /\ PlacedOnce /\ WokenCoverQueue
  BY DEF QueueInv
<1>2. /\ worker[w] \in {"idle", "woken"} /\ client_fd[w] = NoFd
      /\ UNCHANGED <<fresh, accept_errors, closed>>
  BY <1>1 DEF Dequeue, QueueTypeOK
<1>3. CASE /\ fd_queue = <<>>
           /\ worker' = [worker EXCEPT ![w] = "parked"]
           /\ UNCHANGED <<fd_queue, client_fd>>
  <2>1. QueueTypeOK'
    BY <1>1, <1>2, <1>3 DEF QueueTypeOK, WorkerState
  <2>2. PlacedWhileOpen' /\ PlacedOnce'
    BY <1>1, <1>2, <1>3 DEF PlacedWhileOpen, PlacedOnce, Queued, Served, Positions
  <2>3. Len(fd_queue') = 0
    BY <1>3
  <2>4. IsFiniteSet(WorkersIn("woken")') /\ Cardinality(WorkersIn("woken")') \in Nat
    <3>1. WorkersIn("woken")' \in SUBSET Workers
      BY DEF WorkersIn
    <3> QED
      BY <3>1, FdQueueAssumption, FS_Subset, FS_CardinalityType
  <2>5. WokenCoverQueue'
    BY <2>3, <2>4 DEF WokenCoverQueue
  <2> QED
    BY <2>1, <2>2, <2>5 DEF QueueInv
<1>4. CASE /\ fd_queue # <<>>
           /\ client_fd' = [client_fd EXCEPT ![w] = Head(fd_queue)]
           /\ fd_queue' = Tail(fd_queue)
           /\ worker' = [worker EXCEPT ![w] = "serving"]
  <2>1. /\ fd_queue' \in Seq(Conns \union {BadFd})
        /\ Len(fd_queue) \in Nat /\ Len(fd_queue) >= 1
        /\ Len(fd_queue') = Len(fd_queue) - 1
        /\ Head(fd_queue) = fd_queue[1] /\ Head(fd_queue) \in Conns \union {BadFd}
        /\ \A i \in Positions' : i + 1 \in Positions /\ fd_queue'[i] = fd_queue[i + 1]
        /\ \A i \in Positions : i = 1 \/ (i - 1 \in Positions' /\ fd_queue'[i - 1] = fd_queue[i])
    BY <1>1, <1>4, TailEffect
  <2>2. /\ client_fd'[w] = fd_queue[1]
        /\ \A v \in Workers \ {w} : client_fd'[v] = client_fd[v]
    BY <1>1, <1>4, <2>1 DEF QueueTypeOK
  <2>3. QueueTypeOK'
    <3>1. Head(fd_queue) # NoFd
      BY <2>1, FdQueueAssumption
    <3> QED
      BY <1>1, <1>2, <1>4, <2>1, <3>1 DEF QueueTypeOK, WorkerState
  <2>4. 1 \in Positions
    BY <2>1 DEF Positions
  <2>5. ASSUME NEW c \in Conns PROVE (Queued(c) \/ Served(c))' <=> Queued(c) \/ Served(c)
    BY <1>2, <2>1, <2>2, <2>4, FdQueueAssumption DEF Queued, Served
  <2>6. PlacedWhileOpen'
    BY <1>1, <1>2, <2>5 DEF PlacedWhileOpen
  <2>7. PlacedOnce'
    <3>1. ASSUME NEW i \in Positions', NEW j \in Positions', fd_queue'[i] = fd_queue'[j], fd_queue'[i] \in Conns
          PROVE  i = j
      <4>1. i + 1 = j + 1
        BY <1>1, <2>1, <3>1 DEF PlacedOnce
      <4>2. i \in Int /\ j \in Int
        BY <2>1 DEF Positions
      <4> QED
        BY <4>1, <4>2
    <3>2. ASSUME NEW v \in Workers, NEW u \in Workers, client_fd'[v] = client_fd'[u], client_fd'[v] \in Conns
          PROVE  v = u
      BY <1>1, <2>2, <2>4, <3>2 DEF PlacedOnce
    <3>3. ASSUME NEW i \in Positions', NEW v \in Workers, client_fd'[v] = fd_queue'[i]
          PROVE  client_fd'[v] \notin Conns
      <4>1. i + 1 \in Positions /\ fd_queue'[i] = fd_queue[i + 1] /\ i + 1 # 1
        BY <2>1 DEF Positions
      <4> QED
        BY <1>1, <2>2, <2>4, <3>3, <4>1 DEF PlacedOnce
    <3> QED
      BY <3>1, <3>2, <3>3 DEF PlacedOnce
  <2>8. WokenCoverQueue'
    BY <1>1, <1>2, <1>4, ServeKeepsCover
  <2> QED
    BY <2>3, <2>6, <2>7, <2>8 DEF QueueInv
<1> QED
  BY <1>3, <1>4 DEF Dequeue

\* The connection leaves the worker for good.
LEMMA DisconnectKeepsInv ==
    ASSUME QueueInv, NEW w \in Workers, Disconnect(w)
    PROVE  QueueInv'
<1>1. QueueTypeOK /\ PlacedWhileOpen /\ PlacedOnce /\ WokenCoverQueue
  BY DEF QueueInv
<1>2. /\ worker[w] = "serving" /\ client_fd[w] \in Conns
      /\ closed' = closed \union {client_fd[w]}
      /\ client_fd' = [client_fd EXCEPT ![w] = NoFd]
      /\ worker' = [worker EXCEPT ![w] = "signal"]
      /\ UNCHANGED <<fresh, accept_errors, fd_queue>>
  BY <1>1 DEF Disconnect, QueueTypeOK
<1>3. /\ client_fd'[w] = NoFd /\ NoFd \notin Conns
      /\ \A v \in Workers \ {w} : client_fd'[v] = client_fd[v]
  BY <1>1, <1>2, FdQueueAssumption DEF QueueTypeOK
<1>4. QueueTypeOK'
  BY <1>1, <1>2 DEF QueueTypeOK, WorkerState
<1>5. \A c \in Conns : Queued(c)' <=> Queued(c)
  BY <1>2 DEF Queued, Positions
<1>6. ~Queued(client_fd[w]) /\ client_fd[w] \notin fresh
  BY <1>1, <1>2 DEF PlacedWhileOpen, PlacedOnce, Queued, Served
<1>7. \A c \in Conns : Served(c)' <=> Served(c) /\ c # client_fd[w]
  BY <1>1, <1>2, <1>3 DEF PlacedOnce, Served
<1>8. PlacedWhileOpen'
  BY <1>1, <1>2, <1>5, <1>6, <1>7 DEF PlacedWhileOpen
<1>9. PlacedOnce'
  BY <1>1, <1>2, <1>3 DEF PlacedOnce, Positions
<1>10. WokenCoverQueue'
  <2>1. /\ WorkersIn("parked")' = WorkersIn("parked")
        /\ WorkersIn("woken")' = WorkersIn("woken")
    BY <1>1, <1>2 DEF QueueTypeOK, WorkersIn
  <2> QED
    BY <1>1, <1>2, <2>1 DEF WokenCoverQueue
<1> QED
  BY <1>4, <1>8, <1>9, <1>10 DEF QueueInv

\* A step that moves no connection, and no worker to or from one, keeps where
\* the connections are.
LEMMA PlacesKept ==
    ASSUME QueueInv, worker' \in [Workers -> WorkerState],
           \A w \in Workers : worker'[w] = "serving" <=> worker[w] = "serving",
           UNCHANGED <<fresh, accept_errors, fd_queue, client_fd, closed>>
    PROVE  QueueTypeOK' /\ PlacedWhileOpen' /\ PlacedOnce'
<1>1. QueueTypeOK'
  BY DEF QueueInv, QueueTypeOK
<1>2. PlacedWhileOpen' /\ PlacedOnce'
  BY DEF QueueInv, PlacedWhileOpen, PlacedOnce, Queued, Served, Positions
<1> QED
  BY <1>1, <1>2

\* A signal without a new connection can only wake one worker too many.
LEMMA SignalAfterClientKeepsInv ==
    ASSUME QueueInv, NEW w \in Workers, SignalAfterClient(w)
    PROVE  QueueInv'
<1> DEFINE after == [worker EXCEPT ![w] = "idle"]
<1>1. /\ QueueTypeOK /\ WokenCoverQueue /\ worker \in [Workers -> WorkerState]
      /\ worker[w] = "signal" /\ SignalQueue(after) /\ after \in [Workers -> WorkerState]
      /\ UNCHANGED <<fresh, accept_errors, fd_queue, client_fd, closed>>
  BY DEF QueueInv, QueueTypeOK, SignalAfterClient, WorkerState
<1>2. CASE WorkersIn("parked") = {} /\ worker' = after
  <2>1. WorkersIn("parked")' = {}
    BY <1>1, <1>2 DEF WorkersIn
  <2>2. WokenCoverQueue'
    BY <2>1 DEF WokenCoverQueue
  <2>3. /\ worker' \in [Workers -> WorkerState]
        /\ \A v \in Workers : worker'[v] = "serving" <=> worker[v] = "serving"
    BY <1>1, <1>2
  <2> QED
    BY <1>1, <2>2, <2>3, PlacesKept DEF QueueInv
<1>3. CASE \E v \in Workers : worker[v] = "parked" /\ worker' = [after EXCEPT ![v] = "woken"]
  <2>1. PICK v \in Workers : worker[v] = "parked" /\ worker' = [after EXCEPT ![v] = "woken"]
    BY <1>3
  <2>2. /\ worker' \in [Workers -> WorkerState]
        /\ \A u \in Workers : worker'[u] = "serving" <=> worker[u] = "serving"
        /\ WorkersIn("woken")' = WorkersIn("woken") \union {v}
        /\ v \in Workers \ WorkersIn("woken") /\ WorkersIn("parked") # {}
    BY <1>1, <2>1 DEF WorkersIn, WorkerState
  <2>3. /\ Cardinality(WorkersIn("woken")') = Cardinality(WorkersIn("woken")) + 1
        /\ Cardinality(WorkersIn("woken")) \in Nat
    BY <2>2, WorkerSets
  <2>4. Len(fd_queue) \in Nat /\ Len(fd_queue') = Len(fd_queue)
    BY <1>1 DEF QueueTypeOK
  <2>5. WokenCoverQueue'
    BY <1>1, <2>2, <2>3, <2>4 DEF WokenCoverQueue
  <2> QED
    BY <1>1, <2>2, <2>5, PlacesKept DEF QueueInv
<1> HIDE DEF after
<1> QED
  BY <1>1, <1>2, <1>3, SignalEffect

\* So can a wait that returns by itself.
LEMMA SpuriousKeepsInv ==
    ASSUME QueueInv, NEW w \in Workers, SpuriousQueueWakeup(w)
    PROVE  QueueInv'
<1>1. /\ QueueTypeOK /\ WokenCoverQueue /\ worker \in [Workers -> WorkerState]
      /\ worker[w] = "parked" /\ worker' = [worker EXCEPT ![w] = "woken"]
      /\ UNCHANGED <<fresh, accept_errors, fd_queue, client_fd, closed>>
  BY DEF QueueInv, QueueTypeOK, SpuriousQueueWakeup
<1>2. /\ worker' \in [Workers -> WorkerState]
      /\ \A u \in Workers : worker'[u] = "serving" <=> worker[u] = "serving"
      /\ WorkersIn("woken")' = WorkersIn("woken") \union {w}
      /\ w \in Workers \ WorkersIn("woken") /\ WorkersIn("parked") # {}
  BY <1>1 DEF WorkersIn, WorkerState
<1>3. /\ Cardinality(WorkersIn("woken")') = Cardinality(WorkersIn("woken")) + 1
      /\ Cardinality(WorkersIn("woken")) \in Nat
  BY <1>2, WorkerSets
<1>4. Len(fd_queue) \in Nat /\ Len(fd_queue') = Len(fd_queue)
  BY <1>1 DEF QueueTypeOK
<1>5. WokenCoverQueue'
  BY <1>1, <1>2, <1>3, <1>4 DEF WokenCoverQueue
<1> QED
  BY <1>1, <1>2, <1>5, PlacesKept DEF QueueInv
-----------------------------------------------------------------------------
\* Every step keeps the invariant.
LEMMA StepKeepsQueueInv == QueueInv /\ [QueueNext]_queueVars => QueueInv'
<1> SUFFICES ASSUME QueueInv, [QueueNext]_queueVars PROVE QueueInv'
  OBVIOUS
<1>1. ASSUME UNCHANGED queueVars PROVE QueueInv'
  <2>1. WokenCoverQueue'
    BY <1>1 DEF QueueInv, queueVars, WokenCoverQueue, WorkersIn
  <2>2. QueueTypeOK' /\ PlacedWhileOpen' /\ PlacedOnce'
    BY <1>1, PlacesKept DEF QueueInv, QueueTypeOK, queueVars
  <2> QED
    BY <2>1, <2>2 DEF QueueInv
<1>2. ASSUME NEW w \in Workers, SpinOnBadFd(w) PROVE QueueInv'
  BY <1>1, <1>2 DEF SpinOnBadFd
<1> QED
  BY <1>1, <1>2, AcceptKeepsInv, AcceptErrorKeepsInv, DequeueKeepsInv, DisconnectKeepsInv,
     SignalAfterClientKeepsInv, SpuriousKeepsInv DEF QueueNext, HandleClient

\* The invariant holds throughout.
THEOREM QueueInvariant == QueueSpec => []QueueInv
<1> QED
  BY InitQueueInv, StepKeepsQueueInv, PTL DEF QueueSpec

\* No two workers read the same socket and no accepted connection is forgotten
\* (lines 43-56 and 284-292), for any number of workers.
THEOREM OncePlaced == QueueSpec => []EachConnectionOncePlaced
<1>1. ASSUME QueueInv PROVE EachConnectionOncePlaced
  <2>1. SUFFICES ASSUME NEW c \in Conns
                 PROVE  Cardinality(Places(c)) = IF c \in fresh \union closed THEN 0 ELSE 1
    BY DEF EachConnectionOncePlaced
  <2>2. DOMAIN fd_queue = Positions
    BY <1>1 DEF QueueInv, QueueTypeOK, Positions
  <2>3. CASE c \in fresh \union closed
    <3>1. Places(c) = {}
      BY <1>1, <2>2, <2>3 DEF QueueInv, PlacedWhileOpen, Queued, Served, Places
    <3> QED
      BY <2>3, <3>1, FS_EmptySet
  <2>4. CASE c \notin fresh \union closed
    <3>1. Queued(c) \/ Served(c)
      BY <1>1, <2>4 DEF QueueInv, PlacedWhileOpen
    <3>2. \E x : Places(c) = {x}
      <4>1. CASE Queued(c)
        <5>1. PICK i \in Positions : fd_queue[i] = c
          BY <4>1 DEF Queued
        <5>2. /\ {j \in DOMAIN fd_queue : fd_queue[j] = c} = {i}
              /\ {u \in Workers : client_fd[u] = c} = {}
          BY <1>1, <2>2, <5>1 DEF QueueInv, PlacedOnce
        <5>3. Places(c) = {<<"queue", i>>}
          BY <5>2 DEF Places
        <5> QED
          BY <5>3
      <4>2. CASE Served(c)
        <5>1. PICK w \in Workers : client_fd[w] = c
          BY <4>2 DEF Served
        <5>2. /\ {j \in DOMAIN fd_queue : fd_queue[j] = c} = {}
              /\ {u \in Workers : client_fd[u] = c} = {w}
          BY <1>1, <2>2, <5>1 DEF QueueInv, PlacedOnce
        <5>3. Places(c) = {<<"worker", w>>}
          BY <5>2 DEF Places
        <5> QED
          BY <5>3
      <4> QED
        BY <3>1, <4>1, <4>2
    <3> QED
      BY <2>4, <3>2, FS_Singleton
  <2> QED
    BY <2>3, <2>4
<1> QED
  BY <1>1, QueueInvariant, PTL

\* A parked worker is never left asleep by the signal of a queued connection
\* (lines 46, 233 and 291), for any number of workers.
THEOREM NoSignalLost == QueueSpec => []WokenCoverQueue
<1>1. QueueInv => WokenCoverQueue
  BY DEF QueueInv
<1> QED
  BY <1>1, QueueInvariant, PTL
=============================================================================
