------------------------------- MODULE FdQueue -------------------------------
(***************************************************************************)
(* How kv-server-pool-rwlock/server.c hands connections to its workers:    *)
(* main accepts and enqueues, handle_client dequeues or parks on           *)
(* fd_queue_cond.  The queue is touched under fd_queue_lock only, so a     *)
(* critical section is one action; its linked list is a sequence (a node   *)
(* is never freed, so no pointer to one can dangle).  The signal a worker  *)
(* sends after a client left (line 233) is outside the mutex and a step of *)
(* its own.  kv-server-pool/server.c has the same code.                    *)
(***************************************************************************)
EXTENDS Naturals, Sequences, FiniteSets

CONSTANTS Workers,          \* the threads of thread_pool
          Conns,            \* the connections clients will open
          BadFd,            \* -1, what accept returns when it fails
          NoFd,             \* a worker that serves no connection
          MaxAcceptErrors   \* bound on the number of times accept fails

ASSUME FdQueueAssumption ==
    /\ IsFiniteSet(Workers)
    /\ BadFd \notin Conns /\ NoFd \notin Conns \union {BadFd}
    /\ MaxAcceptErrors \in Nat

VARIABLES fresh,        \* connections not accepted yet
          accept_errors,
          fd_queue,     \* from fd_queue_head to fd_queue_tail
          worker,       \* where each worker is in handle_client
          client_fd,    \* the local client_fd of each worker
          closed        \* connections that were served to their end

queueVars == <<fresh, accept_errors, fd_queue, worker, client_fd, closed>>

WorkerState == {"idle", "parked", "woken", "serving", "signal"}

WorkersIn(s) == {w \in Workers : worker[w] = s}

InitQueue ==
    /\ fresh = Conns
    /\ accept_errors = 0
    /\ fd_queue = <<>>
    /\ worker = [w \in Workers |-> "idle"]
    /\ client_fd = [w \in Workers |-> NoFd]
    /\ closed = {}

\* pthread_cond_signal(&fd_queue_cond), the other workers being as in after
SignalQueue(after) ==
    \/ WorkersIn("parked") = {} /\ worker' = after
    \/ \E w \in WorkersIn("parked") : worker' = [after EXCEPT ![w] = "woken"]

\* Variants named X_... are X with a slip; each breaks a property.
Enqueue_SignalWhenEmpty(fd) ==
    /\ fd_queue' = Append(fd_queue, fd)
    /\ IF fd_queue = <<>> THEN SignalQueue(worker) ELSE UNCHANGED worker

\* lines 284-292
Enqueue(fd) ==
    /\ fd_queue' = Append(fd_queue, fd)
    /\ SignalQueue(worker)

Accept(c) ==
    /\ c \in fresh
    /\ fresh' = fresh \ {c}
    /\ Enqueue(c)
    /\ UNCHANGED <<accept_errors, client_fd, closed>>

\* accept fails and its result, -1, is enqueued all the same.
AcceptError ==
    /\ accept_errors < MaxAcceptErrors
    /\ accept_errors' = accept_errors + 1
    /\ Enqueue(BadFd)
    /\ UNCHANGED <<fresh, client_fd, closed>>

Dequeue_KeepLast(w) ==
    /\ worker[w] \in {"idle", "woken"}
    /\ IF fd_queue = <<>>
       THEN /\ worker' = [worker EXCEPT ![w] = "parked"]
            /\ UNCHANGED <<fd_queue, client_fd>>
       ELSE /\ worker' = [worker EXCEPT ![w] = "serving"]
            /\ client_fd' = [client_fd EXCEPT ![w] = Head(fd_queue)]
            /\ fd_queue' = IF Len(fd_queue) = 1 THEN fd_queue ELSE Tail(fd_queue)
    /\ UNCHANGED <<fresh, accept_errors, closed>>

\* lines 43-52
Dequeue(w) ==
    /\ worker[w] \in {"idle", "woken"}
    /\ \/ /\ fd_queue = <<>>
          /\ worker' = [worker EXCEPT ![w] = "parked"]
          /\ UNCHANGED <<fd_queue, client_fd>>
       \/ /\ fd_queue # <<>>
          /\ client_fd' = [client_fd EXCEPT ![w] = Head(fd_queue)]
          /\ fd_queue' = Tail(fd_queue)
          /\ worker' = [worker EXCEPT ![w] = "serving"]
    /\ UNCHANGED <<fresh, accept_errors, closed>>

\* CMD_DISCONNECT: the worker closes the connection and leaves the inner loop.
Disconnect(w) ==
    /\ worker[w] = "serving" /\ client_fd[w] # BadFd
    /\ closed' = closed \union {client_fd[w]}
    /\ client_fd' = [client_fd EXCEPT ![w] = NoFd]
    /\ worker' = [worker EXCEPT ![w] = "signal"]
    /\ UNCHANGED <<fresh, accept_errors, fd_queue>>

\* line 233
SignalAfterClient(w) ==
    /\ worker[w] = "signal"
    /\ SignalQueue([worker EXCEPT ![w] = "idle"])
    /\ UNCHANGED <<fresh, accept_errors, fd_queue, client_fd, closed>>

\* On -1 recv and send fail for ever and nothing ends the inner loop.
SpinOnBadFd(w) ==
    /\ worker[w] = "serving" /\ client_fd[w] = BadFd
    /\ UNCHANGED queueVars

SpuriousQueueWakeup(w) ==
    /\ worker[w] = "parked"
    /\ worker' = [worker EXCEPT ![w] = "woken"]
    /\ UNCHANGED <<fresh, accept_errors, fd_queue, client_fd, closed>>

HandleClient(w) == Dequeue(w) \/ SignalAfterClient(w)

QueueNext ==
    \/ \E c \in Conns : Accept(c)
    \/ AcceptError
    \/ \E w \in Workers : \/ HandleClient(w) \/ Disconnect(w)
                          \/ SpinOnBadFd(w) \/ SpuriousQueueWakeup(w)

QueueSpec == InitQueue /\ [][QueueNext]_queueVars
-----------------------------------------------------------------------------
\* The variables have their types, and a worker has a descriptor iff it serves.
QueueTypeOK ==
    /\ fresh \in SUBSET Conns /\ closed \in SUBSET Conns
    /\ accept_errors \in 0 .. MaxAcceptErrors
    /\ fd_queue \in Seq(Conns \union {BadFd})
    /\ worker \in [Workers -> WorkerState]
    /\ client_fd \in [Workers -> Conns \union {BadFd, NoFd}]
    /\ \A w \in Workers : worker[w] = "serving" <=> client_fd[w] # NoFd

\* The places where the descriptor of connection c is.
Places(c) == {<<"queue", i>> : i \in {j \in DOMAIN fd_queue : fd_queue[j] = c}}
      \union {<<"worker", w>> : w \in {u \in Workers : client_fd[u] = c}}

\* Between accept and close a connection is in the queue or with one worker,
\* once: no two workers read the same socket and none is forgotten (43-52).
EachConnectionOncePlaced ==
    \A c \in Conns : Cardinality(Places(c)) =
                        IF c \in fresh \union closed THEN 0 ELSE 1

\* No lost wakeup: while some worker is parked, every queued connection has a
\* signalled worker on its way, even though an idle worker may take what the
\* signalled one was woken for, and line 233 signals outside the mutex.
WokenCoverQueue ==
    WorkersIn("parked") # {} =>
        Len(fd_queue) <= Cardinality(WorkersIn("woken"))
=============================================================================
