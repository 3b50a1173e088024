------------------------------ MODULE KVPoolRW ------------------------------
(***************************************************************************)
(* kv-server-pool-rwlock/server.c: the workers of FdQueue serve the        *)
(* connections they dequeue and run each command on KVStore between the    *)
(* calls of RWLock.  While a worker has the lock for writing nothing else  *)
(* touches the list, so a search with the change that follows it is one    *)
(* step; the recv of a value, which blocks under the lock for as long as   *)
(* the client likes, and the sends of READ are steps of their own.         *)
(* A client may send any command at any time, so that what becomes of its  *)
(* stream (a value in pieces, a command cut short, a recv that fails) is   *)
(* one command or value among those; that a lost client can end the server *)
(* only cuts its behaviours short (see README and KVStream).               *)
(***************************************************************************)
EXTENDS KVStore

CONSTANTS Workers, Conns, BadFd, NoFd, MaxAcceptErrors, Absent

ASSUME PoolAssumption ==
    /\ IsFiniteSet(Workers)
    /\ BadFd \notin Conns /\ NoFd \notin Conns \union {BadFd}
    /\ MaxAcceptErrors \in Nat

VARIABLES fresh, accept_errors, fd_queue, worker, client_fd, closed,  \* FdQueue
          reader_count, writer_writing, at,                           \* RWLock
          pc,           \* where a serving worker is in the switch
          payload,      \* the command it received
          current,      \* the node it works on
          stored,       \* history: the map that the replies promise
          tailDeleted   \* history: a DELETE hit the last of several nodes

Queue == INSTANCE FdQueue
Lock  == INSTANCE RWLock WITH Threads <- Workers

queueVars == <<fresh, accept_errors, fd_queue, worker, client_fd, closed>>
lockVars  == <<reader_count, writer_writing, at>>
history   == <<stored, tailDeleted>>
vars == <<storeVars, queueVars, lockVars, pc, payload, current, history>>

Commands == [cmd_type : {"create", "read", "update", "delete"}, key : Keys]

Location == {"recv", "lock", "search", "recv_value", "send_value", "unlock", "loop"}

Init ==
    /\ Queue!InitQueue /\ Lock!InitalizeReadWriteLock /\ InitStore
    /\ pc = [w \in Workers |-> "recv"]
    /\ payload = [w \in Workers |-> NULL]
    /\ current = [w \in Workers |-> NULL]
    /\ stored = [k \in Keys |-> Absent]
    /\ tailDeleted = FALSE

\* Worker w goes from one place in the switch to another.
Goto(w, from, to) == pc[w] = from /\ pc' = [pc EXCEPT ![w] = to]

Key(w) == payload[w].key
Is(w, type) == payload[w].cmd_type = type

\* Bound: a CREATE comes only while the heap has two cells for it and for every
\* other CREATE under way, since malloc does not fail here.
HeapHasRoom ==
    LET creating == {w \in Workers : pc[w] \in {"lock", "search"} /\ Is(w, "create")}
    IN  Cardinality({c \in Cells : IsFree(c)}) >= 2 * (Cardinality(creating) + 1)

\* recv of the next command (60); connect and unknown commands change nothing.
Receive(w) ==
    /\ worker[w] = "serving" /\ client_fd[w] # BadFd
    /\ Goto(w, "recv", "lock")
    /\ \E p \in Commands : /\ p.cmd_type = "create" => HeapHasRoom
                           /\ payload' = [payload EXCEPT ![w] = p]
    /\ UNCHANGED <<storeVars, queueVars, lockVars, current, history>>

AcquireLock(w) ==
    /\ pc[w] = "lock"
    /\ IF Is(w, "read") THEN Lock!ReaderLock(w) ELSE Lock!WriterLock(w)
    /\ pc' = [pc EXCEPT ![w] = IF at'[w] \in {"reading", "writing"}
                               THEN "search" ELSE "lock"]
    /\ UNCHANGED <<storeVars, queueVars, payload, current, history>>

Create(w) ==
    /\ Is(w, "create")
    /\ \/ /\ Found(Key(w)) # {}
          /\ Goto(w, "search", "unlock")
          /\ UNCHANGED <<storeVars, current, history>>
       \/ /\ Found(Key(w)) = {}
          /\ Goto(w, "search", "recv_value")
          /\ \E n, b \in Cells : /\ CreateNode(Key(w), n, b)
                                 /\ current' = [current EXCEPT ![w] = n]
          /\ stored' = [stored EXCEPT ![Key(w)] = Uninit]
          /\ UNCHANGED tailDeleted
    /\ UNCHANGED <<queueVars, lockVars, payload>>

Read(w) ==
    /\ Is(w, "read")
    /\ \/ /\ Found(Key(w)) = {}
          /\ Goto(w, "search", "unlock")
          /\ UNCHANGED current
       \/ \E c \in Found(Key(w)) :
          /\ Goto(w, "search", "send_value")
          /\ current' = [current EXCEPT ![w] = c]
    /\ UNCHANGED <<storeVars, queueVars, lockVars, payload, history>>

Delete(w) ==
    /\ Is(w, "delete")
    /\ Goto(w, "search", "unlock")
    /\ \/ /\ Found(Key(w)) = {}
          /\ UNCHANGED <<storeVars, history>>
       \/ \E c \in Found(Key(w)) :
          /\ DeleteNode(c)
          /\ stored' = [stored EXCEPT ![Key(w)] = Absent]
          /\ tailDeleted' = (tailDeleted \/ (c # kv_node_head /\ heap[c].next = NULL))
    /\ UNCHANGED <<queueVars, lockVars, payload, current>>

\* The search loop of UPDATE (186-193) does not advance: it ends at once if the
\* list is empty or the key is in its first node, and never otherwise.
Update(w) ==
    /\ Is(w, "update")
    /\ \/ /\ kv_node_head = NULL
          /\ Goto(w, "search", "unlock")
          /\ UNCHANGED <<storeVars, current, history>>
       \/ /\ kv_node_head # NULL /\ heap[kv_node_head].key = Key(w)
          /\ Goto(w, "search", "recv_value")
          /\ \E b \in Cells : ReplaceBuffer(kv_node_head, b)
          /\ current' = [current EXCEPT ![w] = kv_node_head]
          /\ stored' = [stored EXCEPT ![Key(w)] = Uninit]
          /\ UNCHANGED tailDeleted
       \/ /\ kv_node_head # NULL /\ heap[kv_node_head].key # Key(w)
          /\ Goto(w, "search", "loop")
          /\ UNCHANGED <<storeVars, current, history>>
    /\ UNCHANGED <<queueVars, lockVars, payload>>

LoopInUpdate(w) == pc[w] = "loop" /\ UNCHANGED vars

\* recv of the value of a CREATE or UPDATE (109, 206): v is what it took, which may be
\* the first part of what the client has sent or nothing; the buffer goes on as it was.
ReceiveValue(w) ==
    /\ Goto(w, "recv_value", "unlock")
    /\ \E v \in Values, more \in Endings : /\ StoreValue(current[w], v, more)
                                          /\ stored' = [stored EXCEPT ![Key(w)] = v]
    /\ UNCHANGED <<queueVars, lockVars, payload, current, tailDeleted>>

\* READ sends strlen(current->value) and as many bytes (139-144): ValueOf(current[w])
\* and what follows it.
SendValue(w) ==
    /\ Goto(w, "send_value", "unlock")
    /\ UNCHANGED <<storeVars, queueVars, lockVars, payload, current, history>>

ReleaseLock(w) ==
    /\ Goto(w, "unlock", "recv")
    /\ IF Is(w, "read") THEN Lock!ReaderUnlock(w) ELSE Lock!WriterUnlock(w)
    /\ payload' = [payload EXCEPT ![w] = NULL]
    /\ current' = [current EXCEPT ![w] = NULL]
    /\ UNCHANGED <<storeVars, queueVars, history>>

LockWakeup(w) ==
    /\ Lock!SpuriousWakeup(w)
    /\ UNCHANGED <<storeVars, queueVars, pc, payload, current, history>>

Command(w) == \/ AcquireLock(w)
              \/ pc[w] = "search" /\ (Create(w) \/ Read(w) \/ Delete(w) \/ Update(w))
              \/ SendValue(w) \/ ReleaseLock(w)

\* main, and what handle_client does between two commands
Dispatch ==
    /\ \/ \E c \in Conns : Queue!Accept(c)
       \/ Queue!AcceptError
       \/ \E w \in Workers :
            \/ Queue!HandleClient(w) \/ Queue!SpuriousQueueWakeup(w)
            \/ pc[w] = "recv" /\ Queue!Disconnect(w)
            \/ Queue!SpinOnBadFd(w)
    /\ UNCHANGED <<storeVars, lockVars, pc, payload, current, history>>

Next == \/ Dispatch
        \/ \E w \in Workers : \/ Receive(w) \/ Command(w) \/ ReceiveValue(w)
                              \/ LockWakeup(w) \/ LoopInUpdate(w)

Spec == Init /\ [][Next]_vars
-----------------------------------------------------------------------------
\* The variables have their types.
TypeOK ==
    /\ StoreTypeOK
    /\ pc \in [Workers -> Location]
    /\ payload \in [Workers -> Commands \union {NULL}]
    /\ current \in [Workers -> Cells \union {NULL}]
    /\ stored \in [Keys -> Values \union {Uninit, Absent}]

Contents == [k \in Keys |-> IF Found(k) = {} THEN Absent
                            ELSE ValueOf(CHOOSE c \in Found(k) : TRUE)]

\* A node that a worker holds between its search and its unlock lives until then:
\* for READ it stays the listed node of its key, so the strlen and the sends
\* (139-144) start in no freed memory and at no value that is still on its way; for
\* CREATE and UPDATE the recv (109, 206) has a buffer to write to.
HeldNodeLives ==
    \A w \in Workers :
        /\ pc[w] = "send_value" => /\ current[w] \in Found(Key(w))
                                  /\ ValueOf(current[w]) # Uninit
        /\ pc[w] = "recv_value" => /\ IsNode(current[w]) /\ heap[current[w]].key = Key(w)
                                  /\ IsBuffer(heap[current[w]].value)

\* Until a DELETE removes the last of several nodes, the list holds exactly the keys
\* that the replies promise to all clients together, and what a READ finds for a key
\* begins with the value stored last.  Afterwards no READ finds a deleted key, and what
\* it finds begins with the promised value or was damaged.  (Where it ends is another
\* matter, see ReadEndsWithValue.)
ContentsAsAnswered ==
    /\ ~tailDeleted => Contents = stored
    /\ \A k \in Keys : Contents[k] \in {stored[k], Absent, Damaged}

\* "keys stored by one client should be available to another" (kvserver.pdf:38):
\* what was answered "Key-value pair created" (97) and not deleted can be read.
CreatedIsReadable == \A k \in Keys : stored[k] # Absent => Found(k) # {}

\* "read <key> must display the value corresponding to the key" (kvserver.pdf, page 2):
\* what READ sends ends where the stored value ends (140-144).
ReadEndsWithValue ==
    \A w \in Workers : pc[w] = "send_value" => ~heap[heap[current[w]].value].more
=============================================================================
