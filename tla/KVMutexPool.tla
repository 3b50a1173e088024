----------------------------- MODULE KVMutexPool ----------------------------
(***************************************************************************)
(* kv-server-pool/server.c with its clients: FdQueue hands connections to  *)
(* the workers, which serve the clients of KVClient with KVHandler.        *)
(***************************************************************************)
EXTENDS Naturals, Sequences, FiniteSets

CONSTANTS Workers, Conns, BadFd, NoFd, MaxAcceptErrors, Keys, MaxCommands

ASSUME MutexPoolAssumption ==
    /\ IsFiniteSet(Workers)
    /\ BadFd \notin Conns /\ NoFd \notin Conns \union {BadFd}
    /\ MaxAcceptErrors \in Nat

VARIABLES fresh, accept_errors, fd_queue, worker, client_fd, closed,  \* FdQueue
          list, tailLost, available, at, pc, payload, position,       \* KVHandler
          client, request, up, down, fate, typed, alive               \* KVStream

\* What the values are makes no difference to any place or message.
Bytes == "bytes"

Queue   == INSTANCE FdQueue
Client  == INSTANCE KVClient
Handler == INSTANCE KVHandler WITH Threads <- Workers, conn <- client_fd,
                                   Values <- {Bytes}, Uninit <- Bytes, Damaged <- Bytes

queueVars   == <<fresh, accept_errors, fd_queue, worker, client_fd, closed>>
handlerVars == <<list, tailLost, available, at, pc, payload, position>>
streamVars  == <<client, request, up, down, fate, typed>>
vars == <<queueVars, handlerVars, streamVars, alive>>

Init == /\ Queue!InitQueue /\ Handler!InitHandler /\ Client!InitClients
        /\ alive = TRUE

\* lines 72-77
Connected(w) ==
    /\ worker[w] = "serving" /\ Handler!Connected(w)
    /\ UNCHANGED queueVars

\* lines 243-252, 61
Disconnect(w) ==
    /\ worker[w] = "serving" /\ Handler!Disconnected(w)
    /\ Queue!Disconnect(w)

\* lines 78-242, 253-258
Command(w) ==
    /\ worker[w] = "serving" /\ Handler!Command(w)
    /\ UNCHANGED queueVars

LoopInUpdate(w) == pc[w] = "loop" /\ UNCHANGED vars

Serve(w) == alive /\ (Connected(w) \/ Disconnect(w) \/ Command(w))

\* main (310-323), which can accept only who has connected, and lines 46-56 and
\* 261 of handle_client
Dispatch ==
    /\ alive
    /\ \/ \E c \in Conns : client[c] # "start" /\ Queue!Accept(c)
       \/ Queue!AcceptError
       \/ \E w \in Workers : \/ Queue!HandleClient(w)
                             \/ Queue!SpinOnBadFd(w) \/ Queue!SpuriousQueueWakeup(w)
    /\ UNCHANGED <<handlerVars, streamVars, alive>>

\* What the clients do when the server is dead is left out.
Clients ==
    /\ alive
    /\ \E c \in Conns : \/ Client!Connect(c) \/ Client!TypeCommand(c)
                        \/ Client!GoesOn(c) \/ Client!Kill(c)
    /\ UNCHANGED <<queueVars, handlerVars, alive>>

Next == \/ Dispatch \/ Clients
        \/ \E w \in Workers : Serve(w) \/ LoopInUpdate(w)

Spec == Init /\ [][Next]_vars

AcceptSome == Dispatch /\ fresh' # fresh
HandleClient(w) == Dispatch /\ Queue!HandleClient(w)
ClientMoves(c) == Clients /\ Client!GoesOn(c)

\* The threads run, connections that wait are accepted, and every user goes on
\* until the disconnect.  The mutex itself need not be fair: commands are bounded.
FairSpec ==
    /\ Spec
    /\ WF_vars(AcceptSome)
    /\ \A w \in Workers : WF_vars(HandleClient(w)) /\ WF_vars(Serve(w))
    /\ \A c \in Conns : WF_vars(ClientMoves(c))
-----------------------------------------------------------------------------
TypeOK == Queue!QueueTypeOK /\ Handler!HandlerTypeOK /\ Client!ClientTypeOK

\* The mutex alone guards the list and the flag always agrees with it, on every
\* way out of every command (100-102, 124-126, 147-149, 161-163, 196-198,
\* 220-222, 237-239): no thread ever waits on cond.
CondNeverWaited == Handler!Lock!CondNeverWaited

\* However the streams are cut, a client and its worker are in step (see InStepAt of
\* KVStream) until bytes of a value or of a command are taken for a whole command.
InStep ==
    \A w \in Workers, c \in Conns :
        worker[w] = "serving" /\ client_fd[w] = c => Client!InStepAt(c, pc[w])

\* SIGPIPE ends the server only for a client that is lost (see Lost of KVStream): one
\* that comes to its disconnect in the right way cannot do so.
DiesOfLostClient == ~alive => \E c \in Conns : Client!Lost(c)

\* Worker w is lost to the other clients: accept had failed, or its client is stuck.
Occupied(w) == \/ worker[w] = "serving" /\ client_fd[w] = BadFd
               \/ \E c \in Conns : client_fd[w] = c /\ Client!Stuck(c)

\* Whoever has connected, queued or not, gets all its answers and comes to its
\* disconnect, or is killed or stuck, while one worker is not occupied; unless an
\* UPDATE loops with the mutex, SIGPIPE ends the server, or a conversation goes
\* astray, whose worker may wait for a value with the mutex.
ServedUnlessLooping ==
    \A c \in Conns : client[c] # "start" ~>
        \/ c \in closed \/ client[c] = "killed" \/ Client!Stuck(c)
        \/ \E w \in Workers : pc[w] = "loop"
        \/ \A w \in Workers : Occupied(w)
        \/ ~alive
        \/ \E d \in Conns : Client!Astray(d)
=============================================================================
