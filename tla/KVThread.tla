------------------------------ MODULE KVThread ------------------------------
(***************************************************************************)
(* kv-server-thread/server.c with its clients: one thread per accepted     *)
(* connection.  main passes the address of its own client_fd, which the    *)
(* thread reads when it gets to run, and a thread never ends: after        *)
(* DISCONNECT it goes on reading from the closed descriptor, and accept    *)
(* hands out the lowest free number again.  A conversation in which        *)
(* another thread takes part goes astray (KVStream).                       *)
(*                                                                         *)
(* A thread has the name of the connection it was created for, or is in    *)
(* Failed if accept returned -1.                                           *)
(***************************************************************************)
EXTENDS Naturals, Sequences, FiniteSets

CONSTANTS Conns, Failed, NumFds, Keys, MaxCommands

Threads == Conns \union Failed
Fds     == 1 .. NumFds
Closed  == 0       \* what a free descriptor refers to
BadFd   == 0       \* -1 of the code

\* The threads have different names.
ASSUME ThreadAssumption ==
    NumFds \in Nat /\ Closed \notin Conns /\ Conns \intersect Failed = {}

VARIABLES slot,      \* client_fd of main
          table,     \* what each descriptor refers to
          life,      \* none, starting, running for each thread
          fd,        \* client_fd of each thread
          list, tailLost, available, at, pc, payload, position,    \* KVHandler
          client, request, up, down, fate, typed, alive            \* KVStream

serverVars  == <<slot, table, life, fd>>
handlerVars == <<list, tailLost, available, at, pc, payload, position>>
streamVars  == <<client, request, up, down, fate, typed>>
vars == <<serverVars, handlerVars, streamVars, alive>>

\* The connection that thread t reads from, Closed if it has none.
ConnOf(t) == IF fd[t] \in Fds THEN table[fd[t]] ELSE Closed

\* What the values are makes no difference to any place or message.
Bytes == "bytes"

Client  == INSTANCE KVClient
Handler == INSTANCE KVHandler WITH conn <- [t \in Threads |-> ConnOf(t)],
                                   Values <- {Bytes}, Uninit <- Bytes, Damaged <- Bytes

\* lines 278-281
Init ==
    /\ slot = BadFd
    /\ table = [f \in Fds |-> Closed]
    /\ life = [t \in Threads |-> "none"]
    /\ fd = [t \in Threads |-> BadFd]
    /\ alive = TRUE
    /\ Handler!InitHandler /\ Client!InitClients

LowestFree == CHOOSE f \in Fds : /\ table[f] = Closed
                                 /\ \A g \in 1 .. f - 1 : table[g] # Closed

\* pthread_create for thread t, whose argument is the address of slot
Start(t) ==
    /\ life[t] = "none" /\ alive
    /\ life' = [life EXCEPT ![t] = "starting"]
    /\ UNCHANGED <<fd, typed, alive, handlerVars>>

\* lines 281-288.  A thread that has had the descriptor reads from it again.
Accept(c) ==
    /\ c \in Conns /\ client[c] # "start"
    /\ \E f \in Fds : table[f] = Closed
    /\ slot' = LowestFree
    /\ table' = [table EXCEPT ![LowestFree] = c]
    /\ Client!GoAstray(IF \E t \in Threads : fd[t] = LowestFree THEN {c} ELSE {})
    /\ Start(c)

\* accept fails; a thread is created all the same.
AcceptFails(t) ==
    /\ t \in Failed
    /\ slot' = BadFd
    /\ UNCHANGED <<table, client, request, up, down, fate>>
    /\ Start(t)

\* The connections that thread t is not to serve alone when slot is its argument
Mistaken(t) ==
    {c \in Conns : /\ slot \in Fds /\ table[slot] = c
                   /\ t # c \/ \E u \in Threads : fd[u] = slot}

\* line 25
ReadArgument(t) ==
    /\ life[t] = "starting" /\ alive
    /\ life' = [life EXCEPT ![t] = "running"]
    /\ fd' = [fd EXCEPT ![t] = slot]
    /\ Client!GoAstray(Mistaken(t))
    /\ UNCHANGED <<slot, table, typed, alive, handlerVars>>

Runs(t) == life[t] = "running" /\ alive

\* lines 36-217, 226-231: the commands of KVHandler
Command(t) ==
    /\ Runs(t) /\ Handler!Command(t)
    /\ UNCHANGED serverVars

\* Variants named X_... are X with a slip; each breaks a property.
Disconnect_KeepOpen(t) ==
    /\ Runs(t) /\ Handler!Disconnected(t)
    /\ UNCHANGED serverVars

\* lines 218-225: the descriptor is closed, the thread stays.
Disconnect(t) ==
    /\ Runs(t) /\ Handler!Disconnected(t)
    /\ table' = [table EXCEPT ![fd[t]] = Closed]
    /\ UNCHANGED <<slot, life, fd>>

Detached(t) == ConnOf(t) = Closed

\* recv fails, the zeroed payload is an invalid command, and send fails (29-34,
\* 226-231), again and again.  An UPDATE that loops changes nothing either, and has
\* no action of its own.
Spin(t) ==
    /\ Runs(t) /\ pc[t] = "recv" /\ Detached(t)
    /\ UNCHANGED vars

HandleClient(t) == ReadArgument(t) \/ Command(t) \/ Disconnect(t)

\* client.c of this server greets nobody.  What the clients do when the server is
\* dead is left out.
Clients ==
    /\ alive
    /\ \E c \in Conns : \/ Client!ConnectSilently(c) \/ Client!TypeCommand(c)
                        \/ Client!GoesOn(c) \/ Client!Kill(c)
    /\ UNCHANGED <<serverVars, handlerVars, alive>>

Next == \/ \E c \in Conns : Accept(c)
        \/ \E t \in Failed : AcceptFails(t)
        \/ \E t \in Threads : HandleClient(t) \/ Spin(t)
        \/ Clients

Spec == Init /\ [][Next]_vars

ClientMoves(c) == Clients /\ Client!GoesOn(c)

\* The threads run, connections that wait are accepted, and every user goes on
\* until the disconnect.
FairSpec ==
    /\ Spec
    /\ \A c \in Conns : WF_vars(Accept(c)) /\ WF_vars(ClientMoves(c))
    /\ \A t \in Threads : WF_vars(HandleClient(t))
-----------------------------------------------------------------------------
TypeOK ==
    /\ Handler!HandlerTypeOK /\ Client!ClientTypeOK
    /\ slot \in Fds \union {BadFd}
    /\ table \in [Fds -> Conns \union {Closed}]
    /\ fd \in [Threads -> Fds \union {BadFd}]
    /\ \A c \in Conns : Cardinality({f \in Fds : table[f] = c}) <= 1

\* However the streams are cut, a client and its thread are in step (see InStepAt of
\* KVStream), and no other thread takes part, until its conversation goes astray.
InStep ==
    \A c \in Conns, t \in Threads :
        ConnOf(t) = c => Client!Astray(c) \/ (t = c /\ Client!InStepAt(c, pc[t]))

\* SIGPIPE ends the server only for a client that is lost (see Lost of KVStream), and
\* not for one that has disconnected, though its thread goes on reading and sending.
DiesOfLostClient == ~alive => \E c \in Conns : Client!Lost(c)

\* What a client has asked is answered, unless it is stuck, has been killed, or its
\* thread has no descriptor or another's; an UPDATE loops with the mutex, the server
\* has died, or a conversation went astray.
Answered ==
    \A c \in Conns : Client!Waits(c) ~>
        \/ ~Client!Waits(c) \/ Client!Stuck(c)
        \/ life[c] = "running" /\ ConnOf(c) # c
        \/ \E t \in Threads : pc[t] = "loop"
        \/ ~alive
        \/ \E d \in Conns : Client!Astray(d)

\* "it will pass the client's socket file descriptor (returned by accept) to this
\* new thread" (kvserver.pdf, page 3)
GotOwnDescriptor ==
    \A c \in Conns, f \in Fds :
        table[f] = c /\ life[c] = "running" => fd[c] = f
=============================================================================
