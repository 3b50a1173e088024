------------------------------ MODULE KVSession -----------------------------
(***************************************************************************)
(* kv-server/server.c, which serves one connection at a time, and its      *)
(* clients (kv-server/client.c).  Its one thread runs the commands of      *)
(* KVHandler without a lock.                                               *)
(***************************************************************************)
EXTENDS Naturals, Sequences

CONSTANTS Conns, Keys, MaxCommands, NoClient

ASSUME SessionAssumption == NoClient \notin Conns

VARIABLES backlog,    \* connections that the kernel has and accept has not
          client_fd,  \* the connection that is served
          list, tailLost, pc, payload, position,            \* KVHandler
          client, request, up, down, fate, typed, alive     \* KVStream

Server == "server"

\* What the values are makes no difference to any place or message.
Bytes == "bytes"

Client  == INSTANCE KVClient
Handler == INSTANCE KVHandler WITH Threads <- {Server}, conn <- [t \in {Server} |-> client_fd],
                                   available <- 1, at <- [t \in {Server} |-> "outside"],
                                   Values <- {Bytes}, Uninit <- Bytes, Damaged <- Bytes

sessionVars == <<backlog, client_fd>>
handlerVars == <<list, tailLost, pc, payload, position>>
streamVars  == <<client, request, up, down, fate, typed>>
vars == <<sessionVars, handlerVars, streamVars, alive>>

InitSession ==
    /\ backlog = <<>> /\ client_fd = NoClient
    /\ Handler!InitHandler /\ Client!InitClients
    /\ alive = TRUE

\* lines 62-77; nobody else is there when accept is called (67-73 never runs).
Accept ==
    /\ client_fd = NoClient /\ backlog # <<>>
    /\ client_fd' = Head(backlog) /\ backlog' = Tail(backlog)
    /\ UNCHANGED <<handlerVars, streamVars, alive>>

\* lines 82-96, 137, 169, 199
ReceiveCommand ==
    /\ \E p \in Handler!ListCommands : /\ Handler!Arrives(Server, p)
                                      /\ payload' = [payload EXCEPT ![Server] = p]
    /\ Handler!Goto(Server, "recv", "search")
    /\ UNCHANGED <<sessionVars, down, alive>>

\* lines 97-227, 239-244
Command ==
    /\ \/ Handler!Create(Server) \/ Handler!Read(Server) \/ Handler!Delete(Server)
       \/ Handler!Update(Server) \/ Handler!ReceiveValue(Server) \/ Handler!Invalid(Server)
    /\ UNCHANGED sessionVars

\* Variants named X_... are X with a slip; each breaks a property.
EndCommand_NoReply ==
    /\ Handler!Leave(Server)
    /\ UNCHANGED <<sessionVars, down, alive>>

\* The end of each case, and "Key not found" (152-156, 196-197, 212-216)
EndCommand ==
    /\ Handler!Leave(Server) /\ Handler!Missed(Server)
    /\ UNCHANGED sessionVars

Disconnect_ServeOn ==
    /\ Handler!Disconnected(Server)
    /\ UNCHANGED sessionVars

\* lines 230-238, 80-81
Disconnect ==
    /\ Handler!Disconnected(Server)
    /\ client_fd' = IF alive' THEN NoClient ELSE client_fd
    /\ UNCHANGED backlog

Serve == alive /\ (Accept \/ ReceiveCommand \/ Command \/ EndCommand \/ Disconnect)

LoopInUpdate == pc[Server] = "loop" /\ UNCHANGED vars

\* client.c:24-48: connect succeeds as soon as the kernel has the connection.
Connect(c) == Client!ConnectSilently(c) /\ backlog' = Append(backlog, c)

\* What the clients do when the server is dead is left out.
ClientStep(c) ==
    /\ alive
    /\ \/ Connect(c)
       \/ Client!GoesOn(c) /\ UNCHANGED backlog
    /\ UNCHANGED <<client_fd, handlerVars, alive>>

UserMay(c) ==
    /\ alive
    /\ Client!TypeCommand(c) \/ Client!Kill(c)
    /\ UNCHANGED <<sessionVars, handlerVars, alive>>

NextSession == \/ Serve \/ LoopInUpdate
               \/ \E c \in Conns : ClientStep(c) \/ UserMay(c)

SessionSpec == InitSession /\ [][NextSession]_vars

\* The server runs, and every user goes on until the disconnect.
FairSessionSpec == SessionSpec /\ WF_vars(Serve) /\ \A c \in Conns : WF_vars(ClientStep(c))
-----------------------------------------------------------------------------
\* The variables have their types.
SessionOK ==
    /\ Handler!HandlerTypeOK /\ Client!ClientTypeOK
    /\ client_fd \in Conns \union {NoClient}

\* However the streams are cut, the server and the client that it serves are in step
\* (see InStepAt of KVStream), and for any other client there is nothing but the answer
\* to its disconnect.
RepliesMatch ==
    \A c \in Conns :
        IF client_fd = c THEN Client!InStepAt(c, pc[Server])
        ELSE down[c] # <<>> => /\ down[c] = <<"disconnected">>
                               /\ request[c] = Client!Ask("disconnect")

\* SIGPIPE ends the server only for a client that is lost (see Lost of KVStream), and
\* while it serves that client.
DiesOfLostClient == ~alive => client_fd \in Conns /\ Client!Lost(client_fd)

\* Every command is answered, unless the client is stuck, the server loops or has died,
\* or the client that it serves is stuck, astray, or gone without its disconnect.
Answered ==
    \A c \in Conns : Client!Waits(c) ~>
        \/ ~Client!Waits(c) \/ Client!Stuck(c)
        \/ pc[Server] = "loop" \/ ~alive
        \/ \E d \in Conns : /\ client_fd = d
                            /\ Client!Stuck(d) \/ Client!Astray(d) \/ Client!AtEnd(d)
=============================================================================
