------------------------------ MODULE KVClient ------------------------------
(***************************************************************************)
(* The clients of the KV servers, at their end of the streams of KVStream. *)
(* Lines are those of kv-server-pool/client.c, which is the client of      *)
(* kv-server-pool-rwlock too; those of kv-server and kv-server-thread      *)
(* differ in that they send nothing when they connect.                     *)
(*                                                                         *)
(* A user types connect, some commands and disconnect, and may kill the    *)
(* client at any time.  What is typed while the client is not connected    *)
(* changes nothing and is left out (58-61, 86-89, ...).                    *)
(***************************************************************************)
EXTENDS KVStream

InitClients ==
    /\ client = [c \in Conns |-> "start"]
    /\ request = [c \in Conns |-> NoCommand]
    /\ typed = 0
    /\ up = [c \in Conns |-> <<>>] /\ down = [c \in Conns |-> <<>>]
    /\ fate = [c \in Conns |-> "none"]

\* Client c sends command p and waits for the reply.
SendPayload(c, p) ==
    /\ request' = [request EXCEPT ![c] = p]
    /\ client' = [client EXCEPT ![c] = "reply"]
    /\ up' = [up EXCEPT ![c] = Append(@, p)]
    /\ UNCHANGED <<down, fate>>

\* lines 21-47: the kernel completes the connection, accepted or not.
Connect(c) ==
    /\ client[c] = "start"
    /\ SendPayload(c, Ask("connect"))
    /\ UNCHANGED typed

\* The same in kv-server/client.c and kv-server-thread/client.c (24-48)
ConnectSilently(c) ==
    /\ client[c] = "start"
    /\ client' = [client EXCEPT ![c] = "idle"]
    /\ UNCHANGED <<request, typed, up, down, fate>>

\* lines 78-95, 117-130, 159-175, 196-209
TypeCommand(c) ==
    /\ client[c] = "idle" /\ typed < MaxCommands
    /\ typed' = typed + 1
    /\ \E p \in ListCommands : SendPayload(c, p)

\* lines 54-66
TypeDisconnect(c) ==
    /\ client[c] = "idle"
    /\ SendPayload(c, Ask("disconnect"))
    /\ UNCHANGED typed

\* One recv of client c takes the next n sends of the server.
Takes(c, n) == /\ n \in 1 .. Len(down[c])
               /\ down' = [down EXCEPT ![c] = SubSeq(@, n + 1, Len(@))]

\* The command of client c is over, whose fate no longer matters.
Done(c) ==
    LET leaves == request[c].cmd_type = "disconnect"
    IN  /\ client' = [client EXCEPT ![c] = IF leaves THEN "gone" ELSE "idle"]
        /\ request' = [request EXCEPT ![c] = NoCommand]
        /\ fate' = [fate EXCEPT ![c] = IF leaves THEN @ ELSE "none"]
        /\ UNCHANGED typed

\* CREATE and UPDATE send the value only after the right answer (98-114, 177-193).
WantsValue(p, m) == \/ p.cmd_type = "create" /\ m = "created"
                    \/ p.cmd_type = "update" /\ m = "updated"

\* lines 96-114, 176-193
TakeValueWanted(c) ==
    /\ client[c] = "reply" /\ down[c] # <<>> /\ WantsValue(request[c], Head(down[c]))
    /\ Takes(c, 1)
    /\ Done(c)
    /\ UNCHANGED up \/ up' = [up EXCEPT ![c] = Append(@, ValueBytes)]

\* lines 131-142: "OK" compares equal whatever comes with it, for the payload behind it
\* begins with a zero.  A value of more than 241 bytes may be taken in part.
TakeOK(c) ==
    /\ client[c] = "reply" /\ down[c] # <<>> /\ Head(down[c]) = "ok"
    /\ request[c].cmd_type = "read"
    /\ \E n \in 1 .. Len(down[c]) :
         /\ \/ Takes(c, n)
            \/ n = 3 /\ Takes(c, 2)
         /\ fate' = [fate EXCEPT ![c] = IF n = 1 THEN @ ELSE "merged"]
    /\ client' = [client EXCEPT ![c] = "payload"]
    /\ UNCHANGED <<request, typed, up>>

\* lines 143-150, 156: the recv of an empty value returns at once.  A value that is
\* taken for the payload gives the length 0 if it has 8 bytes or fewer, and nonsense
\* otherwise: the rest of it is then taken for the value, if there is any.
TakePayload(c) ==
    /\ client[c] = "payload" /\ Takes(c, 1)
    /\ \/ Head(down[c]) \in {"empty", "value"} /\ Done(c)
       \/ /\ Head(down[c]) \in {"length", "value"}
          /\ client' = [client EXCEPT ![c] = "value"]
          /\ UNCHANGED <<request, typed, fate>>
    /\ UNCHANGED up

\* lines 150-157
TakeValueRead(c) ==
    /\ client[c] = "value" /\ Takes(c, 1)
    /\ Done(c)
    /\ UNCHANGED up

\* lines 49-53, 67-77, 98-108, 132-142, 178-187, 211-217: any other answer ends the
\* command, and DISCONNECT closes the socket.
TakeReply(c) ==
    /\ client[c] = "reply" /\ down[c] # <<>>
    /\ ~WantsValue(request[c], Head(down[c]))
    /\ ~(request[c].cmd_type = "read" /\ Head(down[c]) = "ok")
    /\ Takes(c, 1)
    /\ Done(c)
    /\ UNCHANGED up

Receive(c) == \/ TakeValueWanted(c) \/ TakeOK(c) \/ TakePayload(c)
              \/ TakeValueRead(c) \/ TakeReply(c)

\* What is under way to it is lost then.
Kill(c) ==
    /\ client[c] \notin {"start", "gone", "killed", "astray"}
    /\ client' = [client EXCEPT ![c] = "killed"]
    /\ request' = [request EXCEPT ![c] = NoCommand]
    /\ fate' = [fate EXCEPT ![c] = "none"]
    /\ down' = [down EXCEPT ![c] = <<>>]
    /\ UNCHANGED <<typed, up>>

GoesOn(c) == TypeDisconnect(c) \/ Receive(c)
-----------------------------------------------------------------------------
ClientTypeOK ==
    /\ client \in [Conns -> {"start", "idle", "reply", "payload", "value",
                            "gone", "killed", "astray"}]
    /\ request \in [Conns -> Commands \union {NoCommand}]
    /\ fate \in [Conns -> Fates]
    /\ typed \in 0 .. MaxCommands
=============================================================================
