------------------------------ MODULE KVStream ------------------------------
(***************************************************************************)
(* The connections of the KV servers as byte streams.  Nothing marks where *)
(* a message ends: a recv takes what is there, up to its length.  So the   *)
(* server's recv of a value, which asks for value_size + 1 bytes while the *)
(* client sends strlen(value), takes the first bytes of the next command   *)
(* as well if they have come; and one recv of the client may take several  *)
(* sends of the server (KVClient).                                         *)
(*                                                                         *)
(* A stream is told apart as far as the two ends do.  To the server go     *)
(* commands, values and what is left of a command; to the client go the    *)
(* server's sends, by name.  Lengths and bytes are chosen when they begin  *)
(* to matter.  What one send writes arrives together.                      *)
(*                                                                         *)
(* Lines are those of kv-server-pool/server.c.                             *)
(***************************************************************************)
EXTENDS Naturals, Sequences

CONSTANTS Conns,         \* a client has the name of its connection
          Keys,
          MaxCommands    \* bound on the commands of all clients together

VARIABLES client,    \* where each client is
          request,   \* the command that it waits for the end of
          up, down,  \* under way to the server, and to the client
          fate,      \* what became of the messages of that command, see below
          typed,     \* commands typed so far, and commands taken from stray bytes
          alive      \* the server has not been killed by SIGPIPE

Ask(type) == [cmd_type |-> type]
ListCommands == [cmd_type : {"create", "read", "update", "delete"}, key : Keys]
Commands == ListCommands \union {Ask("connect"), Ask("disconnect")}
NoCommand == Ask("none")
ValueBytes == Ask("value")   \* a value of one byte or more; an empty one adds nothing
Rest == Ask("rest")          \* a command without its first one to three bytes

\* Of the command that the client waits for
\*   cut     the server took its first bytes for the end of a value
\*   eaten   or the whole of it
\*   merged  the client took several sends of the server with one recv
Fates == {"none", "cut", "eaten", "merged"}

\* A conversation has gone astray when bytes were taken for a command that are not the
\* begin of one, or several threads read from the connection.  From then on the server
\* may take anything from it, and the client, which it may hear no more, is not followed.
Astray(c) == client[c] = "astray"
Ended(c)  == client[c] \in {"gone", "killed"}
AtEnd(c)  == Ended(c) /\ up[c] = <<>>

\* The conversations in C go astray.
GoAstray(C) ==
    /\ client' = [c \in Conns |-> IF c \in C THEN "astray" ELSE client[c]]
    /\ request' = [c \in Conns |-> IF c \in C THEN NoCommand ELSE request[c]]
    /\ up' = [c \in Conns |-> IF c \in C THEN <<>> ELSE up[c]]
    /\ down' = [c \in Conns |-> IF c \in C THEN <<>> ELSE down[c]]
    /\ fate' = [c \in Conns |-> IF c \in C THEN "none" ELSE fate[c]]

\* The server sends.  Once the client has ended, that is lost or raises SIGPIPE.
Sends(c, replies) ==
    \/ /\ ~(Ended(c) \/ Astray(c))
       /\ down' = [down EXCEPT ![c] = @ \o replies]
       /\ UNCHANGED alive
    \/ (Ended(c) \/ Astray(c)) /\ alive' \in BOOLEAN /\ UNCHANGED down

\* recv takes command p (62-68).
TakeCommand(c, p) ==
    /\ \/ /\ Astray(c)
          /\ \/ p \in ListCommands /\ typed < MaxCommands /\ typed' = typed + 1
             \/ p \notin ListCommands /\ UNCHANGED typed
          /\ UNCHANGED up
       \/ /\ up[c] # <<>> /\ Head(up[c]) = p
          /\ up' = [up EXCEPT ![c] = Tail(@)]
          /\ UNCHANGED typed
    /\ UNCHANGED <<client, request, fate>>

\* recv takes no command (253-257): what is left of one has a cmd_type of 0 or of at
\* least 2^8, and a recv that fails or returns 0 leaves the zeroes of bzero.
TakeInvalid(c) ==
    /\ \/ (Astray(c) \/ AtEnd(c)) /\ UNCHANGED up
       \/ up[c] # <<>> /\ Head(up[c]) = Rest /\ up' = [up EXCEPT ![c] = Tail(@)]
    /\ UNCHANGED <<client, request, fate, typed>>

\* Variants named X_... are X with a slip; each breaks a property.
TakeValue_Exactly(c) ==
    /\ up[c] # <<>> /\ up' = [up EXCEPT ![c] = Tail(@)]
    /\ UNCHANGED <<client, request, down, fate>>

\* recv of a value (119, 232).  It has room for one byte more than value_size, so that
\* it takes one byte of the next command at least, if that is there, and up to twelve
\* if the value is shorter than was said; an empty one was said to be.
TakeValue(c) ==
    \/ (Astray(c) \/ AtEnd(c)) /\ UNCHANGED <<client, request, up, down, fate>>
    \/ /\ up[c] = <<ValueBytes>>
       /\ up' = [up EXCEPT ![c] = <<>>]
       /\ UNCHANGED <<client, request, down, fate>>
    \/ /\ up[c] # <<>> /\ up[c][Len(up[c])] \in Commands
       /\ \/ /\ up' = [up EXCEPT ![c] = <<Rest>>]
             /\ fate' = [fate EXCEPT ![c] = "cut"]
             /\ UNCHANGED <<client, request, down>>
          \/ /\ Head(up[c]) = ValueBytes
             /\ up' = [up EXCEPT ![c] = <<>>]
             /\ fate' = [fate EXCEPT ![c] = "eaten"]
             /\ UNCHANGED <<client, request, down>>
          \/ Head(up[c]) = ValueBytes /\ GoAstray({c})
-----------------------------------------------------------------------------
Waits(c) == client[c] \in {"reply", "payload", "value"}

\* Client c waits for what never comes.
Stuck(c) == Waits(c) /\ down[c] = <<>> /\ fate[c] \in {"merged", "eaten"}

\* For client c SIGPIPE may end the server: it has been killed, or its DISCONNECT was
\* taken for the end of a value and refused; or the conversation has gone astray.
Lost(c) == client[c] \in {"killed", "astray"} \/ (client[c] = "gone" /\ fate[c] = "cut")

\* Reply m is one that command p may get.
Answers(p, m) == \/ p.cmd_type = "create"     /\ m \in {"created", "exists"}
                 \/ p.cmd_type = "read"       /\ m \in {"ok", "not found"}
                 \/ p.cmd_type = "update"     /\ m \in {"updated", "not found"}
                 \/ p.cmd_type = "delete"     /\ m \in {"deleted", "not found"}
                 \/ p.cmd_type = "connect"    /\ m = "connected"
                 \/ p.cmd_type = "disconnect" /\ m = "disconnected"

\* Client c and the thread that serves it, at this place, are in step: when a command
\* is over nothing of it is left that could be taken for part of the next one; a reply
\* is one to the command that the client waits for, which is refused only if its first
\* bytes were taken for a value; a value is waited for only if the reply before asks
\* for it; and the two wait for each other only if the command was lost in that way,
\* or if the client took the length, or the value, with "OK".
InStepAt(c, place) ==
    client[c] \in {"killed", "astray"} \/
    /\ client[c] = "idle" => down[c] = <<>> /\ (place = "recv" => up[c] = <<>>)
    /\ client[c] = "reply" /\ down[c] # <<>> =>
         /\ \/ Answers(request[c], Head(down[c]))
            \/ fate[c] = "cut" /\ Head(down[c]) = "invalid"
         /\ place = "recv_value" => Head(down[c]) \in {"created", "updated"}
    /\ Waits(c) /\ down[c] = <<>> /\ place \in {"recv", "recv_value"} =>
         up[c] # <<>> \/ fate[c] \in {"merged", "eaten"}
=============================================================================
