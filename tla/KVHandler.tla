------------------------------ MODULE KVHandler -----------------------------
(***************************************************************************)
(* The commands of handle_client in kv-server-pool/server.c, run by a      *)
(* thread on KVList between the calls of AvailLock, with what they take    *)
(* from the streams of KVStream and send.  The mutex is held from a        *)
(* command's search to its end, also while the thread waits for the        *)
(* client's value.  The handler of kv-server-thread/server.c is the same;  *)
(* the two servers differ in how a thread comes to a connection, conn,     *)
(* which this module only reads.                                           *)
(***************************************************************************)
EXTENDS KVList

CONSTANTS Threads, Conns, MaxCommands

VARIABLES client, request, up, down, fate, typed, alive   \* KVStream
VARIABLES conn,        \* the connection each thread has, if any
          available, at,   \* AvailLock
          pc,          \* where a serving thread is in the switch
          payload,     \* the command it works on
          position     \* the node it works on, 0 if none in the list

Lock == INSTANCE AvailLock
INSTANCE KVStream

heard    == <<client, request, up, fate, typed>>
lockVars == <<available, at>>
handlerVars == <<pc, payload, position>>

InitHandler ==
    /\ InitList /\ Lock!InitLock
    /\ pc = [t \in Threads |-> "recv"]
    /\ payload = [t \in Threads |-> NoCommand]
    /\ position = [t \in Threads |-> 0]

Goto(t, from, to) == pc[t] = from /\ pc' = [pc EXCEPT ![t] = to]
Is(t, type) == payload[t].cmd_type = type
Key(t) == payload[t].key

\* Thread t sends; on a closed descriptor nothing comes of it.
Send(t, replies) == IF conn[t] \in Conns THEN Sends(conn[t], replies)
                                         ELSE UNCHANGED <<down, alive>>

\* recv of command p by thread t (62-68)
Arrives(t, p) ==
    /\ pc[t] = "recv" /\ conn[t] \in Conns
    /\ TakeCommand(conn[t], p)
    /\ UNCHANGED <<listVars, lockVars, position>>

\* lines 72-77
Connected(t) ==
    /\ Arrives(t, Ask("connect"))
    /\ Send(t, <<"connected">>)
    /\ UNCHANGED <<pc, payload>>

\* lines 243-246; closing the descriptor is the server's.
Disconnected(t) ==
    /\ Arrives(t, Ask("disconnect"))
    /\ Send(t, <<"disconnected">>)
    /\ UNCHANGED <<pc, payload>>

\* lines 253-258
Invalid(t) ==
    /\ pc[t] = "recv" /\ conn[t] \in Conns
    /\ TakeInvalid(conn[t])
    /\ Send(t, <<"invalid">>)
    /\ UNCHANGED <<listVars, lockVars, handlerVars>>

\* lines 78-80, 129-131, 167-169, 203-205: the command needs the lock.
ReceiveCommand(t) ==
    /\ \E p \in ListCommands : /\ Arrives(t, p)
                              /\ payload' = [payload EXCEPT ![t] = p]
    /\ Goto(t, "recv", "lock")
    /\ UNCHANGED <<down, alive>>

AcquireLock(t) ==
    /\ pc[t] = "lock"
    /\ Lock!Acquire(t)
    /\ pc' = [pc EXCEPT ![t] = IF at'[t] = "inside" THEN "search" ELSE "lock"]
    /\ UNCHANGED <<listVars, heard, down, alive, payload, position>>

\* Variants named X_... are X with a slip; each breaks a property.
Create_NoBreak(t) ==
    /\ Is(t, "create")
    /\ Goto(t, "search", "recv_value")
    /\ \/ /\ Found(Key(t)) # {}
          /\ Send(t, <<"exists">>)
          /\ UNCHANGED <<listVars, position>>
       \/ /\ CreateNode(Key(t))
          /\ Send(t, <<"created">>)
          /\ position' = [position EXCEPT ![t] = IF tailLost' THEN 0 ELSE Len(list')]
    /\ UNCHANGED <<lockVars, heard, payload>>

\* lines 85-118
Create(t) ==
    /\ Is(t, "create")
    /\ \/ /\ Found(Key(t)) # {}
          /\ Send(t, <<"exists">>)
          /\ Goto(t, "search", "end")
          /\ UNCHANGED <<listVars, position>>
       \/ /\ CreateNode(Key(t))
          /\ Send(t, <<"created">>)
          /\ Goto(t, "search", "recv_value")
          /\ position' = [position EXCEPT ![t] = IF tailLost' THEN 0 ELSE Len(list')]
    /\ UNCHANGED <<lockVars, heard, payload>>

\* lines 134-160: three sends, or two and one of nothing; the list cannot change
\* between them.
Read(t) ==
    /\ Is(t, "read")
    /\ \/ /\ Found(Key(t)) # {}
          /\ Goto(t, "search", "end")
          /\ Send(t, <<"ok", "length", "value">>) \/ Send(t, <<"ok", "empty">>)
       \/ /\ Found(Key(t)) = {}
          /\ Goto(t, "search", "not_found")
          /\ UNCHANGED <<down, alive>>
    /\ UNCHANGED <<listVars, lockVars, heard, payload, position>>

\* lines 172-195
Delete(t) ==
    /\ Is(t, "delete")
    /\ \/ \E i \in Found(Key(t)) : DeleteNode(i) /\ Goto(t, "search", "end")
                                   /\ Send(t, <<"deleted">>)
       \/ /\ Found(Key(t)) = {}
          /\ Goto(t, "search", "not_found")
          /\ UNCHANGED <<listVars, down, alive>>
    /\ UNCHANGED <<lockVars, heard, payload, position>>

\* lines 208-231.  The search does not advance: it ends at once if the list is
\* empty or its first node has the key, and otherwise never.
Update(t) ==
    /\ Is(t, "update")
    /\ \/ /\ 1 \in Found(Key(t))
          /\ ReplaceBuffer(1)
          /\ position' = [position EXCEPT ![t] = 1]
          /\ Goto(t, "search", "recv_value")
          /\ Send(t, <<"updated">>)
       \/ /\ 1 \notin Found(Key(t))
          /\ Goto(t, "search", IF list = <<>> THEN "not_found" ELSE "loop")
          /\ UNCHANGED <<listVars, position, down, alive>>
    /\ UNCHANGED <<lockVars, heard, payload>>

\* recv of the value (119, 232), which fails on a closed descriptor; in a lost node
\* nobody sees what came.
ReceiveValue(t) ==
    /\ Goto(t, "recv_value", "end")
    /\ IF conn[t] \in Conns THEN TakeValue(conn[t])
                        ELSE UNCHANGED <<client, request, up, down, fate>>
    /\ IF position[t] = 0 THEN UNCHANGED listVars
       ELSE \E v \in Values : StoreValue(position[t], v)
    /\ UNCHANGED <<lockVars, typed, alive, payload, position>>

Leave(t) ==
    /\ pc[t] \in {"end", "not_found"}
    /\ pc' = [pc EXCEPT ![t] = "recv"]
    /\ payload' = [payload EXCEPT ![t] = NoCommand]
    /\ position' = [position EXCEPT ![t] = 0]
    /\ UNCHANGED <<listVars, heard>>

Missed(t) == IF pc[t] = "not_found" THEN Send(t, <<"not found">>)
                                    ELSE UNCHANGED <<down, alive>>

ReleaseLock_NoReply(t) == Leave(t) /\ Lock!Release(t) /\ UNCHANGED <<down, alive>>

ReleaseLock_FlagInMiss(t) ==
    /\ Leave(t) /\ Missed(t)
    /\ IF pc[t] = "not_found" /\ Is(t, "read") THEN Lock!Release_KeepFlag(t)
                                               ELSE Lock!Release(t)

\* The end of each case: "Key not found" of READ, DELETE and UPDATE is sent when
\* the mutex is free again (147-152, 196-200, 220-224).
ReleaseLock(t) == Leave(t) /\ Lock!Release(t) /\ Missed(t)

Command(t) == \/ Invalid(t) \/ ReceiveCommand(t) \/ AcquireLock(t)
              \/ Create(t) \/ Read(t) \/ Delete(t) \/ Update(t)
              \/ ReceiveValue(t) \/ ReleaseLock(t)
-----------------------------------------------------------------------------
HandlerTypeOK ==
    /\ Lock!TypeOK
    /\ pc \in [Threads -> {"recv", "lock", "search", "recv_value", "end",
                           "not_found", "loop"}]
    /\ \A t \in Threads : position[t] \in 0 .. Len(list)
=============================================================================
