-------------------------- MODULE KVMutexPool_proofs --------------------------
(***************************************************************************)
(* The thread-pool server with its clients.  It does to the mutex and the  *)
(* flag what AvailLock says and nothing else, and every worker is in the   *)
(* conversation of KVHandler_proofs with the client of its connection,     *)
(* which FdQueue gives to it alone.  For any finite set of workers, any    *)
(* connections and keys, with streams that are cut anywhere and clients    *)
(* that may be killed, and without any fairness.                           *)
(***************************************************************************)
EXTENDS KVMutexPool, TLAPS

QueueProofs   == INSTANCE FdQueue_proofs
HandlerProofs == INSTANCE KVHandler_proofs WITH Threads <- Workers, conn <- client_fd,
                                   Values <- {Bytes}, Uninit <- Bytes, Damaged <- Bytes

\* A worker that serves nobody is between commands.
RestingPlace == \A w \in Workers : worker[w] # "serving" => pc[w] = "recv"

\* Only a client that has connected is accepted.
AcceptedConnected == \A c \in Conns : c \notin fresh => client[c] # "start"

\* Until a worker comes to its connection a client has at most sent its first request.
UnservedWait ==
    \A c \in Conns : c \notin closed /\ ~QueueProofs!Served(c) => HandlerProofs!Unserved(c)

\* Every worker is in conversation with the client of its connection.
ServedTalk ==
    \A w \in Workers, c \in Conns : client_fd[w] = c => HandlerProofs!Conversation(w, c)

\* The inductive invariant.  The queue's own invariant is part of it: only because no
\* connection is in two places does a step of one worker leave the other conversations.
PoolInv ==
    /\ QueueProofs!QueueInv /\ HandlerProofs!TalkOK
    /\ RestingPlace /\ AcceptedConnected /\ UnservedWait /\ ServedTalk
    /\ DiesOfLostClient
-----------------------------------------------------------------------------
(***************************************************************************)
(* What the server does is what the proofs about its parts are about.      *)
(***************************************************************************)

\* The queue's constants are as FdQueue assumes.
LEMMA QueueAssumption == QueueProofs!FdQueueAssumption
  BY MutexPoolAssumption DEF MutexPoolAssumption, QueueProofs!FdQueueAssumption,
     IsFiniteSet, QueueProofs!IsFiniteSet

\* Both speak of the same list.
LEMMA ListIs ==
    \A k, i, v : /\ Handler!Found(k) = HandlerProofs!Found(k)
                 /\ Handler!CreateNode(k) <=> HandlerProofs!CreateNode(k)
                 /\ Handler!DeleteNode(i) <=> HandlerProofs!DeleteNode(i)
                 /\ Handler!ReplaceBuffer(i) <=> HandlerProofs!ReplaceBuffer(i)
                 /\ Handler!StoreValue(i, v) <=> HandlerProofs!StoreValue(i, v)
<1>1. \A k : Handler!Found(k) = HandlerProofs!Found(k) /\ Handler!NodeOf(k) = HandlerProofs!NodeOf(k)
  BY DEF Handler!Found, HandlerProofs!Found, Handler!NodeOf, HandlerProofs!NodeOf
<1>2. \A l : Handler!Damage(l) = HandlerProofs!Damage(l)
  BY DEF Handler!Damage, HandlerProofs!Damage
<1>3. \A k : Handler!CreateNode(k) <=> HandlerProofs!CreateNode(k)
  BY <1>1, <1>2 DEF Handler!CreateNode, HandlerProofs!CreateNode
<1>4. \A i : Handler!DeleteNode(i) <=> HandlerProofs!DeleteNode(i)
  BY DEF Handler!DeleteNode, HandlerProofs!DeleteNode, Handler!RemoveAt, HandlerProofs!RemoveAt
<1>5. \A i : Handler!ReplaceBuffer(i) <=> HandlerProofs!ReplaceBuffer(i)
  BY DEF Handler!ReplaceBuffer, HandlerProofs!ReplaceBuffer, Handler!listVars, HandlerProofs!listVars
<1>6. \A i, v : Handler!StoreValue(i, v) <=> HandlerProofs!StoreValue(i, v)
  BY DEF Handler!StoreValue, HandlerProofs!StoreValue, Handler!listVars, HandlerProofs!listVars
<1> QED
  BY <1>1, <1>3, <1>4, <1>5, <1>6

\* Of the same commands,
LEMMA NamesAre ==
    /\ Handler!ListCommands = HandlerProofs!ListCommands
    /\ Handler!Commands = HandlerProofs!Commands
    /\ Handler!NoCommand = HandlerProofs!NoCommand
    /\ Handler!ValueBytes = HandlerProofs!ValueBytes /\ Handler!Rest = HandlerProofs!Rest
    /\ \A x : Handler!Ask(x) = HandlerProofs!Ask(x)
    /\ \A c : /\ Handler!Astray(c) <=> HandlerProofs!Astray(c)
              /\ Handler!Ended(c) <=> HandlerProofs!Ended(c)
              /\ Handler!AtEnd(c) <=> HandlerProofs!AtEnd(c)
  BY DEF Handler!ListCommands, HandlerProofs!ListCommands, Handler!Commands,
     HandlerProofs!Commands, Handler!NoCommand, HandlerProofs!NoCommand, Handler!ValueBytes,
     HandlerProofs!ValueBytes, Handler!Rest, HandlerProofs!Rest, Handler!Ask, HandlerProofs!Ask,
     Handler!Astray, HandlerProofs!Astray, Handler!Ended, HandlerProofs!Ended, Handler!AtEnd,
     HandlerProofs!AtEnd

\* of the same streams,
LEMMA StreamsAre ==
    \A c, x : /\ Handler!Sends(c, x) <=> HandlerProofs!Sends(c, x)
              /\ Handler!TakeCommand(c, x) <=> HandlerProofs!TakeCommand(c, x)
              /\ Handler!TakeInvalid(c) <=> HandlerProofs!TakeInvalid(c)
              /\ Handler!TakeValue(c) <=> HandlerProofs!TakeValue(c)
<1>1. \A c, x : Handler!Sends(c, x) <=> HandlerProofs!Sends(c, x)
  BY NamesAre DEF Handler!Sends, HandlerProofs!Sends
<1>2. \A c, x : Handler!TakeCommand(c, x) <=> HandlerProofs!TakeCommand(c, x)
  BY NamesAre DEF Handler!TakeCommand, HandlerProofs!TakeCommand
<1>3. \A c : Handler!TakeInvalid(c) <=> HandlerProofs!TakeInvalid(c)
  BY NamesAre DEF Handler!TakeInvalid, HandlerProofs!TakeInvalid
<1>4. \A c : Handler!GoAstray({c}) <=> HandlerProofs!GoAstray({c})
  BY NamesAre, Zenon DEF Handler!GoAstray, HandlerProofs!GoAstray
<1>5. \A c : Handler!TakeValue(c) <=> HandlerProofs!TakeValue(c)
  BY NamesAre, <1>4 DEF Handler!TakeValue, HandlerProofs!TakeValue
<1> QED
  BY <1>1, <1>2, <1>3, <1>5

\* and of the same places.
LEMMA PlacesAre ==
    \A w, x, y : /\ Handler!Goto(w, x, y) <=> HandlerProofs!Goto(w, x, y)
                 /\ Handler!Send(w, x) <=> HandlerProofs!Send(w, x)
                 /\ Handler!Is(w, x) <=> HandlerProofs!Is(w, x)
                 /\ Handler!Key(w) = HandlerProofs!Key(w)
                 /\ Handler!Missed(w) <=> HandlerProofs!Missed(w)
                 /\ Handler!Leave(w) <=> HandlerProofs!Leave(w)
                 /\ Handler!Arrives(w, x) <=> HandlerProofs!Arrives(w, x)
<1>1. \A w, x : Handler!Send(w, x) <=> HandlerProofs!Send(w, x)
  BY StreamsAre DEF Handler!Send, HandlerProofs!Send
<1>2. \A w : Handler!Missed(w) <=> HandlerProofs!Missed(w)
  BY <1>1 DEF Handler!Missed, HandlerProofs!Missed
<1>3. \A w : Handler!Leave(w) <=> HandlerProofs!Leave(w)
  BY NamesAre DEF Handler!Leave, HandlerProofs!Leave, Handler!listVars, HandlerProofs!listVars,
     Handler!heard, HandlerProofs!heard
<1>4. \A w, x : Handler!Arrives(w, x) <=> HandlerProofs!Arrives(w, x)
  BY StreamsAre DEF Handler!Arrives, HandlerProofs!Arrives, Handler!listVars,
     HandlerProofs!listVars, Handler!lockVars, HandlerProofs!lockVars
<1>5. \A w, x, y : /\ Handler!Goto(w, x, y) <=> HandlerProofs!Goto(w, x, y)
                   /\ Handler!Is(w, x) <=> HandlerProofs!Is(w, x)
                   /\ Handler!Key(w) = HandlerProofs!Key(w)
  BY DEF Handler!Goto, HandlerProofs!Goto, Handler!Is, HandlerProofs!Is, Handler!Key,
     HandlerProofs!Key
<1> QED
  BY <1>1, <1>2, <1>3, <1>4, <1>5

\* Greetings and farewells are those of KVHandler_proofs.
LEMMA GreetingIs ==
    ASSUME NEW w \in Workers
    PROVE  /\ Handler!Connected(w) => HandlerProofs!Connected(w)
           /\ Handler!Disconnected(w) => HandlerProofs!Disconnected(w)
  BY PlacesAre, NamesAre DEF Handler!Connected, HandlerProofs!Connected, Handler!Disconnected,
     HandlerProofs!Disconnected

\* A command is a command of KVHandler_proofs.
LEMMA CommandIs ==
    ASSUME NEW w \in Workers, Handler!Command(w)
    PROVE  HandlerProofs!Command(w)
<1>1. ASSUME Handler!ReceiveCommand(w) PROVE HandlerProofs!ReceiveCommand(w)
  BY <1>1, PlacesAre, NamesAre DEF Handler!ReceiveCommand, HandlerProofs!ReceiveCommand
<1>2. ASSUME Handler!AcquireLock(w) PROVE HandlerProofs!AcquireLock(w)
  BY <1>2 DEF Handler!AcquireLock, HandlerProofs!AcquireLock, Handler!Lock!Acquire,
     HandlerProofs!Lock!Acquire, Handler!Lock!MutexFree, HandlerProofs!Lock!MutexFree,
     Handler!Lock!ThreadsAt, HandlerProofs!Lock!ThreadsAt, Handler!listVars, HandlerProofs!listVars,
     Handler!heard, HandlerProofs!heard
<1>3. ASSUME Handler!Create(w) PROVE HandlerProofs!Create(w)
  BY <1>3, ListIs, PlacesAre, SMTT(30) DEF Handler!Create, HandlerProofs!Create,
     Handler!listVars, HandlerProofs!listVars, Handler!lockVars, HandlerProofs!lockVars,
     Handler!heard, HandlerProofs!heard
<1>4. ASSUME Handler!Read(w) PROVE HandlerProofs!Read(w)
  BY <1>4, ListIs, PlacesAre, SMTT(30) DEF Handler!Read, HandlerProofs!Read,
     Handler!listVars, HandlerProofs!listVars, Handler!lockVars, HandlerProofs!lockVars,
     Handler!heard, HandlerProofs!heard
<1>5. ASSUME Handler!Delete(w) PROVE HandlerProofs!Delete(w)
  BY <1>5, ListIs, PlacesAre, SMTT(30) DEF Handler!Delete, HandlerProofs!Delete,
     Handler!listVars, HandlerProofs!listVars, Handler!lockVars, HandlerProofs!lockVars,
     Handler!heard, HandlerProofs!heard
<1>6. ASSUME Handler!Update(w) PROVE HandlerProofs!Update(w)
  BY <1>6, ListIs, PlacesAre, SMTT(30) DEF Handler!Update, HandlerProofs!Update,
     Handler!listVars, HandlerProofs!listVars, Handler!lockVars, HandlerProofs!lockVars,
     Handler!heard, HandlerProofs!heard
<1>7. ASSUME Handler!ReceiveValue(w) PROVE HandlerProofs!ReceiveValue(w)
  BY <1>7, ListIs, PlacesAre, StreamsAre, SMTT(30) DEF Handler!ReceiveValue,
     HandlerProofs!ReceiveValue, Handler!listVars, HandlerProofs!listVars, Handler!lockVars,
     HandlerProofs!lockVars
<1>8. ASSUME Handler!ReleaseLock(w) PROVE HandlerProofs!ReleaseLock(w)
  <2>1. Handler!Lock!Release(w) => HandlerProofs!Lock!Release(w)
    BY DEF Handler!Lock!Release, HandlerProofs!Lock!Release, Handler!Lock!SignalCond,
       HandlerProofs!Lock!SignalCond, Handler!Lock!ThreadsAt, HandlerProofs!Lock!ThreadsAt
  <2> QED
    BY <1>8, <2>1, PlacesAre DEF Handler!ReleaseLock, HandlerProofs!ReleaseLock
<1>9. ASSUME Handler!Invalid(w) PROVE HandlerProofs!Invalid(w)
  BY <1>9, PlacesAre, StreamsAre DEF Handler!Invalid, HandlerProofs!Invalid, Handler!listVars,
     HandlerProofs!listVars, Handler!lockVars, HandlerProofs!lockVars, Handler!handlerVars,
     HandlerProofs!handlerVars
<1> QED
  BY <1>1, <1>2, <1>3, <1>4, <1>5, <1>6, <1>7, <1>8, <1>9 DEF Handler!Command,
     HandlerProofs!Command

\* What a client does is what KVHandler_proofs says of it.
LEMMA ClientNamesAre ==
    /\ Client!ListCommands = HandlerProofs!Client!ListCommands
    /\ Client!NoCommand = HandlerProofs!Client!NoCommand
    /\ Client!ValueBytes = HandlerProofs!Client!ValueBytes
    /\ \A x : Client!Ask(x) = HandlerProofs!Client!Ask(x)
    /\ \A c, x : /\ Client!SendPayload(c, x) <=> HandlerProofs!Client!SendPayload(c, x)
                 /\ Client!Takes(c, x) <=> HandlerProofs!Client!Takes(c, x)
                 /\ Client!WantsValue(c, x) <=> HandlerProofs!Client!WantsValue(c, x)
                 /\ Client!Done(c) <=> HandlerProofs!Client!Done(c)
<1>1. /\ Client!ListCommands = HandlerProofs!Client!ListCommands
      /\ Client!NoCommand = HandlerProofs!Client!NoCommand
      /\ Client!ValueBytes = HandlerProofs!Client!ValueBytes
      /\ \A x : Client!Ask(x) = HandlerProofs!Client!Ask(x)
  BY DEF Client!ListCommands, HandlerProofs!Client!ListCommands, Client!NoCommand,
     HandlerProofs!Client!NoCommand, Client!ValueBytes, HandlerProofs!Client!ValueBytes,
     Client!Ask, HandlerProofs!Client!Ask
<1>2. \A c, x : /\ Client!SendPayload(c, x) <=> HandlerProofs!Client!SendPayload(c, x)
                /\ Client!Takes(c, x) <=> HandlerProofs!Client!Takes(c, x)
                /\ Client!WantsValue(c, x) <=> HandlerProofs!Client!WantsValue(c, x)
  BY DEF Client!SendPayload, HandlerProofs!Client!SendPayload, Client!Takes,
     HandlerProofs!Client!Takes, Client!WantsValue, HandlerProofs!Client!WantsValue
<1>3. \A c : Client!Done(c) <=> HandlerProofs!Client!Done(c)
  BY <1>1 DEF Client!Done, HandlerProofs!Client!Done
<1> QED
  BY <1>1, <1>2, <1>3

\* So are its steps.
LEMMA ClientIs ==
    ASSUME NEW c \in Conns
    PROVE  /\ Client!Connect(c) => HandlerProofs!Client!Connect(c)
           /\ Client!TypeCommand(c) => HandlerProofs!Client!TypeCommand(c)
           /\ Client!GoesOn(c) => HandlerProofs!Client!GoesOn(c)
           /\ Client!Kill(c) => HandlerProofs!Client!Kill(c)
<1>1. Client!Connect(c) => HandlerProofs!Client!Connect(c)
  BY ClientNamesAre DEF Client!Connect, HandlerProofs!Client!Connect
<1>2. Client!TypeCommand(c) => HandlerProofs!Client!TypeCommand(c)
  BY ClientNamesAre DEF Client!TypeCommand, HandlerProofs!Client!TypeCommand
<1>3. Client!TypeDisconnect(c) => HandlerProofs!Client!TypeDisconnect(c)
  BY ClientNamesAre DEF Client!TypeDisconnect, HandlerProofs!Client!TypeDisconnect
<1>4. Client!TakeValueWanted(c) => HandlerProofs!Client!TakeValueWanted(c)
  BY ClientNamesAre DEF Client!TakeValueWanted, HandlerProofs!Client!TakeValueWanted
<1>5. Client!TakeOK(c) => HandlerProofs!Client!TakeOK(c)
  BY ClientNamesAre DEF Client!TakeOK, HandlerProofs!Client!TakeOK
<1>6. Client!TakePayload(c) => HandlerProofs!Client!TakePayload(c)
  BY ClientNamesAre DEF Client!TakePayload, HandlerProofs!Client!TakePayload
<1>7. Client!TakeValueRead(c) => HandlerProofs!Client!TakeValueRead(c)
  BY ClientNamesAre DEF Client!TakeValueRead, HandlerProofs!Client!TakeValueRead
<1>8. Client!TakeReply(c) => HandlerProofs!Client!TakeReply(c)
  BY ClientNamesAre DEF Client!TakeReply, HandlerProofs!Client!TakeReply
<1>9. Client!Kill(c) => HandlerProofs!Client!Kill(c)
  BY ClientNamesAre DEF Client!Kill, HandlerProofs!Client!Kill
<1> QED
  BY <1>1, <1>2, <1>3, <1>4, <1>5, <1>6, <1>7, <1>8, <1>9 DEF Client!GoesOn,
     HandlerProofs!Client!GoesOn, Client!Receive, HandlerProofs!Client!Receive

\* The properties speak of the same.
LEMMA PropertiesAre ==
    \A c, x : /\ Client!InStepAt(c, x) <=> HandlerProofs!InStepAt(c, x)
              /\ Client!Lost(c) <=> HandlerProofs!Lost(c)
  BY DEF Client!InStepAt, HandlerProofs!InStepAt, Client!Waits, HandlerProofs!Waits,
     Client!Answers, HandlerProofs!Answers, Client!Lost, HandlerProofs!Lost

\* The dispatcher's steps are the queue's.
LEMMA DispatchIs ==
    ASSUME Dispatch
    PROVE  /\ QueueProofs!QueueNext /\ UNCHANGED <<handlerVars, streamVars, alive>> /\ alive
           /\ \/ \E c \in Conns : client[c] # "start" /\ QueueProofs!Accept(c)
              \/ QueueProofs!AcceptError
              \/ \E w \in Workers : QueueProofs!HandleClient(w)
              \/ \E w \in Workers : QueueProofs!SpinOnBadFd(w)
              \/ \E w \in Workers : QueueProofs!SpuriousQueueWakeup(w)
<1>1. ASSUME NEW c \in Conns, Queue!Accept(c) PROVE QueueProofs!Accept(c)
  BY <1>1 DEF Queue!Accept, QueueProofs!Accept, Queue!Enqueue, QueueProofs!Enqueue,
     Queue!SignalQueue, QueueProofs!SignalQueue, Queue!WorkersIn, QueueProofs!WorkersIn
<1>2. ASSUME Queue!AcceptError PROVE QueueProofs!AcceptError
  BY <1>2 DEF Queue!AcceptError, QueueProofs!AcceptError, Queue!Enqueue, QueueProofs!Enqueue,
     Queue!SignalQueue, QueueProofs!SignalQueue, Queue!WorkersIn, QueueProofs!WorkersIn
<1>3. ASSUME NEW w \in Workers, Queue!HandleClient(w) PROVE QueueProofs!HandleClient(w)
  BY <1>3 DEF Queue!HandleClient, QueueProofs!HandleClient, Queue!Dequeue,
     QueueProofs!Dequeue, Queue!SignalAfterClient, QueueProofs!SignalAfterClient,
     Queue!SignalQueue, QueueProofs!SignalQueue, Queue!WorkersIn, QueueProofs!WorkersIn
<1>4. ASSUME NEW w \in Workers
      PROVE  /\ Queue!SpinOnBadFd(w) => QueueProofs!SpinOnBadFd(w)
             /\ Queue!SpuriousQueueWakeup(w) => QueueProofs!SpuriousQueueWakeup(w)
  BY DEF Queue!SpuriousQueueWakeup, QueueProofs!SpuriousQueueWakeup,
     Queue!SpinOnBadFd, QueueProofs!SpinOnBadFd, Queue!queueVars, QueueProofs!queueVars
<1> QED
  BY <1>1, <1>2, <1>3, <1>4 DEF Dispatch, QueueProofs!QueueNext
-----------------------------------------------------------------------------
(***************************************************************************)
(* The invariant of the server.                                            *)
(***************************************************************************)

\* Nobody has connected, every worker is idle, and nothing has been sent.
LEMMA InitPoolInv == Init => PoolInv
<1> SUFFICES ASSUME Init PROVE PoolInv
  OBVIOUS
<1>1. /\ fresh = Conns /\ worker = [w \in Workers |-> "idle"]
      /\ client_fd = [w \in Workers |-> NoFd] /\ NoFd \notin Conns
      /\ pc = [w \in Workers |-> "recv"]
      /\ payload = [w \in Workers |-> HandlerProofs!NoCommand]
      /\ client = [c \in Conns |-> "start"]
      /\ request = [c \in Conns |-> HandlerProofs!NoCommand]
      /\ up = [c \in Conns |-> <<>>] /\ down = [c \in Conns |-> <<>>]
      /\ fate = [c \in Conns |-> "none"] /\ alive = TRUE
  BY MutexPoolAssumption, NamesAre DEF MutexPoolAssumption, Init, Queue!InitQueue,
     Handler!InitHandler, Client!InitClients, Client!NoCommand, Handler!NoCommand, Client!Ask,
     Handler!Ask
<1>2. QueueProofs!QueueInv
  <2>1. QueueProofs!InitQueue
    BY DEF Init, Queue!InitQueue, QueueProofs!InitQueue
  <2> QED
    BY <2>1, QueueAssumption, QueueProofs!InitQueueInv
<1>3. HandlerProofs!TalkOK
  <2>1. \A S : <<>> \in Seq(S)
    OBVIOUS
  <2> QED
    BY <1>1, <2>1 DEF HandlerProofs!TalkOK, HandlerProofs!StreamOK, HandlerProofs!HandlerPlace,
       HandlerProofs!ClientPlace, HandlerProofs!Fates
<1>4. UnservedWait
  BY <1>1 DEF UnservedWait, HandlerProofs!Unserved, HandlerProofs!NotServed
<1>5. RestingPlace /\ AcceptedConnected /\ ServedTalk /\ DiesOfLostClient
  BY <1>1 DEF RestingPlace, AcceptedConnected, ServedTalk, DiesOfLostClient
<1> QED
  BY <1>2, <1>3, <1>4, <1>5 DEF PoolInv

\* The queue's invariant holds after any of its steps, and after none.
LEMMA QueueKept ==
    ASSUME PoolInv, QueueProofs!QueueNext \/ UNCHANGED queueVars
    PROVE  QueueProofs!QueueInv'
  BY QueueAssumption, QueueProofs!StepKeepsQueueInv DEF PoolInv, queueVars, QueueProofs!queueVars

\* No two workers have the same connection, and none has a closed one.
LEMMA Alone ==
    ASSUME PoolInv
    PROVE  /\ \A u, w \in Workers : client_fd[u] = client_fd[w] /\ client_fd[u] \in Conns => u = w
           /\ \A w \in Workers, c \in Conns : client_fd[w] = c => c \notin fresh \union closed
           /\ \A w \in Workers, c \in Conns : client_fd[w] = c => worker[w] = "serving"
<1>1. NoFd \notin Conns
  BY MutexPoolAssumption DEF MutexPoolAssumption
<1> QED
  BY <1>1 DEF PoolInv, QueueProofs!QueueInv, QueueProofs!PlacedOnce, QueueProofs!PlacedWhileOpen,
     QueueProofs!Served, QueueProofs!QueueTypeOK

\* The other connections are left as they were.
LEMMA OthersLeftAlone ==
    ASSUME PoolInv, NEW w \in Workers, NEW c \in Conns, client_fd[w] = c, alive,
           HandlerProofs!Frame(w, c), NEW d \in Conns, d # c
    PROVE  /\ HandlerProofs!Unserved(d) => HandlerProofs!Unserved(d)'
           /\ \A u \in Workers : u # w /\ HandlerProofs!Conversation(u, d) =>
                  HandlerProofs!Conversation(u, d)'
           /\ client'[d] = client[d]
<1>1. /\ HandlerProofs!Same(d)
      /\ \A u \in Workers \ {w} : pc'[u] = pc[u] /\ payload'[u] = payload[u]
  BY DEF HandlerProofs!Frame
<1> QED
  BY <1>1 DEF HandlerProofs!Same, HandlerProofs!Unserved, HandlerProofs!Conversation

\* A worker that talks to its client keeps the invariant.
LEMMA ServingKeeps ==
    ASSUME PoolInv, alive, NEW w \in Workers, NEW c \in Conns, client_fd[w] = c,
           HandlerProofs!Frame(w, c), HandlerProofs!Conversation(w, c)', UNCHANGED queueVars
    PROVE  PoolInv'
<1>1. /\ QueueProofs!QueueInv' /\ HandlerProofs!TalkOK'
      /\ worker' = worker /\ client_fd' = client_fd /\ fresh' = fresh /\ closed' = closed
  BY QueueKept DEF HandlerProofs!Frame, queueVars
<1>2. worker[w] = "serving"
  BY Alone
<1>3. RestingPlace'
  BY <1>1, <1>2 DEF HandlerProofs!Frame, PoolInv, RestingPlace
<1>4. AcceptedConnected'
  <2>1. client'[c] # "start"
    BY <1>1, HandlerProofs!StillConnected
  <2> QED
    BY <1>1, <2>1, OthersLeftAlone DEF PoolInv, AcceptedConnected
<1>5. UnservedWait'
  BY <1>1, OthersLeftAlone DEF PoolInv, UnservedWait, QueueProofs!Served
<1>6. ServedTalk'
  <2>1. ASSUME NEW u \in Workers, NEW d \in Conns, client_fd[u] = d, u # w
        PROVE  d # c
    BY <2>1, Alone
  <2> QED
    BY <1>1, <2>1, OthersLeftAlone DEF PoolInv, ServedTalk
<1>7. DiesOfLostClient'
  BY DEF HandlerProofs!Frame, DiesOfLostClient, Client!Lost, HandlerProofs!Lost
<1> QED
  BY <1>1, <1>3, <1>4, <1>5, <1>6, <1>7 DEF PoolInv

\* Every command keeps it.
LEMMA CommandKeeps ==
    ASSUME PoolInv, alive, NEW w \in Workers, Command(w)
    PROVE  PoolInv'
<1>1. worker[w] = "serving" /\ HandlerProofs!Command(w) /\ UNCHANGED queueVars
  BY CommandIs DEF Command
<1>2. CASE client_fd[w] \in Conns
  <2>1. PICK c \in Conns : c = client_fd[w]
    BY <1>2
  <2>2. HandlerProofs!TalkOK /\ HandlerProofs!Conversation(w, c)
    BY <2>1 DEF PoolInv, ServedTalk
  <2>3. HandlerProofs!Frame(w, c) /\ HandlerProofs!Conversation(w, c)'
    BY <1>1, <2>1, <2>2, HandlerProofs!CommandKeeps
  <2> QED
    BY <1>1, <2>1, <2>3, ServingKeeps
<1>3. CASE client_fd[w] \notin Conns
  <2>1. /\ HandlerProofs!TalkOK' /\ UNCHANGED <<client, request, up, down, fate, alive>>
        /\ \A u \in Workers \ {w} : pc'[u] = pc[u] /\ payload'[u] = payload[u]
    BY <1>1, <1>3, HandlerProofs!DetachedKeeps DEF PoolInv
  <2>2. /\ QueueProofs!QueueInv'
        /\ worker' = worker /\ client_fd' = client_fd /\ fresh' = fresh /\ closed' = closed
    BY <1>1, QueueKept DEF queueVars
  <2>3. RestingPlace' /\ AcceptedConnected'
    BY <1>1, <2>1, <2>2 DEF PoolInv, RestingPlace, AcceptedConnected
  <2>4. UnservedWait'
    BY <2>1, <2>2 DEF PoolInv, UnservedWait, QueueProofs!Served, HandlerProofs!Unserved
  <2>5. ServedTalk'
    BY <1>3, <2>1, <2>2 DEF PoolInv, ServedTalk, HandlerProofs!Conversation
  <2>6. DiesOfLostClient'
    BY <2>1 DEF DiesOfLostClient
  <2> QED
    BY <2>1, <2>2, <2>3, <2>4, <2>5, <2>6 DEF PoolInv
<1> QED
  BY <1>2, <1>3

\* So does the answer to CONNECT.
LEMMA ConnectedKeeps ==
    ASSUME PoolInv, alive, NEW w \in Workers, Connected(w)
    PROVE  PoolInv'
<1>1. HandlerProofs!Connected(w) /\ UNCHANGED queueVars /\ HandlerProofs!TalkOK
  BY GreetingIs DEF Connected, PoolInv
<1>2. PICK c \in Conns : c = client_fd[w]
  BY <1>1 DEF HandlerProofs!Connected, HandlerProofs!Arrives
<1>3. HandlerProofs!Conversation(w, c)
  BY <1>2 DEF PoolInv, ServedTalk
<1>4. HandlerProofs!Frame(w, c) /\ HandlerProofs!Conversation(w, c)'
  BY <1>1, <1>2, <1>3, HandlerProofs!ConnectedKeeps
<1> QED
  BY <1>1, <1>2, <1>4, ServingKeeps

\* After DISCONNECT the worker leaves the connection, which nobody serves again.
LEMMA DisconnectKeeps ==
    ASSUME PoolInv, alive, NEW w \in Workers, Disconnect(w)
    PROVE  PoolInv'
<1>1. /\ HandlerProofs!Disconnected(w) /\ QueueProofs!Disconnect(w) /\ HandlerProofs!TalkOK
      /\ pc[w] = "recv" /\ pc' = pc
  BY GreetingIs DEF Disconnect, PoolInv, Queue!Disconnect, QueueProofs!Disconnect,
     Handler!Disconnected, Handler!Arrives
<1>2. PICK c \in Conns : c = client_fd[w]
  BY <1>1 DEF HandlerProofs!Disconnected, HandlerProofs!Arrives
<1>3. HandlerProofs!Conversation(w, c)
  BY <1>2 DEF PoolInv, ServedTalk
<1>4. HandlerProofs!Frame(w, c) /\ HandlerProofs!Left(c)'
  BY <1>1, <1>2, <1>3, HandlerProofs!DisconnectedLeaves
<1>5. QueueProofs!QueueInv' /\ HandlerProofs!TalkOK'
  BY <1>1, <1>4, QueueKept DEF QueueProofs!QueueNext, HandlerProofs!Frame
<1>6. /\ fresh' = fresh /\ closed' = closed \union {c} /\ NoFd \notin Conns
      /\ client_fd' = [client_fd EXCEPT ![w] = NoFd] /\ worker' = [worker EXCEPT ![w] = "signal"]
      /\ worker \in [Workers -> QueueProofs!WorkerState]
      /\ client_fd \in [Workers -> Conns \union {BadFd, NoFd}]
  BY <1>1, <1>2, MutexPoolAssumption DEF MutexPoolAssumption, QueueProofs!Disconnect, PoolInv,
     QueueProofs!QueueInv, QueueProofs!QueueTypeOK
<1>7. RestingPlace'
  BY <1>1, <1>6 DEF PoolInv, RestingPlace
<1>8. AcceptedConnected'
  <2>1. client'[c] # "start"
    BY <1>4 DEF HandlerProofs!Left, HandlerProofs!HasLeft, HandlerProofs!Over
  <2> QED
    BY <1>2, <1>4, <1>6, <2>1, OthersLeftAlone DEF PoolInv, AcceptedConnected
<1>9. UnservedWait'
  <2>1. ASSUME NEW d \in Conns, d \notin closed', ~QueueProofs!Served(d)'
        PROVE  d # c /\ d \notin closed /\ ~QueueProofs!Served(d)
    BY <1>2, <1>6, <2>1 DEF QueueProofs!Served
  <2> QED
    BY <1>2, <1>4, <2>1, OthersLeftAlone DEF PoolInv, UnservedWait
<1>10. ServedTalk'
  <2>1. ASSUME NEW u \in Workers, NEW d \in Conns, client_fd'[u] = d
        PROVE  u # w /\ d # c /\ client_fd[u] = d
    BY <1>2, <1>6, <2>1, Alone
  <2> QED
    BY <1>2, <1>4, <2>1, OthersLeftAlone DEF PoolInv, ServedTalk
<1>11. DiesOfLostClient'
  BY <1>4 DEF HandlerProofs!Frame, DiesOfLostClient, Client!Lost, HandlerProofs!Lost
<1> QED
  BY <1>5, <1>7, <1>8, <1>9, <1>10, <1>11 DEF PoolInv

\* The clients keep it.
LEMMA ClientsKeep == PoolInv /\ Clients => PoolInv'
<1> SUFFICES ASSUME PoolInv, Clients PROVE PoolInv'
  OBVIOUS
<1>1. PICK c \in Conns : \/ HandlerProofs!Client!Connect(c) \/ HandlerProofs!Client!TypeCommand(c)
                         \/ HandlerProofs!Client!GoesOn(c) \/ HandlerProofs!Client!Kill(c)
  BY ClientIs DEF Clients
<1>2. /\ alive /\ alive' = alive /\ UNCHANGED queueVars /\ pc' = pc /\ payload' = payload
      /\ worker' = worker /\ client_fd' = client_fd /\ fresh' = fresh /\ closed' = closed
      /\ HandlerProofs!TalkOK /\ HandlerProofs!StreamOK
  BY DEF Clients, handlerVars, queueVars, PoolInv, HandlerProofs!TalkOK
<1>3. /\ HandlerProofs!StreamOK' /\ \A d \in Conns \ {c} : HandlerProofs!Same(d)
      /\ client'[c] # "start"
      /\ HandlerProofs!Unserved(c) => HandlerProofs!Unserved(c)'
      /\ \A pl \in HandlerProofs!HandlerPlace : \A load :
             HandlerProofs!Talk(pl, load, client[c], request[c], up[c], down[c], fate[c]) =>
                 HandlerProofs!Talk(pl, load, client'[c], request'[c], up'[c], down'[c], fate'[c])
  <2>1. CASE HandlerProofs!Client!Connect(c)
    <3>1. /\ HandlerProofs!StreamOK' /\ \A d \in Conns \ {c} : HandlerProofs!Same(d)
          /\ client[c] = "start" /\ client'[c] # "start"
          /\ HandlerProofs!Unserved(c) => HandlerProofs!Unserved(c)'
      BY <1>2, <2>1, HandlerProofs!ConnectKeeps
    <3>2. \A pl \in HandlerProofs!HandlerPlace : \A load :
              ~HandlerProofs!Talk(pl, load, client[c], request[c], up[c], down[c], fate[c])
      BY <3>1, HandlerProofs!TalkConnected
    <3> QED
      BY <3>1, <3>2
  <2>2. CASE \/ HandlerProofs!Client!TypeCommand(c) \/ HandlerProofs!Client!GoesOn(c)
             \/ HandlerProofs!Client!Kill(c)
    <3>1. HandlerProofs!ClientKeeps(c)
      BY <1>2, <2>2, HandlerProofs!ClientStepKeeps
    <3> QED
      BY <3>1 DEF HandlerProofs!ClientKeeps
  <2> QED
    BY <1>1, <2>1, <2>2
<1>4. QueueProofs!QueueInv' /\ HandlerProofs!TalkOK'
  BY <1>2, <1>3, QueueKept DEF HandlerProofs!TalkOK
<1>5. RestingPlace' /\ AcceptedConnected'
  BY <1>2, <1>3 DEF HandlerProofs!Same, PoolInv, RestingPlace, AcceptedConnected
<1>6. UnservedWait'
  <2>1. ASSUME NEW d \in Conns, HandlerProofs!Unserved(d) PROVE HandlerProofs!Unserved(d)'
    BY <1>3, <2>1 DEF HandlerProofs!Same, HandlerProofs!Unserved
  <2> QED
    BY <1>2, <2>1 DEF PoolInv, UnservedWait, QueueProofs!Served
<1>7. ServedTalk'
  <2>1. ASSUME NEW w \in Workers, NEW d \in Conns, HandlerProofs!Conversation(w, d)
        PROVE  HandlerProofs!Conversation(w, d)'
    <3>1. CASE d = c
      <4>1. pc[w] \in HandlerProofs!HandlerPlace
        BY <1>2 DEF HandlerProofs!TalkOK
      <4> QED
        BY <1>2, <1>3, <2>1, <3>1, <4>1 DEF HandlerProofs!Conversation
    <3>2. CASE d # c
      BY <1>2, <1>3, <2>1, <3>2 DEF HandlerProofs!Same, HandlerProofs!Conversation
    <3> QED
      BY <3>1, <3>2
  <2> QED
    BY <1>2, <2>1 DEF PoolInv, ServedTalk
<1>8. DiesOfLostClient'
  BY <1>2 DEF DiesOfLostClient
<1> QED
  BY <1>4, <1>5, <1>6, <1>7, <1>8 DEF PoolInv

\* A step of the queue that hands out no connection changes no conversation.
LEMMA QueueStepKeeps ==
    ASSUME PoolInv, QueueProofs!QueueInv', alive,
           UNCHANGED <<handlerVars, streamVars, alive, client_fd, closed>>,
           \A w \in Workers : worker[w] = "serving" => worker'[w] = "serving",
           AcceptedConnected'
    PROVE  PoolInv'
<1>1. HandlerProofs!TalkOK' /\ RestingPlace'
  BY DEF PoolInv, HandlerProofs!TalkOK, HandlerProofs!StreamOK, RestingPlace, handlerVars, streamVars
<1>2. UnservedWait'
  BY DEF PoolInv, UnservedWait, QueueProofs!Served, HandlerProofs!Unserved, streamVars
<1>3. ServedTalk'
  BY DEF PoolInv, ServedTalk, HandlerProofs!Conversation, handlerVars, streamVars
<1>4. DiesOfLostClient'
  BY DEF DiesOfLostClient
<1> QED
  BY <1>1, <1>2, <1>3, <1>4 DEF PoolInv

\* The signal changes where the workers are, not whether they serve.
LEMMA SignalKeepsServing ==
    ASSUME QueueProofs!QueueTypeOK, NEW after \in [Workers -> QueueProofs!WorkerState],
           \A w \in Workers : worker[w] = "serving" => after[w] = "serving",
           QueueProofs!SignalQueue(after)
    PROVE  \A w \in Workers : worker[w] = "serving" => worker'[w] = "serving"
  BY DEF QueueProofs!QueueTypeOK, QueueProofs!SignalQueue, QueueProofs!WorkersIn

\* A worker that takes a connection from the queue finds its client at the start.
LEMMA DequeueKeeps ==
    ASSUME PoolInv, NEW w \in Workers, QueueProofs!Dequeue(w), QueueProofs!QueueInv', alive,
           UNCHANGED <<handlerVars, streamVars, alive>>
    PROVE  PoolInv'
<1>1. /\ QueueProofs!QueueTypeOK /\ QueueProofs!PlacedOnce /\ QueueProofs!PlacedWhileOpen
      /\ worker \in [Workers -> QueueProofs!WorkerState]
      /\ client_fd \in [Workers -> Conns \union {BadFd, NoFd}]
      /\ worker[w] # "serving" /\ fresh' = fresh /\ closed' = closed
  BY DEF PoolInv, QueueProofs!QueueInv, QueueProofs!QueueTypeOK, QueueProofs!Dequeue
<1>2. AcceptedConnected'
  BY <1>1 DEF PoolInv, AcceptedConnected, streamVars
<1>3. CASE fd_queue = <<>>
  <2>1. worker' = [worker EXCEPT ![w] = "parked"] /\ UNCHANGED client_fd
    BY <1>3 DEF QueueProofs!Dequeue
  <2> QED
    BY <1>1, <1>2, <2>1, QueueStepKeeps
<1>4. CASE fd_queue # <<>>
  <2> DEFINE d == Head(fd_queue)
  <2>1. /\ client_fd' = [client_fd EXCEPT ![w] = d]
        /\ worker' = [worker EXCEPT ![w] = "serving"]
    BY <1>4 DEF QueueProofs!Dequeue
  <2>2. d = fd_queue[1] /\ 1 \in QueueProofs!Positions
    BY <1>1, <1>4 DEF QueueProofs!QueueTypeOK, QueueProofs!Positions
  <2>3. ASSUME d \in Conns
        PROVE  /\ d \notin fresh \union closed /\ ~QueueProofs!Served(d)
               /\ HandlerProofs!Conversation(w, d)
    <3>1. d \notin fresh \union closed /\ ~QueueProofs!Served(d)
      BY <1>1, <2>2, <2>3 DEF QueueProofs!PlacedWhileOpen, QueueProofs!PlacedOnce,
         QueueProofs!Queued, QueueProofs!Served
    <3>2. pc[w] = "recv" /\ HandlerProofs!Unserved(d) /\ client[d] # "start"
      BY <1>1, <2>3, <3>1 DEF PoolInv, RestingPlace, UnservedWait, AcceptedConnected
    <3> QED
      BY <2>3, <3>1, <3>2, HandlerProofs!FirstRequest
  <2> HIDE DEF d
  <2>4. HandlerProofs!TalkOK' /\ RestingPlace' /\ DiesOfLostClient'
    BY <1>1, <2>1 DEF PoolInv, HandlerProofs!TalkOK, HandlerProofs!StreamOK, RestingPlace, DiesOfLostClient, handlerVars, streamVars
  <2>5. UnservedWait'
    <3>1. ASSUME NEW c \in Conns, ~QueueProofs!Served(c)' PROVE ~QueueProofs!Served(c)
      <4>1. client_fd[w] \notin Conns
        BY <1>1, Alone
      <4> QED
        BY <1>1, <2>1, <3>1, <4>1 DEF QueueProofs!Served
    <3> QED
      BY <1>1, <3>1 DEF PoolInv, UnservedWait, HandlerProofs!Unserved, streamVars
  <2>6. ServedTalk'
    <3>1. ASSUME NEW u \in Workers, NEW c \in Conns, client_fd'[u] = c
          PROVE  HandlerProofs!Conversation(u, c)
      BY <1>1, <2>1, <2>3, <3>1 DEF PoolInv, ServedTalk
    <3> QED
      BY <3>1 DEF ServedTalk, HandlerProofs!Conversation, handlerVars, streamVars
  <2> QED
    BY <1>2, <2>4, <2>5, <2>6 DEF PoolInv
<1> QED
  BY <1>3, <1>4

\* The dispatcher and the waiting workers keep it.
LEMMA DispatchKeeps == PoolInv /\ Dispatch => PoolInv'
<1> SUFFICES ASSUME PoolInv, Dispatch PROVE PoolInv'
  OBVIOUS
<1>1. QueueProofs!QueueInv' /\ UNCHANGED <<handlerVars, streamVars, alive>> /\ alive
  BY DispatchIs, QueueKept
<1>2. /\ QueueProofs!QueueTypeOK /\ worker \in [Workers -> QueueProofs!WorkerState]
      /\ AcceptedConnected
  BY DEF PoolInv, QueueProofs!QueueInv, QueueProofs!QueueTypeOK
<1>3. ASSUME NEW c \in Conns, client[c] # "start", QueueProofs!Accept(c) PROVE PoolInv'
  <2>1. /\ QueueProofs!SignalQueue(worker) /\ UNCHANGED <<client_fd, closed>>
        /\ fresh' = fresh \ {c}
    BY <1>3 DEF QueueProofs!Accept, QueueProofs!Enqueue
  <2>2. AcceptedConnected'
    BY <1>1, <1>2, <1>3, <2>1 DEF AcceptedConnected, streamVars
  <2> QED
    BY <1>1, <1>2, <2>1, <2>2, SignalKeepsServing, QueueStepKeeps
<1>4. ASSUME QueueProofs!AcceptError PROVE PoolInv'
  <2>1. QueueProofs!SignalQueue(worker) /\ UNCHANGED <<client_fd, closed, fresh>>
    BY <1>4 DEF QueueProofs!AcceptError, QueueProofs!Enqueue
  <2>2. AcceptedConnected'
    BY <1>1, <1>2, <2>1 DEF AcceptedConnected, streamVars
  <2> QED
    BY <1>1, <1>2, <2>1, <2>2, SignalKeepsServing, QueueStepKeeps
<1>5. ASSUME NEW w \in Workers, QueueProofs!HandleClient(w) PROVE PoolInv'
  <2>1. CASE QueueProofs!SignalAfterClient(w)
    <3> DEFINE after == [worker EXCEPT ![w] = "idle"]
    <3>1. /\ QueueProofs!SignalQueue(after) /\ UNCHANGED <<client_fd, closed, fresh>>
          /\ worker[w] = "signal"
      BY <2>1 DEF QueueProofs!SignalAfterClient
    <3>2. /\ after \in [Workers -> QueueProofs!WorkerState]
          /\ \A u \in Workers : worker[u] = "serving" => after[u] = "serving"
      BY <1>2, <3>1 DEF QueueProofs!WorkerState
    <3>3. AcceptedConnected'
      BY <1>1, <1>2, <3>1 DEF AcceptedConnected, streamVars
    <3> HIDE DEF after
    <3> QED
      BY <1>1, <1>2, <3>1, <3>2, <3>3, SignalKeepsServing, QueueStepKeeps
  <2> QED
    BY <1>1, <1>5, <2>1, DequeueKeeps DEF QueueProofs!HandleClient
<1>6. ASSUME NEW w \in Workers, QueueProofs!SpinOnBadFd(w) \/ QueueProofs!SpuriousQueueWakeup(w)
      PROVE  PoolInv'
  <2>1. /\ UNCHANGED <<client_fd, closed, fresh>>
        /\ \A u \in Workers : worker[u] = "serving" => worker'[u] = "serving"
    BY <1>2, <1>6 DEF QueueProofs!SpinOnBadFd, QueueProofs!SpuriousQueueWakeup, QueueProofs!queueVars
  <2>2. AcceptedConnected'
    BY <1>1, <1>2, <2>1 DEF AcceptedConnected, streamVars
  <2> QED
    BY <1>1, <2>1, <2>2, QueueStepKeeps
<1> QED
  BY <1>3, <1>4, <1>5, <1>6, DispatchIs

\* Every step keeps the invariant.
LEMMA StepKeepsPoolInv == PoolInv /\ [Next]_vars => PoolInv'
<1> SUFFICES ASSUME PoolInv, [Next]_vars PROVE PoolInv'
  OBVIOUS
<1>1. ASSUME UNCHANGED vars PROVE PoolInv'
  <2>1. /\ QueueProofs!QueueInv' /\ worker' = worker /\ client_fd' = client_fd
        /\ fresh' = fresh /\ closed' = closed
        /\ UNCHANGED <<client, request, up, down, fate, alive, pc, payload>>
    BY <1>1, QueueKept DEF vars, queueVars, handlerVars, streamVars
  <2>2. HandlerProofs!TalkOK' /\ RestingPlace' /\ AcceptedConnected' /\ DiesOfLostClient'
    BY <2>1 DEF PoolInv, HandlerProofs!TalkOK, HandlerProofs!StreamOK, RestingPlace,
       AcceptedConnected, DiesOfLostClient, Client!Lost
  <2>3. UnservedWait' /\ ServedTalk'
    BY <2>1 DEF PoolInv, UnservedWait, QueueProofs!Served, HandlerProofs!Unserved, ServedTalk,
       HandlerProofs!Conversation
  <2> QED
    BY <2>1, <2>2, <2>3 DEF PoolInv
<1>2. ASSUME NEW w \in Workers, Serve(w) \/ LoopInUpdate(w) PROVE PoolInv'
  BY <1>1, <1>2, CommandKeeps, ConnectedKeeps, DisconnectKeeps DEF Serve, LoopInUpdate
<1> QED
  BY <1>1, <1>2, DispatchKeeps, ClientsKeep DEF Next

\* The invariant holds throughout.
THEOREM PoolInvariant == Spec => []PoolInv
<1> QED
  BY InitPoolInv, StepKeepsPoolInv, PTL DEF Spec

\* However the streams are cut and whoever is killed, a client and its worker are in
\* step until bytes are taken for a command that are not the begin of one: they wait for
\* each other only if the command was taken for the end of a value, or the client took
\* several sends with one recv (kv-server-pool/server.c 58-68, 119-123, 232-236;
\* kv-server-pool/client.c 98-114, 132-158, 177-193).
THEOREM AlwaysInStep == Spec => []InStep
<1>1. ASSUME PoolInv PROVE InStep
  <2>1. ASSUME NEW w \in Workers, NEW c \in Conns, client_fd[w] = c
        PROVE  Client!InStepAt(c, pc[w])
    <3>1. HandlerProofs!TalkOK /\ HandlerProofs!Conversation(w, c)
      BY <1>1, <2>1 DEF PoolInv, ServedTalk
    <3>2. HandlerProofs!InStepAt(c, pc[w])
      BY <3>1, HandlerProofs!ConversationInStep
    <3> QED
      BY <3>2, PropertiesAre
  <2> QED
    BY <2>1 DEF InStep
<1> QED
  BY <1>1, PoolInvariant, PTL

\* The server is killed by SIGPIPE only for a client that has been killed, whose
\* DISCONNECT was taken for the end of a value, or whose conversation is astray
\* (kv-server-pool/server.c 243-258).
THEOREM OnlyLostClientsKill == Spec => []DiesOfLostClient
<1>1. PoolInv => DiesOfLostClient
  BY DEF PoolInv
<1> QED
  BY <1>1, PoolInvariant, PTL
-----------------------------------------------------------------------------
(***************************************************************************)
(* The mutex and the flag.                                                 *)
(***************************************************************************)

\* At the start the lock is as AvailLock says.
LEMMA InitRefines == Init => HandlerProofs!Lock!InitLock
  BY DEF Init, Handler!InitHandler, Handler!Lock!InitLock, HandlerProofs!Lock!InitLock

\* Only AcquireLock and ReleaseLock touch the lock.
LEMMA CommandRefines ==
    ASSUME NEW w \in Workers, Command(w)
    PROVE  HandlerProofs!Lock!Next \/ UNCHANGED <<available, at>>
<1>1. ASSUME HandlerProofs!AcquireLock(w) \/ HandlerProofs!ReleaseLock(w)
      PROVE  HandlerProofs!Lock!Next
  BY <1>1 DEF HandlerProofs!AcquireLock, HandlerProofs!ReleaseLock, HandlerProofs!Lock!Next
<1>2. ASSUME \/ HandlerProofs!ReceiveCommand(w) \/ HandlerProofs!Create(w)
             \/ HandlerProofs!Read(w) \/ HandlerProofs!Delete(w)
             \/ HandlerProofs!Update(w) \/ HandlerProofs!ReceiveValue(w)
             \/ HandlerProofs!Invalid(w)
      PROVE  UNCHANGED <<available, at>>
  BY <1>2 DEF HandlerProofs!ReceiveCommand, HandlerProofs!Arrives, HandlerProofs!Create,
     HandlerProofs!Read, HandlerProofs!Delete, HandlerProofs!Update,
     HandlerProofs!ReceiveValue, HandlerProofs!Invalid, HandlerProofs!lockVars
<1> QED
  BY <1>1, <1>2, CommandIs DEF Command, HandlerProofs!Command

\* Every step of the server and of the clients is one of the lock's or none.
LEMMA StepRefines == [Next]_vars => [HandlerProofs!Lock!Next]_HandlerProofs!Lock!lockVars
<1> SUFFICES ASSUME [Next]_vars PROVE HandlerProofs!Lock!Next \/ UNCHANGED <<available, at>>
  BY DEF HandlerProofs!Lock!lockVars
<1>1. ASSUME NEW w \in Workers, Serve(w)
      PROVE  HandlerProofs!Lock!Next \/ UNCHANGED <<available, at>>
  <2>1. ASSUME Connected(w) \/ Disconnect(w) PROVE UNCHANGED <<available, at>>
    BY <2>1 DEF Connected, Disconnect, Handler!Connected, Handler!Disconnected, Handler!Arrives,
       Handler!lockVars
  <2> QED
    BY <1>1, <2>1, CommandRefines DEF Serve
<1>2. ASSUME Dispatch \/ Clients \/ UNCHANGED vars PROVE UNCHANGED <<available, at>>
  BY <1>2 DEF Dispatch, Clients, vars, handlerVars
<1>3. ASSUME NEW w \in Workers, LoopInUpdate(w) PROVE UNCHANGED <<available, at>>
  BY <1>3 DEF LoopInUpdate, vars, handlerVars
<1> QED
  BY <1>1, <1>2, <1>3 DEF Next

\* The server implements the lock.
THEOREM ImplementsAvailLock == Spec => HandlerProofs!Lock!Spec
<1> QED
  BY InitRefines, StepRefines, PTL DEF Spec, HandlerProofs!Lock!Spec

\* No thread of the server ever waits on cond, whatever the clients do.
THEOREM CondIdle == Spec => []CondNeverWaited
<1>1. HandlerProofs!LockInv => CondNeverWaited
  BY DEF HandlerProofs!LockInv, HandlerProofs!Lock!CondNeverWaited, CondNeverWaited,
     Handler!Lock!CondNeverWaited, Handler!Lock!MutexFree, HandlerProofs!Lock!MutexFree,
     Handler!Lock!ThreadsAt, HandlerProofs!Lock!ThreadsAt
<1> QED
  BY <1>1, ImplementsAvailLock, HandlerProofs!LockInvariant, PTL
=============================================================================
