--------------------------- MODULE KVThread_proofs ---------------------------
(***************************************************************************)
(* The server with a thread per client.  Whatever descriptors main's       *)
(* variable and accept hand to which thread, a thread that takes part in a *)
(* conversation that has not gone astray is the one that was made for it,  *)
(* and is in the conversation of KVHandler_proofs with the client.  For    *)
(* any connections, failing accepts, descriptors and keys, with streams    *)
(* that are cut anywhere and clients that may be killed, and without any   *)
(* fairness.                                                               *)
(***************************************************************************)
EXTENDS KVThread, FiniteSetTheorems, TLAPS

HandlerProofs == INSTANCE KVHandler_proofs WITH conn <- [t \in Threads |-> ConnOf(t)],
                                   Values <- {Bytes}, Uninit <- Bytes, Damaged <- Bytes

ServerTypeOK ==
    /\ slot \in Fds \union {BadFd}
    /\ table \in [Fds -> Conns \union {Closed}]
    /\ life \in [Threads -> {"none", "starting", "running"}]
    /\ fd \in [Threads -> Fds \union {BadFd}]

\* Before it runs a thread has no descriptor and has done nothing.
NotYet == \A t \in Threads : life[t] # "running" => fd[t] = BadFd /\ pc[t] = "recv"

\* The client of a thread that does not run yet has at most sent its first request.
Awaited ==
    \A c \in Conns : /\ life[c] # "running" => HandlerProofs!Unserved(c)
                     /\ client[c] = "start" => life[c] = "none"

\* A descriptor of a conversation that is not astray is with the thread that was made
\* for it, or with none.
SoleReader ==
    \A f \in Fds, c \in Conns, t \in Threads :
        table[f] = c /\ client[c] # "astray" /\ fd[t] = f => t = c

\* Nothing reaches the client of a conversation that is.
AstrayQuiet == \A c \in Conns : client[c] = "astray" => down[c] = <<>>

\* A thread is in conversation with the client behind its descriptor.
Talks ==
    \A t \in Threads, c \in Conns : ConnOf(t) = c => HandlerProofs!Conversation(t, c)

\* The inductive invariant.  A thread that keeps a closed descriptor may find another
\* client behind it: SoleReader holds after that accept only because the conversation
\* goes astray, and a later step of the thread keeps Awaited only because of AstrayQuiet.
ServerInv ==
    /\ ServerTypeOK /\ HandlerProofs!TalkOK
    /\ NotYet /\ Awaited /\ SoleReader /\ AstrayQuiet /\ Talks
    /\ DiesOfLostClient
-----------------------------------------------------------------------------
(***************************************************************************)
(* What the threads and the clients do is what KVHandler_proofs is about.  *)
(***************************************************************************)

\* Both speak of the same list.
LEMMA ListIs ==
    \A k, i, v : /\ Handler!Found(k) = HandlerProofs!Found(k)
                 /\ Handler!CreateNode(k) <=> HandlerProofs!CreateNode(k)
                 /\ Handler!DeleteNode(i) <=> HandlerProofs!DeleteNode(i)
                 /\ Handler!ReplaceBuffer(i) <=> HandlerProofs!ReplaceBuffer(i)
                 /\ Handler!StoreValue(i, v) <=> HandlerProofs!StoreValue(i, v)
<1>1. \A k : Handler!Found(k) = HandlerProofs!Found(k) /\ Handler!NodeOf(k) = HandlerProofs!NodeOf(k)
  BY DEF Handler!Found, HandlerProofs!Found, Handler!NodeOf, HandlerProofs!NodeOf
<1>2. \A l : Handler!Damage(l) = HandlerProofs!Damage(l)
  BY DEF Handler!Damage, HandlerProofs!Damage
<1>3. \A k : Handler!CreateNode(k) <=> HandlerProofs!CreateNode(k)
  BY <1>1, <1>2 DEF Handler!CreateNode, HandlerProofs!CreateNode
<1>4. \A i : Handler!DeleteNode(i) <=> HandlerProofs!DeleteNode(i)
  BY DEF Handler!DeleteNode, HandlerProofs!DeleteNode, Handler!RemoveAt, HandlerProofs!RemoveAt
<1>5. \A i : Handler!ReplaceBuffer(i) <=> HandlerProofs!ReplaceBuffer(i)
  BY DEF Handler!ReplaceBuffer, HandlerProofs!ReplaceBuffer, Handler!listVars, HandlerProofs!listVars
<1>6. \A i, v : Handler!StoreValue(i, v) <=> HandlerProofs!StoreValue(i, v)
  BY DEF Handler!StoreValue, HandlerProofs!StoreValue, Handler!listVars, HandlerProofs!listVars
<1> QED
  BY <1>1, <1>3, <1>4, <1>5, <1>6

\* Of the same commands,
LEMMA NamesAre ==
    /\ Handler!ListCommands = HandlerProofs!ListCommands
    /\ Handler!Commands = HandlerProofs!Commands
    /\ Handler!NoCommand = HandlerProofs!NoCommand
    /\ Handler!ValueBytes = HandlerProofs!ValueBytes /\ Handler!Rest = HandlerProofs!Rest
    /\ \A x : Handler!Ask(x) = HandlerProofs!Ask(x)
    /\ \A c : /\ Handler!Astray(c) <=> HandlerProofs!Astray(c)
              /\ Handler!Ended(c) <=> HandlerProofs!Ended(c)
              /\ Handler!AtEnd(c) <=> HandlerProofs!AtEnd(c)
  BY DEF Handler!ListCommands, HandlerProofs!ListCommands, Handler!Commands,
     HandlerProofs!Commands, Handler!NoCommand, HandlerProofs!NoCommand, Handler!ValueBytes,
     HandlerProofs!ValueBytes, Handler!Rest, HandlerProofs!Rest, Handler!Ask, HandlerProofs!Ask,
     Handler!Astray, HandlerProofs!Astray, Handler!Ended, HandlerProofs!Ended, Handler!AtEnd,
     HandlerProofs!AtEnd

\* of the same streams,
LEMMA StreamsAre ==
    \A c, x : /\ Handler!Sends(c, x) <=> HandlerProofs!Sends(c, x)
              /\ Handler!TakeCommand(c, x) <=> HandlerProofs!TakeCommand(c, x)
              /\ Handler!TakeInvalid(c) <=> HandlerProofs!TakeInvalid(c)
              /\ Handler!TakeValue(c) <=> HandlerProofs!TakeValue(c)
<1>1. \A c, x : Handler!Sends(c, x) <=> HandlerProofs!Sends(c, x)
  BY NamesAre DEF Handler!Sends, HandlerProofs!Sends
<1>2. \A c, x : Handler!TakeCommand(c, x) <=> HandlerProofs!TakeCommand(c, x)
  BY NamesAre DEF Handler!TakeCommand, HandlerProofs!TakeCommand
<1>3. \A c : Handler!TakeInvalid(c) <=> HandlerProofs!TakeInvalid(c)
  BY NamesAre DEF Handler!TakeInvalid, HandlerProofs!TakeInvalid
<1>4. \A c : Handler!GoAstray({c}) <=> HandlerProofs!GoAstray({c})
  BY NamesAre, Zenon DEF Handler!GoAstray, HandlerProofs!GoAstray
<1>5. \A c : Handler!TakeValue(c) <=> HandlerProofs!TakeValue(c)
  BY NamesAre, <1>4 DEF Handler!TakeValue, HandlerProofs!TakeValue
<1> QED
  BY <1>1, <1>2, <1>3, <1>5

\* and of the same places.
LEMMA PlacesAre ==
    \A t, x, y : /\ Handler!Goto(t, x, y) <=> HandlerProofs!Goto(t, x, y)
                 /\ Handler!Send(t, x) <=> HandlerProofs!Send(t, x)
                 /\ Handler!Is(t, x) <=> HandlerProofs!Is(t, x)
                 /\ Handler!Key(t) = HandlerProofs!Key(t)
                 /\ Handler!Missed(t) <=> HandlerProofs!Missed(t)
                 /\ Handler!Leave(t) <=> HandlerProofs!Leave(t)
                 /\ Handler!Arrives(t, x) <=> HandlerProofs!Arrives(t, x)
<1>1. \A t, x : Handler!Send(t, x) <=> HandlerProofs!Send(t, x)
  BY StreamsAre DEF Handler!Send, HandlerProofs!Send
<1>2. \A t : Handler!Missed(t) <=> HandlerProofs!Missed(t)
  BY <1>1 DEF Handler!Missed, HandlerProofs!Missed
<1>3. \A t : Handler!Leave(t) <=> HandlerProofs!Leave(t)
  BY NamesAre DEF Handler!Leave, HandlerProofs!Leave, Handler!listVars, HandlerProofs!listVars,
     Handler!heard, HandlerProofs!heard
<1>4. \A t, x : Handler!Arrives(t, x) <=> HandlerProofs!Arrives(t, x)
  BY StreamsAre DEF Handler!Arrives, HandlerProofs!Arrives, Handler!listVars,
     HandlerProofs!listVars, Handler!lockVars, HandlerProofs!lockVars
<1>5. \A t, x, y : /\ Handler!Goto(t, x, y) <=> HandlerProofs!Goto(t, x, y)
                   /\ Handler!Is(t, x) <=> HandlerProofs!Is(t, x)
                   /\ Handler!Key(t) = HandlerProofs!Key(t)
  BY DEF Handler!Goto, HandlerProofs!Goto, Handler!Is, HandlerProofs!Is, Handler!Key,
     HandlerProofs!Key
<1> QED
  BY <1>1, <1>2, <1>3, <1>4, <1>5

\* The farewell is that of KVHandler_proofs.
LEMMA FarewellIs ==
    ASSUME NEW t \in Threads, Handler!Disconnected(t)
    PROVE  HandlerProofs!Disconnected(t)
  BY PlacesAre, NamesAre DEF Handler!Disconnected, HandlerProofs!Disconnected

\* A command is a command of KVHandler_proofs.
LEMMA CommandIs ==
    ASSUME NEW t \in Threads, Handler!Command(t)
    PROVE  HandlerProofs!Command(t)
<1>1. ASSUME Handler!ReceiveCommand(t) PROVE HandlerProofs!ReceiveCommand(t)
  BY <1>1, PlacesAre, NamesAre DEF Handler!ReceiveCommand, HandlerProofs!ReceiveCommand
<1>2. ASSUME Handler!AcquireLock(t) PROVE HandlerProofs!AcquireLock(t)
  BY <1>2 DEF Handler!AcquireLock, HandlerProofs!AcquireLock, Handler!Lock!Acquire,
     HandlerProofs!Lock!Acquire, Handler!Lock!MutexFree, HandlerProofs!Lock!MutexFree,
     Handler!Lock!ThreadsAt, HandlerProofs!Lock!ThreadsAt, Handler!listVars, HandlerProofs!listVars,
     Handler!heard, HandlerProofs!heard
<1>3. ASSUME Handler!Create(t) PROVE HandlerProofs!Create(t)
  BY <1>3, ListIs, PlacesAre, SMTT(30) DEF Handler!Create, HandlerProofs!Create,
     Handler!listVars, HandlerProofs!listVars, Handler!lockVars, HandlerProofs!lockVars,
     Handler!heard, HandlerProofs!heard
<1>4. ASSUME Handler!Read(t) PROVE HandlerProofs!Read(t)
  BY <1>4, ListIs, PlacesAre, SMTT(30) DEF Handler!Read, HandlerProofs!Read,
     Handler!listVars, HandlerProofs!listVars, Handler!lockVars, HandlerProofs!lockVars,
     Handler!heard, HandlerProofs!heard
<1>5. ASSUME Handler!Delete(t) PROVE HandlerProofs!Delete(t)
  BY <1>5, ListIs, PlacesAre, SMTT(30) DEF Handler!Delete, HandlerProofs!Delete,
     Handler!listVars, HandlerProofs!listVars, Handler!lockVars, HandlerProofs!lockVars,
     Handler!heard, HandlerProofs!heard
<1>6. ASSUME Handler!Update(t) PROVE HandlerProofs!Update(t)
  BY <1>6, ListIs, PlacesAre, SMTT(30) DEF Handler!Update, HandlerProofs!Update,
     Handler!listVars, HandlerProofs!listVars, Handler!lockVars, HandlerProofs!lockVars,
     Handler!heard, HandlerProofs!heard
<1>7. ASSUME Handler!ReceiveValue(t) PROVE HandlerProofs!ReceiveValue(t)
  BY <1>7, ListIs, PlacesAre, StreamsAre, SMTT(30) DEF Handler!ReceiveValue,
     HandlerProofs!ReceiveValue, Handler!listVars, HandlerProofs!listVars, Handler!lockVars,
     HandlerProofs!lockVars
<1>8. ASSUME Handler!ReleaseLock(t) PROVE HandlerProofs!ReleaseLock(t)
  <2>1. Handler!Lock!Release(t) => HandlerProofs!Lock!Release(t)
    BY DEF Handler!Lock!Release, HandlerProofs!Lock!Release, Handler!Lock!SignalCond,
       HandlerProofs!Lock!SignalCond, Handler!Lock!ThreadsAt, HandlerProofs!Lock!ThreadsAt
  <2> QED
    BY <1>8, <2>1, PlacesAre DEF Handler!ReleaseLock, HandlerProofs!ReleaseLock
<1>9. ASSUME Handler!Invalid(t) PROVE HandlerProofs!Invalid(t)
  BY <1>9, PlacesAre, StreamsAre DEF Handler!Invalid, HandlerProofs!Invalid, Handler!listVars,
     HandlerProofs!listVars, Handler!lockVars, HandlerProofs!lockVars, Handler!handlerVars,
     HandlerProofs!handlerVars
<1> QED
  BY <1>1, <1>2, <1>3, <1>4, <1>5, <1>6, <1>7, <1>8, <1>9 DEF Handler!Command,
     HandlerProofs!Command

\* What a client does is what KVHandler_proofs says of it.
LEMMA ClientNamesAre ==
    /\ Client!ListCommands = HandlerProofs!Client!ListCommands
    /\ Client!NoCommand = HandlerProofs!Client!NoCommand
    /\ Client!ValueBytes = HandlerProofs!Client!ValueBytes
    /\ \A x : Client!Ask(x) = HandlerProofs!Client!Ask(x)
    /\ \A c, x : /\ Client!SendPayload(c, x) <=> HandlerProofs!Client!SendPayload(c, x)
                 /\ Client!Takes(c, x) <=> HandlerProofs!Client!Takes(c, x)
                 /\ Client!WantsValue(c, x) <=> HandlerProofs!Client!WantsValue(c, x)
                 /\ Client!Done(c) <=> HandlerProofs!Client!Done(c)
<1>1. /\ Client!ListCommands = HandlerProofs!Client!ListCommands
      /\ Client!NoCommand = HandlerProofs!Client!NoCommand
      /\ Client!ValueBytes = HandlerProofs!Client!ValueBytes
      /\ \A x : Client!Ask(x) = HandlerProofs!Client!Ask(x)
  BY DEF Client!ListCommands, HandlerProofs!Client!ListCommands, Client!NoCommand,
     HandlerProofs!Client!NoCommand, Client!ValueBytes, HandlerProofs!Client!ValueBytes,
     Client!Ask, HandlerProofs!Client!Ask
<1>2. \A c, x : /\ Client!SendPayload(c, x) <=> HandlerProofs!Client!SendPayload(c, x)
                /\ Client!Takes(c, x) <=> HandlerProofs!Client!Takes(c, x)
                /\ Client!WantsValue(c, x) <=> HandlerProofs!Client!WantsValue(c, x)
  BY DEF Client!SendPayload, HandlerProofs!Client!SendPayload, Client!Takes,
     HandlerProofs!Client!Takes, Client!WantsValue, HandlerProofs!Client!WantsValue
<1>3. \A c : Client!Done(c) <=> HandlerProofs!Client!Done(c)
  BY <1>1 DEF Client!Done, HandlerProofs!Client!Done
<1> QED
  BY <1>1, <1>2, <1>3

\* So are its steps.
LEMMA ClientIs ==
    ASSUME NEW c \in Conns
    PROVE  /\ Client!ConnectSilently(c) => HandlerProofs!Client!ConnectSilently(c)
           /\ Client!TypeCommand(c) => HandlerProofs!Client!TypeCommand(c)
           /\ Client!GoesOn(c) => HandlerProofs!Client!GoesOn(c)
           /\ Client!Kill(c) => HandlerProofs!Client!Kill(c)
<1>1. Client!ConnectSilently(c) => HandlerProofs!Client!ConnectSilently(c)
  BY DEF Client!ConnectSilently, HandlerProofs!Client!ConnectSilently
<1>2. Client!TypeCommand(c) => HandlerProofs!Client!TypeCommand(c)
  BY ClientNamesAre DEF Client!TypeCommand, HandlerProofs!Client!TypeCommand
<1>3. Client!TypeDisconnect(c) => HandlerProofs!Client!TypeDisconnect(c)
  BY ClientNamesAre DEF Client!TypeDisconnect, HandlerProofs!Client!TypeDisconnect
<1>4. Client!TakeValueWanted(c) => HandlerProofs!Client!TakeValueWanted(c)
  BY ClientNamesAre DEF Client!TakeValueWanted, HandlerProofs!Client!TakeValueWanted
<1>5. Client!TakeOK(c) => HandlerProofs!Client!TakeOK(c)
  BY ClientNamesAre DEF Client!TakeOK, HandlerProofs!Client!TakeOK
<1>6. Client!TakePayload(c) => HandlerProofs!Client!TakePayload(c)
  BY ClientNamesAre DEF Client!TakePayload, HandlerProofs!Client!TakePayload
<1>7. Client!TakeValueRead(c) => HandlerProofs!Client!TakeValueRead(c)
  BY ClientNamesAre DEF Client!TakeValueRead, HandlerProofs!Client!TakeValueRead
<1>8. Client!TakeReply(c) => HandlerProofs!Client!TakeReply(c)
  BY ClientNamesAre DEF Client!TakeReply, HandlerProofs!Client!TakeReply
<1>9. Client!Kill(c) => HandlerProofs!Client!Kill(c)
  BY ClientNamesAre DEF Client!Kill, HandlerProofs!Client!Kill
<1> QED
  BY <1>1, <1>2, <1>3, <1>4, <1>5, <1>6, <1>7, <1>8, <1>9 DEF Client!GoesOn,
     HandlerProofs!Client!GoesOn, Client!Receive, HandlerProofs!Client!Receive

\* The properties speak of the same.
LEMMA PropertiesAre ==
    \A c, x : /\ Client!InStepAt(c, x) <=> HandlerProofs!InStepAt(c, x)
              /\ Client!Lost(c) <=> HandlerProofs!Lost(c)
  BY DEF Client!InStepAt, HandlerProofs!InStepAt, Client!Waits, HandlerProofs!Waits,
     Client!Answers, HandlerProofs!Answers, Client!Lost, HandlerProofs!Lost

-----------------------------------------------------------------------------
(***************************************************************************)
(* Descriptors.                                                            *)
(***************************************************************************)

\* A set of numbers up to n has a least one.
LEMMA Least ==
    ASSUME NEW n \in Nat, NEW S \in SUBSET (1 .. n), S # {}
    PROVE  \E f \in S : \A g \in 1 .. f - 1 : g \notin S
<1> DEFINE Segments == {1 .. f : f \in S}
<1>1. Segments \subseteq FiniteSubsetsOf(Nat) /\ Segments # {}
  <2>1. ASSUME NEW f \in S PROVE 1 .. f \in FiniteSubsetsOf(Nat)
    BY FS_Interval DEF FiniteSubsetsOf
  <2> QED
    BY <2>1
<1>2. PICK x \in Segments : \A y \in Segments : ~(<<y, x>> \in StrictSubsetOrdering(Nat))
  <2> HIDE DEF Segments
  <2> QED
    BY <1>1, FS_StrictSubsetOrderingWellFounded, WFMin
<1>3. PICK f \in S : x = 1 .. f
  OBVIOUS
<1>4. ASSUME NEW g \in 1 .. f - 1, g \in S PROVE FALSE
  <2>1. 1 .. g \in Segments
    BY <1>4
  <2>2. 1 .. g \subseteq 1 .. f /\ f \in 1 .. f /\ f \notin 1 .. g /\ 1 .. f \subseteq Nat
    BY <1>4
  <2>3. <<1 .. g, x>> \in StrictSubsetOrdering(Nat)
    BY <1>3, <2>2 DEF StrictSubsetOrdering
  <2> QED
    BY <1>2, <2>1, <2>3
<1> QED
  BY <1>4

\* accept returns a descriptor that is free.
LEMMA LowestIsFree ==
    ASSUME \E f \in Fds : table[f] = Closed
    PROVE  LowestFree \in Fds /\ table[LowestFree] = Closed
<1> DEFINE S == {f \in Fds : table[f] = Closed}
<1>1. NumFds \in Nat
  BY ThreadAssumption DEF ThreadAssumption
<1>2. S \in SUBSET (1 .. NumFds) /\ S # {}
  BY DEF Fds
<1> HIDE DEF S
<1>3. PICK f \in S : \A g \in 1 .. f - 1 : g \notin S
  BY <1>1, <1>2, Least
<1>4. f \in Fds /\ table[f] = Closed /\ \A g \in 1 .. f - 1 : table[g] # Closed
  <2>1. f \in 1 .. NumFds /\ table[f] = Closed
    BY <1>3 DEF S, Fds
  <2>2. ASSUME NEW g \in 1 .. f - 1 PROVE table[g] # Closed
    <3>1. g \in Fds
      BY <1>1, <2>1 DEF Fds
    <3> QED
      BY <1>3, <3>1 DEF S
  <2> QED
    BY <2>1, <2>2 DEF Fds
<1> QED
  BY <1>4 DEF LowestFree

\* 0 is no descriptor and no connection, and the two kinds of threads differ.
LEMMA Constants ==
    /\ BadFd \notin Fds /\ Closed \notin Conns
    /\ \A t \in Threads : t \in Conns <=> t \notin Failed
  BY ThreadAssumption DEF ThreadAssumption, BadFd, Fds, Threads

-----------------------------------------------------------------------------
(***************************************************************************)
(* Conversations that go astray.                                           *)
(***************************************************************************)

\* They are over, and the others are left alone.
LEMMA GoneAstray ==
    ASSUME HandlerProofs!StreamOK, NEW C \in SUBSET Conns, Client!GoAstray(C)
    PROVE  /\ HandlerProofs!StreamOK'
           /\ \A c \in C : client'[c] = "astray" /\ down'[c] = <<>>
           /\ \A d \in Conns \ C : HandlerProofs!Same(d)
           /\ \A d \in Conns : client[d] = "astray" => client'[d] = "astray"
<1>1. /\ client' = [c \in Conns |-> IF c \in C THEN "astray" ELSE client[c]]
      /\ request' = [c \in Conns |-> IF c \in C THEN HandlerProofs!NoCommand ELSE request[c]]
      /\ up' = [c \in Conns |-> IF c \in C THEN <<>> ELSE up[c]]
      /\ down' = [c \in Conns |-> IF c \in C THEN <<>> ELSE down[c]]
      /\ fate' = [c \in Conns |-> IF c \in C THEN "none" ELSE fate[c]]
  BY ClientNamesAre DEF Client!GoAstray, Client!NoCommand, HandlerProofs!NoCommand, Client!Ask,
     HandlerProofs!Ask
<1>2. \A S : <<>> \in Seq(S)
  OBVIOUS
<1>3. HandlerProofs!StreamOK'
  BY <1>1, <1>2 DEF HandlerProofs!StreamOK, HandlerProofs!ClientPlace, HandlerProofs!Fates
<1>4. \A d \in Conns \ C : HandlerProofs!Same(d)
  BY <1>1 DEF HandlerProofs!Same
<1> QED
  BY <1>1, <1>3, <1>4

\* Nothing reaches the client of a conversation that is astray.
LEMMA OverIfAstray ==
    ASSUME NEW pl \in HandlerProofs!HandlerPlace, NEW load, NEW rq, NEW ts, NEW tc, NEW ft,
           HandlerProofs!Talk(pl, load, "astray", rq, ts, tc, ft)
    PROVE  tc = <<>>
  BY DEF HandlerProofs!HandlerPlace, HandlerProofs!Talk, HandlerProofs!Over,
     HandlerProofs!Settled, HandlerProofs!Answering, HandlerProofs!Robbed,
     HandlerProofs!Asked, HandlerProofs!ValueAsked, HandlerProofs!ValueDue

\* No command of a thread brings a client back.
LEMMA StaysAstray ==
    ASSUME NEW t \in Threads, HandlerProofs!Command(t), HandlerProofs!StreamOK,
           NEW d \in Conns, client[d] = "astray"
    PROVE  client'[d] = "astray"
<1>1. CASE HandlerProofs!ReceiveValue(t)
  <2>1. ASSUME NEW c \in Conns, HandlerProofs!TakeValue(c) PROVE client'[d] = "astray"
    BY <2>1 DEF HandlerProofs!TakeValue, HandlerProofs!GoAstray
  <2> QED
    BY <1>1, <2>1 DEF HandlerProofs!ReceiveValue
<1>2. CASE HandlerProofs!Invalid(t)
  BY <1>2 DEF HandlerProofs!Invalid, HandlerProofs!TakeInvalid
<1>3. CASE HandlerProofs!ReceiveCommand(t)
  BY <1>3 DEF HandlerProofs!ReceiveCommand, HandlerProofs!Arrives, HandlerProofs!TakeCommand
<1>4. CASE \/ HandlerProofs!AcquireLock(t) \/ HandlerProofs!Create(t) \/ HandlerProofs!Read(t)
           \/ HandlerProofs!Delete(t) \/ HandlerProofs!Update(t) \/ HandlerProofs!ReleaseLock(t)
  BY <1>4 DEF HandlerProofs!AcquireLock, HandlerProofs!Create, HandlerProofs!Read,
     HandlerProofs!Delete, HandlerProofs!Update, HandlerProofs!ReleaseLock,
     HandlerProofs!Leave, HandlerProofs!heard
<1> QED
  BY <1>1, <1>2, <1>3, <1>4 DEF HandlerProofs!Command
\* A client that goes on has not gone astray, and does not.
LEMMA ClientGoesOn ==
    ASSUME NEW c \in Conns, HandlerProofs!StreamOK,
           \/ HandlerProofs!Client!ConnectSilently(c) \/ HandlerProofs!Client!TypeCommand(c)
           \/ HandlerProofs!Client!GoesOn(c) \/ HandlerProofs!Client!Kill(c)
    PROVE  client[c] # "astray" /\ client'[c] # "astray"
<1>1. client \in [Conns -> HandlerProofs!ClientPlace]
  BY DEF HandlerProofs!StreamOK
<1>2. CASE HandlerProofs!Client!ConnectSilently(c) \/ HandlerProofs!Client!Kill(c)
  BY <1>1, <1>2 DEF HandlerProofs!Client!ConnectSilently, HandlerProofs!Client!Kill
<1>3. CASE HandlerProofs!Client!TypeCommand(c) \/ HandlerProofs!Client!TypeDisconnect(c)
  BY <1>1, <1>3 DEF HandlerProofs!Client!TypeCommand, HandlerProofs!Client!TypeDisconnect,
     HandlerProofs!Client!SendPayload
<1>4. HandlerProofs!Client!Done(c) => client'[c] # "astray"
  BY <1>1 DEF HandlerProofs!Client!Done
<1>5. CASE HandlerProofs!Client!Receive(c)
  BY <1>1, <1>4, <1>5 DEF HandlerProofs!Client!Receive, HandlerProofs!Client!TakeValueWanted,
     HandlerProofs!Client!TakeOK, HandlerProofs!Client!TakePayload,
     HandlerProofs!Client!TakeValueRead, HandlerProofs!Client!TakeReply
<1> QED
  BY <1>2, <1>3, <1>5 DEF HandlerProofs!Client!GoesOn
-----------------------------------------------------------------------------
(***************************************************************************)
(* The steps.                                                              *)
(***************************************************************************)

\* Nobody has connected, and no thread has been made.
LEMMA InitServerInv == Init => ServerInv
<1> SUFFICES ASSUME Init PROVE ServerInv
  OBVIOUS
<1>1. /\ slot = BadFd /\ table = [f \in Fds |-> Closed]
      /\ life = [t \in Threads |-> "none"] /\ fd = [t \in Threads |-> BadFd]
      /\ alive = TRUE
      /\ pc = [t \in Threads |-> "recv"]
      /\ payload = [t \in Threads |-> HandlerProofs!NoCommand]
      /\ client = [c \in Conns |-> "start"]
      /\ request = [c \in Conns |-> HandlerProofs!NoCommand]
      /\ up = [c \in Conns |-> <<>>] /\ down = [c \in Conns |-> <<>>]
      /\ fate = [c \in Conns |-> "none"]
  BY NamesAre DEF Init, Handler!InitHandler, Client!InitClients, Client!NoCommand,
     Handler!NoCommand, Client!Ask, Handler!Ask
<1>2. HandlerProofs!TalkOK
  <2>1. \A S : <<>> \in Seq(S)
    OBVIOUS
  <2> QED
    BY <1>1, <2>1 DEF HandlerProofs!TalkOK, HandlerProofs!StreamOK, HandlerProofs!HandlerPlace,
       HandlerProofs!ClientPlace, HandlerProofs!Fates
<1>3. ServerTypeOK /\ NotYet
  BY <1>1 DEF ServerTypeOK, NotYet
<1>4. Awaited
  <2>1. \A c \in Conns : c \in Threads
    BY DEF Threads
  <2> QED
    BY <1>1, <2>1 DEF Awaited, HandlerProofs!Unserved, HandlerProofs!NotServed
<1>5. SoleReader /\ Talks
  BY <1>1, Constants DEF SoleReader, Talks, ConnOf
<1>6. AstrayQuiet /\ DiesOfLostClient
  BY <1>1 DEF AstrayQuiet, DiesOfLostClient
<1> QED
  BY <1>2, <1>3, <1>4, <1>5, <1>6 DEF ServerInv

\* The descriptor of a connection, and a thread that has it
LEMMA HasDescriptor ==
    ASSUME NEW t \in Threads, NEW c \in Conns, ConnOf(t) = c
    PROVE  fd[t] \in Fds /\ table[fd[t]] = c
  BY Constants DEF ConnOf

\* A connection that a thread reads from is astray, or the thread's own.
LEMMA OwnConnection ==
    ASSUME ServerInv, NEW t \in Threads, NEW c \in Conns, ConnOf(t) = c, client[c] # "astray"
    PROVE  t = c /\ life[c] = "running"
<1>1. fd[t] \in Fds /\ table[fd[t]] = c
  BY HasDescriptor
<1>2. t = c
  BY <1>1 DEF ServerInv, SoleReader
<1> QED
  BY <1>1, <1>2, Constants DEF ServerInv, NotYet

\* What a step of a thread with its client leaves of the others' conversations
LEMMA OthersLeftAlone ==
    ASSUME ServerInv, NEW t \in Threads, NEW c \in Conns, ConnOf(t) = c,
           HandlerProofs!Frame(t, c), NEW d \in Conns, d # c
    PROVE  /\ HandlerProofs!Unserved(d) => HandlerProofs!Unserved(d)'
           /\ \A u \in Threads : u # t /\ HandlerProofs!Conversation(u, d) =>
                  HandlerProofs!Conversation(u, d)'
           /\ client'[d] = client[d] /\ down'[d] = down[d]
<1>1. /\ HandlerProofs!Same(d)
      /\ \A u \in Threads \ {t} : pc'[u] = pc[u] /\ payload'[u] = payload[u]
  BY DEF HandlerProofs!Frame
<1> QED
  BY <1>1 DEF HandlerProofs!Same, HandlerProofs!Unserved, HandlerProofs!Conversation

\* A thread that talks to its client keeps the invariant.
LEMMA ServingKeeps ==
    ASSUME ServerInv, alive, NEW t \in Threads, life[t] = "running",
           NEW c \in Conns, ConnOf(t) = c,
           HandlerProofs!Frame(t, c), HandlerProofs!Conversation(t, c)',
           client[c] = "astray" => client'[c] = "astray", UNCHANGED serverVars
    PROVE  ServerInv'
<1>1. /\ slot' = slot /\ table' = table /\ life' = life /\ fd' = fd
      /\ HandlerProofs!TalkOK' /\ ServerTypeOK
      /\ \A u \in Threads \ {t} : pc'[u] = pc[u]
  BY DEF serverVars, ServerInv, HandlerProofs!Frame
<1>2. ServerTypeOK' /\ NotYet'
  BY <1>1 DEF ServerInv, ServerTypeOK, NotYet
<1>3. client'[c] # "start"
  BY <1>1, HandlerProofs!StillConnected
<1>4. client'[c] = "astray" => down'[c] = <<>>
  <2>1. /\ HandlerProofs!Talk(pc'[t], payload'[t], client'[c], request'[c], up'[c], down'[c], fate'[c])
        /\ pc'[t] \in HandlerProofs!HandlerPlace
    BY <1>1 DEF HandlerProofs!Conversation, HandlerProofs!TalkOK
  <2> QED
    BY <2>1, OverIfAstray
<1>5. AstrayQuiet'
  BY <1>4, OthersLeftAlone DEF ServerInv, AstrayQuiet
<1>6. Awaited'
  <2>1. ASSUME NEW d \in Conns, life[d] # "running" PROVE HandlerProofs!Unserved(d)'
    <3>1. CASE d # c
      BY <2>1, <3>1, OthersLeftAlone DEF ServerInv, Awaited
    <3>2. CASE d = c
      <4>1. client'[c] = "astray" /\ down'[c] = <<>>
        BY <1>4, <2>1, <3>2, OwnConnection
      <4> QED
        BY <3>2, <4>1 DEF HandlerProofs!Unserved, HandlerProofs!NotServed, HandlerProofs!Over
    <3> QED
      BY <3>1, <3>2
  <2>2. ASSUME NEW d \in Conns, client'[d] = "start" PROVE life[d] = "none"
    BY <1>3, <2>2, OthersLeftAlone DEF ServerInv, Awaited
  <2> QED
    BY <1>1, <2>1, <2>2 DEF Awaited
<1>7. SoleReader'
  <2>1. ASSUME NEW d \in Conns, client'[d] # "astray" PROVE client[d] # "astray"
    BY <2>1, OthersLeftAlone
  <2> QED
    BY <1>1, <2>1 DEF ServerInv, SoleReader
<1>8. Talks'
  <2> SUFFICES ASSUME NEW u \in Threads, NEW d \in Conns, ConnOf(u)' = d
               PROVE  HandlerProofs!Conversation(u, d)'
    BY DEF Talks
  <2>1. ConnOf(u) = d /\ HandlerProofs!Conversation(u, d)
    BY <1>1 DEF ConnOf, ServerInv, Talks
  <2>2. CASE d # c /\ u # t
    BY <2>1, <2>2, OthersLeftAlone
  <2>3. CASE u = t
    BY <2>1, <2>3
  <2>4. CASE d = c /\ u # t
    <3>1. client'[c] = "astray" /\ down'[c] = <<>>
      BY <1>4, <2>1, <2>4, OwnConnection
    <3> QED
      BY <2>4, <3>1 DEF HandlerProofs!Conversation, HandlerProofs!Talk, HandlerProofs!Over
  <2> QED
    BY <2>2, <2>3, <2>4
<1>9. DiesOfLostClient'
  BY DEF HandlerProofs!Frame, DiesOfLostClient, Client!Lost, HandlerProofs!Lost
<1> QED
  BY <1>1, <1>2, <1>5, <1>6, <1>7, <1>8, <1>9 DEF ServerInv

\* Every command keeps it.
LEMMA CommandKeeps ==
    ASSUME ServerInv, NEW t \in Threads, Command(t)
    PROVE  ServerInv'
<1>1. /\ life[t] = "running" /\ alive /\ HandlerProofs!Command(t) /\ UNCHANGED serverVars
      /\ HandlerProofs!TalkOK /\ HandlerProofs!StreamOK
  BY CommandIs DEF Command, Runs, ServerInv, HandlerProofs!TalkOK
<1>2. CASE ConnOf(t) \in Conns
  <2>1. PICK c \in Conns : c = ConnOf(t)
    BY <1>2
  <2>2. HandlerProofs!Conversation(t, c)
    BY <2>1 DEF ServerInv, Talks
  <2>3. HandlerProofs!Frame(t, c) /\ HandlerProofs!Conversation(t, c)'
    BY <1>1, <2>1, <2>2, HandlerProofs!CommandKeeps
  <2>4. client[c] = "astray" => client'[c] = "astray"
    BY <1>1, StaysAstray
  <2> QED
    BY <1>1, <2>1, <2>3, <2>4, ServingKeeps
<1>3. CASE ConnOf(t) \notin Conns
  <2>1. /\ HandlerProofs!TalkOK' /\ UNCHANGED <<client, request, up, down, fate, alive>>
        /\ \A u \in Threads \ {t} : pc'[u] = pc[u] /\ payload'[u] = payload[u]
    BY <1>1, <1>3, HandlerProofs!DetachedKeeps
  <2>2. slot' = slot /\ table' = table /\ life' = life /\ fd' = fd
    BY <1>1 DEF serverVars
  <2>3. ServerTypeOK' /\ NotYet' /\ SoleReader' /\ AstrayQuiet'
    BY <1>1, <2>1, <2>2 DEF ServerInv, ServerTypeOK, NotYet, SoleReader, AstrayQuiet
  <2>4. Awaited'
    BY <2>1, <2>2 DEF ServerInv, Awaited, HandlerProofs!Unserved
  <2>5. Talks'
    BY <1>3, <2>1, <2>2 DEF ServerInv, Talks, ConnOf, HandlerProofs!Conversation
  <2>6. DiesOfLostClient'
    BY <1>1, <2>1 DEF DiesOfLostClient
  <2> QED
    BY <2>1, <2>3, <2>4, <2>5, <2>6 DEF ServerInv
<1> QED
  BY <1>2, <1>3

\* After DISCONNECT nobody is behind the descriptor that the thread keeps.
LEMMA DisconnectKeeps ==
    ASSUME ServerInv, NEW t \in Threads, Disconnect(t)
    PROVE  ServerInv'
<1>1. /\ life[t] = "running" /\ alive /\ HandlerProofs!Disconnected(t)
      /\ table' = [table EXCEPT ![fd[t]] = Closed] /\ slot' = slot /\ life' = life /\ fd' = fd
      /\ HandlerProofs!TalkOK /\ ServerTypeOK
  BY FarewellIs DEF Disconnect, Runs, ServerInv
<1>2. PICK c \in Conns : c = ConnOf(t)
  BY <1>1 DEF HandlerProofs!Disconnected, HandlerProofs!Arrives
<1>3. HandlerProofs!Conversation(t, c) /\ fd[t] \in Fds /\ table[fd[t]] = c
  BY <1>2, HasDescriptor DEF ServerInv, Talks
<1>4. /\ HandlerProofs!Frame(t, c) /\ HandlerProofs!Left(c)' /\ pc' = pc /\ payload' = payload
      /\ HandlerProofs!Over(client[c], down[c]) => HandlerProofs!Over(client[c], down[c])'
  BY <1>1, <1>2, <1>3, HandlerProofs!DisconnectedLeaves
<1>5. client' = client
  BY <1>1 DEF HandlerProofs!Disconnected, HandlerProofs!Arrives, HandlerProofs!TakeCommand
<1>6. HandlerProofs!TalkOK' /\ ServerTypeOK' /\ NotYet'
  BY <1>1, <1>4 DEF HandlerProofs!Frame, ServerInv, ServerTypeOK, NotYet
<1>7. client[c] = "astray" => down'[c] = <<>>
  BY <1>4, <1>5 DEF ServerInv, AstrayQuiet, HandlerProofs!Over
<1>8. AstrayQuiet'
  BY <1>2, <1>4, <1>5, <1>7, OthersLeftAlone DEF ServerInv, AstrayQuiet
<1>9. Awaited'
  <2>1. ASSUME NEW d \in Conns, life[d] # "running" PROVE HandlerProofs!Unserved(d)'
    <3>1. CASE d # c
      BY <1>2, <1>4, <2>1, <3>1, OthersLeftAlone DEF ServerInv, Awaited
    <3>2. CASE d = c
      <4>1. client'[c] = "astray" /\ down'[c] = <<>>
        BY <1>2, <1>5, <1>7, <2>1, <3>2, OwnConnection
      <4> QED
        BY <3>2, <4>1 DEF HandlerProofs!Unserved, HandlerProofs!NotServed, HandlerProofs!Over
    <3> QED
      BY <3>1, <3>2
  <2> QED
    BY <1>1, <1>5, <2>1 DEF ServerInv, Awaited
<1>10. SoleReader'
  BY <1>1, <1>3, <1>5, Constants DEF ServerInv, SoleReader, ServerTypeOK
<1>11. Talks'
  <2> SUFFICES ASSUME NEW u \in Threads, NEW d \in Conns, ConnOf(u)' = d
               PROVE  HandlerProofs!Conversation(u, d)'
    BY DEF Talks
  <2>1. fd[u] # fd[t] /\ ConnOf(u) = d
    BY <1>1, <1>3, Constants DEF ConnOf, ServerTypeOK
  <2>2. u # t /\ HandlerProofs!Conversation(u, d)
    BY <2>1 DEF ServerInv, Talks
  <2>3. CASE d # c
    BY <1>2, <1>4, <2>2, <2>3, OthersLeftAlone
  <2>4. CASE d = c
    <3>1. client[c] = "astray"
      BY <1>2, <2>1, <2>2, <2>4, OwnConnection
    <3>2. client'[c] = "astray" /\ down'[c] = <<>>
      BY <1>5, <1>7, <3>1
    <3> QED
      BY <2>4, <3>2 DEF HandlerProofs!Conversation, HandlerProofs!Talk, HandlerProofs!Over
  <2> QED
    BY <2>3, <2>4
<1>12. DiesOfLostClient'
  BY <1>1, <1>4 DEF HandlerProofs!Frame, DiesOfLostClient, Client!Lost, HandlerProofs!Lost
<1> QED
  BY <1>6, <1>8, <1>9, <1>10, <1>11, <1>12 DEF ServerInv

\* Conversations that go astray, while no thread does anything for a client
LEMMA StreamsAfter ==
    ASSUME ServerInv, NEW C \in SUBSET Conns, Client!GoAstray(C), UNCHANGED <<pc, payload>>
    PROVE  /\ HandlerProofs!TalkOK' /\ AstrayQuiet'
           /\ \A d \in Conns : HandlerProofs!Unserved(d) => HandlerProofs!Unserved(d)'
           /\ \A d \in Conns, u \in Threads :
                  HandlerProofs!Conversation(u, d) => HandlerProofs!Conversation(u, d)'
           /\ \A d \in Conns : client'[d] # "astray" => d \notin C /\ client[d] # "astray"
           /\ \A d \in Conns : client'[d] = "start" => client[d] = "start"
           /\ \A d \in C, u \in Threads : HandlerProofs!Conversation(u, d)'
<1>1. /\ HandlerProofs!StreamOK'
      /\ \A c \in C : client'[c] = "astray" /\ down'[c] = <<>>
      /\ \A d \in Conns \ C : HandlerProofs!Same(d)
      /\ \A d \in Conns : client[d] = "astray" => client'[d] = "astray"
  BY GoneAstray DEF ServerInv, HandlerProofs!TalkOK
<1>2. HandlerProofs!TalkOK'
  BY <1>1 DEF ServerInv, HandlerProofs!TalkOK
<1>3. AstrayQuiet'
  BY <1>1 DEF ServerInv, AstrayQuiet, HandlerProofs!Same
<1>4. ASSUME NEW d \in Conns
      PROVE  /\ HandlerProofs!Unserved(d) => HandlerProofs!Unserved(d)'
             /\ \A u \in Threads :
                    d \in C \/ HandlerProofs!Conversation(u, d) => HandlerProofs!Conversation(u, d)'
             /\ client'[d] = "start" => client[d] = "start"
  <2>1. CASE d \in C
    BY <1>1, <2>1 DEF HandlerProofs!Unserved, HandlerProofs!NotServed,
       HandlerProofs!Conversation, HandlerProofs!Talk, HandlerProofs!Over
  <2>2. CASE d \notin C
    BY <1>1, <2>2 DEF HandlerProofs!Same, HandlerProofs!Unserved, HandlerProofs!Conversation
  <2> QED
    BY <2>1, <2>2
<1> QED
  BY <1>1, <1>2, <1>3, <1>4

\* A thread that reads main's variable may find another's descriptor, whose
\* conversation then goes astray.
LEMMA ReadArgumentKeeps ==
    ASSUME ServerInv, NEW t \in Threads, ReadArgument(t)
    PROVE  ServerInv'
<1> DEFINE C == Mistaken(t)
<1>1. /\ life[t] = "starting" /\ life' = [life EXCEPT ![t] = "running"]
      /\ fd' = [fd EXCEPT ![t] = slot] /\ slot' = slot /\ table' = table
      /\ alive /\ alive' = alive /\ pc' = pc /\ payload' = payload
      /\ Client!GoAstray(C) /\ C \in SUBSET Conns /\ ServerTypeOK
  BY DEF ReadArgument, handlerVars, Mistaken, ServerInv
<1>2. /\ HandlerProofs!TalkOK' /\ AstrayQuiet'
      /\ \A d \in Conns : HandlerProofs!Unserved(d) => HandlerProofs!Unserved(d)'
      /\ \A d \in Conns, u \in Threads :
             HandlerProofs!Conversation(u, d) => HandlerProofs!Conversation(u, d)'
      /\ \A d \in Conns : client'[d] # "astray" => d \notin C /\ client[d] # "astray"
      /\ \A d \in Conns : client'[d] = "start" => client[d] = "start"
      /\ \A d \in C, u \in Threads : HandlerProofs!Conversation(u, d)'
  <2> HIDE DEF C
  <2> QED
    BY <1>1, StreamsAfter
<1>3. ASSUME NEW c \in Conns, slot \in Fds, table[slot] = c, c \notin C
      PROVE  t = c /\ \A u \in Threads : fd[u] # slot
  BY <1>3 DEF Mistaken
<1> HIDE DEF C
<1>4. ServerTypeOK' /\ NotYet'
  BY <1>1 DEF ServerInv, ServerTypeOK, NotYet
<1>5. Awaited'
  <2>1. \A c \in Conns : c \in Threads
    BY DEF Threads
  <2>2. \A c \in Conns : life'[c] # "running" => life[c] # "running"
    BY <1>1, <2>1 DEF ServerTypeOK
  <2>3. \A c \in Conns : client'[c] = "start" => c # t
    BY <1>1, <1>2 DEF ServerInv, Awaited
  <2> QED
    BY <1>1, <1>2, <2>1, <2>2, <2>3 DEF ServerInv, Awaited, ServerTypeOK
<1>6. SoleReader'
  <2> SUFFICES ASSUME NEW f \in Fds, NEW c \in Conns, NEW u \in Threads,
                      table[f] = c, client'[c] # "astray", fd'[u] = f
               PROVE  u = c
    BY <1>1 DEF SoleReader
  <2>1. c \notin C /\ client[c] # "astray"
    BY <1>2
  <2>2. CASE slot = f
    BY <1>1, <1>3, <2>1, <2>2 DEF ServerTypeOK
  <2>3. CASE slot # f
    BY <1>1, <2>1, <2>3 DEF ServerInv, SoleReader, ServerTypeOK
  <2> QED
    BY <2>2, <2>3
<1>7. Talks'
  <2> SUFFICES ASSUME NEW u \in Threads, NEW c \in Conns, ConnOf(u)' = c
               PROVE  HandlerProofs!Conversation(u, c)'
    BY DEF Talks
  <2>1. CASE u # t
    <3>1. ConnOf(u) = c
      BY <1>1, <2>1 DEF ConnOf, ServerTypeOK
    <3> QED
      BY <1>2, <3>1 DEF ServerInv, Talks
  <2>2. CASE u = t
    <3>1. slot \in Fds /\ table[slot] = c
      BY <1>1, <2>2, Constants DEF ConnOf, ServerTypeOK
    <3>2. CASE c \notin C
      <4>1. t = c
        BY <1>3, <3>1, <3>2
      <4>2. pc[t] = "recv" /\ HandlerProofs!Unserved(c) /\ client[c] # "start"
        BY <1>1, <4>1 DEF ServerInv, NotYet, Awaited
      <4> QED
        BY <1>2, <2>2, <4>2, HandlerProofs!FirstRequest
    <3>3. CASE c \in C
      BY <1>2, <3>3
    <3> QED
      BY <3>2, <3>3
  <2> QED
    BY <2>1, <2>2
<1>8. DiesOfLostClient'
  BY <1>1 DEF DiesOfLostClient
<1> QED
  BY <1>2, <1>4, <1>5, <1>6, <1>7, <1>8 DEF ServerInv

\* A thread that still has the number that accept returns finds the new client there,
\* whose conversation goes astray.
LEMMA AcceptKeeps ==
    ASSUME ServerInv, NEW c \in Conns, Accept(c)
    PROVE  ServerInv'
<1> DEFINE C == IF \E t \in Threads : fd[t] = LowestFree THEN {c} ELSE {}
<1>1. /\ life[c] = "none" /\ life' = [life EXCEPT ![c] = "starting"] /\ c \in Threads
      /\ slot' = LowestFree /\ table' = [table EXCEPT ![LowestFree] = c] /\ fd' = fd
      /\ LowestFree \in Fds /\ table[LowestFree] = Closed
      /\ alive /\ alive' = alive /\ pc' = pc /\ payload' = payload /\ client[c] # "start"
      /\ Client!GoAstray(C) /\ C \in SUBSET Conns /\ ServerTypeOK
  BY LowestIsFree DEF Accept, Start, handlerVars, ServerInv, Threads
<1>2. /\ HandlerProofs!TalkOK' /\ AstrayQuiet'
      /\ \A d \in Conns : HandlerProofs!Unserved(d) => HandlerProofs!Unserved(d)'
      /\ \A d \in Conns, u \in Threads :
             HandlerProofs!Conversation(u, d) => HandlerProofs!Conversation(u, d)'
      /\ \A d \in Conns : client'[d] # "astray" => d \notin C /\ client[d] # "astray"
      /\ \A d \in Conns : client'[d] = "start" => client[d] = "start"
      /\ \A d \in C, u \in Threads : HandlerProofs!Conversation(u, d)'
  <2> HIDE DEF C
  <2> QED
    BY <1>1, StreamsAfter
<1>3. ASSUME c \notin C PROVE \A u \in Threads : fd[u] # LowestFree
  BY <1>3
<1> HIDE DEF C
<1>4. ServerTypeOK' /\ NotYet'
  BY <1>1 DEF ServerInv, ServerTypeOK, NotYet
<1>5. Awaited'
  <2>1. \A d \in Conns : d \in Threads
    BY DEF Threads
  <2>2. \A d \in Conns : client'[d] = "start" => d # c
    BY <1>1, <1>2
  <2> QED
    BY <1>1, <1>2, <2>1, <2>2 DEF ServerInv, Awaited, ServerTypeOK
<1>6. ASSUME NEW f \in Fds, NEW d \in Conns, table'[f] = d, f # LowestFree
      PROVE  table[f] = d
  BY <1>1, <1>6 DEF ServerTypeOK
<1>7. table'[LowestFree] = c
  BY <1>1 DEF ServerTypeOK
<1>8. SoleReader'
  <2> SUFFICES ASSUME NEW f \in Fds, NEW d \in Conns, NEW u \in Threads,
                      table'[f] = d, client'[d] # "astray", fd[u] = f
               PROVE  u = d
    BY <1>1 DEF SoleReader
  <2>1. d \notin C /\ client[d] # "astray"
    BY <1>2
  <2>2. f # LowestFree
    BY <1>3, <1>7, <2>1
  <2> QED
    BY <1>6, <2>1, <2>2 DEF ServerInv, SoleReader
<1>9. Talks'
  <2> SUFFICES ASSUME NEW u \in Threads, NEW d \in Conns, ConnOf(u)' = d
               PROVE  HandlerProofs!Conversation(u, d)'
    BY DEF Talks
  <2>1. fd[u] \in Fds /\ table'[fd[u]] = d
    BY <1>1, Constants DEF ConnOf
  <2>2. CASE fd[u] = LowestFree
    BY <1>2, <1>3, <1>7, <2>1, <2>2
  <2>3. CASE fd[u] # LowestFree
    <3>1. ConnOf(u) = d
      BY <1>6, <2>1, <2>3 DEF ConnOf
    <3> QED
      BY <1>2, <3>1 DEF ServerInv, Talks
  <2> QED
    BY <2>2, <2>3
<1>10. DiesOfLostClient'
  BY <1>1 DEF DiesOfLostClient
<1> QED
  BY <1>2, <1>4, <1>5, <1>8, <1>9, <1>10 DEF ServerInv

\* Nothing is done for a client.
LEMMA IdleKeeps ==
    ASSUME ServerInv, ServerTypeOK',
           UNCHANGED <<table, fd, pc, payload, client, request, up, down, fate, alive>>,
           \A t \in Threads : /\ life'[t] = "running" <=> life[t] = "running"
                              /\ t \in Conns => life'[t] = life[t]
    PROVE  ServerInv'
<1>1. HandlerProofs!TalkOK' /\ NotYet' /\ SoleReader' /\ AstrayQuiet'
  BY DEF ServerInv, HandlerProofs!TalkOK, HandlerProofs!StreamOK, NotYet, SoleReader, AstrayQuiet
<1>2. Awaited'
  BY DEF ServerInv, Awaited, HandlerProofs!Unserved, Threads
<1>3. Talks'
  BY DEF ServerInv, Talks, ConnOf, HandlerProofs!Conversation
<1>4. DiesOfLostClient'
  BY DEF ServerInv, DiesOfLostClient, Client!Lost
<1> QED
  BY <1>1, <1>2, <1>3, <1>4 DEF ServerInv

\* A thread that is created for nobody
LEMMA AcceptFailsKeeps ==
    ASSUME ServerInv, NEW t \in Failed, AcceptFails(t)
    PROVE  ServerInv'
<1>1. /\ life[t] = "none" /\ life' = [life EXCEPT ![t] = "starting"] /\ slot' = BadFd
      /\ UNCHANGED <<table, fd, pc, payload, client, request, up, down, fate, alive>>
      /\ t \in Threads /\ t \notin Conns /\ ServerTypeOK
  BY Constants DEF AcceptFails, Start, handlerVars, Threads, ServerInv
<1>2. ServerTypeOK'
  BY <1>1 DEF ServerTypeOK
<1>3. \A u \in Threads : /\ life'[u] = "running" <=> life[u] = "running"
                         /\ u \in Conns => life'[u] = life[u]
  BY <1>1 DEF ServerTypeOK
<1> QED
  BY <1>1, <1>2, <1>3, IdleKeeps

\* Nothing changes.
LEMMA StutterKeeps == ServerInv /\ UNCHANGED vars => ServerInv'
<1> SUFFICES ASSUME ServerInv, UNCHANGED vars PROVE ServerInv'
  OBVIOUS
<1>1. UNCHANGED <<slot, table, life, fd, alive, pc, payload, client, request, up, down, fate>>
  BY DEF vars, serverVars, handlerVars, streamVars
<1>2. ServerTypeOK'
  BY <1>1 DEF ServerInv, ServerTypeOK
<1> QED
  BY <1>1, <1>2, IdleKeeps

\* The clients keep the invariant.
LEMMA ClientsKeep == ServerInv /\ Clients => ServerInv'
<1> SUFFICES ASSUME ServerInv, Clients PROVE ServerInv'
  OBVIOUS
<1>1. PICK c \in Conns :
         \/ HandlerProofs!Client!ConnectSilently(c) \/ HandlerProofs!Client!TypeCommand(c)
         \/ HandlerProofs!Client!GoesOn(c) \/ HandlerProofs!Client!Kill(c)
  BY ClientIs DEF Clients
<1>2. /\ alive /\ alive' = alive /\ pc' = pc /\ payload' = payload
      /\ slot' = slot /\ table' = table /\ life' = life /\ fd' = fd
      /\ HandlerProofs!TalkOK /\ HandlerProofs!StreamOK /\ ServerTypeOK
  BY DEF Clients, handlerVars, serverVars, ServerInv, HandlerProofs!TalkOK
<1>3. /\ HandlerProofs!StreamOK' /\ \A d \in Conns \ {c} : HandlerProofs!Same(d)
      /\ client'[c] # "start"
      /\ HandlerProofs!Unserved(c) => HandlerProofs!Unserved(c)'
      /\ \A pl \in HandlerProofs!HandlerPlace : \A load :
             HandlerProofs!Talk(pl, load, client[c], request[c], up[c], down[c], fate[c]) =>
                 HandlerProofs!Talk(pl, load, client'[c], request'[c], up'[c], down'[c], fate'[c])
  <2>1. CASE HandlerProofs!Client!ConnectSilently(c)
    <3>1. /\ HandlerProofs!StreamOK' /\ \A d \in Conns \ {c} : HandlerProofs!Same(d)
          /\ client[c] = "start" /\ client'[c] # "start"
          /\ HandlerProofs!Unserved(c) => HandlerProofs!Unserved(c)'
      BY <1>2, <2>1, HandlerProofs!ConnectKeeps
    <3>2. \A pl \in HandlerProofs!HandlerPlace : \A load :
              ~HandlerProofs!Talk(pl, load, client[c], request[c], up[c], down[c], fate[c])
      BY <3>1, HandlerProofs!TalkConnected
    <3> QED
      BY <3>1, <3>2
  <2>2. CASE \/ HandlerProofs!Client!TypeCommand(c) \/ HandlerProofs!Client!GoesOn(c)
             \/ HandlerProofs!Client!Kill(c)
    <3>1. HandlerProofs!ClientKeeps(c)
      BY <1>2, <2>2, HandlerProofs!ClientStepKeeps
    <3> QED
      BY <3>1 DEF HandlerProofs!ClientKeeps
  <2> QED
    BY <1>1, <2>1, <2>2
<1>4. client[c] # "astray" /\ client'[c] # "astray"
  BY <1>1, <1>2, ClientGoesOn
<1>5. ServerTypeOK' /\ NotYet' /\ HandlerProofs!TalkOK'
  BY <1>2, <1>3 DEF ServerInv, ServerTypeOK, NotYet, HandlerProofs!TalkOK
<1>6. AstrayQuiet'
  BY <1>3, <1>4 DEF HandlerProofs!Same, ServerInv, AstrayQuiet
<1>7. Awaited'
  <2>1. ASSUME NEW d \in Conns, HandlerProofs!Unserved(d) PROVE HandlerProofs!Unserved(d)'
    BY <1>3, <2>1 DEF HandlerProofs!Same, HandlerProofs!Unserved
  <2>2. \A d \in Conns : client'[d] = "start" => client[d] = "start"
    BY <1>3 DEF HandlerProofs!Same
  <2> QED
    BY <1>2, <2>1, <2>2 DEF ServerInv, Awaited
<1>8. SoleReader'
  <2>1. \A d \in Conns : client'[d] # "astray" => client[d] # "astray"
    BY <1>3, <1>4 DEF HandlerProofs!Same
  <2> QED
    BY <1>2, <2>1 DEF ServerInv, SoleReader
<1>9. Talks'
  <2>1. ASSUME NEW t \in Threads, NEW d \in Conns, HandlerProofs!Conversation(t, d)
        PROVE  HandlerProofs!Conversation(t, d)'
    <3>1. CASE d = c
      <4>1. pc[t] \in HandlerProofs!HandlerPlace
        BY <1>2 DEF HandlerProofs!TalkOK
      <4> QED
        BY <1>2, <1>3, <2>1, <3>1, <4>1 DEF HandlerProofs!Conversation
    <3>2. CASE d # c
      BY <1>2, <1>3, <2>1, <3>2 DEF HandlerProofs!Same, HandlerProofs!Conversation
    <3> QED
      BY <3>1, <3>2
  <2> QED
    BY <1>2, <2>1 DEF ServerInv, Talks, ConnOf
<1>10. DiesOfLostClient'
  BY <1>2 DEF DiesOfLostClient
<1> QED
  BY <1>5, <1>6, <1>7, <1>8, <1>9, <1>10 DEF ServerInv

\* Every step keeps the invariant.
LEMMA StepKeepsServerInv == ServerInv /\ [Next]_vars => ServerInv'
<1> SUFFICES ASSUME ServerInv, [Next]_vars PROVE ServerInv'
  OBVIOUS
<1>1. ASSUME NEW t \in Threads, HandleClient(t) PROVE ServerInv'
  BY <1>1, ReadArgumentKeeps, CommandKeeps, DisconnectKeeps DEF HandleClient
<1>2. ASSUME NEW t \in Threads, Spin(t) PROVE ServerInv'
  BY <1>2, StutterKeeps DEF Spin
<1> QED
  BY <1>1, <1>2, AcceptKeeps, AcceptFailsKeeps, ClientsKeep, StutterKeeps DEF Next

\* The invariant holds throughout.
THEOREM ServerInvariant == Spec => []ServerInv
<1> QED
  BY InitServerInv, StepKeepsServerInv, PTL DEF Spec

\* Until its conversation goes astray a client is served by the thread that was made for
\* it and by no other, and is in step with it, however the streams are cut and whoever is
\* killed (kv-server-thread/server.c 25, 29-34, 119-123, 207-231, 281-288).
THEOREM AlwaysInStep == Spec => []InStep
<1>1. ASSUME ServerInv PROVE InStep
  <2>1. ASSUME NEW c \in Conns, NEW t \in Threads, ConnOf(t) = c, ~Client!Astray(c)
        PROVE  t = c /\ Client!InStepAt(c, pc[t])
    <3>1. t = c
      BY <1>1, <2>1, OwnConnection DEF Client!Astray
    <3>2. HandlerProofs!TalkOK /\ HandlerProofs!Conversation(t, c)
      BY <1>1, <2>1 DEF ServerInv, Talks
    <3>3. HandlerProofs!InStepAt(c, pc[t])
      BY <3>2, HandlerProofs!ConversationInStep
    <3> QED
      BY <3>1, <3>3, PropertiesAre
  <2> QED
    BY <2>1 DEF InStep
<1> QED
  BY <1>1, ServerInvariant, PTL

\* Though threads go on reading and sending after DISCONNECT, on descriptors that are
\* closed or another's, SIGPIPE kills the server only for a client that has been killed,
\* whose DISCONNECT was taken for the end of a value, or whose conversation is astray
\* (kv-server-thread/server.c 29-34, 218-231).
THEOREM OnlyLostClientsKill == Spec => []DiesOfLostClient
<1>1. ServerInv => DiesOfLostClient
  BY DEF ServerInv
<1> QED
  BY <1>1, ServerInvariant, PTL
=============================================================================
