--------------------------- MODULE KVHandler_proofs ---------------------------
(***************************************************************************)
(* What the servers that run KVHandler share: the mutex with the flag, and *)
(* the conversation of a thread with the client of its connection, over    *)
(* streams that are cut anywhere and with clients that may be killed.  For *)
(* any threads, connections, keys and values.  How a thread comes to its   *)
(* connection, and whether it has it to itself, is the server's business.  *)
(***************************************************************************)
EXTENDS KVHandler, SequenceTheorems, TLAPS

Client == INSTANCE KVClient

-----------------------------------------------------------------------------
(***************************************************************************)
(* The mutex with the flag "available": the threads exclude each other,    *)
(* and none ever comes to wait on the condition variable.                  *)
(***************************************************************************)

\* The inductive invariant: without OneInside, a Release could leave the flag
\* set while another thread is inside.
LockInv == Lock!TypeOK /\ Lock!CondNeverWaited /\ Lock!OneInside

\* At the start the flag is set and every thread is outside.
LEMMA InitLockInv == Lock!InitLock => LockInv
  BY DEF Lock!InitLock, LockInv, Lock!TypeOK, Lock!CondNeverWaited, Lock!OneInside,
     Lock!MutexFree, Lock!ThreadsAt

\* With the mutex free the flag is set, so the test passes at once.
LEMMA AcquireEnters ==
    ASSUME LockInv, NEW t \in Threads, Lock!Acquire(t)
    PROVE  Lock!ThreadsAt("inside") = {} /\ available' = 0 /\ at' = [at EXCEPT ![t] = "inside"]
  BY DEF LockInv, Lock!CondNeverWaited, Lock!MutexFree, Lock!Acquire

\* Whoever gets the mutex clears the flag and is alone.
LEMMA AcquireKeepsInv ==
    ASSUME LockInv, NEW t \in Threads, Lock!Acquire(t)
    PROVE  LockInv'
<1>1. /\ Lock!TypeOK /\ Lock!ThreadsAt("inside") = {}
      /\ Lock!ThreadsAt("parked") \union Lock!ThreadsAt("woken") = {}
      /\ available' = 0 /\ at' = [at EXCEPT ![t] = "inside"]
  BY AcquireEnters DEF LockInv, Lock!CondNeverWaited
<1>2. /\ Lock!TypeOK' /\ Lock!ThreadsAt("inside")' = {t}
      /\ Lock!ThreadsAt("parked")' = {} /\ Lock!ThreadsAt("woken")' = {}
  BY <1>1 DEF Lock!TypeOK, Lock!ThreadsAt
<1> QED
  BY <1>1, <1>2 DEF LockInv, Lock!CondNeverWaited, Lock!OneInside, Lock!MutexFree

\* The signal of Release finds nobody to wake.
LEMMA ReleaseKeepsInv ==
    ASSUME LockInv, NEW t \in Threads, Lock!Release(t)
    PROVE  LockInv'
<1>1. /\ Lock!TypeOK /\ Lock!ThreadsAt("inside") = {t}
      /\ Lock!ThreadsAt("parked") = {} /\ Lock!ThreadsAt("woken") = {}
      /\ available' = 1 /\ at' = [at EXCEPT ![t] = "outside"]
  BY DEF LockInv, Lock!CondNeverWaited, Lock!OneInside, Lock!Release, Lock!SignalCond,
     Lock!ThreadsAt
<1>2. /\ Lock!TypeOK' /\ Lock!ThreadsAt("inside")' = {}
      /\ Lock!ThreadsAt("parked")' = {} /\ Lock!ThreadsAt("woken")' = {}
  BY <1>1 DEF Lock!TypeOK, Lock!ThreadsAt
<1> QED
  BY <1>1, <1>2 DEF LockInv, Lock!CondNeverWaited, Lock!OneInside, Lock!MutexFree

\* Every step keeps the invariant.
LEMMA StepKeepsLockInv == LockInv /\ [Lock!Next]_Lock!lockVars => LockInv'
<1>1. LockInv /\ UNCHANGED Lock!lockVars => LockInv'
  BY DEF LockInv, Lock!TypeOK, Lock!CondNeverWaited, Lock!OneInside, Lock!MutexFree,
     Lock!ThreadsAt, Lock!lockVars
<1> QED
  BY <1>1, AcquireKeepsInv, ReleaseKeepsInv DEF Lock!Next

\* The handlers exclude each other by the mutex alone and never wait on cond
\* (kv-server-pool/server.c 80-84, 124-126).
THEOREM LockInvariant == Lock!Spec => []LockInv
<1> QED
  BY InitLockInv, StepKeepsLockInv, PTL DEF Lock!Spec

-----------------------------------------------------------------------------
(***************************************************************************)
(* The conversation of one thread and one client, as a relation of the     *)
(* thread's place pl and command load, the client's place cl and request   *)
(* rq, the streams ts to the server and tc to the client, and what became  *)
(* of the request, ft.                                                     *)
(***************************************************************************)

Units == Commands \union {ValueBytes, Rest}

Replies == {"connected", "disconnected", "exists", "created", "deleted", "updated",
            "not found", "invalid", "ok", "length", "empty", "value"}

\* Nothing more comes of the conversation.
Over(cl, tc) == cl \in {"killed", "astray"} /\ tc = <<>>

\* Nothing is owed but, perhaps, the answer to a command that has not been taken yet.
Settled(cl, rq, ts, tc, ft) ==
    /\ tc = <<>> /\ ft = "none"
    /\ \/ cl = "idle" /\ ts = <<>>
       \/ cl = "reply" /\ rq \in Commands /\ ts = <<rq>>

\* The command is over with this reply.
Plain(rq, m) == Answers(rq, m) /\ m \notin {"created", "updated", "ok"}

\* The reply is under way, whole or what the client has left of it.
Answering(cl, rq, ts, tc, ft) ==
    /\ ts = <<>> /\ rq \in Commands /\ rq.cmd_type # "disconnect"
    /\ \/ cl = "reply" /\ ft = "none" /\ \E m \in Replies : tc = <<m>> /\ Plain(rq, m)
       \/ /\ cl = "reply" /\ ft = "none" /\ rq.cmd_type = "read"
          /\ tc = <<"ok", "length", "value">> \/ tc = <<"ok", "empty">>
       \/ /\ cl = "payload" /\ ft = "none"
          /\ tc = <<"length", "value">> \/ tc = <<"empty">>
       \/ cl = "payload" /\ ft = "merged" /\ (tc = <<>> \/ tc = <<"value">>)
       \/ cl = "value" /\ ft = "none" /\ tc = <<"value">>
       \/ cl = "value" /\ ft = "merged" /\ tc = <<>>

\* The command, or the begin of it, was taken for the end of a value.
Robbed(cl, rq, ts, tc, ft) ==
    \/ /\ cl = "reply" /\ rq \in Commands
       /\ \/ ts = <<Rest>> /\ tc = <<>> /\ ft = "cut"
          \/ ts = <<>> /\ tc = <<"invalid">> /\ ft = "cut"
          \/ ts = <<>> /\ tc = <<>> /\ ft = "eaten"
    \/ cl = "gone" /\ ts = <<>> /\ tc = <<>> /\ ft = "cut"

\* The thread works on the command, and the client waits.
Asked(cl, rq, ts, tc, ft) ==
    cl = "reply" /\ rq \in ListCommands /\ ts = <<>> /\ tc = <<>> /\ ft = "none"

\* The client has still to hear that its value is wanted.
ValueAsked(cl, rq, ts, tc, ft) ==
    /\ cl = "reply" /\ rq \in ListCommands /\ ts = <<>> /\ ft = "none"
    /\ \/ rq.cmd_type = "create" /\ tc = <<"created">>
       \/ rq.cmd_type = "update" /\ tc = <<"updated">>

\* It has heard, and may have sent the value, and may have asked for something else.
ValueDue(cl, rq, ts, tc, ft) ==
    /\ tc = <<>> /\ ft = "none"
    /\ \/ cl = "idle" /\ (ts = <<>> \/ ts = <<ValueBytes>>)
       \/ cl = "reply" /\ rq \in Commands /\ (ts = <<rq>> \/ ts = <<ValueBytes, rq>>)

Talk(pl, load, cl, rq, ts, tc, ft) ==
    \/ Over(cl, tc)
    \/ /\ pl \in {"recv", "end"} => \/ Settled(cl, rq, ts, tc, ft)
                                    \/ Answering(cl, rq, ts, tc, ft)
                                    \/ Robbed(cl, rq, ts, tc, ft)
       /\ pl \in {"lock", "search", "not_found", "loop"} =>
             load = rq /\ Asked(cl, rq, ts, tc, ft)
       /\ pl = "not_found" => rq.cmd_type # "create"
       /\ pl = "recv_value" => \/ ValueAsked(cl, rq, ts, tc, ft)
                               \/ ValueDue(cl, rq, ts, tc, ft)

Conversation(t, c) ==
    Talk(pc[t], payload[t], client[c], request[c], up[c], down[c], fate[c])

\* A connection that no thread serves yet: its client has not connected, or has sent its
\* first command at most.
NotServed(cl, rq, ts, tc, ft) ==
    \/ Over(cl, tc)
    \/ cl = "start" /\ ts = <<>> /\ tc = <<>> /\ ft = "none"
    \/ Settled(cl, rq, ts, tc, ft)

Unserved(c) == NotServed(client[c], request[c], up[c], down[c], fate[c])

\* One that no thread serves any more: there is the answer to DISCONNECT at most.
HasLeft(cl, rq, tc) ==
    \/ Over(cl, tc)
    \/ cl = "reply" /\ rq = Ask("disconnect") /\ tc = <<"disconnected">>
    \/ cl = "gone" /\ tc = <<>>

Left(c) == HasLeft(client[c], request[c], down[c])

HandlerPlace == {"recv", "lock", "search", "recv_value", "end", "not_found", "loop"}
ClientPlace  == {"start", "idle", "reply", "payload", "value", "gone", "killed", "astray"}

StreamOK ==
    /\ client \in [Conns -> ClientPlace]
    /\ request \in [Conns -> Commands \union {NoCommand}]
    /\ up \in [Conns -> Seq(Units)]
    /\ down \in [Conns -> Seq(Replies)]
    /\ fate \in [Conns -> Fates]

TalkOK ==
    /\ pc \in [Threads -> HandlerPlace]
    /\ payload \in [Threads -> Commands \union {NoCommand}]
    /\ StreamOK

-----------------------------------------------------------------------------
\* Messages come and go one at a time, and there are three of them at most.
LEMMA OneMessage ==
    \A x : /\ <<x>> # <<>> /\ Append(<<>>, x) = <<x>> /\ Len(<<x>>) = 1
           /\ Head(<<x>>) = x /\ Tail(<<x>>) = <<>> /\ <<>> \o <<x>> = <<x>>
<1> TAKE x
<1>1. <<x>> # <<>> /\ Append(<<>>, x) = <<x>> /\ Len(<<x>>) = 1
  OBVIOUS
<1>2. Head(<<x>>) = x /\ Tail(<<x>>) = <<>>
  OBVIOUS
<1>3. <<>> \o <<x>> = <<x>>
  OBVIOUS
<1> QED
  BY <1>1, <1>2, <1>3

\* A sequence of up to three messages is one.
LEMMA ShortSequences ==
    ASSUME NEW S
    PROVE  /\ <<>> \in Seq(S)
           /\ \A x \in S : <<x>> \in Seq(S)
           /\ \A x, y \in S : <<x, y>> \in Seq(S)
           /\ \A x, y, z \in S : <<x, y, z>> \in Seq(S)
<1>1. <<>> \in Seq(S)
  OBVIOUS
<1>2. ASSUME NEW x \in S PROVE <<x>> \in Seq(S)
  OBVIOUS
<1>3. ASSUME NEW x \in S, NEW y \in S, NEW z \in S PROVE <<x, y, z>> \in Seq(S)
  OBVIOUS
<1>4. ASSUME NEW x \in S, NEW y \in S PROVE <<x, y>> \in Seq(S)
  OBVIOUS
<1> QED
  BY <1>1, <1>2, <1>3, <1>4

\* Longer ones lose their first, and nothing is put before the first.
LEMMA MoreMessages ==
    /\ \A x, y : <<x, y>> # <<>> /\ Head(<<x, y>>) = x /\ Tail(<<x, y>>) = <<y>>
    /\ \A x, y, z : /\ <<x, y, z>> # <<>> /\ Head(<<x, y, z>>) = x
                    /\ Tail(<<x, y, z>>) = <<y, z>>
                    /\ <<>> \o <<x, y, z>> = <<x, y, z>>
    /\ \A x, y : <<>> \o <<x, y>> = <<x, y>>
<1>1. ASSUME NEW x, NEW y PROVE <<x, y>> # <<>> /\ Head(<<x, y>>) = x /\ Tail(<<x, y>>) = <<y>>
  OBVIOUS
<1>2. ASSUME NEW x, NEW y, NEW z
      PROVE  <<x, y, z>> # <<>> /\ Head(<<x, y, z>>) = x /\ Tail(<<x, y, z>>) = <<y, z>>
  OBVIOUS
<1>3. ASSUME NEW x, NEW y, NEW z PROVE <<>> \o <<x, y, z>> = <<x, y, z>>
  OBVIOUS
<1>4. ASSUME NEW x, NEW y PROVE <<>> \o <<x, y>> = <<x, y>>
  OBVIOUS
<1> QED
  BY <1>1, <1>2, <1>3, <1>4

\* What goes to the server is told apart.
LEMMA UnitsDiffer ==
    /\ Rest \notin Commands /\ ValueBytes \notin Commands /\ Rest # ValueBytes
    /\ Ask("connect") \in Commands /\ Ask("disconnect") \in Commands
    /\ Ask("connect") \notin ListCommands /\ Ask("disconnect") \notin ListCommands
    /\ ListCommands \subseteq Commands
    /\ \A p \in ListCommands : p.cmd_type \in {"create", "read", "update", "delete"}
    /\ \A p \in Commands : p.cmd_type = "disconnect" => p = Ask("disconnect")
    /\ Ask("connect").cmd_type = "connect" /\ Ask("disconnect").cmd_type = "disconnect"
<1>1. \A p \in ListCommands : p.cmd_type \in {"create", "read", "update", "delete"}
  BY DEF ListCommands
<1>2. \A x : Ask(x).cmd_type = x
  BY DEF Ask
<1>3. Rest.cmd_type = "rest" /\ ValueBytes.cmd_type = "value"
  BY <1>2 DEF Rest, ValueBytes
<1> QED
  BY <1>1, <1>2, <1>3 DEF Commands

-----------------------------------------------------------------------------
(***************************************************************************)
(* What a thread finds in the streams, and leaves there.                   *)
(***************************************************************************)

\* A thread that takes a command takes the one that the client waits for.
LEMMA CommandArrives ==
    ASSUME NEW load, NEW cl, NEW rq, NEW ts, NEW tc, NEW ft,
           Talk("recv", load, cl, rq, ts, tc, ft), ~Over(cl, tc),
           ts # <<>>, Head(ts) \in Commands
    PROVE  /\ cl = "reply" /\ rq = Head(ts) /\ Tail(ts) = <<>> /\ tc = <<>> /\ ft = "none"
           /\ rq \in ListCommands => Asked(cl, rq, Tail(ts), tc, ft)
<1>1. Settled(cl, rq, ts, tc, ft)
  BY UnitsDiffer, OneMessage DEF Talk, Answering, Robbed
<1> QED
  BY <1>1, OneMessage DEF Settled, Asked

\* What is left of a command is refused.
LEMMA RestArrives ==
    ASSUME NEW load, NEW cl, NEW rq, NEW ts, NEW tc, NEW ft,
           Talk("recv", load, cl, rq, ts, tc, ft), ~Over(cl, tc), ts # <<>>, Head(ts) = Rest
    PROVE  cl = "reply" /\ Robbed(cl, rq, Tail(ts), tc \o <<"invalid">>, ft)
<1>1. Robbed(cl, rq, ts, tc, ft)
  BY UnitsDiffer, OneMessage DEF Talk, Answering, Settled
<1>2. /\ cl = "reply" /\ rq \in Commands /\ ts = <<Rest>> /\ tc = <<>> /\ ft = "cut"
      /\ Tail(ts) = <<>> /\ tc \o <<"invalid">> = <<"invalid">>
  BY <1>1, OneMessage DEF Robbed
<1> QED
  BY <1>2 DEF Robbed

\* A client that has ended while a thread serves it was killed, or refused.
LEMMA EndedServed ==
    ASSUME NEW pl \in HandlerPlace, NEW load, NEW cl, NEW rq, NEW ts, NEW tc, NEW ft,
           Talk(pl, load, cl, rq, ts, tc, ft), cl \in {"gone", "killed", "astray"}
    PROVE  cl \in {"killed", "astray"} \/ (cl = "gone" /\ ft = "cut" /\ pl \in {"recv", "end"})
  BY DEF Talk, Over, Settled, Answering, Robbed, Asked, ValueAsked, ValueDue, HandlerPlace

\* A thread that takes the value leaves the next command, or robs the client of it.
LEMMA ValueArrives ==
    ASSUME NEW load, NEW cl, NEW rq, NEW ts, NEW tc, NEW ft,
           Talk("recv_value", load, cl, rq, ts, tc, ft), ~Over(cl, tc), ts # <<>>
    PROVE  /\ tc = <<>> /\ ft = "none"
           /\ ts = <<ValueBytes>> => Settled(cl, rq, <<>>, tc, ft)
           /\ ts[Len(ts)] \in Commands =>
                /\ Robbed(cl, rq, <<Rest>>, tc, "cut")
                /\ Robbed(cl, rq, <<>>, tc, "eaten")
<1>1. ValueDue(cl, rq, ts, tc, ft)
  BY DEF Talk, ValueAsked
<1>2. \A x, y : <<x>> # <<x, y>> /\ <<x>>[Len(<<x>>)] = x
  OBVIOUS
<1>3. CASE cl = "idle" /\ ts = <<ValueBytes>>
  <2>1. ts[Len(ts)] \notin Commands
    BY <1>2, <1>3, UnitsDiffer
  <2> QED
    BY <1>1, <1>3, <2>1 DEF Settled, ValueDue
<1>4. CASE cl = "reply" /\ rq \in Commands /\ (ts = <<rq>> \/ ts = <<ValueBytes, rq>>)
  <2>1. ts # <<ValueBytes>>
    BY <1>4, <1>2, UnitsDiffer, OneMessage
  <2> QED
    BY <1>1, <1>4, <2>1 DEF Robbed, ValueDue
<1> QED
  BY <1>1, <1>3, <1>4 DEF ValueDue

\* What the thread may answer to the command it works on
LEMMA Answered ==
    ASSUME NEW cl, NEW rq, NEW ts, NEW tc, NEW ft, Asked(cl, rq, ts, tc, ft)
    PROVE  /\ \A m \in Replies : Plain(rq, m) => Answering(cl, rq, ts, tc \o <<m>>, ft)
           /\ rq.cmd_type = "read" => /\ Answering(cl, rq, ts, tc \o <<"ok", "length", "value">>, ft)
                                      /\ Answering(cl, rq, ts, tc \o <<"ok", "empty">>, ft)
           /\ rq.cmd_type = "create" => ValueAsked(cl, rq, ts, tc \o <<"created">>, ft)
           /\ rq.cmd_type = "update" => ValueAsked(cl, rq, ts, tc \o <<"updated">>, ft)
<1>1. /\ tc = <<>> /\ ts = <<>> /\ cl = "reply" /\ rq \in ListCommands /\ rq \in Commands
      /\ rq.cmd_type # "disconnect" /\ ft = "none"
  BY UnitsDiffer DEF Asked
<1>2. ASSUME NEW m \in Replies, Plain(rq, m) PROVE Answering(cl, rq, ts, tc \o <<m>>, ft)
  <2>1. tc \o <<m>> = <<m>>
    BY <1>1, OneMessage
  <2> QED
    BY <1>1, <1>2, <2>1 DEF Answering
<1>3. /\ tc \o <<"ok", "length", "value">> = <<"ok", "length", "value">>
      /\ tc \o <<"ok", "empty">> = <<"ok", "empty">>
  BY <1>1, MoreMessages
<1>4. tc \o <<"created">> = <<"created">> /\ tc \o <<"updated">> = <<"updated">>
  BY <1>1, OneMessage
<1>5. rq.cmd_type = "read" => /\ Answering(cl, rq, ts, tc \o <<"ok", "length", "value">>, ft)
                              /\ Answering(cl, rq, ts, tc \o <<"ok", "empty">>, ft)
  BY <1>1, <1>3 DEF Answering
<1>6. /\ rq.cmd_type = "create" => ValueAsked(cl, rq, ts, tc \o <<"created">>, ft)
      /\ rq.cmd_type = "update" => ValueAsked(cl, rq, ts, tc \o <<"updated">>, ft)
  BY <1>1, <1>4 DEF ValueAsked
<1> QED
  BY <1>2, <1>5, <1>6

-----------------------------------------------------------------------------
(***************************************************************************)
(* The steps of a thread keep its conversation.                            *)
(***************************************************************************)

\* Nothing happens to connection d.
Same(d) == /\ client'[d] = client[d] /\ request'[d] = request[d] /\ up'[d] = up[d]
           /\ down'[d] = down[d] /\ fate'[d] = fate[d]

\* A step of thread t with connection c: the others are left alone, and SIGPIPE ends the
\* server only if the client is lost.
Frame(t, c) ==
    /\ TalkOK'
    /\ \A u \in Threads \ {t} : pc'[u] = pc[u] /\ payload'[u] = payload[u]
    /\ \A d \in Conns \ {c} : Same(d)
    /\ alive' = alive \/ Lost(c)'

\* Sends reach a client that goes on, and nobody else.
LEMMA SendsReach ==
    ASSUME StreamOK, NEW c \in Conns, NEW replies \in Seq(Replies), Sends(c, replies)
    PROVE  /\ down' \in [Conns -> Seq(Replies)]
           /\ \A d \in Conns \ {c} : down'[d] = down[d]
           /\ \/ client[c] \notin {"gone", "killed", "astray"}
                 /\ down'[c] = down[c] \o replies /\ alive' = alive
              \/ client[c] \in {"gone", "killed", "astray"} /\ down'[c] = down[c]
<1>1. /\ down[c] \in Seq(Replies)
      /\ down[c] \o replies \in Seq(Replies)
  BY DEF StreamOK
<1>2. CASE ~(Ended(c) \/ Astray(c))
  <2>1. down' = [down EXCEPT ![c] = down[c] \o replies] /\ alive' = alive
    BY <1>2 DEF Sends
  <2> QED
    BY <1>1, <1>2, <2>1 DEF StreamOK, Ended, Astray
<1>3. CASE Ended(c) \/ Astray(c)
  BY <1>3 DEF Sends, Ended, Astray, StreamOK
<1> QED
  BY <1>2, <1>3

\* A command is taken from the begin of the stream; an astray one has no stream.
LEMMA TakesCommand ==
    ASSUME StreamOK, NEW c \in Conns, NEW p, TakeCommand(c, p)
    PROVE  /\ up' \in [Conns -> Seq(Units)]
           /\ \A d \in Conns \ {c} : up'[d] = up[d]
           /\ client' = client /\ request' = request /\ fate' = fate
           /\ \/ client[c] = "astray"
              \/ up[c] # <<>> /\ Head(up[c]) = p /\ up'[c] = Tail(up[c])
<1>1. up[c] # <<>> => Tail(up[c]) \in Seq(Units)
  BY DEF StreamOK
<1> QED
  BY <1>1 DEF TakeCommand, StreamOK, Astray

\* The same of what is no command.
LEMMA TakesInvalid ==
    ASSUME StreamOK, NEW c \in Conns, TakeInvalid(c)
    PROVE  /\ up' \in [Conns -> Seq(Units)]
           /\ \A d \in Conns \ {c} : up'[d] = up[d]
           /\ client' = client /\ request' = request /\ fate' = fate
           /\ \/ client[c] \in {"gone", "killed", "astray"} /\ up'[c] = up[c]
              \/ up[c] # <<>> /\ Head(up[c]) = Rest /\ up'[c] = Tail(up[c])
<1>1. up[c] # <<>> => Tail(up[c]) \in Seq(Units)
  BY DEF StreamOK
<1> QED
  BY <1>1 DEF TakeInvalid, StreamOK, Astray, AtEnd, Ended

\* A greeting is answered, if it is the command that the client waits for.
LEMMA ConnectedKeeps ==
    ASSUME TalkOK, NEW t \in Threads, NEW c \in Conns, conn[t] = c, Conversation(t, c),
           Connected(t)
    PROVE  Frame(t, c) /\ Conversation(t, c)'
<1> DEFINE p == Ask("connect")
<1>1. /\ pc[t] = "recv" /\ TakeCommand(c, p) /\ Sends(c, <<"connected">>)
      /\ pc' = pc /\ payload' = payload
  BY DEF Connected, Arrives, Send
<1>2. /\ up' \in [Conns -> Seq(Units)]
      /\ \A d \in Conns \ {c} : up'[d] = up[d]
      /\ client' = client /\ request' = request /\ fate' = fate
      /\ \/ client[c] = "astray"
         \/ up[c] # <<>> /\ Head(up[c]) = p /\ up'[c] = Tail(up[c])
  BY <1>1, TakesCommand DEF TalkOK
<1>3. <<"connected">> \in Seq(Replies)
  BY ShortSequences DEF Replies
<1>4. /\ down' \in [Conns -> Seq(Replies)]
      /\ \A d \in Conns \ {c} : down'[d] = down[d]
      /\ \/ client[c] \notin {"gone", "killed", "astray"}
            /\ down'[c] = down[c] \o <<"connected">> /\ alive' = alive
         \/ client[c] \in {"gone", "killed", "astray"} /\ down'[c] = down[c]
  BY <1>1, <1>3, SendsReach DEF TalkOK
<1>5. Talk("recv", payload[t], client[c], request[c], up[c], down[c], fate[c])
  BY <1>1 DEF Conversation
<1>6. CASE Over(client[c], down[c])
  <2>1. Over(client'[c], down'[c]) /\ Lost(c)'
    BY <1>2, <1>4, <1>6 DEF Over, Lost
  <2> QED
    BY <1>1, <1>2, <1>4, <2>1 DEF Conversation, Talk, Frame, TalkOK, StreamOK, Same
<1>7. CASE ~Over(client[c], down[c])
  <2>1. up[c] # <<>> /\ Head(up[c]) = p /\ up'[c] = Tail(up[c])
    BY <1>2, <1>5, <1>7 DEF Over, Talk, Settled, Answering, Robbed
  <2>2. /\ client[c] = "reply" /\ request[c] = p /\ Tail(up[c]) = <<>> /\ down[c] = <<>>
        /\ fate[c] = "none"
    BY <1>5, <1>7, <2>1, CommandArrives, UnitsDiffer
  <2>3. down'[c] = <<"connected">> /\ alive' = alive
    BY <1>4, <2>2, OneMessage
  <2>4. Answering(client'[c], request'[c], up'[c], down'[c], fate'[c])
    BY <1>2, <2>1, <2>2, <2>3, UnitsDiffer DEF Answering, Plain, Answers, Replies
  <2>5. Conversation(t, c)'
    BY <1>1, <2>4 DEF Conversation, Talk
  <2> QED
    BY <1>1, <1>2, <1>4, <2>3, <2>5 DEF Frame, TalkOK, StreamOK, Same
<1> QED
  BY <1>6, <1>7

\* DISCONNECT is answered too, and that is the last of the conversation.
LEMMA DisconnectedLeaves ==
    ASSUME TalkOK, NEW t \in Threads, NEW c \in Conns, conn[t] = c, Conversation(t, c),
           Disconnected(t)
    PROVE  /\ Frame(t, c) /\ Left(c)' /\ pc' = pc /\ payload' = payload
           /\ Over(client[c], down[c]) => Over(client[c], down[c])'
           /\ alive' = alive \/ Over(client[c], down[c])'
<1> DEFINE p == Ask("disconnect")
<1>1. /\ pc[t] = "recv" /\ TakeCommand(c, p) /\ Sends(c, <<"disconnected">>)
      /\ pc' = pc /\ payload' = payload
  BY DEF Disconnected, Arrives, Send
<1>2. /\ up' \in [Conns -> Seq(Units)]
      /\ \A d \in Conns \ {c} : up'[d] = up[d]
      /\ client' = client /\ request' = request /\ fate' = fate
      /\ \/ client[c] = "astray"
         \/ up[c] # <<>> /\ Head(up[c]) = p /\ up'[c] = Tail(up[c])
  BY <1>1, TakesCommand DEF TalkOK
<1>3. <<"disconnected">> \in Seq(Replies)
  BY ShortSequences DEF Replies
<1>4. /\ down' \in [Conns -> Seq(Replies)]
      /\ \A d \in Conns \ {c} : down'[d] = down[d]
      /\ \/ client[c] \notin {"gone", "killed", "astray"}
            /\ down'[c] = down[c] \o <<"disconnected">> /\ alive' = alive
         \/ client[c] \in {"gone", "killed", "astray"} /\ down'[c] = down[c]
  BY <1>1, <1>3, SendsReach DEF TalkOK
<1>5. Talk("recv", payload[t], client[c], request[c], up[c], down[c], fate[c])
  BY <1>1 DEF Conversation
<1>6. CASE Over(client[c], down[c])
  <2>1. Over(client'[c], down'[c]) /\ Lost(c)'
    BY <1>2, <1>4, <1>6 DEF Over, Lost
  <2> QED
    BY <1>1, <1>2, <1>4, <2>1 DEF Left, HasLeft, Frame, TalkOK, StreamOK, Same
<1>7. CASE ~Over(client[c], down[c])
  <2>1. up[c] # <<>> /\ Head(up[c]) = p /\ up'[c] = Tail(up[c])
    BY <1>2, <1>5, <1>7 DEF Over, Talk, Settled, Answering, Robbed
  <2>2. client[c] = "reply" /\ request[c] = p /\ down[c] = <<>>
    BY <1>5, <1>7, <2>1, CommandArrives, UnitsDiffer
  <2>3. down'[c] = <<"disconnected">> /\ alive' = alive
    BY <1>4, <2>2, OneMessage
  <2>4. Left(c)'
    BY <1>2, <2>2, <2>3 DEF Left, HasLeft
  <2> QED
    BY <1>1, <1>2, <1>4, <1>7, <2>3, <2>4 DEF Frame, TalkOK, StreamOK, Same
<1> QED
  BY <1>6, <1>7

\* So is what is left of a command, and zeroes.
LEMMA InvalidKeeps ==
    ASSUME TalkOK, NEW t \in Threads, NEW c \in Conns, conn[t] = c, Conversation(t, c),
           Invalid(t)
    PROVE  Frame(t, c) /\ Conversation(t, c)'
<1>1. /\ pc[t] = "recv" /\ TakeInvalid(c) /\ Sends(c, <<"invalid">>)
      /\ pc' = pc /\ payload' = payload
  BY DEF Invalid, Send, handlerVars
<1>2. /\ up' \in [Conns -> Seq(Units)]
      /\ \A d \in Conns \ {c} : up'[d] = up[d]
      /\ client' = client /\ request' = request /\ fate' = fate
      /\ \/ client[c] \in {"gone", "killed", "astray"} /\ up'[c] = up[c]
         \/ up[c] # <<>> /\ Head(up[c]) = Rest /\ up'[c] = Tail(up[c])
  BY <1>1, TakesInvalid DEF TalkOK
<1>3. <<"invalid">> \in Seq(Replies)
  BY ShortSequences DEF Replies
<1>4. /\ down' \in [Conns -> Seq(Replies)]
      /\ \A d \in Conns \ {c} : down'[d] = down[d]
      /\ \/ client[c] \notin {"gone", "killed", "astray"}
            /\ down'[c] = down[c] \o <<"invalid">> /\ alive' = alive
         \/ client[c] \in {"gone", "killed", "astray"} /\ down'[c] = down[c]
  BY <1>1, <1>3, SendsReach DEF TalkOK
<1>5. Talk("recv", payload[t], client[c], request[c], up[c], down[c], fate[c])
  BY <1>1 DEF Conversation
<1>6. TalkOK' /\ \A d \in Conns \ {c} : Same(d)
  BY <1>1, <1>2, <1>4 DEF TalkOK, StreamOK, Same
<1>7. CASE Over(client[c], down[c])
  <2>1. Over(client'[c], down'[c]) /\ Lost(c)'
    BY <1>2, <1>4, <1>7 DEF Over, Lost
  <2> QED
    BY <1>1, <1>6, <2>1 DEF Conversation, Talk, Frame
<1>8. CASE ~Over(client[c], down[c]) /\ client[c] \in {"gone", "killed", "astray"}
  <2>1. client[c] = "gone" /\ fate[c] = "cut" /\ up[c] = <<>>
    BY <1>5, <1>8 DEF Talk, Over, Settled, Answering, Robbed
  <2>2. Lost(c)' /\ Conversation(t, c)'
    BY <1>1, <1>2, <1>4, <1>5, <2>1 DEF Lost, Conversation
  <2> QED
    BY <1>1, <1>6, <2>2 DEF Frame
<1>9. CASE ~Over(client[c], down[c]) /\ client[c] \notin {"gone", "killed", "astray"}
  <2>1. /\ up[c] # <<>> /\ Head(up[c]) = Rest /\ up'[c] = Tail(up[c])
        /\ down'[c] = down[c] \o <<"invalid">> /\ alive' = alive
    BY <1>2, <1>4, <1>9
  <2>2. Robbed(client[c], request[c], Tail(up[c]), down[c] \o <<"invalid">>, fate[c])
    BY <1>5, <1>9, <2>1, RestArrives
  <2>3. Robbed(client'[c], request'[c], up'[c], down'[c], fate'[c])
    BY <1>2, <2>1, <2>2
  <2>4. Conversation(t, c)'
    BY <1>1, <2>3 DEF Conversation, Talk
  <2> QED
    BY <1>1, <1>6, <2>1, <2>4 DEF Frame
<1> QED
  BY <1>7, <1>8, <1>9

\* A step that takes and sends nothing keeps the conversation if its new place suits.
LEMMA QuietKeeps ==
    ASSUME TalkOK, NEW t \in Threads, NEW c \in Conns, NEW pl \in HandlerPlace,
           NEW load \in Commands \union {NoCommand},
           pc' = [pc EXCEPT ![t] = pl], payload' = [payload EXCEPT ![t] = load],
           UNCHANGED <<client, request, up, down, fate, alive>>,
           Talk(pl, load, client[c], request[c], up[c], down[c], fate[c])
    PROVE  Frame(t, c) /\ Conversation(t, c)'
<1>1. /\ pc' \in [Threads -> HandlerPlace] /\ pc'[t] = pl
      /\ payload' \in [Threads -> Commands \union {NoCommand}] /\ payload'[t] = load
      /\ \A u \in Threads \ {t} : pc'[u] = pc[u] /\ payload'[u] = payload[u]
  BY DEF TalkOK
<1>2. TalkOK' /\ \A d \in Conns \ {c} : Same(d)
  BY <1>1 DEF TalkOK, StreamOK, Same
<1>3. Conversation(t, c)'
  BY <1>1 DEF Conversation
<1> QED
  BY <1>1, <1>2, <1>3 DEF Frame

\* So does one that sends, if the client waits for what it sends.
LEMMA ReplyKeeps ==
    ASSUME TalkOK, NEW t \in Threads, NEW c \in Conns, NEW pl \in HandlerPlace,
           NEW load \in Commands \union {NoCommand}, NEW replies \in Seq(Replies),
           Conversation(t, c), pc[t] \in {"search", "not_found"},
           pc' = [pc EXCEPT ![t] = pl], payload' = [payload EXCEPT ![t] = load],
           UNCHANGED <<client, request, up, fate>>,
           Sends(c, replies),
           payload[t] = request[c] /\ Asked(client[c], request[c], up[c], down[c], fate[c]) =>
               Talk(pl, load, client[c], request[c], up[c], down[c] \o replies, fate[c])
    PROVE  Frame(t, c) /\ Conversation(t, c)'
<1>1. /\ pc' \in [Threads -> HandlerPlace] /\ pc'[t] = pl
      /\ payload' \in [Threads -> Commands \union {NoCommand}] /\ payload'[t] = load
      /\ \A u \in Threads \ {t} : pc'[u] = pc[u] /\ payload'[u] = payload[u]
  BY DEF TalkOK
<1>2. /\ down' \in [Conns -> Seq(Replies)]
      /\ \A d \in Conns \ {c} : down'[d] = down[d]
      /\ \/ client[c] \notin {"gone", "killed", "astray"}
            /\ down'[c] = down[c] \o replies /\ alive' = alive
         \/ client[c] \in {"gone", "killed", "astray"} /\ down'[c] = down[c]
  BY SendsReach DEF TalkOK
<1>3. TalkOK' /\ \A d \in Conns \ {c} : Same(d)
  BY <1>1, <1>2 DEF TalkOK, StreamOK, Same
<1>4. CASE Over(client[c], down[c])
  <2>1. Over(client'[c], down'[c]) /\ Lost(c)'
    BY <1>2, <1>4 DEF Over, Lost
  <2> QED
    BY <1>1, <1>3, <2>1 DEF Conversation, Talk, Frame
<1>5. CASE ~Over(client[c], down[c])
  <2>1. /\ payload[t] = request[c]
        /\ Asked(client[c], request[c], up[c], down[c], fate[c])
    BY <1>5 DEF Conversation, Talk
  <2>2. down'[c] = down[c] \o replies /\ alive' = alive
    BY <1>2, <2>1 DEF Asked
  <2>3. Conversation(t, c)'
    BY <1>1, <2>1, <2>2 DEF Conversation
  <2> QED
    BY <1>1, <1>3, <2>2, <2>3 DEF Frame
<1> QED
  BY <1>4, <1>5

\* The thread takes the command that the client waits for, and goes for the lock or,
\* where there is none, on.
LEMMA CommandTaken ==
    ASSUME TalkOK, NEW t \in Threads, NEW c \in Conns, conn[t] = c, Conversation(t, c),
           NEW p \in ListCommands, Arrives(t, p), payload' = [payload EXCEPT ![t] = p],
           NEW pl \in {"lock", "search"}, Goto(t, "recv", pl), UNCHANGED <<down, alive>>
    PROVE  Frame(t, c) /\ Conversation(t, c)'
<1>1. /\ pc[t] = "recv" /\ pc' = [pc EXCEPT ![t] = pl] /\ TakeCommand(c, p)
      /\ UNCHANGED <<down, alive>>
  BY DEF Arrives, Goto
<1>2. /\ up' \in [Conns -> Seq(Units)]
      /\ \A d \in Conns \ {c} : up'[d] = up[d]
      /\ client' = client /\ request' = request /\ fate' = fate
      /\ \/ client[c] = "astray"
         \/ up[c] # <<>> /\ Head(up[c]) = p /\ up'[c] = Tail(up[c])
  BY <1>1, TakesCommand DEF TalkOK
<1>3. /\ TalkOK' /\ \A d \in Conns \ {c} : Same(d)
      /\ \A u \in Threads \ {t} : pc'[u] = pc[u] /\ payload'[u] = payload[u]
      /\ pc'[t] = pl /\ payload'[t] = p
  BY <1>1, <1>2, UnitsDiffer DEF TalkOK, StreamOK, Same, HandlerPlace
<1>4. CASE Over(client[c], down[c])
  BY <1>1, <1>2, <1>3, <1>4 DEF Conversation, Talk, Frame, Over
<1>5. CASE ~Over(client[c], down[c])
  <2>1. up[c] # <<>> /\ Head(up[c]) = p /\ up'[c] = Tail(up[c])
    BY <1>1, <1>2, <1>5 DEF Conversation, Over, Talk, Settled, Answering, Robbed
  <2>2. Talk("recv", payload[t], client[c], request[c], up[c], down[c], fate[c])
    BY <1>1 DEF Conversation
  <2>3. /\ request[c] = p /\ p \in Commands
        /\ Asked(client[c], request[c], Tail(up[c]), down[c], fate[c])
    BY <1>5, <2>1, <2>2, CommandArrives, UnitsDiffer
  <2>4. Asked(client'[c], request'[c], up'[c], down'[c], fate'[c]) /\ request'[c] = p
    BY <1>1, <1>2, <2>1, <2>3
  <2>5. Conversation(t, c)'
    BY <1>3, <2>4 DEF Conversation, Talk
  <2> QED
    BY <1>1, <1>3, <2>5 DEF Frame
<1> QED
  BY <1>4, <1>5

\* It goes for the lock.
LEMMA ReceiveCommandKeeps ==
    ASSUME TalkOK, NEW t \in Threads, NEW c \in Conns, conn[t] = c, Conversation(t, c),
           ReceiveCommand(t)
    PROVE  Frame(t, c) /\ Conversation(t, c)'
<1> QED
  BY CommandTaken DEF ReceiveCommand

\* Inside or not, it keeps the command.
LEMMA AcquireLockKeeps ==
    ASSUME TalkOK, NEW t \in Threads, NEW c \in Conns, Conversation(t, c),
           AcquireLock(t)
    PROVE  Frame(t, c) /\ Conversation(t, c)'
<1>1. PICK pl \in {"lock", "search"} : pc' = [pc EXCEPT ![t] = pl]
  BY DEF AcquireLock
<1>2. /\ pc[t] = "lock" /\ payload' = [payload EXCEPT ![t] = payload[t]]
      /\ UNCHANGED <<client, request, up, down, fate, alive>>
      /\ payload[t] \in Commands \union {NoCommand} /\ pl \in HandlerPlace
  BY DEF AcquireLock, heard, TalkOK, HandlerPlace
<1>3. Talk(pl, payload[t], client[c], request[c], up[c], down[c], fate[c])
  BY <1>1, <1>2 DEF Conversation, Talk
<1> QED
  BY <1>1, <1>2, <1>3, QuietKeeps

\* CREATE is refused, or a value is asked for.
LEMMA CreateKeeps ==
    ASSUME TalkOK, NEW t \in Threads, NEW c \in Conns, conn[t] = c, Conversation(t, c),
           Create(t)
    PROVE  Frame(t, c) /\ Conversation(t, c)'
<1>1. /\ pc[t] = "search" /\ payload[t].cmd_type = "create"
      /\ payload' = [payload EXCEPT ![t] = payload[t]]
      /\ payload[t] \in Commands \union {NoCommand}
      /\ UNCHANGED <<client, request, up, fate>>
  BY DEF Create, Goto, Is, heard, TalkOK
<1>2. CASE Sends(c, <<"exists">>) /\ pc' = [pc EXCEPT ![t] = "end"]
  <2>1. payload[t] = request[c] /\ Asked(client[c], request[c], up[c], down[c], fate[c]) =>
            Talk("end", payload[t], client[c], request[c], up[c], down[c] \o <<"exists">>, fate[c])
    BY <1>1, Answered DEF Talk, Plain, Answers, Replies
  <2>2. <<"exists">> \in Seq(Replies)
    BY ShortSequences DEF Replies
  <2> QED
    BY <1>1, <1>2, <2>1, <2>2, ReplyKeeps DEF HandlerPlace
<1>3. CASE Sends(c, <<"created">>) /\ pc' = [pc EXCEPT ![t] = "recv_value"]
  <2>1. payload[t] = request[c] /\ Asked(client[c], request[c], up[c], down[c], fate[c]) =>
            Talk("recv_value", payload[t], client[c], request[c], up[c],
                 down[c] \o <<"created">>, fate[c])
    BY <1>1, Answered DEF Talk
  <2>2. <<"created">> \in Seq(Replies)
    BY ShortSequences DEF Replies
  <2> QED
    BY <1>1, <1>3, <2>1, <2>2, ReplyKeeps DEF HandlerPlace
<1> QED
  BY <1>2, <1>3 DEF Create, Send, Goto

\* READ sends all of the answer at once, or goes on to say that there is none.
LEMMA ReadKeeps ==
    ASSUME TalkOK, NEW t \in Threads, NEW c \in Conns, conn[t] = c, Conversation(t, c),
           Read(t)
    PROVE  Frame(t, c) /\ Conversation(t, c)'
<1>1. /\ pc[t] = "search" /\ payload[t].cmd_type = "read"
      /\ payload' = [payload EXCEPT ![t] = payload[t]]
      /\ payload[t] \in Commands \union {NoCommand}
      /\ UNCHANGED <<client, request, up, fate>>
  BY DEF Read, Goto, Is, heard, TalkOK
<1>2. CASE Sends(c, <<"ok", "length", "value">>) /\ pc' = [pc EXCEPT ![t] = "end"]
  <2>1. payload[t] = request[c] /\ Asked(client[c], request[c], up[c], down[c], fate[c]) =>
            Talk("end", payload[t], client[c], request[c], up[c],
                 down[c] \o <<"ok", "length", "value">>, fate[c])
    BY <1>1, Answered DEF Talk
  <2>2. <<"ok", "length", "value">> \in Seq(Replies)
    BY ShortSequences DEF Replies
  <2> QED
    BY <1>1, <1>2, <2>1, <2>2, ReplyKeeps DEF HandlerPlace
<1>3. CASE Sends(c, <<"ok", "empty">>) /\ pc' = [pc EXCEPT ![t] = "end"]
  <2>1. payload[t] = request[c] /\ Asked(client[c], request[c], up[c], down[c], fate[c]) =>
            Talk("end", payload[t], client[c], request[c], up[c],
                 down[c] \o <<"ok", "empty">>, fate[c])
    BY <1>1, Answered DEF Talk
  <2>2. <<"ok", "empty">> \in Seq(Replies)
    BY ShortSequences DEF Replies
  <2> QED
    BY <1>1, <1>3, <2>1, <2>2, ReplyKeeps DEF HandlerPlace
<1>4. CASE pc' = [pc EXCEPT ![t] = "not_found"] /\ UNCHANGED <<down, alive>>
  <2>1. Talk("not_found", payload[t], client[c], request[c], up[c], down[c], fate[c])
    BY <1>1 DEF Conversation, Talk
  <2> QED
    BY <1>1, <1>4, <2>1, QuietKeeps DEF HandlerPlace
<1> QED
  BY <1>2, <1>3, <1>4 DEF Read, Send, Goto

\* So does DELETE.
LEMMA DeleteKeeps ==
    ASSUME TalkOK, NEW t \in Threads, NEW c \in Conns, conn[t] = c, Conversation(t, c),
           Delete(t)
    PROVE  Frame(t, c) /\ Conversation(t, c)'
<1>1. /\ pc[t] = "search" /\ payload[t].cmd_type = "delete"
      /\ payload' = [payload EXCEPT ![t] = payload[t]]
      /\ payload[t] \in Commands \union {NoCommand}
      /\ UNCHANGED <<client, request, up, fate>>
  BY DEF Delete, Goto, Is, heard, TalkOK
<1>2. CASE Sends(c, <<"deleted">>) /\ pc' = [pc EXCEPT ![t] = "end"]
  <2>1. payload[t] = request[c] /\ Asked(client[c], request[c], up[c], down[c], fate[c]) =>
            Talk("end", payload[t], client[c], request[c], up[c],
                 down[c] \o <<"deleted">>, fate[c])
    BY <1>1, Answered DEF Talk, Plain, Answers, Replies
  <2>2. <<"deleted">> \in Seq(Replies)
    BY ShortSequences DEF Replies
  <2> QED
    BY <1>1, <1>2, <2>1, <2>2, ReplyKeeps DEF HandlerPlace
<1>3. CASE pc' = [pc EXCEPT ![t] = "not_found"] /\ UNCHANGED <<down, alive>>
  <2>1. Talk("not_found", payload[t], client[c], request[c], up[c], down[c], fate[c])
    BY <1>1 DEF Conversation, Talk
  <2> QED
    BY <1>1, <1>3, <2>1, QuietKeeps DEF HandlerPlace
<1> QED
  BY <1>2, <1>3 DEF Delete, Send, Goto

\* UPDATE asks for a value, finds nothing, or searches for ever.
LEMMA UpdateKeeps ==
    ASSUME TalkOK, NEW t \in Threads, NEW c \in Conns, conn[t] = c, Conversation(t, c),
           Update(t)
    PROVE  Frame(t, c) /\ Conversation(t, c)'
<1>1. /\ pc[t] = "search" /\ payload[t].cmd_type = "update"
      /\ payload' = [payload EXCEPT ![t] = payload[t]]
      /\ payload[t] \in Commands \union {NoCommand}
      /\ UNCHANGED <<client, request, up, fate>>
  BY DEF Update, Goto, Is, heard, TalkOK
<1>2. CASE Sends(c, <<"updated">>) /\ pc' = [pc EXCEPT ![t] = "recv_value"]
  <2>1. payload[t] = request[c] /\ Asked(client[c], request[c], up[c], down[c], fate[c]) =>
            Talk("recv_value", payload[t], client[c], request[c], up[c],
                 down[c] \o <<"updated">>, fate[c])
    BY <1>1, Answered DEF Talk
  <2>2. <<"updated">> \in Seq(Replies)
    BY ShortSequences DEF Replies
  <2> QED
    BY <1>1, <1>2, <2>1, <2>2, ReplyKeeps DEF HandlerPlace
<1>3. CASE UNCHANGED <<down, alive>> /\ \E pl \in {"not_found", "loop"} :
                                            pc' = [pc EXCEPT ![t] = pl]
  <2>1. PICK pl \in {"not_found", "loop"} : pc' = [pc EXCEPT ![t] = pl]
    BY <1>3
  <2>2. Talk(pl, payload[t], client[c], request[c], up[c], down[c], fate[c])
    BY <1>1 DEF Conversation, Talk
  <2>3. pl \in HandlerPlace
    BY <2>1 DEF HandlerPlace
  <2> QED
    BY <1>1, <1>3, <2>1, <2>2, <2>3, QuietKeeps
<1> QED
  BY <1>2, <1>3 DEF Update, Send, Goto

\* "Key not found" is sent at the end, if it is the answer.
LEMMA LeaveKeeps ==
    ASSUME TalkOK, NEW t \in Threads, NEW c \in Conns, conn[t] = c, Conversation(t, c),
           Leave(t), Missed(t)
    PROVE  Frame(t, c) /\ Conversation(t, c)'
<1>1. /\ pc' = [pc EXCEPT ![t] = "recv"]
      /\ payload' = [payload EXCEPT ![t] = NoCommand]
      /\ UNCHANGED <<client, request, up, fate>>
      /\ pc[t] \in {"end", "not_found"} /\ Missed(t)
  BY DEF Leave, heard
<1>2. CASE pc[t] = "end"
  <2>1. UNCHANGED <<down, alive>>
    BY <1>1, <1>2 DEF Missed
  <2>2. Talk("recv", NoCommand, client[c], request[c], up[c], down[c], fate[c])
    BY <1>2 DEF Conversation, Talk
  <2> QED
    BY <1>1, <2>1, <2>2, QuietKeeps DEF HandlerPlace
<1>3. CASE pc[t] = "not_found"
  <2>1. Sends(c, <<"not found">>)
    BY <1>1, <1>3 DEF Missed, Send
  <2>2. /\ ~Over(client[c], down[c]) => request[c].cmd_type # "create"
        /\ Asked(client[c], request[c], up[c], down[c], fate[c]) =>
             ~Over(client[c], down[c]) /\ request[c] \in ListCommands
    BY <1>3 DEF Conversation, Talk, Asked, Over
  <2>3. Asked(client[c], request[c], up[c], down[c], fate[c]) =>
            Plain(request[c], "not found")
    BY <2>2, UnitsDiffer DEF Plain, Answers
  <2>4. "not found" \in Replies /\ <<"not found">> \in Seq(Replies)
    BY ShortSequences DEF Replies
  <2>5. Asked(client[c], request[c], up[c], down[c], fate[c]) =>
            Answering(client[c], request[c], up[c], down[c] \o <<"not found">>, fate[c])
    BY <2>3, <2>4, Answered
  <2>6. Asked(client[c], request[c], up[c], down[c], fate[c]) =>
            Talk("recv", NoCommand, client[c], request[c], up[c],
                 down[c] \o <<"not found">>, fate[c])
    BY <2>5 DEF Talk
  <2> QED
    BY <1>1, <1>3, <2>1, <2>4, <2>6, ReplyKeeps DEF HandlerPlace
<1> QED
  BY <1>1, <1>2, <1>3

\* The lock makes no difference to that.
LEMMA ReleaseLockKeeps ==
    ASSUME TalkOK, NEW t \in Threads, NEW c \in Conns, conn[t] = c, Conversation(t, c),
           ReleaseLock(t)
    PROVE  Frame(t, c) /\ Conversation(t, c)'
<1> QED
  BY LeaveKeeps DEF ReleaseLock

\* The value is taken, with the begin of the next command, the whole of it, or more.
LEMMA ReceiveValueKeeps ==
    ASSUME TalkOK, NEW t \in Threads, NEW c \in Conns, conn[t] = c, Conversation(t, c),
           ReceiveValue(t)
    PROVE  Frame(t, c) /\ Conversation(t, c)'
<1>1. /\ pc[t] = "recv_value" /\ pc' = [pc EXCEPT ![t] = "end"]
      /\ payload' = payload /\ alive' = alive /\ TakeValue(c)
  BY DEF ReceiveValue, Goto
<1>2. /\ pc' \in [Threads -> HandlerPlace] /\ pc'[t] = "end"
      /\ \A u \in Threads \ {t} : pc'[u] = pc[u] /\ payload'[u] = payload[u]
  BY <1>1 DEF TalkOK, HandlerPlace
<1>3. Talk("recv_value", payload[t], client[c], request[c], up[c], down[c], fate[c])
  BY <1>1 DEF Conversation
<1>4. CASE (Astray(c) \/ AtEnd(c)) /\ UNCHANGED <<client, request, up, down, fate>>
  <2>1. Over(client[c], down[c])
    BY <1>3, <1>4 DEF Talk, Astray, AtEnd, Ended, ValueAsked, ValueDue
  <2> QED
    BY <1>1, <1>2, <1>4, <2>1 DEF Frame, Conversation, Talk, TalkOK, StreamOK, Same
<1>5. CASE GoAstray({c})
  <2>1. /\ client' \in [Conns -> ClientPlace] /\ client'[c] = "astray"
        /\ request' \in [Conns -> Commands \union {NoCommand}]
        /\ fate' \in [Conns -> Fates]
    BY <1>5 DEF GoAstray, TalkOK, StreamOK, ClientPlace, Fates
  <2>2. /\ up' \in [Conns -> Seq(Units)]
        /\ down' \in [Conns -> Seq(Replies)] /\ down'[c] = <<>>
    BY <1>5 DEF GoAstray, TalkOK, StreamOK
  <2>3. \A d \in Conns \ {c} : Same(d)
    BY <1>5 DEF GoAstray, Same
  <2> QED
    BY <1>1, <1>2, <2>1, <2>2, <2>3 DEF Frame, Conversation, Talk, Over, TalkOK, StreamOK
<1>6. ASSUME NEW ts \in {<<>>, <<Rest>>}, NEW f \in {"none", "cut", "eaten"},
             up[c] # <<>>,
             up' = [up EXCEPT ![c] = ts], fate' = [fate EXCEPT ![c] = f],
             UNCHANGED <<client, request, down>>,
             ~Over(client[c], down[c]) =>
                 \/ Settled(client[c], request[c], ts, down[c], f)
                 \/ Robbed(client[c], request[c], ts, down[c], f)
      PROVE  Frame(t, c) /\ Conversation(t, c)'
  <2>1. ts \in Seq(Units) /\ f \in Fates
    BY <1>6, ShortSequences DEF Units, Fates
  <2>2. /\ TalkOK' /\ \A d \in Conns \ {c} : Same(d)
        /\ up'[c] = ts /\ fate'[c] = f
    BY <1>1, <1>2, <1>6, <2>1 DEF TalkOK, StreamOK, Same
  <2>3. Conversation(t, c)'
    BY <1>2, <1>6, <2>2 DEF Conversation, Talk, Over
  <2> QED
    BY <1>1, <1>2, <2>2, <2>3 DEF Frame
<1>7. CASE /\ up[c] = <<ValueBytes>> /\ up' = [up EXCEPT ![c] = <<>>]
           /\ UNCHANGED <<client, request, down, fate>>
  <2>1. up[c] # <<>>
    BY <1>7, OneMessage
  <2>2. ~Over(client[c], down[c]) =>
            fate[c] = "none" /\ Settled(client[c], request[c], <<>>, down[c], fate[c])
    BY <1>3, <1>7, <2>1, ValueArrives
  <2>3. CASE Over(client[c], down[c])
    <3>1. <<>> \in Seq(Units)
      BY ShortSequences
    <3>2. TalkOK' /\ \A d \in Conns \ {c} : Same(d)
      BY <1>1, <1>2, <1>7, <3>1 DEF TalkOK, StreamOK, Same
    <3> QED
      BY <1>1, <1>2, <1>7, <2>3, <3>2 DEF Frame, Conversation, Talk
  <2>4. CASE ~Over(client[c], down[c])
    <3>1. fate' = [fate EXCEPT ![c] = "none"]
      BY <1>7, <2>2, <2>4 DEF TalkOK, StreamOK
    <3>2. Settled(client[c], request[c], <<>>, down[c], "none")
      BY <2>2, <2>4
    <3> QED
      BY <1>6, <1>7, <2>1, <3>1, <3>2
  <2> QED
    BY <2>3, <2>4
<1>8. CASE /\ up[c] # <<>> /\ up[c][Len(up[c])] \in Commands
           /\ up' = [up EXCEPT ![c] = <<Rest>>] /\ fate' = [fate EXCEPT ![c] = "cut"]
           /\ UNCHANGED <<client, request, down>>
  <2>1. ~Over(client[c], down[c]) => Robbed(client[c], request[c], <<Rest>>, down[c], "cut")
    BY <1>3, <1>8, ValueArrives
  <2> QED
    BY <1>6, <1>8, <2>1
<1>9. CASE /\ up[c] # <<>> /\ up[c][Len(up[c])] \in Commands
           /\ up' = [up EXCEPT ![c] = <<>>] /\ fate' = [fate EXCEPT ![c] = "eaten"]
           /\ UNCHANGED <<client, request, down>>
  <2>1. ~Over(client[c], down[c]) => Robbed(client[c], request[c], <<>>, down[c], "eaten")
    BY <1>3, <1>9, ValueArrives
  <2> QED
    BY <1>6, <1>9, <2>1
<1> QED
  BY <1>1, <1>4, <1>5, <1>7, <1>8, <1>9 DEF TakeValue

\* All that a thread does but to end the conversation
LEMMA CommandKeeps ==
    ASSUME TalkOK, NEW t \in Threads, NEW c \in Conns, conn[t] = c, Conversation(t, c),
           Command(t)
    PROVE  Frame(t, c) /\ Conversation(t, c)'
<1> QED
  BY InvalidKeeps, ReceiveCommandKeeps, AcquireLockKeeps, CreateKeeps, ReadKeeps, DeleteKeeps,
     UpdateKeeps, ReceiveValueKeeps, ReleaseLockKeeps DEF Command

\* A thread without a connection disturbs none.
LEMMA DetachedKeeps ==
    ASSUME TalkOK, NEW t \in Threads, conn[t] \notin Conns, Command(t)
    PROVE  /\ TalkOK' /\ UNCHANGED <<client, request, up, down, fate, alive>>
           /\ \A u \in Threads \ {t} : pc'[u] = pc[u] /\ payload'[u] = payload[u]
<1>1. CASE AcquireLock(t)
  BY <1>1 DEF AcquireLock, heard, TalkOK, StreamOK, HandlerPlace
<1>2. CASE Create(t)
  BY <1>2 DEF Create, Send, Goto, heard, TalkOK, StreamOK, HandlerPlace
<1>3. CASE Read(t)
  BY <1>3 DEF Read, Send, Goto, heard, TalkOK, StreamOK, HandlerPlace
<1>4. CASE Delete(t)
  BY <1>4 DEF Delete, Send, Goto, heard, TalkOK, StreamOK, HandlerPlace
<1>5. CASE Update(t)
  BY <1>5 DEF Update, Send, Goto, heard, TalkOK, StreamOK, HandlerPlace
<1>6. CASE ReceiveValue(t)
  BY <1>6 DEF ReceiveValue, Goto, TalkOK, StreamOK, HandlerPlace
<1>7. CASE ReleaseLock(t)
  BY <1>7 DEF ReleaseLock, Leave, Missed, Send, heard, TalkOK, StreamOK, HandlerPlace
<1> QED
  BY <1>1, <1>2, <1>3, <1>4, <1>5, <1>6, <1>7 DEF Command, Invalid, ReceiveCommand, Arrives

-----------------------------------------------------------------------------
(***************************************************************************)
(* The steps of a client keep its conversation.                            *)
(***************************************************************************)

\* What is left when the first messages are taken
LEMMA MessagesLeft ==
    /\ \A x : SubSeq(<<x>>, 2, 1) = <<>>
    /\ \A x, y : SubSeq(<<x, y>>, 2, 2) = <<y>> /\ SubSeq(<<x, y>>, 3, 2) = <<>>
    /\ \A x, y, z : /\ SubSeq(<<x, y, z>>, 2, 3) = <<y, z>>
                    /\ SubSeq(<<x, y, z>>, 3, 3) = <<z>>
                    /\ SubSeq(<<x, y, z>>, 4, 3) = <<>>
    /\ \A x, y : Len(<<x, y>>) = 2
    /\ \A x, y, z : Len(<<x, y, z>>) = 3
<1>1. \A x : SubSeq(<<x>>, 2, 1) = <<>>
  OBVIOUS
<1>2. ASSUME NEW x, NEW y PROVE SubSeq(<<x, y>>, 2, 2) = <<y>> /\ SubSeq(<<x, y>>, 3, 2) = <<>>
  <2> DEFINE s == <<x, y>>
  <2>1. s \in Seq({x, y}) /\ s # <<>> /\ Len(s) = 2 /\ Tail(s) = <<y>>
    OBVIOUS
  <2> HIDE DEF s
  <2>2. SubSeq(s, 2, 2) = <<y>>
    BY <2>1, TailIsSubSeq
  <2>3. SubSeq(s, 3, 2) = <<>>
    BY SubSeqEmpty
  <2> QED
    BY <2>2, <2>3 DEF s
<1>3. ASSUME NEW x, NEW y, NEW z
      PROVE  /\ SubSeq(<<x, y, z>>, 2, 3) = <<y, z>> /\ SubSeq(<<x, y, z>>, 3, 3) = <<z>>
             /\ SubSeq(<<x, y, z>>, 4, 3) = <<>>
  <2> DEFINE s == <<x, y, z>>
  <2>1. s \in Seq({x, y, z}) /\ s # <<>> /\ Len(s) = 3
    OBVIOUS
  <2>2. Tail(s) = <<y, z>> /\ Tail(<<y, z>>) = <<z>>
    BY MoreMessages
  <2> HIDE DEF s
  <2>3. SubSeq(s, 2, 3) = <<y, z>>
    BY <2>1, <2>2, TailIsSubSeq
  <2>4. Tail(SubSeq(s, 2, 3)) = SubSeq(s, 3, 3)
    BY <2>1, HeadTailOfSubSeq
  <2>5. SubSeq(s, 4, 3) = <<>>
    BY SubSeqEmpty
  <2> QED
    BY <2>2, <2>3, <2>4, <2>5 DEF s
<1>4. ASSUME NEW x, NEW y, NEW z PROVE Len(<<x, y>>) = 2 /\ Len(<<x, y, z>>) = 3
  OBVIOUS
<1> QED
  BY <1>1, <1>2, <1>3, <1>4

\* A command comes behind a value.
LEMMA BehindValue == \A x, y : Append(<<x>>, y) = <<x, y>>
<1>1. ASSUME NEW S, NEW s \in Seq(S), Len(s) = 2 PROVE s = <<s[1], s[2]>>
  BY <1>1
<1>2. ASSUME NEW x, NEW y PROVE Append(<<x>>, y) = <<x, y>>
  <2> DEFINE s == <<x>>
             r == Append(s, y)
  <2>1. s \in Seq({x, y}) /\ Len(s) = 1 /\ s[1] = x
    OBVIOUS
  <2> HIDE DEF s
  <2>2. r \in Seq({x, y}) /\ Len(r) = Len(s) + 1 /\ r[Len(s) + 1] = y
        /\ \A i \in 1 .. Len(s) : r[i] = s[i]
    <3>1. y \in {x, y} /\ s \in Seq({x, y})
      BY <2>1
    <3> QED
      BY <3>1, AppendProperties
  <2> HIDE DEF r
  <2>3. Len(r) = 2 /\ r[1] = x /\ r[2] = y
    BY <2>1, <2>2
  <2>4. r = <<r[1], r[2]>>
    BY <1>1, <2>2, <2>3
  <2>5. r = <<x, y>>
    BY <2>3, <2>4
  <2> QED
    BY <2>5 DEF s, r
<1> QED
  BY <1>2

\* The client asks for something: its command comes behind a value at most.
LEMMA AskKeeps ==
    ASSUME NEW p \in Commands, NEW rq, NEW ts, NEW tc, NEW ft
    PROVE  /\ \A pl \in HandlerPlace : \A load :
                Talk(pl, load, "idle", rq, ts, tc, ft) =>
                    Talk(pl, load, "reply", p, Append(ts, p), tc, ft)
           /\ NotServed("idle", rq, ts, tc, ft) => NotServed("reply", p, Append(ts, p), tc, ft)
           /\ ~HasLeft("idle", rq, tc)
<1>1. Append(<<>>, p) = <<p>> /\ Append(<<ValueBytes>>, p) = <<ValueBytes, p>>
  BY BehindValue, OneMessage
<1>2. Settled("idle", rq, ts, tc, ft) => Settled("reply", p, Append(ts, p), tc, ft)
  BY <1>1 DEF Settled
<1>3. ValueDue("idle", rq, ts, tc, ft) => ValueDue("reply", p, Append(ts, p), tc, ft)
  BY <1>1 DEF ValueDue
<1>4. ASSUME NEW pl \in HandlerPlace, NEW load, Talk(pl, load, "idle", rq, ts, tc, ft)
      PROVE  Talk(pl, load, "reply", p, Append(ts, p), tc, ft)
  <2>1. /\ pl \in {"recv", "end"} => Settled("reply", p, Append(ts, p), tc, ft)
        /\ pl \notin {"lock", "search", "not_found", "loop"}
        /\ pl = "recv_value" => ValueDue("reply", p, Append(ts, p), tc, ft)
    BY <1>2, <1>3, <1>4 DEF Talk, Over, Answering, Robbed, Asked, ValueAsked
  <2> QED
    BY <2>1 DEF Talk
<1>5. NotServed("idle", rq, ts, tc, ft) => NotServed("reply", p, Append(ts, p), tc, ft)
  BY <1>2 DEF NotServed, Over
<1> QED
  BY <1>4, <1>5 DEF HasLeft, Over

\* It hears that its value is wanted, and sends it.
LEMMA WantedKeeps ==
    ASSUME NEW rq, NEW ts, NEW tc, NEW ft, NEW vs, tc # <<>>,
           \/ rq.cmd_type = "create" /\ Head(tc) = "created"
           \/ rq.cmd_type = "update" /\ Head(tc) = "updated",
           vs = ts \/ vs = Append(ts, ValueBytes)
    PROVE  /\ \A pl \in HandlerPlace : \A load :
                Talk(pl, load, "reply", rq, ts, tc, ft) =>
                    Talk(pl, load, "idle", NoCommand, vs, SubSeq(tc, 2, Len(tc)), "none")
           /\ ~NotServed("reply", rq, ts, tc, ft)
           /\ ~HasLeft("reply", rq, tc)
<1>1. ASSUME NEW pl \in HandlerPlace, NEW load, Talk(pl, load, "reply", rq, ts, tc, ft)
      PROVE  Talk(pl, load, "idle", NoCommand, vs, SubSeq(tc, 2, Len(tc)), "none")
  <2>1. pl \notin {"recv", "end"}
    BY <1>1, OneMessage DEF Talk, Over, Settled, Answering, Robbed, Plain, Answers
  <2>2. pl = "recv_value" /\ ValueAsked("reply", rq, ts, tc, ft)
    BY <1>1, <2>1 DEF Talk, Over, Asked, HandlerPlace, ValueDue
  <2>3. /\ ts = <<>>
        /\ \E m : tc = <<m>>
    BY <2>2 DEF ValueAsked
  <2>4. SubSeq(tc, 2, Len(tc)) = <<>> /\ (vs = <<>> \/ vs = <<ValueBytes>>)
    BY <2>3, OneMessage, MessagesLeft
  <2> QED
    BY <2>2, <2>4 DEF Talk, ValueDue
<1>2. ~NotServed("reply", rq, ts, tc, ft)
  BY DEF NotServed, Over, Settled
<1>3. ~HasLeft("reply", rq, tc)
  BY OneMessage DEF HasLeft, Over, Ask
<1> QED
  BY <1>1, <1>2, <1>3

\* It takes "OK", perhaps with what comes behind.
LEMMA OKKeeps ==
    ASSUME NEW rq, NEW ts, NEW tc, NEW ft, tc # <<>>, Head(tc) = "ok", rq.cmd_type = "read",
           NEW n \in 1 .. Len(tc), NEW left, NEW f,
           left = SubSeq(tc, n + 1, Len(tc)) \/ (n = 3 /\ left = SubSeq(tc, 3, Len(tc))),
           f = IF n = 1 THEN ft ELSE "merged"
    PROVE  /\ \A pl \in HandlerPlace : \A load :
                Talk(pl, load, "reply", rq, ts, tc, ft) =>
                    Talk(pl, load, "payload", rq, ts, left, f)
           /\ ~NotServed("reply", rq, ts, tc, ft)
           /\ ~HasLeft("reply", rq, tc)
<1>1. ASSUME NEW pl \in HandlerPlace, NEW load, Talk(pl, load, "reply", rq, ts, tc, ft)
      PROVE  Talk(pl, load, "payload", rq, ts, left, f)
  <2>1. pl \in {"recv", "end"}
    BY <1>1, OneMessage DEF Talk, Over, Asked, HandlerPlace, ValueDue, ValueAsked
  <2>2. Answering("reply", rq, ts, tc, ft)
    BY <1>1, <2>1, OneMessage DEF Talk, Over, Settled, Robbed
  <2>3. /\ ts = <<>> /\ rq \in Commands /\ ft = "none" /\ rq.cmd_type # "disconnect"
        /\ tc = <<"ok", "length", "value">> \/ tc = <<"ok", "empty">>
    BY <2>2, OneMessage DEF Answering, Plain
  <2>4. \/ f = "none" /\ (left = <<"length", "value">> \/ left = <<"empty">>)
        \/ f = "merged" /\ (left = <<>> \/ left = <<"value">>)
    <3>1. CASE tc = <<"ok", "length", "value">>
      <4>1. Len(tc) = 3 /\ n \in {1, 2, 3}
        BY <3>1, MessagesLeft
      <4>2. /\ SubSeq(tc, 2, 3) = <<"length", "value">> /\ SubSeq(tc, 3, 3) = <<"value">>
            /\ SubSeq(tc, 4, 3) = <<>>
        BY <3>1, MessagesLeft
      <4>3. CASE n = 1
        BY <2>3, <4>1, <4>2, <4>3
      <4>4. CASE n = 2
        <5>1. f = "merged" /\ left = SubSeq(tc, 3, 3)
          BY <4>1, <4>4
        <5> QED
          BY <4>2, <5>1
      <4>5. CASE n = 3
        <5>1. f = "merged" /\ (left = SubSeq(tc, 4, 3) \/ left = SubSeq(tc, 3, 3))
          BY <4>1, <4>5
        <5> QED
          BY <4>2, <5>1
      <4> QED
        BY <4>1, <4>3, <4>4, <4>5
    <3>2. CASE tc = <<"ok", "empty">>
      <4>1. Len(tc) = 2 /\ n \in {1, 2}
        BY <3>2, MessagesLeft
      <4>2. SubSeq(tc, 2, 2) = <<"empty">> /\ SubSeq(tc, 3, 2) = <<>>
        BY <3>2, MessagesLeft
      <4>3. CASE n = 1
        BY <2>3, <4>1, <4>2, <4>3
      <4>4. CASE n = 2
        BY <4>1, <4>2, <4>4
      <4> QED
        BY <4>1, <4>3, <4>4
    <3> QED
      BY <2>3, <3>1, <3>2
  <2>5. Answering("payload", rq, ts, left, f)
    BY <2>3, <2>4 DEF Answering
  <2> QED
    BY <2>1, <2>5 DEF Talk
<1>2. ~NotServed("reply", rq, ts, tc, ft)
  BY DEF NotServed, Over, Settled
<1>3. ~HasLeft("reply", rq, tc)
  BY OneMessage DEF HasLeft, Over, Ask
<1> QED
  BY <1>1, <1>2, <1>3

\* It takes the length, or the value for it.
LEMMA PayloadKeeps ==
    ASSUME NEW rq, NEW ts, NEW tc, NEW ft, tc # <<>>
    PROVE  /\ \A pl \in HandlerPlace : \A load :
                Talk(pl, load, "payload", rq, ts, tc, ft) =>
                    /\ Head(tc) \in {"empty", "value"} =>
                         Talk(pl, load, "idle", NoCommand, ts, SubSeq(tc, 2, Len(tc)), "none")
                    /\ Head(tc) \in {"length", "value"} =>
                         Talk(pl, load, "value", rq, ts, SubSeq(tc, 2, Len(tc)), ft)
           /\ \A pl \in HandlerPlace : \A load :
                Talk(pl, load, "payload", rq, ts, tc, ft) => rq.cmd_type # "disconnect"
           /\ ~NotServed("payload", rq, ts, tc, ft)
           /\ ~HasLeft("payload", rq, tc)
<1>1. ASSUME NEW pl \in HandlerPlace, NEW load, Talk(pl, load, "payload", rq, ts, tc, ft)
      PROVE  /\ rq.cmd_type # "disconnect"
             /\ Head(tc) \in {"empty", "value"} =>
                  Talk(pl, load, "idle", NoCommand, ts, SubSeq(tc, 2, Len(tc)), "none")
             /\ Head(tc) \in {"length", "value"} =>
                  Talk(pl, load, "value", rq, ts, SubSeq(tc, 2, Len(tc)), ft)
  <2>1. pl \in {"recv", "end"} /\ Answering("payload", rq, ts, tc, ft)
    BY <1>1 DEF Talk, Over, Settled, Robbed, Asked, HandlerPlace, ValueDue, ValueAsked
  <2>2. /\ ts = <<>> /\ rq \in Commands /\ rq.cmd_type # "disconnect"
        /\ \/ ft = "none" /\ tc = <<"length", "value">>
           \/ ft = "none" /\ tc = <<"empty">>
           \/ ft = "merged" /\ tc = <<"value">>
    BY <2>1 DEF Answering
  <2>3. tc = <<"length", "value">> => Head(tc) = "length" /\ SubSeq(tc, 2, Len(tc)) = <<"value">>
    BY MoreMessages, MessagesLeft
  <2>4. \A m : tc = <<m>> => Head(tc) = m /\ SubSeq(tc, 2, Len(tc)) = <<>>
    BY OneMessage, MessagesLeft
  <2>5. Head(tc) \in {"empty", "value"} =>
            Settled("idle", NoCommand, ts, SubSeq(tc, 2, Len(tc)), "none")
    BY <2>2, <2>3, <2>4 DEF Settled
  <2>6. Head(tc) \in {"length", "value"} =>
            Answering("value", rq, ts, SubSeq(tc, 2, Len(tc)), ft)
    BY <2>2, <2>3, <2>4 DEF Answering
  <2> QED
    BY <2>1, <2>2, <2>5, <2>6 DEF Talk
<1>2. ~NotServed("payload", rq, ts, tc, ft) /\ ~HasLeft("payload", rq, tc)
  BY DEF NotServed, Over, Settled, HasLeft
<1> QED
  BY <1>1, <1>2

\* It takes the value.
LEMMA ValueReadKeeps ==
    ASSUME NEW rq, NEW ts, NEW tc, NEW ft, tc # <<>>
    PROVE  /\ \A pl \in HandlerPlace : \A load :
                Talk(pl, load, "value", rq, ts, tc, ft) =>
                    /\ rq.cmd_type # "disconnect"
                    /\ Talk(pl, load, "idle", NoCommand, ts, SubSeq(tc, 2, Len(tc)), "none")
           /\ ~NotServed("value", rq, ts, tc, ft)
           /\ ~HasLeft("value", rq, tc)
<1>1. ASSUME NEW pl \in HandlerPlace, NEW load, Talk(pl, load, "value", rq, ts, tc, ft)
      PROVE  /\ rq.cmd_type # "disconnect"
             /\ Talk(pl, load, "idle", NoCommand, ts, SubSeq(tc, 2, Len(tc)), "none")
  <2>1. pl \in {"recv", "end"} /\ Answering("value", rq, ts, tc, ft)
    BY <1>1 DEF Talk, Over, Settled, Robbed, Asked, HandlerPlace, ValueDue, ValueAsked
  <2>2. ts = <<>> /\ rq.cmd_type # "disconnect" /\ tc = <<"value">>
    BY <2>1 DEF Answering
  <2>3. SubSeq(tc, 2, Len(tc)) = <<>>
    BY <2>2, OneMessage, MessagesLeft
  <2>4. Settled("idle", NoCommand, ts, SubSeq(tc, 2, Len(tc)), "none")
    BY <2>2, <2>3 DEF Settled
  <2> QED
    BY <2>1, <2>2, <2>4 DEF Talk
<1>2. ~NotServed("value", rq, ts, tc, ft) /\ ~HasLeft("value", rq, tc)
  BY DEF NotServed, Over, Settled, HasLeft
<1> QED
  BY <1>1, <1>2

\* It takes any other answer; after that to DISCONNECT it is gone.
LEMMA ReplyTakenKeeps ==
    ASSUME NEW rq, NEW ts, NEW tc, NEW ft, tc # <<>>,
           ~(rq.cmd_type = "create" /\ Head(tc) = "created"),
           ~(rq.cmd_type = "update" /\ Head(tc) = "updated"),
           ~(rq.cmd_type = "read" /\ Head(tc) = "ok")
    PROVE  /\ \A pl \in HandlerPlace : \A load :
                Talk(pl, load, "reply", rq, ts, tc, ft) =>
                    /\ rq.cmd_type = "disconnect" =>
                         Talk(pl, load, "gone", NoCommand, ts, SubSeq(tc, 2, Len(tc)), ft)
                    /\ rq.cmd_type # "disconnect" =>
                         Talk(pl, load, "idle", NoCommand, ts, SubSeq(tc, 2, Len(tc)), "none")
           /\ ~NotServed("reply", rq, ts, tc, ft)
           /\ HasLeft("reply", rq, tc) =>
                /\ rq.cmd_type = "disconnect"
                /\ HasLeft("gone", NoCommand, SubSeq(tc, 2, Len(tc)))
<1>1. ASSUME NEW pl \in HandlerPlace, NEW load, Talk(pl, load, "reply", rq, ts, tc, ft)
      PROVE  /\ rq.cmd_type = "disconnect" =>
                  Talk(pl, load, "gone", NoCommand, ts, SubSeq(tc, 2, Len(tc)), ft)
             /\ rq.cmd_type # "disconnect" =>
                  Talk(pl, load, "idle", NoCommand, ts, SubSeq(tc, 2, Len(tc)), "none")
  <2>1. pl \in {"recv", "end"}
    BY <1>1, OneMessage DEF Talk, Over, Asked, HandlerPlace, ValueDue, ValueAsked
  <2>2. \/ Answering("reply", rq, ts, tc, ft)
        \/ Robbed("reply", rq, ts, tc, ft)
    BY <1>1, <2>1 DEF Talk, Over, Settled
  <2>3. /\ ts = <<>>
        /\ rq.cmd_type = "disconnect" => ft = "cut"
        /\ \E m : tc = <<m>>
    BY <2>2, MoreMessages DEF Answering, Robbed
  <2>4. SubSeq(tc, 2, Len(tc)) = <<>>
    BY <2>3, OneMessage, MessagesLeft
  <2>5. rq.cmd_type = "disconnect" => Robbed("gone", NoCommand, ts, SubSeq(tc, 2, Len(tc)), ft)
    BY <2>3, <2>4 DEF Robbed
  <2>6. Settled("idle", NoCommand, ts, SubSeq(tc, 2, Len(tc)), "none")
    BY <2>3, <2>4 DEF Settled
  <2> QED
    BY <2>1, <2>5, <2>6 DEF Talk
<1>2. ~NotServed("reply", rq, ts, tc, ft)
  BY DEF NotServed, Over, Settled
<1>3. ASSUME HasLeft("reply", rq, tc)
      PROVE  rq.cmd_type = "disconnect" /\ HasLeft("gone", NoCommand, SubSeq(tc, 2, Len(tc)))
  <2>1. rq = Ask("disconnect") /\ tc = <<"disconnected">>
    BY <1>3 DEF HasLeft, Over
  <2>2. SubSeq(tc, 2, Len(tc)) = <<>>
    BY <2>1, OneMessage, MessagesLeft
  <2> QED
    BY <2>1, <2>2, UnitsDiffer DEF HasLeft
<1> QED
  BY <1>1, <1>2, <1>3

\* The client's names for what goes over the streams are the server's.
LEMMA SameNames ==
    /\ Client!ListCommands = ListCommands /\ Client!Commands = Commands
    /\ Client!NoCommand = NoCommand /\ Client!ValueBytes = ValueBytes
    /\ \A type : Client!Ask(type) = Ask(type)
<1> QED
  BY DEF Client!ListCommands, ListCommands, Client!Commands, Commands, Client!NoCommand,
     NoCommand, Client!ValueBytes, ValueBytes, Client!Ask, Ask

\* A step of client c keeps whatever its conversation was.
ClientKeeps(c) ==
    /\ StreamOK' /\ \A d \in Conns \ {c} : Same(d)
    /\ client[c] # "start" /\ client'[c] # "start"
    /\ \A pl \in HandlerPlace : \A load :
           Talk(pl, load, client[c], request[c], up[c], down[c], fate[c]) =>
               Talk(pl, load, client'[c], request'[c], up'[c], down'[c], fate'[c])
    /\ Unserved(c) => Unserved(c)'
    /\ Left(c) => Left(c)'

\* A command is sent from the prompt.
LEMMA AskClientKeeps ==
    ASSUME StreamOK, NEW c \in Conns, client[c] = "idle", NEW p \in Commands,
           Client!SendPayload(c, p)
    PROVE  ClientKeeps(c)
<1>1. /\ request' = [request EXCEPT ![c] = p] /\ client' = [client EXCEPT ![c] = "reply"]
      /\ up' = [up EXCEPT ![c] = Append(up[c], p)] /\ UNCHANGED <<down, fate>>
  BY DEF Client!SendPayload
<1>2. Append(up[c], p) \in Seq(Units)
  BY DEF StreamOK, Units
<1>3. /\ StreamOK' /\ \A d \in Conns \ {c} : Same(d)
      /\ client'[c] = "reply" /\ request'[c] = p /\ up'[c] = Append(up[c], p)
      /\ down'[c] = down[c] /\ fate'[c] = fate[c]
  BY <1>1, <1>2 DEF StreamOK, Same, ClientPlace
<1>4. /\ \A pl \in HandlerPlace : \A load :
           Talk(pl, load, client[c], request[c], up[c], down[c], fate[c]) =>
               Talk(pl, load, client'[c], request'[c], up'[c], down'[c], fate'[c])
      /\ NotServed("idle", request[c], up[c], down[c], fate[c]) =>
             NotServed(client'[c], request'[c], up'[c], down'[c], fate'[c])
      /\ ~HasLeft("idle", request[c], down[c])
  BY <1>3, AskKeeps
<1> QED
  BY <1>3, <1>4 DEF ClientKeeps, Unserved, Left

\* A connection whose client greets the server, or does not, is one that nobody serves.
LEMMA ConnectKeeps ==
    ASSUME StreamOK, NEW c \in Conns, Client!Connect(c) \/ Client!ConnectSilently(c)
    PROVE  /\ StreamOK' /\ \A d \in Conns \ {c} : Same(d)
           /\ client[c] = "start" /\ client'[c] # "start"
           /\ Unserved(c) => Unserved(c)'
<1>1. CASE Client!Connect(c)
  <2> DEFINE p == Ask("connect")
  <2>1. /\ request' = [request EXCEPT ![c] = p] /\ client' = [client EXCEPT ![c] = "reply"]
        /\ up' = [up EXCEPT ![c] = Append(up[c], p)] /\ UNCHANGED <<down, fate>>
        /\ client[c] = "start" /\ p \in Commands
    BY <1>1, SameNames, UnitsDiffer DEF Client!Connect, Client!SendPayload
  <2>2. Append(up[c], p) \in Seq(Units)
    BY <2>1 DEF StreamOK, Units
  <2>3. /\ StreamOK' /\ \A d \in Conns \ {c} : Same(d)
        /\ client'[c] = "reply" /\ request'[c] = p /\ up'[c] = Append(up[c], p)
        /\ down'[c] = down[c] /\ fate'[c] = fate[c]
    BY <2>1, <2>2 DEF StreamOK, Same, ClientPlace
  <2>4. Unserved(c) => up[c] = <<>> /\ down[c] = <<>> /\ fate[c] = "none"
    BY <2>1 DEF Unserved, NotServed, Over, Settled
  <2>5. Unserved(c) => Unserved(c)'
    BY <2>1, <2>3, <2>4, OneMessage DEF Unserved, NotServed, Settled
  <2> QED
    BY <2>1, <2>3, <2>5
<1>2. CASE Client!ConnectSilently(c)
  BY <1>2 DEF Client!ConnectSilently, StreamOK, Same, ClientPlace, Unserved, NotServed, Over,
     Settled
<1> QED
  BY <1>1, <1>2

\* A client that is killed says and hears no more.
LEMMA KillKeeps ==
    ASSUME StreamOK, NEW c \in Conns, Client!Kill(c)
    PROVE  ClientKeeps(c)
<1>1. /\ client[c] # "start" /\ client' = [client EXCEPT ![c] = "killed"]
      /\ request' = [request EXCEPT ![c] = NoCommand] /\ fate' = [fate EXCEPT ![c] = "none"]
      /\ down' = [down EXCEPT ![c] = <<>>] /\ up' = up
  BY SameNames DEF Client!Kill
<1>2. <<>> \in Seq(Replies)
  BY ShortSequences
<1>3. StreamOK' /\ (\A d \in Conns \ {c} : Same(d)) /\ client'[c] = "killed" /\ down'[c] = <<>>
  BY <1>1, <1>2 DEF StreamOK, Same, ClientPlace, Fates
<1> QED
  BY <1>1, <1>3 DEF ClientKeeps, Talk, Over, Unserved, NotServed, Left, HasLeft

\* What a client has not taken is still a stream of replies.
LEMMA TakesLeaves ==
    ASSUME StreamOK, NEW c \in Conns, NEW n \in 1 .. Len(down[c]), Client!Takes(c, n)
    PROVE  /\ down[c] # <<>> /\ down' \in [Conns -> Seq(Replies)]
           /\ \A d \in Conns \ {c} : down'[d] = down[d]
           /\ down'[c] = SubSeq(down[c], n + 1, Len(down[c]))
<1>1. down[c] \in Seq(Replies) /\ Len(down[c]) \in Nat /\ down[c] # <<>>
  BY DEF StreamOK
<1>2. \A i \in n + 1 .. Len(down[c]) : down[c][i] \in Replies
  BY <1>1
<1>3. SubSeq(down[c], n + 1, Len(down[c])) \in Seq(Replies)
  BY <1>1, <1>2, SubSeqProperties
<1>4. down' = [down EXCEPT ![c] = SubSeq(down[c], n + 1, Len(down[c]))]
  BY DEF Client!Takes
<1> QED
  BY <1>1, <1>3, <1>4 DEF StreamOK

\* The command is over.
LEMMA DoneWith ==
    ASSUME StreamOK, NEW c \in Conns, Client!Done(c)
    PROVE  /\ client' \in [Conns -> ClientPlace]
           /\ request' \in [Conns -> Commands \union {NoCommand}]
           /\ fate' \in [Conns -> Fates]
           /\ \A d \in Conns \ {c} :
                  client'[d] = client[d] /\ request'[d] = request[d] /\ fate'[d] = fate[d]
           /\ request'[c] = NoCommand
           /\ request[c].cmd_type = "disconnect" => client'[c] = "gone" /\ fate'[c] = fate[c]
           /\ request[c].cmd_type # "disconnect" => client'[c] = "idle" /\ fate'[c] = "none"
<1>1. CASE request[c].cmd_type = "disconnect"
  BY <1>1, SameNames DEF Client!Done, StreamOK, ClientPlace, Fates
<1>2. CASE request[c].cmd_type # "disconnect"
  BY <1>2, SameNames DEF Client!Done, StreamOK, ClientPlace, Fates
<1> QED
  BY <1>1, <1>2

\* Its value is wanted: it is sent, or is empty.
LEMMA TakeValueWantedKeeps ==
    ASSUME StreamOK, NEW c \in Conns, Client!TakeValueWanted(c)
    PROVE  ClientKeeps(c)
<1>1. /\ client[c] = "reply" /\ down[c] # <<>> /\ Client!Takes(c, 1) /\ Client!Done(c)
      /\ \/ request[c].cmd_type = "create" /\ Head(down[c]) = "created"
         \/ request[c].cmd_type = "update" /\ Head(down[c]) = "updated"
      /\ up' = up \/ up' = [up EXCEPT ![c] = Append(up[c], ValueBytes)]
  BY SameNames DEF Client!TakeValueWanted, Client!WantsValue
<1>2. 1 \in 1 .. Len(down[c])
  BY <1>1 DEF Client!Takes
<1>3. /\ down' \in [Conns -> Seq(Replies)] /\ \A d \in Conns \ {c} : down'[d] = down[d]
      /\ down'[c] = SubSeq(down[c], 2, Len(down[c]))
  BY <1>1, <1>2, TakesLeaves
<1>4. /\ client' \in [Conns -> ClientPlace] /\ request' \in [Conns -> Commands \union {NoCommand}]
      /\ fate' \in [Conns -> Fates] /\ request'[c] = NoCommand
      /\ client'[c] = "idle" /\ fate'[c] = "none"
      /\ \A d \in Conns \ {c} :
             client'[d] = client[d] /\ request'[d] = request[d] /\ fate'[d] = fate[d]
  BY <1>1, DoneWith
<1>5. Append(up[c], ValueBytes) \in Seq(Units)
  BY DEF StreamOK, Units
<1>6. /\ up' \in [Conns -> Seq(Units)] /\ \A d \in Conns \ {c} : up'[d] = up[d]
      /\ up'[c] = up[c] \/ up'[c] = Append(up[c], ValueBytes)
  BY <1>1, <1>5 DEF StreamOK
<1>7. StreamOK' /\ \A d \in Conns \ {c} : Same(d)
  BY <1>3, <1>4, <1>6 DEF StreamOK, Same
<1> DEFINE vs == up'[c]
<1>8. vs = up[c] \/ vs = Append(up[c], ValueBytes)
  BY <1>6
<1> HIDE DEF vs
<1>9. /\ \A pl \in HandlerPlace : \A load :
           Talk(pl, load, "reply", request[c], up[c], down[c], fate[c]) =>
               Talk(pl, load, "idle", NoCommand, vs, SubSeq(down[c], 2, Len(down[c])), "none")
      /\ ~NotServed("reply", request[c], up[c], down[c], fate[c])
      /\ ~HasLeft("reply", request[c], down[c])
  BY <1>1, <1>8, WantedKeeps
<1> QED
  BY <1>1, <1>3, <1>4, <1>7, <1>9 DEF ClientKeeps, Unserved, Left, vs

\* It takes "OK", perhaps with what comes behind.
LEMMA TakeOKKeeps ==
    ASSUME StreamOK, NEW c \in Conns, Client!TakeOK(c)
    PROVE  ClientKeeps(c)
<1>1. /\ client[c] = "reply" /\ down[c] # <<>> /\ Head(down[c]) = "ok"
      /\ request[c].cmd_type = "read" /\ client' = [client EXCEPT ![c] = "payload"]
      /\ UNCHANGED <<request, up>>
  BY DEF Client!TakeOK
<1>2. PICK n \in 1 .. Len(down[c]) :
        /\ Client!Takes(c, n) \/ (n = 3 /\ Client!Takes(c, 2))
        /\ fate' = [fate EXCEPT ![c] = IF n = 1 THEN fate[c] ELSE "merged"]
  BY DEF Client!TakeOK
<1>3. Len(down[c]) \in Nat
  BY DEF StreamOK
<1>4. /\ down' \in [Conns -> Seq(Replies)] /\ \A d \in Conns \ {c} : down'[d] = down[d]
      /\ \/ down'[c] = SubSeq(down[c], n + 1, Len(down[c]))
         \/ n = 3 /\ down'[c] = SubSeq(down[c], 3, Len(down[c]))
  <2>1. CASE Client!Takes(c, n)
    BY <2>1, TakesLeaves
  <2>2. CASE n = 3 /\ Client!Takes(c, 2)
    <3>1. 2 \in 1 .. Len(down[c])
      BY <1>3, <2>2
    <3> QED
      BY <2>2, <3>1, TakesLeaves
  <2> QED
    BY <1>2, <2>1, <2>2
<1>5. /\ fate' \in [Conns -> Fates] /\ \A d \in Conns \ {c} : fate'[d] = fate[d]
      /\ fate'[c] = IF n = 1 THEN fate[c] ELSE "merged"
  BY <1>2 DEF StreamOK, Fates
<1>6. /\ StreamOK' /\ \A d \in Conns \ {c} : Same(d)
      /\ client'[c] = "payload"
  BY <1>1, <1>4, <1>5 DEF StreamOK, Same, ClientPlace
<1> DEFINE left == down'[c]
           f == fate'[c]
<1>7. /\ left = SubSeq(down[c], n + 1, Len(down[c])) \/ (n = 3 /\ left = SubSeq(down[c], 3, Len(down[c])))
      /\ f = IF n = 1 THEN fate[c] ELSE "merged"
  BY <1>4, <1>5
<1> HIDE DEF left, f
<1>8. /\ \A pl \in HandlerPlace : \A load :
           Talk(pl, load, "reply", request[c], up[c], down[c], fate[c]) =>
               Talk(pl, load, "payload", request[c], up[c], left, f)
      /\ ~NotServed("reply", request[c], up[c], down[c], fate[c])
      /\ ~HasLeft("reply", request[c], down[c])
  BY <1>1, <1>7, OKKeeps
<1> QED
  BY <1>1, <1>6, <1>8 DEF ClientKeeps, Unserved, Left, left, f

\* It takes the length, or the value for it.
LEMMA TakePayloadKeeps ==
    ASSUME StreamOK, NEW c \in Conns, Client!TakePayload(c)
    PROVE  ClientKeeps(c)
<1>1. /\ client[c] = "payload" /\ Client!Takes(c, 1) /\ up' = up
  BY DEF Client!TakePayload
<1>2. 1 \in 1 .. Len(down[c])
  BY <1>1 DEF Client!Takes
<1>3. /\ down' \in [Conns -> Seq(Replies)] /\ \A d \in Conns \ {c} : down'[d] = down[d]
      /\ down'[c] = SubSeq(down[c], 2, Len(down[c])) /\ down[c] # <<>>
  BY <1>1, <1>2, TakesLeaves
<1>4. /\ \A pl \in HandlerPlace : \A load :
           Talk(pl, load, "payload", request[c], up[c], down[c], fate[c]) =>
               /\ Head(down[c]) \in {"empty", "value"} =>
                    Talk(pl, load, "idle", NoCommand, up[c], SubSeq(down[c], 2, Len(down[c])), "none")
               /\ Head(down[c]) \in {"length", "value"} =>
                    Talk(pl, load, "value", request[c], up[c], SubSeq(down[c], 2, Len(down[c])), fate[c])
      /\ \A pl \in HandlerPlace : \A load :
           Talk(pl, load, "payload", request[c], up[c], down[c], fate[c]) =>
               request[c].cmd_type # "disconnect"
      /\ ~NotServed("payload", request[c], up[c], down[c], fate[c])
      /\ ~HasLeft("payload", request[c], down[c])
  BY <1>3, PayloadKeeps
<1>5. CASE Head(down[c]) \in {"empty", "value"} /\ Client!Done(c)
  <2>1. /\ client' \in [Conns -> ClientPlace]
        /\ request' \in [Conns -> Commands \union {NoCommand}]
        /\ fate' \in [Conns -> Fates] /\ request'[c] = NoCommand
        /\ client'[c] \in {"gone", "idle"}
        /\ request[c].cmd_type # "disconnect" => client'[c] = "idle" /\ fate'[c] = "none"
        /\ \A d \in Conns \ {c} :
               client'[d] = client[d] /\ request'[d] = request[d] /\ fate'[d] = fate[d]
    BY <1>5, DoneWith
  <2>2. StreamOK' /\ \A d \in Conns \ {c} : Same(d)
    BY <1>1, <1>3, <2>1 DEF StreamOK, Same
  <2>3. up'[c] = up[c]
    BY <1>1
  <2> QED
    BY <1>1, <1>3, <1>4, <1>5, <2>1, <2>2, <2>3 DEF ClientKeeps, Unserved, Left
<1>6. CASE /\ Head(down[c]) \in {"length", "value"}
           /\ client' = [client EXCEPT ![c] = "value"] /\ UNCHANGED <<request, fate>>
  <2>1. StreamOK' /\ (\A d \in Conns \ {c} : Same(d)) /\ client'[c] = "value"
    BY <1>1, <1>3, <1>6 DEF StreamOK, Same, ClientPlace
  <2>2. request'[c] = request[c] /\ fate'[c] = fate[c] /\ up'[c] = up[c]
    BY <1>1, <1>6
  <2> QED
    BY <1>1, <1>3, <1>4, <1>6, <2>1, <2>2 DEF ClientKeeps, Unserved, Left
<1> QED
  BY <1>5, <1>6 DEF Client!TakePayload

\* It takes the value.
LEMMA TakeValueReadKeeps ==
    ASSUME StreamOK, NEW c \in Conns, Client!TakeValueRead(c)
    PROVE  ClientKeeps(c)
<1>1. /\ client[c] = "value" /\ Client!Takes(c, 1) /\ Client!Done(c) /\ up' = up
  BY DEF Client!TakeValueRead
<1>2. 1 \in 1 .. Len(down[c])
  BY <1>1 DEF Client!Takes
<1>3. /\ down' \in [Conns -> Seq(Replies)] /\ \A d \in Conns \ {c} : down'[d] = down[d]
      /\ down'[c] = SubSeq(down[c], 2, Len(down[c])) /\ down[c] # <<>>
  BY <1>1, <1>2, TakesLeaves
<1>4. /\ client' \in [Conns -> ClientPlace] /\ request' \in [Conns -> Commands \union {NoCommand}]
      /\ fate' \in [Conns -> Fates] /\ request'[c] = NoCommand
      /\ client'[c] \in {"gone", "idle"}
      /\ request[c].cmd_type # "disconnect" => client'[c] = "idle" /\ fate'[c] = "none"
      /\ \A d \in Conns \ {c} :
             client'[d] = client[d] /\ request'[d] = request[d] /\ fate'[d] = fate[d]
  BY <1>1, DoneWith
<1>5. (StreamOK' /\ \A d \in Conns \ {c} : Same(d)) /\ up'[c] = up[c]
  BY <1>1, <1>3, <1>4 DEF StreamOK, Same
<1>6. /\ \A pl \in HandlerPlace : \A load :
           Talk(pl, load, "value", request[c], up[c], down[c], fate[c]) =>
               /\ request[c].cmd_type # "disconnect"
               /\ Talk(pl, load, "idle", NoCommand, up[c], SubSeq(down[c], 2, Len(down[c])), "none")
      /\ ~NotServed("value", request[c], up[c], down[c], fate[c])
      /\ ~HasLeft("value", request[c], down[c])
  BY <1>3, ValueReadKeeps
<1> QED
  BY <1>1, <1>3, <1>4, <1>5, <1>6 DEF ClientKeeps, Unserved, Left

\* It takes any other answer.
LEMMA TakeReplyKeeps ==
    ASSUME StreamOK, NEW c \in Conns, Client!TakeReply(c)
    PROVE  ClientKeeps(c)
<1>1. /\ client[c] = "reply" /\ Client!Takes(c, 1) /\ Client!Done(c) /\ up' = up
      /\ ~(request[c].cmd_type = "create" /\ Head(down[c]) = "created")
      /\ ~(request[c].cmd_type = "update" /\ Head(down[c]) = "updated")
      /\ ~(request[c].cmd_type = "read" /\ Head(down[c]) = "ok")
  BY DEF Client!TakeReply, Client!WantsValue
<1>2. 1 \in 1 .. Len(down[c])
  BY <1>1 DEF Client!Takes
<1>3. /\ down' \in [Conns -> Seq(Replies)] /\ \A d \in Conns \ {c} : down'[d] = down[d]
      /\ down'[c] = SubSeq(down[c], 2, Len(down[c])) /\ down[c] # <<>>
  BY <1>1, <1>2, TakesLeaves
<1>4. /\ client' \in [Conns -> ClientPlace] /\ request' \in [Conns -> Commands \union {NoCommand}]
      /\ fate' \in [Conns -> Fates] /\ request'[c] = NoCommand
      /\ client'[c] \in {"gone", "idle"}
      /\ request[c].cmd_type = "disconnect" => client'[c] = "gone" /\ fate'[c] = fate[c]
      /\ request[c].cmd_type # "disconnect" => client'[c] = "idle" /\ fate'[c] = "none"
      /\ \A d \in Conns \ {c} :
             client'[d] = client[d] /\ request'[d] = request[d] /\ fate'[d] = fate[d]
  BY <1>1, DoneWith
<1>5. (StreamOK' /\ \A d \in Conns \ {c} : Same(d)) /\ up'[c] = up[c]
  BY <1>1, <1>3, <1>4 DEF StreamOK, Same
<1>6. /\ \A pl \in HandlerPlace : \A load :
           Talk(pl, load, "reply", request[c], up[c], down[c], fate[c]) =>
               /\ request[c].cmd_type = "disconnect" =>
                    Talk(pl, load, "gone", NoCommand, up[c], SubSeq(down[c], 2, Len(down[c])), fate[c])
               /\ request[c].cmd_type # "disconnect" =>
                    Talk(pl, load, "idle", NoCommand, up[c], SubSeq(down[c], 2, Len(down[c])), "none")
      /\ ~NotServed("reply", request[c], up[c], down[c], fate[c])
      /\ HasLeft("reply", request[c], down[c]) =>
             /\ request[c].cmd_type = "disconnect"
             /\ HasLeft("gone", NoCommand, SubSeq(down[c], 2, Len(down[c])))
  BY <1>1, <1>3, ReplyTakenKeeps
<1> QED
  BY <1>1, <1>3, <1>4, <1>5, <1>6 DEF ClientKeeps, Unserved, Left

\* All that a client does once it is connected
LEMMA ClientStepKeeps ==
    ASSUME StreamOK, NEW c \in Conns,
           Client!TypeCommand(c) \/ Client!GoesOn(c) \/ Client!Kill(c)
    PROVE  ClientKeeps(c)
<1>1. CASE Client!TypeCommand(c)
  BY <1>1, AskClientKeeps, SameNames, UnitsDiffer DEF Client!TypeCommand
<1>2. CASE Client!TypeDisconnect(c)
  BY <1>2, AskClientKeeps, SameNames, UnitsDiffer DEF Client!TypeDisconnect
<1>3. CASE Client!Receive(c)
  BY <1>3, TakeValueWantedKeeps, TakeOKKeeps, TakePayloadKeeps, TakeValueReadKeeps,
     TakeReplyKeeps DEF Client!Receive
<1>4. CASE Client!Kill(c)
  BY <1>4, KillKeeps
<1> QED
  BY <1>1, <1>2, <1>3, <1>4 DEF Client!GoesOn

-----------------------------------------------------------------------------
\* A client that a thread turns to with a clean slate has a conversation with it.
LEMMA FirstRequest ==
    ASSUME NEW t \in Threads, NEW c \in Conns, pc[t] = "recv", Unserved(c),
           client[c] # "start"
    PROVE  Conversation(t, c)
<1> QED
  BY DEF Conversation, Unserved, NotServed, Talk

\* Both in a conversation are in step.
LEMMA TalkInStep ==
    ASSUME NEW pl \in HandlerPlace, NEW load, NEW c \in Conns,
           Talk(pl, load, client[c], request[c], up[c], down[c], fate[c])
    PROVE  InStepAt(c, pl)
<1>1. CASE Over(client[c], down[c])
  BY <1>1 DEF Over, InStepAt
<1>2. CASE Settled(client[c], request[c], up[c], down[c], fate[c])
  BY <1>2, OneMessage DEF Settled, InStepAt, Waits
<1>3. CASE Answering(client[c], request[c], up[c], down[c], fate[c]) /\ pl # "recv_value"
  <2>1. client[c] # "idle" /\ (fate[c] # "merged" => down[c] # <<>>)
    <3>1. /\ \A m : <<m>> # <<>>
          /\ <<"ok", "length", "value">> # <<>> /\ <<"ok", "empty">> # <<>>
          /\ <<"length", "value">> # <<>>
      BY OneMessage, MoreMessages
    <3> QED
      BY <1>3, <3>1 DEF Answering
  <2>2. ASSUME NEW m \in Replies, down[c] = <<m>>, Plain(request[c], m)
        PROVE  Answers(request[c], Head(down[c]))
    BY <2>2, OneMessage DEF Plain
  <2>3. ASSUME request[c].cmd_type = "read",
               down[c] = <<"ok", "length", "value">> \/ down[c] = <<"ok", "empty">>
        PROVE  Answers(request[c], Head(down[c]))
    <3>1. Head(down[c]) = "ok"
      BY <2>3, MoreMessages
    <3> QED
      BY <2>3, <3>1 DEF Answers
  <2>4. client[c] = "reply" => Answers(request[c], Head(down[c]))
    BY <1>3, <2>2, <2>3 DEF Answering
  <2> QED
    BY <1>3, <2>1, <2>4 DEF InStepAt
<1>4. CASE Robbed(client[c], request[c], up[c], down[c], fate[c]) /\ pl # "recv_value"
  BY <1>4, OneMessage DEF Robbed, InStepAt, Waits
<1>5. CASE /\ Asked(client[c], request[c], up[c], down[c], fate[c])
           /\ pl \notin {"recv", "recv_value"}
  BY <1>5 DEF Asked, InStepAt
<1>6. CASE ValueAsked(client[c], request[c], up[c], down[c], fate[c])
  BY <1>6, OneMessage DEF ValueAsked, InStepAt, Answers
<1>7. CASE ValueDue(client[c], request[c], up[c], down[c], fate[c]) /\ pl = "recv_value"
  <2>1. /\ down[c] = <<>> /\ client[c] \in {"idle", "reply"}
        /\ client[c] = "reply" => up[c] # <<>>
    BY <1>7, OneMessage, MoreMessages DEF ValueDue
  <2> QED
    BY <1>7, <2>1 DEF InStepAt, Waits
<1>8. CASE pl \in {"recv", "end"}
  BY <1>1, <1>2, <1>3, <1>4, <1>8 DEF Talk
<1>9. CASE pl \in {"lock", "search", "not_found", "loop"}
  BY <1>1, <1>5, <1>9 DEF Talk
<1>10. CASE pl = "recv_value"
  BY <1>1, <1>6, <1>7, <1>10 DEF Talk
<1> QED
  BY <1>8, <1>9, <1>10 DEF HandlerPlace

\* So are a thread and the client of its connection.
LEMMA ConversationInStep ==
    ASSUME NEW t \in Threads, NEW c \in Conns, TalkOK, Conversation(t, c)
    PROVE  InStepAt(c, pc[t])
<1> QED
  BY TalkInStep DEF Conversation, TalkOK

\* A client in a conversation has connected.
LEMMA TalkConnected ==
    ASSUME NEW pl \in HandlerPlace, NEW load, NEW cl, NEW rq, NEW ts, NEW tc, NEW ft,
           Talk(pl, load, cl, rq, ts, tc, ft)
    PROVE  cl # "start"
<1> QED
  BY DEF Talk, HandlerPlace, Over, Settled, Answering, Robbed, Asked, ValueAsked, ValueDue

\* Nor does one that is in a conversation after a step start again.
LEMMA StillConnected ==
    ASSUME NEW t \in Threads, NEW c \in Conns, TalkOK', Conversation(t, c)'
    PROVE  client'[c] # "start"
<1>1. /\ Talk(pc'[t], payload'[t], client'[c], request'[c], up'[c], down'[c], fate'[c])
      /\ pc'[t] \in HandlerPlace
  BY DEF Conversation, TalkOK
<1> QED
  BY <1>1, TalkConnected
=============================================================================
