----------------------------- MODULE WebServer -----------------------------
(***************************************************************************)
(* prac/network/q2: simple_server.cpp, a pool of threads behind a bounded  *)
(* queue, and the users of load-generator/generator.c as its clients.      *)
(*                                                                         *)
(* The queue is touched under queueMutex, so a critical section is one     *)
(* action.  The exception is a thread that has found the queue empty and   *)
(* running set and has not called pthread_cond_wait yet ("to_wait"): it    *)
(* holds the mutex, but int_handler, which takes no mutex, can run then.   *)
(* A connection is named by the user who opened it; a user opens the next  *)
(* one after the server has closed the last.  Once SIGINT has come, a      *)
(* connection may end without an answer: the thread that runs the handler  *)
(* gives its read up (EINTR), or the process exits.                        *)
(***************************************************************************)
EXTENDS Naturals, Sequences, FiniteSets

CONSTANTS Workers,       \* the THREAD_MAX threads of connection_handler
          Users,         \* the user threads of the load generator
          QUEUE_MAX,
          NoConn,
          MaxRequests,   \* bound on total_count of a user
          WorkersTakeSignals   \* may SIGINT be handled by a thread of the pool?

ASSUME WebServerAssumption ==
    /\ IsFiniteSet(Workers) /\ IsFiniteSet(Users) /\ NoConn \notin Users
    /\ QUEUE_MAX \in Nat \ {0} /\ MaxRequests \in Nat
    /\ WorkersTakeSignals \in BOOLEAN

VARIABLES running, client_queue,
          thread,        \* where each thread is in connection_handler
          serving,       \* its newsockfd
          main_at,       \* where main is
          newsockfd,     \* the newsockfd of main
          backlog,       \* connections not accepted yet
          user,          \* where each user is in user_routine
          done,          \* the generator's done
          total_count,   \* info[u].total_count
          answered,      \* history: how many responses u was sent
          cut,           \* history: how many connections of u were closed unanswered
          heard          \* history: see IntHandler

serverVars == <<running, client_queue, thread, serving, main_at, newsockfd>>
userVars   == <<user, done, total_count>>
webVars == <<serverVars, userVars, backlog, answered, cut, heard>>

\* A thread that is "closing" has a read behind it that failed.  main enters accept
\* from "to_accept", where SIGINT fails nothing.
ThreadState == {"start", "lock", "to_wait", "parked", "woken", "serving", "closing", "gone"}
MainState   == {"to_accept", "accept", "accepted", "lock", "parked", "woken", "loop", "join",
                "stopped"}

\* "closed" and "reset" say how the connection ended, by FIN or by RST.  The process of
\* a user that is "failed" has exited, that of one "orphaned" too, while the server has
\* the connection still.
UserState   == {"think", "connected", "sent", "closed", "reset", "finished", "orphaned",
                "failed"}

InitServer ==
    /\ running = TRUE
    /\ client_queue = <<>>
    /\ thread = [t \in Workers |-> "start"]
    /\ serving = [t \in Workers |-> NoConn]
    /\ main_at = "to_accept"
    /\ newsockfd = NoConn
    /\ backlog = <<>>
    /\ user = [u \in Users |-> "think"]
    /\ done = FALSE
    /\ total_count = [u \in Users |-> 0]
    /\ answered = [u \in Users |-> 0]
    /\ cut = [u \in Users |-> 0]
    /\ heard = FALSE

MutexFree == \A t \in Workers : thread[t] # "to_wait"

ThreadsIn(s) == {t \in Workers : thread[t] = s}

\* The connections that are not closed at the server's side.
Open(u) == user[u] \in {"connected", "sent", "orphaned"}

\* The connections of S are closed without an answer, by FIN or, if a request is unread
\* or nobody had accepted them, by RST.  After a FIN the user's send succeeds still.
CutOff(S) ==
    LET heldOpen == {u \in S : user[u] # "orphaned"}
    IN  \E byRST \in SUBSET heldOpen :
            /\ user' = [u \in Users |-> IF u \in byRST THEN "reset"
                                      ELSE IF u \in heldOpen THEN "closed"
                                      ELSE IF u \in S THEN "failed" ELSE user[u]]
            /\ cut' = [u \in Users |-> IF u \in heldOpen \ byRST THEN cut[u] + 1 ELSE cut[u]]

\* pthread_cond_signal(&queueCondEmpty); its users wait on nothing else
SignalEmpty ==
    \/ ThreadsIn("parked") = {} /\ UNCHANGED thread
    \/ \E t \in ThreadsIn("parked") : thread' = [thread EXCEPT ![t] = "woken"]

\* pthread_cond_signal(&queueCondFull), on which only main waits
SignalFull == main_at' = IF main_at = "parked" THEN "woken" ELSE main_at
-----------------------------------------------------------------------------
\* connection_handler

TestRunning(t) ==
    /\ thread[t] = "start"
    /\ thread' = [thread EXCEPT ![t] = IF running THEN "lock" ELSE "gone"]
    /\ UNCHANGED <<running, client_queue, serving, main_at, newsockfd,
                   userVars, backlog, answered, cut, heard>>

\* Variants named X_... are X with a slip; each breaks a property.
TakeOrWait_NoPop(t) ==
    /\ thread[t] \in {"lock", "woken"} /\ MutexFree
    /\ \/ /\ client_queue = <<>> /\ running
          /\ thread' = [thread EXCEPT ![t] = "to_wait"]
          /\ UNCHANGED <<client_queue, serving, main_at>>
       \/ /\ ~running
          /\ thread' = [thread EXCEPT ![t] = "start"]
          /\ UNCHANGED <<client_queue, serving, main_at>>
       \/ /\ client_queue # <<>> /\ running
          /\ serving' = [serving EXCEPT ![t] = Head(client_queue)]
          /\ client_queue' = IF ThreadsIn("serving") = {} THEN Tail(client_queue)
                             ELSE client_queue
          /\ thread' = [thread EXCEPT ![t] = "serving"]
          /\ SignalFull
    /\ UNCHANGED <<running, newsockfd, userVars, backlog, answered, cut, heard>>

TakeOrWait_NoSignal(t) ==
    /\ thread[t] \in {"lock", "woken"} /\ MutexFree
    /\ \/ /\ client_queue = <<>> /\ running
          /\ thread' = [thread EXCEPT ![t] = "to_wait"]
          /\ UNCHANGED <<client_queue, serving>>
       \/ /\ ~running
          /\ thread' = [thread EXCEPT ![t] = "start"]
          /\ UNCHANGED <<client_queue, serving>>
       \/ /\ client_queue # <<>> /\ running
          /\ serving' = [serving EXCEPT ![t] = Head(client_queue)]
          /\ client_queue' = Tail(client_queue)
          /\ thread' = [thread EXCEPT ![t] = "serving"]
    /\ UNCHANGED <<running, main_at, newsockfd, userVars, backlog, answered, cut, heard>>

\* lines 19-32
TakeOrWait(t) ==
    /\ thread[t] \in {"lock", "woken"} /\ MutexFree
    /\ \/ /\ client_queue = <<>> /\ running
          /\ thread' = [thread EXCEPT ![t] = "to_wait"]
          /\ UNCHANGED <<client_queue, serving, main_at>>
       \/ /\ ~running
          /\ thread' = [thread EXCEPT ![t] = "start"]
          /\ UNCHANGED <<client_queue, serving, main_at>>
       \/ /\ client_queue # <<>> /\ running
          /\ serving' = [serving EXCEPT ![t] = Head(client_queue)]
          /\ client_queue' = Tail(client_queue)
          /\ thread' = [thread EXCEPT ![t] = "serving"]
          /\ SignalFull
    /\ UNCHANGED <<running, newsockfd, userVars, backlog, answered, cut, heard>>

Wait(t) ==
    /\ thread[t] = "to_wait"
    /\ thread' = [thread EXCEPT ![t] = "parked"]
    /\ UNCHANGED <<running, client_queue, serving, main_at, newsockfd,
                   userVars, backlog, answered, cut, heard>>

SpuriousServerWakeup ==
    /\ \/ \E t \in ThreadsIn("parked") : /\ thread' = [thread EXCEPT ![t] = "woken"]
                                         /\ UNCHANGED main_at
       \/ main_at = "parked" /\ main_at' = "woken" /\ UNCHANGED thread
    /\ UNCHANGED <<running, client_queue, serving, newsockfd,
                   userVars, backlog, answered, cut, heard>>

\* The request is read, answered by handle_request and the connection closed.
Respond(t) ==
    /\ thread[t] = "serving"
    /\ \/ /\ user[serving[t]] = "sent"
          /\ user' = [user EXCEPT ![serving[t]] = "closed"]
          /\ answered' = [answered EXCEPT ![serving[t]] = @ + 1]
       \/ /\ user[serving[t]] = "orphaned"
          /\ user' = [user EXCEPT ![serving[t]] = "failed"]
          /\ UNCHANGED answered
    /\ serving' = [serving EXCEPT ![t] = NoConn]
    /\ thread' = [thread EXCEPT ![t] = "start"]
    /\ UNCHANGED <<running, client_queue, main_at, newsockfd, backlog, done,
                   total_count, cut, heard>>

\* lines 40-46, 88: read was interrupted, and the connection is closed all the same.
CloseUnread(t) ==
    /\ thread[t] = "closing"
    /\ CutOff({serving[t]})
    /\ serving' = [serving EXCEPT ![t] = NoConn]
    /\ thread' = [thread EXCEPT ![t] = "start"]
    /\ UNCHANGED <<running, client_queue, main_at, newsockfd, backlog, done,
                   total_count, answered, heard>>

Thread(t) == TestRunning(t) \/ TakeOrWait(t) \/ Wait(t) \/ Respond(t) \/ CloseUnread(t)
-----------------------------------------------------------------------------
\* SIGINT.  Handled by main, it makes accept fail with EINTR (sa_flags is 0); handled
\* by a thread of the pool that is in read, it makes that read fail (inRead).  heard
\* notes that it came while main was in accept and no thread in between the test of
\* running and pthread_cond_wait.
IntHandler_SignalOne(inMain, inRead) ==
    /\ main_at # "stopped"
    /\ running' = FALSE
    /\ SignalEmpty
    /\ main_at' = IF inMain /\ main_at = "accept" THEN "accepted" ELSE main_at
    /\ heard' = (heard \/ (inMain /\ running /\ main_at = "accept" /\ MutexFree))
    /\ UNCHANGED <<client_queue, serving, newsockfd, userVars, backlog, answered, cut>>

IntHandler(inMain, inRead) ==
    /\ main_at # "stopped"
    /\ running' = FALSE
    /\ thread' = [t \in Workers |-> CASE t \in inRead          -> "closing"
                                     [] thread[t] = "parked" -> "woken"
                                     [] OTHER                -> thread[t]]
    /\ main_at' = IF inMain /\ main_at = "accept" THEN "accepted" ELSE main_at
    /\ heard' = (heard \/ (inMain /\ running /\ main_at = "accept" /\ MutexFree))
    /\ UNCHANGED <<client_queue, serving, newsockfd, userVars, backlog, answered, cut>>

\* The threads that read (line 39) and have got nothing yet.
Reading == {t \in ThreadsIn("serving") : user[serving[t]] = "connected"}

Interrupt ==
    \/ IntHandler(TRUE, {})
    \/ /\ WorkersTakeSignals
       /\ \/ IntHandler(FALSE, {})
          \/ \E t \in Reading : IntHandler(FALSE, {t})
-----------------------------------------------------------------------------
\* main

\* line 169: with no connection to take, accept waits
Block ==
    /\ main_at = "to_accept" /\ backlog = <<>>
    /\ main_at' = "accept"
    /\ UNCHANGED <<running, client_queue, thread, serving, newsockfd,
                   userVars, backlog, answered, cut, heard>>

Accept ==
    /\ main_at \in {"to_accept", "accept"} /\ backlog # <<>>
    /\ newsockfd' = Head(backlog)
    /\ backlog' = Tail(backlog)
    /\ main_at' = "accepted"
    /\ UNCHANGED <<running, client_queue, thread, serving, userVars, answered, cut, heard>>

\* lines 170-179; an accept that fails while running is set ends the program and
\* is left out
Accepted ==
    /\ main_at = "accepted"
    /\ main_at' = IF running THEN "lock" ELSE "join"
    /\ UNCHANGED <<running, client_queue, thread, serving, newsockfd,
                   userVars, backlog, answered, cut, heard>>

\* lines 181-191
Enqueue ==
    /\ main_at \in {"lock", "woken"} /\ MutexFree
    /\ \/ /\ Len(client_queue) = QUEUE_MAX
          /\ main_at' = "parked"
          /\ UNCHANGED <<client_queue, newsockfd, thread>>
       \/ /\ Len(client_queue) # QUEUE_MAX
          /\ client_queue' = Append(client_queue, newsockfd)
          /\ newsockfd' = NoConn
          /\ SignalEmpty
          /\ main_at' = "loop"
    /\ UNCHANGED <<running, serving, userVars, backlog, answered, cut, heard>>

\* line 193
TestLoop ==
    /\ main_at = "loop"
    /\ main_at' = IF running THEN "to_accept" ELSE "join"
    /\ UNCHANGED <<running, client_queue, thread, serving, newsockfd,
                   userVars, backlog, answered, cut, heard>>

\* lines 195-208: the process ends and leaves the connections still open unanswered.
Join ==
    /\ main_at = "join"
    /\ \A t \in Workers : thread[t] = "gone"
    /\ main_at' = "stopped"
    /\ client_queue' = <<>> /\ newsockfd' = NoConn /\ backlog' = <<>>
    /\ CutOff({u \in Users : Open(u)})
    /\ UNCHANGED <<running, thread, serving, done, total_count, answered, heard>>

Main == Block \/ Accept \/ Accepted \/ Enqueue \/ TestLoop \/ Join
-----------------------------------------------------------------------------
\* user_routine of the load generator

Connect(u) ==
    /\ user[u] = "think" /\ main_at # "stopped"
    /\ total_count[u] < MaxRequests
    /\ user' = [user EXCEPT ![u] = "connected"]
    /\ backlog' = Append(backlog, u)
    /\ UNCHANGED <<serverVars, done, total_count, answered, cut, heard>>

Send(u) ==
    /\ user[u] = "connected"
    /\ user' = [user EXCEPT ![u] = "sent"]
    /\ UNCHANGED <<serverVars, backlog, done, total_count, answered, cut, heard>>

\* lines 68-104: recv returns 0, whether or not an answer came before; it counts
\* unless done is set by now.
Receive(u) ==
    /\ user[u] = "closed"
    /\ \/ /\ done
          /\ user' = [user EXCEPT ![u] = "finished"]
          /\ UNCHANGED total_count
       \/ /\ ~done
          /\ user' = [user EXCEPT ![u] = "think"]
          /\ total_count' = [total_count EXCEPT ![u] = @ + 1]
    /\ UNCHANGED <<serverVars, backlog, done, answered, cut, heard>>

\* connect is refused, or send or recv fails, and the generator exits with all its users.
Fail(u) ==
    /\ user[u] = "reset" \/ (user[u] = "think" /\ main_at = "stopped")
    /\ user' = [v \in Users |-> IF Open(v) THEN "orphaned" ELSE "failed"]
    /\ UNCHANGED <<serverVars, backlog, done, total_count, answered, cut, heard>>

\* generator.c:164-169: the test duration is over.
SetDone ==
    /\ ~done /\ done' = TRUE
    /\ UNCHANGED <<serverVars, backlog, user, total_count, answered, cut, heard>>

User(u) == Connect(u) \/ Send(u) \/ Receive(u) \/ Fail(u)

Ended == /\ main_at = "stopped" /\ \A u \in Users : user[u] \in {"finished", "failed"}
         /\ UNCHANGED webVars

NextServer ==
    \/ \E t \in Workers : Thread(t)
    \/ \E u \in Users : User(u)
    \/ Main \/ SetDone \/ SpuriousServerWakeup \/ Interrupt \/ Ended

ServerSpec == InitServer /\ [][NextServer]_webVars

\* Every thread that can run does.  main gets the mutex at last even if threads
\* that wake up spuriously take it again and again.  Nobody has to press Ctrl+C.
FairServerSpec ==
    /\ ServerSpec
    /\ \A t \in Workers : WF_webVars(Thread(t))
    /\ \A u \in Users : WF_webVars(User(u))
    /\ SF_webVars(Main)
-----------------------------------------------------------------------------
\* The variables have their types; the queue keeps its bound.
ServerOK ==
    /\ running \in BOOLEAN /\ done \in BOOLEAN /\ heard \in BOOLEAN
    /\ client_queue \in Seq(Users) /\ Len(client_queue) <= QUEUE_MAX
    /\ thread \in [Workers -> ThreadState]
    /\ serving \in [Workers -> Users \union {NoConn}]
    /\ main_at \in MainState
    /\ newsockfd \in Users \union {NoConn}
    /\ backlog \in Seq(Users)
    /\ user \in [Users -> UserState]
    /\ total_count \in [Users -> 0 .. MaxRequests]
    /\ answered \in [Users -> Nat] /\ cut \in [Users -> Nat]

Places(u) == {<<"queue", i>> : i \in {j \in DOMAIN client_queue : client_queue[j] = u}}
      \union {<<"backlog", i>> : i \in {j \in DOMAIN backlog : backlog[j] = u}}
      \union {<<"main", 0>> : m \in {1} \intersect IF newsockfd = u THEN {1} ELSE {}}
      \union {<<"thread", t>> : t \in {s \in Workers : serving[s] = u}}

\* While the server runs an open connection is in one hand: the backlog, main, the
\* queue or one thread.  A closed one is in none, so its descriptor is not used
\* again after close (line 88).
EachConnectionOncePlaced ==
    main_at # "stopped" =>
        \A u \in Users : Cardinality(Places(u)) =
                            IF Open(u) THEN 1 ELSE 0

\* No wakeup is lost while the server runs: parked threads leave no connection in
\* the queue that nobody is woken for, and main sleeps only before a full queue.
NoServerWakeupLost ==
    running =>
        /\ ThreadsIn("parked") # {} =>
               Len(client_queue) <= Cardinality(ThreadsIn("woken"))
        /\ main_at = "parked" => Len(client_queue) = QUEUE_MAX

\* The generator's figures: a user has counted every answer, and every connection that
\* was closed unanswered, but the one it has not read yet and the one it read after done
\* was set (generator.c:93-101).  Up to SIGINT it has counted answers only; by the time
\* the server ends, at most one connection too many, and at most two ever.
AnswersCounted ==
    \A u \in Users :
        /\ answered[u] + cut[u] - total_count[u] \in
             CASE user[u] \in {"closed", "finished"} -> {1}
               [] user[u] \in {"orphaned", "failed"} -> {0, 1}
               [] OTHER                              -> {0}
        /\ cut[u] <= IF running THEN 0 ELSE IF main_at # "stopped" THEN 1 ELSE 2

\* No connection, wakeup or answer is lost on the way, or taken twice.
NothingLost == EachConnectionOncePlaced /\ NoServerWakeupLost /\ AnswersCounted

\* A user that has sent its request gets an answer, or the server is shut down.
RequestAnswered ==
    \A u \in Users : user[u] = "sent" ~> user[u] = "closed" \/ ~running

\* An interrupt that main took in accept, with no thread about to wait, stops the
\* server: every thread leaves and main joins them all.
HeardShutdownEnds == heard ~> main_at = "stopped"

\* "To stop the server, press Ctrl+C" (simple_server.cpp:154).
ShutdownEnds == ~running ~> main_at = "stopped"
=============================================================================
