-------------------------- MODULE MCThreadPrograms --------------------------
(* The programs whose threads share one or two variables, one of which runs:  *)
(* three workers and four connections, so that connections queue up behind    *)
(* busy workers and two accept errors leave one worker of the three; the      *)
(* masters and workers of master-worker.c with five items and a stack of two; *)
(* five philosophers; three threads that take turns, in three versions; the   *)
(* bit string of bitstring-send.c, with four bits; and test-writer-pref.cpp   *)
(* with two readers and three writers, so that a signal can reach a writer    *)
(* while another one still waits and a third one takes the lock first.        *)
EXTENDS FdQueue, Philosophers, MasterWorker, TurnTaking, TestWriterPref

CONSTANTS t1, t2, t3, c1, c2, c3, c4, r1, r2, w1, w2, w3, LENGTH

VARIABLES program,
          bits, sender, sent, canReceive, receiver, recvdString, toChild, toParent, raced

MCWorkers == {t1, t2, t3}
MCConns == {c1, c2, c3, c4}
MCReaders == {r1, r2}
MCWriters == {w1, w2, w3}
MCThreads == MCReaders \union MCWriters

Bit == INSTANCE BitString

bitVars == <<bits, sender, sent, canReceive, receiver, recvdString, toChild, toParent,
             raced>>
mcVars == <<program, queueVars, tableVars, bufferVars, turnVars, bitVars, vars>>

\* Each program starts in its initial state, and the others stay in one of theirs.
MCInit ==
    /\ program \in {"queue", "table", "buffer", "turns", "bits", "rwlock"}
    /\ InitQueue /\ InitTable /\ InitBuffer /\ InitTurn /\ Bit!InitBits /\ Init
    /\ program # "turns" => version = "sequence"
    /\ program # "bits" => \A k \in DOMAIN bits : bits[k] = 0

Run(p, A, v) == program = p /\ A /\ UNCHANGED <<program, v>>

QueueStep == Run("queue", QueueNext, <<tableVars, bufferVars, turnVars, bitVars, vars>>)
TableStep == Run("table", Dine, <<queueVars, bufferVars, turnVars, bitVars, vars>>)
BufferStep(A) == Run("buffer", A, <<queueVars, tableVars, turnVars, bitVars, vars>>)
TurnStep == Run("turns", TakeTurns, <<queueVars, tableVars, bufferVars, bitVars, vars>>)
BitStep(A) == Run("bits", A, <<queueVars, tableVars, bufferVars, turnVars, vars>>)
TestStep(A) == Run("rwlock", A, <<queueVars, tableVars, bufferVars, turnVars, bitVars>>)

MCNext == \/ QueueStep \/ TableStep
          \/ BufferStep(ProduceAndConsume)
          \/ TurnStep
          \/ BitStep(Bit!SendBits)
          \/ TestStep(NextTest)

\* The fairness of MasterWorker, BitString and TestWriterPref; the other programs
\* need none here.
MCSpec == /\ MCInit /\ [][MCNext]_mcVars
          /\ \A k \in Masters : WF_mcVars(BufferStep(Master(k)))
          /\ \A k \in WorkerIds : WF_mcVars(BufferStep(Worker(k)))
          /\ WF_mcVars(BitStep(Bit!Parent)) /\ WF_mcVars(BitStep(Bit!Child))
          /\ \A r \in Readers : WF_mcVars(TestStep(Reader(r)))
          /\ \A w \in Writers : WF_mcVars(TestStep(Writer(w)))

\* The joins of master-worker.c and of test-writer-pref.cpp return, and the bits of
\* bitstring-send.c arrive (see the modules).
MasterWorkerEnds == program = "buffer" => BufferTermination
TestEnds == program = "rwlock" => Termination
DeliveredUnlessRaced == program = "bits" => Bit!DeliveredUnlessRaced
=============================================================================
