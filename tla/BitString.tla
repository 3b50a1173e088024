------------------------------ MODULE BitString ------------------------------
(***************************************************************************)
(* lab_IPC/ipc-code/bitstring-send.c: the parent sends a string of bits to *)
(* its child, SIGUSR1 for 1 and SIGUSR2 for 0, and the child acknowledges  *)
(* each with SIGUSR2.  A signal is pending until its handler runs, which   *)
(* may be between any two steps of the receiver; a second signal of the    *)
(* same number is lost meanwhile.  pause() returns only after a handler    *)
(* that runs while it waits.  The input is a string of bits: anything else *)
(* ends both processes at once.                                            *)
(***************************************************************************)
EXTENDS Integers, Sequences

CONSTANT LENGTH

VARIABLES bits,          \* tmp, what the user typed
          sender,        \* where the parent is
          sent,          \* i, the number of bits sent
          canReceive,    \* the parent's flag
          receiver,      \* where the child is
          recvdString,
          toChild,       \* the signals that are pending
          toParent,
          raced          \* history: a handler ran between a test and its pause, or
                         \* before the flag it sets was cleared
bitVars == <<bits, sender, sent, canReceive, receiver, recvdString, toChild, toParent,
             raced>>

InitBits ==
    /\ bits \in [1 .. LENGTH -> {0, 1}]
    /\ sender = "spin" /\ sent = 0 /\ canReceive = TRUE
    /\ receiver = "start" /\ recvdString = <<>>
    /\ toChild = {} /\ toParent = {}
    /\ raced = FALSE

\* Lines 58-60.  The parent spins until it has this signal, in line 99.
ChildReady ==
    /\ receiver = "start" /\ receiver' = "test"
    /\ toParent' = {"ready"}
    /\ UNCHANGED <<bits, sender, sent, canReceive, recvdString, toChild, raced>>

\* synchronizeParent, and the loop at 99-104
Synchronize ==
    /\ sender = "spin" /\ "ready" \in toParent
    /\ sender' = "test" /\ toParent' = {}
    /\ UNCHANGED <<bits, sent, canReceive, receiver, recvdString, toChild, raced>>

\* Lines 105-108: the end of the loop, the test of canReceive
TestCanReceive ==
    /\ sender = "test"
    /\ sender' = CASE sent = LENGTH -> "wait"
                   [] sent < LENGTH /\ canReceive  -> "kill"
                   [] sent < LENGTH /\ ~canReceive -> "pause"
    /\ UNCHANGED <<bits, sent, canReceive, receiver, recvdString, toChild, toParent, raced>>

\* pause() is called: a handler that ran since the test has come too early.
Pause == /\ sender = "pause" /\ sender' = "paused"
         /\ UNCHANGED <<bits, sent, canReceive, receiver, recvdString, toChild, toParent,
                        raced>>

\* lines 111-120
Kill ==
    /\ sender = "kill" /\ sender' = "clear"
    /\ toChild' = toChild \union {bits[sent + 1]}
    /\ sent' = sent + 1
    /\ UNCHANGED <<bits, canReceive, receiver, recvdString, toParent, raced>>

\* lines 115 and 121
Clear ==
    /\ sender = "clear" /\ sender' = "test"
    /\ canReceive' = FALSE
    /\ UNCHANGED <<bits, sent, receiver, recvdString, toChild, toParent, raced>>

\* The handler interrupts the parent wherever it is.
parent_can_send ==
    /\ sender # "spin" /\ "ack" \in toParent
    /\ toParent' = {}
    /\ canReceive' = TRUE
    /\ raced' = (raced \/ sender \in {"clear", "pause"})
    /\ sender' = IF sender = "paused" THEN "test" ELSE sender
    /\ UNCHANGED <<bits, sent, receiver, recvdString, toChild>>

\* wait(NULL)
Reap == /\ sender = "wait" /\ receiver = "exited" /\ sender' = "done"
        /\ UNCHANGED <<bits, sent, canReceive, receiver, recvdString, toChild, toParent,
                       raced>>

Parent == \/ Synchronize \/ TestCanReceive \/ Pause \/ Kill \/ Clear
          \/ parent_can_send \/ Reap

\* lines 62-68
TestIndex ==
    /\ receiver = "test"
    /\ receiver' = IF Len(recvdString) = LENGTH THEN "exited" ELSE "pause"
    /\ UNCHANGED <<bits, sender, sent, canReceive, recvdString, toChild, toParent, raced>>

ChildPauses ==
    /\ receiver = "pause" /\ receiver' = "paused"
    /\ UNCHANGED <<bits, sender, sent, canReceive, recvdString, toChild, toParent, raced>>

\* Variants named X_... are X with a slip; each breaks a property.
sigHandle_AckOnes(b) ==
    /\ receiver # "exited" /\ b \in toChild
    /\ toChild' = toChild \ {b}
    /\ recvdString' = Append(recvdString, b)
    /\ toParent' = IF b = 1 THEN toParent \union {"ack"} ELSE toParent
    /\ raced' = (raced \/ receiver = "pause")
    /\ receiver' = IF receiver = "paused" THEN "test" ELSE receiver
    /\ UNCHANGED <<bits, sender, sent, canReceive>>

\* sigHandle1 and sigHandle0: the bit is stored and acknowledged.
sigHandle(b) ==
    /\ receiver # "exited" /\ b \in toChild
    /\ toChild' = toChild \ {b}
    /\ recvdString' = IF Len(recvdString) < LENGTH THEN Append(recvdString, b)
                                                   ELSE recvdString
    /\ toParent' = toParent \union {"ack"}
    /\ raced' = (raced \/ receiver = "pause")
    /\ receiver' = IF receiver = "paused" THEN "test" ELSE receiver
    /\ UNCHANGED <<bits, sender, sent, canReceive>>

Child == ChildReady \/ TestIndex \/ ChildPauses \/ (\E b \in {0, 1} : sigHandle(b))

SendBits == Parent \/ Child

BitSpec == InitBits /\ [][SendBits]_bitVars /\ WF_bitVars(Parent) /\ WF_bitVars(Child)
-----------------------------------------------------------------------------
\* The variables have their types.
BitsOK == /\ sender \in {"spin", "test", "kill", "clear", "pause", "paused", "wait", "done"}
          /\ receiver \in {"start", "test", "pause", "paused", "exited"}
          /\ sent \in 0 .. LENGTH /\ Len(recvdString) <= sent

\* Both processes end with the whole string delivered, unless a signal hit one of
\* the windows in which it goes unseen: an acknowledgement before canReceive is
\* cleared (112-115, 120-121), a signal between a test and its pause (62-63, 108-109).
DeliveredUnlessRaced == <>(raced \/ (sender = "done" /\ recvdString = bits))
=============================================================================
