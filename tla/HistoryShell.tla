---------------------------- MODULE HistoryShell ----------------------------
(***************************************************************************)
(* temp.c: the shell of my_shell.c with a history of its last command      *)
(* lines, in a circular buffer that is read from a file when the shell     *)
(* starts and written back when it ends by "exit" or at the end of its     *)
(* input.  The model runs several sessions, one after the other.  Lines    *)
(* are numbers, in the order they are typed.                               *)
(***************************************************************************)
EXTENDS MyShell

CONSTANTS MAX_HISTORY_SIZE,   \* 20 in the code
          MaxLines,           \* bound on the lines typed
          MaxSessions         \* bound on the sessions

ASSUME HistoryAssumption ==
    /\ ResetsForeground
    /\ MAX_HISTORY_SIZE \in Nat \ {0} /\ MaxLines \in Nat /\ MaxSessions \in Nat \ {0}

VARIABLES buffer,             \* history: the line in each slot, 0 is NULL
          history_idx, history_count,
          file,               \* the history file
          session,            \* the number of the session
          entered,            \* history: the lines typed that are to be kept
          saved,              \* history: entered, when the file was last written
          lines               \* typed so far

historyVars == <<buffer, history_idx, history_count>>
recordVars == <<entered, saved>>
allVars == <<shellVars, historyVars, recordVars, file, session, lines>>

N == MAX_HISTORY_SIZE
Slots == 0 .. N - 1
LastN(s) == SubSeq(s, IF Len(s) > N THEN Len(s) - N + 1 ELSE 1, Len(s))

\* The buffer as a record, so that load_history can add line after line.
Empty == [slot |-> [k \in Slots |-> 0], idx |-> 0, count |-> 0]

\* Variants named X_... are X with a slip; each breaks a property.
Add_CountOn(h, line) ==
    [slot |-> [h.slot EXCEPT ![h.idx] = line], idx |-> (h.idx + 1) % N,
     count |-> (h.count + 1) % (N + 1)]

\* The oldest line is overwritten.
add_to_history(h, line) ==
    [slot |-> [h.slot EXCEPT ![h.idx] = line], idx |-> (h.idx + 1) % N,
     count |-> IF h.count < N THEN h.count + 1 ELSE h.count]

\* What print_history prints
print_history(h) ==
    LET start_point == IF h.count = N THEN h.idx ELSE 0
    IN  [k \in 1 .. h.count |-> h.slot[(start_point + k - 1) % N]]

\* Line after line of the file is added.
load_history(f) ==
    LET Read[k \in 0 .. Len(f)] ==
            IF k = 0 THEN Empty ELSE add_to_history(Read[k - 1], f[k])
    IN  Read[Len(f)]

Buffer == [slot |-> buffer, idx |-> history_idx, count |-> history_count]
SetBuffer(h) == buffer' = h.slot /\ history_idx' = h.idx /\ history_count' = h.count

\* Without HOME, or if fopen fails, the file stays as it is.
save_history == \/ file' = print_history(Buffer) /\ saved' = entered
                \/ UNCHANGED <<file, saved>>

HInit == /\ Init
         /\ buffer = Empty.slot /\ history_idx = 0 /\ history_count = 0
         /\ file = <<>> /\ session = 1 /\ lines = 0
         /\ entered = <<>> /\ saved = <<>>

Keeps == UNCHANGED <<historyVars, recordVars, file, session, lines>>
-----------------------------------------------------------------------------
\* The shell reads a line.  A blank line and "history" are not added.
HReadLine ==
    /\ ReadLine
    /\ lines < MaxLines /\ lines' = lines + 1
    /\ \/ SetBuffer(add_to_history(Buffer, lines')) /\ entered' = Append(entered, lines')
       \/ UNCHANGED <<historyVars, entered>>
    /\ UNCHANGED <<saved, file, session>>

\* free_history leaves the indices, which the end of the process takes with it.
free_history == buffer' = [k \in Slots |-> 0] /\ UNCHANGED <<history_idx, history_count>>

\* exit saves the history and kills the process group.
HExit == /\ Exit /\ save_history /\ free_history
         /\ UNCHANGED <<entered, session, lines>>

\* The end of the input, at the prompt: the loop is left and the history saved.  The
\* background children go on without the shell.
EndOfFile ==
    /\ place = "reap" /\ In("zombie") = {}
    /\ place' = "exited"
    /\ save_history /\ free_history
    /\ UNCHANGED <<child_process, procVars, pipeVars, signalVars, history,
                   entered, session, lines>>

HReap == Reap /\ Keeps
HBackground == Background /\ Keeps
HForeground == (Foreground \/ Assign \/ WaitForeground \/ Restore) /\ Keeps
HBuiltin == Builtin /\ Keeps
HMain == Pipeline /\ Keeps

\* main frees the last command of a pipeline twice.  The allocator aborts the shell, which
\* saves nothing, or does not see it.
DoubleFree ==
    /\ place = "wait_stages" /\ i > no_of_commands
    /\ place' = "exited"
    /\ UNCHANGED <<child_process, procVars, pipeVars, signalVars, history>>

\* A failed fork calls exit(), which saves nothing either.
HPipeline == (ForkStage \/ StagesForked \/ WaitStage \/ StagesEnded \/ DoubleFree) /\ Keeps
HInterrupt == Interrupt /\ Keeps

HTerminate(p) == Terminate(p) /\ Keeps

\* A new shell is started: it begins with what the file holds, if it can be read.
Start ==
    /\ place = "exited" /\ session < MaxSessions
    /\ session' = session + 1
    /\ place' = "reap"
    /\ child_process' = <<>>
    /\ foreground_pid' = MinusOne
    /\ sigint' = "ignore"
    /\ child' = [p \in Pids |-> NoChild]
    /\ no_of_commands' = 0 /\ c_process' = <<>> /\ i' = 1
    /\ writeEnds' = [p \in Pids \union {Self} |-> {}]
    /\ lostFork' = FALSE /\ hit' = FALSE
    /\ \/ SetBuffer(load_history(file)) /\ entered' = saved
       \/ SetBuffer(Empty) /\ entered' = <<>>
    /\ UNCHANGED <<initHit, file, saved, lines>>

HShell == \/ HReap \/ HReadLine \/ HBuiltin \/ HExit \/ EndOfFile \/ HBackground
          \/ HForeground \/ HMain \/ HPipeline \/ Start

HNext == HShell \/ (\E p \in Pids : HTerminate(p)) \/ HInterrupt

HSpec == HInit /\ [][HNext]_allVars
-----------------------------------------------------------------------------
\* "history" lists the last MAX_HISTORY_SIZE lines of this session and, unless the file
\* could not be read, of those before it that were saved, oldest first, whatever way the
\* circular buffer has turned, was saved and was loaded again (temp.c:197-238, 257-297).
HistoryIsLastLines ==
    place # "exited" => print_history(Buffer) = LastN(entered)
=============================================================================
