------------------------------- MODULE MyShell -------------------------------
(***************************************************************************)
(* lab_shell/my_shell.c: the loop of main, the array of background         *)
(* children, the foreground command, the pipelines and the interrupt key.  *)
(* The terminal sends SIGINT to the shell's process group: the shell, its  *)
(* background children and the stages of a pipeline.  A foreground child   *)
(* has a group of its own, which sigint_handler signals.  temp.c is a      *)
(* later version of the same shell; ResetsForeground tells them apart.     *)
(* Left out: what commands print, and the window in which a new foreground *)
(* child is still in the shell's group, where it survives SIGINT anyway.   *)
(***************************************************************************)
EXTENDS Naturals, FiniteSets, SequencesExt

CONSTANTS Pids,               \* the process ids the system hands out
          Self,               \* the shell's own
          MinusOne,           \* what fork returns when it fails
          Limit,              \* the size of child_process, 64 in the code
          MaxStages,          \* bound on the commands of a pipeline
          ResetsForeground    \* temp.c: foreground_pid is reset after the wait, and
                              \* the handler does nothing without one

ASSUME MyShellAssumption ==
    /\ IsFiniteSet(Pids) /\ Self \notin Pids /\ MinusOne \notin Pids \union {Self}
    /\ Limit \in Nat /\ MaxStages \in Nat /\ ResetsForeground \in BOOLEAN

VARIABLES place,              \* where the shell is
          child_process,      \* the array, without its unused end
          foreground_pid,
          sigint,             \* the shell's disposition: "ignore" or "handler"
          child,              \* the children of the shell
          no_of_commands,     \* of the pipeline under way; 0: none
          c_process,          \* its stages
          i,                  \* the stage the shell waits for
          writeEnds,          \* for each process the pipes it may write to
          lostFork,           \* history: has the fork of a foreground command failed?
          hit,                \* history: has SIGINT ended another child?
          initHit             \* history: was SIGINT sent to process 1?

procVars == <<child, writeEnds>>
pipeVars == <<no_of_commands, c_process, i>>
signalVars == <<foreground_pid, sigint>>
history == <<lostFork, hit, initHit>>
shellVars == <<place, child_process, procVars, pipeVars, signalVars, history>>

NoChild == [kind |-> "none", state |-> "none", ignores |-> TRUE]

Init ==
    /\ place = "reap"
    /\ child_process = <<>>
    /\ foreground_pid = MinusOne
    /\ sigint = "ignore"
    /\ child = [p \in Pids |-> NoChild]
    /\ no_of_commands = 0 /\ c_process = <<>> /\ i = 1
    /\ writeEnds = [p \in Pids \union {Self} |-> {}]
    /\ lostFork = FALSE /\ hit = FALSE /\ initHit = FALSE

In(state) == {p \in Pids : child[p].state = state}
Running(kind) == {p \in In("running") : child[p].kind = kind}

\* fork: the child inherits the disposition of SIGINT and the write ends.  The
\* handler is reset by exec, and SIG_IGN is not.
Fork(p, kind, ignores, ends) ==
    /\ p \in In("none")
    /\ child' = [child EXCEPT ![p] = [kind |-> kind, state |-> "running",
                                      ignores |-> ignores]]
    /\ writeEnds' = [writeEnds EXCEPT ![p] = ends]

Gone(p) == child' = [child EXCEPT ![p] = NoChild]

\* The entries behind the first one for p move down; the count drops even if there is
\* none.
update_child_process_array(p) ==
    child_process' = [n \in 1 .. Len(child_process) - 1 |->
                         IF \E m \in 1 .. n : child_process[m] = p
                         THEN child_process[n + 1] ELSE child_process[n]]
-----------------------------------------------------------------------------
\* One turn of the loop at 315-322.
Reap ==
    /\ place = "reap"
    /\ \E p \in In("zombie") : Gone(p) /\ update_child_process_array(p)
    /\ UNCHANGED <<place, writeEnds, pipeVars, signalVars, history>>

\* No child has ended: the prompt, and a line is read and split.
ReadLine ==
    /\ place = "reap" /\ In("zombie") = {}
    /\ place' = "line"
    /\ UNCHANGED <<child_process, procVars, pipeVars, signalVars, history>>

\* A command followed by && is executed as soon as && is found.
NextCommand == place' \in {"line", "reap"}

\* An empty command, cd and cat are executed by the shell.
Builtin ==
    /\ place = "line"
    /\ NextCommand
    /\ UNCHANGED <<child_process, procVars, pipeVars, signalVars, history>>

\* exit kills the shell's process group, the shell included.
Exit ==
    /\ place = "line"
    /\ place' = "exited"
    /\ child' = [p \in Pids |-> NoChild]
    /\ writeEnds' = [p \in Pids \union {Self} |-> {}]
    /\ UNCHANGED <<child_process, pipeVars, signalVars, history>>

\* A background command.  The array keeps the result of a failed fork, for good.
Background ==
    /\ place = "line"
    /\ IF Len(child_process) >= Limit
       THEN UNCHANGED <<child_process, procVars>>
       ELSE \E r \in Pids \union {MinusOne} :
                /\ IF r = MinusOne THEN UNCHANGED procVars
                                   ELSE Fork(r, "background", sigint = "ignore", writeEnds[Self])
                /\ child_process' = Append(child_process, r)
    /\ NextCommand
    /\ UNCHANGED <<pipeVars, signalVars, history>>

\* A foreground command: fork, then the handler.  The child installs it too, and so
\* does not ignore SIGINT once exec has reset it.  After a failed fork the handler
\* stays.
Foreground ==
    /\ place = "line"
    /\ sigint' = "handler"
    /\ \E r \in Pids \union {MinusOne} :
        IF r = MinusOne
        THEN lostFork' = TRUE /\ NextCommand /\ UNCHANGED procVars
        ELSE /\ Fork(r, "foreground", FALSE, writeEnds[Self])
             /\ place' = "assign" /\ UNCHANGED lostFork
    /\ UNCHANGED <<child_process, pipeVars, foreground_pid, hit, initHit>>

\* foreground_pid = fork_result
Assign ==
    /\ place = "assign"
    /\ \E p \in Pids : child[p].kind = "foreground" /\ foreground_pid' = p
    /\ place' = "wait"
    /\ UNCHANGED <<child_process, procVars, pipeVars, sigint, history>>

\* Variants named X_... are X with a slip; each breaks a property.
WaitForeground_Any ==
    /\ place = "wait"
    /\ \E p \in In("zombie") : Gone(p)
    /\ place' = "restore"
    /\ UNCHANGED <<child_process, writeEnds, pipeVars, signalVars, history>>

\* waitpid(fork_result, NULL, 0)
WaitForeground ==
    /\ place = "wait"
    /\ foreground_pid \in In("zombie") /\ Gone(foreground_pid)
    /\ place' = "restore"
    /\ UNCHANGED <<child_process, writeEnds, pipeVars, signalVars, history>>

Restore_KeepHandler ==
    /\ place = "restore"
    /\ foreground_pid' = IF ResetsForeground THEN MinusOne ELSE foreground_pid
    /\ NextCommand
    /\ UNCHANGED <<child_process, procVars, pipeVars, sigint, history>>

\* signal(SIGINT, SIG_IGN) after the wait
Restore ==
    /\ place = "restore"
    /\ foreground_pid' = IF ResetsForeground THEN MinusOne ELSE foreground_pid
    /\ sigint' = "ignore"
    /\ NextCommand
    /\ UNCHANGED <<child_process, procVars, pipeVars, history>>

\* A line with a | : its commands are the stages of a pipeline.
Pipeline ==
    /\ place = "line"
    /\ no_of_commands' \in 2 .. MaxStages
    /\ place' = "fork"
    /\ UNCHANGED <<child_process, procVars, c_process, i, signalVars, history>>

NextStage == Len(c_process) + 1
PipeEnds == writeEnds[Self] \union (IF NextStage < no_of_commands THEN {NextStage} ELSE {})

ForkStage_KeepWriteEnd ==
    /\ place = "fork" /\ NextStage <= no_of_commands
    /\ \E p \in In("none") :
        /\ child' = [child EXCEPT ![p] = [kind |-> "stage", state |-> "running",
                                          ignores |-> sigint = "ignore"]]
        /\ writeEnds' = [writeEnds EXCEPT ![p] = PipeEnds, ![Self] = PipeEnds]
        /\ c_process' = Append(c_process, p)
    /\ UNCHANGED <<place, no_of_commands, i, child_process, signalVars, history>>

\* One turn of the loop at 109-180: pipe, except for the last stage, fork, and the
\* shell closes its write end before the next stage is forked, which would inherit
\* it.  A failed fork ends the shell.
ForkStage ==
    /\ place = "fork" /\ NextStage <= no_of_commands
    /\ \/ \E p \in Pids : /\ Fork(p, "stage", sigint = "ignore", PipeEnds)
                          /\ c_process' = Append(c_process, p)
                          /\ UNCHANGED place
       \/ place' = "exited" /\ UNCHANGED <<procVars, c_process>>
    /\ UNCHANGED <<child_process, no_of_commands, i, signalVars, history>>

StagesForked ==
    /\ place = "fork" /\ Len(c_process) = no_of_commands
    /\ place' = "wait_stages"
    /\ UNCHANGED <<child_process, procVars, pipeVars, signalVars, history>>

\* The stages are waited for in their order.
WaitStage ==
    /\ place = "wait_stages" /\ i <= no_of_commands
    /\ c_process[i] \in In("zombie") /\ Gone(c_process[i])
    /\ i' = i + 1
    /\ UNCHANGED <<place, child_process, writeEnds, no_of_commands, c_process,
                   signalVars, history>>

StagesEnded ==
    /\ place = "wait_stages" /\ i > no_of_commands
    /\ place' = "reap"
    /\ no_of_commands' = 0 /\ c_process' = <<>> /\ i' = 1
    /\ UNCHANGED <<child_process, procVars, signalVars, history>>

Shell == \/ Reap \/ ReadLine \/ Builtin \/ Exit \/ Background
         \/ Foreground \/ Assign \/ WaitForeground \/ Restore
         \/ Pipeline \/ ForkStage \/ StagesForked \/ WaitStage \/ StagesEnded
-----------------------------------------------------------------------------
\* A child ends: it closes its files and waits to be reaped.
Ends(S) ==
    /\ child' = [p \in Pids |-> IF p \in S THEN [child[p] EXCEPT !.state = "zombie"]
                                           ELSE child[p]]
    /\ writeEnds' = [p \in Pids \union {Self} |-> IF p \in S THEN {} ELSE writeEnds[p]]

Terminate(p) ==
    /\ place # "exited" /\ p \in In("running")
    /\ Ends({p})
    /\ UNCHANGED <<place, child_process, pipeVars, signalVars, history>>

\* kill(-foreground_pid, SIGINT); kill(-(-1)) is for process 1.
sigint_handler ==
    IF foreground_pid # MinusOne THEN {p \in Running("foreground") : p = foreground_pid}
    ELSE IF ResetsForeground     THEN {}
                                 ELSE {Self}

\* The interrupt key.  Self in the handler's targets stands for process 1.
Interrupt ==
    LET group   == {p \in Running("background") \union Running("stage") :
                        ~child[p].ignores}
        targets == IF sigint = "handler" THEN sigint_handler ELSE {}
    IN  /\ place # "exited"
        /\ Ends(group \union (targets \ {Self}))
        /\ hit' = (hit \/ group # {})
        /\ initHit' = (initHit \/ Self \in targets)
        /\ UNCHANGED <<place, child_process, pipeVars, signalVars, lostFork>>

Next == Shell \/ (\E p \in Pids : Terminate(p)) \/ Interrupt

Spec == Init /\ [][Next]_shellVars

\* The commands that read their input to its end, and end then: the first stage of a
\* pipeline is not one of them, a later one is at the end when nobody can write to its
\* pipe any more.
MustEnd(p) ==
    \/ child[p].kind = "foreground"
    \/ /\ child[p].kind = "stage" /\ p \in ToSet(c_process)
       /\ \E k \in DOMAIN c_process :
            /\ c_process[k] = p
            /\ k > 1 => \A q \in Pids \union {Self} : k - 1 \notin writeEnds[q]

\* The shell runs and its user goes on typing lines; foreground commands end, and so
\* does the stage of a pipeline that has read all its input.
Fairness == /\ WF_shellVars(Shell)
            /\ \A p \in Pids : WF_shellVars(MustEnd(p) /\ Terminate(p))

FairSpec == Spec /\ Fairness
-----------------------------------------------------------------------------
\* The variables have their types.
TypeOK ==
    /\ place \in {"reap", "line", "assign", "wait", "restore", "fork", "wait_stages",
                  "exited"}
    /\ child_process \in Seq(Pids \union {MinusOne}) /\ Len(child_process) <= Limit
    /\ foreground_pid \in Pids \union {MinusOne}
    /\ sigint \in {"ignore", "handler"}
    /\ child \in [Pids -> {NoChild} \union
                    [kind : {"background", "foreground", "stage"},
                     state : {"running", "zombie"}, ignores : BOOLEAN]]
    /\ c_process \in Seq(Pids) /\ no_of_commands \in 0 .. MaxStages
    /\ i \in 1 .. MaxStages + 1
    /\ writeEnds \in [Pids \union {Self} -> SUBSET (1 .. MaxStages)]
    /\ lostFork \in BOOLEAN /\ hit \in BOOLEAN /\ initHit \in BOOLEAN

\* child_process holds exactly the background children not reaped yet, each once, and
\* the results of failed forks: the loop at 315-322 then finds the process it reaped,
\* and its unconditional child_process_idx -= 1 (my_shell.c:66) drops nothing else.
\* The waits for a foreground command and for the stages must not take another child.
ArrayIsChildren ==
    place # "exited" =>
        /\ {p \in Pids : child[p].kind = "background"}
              = ToSet(child_process) \ {MinusOne}
        /\ \A j, k \in DOMAIN child_process :
              child_process[j] = child_process[k] => j = k \/ child_process[j] = MinusOne
        /\ place \in {"reap", "line"} =>
              \A p \in Pids : child[p].kind \in {"none", "background"}

\* The interrupt key ends the foreground command only, although background commands
\* and pipelines are in the terminal's process group: they ignore SIGINT because the
\* shell did when it forked them (my_shell.c:297, 308).  A failed fork of a foreground
\* command leaves the handler in place and so breaks this (279-281).  The handler of
\* temp.c, which is installed before foreground_pid is set and while it is -1, never
\* signals process 1 (temp.c:75-79, 172-185).
OnlyForegroundInterrupted ==
    /\ hit => lostFork
    /\ ResetsForeground => ~initHit

\* A foreground command or a pipeline, once started, comes to its end and the shell
\* goes on: each stage sees the end of its input although all were forked by a shell
\* that had the pipes open (my_shell.c:170-177).
CommandEnds ==
    place \in {"assign", "fork"} ~> place \in {"reap", "line", "exited"}
=============================================================================
