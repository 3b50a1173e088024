------------------------------ MODULE MCShells ------------------------------
(* The three shells, one of which runs: my_shell.c, temp.c with its history, *)
(* and lab_shell/shell with its job list.  Three processes let a pipeline    *)
(* have three stages, and a job a neighbour on both sides; the history holds *)
(* two lines of the four that are typed in two sessions, with two processes. *)
EXTENDS HistoryShell

CONSTANTS p1, p2, p3, MaxJobs
VARIABLES program,
          head, tail, node, backgroundJobID, proc, shell, command, childPid,
          fork_failed, reported

ASSUME MCShellsAssumption == MaxJobs \in Nat

MCPids == {p1, p2, p3}

My == INSTANCE MyShell WITH ResetsForeground <- FALSE
Jobs == INSTANCE ShellJobs

jobVars == <<head, tail, node, backgroundJobID, proc, shell, command, childPid,
             fork_failed, reported>>
extraVars == <<historyVars, recordVars, file, session, lines>>
mcVars == <<program, allVars, jobVars>>

MCInit == program \in {"my_shell", "temp", "shell"} /\ HInit /\ Jobs!Init

MyStep(A) == program = "my_shell" /\ A /\ UNCHANGED <<program, extraVars, jobVars>>
TempStep(A) == /\ program = "temp" /\ A /\ UNCHANGED <<program, jobVars>>
               /\ child'[p3] = NoChild
JobsStep(A) == program = "shell" /\ A /\ UNCHANGED <<program, allVars>>

MCNext == MyStep(My!Next) \/ TempStep(HNext) \/ JobsStep(Jobs!Next)

\* The fairness of MyShell and ShellJobs; none for temp.c.
MCSpec == /\ MCInit /\ [][MCNext]_mcVars
          /\ WF_mcVars(MyStep(My!Shell) \/ JobsStep(Jobs!Shell))
          /\ \A p \in Pids : /\ WF_mcVars(MyStep(My!MustEnd(p) /\ My!Terminate(p)))
                             /\ WF_mcVars(JobsStep(Jobs!Terminate(p)))

OnlyForegroundHit == IF program = "my_shell" THEN My!OnlyForegroundInterrupted
                                             ELSE OnlyForegroundInterrupted
JobListSound == Jobs!JobListSound
FinishedIsReported == Jobs!FinishedIsReported
CommandIsWaitedFor ==
    program = "my_shell" /\ place \in {"assign", "fork"}
        ~> place \in {"reap", "line", "exited"}
=============================================================================
