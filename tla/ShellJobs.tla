----------------------------- MODULE ShellJobs -----------------------------
(***************************************************************************)
(* lab_shell/shell: the job list of eval.c, the loop of main.c and the     *)
(* children of the shell.  A job is a node of a doubly linked list; its    *)
(* job number is never used again and so names the node, and 0 is NULL.    *)
(* What a command prints, or does to files, is left out.                   *)
(***************************************************************************)
EXTENDS Naturals, FiniteSets

CONSTANTS Pids,              \* the process ids the system hands out
          MinusOne,          \* what fork returns when it fails
          MaxJobs            \* bound on backgroundJobID

VARIABLES head, tail, node,   \* bgJobs and its nodes
          backgroundJobID,
          proc,               \* the children of the shell
          shell,              \* where the shell is
          command,            \* the kind of line that readline returned
          childPid,           \* the process a foreground command waits for
          fork_failed,        \* history: has a fork failed?
          reported            \* history: jobs whose completion was printed

listVars == <<head, tail, node, backgroundJobID>>
vars == <<listVars, proc, shell, command, childPid, fork_failed, reported>>

Place == {"reap", "readline", "reap_again", "eval", "wait", "exited", "crashed"}

\* "": an empty line; "spaces": a line of spaces; "builtin": cd, cat, echo, jobs and
\* the redirections without a file; "redirect": a command with > or >>
Command == {"eof", "", "spaces", "exit", "builtin", "redirect", "general", "background"}

initializeBackgroundJobsList ==
    /\ head = 0 /\ tail = 0 /\ node = <<>>
    /\ backgroundJobID = 1

Init ==
    /\ initializeBackgroundJobsList
    /\ proc = [p \in Pids |-> "none"]
    /\ shell = "reap"
    /\ command = ""
    /\ childPid = MinusOne
    /\ fork_failed = FALSE
    /\ reported = {}

In(s) == {p \in Pids : proc[p] = s}

\* The first node for process p, from head along next; 0 if there is none.
FindJob(p) ==
    LET From[j \in DOMAIN node \union {0}] ==
            IF j = 0 \/ node[j].pid = p THEN j ELSE From[node[j].next]
    IN  From[head]

\* Variants named X_... are X with a slip; each breaks a property.
updateBackgroundJobsList_KeepPrev(c) ==
    LET n == node[c].next  p == node[c].prev
    IN  /\ head' = IF p = 0 THEN n ELSE head
        /\ tail' = IF p # 0 /\ n = 0 THEN p ELSE tail
        /\ node' = [j \in DOMAIN node \ {c} |->
                       [node[j] EXCEPT !.next = IF j = p THEN n ELSE @]]
        /\ UNCHANGED backgroundJobID

\* The node c is unlinked and freed.  The only node is removed as a head, which
\* leaves tail dangling.
updateBackgroundJobsList(c) ==
    LET n == node[c].next  p == node[c].prev
    IN  /\ head' = IF p = 0 THEN n ELSE head
        /\ tail' = IF p # 0 /\ n = 0 THEN p ELSE tail
        /\ node' = [j \in DOMAIN node \ {c} |->
                       [node[j] EXCEPT !.next = IF j = p THEN n ELSE @,
                                       !.prev = IF j = n THEN p ELSE @]]
        /\ UNCHANGED backgroundJobID

addJobToBackgroundJobsList(pid) ==
    LET new == backgroundJobID
        job == [pid |-> pid, next |-> 0, prev |-> IF head = 0 THEN 0 ELSE tail]
    IN  /\ head' = IF head = 0 THEN new ELSE head
        /\ tail' = new
        /\ node' = [j \in DOMAIN node \union {new} |->
                       IF j = new THEN job
                       ELSE [node[j] EXCEPT !.next = IF head # 0 /\ j = tail
                                                     THEN new ELSE @]]
        /\ backgroundJobID' = backgroundJobID + 1
-----------------------------------------------------------------------------
\* One turn of the loops at main.c:26-33 and 45-52: a zombie is reaped, its job
\* reported and taken off the list.  Without a job the shell follows a null pointer
\* (eval.c:93).
Reap ==
    /\ shell \in {"reap", "reap_again"}
    /\ \E p \in In("zombie") :
        LET job == FindJob(p)
        IN  /\ proc' = [proc EXCEPT ![p] = "none"]
            /\ IF job = 0
               THEN shell' = "crashed" /\ UNCHANGED <<listVars, reported>>
               ELSE /\ reported' = reported \union {job}
                    /\ updateBackgroundJobsList(job)
                    /\ UNCHANGED shell
    /\ UNCHANGED <<command, childPid, fork_failed>>

NothingToReap ==
    /\ shell \in {"reap", "reap_again"} /\ In("zombie") = {}
    /\ shell' = IF shell = "reap" THEN "readline" ELSE "eval"
    /\ UNCHANGED <<listVars, proc, command, childPid, fork_failed, reported>>

ReadLine ==
    /\ shell = "readline"
    /\ command' \in Command
    /\ shell' = "reap_again"
    /\ UNCHANGED <<listVars, proc, childPid, fork_failed, reported>>

\* fork: a new child, or a failure
Fork(p) == /\ p \in In("none")
           /\ proc' = [proc EXCEPT ![p] = "running"]
           /\ UNCHANGED fork_failed
ForkFails == fork_failed' = TRUE /\ UNCHANGED proc

executeGeneralCommand_WaitAny ==
    /\ command = "general"
    /\ \/ \E p \in Pids : Fork(p)
       \/ ForkFails
    /\ childPid' = MinusOne
    /\ shell' = "wait"
    /\ UNCHANGED listVars

\* A failed fork is not told from a child: waitpid(-1) then waits for any child.
executeGeneralCommand ==
    /\ command = "general"
    /\ \/ \E p \in Pids : Fork(p) /\ childPid' = p
       \/ ForkFails /\ childPid' = MinusOne
    /\ shell' = "wait"
    /\ UNCHANGED listVars

\* executeStdoutRedirection, executeStdoutAppend
Redirect ==
    /\ command = "redirect"
    /\ \/ \E p \in Pids : Fork(p) /\ childPid' = p /\ shell' = "wait"
       \/ ForkFails /\ shell' = "reap" /\ UNCHANGED childPid
    /\ UNCHANGED listVars

\* A failed fork is not told from a child here either: it makes a job of its own.
executeBackgroundCommand ==
    /\ command = "background" /\ backgroundJobID <= MaxJobs
    /\ \/ \E p \in Pids : Fork(p) /\ addJobToBackgroundJobsList(p)
       \/ ForkFails /\ addJobToBackgroundJobsList(MinusOne)
    /\ shell' = "reap"
    /\ UNCHANGED childPid

\* The commands without a child.  On a line of spaces globalTokens[0] is a null
\* pointer, which strcmp follows (eval.c:270).
Simple ==
    /\ command \in {"eof", "", "spaces", "exit", "builtin"}
    /\ shell' = CASE command \in {"eof", "exit"} -> "exited"
                  [] command = "spaces"          -> "crashed"
                  [] OTHER                       -> "reap"
    /\ UNCHANGED <<listVars, proc, childPid, fork_failed>>

evalCommand ==
    /\ shell = "eval"
    /\ \/ executeGeneralCommand \/ Redirect \/ executeBackgroundCommand \/ Simple
    /\ UNCHANGED <<command, reported>>

\* Bound: the last job number is used up, and the line is dropped.
NoMoreJobs ==
    /\ shell = "eval" /\ command = "background" /\ backgroundJobID > MaxJobs
    /\ shell' = "reap"
    /\ UNCHANGED <<listVars, proc, command, childPid, fork_failed, reported>>

\* waitpid(childPid, NULL, 0)
WaitForeground ==
    /\ shell = "wait"
    /\ \/ \E p \in In("zombie") : /\ childPid \in {p, MinusOne}
                                  /\ proc' = [proc EXCEPT ![p] = "none"]
       \/ childPid = MinusOne /\ In("none") = Pids /\ UNCHANGED proc
    /\ shell' = "reap"
    /\ childPid' = MinusOne
    /\ UNCHANGED <<listVars, command, fork_failed, reported>>

Shell == \/ Reap \/ NothingToReap \/ ReadLine \/ evalCommand \/ NoMoreJobs
         \/ WaitForeground

Terminate(p) ==
    /\ proc[p] = "running"
    /\ proc' = [proc EXCEPT ![p] = "zombie"]
    /\ UNCHANGED <<listVars, shell, command, childPid, fork_failed, reported>>

Ended == shell \in {"exited", "crashed"} /\ UNCHANGED vars

Next == Shell \/ (\E p \in Pids : Terminate(p)) \/ Ended

Spec == Init /\ [][Next]_vars

\* The shell runs, its user goes on typing lines, and every child ends some day.
Fairness == /\ WF_vars(Shell)
            /\ \A p \in Pids : WF_vars(Terminate(p))

FairSpec == Spec /\ Fairness
-----------------------------------------------------------------------------
Jobs == DOMAIN node
JobIds == 1 .. MaxJobs

\* The variables have their types.
TypeOK ==
    /\ Jobs \in SUBSET JobIds
    /\ head \in Jobs \union {0} /\ tail \in JobIds \union {0}
    /\ node \in [Jobs -> [pid : Pids \union {MinusOne}, next : Jobs \union {0},
                                                        prev : Jobs \union {0}]]
    /\ backgroundJobID \in 1 .. MaxJobs + 1
    /\ proc \in [Pids -> {"none", "running", "zombie"}]
    /\ shell \in Place /\ command \in Command
    /\ childPid \in Pids \union {MinusOne}
    /\ fork_failed \in BOOLEAN
    /\ reported \in SUBSET JobIds

\* The list runs through all live nodes in the order of their job numbers, the same
\* way along next and along prev, and tail is its end; so "jobs" prints each job
\* once, whatever order jobs are added and removed in (eval.c:72-91, 167-177).
LinksConsistent ==
    /\ \A j \in Jobs :
        /\ node[j].next = 0 <=> \A k \in Jobs : k <= j
        /\ node[j].prev = 0 <=> \A k \in Jobs : j <= k
        /\ node[j].next # 0 =>
            /\ node[j].next \in Jobs /\ node[node[j].next].prev = j
            /\ j < node[j].next
            /\ \A k \in Jobs : k <= j \/ node[j].next <= k
    /\ head = 0 <=> Jobs = {}
    /\ Jobs # {} => /\ head \in Jobs /\ node[head].prev = 0
                    /\ tail \in Jobs /\ node[tail].next = 0

\* Every child that main may reap has a job, so that updateBackgroundJobsList never
\* follows the null pointer its search may end with (eval.c:70-93), even when the
\* same pid is given out again or a failed fork makes waitpid take any child.
ChildrenHaveJobs ==
    \A p \in Pids : proc[p] # "none" /\ ~(shell = "wait" /\ childPid = p)
                        => \E j \in Jobs : node[j].pid = p

\* As long as no fork fails, the list is exactly the background children, one job
\* each, and a job is off the list only if its completion has been printed.
ListIsChildren ==
    ~fork_failed =>
        /\ \A j \in Jobs : \E p \in Pids : node[j].pid = p /\ proc[p] # "none"
        /\ \A j, k \in Jobs : node[j].pid = node[k].pid => j = k
        /\ JobIds \intersect (1 .. backgroundJobID - 1) = Jobs \union reported

\* The list can be walked either way, and is what main and "jobs" take it for.
JobListSound == LinksConsistent /\ ChildrenHaveJobs /\ ListIsChildren

\* A background command that has ended is reported some day, if its shell lives and
\* no fork failed.
FinishedIsReported ==
    \A j \in JobIds :
        j \in Jobs /\ (\E p \in In("zombie") : node[j].pid = p)
            ~> j \in reported \/ shell \in {"exited", "crashed"} \/ fork_failed
=============================================================================
