----------------------- MODULE ProcessPrograms_proofs -----------------------
(***************************************************************************)
(* Proofs about the programs that are made of processes, for any           *)
(* processes, any limits and any bounds: the shells and their children,    *)
(* and the server of kv-server, which serves one connection at a time,     *)
(* with its clients.                                                       *)
(***************************************************************************)
EXTENDS MCShells, KVSession, Integers, FiniteSetTheorems, SequenceTheorems, TLAPS

\* A set of numbers that is not empty has a least one, and if it is bounded a greatest.
LEMMA Least ==
    ASSUME NEW T \in SUBSET Nat, T # {}
    PROVE  \E m \in T : \A k \in T : m <= k
<1> DEFINE Segments == {0 .. k : k \in T}
<1>1. Segments \subseteq FiniteSubsetsOf(Nat) /\ Segments # {}
  <2>1. ASSUME NEW k \in T PROVE 0 .. k \in FiniteSubsetsOf(Nat)
    BY FS_Interval DEF FiniteSubsetsOf
  <2> QED
    BY <2>1
<1>2. PICK x \in Segments : \A y \in Segments : ~(<<y, x>> \in StrictSubsetOrdering(Nat))
  <2> HIDE DEF Segments
  <2> QED
    BY <1>1, FS_StrictSubsetOrderingWellFounded, WFMin
<1>3. PICK m \in T : x = 0 .. m
  OBVIOUS
<1>4. ASSUME NEW k \in T, ~(m <= k) PROVE FALSE
  <2>1. k \in Nat /\ m \in Nat /\ m \in 0 .. m /\ m \notin 0 .. k /\ 0 .. k \subseteq 0 .. m
        /\ 0 .. m \subseteq Nat
    BY <1>4
  <2>2. <<0 .. k, x>> \in StrictSubsetOrdering(Nat)
    BY <1>3, <2>1 DEF StrictSubsetOrdering
  <2>3. 0 .. k \in Segments
    OBVIOUS
  <2> QED
    BY <1>2, <2>2, <2>3
<1> QED
  BY <1>4

LEMMA Greatest ==
    ASSUME NEW n \in Nat, NEW T \in SUBSET (0 .. n), T # {}
    PROVE  \E m \in T : \A k \in T : k <= m
<1> DEFINE Mirror == {n - k : k \in T}
<1>1. Mirror \in SUBSET Nat /\ Mirror # {}
  <2>1. ASSUME NEW k \in T PROVE n - k \in Nat
    <3>1. k \in Int /\ k <= n
      OBVIOUS
    <3> QED
      BY <3>1
  <2> QED
    BY <2>1, Zenon
<1>2. PICK x \in Mirror : \A y \in Mirror : x <= y
  <2> HIDE DEF Mirror
  <2> QED
    BY <1>1, Least
<1>3. PICK m \in T : x = n - m
  OBVIOUS
<1>4. ASSUME NEW k \in T PROVE k <= m
  <2>1. n - m <= n - k
    BY <1>2, <1>3
  <2>2. k \in 0 .. n /\ m \in 0 .. n
    OBVIOUS
  <2> QED
    BY <2>1, <2>2
<1> QED
  BY <1>4

(***************************************************************************)
(* The job list of lab_shell/shell.                                        *)
(***************************************************************************)

\* The job numbers of the nodes are numbers handed out already.
JobsOK == /\ Jobs!TypeOK
          /\ \A j \in DOMAIN node : j < backgroundJobID

\* While the shell waits for a foreground command, and no fork failed, the command
\* is a child that has no job.
WaitedHasNoJob ==
    shell = "wait" /\ ~fork_failed =>
        /\ childPid \in Pids /\ proc[childPid] # "none"
        /\ \A j \in DOMAIN node : node[j].pid # childPid

JobInv == /\ JobsOK
          /\ Jobs!LinksConsistent
          /\ Jobs!ChildrenHaveJobs
          /\ Jobs!ListIsChildren
          /\ WaitedHasNoJob

-----------------------------------------------------------------------------
\* The nodes from j on that are for process p
For(p, j) == {k \in DOMAIN node : j <= k /\ node[k].pid = p}

\* One turn of the search of FindJob.
SearchTurn(p, f) == [j \in DOMAIN node \union {0} |->
                        IF j = 0 \/ node[j].pid = p THEN j ELSE f[node[j].next]]

\* The list links are numbers of nodes, and next leads to the next greater one.
LEMMA NextNode ==
    ASSUME JobsOK, Jobs!LinksConsistent, NEW j \in DOMAIN node
    PROVE  /\ j \in 1 .. MaxJobs /\ node[j].next \in DOMAIN node \union {0}
           /\ node[j].next = 0 => \A k \in DOMAIN node : k <= j
           /\ node[j].next # 0 =>
                /\ j < node[j].next
                /\ \A k \in DOMAIN node : k <= j \/ node[j].next <= k
  BY DEF JobsOK, Jobs!TypeOK, Jobs!LinksConsistent, Jobs!Jobs, Jobs!JobIds

\* FindJob satisfies its own equation as soon as some function does.
LEMMA FindEquation ==
    ASSUME NEW p, NEW f, f = SearchTurn(p, f)
    PROVE  \E g : g = SearchTurn(p, g) /\ Jobs!FindJob(p) = g[head]
<1> DEFINE G == CHOOSE g : g = SearchTurn(p, g)
<1>1. G = SearchTurn(p, G)
  BY Zenon
<1>2. Jobs!FindJob(p) = G[head]
  BY Zenon DEF Jobs!FindJob, SearchTurn
<1> QED
  BY <1>1, <1>2

\* There is such a function: the first node for p from j on.
LEMMA SearchEnds ==
    ASSUME JobsOK, Jobs!LinksConsistent, NEW p
    PROVE  \E f : f = SearchTurn(p, f)
<1> DEFINE First(S) == IF S = {} THEN 0 ELSE CHOOSE k \in S : \A m \in S : k <= m
           f == [j \in DOMAIN node \union {0} |-> IF j = 0 THEN 0 ELSE First(For(p, j))]
<1>1. DOMAIN node \subseteq 1 .. MaxJobs /\ MaxJobs \in Nat
  BY MCShellsAssumption, NextNode
<1>2. ASSUME NEW j \in DOMAIN node, node[j].pid = p PROVE f[j] = j
  <2>1. j \in For(p, j) /\ \A m \in For(p, j) : m \in Nat /\ j <= m
    BY <1>1, <1>2 DEF For
  <2>2. First(For(p, j)) = j
    <3> HIDE DEF For
    <3>1. \A k \in For(p, j) : (\A m \in For(p, j) : k <= m) => k = j
      BY <1>1, <2>1
    <3> QED
      BY <2>1, <3>1
  <2> HIDE DEF First
  <2> QED
    BY <1>1, <2>2
<1>3. ASSUME NEW j \in DOMAIN node, node[j].pid # p PROVE f[j] = f[node[j].next]
  <2>1. CASE node[j].next = 0
    <3>1. For(p, j) = {}
      <4>1. \A k \in DOMAIN node : j <= k => k = j
        BY <1>1, <2>1, NextNode
      <4> QED
        BY <1>3, <4>1 DEF For
    <3> QED
      BY <1>1, <2>1, <3>1
  <2>2. CASE node[j].next # 0
    <3>1. node[j].next \in DOMAIN node
      BY <2>2, NextNode
    <3>2. \A k \in DOMAIN node : node[k].pid = p => (j <= k <=> node[j].next <= k)
      <4>1. j \in Nat /\ node[j].next \in Nat /\ j < node[j].next
            /\ \A k \in DOMAIN node : k \in Nat /\ (k <= j \/ node[j].next <= k)
        BY <1>1, <2>2, <3>1, NextNode
      <4> QED
        BY <1>3, <4>1
    <3>3. For(p, j) = For(p, node[j].next)
      BY <3>2 DEF For
    <3> HIDE DEF First
    <3> QED
      BY <1>1, <2>2, <3>1, <3>3
  <2> QED
    BY <2>1, <2>2
<1>4. f[0] = 0 /\ f = [j \in DOMAIN node \union {0} |-> f[j]]
  OBVIOUS
<1> HIDE DEF f
<1>5. f = SearchTurn(p, f)
  BY <1>2, <1>3, <1>4, <1>1 DEF SearchTurn
<1> QED
  BY <1>5

\* FindJob(p) is a node for p, and NULL only if there is none (eval.c:72-91).
LEMMA FindJobFinds ==
    ASSUME JobsOK, Jobs!LinksConsistent, NEW p
    PROVE  \/ Jobs!FindJob(p) = 0 /\ \A k \in DOMAIN node : node[k].pid # p
           \/ Jobs!FindJob(p) \in DOMAIN node /\ node[Jobs!FindJob(p)].pid = p
<1>1. PICK g : g = SearchTurn(p, g) /\ Jobs!FindJob(p) = g[head]
  BY SearchEnds, FindEquation
<1>2. DOMAIN node \subseteq 1 .. MaxJobs /\ MaxJobs \in Nat
  BY MCShellsAssumption, NextNode
<1> DEFINE Right(j) == \/ g[j] = 0 /\ For(p, j) = {}
                       \/ g[j] \in DOMAIN node /\ node[g[j]].pid = p
           Wrong == {j \in DOMAIN node : ~Right(j)}
<1>3. ASSUME NEW j \in DOMAIN node, node[j].next # 0 => Right(node[j].next)
      PROVE  Right(j)
  <2>1. j \in DOMAIN node \union {0} /\ j # 0
    BY <1>2
  <2>2. g[j] = IF j = 0 \/ node[j].pid = p THEN j ELSE g[node[j].next]
    BY <1>1, <2>1 DEF SearchTurn
  <2>3. CASE node[j].pid = p
    BY <2>1, <2>2, <2>3
  <2>4. CASE node[j].pid # p /\ node[j].next = 0
    <3>1. g[0] = 0
      BY <1>1 DEF SearchTurn
    <3>2. \A k \in DOMAIN node : j <= k => k = j
      BY <1>2, <2>4, NextNode
    <3>3. For(p, j) = {}
      BY <2>4, <3>2 DEF For
    <3> QED
      BY <2>1, <2>2, <2>4, <3>1, <3>3
  <2>5. CASE node[j].pid # p /\ node[j].next # 0
    <3>1. g[j] = g[node[j].next] /\ Right(node[j].next)
      BY <1>3, <2>1, <2>2, <2>5
    <3>2. For(p, node[j].next) = {} => For(p, j) = {}
      <4>1. \A k \in DOMAIN node : k \in Nat /\ j \in Nat /\ (k <= j \/ node[j].next <= k)
        BY <1>2, <2>5, NextNode
      <4>2. \A k \in DOMAIN node : j <= k => k = j \/ node[j].next <= k
        BY <4>1
      <4> QED
        BY <2>5, <4>2 DEF For
    <3> QED
      BY <3>1, <3>2
  <2> QED
    BY <2>3, <2>4, <2>5
<1>4. Wrong = {}
  <2>1. SUFFICES ASSUME Wrong # {} PROVE FALSE
    OBVIOUS
  <2>2. PICK m \in Wrong : \A k \in Wrong : k <= m
    <3>1. Wrong \in SUBSET (0 .. MaxJobs)
      BY <1>2
    <3> HIDE DEF Wrong
    <3> QED
      BY <1>2, <2>1, <3>1, Greatest
  <2>3. m \in DOMAIN node /\ ~Right(m)
    OBVIOUS
  <2>4. node[m].next # 0 => node[m].next \in DOMAIN node /\ m < node[m].next
    BY <2>3, NextNode
  <2>5. node[m].next # 0 => node[m].next \notin Wrong
    <3> HIDE DEF Wrong
    <3> QED
      BY <1>2, <2>2, <2>3, <2>4
  <2>6. node[m].next # 0 => Right(node[m].next)
    BY <2>4, <2>5
  <2> HIDE DEF Right, Wrong
  <2> QED
    BY <1>3, <2>3, <2>6
<1>5. CASE DOMAIN node = {}
  <2>1. head = 0 /\ g[0] = 0
    BY <1>1, <1>5 DEF SearchTurn, Jobs!LinksConsistent, Jobs!Jobs
  <2> QED
    BY <1>1, <1>5, <2>1
<1>6. CASE DOMAIN node # {}
  <2>1. head \in DOMAIN node /\ Right(head)
    BY <1>4, <1>6 DEF Jobs!LinksConsistent, Jobs!Jobs
  <2>2. \A k \in DOMAIN node : head <= k
    BY <1>6, <2>1 DEF Jobs!LinksConsistent, Jobs!Jobs
  <2>3. For(p, head) = {k \in DOMAIN node : node[k].pid = p}
    BY <2>2 DEF For
  <2> QED
    BY <1>1, <2>1, <2>3
<1> QED
  BY <1>5, <1>6

\* prev leads back to the next smaller node.
LEMMA PrevNode ==
    ASSUME JobsOK, Jobs!LinksConsistent, NEW j \in DOMAIN node
    PROVE  /\ node[j].prev \in DOMAIN node \union {0}
           /\ node[j].prev = 0 => \A k \in DOMAIN node : j <= k
           /\ node[j].prev # 0 =>
                /\ node[j].prev < j /\ node[node[j].prev].next = j
                /\ \A k \in DOMAIN node : j <= k \/ k <= node[j].prev
<1>1. DOMAIN node \subseteq 1 .. MaxJobs /\ MaxJobs \in Nat
  BY MCShellsAssumption, NextNode
<1>2. /\ node[j].prev \in DOMAIN node \union {0}
      /\ node[j].prev = 0 <=> \A k \in DOMAIN node : j <= k
  BY DEF JobsOK, Jobs!TypeOK, Jobs!LinksConsistent, Jobs!Jobs, Jobs!JobIds
<1>3. CASE node[j].prev # 0
  <2> DEFINE Below == {k \in DOMAIN node : k < j}
  <2>1. Below # {} /\ Below \in SUBSET (0 .. MaxJobs)
    BY <1>1, <1>2, <1>3
  <2>2. PICK m \in Below : \A k \in Below : k <= m
    <3> HIDE DEF Below
    <3> QED
      BY <1>1, <2>1, Greatest
  <2>3. m \in DOMAIN node /\ m < j
    OBVIOUS
  <2>4. \A k \in DOMAIN node : j <= k \/ k <= m
    BY <1>1, <2>2
  <2> HIDE DEF Below
  <2>5. node[m].next = j
    <3>1. node[m].next # 0 /\ node[m].next \in DOMAIN node
      BY <1>1, <2>3, NextNode
    <3>2. m < node[m].next /\ (j <= m \/ node[m].next <= j)
      BY <2>3, <3>1, NextNode
    <3> QED
      BY <1>1, <2>3, <2>4, <3>1, <3>2
  <2>6. node[j].prev = m
    BY <1>1, <2>3, <2>5 DEF Jobs!LinksConsistent, Jobs!Jobs
  <2> QED
    BY <1>2, <1>3, <2>3, <2>4, <2>5, <2>6
<1> QED
  BY <1>2, <1>3

\* The only way a job gets off the list keeps the links (eval.c:85-91).
LEMMA RemovalKeepsLinks ==
    ASSUME JobsOK, Jobs!LinksConsistent, NEW c \in DOMAIN node,
           Jobs!updateBackgroundJobsList(c)
    PROVE  Jobs!LinksConsistent'
<1> DEFINE n == node[c].next
           q == node[c].prev
<1>1. DOMAIN node \subseteq 1 .. MaxJobs /\ MaxJobs \in Nat
  BY MCShellsAssumption, NextNode
<1>2. /\ n \in DOMAIN node \union {0}
      /\ n = 0 => \A k \in DOMAIN node : k <= c
      /\ n # 0 => c < n /\ \A k \in DOMAIN node : k <= c \/ n <= k
  BY NextNode
<1>3. /\ q \in DOMAIN node \union {0}
      /\ q = 0 => \A k \in DOMAIN node : c <= k
      /\ q # 0 => q < c /\ node[q].next = c /\ \A k \in DOMAIN node : c <= k \/ k <= q
  BY PrevNode
<1>4. /\ DOMAIN node' = DOMAIN node \ {c}
      /\ \A j \in DOMAIN node \ {c} :
           /\ node'[j].next = IF j = q THEN n ELSE node[j].next
           /\ node'[j].prev = IF j = n THEN q ELSE node[j].prev
      /\ head' = IF q = 0 THEN n ELSE head
      /\ tail' = IF q # 0 /\ n = 0 THEN q ELSE tail
  <2>1. node \in [DOMAIN node -> [pid : Pids \union {MinusOne}, next : DOMAIN node \union {0},
                                                             prev : DOMAIN node \union {0}]]
    BY DEF JobsOK, Jobs!TypeOK, Jobs!Jobs
  <2> QED
    BY <2>1 DEF Jobs!updateBackgroundJobsList
<1>5. ASSUME NEW j \in DOMAIN node \ {c}
      PROVE  /\ node'[j].next \in (DOMAIN node \ {c}) \union {0}
             /\ node'[j].next = 0 <=> \A k \in DOMAIN node \ {c} : k <= j
             /\ node'[j].next # 0 =>
                  /\ j < node'[j].next
                  /\ \A k \in DOMAIN node \ {c} : k <= j \/ node'[j].next <= k
  <2>1. /\ node[j].next \in DOMAIN node \union {0}
        /\ node[j].next = 0 => \A k \in DOMAIN node : k <= j
        /\ node[j].next # 0 => /\ j < node[j].next
                               /\ \A k \in DOMAIN node : k <= j \/ node[j].next <= k
                               /\ node[node[j].next].prev = j
    BY NextNode DEF Jobs!LinksConsistent, Jobs!Jobs
  <2>2. node'[j].next = IF j = q THEN n ELSE node[j].next
    BY <1>4
  <2>3. CASE j = q
    BY <1>1, <1>2, <1>3, <2>2, <2>3
  <2>4. CASE j # q
    <3>1. node[j].next # c
      BY <1>1, <2>1, <2>4
    <3> QED
      BY <1>1, <2>1, <2>2, <2>4, <3>1
  <2> QED
    BY <2>3, <2>4
<1>6. ASSUME NEW j \in DOMAIN node \ {c}
      PROVE  node'[j].prev = 0 <=> \A k \in DOMAIN node \ {c} : j <= k
  <2>1. /\ node[j].prev \in DOMAIN node \union {0}
        /\ node[j].prev = 0 => \A k \in DOMAIN node : j <= k
        /\ node[j].prev # 0 => node[j].prev < j /\ node[node[j].prev].next = j
    BY PrevNode
  <2>2. node'[j].prev = IF j = n THEN q ELSE node[j].prev
    BY <1>4
  <2>3. CASE j = n
    BY <1>1, <1>2, <1>3, <2>2, <2>3
  <2>4. CASE j # n
    BY <1>1, <2>1, <2>2, <2>4
  <2> QED
    BY <2>3, <2>4
<1>7. ASSUME NEW j \in DOMAIN node \ {c}, node'[j].next # 0
      PROVE  node'[node'[j].next].prev = j
  <2>1. /\ node[j].next \in DOMAIN node \union {0}
        /\ node[j].next # 0 => j < node[j].next /\ node[node[j].next].prev = j
    BY NextNode DEF Jobs!LinksConsistent, Jobs!Jobs
  <2>2. node'[j].next = IF j = q THEN n ELSE node[j].next
    BY <1>4
  <2>3. CASE j = q
    BY <1>1, <1>2, <1>4, <1>7, <2>2, <2>3
  <2>4. CASE j # q
    <3>1. node[j].next # c /\ node[j].next # 0
      BY <1>1, <1>7, <2>1, <2>2, <2>4
    <3>2. node[j].next # n
      <4>1. n # 0 => node[n].prev = c
        BY DEF Jobs!LinksConsistent, Jobs!Jobs
      <4> QED
        BY <2>1, <3>1, <4>1
    <3> QED
      BY <1>4, <2>1, <2>2, <2>4, <3>1, <3>2
  <2> QED
    BY <2>3, <2>4
<1>8. head' = 0 <=> DOMAIN node \ {c} = {}
  BY <1>1, <1>2, <1>3, <1>4 DEF Jobs!LinksConsistent, Jobs!Jobs
<1>9. DOMAIN node \ {c} # {} =>
        /\ head' \in DOMAIN node \ {c} /\ node'[head'].prev = 0
        /\ tail' \in DOMAIN node \ {c} /\ node'[tail'].next = 0
  <2>1. DOMAIN node # {} => /\ head \in DOMAIN node /\ node[head].prev = 0
                           /\ tail \in DOMAIN node /\ node[tail].next = 0
    BY DEF Jobs!LinksConsistent, Jobs!Jobs
  <2>2. head \in DOMAIN node /\ \A k \in DOMAIN node : head <= k
    BY <2>1, PrevNode
  <2>3. tail \in DOMAIN node /\ \A k \in DOMAIN node : k <= tail
    BY <2>1, NextNode
  <2>4. DOMAIN node \ {c} # {} => head' \in DOMAIN node \ {c} /\ node'[head'].prev = 0
    BY <1>1, <1>2, <1>3, <1>4, <2>1, <2>2
  <2>5. DOMAIN node \ {c} # {} => tail' \in DOMAIN node \ {c} /\ node'[tail'].next = 0
    BY <1>1, <1>2, <1>3, <1>4, <2>1, <2>3
  <2> QED
    BY <2>4, <2>5
<1>10. \A j \in DOMAIN node' : node'[j].next # 0 => node'[j].next \in DOMAIN node'
  BY <1>4, <1>5
<1>11. Jobs!Jobs' = DOMAIN node \ {c}
  BY <1>4 DEF Jobs!Jobs
<1> QED
  BY <1>5, <1>6, <1>7, <1>8, <1>9, <1>11 DEF Jobs!LinksConsistent

\* Nor does a new job at the end break them (eval.c:167-177).
LEMMA AdditionKeepsLinks ==
    ASSUME JobsOK, Jobs!LinksConsistent, NEW p,
           Jobs!addJobToBackgroundJobsList(p)
    PROVE  Jobs!LinksConsistent'
<1> DEFINE new == backgroundJobID
           D == DOMAIN node
<1>1. /\ D \subseteq 1 .. MaxJobs /\ MaxJobs \in Nat /\ new \in Nat /\ new # 0
      /\ \A j \in D : j < new
  BY MCShellsAssumption, NextNode DEF JobsOK, Jobs!TypeOK
<1>2. /\ head = 0 <=> D = {}
      /\ D # {} => /\ head \in D /\ node[head].prev = 0
                   /\ tail \in D /\ node[tail].next = 0 /\ \A k \in D : k <= tail
  <2>1. /\ head = 0 <=> D = {}
        /\ D # {} => /\ head \in D /\ node[head].prev = 0
                     /\ tail \in D /\ node[tail].next = 0
    BY DEF Jobs!LinksConsistent, Jobs!Jobs
  <2> QED
    BY <2>1, NextNode
<1>3. /\ DOMAIN node' = D \union {new}
      /\ node'[new].next = 0
      /\ node'[new].prev = IF head = 0 THEN 0 ELSE tail
      /\ \A j \in D : /\ node'[j].next = IF j = tail THEN new ELSE node[j].next
                     /\ node'[j].prev = node[j].prev
      /\ head' = IF head = 0 THEN new ELSE head
      /\ tail' = new
  <2>1. node \in [D -> [pid : Pids \union {MinusOne}, next : D \union {0},
                                                             prev : D \union {0}]]
    BY DEF JobsOK, Jobs!TypeOK, Jobs!Jobs
  <2> QED
    BY <1>1, <1>2, <2>1 DEF Jobs!addJobToBackgroundJobsList
<1>4. \A j \in D : /\ node[j].next \in D \union {0} /\ node[j].prev \in D \union {0}
                   /\ node[j].next = 0 <=> \A k \in D : k <= j
                   /\ node[j].prev = 0 <=> \A k \in D : j <= k
                   /\ node[j].next # 0 =>
                        /\ j < node[j].next /\ node[node[j].next].prev = j
                        /\ \A k \in D : k <= j \/ node[j].next <= k
  BY NextNode, PrevNode DEF Jobs!LinksConsistent, Jobs!Jobs
<1> HIDE DEF D, new
<1>5. ASSUME NEW j \in D
      PROVE  /\ node'[j].next \in D \union {new}
                 \/ node'[j].next = 0
             /\ node'[j].next = 0 <=> \A k \in D \union {new} : k <= j
             /\ node'[j].prev = 0 <=> \A k \in D \union {new} : j <= k
             /\ node'[j].next # 0 =>
                  /\ j < node'[j].next /\ node'[node'[j].next].prev = j
                  /\ \A k \in D \union {new} : k <= j \/ node'[j].next <= k
  <2>1. /\ j \in Nat /\ j < new /\ node'[j].prev = node[j].prev
        /\ \A k \in D : k \in Nat /\ k < new
    BY <1>1, <1>3
  <2>0. node'[j].prev = 0 <=> \A k \in D \union {new} : j <= k
    BY <1>1, <1>4, <2>1
  <2>2. CASE j = tail
    <3>1. node'[j].next = new /\ node'[new].prev = j /\ \A k \in D : k <= j
      BY <1>2, <1>3, <2>2
    <3>2. \E k \in D \union {new} : ~(k <= j)
      BY <1>1, <2>1
    <3>3. \A k \in D \union {new} : k <= j \/ new <= k
      BY <1>1, <3>1
    <3> QED
      BY <1>1, <2>0, <2>1, <3>1, <3>2, <3>3
  <2>3. CASE j # tail
    <3>1. tail \in D /\ j < tail
      <4>1. tail \in D /\ j <= tail
        BY <1>2
      <4>2. j \in Int /\ tail \in Int
        BY <2>1, <4>1
      <4>3. j <= tail /\ j # tail => j < tail
        BY <4>2
      <4> QED
        BY <2>3, <4>1, <4>3, Zenon
    <3>2. node'[j].next = node[j].next
      BY <1>3, <2>3
    <3>3. /\ node[j].next \in D /\ node[j].next # 0 /\ j < node[j].next
          /\ node[node[j].next].prev = j
          /\ \A k \in D : k <= j \/ node[j].next <= k
      <4>1. ~(tail <= j)
        BY <2>1, <3>1
      <4>2. node[j].next # 0 /\ node[j].next \in D
        BY <1>4, <3>1, <4>1
      <4> QED
        BY <1>4, <4>2
    <3>4. node'[node[j].next].prev = j
      BY <1>3, <3>3
    <3>5. \E k \in D \union {new} : ~(k <= j)
      BY <1>1, <2>1
    <3>6. \A k \in D \union {new} : k <= j \/ node[j].next <= k
      <4>1. node[j].next <= new
        <5>1. node[j].next < new /\ node[j].next \in Nat /\ new \in Nat
          BY <1>1, <2>1, <3>3
        <5> QED
          BY <5>1
      <4> QED
        BY <3>3, <4>1
    <3> QED
      BY <2>0, <3>2, <3>3, <3>4, <3>5, <3>6
  <2> QED
    BY <2>2, <2>3
<1>6. /\ node'[new].prev = 0 <=> \A k \in D \union {new} : new <= k
      /\ \A k \in D \union {new} : k <= new
  BY <1>1, <1>2, <1>3
<1>7. head' # 0 /\ head' \in D \union {new} /\ node'[head'].prev = 0
  BY <1>1, <1>2, <1>3
<1>8. Jobs!Jobs' = D \union {new}
  BY <1>3 DEF Jobs!Jobs
<1> QED
  BY <1>1, <1>3, <1>5, <1>6, <1>7, <1>8 DEF Jobs!LinksConsistent

-----------------------------------------------------------------------------
\* The shell reaps a child that has a job: never a null pointer.
LEMMA ReapKeeps ==
    ASSUME JobInv, Jobs!Reap
    PROVE  JobInv'
<1>1. PICK p \in Pids :
        /\ proc[p] = "zombie" /\ proc' = [proc EXCEPT ![p] = "none"]
        /\ LET job == Jobs!FindJob(p)
           IN  IF job = 0
               THEN shell' = "crashed" /\ UNCHANGED <<Jobs!listVars, reported>>
               ELSE /\ reported' = reported \union {job}
                    /\ Jobs!updateBackgroundJobsList(job)
                    /\ UNCHANGED shell
  BY DEF Jobs!Reap, Jobs!In
<1> DEFINE c == Jobs!FindJob(p)
<1>2. JobsOK /\ Jobs!LinksConsistent /\ shell \in {"reap", "reap_again"}
      /\ UNCHANGED <<command, childPid, fork_failed>>
  BY DEF JobInv, Jobs!Reap
<1>3. \E j \in DOMAIN node : node[j].pid = p
  BY <1>1, <1>2 DEF JobInv, Jobs!ChildrenHaveJobs, Jobs!Jobs
<1>4. c \in DOMAIN node /\ node[c].pid = p /\ c # 0
  <2>1. 0 \notin DOMAIN node
    BY <1>2, NextNode
  <2> QED
    BY <1>2, <1>3, <2>1, FindJobFinds
<1>5. reported' = reported \union {c} /\ Jobs!updateBackgroundJobsList(c) /\ shell' = shell
  BY <1>1, <1>4
<1> HIDE DEF c
<1>6. Jobs!LinksConsistent'
  BY <1>2, <1>4, <1>5, RemovalKeepsLinks
<1>7. /\ node \in [DOMAIN node -> [pid : Pids \union {MinusOne}, next : DOMAIN node \union {0},
                                     prev : DOMAIN node \union {0}]]
      /\ DOMAIN node \subseteq 1 .. MaxJobs /\ MaxJobs \in Nat
      /\ proc \in [Pids -> {"none", "running", "zombie"}]
      /\ backgroundJobID \in 1 .. MaxJobs + 1 /\ \A j \in DOMAIN node : j < backgroundJobID
  BY <1>2, MCShellsAssumption DEF JobsOK, Jobs!TypeOK, Jobs!Jobs, Jobs!JobIds
<1>8. /\ DOMAIN node' = DOMAIN node \ {c}
      /\ \A j \in DOMAIN node \ {c} : node'[j].pid = node[j].pid
      /\ backgroundJobID' = backgroundJobID
      /\ \A r \in Pids : proc'[r] = IF r = p THEN "none" ELSE proc[r]
  <2>1. c \in DOMAIN node
    BY <1>4
  <2>2. /\ node' = [j \in DOMAIN node \ {c} |-> node'[j]] /\ backgroundJobID' = backgroundJobID
        /\ \A j \in DOMAIN node \ {c} : node'[j].pid = node[j].pid
    BY <1>5, <1>7 DEF Jobs!updateBackgroundJobsList
  <2> QED
    BY <1>1, <1>7, <2>2
<1>9. JobsOK'
  <2>1. /\ head \in DOMAIN node \union {0} /\ tail \in 0 .. MaxJobs
        /\ head # 0 => node[head].prev = 0
    <3>1. head \in DOMAIN node \union {0} /\ tail \in 0 .. MaxJobs
      BY <1>2, <1>7 DEF JobsOK, Jobs!TypeOK, Jobs!Jobs, Jobs!JobIds
    <3>2. DOMAIN node # {} => node[head].prev = 0
      BY <1>2 DEF Jobs!LinksConsistent, Jobs!Jobs
    <3> QED
      BY <3>1, <3>2
  <2>2. node[c].next \in (DOMAIN node \ {c}) \union {0} /\ node[c].prev \in (DOMAIN node \ {c}) \union {0}
    <3>1. /\ node[c].next \in DOMAIN node \union {0} /\ node[c].prev \in DOMAIN node \union {0}
          /\ node[c].next # 0 => c < node[c].next
          /\ node[c].prev # 0 => node[c].prev < c
      BY <1>2, <1>4, NextNode, PrevNode
    <3>2. c \in Nat
      BY <1>4, <1>7
    <3> QED
      BY <1>4, <3>1, <3>2
  <2>3. head' \in (DOMAIN node \ {c}) \union {0} /\ tail' \in 0 .. MaxJobs
    <3>1. node[c].prev # 0 => head # c
      BY <1>4, <2>1
    <3>2. /\ head' = IF node[c].prev = 0 THEN node[c].next ELSE head
          /\ tail' = IF node[c].prev # 0 /\ node[c].next = 0 THEN node[c].prev ELSE tail
      BY <1>5 DEF Jobs!updateBackgroundJobsList
    <3>3. DOMAIN node \subseteq 0 .. MaxJobs
      BY <1>7
    <3>4. head' \in (DOMAIN node \ {c}) \union {0}
      BY <2>1, <2>2, <3>1, <3>2
    <3>5. node[c].prev \in 0 .. MaxJobs /\ tail \in 0 .. MaxJobs
      BY <1>7, <2>1, <2>2, <3>3
    <3> QED
      BY <3>2, <3>4, <3>5
  <2>4. node' \in [DOMAIN node \ {c} -> [pid : Pids \union {MinusOne},
                                          next : (DOMAIN node \ {c}) \union {0},
                                          prev : (DOMAIN node \ {c}) \union {0}]]
    <3>1. ASSUME NEW j \in DOMAIN node \ {c}
          PROVE  /\ j # node[c].prev => node[j].next # c
                 /\ j # node[c].next => node[j].prev # c
      <4>1. /\ node[j].next # 0 => node[node[j].next].prev = j
            /\ node[j].prev # 0 => node[node[j].prev].next = j
        BY <1>2, PrevNode DEF Jobs!LinksConsistent, Jobs!Jobs
      <4>2. c # 0 /\ j # 0
        BY <1>4, <1>7
      <4> QED
        BY <4>1, <4>2
    <3> DEFINE Live == DOMAIN node \ {c}
    <3>2. ASSUME NEW j \in Live
          PROVE  node'[j] \in [pid : Pids \union {MinusOne}, next : Live \union {0},
                                                             prev : Live \union {0}]
      <4>1. node[j] \in [pid : Pids \union {MinusOne}, next : DOMAIN node \union {0},
                         prev : DOMAIN node \union {0}]
        BY <1>7
      <4>2. node'[j] = [node[j] EXCEPT
                          !.next = IF j = node[c].prev THEN node[c].next ELSE @,
                          !.prev = IF j = node[c].next THEN node[c].prev ELSE @]
        BY <1>5 DEF Jobs!updateBackgroundJobsList
      <4> QED
        BY <2>2, <3>1, <4>1, <4>2
    <3>3. node' = [j \in DOMAIN node \ {c} |-> node'[j]]
      BY <1>5 DEF Jobs!updateBackgroundJobsList
    <3> QED
      BY <3>2, <3>3
  <2>5. /\ shell' \in Jobs!Place /\ command' \in Jobs!Command
        /\ childPid' \in Pids \union {MinusOne} /\ fork_failed' \in BOOLEAN
        /\ reported' \in SUBSET (1 .. MaxJobs)
        /\ proc' \in [Pids -> {"none", "running", "zombie"}]
    BY <1>1, <1>2, <1>4, <1>5, <1>7 DEF JobsOK, Jobs!TypeOK, Jobs!JobIds
  <2>6. Jobs!Jobs' = DOMAIN node \ {c} /\ tail' \in 1 .. MaxJobs \union {0}
    BY <1>7, <1>8, <2>3 DEF Jobs!Jobs
  <2> QED
    BY <1>7, <1>8, <2>3, <2>4, <2>5, <2>6 DEF JobsOK, Jobs!TypeOK, Jobs!JobIds
<1>10. Jobs!ChildrenHaveJobs'
  <2>1. ASSUME NEW r \in Pids, proc'[r] # "none"
        PROVE  \E j \in DOMAIN node' : node'[j].pid = r
    <3>1. r # p /\ proc[r] # "none"
      BY <1>8, <2>1
    <3>2. PICK j \in DOMAIN node : node[j].pid = r
      BY <1>2, <3>1 DEF JobInv, Jobs!ChildrenHaveJobs, Jobs!Jobs
    <3> QED
      BY <1>4, <1>8, <3>1, <3>2
  <2> QED
    BY <2>1 DEF Jobs!ChildrenHaveJobs, Jobs!Jobs
<1>11. Jobs!ListIsChildren'
  <2>1. SUFFICES ASSUME ~fork_failed
        PROVE /\ \A j \in DOMAIN node' : \E r \in Pids : node'[j].pid = r /\ proc'[r] # "none"
              /\ \A j, k \in DOMAIN node' : node'[j].pid = node'[k].pid => j = k
              /\ (1 .. MaxJobs) \intersect (1 .. backgroundJobID' - 1) = DOMAIN node' \union reported'
    BY <1>2 DEF Jobs!ListIsChildren, Jobs!Jobs, Jobs!JobIds
  <2>2. /\ \A j \in DOMAIN node : \E r \in Pids : node[j].pid = r /\ proc[r] # "none"
        /\ \A j, k \in DOMAIN node : node[j].pid = node[k].pid => j = k
        /\ (1 .. MaxJobs) \intersect (1 .. backgroundJobID - 1) = DOMAIN node \union reported
    BY <2>1 DEF JobInv, Jobs!ListIsChildren, Jobs!Jobs, Jobs!JobIds
  <2>3. ASSUME NEW j \in DOMAIN node' PROVE \E r \in Pids : node'[j].pid = r /\ proc'[r] # "none"
    BY <1>4, <1>8, <2>2
  <2> QED
    BY <1>4, <1>5, <1>8, <2>2, <2>3
<1>12. WaitedHasNoJob'
  BY <1>2, <1>5 DEF WaitedHasNoJob
<1> QED
  BY <1>6, <1>9, <1>10, <1>11, <1>12 DEF JobInv

\* A background command: its job is new, and so is its process unless fork failed.
LEMMA BackgroundKeeps ==
    ASSUME JobInv, shell = "eval", Jobs!executeBackgroundCommand,
           UNCHANGED <<command, reported>>
    PROVE  JobInv'
<1>1. PICK r \in Pids \union {MinusOne} :
        /\ Jobs!addJobToBackgroundJobsList(r)
        /\ \/ r \in Pids /\ Jobs!Fork(r)
           \/ r = MinusOne /\ Jobs!ForkFails
  BY DEF Jobs!executeBackgroundCommand
<1>2. JobsOK /\ Jobs!LinksConsistent /\ shell' = "reap" /\ childPid' = childPid
      /\ backgroundJobID <= MaxJobs
  BY DEF JobInv, Jobs!executeBackgroundCommand
<1> DEFINE new == backgroundJobID
           D == DOMAIN node
<1>3. /\ node \in [D -> [pid : Pids \union {MinusOne}, next : D \union {0}, prev : D \union {0}]]
      /\ D \subseteq 1 .. MaxJobs /\ MaxJobs \in Nat
      /\ head \in D \union {0} /\ tail \in 1 .. MaxJobs \union {0}
      /\ proc \in [Pids -> {"none", "running", "zombie"}]
      /\ backgroundJobID \in 1 .. MaxJobs + 1 /\ \A j \in D : j < new
      /\ reported \subseteq 1 .. MaxJobs /\ fork_failed \in BOOLEAN
      /\ childPid \in Pids \union {MinusOne} /\ command \in Jobs!Command
  BY <1>2, MCShellsAssumption DEF JobsOK, Jobs!TypeOK, Jobs!Jobs, Jobs!JobIds
<1>4. new \in 1 .. MaxJobs /\ new \notin D
  BY <1>2, <1>3
<1>5. /\ DOMAIN node' = D \union {new} /\ node'[new].pid = r
      /\ \A j \in D : node'[j].pid = node[j].pid
      /\ backgroundJobID' = new + 1
      /\ head' = IF head = 0 THEN new ELSE head
      /\ tail' = new
      /\ node' = [j \in D \union {new} |-> node'[j]]
      /\ node'[new] = [pid |-> r, next |-> 0, prev |-> IF head = 0 THEN 0 ELSE tail]
      /\ \A j \in D : node'[j] = [node[j] EXCEPT !.next = IF head # 0 /\ j = tail
                                                          THEN new ELSE @]
  BY <1>1, <1>3, <1>4 DEF Jobs!addJobToBackgroundJobsList
<1>6. /\ proc' \in [Pids -> {"none", "running", "zombie"}] /\ fork_failed' \in BOOLEAN
      /\ fork_failed => fork_failed'
      /\ r = MinusOne => fork_failed'
      /\ r \in Pids => proc[r] = "none" /\ proc'[r] = "running"
      /\ \A q \in Pids : q # r => proc'[q] = proc[q]
  BY <1>1, <1>3, MyShellAssumption DEF Jobs!Fork, Jobs!ForkFails, Jobs!In
<1>7. Jobs!LinksConsistent'
  BY <1>1, <1>2, AdditionKeepsLinks
<1>8. JobsOK'
  <2>1. head # 0 => tail \in D
    BY <1>2 DEF Jobs!LinksConsistent, Jobs!Jobs
  <2>2. ASSUME NEW j \in D \union {new}
        PROVE  node'[j] \in [pid : Pids \union {MinusOne}, next : D \union {new} \union {0},
                                                           prev : D \union {new} \union {0}]
    <3>1. CASE j = new
      BY <1>5, <2>1, <3>1
    <3>2. CASE j \in D
      <4>1. node[j] \in [pid : Pids \union {MinusOne}, next : D \union {0}, prev : D \union {0}]
        BY <1>3, <3>2
      <4>2. node'[j] = [node[j] EXCEPT !.next = IF head # 0 /\ j = tail THEN new ELSE @]
        BY <1>5, <3>2
      <4> HIDE DEF new, D
      <4> QED
        BY <4>1, <4>2
    <3> QED
      BY <3>1, <3>2
  <2>3. node' \in [D \union {new} -> [pid : Pids \union {MinusOne},
                                      next : D \union {new} \union {0},
                                      prev : D \union {new} \union {0}]]
    <3> HIDE DEF D, new
    <3> QED
      BY <1>5, <2>2
  <2>4. /\ D \union {new} \in SUBSET (1 .. MaxJobs)
        /\ head' \in D \union {new} \union {0} /\ tail' \in 1 .. MaxJobs \union {0}
        /\ backgroundJobID' \in 1 .. MaxJobs + 1
        /\ \A j \in D \union {new} : j < backgroundJobID'
    BY <1>3, <1>4, <1>5
  <2>5. shell' \in Jobs!Place /\ command' \in Jobs!Command
        /\ childPid' \in Pids \union {MinusOne} /\ reported' \in SUBSET (1 .. MaxJobs)
    BY <1>2, <1>3 DEF Jobs!Place
  <2>6. Jobs!Jobs' = D \union {new} /\ DOMAIN node' = D \union {new}
    BY <1>5 DEF Jobs!Jobs
  <2> HIDE DEF D, new
  <2> QED
    BY <1>6, <2>3, <2>4, <2>5, <2>6 DEF JobsOK, Jobs!TypeOK, Jobs!JobIds
<1>9. Jobs!ChildrenHaveJobs'
  <2>1. ASSUME NEW q \in Pids, proc'[q] # "none"
        PROVE  \E j \in DOMAIN node' : node'[j].pid = q
    <3>1. CASE q = r
      BY <1>5, <3>1
    <3>2. CASE q # r
      <4>1. PICK j \in D : node[j].pid = q
        BY <1>6, <2>1, <3>2 DEF JobInv, Jobs!ChildrenHaveJobs, Jobs!Jobs
      <4> QED
        BY <1>5, <4>1
    <3> QED
      BY <3>1, <3>2
  <2> QED
    BY <2>1 DEF Jobs!ChildrenHaveJobs, Jobs!Jobs
<1>10. Jobs!ListIsChildren'
  <2>1. SUFFICES ASSUME ~fork_failed'
        PROVE /\ \A j \in DOMAIN node' : \E q \in Pids : node'[j].pid = q /\ proc'[q] # "none"
              /\ \A j, k \in DOMAIN node' : node'[j].pid = node'[k].pid => j = k
              /\ (1 .. MaxJobs) \intersect (1 .. backgroundJobID' - 1) = DOMAIN node' \union reported
    BY DEF Jobs!ListIsChildren, Jobs!Jobs, Jobs!JobIds
  <2>2. /\ \A j \in D : \E q \in Pids : node[j].pid = q /\ proc[q] # "none"
        /\ \A j, k \in D : node[j].pid = node[k].pid => j = k
        /\ (1 .. MaxJobs) \intersect (1 .. new - 1) = D \union reported
    BY <1>6, <2>1 DEF JobInv, Jobs!ListIsChildren, Jobs!Jobs, Jobs!JobIds
  <2>3. r \in Pids /\ \A j \in D : node[j].pid # r
    BY <1>6, <2>1, <2>2
  <2>4. \A j \in DOMAIN node' : \E q \in Pids : node'[j].pid = q /\ proc'[q] # "none"
    <3>1. ASSUME NEW j \in D PROVE \E q \in Pids : node'[j].pid = q /\ proc'[q] # "none"
      <4>1. PICK q \in Pids : node[j].pid = q /\ proc[q] # "none"
        BY <2>2
      <4> QED
        BY <1>5, <1>6, <2>3, <4>1
    <3>2. node'[new].pid = r /\ proc'[r] # "none"
      BY <1>5, <1>6, <2>3
    <3> QED
      BY <1>5, <2>3, <3>1, <3>2
  <2>5. (1 .. MaxJobs) \intersect (1 .. new) = D \union {new} \union reported
    <3>1. (1 .. MaxJobs) \intersect (1 .. new) = ((1 .. MaxJobs) \intersect (1 .. new - 1)) \union {new}
      BY <1>4
    <3> QED
      BY <2>2, <3>1
  <2>6. backgroundJobID' - 1 = new
    BY <1>4, <1>5
  <2>7. \A j, k \in DOMAIN node' : node'[j].pid = node'[k].pid => j = k
    BY <1>5, <2>2, <2>3
  <2> QED
    BY <1>5, <2>4, <2>5, <2>6, <2>7
<1>11. WaitedHasNoJob'
  BY <1>2 DEF WaitedHasNoJob
<1> QED
  BY <1>7, <1>8, <1>9, <1>10, <1>11 DEF JobInv

\* A step that leaves the list alone leaves its links alone.
LEMMA LinksStay ==
    ASSUME JobInv, UNCHANGED Jobs!listVars
    PROVE  Jobs!LinksConsistent'
  BY DEF JobInv, Jobs!LinksConsistent, Jobs!Jobs, Jobs!listVars

\* Foreground commands and the waits for them, and the ends of children.
LEMMA OthersKeep ==
    ASSUME JobInv, UNCHANGED Jobs!listVars, reported' = reported,
           proc' \in [Pids -> {"none", "running", "zombie"}],
           shell' \in Jobs!Place, command' \in Jobs!Command,
           childPid' \in Pids \union {MinusOne}, fork_failed' \in BOOLEAN,
           fork_failed => fork_failed',
           \A q \in Pids : /\ ~fork_failed' /\ proc'[q] = "none"
                                => proc[q] = "none" \/ (shell = "wait" /\ childPid = q)
                           /\ proc'[q] # "none" /\ ~(shell' = "wait" /\ childPid' = q)
                                => proc[q] # "none" /\ ~(shell = "wait" /\ childPid = q),
           WaitedHasNoJob'
    PROVE  JobInv'
<1>1. /\ node' = node /\ head' = head /\ tail' = tail
      /\ backgroundJobID' = backgroundJobID
  BY DEF Jobs!listVars
<1>2. JobsOK'
  BY <1>1 DEF JobInv, JobsOK, Jobs!TypeOK, Jobs!Jobs, Jobs!JobIds
<1>3. Jobs!ChildrenHaveJobs'
  BY <1>1 DEF JobInv, Jobs!ChildrenHaveJobs, Jobs!Jobs
<1>4. Jobs!ListIsChildren'
  <2>1. SUFFICES ASSUME ~fork_failed'
        PROVE /\ \A j \in DOMAIN node : \E q \in Pids : node[j].pid = q /\ proc'[q] # "none"
              /\ \A j, k \in DOMAIN node : node[j].pid = node[k].pid => j = k
              /\ Jobs!JobIds \intersect (1 .. backgroundJobID - 1) = DOMAIN node \union reported
    BY <1>1 DEF Jobs!ListIsChildren, Jobs!Jobs, Jobs!JobIds
  <2>2. /\ \A j \in DOMAIN node : \E q \in Pids : node[j].pid = q /\ proc[q] # "none"
        /\ \A j, k \in DOMAIN node : node[j].pid = node[k].pid => j = k
        /\ Jobs!JobIds \intersect (1 .. backgroundJobID - 1) = DOMAIN node \union reported
    BY <2>1 DEF JobInv, Jobs!ListIsChildren, Jobs!Jobs
  <2>3. ASSUME NEW j \in DOMAIN node PROVE \E q \in Pids : node[j].pid = q /\ proc'[q] # "none"
    <3>1. PICK q \in Pids : node[j].pid = q /\ proc[q] # "none"
      BY <2>2
    <3>2. ~(shell = "wait" /\ childPid = q)
      BY <2>1, <3>1 DEF JobInv, WaitedHasNoJob
    <3> QED
      BY <2>1, <3>1, <3>2
  <2> QED
    BY <2>2, <2>3
<1> QED
  BY <1>2, <1>3, <1>4, LinksStay DEF JobInv

\* Every step of the shell and its children keeps the list what it is taken for.
LEMMA JobStep ==
    ASSUME JobInv, Jobs!Next
    PROVE  JobInv'
<1>0. /\ proc \in [Pids -> {"none", "running", "zombie"}]
      /\ shell \in Jobs!Place /\ command \in Jobs!Command
      /\ childPid \in Pids \union {MinusOne} /\ fork_failed \in BOOLEAN
      /\ MinusOne \notin Pids
      /\ WaitedHasNoJob
  BY MyShellAssumption DEF JobInv, JobsOK, Jobs!TypeOK
<1>1. CASE Jobs!Reap
  BY <1>1, ReapKeeps
<1>2. CASE Jobs!NothingToReap \/ Jobs!ReadLine \/ Jobs!NoMoreJobs
  <2>1. /\ UNCHANGED <<Jobs!listVars, proc, childPid, fork_failed, reported>>
        /\ shell # "wait" /\ shell' # "wait"
        /\ shell' \in Jobs!Place /\ command' \in Jobs!Command
    BY <1>0, <1>2 DEF Jobs!NothingToReap, Jobs!ReadLine, Jobs!NoMoreJobs, Jobs!Place
  <2>2. WaitedHasNoJob'
    BY <2>1 DEF WaitedHasNoJob
  <2> QED
    BY <1>0, <2>1, <2>2, OthersKeep
<1>3. CASE Jobs!evalCommand
  <2>1. shell = "eval" /\ UNCHANGED <<command, reported>>
    BY <1>3 DEF Jobs!evalCommand
  <2>2. CASE Jobs!executeBackgroundCommand
    BY <2>1, <2>2, BackgroundKeeps
  <2>3. CASE Jobs!executeGeneralCommand \/ Jobs!Redirect
    <3>1. /\ UNCHANGED Jobs!listVars
          /\ \/ \E p \in Pids : /\ proc[p] = "none" /\ proc' = [proc EXCEPT ![p] = "running"]
                                /\ childPid' = p /\ shell' = "wait" /\ fork_failed' = fork_failed
             \/ /\ proc' = proc /\ fork_failed' /\ fork_failed' = TRUE
                /\ shell' \in {"wait", "reap"} /\ childPid' \in {childPid, MinusOne}
      BY <2>3 DEF Jobs!executeGeneralCommand, Jobs!Redirect, Jobs!Fork, Jobs!ForkFails, Jobs!In
    <3>2. CASE \E p \in Pids : /\ proc[p] = "none" /\ proc' = [proc EXCEPT ![p] = "running"]
                               /\ childPid' = p /\ shell' = "wait" /\ fork_failed' = fork_failed
      <4>1. PICK p \in Pids : /\ proc[p] = "none" /\ proc' = [proc EXCEPT ![p] = "running"]
                              /\ childPid' = p /\ shell' = "wait" /\ fork_failed' = fork_failed
        BY <3>2
      <4>2. node' = node
        BY <3>1 DEF Jobs!listVars
      <4>3. ASSUME ~fork_failed, NEW j \in DOMAIN node PROVE node[j].pid # p
        BY <4>1, <4>3 DEF JobInv, Jobs!ListIsChildren, Jobs!Jobs
      <4>4. WaitedHasNoJob'
        BY <1>0, <4>1, <4>2, <4>3 DEF WaitedHasNoJob
      <4>5. shell' \in Jobs!Place
        BY <4>1 DEF Jobs!Place
      <4> QED
        BY <1>0, <2>1, <3>1, <4>1, <4>4, <4>5, OthersKeep
    <3>3. CASE /\ proc' = proc /\ fork_failed' /\ fork_failed' = TRUE
               /\ shell' \in {"wait", "reap"} /\ childPid' \in {childPid, MinusOne}
      <4>1. WaitedHasNoJob'
        BY <3>3 DEF WaitedHasNoJob
      <4>2. shell' \in Jobs!Place
        BY <3>3 DEF Jobs!Place
      <4> QED
        BY <1>0, <2>1, <3>1, <3>3, <4>1, <4>2, OthersKeep
    <3> QED
      BY <3>1, <3>2, <3>3
  <2>4. CASE Jobs!Simple
    <3>1. /\ UNCHANGED <<Jobs!listVars, proc, childPid, fork_failed>>
          /\ shell' \in Jobs!Place /\ shell' # "wait"
      BY <2>4 DEF Jobs!Simple, Jobs!Place
    <3>2. WaitedHasNoJob'
      BY <3>1 DEF WaitedHasNoJob
    <3> QED
      BY <1>0, <2>1, <3>1, <3>2, OthersKeep
  <2> QED
    BY <1>3, <2>2, <2>3, <2>4 DEF Jobs!evalCommand
<1>4. CASE Jobs!WaitForeground
  <2>1. /\ shell = "wait" /\ shell' = "reap" /\ childPid' = MinusOne
        /\ UNCHANGED <<Jobs!listVars, command, fork_failed, reported>>
        /\ \/ \E p \in Pids : childPid \in {p, MinusOne} /\ proc' = [proc EXCEPT ![p] = "none"]
           \/ childPid = MinusOne /\ (\A q \in Pids : proc[q] = "none") /\ proc' = proc
    BY <1>4 DEF Jobs!WaitForeground, Jobs!In
  <2>2. WaitedHasNoJob' /\ shell' \in Jobs!Place
    BY <2>1 DEF WaitedHasNoJob, Jobs!Place
  <2>3. /\ proc' \in [Pids -> {"none", "running", "zombie"}]
        /\ \A q \in Pids : /\ ~fork_failed' /\ proc'[q] = "none"
                                => proc[q] = "none" \/ (shell = "wait" /\ childPid = q)
                           /\ proc'[q] # "none" => proc[q] # "none" /\ childPid # q
    BY <1>0, <2>1 DEF WaitedHasNoJob
  <2> QED
    BY <1>0, <2>1, <2>2, <2>3, OthersKeep
<1>5. CASE \E p \in Pids : Jobs!Terminate(p)
  <2>1. PICK p \in Pids :
          /\ proc[p] = "running" /\ proc' = [proc EXCEPT ![p] = "zombie"]
          /\ UNCHANGED <<Jobs!listVars, shell, command, childPid, fork_failed, reported>>
    BY <1>5 DEF Jobs!Terminate
  <2>2. WaitedHasNoJob'
    BY <1>0, <2>1 DEF WaitedHasNoJob, Jobs!listVars
  <2> QED
    BY <1>0, <2>1, <2>2, OthersKeep
<1>6. CASE UNCHANGED Jobs!vars
  <2>1. UNCHANGED <<Jobs!listVars, proc, shell, command, childPid, fork_failed, reported>>
    BY <1>6 DEF Jobs!vars
  <2>2. WaitedHasNoJob'
    BY <1>0, <2>1 DEF WaitedHasNoJob, Jobs!listVars
  <2> QED
    BY <1>0, <2>1, <2>2, OthersKeep
<1> QED
  BY <1>1, <1>2, <1>3, <1>4, <1>5, <1>6 DEF Jobs!Next, Jobs!Shell, Jobs!Ended

\* Of the three shells the one with the job list moves it, and the others leave it.
LEMMA OneShell ==
    ASSUME [MCNext]_mcVars
    PROVE  Jobs!Next \/ UNCHANGED jobVars
  BY DEF MCNext, mcVars, MyStep, TempStep, JobsStep

\* The job list can be walked either way and is in the order of the job numbers, every
\* child that main reaps has a job, so that the search of updateBackgroundJobsList
\* (eval.c:70-93) never ends with a null pointer, and as long as no fork fails the
\* jobs are exactly the background children; for any processes and number of jobs.
THEOREM JobList == MCSpec => []JobListSound
<1>1. MCInit => JobInv
  <2>1. SUFFICES ASSUME MCInit PROVE JobInv
    OBVIOUS
  <2>2. /\ head = 0 /\ tail = 0 /\ backgroundJobID = 1
        /\ proc = [p \in Pids |-> "none"] /\ shell = "reap"
        /\ childPid = MinusOne /\ fork_failed = FALSE /\ reported = {}
        /\ MaxJobs \in Nat
    BY <2>1, MCShellsAssumption DEF MCInit, Jobs!Init, Jobs!initializeBackgroundJobsList
  <2>9. command \in Jobs!Command
    BY <2>1, Zenon DEF MCInit, Jobs!Init, Jobs!Command
  <2>3. node = [j \in {} |-> 0]
    <3>1. <<>> \in Seq({}) /\ Len(<<>>) = 0
      OBVIOUS
    <3>2. <<>> = [j \in 1 .. 0 |-> 0]
      OBVIOUS
    <3>3. 1 .. 0 = {}
      OBVIOUS
    <3>4. node = <<>>
      BY <2>1 DEF MCInit, Jobs!Init, Jobs!initializeBackgroundJobsList
    <3> QED
      BY <3>2, <3>3, <3>4
  <2>4. \A j : j \notin DOMAIN node
    BY <2>3
  <2>5. JobsOK
    <3>1. node \in [DOMAIN node -> [pid : Pids \union {MinusOne}, next : DOMAIN node \union {0},
                                    prev : DOMAIN node \union {0}]]
      BY <2>3, <2>4
    <3>2. /\ head \in DOMAIN node \union {0} /\ tail \in (1 .. MaxJobs) \union {0}
          /\ backgroundJobID \in 1 .. MaxJobs + 1
      BY <2>2
    <3>4. DOMAIN node \in SUBSET (1 .. MaxJobs) /\ \A j \in DOMAIN node : j < backgroundJobID
      BY <2>4
    <3>3. /\ proc \in [Pids -> {"none", "running", "zombie"}]
          /\ shell \in Jobs!Place /\ command \in Jobs!Command
          /\ childPid \in Pids \union {MinusOne} /\ fork_failed \in BOOLEAN
          /\ reported \in SUBSET (1 .. MaxJobs)
      BY <2>2, <2>9 DEF Jobs!Place
    <3> QED
      BY <3>1, <3>2, <3>3, <3>4 DEF JobsOK, Jobs!TypeOK, Jobs!Jobs, Jobs!JobIds
  <2>6. Jobs!LinksConsistent
    <3>1. Jobs!Jobs = {} /\ head = 0
      BY <2>2, <2>4 DEF Jobs!Jobs
    <3> QED
      BY <3>1 DEF Jobs!LinksConsistent
  <2>7. Jobs!ChildrenHaveJobs /\ WaitedHasNoJob
    BY <2>2 DEF Jobs!ChildrenHaveJobs, WaitedHasNoJob
  <2>8. Jobs!ListIsChildren
    <3>1. Jobs!Jobs = {} /\ reported = {} /\ Jobs!JobIds \intersect (1 .. backgroundJobID - 1) = {}
      <4>1. 1 .. backgroundJobID - 1 = {}
        <5>1. backgroundJobID = 1
          BY <2>2
        <5> QED
          BY <5>1
      <4>2. DOMAIN node = {}
        BY <2>4
      <4> QED
        BY <2>2, <4>1, <4>2 DEF Jobs!Jobs
    <3>2. \A j : j \notin Jobs!Jobs
      BY <3>1
    <3>3. Jobs!JobIds \intersect (1 .. backgroundJobID - 1) = Jobs!Jobs \union reported
      BY <3>1
    <3> QED
      BY <3>2, <3>3, Zenon DEF Jobs!ListIsChildren
  <2> QED
    BY <2>5, <2>6, <2>7, <2>8 DEF JobInv
<1>2. JobInv /\ [MCNext]_mcVars => JobInv'
  <2>1. SUFFICES ASSUME JobInv, [MCNext]_mcVars PROVE JobInv'
    OBVIOUS
  <2>2. CASE Jobs!Next
    BY <2>1, <2>2, JobStep
  <2>3. CASE UNCHANGED jobVars
    <3>1. UNCHANGED <<head, tail, node, backgroundJobID, proc, shell, command, childPid,
                      fork_failed, reported>>
      BY <2>3 DEF jobVars
    <3> QED
      BY <2>1, <3>1 DEF JobInv, JobsOK, Jobs!TypeOK, Jobs!LinksConsistent,
           Jobs!ChildrenHaveJobs, Jobs!ListIsChildren, WaitedHasNoJob, Jobs!Jobs, Jobs!JobIds,
           Jobs!Place, Jobs!Command
  <2> QED
    BY <2>1, <2>2, <2>3, OneShell
<1>3. JobInv => JobListSound
  BY DEF JobInv, JobListSound, Jobs!JobListSound
<1> QED
  BY <1>1, <1>2, <1>3, PTL DEF MCSpec

(***************************************************************************)
(* my_shell.c and temp.c: the children and the interrupt key.              *)
(***************************************************************************)

\* The children that main waits for itself.
Others == {p \in Pids : child[p].kind \notin {"none", "background"}}

Distinct(s) == \A m, n \in 1 .. Len(s) : s[m] = s[n] => m = n

ShellOK ==
    /\ place \in {"reap", "line", "assign", "wait", "restore", "fork", "wait_stages",
                  "exited"}
    /\ child_process \in Seq(Pids \union {MinusOne})
    /\ child \in [Pids -> {NoChild} \union
                    [kind : {"background", "foreground", "stage"},
                     state : {"running", "zombie"}, ignores : BOOLEAN]]
    /\ foreground_pid \in Pids \union {MinusOne}
    /\ sigint \in {"ignore", "handler"}
    /\ c_process \in Seq(Pids) /\ no_of_commands \in Nat /\ i \in Nat \ {0}
    /\ lostFork \in BOOLEAN /\ hit \in BOOLEAN /\ initHit \in BOOLEAN

\* The array holds the background children, and no child twice.
ArrayOK ==
    /\ \A p \in Pids : child[p].kind = "background"
                         <=> \E n \in 1 .. Len(child_process) : child_process[n] = p
    /\ \A m, n \in 1 .. Len(child_process) :
          child_process[m] = child_process[n] => m = n \/ child_process[m] = MinusOne

\* Which other children there are, at each place of the shell.
OthersOK ==
    /\ place \in {"reap", "line", "restore"} => Others = {}
    /\ place = "assign" => \E p \in Pids : Others = {p} /\ child[p].kind = "foreground"
    /\ place = "wait" => foreground_pid \in Pids /\ Others = {foreground_pid}
    /\ place \in {"fork", "wait_stages"} =>
          /\ Distinct(c_process) /\ Len(c_process) <= no_of_commands
          /\ Others = {c_process[n] : n \in i .. Len(c_process)}
    /\ place = "fork" => i = 1
    /\ place = "wait_stages" => Len(c_process) = no_of_commands
    /\ place \notin {"fork", "wait_stages", "exited"} => c_process = <<>> /\ i = 1

\* The handler is installed for a foreground command only, and whoever else runs
\* ignores the key, unless the fork of a foreground command has failed.
SignalOK ==
    /\ ~lostFork =>
          /\ ~hit
          /\ sigint = "handler" => place \in {"assign", "wait", "restore"}
          /\ \A p \in Pids : child[p].kind \in {"background", "stage"} => child[p].ignores
    /\ program # "my_shell" => ~initHit

ShellInv == ShellOK /\ SignalOK /\ (place # "exited" => ArrayOK /\ OthersOK)

\* Restore of my_shell.c and of temp.c
AnyRestore ==
    /\ place = "restore" /\ place' \in {"line", "reap"}
    /\ foreground_pid' \in {MinusOne, foreground_pid}
    /\ sigint' = "ignore"
    /\ UNCHANGED <<child_process, procVars, pipeVars, history>>

\* Interrupt of both
AnyInterrupt ==
    LET group == {p \in Running("background") \union Running("stage") : ~child[p].ignores}
    IN  /\ place # "exited"
        /\ \E S \in SUBSET Pids : /\ S \subseteq Running("foreground")
                                  /\ Ends(group \union S)
        /\ hit' = (hit \/ group # {})
        /\ initHit' \in BOOLEAN
        /\ UNCHANGED <<place, child_process, pipeVars, signalVars, lostFork>>

\* The ends of a session of temp.c and the next one
AnyEnd == /\ place \in {"reap", "wait_stages"} /\ place' = "exited"
          /\ UNCHANGED <<child_process, procVars, pipeVars, signalVars, history>>

AnyStart == /\ place' = "reap" /\ child_process' = <<>>
            /\ foreground_pid' = MinusOne /\ sigint' = "ignore"
            /\ child' = [p \in Pids |-> NoChild]
            /\ no_of_commands' = 0 /\ c_process' = <<>> /\ i' = 1
            /\ lostFork' = FALSE /\ hit' = FALSE /\ initHit' = initHit

AnyStep == \/ Reap \/ ReadLine \/ Builtin \/ Exit \/ Background
           \/ Foreground \/ Assign \/ WaitForeground \/ AnyRestore
           \/ Pipeline \/ ForkStage \/ StagesForked \/ WaitStage \/ StagesEnded
           \/ (\E p \in Pids : Terminate(p)) \/ AnyInterrupt
           \/ AnyEnd \/ AnyStart

\* A step of either shell is one of these.
LEMMA MySteps ==
    ASSUME My!Next, ShellOK
    PROVE  AnyStep
<1>0. Self \notin Pids /\ MinusOne \notin Pids
  BY MyShellAssumption
<1>1. CASE My!Restore
  BY <1>1 DEF My!Restore, My!NextCommand, AnyStep, AnyRestore, My!procVars, My!pipeVars, My!history,
              procVars, pipeVars, history
<1>2. CASE My!Interrupt
  <2> DEFINE group == {p \in Running("background") \union Running("stage") : ~child[p].ignores}
             targets == IF sigint = "handler" THEN My!sigint_handler ELSE {}
  <2>1. \A kind : My!Running(kind) = Running(kind)
    BY DEF My!Running, Running, My!In, In
  <2>2. /\ place # "exited" /\ My!Ends(group \union (targets \ {Self}))
        /\ hit' = (hit \/ group # {}) /\ initHit' = (initHit \/ Self \in targets)
        /\ UNCHANGED <<place, child_process, pipeVars, signalVars, lostFork>>
    BY <1>2, <2>1 DEF My!Interrupt, My!pipeVars, My!signalVars, pipeVars, signalVars
  <2>3. targets \ {Self} \in SUBSET Pids /\ targets \ {Self} \subseteq Running("foreground")
    <3>1. My!sigint_handler = IF foreground_pid # MinusOne
                              THEN {p \in Running("foreground") : p = foreground_pid} ELSE {Self}
      BY <2>1 DEF My!sigint_handler
    <3>2. Running("foreground") \subseteq Pids
      BY DEF Running, In
    <3> QED
      BY <3>1, <3>2
  <2>4. Ends(group \union (targets \ {Self}))
    BY <2>2 DEF My!Ends, Ends
  <2>5. initHit' \in BOOLEAN
    BY <2>2 DEF ShellOK
  <2> QED
    BY <2>2, <2>3, <2>4, <2>5 DEF AnyInterrupt, AnyStep
<1>3. CASE \E p \in Pids : My!Terminate(p)
  BY <1>3 DEF My!Terminate, Terminate, My!Ends, Ends, My!In, In, AnyStep, My!pipeVars,
              My!signalVars, My!history, pipeVars, signalVars, history
<1>4. /\ My!In("none") = In("none") /\ My!In("zombie") = In("zombie")
      /\ My!procVars = procVars /\ My!pipeVars = pipeVars
      /\ My!signalVars = signalVars /\ My!history = history
      /\ My!NoChild = NoChild
  BY DEF My!In, In, My!procVars, My!pipeVars, My!signalVars, My!history,
         procVars, pipeVars, history, signalVars, My!NoChild, NoChild
<1>5. CASE My!Reap \/ My!ReadLine \/ My!Builtin \/ My!Exit
  BY <1>4, <1>5 DEF My!Reap, My!ReadLine, My!Builtin, My!Exit, Reap, ReadLine, Builtin, Exit,
     My!Gone, Gone, My!update_child_process_array, update_child_process_array,
     My!NextCommand, NextCommand, AnyStep, My!procVars, procVars, My!pipeVars, pipeVars,
     My!signalVars, signalVars, My!history, history
<1>6. CASE My!Background \/ My!Foreground \/ My!Assign \/ My!WaitForeground
  BY <1>4, <1>6 DEF My!Background, My!Foreground, My!Assign, My!WaitForeground,
     Background, Foreground, Assign, WaitForeground, My!Gone, Gone, My!Fork, Fork,
     My!NextCommand, NextCommand, AnyStep, My!procVars, procVars, My!pipeVars, pipeVars,
     My!signalVars, signalVars, My!history, history
<1>7. CASE My!Pipeline \/ My!ForkStage \/ My!StagesForked \/ My!WaitStage \/ My!StagesEnded
  BY <1>4, <1>7 DEF My!Pipeline, My!ForkStage, My!StagesForked, My!WaitStage, My!StagesEnded,
     Pipeline, ForkStage, StagesForked, WaitStage, StagesEnded, My!Gone, Gone, My!Fork, Fork,
     My!NextStage, NextStage, My!PipeEnds, PipeEnds,
     AnyStep, My!procVars, procVars, My!pipeVars, pipeVars,
     My!signalVars, signalVars, My!history, history
<1> QED
  BY <1>1, <1>2, <1>3, <1>5, <1>6, <1>7 DEF My!Next, My!Shell

LEMMA TempSteps ==
    ASSUME HNext, ShellOK
    PROVE  AnyStep /\ (initHit' => initHit)
<1>0. Self \notin Pids /\ MinusOne \notin Pids /\ ResetsForeground
  BY MyShellAssumption, HistoryAssumption
<1>1. CASE Restore
  BY <1>1 DEF Restore, NextCommand, AnyStep, AnyRestore, history
<1>2. CASE Interrupt
  <2> DEFINE group == {p \in Running("background") \union Running("stage") : ~child[p].ignores}
             targets == IF sigint = "handler" THEN sigint_handler ELSE {}
  <2>2. /\ place # "exited" /\ Ends(group \union (targets \ {Self}))
        /\ hit' = (hit \/ group # {}) /\ initHit' = (initHit \/ Self \in targets)
        /\ UNCHANGED <<place, child_process, pipeVars, signalVars, lostFork>>
    BY <1>2 DEF Interrupt
  <2>3. targets \in SUBSET Pids /\ targets \subseteq Running("foreground") /\ Self \notin targets
    <3>1. sigint_handler = IF foreground_pid # MinusOne
                           THEN {p \in Running("foreground") : p = foreground_pid} ELSE {}
      BY <1>0 DEF sigint_handler
    <3>2. Running("foreground") \subseteq Pids
      BY DEF Running, In
    <3> QED
      BY <1>0, <3>1, <3>2
  <2>4. targets \ {Self} = targets
    BY <2>3
  <2>5. (initHit' => initHit) /\ initHit' \in BOOLEAN
    <3> HIDE DEF targets
    <3>1. initHit' => initHit
      BY <2>2, <2>3
    <3>2. initHit' \in BOOLEAN
      BY <2>2
    <3> QED
      BY <3>1, <3>2
  <2> QED
    BY <2>2, <2>3, <2>4, <2>5 DEF AnyInterrupt, AnyStep
<1>3. CASE EndOfFile \/ DoubleFree
  BY <1>3 DEF EndOfFile, DoubleFree, AnyStep, AnyEnd, history
<1>4. CASE Start
  BY <1>4 DEF Start, AnyStep, AnyStart
<1>5. CASE Foreground
  BY <1>5 DEF Foreground, AnyStep
<1>6. CASE \E p \in Pids : Terminate(p)
  BY <1>6 DEF Terminate, AnyStep, history
<1>7. CASE \/ Reap \/ ReadLine \/ Builtin \/ Exit \/ Background
           \/ Assign \/ WaitForeground \/ Pipeline
           \/ ForkStage \/ StagesForked \/ WaitStage \/ StagesEnded
  <2>1. initHit' = initHit
    BY <1>7 DEF Reap, ReadLine, Builtin, Exit, Background, Assign, WaitForeground,
       Pipeline, ForkStage, StagesForked, WaitStage, StagesEnded, history
  <2> QED
    BY <1>7, <2>1 DEF AnyStep
<1> QED
  BY <1>1, <1>2, <1>3, <1>4, <1>5, <1>6, <1>7 DEF HNext, HShell, HReap, HReadLine, HBuiltin,
     HExit, HBackground, HForeground, HMain, HPipeline, HInterrupt, HTerminate

-----------------------------------------------------------------------------
\* What update_child_process_array leaves: the entries but the one for p, each once.
LEMMA RemoveEntry ==
    ASSUME ShellOK, ArrayOK, NEW p \in Pids, update_child_process_array(p),
           child[p].kind = "background"
    PROVE  /\ child_process' \in Seq(Pids \union {MinusOne})
           /\ \A q \in Pids : (\E n \in 1 .. Len(child_process') : child_process'[n] = q)
                 <=> q # p /\ \E n \in 1 .. Len(child_process) : child_process[n] = q
           /\ \A m, n \in 1 .. Len(child_process') :
                 child_process'[m] = child_process'[n] => m = n \/ child_process'[m] = MinusOne
<1> DEFINE s == child_process
           L == Len(s)
           Moved(n) == IF \E m \in 1 .. n : s[m] = p THEN s[n + 1] ELSE s[n]
<1>1. s \in Seq(Pids \union {MinusOne}) /\ L \in Nat /\ p # MinusOne
  BY MyShellAssumption DEF ShellOK
<1>2. PICK k \in 1 .. L : s[k] = p
  BY DEF ArrayOK
<1>3. \A m \in 1 .. L : s[m] = p => m = k
  BY <1>1, <1>2 DEF ArrayOK
<1>4. ASSUME NEW n \in 1 .. L - 1 PROVE Moved(n) = IF k <= n THEN s[n + 1] ELSE s[n]
  <2>1. (\E m \in 1 .. n : s[m] = p) <=> k <= n
    BY <1>1, <1>2, <1>3
  <2> QED
    BY <2>1
<1>5. child_process' = [n \in 1 .. L - 1 |-> Moved(n)]
  BY DEF update_child_process_array
<1> HIDE DEF Moved
<1>6. child_process' = [n \in 1 .. L - 1 |-> IF k <= n THEN s[n + 1] ELSE s[n]]
  BY <1>4, <1>5
<1>7. L - 1 \in Nat /\ \A n \in 1 .. L - 1 : n \in 1 .. L /\ n + 1 \in 1 .. L
  BY <1>1, <1>2
<1>8. \A n \in 1 .. L : s[n] \in Pids \union {MinusOne}
  BY <1>1
<1>9. child_process' \in Seq(Pids \union {MinusOne}) /\ Len(child_process') = L - 1
  <2>1. child_process' \in [1 .. L - 1 -> Pids \union {MinusOne}]
    BY <1>6, <1>7, <1>8
  <2> QED
    BY <1>7, <2>1
<1>10. \A n \in 1 .. L - 1 : child_process'[n] = IF k <= n THEN s[n + 1] ELSE s[n]
  BY <1>6
<1>11. \A m, n \in 1 .. L : s[m] = s[n] => m = n \/ s[m] = MinusOne
  BY DEF ArrayOK
<1> HIDE DEF s, L
<1>12. ASSUME NEW q \in Pids
       PROVE  (\E n \in 1 .. L - 1 : child_process'[n] = q)
                 <=> q # p /\ \E n \in 1 .. L : s[n] = q
  <2>1. ASSUME NEW n \in 1 .. L - 1, child_process'[n] = q
        PROVE  q # p /\ \E m \in 1 .. L : s[m] = q
    <3>1. CASE k <= n
      <4>1. s[n + 1] = q /\ n + 1 \in 1 .. L /\ n + 1 # k
        BY <1>2, <1>7, <1>10, <2>1, <3>1
      <4> QED
        BY <1>3, <4>1
    <3>2. CASE ~(k <= n)
      <4>1. s[n] = q /\ n \in 1 .. L /\ n # k
        BY <1>2, <1>7, <1>10, <2>1, <3>2
      <4> QED
        BY <1>3, <4>1
    <3> QED
      BY <3>1, <3>2
  <2>2. ASSUME q # p, NEW m \in 1 .. L, s[m] = q
        PROVE  \E n \in 1 .. L - 1 : child_process'[n] = q
    <3>1. m # k
      BY <1>2, <2>2
    <3>2. CASE m < k
      <4>1. m \in 1 .. L - 1 /\ ~(k <= m)
        BY <1>1, <1>2, <3>2
      <4> QED
        BY <1>10, <2>2, <4>1
    <3>3. CASE k < m
      <4>1. m - 1 \in 1 .. L - 1 /\ k <= m - 1 /\ (m - 1) + 1 = m
        BY <1>1, <1>2, <3>3
      <4> QED
        BY <1>10, <2>2, <4>1
    <3> QED
      BY <1>1, <3>1, <3>2, <3>3
  <2> QED
    BY <2>1, <2>2
<1>13. ASSUME NEW m \in 1 .. L - 1, NEW n \in 1 .. L - 1, child_process'[m] = child_process'[n],
              child_process'[m] # MinusOne
       PROVE  m = n
  <2> DEFINE Old(x) == IF k <= x THEN x + 1 ELSE x
  <2>1. /\ Old(m) \in 1 .. L /\ Old(n) \in 1 .. L
        /\ child_process'[m] = s[Old(m)] /\ child_process'[n] = s[Old(n)]
    BY <1>7, <1>10
  <2>2. Old(m) = Old(n)
    BY <1>11, <1>13, <2>1
  <2> QED
    BY <1>2, <2>2
<1> QED
  BY <1>9, <1>12, <1>13 DEF s, L

-----------------------------------------------------------------------------
ChildType == {NoChild} \union [kind : {"background", "foreground", "stage"},
                               state : {"running", "zombie"}, ignores : BOOLEAN]

\* A fork makes one child, a wait takes one away, and children that end stay what
\* they are.
LEMMA ForkMakes ==
    ASSUME child \in [Pids -> ChildType], NEW p, NEW kind \in {"background", "foreground", "stage"},
           NEW ignores \in BOOLEAN, NEW ends, Fork(p, kind, ignores, ends)
    PROVE  /\ child' \in [Pids -> ChildType] /\ p \in Pids
           /\ child[p].kind = "none"
           /\ child'[p].kind = kind /\ child'[p].ignores = ignores
           /\ \A q \in Pids : q # p => child'[q] = child[q]
<1>1. p \in Pids /\ child[p].state = "none"
  BY DEF Fork, In
<1>2. child[p] = NoChild
  BY <1>1 DEF ChildType
<1>3. child' = [child EXCEPT ![p] = [kind |-> kind, state |-> "running", ignores |-> ignores]]
  BY DEF Fork
<1>4. [kind |-> kind, state |-> "running", ignores |-> ignores] \in ChildType
  BY DEF ChildType
<1> QED
  BY <1>1, <1>2, <1>3, <1>4 DEF NoChild

LEMMA WaitTakes ==
    ASSUME child \in [Pids -> ChildType], NEW p \in Pids, Gone(p)
    PROVE  /\ child' \in [Pids -> ChildType]
           /\ child'[p].kind = "none"
           /\ \A q \in Pids : q # p => child'[q] = child[q]
  BY DEF Gone, ChildType, NoChild

LEMMA EndsKeeps ==
    ASSUME child \in [Pids -> ChildType], NEW S \in SUBSET In("running"), Ends(S)
    PROVE  /\ child' \in [Pids -> ChildType]
           /\ \A q \in Pids : child'[q].kind = child[q].kind /\ child'[q].ignores = child[q].ignores
<1>1. ASSUME NEW q \in Pids
      PROVE  /\ child'[q] \in ChildType
             /\ child'[q].kind = child[q].kind /\ child'[q].ignores = child[q].ignores
  <2>1. CASE q \in S
    <3>1. child[q].state = "running" /\ child[q] \in ChildType
      BY <2>1 DEF In
    <3>2. child[q] \in [kind : {"background", "foreground", "stage"},
                        state : {"running", "zombie"}, ignores : BOOLEAN]
      BY <3>1 DEF ChildType, NoChild
    <3>3. child'[q] = [child[q] EXCEPT !.state = "zombie"]
      BY <2>1 DEF Ends
    <3> QED
      BY <3>2, <3>3 DEF ChildType
  <2>2. CASE q \notin S
    BY <2>2 DEF Ends
  <2> QED
    BY <2>1, <2>2
<1>2. child' = [q \in Pids |-> child'[q]]
  BY DEF Ends
<1> QED
  BY <1>1, <1>2

\* A child that has ended, or runs, is a child.
LEMMA ChildOf ==
    ASSUME child \in [Pids -> ChildType], NEW p \in Pids
    PROVE  /\ child[p].state \in {"running", "zombie"} => child[p].kind # "none"
           /\ child[p].kind # "none" => child[p].state # "none"
           /\ child[p].kind \in {"none", "background", "foreground", "stage"}
  BY DEF ChildType, NoChild

\* The types, whatever the shell does.
LEMMA TypesKept ==
    ASSUME ShellInv, AnyStep
    PROVE  ShellOK'
<1>0. /\ child \in [Pids -> ChildType]
      /\ place \in {"reap", "line", "assign", "wait", "restore", "fork", "wait_stages",
                    "exited"}
      /\ child_process \in Seq(Pids \union {MinusOne})
      /\ foreground_pid \in Pids \union {MinusOne}
      /\ sigint \in {"ignore", "handler"}
      /\ c_process \in Seq(Pids) /\ no_of_commands \in Nat /\ i \in Nat \ {0}
      /\ lostFork \in BOOLEAN /\ hit \in BOOLEAN /\ initHit \in BOOLEAN
  BY DEF ShellInv, ShellOK, ChildType
<1> DEFINE Rest == /\ foreground_pid' \in Pids \union {MinusOne}
                   /\ sigint' \in {"ignore", "handler"}
                   /\ no_of_commands' \in Nat /\ i' \in Nat \ {0}
                   /\ lostFork' \in BOOLEAN /\ hit' \in BOOLEAN /\ initHit' \in BOOLEAN
                   /\ place' \in {"reap", "line", "assign", "wait", "restore", "fork",
                                  "wait_stages", "exited"}
           Data == /\ child' \in [Pids -> ChildType]
                   /\ child_process' \in Seq(Pids \union {MinusOne})
                   /\ c_process' \in Seq(Pids)
<1>1. SUFFICES Rest /\ Data
  BY DEF ShellOK, ChildType
<1> USE DEF procVars, pipeVars, signalVars, history, NextCommand
<1>2. CASE Reap
  <2>1. Rest /\ c_process' = c_process
    BY <1>0, <1>2 DEF Reap
  <2>2. PICK p \in In("zombie") : Gone(p) /\ update_child_process_array(p)
    BY <1>2 DEF Reap
  <2>3. p \in Pids /\ child[p].state = "zombie"
    BY <2>2 DEF In
  <2>4. place = "reap"
    BY <1>2 DEF Reap
  <2>5. child[p].kind = "background"
    BY <1>0, <2>3, <2>4, ChildOf DEF ShellInv, OthersOK, Others
  <2>6. child_process' \in Seq(Pids \union {MinusOne})
    BY <2>2, <2>3, <2>4, <2>5, RemoveEntry DEF ShellInv
  <2>7. child' \in [Pids -> ChildType]
    BY <1>0, <2>2, <2>3, WaitTakes
  <2> QED
    BY <1>0, <2>1, <2>6, <2>7
<1>3. CASE ReadLine \/ Builtin \/ AnyRestore \/ StagesForked \/ AnyEnd
  BY <1>0, <1>3 DEF ReadLine, Builtin, AnyRestore, StagesForked, AnyEnd
<1>4. CASE Exit \/ AnyStart
  <2>1. child' \in [Pids -> ChildType]
    BY <1>4 DEF Exit, AnyStart, ChildType
  <2>2. CASE Exit
    BY <1>0, <2>1, <2>2 DEF Exit
  <2>3. CASE AnyStart
    <3>0. /\ place' = "reap" /\ foreground_pid' = MinusOne /\ sigint' = "ignore"
          /\ no_of_commands' = 0 /\ i' = 1
          /\ lostFork' = FALSE /\ hit' = FALSE /\ initHit' = initHit
      BY <2>3 DEF AnyStart
    <3>3. lostFork' \in BOOLEAN /\ hit' \in BOOLEAN /\ initHit' \in BOOLEAN
      BY <1>0, <3>0
    <3>4. /\ foreground_pid' \in Pids \union {MinusOne} /\ sigint' \in {"ignore", "handler"}
          /\ no_of_commands' \in Nat
      BY <3>0
    <3>5. i' \in Nat \ {0}
      BY <3>0
    <3>6. place' \in {"reap", "line", "assign", "wait", "restore", "fork", "wait_stages",
                      "exited"}
      BY <3>0
    <3>1. Rest
      BY <3>3, <3>4, <3>5, <3>6
    <3>2. /\ child_process' = <<>> /\ c_process' = <<>>
          /\ <<>> \in Seq(Pids \union {MinusOne}) /\ <<>> \in Seq(Pids)
      BY <2>3 DEF AnyStart
    <3> QED
      BY <2>1, <3>1, <3>2
  <2> QED
    BY <1>4, <2>2, <2>3
<1>5. CASE Background
  <2>1. Rest /\ c_process' = c_process
    BY <1>0, <1>5 DEF Background
  <2>2. CASE UNCHANGED <<child_process, procVars>>
    BY <1>0, <2>1, <2>2
  <2>3. CASE \E r \in Pids \union {MinusOne} :
                /\ r = MinusOne => child' = child
                /\ r # MinusOne => Fork(r, "background", sigint = "ignore", writeEnds[Self])
                /\ child_process' = Append(child_process, r)
    <3>1. child' \in [Pids -> ChildType]
      BY <1>0, <2>3, ForkMakes
    <3>2. child_process' \in Seq(Pids \union {MinusOne})
      BY <1>0, <2>3
    <3> QED
      BY <1>0, <2>1, <3>1, <3>2
  <2> QED
    BY <1>5, <2>2, <2>3 DEF Background
<1>6. CASE Foreground
  <2>1. Rest /\ UNCHANGED <<child_process, c_process>>
    BY <1>0, <1>6 DEF Foreground
  <2>2. child' \in [Pids -> ChildType]
    BY <1>0, <1>6, ForkMakes DEF Foreground
  <2> QED
    BY <1>0, <2>1, <2>2
<1>7. CASE Assign
  BY <1>0, <1>7 DEF Assign
<1>8. CASE WaitForeground
  <2>1. Rest /\ UNCHANGED <<child_process, c_process>> /\ Gone(foreground_pid)
        /\ foreground_pid \in Pids
    BY <1>0, <1>8 DEF WaitForeground, In
  <2> QED
    BY <1>0, <2>1, WaitTakes
<1>9. CASE Pipeline
  <2>1. no_of_commands' \in Nat
    BY <1>9, MyShellAssumption DEF Pipeline
  <2> QED
    BY <1>0, <1>9, <2>1 DEF Pipeline
<1>10. CASE ForkStage
  <2>1. Rest /\ UNCHANGED child_process
    BY <1>0, <1>10 DEF ForkStage
  <2>2. CASE UNCHANGED <<procVars, c_process>>
    BY <1>0, <2>1, <2>2
  <2>3. CASE \E p \in Pids : /\ Fork(p, "stage", sigint = "ignore", PipeEnds)
                             /\ c_process' = Append(c_process, p)
    <3>1. child' \in [Pids -> ChildType]
      BY <1>0, <2>3, ForkMakes
    <3>2. c_process' \in Seq(Pids)
      BY <1>0, <2>3
    <3> QED
      BY <1>0, <2>1, <3>1, <3>2
  <2> QED
    BY <1>10, <2>2, <2>3 DEF ForkStage
<1>11. CASE WaitStage
  <2>1. Rest /\ UNCHANGED <<child_process, c_process>> /\ Gone(c_process[i]) /\ c_process[i] \in Pids
    BY <1>0, <1>11 DEF WaitStage, In
  <2> QED
    BY <1>0, <2>1, WaitTakes
<1>12. CASE StagesEnded
  BY <1>0, <1>12 DEF StagesEnded
<1>13. CASE \E p \in Pids : Terminate(p)
  <2>1. PICK p \in Pids : Terminate(p)
    BY <1>13
  <2>2. Rest /\ UNCHANGED <<child_process, c_process>> /\ Ends({p}) /\ {p} \subseteq In("running")
    BY <1>0, <2>1 DEF Terminate
  <2> QED
    BY <1>0, <2>2, EndsKeeps
<1>14. CASE AnyInterrupt
  <2>1. Rest /\ UNCHANGED <<child_process, c_process>>
    BY <1>0, <1>14 DEF AnyInterrupt
  <2>2. \E S \in SUBSET In("running") : Ends(S)
    BY <1>14 DEF AnyInterrupt, Running
  <2> QED
    BY <1>0, <2>1, <2>2, EndsKeeps
<1> QED
  BY <1>2, <1>3, <1>4, <1>5, <1>6, <1>7, <1>8, <1>9, <1>10, <1>11, <1>12, <1>13, <1>14 DEF AnyStep

\* The foreground command and the pipeline keep SIGINT from the others, whatever the
\* shell does, until the fork of a foreground command fails.
LEMMA SignalKept ==
    ASSUME ShellInv, AnyStep, program' = program, program # "my_shell" => (initHit' => initHit)
    PROVE  SignalOK'
<1>0. /\ child \in [Pids -> ChildType]
      /\ place \in {"reap", "line", "assign", "wait", "restore", "fork", "wait_stages",
                    "exited"}
      /\ sigint \in {"ignore", "handler"}
      /\ lostFork \in BOOLEAN /\ hit \in BOOLEAN
  BY DEF ShellInv, ShellOK, ChildType
<1> DEFINE Quiet == /\ ~hit
                    /\ sigint = "handler" => place \in {"assign", "wait", "restore"}
                    /\ \A p \in Pids : child[p].kind \in {"background", "stage"} => child[p].ignores
<1>1. SUFFICES ASSUME ~lostFork' PROVE Quiet'
  BY DEF SignalOK, ShellInv
<1>2. \/ AnyStart
      \/ lostFork' = lostFork /\ Quiet
  <2>1. ASSUME Foreground PROVE lostFork' = TRUE \/ lostFork' = lostFork
    BY <2>1 DEF Foreground
  <2>2. ASSUME AnyStep, ~Foreground, ~AnyStart PROVE lostFork' = lostFork
    BY <2>2 DEF AnyStep, Reap, ReadLine, Builtin, Exit, Background, Assign,
       WaitForeground, AnyRestore, Pipeline, ForkStage, StagesForked, WaitStage, StagesEnded,
       Terminate, AnyInterrupt, AnyEnd, history
  <2>3. lostFork' = TRUE \/ lostFork' = lostFork \/ AnyStart
    BY <2>1, <2>2
  <2> QED
    BY <1>0, <1>1, <2>3 DEF SignalOK, ShellInv
<1> USE DEF procVars, pipeVars, signalVars, history, NextCommand
<1>3. CASE AnyStart
  BY <1>3 DEF AnyStart, NoChild
<1>4. CASE Quiet /\ (Reap \/ WaitForeground \/ WaitStage)
  <2>1. PICK p \in Pids : Gone(p)
    <3>1. CASE Reap
      BY <3>1 DEF Reap, In
    <3>2. CASE WaitForeground
      BY <3>2 DEF WaitForeground, In
    <3>3. CASE WaitStage
      BY <3>3 DEF WaitStage, In
    <3> QED
      BY <1>4, <3>1, <3>2, <3>3
  <2>2. /\ child'[p].kind = "none" /\ \A q \in Pids : q # p => child'[q] = child[q]
    BY <1>0, <2>1, WaitTakes
  <2>3. hit' = hit /\ sigint' = sigint
        /\ (place \in {"assign", "wait", "restore"} => place' \in {"assign", "wait", "restore"})
    BY <1>4 DEF Reap, WaitForeground, WaitStage
  <2> QED
    BY <1>4, <2>2, <2>3
<1>5. CASE Quiet /\ (ReadLine \/ Builtin \/ AnyRestore \/ Pipeline \/ StagesForked \/ StagesEnded
                       \/ Assign \/ Exit)
  <2>1. \A p \in Pids : child'[p] = child[p] \/ child'[p].kind = "none"
    BY <1>5 DEF ReadLine, Builtin, AnyRestore, Pipeline, StagesForked, StagesEnded, Assign,
       Exit, NoChild
  <2>2. ~hit' /\ (sigint' = "handler" => place' \in {"assign", "wait", "restore"})
    BY <1>5 DEF ReadLine, Builtin, AnyRestore, Pipeline, StagesForked, StagesEnded, Assign, Exit
  <2> QED
    BY <1>5, <2>1, <2>2
<1>6. CASE Quiet /\ (Background \/ ForkStage)
  <2>1. sigint = "ignore" /\ sigint' = sigint /\ hit' = hit
    BY <1>0, <1>6 DEF Background, ForkStage
  <2>2. \/ child' = child
        \/ \E p \in Pids, kind \in {"background", "stage"}, ends \in {writeEnds[Self], PipeEnds} :
              Fork(p, kind, sigint = "ignore", ends)
    BY <1>6 DEF Background, ForkStage
  <2>3. CASE child' = child
    BY <1>6, <2>1, <2>3
  <2>4. CASE \E p \in Pids, kind \in {"background", "stage"}, ends \in {writeEnds[Self], PipeEnds} :
              Fork(p, kind, sigint = "ignore", ends)
    <3>1. PICK p \in Pids, kind \in {"background", "stage"}, ends \in {writeEnds[Self], PipeEnds} :
              Fork(p, kind, TRUE, ends)
      BY <2>1, <2>4
    <3>2. child'[p].ignores = TRUE /\ \A q \in Pids : q # p => child'[q] = child[q]
      BY <1>0, <3>1, ForkMakes
    <3> QED
      BY <1>6, <2>1, <3>1, <3>2
  <2> QED
    BY <2>2, <2>3, <2>4
<1>7. CASE Quiet /\ lostFork' = lostFork /\ Foreground
  <2>1. CASE /\ lostFork' = TRUE
    BY <1>1, <2>1
  <2>2. CASE \E p \in Pids : /\ Fork(p, "foreground", FALSE, writeEnds[Self])
                             /\ place' = "assign"
    <3>1. PICK p \in Pids : child'[p].kind = "foreground" /\ \A q \in Pids : q # p => child'[q] = child[q]
      BY <1>0, <2>2, ForkMakes
    <3>2. hit' = hit /\ place' = "assign"
      BY <1>7, <2>2 DEF Foreground
    <3> QED
      BY <1>7, <3>1, <3>2
  <2> QED
    BY <1>7, <2>1, <2>2 DEF Foreground
<1>8. CASE Quiet /\ \E p \in Pids : Terminate(p)
  <2>1. PICK p \in Pids : Terminate(p)
    BY <1>8
  <2>2. Ends({p}) /\ {p} \subseteq In("running") /\ UNCHANGED <<place, sigint, hit>>
    BY <2>1 DEF Terminate
  <2>3. \A q \in Pids : child'[q].kind = child[q].kind /\ child'[q].ignores = child[q].ignores
    BY <1>0, <2>2, EndsKeeps
  <2> QED
    BY <1>8, <2>2, <2>3
<1>9. CASE Quiet /\ AnyInterrupt
  <2> DEFINE group == {p \in Running("background") \union Running("stage") : ~child[p].ignores}
  <2>1. group = {}
    <3>1. ASSUME NEW p \in group PROVE FALSE
      <4>1. p \in Pids /\ child[p].kind \in {"background", "stage"} /\ ~child[p].ignores
        BY <3>1 DEF Running, In
      <4> QED
        BY <1>9, <4>1
    <3> QED
      BY <3>1
  <2>2. /\ \E S \in SUBSET Pids : S \subseteq Running("foreground") /\ Ends(group \union S)
        /\ hit' = (hit \/ group # {}) /\ UNCHANGED <<place, sigint>>
    BY <1>9 DEF AnyInterrupt
  <2>3. \E S \in SUBSET In("running") : Ends(S)
    <3>1. Running("foreground") \subseteq In("running")
      BY DEF Running
    <3>2. \A S : group \union S = S
      BY <2>1
    <3> HIDE DEF group
    <3> QED
      BY <2>2, <3>1, <3>2
  <2>4. \A q \in Pids : child'[q].kind = child[q].kind /\ child'[q].ignores = child[q].ignores
    BY <1>0, <2>3, EndsKeeps
  <2>5. ~hit'
    BY <1>9, <2>1, <2>2
  <2> HIDE DEF group
  <2> QED
    BY <1>9, <2>2, <2>4, <2>5
<1>10. CASE Quiet /\ AnyEnd
  <2>1. sigint' = sigint /\ hit' = hit /\ child' = child /\ place' = "exited" /\ place \in {"reap", "wait_stages"}
    BY <1>10 DEF AnyEnd
  <2> QED
    BY <1>10, <2>1
<1> QED
  BY <1>2, <1>3, <1>4, <1>5, <1>6, <1>7, <1>8, <1>9, <1>10 DEF AnyStep

-----------------------------------------------------------------------------
\* A step that leaves the kinds of the children and the array alone.
LEMMA KindsStay ==
    ASSUME ArrayOK, \A p \in Pids : child'[p].kind = child[p].kind,
           child_process' = child_process
    PROVE  ArrayOK' /\ Others' = Others
  BY DEF ArrayOK, Others

\* A child of the other kinds comes or goes: the array does not see it.
LEMMA OtherChild ==
    ASSUME ArrayOK, NEW p \in Pids, child[p].kind # "background", child'[p].kind # "background",
           \A q \in Pids : q # p => child'[q] = child[q], child_process' = child_process
    PROVE  /\ ArrayOK'
           /\ Others' = IF child'[p].kind = "none" THEN Others \ {p} ELSE Others \union {p}
<1>1. ArrayOK'
  BY DEF ArrayOK
<1>2. Others' = IF child'[p].kind = "none" THEN Others \ {p} ELSE Others \union {p}
  BY DEF Others
<1> QED
  BY <1>1, <1>2

\* The loop at 315-322 takes a background child out of the array.
LEMMA ReapTakesOne ==
    ASSUME ShellInv, Reap
    PROVE  ArrayOK' /\ OthersOK'
<1>1. /\ ShellOK /\ ArrayOK /\ OthersOK /\ Others = {} /\ place = "reap" /\ place' = "reap"
      /\ child \in [Pids -> ChildType] /\ UNCHANGED <<c_process, i>>
  BY DEF ShellInv, Reap, OthersOK, ShellOK, ChildType, pipeVars
<1>2. PICK p \in Pids : /\ child[p].state = "zombie" /\ Gone(p)
                        /\ update_child_process_array(p)
  BY DEF Reap, In
<1>3. child[p].kind = "background"
  BY <1>1, <1>2, ChildOf DEF Others
<1>4. /\ child'[p].kind = "none"
      /\ \A q \in Pids : q # p => child'[q] = child[q]
  BY <1>1, <1>2, WaitTakes
<1>5. /\ \A q \in Pids : (\E n \in 1 .. Len(child_process') : child_process'[n] = q)
            <=> q # p /\ \E n \in 1 .. Len(child_process) : child_process[n] = q
      /\ \A m, n \in 1 .. Len(child_process') :
            child_process'[m] = child_process'[n] => m = n \/ child_process'[m] = MinusOne
  BY <1>1, <1>2, <1>3, RemoveEntry
<1>6. ASSUME NEW q \in Pids
      PROVE  child'[q].kind = "background"
                <=> \E n \in 1 .. Len(child_process') : child_process'[n] = q
  <2>1. child[q].kind = "background" <=> \E n \in 1 .. Len(child_process) : child_process[n] = q
    BY <1>1 DEF ArrayOK
  <2>2. q = p \/ child'[q] = child[q]
    BY <1>4
  <2> QED
    BY <1>4, <1>5, <2>1, <2>2
<1>7. ArrayOK'
  BY <1>5, <1>6 DEF ArrayOK
<1>8. Others' = {}
  BY <1>1, <1>4 DEF Others
<1> QED
  BY <1>1, <1>7, <1>8 DEF OthersOK

\* A background command puts the result of its fork behind the others.
LEMMA BackgroundAdds ==
    ASSUME ShellInv, Background
    PROVE  ArrayOK' /\ OthersOK'
<1>1. /\ ArrayOK /\ OthersOK /\ Others = {} /\ place = "line" /\ place' \in {"reap", "line"}
      /\ child \in [Pids -> ChildType] /\ UNCHANGED <<c_process, i>>
      /\ child_process \in Seq(Pids \union {MinusOne})
  BY DEF ShellInv, Background, OthersOK, ShellOK, ChildType, pipeVars, NextCommand
<1>2. CASE UNCHANGED <<child_process, procVars>>
  <2>1. ArrayOK' /\ Others' = Others
    BY <1>1, <1>2, KindsStay DEF procVars
  <2> QED
    BY <1>1, <2>1 DEF OthersOK
<1>3. CASE \E r \in Pids \union {MinusOne} :
             /\ r = MinusOne => child' = child
             /\ r # MinusOne => Fork(r, "background", sigint = "ignore", writeEnds[Self])
             /\ child_process' = Append(child_process, r)
  <2>1. PICK r \in Pids \union {MinusOne} :
             /\ r = MinusOne => child' = child
             /\ r # MinusOne => Fork(r, "background", sigint = "ignore", writeEnds[Self])
             /\ child_process' = Append(child_process, r)
    BY <1>3
  <2> DEFINE L == Len(child_process)
  <2>2. /\ L \in Nat /\ Len(child_process') = L + 1 /\ child_process'[L + 1] = r
        /\ \A n \in 1 .. L : child_process'[n] = child_process[n]
    BY <1>1, <2>1
  <2>3. \/ r = MinusOne /\ child' = child
        \/ /\ r \in Pids /\ r # MinusOne /\ child[r].kind = "none" /\ child'[r].kind = "background"
           /\ \A q \in Pids : q # r => child'[q] = child[q]
    BY <1>1, <2>1, ForkMakes
  <2>4. r # MinusOne => \A n \in 1 .. L : child_process[n] # r
    BY <1>1, <2>1, <2>3 DEF ArrayOK
  <2> HIDE DEF L
  <2>5. ASSUME NEW q \in Pids
        PROVE  child'[q].kind = "background"
                  <=> \E n \in 1 .. L + 1 : child_process'[n] = q
    <3>1. child[q].kind = "background" <=> \E n \in 1 .. L : child_process[n] = q
      BY <1>1 DEF ArrayOK, L
    <3>2. (\E n \in 1 .. L + 1 : child_process'[n] = q)
             <=> q = r \/ \E n \in 1 .. L : child_process[n] = q
      BY <2>2
    <3>3. q = r => child'[q].kind = "background"
      BY <2>3, MyShellAssumption
    <3>4. q # r => child'[q] = child[q]
      BY <2>3
    <3> QED
      BY <3>1, <3>2, <3>3, <3>4, <2>3
  <2>6. ASSUME NEW m \in 1 .. L + 1, NEW n \in 1 .. L + 1, child_process'[m] = child_process'[n],
               child_process'[m] # MinusOne
        PROVE  m = n
    <3>1. \A x, y \in 1 .. L : child_process[x] = child_process[y]
                                  => x = y \/ child_process[x] = MinusOne
      BY <1>1 DEF ArrayOK, L
    <3>2. (m \in 1 .. L \/ m = L + 1) /\ (n \in 1 .. L \/ n = L + 1)
      BY <2>2
    <3> QED
      BY <2>2, <2>4, <2>6, <3>1, <3>2
  <2>7. ArrayOK'
    BY <2>2, <2>5, <2>6 DEF ArrayOK
  <2>8. Others' = {}
    BY <1>1, <2>3 DEF Others
  <2> QED
    BY <1>1, <2>7, <2>8 DEF OthersOK
<1> QED
  BY <1>2, <1>3 DEF Background, procVars

\* The stages of a pipeline are forked one by one and waited for one by one.
LEMMA StagesComeAndGo ==
    ASSUME ShellInv, ForkStage \/ WaitStage, place' # "exited"
    PROVE  ArrayOK' /\ OthersOK'
<1>1. /\ ArrayOK /\ OthersOK /\ child \in [Pids -> ChildType]
      /\ c_process \in Seq(Pids) /\ no_of_commands \in Nat /\ i \in Nat \ {0}
      /\ place \in {"fork", "wait_stages"}
      /\ UNCHANGED <<place, child_process, no_of_commands>>
  BY DEF ShellInv, ForkStage, WaitStage, ShellOK, ChildType
<1>2. /\ Distinct(c_process) /\ Len(c_process) <= no_of_commands
      /\ Others = {c_process[n] : n \in i .. Len(c_process)}
  BY <1>1 DEF OthersOK
<1> DEFINE L == Len(c_process)
<1>3. CASE ForkStage
  <2>1. PICK p \in Pids : /\ Fork(p, "stage", sigint = "ignore", PipeEnds)
                          /\ c_process' = Append(c_process, p)
    BY <1>3 DEF ForkStage
  <2>2. place = "fork" /\ i = 1 /\ i' = i /\ L + 1 <= no_of_commands
    BY <1>1, <1>3 DEF ForkStage, NextStage, OthersOK
  <2>3. /\ child[p].kind = "none" /\ child'[p].kind = "stage"
        /\ \A q \in Pids : q # p => child'[q] = child[q]
    BY <1>1, <2>1, ForkMakes
  <2>4. ArrayOK' /\ Others' = Others \union {p} /\ p \notin Others
    <3>1. ArrayOK' /\ Others' = Others \union {p}
      BY <1>1, <2>3, OtherChild
    <3>2. p \notin Others
      BY <2>3 DEF Others
    <3> QED
      BY <3>1, <3>2
  <2>5. /\ L \in Nat /\ Len(c_process') = L + 1 /\ c_process'[L + 1] = p
        /\ \A n \in 1 .. L : c_process'[n] = c_process[n]
    BY <1>1, <2>1
  <2>6. \A n \in 1 .. L : c_process[n] # p
    BY <1>2, <2>2, <2>4
  <2> HIDE DEF L
  <2>7. Distinct(c_process')
    <3>1. \A x, y \in 1 .. L : c_process[x] = c_process[y] => x = y
      BY <1>2 DEF Distinct, L
    <3> QED
      BY <2>5, <2>6, <3>1 DEF Distinct
  <2>8. Others' = {c_process'[n] : n \in i' .. L + 1}
    <3>1. Others = {c_process'[n] : n \in 1 .. L}
      BY <1>2, <2>2, <2>5 DEF L
    <3>2. 1 .. L + 1 = (1 .. L) \union {L + 1}
      BY <2>5
    <3> QED
      BY <2>2, <2>4, <2>5, <3>1, <3>2
  <2> QED
    BY <1>1, <2>2, <2>4, <2>5, <2>7, <2>8 DEF OthersOK
<1>4. CASE WaitStage
  <2>1. /\ place = "wait_stages" /\ L = no_of_commands /\ i \in 1 .. L
        /\ Gone(c_process[i]) /\ c_process[i] \in Pids
        /\ i' = i + 1 /\ c_process' = c_process
    BY <1>1, <1>4 DEF WaitStage, In, OthersOK
  <2> DEFINE p == c_process[i]
  <2>2. /\ child'[p].kind = "none"
        /\ \A q \in Pids : q # p => child'[q] = child[q]
    BY <1>1, <2>1, WaitTakes
  <2>3. p \in Others
    BY <1>1, <1>2, <2>1
  <2>4. ArrayOK' /\ Others' = Others \ {p}
    <3>1. child[p].kind # "background"
      BY <2>3 DEF Others
    <3> QED
      BY <1>1, <2>1, <2>2, <3>1, OtherChild
  <2>5. Others' = {c_process[n] : n \in i + 1 .. L}
    <3>1. \A n \in i .. L : c_process[n] = p => n = i
      BY <1>1, <1>2, <2>1 DEF Distinct
    <3>2. \A n \in i .. L : n = i \/ n \in i + 1 .. L
      BY <1>1
    <3>3. \A n \in i + 1 .. L : n \in i .. L /\ n # i
      BY <1>1
    <3> QED
      BY <1>2, <2>4, <3>1, <3>2, <3>3
  <2> HIDE DEF L
  <2> QED
    BY <1>1, <1>2, <2>1, <2>4, <2>5 DEF OthersOK, L
<1> QED
  BY <1>3, <1>4

\* The array is right, and main waits for those it has forked, after every step.
LEMMA ArrayKept ==
    ASSUME ShellInv, AnyStep, place' # "exited"
    PROVE  ArrayOK' /\ OthersOK'
<1>0. ShellOK /\ child \in [Pids -> ChildType]
  BY DEF ShellInv, ShellOK, ChildType
<1> USE DEF procVars, pipeVars, signalVars, history, NextCommand
<1>1. CASE AnyStart
  <2>1. /\ child_process' = <<>> /\ c_process' = <<>> /\ i' = 1 /\ place' = "reap"
        /\ \A p \in Pids : child'[p].kind = "none"
    BY <1>1 DEF AnyStart, NoChild
  <2>2. Len(child_process') = 0
    BY <2>1
  <2>3. ArrayOK'
    BY <2>1, <2>2 DEF ArrayOK
  <2>4. Others' = {}
    BY <2>1 DEF Others
  <2> QED
    BY <2>1, <2>3, <2>4 DEF OthersOK
<1>2. CASE place # "exited" /\ Reap
  BY <1>2, ReapTakesOne
<1>3. CASE place # "exited" /\ Background
  BY <1>3, BackgroundAdds
<1>4. CASE place # "exited" /\ (ForkStage \/ WaitStage)
  BY <1>4, StagesComeAndGo
<1>5. CASE place # "exited" /\ (ReadLine \/ Builtin \/ AnyRestore)
  <2>1. /\ child' = child /\ child_process' = child_process
        /\ UNCHANGED <<c_process, i>> /\ place' \in {"reap", "line"}
        /\ place \in {"reap", "line", "restore"} /\ ArrayOK /\ OthersOK
    BY <1>5 DEF ReadLine, Builtin, AnyRestore, ShellInv
  <2>2. ArrayOK' /\ Others' = Others
    BY <2>1, KindsStay
  <2> QED
    BY <2>1, <2>2 DEF OthersOK
<1>6. CASE place # "exited" /\ Foreground
  <2>1. ArrayOK /\ OthersOK /\ Others = {} /\ UNCHANGED <<child_process, c_process, i>>
        /\ c_process = <<>> /\ i = 1
    BY <1>6 DEF Foreground, ShellInv, OthersOK
  <2>2. CASE place' \in {"line", "reap"} /\ child' = child
    <3>1. ArrayOK' /\ Others' = Others
      BY <2>1, <2>2, KindsStay
    <3> QED
      BY <2>1, <2>2, <3>1 DEF OthersOK
  <2>3. CASE place' = "assign" /\ \E p \in Pids : Fork(p, "foreground", FALSE, writeEnds[Self])
    <3>1. PICK p \in Pids : Fork(p, "foreground", FALSE, writeEnds[Self])
      BY <2>3
    <3>2. /\ child[p].kind = "none" /\ child'[p].kind = "foreground"
          /\ \A q \in Pids : q # p => child'[q] = child[q]
      BY <1>0, <3>1, ForkMakes
    <3>3. ArrayOK' /\ Others' = Others \union {p}
      BY <2>1, <3>2, OtherChild
    <3>4. Others' = {p}
      BY <2>1, <3>3
    <3> QED
      BY <2>1, <2>3, <3>2, <3>3, <3>4 DEF OthersOK
  <2> QED
    BY <1>6, <2>2, <2>3, MyShellAssumption DEF Foreground
<1>7. CASE place # "exited" /\ Assign
  <2>1. /\ ArrayOK /\ OthersOK /\ place = "assign" /\ place' = "wait"
        /\ child' = child /\ UNCHANGED <<child_process, c_process, i>>
        /\ \E p \in Pids : child[p].kind = "foreground" /\ foreground_pid' = p
    BY <1>7 DEF Assign, ShellInv
  <2>2. ArrayOK' /\ Others' = Others
    BY <2>1, KindsStay
  <2>3. PICK p \in Pids : Others = {p}
    BY <2>1 DEF OthersOK
  <2>4. foreground_pid' = p
    BY <2>1, <2>3 DEF Others
  <2> QED
    BY <2>1, <2>2, <2>3, <2>4 DEF OthersOK
<1>8. CASE place # "exited" /\ WaitForeground
  <2>1. /\ ArrayOK /\ OthersOK /\ place' = "restore" /\ foreground_pid \in Pids
        /\ Others = {foreground_pid} /\ Gone(foreground_pid)
        /\ UNCHANGED <<child_process, c_process, i>> /\ c_process = <<>> /\ i = 1
    BY <1>8 DEF WaitForeground, ShellInv, OthersOK
  <2>2. /\ child'[foreground_pid].kind = "none"
        /\ \A q \in Pids : q # foreground_pid => child'[q] = child[q]
    BY <1>0, <2>1, WaitTakes
  <2>3. child[foreground_pid].kind # "background"
    BY <2>1 DEF Others
  <2>4. ArrayOK' /\ Others' = Others \ {foreground_pid}
    BY <2>1, <2>2, <2>3, OtherChild
  <2>5. Others' = {}
    BY <2>1, <2>4
  <2> QED
    BY <2>1, <2>4, <2>5 DEF OthersOK
<1>9. CASE place # "exited" /\ Pipeline
  <2>1. /\ ArrayOK /\ Others = {} /\ place' = "fork" /\ no_of_commands' \in Nat
        /\ child' = child /\ UNCHANGED <<child_process, c_process, i>> /\ c_process = <<>> /\ i = 1
    BY <1>9, MyShellAssumption DEF Pipeline, ShellInv, OthersOK
  <2>2. ArrayOK' /\ Others' = Others
    BY <2>1, KindsStay
  <2>3. Len(c_process') = 0 /\ i' = 1
    BY <2>1
  <2>4. Distinct(c_process')
    BY <2>3 DEF Distinct
  <2>5. 1 .. 0 = {}
    OBVIOUS
  <2>6. Others' = {c_process'[n] : n \in i' .. Len(c_process')}
    BY <2>1, <2>2, <2>3, <2>5
  <2>7. Len(c_process') <= no_of_commands'
    BY <2>1, <2>3
  <2> QED
    BY <2>1, <2>2, <2>3, <2>4, <2>6, <2>7 DEF OthersOK
<1>10. CASE place # "exited" /\ StagesForked
  <2>1. /\ ArrayOK /\ OthersOK /\ place = "fork" /\ place' = "wait_stages"
        /\ child' = child /\ UNCHANGED <<child_process, c_process, i, no_of_commands>>
        /\ Len(c_process) = no_of_commands
    BY <1>10 DEF StagesForked, ShellInv
  <2>2. ArrayOK' /\ Others' = Others
    BY <2>1, KindsStay
  <2> QED
    BY <2>1, <2>2 DEF OthersOK
<1>11. CASE place # "exited" /\ StagesEnded
  <2>1. /\ ArrayOK /\ OthersOK /\ place = "wait_stages" /\ place' = "reap"
        /\ child' = child /\ UNCHANGED child_process /\ c_process' = <<>> /\ i' = 1
        /\ i > no_of_commands /\ no_of_commands \in Nat /\ i \in Nat
    BY <1>0, <1>11 DEF StagesEnded, ShellInv, ShellOK
  <2>2. ArrayOK' /\ Others' = Others
    BY <2>1, KindsStay
  <2>3. Others = {c_process[n] : n \in i .. no_of_commands}
    BY <2>1 DEF OthersOK
  <2>4. i .. no_of_commands = {}
    BY <2>1
  <2>5. Others' = {}
    BY <2>2, <2>3, <2>4
  <2> QED
    BY <2>1, <2>2, <2>5 DEF OthersOK
<1>12. CASE place # "exited" /\ ((\E p \in Pids : Terminate(p)) \/ AnyInterrupt)
  <2>1. \E S \in SUBSET In("running") : Ends(S)
    <3>1. CASE \E p \in Pids : Terminate(p)
      BY <3>1 DEF Terminate
    <3>2. CASE AnyInterrupt
      BY <3>2 DEF AnyInterrupt, Running
    <3> QED
      BY <1>12, <3>1, <3>2
  <2>2. UNCHANGED <<place, child_process, no_of_commands, c_process, i, foreground_pid>>
    BY <1>12 DEF Terminate, AnyInterrupt
  <2>3. \A q \in Pids : child'[q].kind = child[q].kind
    BY <1>0, <2>1, EndsKeeps
  <2>4. ArrayOK /\ OthersOK
    BY <1>12 DEF ShellInv
  <2>5. ArrayOK' /\ Others' = Others
    BY <2>2, <2>3, <2>4, KindsStay
  <2> QED
    BY <2>2, <2>3, <2>4, <2>5 DEF OthersOK
<1>13. AnyStart \/ (place # "exited" /\ AnyStep /\ ~AnyEnd)
  <2>1. place = "exited" /\ AnyStep => AnyStart \/ AnyEnd
    BY DEF AnyStep, Reap, ReadLine, Builtin, Exit, Background, Foreground, Assign,
       WaitForeground, AnyRestore, Pipeline, ForkStage, StagesForked, WaitStage, StagesEnded,
       Terminate, AnyInterrupt
  <2>2. ~AnyEnd
    BY DEF AnyEnd
  <2> QED
    BY <2>1, <2>2
<1>14. ~Exit
  BY DEF Exit
<1> QED
  BY <1>1, <1>2, <1>3, <1>4, <1>5, <1>6, <1>7, <1>8, <1>9, <1>10, <1>11, <1>12, <1>13, <1>14
     DEF AnyStep

-----------------------------------------------------------------------------
\* One of the shells moves, or none of my_shell.c and temp.c.
LEMMA ShellStep ==
    ASSUME ShellInv, [MCNext]_mcVars
    PROVE  ShellInv'
<1>1. CASE AnyStep /\ program' = program /\ (program # "my_shell" => (initHit' => initHit))
  BY <1>1, TypesKept, SignalKept, ArrayKept DEF ShellInv
<1>2. CASE UNCHANGED <<program, shellVars>>
  <2>1. UNCHANGED <<program, place, child_process, child, foreground_pid, sigint, c_process,
                    no_of_commands, i, lostFork, hit, initHit>>
    BY <1>2 DEF shellVars, procVars, pipeVars, signalVars, history
  <2> QED
    BY <2>1 DEF ShellInv, ShellOK, SignalOK, ArrayOK, OthersOK, Others, Distinct
<1>3. ShellOK
  BY DEF ShellInv
<1>4. CASE MyStep(My!Next)
  BY <1>1, <1>3, <1>4, MySteps DEF MyStep
<1>5. CASE TempStep(HNext)
  <2>1. AnyStep /\ program' = program /\ (initHit' => initHit)
    BY <1>3, <1>5, TempSteps DEF TempStep
  <2> QED
    BY <1>1, <2>1
<1>6. CASE JobsStep(Jobs!Next) \/ UNCHANGED mcVars
  BY <1>2, <1>6 DEF JobsStep, mcVars, allVars
<1> QED
  BY <1>4, <1>5, <1>6 DEF MCNext

LEMMA ShellStart == MCInit => ShellInv
<1>1. SUFFICES ASSUME MCInit PROVE ShellInv
  OBVIOUS
<1>2. /\ place = "reap" /\ child_process = <<>> /\ foreground_pid = MinusOne /\ sigint = "ignore"
      /\ child = [p \in Pids |-> NoChild]
      /\ no_of_commands = 0 /\ c_process = <<>> /\ i = 1
      /\ lostFork = FALSE /\ hit = FALSE /\ initHit = FALSE
  BY <1>1 DEF MCInit, HInit, Init
<1>3. /\ Len(child_process) = 0 /\ child_process \in Seq(Pids \union {MinusOne})
      /\ c_process \in Seq(Pids)
  BY <1>2
<1>4. \A p \in Pids : child[p].kind = "none"
  BY <1>2 DEF NoChild
<1>5. ShellOK
  <2>1. child \in [Pids -> ChildType]
    BY <1>2 DEF ChildType
  <2>2. lostFork \in BOOLEAN /\ hit \in BOOLEAN /\ initHit \in BOOLEAN
    BY <1>2
  <2>3. /\ place \in {"reap", "line", "assign", "wait", "restore", "fork", "wait_stages",
                      "exited"}
        /\ foreground_pid \in Pids \union {MinusOne} /\ sigint \in {"ignore", "handler"}
        /\ no_of_commands \in Nat
    BY <1>2
  <2>4. i \in Nat \ {0}
    BY <1>2
  <2> QED
    BY <1>3, <2>1, <2>2, <2>3, <2>4 DEF ShellOK, ChildType
<1>6. SignalOK
  BY <1>2, <1>4 DEF SignalOK
<1>7. ArrayOK
  BY <1>3, <1>4 DEF ArrayOK
<1>8. Others = {}
  BY <1>4 DEF Others
<1>9. OthersOK
  BY <1>2, <1>8 DEF OthersOK
<1> QED
  BY <1>5, <1>6, <1>7, <1>9 DEF ShellInv

LEMMA ShellAlways == MCSpec => []ShellInv
  BY ShellStart, ShellStep, PTL DEF MCSpec

\* The array of my_shell.c and of temp.c holds exactly the background children, each
\* once, and the results of failed forks, so that the loop at 315-322 finds the process
\* it reaped and the unconditional child_process_idx -= 1 drops nothing else; for any
\* processes, any Limit and pipelines of any length.
THEOREM ArrayHoldsChildren == MCSpec => []ArrayIsChildren
<1>1. ShellInv => ArrayIsChildren
  <2>1. SUFFICES ASSUME ShellInv, place # "exited" PROVE ArrayIsChildren
    BY DEF ArrayIsChildren
  <2>2. /\ ArrayOK /\ OthersOK /\ child_process \in Seq(Pids \union {MinusOne})
        /\ child \in [Pids -> ChildType]
    BY <2>1 DEF ShellInv, ShellOK, ChildType
  <2>3. {p \in Pids : child[p].kind = "background"} = ToSet(child_process) \ {MinusOne}
    <3>1. ToSet(child_process) = {child_process[n] : n \in 1 .. Len(child_process)}
      BY <2>2 DEF ToSet
    <3>2. \A n \in 1 .. Len(child_process) : child_process[n] \in Pids \union {MinusOne}
      BY <2>2
    <3> QED
      BY <2>2, <3>1, <3>2, MyShellAssumption DEF ArrayOK
  <2>4. \A j, k \in DOMAIN child_process :
           child_process[j] = child_process[k] => j = k \/ child_process[j] = MinusOne
    BY <2>2 DEF ArrayOK
  <2>5. place \in {"reap", "line"} =>
           \A p \in Pids : child[p].kind \in {"none", "background"}
    BY <2>2 DEF OthersOK, Others
  <2> QED
    BY <2>3, <2>4, <2>5 DEF ArrayIsChildren
<1> QED
  BY <1>1, ShellAlways, PTL

\* SIGINT ends the foreground command only, as long as no fork of a foreground command
\* has failed, and the handler of temp.c never signals process 1; for any processes.
THEOREM InterruptHitsForeground == MCSpec => []OnlyForegroundHit
<1>1. ShellInv => OnlyForegroundHit
  <2>1. SUFFICES ASSUME ShellInv PROVE OnlyForegroundHit
    OBVIOUS
  <2>2. (hit => lostFork) /\ (program # "my_shell" => ~initHit)
    BY <2>1 DEF ShellInv, SignalOK
  <2> QED
    BY <2>2 DEF OnlyForegroundHit, OnlyForegroundInterrupted, My!OnlyForegroundInterrupted
<1> QED
  BY <1>1, ShellAlways, PTL

(***************************************************************************)
(* temp.c: the history.                                                    *)
(***************************************************************************)

\* In a buffer of n slots, the slot that was written k lines before the one at x is
Back(n, x, k) == IF k <= x THEN x - k ELSE x - k + n

\* The slot after the one at x, the number of lines that n slots keep of l, and the
\* place of the first of them
After(n, x) == IF x = n - 1 THEN 0 ELSE x + 1
Kept(n, l) == IF l < n THEN l ELSE n
First(n, l) == IF l > n THEN l - n + 1 ELSE 1

\* The circular buffer h holds the last lines of s, the last one just before idx.
Holds(h, s) ==
    /\ h.slot \in [Slots -> Nat] /\ h.idx \in Slots
    /\ h.count = Kept(N, Len(s))
    /\ h.count < N => h.idx = h.count
    /\ \A k \in 1 .. h.count : h.slot[Back(N, h.idx, k)] = s[Len(s) + 1 - k]

HistoryInv ==
    /\ entered \in Seq(Nat) /\ saved \in Seq(Nat) /\ lines \in Nat
    /\ file = LastN(saved)
    /\ program # "temp" \/ place # "exited" => Holds(Buffer, entered)

\* The slots of a circular buffer, counted back from the one at x.
LEMMA NextSlot ==
    ASSUME NEW n \in Nat \ {0}, NEW x \in 0 .. n - 1
    PROVE  /\ After(n, x) \in 0 .. n - 1
           /\ x = n - 1 => x + 1 = n /\ After(n, x) = 0
           /\ x # n - 1 => After(n, x) = x + 1
BY DEF After

LEMMA BackOnce ==
    ASSUME NEW n \in Nat \ {0}, NEW x \in 0 .. n - 1
    PROVE  Back(n, After(n, x), 1) = x
BY DEF Back, After

LEMMA BackMore ==
    ASSUME NEW n \in Nat \ {0}, NEW x \in 0 .. n - 1, NEW k \in 2 .. n
    PROVE  /\ Back(n, After(n, x), k) = Back(n, x, k - 1)
           /\ Back(n, x, k - 1) # x /\ Back(n, x, k - 1) \in 0 .. n - 1
BY DEF Back, After

LEMMA BackFull ==
    ASSUME NEW n \in Nat, NEW x \in 0 .. n - 1, NEW k \in 1 .. n
    PROVE  /\ x + k - 1 < n =>
                /\ Back(n, x, n + 1 - k) = x + k - 1 /\ x + k - 1 \in 0 .. n - 1
           /\ ~(x + k - 1 < n) =>
                /\ Back(n, x, n + 1 - k) = x + k - 1 - n
                /\ x + k - 1 - n \in 0 .. n - 1
                /\ x + k - 1 = (x + k - 1 - n) + n
BY DEF Back

LEMMA BackPart ==
    ASSUME NEW n \in Nat, NEW x \in 0 .. n - 1, NEW k \in 1 .. x
    PROVE  /\ Back(n, x, x + 1 - k) = k - 1 /\ k - 1 \in 0 .. n - 1
           /\ 0 + k - 1 = k - 1
BY DEF Back

\* The remainders that the buffer needs.
LEMMA Wrap ==
    /\ N \in Nat \ {0}
    /\ \A a \in 0 .. N - 1 : a % N = a /\ (a + N) % N = a
    /\ N % N = 0
<1>1. N \in Nat /\ N > 0
  BY HistoryAssumption DEF N
<1> HIDE DEF N
<1>2. ASSUME NEW a \in 0 .. N - 1 PROVE a % N = a /\ (a + N) % N = a
  <2>1. a \in Nat /\ a < N
    BY <1>1
  <2>2. a % N = a
    BY <1>1, <2>1
  <2>3. (a + N) % N = a
    BY <1>1, <2>1
  <2> QED
    BY <2>2, <2>3
<1> QED
  BY <1>1, <1>2

\* add_to_history moves to the slot after the one it writes.
LEMMA WrapNext ==
    ASSUME NEW x \in 0 .. N - 1
    PROVE  (x + 1) % N = After(N, x)
<1>1. /\ After(N, x) \in 0 .. N - 1
      /\ x = N - 1 => x + 1 = N /\ After(N, x) = 0
      /\ x # N - 1 => After(N, x) = x + 1
  BY Wrap, NextSlot
<1>2. CASE x = N - 1
  BY <1>1, <1>2, Wrap
<1>3. CASE x # N - 1
  BY <1>1, <1>3, Wrap
<1> QED
  BY <1>2, <1>3

\* The lines that are kept.
LEMMA KeptLines ==
    ASSUME NEW n \in Nat \ {0}, NEW l \in Nat
    PROVE  Kept(n, l) \in Nat /\ Kept(n, l) <= l /\ Kept(n, l) <= n
BY DEF Kept

LEMMA KeptMore ==
    ASSUME NEW n \in Nat \ {0}, NEW l \in Nat
    PROVE  /\ Kept(n, l) < n => Kept(n, l) = l /\ Kept(n, l + 1) = l + 1
           /\ Kept(n, l) = n => Kept(n, l + 1) = n
BY DEF Kept

LEMMA KeptFirst ==
    ASSUME NEW n \in Nat \ {0}, NEW l \in Nat
    PROVE  /\ First(n, l) = l - Kept(n, l) + 1 /\ First(n, l) \in Nat \ {0}
           /\ l - First(n, l) + 1 = Kept(n, l)
BY DEF Kept, First

\* A line more in the buffer is a line more in what it holds (temp.c:197-210).
LEMMA AddHolds ==
    ASSUME NEW h, NEW s \in Seq(Nat), NEW line \in Nat, Holds(h, s)
    PROVE  Holds(add_to_history(h, line), Append(s, line))
<1> DEFINE L == Len(s)
           g == add_to_history(h, line)
           t == Append(s, line)
<1>1. N \in Nat \ {0} /\ L \in Nat
  BY Wrap
<1>2. Slots = 0 .. N - 1
  BY DEF Slots
<1>3. h.slot \in [Slots -> Nat] /\ h.idx \in 0 .. N - 1
  BY <1>2 DEF Holds
<1>4. h.count = Kept(N, L)
  BY DEF Holds
<1>5. h.count < N => h.idx = h.count
  BY DEF Holds
<1>6. \A k \in 1 .. h.count : h.slot[Back(N, h.idx, k)] = s[L + 1 - k]
  BY DEF Holds
<1>7. /\ Len(t) = L + 1 /\ t[L + 1] = line /\ \A k \in 1 .. L : t[k] = s[k]
  OBVIOUS
<1>8. /\ g.slot = [h.slot EXCEPT ![h.idx] = line]
      /\ g.idx = (h.idx + 1) % N
      /\ g.count = IF h.count < N THEN h.count + 1 ELSE h.count
  BY DEF add_to_history
<1> HIDE DEF g, t, L
<1>9. g.idx = After(N, h.idx)
  BY <1>3, <1>8, WrapNext
<1>10. g.slot \in [Slots -> Nat]
  BY <1>2, <1>3, <1>8
<1>11. g.idx \in Slots
  BY <1>1, <1>2, <1>3, <1>9, NextSlot
<1>12. /\ g.count = Kept(N, Len(t))
       /\ g.count < N => g.idx = g.count
       /\ g.count <= N /\ g.count <= L + 1 /\ g.count <= h.count + 1
  <2>1. /\ h.count \in Nat /\ h.count <= L /\ h.count <= N
        /\ h.count < N => h.count = L /\ Kept(N, L + 1) = L + 1
        /\ h.count = N => Kept(N, L + 1) = N
    <3>1. Kept(N, L) \in Nat /\ Kept(N, L) <= L /\ Kept(N, L) <= N
      BY <1>1, KeptLines
    <3>2. /\ Kept(N, L) < N => Kept(N, L) = L /\ Kept(N, L + 1) = L + 1
          /\ Kept(N, L) = N => Kept(N, L + 1) = N
      BY <1>1, KeptMore
    <3> QED
      BY <1>4, <3>1, <3>2, Zenon
  <2>2. CASE h.count < N
    <3>1. g.count = h.count + 1 /\ g.count = L + 1
      BY <1>1, <1>8, <2>1, <2>2
    <3>2. g.count < N => h.idx # N - 1 /\ h.idx = h.count
      BY <1>1, <1>5, <2>1, <2>2, <3>1
    <3>3. g.count < N => g.idx = g.count
      BY <1>1, <1>3, <1>9, <3>1, <3>2, NextSlot
    <3>4. g.count <= N /\ g.count <= L + 1
      BY <1>1, <2>1, <2>2, <3>1
    <3> QED
      BY <1>1, <1>7, <2>1, <2>2, <3>1, <3>3, <3>4
  <2>3. CASE ~(h.count < N)
    BY <1>1, <1>7, <1>8, <2>1, <2>3
  <2> QED
    BY <2>2, <2>3
<1>13. ASSUME NEW k \in 1 .. g.count
       PROVE  g.slot[Back(N, g.idx, k)] = t[Len(t) + 1 - k]
  <2>0. g.count \in Nat /\ h.count \in Nat
    BY <1>1, <1>4, <1>7, <1>12, KeptLines
  <2>1. k \in 1 .. N /\ k <= L + 1 /\ k <= h.count + 1
    BY <1>1, <1>12, <2>0
  <2>2. CASE k = 1
    <3>1. Back(N, g.idx, 1) = h.idx
      BY <1>1, <1>3, <1>9, BackOnce
    <3>2. Len(t) + 1 - 1 = L + 1
      BY <1>1, <1>7
    <3>3. g.slot[h.idx] = line
      BY <1>2, <1>3, <1>8
    <3> QED
      BY <1>7, <2>2, <3>1, <3>2, <3>3
  <2>3. CASE k # 1
    <3>1. k \in 2 .. N
      BY <1>1, <2>1, <2>3
    <3>2. k - 1 \in 1 .. h.count
      BY <2>0, <2>1, <3>1
    <3>3. /\ Back(N, g.idx, k) = Back(N, h.idx, k - 1)
          /\ Back(N, h.idx, k - 1) # h.idx /\ Back(N, h.idx, k - 1) \in 0 .. N - 1
      <4>1. PICK n \in Nat \ {0} : n = N
        BY <1>1
      <4>2. PICK x \in 0 .. n - 1 : x = h.idx
        BY <1>3, <4>1
      <4>3. k \in 2 .. n
        BY <3>1, <4>1
      <4>4. /\ Back(n, After(n, x), k) = Back(n, x, k - 1)
            /\ Back(n, x, k - 1) # x /\ Back(n, x, k - 1) \in 0 .. n - 1
        BY <4>3, BackMore
      <4> QED
        BY <1>9, <4>1, <4>2, <4>4, Zenon
    <3>4. Len(t) + 1 - k = L + 1 - (k - 1) /\ L + 1 - (k - 1) \in 1 .. L
      BY <1>1, <1>7, <2>1, <3>1
    <3>5. h.slot[Back(N, h.idx, k - 1)] = s[L + 1 - (k - 1)]
      BY <1>6, <3>2
    <3>6. g.slot[Back(N, h.idx, k - 1)] = h.slot[Back(N, h.idx, k - 1)]
      BY <1>2, <1>3, <1>8, <3>3
    <3>7. t[L + 1 - (k - 1)] = s[L + 1 - (k - 1)]
      BY <1>7, <3>4
    <3> QED
      BY <3>3, <3>4, <3>5, <3>6, <3>7
  <2> QED
    BY <2>2, <2>3
<1> QED
  BY <1>10, <1>11, <1>12, <1>13 DEF Holds, g, t

\* The last lines of s, as many as the buffer has slots.
LEMMA Lasts ==
    ASSUME NEW s \in Seq(Nat), NEW c, c = Kept(N, Len(s))
    PROVE  /\ LastN(s) = [k \in 1 .. c |-> s[Len(s) - c + k]]
           /\ LastN(s) \in Seq(Nat) /\ Len(LastN(s)) = c
<1> DEFINE L == Len(s)
           from == First(N, L)
<1>1. N \in Nat \ {0} /\ L \in Nat
  BY Wrap
<1>2. LastN(s) = SubSeq(s, from, L)
  BY DEF LastN, First
<1>3. \A k \in 1 .. L : s[k] \in Nat
  OBVIOUS
<1> HIDE DEF L
<1>4. /\ from = L - c + 1 /\ from \in Nat \ {0} /\ L - from + 1 = c
      /\ c \in Nat /\ c <= L
  <2>1. c = Kept(N, L)
    BY DEF L
  <2>2. Kept(N, L) \in Nat /\ Kept(N, L) <= L
    BY <1>1, KeptLines
  <2>3. /\ First(N, L) = L - Kept(N, L) + 1 /\ First(N, L) \in Nat \ {0}
        /\ L - First(N, L) + 1 = Kept(N, L)
    BY <1>1, KeptFirst
  <2> QED
    BY <2>1, <2>2, <2>3, Zenon
<1> HIDE DEF from
<1>5. SubSeq(s, from, L) = [k \in 1 .. L - from + 1 |-> s[from + k - 1]]
  <2>1. from \in Nat \ {0} /\ L \in Nat
    BY <1>1, <1>4
  <2>2. PICK a \in Nat \ {0} : a = from
    BY <2>1
  <2>3. PICK b \in Nat : b = L
    BY <2>1
  <2>4. SubSeq(s, a, b) = [k \in 1 .. b - a + 1 |-> s[a + k - 1]]
    OBVIOUS
  <2> QED
    BY <2>2, <2>3, <2>4
<1>6. ASSUME NEW k \in 1 .. c
      PROVE  from + k - 1 = L - c + k /\ L - c + k \in 1 .. L
  <2>1. c \in Nat /\ c <= L /\ L \in Nat
    BY <1>1, <1>4
  <2>2. k \in Nat /\ 1 <= k /\ k <= c
    BY <2>1
  <2>3. L - c + 1 + k - 1 = L - c + k
    BY <2>1, <2>2
  <2>4. L - c + k \in 1 .. L
    BY <2>1, <2>2
  <2> QED
    BY <1>4, <2>3, <2>4, Zenon
<1>7. LastN(s) = [k \in 1 .. c |-> s[L - c + k]]
  BY <1>2, <1>4, <1>5, <1>6
<1>8. \A k \in 1 .. c : s[L - c + k] \in Nat
  BY <1>3, <1>6
<1>9. LastN(s) \in [1 .. c -> Nat]
  BY <1>7, <1>8
<1>10. c \in Nat
  BY <1>4
<1>11. LastN(s) \in Seq(Nat) /\ Len(LastN(s)) = c
  <2> DEFINE q == LastN(s)
  <2>1. q \in [1 .. c -> Nat]
    BY <1>9
  <2> HIDE DEF q
  <2>2. q \in Seq(Nat) /\ Len(q) = c
    BY <1>10, <2>1
  <2> QED
    BY <2>2 DEF q
<1> QED
  BY <1>7, <1>11 DEF L

\* What is printed, and saved, is what is held (temp.c:212-238, 257-275).
LEMMA PrintsLast ==
    ASSUME NEW h, NEW s \in Seq(Nat), Holds(h, s)
    PROVE  print_history(h) = LastN(s)
<1> DEFINE L == Len(s)
           c == h.count
           start == IF h.count = N THEN h.idx ELSE 0
<1>1. N \in Nat \ {0} /\ L \in Nat
  BY Wrap
<1>2. h.idx \in 0 .. N - 1
  BY DEF Holds, Slots
<1>3. c = Kept(N, L) /\ c \in Nat /\ c <= L /\ c <= N
  <2>1. c = Kept(N, L)
    BY DEF Holds
  <2>2. Kept(N, L) \in Nat /\ Kept(N, L) <= L /\ Kept(N, L) <= N
    BY <1>1, KeptLines
  <2> QED
    BY <2>1, <2>2, Zenon
<1>4. c < N => h.idx = c
  BY DEF Holds
<1>5. \A k \in 1 .. c : h.slot[Back(N, h.idx, k)] = s[L + 1 - k]
  BY DEF Holds
<1>6. print_history(h) = [k \in 1 .. c |-> h.slot[(start + k - 1) % N]]
  BY DEF print_history
<1>7. LastN(s) = [k \in 1 .. c |-> s[L - c + k]]
  BY <1>3, Lasts
<1> HIDE DEF c, L
<1>8. ASSUME NEW k \in 1 .. c
      PROVE  h.slot[(start + k - 1) % N] = s[L - c + k]
  <2>1. k \in 1 .. N /\ c + 1 - k \in 1 .. c /\ L + 1 - (c + 1 - k) = L - c + k
    BY <1>1, <1>3
  <2>2. (start + k - 1) % N = Back(N, h.idx, c + 1 - k)
    <3>1. CASE c = N
      <4>1. start = h.idx
        BY <3>1 DEF c
      <4>2. CASE h.idx + k - 1 < N
        <5>1. /\ Back(N, h.idx, N + 1 - k) = h.idx + k - 1
              /\ h.idx + k - 1 \in 0 .. N - 1
          <6>1. N \in Nat /\ k \in 1 .. N
            BY <1>1, <2>1
          <6> QED
            BY <1>2, <4>2, <6>1, BackFull, Zenon
        <5> HIDE DEF start
        <5> QED
          BY <3>1, <4>1, <5>1, Wrap
      <4>3. CASE ~(h.idx + k - 1 < N)
        <5>1. /\ Back(N, h.idx, N + 1 - k) = h.idx + k - 1 - N
              /\ h.idx + k - 1 - N \in 0 .. N - 1
              /\ h.idx + k - 1 = (h.idx + k - 1 - N) + N
          BY <1>1, <1>2, <2>1, <4>3, BackFull
        <5> HIDE DEF start
        <5> QED
          BY <3>1, <4>1, <5>1, Wrap
      <4> QED
        BY <4>2, <4>3
    <3>2. CASE c # N
      <4>1. start = 0 /\ h.idx = c /\ k \in 1 .. h.idx
        BY <1>1, <1>3, <1>4, <3>2 DEF c
      <4> HIDE DEF start
      <4>2. Back(N, h.idx, h.idx + 1 - k) = k - 1 /\ k - 1 \in 0 .. N - 1
            /\ 0 + k - 1 = k - 1
        BY <1>1, <1>2, <4>1, BackPart
      <4> QED
        BY <4>1, <4>2, Wrap
    <3> QED
      BY <3>1, <3>2
  <2>3. h.slot[Back(N, h.idx, c + 1 - k)] = s[L + 1 - (c + 1 - k)]
    BY <1>5, <2>1
  <2> QED
    BY <2>1, <2>2, <2>3
<1> HIDE DEF start
<1> QED
  BY <1>6, <1>7, <1>8

\* What load_history does line by line: g holds the buffer after each line of f.
ReadTurn(f, g) ==
    [k \in 0 .. Len(f) |-> IF k = 0 THEN Empty ELSE add_to_history(g[k - 1], f[k])]

\* load_history satisfies its own equation as soon as some function does.
LEMMA LoadEquation ==
    ASSUME NEW f, NEW e, e = ReadTurn(f, e)
    PROVE  \E g : g = ReadTurn(f, g) /\ load_history(f) = g[Len(f)]
<1> DEFINE G == CHOOSE g : g = ReadTurn(f, g)
<1>1. G = ReadTurn(f, G)
  BY Zenon
<1>2. load_history(f) = G[Len(f)]
  BY Zenon DEF load_history, ReadTurn
<1> QED
  BY <1>1, <1>2

\* The buffer after the first k lines of f, when it has a slot for each
ReadLines(f, k) == [slot |-> [j \in Slots |-> IF j < k THEN f[j + 1] ELSE 0],
                    idx |-> IF k = N THEN 0 ELSE k, count |-> k]

LEMMA ReadMore ==
    ASSUME NEW f \in Seq(Nat), Len(f) <= N, NEW k \in 1 .. Len(f)
    PROVE  ReadLines(f, k) = add_to_history(ReadLines(f, k - 1), f[k])
<1>1. /\ N \in Nat \ {0} /\ k \in Nat /\ k <= N /\ k - 1 \in 0 .. N - 1 /\ k - 1 # N
      /\ k - 1 < N /\ k - 1 + 1 = k /\ (k = N <=> k - 1 = N - 1)
  <2>1. Len(f) \in Nat /\ N \in Nat \ {0}
    BY Wrap
  <2> QED
    BY <2>1
<1> DEFINE r == ReadLines(f, k - 1)
<1>2. r.idx = k - 1 /\ r.count = k - 1 /\ r.slot = [j \in Slots |-> IF j < k - 1 THEN f[j + 1] ELSE 0]
  BY <1>1 DEF ReadLines
<1> HIDE DEF r
<1>3. add_to_history(r, f[k]) =
        [slot |-> [r.slot EXCEPT ![r.idx] = f[k]], idx |-> (r.idx + 1) % N,
         count |-> IF r.count < N THEN r.count + 1 ELSE r.count]
  BY DEF add_to_history
<1>4. (IF r.count < N THEN r.count + 1 ELSE r.count) = k
  BY <1>1, <1>2
<1>5. (r.idx + 1) % N = IF k = N THEN 0 ELSE k
  <2>1. (k - 1 + 1) % N = After(N, k - 1)
    BY <1>1, WrapNext
  <2> QED
    BY <1>1, <1>2, <2>1 DEF After
<1>6. [r.slot EXCEPT ![r.idx] = f[k]] = [j \in Slots |-> IF j < k THEN f[j + 1] ELSE 0]
  <2>1. [r.slot EXCEPT ![r.idx] = f[k]] =
          [j \in Slots |-> IF j = k - 1 THEN f[k] ELSE IF j < k - 1 THEN f[j + 1] ELSE 0]
    BY <1>2
  <2>2. ASSUME NEW j \in Slots
        PROVE  (IF j = k - 1 THEN f[k] ELSE IF j < k - 1 THEN f[j + 1] ELSE 0) =
               (IF j < k THEN f[j + 1] ELSE 0)
    <3>1. j \in Nat
      BY <1>1 DEF Slots
    <3>2. CASE j = k - 1
      BY <1>1, <3>1, <3>2
    <3>3. CASE j # k - 1
      <4>1. j < k <=> j < k - 1
        BY <1>1, <3>1, <3>3
      <4> QED
        BY <3>3, <4>1
    <3> QED
      BY <3>2, <3>3
  <2> QED
    BY <2>1, <2>2
<1>7. ReadLines(f, k) = [slot |-> [j \in Slots |-> IF j < k THEN f[j + 1] ELSE 0],
                    idx |-> IF k = N THEN 0 ELSE k, count |-> k]
  BY DEF ReadLines
<1> QED
  BY <1>3, <1>4, <1>5, <1>6, <1>7 DEF r

LEMMA ReadNone ==
    ASSUME NEW f
    PROVE  ReadLines(f, 0) = Empty
<1>1. 0 # N /\ \A j \in Slots : ~(j < 0)
  BY Wrap DEF Slots
<1> QED
  BY <1>1 DEF ReadLines, Empty

\* A file of at most N lines is held after it is loaded (temp.c:277-297).
LEMMA LoadHolds ==
    ASSUME NEW f \in Seq(Nat), Len(f) <= N
    PROVE  Holds(load_history(f), f)
<1> DEFINE L == Len(f)
           E == [k \in 0 .. L |-> ReadLines(f, k)]
<1>1. L \in Nat /\ N \in Nat \ {0} /\ 0 \in 0 .. L /\ L \in 0 .. L
  BY Wrap
<1>2. E = ReadTurn(f, E)
  <2>1. ASSUME NEW k \in 0 .. L
        PROVE  ReadLines(f, k) = IF k = 0 THEN Empty ELSE add_to_history(E[k - 1], f[k])
    <3>1. CASE k = 0
      BY <3>1, ReadNone
    <3>2. CASE k # 0
      <4>1. k \in 1 .. L /\ k - 1 \in 0 .. L
        BY <1>1, <3>2
      <4>2. E[k - 1] = ReadLines(f, k - 1)
        BY <4>1
      <4> QED
        BY <3>2, <4>1, <4>2, ReadMore
    <3> QED
      BY <3>1, <3>2
  <2>2. ReadTurn(f, E) =
          [k \in 0 .. L |-> IF k = 0 THEN Empty ELSE add_to_history(E[k - 1], f[k])]
    BY DEF ReadTurn
  <2> QED
    BY <2>1, <2>2
<1> HIDE DEF E
<1>3. PICK g : g = ReadTurn(f, g) /\ load_history(f) = g[L]
  BY <1>2, LoadEquation
<1>4. \A k \in 0 .. L : g[k] = IF k = 0 THEN Empty ELSE add_to_history(g[k - 1], f[k])
  BY <1>3 DEF ReadTurn
<1>5. \A k \in 0 .. L : g[k] = ReadLines(f, k)
  <2> DEFINE Wrong == {k \in 0 .. L : g[k] # ReadLines(f, k)}
  <2>1. SUFFICES ASSUME Wrong # {} PROVE FALSE
    OBVIOUS
  <2>2. Wrong \in SUBSET Nat
    BY <1>1
  <2>3. PICK m \in Wrong : \A k \in Wrong : m <= k
    <3> HIDE DEF Wrong
    <3> QED
      BY <2>1, <2>2, Least
  <2>4. m # 0
    BY <1>1, <1>4, ReadNone
  <2>5. m \in 1 .. L /\ m - 1 \in 0 .. L /\ ~(m <= m - 1)
    BY <1>1, <2>4
  <2>6. g[m - 1] = ReadLines(f, m - 1)
    BY <2>3, <2>5
  <2> QED
    BY <1>4, <2>4, <2>5, <2>6, ReadMore
<1>6. load_history(f) = ReadLines(f, L)
  BY <1>1, <1>3, <1>5
<1> DEFINE h == ReadLines(f, L)
<1>7. h.slot = [j \in Slots |-> IF j < L THEN f[j + 1] ELSE 0]
      /\ h.idx = (IF L = N THEN 0 ELSE L) /\ h.count = L
  BY DEF ReadLines
<1>8. \A k \in 1 .. L : f[k] \in Nat
  OBVIOUS
<1> HIDE DEF h, L
<1>9. L <= N
  BY DEF L
<1>10. h.slot \in [Slots -> Nat]
  <2>1. ASSUME NEW j \in Slots PROVE (IF j < L THEN f[j + 1] ELSE 0) \in Nat
    <3>1. j \in Nat
      BY <1>1 DEF Slots
    <3>2. j < L => j + 1 \in 1 .. L
      BY <1>1, <3>1
    <3> QED
      BY <1>8, <3>2
  <2> QED
    BY <1>7, <2>1
<1>11. h.idx \in Slots /\ (h.count < N => h.idx = h.count)
  BY <1>1, <1>7, <1>9 DEF Slots
<1>12. h.count = Kept(N, Len(f))
  BY <1>1, <1>7, <1>9 DEF Kept, L
<1>13. ASSUME NEW k \in 1 .. L
       PROVE  h.slot[Back(N, h.idx, k)] = f[L + 1 - k]
  <2>1. Back(N, h.idx, k) = L - k
    <3>1. CASE L = N
      BY <1>1, <1>7, <3>1 DEF Back
    <3>2. CASE L # N
      BY <1>1, <1>7, <3>2 DEF Back
    <3> QED
      BY <3>1, <3>2
  <2>2. L - k \in Slots /\ L - k < L /\ L - k + 1 = L + 1 - k
    BY <1>1, <1>9 DEF Slots
  <2> QED
    BY <1>7, <2>1, <2>2
<1> QED
  BY <1>6, <1>7, <1>10, <1>11, <1>12, <1>13 DEF Holds, h, L

\* What is held of the last lines is held of all.
LEMMA HoldsAll ==
    ASSUME NEW h, NEW s \in Seq(Nat), Holds(h, LastN(s))
    PROVE  Holds(h, s)
<1> DEFINE L == Len(s)
           c == Kept(N, L)
           l == LastN(s)
<1>1. L \in Nat /\ N \in Nat \ {0}
  BY Wrap
<1>2. c \in Nat /\ c <= L /\ c <= N
  BY <1>1, KeptLines
<1>3. l = [k \in 1 .. c |-> s[L - c + k]] /\ Len(l) = c
  BY Lasts
<1>4. h.slot \in [Slots -> Nat] /\ h.idx \in Slots /\ (h.count < N => h.idx = h.count)
  BY DEF Holds
<1>5. h.count = Kept(N, Len(l)) /\ \A k \in 1 .. h.count :
                                      h.slot[Back(N, h.idx, k)] = l[Len(l) + 1 - k]
  BY DEF Holds
<1> HIDE DEF l, c, L
<1>6. h.count = c
  <2>1. Kept(N, c) = c
    BY <1>1, <1>2 DEF Kept
  <2> QED
    BY <1>3, <1>5, <2>1
<1>7. ASSUME NEW k \in 1 .. h.count
      PROVE  h.slot[Back(N, h.idx, k)] = s[L + 1 - k]
  <2>1. c + 1 - k \in 1 .. c /\ L - c + (c + 1 - k) = L + 1 - k
    BY <1>1, <1>2, <1>6
  <2>2. l[c + 1 - k] = s[L + 1 - k]
    BY <1>3, <2>1
  <2> QED
    BY <1>3, <1>5, <2>2
<1> QED
  BY <1>4, <1>6, <1>7 DEF Holds, c, L

\* The history stays what it is when the shell does not begin or end a session.
LEMMA HistoryStays ==
    ASSUME HistoryInv, Keeps, program' = program, place = "exited" => place' = "exited"
    PROVE  HistoryInv'
<1>1. /\ buffer' = buffer /\ history_idx' = history_idx /\ history_count' = history_count
      /\ entered' = entered /\ saved' = saved /\ lines' = lines /\ file' = file
  BY DEF Keeps, historyVars, recordVars
<1>2. Buffer' = Buffer
  BY <1>1 DEF Buffer
<1>3. LastN(saved)' = LastN(saved)
  BY <1>1 DEF LastN
<1>4. Holds(Buffer, entered)' <=> Holds(Buffer, entered)
  BY <1>1, <1>2 DEF Holds
<1> QED
  BY <1>1, <1>3, <1>4 DEF HistoryInv

\* After SetBuffer(h), the buffer is h.
LEMMA BufferSet ==
    ASSUME NEW h, SetBuffer(h), NEW s, Holds(h, s), entered' = s
    PROVE  Holds(Buffer, entered)'
<1>1. Buffer'.slot = h.slot /\ Buffer'.idx = h.idx /\ Buffer'.count = h.count
  BY DEF SetBuffer, Buffer
<1> QED
  BY <1>1 DEF Holds

\* When a session has ended the file holds its last lines, or what it held before.
LEMMA Saves ==
    ASSUME HistoryInv, save_history, program = "temp", place # "exited",
           entered' = entered, lines' = lines, program' = program, place' = "exited"
    PROVE  HistoryInv'
<1>1. Holds(Buffer, entered) /\ entered \in Seq(Nat)
  BY DEF HistoryInv
<1>2. CASE file' = print_history(Buffer) /\ saved' = entered
  <2>1. file' = LastN(entered) /\ saved' = entered
    BY <1>1, <1>2, PrintsLast
  <2>2. LastN(saved)' = LastN(entered)
    BY <2>1 DEF LastN
  <2> QED
    BY <1>1, <2>1, <2>2 DEF HistoryInv
<1>3. CASE UNCHANGED <<file, saved>>
  <2>1. LastN(saved)' = LastN(saved)
    BY <1>3 DEF LastN
  <2> QED
    BY <1>3, <2>1 DEF HistoryInv
<1> QED
  BY <1>2, <1>3 DEF save_history

\* An empty buffer holds no lines.
LEMMA EmptyHolds == Holds(Empty, <<>>)
<1>1. N \in Nat \ {0} /\ 0 <= N /\ Len(<<>>) = 0
  BY Wrap
<1>2. Empty.slot \in [Slots -> Nat] /\ Empty.idx = 0 /\ Empty.count = 0
  BY DEF Empty
<1>3. 0 \in Slots /\ Kept(N, Len(<<>>)) = 0 /\ 1 .. 0 = {}
  BY <1>1 DEF Slots, Kept
<1> QED
  BY <1>2, <1>3 DEF Holds

LEMMA HistoryStep == HistoryInv /\ [MCNext]_mcVars => HistoryInv'
<1> SUFFICES ASSUME HistoryInv, [MCNext]_mcVars PROVE HistoryInv'
  OBVIOUS
<1>1. CASE UNCHANGED mcVars
  BY <1>1, HistoryStays DEF mcVars, allVars, shellVars, Keeps
<1>2. CASE MyStep(My!Next)
  <2>1. Keeps /\ program' = program /\ program # "temp"
    BY <1>2 DEF MyStep, extraVars, Keeps
  <2>2. /\ buffer' = buffer /\ history_idx' = history_idx /\ history_count' = history_count
        /\ entered' = entered /\ saved' = saved /\ lines' = lines /\ file' = file
    BY <2>1 DEF Keeps, historyVars, recordVars
  <2>3. Buffer' = Buffer /\ LastN(saved)' = LastN(saved)
    BY <2>2 DEF Buffer, LastN
  <2>4. Holds(Buffer, entered)' <=> Holds(Buffer, entered)
    BY <2>2, <2>3 DEF Holds
  <2> QED
    BY <2>1, <2>2, <2>3, <2>4 DEF HistoryInv
<1>3. CASE JobsStep(Jobs!Next)
  BY <1>3, HistoryStays DEF JobsStep, allVars, shellVars, Keeps
<1>4. CASE TempStep(HNext)
  <2>1. HNext /\ program = "temp" /\ program' = program
    BY <1>4 DEF TempStep
  <2>2. CASE HReadLine
    <3>1. /\ place # "exited" /\ place' # "exited" /\ lines' = lines + 1
          /\ saved' = saved /\ file' = file
      BY <2>2 DEF HReadLine, ReadLine
    <3>2. Holds(Buffer, entered) /\ entered \in Seq(Nat) /\ lines' \in Nat
      BY <2>1, <3>1 DEF HistoryInv
    <3>3. CASE SetBuffer(add_to_history(Buffer, lines')) /\ entered' = Append(entered, lines')
      <4>1. Holds(add_to_history(Buffer, lines'), Append(entered, lines'))
        BY <3>2, AddHolds
      <4>2. Holds(Buffer, entered)'
        BY <3>3, <4>1, BufferSet
      <4>3. entered' \in Seq(Nat) /\ LastN(saved)' = LastN(saved)
        BY <3>1, <3>2, <3>3 DEF LastN
      <4> QED
        BY <3>1, <3>2, <4>2, <4>3 DEF HistoryInv
    <3>4. CASE UNCHANGED <<historyVars, entered>>
      <4>1. Buffer' = Buffer /\ entered' = entered /\ LastN(saved)' = LastN(saved)
        BY <3>1, <3>4 DEF historyVars, Buffer, LastN
      <4>2. Holds(Buffer, entered)'
        BY <3>2, <4>1 DEF Holds
      <4> QED
        BY <3>1, <3>2, <4>1, <4>2 DEF HistoryInv
    <3> QED
      BY <2>2, <3>3, <3>4 DEF HReadLine
  <2>3. CASE HExit
    <3>1. /\ save_history /\ place # "exited" /\ place' = "exited"
          /\ entered' = entered /\ lines' = lines
      BY <2>3 DEF HExit, Exit
    <3> QED
      BY <2>1, <3>1, Saves
  <2>4. CASE EndOfFile
    <3>1. /\ save_history /\ place # "exited" /\ place' = "exited"
          /\ entered' = entered /\ lines' = lines
      BY <2>4 DEF EndOfFile
    <3> QED
      BY <2>1, <3>1, Saves
  <2>5. CASE Start
    <3>1. /\ \/ SetBuffer(load_history(file)) /\ entered' = saved
             \/ SetBuffer(Empty) /\ entered' = <<>>
          /\ file' = file /\ saved' = saved /\ lines' = lines
      BY <2>5 DEF Start
    <3>2. saved \in Seq(Nat) /\ file = LastN(saved) /\ lines \in Nat
      BY DEF HistoryInv
    <3>3. file \in Seq(Nat) /\ Len(file) = Kept(N, Len(saved))
      BY <3>2, Lasts
    <3>4. Len(file) <= N
      <4>1. Len(saved) \in Nat
        BY <3>2
      <4> QED
        BY <3>3, <4>1, KeptLines, Wrap
    <3>5. Holds(load_history(file), saved)
      BY <3>2, <3>3, <3>4, LoadHolds, HoldsAll
    <3>6. Holds(Buffer, entered)' /\ entered' \in Seq(Nat)
      <4>1. CASE SetBuffer(load_history(file)) /\ entered' = saved
        BY <3>2, <3>5, <4>1, BufferSet
      <4>2. CASE SetBuffer(Empty) /\ entered' = <<>>
        BY <4>2, EmptyHolds, BufferSet
      <4> QED
        BY <3>1, <4>1, <4>2
    <3>7. LastN(saved)' = LastN(saved)
      BY <3>1 DEF LastN
    <3> QED
      BY <3>1, <3>2, <3>6, <3>7 DEF HistoryInv
  <2>6. CASE \/ HReap \/ HBackground \/ HForeground \/ HBuiltin \/ HMain \/ HPipeline
             \/ HInterrupt \/ (\E p \in Pids : HTerminate(p))
    <3>1. Keeps
      BY <2>6 DEF HReap, HBackground, HForeground, HBuiltin, HMain, HPipeline, HInterrupt,
                  HTerminate
    <3>2. place # "exited"
      BY <2>6 DEF HReap, HBackground, HForeground, HBuiltin, HMain, HPipeline, HInterrupt,
                  HTerminate, Reap, Background, Foreground, Assign, WaitForeground, Restore,
                  Builtin, Pipeline, ForkStage, StagesForked, WaitStage, StagesEnded,
                  DoubleFree, Interrupt, Terminate
    <3> QED
      BY <2>1, <3>1, <3>2, HistoryStays
  <2> QED
    BY <2>1, <2>2, <2>3, <2>4, <2>5, <2>6 DEF HNext, HShell
<1> QED
  BY <1>1, <1>2, <1>3, <1>4 DEF MCNext

LEMMA HistoryStart == MCInit => HistoryInv
<1> SUFFICES ASSUME MCInit PROVE HistoryInv
  OBVIOUS
<1>1. /\ buffer = Empty.slot /\ history_idx = 0 /\ history_count = 0
      /\ file = <<>> /\ lines = 0 /\ entered = <<>> /\ saved = <<>>
  BY DEF MCInit, HInit
<1>2. <<>> \in Seq(Nat) /\ Len(<<>>) = 0
  OBVIOUS
<1>3. N \in Nat \ {0} /\ 0 <= N
  BY Wrap
<1>4. LastN(<<>>) = <<>>
  <2>1. Kept(N, 0) = 0
    BY <1>3 DEF Kept
  <2>2. LastN(<<>>) \in Seq(Nat) /\ Len(LastN(<<>>)) = 0
    BY <1>2, <2>1, Lasts
  <2> QED
    BY <2>2
<1>5. Holds(Empty, <<>>)
  BY EmptyHolds
<1>6. Buffer.slot = Empty.slot /\ Buffer.idx = Empty.idx /\ Buffer.count = Empty.count
  BY <1>1 DEF Buffer, Empty
<1>7. Holds(Buffer, entered)
  BY <1>1, <1>5, <1>6 DEF Holds
<1> QED
  BY <1>1, <1>2, <1>4, <1>7 DEF HistoryInv

LEMMA HistoryAlways == MCSpec => []HistoryInv
  BY HistoryStart, HistoryStep, PTL DEF MCSpec

\* "history" of temp.c lists the last MAX_HISTORY_SIZE lines, oldest first, of this
\* session and, unless the file could not be read, of those before it that were saved,
\* for any size of the buffer, any number of lines and of sessions (temp.c 197-297).
THEOREM HistoryLists == MCSpec => []HistoryIsLastLines
<1>1. HistoryInv => HistoryIsLastLines
  <2>1. SUFFICES ASSUME HistoryInv, place # "exited"
                 PROVE  print_history(Buffer) = LastN(entered)
    BY DEF HistoryIsLastLines
  <2>2. Holds(Buffer, entered) /\ entered \in Seq(Nat)
    BY <2>1 DEF HistoryInv
  <2> QED
    BY <2>2, PrintsLast
<1> QED
  BY <1>1, HistoryAlways, PTL
-----------------------------------------------------------------------------
(***************************************************************************)
(* The server that serves one connection at a time, and its clients, over  *)
(* streams that are cut anywhere and with clients that may be killed.      *)
(***************************************************************************)

HandlerProofs == INSTANCE KVHandler_proofs WITH Threads <- {Server},
                     conn <- [t \in {Server} |-> client_fd],
                     available <- 1, at <- [t \in {Server} |-> "outside"],
                     Values <- {Bytes}, Uninit <- Bytes, Damaged <- Bytes

Waiting(c) == \E m \in DOMAIN backlog : backlog[m] = c

\* Nobody waits twice, or is served while it waits.
Line ==
    /\ client_fd \in Conns \union {NoClient}
    /\ backlog \in Seq(Conns)
    /\ \A m, n \in DOMAIN backlog : backlog[m] = backlog[n] => m = n
    /\ ~Waiting(client_fd)

\* A client is in conversation with the server, or has sent one request at most, or
\* has nothing but the answer to its disconnect.
Situation(c) ==
    /\ client_fd = c => HandlerProofs!Conversation(Server, c)
    /\ Waiting(c) => HandlerProofs!Unserved(c) /\ client[c] # "start"
    /\ client_fd # c /\ ~Waiting(c) =>
           \/ HandlerProofs!Unserved(c) /\ client[c] = "start"
           \/ HandlerProofs!Left(c) /\ client[c] # "start"

\* The inductive invariant: who is where in the line to the server, and of each client
\* how far it, its streams and the server have come with a command.
SessionInv ==
    /\ HandlerProofs!TalkOK /\ Line
    /\ client_fd = NoClient => pc[Server] = "recv"
    /\ \A c \in Conns : Situation(c)
    /\ DiesOfLostClient
-----------------------------------------------------------------------------
\* Both speak of the same list.
LEMMA SessionListIs ==
    \A k, m, v : /\ Handler!Found(k) = HandlerProofs!Found(k)
                 /\ Handler!CreateNode(k) <=> HandlerProofs!CreateNode(k)
                 /\ Handler!DeleteNode(m) <=> HandlerProofs!DeleteNode(m)
                 /\ Handler!ReplaceBuffer(m) <=> HandlerProofs!ReplaceBuffer(m)
                 /\ Handler!StoreValue(m, v) <=> HandlerProofs!StoreValue(m, v)
<1>1. \A k : Handler!Found(k) = HandlerProofs!Found(k) /\ Handler!NodeOf(k) = HandlerProofs!NodeOf(k)
  BY DEF Handler!Found, HandlerProofs!Found, Handler!NodeOf, HandlerProofs!NodeOf
<1>2. \A l : Handler!Damage(l) = HandlerProofs!Damage(l)
  BY DEF Handler!Damage, HandlerProofs!Damage
<1>3. \A k : Handler!CreateNode(k) <=> HandlerProofs!CreateNode(k)
  BY <1>1, <1>2 DEF Handler!CreateNode, HandlerProofs!CreateNode
<1>4. \A m : Handler!DeleteNode(m) <=> HandlerProofs!DeleteNode(m)
  BY DEF Handler!DeleteNode, HandlerProofs!DeleteNode, Handler!RemoveAt, HandlerProofs!RemoveAt
<1>5. \A m : Handler!ReplaceBuffer(m) <=> HandlerProofs!ReplaceBuffer(m)
  BY DEF Handler!ReplaceBuffer, HandlerProofs!ReplaceBuffer, Handler!listVars, HandlerProofs!listVars
<1>6. \A m, v : Handler!StoreValue(m, v) <=> HandlerProofs!StoreValue(m, v)
  BY DEF Handler!StoreValue, HandlerProofs!StoreValue, Handler!listVars, HandlerProofs!listVars
<1> QED
  BY <1>1, <1>3, <1>4, <1>5, <1>6

\* Of the same commands,
LEMMA SessionNamesAre ==
    /\ Handler!ListCommands = HandlerProofs!ListCommands
    /\ Handler!Commands = HandlerProofs!Commands
    /\ Handler!NoCommand = HandlerProofs!NoCommand
    /\ Handler!ValueBytes = HandlerProofs!ValueBytes /\ Handler!Rest = HandlerProofs!Rest
    /\ \A x : Handler!Ask(x) = HandlerProofs!Ask(x)
    /\ \A c : /\ Handler!Astray(c) <=> HandlerProofs!Astray(c)
              /\ Handler!Ended(c) <=> HandlerProofs!Ended(c)
              /\ Handler!AtEnd(c) <=> HandlerProofs!AtEnd(c)
  BY DEF Handler!ListCommands, HandlerProofs!ListCommands, Handler!Commands,
     HandlerProofs!Commands, Handler!NoCommand, HandlerProofs!NoCommand, Handler!ValueBytes,
     HandlerProofs!ValueBytes, Handler!Rest, HandlerProofs!Rest, Handler!Ask, HandlerProofs!Ask,
     Handler!Astray, HandlerProofs!Astray, Handler!Ended, HandlerProofs!Ended, Handler!AtEnd,
     HandlerProofs!AtEnd

\* of the same streams,
LEMMA SessionStreamsAre ==
    \A c, x : /\ Handler!Sends(c, x) <=> HandlerProofs!Sends(c, x)
              /\ Handler!TakeCommand(c, x) <=> HandlerProofs!TakeCommand(c, x)
              /\ Handler!TakeInvalid(c) <=> HandlerProofs!TakeInvalid(c)
              /\ Handler!TakeValue(c) <=> HandlerProofs!TakeValue(c)
<1>1. \A c, x : Handler!Sends(c, x) <=> HandlerProofs!Sends(c, x)
  BY SessionNamesAre DEF Handler!Sends, HandlerProofs!Sends
<1>2. \A c, x : Handler!TakeCommand(c, x) <=> HandlerProofs!TakeCommand(c, x)
  BY SessionNamesAre DEF Handler!TakeCommand, HandlerProofs!TakeCommand
<1>3. \A c : Handler!TakeInvalid(c) <=> HandlerProofs!TakeInvalid(c)
  BY SessionNamesAre DEF Handler!TakeInvalid, HandlerProofs!TakeInvalid
<1>4. \A c : Handler!GoAstray({c}) <=> HandlerProofs!GoAstray({c})
  BY SessionNamesAre, Zenon DEF Handler!GoAstray, HandlerProofs!GoAstray
<1>5. \A c : Handler!TakeValue(c) <=> HandlerProofs!TakeValue(c)
  BY SessionNamesAre, <1>4 DEF Handler!TakeValue, HandlerProofs!TakeValue
<1> QED
  BY <1>1, <1>2, <1>3, <1>5

\* and of the same places.
LEMMA SessionPlacesAre ==
    \A t, x, y : /\ Handler!Goto(t, x, y) <=> HandlerProofs!Goto(t, x, y)
                 /\ Handler!Send(t, x) <=> HandlerProofs!Send(t, x)
                 /\ Handler!Is(t, x) <=> HandlerProofs!Is(t, x)
                 /\ Handler!Key(t) = HandlerProofs!Key(t)
                 /\ Handler!Missed(t) <=> HandlerProofs!Missed(t)
                 /\ Handler!Leave(t) <=> HandlerProofs!Leave(t)
                 /\ Handler!Arrives(t, x) <=> HandlerProofs!Arrives(t, x)
<1>1. \A t, x : Handler!Send(t, x) <=> HandlerProofs!Send(t, x)
  BY SessionStreamsAre DEF Handler!Send, HandlerProofs!Send
<1>2. \A t : Handler!Missed(t) <=> HandlerProofs!Missed(t)
  BY <1>1 DEF Handler!Missed, HandlerProofs!Missed
<1>3. \A t : Handler!Leave(t) <=> HandlerProofs!Leave(t)
  BY SessionNamesAre DEF Handler!Leave, HandlerProofs!Leave, Handler!listVars, HandlerProofs!listVars,
     Handler!heard, HandlerProofs!heard
<1>4. \A t, x : Handler!Arrives(t, x) <=> HandlerProofs!Arrives(t, x)
  BY SessionStreamsAre DEF Handler!Arrives, HandlerProofs!Arrives, Handler!listVars,
     HandlerProofs!listVars, Handler!lockVars, HandlerProofs!lockVars
<1>5. \A t, x, y : /\ Handler!Goto(t, x, y) <=> HandlerProofs!Goto(t, x, y)
                   /\ Handler!Is(t, x) <=> HandlerProofs!Is(t, x)
                   /\ Handler!Key(t) = HandlerProofs!Key(t)
  BY DEF Handler!Goto, HandlerProofs!Goto, Handler!Is, HandlerProofs!Is, Handler!Key,
     HandlerProofs!Key
<1> QED
  BY <1>1, <1>2, <1>3, <1>4, <1>5

\* The farewell is that of KVHandler_proofs.
LEMMA SessionFarewellIs ==
    ASSUME NEW t \in {Server}, Handler!Disconnected(t)
    PROVE  HandlerProofs!Disconnected(t)
  BY SessionPlacesAre, SessionNamesAre DEF Handler!Disconnected, HandlerProofs!Disconnected

\* A command is a command of KVHandler_proofs.
LEMMA SessionCommandIs ==
    ASSUME NEW t \in {Server},
           \/ Handler!Create(t) \/ Handler!Read(t) \/ Handler!Delete(t)
           \/ Handler!Update(t) \/ Handler!ReceiveValue(t) \/ Handler!Invalid(t)
    PROVE  HandlerProofs!Command(t)
<1>1. ASSUME Handler!Create(t) PROVE HandlerProofs!Create(t)
  BY <1>1, SessionListIs, SessionPlacesAre, SMTT(30) DEF Handler!Create, HandlerProofs!Create,
     Handler!listVars, HandlerProofs!listVars, Handler!lockVars, HandlerProofs!lockVars,
     Handler!heard, HandlerProofs!heard
<1>2. ASSUME Handler!Read(t) PROVE HandlerProofs!Read(t)
  BY <1>2, SessionListIs, SessionPlacesAre, SMTT(30) DEF Handler!Read, HandlerProofs!Read,
     Handler!listVars, HandlerProofs!listVars, Handler!lockVars, HandlerProofs!lockVars,
     Handler!heard, HandlerProofs!heard
<1>3. ASSUME Handler!Delete(t) PROVE HandlerProofs!Delete(t)
  BY <1>3, SessionListIs, SessionPlacesAre, SMTT(30) DEF Handler!Delete, HandlerProofs!Delete,
     Handler!listVars, HandlerProofs!listVars, Handler!lockVars, HandlerProofs!lockVars,
     Handler!heard, HandlerProofs!heard
<1>4. ASSUME Handler!Update(t) PROVE HandlerProofs!Update(t)
  BY <1>4, SessionListIs, SessionPlacesAre, SMTT(30) DEF Handler!Update, HandlerProofs!Update,
     Handler!listVars, HandlerProofs!listVars, Handler!lockVars, HandlerProofs!lockVars,
     Handler!heard, HandlerProofs!heard
<1>5. ASSUME Handler!ReceiveValue(t) PROVE HandlerProofs!ReceiveValue(t)
  BY <1>5, SessionListIs, SessionPlacesAre, SessionStreamsAre, SMTT(30) DEF Handler!ReceiveValue,
     HandlerProofs!ReceiveValue, Handler!listVars, HandlerProofs!listVars, Handler!lockVars,
     HandlerProofs!lockVars
<1>6. ASSUME Handler!Invalid(t) PROVE HandlerProofs!Invalid(t)
  BY <1>6, SessionPlacesAre, SessionStreamsAre DEF Handler!Invalid, HandlerProofs!Invalid, Handler!listVars,
     HandlerProofs!listVars, Handler!lockVars, HandlerProofs!lockVars, Handler!handlerVars,
     HandlerProofs!handlerVars
<1> QED
  BY <1>1, <1>2, <1>3, <1>4, <1>5, <1>6 DEF HandlerProofs!Command

\* What a client does is what KVHandler_proofs says of it.
LEMMA SessionClientNamesAre ==
    /\ Client!ListCommands = HandlerProofs!Client!ListCommands
    /\ Client!NoCommand = HandlerProofs!Client!NoCommand
    /\ Client!ValueBytes = HandlerProofs!Client!ValueBytes
    /\ \A x : Client!Ask(x) = HandlerProofs!Client!Ask(x)
    /\ \A c, x : /\ Client!SendPayload(c, x) <=> HandlerProofs!Client!SendPayload(c, x)
                 /\ Client!Takes(c, x) <=> HandlerProofs!Client!Takes(c, x)
                 /\ Client!WantsValue(c, x) <=> HandlerProofs!Client!WantsValue(c, x)
                 /\ Client!Done(c) <=> HandlerProofs!Client!Done(c)
<1>1. /\ Client!ListCommands = HandlerProofs!Client!ListCommands
      /\ Client!NoCommand = HandlerProofs!Client!NoCommand
      /\ Client!ValueBytes = HandlerProofs!Client!ValueBytes
      /\ \A x : Client!Ask(x) = HandlerProofs!Client!Ask(x)
  BY DEF Client!ListCommands, HandlerProofs!Client!ListCommands, Client!NoCommand,
     HandlerProofs!Client!NoCommand, Client!ValueBytes, HandlerProofs!Client!ValueBytes,
     Client!Ask, HandlerProofs!Client!Ask
<1>2. \A c, x : /\ Client!SendPayload(c, x) <=> HandlerProofs!Client!SendPayload(c, x)
                /\ Client!Takes(c, x) <=> HandlerProofs!Client!Takes(c, x)
                /\ Client!WantsValue(c, x) <=> HandlerProofs!Client!WantsValue(c, x)
  BY DEF Client!SendPayload, HandlerProofs!Client!SendPayload, Client!Takes,
     HandlerProofs!Client!Takes, Client!WantsValue, HandlerProofs!Client!WantsValue
<1>3. \A c : Client!Done(c) <=> HandlerProofs!Client!Done(c)
  BY <1>1 DEF Client!Done, HandlerProofs!Client!Done
<1> QED
  BY <1>1, <1>2, <1>3

LEMMA SessionClientIs ==
    ASSUME NEW c \in Conns
    PROVE  /\ Client!ConnectSilently(c) => HandlerProofs!Client!ConnectSilently(c)
           /\ Client!TypeCommand(c) => HandlerProofs!Client!TypeCommand(c)
           /\ Client!GoesOn(c) => HandlerProofs!Client!GoesOn(c)
           /\ Client!Kill(c) => HandlerProofs!Client!Kill(c)
<1>1. Client!ConnectSilently(c) => HandlerProofs!Client!ConnectSilently(c)
  BY DEF Client!ConnectSilently, HandlerProofs!Client!ConnectSilently
<1>2. Client!TypeCommand(c) => HandlerProofs!Client!TypeCommand(c)
  BY SessionClientNamesAre DEF Client!TypeCommand, HandlerProofs!Client!TypeCommand
<1>3. Client!TypeDisconnect(c) => HandlerProofs!Client!TypeDisconnect(c)
  BY SessionClientNamesAre DEF Client!TypeDisconnect, HandlerProofs!Client!TypeDisconnect
<1>4. Client!TakeValueWanted(c) => HandlerProofs!Client!TakeValueWanted(c)
  BY SessionClientNamesAre DEF Client!TakeValueWanted, HandlerProofs!Client!TakeValueWanted
<1>5. Client!TakeOK(c) => HandlerProofs!Client!TakeOK(c)
  BY SessionClientNamesAre DEF Client!TakeOK, HandlerProofs!Client!TakeOK
<1>6. Client!TakePayload(c) => HandlerProofs!Client!TakePayload(c)
  BY SessionClientNamesAre DEF Client!TakePayload, HandlerProofs!Client!TakePayload
<1>7. Client!TakeValueRead(c) => HandlerProofs!Client!TakeValueRead(c)
  BY SessionClientNamesAre DEF Client!TakeValueRead, HandlerProofs!Client!TakeValueRead
<1>8. Client!TakeReply(c) => HandlerProofs!Client!TakeReply(c)
  BY SessionClientNamesAre DEF Client!TakeReply, HandlerProofs!Client!TakeReply
<1>9. Client!Kill(c) => HandlerProofs!Client!Kill(c)
  BY SessionClientNamesAre DEF Client!Kill, HandlerProofs!Client!Kill
<1> QED
  BY <1>1, <1>2, <1>3, <1>4, <1>5, <1>6, <1>7, <1>8, <1>9 DEF Client!GoesOn,
     HandlerProofs!Client!GoesOn, Client!Receive, HandlerProofs!Client!Receive

\* The properties speak of the same.
LEMMA SessionPropertiesAre ==
    \A c, x : /\ Client!InStepAt(c, x) <=> HandlerProofs!InStepAt(c, x)
              /\ Client!Lost(c) <=> HandlerProofs!Lost(c)
  BY DEF Client!InStepAt, HandlerProofs!InStepAt, Client!Waits, HandlerProofs!Waits,
     Client!Answers, HandlerProofs!Answers, Client!Lost, HandlerProofs!Lost

-----------------------------------------------------------------------------
\* At the start nobody waits, and no client has connected.
LEMMA SessionStart == InitSession => SessionInv
<1> SUFFICES ASSUME InitSession PROVE SessionInv
  OBVIOUS
<1>1. /\ backlog = <<>> /\ client_fd = NoClient /\ alive
      /\ pc = [t \in {Server} |-> "recv"]
      /\ payload = [t \in {Server} |-> HandlerProofs!NoCommand]
      /\ client = [c \in Conns |-> "start"]
      /\ request = [c \in Conns |-> HandlerProofs!NoCommand]
      /\ up = [c \in Conns |-> <<>>] /\ down = [c \in Conns |-> <<>>]
      /\ fate = [c \in Conns |-> "none"]
  BY SessionNamesAre, SessionClientNamesAre, HandlerProofs!SameNames DEF InitSession,
     Handler!InitHandler, Client!InitClients
<1>2. /\ pc \in [{Server} -> HandlerProofs!HandlerPlace]
      /\ payload \in [{Server} -> HandlerProofs!Commands \union {HandlerProofs!NoCommand}]
  BY <1>1 DEF HandlerProofs!HandlerPlace
<1>3. HandlerProofs!StreamOK
  BY <1>1, HandlerProofs!ShortSequences DEF HandlerProofs!StreamOK, HandlerProofs!ClientPlace,
     HandlerProofs!Fates
<1>4. HandlerProofs!TalkOK
  BY <1>2, <1>3 DEF HandlerProofs!TalkOK
<1>5. Line /\ \A c \in Conns : ~Waiting(c)
  <2>1. <<>> \in Seq(Conns) /\ DOMAIN <<>> = {}
    OBVIOUS
  <2> QED
    BY <1>1, <2>1 DEF Line, Waiting
<1>6. \A c \in Conns : HandlerProofs!Unserved(c) /\ client[c] = "start"
  BY <1>1 DEF HandlerProofs!Unserved, HandlerProofs!NotServed
<1> QED
  BY <1>1, <1>4, <1>5, <1>6, SessionAssumption DEF SessionInv, Situation, DiesOfLostClient

\* What a step does to the server's client leaves the others as they were.
LEMMA OthersInLine ==
    ASSUME SessionInv, NEW c \in Conns, client_fd = c,
           HandlerProofs!Frame(Server, c), UNCHANGED backlog,
           client_fd' = c \/ client_fd' = NoClient
    PROVE  /\ HandlerProofs!TalkOK' /\ Line'
           /\ \A d \in Conns \ {c} : Situation(d)'
           /\ ~Waiting(c)'
<1>1. /\ HandlerProofs!TalkOK'
      /\ \A d \in Conns \ {c} : HandlerProofs!Same(d)
  BY DEF HandlerProofs!Frame
<1>2. \A x : Waiting(x)' <=> Waiting(x)
  BY DEF Waiting
<1>3. Line' /\ ~Waiting(c)'
  <2>1. ~Waiting(c) /\ ~Waiting(NoClient)
    BY SessionAssumption, ElementOfSeq DEF SessionInv, Line, Waiting
  <2> QED
    BY <1>2, <2>1 DEF SessionInv, Line
<1>4. ASSUME NEW d \in Conns \ {c} PROVE Situation(d)'
  <2>1. client_fd # d /\ client_fd' # d
    BY <1>4, SessionAssumption
  <2>2. Situation(d) /\ HandlerProofs!Same(d)
    BY <1>1, <1>4 DEF SessionInv
  <2>3. /\ HandlerProofs!Unserved(d)' <=> HandlerProofs!Unserved(d)
        /\ HandlerProofs!Left(d)' <=> HandlerProofs!Left(d)
        /\ client'[d] = client[d]
    BY <2>2 DEF HandlerProofs!Same, HandlerProofs!Unserved, HandlerProofs!Left
  <2> QED
    BY <1>2, <2>1, <2>2, <2>3 DEF Situation
<1> QED
  BY <1>1, <1>3, <1>4

\* A step of the conversation of the server keeps the invariant.
LEMMA ServedKeeps ==
    ASSUME SessionInv, alive, NEW c \in Conns, client_fd = c, UNCHANGED sessionVars,
           HandlerProofs!Frame(Server, c), HandlerProofs!Conversation(Server, c)'
    PROVE  SessionInv'
<1>1. client_fd' = c /\ backlog' = backlog
  BY DEF sessionVars
<1>2. /\ HandlerProofs!TalkOK' /\ Line'
      /\ \A d \in Conns \ {c} : Situation(d)'
      /\ ~Waiting(c)'
  BY <1>1, OthersInLine
<1>3. Situation(c)'
  BY <1>1, <1>2 DEF Situation
<1>4. alive' = alive \/ Client!Lost(c)'
  BY DEF HandlerProofs!Frame, HandlerProofs!Lost, Client!Lost
<1>5. DiesOfLostClient'
  BY <1>1, <1>4 DEF DiesOfLostClient
<1>6. client_fd' # NoClient
  BY <1>1, SessionAssumption
<1> QED
  BY <1>2, <1>3, <1>5, <1>6 DEF SessionInv

\* Whom the server serves
LEMMA ServedBy ==
    ASSUME NEW c \in Conns, client_fd = c
    PROVE  [t \in {Server} |-> client_fd][Server] = c
  OBVIOUS

\* The next in line is served, from a clean slate.
LEMMA SessionAcceptKeeps == SessionInv /\ alive /\ Accept => SessionInv'
<1> SUFFICES ASSUME SessionInv, alive, Accept PROVE SessionInv'
  OBVIOUS
<1>1. /\ client_fd = NoClient /\ backlog # <<>> /\ client_fd' = Head(backlog)
      /\ backlog' = Tail(backlog) /\ backlog \in Seq(Conns)
      /\ UNCHANGED <<pc, payload, client, request, up, down, fate, alive>>
      /\ pc[Server] = "recv"
  BY DEF Accept, handlerVars, streamVars, SessionInv, Line
<1>2. PICK c \in Conns : c = Head(backlog)
  BY <1>1
<1>3. /\ Tail(backlog) \in Seq(Conns) /\ Len(backlog) \in Nat /\ Len(backlog) >= 1
      /\ backlog[1] = c
      /\ DOMAIN backlog = 1 .. Len(backlog)
      /\ DOMAIN Tail(backlog) = 1 .. Len(backlog) - 1
      /\ \A m \in 1 .. Len(backlog) - 1 : Tail(backlog)[m] = backlog[m + 1]
  BY <1>1, <1>2
<1>4. \A m \in DOMAIN backlog : backlog[m] = c => m = 1
  BY <1>3 DEF SessionInv, Line
<1>5. ASSUME NEW x PROVE Waiting(x)' <=> Waiting(x) /\ x # c
  <2>1. Waiting(x)' <=> \E m \in 1 .. Len(backlog) - 1 : backlog[m + 1] = x
    BY <1>1, <1>3 DEF Waiting
  <2>2. ASSUME NEW m \in 1 .. Len(backlog) - 1, backlog[m + 1] = x PROVE Waiting(x) /\ x # c
    <3>1. m + 1 \in 1 .. Len(backlog) /\ m + 1 # 1
      BY <1>3
    <3> QED
      BY <1>3, <1>4, <2>2, <3>1 DEF Waiting
  <2>3. ASSUME NEW m \in DOMAIN backlog, backlog[m] = x, x # c
        PROVE  \E n \in 1 .. Len(backlog) - 1 : backlog[n + 1] = x
    <3>1. m # 1 /\ m \in 1 .. Len(backlog)
      BY <1>3, <2>3
    <3>2. m - 1 \in 1 .. Len(backlog) - 1 /\ (m - 1) + 1 = m
      BY <1>3, <3>1
    <3> QED
      BY <2>3, <3>2
  <2> QED
    BY <2>1, <2>2, <2>3 DEF Waiting
<1>6. Line'
  <2>1. ASSUME NEW m \in 1 .. Len(backlog) - 1, NEW n \in 1 .. Len(backlog) - 1,
               backlog[m + 1] = backlog[n + 1]
        PROVE  m = n
    <3>1. m + 1 \in DOMAIN backlog /\ n + 1 \in DOMAIN backlog
      BY <1>3
    <3>2. m + 1 = n + 1
      BY <2>1, <3>1 DEF SessionInv, Line
    <3> QED
      BY <1>3, <3>2
  <2>2. \A m, n \in DOMAIN Tail(backlog) : Tail(backlog)[m] = Tail(backlog)[n] => m = n
    BY <1>3, <2>1
  <2> QED
    BY <1>1, <1>2, <1>3, <1>5, <2>2 DEF Line
<1>7. HandlerProofs!TalkOK'
  BY <1>1 DEF SessionInv, HandlerProofs!TalkOK, HandlerProofs!StreamOK
<1>8. ASSUME NEW d \in Conns PROVE Situation(d)'
  <2>1. /\ HandlerProofs!Unserved(d)' <=> HandlerProofs!Unserved(d)
        /\ HandlerProofs!Left(d)' <=> HandlerProofs!Left(d)
        /\ client'[d] = client[d] /\ Situation(d)
        /\ HandlerProofs!Conversation(Server, d)' <=> HandlerProofs!Conversation(Server, d)
    BY <1>1 DEF HandlerProofs!Unserved, HandlerProofs!Left, HandlerProofs!Conversation, SessionInv
  <2>2. CASE d = c
    <3>1. Waiting(c)
      BY <1>3 DEF Waiting
    <3>2. HandlerProofs!Conversation(Server, c)
      BY <1>1, <2>1, <2>2, <3>1, HandlerProofs!FirstRequest DEF Situation
    <3> QED
      BY <1>1, <1>2, <1>5, <2>1, <2>2, <3>2 DEF Situation
  <2>3. CASE d # c
    <3>1. client_fd # d
      BY <1>1, SessionAssumption
    <3> QED
      BY <1>1, <1>2, <1>5, <2>1, <2>3, <3>1 DEF Situation
  <2> QED
    BY <2>2, <2>3
<1>9. client_fd' # NoClient /\ DiesOfLostClient'
  BY <1>1, <1>2, SessionAssumption DEF DiesOfLostClient
<1> QED
  BY <1>6, <1>7, <1>8, <1>9 DEF SessionInv

\* A server without a client does nothing else.
LEMMA SessionServed ==
    ASSUME SessionInv, ReceiveCommand \/ Command \/ EndCommand \/ Disconnect
    PROVE  client_fd \in Conns
<1>1. CASE ReceiveCommand \/ Disconnect
  BY <1>1 DEF ReceiveCommand, Disconnect, Handler!Disconnected, Handler!Arrives
<1>2. CASE Command \/ EndCommand
  BY <1>2 DEF Command, EndCommand, Handler!Create, Handler!Read, Handler!Delete,
     Handler!Update, Handler!ReceiveValue, Handler!Invalid, Handler!Leave, Handler!Goto,
     SessionInv, Line
<1> QED
  BY <1>1, <1>2

\* It takes the command of its client.
LEMMA SessionReceiveKeeps == SessionInv /\ alive /\ ReceiveCommand => SessionInv'
<1> SUFFICES ASSUME SessionInv, alive, ReceiveCommand PROVE SessionInv'
  OBVIOUS
<1>1. PICK c \in Conns : client_fd = c
  BY SessionServed
<1>2. PICK p \in HandlerProofs!ListCommands :
         /\ HandlerProofs!Arrives(Server, p) /\ payload' = [payload EXCEPT ![Server] = p]
         /\ HandlerProofs!Goto(Server, "recv", "search")
         /\ UNCHANGED <<down, alive>> /\ UNCHANGED sessionVars
  BY SessionPlacesAre, SessionNamesAre DEF ReceiveCommand
<1>3. /\ [t \in {Server} |-> client_fd][Server] = c /\ Server \in {Server}
      /\ HandlerProofs!TalkOK /\ HandlerProofs!Conversation(Server, c)
  BY <1>1 DEF SessionInv, Situation
<1>4. HandlerProofs!Frame(Server, c) /\ HandlerProofs!Conversation(Server, c)'
  BY <1>2, <1>3, HandlerProofs!CommandTaken
<1> QED
  BY <1>1, <1>2, <1>4, ServedKeeps

\* It works on it.
LEMMA SessionCommandKeeps == SessionInv /\ alive /\ Command => SessionInv'
<1> SUFFICES ASSUME SessionInv, alive, Command PROVE SessionInv'
  OBVIOUS
<1>1. PICK c \in Conns : client_fd = c
  BY SessionServed
<1>2. HandlerProofs!Command(Server) /\ UNCHANGED sessionVars
  BY SessionCommandIs DEF Command
<1>3. /\ [t \in {Server} |-> client_fd][Server] = c /\ Server \in {Server}
      /\ HandlerProofs!TalkOK /\ HandlerProofs!Conversation(Server, c)
  BY <1>1 DEF SessionInv, Situation
<1>4. HandlerProofs!Frame(Server, c) /\ HandlerProofs!Conversation(Server, c)'
  BY <1>2, <1>3, HandlerProofs!CommandKeeps
<1> QED
  BY <1>1, <1>2, <1>4, ServedKeeps

\* It ends it.
LEMMA SessionEndKeeps == SessionInv /\ alive /\ EndCommand => SessionInv'
<1> SUFFICES ASSUME SessionInv, alive, EndCommand PROVE SessionInv'
  OBVIOUS
<1>1. PICK c \in Conns : client_fd = c
  BY SessionServed
<1>2. HandlerProofs!Leave(Server) /\ HandlerProofs!Missed(Server) /\ UNCHANGED sessionVars
  BY SessionPlacesAre DEF EndCommand
<1>3. /\ [t \in {Server} |-> client_fd][Server] = c /\ Server \in {Server}
      /\ HandlerProofs!TalkOK /\ HandlerProofs!Conversation(Server, c)
  BY <1>1 DEF SessionInv, Situation
<1>4. HandlerProofs!Frame(Server, c) /\ HandlerProofs!Conversation(Server, c)'
  BY <1>2, <1>3, HandlerProofs!LeaveKeeps
<1> QED
  BY <1>1, <1>2, <1>4, ServedKeeps

\* It is done with its client, unless SIGPIPE ends it.
LEMMA SessionDisconnectKeeps == SessionInv /\ alive /\ Disconnect => SessionInv'
<1> SUFFICES ASSUME SessionInv, alive, Disconnect PROVE SessionInv'
  OBVIOUS
<1>1. PICK c \in Conns : client_fd = c
  BY SessionServed
<1>2. /\ HandlerProofs!Disconnected(Server) /\ backlog' = backlog
      /\ client_fd' = IF alive' THEN NoClient ELSE c
  BY <1>1, SessionFarewellIs DEF Disconnect
<1>3. /\ [t \in {Server} |-> client_fd][Server] = c /\ Server \in {Server}
      /\ HandlerProofs!TalkOK /\ HandlerProofs!Conversation(Server, c)
  BY <1>1 DEF SessionInv, Situation
<1>4. /\ HandlerProofs!Frame(Server, c) /\ HandlerProofs!Left(c)' /\ pc' = pc
      /\ alive' = alive \/ HandlerProofs!Over(client[c], down[c])'
  BY <1>2, <1>3, HandlerProofs!DisconnectedLeaves
<1>5. /\ HandlerProofs!TalkOK' /\ Line'
      /\ \A d \in Conns \ {c} : Situation(d)'
      /\ ~Waiting(c)'
  BY <1>1, <1>2, <1>4, OthersInLine
<1>6. client' = client /\ pc[Server] = "recv"
  BY <1>2 DEF HandlerProofs!Disconnected, HandlerProofs!Arrives, HandlerProofs!TakeCommand
<1>7. client[c] # "start"
  <2>1. /\ HandlerProofs!Talk(pc[Server], payload[Server], client[c], request[c], up[c],
                             down[c], fate[c])
        /\ pc[Server] \in HandlerProofs!HandlerPlace
    BY <1>3 DEF HandlerProofs!Conversation, HandlerProofs!TalkOK
  <2> QED
    BY <2>1, HandlerProofs!TalkConnected
<1>8. CASE alive'
  <2>1. client_fd' = NoClient /\ client_fd' # c
    BY <1>2, <1>8, SessionAssumption
  <2>2. Situation(c)'
    BY <1>4, <1>5, <1>6, <1>7, <2>1 DEF Situation
  <2> QED
    BY <1>4, <1>5, <1>6, <1>8, <2>1, <2>2 DEF SessionInv, DiesOfLostClient
<1>9. CASE ~alive'
  <2>1. client_fd' = c /\ c # NoClient
    BY <1>2, <1>9, SessionAssumption
  <2>2. HandlerProofs!Over(client'[c], down'[c])
    BY <1>4, <1>9
  <2>3. HandlerProofs!Conversation(Server, c)' /\ Client!Lost(c)'
    BY <2>2 DEF HandlerProofs!Over, HandlerProofs!Conversation, HandlerProofs!Talk, Client!Lost
  <2>4. Situation(c)' /\ DiesOfLostClient'
    BY <1>5, <2>1, <2>3 DEF Situation, DiesOfLostClient
  <2> QED
    BY <1>5, <2>1, <2>4 DEF SessionInv
<1> QED
  BY <1>8, <1>9

\* A client that has connected keeps its situation.
LEMMA SessionTalkKeeps ==
    ASSUME SessionInv, alive, NEW c \in Conns, UNCHANGED <<sessionVars, handlerVars, alive>>,
           Client!TypeCommand(c) \/ Client!GoesOn(c) \/ Client!Kill(c)
    PROVE  SessionInv'
<1>1. UNCHANGED <<backlog, client_fd, pc, payload, alive>>
  BY DEF sessionVars, handlerVars
<1>2. HandlerProofs!ClientKeeps(c)
  BY SessionClientIs, HandlerProofs!ClientStepKeeps DEF SessionInv, HandlerProofs!TalkOK
<1>3. /\ HandlerProofs!StreamOK' /\ \A d \in Conns \ {c} : HandlerProofs!Same(d)
      /\ client[c] # "start" /\ client'[c] # "start"
      /\ \A pl \in HandlerProofs!HandlerPlace : \A cmd :
             HandlerProofs!Talk(pl, cmd, client[c], request[c], up[c], down[c], fate[c]) =>
                 HandlerProofs!Talk(pl, cmd, client'[c], request'[c], up'[c], down'[c], fate'[c])
      /\ HandlerProofs!Unserved(c) => HandlerProofs!Unserved(c)'
      /\ HandlerProofs!Left(c) => HandlerProofs!Left(c)'
  BY <1>2 DEF HandlerProofs!ClientKeeps
<1>4. HandlerProofs!TalkOK' /\ Line' /\ \A x : Waiting(x)' <=> Waiting(x)
  BY <1>1, <1>3 DEF SessionInv, HandlerProofs!TalkOK, Line, Waiting
<1>5. HandlerProofs!Conversation(Server, c) => HandlerProofs!Conversation(Server, c)'
  <2>1. pc[Server] \in HandlerProofs!HandlerPlace
    BY DEF SessionInv, HandlerProofs!TalkOK
  <2> QED
    BY <1>1, <1>3, <2>1 DEF HandlerProofs!Conversation
<1>6. Situation(c)'
  BY <1>1, <1>3, <1>4, <1>5 DEF SessionInv, Situation
<1>7. ASSUME NEW d \in Conns \ {c} PROVE Situation(d)'
  <2>1. HandlerProofs!Same(d) /\ Situation(d)
    BY <1>3 DEF SessionInv
  <2>2. /\ HandlerProofs!Unserved(d)' <=> HandlerProofs!Unserved(d)
        /\ HandlerProofs!Left(d)' <=> HandlerProofs!Left(d)
        /\ client'[d] = client[d]
        /\ HandlerProofs!Conversation(Server, d)' <=> HandlerProofs!Conversation(Server, d)
    BY <1>1, <2>1 DEF HandlerProofs!Same, HandlerProofs!Unserved, HandlerProofs!Left,
       HandlerProofs!Conversation
  <2> QED
    BY <1>1, <1>4, <2>1, <2>2 DEF Situation
<1> QED
  BY <1>1, <1>4, <1>6, <1>7 DEF SessionInv, DiesOfLostClient

\* One that connects comes to the end of the line.
LEMMA SessionConnectKeeps ==
    ASSUME SessionInv, alive, NEW c \in Conns, Connect(c),
           UNCHANGED <<client_fd, handlerVars, alive>>
    PROVE  SessionInv'
<1>1. /\ UNCHANGED <<client_fd, pc, payload, alive>> /\ backlog' = Append(backlog, c)
      /\ HandlerProofs!Client!ConnectSilently(c) /\ backlog \in Seq(Conns)
  BY SessionClientIs DEF handlerVars, Connect, SessionInv, Line
<1>2. /\ HandlerProofs!StreamOK' /\ \A d \in Conns \ {c} : HandlerProofs!Same(d)
      /\ client[c] = "start" /\ client'[c] # "start"
      /\ HandlerProofs!Unserved(c) => HandlerProofs!Unserved(c)'
  BY <1>1, HandlerProofs!ConnectKeeps DEF SessionInv, HandlerProofs!TalkOK
<1>3. HandlerProofs!TalkOK'
  BY <1>1, <1>2 DEF SessionInv, HandlerProofs!TalkOK
<1>4. client_fd # c
  <2>1. ASSUME HandlerProofs!Conversation(Server, c) PROVE FALSE
    <3>1. /\ HandlerProofs!Talk(pc[Server], payload[Server], client[c], request[c], up[c],
                               down[c], fate[c])
          /\ pc[Server] \in HandlerProofs!HandlerPlace
      BY <2>1 DEF HandlerProofs!Conversation, SessionInv, HandlerProofs!TalkOK
    <3> QED
      BY <1>2, <3>1, HandlerProofs!TalkConnected
  <2> QED
    BY <2>1 DEF SessionInv, Situation
<1>5. ~Waiting(c) /\ HandlerProofs!Unserved(c)
  BY <1>2, <1>4 DEF SessionInv, Situation
<1>6. /\ Len(backlog) \in Nat /\ DOMAIN backlog = 1 .. Len(backlog)
      /\ backlog' \in Seq(Conns) /\ DOMAIN backlog' = 1 .. Len(backlog) + 1
      /\ backlog'[Len(backlog) + 1] = c
      /\ \A m \in 1 .. Len(backlog) : backlog'[m] = backlog[m]
  BY <1>1
<1>7. \A x : Waiting(x)' <=> Waiting(x) \/ x = c
  <2>1. \A m : m \in 1 .. Len(backlog) + 1 <=> m \in 1 .. Len(backlog) \/ m = Len(backlog) + 1
    BY <1>6
  <2> QED
    BY <1>6, <2>1 DEF Waiting
<1>8. Line'
  <2>1. ASSUME NEW m \in DOMAIN backlog', NEW n \in DOMAIN backlog', backlog'[m] = backlog'[n]
        PROVE  m = n
    <3>1. /\ m \in DOMAIN backlog \/ m = Len(backlog) + 1
          /\ n \in DOMAIN backlog \/ n = Len(backlog) + 1
      BY <1>6
    <3>2. \A k \in DOMAIN backlog : backlog'[k] = backlog[k] /\ backlog[k] # c
      BY <1>5, <1>6 DEF Waiting
    <3> QED
      BY <1>6, <2>1, <3>1, <3>2 DEF SessionInv, Line
  <2> QED
    BY <1>1, <1>4, <1>6, <1>7, <2>1 DEF SessionInv, Line
<1>9. Situation(c)'
  BY <1>1, <1>2, <1>4, <1>5, <1>7 DEF Situation
<1>10. ASSUME NEW d \in Conns \ {c} PROVE Situation(d)'
  <2>1. HandlerProofs!Same(d) /\ Situation(d) /\ d # c
    BY <1>2 DEF SessionInv
  <2>2. /\ HandlerProofs!Unserved(d)' <=> HandlerProofs!Unserved(d)
        /\ HandlerProofs!Left(d)' <=> HandlerProofs!Left(d)
        /\ client'[d] = client[d]
        /\ HandlerProofs!Conversation(Server, d)' <=> HandlerProofs!Conversation(Server, d)
    BY <1>1, <2>1 DEF HandlerProofs!Same, HandlerProofs!Unserved, HandlerProofs!Left,
       HandlerProofs!Conversation
  <2> QED
    BY <1>1, <1>7, <2>1, <2>2 DEF Situation
<1> QED
  BY <1>1, <1>3, <1>8, <1>9, <1>10 DEF SessionInv, DiesOfLostClient

\* Nothing changes.
LEMMA SessionStutters == SessionInv /\ UNCHANGED vars => SessionInv'
<1> SUFFICES ASSUME SessionInv, UNCHANGED vars PROVE SessionInv'
  OBVIOUS
<1>1. UNCHANGED <<backlog, client_fd, pc, payload, client, request, up, down, fate, alive>>
  BY DEF vars, sessionVars, handlerVars, streamVars
<1>2. HandlerProofs!TalkOK' /\ Line'
  BY <1>1 DEF SessionInv, HandlerProofs!TalkOK, HandlerProofs!StreamOK, Line, Waiting
<1>3. \A c \in Conns : Situation(c)'
  BY <1>1 DEF SessionInv, Situation, Waiting, HandlerProofs!Unserved, HandlerProofs!Left,
     HandlerProofs!Conversation
<1>4. DiesOfLostClient'
  BY <1>1 DEF SessionInv, DiesOfLostClient, Client!Lost
<1> QED
  BY <1>1, <1>2, <1>3, <1>4 DEF SessionInv

\* Every step keeps the invariant.
LEMMA SessionStep == SessionInv /\ [NextSession]_vars => SessionInv'
<1> SUFFICES ASSUME SessionInv, [NextSession]_vars PROVE SessionInv'
  OBVIOUS
<1>1. CASE Serve
  BY <1>1, SessionAcceptKeeps, SessionReceiveKeeps, SessionCommandKeeps, SessionEndKeeps,
     SessionDisconnectKeeps DEF Serve
<1>2. CASE LoopInUpdate \/ UNCHANGED vars
  BY <1>2, SessionStutters DEF LoopInUpdate
<1>3. ASSUME NEW c \in Conns, ClientStep(c) PROVE SessionInv'
  <2>1. CASE Connect(c)
    BY <1>3, <2>1, SessionConnectKeeps DEF ClientStep
  <2>2. CASE Client!GoesOn(c) /\ UNCHANGED backlog
    BY <1>3, <2>2, SessionTalkKeeps DEF ClientStep, sessionVars
  <2> QED
    BY <1>3, <2>1, <2>2 DEF ClientStep
<1>4. ASSUME NEW c \in Conns, UserMay(c) PROVE SessionInv'
  BY <1>4, SessionTalkKeeps DEF UserMay
<1> QED
  BY <1>1, <1>2, <1>3, <1>4 DEF NextSession

\* The invariant holds throughout.
THEOREM SessionHolds == SessionSpec => []SessionInv
<1> QED
  BY SessionStart, SessionStep, PTL DEF SessionSpec

\* However the streams are cut and whoever is killed, the server and the client that it
\* serves are in step, and another client has nothing under way to it but the answer to
\* its disconnect (kv-server/server.c 62-244, client.c 24-215).
THEOREM RepliesInStep == SessionSpec => []RepliesMatch
<1>1. ASSUME SessionInv PROVE RepliesMatch
  <2>1. ASSUME NEW c \in Conns, client_fd = c PROVE Client!InStepAt(c, pc[Server])
    <3>1. HandlerProofs!TalkOK /\ HandlerProofs!Conversation(Server, c)
      BY <1>1, <2>1 DEF SessionInv, Situation
    <3>2. HandlerProofs!InStepAt(c, pc[Server])
      BY <3>1, HandlerProofs!ConversationInStep
    <3> QED
      BY <3>2, SessionPropertiesAre
  <2>2. ASSUME NEW c \in Conns, client_fd # c, down[c] # <<>>
        PROVE  down[c] = <<"disconnected">> /\ request[c] = Client!Ask("disconnect")
    <3>1. HandlerProofs!Unserved(c) \/ HandlerProofs!Left(c)
      BY <1>1, <2>2 DEF SessionInv, Situation
    <3>2. ~HandlerProofs!Unserved(c)
      BY <2>2 DEF HandlerProofs!Unserved, HandlerProofs!NotServed, HandlerProofs!Over,
         HandlerProofs!Settled
    <3> QED
      BY <2>2, <3>1, <3>2, SessionClientNamesAre DEF HandlerProofs!Left,
         HandlerProofs!HasLeft, HandlerProofs!Over, Client!Ask, HandlerProofs!Ask
  <2> QED
    BY <2>1, <2>2 DEF RepliesMatch
<1> QED
  BY <1>1, SessionHolds, PTL

\* SIGPIPE ends the server only for the client that it serves, and only if that has been
\* killed, or has gone although its disconnect was refused, or if its conversation has
\* gone astray (kv-server/server.c 87-96, 230-244).
THEOREM OnlyLostClientKills == SessionSpec => []DiesOfLostClient
<1>1. SessionInv => DiesOfLostClient
  BY DEF SessionInv
<1> QED
  BY <1>1, SessionHolds, PTL
=============================================================================
