--------------------------- MODULE KVPoolRW_proofs ---------------------------
(***************************************************************************)
(* Proofs about the key-value list in its heap and about the thread-pool   *)
(* server with the read-write lock, for any workers, connections, keys,    *)
(* values and finite heap.                                                 *)
(*                                                                         *)
(* First the list.  What a walk visits is described by the sequence s of   *)
(* its nodes: Lists(s).  Each operation is shown to turn one such sequence *)
(* into another, and so to be the operation of KVList on the keys and      *)
(* values that View(s) reads off it.                                       *)
(*                                                                         *)
(* Then the server.  It uses the lock and the queue of connections as      *)
(* their modules say, so what is proved of them holds of it; the lock      *)
(* keeps every other worker away from the list while one changes it; and   *)
(* so each command is an operation of KVList that keeps the list in step   *)
(* with the replies.                                                       *)
(***************************************************************************)
EXTENDS KVPoolRW, Integers, FiniteSetTheorems, SequenceTheorems, TLAPS

\* Induction up to n, for a set instead of a predicate.
LEMMA UpTo ==
    ASSUME NEW n \in Nat, NEW S, 0 \in S, \A i \in 0 .. n - 1 : i \in S => i + 1 \in S
    PROVE  \A i \in 0 .. n : i \in S
<1> DEFINE Outside == {i \in 0 .. n : i \notin S}
           Segments == {0 .. i : i \in Outside}
<1>1. SUFFICES ASSUME Outside # {} PROVE FALSE
  OBVIOUS
<1>2. Segments \subseteq FiniteSubsetsOf(Nat) /\ Segments # {}
  <2>1. ASSUME NEW i \in Outside PROVE 0 .. i \in FiniteSubsetsOf(Nat)
    BY FS_Interval DEF FiniteSubsetsOf
  <2> QED
    BY <1>1, <2>1
<1>3. PICK x \in Segments : \A y \in Segments : ~(<<y, x>> \in StrictSubsetOrdering(Nat))
  <2> HIDE DEF Segments
  <2> QED
    BY <1>2, FS_StrictSubsetOrderingWellFounded, WFMin
<1>4. PICK m \in Outside : x = 0 .. m
  OBVIOUS
<1>5. m \in Nat /\ m # 0 /\ m - 1 \in 0 .. n - 1 /\ m - 1 \notin S
  <2>1. m \in 0 .. n /\ m \notin S
    OBVIOUS
  <2>2. m # 0
    BY <2>1
  <2>3. m - 1 \in 0 .. n - 1 /\ (m - 1) + 1 = m
    BY <2>1, <2>2
  <2> QED
    BY <2>1, <2>2, <2>3
<1>6. 0 .. m - 1 \in Segments
  BY <1>5
<1>7. <<0 .. m - 1, x>> \in StrictSubsetOrdering(Nat)
  <2>1. 0 .. m - 1 \subseteq 0 .. m /\ m \in 0 .. m /\ m \notin 0 .. m - 1 /\ 0 .. m \subseteq Nat
    BY <1>5
  <2> QED
    BY <1>4, <2>1 DEF StrictSubsetOrdering
<1> QED
  BY <1>3, <1>6, <1>7

-----------------------------------------------------------------------------
(***************************************************************************)
(* The walk and the sequence it visits.                                    *)
(***************************************************************************)

\* s is what the walk visits: from kv_node_head along next, through nodes only, no
\* cell twice, and NULL behind the last.
Lists(s) ==
    /\ s \in Seq(Cells)
    /\ \A i, j \in 1 .. Len(s) : s[i] = s[j] => i = j
    /\ kv_node_head = IF Len(s) = 0 THEN NULL ELSE s[1]
    /\ \A i \in 1 .. Len(s) :
         IsNode(s[i]) /\ heap[s[i]].next = IF i = Len(s) THEN NULL ELSE s[i + 1]

CellsOf(s) == {s[i] : i \in 1 .. Len(s)}

Size == Cardinality(Cells)

\* The heap has a size.
LEMMA SizeType == Size \in Nat
  BY StoreAssumption, FS_CardinalityType DEF Size

\* One turn of the walk, given the cells w reached so far.
Turn(w) == [i \in 0 .. Size |->
              IF i = 0 THEN kv_node_head
              ELSE IF IsNode(w[i-1]) THEN heap[w[i-1]].next ELSE NULL]

\* Walk satisfies its own equation as soon as some function does.
LEMMA WalkEquation ==
    ASSUME NEW w, w = Turn(w)
    PROVE  Walk = Turn(Walk)
  BY Zenon DEF Walk, Turn, Size

\* A sequence without repetition is no longer than its heap, and has as many cells
\* as places.
LEMMA CellsOfSize ==
    ASSUME NEW s \in Seq(Cells), \A i, j \in 1 .. Len(s) : s[i] = s[j] => i = j
    PROVE  Len(s) <= Size /\ Cardinality(CellsOf(s)) = Len(s) /\ Len(s) \in Nat
<1>1. Len(s) \in Nat /\ IsFiniteSet(1 .. Len(s)) /\ Cardinality(1 .. Len(s)) = Len(s)
  BY FS_Interval
<1>2. ExistsBijection(1 .. Len(s), CellsOf(s))
  <2> DEFINE f == [i \in 1 .. Len(s) |-> s[i]]
  <2>1. f \in Bijection(1 .. Len(s), CellsOf(s))
    BY DEF Bijection, Injection, Surjection, IsInjective, CellsOf
  <2> QED
    BY <2>1 DEF ExistsBijection
<1>3. IsFiniteSet(CellsOf(s)) /\ Cardinality(CellsOf(s)) = Len(s)
  BY <1>1, <1>2, FS_Bijection
<1>4. CellsOf(s) \subseteq Cells
  BY DEF CellsOf
<1> QED
  BY <1>1, <1>3, <1>4, StoreAssumption, FS_Subset DEF Size

\* The walk visits s, place by place, and then NULL.
LEMMA WalkVisits ==
    ASSUME NEW s, Lists(s)
    PROVE  /\ DOMAIN Walk = 0 .. Size
           /\ \A i \in 0 .. Size : Walk[i] = IF i < Len(s) THEN s[i + 1] ELSE NULL
<1> DEFINE W == [i \in 0 .. Size |-> IF i < Len(s) THEN s[i + 1] ELSE NULL]
<1>1. s \in Seq(Cells) /\ Len(s) \in Nat /\ Size \in Nat /\ ~IsNode(NULL)
  BY SizeType DEF Lists, IsNode
<1>2. ASSUME NEW w, NEW i \in 1 .. Size, w[i - 1] = W[i - 1] 
      PROVE (IF IsNode(w[i-1]) THEN heap[w[i-1]].next ELSE NULL) = W[i]
  <2>0. i \in Nat /\ i - 1 \in 0 .. Size /\ i \in 0 .. Size /\ (i - 1) + 1 = i
    BY <1>1
  <2>1. CASE i - 1 < Len(s)
    <3>1. i \in 1 .. Len(s) /\ w[i-1] = s[i]
      BY <1>1, <1>2, <2>0, <2>1
    <3>2. IsNode(s[i]) /\ heap[s[i]].next = IF i = Len(s) THEN NULL ELSE s[i + 1]
      BY <3>1 DEF Lists
    <3> QED
      BY <1>1, <2>0, <3>1, <3>2
  <2>2. CASE ~(i - 1 < Len(s))
    <3>1. w[i - 1] = NULL /\ W[i] = NULL
      BY <1>1, <1>2, <2>0, <2>2
    <3> QED
      BY <3>1, <1>1
  <2> QED
    BY <2>1, <2>2
<1>3. W[0] = kv_node_head
  BY <1>1 DEF Lists
<1> HIDE DEF W
<1>4. W = Turn(W)
  <2>1. \A i \in 0 .. Size : i # 0 => i \in 1 .. Size
    BY <1>1
  <2>2. W = [i \in 0 .. Size |-> W[i]]
    BY DEF W
  <2> QED
    BY <1>2, <1>3, <2>1, <2>2 DEF Turn
<1>5. Walk = Turn(Walk)
  BY <1>4, WalkEquation
<1>6. \A i \in 0 .. Size : Walk[i] = W[i]
  <2> DEFINE S == {i \in 0 .. Size : Walk[i] = W[i]}
  <2>1. 0 \in S
    BY <1>1, <1>3, <1>5 DEF Turn
  <2>2. ASSUME NEW i \in 0 .. Size - 1, i \in S PROVE i + 1 \in S
    <3>1. i + 1 \in 1 .. Size /\ i + 1 \in 0 .. Size /\ (i + 1) - 1 = i /\ i + 1 # 0
      BY <1>1
    <3>2. Walk[i + 1] = IF IsNode(Walk[i]) THEN heap[Walk[i]].next ELSE NULL
      BY <1>5, <3>1 DEF Turn
    <3> QED
      BY <1>2, <2>2, <3>1, <3>2
  <2> HIDE DEF S
  <2>3. \A i \in 0 .. Size : i \in S
    BY <1>1, <2>1, <2>2, UpTo
  <2> QED
    BY <2>3 DEF S
<1>7. DOMAIN Walk = 0 .. Size
  BY <1>5 DEF Turn
<1> QED
  BY <1>6, <1>7 DEF W

\* The keys and values on the cells of s.
View(s) == [i \in 1 .. Len(s) |-> [key |-> heap[s[i]].key, value |-> ValueOf(s[i])]]

\* What the walk finds, and what the callers see of it, is s.
WalkSeesList ==
    \A s : Lists(s) => /\ Listed = CellsOf(s)
                       /\ Walk[Cardinality(Cells)] = NULL
                       /\ Listing = View(s)
                       /\ Len(s) # 0 => Walk[Len(s) - 1] = s[Len(s)]

\* Listed, Listing and the last cell of the walk are read off s.
LEMMA ListedIs == WalkSeesList
<1> SUFFICES ASSUME NEW s, Lists(s)
             PROVE  /\ Listed = CellsOf(s) /\ Walk[Size] = NULL /\ Listing = View(s)
                    /\ Len(s) # 0 => Walk[Len(s) - 1] = s[Len(s)]
  BY DEF Size, WalkSeesList
<1>1. /\ s \in Seq(Cells) /\ Len(s) \in Nat /\ Size \in Nat /\ NULL \notin Cells
      /\ Len(s) <= Size /\ Cardinality(CellsOf(s)) = Len(s)
  BY SizeType, CellsOfSize, StoreAssumption DEF Lists
<1>2. /\ DOMAIN Walk = 0 .. Size
      /\ \A i \in 0 .. Size : Walk[i] = IF i < Len(s) THEN s[i + 1] ELSE NULL
  BY WalkVisits
<1>3. \A i \in 1 .. Len(s) : i - 1 \in 0 .. Size /\ Walk[i - 1] = s[i] /\ s[i] \in Cells
  <2> TAKE i \in 1 .. Len(s)
  <2>1. i - 1 \in 0 .. Size /\ i - 1 < Len(s) /\ (i - 1) + 1 = i
    BY <1>1
  <2>2. Walk[i - 1] = s[(i - 1) + 1]
    BY <1>2, <2>1
  <2>3. s[i] \in Cells
    BY <1>1
  <2> QED
    BY <2>1, <2>2, <2>3
<1>4. Listed = CellsOf(s)
  <2>1. ASSUME NEW c \in Listed PROVE c \in CellsOf(s)
    <3>1. PICK i \in 0 .. Size : c = Walk[i] /\ c # NULL
      BY <1>2 DEF Listed
    <3>2. i < Len(s) /\ c = s[i + 1]
      BY <1>2, <3>1
    <3>3. i + 1 \in 1 .. Len(s)
      BY <1>1, <3>2
    <3> QED
      BY <3>2, <3>3 DEF CellsOf
  <2>2. ASSUME NEW c \in CellsOf(s) PROVE c \in Listed
    <3>1. PICK i \in 1 .. Len(s) : c = s[i]
      BY DEF CellsOf
    <3>2. i - 1 \in DOMAIN Walk /\ Walk[i - 1] = c /\ c # NULL
      BY <1>1, <1>2, <1>3, <3>1
    <3> QED
      BY <3>2 DEF Listed
  <2> QED
    BY <2>1, <2>2
<1>5. Walk[Size] = NULL
  BY <1>1, <1>2
<1>6. Listing = View(s)
  BY <1>1, <1>3, <1>4 DEF Listing, View
<1>7. Len(s) # 0 => Walk[Len(s) - 1] = s[Len(s)]
  BY <1>1, <1>3
<1> QED
  BY <1>4, <1>5, <1>6, <1>7

\* The same of the state after a step.
LEMMA ListedIsNext ==
    ASSUME NEW s, Lists(s)'
    PROVE  /\ Listed' = CellsOf(s)
           /\ Listing' = View(s)'
           /\ Len(s) # 0 => Walk'[Len(s) - 1] = s[Len(s)]
<1>1. WalkSeesList'
  BY ListedIs, PTL
<1> QED
  BY <1>1 DEF CellsOf, WalkSeesList

-----------------------------------------------------------------------------
(***************************************************************************)
(* The heap.                                                               *)
(***************************************************************************)

NodeCells   == [kind : {"node"}, key : Keys, value : Cells, next : Cells \union {NULL}]
BufferCells == [kind : {"buffer"}, data : Values \union {Uninit, Damaged}, more : BOOLEAN]
CellStates  == {Free} \union NodeCells \union BufferCells

HeapTypeOK ==
    /\ heap \in [Cells -> CellStates]
    /\ kv_node_head \in Cells \union {NULL}
    /\ kv_node_tail \in Cells \union {NULL}

\* Every node has a buffer that no other node has, the nodes that a CREATE behind a
\* dangling tail has lost included: the value of a lost node is still received.
OwnBuffers ==
    /\ \A c \in Cells : IsNode(c) => IsBuffer(heap[c].value)
    /\ \A c, d \in Cells :
         IsNode(c) /\ IsNode(d) /\ heap[c].value = heap[d].value => c = d

\* The inductive invariant, for the nodes s that the walk visits.  kv_node_tail is the
\* last of them or none of them: DELETE of the last one leaves it dangling, and
\* whatever CREATE hangs behind it afterwards is none of them either.
HeapInv(s) ==
    /\ HeapTypeOK
    /\ Lists(s)
    /\ \A i, j \in 1 .. Len(s) : heap[s[i]].key = heap[s[j]].key => i = j
    /\ OwnBuffers
    /\ \A i \in 1 .. Len(s) : kv_node_tail = s[i] => i = Len(s)

StoreInv == \E s : HeapInv(s)

\* What the three constructors of cells make.
LEMMA FreshCells ==
    /\ Free \in CellStates /\ Free.kind = "free"
    /\ \A k \in Keys, b \in Cells :
         /\ Node(k, b) \in CellStates /\ Node(k, b).kind = "node" /\ Node(k, b).key = k
         /\ Node(k, b).value = b /\ Node(k, b).next = NULL
    /\ \A v \in Values \union {Uninit, Damaged}, more \in Endings :
         /\ Buffer(v, more) \in CellStates /\ Buffer(v, more).kind = "buffer"
         /\ Buffer(v, more).data = v
    /\ FreshBuffer \in CellStates /\ FreshBuffer.kind = "buffer"
    /\ FreshBuffer.data = Uninit
    /\ DamagedBuffer \in CellStates /\ DamagedBuffer.kind = "buffer"
    /\ DamagedBuffer.data = Damaged
  BY StoreAssumption
  DEF CellStates, NodeCells, BufferCells, Free, Node, Buffer, FreshBuffer, DamagedBuffer

\* What a cell can hold.
LEMMA CellKinds ==
    ASSUME HeapTypeOK, NEW c \in Cells
    PROVE  /\ c # NULL /\ heap[c] \in CellStates
           /\ IsFree(c) => ~IsNode(c) /\ ~IsBuffer(c)
           /\ IsNode(c) => ~IsBuffer(c)
           /\ IsNode(c) => /\ heap[c].key \in Keys /\ heap[c].value \in Cells
                           /\ heap[c].next \in Cells \union {NULL}
                           /\ heap[c] \in NodeCells
           /\ IsBuffer(c) => heap[c].data \in Values \union {Uninit, Damaged}
<1>1. c # NULL /\ heap[c] \in CellStates
  BY StoreAssumption DEF HeapTypeOK
<1>2. CASE heap[c] = Free
  BY <1>1, <1>2 DEF IsFree, IsNode, IsBuffer, Free
<1>3. CASE heap[c] \in NodeCells
  BY <1>1, <1>3 DEF IsFree, IsNode, IsBuffer, NodeCells
<1>4. CASE heap[c] \in BufferCells
  BY <1>1, <1>4 DEF IsFree, IsNode, IsBuffer, BufferCells
<1> QED
  BY <1>1, <1>2, <1>3, <1>4 DEF CellStates

\* Setting the next of a node changes nothing else of it.
LEMMA SetNext ==
    ASSUME NEW x \in NodeCells, NEW n \in Cells \union {NULL}
    PROVE  LET y == [x EXCEPT !.next = n]
           IN  /\ y \in CellStates /\ y.kind = "node" /\ y.next = n
               /\ y.key = x.key /\ y.value = x.value
  BY DEF NodeCells, CellStates

\* The same for the value of a node.
LEMMA SetValue ==
    ASSUME NEW x \in NodeCells, NEW b \in Cells
    PROVE  LET y == [x EXCEPT !.value = b]
           IN  /\ y \in CellStates /\ y.kind = "node" /\ y.value = b
               /\ y.key = x.key /\ y.next = x.next
  BY DEF NodeCells, CellStates

\* The nodes of the list, and what they hold, by place.
LEMMA ListCells ==
    ASSUME NEW s, HeapInv(s)
    PROVE  /\ s \in Seq(Cells) /\ Len(s) \in Nat
           /\ \A i \in 1 .. Len(s) :
                /\ s[i] \in Cells /\ IsNode(s[i])
                /\ heap[s[i]].value \in Cells /\ heap[s[i]].key \in Keys
                /\ IsBuffer(heap[s[i]].value)
                /\ heap[s[i]].next = IF i = Len(s) THEN NULL ELSE s[i + 1]
           /\ \A i, j \in 1 .. Len(s) : s[i] = s[j] => i = j
           /\ \A i, j \in 1 .. Len(s) : heap[s[i]].value = heap[s[j]].value => i = j
<1>1. /\ s \in Seq(Cells) /\ Len(s) \in Nat /\ \A i \in 1 .. Len(s) : s[i] \in Cells
      /\ HeapTypeOK
  BY DEF HeapInv, Lists
<1>2. \A i \in 1 .. Len(s) : /\ s[i] \in Cells /\ IsNode(s[i])
                /\ heap[s[i]].value \in Cells /\ heap[s[i]].key \in Keys
                /\ IsBuffer(heap[s[i]].value)
                /\ heap[s[i]].next = IF i = Len(s) THEN NULL ELSE s[i + 1]
  BY <1>1, CellKinds DEF HeapInv, Lists, OwnBuffers
<1> QED
  BY <1>1, <1>2 DEF HeapInv, Lists, OwnBuffers

\* The empty heap has the invariant, with no nodes.
LEMMA InitHeap == InitStore => HeapInv(<<>>)
<1> SUFFICES ASSUME InitStore PROVE HeapInv(<<>>)
  OBVIOUS
<1>1. HeapTypeOK
  BY FreshCells DEF InitStore, HeapTypeOK
<1>2. \A c \in Cells : ~IsNode(c)
  BY FreshCells DEF InitStore, IsNode
<1>3. Lists(<<>>)
  BY DEF Lists, InitStore
<1> QED
  BY <1>1, <1>2, <1>3 DEF HeapInv, OwnBuffers

\* The heap behind a stray or a proper write through kv_node_tail.
LEMMA TailWritten ==
    ASSUME HeapTypeOK, NEW n \in Cells, NEW h \in WriteTailNext(n)
    PROVE  /\ h \in [Cells -> CellStates]
           /\ \A c \in Cells \ {kv_node_tail} : h[c] = heap[c]
           /\ IsNode(kv_node_tail) =>
                /\ kv_node_tail \in Cells
                /\ h[kv_node_tail] = [heap[kv_node_tail] EXCEPT !.next = n]
           /\ IsBuffer(kv_node_tail) =>
                \/ h = heap
                \/ kv_node_tail \in Cells /\ h[kv_node_tail] = DamagedBuffer
           /\ ~IsNode(kv_node_tail) /\ ~IsBuffer(kv_node_tail) => h = heap
<1>1. ASSUME IsNode(kv_node_tail)
      PROVE  /\ kv_node_tail \in Cells /\ ~IsBuffer(kv_node_tail)
             /\ heap[kv_node_tail] \in NodeCells
  <2>1. kv_node_tail \in Cells
    BY <1>1 DEF HeapTypeOK, IsNode
  <2> QED
    BY <1>1, <2>1, CellKinds
<1>2. ASSUME IsBuffer(kv_node_tail) PROVE kv_node_tail \in Cells
  BY <1>2 DEF HeapTypeOK, IsBuffer
<1>3. CASE IsNode(kv_node_tail)
  <2>1. h = [heap EXCEPT ![kv_node_tail].next = n]
    BY <1>1, <1>3 DEF WriteTailNext
  <2>2. h = [heap EXCEPT ![kv_node_tail] = [heap[kv_node_tail] EXCEPT !.next = n]]
    BY <2>1
  <2>3. [heap[kv_node_tail] EXCEPT !.next = n] \in CellStates
    BY <1>1, <1>3, SetNext
  <2> QED
    BY <1>1, <1>3, <2>2, <2>3 DEF HeapTypeOK
<1>4. CASE IsBuffer(kv_node_tail)
  <2>1. h = heap \/ h = [heap EXCEPT ![kv_node_tail] = DamagedBuffer]
    BY <1>1, <1>4 DEF WriteTailNext
  <2> QED
    BY <1>1, <1>2, <1>4, <2>1, FreshCells DEF HeapTypeOK
<1>5. CASE ~IsNode(kv_node_tail) /\ ~IsBuffer(kv_node_tail)
  BY <1>5 DEF WriteTailNext, HeapTypeOK
<1> QED
  BY <1>3, <1>4, <1>5

-----------------------------------------------------------------------------
(***************************************************************************)
(* CREATE.                                                                 *)
(***************************************************************************)

\* The two new cells, and what is left of the others.
LEMMA CreateEffect ==
    ASSUME HeapTypeOK, NEW k \in Keys, NEW n \in Cells, NEW b \in Cells,
           CreateNode(k, n, b)
    PROVE  /\ HeapTypeOK' /\ n # b /\ IsFree(n) /\ IsFree(b)
           /\ heap'[n] = Node(k, b) /\ heap'[b] = FreshBuffer
           /\ \A c \in Cells \ {n, b} :
                /\ IsNode(c)' <=> IsNode(c)
                /\ IsBuffer(c)' <=> IsBuffer(c)
                /\ IsNode(c) =>
                     /\ heap'[c].key = heap[c].key /\ heap'[c].value = heap[c].value
                     /\ heap'[c].next = IF c = kv_node_tail /\ kv_node_head # NULL
                                        THEN n ELSE heap[c].next
                /\ IsBuffer(c) => \/ heap'[c] = heap[c]
                                  \/ c = kv_node_tail /\ heap'[c] = DamagedBuffer
<1>1. n # b /\ IsFree(n) /\ IsFree(b)
  BY DEF CreateNode
<1>2. PICK h \in IF kv_node_head = NULL THEN {heap} ELSE WriteTailNext(n) :
        heap' = [h EXCEPT ![n] = Node(k, b), ![b] = FreshBuffer]
  BY DEF CreateNode
<1>3. h \in [Cells -> CellStates]
  BY <1>2, TailWritten DEF HeapTypeOK
<1>4. /\ heap' \in [Cells -> CellStates]
      /\ heap'[n] = Node(k, b) /\ heap'[b] = FreshBuffer
      /\ \A c \in Cells \ {n, b} : heap'[c] = h[c]
  BY <1>1, <1>2, <1>3, FreshCells
<1>5. HeapTypeOK'
  BY <1>4 DEF HeapTypeOK, CreateNode
<1>6. ASSUME NEW c \in Cells \ {n, b}
      PROVE  /\ IsNode(c)' <=> IsNode(c)
             /\ IsBuffer(c)' <=> IsBuffer(c)
             /\ IsNode(c) =>
                  /\ heap'[c].key = heap[c].key /\ heap'[c].value = heap[c].value
                  /\ heap'[c].next = IF c = kv_node_tail /\ kv_node_head # NULL
                                     THEN n ELSE heap[c].next
             /\ IsBuffer(c) => \/ heap'[c] = heap[c]
                               \/ c = kv_node_tail /\ heap'[c] = DamagedBuffer
  <2>1. heap'[c] = h[c]
    BY <1>4
  <2>2. CASE kv_node_head = NULL \/ c # kv_node_tail
    <3>1. heap'[c] = heap[c]
      BY <1>2, <2>1, <2>2, TailWritten
    <3> QED
      BY <2>2, <3>1 DEF IsNode, IsBuffer
  <2>3. CASE kv_node_head # NULL /\ c = kv_node_tail /\ IsNode(c)
    <3>1. heap'[c] = [heap[c] EXCEPT !.next = n]
      BY <1>2, <2>1, <2>3, TailWritten
    <3>2. heap[c] \in NodeCells /\ ~IsBuffer(c)
      BY <2>3, CellKinds
    <3>3. /\ heap'[c].kind = "node" /\ heap'[c].next = n
          /\ heap'[c].key = heap[c].key /\ heap'[c].value = heap[c].value
      BY <3>1, <3>2, SetNext
    <3> QED
      BY <2>3, <3>2, <3>3 DEF IsNode, IsBuffer
  <2>4. CASE kv_node_head # NULL /\ c = kv_node_tail /\ IsBuffer(c)
    <3>1. heap'[c] = heap[c] \/ heap'[c] = DamagedBuffer
      BY <1>2, <2>1, <2>4, TailWritten
    <3>2. ~IsNode(c) /\ DamagedBuffer.kind = "buffer"
      BY <2>4, CellKinds, FreshCells
    <3>3. IsBuffer(c)' /\ ~IsNode(c)'
      BY <2>4, <3>1, <3>2 DEF IsNode, IsBuffer
    <3> QED
      BY <2>4, <3>1, <3>2, <3>3
  <2>5. CASE kv_node_head # NULL /\ c = kv_node_tail /\ ~IsNode(c) /\ ~IsBuffer(c)
    <3>1. heap'[c] = heap[c]
      BY <1>2, <2>1, <2>5, TailWritten
    <3> QED
      BY <2>5, <3>1 DEF IsNode, IsBuffer
  <2> QED
    BY <2>2, <2>3, <2>4, <2>5
<1> QED
  BY <1>1, <1>4, <1>5, <1>6

\* After a CREATE each node still has a buffer of its own.
LEMMA CreateOwns ==
    ASSUME NEW s, HeapInv(s), NEW k \in Keys, NEW n \in Cells, NEW b \in Cells,
           CreateNode(k, n, b)
    PROVE  OwnBuffers'
<1> USE DEF OwnBuffers
<1>1. HeapTypeOK /\ HeapTypeOK' /\ OwnBuffers /\ n # b
  BY CreateEffect DEF HeapInv
<1>2. /\ IsNode(n)' /\ heap'[n].value = b /\ ~IsNode(n) /\ ~IsBuffer(n)
      /\ IsBuffer(b)' /\ ~IsNode(b)' /\ ~IsNode(b) /\ ~IsBuffer(b)
  BY <1>1, CreateEffect, FreshCells, CellKinds DEF IsNode, IsBuffer
<1>3. \A c \in Cells \ {n, b} :
        /\ IsNode(c)' <=> IsNode(c)
        /\ IsBuffer(c)' <=> IsBuffer(c)
        /\ IsNode(c) => heap'[c].value = heap[c].value /\ heap[c].value \in Cells
  BY <1>1, CreateEffect, CellKinds
<1>4. \A c \in Cells \ {n, b} :
        IsNode(c)' => heap'[c].value \notin {n, b} /\ IsBuffer(heap[c].value)'
  <2> SUFFICES ASSUME NEW c \in Cells \ {n, b}, IsNode(c)'
               PROVE  heap'[c].value \notin {n, b} /\ IsBuffer(heap[c].value)'
    OBVIOUS
  <2>1. PICK v \in Cells : IsNode(c) /\ heap[c].value = v /\ heap'[c].value = v
    BY <1>3
  <2>2. IsBuffer(v) /\ v \notin {n, b}
    BY <1>1, <1>2, <2>1
  <2>3. IsBuffer(v)'
    BY <1>3, <2>2
  <2> QED
    BY <2>1, <2>2, <2>3 DEF IsBuffer
<1>5. \A c \in Cells : IsNode(c)' => IsBuffer(heap[c].value)'
  BY <1>2, <1>4 DEF IsNode, IsBuffer
<1>6. ASSUME NEW c \in Cells, NEW d \in Cells, IsNode(c)', IsNode(d)',
             heap'[c].value = heap'[d].value
      PROVE  c = d
  BY <1>1, <1>2, <1>3, <1>4, <1>6
<1> QED
  BY <1>5, <1>6

\* CREATE appends to the list, or leaves it as it is but for a value it may damage.
LEMMA CreateKeeps ==
    ASSUME NEW s, HeapInv(s), NEW k \in Keys, NEW n \in Cells, NEW b \in Cells,
           CreateNode(k, n, b), \A i \in 1 .. Len(s) : heap[s[i]].key # k
    PROVE  /\ IsNode(n)' /\ heap'[n].key = k /\ kv_node_tail' = n
           /\ \/ /\ Len(s) = 0 \/ kv_node_tail = s[Len(s)]
                 /\ HeapInv(Append(s, n))'
                 /\ View(Append(s, n))' = Append(View(s), List!NodeOf(k))
              \/ /\ Len(s) # 0 /\ kv_node_tail # s[Len(s)] /\ n \notin CellsOf(s)
                 /\ HeapInv(s)'
                 /\ \/ View(s)' = View(s)
                    \/ \E i \in 1 .. Len(s) : View(s)' = [View(s) EXCEPT ![i].value = Damaged]
<1>1. /\ HeapTypeOK /\ HeapTypeOK' /\ n # b /\ IsFree(n) /\ IsFree(b) /\ OwnBuffers'
      /\ heap'[n] = Node(k, b) /\ heap'[b] = FreshBuffer /\ kv_node_tail' = n
  BY CreateEffect, CreateOwns DEF HeapInv, CreateNode
<1>2. /\ IsNode(n)' /\ heap'[n].key = k /\ heap'[n].next = NULL
      /\ ValueOf(n)' = Uninit
  BY <1>1, FreshCells, CellKinds DEF IsNode, ValueOf
<1>3. /\ s \in Seq(Cells) /\ Len(s) \in Nat
      /\ \A i \in 1 .. Len(s) : /\ s[i] \in Cells /\ IsNode(s[i])
                                /\ heap[s[i]].value \in Cells /\ IsBuffer(heap[s[i]].value)
                                /\ heap[s[i]].next = IF i = Len(s) THEN NULL ELSE s[i + 1]
      /\ \A i, j \in 1 .. Len(s) : s[i] = s[j] => i = j
      /\ \A i, j \in 1 .. Len(s) : heap[s[i]].value = heap[s[j]].value => i = j
  BY ListCells
<1>4. \A i \in 1 .. Len(s) : s[i] \notin {n, b} /\ heap[s[i]].value \notin {n, b}
  BY <1>1, <1>3, CellKinds
<1>5. kv_node_head = IF Len(s) = 0 THEN NULL ELSE s[1]
  BY DEF HeapInv, Lists
<1>6. \A i \in 1 .. Len(s) :
        /\ IsNode(s[i])' /\ heap'[s[i]].key = heap[s[i]].key
        /\ heap'[s[i]].value = heap[s[i]].value
        /\ heap'[s[i]].next = IF s[i] = kv_node_tail THEN n ELSE heap[s[i]].next
  <2> TAKE i \in 1 .. Len(s)
  <2>1. s[i] \in Cells \ {n, b} /\ IsNode(s[i])
    BY <1>3, <1>4
  <2>2. kv_node_head # NULL
    <3>1. 1 \in 1 .. Len(s)
      BY <1>3
    <3>2. s[1] \in Cells
      BY <1>3, <3>1
    <3> QED
      BY <1>3, <1>5, <3>1, <3>2, StoreAssumption
  <2> QED
    BY <1>1, <2>1, <2>2, CreateEffect
<1>7. \A i \in 1 .. Len(s) :
        \/ heap'[heap[s[i]].value] = heap[heap[s[i]].value]
        \/ /\ heap[s[i]].value = kv_node_tail
           /\ heap'[heap[s[i]].value] = DamagedBuffer
  <2> TAKE i \in 1 .. Len(s)
  <2>1. heap[s[i]].value \in Cells \ {n, b} /\ IsBuffer(heap[s[i]].value)
    BY <1>3, <1>4
  <2>2. PICK v \in Cells \ {n, b} : heap[s[i]].value = v /\ IsBuffer(v)
    BY <2>1 DEF IsBuffer
  <2>3. heap'[v] = heap[v] \/ (v = kv_node_tail /\ heap'[v] = DamagedBuffer)
    BY <1>1, <2>2, CreateEffect
  <2> QED
    BY <2>2, <2>3
<1>8. \A i \in 1 .. Len(s) :
        \/ ValueOf(s[i])' = ValueOf(s[i])
        \/ heap[s[i]].value = kv_node_tail /\ ValueOf(s[i])' = Damaged
  BY <1>6, <1>7, FreshCells DEF ValueOf
<1>9. CASE Len(s) = 0 \/ kv_node_tail = s[Len(s)]
  <2> DEFINE t == Append(s, n)
  <2>1. /\ t \in Seq(Cells) /\ Len(t) = Len(s) + 1 /\ t[Len(t)] = n
        /\ \A i \in 1 .. Len(s) : t[i] = s[i]
        /\ \A i \in 1 .. Len(t) : i \in 1 .. Len(s) \/ i = Len(t)
    BY <1>3
  <2> HIDE DEF t
  <2>2. \A i \in 1 .. Len(s) : s[i] = kv_node_tail <=> i = Len(s)
    BY <1>3, <1>9 DEF HeapInv
  <2>3. Lists(t)'
    <3>1. ASSUME NEW i \in 1 .. Len(t)
          PROVE  IsNode(t[i])' /\ heap'[t[i]].next = IF i = Len(t) THEN NULL ELSE t[i + 1]
      <4>1. CASE i = Len(t)
        BY <1>2, <2>1, <4>1
      <4>2. CASE i \in 1 .. Len(s)
        <5>1. t[i] = s[i] /\ i # Len(t)
          BY <1>3, <2>1, <4>2
        <5>2. CASE i = Len(s)
          BY <1>6, <2>1, <2>2, <4>2, <5>1, <5>2
        <5>3. CASE i # Len(s)
          <6>1. i + 1 \in 1 .. Len(s)
            BY <1>3, <4>2, <5>3
          <6> QED
            BY <1>3, <1>6, <2>1, <2>2, <4>2, <5>1, <5>3, <6>1
        <5> QED
          BY <5>2, <5>3
      <4> QED
        BY <2>1, <4>1, <4>2
    <3>2. \A i, j \in 1 .. Len(t) : t[i] = t[j] => i = j
      <4>1. \A i \in 1 .. Len(s) : t[i] # t[Len(t)]
        BY <1>4, <2>1
      <4>2. \A i, j \in 1 .. Len(s) : t[i] = t[j] => i = j
        BY <1>3, <2>1
      <4> QED
        BY <2>1, <4>1, <4>2
    <3>3. kv_node_head' = IF Len(t) = 0 THEN NULL ELSE t[1]
      <4>1. CASE Len(s) = 0
        BY <1>5, <2>1, <4>1 DEF CreateNode
      <4>2. CASE Len(s) # 0
        <5>1. 1 \in 1 .. Len(s) /\ s[1] \in Cells
          BY <1>3, <4>2
        <5> QED
          BY <1>3, <1>5, <2>1, <4>2, <5>1, StoreAssumption DEF CreateNode
      <4> QED
        BY <4>1, <4>2
    <3> QED
      BY <2>1, <3>1, <3>2, <3>3 DEF Lists
  <2>4. \A i, j \in 1 .. Len(t) : heap'[t[i]].key = heap'[t[j]].key => i = j
    <3>1. \A i, j \in 1 .. Len(s) : heap[s[i]].key = heap[s[j]].key => i = j
      BY DEF HeapInv
    <3> QED
      BY <1>2, <1>3, <1>6, <2>1, <3>1
  <2>5. \A i \in 1 .. Len(t) : kv_node_tail' = t[i] => i = Len(t)
    BY <1>1, <1>4, <2>1
  <2>6. HeapInv(t)'
    BY <1>1, <2>3, <2>4, <2>5 DEF HeapInv
  <2>7. View(t)' = Append(View(s), List!NodeOf(k))
    <3>1. \A i \in 1 .. Len(s) : ValueOf(s[i])' = ValueOf(s[i])
      <4> TAKE i \in 1 .. Len(s)
      <4>1. Len(s) # 0 /\ Len(s) \in 1 .. Len(s)
        BY <1>3
      <4>2. IsNode(kv_node_tail) /\ kv_node_tail \in Cells
        BY <1>3, <1>9, <4>1
      <4>3. heap[s[i]].value # kv_node_tail
        BY <1>1, <1>3, <4>2, CellKinds
      <4> QED
        BY <1>8, <4>3
    <3>2. \A i \in 1 .. Len(s) : /\ t[i] = s[i] /\ heap'[s[i]].key = heap[s[i]].key
                                 /\ ValueOf(t[i])' = ValueOf(s[i])
      BY <1>6, <2>1, <3>1 DEF ValueOf
    <3>3. heap'[t[Len(t)]].key = k /\ ValueOf(t[Len(t)])' = Uninit
      BY <1>2, <2>1 DEF ValueOf
    <3> QED
      BY <1>3, <2>1, <3>2, <3>3 DEF View, List!NodeOf
  <2> QED
    BY <1>1, <1>2, <1>9, <2>6, <2>7 DEF t
<1>10. CASE Len(s) # 0 /\ kv_node_tail # s[Len(s)]
  <2>1. \A i \in 1 .. Len(s) : s[i] # kv_node_tail
    BY <1>3, <1>10 DEF HeapInv
  <2>2. kv_node_head' = kv_node_head
    <3>1. 1 \in 1 .. Len(s) /\ s[1] \in Cells
      BY <1>3, <1>10
    <3> QED
      BY <1>5, <1>10, <3>1, StoreAssumption DEF CreateNode
  <2>3. Lists(s)'
    BY <1>3, <1>5, <1>6, <2>1, <2>2 DEF Lists
  <2>4. \A i, j \in 1 .. Len(s) : heap'[s[i]].key = heap'[s[j]].key => i = j
    BY <1>6 DEF HeapInv
  <2>5. HeapInv(s)'
    BY <1>1, <1>4, <2>3, <2>4 DEF HeapInv
  <2>6. \/ View(s)' = View(s)
        \/ \E i \in 1 .. Len(s) : View(s)' = [View(s) EXCEPT ![i].value = Damaged]
    <3>1. CASE \A i \in 1 .. Len(s) : ValueOf(s[i])' = ValueOf(s[i])
      BY <1>6, <3>1 DEF View
    <3>2. CASE \E i \in 1 .. Len(s) : ValueOf(s[i])' # ValueOf(s[i])
      <4>1. PICK i \in 1 .. Len(s) : ValueOf(s[i])' # ValueOf(s[i])
        BY <3>2
      <4>2. heap[s[i]].value = kv_node_tail /\ ValueOf(s[i])' = Damaged
        BY <1>8, <4>1
      <4>3. \A j \in 1 .. Len(s) : j # i => ValueOf(s[j])' = ValueOf(s[j])
        BY <1>3, <1>8, <4>2
      <4>4. View(s)' = [View(s) EXCEPT ![i].value = Damaged]
        BY <1>6, <4>2, <4>3 DEF View
      <4> QED
        BY <4>4
    <3> QED
      BY <3>1, <3>2
  <2> QED
    BY <1>1, <1>2, <1>4, <1>10, <2>5, <2>6 DEF CellsOf
<1> QED
  BY <1>9, <1>10

-----------------------------------------------------------------------------
(***************************************************************************)
(* DELETE.                                                                 *)
(***************************************************************************)

\* s with its i-th element taken out
Without(s, i) == [j \in 1 .. Len(s) - 1 |-> IF j < i THEN s[j] ELSE s[j + 1]]

\* It is a sequence, and where its elements were.
LEMMA WithoutSeq ==
    ASSUME NEW S, NEW s \in Seq(S), NEW i \in 1 .. Len(s)
    PROVE  /\ Without(s, i) \in Seq(S) /\ Len(Without(s, i)) = Len(s) - 1
           /\ \A j \in 1 .. Len(s) - 1 :
                /\ j < i => j \in 1 .. Len(s) /\ Without(s, i)[j] = s[j]
                /\ ~(j < i) => j + 1 \in 1 .. Len(s) /\ Without(s, i)[j] = s[j + 1]
<1>1. Len(s) \in Nat /\ Len(s) - 1 \in Nat
  OBVIOUS
<1>2. \A j \in 1 .. Len(s) - 1 : j \in 1 .. Len(s) /\ j + 1 \in 1 .. Len(s)
  BY <1>1
<1> QED
  BY <1>1, <1>2 DEF Without

\* The node is freed, and the link to it leads to the one behind it.
LEMMA DeleteEffect ==
    ASSUME NEW s, HeapInv(s), NEW i \in 1 .. Len(s), DeleteNode(s[i])
    PROVE  /\ HeapTypeOK' /\ kv_node_tail' = kv_node_tail
           /\ kv_node_head' = IF i = 1 THEN heap[s[i]].next ELSE kv_node_head
           /\ heap'[s[i]] = Free
           /\ \A d \in Cells \ {s[i]} :
                /\ IsNode(d)' <=> IsNode(d)
                /\ IsBuffer(d) => heap'[d] = heap[d]
                /\ IsNode(d) =>
                     /\ heap'[d].key = heap[d].key /\ heap'[d].value = heap[d].value
                     /\ heap'[d].next = IF i # 1 /\ d = s[i - 1] THEN heap[s[i]].next
                                        ELSE heap[d].next
<1> DEFINE c == s[i]
<1>1. /\ s \in Seq(Cells) /\ Len(s) \in Nat
      /\ \A j \in 1 .. Len(s) : /\ s[j] \in Cells /\ IsNode(s[j])
                                /\ heap[s[j]].next = IF j = Len(s) THEN NULL ELSE s[j + 1]
      /\ \A j, m \in 1 .. Len(s) : s[j] = s[m] => j = m
  BY ListCells
<1>2. /\ HeapTypeOK /\ Lists(s) /\ Listed = CellsOf(s) /\ c \in Cells /\ c # NULL
      /\ kv_node_head = s[1] /\ 1 \in 1 .. Len(s) /\ heap[c].next \in Cells \union {NULL}
  <2>1. HeapTypeOK /\ Lists(s) /\ Len(s) # 0 /\ c \in Cells /\ 1 \in 1 .. Len(s)
    BY <1>1 DEF HeapInv
  <2> QED
    BY <1>1, <2>1, ListedIs, CellKinds DEF Lists, WalkSeesList
<1>3. CASE c = kv_node_head
  <2>1. i = 1
    BY <1>1, <1>2, <1>3
  <2>2. kv_node_head' = heap[c].next /\ heap' = [heap EXCEPT ![c] = Free]
    BY <1>3 DEF DeleteNode
  <2>3. HeapTypeOK'
    BY <1>2, <2>2, FreshCells DEF HeapTypeOK, DeleteNode
  <2>4. heap'[c] = Free /\ \A d \in Cells \ {c} : heap'[d] = heap[d]
    BY <1>2, <2>2 DEF HeapTypeOK
  <2> QED
    BY <2>1, <2>2, <2>3, <2>4 DEF DeleteNode, IsNode
<1>4. CASE c # kv_node_head
  <2>1. PICK p \in Listed : /\ heap[p].next = c /\ kv_node_head' = kv_node_head
                            /\ heap' = [heap EXCEPT ![p].next = heap[c].next, ![c] = Free]
    BY <1>4 DEF DeleteNode
  <2>2. PICK j \in 1 .. Len(s) : p = s[j]
    BY <1>2 DEF CellsOf
  <2>3. p \in Cells /\ IsNode(p) /\ heap[p] \in NodeCells
    BY <1>1, <1>2, <2>2, CellKinds
  <2>4. i # 1 /\ p = s[i - 1] /\ p # c
    <3>1. j # Len(s) /\ s[j + 1] = c
      BY <1>1, <1>2, <2>1, <2>2
    <3>2. j + 1 \in 1 .. Len(s)
      BY <1>1, <3>1
    <3>3. j + 1 = i
      BY <1>1, <3>1, <3>2
    <3>4. i # 1 /\ j = i - 1 /\ j # i
      BY <1>1, <3>3
    <3> QED
      BY <1>1, <2>2, <3>4
  <2> DEFINE node == [heap[p] EXCEPT !.next = heap[c].next]
  <2>5. /\ node \in CellStates /\ node.kind = "node" /\ node.next = heap[c].next
        /\ node.key = heap[p].key /\ node.value = heap[p].value
    BY <1>2, <2>3, SetNext
  <2>6. heap' = [heap EXCEPT ![p] = node, ![c] = Free]
    BY <2>1
  <2> HIDE DEF node
  <2>7. HeapTypeOK'
    BY <1>2, <2>1, <2>5, <2>6, FreshCells DEF HeapTypeOK, DeleteNode
  <2>8. /\ heap'[c] = Free /\ heap'[p] = node
        /\ \A d \in Cells \ {c, p} : heap'[d] = heap[d]
    BY <1>2, <2>3, <2>4, <2>6 DEF HeapTypeOK
  <2>9. IsNode(p)' /\ ~IsBuffer(p)
    BY <1>2, <2>3, <2>5, <2>8, CellKinds DEF IsNode
  <2>10. ASSUME NEW d \in Cells \ {c}
         PROVE  /\ IsNode(d)' <=> IsNode(d)
                /\ IsBuffer(d) => heap'[d] = heap[d]
                /\ IsNode(d) =>
                     /\ heap'[d].key = heap[d].key /\ heap'[d].value = heap[d].value
                     /\ heap'[d].next = IF i # 1 /\ d = s[i - 1] THEN heap[c].next
                                        ELSE heap[d].next
    <3>1. CASE d = p
      BY <2>3, <2>4, <2>5, <2>8, <2>9, <3>1
    <3>2. CASE d # p
      <4>1. heap'[d] = heap[d]
        BY <2>8, <3>2
      <4> QED
        BY <2>4, <3>2, <4>1 DEF IsNode
    <3> QED
      BY <3>1, <3>2
  <2> QED
    BY <2>1, <2>4, <2>7, <2>8, <2>10 DEF DeleteNode
<1> QED
  BY <1>3, <1>4

\* After a DELETE each node left has a buffer of its own.
LEMMA DeleteOwns ==
    ASSUME NEW s, HeapInv(s), NEW i \in 1 .. Len(s), DeleteNode(s[i])
    PROVE  OwnBuffers'
<1> DEFINE c == s[i]
<1>1. /\ HeapTypeOK /\ OwnBuffers /\ c \in Cells /\ IsNode(c) /\ heap'[c] = Free
      /\ \A d \in Cells \ {c} : /\ IsNode(d)' <=> IsNode(d)
                                /\ IsBuffer(d) => heap'[d] = heap[d]
                                /\ IsNode(d) => heap'[d].value = heap[d].value
  <2>1. HeapTypeOK /\ OwnBuffers /\ c \in Cells /\ IsNode(c)
    BY ListCells DEF HeapInv
  <2> QED
    BY <2>1, DeleteEffect
<1>2. ~IsNode(c)' /\ ~IsBuffer(c)
  BY <1>1, CellKinds, FreshCells DEF IsNode
<1>3. ASSUME NEW d \in Cells, IsNode(d)' PROVE IsBuffer(heap[d].value)'
  <2>1. d # c /\ IsNode(d)
    BY <1>1, <1>2, <1>3
  <2>2. PICK v \in Cells : heap[d].value = v /\ heap'[d].value = v /\ IsBuffer(v)
    BY <1>1, <2>1, CellKinds DEF OwnBuffers, IsBuffer
  <2>3. heap'[v] = heap[v]
    BY <1>1, <1>2, <2>2
  <2> QED
    BY <2>2, <2>3 DEF IsBuffer
<1>4. ASSUME NEW d \in Cells, NEW e \in Cells, IsNode(d)', IsNode(e)',
             heap'[d].value = heap'[e].value
      PROVE  d = e
  BY <1>1, <1>2, <1>4 DEF OwnBuffers
<1> QED
  BY <1>3, <1>4 DEF OwnBuffers

\* One node is taken out, whatever kv_node_tail points to afterwards.
LEMMA DeleteKeeps ==
    ASSUME NEW s, HeapInv(s), NEW i \in 1 .. Len(s), DeleteNode(s[i])
    PROVE  /\ HeapInv(Without(s, i))' /\ View(Without(s, i))' = Without(View(s), i)
           /\ kv_node_tail' = kv_node_tail
           /\ \A j \in 1 .. Len(s) - 1 :
                /\ heap'[Without(s, i)[j]].key = heap[Without(s, i)[j]].key
                /\ ValueOf(Without(s, i)[j])' = ValueOf(Without(s, i)[j])
<1> DEFINE c == s[i]
           t == Without(s, i)
<1>1. /\ s \in Seq(Cells) /\ Len(s) \in Nat
      /\ \A j \in 1 .. Len(s) : /\ s[j] \in Cells /\ IsNode(s[j])
                                /\ heap[s[j]].value \in Cells /\ IsBuffer(heap[s[j]].value)
                                /\ heap[s[j]].next = IF j = Len(s) THEN NULL ELSE s[j + 1]
      /\ \A j, m \in 1 .. Len(s) : s[j] = s[m] => j = m
  BY ListCells
<1>2. /\ HeapTypeOK' /\ OwnBuffers' /\ kv_node_tail' = kv_node_tail
      /\ kv_node_head' = IF i = 1 THEN heap[c].next ELSE kv_node_head
      /\ \A d \in Cells \ {c} :
           /\ IsNode(d)' <=> IsNode(d)
           /\ IsBuffer(d) => heap'[d] = heap[d]
           /\ IsNode(d) =>
                /\ heap'[d].key = heap[d].key /\ heap'[d].value = heap[d].value
                /\ heap'[d].next = IF i # 1 /\ d = s[i - 1] THEN heap[c].next
                                   ELSE heap[d].next
  BY DeleteEffect, DeleteOwns
<1>3. /\ t \in Seq(Cells) /\ Len(t) = Len(s) - 1
      /\ \A j \in 1 .. Len(s) - 1 :
           /\ j < i => j \in 1 .. Len(s) /\ t[j] = s[j]
           /\ ~(j < i) => j + 1 \in 1 .. Len(s) /\ t[j] = s[j + 1]
  BY <1>1, WithoutSeq
<1> HIDE DEF t
<1>4. \A j \in 1 .. Len(t) : \E m \in 1 .. Len(s) \ {i} : t[j] = s[m] /\ m = IF j < i THEN j ELSE j + 1
  BY <1>1, <1>3
<1>5. \A j \in 1 .. Len(s) : j # i => s[j] \in Cells \ {c}
  BY <1>1
<1>6. \A j \in 1 .. Len(t) : t[j] \in Cells \ {c} /\ IsNode(t[j])
  BY <1>1, <1>4, <1>5
<1>7. \A j \in 1 .. Len(t) :
        /\ IsNode(t[j])' /\ heap'[t[j]].key = heap[t[j]].key
        /\ ValueOf(t[j])' = ValueOf(t[j])
  <2> TAKE j \in 1 .. Len(t)
  <2>1. /\ IsNode(t[j])' /\ heap'[t[j]].key = heap[t[j]].key
        /\ heap'[t[j]].value = heap[t[j]].value
    BY <1>2, <1>6
  <2>2. PICK v \in Cells : heap[t[j]].value = v /\ IsBuffer(v)
    <3>1. PICK m \in 1 .. Len(s) : t[j] = s[m]
      BY <1>4
    <3> QED
      BY <1>1, <3>1
  <2>3. v # c
    BY <1>1, <2>2, CellKinds DEF HeapInv
  <2>4. heap'[v] = heap[v]
    BY <1>2, <2>2, <2>3
  <2> QED
    BY <2>1, <2>2, <2>4 DEF ValueOf
<1>8. \A j \in 1 .. Len(t) : heap'[t[j]].next = IF j = Len(t) THEN NULL ELSE t[j + 1]
  <2> TAKE j \in 1 .. Len(t)
  <2>1. heap'[t[j]].next = IF i # 1 /\ t[j] = s[i - 1] THEN heap[c].next ELSE heap[t[j]].next
    BY <1>2, <1>6
  <2>2. CASE j + 1 < i
    <3>1. j \in 1 .. Len(s) /\ j # i - 1 /\ i - 1 \in 1 .. Len(s) /\ j # Len(s) /\ j < i
      BY <1>1, <1>3, <2>2
    <3>2. t[j] = s[j] /\ t[j + 1] = s[j + 1] /\ j # Len(t)
      BY <1>1, <1>3, <2>2
    <3> QED
      BY <1>1, <2>1, <3>1, <3>2
  <2>3. CASE j + 1 = i
    <3>1. j \in 1 .. Len(s) /\ j = i - 1 /\ i # 1 /\ t[j] = s[i - 1]
      BY <1>1, <1>3, <2>3
    <3>2. heap'[t[j]].next = IF i = Len(s) THEN NULL ELSE s[i + 1]
      BY <1>1, <2>1, <3>1
    <3>3. CASE i = Len(s)
      BY <1>3, <3>1, <3>2, <3>3
    <3>4. CASE i # Len(s)
      <4>1. i \in 1 .. Len(s) - 1 /\ j # Len(t)
        BY <1>1, <1>3, <2>3, <3>4
      <4> QED
        BY <1>3, <2>3, <3>2, <3>4, <4>1
    <3> QED
      BY <3>3, <3>4
  <2>4. CASE i <= j
    <3>1. j + 1 \in 1 .. Len(s) /\ t[j] = s[j + 1] /\ (i # 1 => i - 1 \in 1 .. Len(s) /\ i - 1 # j + 1)
      BY <1>1, <1>3, <2>4
    <3>2. heap'[t[j]].next = IF j + 1 = Len(s) THEN NULL ELSE s[j + 2]
      BY <1>1, <2>1, <3>1
    <3>3. CASE j = Len(t)
      BY <1>1, <1>3, <3>2, <3>3
    <3>4. CASE j # Len(t)
      <4>1. j + 1 \in 1 .. Len(s) - 1 /\ ~(j + 1 < i) /\ j + 1 # Len(s)
        BY <1>1, <1>3, <2>4, <3>4
      <4> QED
        BY <1>3, <3>2, <3>4, <4>1
    <3> QED
      BY <3>3, <3>4
  <2> QED
    BY <1>1, <1>3, <2>2, <2>3, <2>4
<1>9. \A j, m \in 1 .. Len(t) : t[j] = t[m] => j = m
  <2> TAKE j, m \in 1 .. Len(t)
  <2>1. PICK j1 \in 1 .. Len(s) \ {i} : t[j] = s[j1] /\ j1 = IF j < i THEN j ELSE j + 1
    BY <1>4
  <2>2. PICK m1 \in 1 .. Len(s) \ {i} : t[m] = s[m1] /\ m1 = IF m < i THEN m ELSE m + 1
    BY <1>4
  <2>3. j1 = m1 => j = m
    BY <1>1, <2>1, <2>2
  <2> QED
    BY <1>1, <2>1, <2>2, <2>3
<1>10. \A j, m \in 1 .. Len(t) : heap'[t[j]].key = heap'[t[m]].key => j = m
  <2> TAKE j, m \in 1 .. Len(t)
  <2>1. PICK j1 \in 1 .. Len(s) \ {i} : t[j] = s[j1]
    BY <1>4
  <2>2. PICK m1 \in 1 .. Len(s) \ {i} : t[m] = s[m1]
    BY <1>4
  <2>3. heap[s[j1]].key = heap[s[m1]].key => j1 = m1
    BY <2>1, <2>2 DEF HeapInv
  <2> QED
    BY <1>7, <1>9, <2>1, <2>2, <2>3
<1>11. kv_node_head' = IF Len(t) = 0 THEN NULL ELSE t[1]
  <2>1. kv_node_head = s[1] /\ 1 \in 1 .. Len(s)
    BY <1>1 DEF HeapInv, Lists
  <2>2. CASE i = 1
    BY <1>1, <1>2, <1>3, <2>2
  <2>3. CASE i # 1
    BY <1>1, <1>2, <1>3, <2>1, <2>3
  <2> QED
    BY <2>2, <2>3
<1>12. Lists(t)'
  BY <1>3, <1>7, <1>8, <1>9, <1>11 DEF Lists
<1>13. \A j \in 1 .. Len(t) : kv_node_tail' = t[j] => j = Len(t)
  <2> SUFFICES ASSUME NEW j \in 1 .. Len(t), kv_node_tail = t[j] PROVE j = Len(t)
    BY <1>2
  <2>1. PICK m \in 1 .. Len(s) \ {i} : t[j] = s[m] /\ m = IF j < i THEN j ELSE j + 1
    BY <1>4
  <2>2. m = Len(s)
    BY <2>1 DEF HeapInv
  <2> QED
    BY <1>1, <1>3, <2>1, <2>2
<1>14. View(t)' = Without(View(s), i)
  <2>1. /\ View(s) = [j \in 1 .. Len(s) |-> [key |-> heap[s[j]].key, value |-> ValueOf(s[j])]]
        /\ Len(View(s)) = Len(s)
    BY <1>1 DEF View
  <2>2. View(t)' = [j \in 1 .. Len(t) |-> [key |-> heap[t[j]].key, value |-> ValueOf(t[j])]]
    BY <1>7 DEF View
  <2>3. ASSUME NEW j \in 1 .. Len(t)
        PROVE  [key |-> heap[t[j]].key, value |-> ValueOf(t[j])]
                 = IF j < i THEN View(s)[j] ELSE View(s)[j + 1]
    BY <1>3, <2>1, <2>3
  <2> QED
    BY <1>3, <2>1, <2>2, <2>3 DEF Without
<1>15. HeapInv(t)'
  BY <1>2, <1>10, <1>12, <1>13 DEF HeapInv
<1> QED
  BY <1>2, <1>3, <1>7, <1>14, <1>15 DEF t

-----------------------------------------------------------------------------
(***************************************************************************)
(* The values: UPDATE's new buffer, and the recv into a buffer.            *)
(***************************************************************************)

\* One buffer of the node on place i changes, and maybe its cell: the list and the
\* other values stay.  Both operations on values are of this form.
OneValueSet(s, i, v) ==
    /\ HeapInv(s)'
    /\ View(s)' = [View(s) EXCEPT ![i].value = v]
    /\ kv_node_tail' = kv_node_tail

\* In the view, only what the operation wrote is different.
LEMMA ViewOneValue ==
    ASSUME NEW s \in Seq(Cells), NEW i \in 1 .. Len(s), NEW v,
           \A j \in 1 .. Len(s) : heap'[s[j]].key = heap[s[j]].key,
           \A j \in 1 .. Len(s) : ValueOf(s[j])' = IF j = i THEN v ELSE ValueOf(s[j])
    PROVE  View(s)' = [View(s) EXCEPT ![i].value = v]
<1>1. View(s)' = [j \in 1 .. Len(s) |-> [key |-> heap[s[j]].key,
                                         value |-> IF j = i THEN v ELSE ValueOf(s[j])]]
  BY DEF View
<1>2. [View(s) EXCEPT ![i].value = v]
        = [j \in 1 .. Len(s) |-> [key |-> heap[s[j]].key,
                                  value |-> IF j = i THEN v ELSE ValueOf(s[j])]]
  <2>1. ASSUME NEW j \in 1 .. Len(s)
        PROVE  [View(s) EXCEPT ![i].value = v][j]
                 = [key |-> heap[s[j]].key, value |-> IF j = i THEN v ELSE ValueOf(s[j])]
    BY DEF View
  <2> QED
    BY <2>1 DEF View
<1> QED
  BY <1>1, <1>2

\* UPDATE's new buffer, in a free cell or in the one just freed
LEMMA ReplaceKeeps ==
    ASSUME NEW s, HeapInv(s), NEW i \in 1 .. Len(s), NEW b \in Cells,
           ReplaceBuffer(s[i], b)
    PROVE  OneValueSet(s, i, Uninit)
<1> DEFINE c == s[i]
           o == heap[c].value
<1>1. /\ s \in Seq(Cells) /\ HeapTypeOK /\ c \in Cells /\ IsNode(c) /\ heap[c] \in NodeCells
      /\ o \in Cells /\ IsBuffer(o) /\ UNCHANGED <<kv_node_head, kv_node_tail>>
  BY ListCells, CellKinds DEF HeapInv, ReplaceBuffer
<1>2. o # c /\ b # c /\ (IsFree(b) \/ b = o)
  BY <1>1, CellKinds DEF ReplaceBuffer
<1> DEFINE node == [heap[c] EXCEPT !.value = b]
<1>3. /\ node \in CellStates /\ node.kind = "node" /\ node.value = b
      /\ node.key = heap[c].key /\ node.next = heap[c].next
  BY <1>1, SetValue
<1>4. heap' = [heap EXCEPT ![o] = Free, ![c] = node, ![b] = FreshBuffer]
  BY <1>1, <1>2 DEF ReplaceBuffer, HeapTypeOK
<1> HIDE DEF node
<1>5. /\ HeapTypeOK'
      /\ heap'[c] = node /\ heap'[b] = FreshBuffer /\ (o # b => heap'[o] = Free)
      /\ \A d \in Cells : d \notin {c, o, b} => heap'[d] = heap[d]
  BY <1>1, <1>2, <1>3, <1>4, FreshCells DEF HeapTypeOK
<1>6. \A d \in Cells :
        /\ IsNode(d)' <=> IsNode(d)
        /\ IsNode(d) =>
             /\ heap'[d].key = heap[d].key /\ heap'[d].next = heap[d].next
             /\ heap'[d].value = IF d = c THEN b ELSE heap[d].value
  <2> TAKE d \in Cells
  <2>1. CASE d = c
    BY <1>1, <1>3, <1>5, <2>1 DEF IsNode
  <2>2. CASE d # c /\ d \in {o, b}
    <3>1. ~IsNode(d)
      BY <1>1, <1>2, <2>2, CellKinds
    <3>2. ~IsNode(d)'
      BY <1>5, <2>2, FreshCells DEF IsNode
    <3> QED
      BY <3>1, <3>2
  <2>3. CASE d \notin {c, o, b}
    BY <1>5, <2>3 DEF IsNode
  <2> QED
    BY <2>1, <2>2, <2>3
<1>7. ASSUME NEW d \in Cells, IsNode(d), d # c
      PROVE  \E v \in Cells : /\ heap[d].value = v /\ v \notin {c, o, b}
                              /\ IsBuffer(v) /\ heap'[v] = heap[v]
  <2>1. PICK v \in Cells : heap[d].value = v /\ IsBuffer(v)
    BY <1>1, <1>7, CellKinds DEF HeapInv, OwnBuffers, IsBuffer
  <2>2. v # o
    BY <1>1, <1>7, <2>1 DEF HeapInv, OwnBuffers
  <2>3. v \notin {c, b}
    BY <1>1, <1>2, <2>1, <2>2, CellKinds
  <2> QED
    BY <1>5, <2>1, <2>2, <2>3
<1>8. OwnBuffers'
  <2>1. ASSUME NEW d \in Cells, IsNode(d)' PROVE IsBuffer(heap[d].value)'
    <3>1. CASE d = c
      <4>1. heap'[d].value = b /\ b # NULL
        BY <1>1, <1>6, <3>1, StoreAssumption
      <4> QED
        BY <1>5, <4>1, FreshCells DEF IsBuffer
    <3>2. CASE d # c
      <4>1. PICK v \in Cells : heap[d].value = v /\ IsBuffer(v) /\ heap'[v] = heap[v]
        BY <1>6, <1>7, <2>1, <3>2
      <4>2. heap'[d].value = v
        BY <1>6, <2>1, <3>2, <4>1
      <4> QED
        BY <4>1, <4>2 DEF IsBuffer
    <3> QED
      BY <3>1, <3>2
  <2>2. ASSUME NEW d \in Cells, NEW e \in Cells, IsNode(d)', IsNode(e)',
               heap'[d].value = heap'[e].value
        PROVE  d = e
    <3>1. IsNode(d) /\ IsNode(e)
      BY <1>6, <2>2
    <3>2. CASE d # c /\ e # c
      BY <1>6, <2>2, <3>1, <3>2 DEF HeapInv, OwnBuffers
    <3>3. CASE d = c /\ e # c
      <4>1. heap[e].value # b
        BY <1>7, <3>1, <3>3
      <4> QED
        BY <1>6, <2>2, <3>1, <3>3, <4>1
    <3>4. CASE d # c /\ e = c
      <4>1. heap[d].value # b
        BY <1>7, <3>1, <3>4
      <4> QED
        BY <1>6, <2>2, <3>1, <3>4, <4>1
    <3> QED
      BY <3>2, <3>3, <3>4
  <2> QED
    BY <2>1, <2>2 DEF OwnBuffers
<1>9. Lists(s)'
  BY <1>1, <1>6, ListCells DEF HeapInv, Lists
<1>10. HeapInv(s)'
  <2>1. \A j \in 1 .. Len(s) : heap'[s[j]].key = heap[s[j]].key
    BY <1>6, ListCells
  <2> QED
    BY <1>1, <1>5, <1>8, <1>9, <2>1 DEF HeapInv
<1>11. \A j \in 1 .. Len(s) :
         ValueOf(s[j])' = IF j = i THEN Uninit ELSE ValueOf(s[j])
  <2> TAKE j \in 1 .. Len(s)
  <2>1. CASE j = i
    BY <1>1, <1>5, <1>6, <2>1, FreshCells DEF ValueOf
  <2>2. CASE j # i
    <3>1. s[j] \in Cells /\ IsNode(s[j]) /\ s[j] # c
      BY <2>2, ListCells
    <3>2. PICK v \in Cells : heap[s[j]].value = v /\ heap'[v] = heap[v]
      BY <1>7, <3>1
    <3> QED
      BY <1>6, <2>2, <3>1, <3>2 DEF ValueOf
  <2> QED
    BY <2>1, <2>2
<1>12. View(s)' = [View(s) EXCEPT ![i].value = Uninit]
  <2>1. \A j \in 1 .. Len(s) : heap'[s[j]].key = heap[s[j]].key
    BY <1>6, ListCells
  <2> QED
    BY <1>1, <1>11, <2>1, ViewOneValue
<1> QED
  BY <1>1, <1>10, <1>12 DEF OneValueSet

\* The recv of a value, into a node of the list or one that is lost
LEMMA StoreKeeps ==
    ASSUME NEW s, HeapInv(s), NEW c \in Cells, IsNode(c), NEW v \in Values,
           NEW more \in Endings, StoreValue(c, v, more)
    PROVE  /\ \A i \in 1 .. Len(s) : c = s[i] => OneValueSet(s, i, v)
           /\ c \notin CellsOf(s) =>
                HeapInv(s)' /\ View(s)' = View(s) /\ kv_node_tail' = kv_node_tail
           /\ IsNode(c)' /\ heap'[c].key = heap[c].key
<1>1. /\ s \in Seq(Cells) /\ HeapTypeOK /\ OwnBuffers
      /\ UNCHANGED <<kv_node_head, kv_node_tail>>
  BY ListCells DEF HeapInv, StoreValue
<1>2. PICK o \in Cells : heap[c].value = o /\ IsBuffer(o)
  BY <1>1, CellKinds DEF OwnBuffers, IsBuffer
<1>3. /\ HeapTypeOK' /\ heap'[o] = Buffer(v, more)
      /\ \A d \in Cells : d # o => heap'[d] = heap[d]
  BY <1>1, <1>2, FreshCells DEF HeapTypeOK, StoreValue
<1>4. \A d \in Cells : IsBuffer(d)' <=> IsBuffer(d)
  BY <1>2, <1>3, FreshCells DEF IsBuffer
<1>5. \A d \in Cells : /\ IsNode(d)' <=> IsNode(d)
                       /\ IsNode(d) => heap'[d] = heap[d]
  BY <1>1, <1>2, <1>3, FreshCells, CellKinds DEF IsNode
<1>6. OwnBuffers'
  <2>1. ASSUME NEW d \in Cells, IsNode(d)' PROVE IsBuffer(heap[d].value)'
    <3>1. PICK w \in Cells : heap[d].value = w /\ IsBuffer(w) /\ heap'[d].value = w
      BY <1>1, <1>5, <2>1, CellKinds DEF OwnBuffers, IsBuffer
    <3> QED
      BY <1>4, <3>1 DEF IsBuffer
  <2> QED
    BY <1>1, <1>5, <2>1 DEF OwnBuffers
<1>7. Lists(s)'
  BY <1>1, <1>5, ListCells DEF HeapInv, Lists
<1>8. HeapInv(s)'
  BY <1>1, <1>3, <1>5, <1>6, <1>7, ListCells DEF HeapInv
<1>9. \A j \in 1 .. Len(s) :
         ValueOf(s[j])' = IF s[j] = c THEN v ELSE ValueOf(s[j])
  <2> TAKE j \in 1 .. Len(s)
  <2>1. PICK w \in Cells : /\ heap[s[j]].value = w /\ heap'[s[j]] = heap[s[j]]
                           /\ s[j] \in Cells /\ IsNode(s[j])
    BY <1>5, ListCells
  <2>2. w = o <=> s[j] = c
    BY <1>1, <1>2, <2>1 DEF OwnBuffers
  <2> QED
    BY <1>3, <2>1, <2>2, FreshCells DEF ValueOf
<1>10. \A j \in 1 .. Len(s) : heap'[s[j]].key = heap[s[j]].key
  BY <1>5, ListCells
<1>11. ASSUME NEW i \in 1 .. Len(s), c = s[i] PROVE OneValueSet(s, i, v)
  <2>1. s \in Seq(Cells)
    BY <1>1
  <2>2. \A j \in 1 .. Len(s) : s[j] = c <=> j = i
    BY <1>11, ListCells
  <2>3. \A j \in 1 .. Len(s) : ValueOf(s[j])' = IF j = i THEN v ELSE ValueOf(s[j])
    BY <1>9, <2>2
  <2>4. View(s)' = [View(s) EXCEPT ![i].value = v]
    <3> DEFINE set == [j \in 1 .. Len(s) |->
                         [key |-> heap[s[j]].key,
                          value |-> IF j = i THEN v ELSE ValueOf(s[j])]]
    <3>1. View(s)' = set
      BY <1>10, <2>3 DEF View
    <3>2. [View(s) EXCEPT ![i].value = v] = set
      <4>1. ASSUME NEW j \in 1 .. Len(s) PROVE [View(s) EXCEPT ![i].value = v][j] = set[j]
        BY DEF View
      <4> QED
        BY <4>1 DEF View
    <3> QED
      BY <3>1, <3>2
  <2> QED
    BY <1>1, <1>8, <2>4 DEF OneValueSet
<1>12. ASSUME c \notin CellsOf(s) PROVE View(s)' = View(s)
  <2>1. \A j \in 1 .. Len(s) : s[j] # c
    BY <1>12 DEF CellsOf
  <2> QED
    BY <1>9, <1>10, <2>1 DEF View
<1> QED
  BY <1>1, <1>5, <1>8, <1>11, <1>12

-----------------------------------------------------------------------------
(***************************************************************************)
(* Every operation is the one of KVList.                                   *)
(***************************************************************************)

\* The variables of KVList, by the nodes s that the walk visits
LEMMA Mapping ==
    ASSUME NEW s, HeapInv(s)
    PROVE  /\ Listing = View(s) /\ DOMAIN Listing = 1 .. Len(s) /\ Len(Listing) = Len(s)
           /\ Listing = <<>> <=> Len(s) = 0
           /\ TailLost <=> Len(s) # 0 /\ kv_node_tail # s[Len(s)]
<1>1. Lists(s) /\ Len(s) \in Nat
  BY ListCells DEF HeapInv
<1>2. /\ Listing = View(s)
      /\ Len(s) # 0 => Walk[Len(s) - 1] = s[Len(s)]
  BY <1>1, ListedIs DEF WalkSeesList
<1>3. DOMAIN View(s) = 1 .. Len(s) /\ Len(View(s)) = Len(s)
  BY <1>1 DEF View
<1>4. View(s) = <<>> <=> Len(s) = 0
  BY <1>1 DEF View
<1> QED
  BY <1>1, <1>2, <1>3, <1>4 DEF TailLost

\* The same of the state after a step.
LEMMA MappingNext ==
    ASSUME NEW s, HeapInv(s)'
    PROVE  /\ Listing' = View(s)'
           /\ TailLost' <=> Len(s) # 0 /\ kv_node_tail' # s[Len(s)]
<1>1. s \in Seq(Cells) /\ Lists(s)' /\ Len(s) \in Nat
  BY DEF HeapInv, Lists
<1>2. /\ Listing' = View(s)'
      /\ Len(s) # 0 => Walk'[Len(s) - 1] = s[Len(s)]
  BY <1>1, ListedIsNext
<1>3. Len(View(s)') = Len(s) /\ (View(s)' = <<>> <=> Len(s) = 0)
  BY <1>1 DEF View
<1> QED
  BY <1>1, <1>2, <1>3 DEF TailLost

\* RemoveAt of the community modules takes the i-th element out.
LEMMA RemoveAtIs ==
    ASSUME NEW S, NEW l \in Seq(S), NEW i \in 1 .. Len(l)
    PROVE  Without(l, i) = List!RemoveAt(l, i)
<1> DEFINE a == SubSeq(l, 1, i - 1)
           b == SubSeq(l, i + 1, Len(l))
<1>1. Len(l) \in Nat /\ i - 1 \in 0 .. Len(l) - 1
  OBVIOUS
<1>2. /\ a \in Seq(S) /\ Len(a) = i - 1
      /\ \A j \in 1 .. i - 1 : a[j] = l[j]
  BY <1>1
<1>3. /\ b \in Seq(S) /\ Len(b) = Len(l) - i
      /\ \A j \in 1 .. Len(l) - i : b[j] = l[j + i]
  BY <1>1
<1> HIDE DEF a, b
<1>4. /\ a \o b \in Seq(S) /\ Len(a \o b) = Len(l) - 1
      /\ \A j \in 1 .. Len(l) - 1 : (a \o b)[j] = IF j < i THEN l[j] ELSE l[j + 1]
  <2>1. /\ a \o b \in Seq(S) /\ Len(a \o b) = Len(l) - 1
        /\ \A j \in 1 .. Len(l) - 1 :
             (a \o b)[j] = IF j <= i - 1 THEN a[j] ELSE b[j - (i - 1)]
    BY <1>1, <1>2, <1>3, ConcatProperties
  <2>2. ASSUME NEW j \in 1 .. Len(l) - 1
        PROVE  (a \o b)[j] = IF j < i THEN l[j] ELSE l[j + 1]
    <3>1. CASE j < i
      BY <1>1, <1>2, <2>1, <3>1
    <3>2. CASE ~(j < i)
      <4>1. j - (i - 1) \in 1 .. Len(l) - i /\ (j - (i - 1)) + i = j + 1
        BY <1>1, <3>2
      <4> QED
        BY <1>1, <1>3, <2>1, <3>2, <4>1
    <3> QED
      BY <3>1, <3>2
  <2> QED
    BY <2>1, <2>2
<1>5. Without(l, i) \in Seq(S) /\ Len(Without(l, i)) = Len(l) - 1
  BY WithoutSeq
<1>6. \A j \in 1 .. Len(l) - 1 : Without(l, i)[j] = (a \o b)[j]
  BY <1>4 DEF Without
<1>7. Without(l, i) = a \o b
  BY <1>4, <1>5, <1>6, SeqEqual
<1> QED
  BY <1>7 DEF List!RemoveAt, a, b

\* CREATE of a new key is CreateNode of KVList.
LEMMA CreateRefines ==
    ASSUME StoreInv, NEW k \in Keys, NEW n \in Cells, NEW b \in Cells,
           CreateNode(k, n, b), Found(k) = {}
    PROVE  StoreInv' /\ List!CreateNode(k)
<1>1. PICK s : HeapInv(s)
  BY DEF StoreInv
<1>2. \A i \in 1 .. Len(s) : IsNode(s[i]) /\ s[i] \in Listed
  BY <1>1, ListCells, ListedIs DEF HeapInv, WalkSeesList, CellsOf
<1>3. \A i \in 1 .. Len(s) : heap[s[i]].key # k
  BY <1>2 DEF Found
<1>4. /\ Listing = View(s) /\ DOMAIN Listing = 1 .. Len(s)
      /\ Listing = <<>> <=> Len(s) = 0
      /\ TailLost <=> Len(s) # 0 /\ kv_node_tail # s[Len(s)]
      /\ s \in Seq(Cells) /\ Len(s) \in Nat
  BY <1>1, Mapping, ListCells
<1>5. List!Found(k) = {}
  <2>1. \A i \in DOMAIN Listing : Listing[i].key # k
    BY <1>3, <1>4 DEF View
  <2> QED
    BY <2>1 DEF List!Found
<1>6. CASE /\ Len(s) = 0 \/ kv_node_tail = s[Len(s)]
           /\ HeapInv(Append(s, n))' /\ kv_node_tail' = n
           /\ View(Append(s, n))' = Append(View(s), List!NodeOf(k))
  <2> DEFINE t == Append(s, n)
  <2>1. Len(t) # 0 /\ t[Len(t)] = n
    BY <1>4
  <2> HIDE DEF t
  <2>2. HeapInv(t)' /\ View(t)' = Append(View(s), List!NodeOf(k))
    BY <1>6 DEF t
  <2>3. Listing' = Append(Listing, List!NodeOf(k)) /\ TailLost' = FALSE
    BY <1>4, <1>6, <2>1, <2>2, MappingNext DEF TailLost
  <2> QED
    BY <1>4, <1>5, <1>6, <2>2, <2>3 DEF StoreInv, List!CreateNode
<1>7. CASE /\ Len(s) # 0 /\ kv_node_tail # s[Len(s)] /\ n \notin CellsOf(s)
           /\ HeapInv(s)' /\ kv_node_tail' = n
           /\ \/ View(s)' = View(s)
              \/ \E i \in 1 .. Len(s) : View(s)' = [View(s) EXCEPT ![i].value = Damaged]
  <2>1. s[Len(s)] # n
    BY <1>4, <1>7 DEF CellsOf
  <2>2. Listing' = View(s)' /\ TailLost' /\ TailLost
    BY <1>4, <1>7, <2>1, MappingNext
  <2>3. Listing' \in {Listing} \union List!Damage(Listing)
    BY <1>4, <1>7, <2>2 DEF List!Damage
  <2>4. UNCHANGED TailLost
    BY <2>2 DEF TailLost
  <2> QED
    BY <1>4, <1>5, <1>7, <2>2, <2>3, <2>4 DEF StoreInv, List!CreateNode
<1> QED
  BY <1>1, <1>3, <1>6, <1>7, CreateKeeps

\* DELETE of a listed node is DeleteNode of KVList, on the place of the node.
LEMMA DeleteRefines ==
    ASSUME StoreInv, NEW c \in Listed, DeleteNode(c)
    PROVE  StoreInv' /\ \E i \in DOMAIN Listing : List!DeleteNode(i)
<1>1. PICK s : HeapInv(s)
  BY DEF StoreInv
<1>2. PICK i \in 1 .. Len(s) : c = s[i]
  BY <1>1, ListedIs DEF HeapInv, WalkSeesList, CellsOf
<1>3. /\ Listing = View(s) /\ DOMAIN Listing = 1 .. Len(s) /\ Len(Listing) = Len(s)
      /\ TailLost <=> Len(s) # 0 /\ kv_node_tail # s[Len(s)]
  BY <1>1, Mapping
<1>4. /\ s \in Seq(Cells) /\ Len(s) \in Nat
      /\ \A j, m \in 1 .. Len(s) : s[j] = s[m] => j = m
  BY <1>1, ListCells
<1> DEFINE t == Without(s, i)
<1>5. /\ HeapInv(t)' /\ View(t)' = Without(View(s), i) /\ kv_node_tail' = kv_node_tail
  BY <1>1, <1>2, DeleteKeeps
<1>6. /\ Len(t) = Len(s) - 1
      /\ \A j \in 1 .. Len(s) - 1 :
           /\ j < i => j \in 1 .. Len(s) /\ t[j] = s[j]
           /\ ~(j < i) => j + 1 \in 1 .. Len(s) /\ t[j] = s[j + 1]
  BY <1>4, WithoutSeq
<1> HIDE DEF t
<1>7. Listing' = List!RemoveAt(Listing, i)
  <2> DEFINE R == {View(s)[j] : j \in 1 .. Len(s)}
  <2>1. View(s) \in Seq(R) /\ i \in 1 .. Len(View(s))
    BY <1>3, <1>4 DEF View
  <2> HIDE DEF R
  <2>2. Without(View(s), i) = List!RemoveAt(View(s), i)
    BY <2>1, RemoveAtIs
  <2> QED
    BY <1>3, <1>5, <2>2, MappingNext
<1>8. Len(t) # 0 /\ kv_node_tail # t[Len(t)]
        <=> Len(s) > 1 /\ (kv_node_tail # s[Len(s)] \/ i = Len(s))
  <2>1. \A j \in 1 .. Len(s) : kv_node_tail = s[j] => j = Len(s)
    BY <1>1 DEF HeapInv
  <2>2. CASE Len(s) = 1
    BY <1>6, <2>2
  <2>3. CASE Len(s) # 1
    <3>1. Len(s) - 1 \in 1 .. Len(s) - 1 /\ Len(t) # 0 /\ Len(s) > 1
      BY <1>6, <1>4, <2>3
    <3>2. CASE i = Len(s)
      <4>1. t[Len(t)] = s[Len(s) - 1] /\ Len(s) - 1 \in 1 .. Len(s) /\ Len(s) - 1 # Len(s)
        BY <1>6, <1>4, <3>1, <3>2
      <4> QED
        BY <2>1, <3>1, <3>2, <4>1
    <3>3. CASE i # Len(s)
      <4>1. ~(Len(s) - 1 < i) /\ (Len(s) - 1) + 1 = Len(s)
        BY <1>4, <3>3
      <4>2. t[Len(t)] = s[Len(s)]
        BY <1>6, <3>1, <4>1
      <4> QED
        BY <3>1, <3>3, <4>2
    <3> QED
      BY <3>2, <3>3
  <2> QED
    BY <2>2, <2>3
<1>9. TailLost' = (Len(Listing) > 1 /\ (TailLost \/ i = Len(Listing)))
  <2>1. TailLost' <=> Len(t) # 0 /\ kv_node_tail # t[Len(t)]
    BY <1>5, MappingNext
  <2>2. Len(s) # 0
    BY <1>4
  <2>3. TailLost' <=> Len(Listing) > 1 /\ (TailLost \/ i = Len(Listing))
    BY <1>3, <1>8, <2>1, <2>2, Zenon
  <2> QED
    BY <2>3 DEF TailLost
<1> QED
  BY <1>3, <1>5, <1>7, <1>9 DEF StoreInv, List!DeleteNode

\* OneValueSet is UPDATE's new buffer or the recv of a value, by the value that is set.
LEMMA OneValueRefines ==
    ASSUME NEW s, HeapInv(s), NEW i \in 1 .. Len(s), NEW v, OneValueSet(s, i, v)
    PROVE  /\ StoreInv' /\ i \in DOMAIN Listing
           /\ Listing' = [Listing EXCEPT ![i].value = v] /\ UNCHANGED TailLost
<1>1. /\ Listing = View(s) /\ DOMAIN Listing = 1 .. Len(s)
      /\ TailLost <=> Len(s) # 0 /\ kv_node_tail # s[Len(s)]
  BY Mapping
<1>2. /\ HeapInv(s)' /\ View(s)' = [View(s) EXCEPT ![i].value = v]
      /\ kv_node_tail' = kv_node_tail
  BY DEF OneValueSet
<1>3. /\ Listing' = View(s)'
      /\ TailLost' <=> Len(s) # 0 /\ kv_node_tail' # s[Len(s)]
  BY <1>2, MappingNext
<1>4. UNCHANGED TailLost
  BY <1>1, <1>2, <1>3 DEF TailLost
<1> QED
  BY <1>1, <1>2, <1>3, <1>4 DEF StoreInv

\* UPDATE's new buffer is ReplaceBuffer of KVList.
LEMMA ReplaceRefines ==
    ASSUME StoreInv, NEW c \in Listed, NEW b \in Cells, ReplaceBuffer(c, b)
    PROVE  StoreInv' /\ \E i \in DOMAIN Listing : List!ReplaceBuffer(i)
<1>1. PICK s : HeapInv(s)
  BY DEF StoreInv
<1>2. PICK i \in 1 .. Len(s) : c = s[i]
  BY <1>1, ListedIs DEF HeapInv, WalkSeesList, CellsOf
<1>3. OneValueSet(s, i, Uninit)
  BY <1>1, <1>2, ReplaceKeeps
<1> QED
  BY <1>1, <1>3, OneValueRefines DEF List!ReplaceBuffer

\* A value for a lost node leaves the list as it is.
LEMMA StoreRefines ==
    ASSUME StoreInv, NEW c \in Cells, IsNode(c), NEW v \in Values,
           NEW more \in Endings, StoreValue(c, v, more)
    PROVE  /\ StoreInv'
           /\ \/ \E i \in DOMAIN Listing : List!StoreValue(i, v)
              \/ UNCHANGED <<Listing, TailLost>>
<1>1. PICK s : HeapInv(s)
  BY DEF StoreInv
<1>2. CASE c \in CellsOf(s)
  <2>1. PICK i \in 1 .. Len(s) : c = s[i]
    BY <1>2 DEF CellsOf
  <2>2. OneValueSet(s, i, v)
    BY <1>1, <2>1, StoreKeeps
  <2> QED
    BY <1>1, <2>2, OneValueRefines DEF List!StoreValue
<1>3. CASE c \notin CellsOf(s)
  <2>1. HeapInv(s)' /\ View(s)' = View(s) /\ kv_node_tail' = kv_node_tail
    BY <1>1, <1>3, StoreKeeps
  <2>2. Listing' = Listing /\ (TailLost' <=> TailLost)
    BY <1>1, <2>1, Mapping, MappingNext
  <2>3. UNCHANGED <<Listing, TailLost>>
    BY <2>2 DEF TailLost
  <2> QED
    BY <2>1, <2>3 DEF StoreInv
<1> QED
  BY <1>2, <1>3

-----------------------------------------------------------------------------
\* At the start the list is empty.
LEMMA InitStoreRefines == InitStore => StoreInv /\ List!InitList
<1> SUFFICES ASSUME InitStore PROVE StoreInv /\ List!InitList
  OBVIOUS
<1>1. HeapInv(<<>>)
  BY InitHeap
<1>2. Listing = <<>>
  BY <1>1, Mapping
<1> QED
  BY <1>1, <1>2 DEF StoreInv, List!InitList, TailLost

\* What a walk over the list relies on.
LEMMA ListIsSound == StoreInv => ListSound
<1> SUFFICES ASSUME NEW s, HeapInv(s) PROVE ListSound
  BY DEF StoreInv
<1>1. Listed = CellsOf(s) /\ Walk[Cardinality(Cells)] = NULL
  BY ListedIs DEF WalkSeesList, HeapInv
<1>2. \A i \in 1 .. Len(s) : IsNode(s[i]) /\ IsBuffer(heap[s[i]].value)
  BY ListCells
<1>3. \A c \in Listed : IsNode(c) /\ IsBuffer(heap[c].value)
  BY <1>1, <1>2 DEF CellsOf, IsBuffer
<1>4. \A i, j \in 1 .. Len(s) :
        i # j => heap[s[i]].key # heap[s[j]].key /\ heap[s[i]].value # heap[s[j]].value
  BY ListCells DEF HeapInv
<1> QED
  BY <1>1, <1>3, <1>4 DEF CellsOf, ListSound

\* The heap's part of the type invariant
LEMMA HeapHasType == StoreInv => StoreTypeOK
  BY DEF StoreInv, HeapInv, HeapTypeOK, CellStates, NodeCells, BufferCells, StoreTypeOK

-----------------------------------------------------------------------------
(***************************************************************************)
(* The server and its parts.                                               *)
(***************************************************************************)

LockProofs  == INSTANCE RWLock_proofs WITH Threads <- Workers
QueueProofs == INSTANCE FdQueue_proofs

\* What RWLock assumes of its threads is assumed here of the workers.
LEMMA InstancesApply == LockProofs!ThreadsFinite
  BY PoolAssumption DEF LockProofs!ThreadsFinite, LockProofs!IsFiniteSet, IsFiniteSet

-----------------------------------------------------------------------------
(***************************************************************************)
(* The invariant.                                                          *)
(***************************************************************************)

\* A worker between its lock and its unlock
Working == {"search", "recv_value", "send_value", "unlock", "loop"}

\* Where a worker is in the switch and where it is in the lock
Stages ==
    /\ pc \in [Workers -> Location]
    /\ payload \in [Workers -> Commands \union {NULL}]
    /\ current \in [Workers -> Cells \union {NULL}]
    /\ \A w \in Workers :
         /\ pc[w] # "recv" => payload[w] \in Commands
         /\ pc[w] \in Working => at[w] = IF Is(w, "read") THEN "reading" ELSE "writing"
         /\ pc[w] = "send_value" => Is(w, "read")
         /\ pc[w] \in {"recv_value", "loop"} => ~Is(w, "read")

\* The node a worker holds.  A CREATE may have lost its node, but only behind a tail
\* that a DELETE left dangling, and then no node of the list has its key.
Holds(s, w) ==
    /\ pc[w] = "send_value" =>
         \E i \in 1 .. Len(s) : current[w] = s[i] /\ heap[s[i]].key = Key(w)
    /\ pc[w] = "recv_value" =>
         /\ current[w] \in Cells /\ IsNode(current[w]) /\ heap[current[w]].key = Key(w)
         /\ \/ current[w] \in CellsOf(s)
            \/ tailDeleted /\ \A i \in 1 .. Len(s) : heap[s[i]].key # Key(w)

\* The list s and the replies: a value that is not there yet is on its way to a
\* worker, and kv_node_tail is right until the DELETE that tailDeleted remembers.
InStepWith(s) ==
    /\ \A i \in 1 .. Len(s) : ValueOf(s[i]) = Uninit =>
         \E w \in Workers : pc[w] = "recv_value" /\ current[w] = s[i]
    /\ ~tailDeleted => Len(s) = 0 \/ kv_node_tail = s[Len(s)]
    /\ stored \in [Keys -> Values \union {Uninit, Absent}]
    /\ ContentsAsAnswered

DataInv(s) == HeapInv(s) /\ (\A w \in Workers : Holds(s, w)) /\ InStepWith(s)

PoolInv == LockProofs!IInv /\ Stages /\ \E s : DataInv(s)

-----------------------------------------------------------------------------
(***************************************************************************)
(* The lock and the queue.                                                 *)
(***************************************************************************)

\* The server calls the functions of the lock and does nothing else to it.
LEMMA LockCalls ==
    ASSUME NEW w \in Workers
    PROVE  /\ Lock!ReaderLock(w)     => LockProofs!ReaderLock(w)
           /\ Lock!WriterLock(w)     => LockProofs!WriterLock(w)
           /\ Lock!ReaderUnlock(w)   => LockProofs!ReaderUnlock(w)
           /\ Lock!WriterUnlock(w)   => LockProofs!WriterUnlock(w)
           /\ Lock!SpuriousWakeup(w) => LockProofs!SpuriousWakeup(w)
  BY DEF Lock!ReaderLock, LockProofs!ReaderLock, Lock!WriterLock, LockProofs!WriterLock,
     Lock!ReaderUnlock, LockProofs!ReaderUnlock, Lock!WriterUnlock, LockProofs!WriterUnlock,
     Lock!SpuriousWakeup, LockProofs!SpuriousWakeup, Lock!SignalCanWrite,
     LockProofs!SignalCanWrite, Lock!BroadcastCanRead, LockProofs!BroadcastCanRead,
     Lock!In, LockProofs!In

\* What a worker does with a command while it has the lock
Serving(w) == pc[w] = "search" /\ (Create(w) \/ Read(w) \/ Delete(w) \/ Update(w))

\* It does not touch the lock, and neither do the steps that wait for the client.
LEMMA ServingKeepsLock ==
    ASSUME NEW w \in Workers,
           Serving(w) \/ Receive(w) \/ ReceiveValue(w) \/ SendValue(w) \/ LoopInUpdate(w)
    PROVE  UNCHANGED lockVars
  BY DEF Serving, Create, Read, Delete, Update, Receive, ReceiveValue, SendValue,
     LoopInUpdate, vars

\* Every step of the server is one of the lock or leaves it alone.
LEMMA StepRefinesLock == [Next]_vars => [LockProofs!Next]_lockVars
<1> SUFFICES ASSUME [Next]_vars PROVE LockProofs!Next \/ UNCHANGED lockVars
  OBVIOUS
<1>1. ASSUME NEW w \in Workers, AcquireLock(w) \/ ReleaseLock(w) \/ LockWakeup(w)
      PROVE  LockProofs!Next
  <2>1. \/ Lock!ReaderLock(w) \/ Lock!WriterLock(w) \/ Lock!SpuriousWakeup(w)
        \/ Lock!ReaderUnlock(w) \/ Lock!WriterUnlock(w)
    BY <1>1 DEF AcquireLock, ReleaseLock, LockWakeup
  <2> QED
    BY <2>1, LockCalls DEF LockProofs!Next
<1>2. ASSUME Dispatch \/ UNCHANGED vars PROVE UNCHANGED lockVars
  BY <1>2 DEF Dispatch, vars
<1> QED
  BY <1>1, <1>2, ServingKeepsLock DEF Next, Command, Serving

\* The server uses the read-write lock as its module says.
THEOREM ImplementsRWLock == Spec => LockProofs!Spec
<1>1. Init => LockProofs!InitalizeReadWriteLock
  BY DEF Init, Lock!InitalizeReadWriteLock, LockProofs!InitalizeReadWriteLock
<1>2. [Next]_vars => [LockProofs!Next]_LockProofs!lockVars
  BY StepRefinesLock DEF lockVars, LockProofs!lockVars
<1> QED
  BY <1>1, <1>2, PTL DEF Spec, LockProofs!Spec

\* Every step of the server is one of the queue or leaves it alone.
LEMMA StepRefinesQueue == [Next]_vars => [QueueProofs!QueueNext]_queueVars
<1> SUFFICES ASSUME [Next]_vars PROVE QueueProofs!QueueNext \/ UNCHANGED queueVars
  OBVIOUS
<1>1. ASSUME NEW w \in Workers, Command(w) \/ Receive(w) \/ ReceiveValue(w)
                                \/ LockWakeup(w) \/ LoopInUpdate(w)
      PROVE  UNCHANGED queueVars
  BY <1>1 DEF Command, AcquireLock, Create, Read, Delete, Update, SendValue, ReleaseLock,
     Receive, ReceiveValue, LockWakeup, LoopInUpdate, vars
<1>2. ASSUME NEW c \in Conns, Queue!Accept(c) PROVE QueueProofs!Accept(c)
  BY <1>2 DEF Queue!Accept, QueueProofs!Accept, Queue!Enqueue, QueueProofs!Enqueue,
     Queue!SignalQueue, QueueProofs!SignalQueue, Queue!WorkersIn, QueueProofs!WorkersIn
<1>3. ASSUME Queue!AcceptError PROVE QueueProofs!AcceptError
  BY <1>3 DEF Queue!AcceptError, QueueProofs!AcceptError, Queue!Enqueue, QueueProofs!Enqueue,
     Queue!SignalQueue, QueueProofs!SignalQueue, Queue!WorkersIn, QueueProofs!WorkersIn
<1>4. ASSUME NEW w \in Workers, \/ Queue!HandleClient(w) \/ Queue!SpuriousQueueWakeup(w)
                                \/ Queue!Disconnect(w) \/ Queue!SpinOnBadFd(w)
      PROVE  \/ QueueProofs!HandleClient(w) \/ QueueProofs!SpuriousQueueWakeup(w)
             \/ QueueProofs!Disconnect(w) \/ QueueProofs!SpinOnBadFd(w)
  BY <1>4 DEF Queue!HandleClient, QueueProofs!HandleClient, Queue!Dequeue,
     QueueProofs!Dequeue, Queue!SignalAfterClient, QueueProofs!SignalAfterClient,
     Queue!SignalQueue, QueueProofs!SignalQueue, Queue!WorkersIn, QueueProofs!WorkersIn,
     Queue!SpuriousQueueWakeup, QueueProofs!SpuriousQueueWakeup, Queue!Disconnect,
     QueueProofs!Disconnect, Queue!SpinOnBadFd, QueueProofs!SpinOnBadFd,
     Queue!queueVars, QueueProofs!queueVars
<1>5. ASSUME Dispatch PROVE QueueProofs!QueueNext
  BY <1>2, <1>3, <1>4, <1>5 DEF Dispatch, QueueProofs!QueueNext
<1>6. ASSUME UNCHANGED vars PROVE UNCHANGED queueVars
  BY <1>6 DEF vars
<1> QED
  BY <1>1, <1>5, <1>6 DEF Next

\* The workers take connections from the queue as its module says, so that what is
\* proved about FdQueue holds while commands are served: no connection is handed to
\* two workers, and no signal is lost.
THEOREM ImplementsFdQueue == Spec => QueueProofs!QueueSpec
<1>1. Init => QueueProofs!InitQueue
  BY DEF Init, Queue!InitQueue, QueueProofs!InitQueue
<1>2. [Next]_vars => [QueueProofs!QueueNext]_QueueProofs!queueVars
  BY StepRefinesQueue DEF queueVars, QueueProofs!queueVars
<1> QED
  BY <1>1, <1>2, PTL DEF Spec, QueueProofs!QueueSpec

-----------------------------------------------------------------------------
(***************************************************************************)
(* Workers and the lock.                                                   *)
(***************************************************************************)

\* A worker that has the lock has it until it gives it back itself.
LEMMA LockStays ==
    ASSUME LockProofs!IInv, NEW w \in Workers,
           \/ Lock!ReaderLock(w) \/ Lock!ReaderUnlock(w) \/ Lock!WriterLock(w)
           \/ Lock!WriterUnlock(w) \/ Lock!SpuriousWakeup(w)
    PROVE  /\ \A u \in Workers \ {w} : at[u] \in {"reading", "writing"} => at'[u] = at[u]
           /\ Lock!SpuriousWakeup(w) => at[w] \notin {"reading", "writing"}
           /\ Lock!ReaderLock(w) /\ at'[w] \in {"reading", "writing"} => at'[w] = "reading"
           /\ Lock!WriterLock(w) /\ at'[w] \in {"reading", "writing"} => at'[w] = "writing"
<1>1. DOMAIN at = Workers /\ at \in [Workers -> LockProofs!Location]
  BY DEF LockProofs!IInv, LockProofs!TypeOK
<1>2. CASE Lock!ReaderLock(w) \/ Lock!WriterLock(w) \/ Lock!SpuriousWakeup(w)
  BY <1>1, <1>2 DEF Lock!ReaderLock, Lock!WriterLock, Lock!SpuriousWakeup,
     Lock!ReaderUnlock, Lock!WriterUnlock
<1>3. CASE Lock!ReaderUnlock(w) \/ Lock!WriterUnlock(w)
  <2>1. at[w] \in {"reading", "writing"}
    BY <1>3 DEF Lock!ReaderUnlock, Lock!WriterUnlock
  <2>2. \E after \in {Lock!BroadcastCanRead(w), [at EXCEPT ![w] = "out"]} :
          \/ at' = after
          \/ \E u \in Workers : at[u] = "wait_write" /\ at' = [after EXCEPT ![u] = "retry_write"]
    BY <1>3 DEF Lock!ReaderUnlock, Lock!WriterUnlock, Lock!SignalCanWrite, Lock!In
  <2>3. \A u \in Workers \ {w} : at[u] \in {"reading", "writing"} => at'[u] = at[u]
    BY <1>1, <2>2 DEF Lock!BroadcastCanRead
  <2> QED
    BY <2>1, <2>3 DEF Lock!ReaderLock, Lock!WriterLock, Lock!SpuriousWakeup
<1> QED
  BY <1>2, <1>3

\* While a worker changes the list, the others receive a command or wait for the lock.
LEMMA WriterAlone ==
    ASSUME LockProofs!IInv, Stages, NEW w \in Workers, pc[w] \in Working, ~Is(w, "read"),
           NEW u \in Workers, u # w
    PROVE  pc[u] \in {"recv", "lock"}
<1>1. at[w] = "writing"
  BY DEF Stages
<1>2. at[u] \notin {"reading", "writing"}
  BY <1>1 DEF LockProofs!IInv, LockProofs!Exclusion, LockProofs!In
<1>3. pc[u] \notin Working
  BY <1>2 DEF Stages
<1> QED
  BY <1>3 DEF Stages, Location, Working

\* The cells that a walk reaches are those of s.
LEMMA ListedAreCells == \A s : HeapInv(s) => Listed = CellsOf(s) /\ Listed \subseteq Cells
<1> SUFFICES ASSUME NEW s, HeapInv(s) PROVE Listed = CellsOf(s) /\ Listed \subseteq Cells
  OBVIOUS
<1>1. Listed = CellsOf(s)
  BY ListedIs DEF HeapInv, WalkSeesList
<1> QED
  BY <1>1, ListCells DEF CellsOf

\* The steps of worker w leave the other workers where they are.
LEMMA StagesMove ==
    ASSUME Stages, NEW w \in Workers,
           NEW p \in Location, pc' = [pc EXCEPT ![w] = p],
           NEW m \in Commands \union {NULL}, payload' = [payload EXCEPT ![w] = m],
           NEW c \in Cells \union {NULL}, current' = [current EXCEPT ![w] = c],
           \A u \in Workers \ {w} : at[u] \in {"reading", "writing"} => at'[u] = at[u],
           p # "recv" => m \in Commands,
           p \in Working => at'[w] = IF m.cmd_type = "read" THEN "reading" ELSE "writing",
           p = "send_value" => m.cmd_type = "read",
           p \in {"recv_value", "loop"} => m.cmd_type # "read"
    PROVE  Stages'
<1>1. /\ pc' \in [Workers -> Location] /\ payload' \in [Workers -> Commands \union {NULL}]
      /\ current' \in [Workers -> Cells \union {NULL}]
  BY DEF Stages
<1>2. ASSUME NEW u \in Workers
      PROVE  /\ pc'[u] # "recv" => payload'[u] \in Commands
             /\ pc'[u] \in Working =>
                  at'[u] = IF payload'[u].cmd_type = "read" THEN "reading" ELSE "writing"
             /\ pc'[u] = "send_value" => payload'[u].cmd_type = "read"
             /\ pc'[u] \in {"recv_value", "loop"} => payload'[u].cmd_type # "read"
  <2>1. CASE u = w
    BY <2>1 DEF Stages
  <2>2. CASE u # w
    BY <2>2 DEF Stages, Is
  <2> QED
    BY <2>1, <2>2
<1> QED
  BY <1>1, <1>2 DEF Stages, Is

\* Every step keeps pc, the commands, the held nodes and the lock in line.
LEMMA StagesKept ==
    ASSUME LockProofs!IInv, Stages, StoreInv, [Next]_vars
    PROVE  Stages'
<1> USE DEF Goto
<1>1. ASSUME NEW w \in Workers
      PROVE  /\ current[w] \in Cells \union {NULL} /\ payload[w] \in Commands \union {NULL}
             /\ pc \in [Workers -> Location] /\ payload = [payload EXCEPT ![w] = payload[w]]
             /\ current = [current EXCEPT ![w] = current[w]]
             /\ pc[w] # "recv" => payload[w] \in Commands
             /\ pc[w] \in Working => at[w] = IF Is(w, "read") THEN "reading" ELSE "writing"
  BY DEF Stages
<1>2. CASE UNCHANGED <<at, pc, payload, current>>
  BY <1>2 DEF Stages, Is
<1>3. ASSUME NEW w \in Workers, Receive(w) PROVE Stages'
  <2>1. PICK p \in Commands : payload' = [payload EXCEPT ![w] = p]
    BY <1>3 DEF Receive
  <2>2. /\ pc' = [pc EXCEPT ![w] = "lock"] /\ current' = [current EXCEPT ![w] = current[w]]
        /\ at' = at
    BY <1>1, <1>3 DEF Receive, lockVars
  <2>3. "lock" \in Location /\ "lock" \notin Working
    BY DEF Location, Working
  <2> QED
    BY <1>1, <2>1, <2>2, <2>3, StagesMove
<1>4. ASSUME NEW w \in Workers, AcquireLock(w) PROVE Stages'
  <2>1. /\ pc[w] = "lock" /\ payload' = [payload EXCEPT ![w] = payload[w]]
        /\ current' = [current EXCEPT ![w] = current[w]]
        /\ IF Is(w, "read") THEN Lock!ReaderLock(w) ELSE Lock!WriterLock(w)
    BY <1>1, <1>4 DEF AcquireLock
  <2>2. PICK p \in {"search", "lock"} :
          /\ pc' = [pc EXCEPT ![w] = p]
          /\ p = "search" => at'[w] \in {"reading", "writing"}
    BY <1>4 DEF AcquireLock
  <2>3. /\ \A u \in Workers \ {w} : at[u] \in {"reading", "writing"} => at'[u] = at[u]
        /\ p = "search" => at'[w] = IF Is(w, "read") THEN "reading" ELSE "writing"
    BY <2>1, <2>2, LockStays
  <2>4. p \in Location /\ (p \in Working => p = "search") /\ payload[w] \in Commands
    BY <1>1, <2>1 DEF Location, Working
  <2> QED
    BY <1>1, <2>1, <2>2, <2>3, <2>4, StagesMove DEF Is
<1>5. ASSUME NEW w \in Workers, NEW p \in {"unlock", "recv_value", "send_value", "loop"},
             NEW c \in Cells \union {NULL},
             pc[w] \in Working, pc' = [pc EXCEPT ![w] = p],
             current' = [current EXCEPT ![w] = c], UNCHANGED <<payload, at>>,
             p = "send_value" => Is(w, "read"), p \in {"recv_value", "loop"} => ~Is(w, "read")
      PROVE  Stages'
  <2>1. payload[w] \in Commands /\ payload' = [payload EXCEPT ![w] = payload[w]]
    BY <1>1, <1>5 DEF Working
  <2>2. p \in Location
    BY DEF Location
  <2> QED
    BY <1>1, <1>5, <2>1, <2>2, StagesMove DEF Is
<1>6. ASSUME NEW w \in Workers, Serving(w) PROVE Stages'
  <2>1. pc[w] = "search" /\ pc[w] \in Working /\ UNCHANGED <<payload, at>>
    BY <1>6, ServingKeepsLock DEF Serving, Create, Read, Delete, Update, lockVars, Working
  <2>2. Listed \subseteq Cells /\ kv_node_head \in Cells \union {NULL}
    BY ListedAreCells DEF StoreInv, HeapInv, HeapTypeOK
  <2>3. CASE Create(w)
    <3>1. ~Is(w, "read")
      BY <2>3 DEF Create, Is
    <3>2. \/ pc' = [pc EXCEPT ![w] = "unlock"] /\ current' = current
          \/ /\ pc' = [pc EXCEPT ![w] = "recv_value"]
             /\ \E n \in Cells : current' = [current EXCEPT ![w] = n]
      BY <2>3 DEF Create
    <3> QED
      BY <1>1, <1>5, <2>1, <3>1, <3>2
  <2>4. CASE Read(w)
    <3>1. \/ pc' = [pc EXCEPT ![w] = "unlock"] /\ current' = current
          \/ /\ pc' = [pc EXCEPT ![w] = "send_value"]
             /\ \E n \in Cells : current' = [current EXCEPT ![w] = n]
      BY <2>2, <2>4 DEF Read, Found
    <3> QED
      BY <1>1, <1>5, <2>1, <2>4, <3>1 DEF Read
  <2>5. CASE Delete(w)
    <3>1. pc' = [pc EXCEPT ![w] = "unlock"] /\ current' = current
      BY <2>5 DEF Delete
    <3> QED
      BY <1>1, <1>5, <2>1, <3>1
  <2>6. CASE Update(w)
    <3>1. ~Is(w, "read")
      BY <2>6 DEF Update, Is
    <3>2. \/ pc' = [pc EXCEPT ![w] = "unlock"] /\ current' = current
          \/ pc' = [pc EXCEPT ![w] = "loop"] /\ current' = current
          \/ /\ pc' = [pc EXCEPT ![w] = "recv_value"]
             /\ current' = [current EXCEPT ![w] = kv_node_head]
      BY <2>6 DEF Update
    <3> QED
      BY <1>1, <1>5, <2>1, <2>2, <3>1, <3>2
  <2> QED
    BY <1>6, <2>3, <2>4, <2>5, <2>6 DEF Serving
<1>7. ASSUME NEW w \in Workers, ReceiveValue(w) \/ SendValue(w) PROVE Stages'
  <2>1. /\ pc[w] \in Working /\ pc' = [pc EXCEPT ![w] = "unlock"]
        /\ UNCHANGED <<payload, at, current>>
    BY <1>7 DEF ReceiveValue, SendValue, lockVars, Working
  <2> QED
    BY <1>1, <1>5, <2>1
<1>8. ASSUME NEW w \in Workers, ReleaseLock(w) PROVE Stages'
  <2>1. /\ pc' = [pc EXCEPT ![w] = "recv"] /\ payload' = [payload EXCEPT ![w] = NULL]
        /\ current' = [current EXCEPT ![w] = NULL]
        /\ Lock!ReaderUnlock(w) \/ Lock!WriterUnlock(w)
    BY <1>8 DEF ReleaseLock
  <2>2. \A u \in Workers \ {w} : at[u] \in {"reading", "writing"} => at'[u] = at[u]
    BY <2>1, LockStays
  <2>3. "recv" \in Location /\ "recv" \notin Working
    BY DEF Location, Working
  <2> QED
    BY <2>1, <2>2, <2>3, StagesMove
<1>9. ASSUME NEW w \in Workers, LockWakeup(w) PROVE Stages'
  <2>1. /\ UNCHANGED <<pc, payload, current>> /\ Lock!SpuriousWakeup(w)
    BY <1>9 DEF LockWakeup
  <2>2. \A u \in Workers : at[u] \in {"reading", "writing"} => at'[u] = at[u]
    BY <2>1, LockStays
  <2> QED
    BY <2>1, <2>2 DEF Stages, Is
<1>10. ASSUME Dispatch \/ UNCHANGED vars PROVE UNCHANGED <<at, pc, payload, current>>
  BY <1>10 DEF Dispatch, vars, lockVars
<1>11. ASSUME NEW w \in Workers, LoopInUpdate(w) PROVE UNCHANGED <<at, pc, payload, current>>
  BY <1>11 DEF LoopInUpdate, vars, lockVars
<1> QED
  BY <1>2, <1>3, <1>4, <1>6, <1>7, <1>8, <1>9, <1>10, <1>11 DEF Next, Command, Serving

-----------------------------------------------------------------------------
(***************************************************************************)
(* The map that the clients see.                                           *)
(***************************************************************************)

\* m is the map from keys to values that the list l of nodes stands for.
Reads(l, m) ==
    /\ \A i \in 1 .. Len(l) : m[l[i].key] = l[i].value
    /\ \A k \in Keys : (\A i \in 1 .. Len(l) : l[i].key # k) => m[k] = Absent

ContentsRead == \A s : HeapInv(s) => Reads(View(s), Contents)

\* Contents is that map.
LEMMA ContentsAreRead == ContentsRead
<1> SUFFICES ASSUME NEW s, HeapInv(s) PROVE Reads(View(s), Contents)
  BY DEF ContentsRead
<1>1. /\ s \in Seq(Cells) /\ Len(s) \in Nat /\ Listed = CellsOf(s)
      /\ \A i \in 1 .. Len(s) : IsNode(s[i]) /\ heap[s[i]].key \in Keys
      /\ \A i, j \in 1 .. Len(s) : heap[s[i]].key = heap[s[j]].key => i = j
  BY ListCells, ListedAreCells DEF HeapInv
<1>2. /\ Len(View(s)) = Len(s)
      /\ \A i \in 1 .. Len(s) : /\ View(s)[i].key = heap[s[i]].key
                                /\ View(s)[i].value = ValueOf(s[i])
  BY <1>1 DEF View
<1>3. ASSUME NEW i \in 1 .. Len(s) PROVE Contents[heap[s[i]].key] = ValueOf(s[i])
  <2> DEFINE k == heap[s[i]].key
  <2>1. Found(k) = {s[i]}
    BY <1>1 DEF Found, CellsOf
  <2>2. (CHOOSE c \in Found(k) : TRUE) = s[i]
    BY <2>1
  <2>3. k \in Keys /\ Found(k) # {}
    BY <1>1, <2>1
  <2> HIDE DEF k
  <2>4. Contents[k] = ValueOf(CHOOSE c \in Found(k) : TRUE)
    BY <2>3 DEF Contents
  <2> QED
    BY <2>2, <2>4 DEF k
<1>4. ASSUME NEW k \in Keys, \A i \in 1 .. Len(s) : heap[s[i]].key # k
      PROVE  Contents[k] = Absent
  <2>1. Found(k) = {}
    BY <1>1, <1>4 DEF Found, CellsOf
  <2> QED
    BY <2>1 DEF Contents
<1> QED
  BY <1>2, <1>3, <1>4 DEF Reads

\* The same of the state after a step.
LEMMA ContentsAreReadNext == \A s : HeapInv(s)' => Reads(View(s)', Contents')
<1>1. ContentsRead'
  BY ContentsAreRead, PTL
<1> QED
  BY <1>1 DEF ContentsRead, Reads

\* A node more: the map changes at its key.
LEMMA MapAdded ==
    ASSUME NEW l, NEW l2, NEW m, NEW m2, NEW k \in Keys, NEW v, Len(l) \in Nat,
           Len(l2) = Len(l) + 1, \A i \in 1 .. Len(l) : l2[i] = l[i],
           l2[Len(l2)].key = k, l2[Len(l2)].value = v,
           Reads(l, m), Reads(l2, m2)
    PROVE  m2[k] = v /\ \A j \in Keys \ {k} : m2[j] = m[j]
<1>1. \A i \in 1 .. Len(l2) : i \in 1 .. Len(l) \/ i = Len(l2)
  OBVIOUS
<1>2. \A i \in 1 .. Len(l) : i \in 1 .. Len(l2)
  OBVIOUS
<1>3. Len(l2) \in 1 .. Len(l2)
  OBVIOUS
<1>4. m2[k] = v
  BY <1>3 DEF Reads
<1>5. ASSUME NEW j \in Keys \ {k} PROVE m2[j] = m[j]
  <2>1. CASE \E i \in 1 .. Len(l) : l[i].key = j
    BY <1>2, <2>1 DEF Reads
  <2>2. CASE \A i \in 1 .. Len(l) : l[i].key # j
    <3>1. \A i \in 1 .. Len(l2) : l2[i].key # j
      BY <1>1, <2>2
    <3> QED
      BY <2>2, <3>1 DEF Reads
  <2> QED
    BY <2>1, <2>2
<1> QED
  BY <1>4, <1>5

\* l2 is l with the value on place i set to v.
SetAt(l, i, v, l2) ==
    /\ Len(l2) = Len(l)
    /\ \A j \in 1 .. Len(l) : /\ l2[j].key = l[j].key
                              /\ l2[j].value = IF j = i THEN v ELSE l[j].value

\* The view of a list of cells, by place
LEMMA ViewIs ==
    ASSUME NEW s, Len(s) \in Nat
    PROVE  /\ Len(View(s)) = Len(s) /\ View(s) \in Seq({View(s)[j] : j \in 1 .. Len(s)})
           /\ \A i \in 1 .. Len(s) : /\ View(s)[i].key = heap[s[i]].key
                                     /\ View(s)[i].value = ValueOf(s[i])
           /\ Len(View(s)') = Len(s)
           /\ \A i \in 1 .. Len(s) : /\ View(s)'[i].key = heap'[s[i]].key
                                     /\ View(s)'[i].value = ValueOf(s[i])'
  BY DEF View

\* The view with the value on place i set to v
LEMMA ViewSet ==
    ASSUME NEW s, Len(s) \in Nat, NEW i \in 1 .. Len(s), NEW v
    PROVE  SetAt(View(s), i, v, [View(s) EXCEPT ![i].value = v])
<1> DEFINE l == View(s)
           l2 == [l EXCEPT ![i].value = v]
<1>1. l = [j \in 1 .. Len(s) |-> [key |-> heap[s[j]].key, value |-> ValueOf(s[j])]]
  BY DEF View
<1>2. Len(l) = Len(s) /\ Len(l2) = Len(s)
  BY <1>1
<1>3. ASSUME NEW j \in 1 .. Len(s)
      PROVE  /\ l2[j].key = l[j].key
             /\ l2[j].value = IF j = i THEN v ELSE l[j].value
  BY <1>1
<1> QED
  BY <1>2, <1>3 DEF SetAt

\* UPDATE's buffer and a received value set one place of the view.
LEMMA ViewSetNext ==
    ASSUME NEW s, Len(s) \in Nat, NEW i \in 1 .. Len(s), NEW v, OneValueSet(s, i, v)
    PROVE  SetAt(View(s), i, v, View(s)')
<1>1. View(s)' = [View(s) EXCEPT ![i].value = v]
  BY DEF OneValueSet
<1>2. SetAt(View(s), i, v, [View(s) EXCEPT ![i].value = v])
  BY ViewSet
<1> QED
  BY <1>1, <1>2, Zenon

-----------------------------------------------------------------------------
(***************************************************************************)
(* The commands keep the invariant.                                        *)
(***************************************************************************)

\* While worker w changes the list, nobody else holds a node, before or after.
LEMMA OthersHoldNothing ==
    ASSUME LockProofs!IInv, Stages, NEW w \in Workers, pc[w] \in Working, ~Is(w, "read"),
           NEW p, pc' = [pc EXCEPT ![w] = p]
    PROVE  \A u \in Workers \ {w} : /\ pc[u] \notin {"recv_value", "send_value"}
                                    /\ pc'[u] \notin {"recv_value", "send_value"}
<1> TAKE u \in Workers \ {w}
<1>1. pc[u] \in {"recv", "lock"}
  BY WriterAlone
<1>2. pc'[u] = pc[u]
  BY DEF Stages
<1> QED
  BY <1>1, <1>2

\* Then every value of the list is there, unless it is w that receives one.
LEMMA ValuesThere ==
    ASSUME LockProofs!IInv, Stages, NEW w \in Workers, pc[w] \in Working, ~Is(w, "read"),
           NEW s, InStepWith(s), NEW i \in 1 .. Len(s), ValueOf(s[i]) = Uninit
    PROVE  pc[w] = "recv_value" /\ current[w] = s[i]
<1>1. PICK u \in Workers : pc[u] = "recv_value" /\ current[u] = s[i]
  BY DEF InStepWith
<1>2. u = w
  BY <1>1, WriterAlone
<1> QED
  BY <1>1, <1>2

\* Both promises to the clients survive a step that changes what they read and what
\* was answered at the same key.
LEMMA AnswersMove ==
    ASSUME ContentsAsAnswered, stored \in [Keys -> Values \union {Uninit, Absent}],
           NEW k \in Keys, NEW v \in Values \union {Uninit, Absent},
           stored' = [stored EXCEPT ![k] = v],
           \A j \in Keys \ {k} : Contents'[j] = Contents[j],
           Contents'[k] \in {v, Absent, Damaged},
           tailDeleted => tailDeleted', ~tailDeleted' => Contents'[k] = v
    PROVE  /\ ContentsAsAnswered'
           /\ stored' \in [Keys -> Values \union {Uninit, Absent}]
<1>1. /\ stored' \in [Keys -> Values \union {Uninit, Absent}] /\ stored'[k] = v
      /\ \A j \in Keys \ {k} : stored'[j] = stored[j]
  OBVIOUS
<1>2. \A j \in Keys : Contents'[j] \in {stored'[j], Absent, Damaged}
  BY <1>1 DEF ContentsAsAnswered
<1>3. ASSUME ~tailDeleted' PROVE Contents' = stored'
  <2>1. Contents = stored
    BY <1>3 DEF ContentsAsAnswered
  <2>2. \A j \in Keys : Contents'[j] = stored'[j]
    BY <1>1, <1>3, <2>1
  <2>3. Contents' = [j \in Keys |-> Contents'[j]]
    BY DEF Contents
  <2> QED
    BY <1>1, <2>2, <2>3
<1> QED
  BY <1>1, <1>2, <1>3 DEF ContentsAsAnswered

\* CREATE of a key that is not there
LEMMA CreateKeepsData ==
    ASSUME LockProofs!IInv, Stages, NEW s, DataInv(s), NEW w \in Workers,
           pc[w] = "search", Create(w), Found(Key(w)) = {}
    PROVE  \E t : DataInv(t)'
<1> DEFINE k == Key(w)
<1>1. /\ HeapInv(s) /\ InStepWith(s) /\ pc[w] \in Working /\ ~Is(w, "read") /\ k \in Keys
      /\ s \in Seq(Cells) /\ Len(s) \in Nat
      /\ \A i \in 1 .. Len(s) : IsNode(s[i]) /\ heap[s[i]].key # k
  <2>1. HeapInv(s) /\ InStepWith(s) /\ pc[w] \in Working /\ ~Is(w, "read") /\ payload[w] \in Commands
    BY DEF DataInv, Working, Create, Is, Stages
  <2>2. k \in Keys
    BY <2>1 DEF Commands, Key
  <2>3. Listed = CellsOf(s) /\ \A i \in 1 .. Len(s) : IsNode(s[i])
    BY <2>1, ListedAreCells, ListCells
  <2> QED
    BY <2>1, <2>2, <2>3, ListCells DEF Found, CellsOf
<1>2. PICK n \in Cells, b \in Cells :
        /\ CreateNode(k, n, b) /\ current' = [current EXCEPT ![w] = n]
        /\ pc' = [pc EXCEPT ![w] = "recv_value"] /\ stored' = [stored EXCEPT ![k] = Uninit]
        /\ UNCHANGED <<payload, tailDeleted>>
  BY DEF Create, Goto
<1>3. /\ IsNode(n)' /\ heap'[n].key = k /\ kv_node_tail' = n
      /\ \/ /\ Len(s) = 0 \/ kv_node_tail = s[Len(s)]
            /\ HeapInv(Append(s, n))'
            /\ View(Append(s, n))' = Append(View(s), List!NodeOf(k))
         \/ /\ Len(s) # 0 /\ kv_node_tail # s[Len(s)] /\ n \notin CellsOf(s)
            /\ HeapInv(s)'
            /\ \/ View(s)' = View(s)
               \/ \E i \in 1 .. Len(s) : View(s)' = [View(s) EXCEPT ![i].value = Damaged]
  BY <1>1, <1>2, CreateKeeps
<1>4. /\ pc'[w] = "recv_value" /\ current'[w] = n /\ payload' = payload
      /\ \A u \in Workers \ {w} : pc'[u] \notin {"recv_value", "send_value"}
  BY <1>1, <1>2, OthersHoldNothing DEF Stages
<1>5. \A i \in 1 .. Len(s) : ValueOf(s[i]) # Uninit
  BY <1>1, ValuesThere
<1>6. Reads(View(s), Contents)
  BY <1>1, ContentsAreRead DEF ContentsRead
<1>7. /\ Len(View(s)) = Len(s) /\ View(s) \in Seq({View(s)[j] : j \in 1 .. Len(s)})
      /\ \A i \in 1 .. Len(s) : /\ View(s)[i].key = heap[s[i]].key
                                /\ View(s)[i].value = ValueOf(s[i])
  BY <1>1, ViewIs
<1>8. CASE /\ Len(s) = 0 \/ kv_node_tail = s[Len(s)]
           /\ HeapInv(Append(s, n))'
           /\ View(Append(s, n))' = Append(View(s), List!NodeOf(k))
  <2> DEFINE t == Append(s, n)
             l == View(t)'
  <2>1. /\ Len(t) = Len(s) + 1 /\ t[Len(t)] = n /\ \A i \in 1 .. Len(s) : t[i] = s[i]
        /\ Len(t) \in 1 .. Len(t) /\ Len(t) \in Nat
    BY <1>1
  <2>2. /\ Len(l) = Len(View(s)) + 1 /\ \A i \in 1 .. Len(s) : l[i] = View(s)[i]
        /\ l[Len(l)].key = k /\ l[Len(l)].value = Uninit
    BY <1>1, <1>7, <1>8 DEF List!NodeOf
  <2>4. Reads(l, Contents') /\ HeapInv(t)'
    BY <1>8, ContentsAreReadNext
  <2> HIDE DEF t
  <2>3. /\ Len(l) = Len(t)
        /\ \A i \in 1 .. Len(t) : l[i].value = ValueOf(t[i])' /\ l[i].key = heap'[t[i]].key
    BY <2>1 DEF View
  <2> HIDE DEF l
  <2>5. Contents'[k] = Uninit /\ \A j \in Keys \ {k} : Contents'[j] = Contents[j]
    BY <1>1, <1>6, <1>7, <2>2, <2>4, MapAdded
  <2>6. ContentsAsAnswered' /\ stored' \in [Keys -> Values \union {Uninit, Absent}]
    BY <1>1, <1>2, <2>5, AnswersMove DEF InStepWith
  <2>7. \A i \in 1 .. Len(t) : ValueOf(t[i])' = Uninit => current'[w] = t[i]
    <3> TAKE i \in 1 .. Len(t)
    <3>1. CASE i = Len(t)
      BY <1>4, <2>1, <3>1
    <3>2. CASE i \in 1 .. Len(s)
      BY <1>5, <1>7, <2>2, <2>3, <3>2
    <3> QED
      BY <1>1, <2>1, <3>1, <3>2
  <2>8. InStepWith(t)'
    BY <1>3, <1>4, <2>1, <2>6, <2>7 DEF InStepWith
  <2>9. \A u \in Workers : Holds(t, u)'
    <3>1. n \in CellsOf(t)
      BY <2>1 DEF CellsOf
    <3> QED
      BY <1>3, <1>4, <3>1 DEF Holds, Key, CellsOf
  <2> QED
    BY <2>4, <2>8, <2>9 DEF DataInv
<1>9. CASE /\ Len(s) # 0 /\ kv_node_tail # s[Len(s)] /\ n \notin CellsOf(s)
           /\ HeapInv(s)'
           /\ \/ View(s)' = View(s)
              \/ \E i \in 1 .. Len(s) : View(s)' = [View(s) EXCEPT ![i].value = Damaged]
  <2>1. tailDeleted /\ tailDeleted'
    BY <1>1, <1>2, <1>9 DEF InStepWith
  <2> DEFINE l == View(s)'
  <2>2. /\ Len(l) = Len(s) /\ Reads(l, Contents')
        /\ \A i \in 1 .. Len(s) : l[i].key = heap'[s[i]].key /\ l[i].value = ValueOf(s[i])'
    BY <1>1, <1>9, ViewIs, ContentsAreReadNext
  <2>3. \A i \in 1 .. Len(s) : /\ l[i].key = View(s)[i].key
                               /\ l[i].value \in {View(s)[i].value, Damaged}
    <3>1. CASE View(s)' = View(s)
      BY <3>1
    <3>2. CASE \E i \in 1 .. Len(s) : View(s)' = [View(s) EXCEPT ![i].value = Damaged]
      BY <1>1, <1>7, <3>2, ViewSet DEF SetAt
    <3> QED
      BY <1>9, <3>1, <3>2
  <2> HIDE DEF l
  <2>4. \A i \in 1 .. Len(s) : l[i].key # k
    BY <1>1, <1>7, <2>3
  <2>5. \A i \in 1 .. Len(s) : ValueOf(s[i])' # Uninit
    BY <1>5, <1>7, <2>2, <2>3, StoreAssumption
  <2>6. Contents'[k] = Absent
    BY <1>1, <2>2, <2>4 DEF Reads
  <2>7. \A j \in Keys \ {k} : Contents'[j] \in {Contents[j], Damaged}
    <3> TAKE j \in Keys \ {k}
    <3>1. CASE \E i \in 1 .. Len(s) : l[i].key = j
      BY <1>6, <1>7, <2>2, <2>3, <3>1 DEF Reads
    <3>2. CASE \A i \in 1 .. Len(s) : l[i].key # j
      BY <1>6, <1>7, <2>2, <2>3, <3>2 DEF Reads
    <3> QED
      BY <3>1, <3>2
  <2>8. /\ stored' \in [Keys -> Values \union {Uninit, Absent}]
        /\ \A j \in Keys \ {k} : stored'[j] = stored[j]
    BY <1>1, <1>2 DEF InStepWith
  <2>9. \A j \in Keys : Contents'[j] \in {stored'[j], Absent, Damaged}
    BY <1>1, <2>6, <2>7, <2>8 DEF InStepWith, ContentsAsAnswered
  <2>10. InStepWith(s)'
    BY <2>1, <2>5, <2>8, <2>9 DEF InStepWith, ContentsAsAnswered
  <2>11. \A u \in Workers : Holds(s, u)'
    BY <1>3, <1>4, <2>1, <2>2, <2>4 DEF Holds, Key
  <2> QED
    BY <1>9, <2>10, <2>11 DEF DataInv
<1> QED
  BY <1>3, <1>8, <1>9

\* A value set in place i is a value set in the map.
LEMMA ValueSetAnswers ==
    ASSUME NEW s, HeapInv(s), InStepWith(s), NEW i \in 1 .. Len(s),
           NEW v \in Values \union {Uninit}, OneValueSet(s, i, v),
           stored' = [stored EXCEPT ![heap[s[i]].key] = v], UNCHANGED tailDeleted
    PROVE  /\ ContentsAsAnswered' /\ stored' \in [Keys -> Values \union {Uninit, Absent}]
           /\ ~tailDeleted' => Len(s) = 0 \/ kv_node_tail' = s[Len(s)]
           /\ \A j \in 1 .. Len(s) :
                /\ heap'[s[j]].key = heap[s[j]].key
                /\ ValueOf(s[j])' = IF j = i THEN v ELSE ValueOf(s[j])
<1> DEFINE k == heap[s[i]].key
           l == View(s)
           l2 == View(s)'
<1>1. /\ k \in Keys /\ Len(s) \in Nat /\ HeapInv(s)' /\ kv_node_tail' = kv_node_tail
      /\ l2 = [l EXCEPT ![i].value = v]
      /\ \A j1, j2 \in 1 .. Len(s) : heap[s[j1]].key = heap[s[j2]].key => j1 = j2
  BY ListCells DEF OneValueSet, HeapInv
<1>2. Reads(l, Contents) /\ Reads(l2, Contents')
  BY <1>1, ContentsAreRead, ContentsAreReadNext DEF ContentsRead
<1>3. /\ Len(l) = Len(s) /\ Len(l2) = Len(s)
      /\ \A j \in 1 .. Len(s) :
           /\ l[j].key = heap[s[j]].key /\ l[j].value = ValueOf(s[j])
           /\ l2[j].key = heap'[s[j]].key /\ l2[j].value = ValueOf(s[j])'
  BY <1>1, ViewIs
<1>4. SetAt(l, i, v, l2)
  BY <1>1, ViewSetNext
<1> HIDE DEF l, l2
<1>5. Contents'[k] = v /\ \A j \in Keys \ {k} : Contents'[j] = Contents[j]
  <2>1. i \in 1 .. Len(l) /\ l[i].key = k
    BY <1>1, <1>3
  <2>2. Contents'[l[i].key] = v
    BY <1>2, <1>4, <2>1 DEF Reads, SetAt
  <2>3. \A j \in Keys \ {l[i].key} : Contents'[j] = Contents[j]
    <3> TAKE j \in Keys \ {l[i].key}
    <3>1. CASE \E n \in 1 .. Len(l) : l[n].key = j
      <4>1. PICK n \in 1 .. Len(l) : l[n].key = j
        BY <3>1
      <4>2. n # i /\ l2[n].key = j /\ l2[n].value = l[n].value /\ n \in 1 .. Len(l2)
        BY <1>4, <4>1 DEF SetAt
      <4> QED
        BY <1>2, <4>1, <4>2 DEF Reads
    <3>2. CASE \A n \in 1 .. Len(l) : l[n].key # j
      <4>1. \A n \in 1 .. Len(l2) : l2[n].key # j
        BY <1>4, <3>2 DEF SetAt
      <4> QED
        BY <1>2, <3>2, <4>1 DEF Reads
    <3> QED
      BY <3>1, <3>2
  <2> QED
    BY <2>1, <2>2, <2>3
<1>6. ContentsAsAnswered' /\ stored' \in [Keys -> Values \union {Uninit, Absent}]
  BY <1>1, <1>5, AnswersMove DEF InStepWith
<1>7. \A j \in 1 .. Len(s) : /\ heap'[s[j]].key = heap[s[j]].key
                             /\ ValueOf(s[j])' = IF j = i THEN v ELSE ValueOf(s[j])
  BY <1>3, <1>4 DEF SetAt
<1>8. ~tailDeleted' => Len(s) = 0 \/ kv_node_tail' = s[Len(s)]
  BY <1>1 DEF InStepWith
<1> QED
  BY <1>6, <1>7, <1>8

\* UPDATE, which reaches the first node only
LEMMA UpdateKeepsData ==
    ASSUME LockProofs!IInv, Stages, NEW s, DataInv(s), NEW w \in Workers,
           pc[w] = "search", Update(w), kv_node_head # NULL, heap[kv_node_head].key = Key(w)
    PROVE  /\ Len(s) # 0 /\ kv_node_head = s[1]
           /\ \E b \in Cells : ReplaceBuffer(s[1], b)
           /\ DataInv(s)'
<1>1. /\ HeapInv(s) /\ InStepWith(s) /\ pc[w] \in Working /\ ~Is(w, "read")
      /\ s \in Seq(Cells) /\ Len(s) \in Nat
  BY ListCells DEF DataInv, Working, Update, Is
<1>2. PICK b \in Cells :
        /\ ReplaceBuffer(kv_node_head, b) /\ current' = [current EXCEPT ![w] = kv_node_head]
        /\ pc' = [pc EXCEPT ![w] = "recv_value"]
        /\ stored' = [stored EXCEPT ![Key(w)] = Uninit]
        /\ UNCHANGED <<payload, tailDeleted>>
  BY DEF Update, Goto
<1>3. Len(s) # 0 /\ kv_node_head = s[1] /\ 1 \in 1 .. Len(s)
  BY <1>1 DEF HeapInv, Lists
<1>4. OneValueSet(s, 1, Uninit) /\ HeapInv(s)'
  BY <1>1, <1>2, <1>3, ReplaceKeeps DEF OneValueSet
<1>5. /\ ContentsAsAnswered' /\ stored' \in [Keys -> Values \union {Uninit, Absent}]
      /\ ~tailDeleted' => Len(s) = 0 \/ kv_node_tail' = s[Len(s)]
      /\ \A j \in 1 .. Len(s) :
           /\ heap'[s[j]].key = heap[s[j]].key
           /\ ValueOf(s[j])' = IF j = 1 THEN Uninit ELSE ValueOf(s[j])
  BY <1>1, <1>2, <1>3, <1>4, ValueSetAnswers
<1>6. /\ pc'[w] = "recv_value" /\ current'[w] = s[1] /\ payload' = payload
      /\ \A u \in Workers \ {w} : pc'[u] \notin {"recv_value", "send_value"}
  BY <1>1, <1>2, <1>3, OthersHoldNothing DEF Stages
<1>7. \A j \in 1 .. Len(s) : ValueOf(s[j])' = Uninit => current'[w] = s[j]
  BY <1>1, <1>5, <1>6, ValuesThere
<1>8. InStepWith(s)'
  BY <1>5, <1>6, <1>7 DEF InStepWith
<1>9. \A u \in Workers : Holds(s, u)'
  <2>1. s[1] \in Cells /\ s[1] \in CellsOf(s) /\ IsNode(s[1])' /\ heap'[s[1]].key = Key(w)
    <3>1. (\A j \in 1 .. Len(s) : s[j] \in Cells /\ IsNode(s[j]))'
      BY <1>4 DEF HeapInv, Lists
    <3> QED
      BY <1>3, <1>5, <3>1 DEF CellsOf
  <2> QED
    BY <1>6, <2>1 DEF Holds, Key, CellsOf
<1> QED
  BY <1>2, <1>3, <1>4, <1>8, <1>9 DEF DataInv

\* Two maps that the same list stands for
LEMMA MapSame ==
    ASSUME NEW l, NEW m, NEW m2, Reads(l, m), Reads(l, m2), NEW j \in Keys
    PROVE  m2[j] = m[j]
  BY DEF Reads

\* The value that a CREATE or UPDATE was waiting for
LEMMA ReceiveKeepsData ==
    ASSUME LockProofs!IInv, Stages, NEW s, DataInv(s), NEW w \in Workers, ReceiveValue(w)
    PROVE  /\ current[w] \in Cells /\ IsNode(current[w])
           /\ \E v \in Values, more \in Endings : StoreValue(current[w], v, more)
           /\ DataInv(s)'
<1> DEFINE k == Key(w)
           c == current[w]
<1>1. PICK v \in Values, more \in Endings :
        StoreValue(c, v, more) /\ stored' = [stored EXCEPT ![k] = v]
  BY DEF ReceiveValue
<1>2. /\ pc[w] = "recv_value" /\ pc[w] \in Working /\ ~Is(w, "read") /\ k \in Keys
      /\ pc' = [pc EXCEPT ![w] = "unlock"] /\ UNCHANGED <<payload, current, tailDeleted>>
  <2>1. /\ pc[w] = "recv_value" /\ pc' = [pc EXCEPT ![w] = "unlock"]
        /\ UNCHANGED <<payload, current, tailDeleted>>
    BY DEF ReceiveValue, Goto
  <2>2. payload[w] \in Commands /\ ~Is(w, "read")
    BY <2>1 DEF Stages
  <2> QED
    BY <2>1, <2>2 DEF Working, Commands, Key
<1>3. /\ HeapInv(s) /\ InStepWith(s) /\ s \in Seq(Cells) /\ Len(s) \in Nat
      /\ c \in Cells /\ IsNode(c) /\ heap[c].key = k
      /\ \/ c \in CellsOf(s)
         \/ tailDeleted /\ \A i \in 1 .. Len(s) : heap[s[i]].key # k
  BY <1>2, ListCells DEF DataInv, Holds
<1>4. \A u \in Workers : pc'[u] \notin {"recv_value", "send_value"}
  BY <1>2, OthersHoldNothing DEF Stages
<1>5. v # Uninit /\ v \in Values \union {Uninit}
  BY StoreAssumption
<1>6. CASE c \in CellsOf(s)
  <2>1. PICK i \in 1 .. Len(s) : c = s[i]
    BY <1>6 DEF CellsOf
  <2>2. OneValueSet(s, i, v) /\ HeapInv(s)'
    BY <1>1, <1>3, <2>1, StoreKeeps DEF OneValueSet
  <2>3. heap[s[i]].key = k
    BY <1>3, <2>1
  <2> HIDE DEF c, k
  <2>4. /\ ContentsAsAnswered' /\ stored' \in [Keys -> Values \union {Uninit, Absent}]
        /\ ~tailDeleted' => Len(s) = 0 \/ kv_node_tail' = s[Len(s)]
        /\ \A j \in 1 .. Len(s) : ValueOf(s[j])' = IF j = i THEN v ELSE ValueOf(s[j])
    BY <1>1, <1>2, <1>3, <1>5, <2>2, <2>3, ValueSetAnswers
  <2>5. \A j \in 1 .. Len(s) : j # i => ValueOf(s[j]) # Uninit
    BY <1>2, <1>3, <2>1, ListCells, ValuesThere DEF c
  <2>6. \A j \in 1 .. Len(s) : ValueOf(s[j])' # Uninit
    BY <1>5, <2>4, <2>5
  <2>7. InStepWith(s)'
    BY <2>4, <2>6 DEF InStepWith
  <2> QED
    BY <2>2, <2>7, <1>4, <1>1, <1>3 DEF DataInv, Holds, c
<1>7. CASE c \notin CellsOf(s)
  <2>1. /\ HeapInv(s)' /\ View(s)' = View(s) /\ kv_node_tail' = kv_node_tail
        /\ tailDeleted /\ \A i \in 1 .. Len(s) : heap[s[i]].key # k
    BY <1>1, <1>3, <1>7, StoreKeeps
  <2>2. Reads(View(s), Contents) /\ Reads(View(s), Contents')
    BY <1>3, <2>1, ContentsAreRead, ContentsAreReadNext DEF ContentsRead
  <2>3. \A j \in Keys : Contents'[j] = Contents[j]
    BY <2>2, MapSame
  <2>4. /\ Len(View(s)) = Len(s)
        /\ \A i \in 1 .. Len(s) : /\ View(s)[i].key = heap[s[i]].key
                                  /\ ValueOf(s[i])' = ValueOf(s[i])
    <3>1. \A i \in 1 .. Len(s) : /\ View(s)[i].value = ValueOf(s[i])
                                 /\ View(s)'[i].value = ValueOf(s[i])'
      BY <1>3, ViewIs
    <3> QED
      BY <1>3, <2>1, <3>1, ViewIs
  <2>5. Contents'[k] = Absent
    <3>1. \A i \in 1 .. Len(View(s)) : View(s)[i].key # k
      BY <2>1, <2>4
    <3> QED
      BY <1>2, <2>2, <3>1 DEF Reads
  <2>6. ContentsAsAnswered' /\ stored' \in [Keys -> Values \union {Uninit, Absent}]
    BY <1>1, <1>2, <1>3, <2>1, <2>3, <2>5, AnswersMove DEF InStepWith
  <2>7. \A j \in 1 .. Len(s) : ValueOf(s[j])' # Uninit
    <3> TAKE j \in 1 .. Len(s)
    <3>1. ValueOf(s[j])' = ValueOf(s[j])
      BY <2>4
    <3>2. ValueOf(s[j]) # Uninit
      BY <1>2, <1>3, <1>7, ValuesThere DEF CellsOf
    <3> QED
      BY <3>1, <3>2
  <2>8. InStepWith(s)'
    BY <1>2, <2>1, <2>6, <2>7 DEF InStepWith
  <2> QED
    BY <2>1, <2>8, <1>4, <1>1, <1>3 DEF DataInv, Holds
<1> QED
  BY <1>6, <1>7

\* DELETE
LEMMA DeleteKeepsData ==
    ASSUME LockProofs!IInv, Stages, NEW s, DataInv(s), NEW w \in Workers,
           pc[w] = "search", Delete(w), Found(Key(w)) # {}
    PROVE  \E i \in 1 .. Len(s) : DeleteNode(s[i]) /\ DataInv(Without(s, i))'
<1> DEFINE k == Key(w)
<1>1. /\ HeapInv(s) /\ InStepWith(s) /\ pc[w] \in Working /\ ~Is(w, "read") /\ k \in Keys
      /\ s \in Seq(Cells) /\ Len(s) \in Nat
  <2>1. HeapInv(s) /\ InStepWith(s) /\ pc[w] \in Working /\ ~Is(w, "read") /\ payload[w] \in Commands
    BY DEF DataInv, Working, Delete, Is, Stages
  <2>2. k \in Keys
    BY <2>1 DEF Commands, Key
  <2> QED
    BY <2>1, <2>2, ListCells
<1>2. PICK c \in Found(k) :
        /\ DeleteNode(c) /\ stored' = [stored EXCEPT ![k] = Absent]
        /\ tailDeleted' = (tailDeleted \/ (c # kv_node_head /\ heap[c].next = NULL))
        /\ pc' = [pc EXCEPT ![w] = "unlock"]
  BY DEF Delete, Goto
<1>3. PICK i \in 1 .. Len(s) : c = s[i] /\ heap[s[i]].key = k
  <2>1. c \in CellsOf(s) /\ heap[c].key = k
    BY <1>1, ListedAreCells DEF Found
  <2> QED
    BY <2>1 DEF CellsOf
<1>4. DeleteNode(s[i])
  BY <1>2, <1>3
<1> DEFINE t == Without(s, i)
<1>5. /\ HeapInv(t)' /\ kv_node_tail' = kv_node_tail
      /\ \A j \in 1 .. Len(s) - 1 : /\ heap'[t[j]].key = heap[t[j]].key
                                    /\ ValueOf(t[j])' = ValueOf(t[j])
  BY <1>1, <1>4, DeleteKeeps
<1>6. /\ Len(t) = Len(s) - 1 /\ Len(t) \in Nat
      /\ \A j \in 1 .. Len(s) - 1 :
           /\ j < i => j \in 1 .. Len(s) /\ t[j] = s[j]
           /\ ~(j < i) => j + 1 \in 1 .. Len(s) /\ t[j] = s[j + 1]
  <2>1. /\ Len(t) = Len(s) - 1
        /\ \A j \in 1 .. Len(s) - 1 :
             /\ j < i => j \in 1 .. Len(s) /\ t[j] = s[j]
             /\ ~(j < i) => j + 1 \in 1 .. Len(s) /\ t[j] = s[j + 1]
    BY <1>1, WithoutSeq
  <2> HIDE DEF t
  <2> QED
    BY <1>1, <1>3, <2>1
<1>7. Reads(View(s), Contents) /\ Reads(View(t)', Contents')
  BY <1>1, <1>5, ContentsAreRead, ContentsAreReadNext DEF ContentsRead
<1> HIDE DEF t, k
<1>8. /\ \A j \in 1 .. Len(s) : Contents[heap[s[j]].key] = ValueOf(s[j])
      /\ \A j \in Keys : (\A n \in 1 .. Len(s) : heap[s[n]].key # j) => Contents[j] = Absent
  <2>1. /\ Len(View(s)) = Len(s)
        /\ \A j \in 1 .. Len(s) : /\ View(s)[j].key = heap[s[j]].key
                                  /\ View(s)[j].value = ValueOf(s[j])
    BY <1>1, ViewIs
  <2> QED
    BY <1>7, <2>1 DEF Reads
<1>9. /\ \A j \in 1 .. Len(t) : Contents'[heap'[t[j]].key] = ValueOf(t[j])'
      /\ \A j \in Keys : (\A n \in 1 .. Len(t) : heap'[t[n]].key # j) => Contents'[j] = Absent
  <2> DEFINE l == View(t)'
  <2>1. /\ Len(l) = Len(t)
        /\ \A j \in 1 .. Len(t) : l[j].key = heap'[t[j]].key /\ l[j].value = ValueOf(t[j])'
    BY <1>6 DEF View
  <2> HIDE DEF l
  <2>2. Reads(l, Contents')
    BY <1>7 DEF l
  <2> QED
    BY <2>1, <2>2 DEF Reads
<1>10. \A j \in 1 .. Len(t) : \E n \in 1 .. Len(s) \ {i} :
         heap'[t[j]].key = heap[s[n]].key /\ ValueOf(t[j])' = ValueOf(s[n])
  <2> TAKE j \in 1 .. Len(t)
  <2>1. PICK n \in 1 .. Len(s) \ {i} : t[j] = s[n]
    BY <1>1, <1>3, <1>6
  <2> QED
    BY <1>5, <1>6, <2>1
<1>11. \A n \in 1 .. Len(s) \ {i} : \E j \in 1 .. Len(t) :
         heap'[t[j]].key = heap[s[n]].key /\ ValueOf(t[j])' = ValueOf(s[n])
  <2> TAKE n \in 1 .. Len(s) \ {i}
  <2>1. PICK j \in 1 .. Len(t) : t[j] = s[n]
    <3>1. CASE n < i
      <4>1. n \in 1 .. Len(t)
        BY <1>1, <1>3, <1>6, <3>1
      <4> QED
        BY <1>6, <3>1, <4>1
    <3>2. CASE ~(n < i)
      <4>1. n - 1 \in 1 .. Len(t) /\ ~(n - 1 < i) /\ (n - 1) + 1 = n
        BY <1>1, <1>3, <1>6, <3>2
      <4> QED
        BY <1>6, <4>1
    <3> QED
      BY <3>1, <3>2
  <2> QED
    BY <1>5, <1>6, <2>1
<1>12. Contents'[k] = Absent
  <2>1. \A n \in 1 .. Len(s) \ {i} : heap[s[n]].key # k
    BY <1>1, <1>3 DEF HeapInv
  <2> QED
    BY <1>1, <1>9, <1>10, <2>1
<1>13. \A j \in Keys \ {k} : Contents'[j] = Contents[j]
  <2> TAKE j \in Keys \ {k}
  <2>1. CASE \E n \in 1 .. Len(s) : heap[s[n]].key = j
    <3>1. PICK n \in 1 .. Len(s) \ {i} : heap[s[n]].key = j
      BY <1>3, <2>1
    <3> QED
      BY <1>8, <1>9, <1>11, <3>1
  <2>2. CASE \A n \in 1 .. Len(s) : heap[s[n]].key # j
    <3>1. \A n \in 1 .. Len(t) : heap'[t[n]].key # j
      BY <1>10, <2>2
    <3> QED
      BY <1>8, <1>9, <2>2, <3>1
  <2> QED
    BY <2>1, <2>2
<1>14. ContentsAsAnswered' /\ stored' \in [Keys -> Values \union {Uninit, Absent}]
  BY <1>1, <1>2, <1>12, <1>13, AnswersMove DEF InStepWith
<1>15. \A j \in 1 .. Len(t) : ValueOf(t[j])' # Uninit
  <2>1. \A j \in 1 .. Len(s) : ValueOf(s[j]) # Uninit
    BY <1>1, ValuesThere
  <2> QED
    BY <1>10, <2>1
<1>16. ASSUME ~tailDeleted', Len(t) # 0 PROVE kv_node_tail' = t[Len(t)]
  <2>1. ~tailDeleted /\ (heap[c].next = NULL => c = kv_node_head)
    BY <1>2, <1>16, Zenon
  <2>2. kv_node_tail = s[Len(s)] /\ Len(s) # 0
    BY <1>1, <1>3, <2>1 DEF InStepWith
  <2>3. kv_node_head = s[1] /\ (i = Len(s) => heap[c].next = NULL)
    BY <1>1, <1>3, <2>2 DEF HeapInv, Lists
  <2>4. i # Len(s)
    <3> SUFFICES ASSUME i = Len(s) PROVE FALSE
      OBVIOUS
    <3>1. s[i] = s[1]
      BY <1>3, <2>1, <2>3
    <3>2. i = 1
      BY <1>1, <1>3, <2>2, <3>1 DEF HeapInv, Lists
    <3> QED
      BY <1>6, <1>16, <3>2
  <2>5. t[Len(t)] = s[Len(s)]
    BY <1>1, <1>3, <1>6, <1>16, <2>4
  <2> QED
    BY <1>5, <2>2, <2>5
<1>17. InStepWith(t)'
  BY <1>14, <1>15, <1>16 DEF InStepWith
<1>18. \A u \in Workers : Holds(t, u)'
  <2>1. \A u \in Workers : pc'[u] \notin {"recv_value", "send_value"}
    BY <1>1, <1>2, OthersHoldNothing DEF Stages
  <2> QED
    BY <2>1 DEF Holds
<1>19. DataInv(t)'
  BY <1>5, <1>17, <1>18 DEF DataInv
<1> QED
  BY <1>4, <1>19 DEF t

\* A step that leaves the list and the answers alone
LEMMA QuietKeepsData ==
    ASSUME NEW s, DataInv(s), UNCHANGED <<storeVars, history>>,
           \A u \in Workers :
             /\ pc[u] = "recv_value" => pc'[u] = "recv_value"
             /\ pc'[u] = "recv_value" =>
                  pc[u] = "recv_value" /\ current'[u] = current[u] /\ payload'[u] = payload[u]
             /\ pc'[u] = "send_value" =>
                  \/ pc[u] = "send_value" /\ current'[u] = current[u] /\ payload'[u] = payload[u]
                  \/ \E i \in 1 .. Len(s) : current'[u] = s[i] /\ heap[s[i]].key = payload'[u].key
    PROVE  DataInv(s)'
<1>1. UNCHANGED <<kv_node_head, kv_node_tail, heap, stored, tailDeleted>>
  BY DEF storeVars, history
<1>2. HeapInv(s) /\ HeapInv(s)' /\ View(s)' = View(s)
  BY <1>1 DEF DataInv, HeapInv, HeapTypeOK, Lists, OwnBuffers, IsNode, IsBuffer, View, ValueOf
<1>3. Contents' = Contents
  <2>1. Reads(View(s), Contents) /\ Reads(View(s), Contents')
    BY <1>2, ContentsAreRead, ContentsAreReadNext DEF ContentsRead
  <2>2. \A j \in Keys : Contents'[j] = Contents[j]
    BY <2>1, MapSame
  <2>3. /\ Contents = [j \in Keys |-> Contents[j]]
        /\ Contents' = [j \in Keys |-> Contents'[j]]
    BY DEF Contents
  <2> QED
    BY <2>2, <2>3
<1>4. InStepWith(s)'
  <2>1. InStepWith(s)
    BY DEF DataInv
  <2>2. ContentsAsAnswered'
    BY <1>1, <1>3, <2>1 DEF InStepWith, ContentsAsAnswered
  <2>3. ASSUME NEW i \in 1 .. Len(s), ValueOf(s[i])' = Uninit
        PROVE  \E u \in Workers : pc'[u] = "recv_value" /\ current'[u] = s[i]
    <3>1. ValueOf(s[i]) = Uninit
      BY <1>1, <2>3 DEF ValueOf
    <3>2. PICK u \in Workers : pc[u] = "recv_value" /\ current[u] = s[i]
      BY <2>1, <3>1 DEF InStepWith
    <3> QED
      BY <3>2
  <2> QED
    BY <1>1, <2>1, <2>2, <2>3 DEF InStepWith
<1>5. ASSUME NEW u \in Workers PROVE Holds(s, u)'
  <2>1. Holds(s, u)
    BY DEF DataInv
  <2>2. pc'[u] = "send_value" =>
          \E i \in 1 .. Len(s) : current'[u] = s[i] /\ heap'[s[i]].key = payload'[u].key
    BY <1>1, <2>1 DEF Holds, Key
  <2>3. pc'[u] = "recv_value" =>
          /\ current'[u] \in Cells /\ IsNode(current[u])' /\ heap'[current'[u]].key = payload'[u].key
          /\ \/ current'[u] \in CellsOf(s)
             \/ tailDeleted' /\ \A i \in 1 .. Len(s) : heap'[s[i]].key # payload'[u].key
    BY <1>1, <2>1 DEF Holds, Key, IsNode
  <2> QED
    BY <2>2, <2>3 DEF Holds, Key, CellsOf
<1> QED
  BY <1>2, <1>4, <1>5 DEF DataInv

\* So does a step of worker w to a place where it holds no node.
LEMMA HeldNodesStay ==
    ASSUME Stages, NEW s, DataInv(s), UNCHANGED <<storeVars, history>>, NEW w \in Workers,
           pc[w] # "recv_value", NEW p, p \notin {"recv_value", "send_value"},
           pc' = [pc EXCEPT ![w] = p],
           \A u \in Workers \ {w} : current'[u] = current[u] /\ payload'[u] = payload[u]
    PROVE  DataInv(s)'
<1>1. pc'[w] = p /\ \A u \in Workers \ {w} : pc'[u] = pc[u]
  BY DEF Stages
<1>2. ASSUME NEW u \in Workers
      PROVE  /\ pc[u] = "recv_value" => pc'[u] = "recv_value"
             /\ pc'[u] = "recv_value" =>
                  pc[u] = "recv_value" /\ current'[u] = current[u] /\ payload'[u] = payload[u]
             /\ pc'[u] = "send_value" =>
                  pc[u] = "send_value" /\ current'[u] = current[u] /\ payload'[u] = payload[u]
  <2>1. CASE u = w
    BY <1>1, <2>1
  <2>2. CASE u # w
    BY <1>1, <2>2
  <2> QED
    BY <2>1, <2>2
<1> QED
  BY <1>2, QuietKeepsData

\* READ holds the node it has found.
LEMMA ReadKeepsData ==
    ASSUME Stages, NEW s, DataInv(s), NEW w \in Workers, pc[w] = "search", Read(w)
    PROVE  DataInv(s)'
<1>1. UNCHANGED <<storeVars, history, payload>>
  BY DEF Read
<1>2. CASE Goto(w, "search", "unlock") /\ UNCHANGED current
  BY <1>1, <1>2, HeldNodesStay DEF Goto
<1>3. CASE \E c \in Found(Key(w)) :
             Goto(w, "search", "send_value") /\ current' = [current EXCEPT ![w] = c]
  <2>1. PICK c \in Found(Key(w)) :
          pc' = [pc EXCEPT ![w] = "send_value"] /\ current' = [current EXCEPT ![w] = c]
    BY <1>3 DEF Goto
  <2>2. PICK i \in 1 .. Len(s) : c = s[i] /\ heap[s[i]].key = payload[w].key
    <3>1. c \in CellsOf(s) /\ heap[c].key = payload[w].key
      BY ListedAreCells DEF Found, DataInv, Key
    <3> QED
      BY <3>1 DEF CellsOf
  <2>3. /\ pc'[w] = "send_value" /\ current'[w] = c
        /\ \A u \in Workers \ {w} : pc'[u] = pc[u] /\ current'[u] = current[u]
    BY <2>1 DEF Stages
  <2>4. ASSUME NEW u \in Workers
        PROVE  /\ pc[u] = "recv_value" => pc'[u] = "recv_value"
               /\ pc'[u] = "recv_value" =>
                    pc[u] = "recv_value" /\ current'[u] = current[u] /\ payload'[u] = payload[u]
               /\ pc'[u] = "send_value" =>
                    \/ pc[u] = "send_value" /\ current'[u] = current[u] /\ payload'[u] = payload[u]
                    \/ \E j \in 1 .. Len(s) : current'[u] = s[j] /\ heap[s[j]].key = payload'[u].key
    <3>1. CASE u = w
      BY <1>1, <2>2, <2>3, <3>1
    <3>2. CASE u # w
      BY <1>1, <2>3, <3>2
    <3> QED
      BY <3>1, <3>2
  <2> QED
    BY <1>1, <2>4, QuietKeepsData
<1> QED
  BY <1>2, <1>3 DEF Read

\* Every step leaves a list with the invariant.
LEMMA DataKept ==
    ASSUME LockProofs!IInv, Stages, NEW s, DataInv(s), [Next]_vars
    PROVE  \E t : DataInv(t)'
<1>1. CASE Dispatch \/ UNCHANGED vars \/ \E w \in Workers : LockWakeup(w) \/ LoopInUpdate(w)
  <2>1. UNCHANGED <<storeVars, history, pc, payload, current>>
    BY <1>1 DEF Dispatch, vars, LockWakeup, LoopInUpdate
  <2> QED
    BY <2>1, QuietKeepsData
<1>2. ASSUME NEW w \in Workers, Receive(w) \/ AcquireLock(w) \/ SendValue(w) \/ ReleaseLock(w)
      PROVE  DataInv(s)'
  <2>1. /\ UNCHANGED <<storeVars, history>> /\ pc[w] # "recv_value"
        /\ \E p \in {"lock", "search", "unlock", "recv"} : pc' = [pc EXCEPT ![w] = p]
    BY <1>2 DEF Receive, AcquireLock, SendValue, ReleaseLock, Goto
  <2>2. \A u \in Workers \ {w} : current'[u] = current[u] /\ payload'[u] = payload[u]
    BY <1>2 DEF Receive, AcquireLock, SendValue, ReleaseLock, Stages
  <2> QED
    BY <2>1, <2>2, HeldNodesStay
<1>3. ASSUME NEW w \in Workers, pc[w] = "search",
             NEW p \in {"unlock", "loop"}, pc' = [pc EXCEPT ![w] = p],
             UNCHANGED <<storeVars, history, current, payload>>
      PROVE  DataInv(s)'
  BY <1>3, HeldNodesStay
<1>4. ASSUME NEW w \in Workers, pc[w] = "search", Create(w) PROVE \E t : DataInv(t)'
  <2>1. CASE Found(Key(w)) = {}
    BY <1>4, <2>1, CreateKeepsData
  <2>2. CASE Found(Key(w)) # {}
    BY <1>3, <1>4, <2>2 DEF Create, Goto
  <2> QED
    BY <2>1, <2>2
<1>5. ASSUME NEW w \in Workers, pc[w] = "search", Delete(w) PROVE \E t : DataInv(t)'
  <2>1. CASE Found(Key(w)) = {}
    <3>1. /\ pc' = [pc EXCEPT ![w] = "unlock"]
          /\ UNCHANGED <<storeVars, history, current, payload>>
      BY <1>5, <2>1 DEF Delete, Goto
    <3> QED
      BY <1>3, <1>5, <3>1
  <2>2. CASE Found(Key(w)) # {}
    BY <1>5, <2>2, DeleteKeepsData
  <2> QED
    BY <2>1, <2>2
<1>6. ASSUME NEW w \in Workers, pc[w] = "search", Update(w) PROVE \E t : DataInv(t)'
  <2>1. CASE kv_node_head # NULL /\ heap[kv_node_head].key = Key(w)
    BY <1>6, <2>1, UpdateKeepsData
  <2>2. CASE ~(kv_node_head # NULL /\ heap[kv_node_head].key = Key(w))
    <3>1. /\ \E p \in {"unlock", "loop"} : pc' = [pc EXCEPT ![w] = p]
          /\ UNCHANGED <<storeVars, history, current, payload>>
      BY <1>6, <2>2 DEF Update, Goto
    <3> QED
      BY <1>3, <1>6, <3>1
  <2> QED
    BY <2>1, <2>2
<1>7. ASSUME NEW w \in Workers, ReceiveValue(w) PROVE DataInv(s)'
  BY <1>7, ReceiveKeepsData
<1>8. ASSUME NEW w \in Workers, pc[w] = "search", Read(w) PROVE DataInv(s)'
  BY <1>8, ReadKeepsData
<1> QED
  BY <1>1, <1>2, <1>4, <1>5, <1>6, <1>7, <1>8 DEF Next, Command

\* The invariant of the heap is part of it.
LEMMA StoreIsSound == ASSUME NEW s, DataInv(s) PROVE StoreInv
  BY DEF DataInv, StoreInv

\* The invariant of the server
THEOREM PoolInvariant == Spec => []PoolInv
<1>1. Init => PoolInv
  <2> SUFFICES ASSUME Init PROVE PoolInv
    OBVIOUS
  <2>1. HeapInv(<<>>)
    BY InitHeap DEF Init
  <2>2. Stages
    BY DEF Init, Stages, Location, Working
  <2>3. \A w \in Workers : Holds(<<>>, w)
    BY DEF Init, Holds
  <2>4. InStepWith(<<>>)
    <3>1. Reads(View(<<>>), Contents) /\ Len(View(<<>>)) = 0
      BY <2>1, ContentsAreRead, ViewIs DEF ContentsRead
    <3>2. \A k \in Keys : Contents[k] = Absent
      BY <3>1 DEF Reads
    <3>3. Contents = [k \in Keys |-> Contents[k]]
      BY DEF Contents
    <3>4. Contents = stored /\ \A k \in Keys : stored[k] = Absent
      BY <3>2, <3>3 DEF Init
    <3> QED
      BY <3>4 DEF InStepWith, ContentsAsAnswered, Init
  <2>5. LockProofs!IInv
    BY InstancesApply, LockProofs!TypeInit
       DEF Init, Lock!InitalizeReadWriteLock, LockProofs!InitalizeReadWriteLock
  <2> QED
    BY <2>1, <2>2, <2>3, <2>4, <2>5 DEF PoolInv, DataInv
<1>2. PoolInv /\ [Next]_vars => PoolInv'
  <2> SUFFICES ASSUME PoolInv, [Next]_vars PROVE PoolInv'
    OBVIOUS
  <2>1. PICK s : DataInv(s)
    BY DEF PoolInv
  <2>2. LockProofs!IInv'
    <3>1. [LockProofs!Next]_LockProofs!lockVars
      BY StepRefinesLock DEF lockVars, LockProofs!lockVars
    <3> QED
      BY <3>1, InstancesApply, LockProofs!StepKeepsIInv DEF PoolInv
  <2>3. Stages'
    BY <2>1, StagesKept, StoreIsSound DEF PoolInv
  <2>4. (\E t : DataInv(t))'
    BY <2>1, DataKept DEF PoolInv
  <2> QED
    BY <2>2, <2>3, <2>4 DEF PoolInv
<1> QED
  BY <1>1, <1>2, PTL DEF Spec

\* The list can always be walked: PoolInv has the list and StoreInv follows.
THEOREM ListAlwaysSound == Spec => []ListSound
<1>1. PoolInv => ListSound
  BY StoreIsSound, ListIsSound DEF PoolInv
<1> QED
  BY <1>1, PoolInvariant, PTL

\* What the replies promise is what the list holds, as long as it can be known: which
\* keys there are, and with what bytes each value begins.  Where the value ends that a
\* READ sends is not promised (the run of ReadEndsWithValue).
THEOREM AnswersHold == Spec => []ContentsAsAnswered
<1>1. PoolInv => ContentsAsAnswered
  BY DEF PoolInv, DataInv, InStepWith
<1> QED
  BY <1>1, PoolInvariant, PTL

\* The node that a READ sends from, and the buffer that a CREATE or UPDATE receives
\* into, are allocated; what READ sends is not still on its way from another client,
\* since that client's worker would have the lock for writing.
THEOREM HeldNodesLive == Spec => []HeldNodeLives
<1>1. PoolInv => HeldNodeLives
  <2> SUFFICES ASSUME PoolInv, NEW w \in Workers
               PROVE  /\ pc[w] = "send_value" => /\ current[w] \in Found(Key(w))
                                                 /\ ValueOf(current[w]) # Uninit
                      /\ pc[w] = "recv_value" =>
                           /\ IsNode(current[w]) /\ heap[current[w]].key = Key(w)
                           /\ IsBuffer(heap[current[w]].value)
    BY DEF HeldNodeLives
  <2>1. PICK s : DataInv(s)
    BY DEF PoolInv
  <2>2. HeapInv(s) /\ Holds(s, w) /\ InStepWith(s) /\ LockProofs!IInv /\ Stages
    BY <2>1 DEF DataInv, PoolInv
  <2>3. ASSUME pc[w] = "send_value"
        PROVE  current[w] \in Found(Key(w)) /\ ValueOf(current[w]) # Uninit
    <3>1. PICK i \in 1 .. Len(s) : current[w] = s[i] /\ heap[s[i]].key = Key(w)
      BY <2>2, <2>3 DEF Holds
    <3>2. s[i] \in Found(Key(w))
      BY <2>2, <3>1, ListedAreCells, ListCells DEF Found, CellsOf
    <3>3. ASSUME ValueOf(s[i]) = Uninit PROVE FALSE
      <4>1. PICK u \in Workers : pc[u] = "recv_value"
        BY <2>2, <3>3 DEF InStepWith
      <4>2. u # w /\ pc[u] \in Working /\ ~Is(u, "read")
        BY <2>2, <2>3, <4>1 DEF Stages, Working
      <4>3. pc[w] \in {"recv", "lock"}
        BY <2>2, <4>2, WriterAlone
      <4> QED
        BY <2>3, <4>3
    <3> QED
      BY <3>1, <3>2, <3>3
  <2>4. ASSUME pc[w] = "recv_value"
        PROVE  /\ IsNode(current[w]) /\ heap[current[w]].key = Key(w)
               /\ IsBuffer(heap[current[w]].value)
    BY <2>2, <2>4 DEF Holds, HeapInv, OwnBuffers
  <2> QED
    BY <2>3, <2>4
<1> QED
  BY <1>1, PoolInvariant, PTL

\* The variables keep their types.
THEOREM TypeCorrect == Spec => []TypeOK
<1>1. PoolInv => TypeOK
  <2> SUFFICES ASSUME PoolInv PROVE TypeOK
    OBVIOUS
  <2>1. PICK s : DataInv(s)
    BY DEF PoolInv
  <2>2. StoreTypeOK
    BY <2>1, StoreIsSound, HeapHasType
  <2>3. stored \in [Keys -> Values \union {Uninit, Absent}]
    BY <2>1 DEF DataInv, InStepWith
  <2> QED
    BY <2>2, <2>3 DEF TypeOK, PoolInv, Stages
<1> QED
  BY <1>1, PoolInvariant, PTL

-----------------------------------------------------------------------------
(***************************************************************************)
(* The list of the server is KVList.                                       *)
(***************************************************************************)

\* Nodes, links and buffers that stay give the list that it was.
LEMMA ListStays ==
    ASSUME NEW s, DataInv(s), UNCHANGED storeVars
    PROVE  UNCHANGED <<Listing, TailLost>>
<1>1. UNCHANGED <<kv_node_head, kv_node_tail, heap>>
  BY DEF storeVars
<1>2. HeapInv(s) /\ HeapInv(s)' /\ View(s)' = View(s)
  BY <1>1 DEF DataInv, HeapInv, HeapTypeOK, Lists, OwnBuffers, IsNode, IsBuffer, View, ValueOf
<1>3. Listing' = Listing /\ (TailLost' <=> TailLost)
  BY <1>1, <1>2, Mapping, MappingNext
<1> QED
  BY <1>3 DEF TailLost

\* Every step is one of KVList or leaves the list alone.
LEMMA StepRefinesList ==
    PoolInv /\ [Next]_vars => [List!Next]_List!listVars
<1> SUFFICES ASSUME PoolInv, [Next]_vars
             PROVE  List!Next \/ UNCHANGED <<Listing, TailLost>>
  BY DEF List!listVars
<1>1. PICK s : DataInv(s)
  BY DEF PoolInv
<1>2. HeapInv(s) /\ StoreInv /\ LockProofs!IInv /\ Stages
  BY <1>1, StoreIsSound DEF DataInv, PoolInv
<1>3. CASE UNCHANGED storeVars
  BY <1>1, <1>3, ListStays
<1>4. ASSUME NEW w \in Workers, pc[w] = "search", Create(w)
      PROVE  List!Next \/ UNCHANGED storeVars
  <2>1. CASE Found(Key(w)) = {}
    <3>1. Key(w) \in Keys
      BY <1>2, <1>4 DEF Stages, Commands, Key
    <3>2. PICK n \in Cells, b \in Cells : CreateNode(Key(w), n, b)
      BY <1>4, <2>1 DEF Create
    <3>3. List!CreateNode(Key(w))
      BY <1>2, <2>1, <3>1, <3>2, CreateRefines
    <3> QED
      BY <3>1, <3>3 DEF List!Next
  <2>2. CASE Found(Key(w)) # {}
    BY <1>4, <2>2 DEF Create
  <2> QED
    BY <2>1, <2>2
<1>5. ASSUME NEW w \in Workers, pc[w] = "search", Delete(w)
      PROVE  List!Next \/ UNCHANGED storeVars
  <2>1. CASE Found(Key(w)) = {}
    BY <1>5, <2>1 DEF Delete
  <2>2. CASE Found(Key(w)) # {}
    <3>1. PICK c \in Listed : DeleteNode(c)
      BY <1>5, <2>2 DEF Delete, Found
    <3>2. \E i \in DOMAIN Listing : List!DeleteNode(i)
      BY <1>2, <3>1, DeleteRefines
    <3> QED
      BY <3>2 DEF List!Next
  <2> QED
    BY <2>1, <2>2
<1>6. ASSUME NEW w \in Workers, pc[w] = "search", Update(w)
      PROVE  List!Next \/ UNCHANGED storeVars
  <2>1. CASE kv_node_head # NULL /\ heap[kv_node_head].key = Key(w)
    <3>1. Len(s) # 0 /\ kv_node_head = s[1] /\ \E b \in Cells : ReplaceBuffer(s[1], b)
      BY <1>1, <1>2, <1>6, <2>1, UpdateKeepsData
    <3>2. s[1] \in Listed
      BY <1>2, <3>1, ListedAreCells, ListCells DEF CellsOf
    <3>3. \E i \in DOMAIN Listing : List!ReplaceBuffer(i)
      BY <1>2, <3>1, <3>2, ReplaceRefines
    <3> QED
      BY <3>3 DEF List!Next
  <2>2. CASE ~(kv_node_head # NULL /\ heap[kv_node_head].key = Key(w))
    BY <1>6, <2>2 DEF Update
  <2> QED
    BY <2>1, <2>2
<1>7. ASSUME NEW w \in Workers, ReceiveValue(w)
      PROVE  List!Next \/ UNCHANGED <<Listing, TailLost>>
  <2>1. /\ current[w] \in Cells /\ IsNode(current[w])
        /\ \E v \in Values, more \in Endings : StoreValue(current[w], v, more)
    BY <1>1, <1>2, <1>7, ReceiveKeepsData
  <2>2. PICK v \in Values, more \in Endings : StoreValue(current[w], v, more)
    BY <2>1
  <2>3. \/ \E i \in DOMAIN Listing : List!StoreValue(i, v)
        \/ UNCHANGED <<Listing, TailLost>>
    BY <1>2, <2>1, <2>2, StoreRefines
  <2> QED
    BY <2>3 DEF List!Next
<1>8. ASSUME NEW w \in Workers,
             \/ Receive(w) \/ AcquireLock(w) \/ Read(w) \/ SendValue(w) \/ ReleaseLock(w)
             \/ LockWakeup(w) \/ LoopInUpdate(w)
      PROVE  UNCHANGED storeVars
  BY <1>8 DEF Receive, AcquireLock, Read, SendValue, ReleaseLock, LockWakeup, LoopInUpdate, vars
<1>9. ASSUME Dispatch \/ UNCHANGED vars PROVE UNCHANGED storeVars
  BY <1>9 DEF Dispatch, vars
<1> QED
  BY <1>3, <1>4, <1>5, <1>6, <1>7, <1>8, <1>9 DEF Next, Command

\* Whatever the clients ask for and however the workers interleave, the nodes, links
\* and buffers of the server are the list of KVList, each command one operation on it.
THEOREM ListRefinement == Spec => ImplementsKVList
<1>1. Init => List!InitList
  BY InitStoreRefines DEF Init
<1> QED
  BY <1>1, StepRefinesList, PoolInvariant, PTL DEF Spec, ImplementsKVList, List!Spec
=============================================================================
