------------------------------- MODULE KVStore -------------------------------
(***************************************************************************)
(* The key-value list of the KV servers (kv_node_head, kv_node_tail and    *)
(* the nodes) in a heap, with the list operations of handle_client in      *)
(* kv-server-pool-rwlock/server.c.  The same code is in the other three    *)
(* servers of lab_nw.                                                      *)
(*                                                                         *)
(* A cell of the heap is what malloc returns: free, a node, or the buffer  *)
(* of a value.  malloc may return any free cell, the one freed last        *)
(* included, and nodes and short values share cells as they share size     *)
(* classes of the allocator.  Writing through a dangling tail pointer is   *)
(* undefined: it does nothing if the cell is still free, and it may or may *)
(* not damage the value that a buffer in the cell holds.                   *)
(*                                                                         *)
(* Nothing zeroes a buffer (99, 205) and no client sends a NUL behind a    *)
(* value (client.c:109, 189), so a value need not end where it was stored: *)
(* other bytes may follow it up to the first NUL, those of an earlier      *)
(* value, of the allocator, of a command that came with it, or of what     *)
(* lies behind the buffer.                                                 *)
(***************************************************************************)
EXTENDS Naturals, Sequences, FiniteSets

CONSTANTS Keys, Values,
          Cells,     \* the heap; bounds the number of mallocs
          NULL,
          Uninit,    \* what a fresh buffer holds
          Damaged,   \* what a buffer holds after a stray write
          Endings    \* of BOOLEAN; bounds which stored values have bytes behind them

ASSUME StoreAssumption ==
    /\ IsFiniteSet(Cells) /\ NULL \notin Cells
    /\ Uninit # Damaged /\ {Uninit, Damaged} \intersect Values = {}
    /\ Endings \subseteq BOOLEAN

VARIABLES kv_node_head, kv_node_tail, heap

storeVars == <<kv_node_head, kv_node_tail, heap>>

Free        == [kind |-> "free"]
Node(k, b)  == [kind |-> "node", key |-> k, value |-> b, next |-> NULL]

\* A buffer that holds v, with more bytes behind it before the first NUL or not.
Buffer(v, more) == [kind |-> "buffer", data |-> v, more |-> more]
FreshBuffer     == Buffer(Uninit, TRUE)
DamagedBuffer   == Buffer(Damaged, TRUE)

IsFree(c)   == heap[c].kind = "free"
IsNode(c)   == c # NULL /\ heap[c].kind = "node"
IsBuffer(c) == c # NULL /\ heap[c].kind = "buffer"

InitStore ==
    /\ kv_node_head = NULL /\ kv_node_tail = NULL
    /\ heap = [c \in Cells |-> Free]

\* The cells a walk from kv_node_head comes to: Walk[i] after i links.
Walk[i \in 0 .. Cardinality(Cells)] ==
    IF i = 0 THEN kv_node_head
    ELSE IF IsNode(Walk[i-1]) THEN heap[Walk[i-1]].next ELSE NULL

Listed == {Walk[i] : i \in DOMAIN Walk} \ {NULL}

\* The search loop (77-89, 120-130, 152-175): the nodes with key k, of which
\* there is one at most.
Found(k) == {c \in Listed : IsNode(c) /\ heap[c].key = k}

\* What the buffer of node c begins with; READ finds it and all up to the first NUL.
ValueOf(c) == heap[heap[c].value].data

\* The heaps that kv_node_tail->next = n may leave.
WriteTailNext(n) ==
    LET t == kv_node_tail
    IN  CASE IsNode(t)   -> {[heap EXCEPT ![t].next = n]}
          [] IsBuffer(t) -> {heap, [heap EXCEPT ![t] = DamagedBuffer]}
          [] OTHER       -> {heap}

\* Variants named X_... are X with a slip; each breaks a property.
CreateNode_TailKept(k, n, b) ==
    /\ IsFree(n) /\ IsFree(b) /\ n # b
    /\ kv_node_head' = IF kv_node_head = NULL THEN n ELSE kv_node_head
    /\ kv_node_tail' = IF kv_node_head = NULL THEN n ELSE kv_node_tail
    /\ \E h \in IF kv_node_head = NULL THEN {heap} ELSE WriteTailNext(n) :
         heap' = [h EXCEPT ![n] = Node(k, b), ![b] = FreshBuffer]

\* CREATE of a new key (100-108): the node goes behind the tail and its buffer
\* is still empty.
CreateNode(k, n, b) ==
    /\ IsFree(n) /\ IsFree(b) /\ n # b
    /\ kv_node_head' = IF kv_node_head = NULL THEN n ELSE kv_node_head
    /\ \E h \in IF kv_node_head = NULL THEN {heap} ELSE WriteTailNext(n) :
         heap' = [h EXCEPT ![n] = Node(k, b), ![b] = FreshBuffer]
    /\ kv_node_tail' = n

DeleteNode_KeepLinks(c) ==
    /\ kv_node_head' = IF c = kv_node_head THEN heap[c].next ELSE kv_node_head
    /\ heap' = [heap EXCEPT ![c] = Free]
    /\ UNCHANGED kv_node_tail

DeleteNode_HeadOnly(c) ==
    /\ kv_node_head' = IF c = kv_node_head THEN heap[c].next ELSE kv_node_head
    /\ heap' = IF c = kv_node_head THEN [heap EXCEPT ![c] = Free] ELSE heap
    /\ UNCHANGED kv_node_tail

\* DELETE of the key in node c (157-167): unlinks and frees the node.  Its value
\* is not freed and kv_node_tail is not looked at.
DeleteNode(c) ==
    /\ \/ /\ c = kv_node_head
          /\ kv_node_head' = heap[c].next
          /\ heap' = [heap EXCEPT ![c] = Free]
       \/ /\ c # kv_node_head
          /\ \E p \in Listed :
               /\ heap[p].next = c
               /\ heap' = [heap EXCEPT ![p].next = heap[c].next, ![c] = Free]
          /\ UNCHANGED kv_node_head
    /\ UNCHANGED kv_node_tail

\* UPDATE of the key in node c (204-205): the old buffer is freed first, so the
\* new one may be in its cell.
ReplaceBuffer(c, b) ==
    /\ IsFree(b) \/ b = heap[c].value
    /\ heap' = [heap EXCEPT ![heap[c].value] = Free,
                            ![c].value = b, ![b] = FreshBuffer]
    /\ UNCHANGED <<kv_node_head, kv_node_tail>>

\* recv of the bytes v into the buffer of node c (109, 206)
StoreValue(c, v, more) ==
    /\ heap' = [heap EXCEPT ![heap[c].value] = Buffer(v, more)]
    /\ UNCHANGED <<kv_node_head, kv_node_tail>>
-----------------------------------------------------------------------------
StoreTypeOK ==
    /\ kv_node_head \in Cells \union {NULL}
    /\ kv_node_tail \in Cells \union {NULL}
    /\ \A c \in Cells :
         \/ heap[c] = Free
         \/ heap[c] \in [kind : {"node"}, key : Keys, value : Cells,
                         next : Cells \union {NULL}]
         \/ heap[c] \in [kind : {"buffer"}, data : Values \union {Uninit, Damaged},
                         more : BOOLEAN]

\* Whatever a client can ask for, the list can be walked: it ends, it visits
\* allocated nodes only, no key is in it twice, and each node has a buffer of
\* its own.  So no search follows a freed pointer even though DELETE leaves
\* kv_node_tail dangling.
ListSound ==
    /\ Walk[Cardinality(Cells)] = NULL
    /\ \A c \in Listed : IsNode(c) /\ IsBuffer(heap[c].value)
    /\ \A c, d \in Listed :
         c # d => heap[c].key # heap[d].key /\ heap[c].value # heap[d].value

\* What the callers see of the heap: the keys and values in the order of the walk.
Listing ==
    LET length == Cardinality(Listed)
    IN  [i \in 1 .. length |-> [key |-> heap[Walk[i-1]].key, value |-> ValueOf(Walk[i-1])]]

TailLost == Listing # <<>> /\ kv_node_tail # Walk[Len(Listing) - 1]

List == INSTANCE KVList WITH list <- Listing, tailLost <- TailLost

\* Every operation on nodes, links and buffers does to the walk what KVList says,
\* whichever freed cells malloc hands out again: a CREATE appends or is lost, a
\* DELETE takes one node out (158-167), and a value is stored in its own node.
ImplementsKVList == List!Spec
=============================================================================
