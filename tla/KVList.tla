------------------------------- MODULE KVList -------------------------------
(***************************************************************************)
(* The key-value list of the four KV servers as its callers see it: the    *)
(* sequence of nodes that a walk from kv_node_head visits.  The heap and   *)
(* the pointers are KVStore, which implements this module; the servers     *)
(* that are modelled together with their clients use it directly.          *)
(* Lines are those of kv-server-pool/server.c.                             *)
(***************************************************************************)
EXTENDS Naturals, Sequences, SequencesExt

CONSTANTS Keys, Values,
          Uninit,    \* what a fresh buffer holds
          Damaged    \* what a buffer holds after a stray write

VARIABLES list,      \* the nodes that can be reached
          tailLost   \* kv_node_tail is not the last of them

listVars == <<list, tailLost>>

Stored == Values \union {Uninit, Damaged}
NodeOf(k) == [key |-> k, value |-> Uninit]

InitList == list = <<>> /\ tailLost = FALSE

\* The search loop (85-97) finds the position of the first node with key k.
Found(k) == {i \in DOMAIN list : list[i].key = k
                                 /\ \A j \in 1 .. i - 1 : list[j].key # k}

Damage(l) == {[l EXCEPT ![i].value = Damaged] : i \in DOMAIN l}

\* CREATE of a new key (110-118).  Behind a lost tail the new node is lost as
\* well, and the write through the pointer may hit a buffer.
CreateNode(k) ==
    /\ Found(k) = {}
    /\ \/ /\ list = <<>> \/ ~tailLost
          /\ list' = Append(list, NodeOf(k))
          /\ tailLost' = FALSE
       \/ /\ list # <<>> /\ tailLost
          /\ list' \in {list} \union Damage(list)
          /\ UNCHANGED tailLost

\* DELETE of node i (175-195): nothing looks at kv_node_tail.
DeleteNode(i) ==
    /\ list' = RemoveAt(list, i)
    /\ tailLost' = (Len(list) > 1 /\ (tailLost \/ i = Len(list)))

\* UPDATE frees the value of node i and allocates a new buffer (230-231).
ReplaceBuffer(i) ==
    /\ list' = [list EXCEPT ![i].value = Uninit]
    /\ UNCHANGED tailLost

\* recv into the buffer of node i (119-123, 232-236)
StoreValue(i, v) ==
    /\ list' = [list EXCEPT ![i].value = v]
    /\ UNCHANGED tailLost

Next == \/ \E k \in Keys : CreateNode(k)
        \/ \E i \in DOMAIN list : \/ DeleteNode(i) \/ ReplaceBuffer(i)
                                  \/ \E v \in Values : StoreValue(i, v)

Spec == InitList /\ [][Next]_listVars
=============================================================================
