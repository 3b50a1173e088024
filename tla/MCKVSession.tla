----------------------------- MODULE MCKVSession ----------------------------
(* Two clients, so that one waits in the backlog, two keys, and as many       *)
(* commands as it takes to lose the tail of the list and a node behind it.    *)
EXTENDS KVSession
CONSTANTS c1, c2, k1, k2
MCConns == {c1, c2}
MCKeys == {k1, k2}
=============================================================================
