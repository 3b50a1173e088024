----------------------------- MODULE MCKVThread -----------------------------
(* Two connections, of which the second gets the first one's descriptor or    *)
(* another, and one failing accept, whose thread may read another's argument. *)
EXTENDS KVThread
CONSTANTS c1, c2, x1, k1
MCConns == {c1, c2}
MCFailed == {x1}
MCNoneFailed == {}
MCKeys == {k1}
=============================================================================
