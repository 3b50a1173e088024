---------------------------- MODULE MCKVMutexPool ---------------------------
(* Two workers and two clients that compete for the lock, two keys, so that  *)
(* UPDATE finds the first and loops on the second, and one failing accept,   *)
(* which takes a worker away for good and leaves the clients to the other.   *)
EXTENDS KVMutexPool
CONSTANTS t1, t2, c1, c2, k1, k2
MCWorkers == {t1, t2}
MCConns == {c1, c2}
MCKeys == {k1, k2}
=============================================================================
