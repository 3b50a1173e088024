-------------------------- MODULE MCTestReaderPref --------------------------
(* Two readers and three writers, so that a signal can reach a writer while *)
(* another one still waits and a third one takes the lock first.            *)
EXTENDS TestReaderPref
CONSTANTS r1, r2, w1, w2, w3
MCReaders == {r1, r2}
MCWriters == {w1, w2, w3}
MCThreads == MCReaders \union MCWriters
=============================================================================
