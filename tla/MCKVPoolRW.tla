----------------------------- MODULE MCKVPoolRW -----------------------------
(* Two keys and five cells, so that a tail that is deleted and a cell that is *)
(* used again can meet; two workers and one failing accept.                   *)
EXTENDS KVPoolRW, TLC
CONSTANTS t1, t2, c1, c2, k1, k2, v1, v2, m1, m2, m3, m4, m5
MCWorkers == {t1, t2}
MCConns == {c1, c2}
MCKeys == {k1, k2}
MCValues == {v1, v2}
MCCells == {m1, m2, m3, m4, m5}
Symmetric == Permutations(MCWorkers) \union Permutations(MCConns)
             \union Permutations(MCCells) \union Permutations(MCKeys)
             \union Permutations(MCValues)
=============================================================================
