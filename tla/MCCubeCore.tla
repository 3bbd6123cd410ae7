----------------------------- MODULE MCCubeCore -----------------------------
(***************************************************************************)
(* Instances of CubeCore for TLC.                                          *)
(***************************************************************************)
EXTENDS CubeCore, TLC

CONSTANTS g1, g2, g3, s1, s2, r1, r2, t1, t2, d1

TwoGoroutines == {g1, g2}
ThreeGoroutines == {g1, g2, g3}
MCStmts == {s1, s2}
MCRows == {r1, r2}
MCTxs == {t1, t2}
MCDatabases == {d1}

\* Goroutines and handles are interchangeable: no definition names one.
Symmetry == Permutations(Goroutines) \union Permutations(Stmts)
              \union Permutations(Rows) \union Permutations(Txs)
=============================================================================
