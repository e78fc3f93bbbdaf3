---------------------------- MODULE MCContinuity ----------------------------
(***************************************************************************)
(* Two server processes on one database, two evaluations in progress.      *)
(***************************************************************************)
EXTENDS Continuity, TLC

CONSTANTS k1, k2, k3, w1, w2, t1, t2

MCKeys == {k1, k2, k3}
MCWorkers == {w1, w2}
MCThreads == {t1, t2}
Symmetric == Permutations(MCKeys) \cup Permutations(MCWorkers) \cup Permutations(MCThreads)
=============================================================================
