---------------------------- MODULE MCJobExecutor ---------------------------
(* Model values for TLC's runs of JobExecutor.                              *)
EXTENDS JobExecutor, TLC

CONSTANTS j1, j2, k1

\* j1 comes first; both jobs need the environment k1, only j1 does, or none.
RankOf   == [j \in Jobs |-> IF j = j1 THEN 1 ELSE 2]
BothKeys == [j \in Jobs |-> k1]
OneKey   == [j \in Jobs |-> IF j = j1 THEN k1 ELSE NoKey]
NoKeys   == [j \in Jobs |-> NoKey]

Symmetry == Permutations(Executors)
=============================================================================
