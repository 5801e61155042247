------------------------- MODULE MCClusterLifecycle -------------------------
(***************************************************************************)
(* Instances of ClusterLifecycle for TLC.                                  *)
(***************************************************************************)
EXTENDS ClusterLifecycle, FiniteSetsExt, TLC

CONSTANTS p1, p2, m1, m2, w1, w2, w3, v1, v2

OneProc == {p1}
TwoProcs == {p1, p2}
OneMaster == {m1}
Masters == {m1, m2}
TwoWorkers == {w1, w2}
ThreeWorkers == {w1, w2, w3}
OneVersion == {v1}
TwoVersions == {v1, v2}
ZeroOrOne == {0, 1}
ZeroOrTwo == {0, 2}
AnyJoin == ZeroOrOne \X ZeroOrTwo
WorkerJoin == {<<0, 2>>}

Symmetry == Permutations(MasterPool) \cup Permutations(WorkerPool)
              \cup Permutations(Proc) \cup Permutations(Version)

(* Total is the sum of the values of a gauge.                              *)
ASSUME TotalIsSum ==
  \A g \in [Version -> -3..3] : Total(g) = MapThenSumSet(LAMBDA v : g[v], Version)
=============================================================================
