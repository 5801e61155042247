--------------------------- MODULE MCCloudNetwork ---------------------------
(***************************************************************************)
(* Three set-ups of two clusters in two zones: two that overlap and a      *)
(* third that finds what they left, or a failed one that is tried again.   *)
(***************************************************************************)
EXTENDS CloudNetwork, TLC

CONSTANTS v1, v2, s1, s2, s3, g1, g2

MCVpc == {v1, v2}
MCSubnet == {s1, s2, s3}
MCGroup == {g1, g2}

(* The ids the cloud hands out, the clusters and the zones are alike.      *)
Interchangeable == Permutations(Cluster) \cup Permutations(Zone)
                     \cup Permutations(MCVpc) \cup Permutations(MCSubnet)
                     \cup Permutations(MCGroup)
=============================================================================
