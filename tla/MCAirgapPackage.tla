-------------------------- MODULE MCAirgapPackage --------------------------
(* Instances of AirgapPackage for TLC. *)
EXTENDS AirgapPackage, TLC

CONSTANTS d1, d2, v1, v2, amd64, arm64

OneDownloader == {d1}
TwoDownloaders == {d1, d2}
Versions == {v1, v2}
OneArch == {amd64}
TwoArchs == {amd64, arm64}
Symmetry == Permutations(Proc) \cup Permutations(Version) \cup Permutations(Arch)
============================================================================
