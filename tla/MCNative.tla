------------------------------ MODULE MCNative ------------------------------
(***************************************************************************)
(* Three hosts: a first node and two that join or fail side by side, or a  *)
(* server set up by hand and two that join it. What the hosts are given    *)
(* first is looked at without a rollback, rollbacks without gifts.         *)
(***************************************************************************)
EXTENDS Native, TLC

CONSTANTS h1, h2, h3, t1, t2

MCHost == {h1, h2, h3}
MCToken == {t1, t2}
MCSetup == {[mode |-> "solo", needs |-> {"docker", "registry", "package"}, rollback |-> FALSE],
            [mode |-> "etcd", needs |-> {}, rollback |-> TRUE],
            [mode |-> "datastore", needs |-> {"certs"}, rollback |-> FALSE]}

(* Hosts, and tokens, are interchangeable.                                 *)
Interchangeable == Permutations(MCHost) \cup Permutations(MCToken)
=============================================================================
