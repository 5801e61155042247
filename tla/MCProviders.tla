---------------------------- MODULE MCProviders ----------------------------
(***************************************************************************)
(* Two masters, three workers and four addresses: a create with one master *)
(* and a join of two workers of which one fails.                           *)
(***************************************************************************)
EXTENDS Providers, TLC

CONSTANTS m1, m2, w1, w2, w3, e1, e2, e3, e4

MCMasterPool == {m1, m2}
MCWorkerPool == {w1, w2, w3}
MCEip == {e1, e2, e3, e4}

(* The instances of a pool, and the addresses, are interchangeable.        *)
Interchangeable == Permutations(MCMasterPool) \cup Permutations(MCWorkerPool)
                     \cup Permutations(MCEip)
=============================================================================
