----------------------------- MODULE Providers -----------------------------
(***************************************************************************)
(* The registry of pkg/providers hands out one provider by its name; the   *)
(* base code of the package cluster drives whichever it is. What the       *)
(* operations promise is stated here, once for the four of them.           *)
(***************************************************************************)
EXTENDS CloudProvider

VARIABLES provider,  \* the --provider the cluster was created with
          stopped    \* of k3d, the containers that do not run

A == INSTANCE Alibaba
T == INSTANCE Tencent
G == INSTANCE Google
K == INSTANCE K3d

allVars == <<provider, stopped, vars>>

(* GetProvider: the row's provider decides, for the life of the cluster.   *)
Init ==
  \/ provider = "alibaba" /\ A!Init /\ stopped = {}
  \/ provider = "tencent" /\ T!Init /\ stopped = {}
  \/ provider = "google" /\ G!Init /\ stopped = {}
  \/ provider = "k3d" /\ K!Init

Next ==
  /\ UNCHANGED provider
  /\ \/ provider = "alibaba" /\ A!Next /\ UNCHANGED stopped
     \/ provider = "tencent" /\ T!Next /\ UNCHANGED stopped
     \/ provider = "google" /\ G!Next /\ UNCHANGED stopped
     \/ provider = "k3d" /\ K!Next

Spec == Init /\ [][Next]_allVars

---------------------------------------------------------------------------
(* The state has its types.                                                *)
TypeOK ==
  /\ provider \in {"alibaba", "tencent", "google", "k3d"}
  /\ stopped \subseteq inst
  /\ flags \in [eip : BOOLEAN, rollback : BOOLEAN, internal : BOOLEAN]
  /\ row \in RowType \cup {NoRow}
  /\ inst \subseteq Instance
  /\ eip \in [Eip -> Instance \cup {"free", "spare"}]
  /\ tagged \subseteq Eip
  /\ op \in OpType
  /\ started \in 0..MaxOps

(* Whatever fails in a join or in its rollback (generateInstance,          *)
(* RollbackCluster and rollbackInstance of each provider), the nodes the   *)
(* cluster had before keep their instances and their addresses; rollbackK3d*)
(* would delete the whole cluster if a join left a node to roll back.      *)
JoinKeepsCluster ==
  [][op.kind = "join" =>
       /\ op.old \cap inst \subseteq inst'
       /\ \A e \in AddressesOf(op.old) : eip'[e] = eip[e]]_allVars

(* The nodes that a create or a join adds to a Running row exist when it   *)
(* ends, and on Tencent, where rollbackInstance looks the addresses of the *)
(* failed workers up, the others still have theirs.                        *)
AddedNodesUsable ==
  [][~At("idle") /\ op'.pc = "idle" /\ row' # NoRow /\ row'.status = "Running" =>
       \A i \in row'.nodes \cap op.made :
         /\ i \in inst'
         /\ provider = "tencent" /\ flags.eip => \E e \in Eip : eip'[e] = i]_allVars

Removed == row # NoRow /\ row' = NoRow /\ ~op.force

(* On Alibaba, Tencent and k3d a delete without force gives up the row     *)
(* only when no instance, or container, of the cluster is left, however    *)
(* its own calls and those of earlier operations failed (deleteInstance,   *)
(* deleteK3d); remove of Google logs what fails. On Alibaba, whose delete  *)
(* ends the ids of one answer of ListTagResources, that is so of a cluster *)
(* that fits one page; Tencent asks for every page of its instances.       *)
RemovedMeansEnded ==
  [][Removed /\ provider # "google" /\ (provider = "alibaba" => ~op.many) => inst' = {}]_allVars

(* A delete without force all of whose calls succeed leaves neither an     *)
(* instance nor a tagged address, though earlier operations may have left  *)
(* instances nobody kept the id of (runInstances with too few instances,   *)
(* startInstance failing after the insert) and addresses nobody released,  *)
(* if what carries the cluster's tags, which ListTagResources,             *)
(* describeResourcesByTags and Instances.List are asked for once, fits one *)
(* page.                                                                   *)
CleanDelete ==
  [][Removed /\ ~op.bad /\ (provider = "k3d" \/ ~op.many) =>
       inst' = {} /\ \A e \in tagged : eip'[e] = "free"]_allVars
=============================================================================
