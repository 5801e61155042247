-------------------------------- MODULE K3d --------------------------------
(***************************************************************************)
(* pkg/providers/k3d/k3d.go: the nodes are containers that the k3d library *)
(* makes and starts, all of them in one call; K3s runs in them already, so *)
(* the base only fetches the kubeconfig (customInstallK3s) or saves the    *)
(* row (isAutoJoined). A rollback deletes the whole cluster. The load      *)
(* balancer, which p.M and the row carry as one more worker, comes and     *)
(* goes with the cluster and is left out.                                  *)
(***************************************************************************)
EXTENDS CloudProvider

VARIABLE stopped   \* the containers that do not run

k3dVars == <<vars, stopped>>

(* IsClusterExist counts running containers, and takes an error of the     *)
(* container runtime (answers = FALSE) for no cluster.                     *)
IsClusterExist(answers) == answers /\ inst \ stopped # {}

(* CreateCheck and JoinCheck, for either answer of the runtime.            *)
CreateCheck == (\E answers \in BOOLEAN : CreateRequest(IsClusterExist(answers))) /\ UNCHANGED stopped

JoinCheck == JoinRequest(IsClusterExist(TRUE)) /\ UNCHANGED stopped

(* The library removes containers.                                         *)
Remove(S) == Terminate(S) /\ stopped' = stopped \ S

(* createK3d makes the token and wrapCliFlags the configuration, which may *)
(* be refused; joinK3d numbers its nodes after the running ones, and a     *)
(* name that a stopped one has is an error of the next step.               *)
WrapCliFlags ==
  /\ At("network")
  /\ Goto("masters") \/ (op.kind = "create" /\ Fail)
  /\ UNCHANGED <<flags, row, account, started, stopped>>

Nodes(n, w) == {S \in SUBSET (Fresh(MasterPool) \cup Fresh(WorkerPool)) :
                  Cardinality(S \cap MasterPool) = n /\ Cardinality(S \cap WorkerPool) = w}

(* A call of the library that failed after it made some containers, of     *)
(* which some were not started.                                            *)
HalfMade ==
  /\ \E S \in SUBSET (Fresh(MasterPool) \cup Fresh(WorkerPool)) :
       /\ Cardinality(S \cap MasterPool) <= op.nm
       /\ Cardinality(S \cap WorkerPool) <= op.nw
       /\ inst' = inst \cup S
       /\ \E dead \in SUBSET S : stopped' = stopped \cup dead
  /\ Fail

(* ClusterRun: the names of a cluster that was left behind are taken.      *)
ClusterRun ==
  /\ At("masters") /\ op.kind = "create"
  /\ \/ /\ inst = {}
        /\ \E S \in Nodes(op.nm, op.nw) : inst' = S
        /\ Goto("assemble") /\ UNCHANGED stopped
     \/ HalfMade
  /\ UNCHANGED <<flags, row, eip, tagged, started>>

(* NodeAddToClusterMulti of joinK3d.                                       *)
JoinK3d ==
  /\ At("masters") /\ op.kind = "join"
  /\ \/ /\ \E S \in Nodes(op.nm, op.nw) : inst' = inst \cup S
        /\ Goto("assemble") /\ UNCHANGED stopped
     \/ HalfMade
  /\ UNCHANGED <<flags, row, eip, tagged, started>>

(* k3dStatus puts every container of the cluster in p.M with RollBack      *)
(* unset, and syncExistNodes in p.Status; createK3d then sets RollBack.    *)
K3dStatus ==
  /\ At("assemble")
  /\ \/ op' = [op EXCEPT !.pc = "k3s", !.known = SyncExistNodes(inst),
                 !.made = IF op.kind = "create" THEN inst ELSE {}]
     \/ Fail
  /\ UNCHANGED <<flags, row, account, started, stopped>>

(* obtainKubeCfg and SaveCfg of a create, then the row is saved.           *)
ObtainKubeCfg ==
  /\ At("k3s") /\ op.kind = "create"
  /\ \/ row' = [status |-> "Running", nodes |-> op.known] /\ Goto("plugins")
     \/ Fail /\ row' = row
  /\ UNCHANGED <<flags, account, started, stopped>>

(* JoinNodes, isAutoJoined: there is nothing to install, the row is saved. *)
AutoJoined ==
  /\ At("k3s") /\ op.kind = "join"
  /\ \/ row' = [status |-> "Running", nodes |-> op.known] /\ Goto("defer")
     \/ Fail /\ row' = row
  /\ UNCHANGED <<flags, account, started, stopped>>

(* rollbackK3d(ids): any id at all, and the cluster is deleted; an error   *)
(* may leave some of it.                                                   *)
RollbackK3d ==
  /\ At("rollback")
  /\ op' = Idle
  /\ IF RollbackIds = {} THEN UNCHANGED <<account, stopped>> ELSE \E S \in SUBSET inst : Remove(S)
  /\ UNCHANGED <<flags, row, started>>

(* deleteK3d.                                                              *)
DeleteExist ==
  /\ At("d_exist")
  /\ \E answers \in BOOLEAN :
       \/ IsClusterExist(answers) /\ Goto("d_terminate")
       \/ ~IsClusterExist(answers) /\ op' = IF op.force THEN [op EXCEPT !.pc = "d_row"] ELSE Idle
  /\ UNCHANGED <<flags, row, account, started, stopped>>

ClusterDelete ==
  /\ At("d_terminate")
  /\ \/ Remove(inst) /\ Goto("d_row")
     \/ (\E S \in SUBSET inst : Remove(S)) /\ op' = Idle
  /\ UNCHANGED <<flags, row, started>>

(* The machine restarts, or somebody stops and starts the containers.      *)
Docker ==
  /\ stopped' \in {{}, inst}
  /\ UNCHANGED vars

Init == BaseInit /\ ~flags.eip /\ ~flags.internal /\ stopped = {}

Next ==
  \/ BaseNext /\ UNCHANGED stopped
  \/ CreateCheck \/ JoinCheck
  \/ WrapCliFlags
  \/ ClusterRun
  \/ JoinK3d
  \/ K3dStatus
  \/ ObtainKubeCfg \/ AutoJoined
  \/ RollbackK3d
  \/ DeleteExist \/ ClusterDelete
  \/ Docker

Spec == Init /\ [][Next]_k3dVars
=============================================================================
