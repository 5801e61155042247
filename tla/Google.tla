------------------------------- MODULE Google -------------------------------
(***************************************************************************)
(* pkg/providers/google/google.go: the instances are made one at a time    *)
(* and carry their public address; an instance is put in p.M only after    *)
(* the calls that wait for it, read it and upload a key. A rollback, and   *)
(* a delete, log the errors of single instances and go on.                 *)
(***************************************************************************)
EXTENDS CloudProvider

(* describeInstances: the first page of the instances with the cluster's   *)
(* labels.                                                                 *)
DescribeInstances == OnePage(inst)

(* A call of it that fails is an error of the request.                     *)
IsClusterExist == \E ids \in DescribeInstances : ids # {}

(* CreateCheck, then CreateK3sCluster; JoinCheck, then JoinK3sNode. What   *)
(* they refuse for the options alone is not asked for here.                *)
CreateCheck == CreateRequest(IsClusterExist)

JoinCheck == JoinRequest(IsClusterExist)

Made(pool) == Cardinality(op.made \cap pool)

(* One round of startInstance: nothing was made; an instance was made that *)
(* a later call of the round keeps out of p.M; or it is in p.M. With an    *)
(* internal address only, the index of its access configurations panics:   *)
(* nothing is rolled back and the process ends.                            *)
StartInstance(l, pool, n, next) ==
  /\ At(l)
  /\ \/ Made(pool) = n /\ Goto(next) /\ inst' = inst
     \/ Made(pool) < n /\ Fail /\ inst' = inst
     \/ Made(pool) < n /\ \E i \in Fresh(pool) :
          /\ inst' = inst \cup {i}
          /\ \/ Fail
             \/ ~flags.internal /\ op' = [op EXCEPT !.made = @ \cup {i}]
             \/ flags.internal /\ op' = Idle
  /\ UNCHANGED <<flags, row, eip, tagged, started>>

(* generateInstance: key pair, firewall and startup script come first.     *)
GenerateInstance == Network

StartMasters == StartInstance("masters", MasterPool, op.nm, "workers")

StartWorkers == StartInstance("workers", WorkerPool, op.nw, "assemble")

(* A join calls syncInstances, which adds the other instances with the     *)
(* labels to p.M and fails when the list does; then syncExistNodes.        *)
SyncInstances ==
  /\ At("assemble")
  /\ \/ op.kind = "create" /\ op' = [op EXCEPT !.pc = "k3s", !.known = SyncExistNodes({})]
     \/ /\ op.kind = "join"
        /\ \E found \in DescribeInstances :
             op' = [op EXCEPT !.pc = "k3s", !.known = SyncExistNodes(found)]
     \/ op.kind = "join" /\ Fail
  /\ UNCHANGED <<flags, row, account, started>>

Install == InstallK3s({})

(* rollbackInstance(ids): each instance and its disk; errors are logged.   *)
RollbackInstance ==
  /\ At("rollback")
  /\ op' = Idle
  /\ \E S \in SUBSET RollbackIds : Terminate(S)
  /\ UNCHANGED <<flags, row, started>>

(* remove(force): an error of the list counts even with force.             *)
RemoveExist ==
  /\ At("d_exist")
  /\ \/ IsClusterExist /\ Goto("d_terminate") /\ UNCHANGED <<flags, row, account, started>>
     \/ ~IsClusterExist /\ op.force /\ Goto("d_row") /\ UNCHANGED <<flags, row, account, started>>
     \/ DeleteError

(* Mutant: the labels of p.M instead of the cloud's decide what to remove. *)
RemoveRowNodes ==
  /\ At("d_terminate")
  /\ \E S \in SUBSET (inst \cap row.nodes) :
       /\ Terminate(S)
       /\ IF S = inst \cap row.nodes THEN Goto("d_row") ELSE Logged("d_row")
  /\ UNCHANGED <<flags, row, started>>

(* rollbackInstance of the instances that remove has listed (at d_exist,   *)
(* and nobody makes instances since), its errors logged.                   *)
RemoveInstances ==
  /\ At("d_terminate")
  /\ \E ids \in DescribeInstances : \E S \in SUBSET ids :
       /\ Terminate(S)
       /\ IF S = ids THEN Goto("d_row") ELSE Logged("d_row")
  /\ UNCHANGED <<flags, row, started>>

Init == BaseInit /\ ~flags.eip

Next ==
  \/ BaseNext \/ CreateCheck \/ JoinCheck
  \/ GenerateInstance
  \/ StartMasters \/ StartWorkers
  \/ SyncInstances
  \/ Install
  \/ RollbackInstance
  \/ RemoveExist \/ RemoveInstances

Spec == Init /\ [][Next]_vars
=============================================================================
