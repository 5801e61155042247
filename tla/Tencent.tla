------------------------------ MODULE Tencent ------------------------------
(***************************************************************************)
(* pkg/providers/tencent/tencent.go: as Alibaba, but the addresses are     *)
(* allocated and tagged by one call, an address that could not be          *)
(* associated is not waited for, and a rollback finds the addresses by     *)
(* asking the cloud for those of the instances it is about to end.         *)
(***************************************************************************)
EXTENDS CloudProvider

(* describeInstances: all pages of the instances with the cluster's tags.  *)
DescribeInstances == inst

(* A call of it that fails is an error of the request.                     *)
IsClusterExist == DescribeInstances # {}

(* CreateCheck, then CreateK3sCluster; JoinCheck, then JoinK3sNode. What   *)
(* they refuse for the options alone is not asked for here.                *)
CreateCheck == CreateRequest(IsClusterExist)

JoinCheck == JoinRequest(IsClusterExist)

(* runInstances: as Alibaba's, with the other library.                     *)
RunInstances(pool, n, next) ==
  \E S \in SUBSET Fresh(pool) :
    /\ \/ Cardinality(S) = n /\ op' = [op EXCEPT !.pc = next, !.made = @ \cup S]
       \/ Cardinality(S) < n /\ Fail
    /\ inst' = inst \cup S
    /\ UNCHANGED <<flags, row, eip, tagged, started>>

(* generateInstance: client, key pair, network and group come first.       *)
GenerateInstance == Network

(* Then the masters, then the workers, then getInstanceStatus until every  *)
(* new instance runs, or an error.                                         *)
RunMasters ==
  /\ At("masters")
  /\ IF op.nm = 0 THEN Skip("workers") ELSE RunInstances(MasterPool, op.nm, "workers")

RunWorkers ==
  /\ At("workers")
  /\ IF op.nw = 0 THEN Skip("wait") ELSE RunInstances(WorkerPool, op.nw, "wait")

WaitRunning ==
  /\ At("wait")
  /\ Goto(IF flags.eip THEN "eip_masters" ELSE "assemble") \/ Fail
  /\ UNCHANGED <<flags, row, account, started>>

(* allocateEIPForInstance: allocateAddresses allocates and tags; then its  *)
(* task, or the description of the addresses, may fail.                    *)
AllocateEip(l, pool, next) ==
  LET S == op.made \cap pool IN
  /\ At(l)
  /\ \/ S = {} /\ Goto(next) /\ UNCHANGED <<eip, tagged>>
     \/ S # {} /\ Fail /\ UNCHANGED <<eip, tagged>>
     \/ S # {} /\ \E E \in SUBSET FreeEip :
          /\ Cardinality(E) = Cardinality(S)
          /\ tagged' = tagged \cup E
          /\ \/ Associate(E, S, next)
             \/ Fail /\ eip' = [e \in Eip |-> IF e \in E THEN "spare" ELSE eip[e]]
  /\ UNCHANGED <<flags, row, inst, started>>

EipMasters == AllocateEip("eip_masters", MasterPool, "eip_workers")

EipWorkers == AllocateEip("eip_workers", WorkerPool, "eip_wait")

(* describeVpcTaskResult for the associations that were accepted.          *)
EipTasks ==
  /\ At("eip_wait")
  /\ Goto("assemble") \/ Fail
  /\ UNCHANGED <<flags, row, account, started>>

(* assembleInstanceStatus, then syncExistNodes. It fails when a list does  *)
(* or the upload of a key, which a node without an address always does.    *)
AssembleInstanceStatus ==
  /\ At("assemble")
  /\ \/ op' = [op EXCEPT !.pc = "k3s", !.known = SyncExistNodes(DescribeInstances)]
     \/ Fail
  /\ UNCHANGED <<flags, row, account, started>>

Reachable(i) == flags.eip => HasAddress(i)

Install == InstallK3s({i \in op.made : ~Reachable(i)})

(* InitK3sCluster indexes the empty address list of the first master: the  *)
(* deferred function sees no error, rolls nothing back, and the process    *)
(* ends. The row stays Creating.                                           *)
InstallPanics ==
  /\ At("k3s") /\ op.kind = "create"
  /\ \E i \in op.made \cap MasterPool : ~Reachable(i)
  /\ op' = Idle
  /\ UNCHANGED <<flags, row, account, started>>

(* Disassociate addresses E one by one, then release them with one call;   *)
(* every error is logged.                                                  *)
ReleaseAddresses(E, next) ==
  \E un \in SUBSET E :
    \/ /\ un = E
       /\ eip' = [e \in Eip |-> IF e \in E THEN "free" ELSE eip[e]]
       /\ tagged' = tagged \ E
       /\ Goto(next)
    \/ /\ eip' = [e \in Eip |-> IF e \in un THEN "spare" ELSE eip[e]]
       /\ tagged' = tagged
       /\ IF E = {} THEN Goto(next) ELSE Logged(next)

(* Mutant: the addresses of all nodes are looked up, not those of ids.     *)
RollbackEipAll ==
  /\ At("rollback")
  /\ IF RollbackIds = {} THEN op' = Idle /\ UNCHANGED <<eip, tagged>>
     ELSE ReleaseAddresses(IF flags.eip THEN AddressesOf(op.known) ELSE {}, "terminate")
  /\ UNCHANGED <<flags, row, inst, started>>

(* describeAddresses: one page of those of the instances S.                *)
DescribeAddresses(S) == OnePage(AddressesOf(S))

(* rollbackInstance, its addresses: those of the instances to be ended.    *)
RollbackEip ==
  /\ At("rollback")
  /\ IF RollbackIds = {} THEN op' = Idle /\ UNCHANGED <<eip, tagged>>
     ELSE \E E \in IF flags.eip THEN DescribeAddresses(RollbackIds) ELSE {{}} :
            ReleaseAddresses(E, "terminate")
  /\ UNCHANGED <<flags, row, inst, started>>

(* The instances end, by one call.                                         *)
TerminateInstances(S) == Terminate(S)

(* terminateInstances, tried 5 times.                                      *)
RollbackInstances ==
  /\ At("terminate")
  /\ op' = Idle
  /\ TerminateInstances(RollbackIds) \/ UNCHANGED account
  /\ UNCHANGED <<flags, row, started>>

(* deleteInstance(f), as Alibaba's.                                        *)
DeleteExist ==
  /\ At("d_exist")
  /\ \/ IsClusterExist /\ Goto("d_eip") /\ UNCHANGED <<flags, row, account, started>>
     \/ ~IsClusterExist /\ op.force /\ Goto("d_row") /\ UNCHANGED <<flags, row, account, started>>
     \/ op.force /\ Logged("d_row") /\ UNCHANGED <<flags, row, account, started>>
     \/ (~op.force \/ IsClusterExist) /\ DeleteError

(* One page of what carries the cluster's tags, instances and addresses.   *)
DescribeResourcesByTags == OnePage(inst \cup tagged)

(* The addresses among it are released; when it cannot be listed, none.    *)
DeleteEip ==
  /\ At("d_eip")
  /\ \/ \E rows \in DescribeResourcesByTags : ReleaseAddresses(rows \cap tagged, "d_terminate")
     \/ Logged("d_terminate") /\ UNCHANGED <<eip, tagged>>
  /\ UNCHANGED <<flags, row, inst, started>>

(* terminateInstances, once, then the folder of the key pair.              *)
DeleteInstances ==
  /\ At("d_terminate")
  /\ \/ TerminateInstances(DescribeInstances) /\ Goto("d_row") /\ UNCHANGED <<flags, row, started>>
     \/ TerminateInstances(DescribeInstances) /\ ~op.force /\ op' = Idle /\ UNCHANGED <<flags, row, started>>
     \/ DeleteError

Init == BaseInit /\ ~flags.internal

Next ==
  \/ BaseNext \/ CreateCheck \/ JoinCheck
  \/ GenerateInstance
  \/ RunMasters \/ RunWorkers \/ WaitRunning
  \/ EipMasters \/ EipWorkers \/ EipTasks
  \/ AssembleInstanceStatus
  \/ Install \/ InstallPanics
  \/ RollbackEip \/ RollbackInstances
  \/ DeleteExist \/ DeleteEip \/ DeleteInstances

Spec == Init /\ [][Next]_vars
=============================================================================
