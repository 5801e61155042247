------------------------------ MODULE Alibaba ------------------------------
(***************************************************************************)
(* pkg/providers/alibaba/alibaba.go: how the Alibaba provider makes, finds *)
(* and releases the instances of a cluster and, with --eip, a public       *)
(* address for each of them.                                               *)
(***************************************************************************)
EXTENDS CloudProvider

(* ListTagResources, of the cluster's tags: one page of the instances.     *)
ListTagResources == OnePage(inst)

(* IsClusterExist: it finds some. A call that fails is an error of the     *)
(* request.                                                                *)
IsClusterExist == \E ids \in ListTagResources : ids # {}

(* describeInstances: all pages of the instances with the cluster's tags.  *)
DescribeInstances == inst

(* CreateCheck, then CreateK3sCluster; JoinCheck, then JoinK3sNode. What   *)
(* they refuse for the options alone is not asked for here.                *)
CreateCheck == CreateRequest(IsClusterExist)

JoinCheck == JoinRequest(IsClusterExist)

(* runInstances: n instances, tagged by the same call; an error; or fewer  *)
(* instances than asked for, which is an error before their ids are kept.  *)
RunInstances(pool, n, next) ==
  \E S \in SUBSET Fresh(pool) :
    /\ \/ Cardinality(S) = n /\ op' = [op EXCEPT !.pc = next, !.made = @ \cup S]
       \/ Cardinality(S) < n /\ Fail
    /\ inst' = inst \cup S
    /\ UNCHANGED <<flags, row, eip, tagged, started>>

(* generateInstance: key pair, client, network and group come first.       *)
GenerateInstance == Network

(* Then the masters, then the workers, then getInstanceStatus until every  *)
(* new instance runs, or an error.                                         *)
RunMasters ==
  /\ At("masters")
  /\ IF op.nm = 0 THEN Skip("workers") ELSE RunInstances(MasterPool, op.nm, "workers")

RunWorkers ==
  /\ At("workers")
  /\ IF op.nw = 0 THEN Skip("wait") ELSE RunInstances(WorkerPool, op.nw, "wait")

WaitRunning ==
  /\ At("wait")
  /\ Goto(IF flags.eip THEN "eip_masters" ELSE "assemble") \/ Fail
  /\ UNCHANGED <<flags, row, account, started>>

(* Of the addresses E, one page of those with the cluster's tags.          *)
ListVpcTagResources(E) == OnePage(E \cap tagged)

(* The addresses are tagged, or the call fails, which is logged.           *)
TagVpcResources(E) == tagged' \in {tagged, tagged \cup E}

(* allocateEipAddresses: one call per address, and an error in between     *)
(* forgets the ones already allocated; then one call tags them all, whose  *)
(* error is logged. assignEIPToInstance then associates them.              *)
AssignEip(l, pool, next) ==
  LET S == op.made \cap pool IN
  /\ At(l)
  /\ \/ S = {} /\ Goto(next) /\ UNCHANGED <<eip, tagged>>
     \/ S # {} /\ \E E \in SUBSET FreeEip :
          /\ Cardinality(E) = Cardinality(S)
          /\ Associate(E, S, next)
          /\ TagVpcResources(E)
     \/ S # {} /\ \E E \in SUBSET FreeEip :
          /\ Cardinality(E) < Cardinality(S)
          /\ eip' = [e \in Eip |-> IF e \in E THEN "spare" ELSE eip[e]]
          /\ tagged' = tagged
          /\ Fail
  /\ UNCHANGED <<flags, row, inst, started>>

EipMasters == AssignEip("eip_masters", MasterPool, "eip_workers")

EipWorkers == AssignEip("eip_workers", WorkerPool, "eip_wait")

(* getEipStatus(InUse): every address that was tried is associated, or the *)
(* wait ends in an error.                                                  *)
EipInUse ==
  /\ At("eip_wait")
  /\ \/ (\A e \in op.tried : eip[e] \in inst) /\ Goto("assemble")
     \/ Fail
  /\ UNCHANGED <<flags, row, account, started>>

(* assembleInstanceStatus, then syncExistNodes: the instances with the     *)
(* tags become nodes of p.Status, the ones of other operations with        *)
(* RollBack off. It fails when the list does, or the upload of a key.      *)
AssembleInstanceStatus ==
  /\ At("assemble")
  /\ \/ op' = [op EXCEPT !.pc = "k3s", !.known = SyncExistNodes(DescribeInstances)]
     \/ Fail
  /\ UNCHANGED <<flags, row, account, started>>

(* A new node cannot lack an address here: EipInUse has waited for it.     *)
Install == InstallK3s({})

(* Addresses E are unassociated and those listed, L, released; every call  *)
(* may fail, which is logged. Only an address in no use can be released.   *)
ReleaseAddresses(E, L, next) ==
  \E un \in SUBSET E, rel \in SUBSET L :
    /\ rel \subseteq un \cup {e \in E : eip[e] = "spare"}
    /\ eip' = [e \in Eip |-> IF e \in rel THEN "free"
                             ELSE IF e \in un THEN "spare" ELSE eip[e]]
    /\ tagged' = tagged \ rel
    /\ IF un = E /\ rel = L THEN Goto(next) ELSE Logged(next)

(* Mutant: RollBack of the nodes is not looked at.                         *)
RollbackEipEvery ==
  /\ At("rollback")
  /\ IF RollbackIds = {} THEN op' = Idle /\ UNCHANGED <<eip, tagged>>
     ELSE LET E == AddressesOf(op.known)
          IN  \E L \in ListVpcTagResources(E) : ReleaseAddresses(E, L, "terminate")
  /\ UNCHANGED <<flags, row, inst, started>>

(* rollbackInstance begins with releaseEipAddresses(true): the addresses   *)
(* of the nodes of p.Status with RollBack set, whatever the ids are. Before*)
(* syncExistNodes there are none.                                          *)
RollbackEip ==
  /\ At("rollback")
  /\ IF RollbackIds = {} THEN op' = Idle /\ UNCHANGED <<eip, tagged>>
     ELSE LET E == AddressesOf(op.made \cap op.known)
          IN  \E L \in ListVpcTagResources(E) : ReleaseAddresses(E, L, "terminate")
  /\ UNCHANGED <<flags, row, inst, started>>

(* DeleteInstances, tried 5 times.                                         *)
RollbackInstances ==
  /\ At("terminate")
  /\ op' = Idle
  /\ Terminate(RollbackIds) \/ UNCHANGED account
  /\ UNCHANGED <<flags, row, started>>

(* deleteInstance(f): IsClusterExist lists the instances by their tags.    *)
(* Without any, or with f and an error, a forced delete is done and the    *)
(* addresses stay. ReleaseManifests may fail before anything is released.  *)
DeleteExist ==
  /\ At("d_exist")
  /\ \/ IsClusterExist /\ Goto("d_eip") /\ UNCHANGED <<flags, row, account, started>>
     \/ ~IsClusterExist /\ op.force /\ Goto("d_row") /\ UNCHANGED <<flags, row, account, started>>
     \/ op.force /\ Logged("d_row") /\ UNCHANGED <<flags, row, account, started>>
     \/ (~op.force \/ IsClusterExist) /\ DeleteError

(* releaseEipAddresses(false): a page of the addresses with the cluster's  *)
(* tags; when they cannot be listed, none.                                 *)
DeleteEip ==
  /\ At("d_eip")
  /\ \/ \E L \in ListVpcTagResources(Eip) : ReleaseAddresses(L, L, "d_terminate")
     \/ Logged("d_terminate") /\ UNCHANGED <<eip, tagged>>
  /\ UNCHANGED <<flags, row, inst, started>>

(* Mutant: an error of DeleteInstances is logged like those before it.     *)
DeleteInstancesLogged ==
  /\ At("d_terminate")
  /\ \/ /\ \E ids \in ListTagResources : Terminate(ids)
        /\ Goto("d_row") /\ UNCHANGED <<flags, row, started>>
     \/ Logged("d_row") /\ UNCHANGED <<flags, row, account, started>>

(* DeleteInstances, with its retries, of the ids that IsClusterExist has   *)
(* listed: one page, read at d_exist, and nobody makes instances since.    *)
(* Then the folder of the key pair is removed, whose error counts without  *)
(* f.                                                                      *)
DeleteInstances ==
  /\ At("d_terminate")
  /\ \/ /\ \E ids \in ListTagResources : Terminate(ids)
        /\ Goto("d_row") \/ (~op.force /\ op' = Idle)
        /\ UNCHANGED <<flags, row, started>>
     \/ DeleteError

Init == BaseInit /\ ~flags.internal

Next ==
  \/ BaseNext \/ CreateCheck \/ JoinCheck
  \/ GenerateInstance
  \/ RunMasters \/ RunWorkers \/ WaitRunning
  \/ EipMasters \/ EipWorkers \/ EipInUse
  \/ AssembleInstanceStatus
  \/ Install
  \/ RollbackEip \/ RollbackInstances
  \/ DeleteExist \/ DeleteEip \/ DeleteInstances

Spec == Init /\ [][Next]_vars
=============================================================================
