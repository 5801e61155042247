-------------------------- MODULE ClusterLifecycle --------------------------
(***************************************************************************)
(* One cluster of a cloud provider through pkg/cluster/base.go and         *)
(* cluster.go: create, join, upgrade, delete and list, run by the request  *)
(* goroutines of the API server (pkg/server/store/cluster) or by the CLI.  *)
(* What they share: the cluster's row in the database, its instances in    *)
(* the cloud, its context in the kubeconfig file, its kube-explorer and    *)
(* the cluster_count gauge.                                                *)
(*                                                                         *)
(* A step ends where the code waits for a remote call or for the database. *)
(* Four times a read of the row and the write that follows it at once are  *)
(* one step: at the beginning of a join, an upgrade and a delete and at    *)
(* the end of a join, where the status written does not depend on the one  *)
(* read. Remote calls may fail. pc of an operation names the call it       *)
(* performs next.                                                          *)
(***************************************************************************)
EXTENDS Integers, FiniteSets

CONSTANTS Proc,        \* goroutines (or CLI commands) that run operations
          MasterPool,  \* instance ids the cloud gives to master nodes
          WorkerPool,  \* instance ids the cloud gives to worker nodes
          Version,     \* K3s versions
          NoRow,       \* there is no row for the cluster
          Server,      \* the API server runs the operations (else the CLI)
          Rollback,    \* the --rollback flag
          Forced,      \* delete with force (always so in the API server)
          WithExplorer, \* creates may enable the explorer (--enable explorer)
          Orderly,     \* join and upgrade are asked only of a Running cluster
          MasterAsk,   \* the --master numbers creates ask for
          WorkerAsk,   \* the --worker numbers creates ask for
          JoinAsk,     \* the pairs of both that joins ask for
          DBFails,     \* the database or the kubeconfig file may fail
          MaxOps,      \* bound: operations started in a behaviour
          MaxLoss,     \* bound: times the instances are lost outside AutoK3s
          MaxCrash     \* bound: restarts of the process

ASSUME PoolAssumption == MasterPool \cap WorkerPool = {}
ASSUME FinitePools == IsFiniteSet(MasterPool) /\ IsFiniteSet(WorkerPool)
ASSUME FlagAssumption == {Server, Rollback, Forced, WithExplorer, Orderly, DBFails} \subseteq BOOLEAN
ASSUME AskAssumption ==
  MasterAsk \subseteq Nat /\ WorkerAsk \subseteq Nat /\ JoinAsk \subseteq Nat \X Nat
ASSUME BoundAssumption == {MaxOps, MaxLoss, MaxCrash} \subseteq Nat

Instance == MasterPool \cup WorkerPool

Status == {"Creating", "Running", "Failed", "Upgrading", "Removing", "Missing", ""}

(* common.ClusterState: status, node lists, node counts and K3s version.   *)
RowType == [status : Status, masters : SUBSET MasterPool, workers : SUBSET WorkerPool,
            master : Nat, worker : Nat, version : Version]

ASSUME NoRowAssumption == NoRow \notin RowType

(* Where the status Creating, or Upgrading, of the row is still to be      *)
(* replaced by the operation that wrote it.                                *)
CreatePC == {"c_keys", "c_masters", "c_workers", "c_init", "c_cfg", "c_running"}
JoinPC == {"j_masters", "j_workers", "j_sync", "j_join", "j_save"}
UpgradePC == {"u_nodes", "u_defer"}

PC == {"idle"}
        \cup {"c_save", "c_explorer", "c_manifest", "c_defer", "c_write"} \cup CreatePC
        \cup {"j_begin", "j_defer"} \cup JoinPC
        \cup {"rollback", "rollback_cfg"}
        \cup {"u_begin", "u_ccm"} \cup UpgradePC
        \cup {"d_begin", "d_cloud", "d_cfg", "d_row", "d_delete", "d_count", "d_explorer"}
        \cup {"l_cloud", "l_mark"}

(* What an operation holds in its provider object and its local variables: *)
(* st the cluster or state it works on, nm and nw the numbers of masters   *)
(* and workers asked for, mine the nodes of p.M it created (Current and    *)
(* RollBack set), errM the workers in p.ErrM, er whether the named result  *)
(* of InitCluster or JoinNodes is an error.                                *)
OpType == [pc : PC, st : RowType \cup {NoRow}, nm : Nat, nw : Nat,
           mine : SUBSET Instance, errM : SUBSET Instance, er : BOOLEAN]

Idle == [pc |-> "idle", st |-> NoRow, nm |-> 0, nw |-> 0,
         mine |-> {}, errM |-> {}, er |-> FALSE]

VARIABLES
  row,       \* the row of the cluster, or NoRow
  gauge,     \* metrics.ClusterCount, by K3s version
  inst,      \* the running instances that carry the cluster's tags
  untagged,  \* instances it created that run without the tags
  k3s,       \* the instances K3s is installed on
  ctx,       \* the kubeconfig file has the cluster's context
  explorer,  \* the explorer row: "none" | "disabled" | "enabled"
  watching,  \* ExplorerWatchers has an entry for the cluster
  op,        \* the operation each goroutine runs
  started, losses, crashes,  \* how far the bounds are used
  cloudFailed,  \* history: a call that terminates instances failed
  panicked,     \* history: a nil dereference ended the process
  restored,     \* history: a create wrote back Creating or Upgrading, which
                \* it had read, over the status that had replaced it
  twice         \* history: since the start of the process a delete found its
                \* row gone that it had read, and counted it all the same

db == <<row, gauge>>
cloud == <<inst, untagged, k3s>>
local == <<ctx, explorer, watching>>
bounds == <<started, losses, crashes>>
history == <<cloudFailed, panicked, restored, twice>>
vars == <<db, cloud, local, op, bounds, history>>

Init ==
  /\ row = NoRow
  /\ gauge = [v \in Version |-> 0]
  /\ inst = {} /\ untagged = {} /\ k3s = {}
  /\ ctx = FALSE
  /\ explorer = "none"
  /\ watching = FALSE
  /\ op = [p \in Proc |-> Idle]
  /\ started = 0 /\ losses = 0 /\ crashes = 0
  /\ cloudFailed = FALSE
  /\ panicked = FALSE
  /\ restored = FALSE /\ twice = FALSE

---------------------------------------------------------------------------
(* Helpers. *)

Nodes(r) == IF r = NoRow THEN {} ELSE r.masters \cup r.workers

At(p, l) == op[p].pc = l

(* p goes on at l, keeping its local variables.                            *)
Goto(p, l) == op' = [op EXCEPT ![p].pc = l]

(* The operation returns an error: its deferred function runs next.        *)
Fail(p, l) == op' = [op EXCEPT ![p].pc = l, ![p].er = TRUE]

Return(p) == op' = [op EXCEPT ![p] = Idle]

(* Ids the cloud may give to n new instances: none that is known to anyone.*)
Ask(pool, n) ==
  LET known == inst \cup untagged \cup Nodes(row)
                 \cup UNION {Nodes(op[q].st) \cup op[q].mine : q \in Proc}
  IN  {S \in SUBSET (pool \ known) : Cardinality(S) = n}

(* Mutant: every save counts the cluster.                                  *)
SaveClusterCounts(r) == row' = r /\ gauge' = [gauge EXCEPT ![r.version] = @ + 1]

(* Store.SaveCluster: insert when there is no row for name and provider    *)
(* (and count the cluster), else overwrite the row.                        *)
SaveCluster(r) ==
  /\ row' = r
  /\ gauge' = IF row = NoRow THEN [gauge EXCEPT ![r.version] = @ + 1] ELSE gauge

(* Store.SaveClusterState: gorm's Save overwrites an existing row; without *)
(* one its insert lacks name and provider and is refused.                  *)
SaveClusterState(r) ==
  /\ row' = IF row = NoRow THEN NoRow ELSE r
  /\ gauge' = gauge

(* A request is accepted: a new provider object takes on operation o.      *)
Start(p, o) ==
  /\ At(p, "idle")
  /\ started < MaxOps
  /\ started' = started + 1
  /\ op' = [op EXCEPT ![p] = o]
  /\ UNCHANGED <<db, cloud, local, losses, crashes, history>>

(* Amazon.terminateInstance: the tags are deleted, then the instances, and *)
(* with a cloud controller manager the tags of subnet and security group.  *)
TerminateOK(S) ==
  /\ inst' = inst \ S
  /\ untagged' = untagged \ S
  /\ k3s' = k3s \ S
  /\ UNCHANGED history

TerminateFails(S) ==
  /\ S # {}
  /\ \/ UNCHANGED <<inst, untagged>>
     \/ inst' = inst \ S /\ untagged' = untagged \cup (S \cap inst)
     \/ inst' = inst \ S /\ untagged' = untagged \ S
  /\ k3s' = k3s \cap (inst' \cup untagged')
  /\ cloudFailed' = TRUE
  /\ UNCHANGED <<panicked, restored, twice>>

(* Amazon.runInstances: n instances of a pool, all or none; their ids are  *)
(* kept in p.M before the call that tags them.                             *)
RunInstances(p, pool, n, next, onError) ==
  /\ \/ \E S \in Ask(pool, n) :
          /\ inst' = inst \cup S
          /\ untagged' = untagged
          /\ op' = [op EXCEPT ![p].pc = next, ![p].mine = @ \cup S]
     \/ n > 0 /\ Fail(p, onError) /\ UNCHANGED <<inst, untagged>>
     \/ \E S \in Ask(pool, n) :
          /\ n > 0
          /\ untagged' = untagged \cup S
          /\ inst' = inst
          /\ op' = [op EXCEPT ![p].pc = onError, ![p].er = TRUE, ![p].mine = @ \cup S]
  /\ UNCHANGED <<db, k3s, local, bounds, history>>

---------------------------------------------------------------------------
(* Create: Store.Create or the create command, then InitCluster.           *)

(* Mutant: the row is not looked at.                                       *)
CreateRequestUnchecked(p) ==
  /\ inst = {}
  /\ \E n \in MasterAsk, m \in WorkerAsk, v \in Version :
       /\ n >= 1
       /\ Start(p, [Idle EXCEPT !.pc = "c_save", !.nm = n, !.nw = m,
                      !.st = [status |-> "Creating", masters |-> {}, workers |-> {},
                              master |-> n, worker |-> m, version |-> v]])

(* CheckCreateArgs passes when no row or a Failed one, and no instance.    *)
CreateRequest(p) ==
  /\ row # NoRow => row.status = "Failed"
  /\ inst = {}
  /\ \E n \in MasterAsk, m \in WorkerAsk, v \in Version :
       /\ n >= 1
       /\ Start(p, [Idle EXCEPT !.pc = "c_save", !.nm = n, !.nw = m,
                      !.st = [status |-> "Creating", masters |-> {}, workers |-> {},
                              master |-> n, worker |-> m, version |-> v]])

CSave(p) ==
  /\ At(p, "c_save")
  /\ \/ SaveCluster(op[p].st) /\ Goto(p, "c_keys")
     \/ DBFails /\ Fail(p, "c_defer") /\ UNCHANGED db
  /\ UNCHANGED <<cloud, local, bounds, history>>

(* StoreClusterSSHKeys: nothing to store; stored, and the row saved again; *)
(* or an error.                                                            *)
CKeys(p) ==
  /\ At(p, "c_keys")
  /\ \/ Goto(p, "c_masters") /\ UNCHANGED db
     \/ SaveCluster(op[p].st) /\ Goto(p, "c_masters")
     \/ Fail(p, "c_defer") /\ UNCHANGED db
  /\ UNCHANGED <<cloud, local, bounds, history>>

CMasters(p) ==
  /\ At(p, "c_masters")
  /\ RunInstances(p, MasterPool, op[p].nm, "c_workers", "c_defer")

CWorkers(p) ==
  /\ At(p, "c_workers")
  /\ RunInstances(p, WorkerPool, op[p].nw, "c_init", "c_defer")

(* getInstanceStatus, syncExistNodes and InitK3sCluster up to wg.Wait. The *)
(* first master, the first worker and the other masters must succeed, one  *)
(* after the other; then a goroutine per other worker, and the ones that   *)
(* fail are put in p.ErrM.                                                 *)
CInit(p) ==
  LET new == op[p].mine
      masters == new \cap MasterPool
      workers == new \cap WorkerPool
      st == [op[p].st EXCEPT !.masters = masters, !.workers = workers]
  IN  /\ At(p, "c_init")
      /\ \/ \E bad \in SUBSET workers :
              /\ workers # {} => bad # workers
              /\ new \ bad \subseteq inst
              /\ k3s' = k3s \cup (new \ bad)
              /\ op' = [op EXCEPT ![p].pc = "c_cfg", ![p].errM = bad, ![p].st = st]
         \/ \E some \in SUBSET (new \cap inst) :
              k3s' = k3s \cup some /\ Fail(p, "c_defer")
      /\ UNCHANGED <<db, inst, untagged, local, bounds, history>>

(* executeWithRetry(3, cat kubeconfig), SaveCfg.                           *)
CCfg(p) ==
  /\ At(p, "c_cfg")
  /\ \/ ctx' = TRUE /\ Goto(p, "c_running")
     \/ ctx' = ctx /\ Fail(p, "c_defer")
  /\ UNCHANGED <<db, cloud, explorer, watching, bounds, history>>

CRunning(p) ==
  /\ At(p, "c_running")
  /\ \/ SaveCluster([op[p].st EXCEPT !.status = "Running"]) /\ Goto(p, "c_explorer")
     \/ DBFails /\ Fail(p, "c_defer") /\ UNCHANGED db
  /\ UNCHANGED <<cloud, local, bounds, history>>

(* EnableExplorer when asked for; its errors are only logged.              *)
CExplorer(p) ==
  /\ At(p, "c_explorer")
  /\ \/ UNCHANGED <<explorer, watching>>
     \/ WithExplorer /\ ~watching /\ watching' = TRUE /\ explorer' = "enabled"
  /\ Goto(p, "c_manifest")
  /\ UNCHANGED <<db, cloud, ctx, bounds, history>>

(* DeployExtraManifest, when there are manifests.                          *)
CManifest(p) ==
  /\ At(p, "c_manifest")
  /\ Goto(p, "c_defer") \/ Fail(p, "c_defer")
  /\ UNCHANGED <<db, cloud, local, bounds, history>>

(* The deferred function of InitCluster: it reads the row, or makes one    *)
(* when there is none, marks it Failed after an error, takes the workers   *)
(* that failed from it ...                                                 *)
CDefer(p) ==
  LET o == op[p]
      c == IF row = NoRow
           THEN [o.st EXCEPT !.status = "", !.masters = {}, !.workers = {}]
           ELSE row
      failed == [c EXCEPT !.status = IF o.er THEN "Failed" ELSE @]
      left == c.workers \ o.errM
      saved == IF o.errM # {} /\ c.workers # {}
               THEN [failed EXCEPT !.workers = left, !.worker = Cardinality(left)]
               ELSE failed
  IN  /\ At(p, "c_defer")
      /\ \/ ~o.er /\ o.errM = {} /\ Return(p)
         \/ (o.er \/ o.errM # {}) /\ op' = [op EXCEPT ![p].pc = "c_write", ![p].st = saved]
         \/ (o.er \/ o.errM # {}) /\ DBFails /\ Goto(p, "rollback")
      /\ UNCHANGED <<db, cloud, local, bounds, history>>

(* ... and writes it, up to RollbackCluster.                               *)
CWrite(p) ==
  LET st == op[p].st IN
  /\ At(p, "c_write")
  /\ \/ /\ SaveCluster(st)
        /\ restored' = (restored \/ (/\ st.status \in {"Creating", "Upgrading"}
                                     /\ row = NoRow \/ row.status # st.status))
     \/ DBFails /\ UNCHANGED <<db, restored>>
  /\ Goto(p, "rollback")
  /\ UNCHANGED <<cloud, local, bounds, cloudFailed, panicked, twice>>

---------------------------------------------------------------------------
(* RollbackCluster, of create and join: the instances in p.ErrM if any,    *)
(* else all that this operation created.                                   *)

RollbackIds(o) == IF o.errM # {} THEN o.errM ELSE o.mine

RollbackInstances(p) ==
  LET ids == RollbackIds(op[p]) IN
  /\ At(p, "rollback")
  /\ \/ ~Rollback /\ Return(p) /\ UNCHANGED <<cloud, history>>
     \/ Rollback /\ TerminateOK(ids) /\ Goto(p, "rollback_cfg")
     \/ Rollback /\ TerminateFails(ids) /\ Return(p)
  /\ UNCHANGED <<db, local, bounds>>

(* The context is removed unless the row is there and Running; an error of *)
(* the read ends the rollback, one of the file is logged.                  *)
RollbackContext(p) ==
  /\ At(p, "rollback_cfg")
  /\ \/ ctx' = (ctx /\ row # NoRow /\ row.status = "Running")
     \/ DBFails /\ ctx' = ctx
  /\ Return(p)
  /\ UNCHANGED <<db, cloud, explorer, watching, bounds, history>>

---------------------------------------------------------------------------
(* Join: the join action or command, then JoinNodes.                       *)

(* MergeConfig copies the row; CheckJoinArgs wants an instance, nothing of *)
(* the status.                                                             *)
JoinRequest(p) ==
  /\ row # NoRow
  /\ inst # {}
  /\ Orderly => row.status = "Running"
  /\ \E ask \in JoinAsk :
       /\ ask[1] >= 1 \/ ask[2] >= 1
       /\ Start(p, [Idle EXCEPT !.pc = "j_begin", !.nm = ask[1], !.nw = ask[2], !.st = row])

(* The error before the deferred function is set up, then Upgrading.       *)
JBegin(p) ==
  /\ At(p, "j_begin")
  /\ \/ row = NoRow /\ Return(p) /\ UNCHANGED db
     \/ /\ row # NoRow
        /\ SaveClusterState([row EXCEPT !.status = "Upgrading"])
        /\ Goto(p, "j_masters")
     \/ DBFails /\ Return(p) /\ UNCHANGED db
     \/ DBFails /\ row # NoRow /\ Fail(p, "j_defer") /\ UNCHANGED db
  /\ UNCHANGED <<cloud, local, bounds, history>>

JMasters(p) ==
  /\ At(p, "j_masters")
  /\ RunInstances(p, MasterPool, op[p].nm, "j_workers", "j_defer")

JWorkers(p) ==
  /\ At(p, "j_workers")
  /\ RunInstances(p, WorkerPool, op[p].nw, "j_sync", "j_defer")

(* Mutants: a synced master is taken for a worker; synced instances are    *)
(* marked for rollback like new ones.                                      *)
JSyncAllWorkers(p) ==
  /\ At(p, "j_sync") /\ inst # {}
  /\ op' = [op EXCEPT ![p].pc = "j_join",
              ![p].st = [@ EXCEPT !.workers = @ \cup op[p].mine \cup inst]]
  /\ UNCHANGED <<db, cloud, local, bounds, history>>

JSyncRollsBack(p) ==
  /\ At(p, "j_sync")
  /\ op' = [op EXCEPT ![p].pc = "j_defer", ![p].er = TRUE, ![p].mine = @ \cup inst]
  /\ UNCHANGED <<db, cloud, local, bounds, history>>

(* getInstanceStatus, syncInstances (every instance with the cluster's     *)
(* tags), syncExistNodes.                                                  *)
JSync(p) ==
  LET found == op[p].mine \cup inst
      st == [op[p].st EXCEPT !.masters = @ \cup (found \cap MasterPool),
                             !.workers = @ \cup (found \cap WorkerPool)]
  IN  /\ At(p, "j_sync")
      /\ \/ inst # {} /\ op' = [op EXCEPT ![p].pc = "j_join", ![p].st = st]
         \/ Fail(p, "j_defer")
      /\ UNCHANGED <<db, cloud, local, bounds, history>>

(* Join up to wg.Wait: package and token, the new masters one after the    *)
(* other, then a goroutine per new worker.                                 *)
JJoin(p) ==
  LET new == op[p].mine
      masters == new \cap MasterPool
  IN  /\ At(p, "j_join")
      /\ \/ \E bad \in SUBSET (new \cap WorkerPool) :
              /\ new \ bad \subseteq inst
              /\ k3s' = k3s \cup (new \ bad)
              /\ op' = [op EXCEPT ![p].pc = "j_save", ![p].errM = bad]
         \/ \E some \in SUBSET (masters \cap inst) :
              k3s' = k3s \cup some /\ Fail(p, "j_defer")
      /\ UNCHANGED <<db, inst, untagged, local, bounds, history>>

(* The merged cluster, with the numbers of its nodes, is saved; an error   *)
(* of the save is only logged.                                             *)
JSave(p) ==
  LET st == op[p].st IN
  /\ At(p, "j_save")
  /\ \/ SaveCluster([st EXCEPT !.status = "Running", !.master = Cardinality(st.masters),
                               !.worker = Cardinality(st.workers)])
     \/ DBFails /\ UNCHANGED db
  /\ Goto(p, "j_defer")
  /\ UNCHANGED <<cloud, local, bounds, history>>

(* What is left of the process after it ends: the database, the cloud and  *)
(* the kubeconfig file. At the next start the gauge is counted from the    *)
(* rows and InitExplorer starts the explorers that are enabled, if it can. *)
Restart ==
  /\ op' = [p \in Proc |-> Idle]
  /\ watching' \in {FALSE, explorer = "enabled"}
  /\ gauge' = [v \in Version |-> IF row # NoRow /\ row.version = v THEN 1 ELSE 0]
  /\ twice' = FALSE
  /\ UNCHANGED <<row, cloud, ctx, explorer, started, losses, cloudFailed, restored>>

(* Mutant: workers that failed to join stay in the row.                    *)
JDeferKeepsFailed(p) ==
  LET bad == op[p].er \/ op[p].errM # {} IN
  /\ At(p, "j_defer")
  /\ \/ ~bad /\ Return(p) /\ UNCHANGED db
     \/ /\ bad /\ row # NoRow
        /\ SaveClusterState([row EXCEPT !.status = "Running"])
        /\ Goto(p, "rollback")
  /\ UNCHANGED <<cloud, local, bounds, history>>

(* The deferred function of JoinNodes, up to RollbackCluster.              *)
JDefer(p) ==
  LET o == op[p]
      left == row.workers \ o.errM
      running == [row EXCEPT !.status = "Running"]
      saved == IF o.errM # {}
               THEN [running EXCEPT !.workers = left, !.worker = Cardinality(left)]
               ELSE running
      bad == o.er \/ o.errM # {}
  IN  /\ At(p, "j_defer")
      /\ \/ ~bad /\ Return(p) /\ UNCHANGED db
         \/ bad /\ row # NoRow /\ SaveClusterState(saved) /\ Goto(p, "rollback")
         \/ bad /\ DBFails /\ row # NoRow /\ Goto(p, "rollback") /\ UNCHANGED db
         \/ bad /\ DBFails /\ Return(p) /\ UNCHANGED db
      /\ UNCHANGED <<cloud, local, bounds, history>>

(* The same function when the row is gone: state is nil and dereferenced.  *)
JDeferPanics(p) ==
  /\ At(p, "j_defer")
  /\ op[p].er \/ op[p].errM # {}
  /\ row = NoRow
  /\ panicked' = TRUE
  /\ Restart
  /\ UNCHANGED crashes

---------------------------------------------------------------------------
(* Upgrade: UpgradeK3sCluster of the Amazon provider and of ProviderBase.  *)

(* The version asked for waits in st until the row is read.                *)
UpgradeRequest(p) ==
  /\ row # NoRow
  /\ Orderly => row.status = "Running"
  /\ \E v \in Version :
       Start(p, [Idle EXCEPT !.pc = "u_begin", !.st = [row EXCEPT !.version = v]])

UBegin(p) ==
  /\ At(p, "u_begin")
  /\ \/ row = NoRow /\ Return(p) /\ UNCHANGED db
     \/ /\ row # NoRow
        /\ SaveClusterState([row EXCEPT !.status = "Upgrading"])
        /\ op' = [op EXCEPT ![p].pc = "u_nodes",
                    ![p].st = [row EXCEPT !.version = op[p].st.version]]
     \/ DBFails /\ Return(p) /\ UNCHANGED db
  /\ UNCHANGED <<cloud, local, bounds, history>>

(* Mutant: a node that does not answer is waited for.                      *)
UNodesWaits(p) ==
  /\ At(p, "u_nodes")
  /\ op[p].st.masters # {}
  /\ Nodes(op[p].st) \subseteq inst \cup untagged
  /\ Goto(p, "u_defer")
  /\ UNCHANGED <<db, cloud, local, bounds, history>>

(* Upgrade: the install script on every master, then on every worker.      *)
UNodes(p) ==
  /\ At(p, "u_nodes")
  /\ \/ /\ op[p].st.masters # {}
        /\ Nodes(op[p].st) \subseteq inst \cup untagged
        /\ Goto(p, "u_defer")
     \/ Fail(p, "u_defer")
  /\ UNCHANGED <<db, cloud, local, bounds, history>>

(* Mutant: the status is restored only after a success.                    *)
UDeferOnSuccess(p) ==
  /\ At(p, "u_defer")
  /\ IF op[p].er
     THEN Return(p) /\ UNCHANGED db
     ELSE SaveClusterState([op[p].st EXCEPT !.status = "Running"]) /\ Goto(p, "u_ccm")
  /\ UNCHANGED <<cloud, local, bounds, history>>

(* The deferred function: Running, whatever the outcome.                   *)
UDefer(p) ==
  /\ At(p, "u_defer")
  /\ \/ SaveClusterState([op[p].st EXCEPT !.status = "Running"])
     \/ DBFails /\ UNCHANGED db
  /\ IF op[p].er THEN Return(p) ELSE Goto(p, "u_ccm")
  /\ UNCHANGED <<cloud, local, bounds, history>>

(* Amazon.UpgradeK3sCluster reads the row again to deploy the manifest of  *)
(* the cloud controller manager.                                           *)
UCCM(p) ==
  /\ At(p, "u_ccm")
  /\ Return(p)
  /\ UNCHANGED <<db, cloud, local, bounds, history>>

---------------------------------------------------------------------------
(* Delete: Store.Delete or the delete command, then DeleteCluster.         *)

DeleteRequest(p) ==
  /\ Server => row # NoRow
  /\ Start(p, [Idle EXCEPT !.pc = "d_begin"])

DBegin(p) ==
  /\ At(p, "d_begin")
  /\ \/ /\ IF row = NoRow THEN UNCHANGED db
           ELSE SaveClusterState([row EXCEPT !.status = "Removing"])
        /\ Goto(p, "d_cloud")
     \/ DBFails /\ UNCHANGED db /\ (IF Forced THEN Goto(p, "d_cloud") ELSE Return(p))
  /\ UNCHANGED <<cloud, local, bounds, history>>

(* Mutant: with force an error of the cloud is ignored.                    *)
DCloudForced(p) ==
  /\ At(p, "d_cloud")
  /\ \/ (IF Forced THEN Goto(p, "d_cfg") ELSE Return(p)) /\ UNCHANGED <<cloud, history>>
     \/ inst # {} /\ TerminateOK(inst) /\ Goto(p, "d_cfg")
  /\ UNCHANGED <<db, local, bounds>>

(* Amazon.deleteInstance.                                                  *)
DCloud(p) ==
  /\ At(p, "d_cloud")
  /\ \/ Return(p) /\ UNCHANGED <<cloud, history>>
     \/ inst = {} /\ Forced /\ Goto(p, "d_cfg") /\ UNCHANGED <<cloud, history>>
     \/ inst # {} /\ TerminateOK(inst) /\ Goto(p, "d_cfg")
     \/ inst # {} /\ TerminateFails(inst) /\ Return(p)
  /\ UNCHANGED <<db, local, bounds>>

DCfg(p) ==
  /\ At(p, "d_cfg")
  /\ \/ ctx' = FALSE /\ Goto(p, "d_row")
     \/ DBFails /\ ctx' = ctx /\ (IF Forced THEN Goto(p, "d_row") ELSE Return(p))
  /\ UNCHANGED <<db, cloud, explorer, watching, bounds, history>>

(* Store.DeleteCluster reads the row, ...                                  *)
DRow(p) ==
  /\ At(p, "d_row")
  /\ \/ row = NoRow /\ Goto(p, "d_explorer")
     \/ row # NoRow /\ op' = [op EXCEPT ![p].pc = "d_delete", ![p].st = row]
     \/ DBFails /\ (IF Forced THEN Goto(p, "d_explorer") ELSE Return(p))
  /\ UNCHANGED <<db, cloud, local, bounds, history>>

(* ... deletes it, which is no error when it is gone, ...                  *)
DDelete(p) ==
  /\ At(p, "d_delete")
  /\ \/ row' = NoRow /\ twice' = (twice \/ row = NoRow) /\ Goto(p, "d_count")
     \/ DBFails /\ UNCHANGED <<row, twice>> /\ (IF Forced THEN Goto(p, "d_explorer") ELSE Return(p))
  /\ UNCHANGED <<gauge, cloud, local, bounds, cloudFailed, panicked, restored>>

(* Mutant: the cluster is not taken from the count.                        *)
DCountForgets(p) ==
  /\ At(p, "d_count")
  /\ Goto(p, "d_explorer")
  /\ UNCHANGED <<db, cloud, local, bounds, history>>

(* ... and, after the broadcast, counts one cluster less of the version it *)
(* has read.                                                               *)
DCount(p) ==
  /\ At(p, "d_count")
  /\ gauge' = [gauge EXCEPT ![op[p].st.version] = @ - 1]
  /\ Goto(p, "d_explorer")
  /\ UNCHANGED <<row, cloud, local, bounds, history>>

(* Mutant: the explorer is disabled and its row kept.                      *)
DExplorerKept(p) ==
  /\ At(p, "d_explorer")
  /\ explorer' = (IF explorer = "none" THEN "none" ELSE "disabled")
  /\ watching' = (watching /\ explorer # "enabled")
  /\ Return(p)
  /\ UNCHANGED <<db, cloud, ctx, bounds, history>>

(* DisableExplorer, whose error is not looked at, then the explorer's row. *)
(* The read of the row, either of the two, or both may fail.               *)
DExplorer(p) ==
  /\ At(p, "d_explorer")
  /\ \/ /\ explorer' = "none"
        /\ watching' = (watching /\ explorer # "enabled")
     \/ DBFails /\ UNCHANGED <<explorer, watching>>
     \/ /\ DBFails /\ explorer = "enabled" /\ watching
        /\ \/ explorer' = "disabled" /\ watching' = FALSE
           \/ explorer' = "none" /\ watching' = TRUE
  /\ Return(p)
  /\ UNCHANGED <<db, cloud, ctx, bounds, history>>

---------------------------------------------------------------------------
(* List: ListClusters checks the instances of a Running row.               *)

ListRequest(p) ==
  /\ row # NoRow
  /\ row.status = "Running"
  /\ Start(p, [Idle EXCEPT !.pc = "l_cloud", !.st = row])

LCloud(p) ==
  /\ At(p, "l_cloud")
  /\ Return(p) \/ (inst = {} /\ Goto(p, "l_mark"))
  /\ UNCHANGED <<db, cloud, local, bounds, history>>

LMark(p) ==
  /\ At(p, "l_mark")
  /\ \/ ctx' = FALSE
     \/ DBFails /\ ctx' = ctx
  /\ \/ SaveClusterState([op[p].st EXCEPT !.status = "Missing"])
     \/ DBFails /\ UNCHANGED db
  /\ Return(p)
  /\ UNCHANGED <<cloud, explorer, watching, bounds, history>>

---------------------------------------------------------------------------
(* The environment: the instances are deleted in the cloud's console; the  *)
(* process is killed and started again.                                    *)

CloudLoss ==
  /\ losses < MaxLoss
  /\ inst # {}
  /\ losses' = losses + 1
  /\ inst' = {}
  /\ k3s' = k3s \ inst
  /\ UNCHANGED <<db, untagged, local, op, started, crashes, history>>

Crash ==
  /\ crashes < MaxCrash
  /\ crashes' = crashes + 1
  /\ Restart
  /\ UNCHANGED panicked

---------------------------------------------------------------------------

Step(p) ==
  \/ CSave(p) \/ CKeys(p) \/ CMasters(p) \/ CWorkers(p) \/ CInit(p) \/ CCfg(p)
  \/ CRunning(p) \/ CExplorer(p) \/ CManifest(p) \/ CDefer(p) \/ CWrite(p)
  \/ RollbackInstances(p) \/ RollbackContext(p)
  \/ JBegin(p) \/ JMasters(p) \/ JWorkers(p) \/ JSync(p) \/ JJoin(p) \/ JSave(p)
  \/ JDefer(p) \/ JDeferPanics(p)
  \/ UBegin(p) \/ UNodes(p) \/ UDefer(p) \/ UCCM(p)
  \/ DBegin(p) \/ DCloud(p) \/ DCfg(p) \/ DRow(p) \/ DDelete(p)
  \/ DCount(p) \/ DExplorer(p)
  \/ LCloud(p) \/ LMark(p)

Request(p) ==
  \/ CreateRequest(p) \/ JoinRequest(p) \/ UpgradeRequest(p)
  \/ DeleteRequest(p) \/ ListRequest(p)

Next ==
  \/ \E p \in Proc : Request(p)
  \/ \E p \in Proc : Step(p)
  \/ CloudLoss
  \/ Crash

(* A goroutine goes on: the scheduler runs it and every remote call it     *)
(* makes returns. (The session.Run of pkg/hosts has no timeout: that a     *)
(* remote command ends is an assumption.) Nobody has to send requests.     *)
Spec == Init /\ [][Next]_vars /\ \A p \in Proc : WF_vars(Step(p))

---------------------------------------------------------------------------
(* Properties. *)

(* The shape of the row, of the cloud and of every operation.              *)
TypeOK ==
  /\ row \in RowType \cup {NoRow}
  /\ gauge \in [Version -> Int]
  /\ inst \subseteq Instance /\ untagged \subseteq Instance
  /\ k3s \subseteq Instance
  /\ ctx \in BOOLEAN
  /\ explorer \in {"none", "disabled", "enabled"}
  /\ watching \in BOOLEAN
  /\ op \in [Proc -> OpType]
  /\ {started, losses, crashes} \subseteq Nat
  /\ {cloudFailed, panicked, restored, twice} \subseteq BOOLEAN

Quiet == \A p \in Proc : At(p, "idle")

(* Operations that will still replace the status they wrote.               *)
Creator(o) == o.pc \in CreatePC \/ (o.pc \in {"c_defer", "c_write"} /\ o.er)
Upgrader(o) == \/ o.pc \in JoinPC \cup UpgradePC
               \/ o.pc = "j_defer" /\ (o.er \/ o.errM # {})

(* The row says Creating or Upgrading only while somebody is at work on    *)
(* it: the deferred functions of InitCluster, JoinNodes and                *)
(* UpgradeK3sCluster put an end to it, whatever fails and however the      *)
(* operations of others overlap, but for the process that ends, a database *)
(* that fails, and one interleaving: a create of which workers have failed *)
(* reads the status of a join or an upgrade in its deferred function and   *)
(* writes it back when that has ended (restored).                          *)
InProgressHasOwner ==
  (row # NoRow /\ ~DBFails /\ crashes = 0 /\ ~panicked /\ ~restored) =>
    /\ row.status = "Creating" => \E p \in Proc : Creator(op[p])
    /\ row.status = "Upgrading" => \E p \in Proc : Upgrader(op[p])

(* When no operation runs, a cluster that is Running is what its row says: *)
(* its instances are the nodes listed, K3s is on all of them, the counts   *)
(* are right, kubectl has its context, and nothing else was left running   *)
(* by the joins and creates that failed. (Not after instances were lost or *)
(* a termination failed.)                                                  *)
RunningIsReal ==
  (Quiet /\ row # NoRow /\ row.status = "Running" /\ losses = 0 /\ ~cloudFailed) =>
    /\ row.masters # {}
    /\ inst = Nodes(row) /\ k3s = inst /\ untagged = {}
    /\ row.master = Cardinality(row.masters)
    /\ row.worker = Cardinality(row.workers)
    /\ ctx

(* When no operation runs and the cluster has no row, nothing of it is     *)
(* left: no instance, no context, no explorer. (Not after a termination    *)
(* failed.)                                                                *)
NothingLeft ==
  (Quiet /\ row = NoRow /\ ~cloudFailed) =>
    /\ inst = {} /\ untagged = {}
    /\ ~ctx
    /\ explorer = "none" /\ ~watching

(* Instances that carry the cluster's tags always have a row by which they *)
(* can be listed and deleted: InitCluster saves it before it creates the   *)
(* first, DeleteCluster removes it after the last is terminated, and no    *)
(* crash or failure of the database between two steps breaks that order.   *)
RowCoversInstances == inst # {} => row # NoRow

(* The sum of a gauge g over the versions, as its units above zero less    *)
(* the ones below.                                                         *)
Units(g) == UNION {{v} \X (1..g[v]) : v \in Version}
Negative(g) == [v \in Version |-> -g[v]]
Total(g) == Cardinality(Units(g)) - Cardinality(Units(Negative(g)))

(* The clusters counted, of all K3s versions, are the rows there are and   *)
(* those that a delete is just taking from the count, over any             *)
(* interleaving of creates, joins, upgrades and deletes; never more, and   *)
(* less only after two overlapping deletes have read the same row: each    *)
(* then counts one cluster less (twice), until the process is restarted.   *)
GaugeTotal ==
  LET rows == (IF row = NoRow THEN 0 ELSE 1) + Cardinality({p \in Proc : At(p, "d_count")}) IN
  /\ Total(gauge) <= rows
  /\ ~twice => Total(gauge) = rows

(* RollbackCluster terminates only instances that the same operation       *)
(* created, never a node the cluster had before or one of another join.    *)
RollbackOwnOnly ==
  [][\A p \in Proc :
       (At(p, "rollback") /\ op'[p].pc # "rollback") =>
         /\ inst \ inst' \subseteq op[p].mine
         /\ \A q \in Proc \ {p} : (inst \ inst') \cap op[q].mine = {}]_vars

(* Creating and Upgrading do not last, unless a create writes them back    *)
(* over the status that had replaced them.                                 *)
StatusSettles ==
  (row # NoRow /\ row.status \in {"Creating", "Upgrading"})
    ~> (row = NoRow \/ row.status \notin {"Creating", "Upgrading"} \/ restored)

(* With one operation at a time the row goes through the statuses of       *)
(* ClusterStatus, and those alone.                                         *)
Abstract == INSTANCE ClusterStatus
              WITH status <- IF row = NoRow THEN "Absent" ELSE row.status
StatusMachine == Abstract!Spec
=============================================================================
