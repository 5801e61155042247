--------------------------- MODULE CloudProvider ---------------------------
(***************************************************************************)
(* What the Alibaba, Tencent, Google and k3d providers share: ProviderBase *)
(* drives the operations of one cluster, one after the other, against its  *)
(* row in the database, and the account of the cloud, which holds the      *)
(* instances and the elastic IP addresses. (ClusterLifecycle has the       *)
(* operations that overlap; here it is the many cloud calls of one         *)
(* operation that fail halfway.) A step is one call of a provider's method *)
(* that the base, or generateInstance, makes.                              *)
(***************************************************************************)
EXTENDS Integers, FiniteSets

CONSTANTS MasterPool,  \* instance ids the cloud gives to master nodes
          WorkerPool,  \* instance ids the cloud gives to worker nodes
          Eip,         \* addresses the cloud can allocate
          NoRow,       \* there is no row for the cluster
          MasterAsk,   \* the --master numbers that are asked for
          WorkerAsk,   \* the --worker numbers that are asked for
          Page,        \* records that one answer of a query holds
          MaxOps       \* bound: operations started in a behaviour

ASSUME PoolAssumption == MasterPool \cap WorkerPool = {}
ASSUME AskAssumption == MasterAsk \subseteq Nat /\ WorkerAsk \subseteq Nat /\ MaxOps \in Nat
ASSUME PageAssumption == Page \in Nat \ {0}

Instance == MasterPool \cup WorkerPool

(* An address is not allocated, allocated and associated with nothing, or  *)
(* associated with an instance.                                            *)
ASSUME AddressAssumption == {"free", "spare"} \cap Instance = {}

RowType == [status : {"Creating", "Running", "Failed", "Upgrading", "Removing"},
            nodes : SUBSET Instance]

ASSUME NoRowAssumption == NoRow \notin RowType

(* The provider object of an operation. made: the nodes of p.M with        *)
(* RollBack set; known: the nodes of p.Status; errM: the workers of        *)
(* p.ErrM; tried: the addresses it has tried to associate; er: the named   *)
(* result is an error; old: history, the nodes the row had when it began;  *)
(* bad: history, a call to the cloud has failed; many: history, more than  *)
(* one page carried the cluster's tags when a delete began.                *)
OpType == [pc : {"idle", "network", "masters", "workers", "wait", "eip_masters",
                 "eip_workers", "eip_wait", "assemble", "k3s", "plugins", "defer",
                 "rollback", "terminate", "d_exist", "d_eip", "d_terminate", "d_row"},
           kind : {"none", "create", "join", "delete"},
           nm : Nat, nw : Nat, force : BOOLEAN,
           made : SUBSET Instance, known : SUBSET Instance, errM : SUBSET Instance,
           tried : SUBSET Eip, er : BOOLEAN, old : SUBSET Instance, bad : BOOLEAN,
           many : BOOLEAN]

Idle == [pc |-> "idle", kind |-> "none", nm |-> 0, nw |-> 0, force |-> FALSE,
         made |-> {}, known |-> {}, errM |-> {}, tried |-> {}, er |-> FALSE,
         old |-> {}, bad |-> FALSE, many |-> FALSE]

VARIABLES
  flags,    \* the options that do not change: EIP, Rollback and, on Google,
            \* UseInternalIPOnly
  row,      \* the row of the cluster, or NoRow
  inst,     \* the instances that carry the cluster's tags
  eip,      \* what each address is associated with
  tagged,   \* the allocated addresses that carry the cluster's tags
  op,       \* the operation that runs
  started   \* operations started so far

account == <<inst, eip, tagged>>
vars == <<flags, row, account, op, started>>

BaseInit ==
  /\ flags \in [eip : BOOLEAN, rollback : BOOLEAN, internal : BOOLEAN]
  /\ row = NoRow
  /\ inst = {}
  /\ eip = [e \in Eip |-> "free"]
  /\ tagged = {}
  /\ op = Idle
  /\ started = 0

---------------------------------------------------------------------------
(* Control of an operation. *)

At(l) == op.pc = l
Goto(l) == op' = [op EXCEPT !.pc = l]

(* The remote call of this step fails and is only logged.                  *)
Logged(l) == op' = [op EXCEPT !.pc = l, !.bad = TRUE]

(* It fails and generateInstance, or the install, returns the error.       *)
Fail == op' = [op EXCEPT !.pc = "defer", !.er = TRUE, !.bad = TRUE]

(* Ids and addresses the cloud may hand out.                               *)
Fresh(pool) == pool \ (inst \cup op.known \cup op.old \cup IF row = NoRow THEN {} ELSE row.nodes)
FreeEip == {e \in Eip : eip[e] = "free"}

(* A query that does not ask for the next page: some of S, if S is more    *)
(* than one page.                                                          *)
Long(S) == Cardinality(S) > Page
OnePage(S) == {T \in SUBSET S : IF Long(S) THEN Cardinality(T) = Page ELSE T = S}

(* The addresses associated with the nodes of S.                           *)
AddressesOf(S) == {e \in Eip : eip[e] \in S}
HasAddress(i) == AddressesOf({i}) # {}

(* The cloud drops instances; their addresses stay allocated.              *)
Terminate(S) ==
  /\ inst' = inst \ S
  /\ eip' = [e \in Eip |-> IF eip[e] \in S THEN "spare" ELSE eip[e]]
  /\ tagged' = tagged

---------------------------------------------------------------------------
(* The requests, with the checks and the first save of the row.            *)

Start(o, r) ==
  /\ At("idle")
  /\ started < MaxOps
  /\ started' = started + 1
  /\ op' = o
  /\ row' = r
  /\ UNCHANGED <<flags, account>>

(* CheckCreateArgs wants no row or a Failed one, and IsClusterExist to     *)
(* find nothing; InitCluster saves Creating.                               *)
CreateRequest(exists) ==
  /\ row # NoRow => row.status = "Failed"
  /\ ~exists
  /\ \E n \in MasterAsk, w \in WorkerAsk :
       /\ n >= 1
       /\ Start([Idle EXCEPT !.pc = "network", !.kind = "create", !.nm = n, !.nw = w],
                [status |-> "Creating", nodes |-> {}])

(* The nodes of the row, which the join, a new process, takes over.        *)
MergeConfig == row.nodes

(* CheckJoinArgs wants IsClusterExist to find some nodes; JoinNodes wants  *)
(* a row, whatever it says, and saves Upgrading.                           *)
JoinRequest(exists) ==
  /\ row # NoRow
  /\ exists
  /\ \E n \in MasterAsk, w \in WorkerAsk :
       /\ n >= 1 \/ w >= 1
       /\ Start([Idle EXCEPT !.pc = "network", !.kind = "join", !.nm = n, !.nw = w,
                   !.known = MergeConfig, !.old = row.nodes],
                [row EXCEPT !.status = "Upgrading"])

DeleteRequest ==
  /\ row # NoRow
  /\ \E f \in BOOLEAN :
       Start([Idle EXCEPT !.pc = "d_exist", !.kind = "delete", !.force = f,
                !.many = Long(inst) \/ Long(tagged) \/ Long(inst \cup tagged)],
             [row EXCEPT !.status = "Removing"])

---------------------------------------------------------------------------
(* The base, once generateInstance has returned.                           *)

(* configNetwork and configSecurityGroup, or ensureFirewall (the module    *)
(* CloudNetwork), and what else precedes the first instance.               *)
Network ==
  /\ At("network")
  /\ Goto("masters") \/ Fail
  /\ UNCHANGED <<flags, row, account, started>>

(* p.Status gets the nodes of p.M it does not have: the new ones and those *)
(* that were found in the cloud.                                           *)
SyncExistNodes(found) == op.known \cup op.made \cup found

(* InitK3sCluster, or Join, on the nodes this operation made. The first    *)
(* master, the first worker of a create and the other masters must         *)
(* succeed; the other workers that fail are put in p.ErrM, also when a     *)
(* create then fails to fetch the kubeconfig. The nodes dumb, without an   *)
(* address, cannot be reached. The row becomes Running with the nodes of   *)
(* p.Status.                                                               *)
InstallK3s(dumb) ==
  LET workers == op.made \cap WorkerPool
  IN  /\ At("k3s")
      /\ \/ /\ op.made \cap MasterPool \cap dumb = {}
            /\ \E errM \in SUBSET workers :
                 /\ dumb \subseteq errM
                 /\ op.kind = "create" /\ workers # {} => errM # workers
                 /\ row' = [status |-> "Running", nodes |-> op.known]
                 /\ op' = [op EXCEPT !.errM = errM,
                             !.pc = IF op.kind = "create" THEN "plugins" ELSE "defer"]
         \/ \E errM \in SUBSET workers :
              /\ errM # {} => op.kind = "create" /\ errM # workers
              /\ op' = [op EXCEPT !.errM = errM, !.pc = "defer", !.er = TRUE, !.bad = TRUE]
              /\ row' = row
      /\ UNCHANGED <<flags, account, started>>

(* DeployExtraManifest of InitCluster.                                     *)
Plugins ==
  /\ At("plugins")
  /\ Goto("defer") \/ Fail
  /\ UNCHANGED <<flags, row, account, started>>

(* The deferred functions of InitCluster and JoinNodes, up to              *)
(* RollbackCluster: the workers of p.ErrM leave the row.                   *)
Deferred ==
  LET status == IF op.kind = "join" THEN "Running"
                ELSE IF op.er THEN "Failed" ELSE row.status
  IN  /\ At("defer")
      /\ \/ ~op.er /\ op.errM = {} /\ op' = Idle /\ row' = row
         \/ /\ op.er \/ op.errM # {}
            /\ row' = [status |-> status, nodes |-> row.nodes \ op.errM]
            /\ IF flags.rollback THEN Goto("rollback") ELSE op' = Idle
      /\ UNCHANGED <<flags, account, started>>

(* RollbackCluster: the workers of p.ErrM, or else every node of p.M with  *)
(* RollBack set.                                                           *)
RollbackIds == IF op.errM # {} THEN op.errM ELSE op.made

(* DeleteCluster once the provider has deleted its instances.              *)
DeleteRow ==
  /\ At("d_row")
  /\ row' = NoRow
  /\ op' = Idle
  /\ UNCHANGED <<flags, account, started>>

(* The provider's delete returns an error: the row stays Removing.         *)
DeleteError ==
  /\ op' = Idle
  /\ UNCHANGED <<flags, row, account, started>>

(* The steps of the base that are the same for every provider.             *)
BaseNext ==
  \/ DeleteRequest
  \/ Plugins
  \/ Deferred
  \/ DeleteRow

---------------------------------------------------------------------------
(* Steps that Alibaba and Tencent share. *)

(* None of a role are asked for.                                           *)
Skip(next) == Goto(next) /\ UNCHANGED <<flags, row, account, started>>

(* Addresses E for the new nodes of S, as far as the associate call works: *)
(* the first error ends the loop over p.M and is then forgotten.           *)
Associate(E, S, next) ==
  \E done \in SUBSET S, f \in [S -> E] :
    /\ \A i, j \in S : i # j => f[i] # f[j]
    /\ eip' = [e \in Eip |-> IF \E i \in done : f[i] = e THEN CHOOSE i \in done : f[i] = e
                             ELSE IF e \in E THEN "spare" ELSE eip[e]]
    /\ \/ done = S /\ op' = [op EXCEPT !.pc = next, !.tried = @ \cup E]
       \/ \E i \in S \ done :
            op' = [op EXCEPT !.pc = next, !.bad = TRUE,
                     !.tried = @ \cup {f[j] : j \in done \cup {i}}]
=============================================================================
