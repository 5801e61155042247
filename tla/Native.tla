------------------------------- MODULE Native -------------------------------
(***************************************************************************)
(* pkg/providers/native/native.go: a cluster on machines that exist        *)
(* already. One operation at a time changes the cluster; at any moment a   *)
(* list or a describe may run syncInstanceNodes, which reads the row, asks *)
(* the API server of the cluster for its nodes, and writes the row. Others *)
(* may put K3s on hosts too, and join them to the cluster, by hand. The    *)
(* database does not fail here (ClusterLifecycle has that).                *)
(***************************************************************************)
EXTENDS NodeInstall

CONSTANTS NoRow,     \* there is no row for the cluster
          NoToken,   \* the token is not known
          Setup,     \* the options tried
          MaxOps,    \* bound: operations started in a behaviour
          MaxSync,   \* bound: calls of syncInstanceNodes in a behaviour
          MaxHand,   \* bound: nodes that are joined by hand
          MaxAll     \* bound: all three together, an operation counting as two,
                     \* and going astray as two more

(* mode: neither --cluster nor a datastore, or one of them; needs: the     *)
(* options of initNode; rollback: the setting.                             *)
FlagsType == [mode : {"solo", "etcd", "datastore"}, needs : SUBSET Gift, rollback : BOOLEAN]

ASSUME NativeAssumption == /\ NoToken \notin Token
                           /\ Setup \subseteq FlagsType
                           /\ MaxOps \in Nat /\ MaxSync \in Nat /\ MaxHand \in Nat /\ MaxAll \in Nat

(* masters, workers: the node lists; found: the nodes with Standalone set, *)
(* which sync has found and which have no SSH configuration.               *)
RowType == [status : {"Creating", "Running", "Failed", "Upgrading", "Removing"},
            standalone : BOOLEAN, masters : SUBSET Host, workers : SUBSET Host,
            found : SUBSET Host, ip : Host \cup {NoHost}, token : Token \cup {NoToken}]

ASSUME NoRowAssumption == NoRow \notin RowType

NodesOf(r) == r.masters \cup r.workers

EmptyRow == [status |-> "Creating", standalone |-> FALSE, masters |-> {}, workers |-> {},
             found |-> {}, ip |-> NoHost, token |-> NoToken]

(* The provider object of an operation. c: the cluster it works on;        *)
(* masters, workers: the nodes of p.M with Current and RollBack set;       *)
(* errM: p.ErrM; er: the named result is an error; bad: history, an        *)
(* uninstall has failed.                                                   *)
OpType == [pc : {"idle", "first", "control", "masters", "token", "workers", "plugins",
                 "defer", "rollback", "uninstall", "row"},
           kind : {"none", "create", "join", "delete"}, c : RowType,
           masters : SUBSET Host, workers : SUBSET Host, errM : SUBSET Host,
           er : BOOLEAN, bad : BOOLEAN]

Idle == [pc |-> "idle", kind |-> "none", c |-> EmptyRow, masters |-> {}, workers |-> {},
         errM |-> {}, er |-> FALSE, bad |-> FALSE]

VARIABLES
  flags,    \* the options: mode, needs, rollback
  row,      \* the row of the cluster, or NoRow
  ctx,      \* the kubeconfig has the context of the cluster
  kube,     \* the nodes the API server of the cluster lists
  op,       \* the operation that runs
  sync,     \* the syncInstanceNodes that runs: its node lists, and the row it has read
  astray,   \* history: a sync wrote over a row that had changed, or a join was asked for
            \* what JoinCheck does not refuse and Join does not expect (Strays)
  count     \* operations, syncs and joins by hand so far

bounds == <<astray, count>>
vars == <<flags, hosts, row, ctx, kube, op, sync, bounds>>

ListsType == [masters : SUBSET Host, workers : SUBSET Host, found : SUBSET Host]

SyncIdle == [pc |-> "off", row |-> EmptyRow,
             lists |-> [masters |-> {}, workers |-> {}, found |-> {}]]

Servers(k) == {h \in Host : k[h] # NoK3s /\ k[h].server}

(* Those that serve the API of the operation's cluster: a server with      *)
(* neither etcd nor a datastore to share has an API of its own.            *)
Serving(k) == IF flags.mode = "solo" THEN Servers(k) \cap {op.c.ip} ELSE Servers(k)

(* A server that somebody has set up without AutoK3s.                      *)
HandServer(t) == [token |-> t, server |-> TRUE, init |-> FALSE, url |-> NoHost,
                  datastore |-> FALSE, sans |-> {}, hand |-> TRUE]

Init ==
  /\ flags \in Setup
  /\ \/ k3s = [h \in Host |-> NoK3s] /\ kube = {}
     \/ \E s \in Host, t \in Token :
          /\ k3s = [h \in Host |-> IF h = s THEN HandServer(t) ELSE NoK3s]
          /\ kube = {s}
  /\ gifts = [h \in Host |-> {}]
  /\ stage = [h \in Host |-> "off"]
  /\ row = NoRow
  /\ ctx = FALSE
  /\ op = Idle
  /\ sync = SyncIdle
  /\ astray = FALSE
  /\ count = [ops |-> 0, syncs |-> 0, hands |-> 0]

---------------------------------------------------------------------------
At(l) == op.pc = l
Goto(l) == op' = [op EXCEPT !.pc = l]
End == op' = Idle /\ stage' = [h \in Host |-> "off"]
Fail == op' = [op EXCEPT !.pc = "defer", !.er = TRUE]

Busy == {h \in Host : stage[h] \notin {"off", "done", "failed"}}
Failed == {h \in Host : stage[h] = "failed"}
Waiting(H) == {h \in H : stage[h] = "off"}

Begin(H) ==
  /\ stage' = [h \in Host |-> IF h \in H THEN StageAfter("off", flags.needs) ELSE stage[h]]
  /\ UNCHANGED <<k3s, gifts>>

(* The tokens in use; a new one is drawn at random.                        *)
FreshTokens == Token \ ({k3s[h].token : h \in {g \in Host : k3s[g] # NoK3s}}
                          \cup {r.token : r \in {row} \ {NoRow}})

ByHand == {h \in Host : k3s[h] # NoK3s /\ k3s[h].hand}

More(n) == 2 * count.ops + count.syncs + count.hands + (IF astray THEN 2 ELSE 0) + n <= MaxAll

Start(o, r, k, stray) ==
  /\ At("idle") /\ count.ops < MaxOps /\ More(IF stray THEN 4 ELSE 2)
  /\ count' = [count EXCEPT !.ops = @ + 1]
  /\ op' = o
  /\ row' = r
  /\ kube' = k
  /\ astray' = (astray \/ stray)
  /\ UNCHANGED <<flags, hosts, ctx, sync>>

(* CreateCheck asks for --cluster or a datastore with several masters, and *)
(* for no row or a Failed one; InitCluster saves Creating, and             *)
(* InitK3sCluster draws the token. Its API server starts without nodes; a  *)
(* cluster is not created here beside one that was set up by hand.         *)
CreateRequest ==
  /\ row # NoRow => row.status = "Failed"
  /\ Servers(k3s) \cap ByHand = {}
  /\ \E M \in SUBSET (Host \ ByHand) \ {{}}, t \in FreshTokens :
       \E W \in SUBSET (Host \ (M \cup ByHand)) :
         /\ flags.mode = "solo" => Cardinality(M) = 1
         /\ Start([Idle EXCEPT !.pc = "first", !.kind = "create", !.masters = M, !.workers = W,
                     !.c = [EmptyRow EXCEPT !.masters = M, !.workers = W, !.token = t]],
                  EmptyRow, {}, FALSE)

(* assembleNodeStatus: of the nodes that are asked for, those of p.Status  *)
(* lose Current and RollBack.                                              *)
NewNodes(H, old) == H \ old

(* JoinK3sNode saves a row for a server the database does not know.        *)
JoinK3sNode(s) == [EmptyRow EXCEPT !.status = "Running", !.standalone = TRUE, !.ip = s]

(* Joins of hosts M as masters and W as workers that JoinCheck lets        *)
(* through: the cluster is not Running, and the join will call it Running; *)
(* a node is asked for in its other role; or the server that --ip named.   *)
Strays(r, M, W) == \/ r.status # "Running"
                   \/ r.workers \cap M # {} \/ r.masters \cap W # {}
                   \/ r.standalone /\ r.ip \in M \cup W

(* JoinCheck, assembleNodeStatus and the start of JoinNodes. The cluster   *)
(* is that of the row, whatever its status, or that of the server --ip     *)
(* names, for which a Standalone row is saved first. A cluster with        *)
(* neither --cluster nor a datastore may be asked to take one master. A    *)
(* host that is in both lists of the command is taken as a worker.         *)
JoinRequest ==
  \E M, W \in SUBSET Host :
    /\ M \cup W # {} /\ M \cap W = {}
    /\ flags.mode = "solo" => Cardinality(M) <= 1
    /\ \/ /\ row # NoRow
          /\ LET m == NewNodes(M, row.masters)
                 w == NewNodes(W, row.workers)
             IN  Start([Idle EXCEPT !.pc = IF row.token = NoToken THEN "token" ELSE "masters",
                          !.kind = "join", !.masters = m, !.workers = w,
                          !.c = [row EXCEPT !.masters = @ \cup m, !.workers = @ \cup w]],
                       [row EXCEPT !.status = "Upgrading"], kube, Strays(row, M, W))
       \/ /\ row = NoRow
          /\ \E s \in Servers(k3s) \cap ByHand :
               LET c == JoinK3sNode(s)
               IN  Start([Idle EXCEPT !.pc = "token", !.kind = "join", !.masters = M, !.workers = W,
                            !.c = [c EXCEPT !.masters = M, !.workers = W]],
                         [c EXCEPT !.status = "Upgrading"], kube, Strays(c, M, W))

DeleteRequest ==
  /\ row # NoRow
  /\ Start([Idle EXCEPT !.pc = "uninstall", !.kind = "delete", !.c = row],
           [row EXCEPT !.status = "Removing"], kube, FALSE)

---------------------------------------------------------------------------
(* InitK3sCluster and Join. *)

(* PreparePackage finds the package that is to be brought to the nodes, or *)
(* unpacks its file; without it the operation fails before any host is     *)
(* touched.                                                                *)
PreparePackage ==
  /\ "package" \in flags.needs
  /\ At("first") \/ (op.kind = "join" /\ op.pc \in {"token", "masters"})
  /\ \A h \in Host : stage[h] = "off"
  /\ Fail
  /\ UNCHANGED <<flags, hosts, row, ctx, kube, sync, bounds>>

(* The first master, in whatever order p.M has them; its address is that   *)
(* of the cluster.                                                         *)
InitFirstControl ==
  /\ At("first")
  /\ \E h \in op.masters :
       /\ Begin({h})
       /\ op' = [op EXCEPT !.pc = "control", !.c.ip = h]
  /\ UNCHANGED <<flags, row, ctx, kube, sync, bounds>>

(* validateClusterConfig goes on to the first worker, if there is one.     *)
InitFirstWorker ==
  /\ At("control")
  /\ Busy = {} /\ Failed = {}
  /\ \/ op.workers = {} /\ UNCHANGED hosts
     \/ \E h \in op.workers : Begin({h})
  /\ Goto("masters")
  /\ UNCHANGED <<flags, row, ctx, kube, sync, bounds>>

(* Join without a token reads it from the server at the address of the     *)
(* cluster, or of one of its masters; only a server has it.                *)
GetToken ==
  /\ At("token")
  /\ \/ \E s \in Servers(k3s) :
          /\ IF op.c.ip = NoHost THEN s \in op.c.masters ELSE s = op.c.ip
          /\ op' = [op EXCEPT !.pc = "masters", !.c.ip = s, !.c.token = k3s[s].token]
     \/ Fail
  /\ UNCHANGED <<flags, hosts, row, ctx, kube, sync, bounds>>

(* The other masters one after the other, then the workers all at once.    *)
InitControlNode ==
  /\ At("masters")
  /\ Busy = {} /\ Failed = {}
  /\ \/ /\ \E h \in Waiting(op.masters) : Begin({h})
        /\ Goto("masters")
     \/ /\ Waiting(op.masters) = {}
        /\ Begin(Waiting(op.workers))
        /\ Goto("workers")
  /\ UNCHANGED <<flags, row, ctx, kube, sync, bounds>>

(* An error of a master, or of the first worker of a create, ends it.      *)
InitFailed ==
  /\ op.pc \in {"control", "masters"}
  /\ Busy = {} /\ Failed # {}
  /\ Fail
  /\ UNCHANGED <<flags, hosts, row, ctx, kube, sync, bounds>>

ClusterOf(o) == [cluster |-> flags.mode = "etcd", datastore |-> flags.mode = "datastore",
                 token |-> o.c.token, masters |-> o.c.masters]

(* initNode on a host where it was begun.                                  *)
InitNode(h) ==
  /\ \/ InstallDocker(h, flags.needs)
     \/ HandleRegistry(h, flags.needs)
     \/ HandleDataStoreCertificate(h, flags.needs)
     \/ ScpFiles(h, flags.needs)
     \/ RunInstall(h, GetRunArgs(op.kind = "create" /\ h = op.c.ip, op.c.ip,
                                 ClusterOf(op), h \in op.masters))
  /\ UNCHANGED <<flags, row, ctx, kube, op, sync, bounds>>

(* wg.Wait, after which the workers that failed are in p.ErrM.             *)
WorkersDone(kind) == At("workers") /\ Busy = {} /\ op.kind = kind

Saved(l, er) == op' = [op EXCEPT !.pc = l, !.er = er, !.errM = Failed]

(* InitK3sCluster ends: the kubeconfig is read and saved, the row becomes  *)
(* Running.                                                                *)
SaveCreated ==
  /\ WorkersDone("create")
  /\ \/ /\ row' = [op.c EXCEPT !.status = "Running"]
        /\ ctx' = TRUE
        /\ Saved("plugins", FALSE)
     \/ /\ ctx' \in {ctx, TRUE}
        /\ Saved("defer", TRUE) /\ UNCHANGED row
  /\ UNCHANGED <<flags, hosts, kube, sync, bounds>>

(* Join ends: a kubeconfig file that cannot be read is an error, a context *)
(* that cannot be fetched is not.                                          *)
SaveJoined ==
  /\ WorkersDone("join")
  /\ \/ /\ row' = [op.c EXCEPT !.status = "Running"]
        /\ ctx' \in {ctx, TRUE}
        /\ Saved("defer", FALSE)
     \/ Saved("defer", TRUE) /\ UNCHANGED <<row, ctx>>
  /\ UNCHANGED <<flags, hosts, kube, sync, bounds>>

(* DeployExtraManifest.                                                    *)
Plugins ==
  /\ At("plugins")
  /\ Goto("defer") \/ Fail
  /\ UNCHANGED <<flags, hosts, row, ctx, kube, sync, bounds>>

(* The deferred functions of InitCluster and JoinNodes.                    *)
Deferred ==
  LET status == IF op.kind = "join" THEN "Running"
                ELSE IF op.er THEN "Failed" ELSE row.status
  IN  /\ At("defer")
      /\ \/ ~op.er /\ op.errM = {} /\ End /\ UNCHANGED row
         \/ /\ op.er \/ op.errM # {}
            /\ row' = [row EXCEPT !.status = status, !.workers = @ \ op.errM,
                                  !.found = @ \ (op.errM \cap (row.workers \ row.masters))]
            /\ IF flags.rollback THEN Goto("rollback") /\ UNCHANGED stage ELSE End
      /\ UNCHANGED <<flags, k3s, gifts, ctx, kube, sync, bounds>>

(* Mutant: the nodes of the API server are not compared with those to roll *)
(* back.                                                                   *)
RollbackEveryNode ==
  LET ids == IF op.errM # {} THEN op.errM ELSE op.masters \cup op.workers
  IN  /\ At("rollback")
      /\ \E gone \in SUBSET ids, left \in SUBSET (IF ctx THEN kube ELSE {}) :
           /\ Uninstall(gone \cap op.masters, gone \cap op.workers)
           /\ kube' = IF Serving(k3s') = {} THEN {} ELSE kube \ left
      /\ ctx' = (ctx /\ row.status = "Running")
      /\ End
      /\ UNCHANGED <<flags, row, sync, bounds>>

(* rollbackInstance: the nodes that failed, or else all that this          *)
(* operation brought, leave the API server and lose K3s, as far as either  *)
(* works; RollbackCluster drops the context unless the row is Running.     *)
RollbackInstance ==
  LET ids == IF op.errM # {} THEN op.errM ELSE op.masters \cup op.workers
  IN  /\ At("rollback")
      /\ \E gone \in SUBSET ids, left \in SUBSET (IF ctx THEN ids ELSE {}) :
           /\ Uninstall(gone \cap op.masters, gone \cap op.workers)
           /\ kube' = IF Serving(k3s') = {} THEN {} ELSE kube \ left
      /\ ctx' = (ctx /\ row.status = "Running")
      /\ End
      /\ UNCHANGED <<flags, row, sync, bounds>>

---------------------------------------------------------------------------
(* DeleteCluster. *)

(* Mutant: nodes that sync has found are given the SSH of the cluster.     *)
ReachableAll(c) == NodesOf(c)

(* A node without an SSH configuration cannot be reached, unless it has    *)
(* been joined in its other role since.                                    *)
Reachable(c) == (NodesOf(c) \ c.found) \cup (c.masters \cap c.workers)

(* Mutant: the workers are forgotten.                                      *)
UninstallMasters ==
  /\ At("uninstall")
  /\ \/ op.c.standalone /\ UNCHANGED <<k3s, gifts, kube>> /\ Goto("row")
     \/ /\ ~op.c.standalone
        /\ Uninstall(Reachable(op.c) \cap op.c.masters, {})
        /\ kube' = IF Serving(k3s') = {} THEN {} ELSE kube
        /\ Goto("row")
  /\ UNCHANGED <<flags, stage, row, ctx, sync, bounds>>

(* uninstallCluster: nothing for a Standalone cluster; otherwise every     *)
(* node, and an error is a warning.                                        *)
UninstallCluster ==
  /\ At("uninstall")
  /\ \/ op.c.standalone /\ UNCHANGED <<k3s, gifts, kube>> /\ Goto("row")
     \/ /\ ~op.c.standalone
        /\ \E gone \in SUBSET Reachable(op.c) :
             /\ Uninstall(gone \cap op.c.masters, gone \cap op.c.workers)
             /\ kube' = IF Serving(k3s') = {} THEN {} ELSE kube
             /\ op' = [op EXCEPT !.pc = "row", !.bad = (gone # Reachable(op.c))]
  /\ UNCHANGED <<flags, stage, row, ctx, sync, bounds>>

DeleteRow ==
  /\ At("row")
  /\ row' = NoRow
  /\ ctx' = FALSE
  /\ op' = Idle
  /\ UNCHANGED <<flags, hosts, kube, sync, bounds>>

---------------------------------------------------------------------------
(* syncInstanceNodes, of a list, a describe or an ssh. *)

ListsOf(r) == [masters |-> r.masters, workers |-> r.workers, found |-> r.found]

(* getInstanceNodes and MergeConfig read the row.                          *)
SyncRead ==
  /\ sync.pc = "off" /\ count.syncs < MaxSync /\ More(1)
  /\ row # NoRow
  /\ sync' = [SyncIdle EXCEPT !.pc = "list", !.lists = ListsOf(row)]
  /\ count' = [count EXCEPT !.syncs = @ + 1]
  /\ UNCHANGED <<flags, hosts, row, ctx, kube, op, astray>>

(* Without a context, an answer of the API server or another number of     *)
(* nodes in it, the row stays as it is; so it does where SyncList has      *)
(* nothing to save.                                                        *)
SyncNothing ==
  /\ sync.pc = "list"
  /\ sync' = SyncIdle
  /\ UNCHANGED <<flags, hosts, row, ctx, kube, op, bounds>>

(* The API server lists its nodes; those the lists did not have are added  *)
(* to them. The row is read again; without one its nil pointer is          *)
(* followed, and the request or the command ends. Lists that are those of  *)
(* the row are not saved.                                                  *)
SyncList ==
  LET seen == sync.lists
      new == kube \ NodesOf(seen)
      lists == [masters |-> seen.masters \cup (new \cap Servers(k3s)),
                workers |-> seen.workers \cup (new \ Servers(k3s)),
                found |-> seen.found \cup new]
  IN  /\ sync.pc = "list"
      /\ ctx /\ Servers(k3s) # {}
      /\ Cardinality(kube) # Cardinality(seen.masters) + Cardinality(seen.workers)
      /\ row # NoRow /\ lists # ListsOf(row)
      /\ sync' = [pc |-> "save", row |-> row, lists |-> lists]
      /\ astray' = (astray \/ ListsOf(row) # seen)
      /\ UNCHANGED <<flags, hosts, row, ctx, kube, op, count>>

(* SaveClusterState writes all of the row as it was read, with the lists;  *)
(* where the row is gone by now, none is found by the name.                *)
SyncWrite ==
  /\ sync.pc = "save"
  /\ \/ /\ row # NoRow
        /\ row' = [sync.row EXCEPT !.masters = sync.lists.masters, !.workers = sync.lists.workers,
                                   !.found = sync.lists.found]
        /\ astray' = (astray \/ row # sync.row)
     \/ row = NoRow /\ UNCHANGED <<row, astray>>
  /\ sync' = SyncIdle
  /\ UNCHANGED <<flags, hosts, ctx, kube, op, count>>

---------------------------------------------------------------------------
(* The nodes themselves. *)

(* A K3s that was installed registers with the API server of the cluster,  *)
(* which takes its own token only; a server with nothing to share          *)
(* registers with itself.                                                  *)
Register(h) ==
  /\ k3s[h] # NoK3s /\ h \notin kube
  /\ \E g \in Servers(k3s) : k3s[g].token = k3s[h].token
  /\ row # NoRow => /\ row.standalone \/ k3s[h].token \in {row.token, op.c.token}
                    /\ flags.mode = "solo" /\ k3s[h].server => h \in {row.ip, op.c.ip}
  /\ kube' = kube \cup {h}
  /\ UNCHANGED <<flags, hosts, row, ctx, op, sync, bounds>>

(* Somebody joins a worker to the cluster without AutoK3s.                 *)
JoinByHand(h) ==
  /\ count.hands < MaxHand /\ More(1)
  /\ row # NoRow /\ row.status = "Running" /\ row.token # NoToken
  /\ k3s[h] = NoK3s /\ h \notin NodesOf(row) \cup op.masters \cup op.workers
  /\ k3s' = [k3s EXCEPT ![h] = [token |-> row.token, server |-> FALSE, init |-> FALSE,
                                url |-> row.ip, datastore |-> FALSE, sans |-> {}, hand |-> TRUE]]
  /\ kube' = kube \cup {h}
  /\ count' = [count EXCEPT !.hands = @ + 1]
  /\ UNCHANGED <<flags, gifts, stage, row, ctx, op, sync, astray>>

Next ==
  \/ CreateRequest \/ JoinRequest \/ DeleteRequest
  \/ PreparePackage \/ InitFirstControl \/ InitFirstWorker \/ GetToken \/ InitControlNode
  \/ InitFailed
  \/ \E h \in Host : InitNode(h) \/ Register(h) \/ JoinByHand(h)
  \/ SaveCreated \/ SaveJoined \/ Plugins
  \/ Deferred \/ RollbackInstance
  \/ UninstallCluster \/ DeleteRow
  \/ SyncRead \/ SyncNothing \/ SyncList \/ SyncWrite

Spec == Init /\ [][Next]_vars

---------------------------------------------------------------------------
(* The state has its types.                                                *)
TypeOK ==
  /\ k3s \in [Host -> K3sType \cup {NoK3s}]
  /\ gifts \in [Host -> SUBSET Gift]
  /\ stage \in [Host -> StageType]
  /\ flags \in FlagsType
  /\ row \in RowType \cup {NoRow}
  /\ ctx \in BOOLEAN
  /\ kube \subseteq Host
  /\ op \in OpType
  /\ sync \in [pc : {"off", "list", "save"}, row : RowType, lists : ListsType]
  /\ astray \in BOOLEAN
  /\ count \in [ops : 0..MaxOps, syncs : 0..MaxSync, hands : 0..MaxHand]

(* K3s never runs on a node that misses what it was to be given first      *)
(* (initNode), whatever was installed, failed or was uninstalled before:   *)
(* with SKIP_DOWNLOAD the script would find no K3s to start.               *)
ReadyBeforeStart ==
  \A h \in Host : k3s[h] # NoK3s /\ ~k3s[h].hand => flags.needs \subseteq gifts[h]

(* The nodes of a Running row at rest form one cluster (getRunArgs,        *)
(* validateClusterConfig, Join), over any joins of new hosts to a Running  *)
(* cluster: each runs K3s in its role and with the token of the row, an    *)
(* etcd was initialised on the host of the row's address and nowhere else, *)
(* all others were pointed there, and a server's certificate names that    *)
(* address. With neither etcd nor a datastore, the one master a join may   *)
(* bring (JoinCheck refuses only two) is a server of its own, to which     *)
(* nothing points. Nodes found by sync are others' to look after; a join   *)
(* of a Failed cluster calls it Running whatever its nodes are, a node     *)
(* that is joined in its other role gets K3s twice, and a sync that raced  *)
(* may have brought back a node: astray says that one of them happened.    *)
OneCluster ==
  At("idle") /\ ~astray /\ row # NoRow /\ row.status = "Running" /\ ~row.standalone =>
    \A h \in NodesOf(row) \ row.found :
      /\ k3s[h] # NoK3s
      /\ k3s[h].token = row.token
      /\ k3s[h].server = (h \in row.masters)
      /\ k3s[h].init = (flags.mode = "etcd" /\ h = row.ip)
      /\ (h \in row.workers \/ (flags.mode = "etcd" /\ h # row.ip)) => k3s[h].url = row.ip
      /\ h \in row.masters => row.ip \in k3s[h].sans

(* Whatever fails in a join or in its rollback (rollbackInstance), the     *)
(* nodes the cluster had before keep K3s, also while a sync rewrites the   *)
(* row, and their place in the API server: until a sync races or a join    *)
(* strays, and the only server left is one that is rolled back.            *)
JoinKeepsNodes ==
  [][op.kind = "join" =>
       \A h \in NodesOf(op.c) \ (op.masters \cup op.workers) :
         k3s[h] # NoK3s => k3s'[h] = k3s[h] /\ (~astray /\ h \in kube => h \in kube')]_vars

(* A K3s that was set up by hand is never replaced or removed, unless a    *)
(* join was asked to take its host: not by the rollback of an operation it *)
(* has no part in, and not by the delete of a cluster whose row lists it   *)
(* (uninstallCluster; sync gives such a node no SSH configuration). Syncs  *)
(* that race, and joins of nodes in another role, may forget whose it was. *)
HandNodesKept ==
  [][~astray => \A h \in ByHand \ (op.masters \cup op.workers) : k3s'[h] = k3s[h]]_vars

(* A delete none of whose scripts fails leaves no K3s on the nodes of the  *)
(* row, also when syncs change the row while it runs; a Standalone cluster *)
(* is left alone, and a join that strayed may have left K3s in a role that *)
(* the row does not know.                                                  *)
DeleteUninstalls ==
  [][row # NoRow /\ row' = NoRow /\ ~op.bad /\ ~astray /\ ~row.standalone =>
       \A h \in NodesOf(row) \ row.found : k3s'[h] = NoK3s]_vars
=============================================================================
