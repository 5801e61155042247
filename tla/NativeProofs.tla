---------------------------- MODULE NativeProofs ----------------------------
(* Proofs about Native, for any hosts, tokens and options and any number   *)
(* of operations, syncs and joins by hand.                                 *)
EXTENDS Native, TLAPS

(***************************************************************************)
(* The inductive invariant.                                                *)
(***************************************************************************)

(* The hosts the operation brings, and those of a row that AutoK3s set up. *)
New == op.masters \cup op.workers
Own(r) == NodesOf(r) \ r.found

(* How the operation installs K3s on h. *)
Args(h) == GetRunArgs(op.kind = "create" /\ h = op.c.ip, op.c.ip, ClusterOf(op), h \in op.masters)

(* What a host must have been given when initNode is at s. *)
Before(s) == CASE s = "registry" -> {"docker"}
               [] s = "certs" -> {"docker", "registry"}
               [] s = "package" -> {"docker", "registry", "certs"}
               [] s = "run" -> Gift
               [] OTHER -> {}

(* initNode runs on hosts the operation brings only, in its order, between *)
(* the start of the operation and its end; masters come first.             *)
StageInv ==
  /\ op.pc \in {"idle", "first", "token", "uninstall", "row"} => \A h \in Host : stage[h] = "off"
  /\ op.pc \in {"plugins", "defer", "rollback"} => Busy = {}
  /\ op.pc = "workers" => /\ \A h \in op.masters : stage[h] = "done"
                          /\ \A h \in op.workers : stage[h] # "off"
  /\ \A h \in Host :
       /\ stage[h] # "off" => h \in New
       /\ flags.needs \cap Before(stage[h]) \subseteq gifts[h]
       /\ stage[h] = "done" => k3s[h] = Args(h)

(* The parts of an operation follow each other.                            *)
OpInv ==
  /\ op.kind = "none" => op.pc = "idle"
  /\ op.kind = "create" => op.pc \in {"first", "control", "masters", "workers", "plugins", "defer",
                                      "rollback"}
  /\ op.kind = "join" => op.pc \in {"token", "masters", "workers", "defer", "rollback"}
  /\ op.kind = "delete" => op.pc \in {"uninstall", "row"}
  /\ op.pc \in {"first", "control", "masters", "workers"} => op.c.token \in Token
  /\ op.kind \in {"none", "delete"} => New = {}
  /\ op.kind # "none" => row # NoRow
  /\ op.masters \cap op.workers = {}
  /\ op.errM \subseteq op.workers
  /\ op.pc \notin {"plugins", "defer", "rollback"} => op.errM = {}
  /\ op.er => op.pc \in {"defer", "rollback"}
  /\ op.pc = "rollback" /\ ~op.er => op.errM # {}

(* The rest is lost when a sync has raced or a join has strayed.           *)

(* The cluster of a create is that of its nodes, none of which was set up  *)
(* by hand.                                                                *)
CreateInv ==
  ~astray /\ op.kind = "create" =>
    /\ op.c.masters = op.masters /\ op.c.workers = op.workers /\ op.c.found = {}
    /\ ~op.c.standalone /\ ~row.standalone
    /\ op.pc # "first" => op.er \/ op.c.ip \in op.masters
    /\ New \cap ByHand = {}
    /\ op.pc \in {"first", "control", "masters", "workers"} =>
         row.status = "Creating" /\ Own(row) = {}
    /\ op.pc = "rollback" /\ op.er => row.status = "Failed"

(* K3s on h, installed as k, is a node of the cluster of r.                *)
IsNode(k, mode, r, h) ==
  /\ k # NoK3s
  /\ k.token = r.token
  /\ k.server = (h \in r.masters)
  /\ k.init = (mode = "etcd" /\ h = r.ip)
  /\ (h \in r.workers \/ (mode = "etcd" /\ h # r.ip)) => k.url = r.ip
  /\ h \in r.masters => r.ip \in k.sans

NodeOk(r, h) == IsNode(k3s[h], flags.mode, r, h)

(* The script that the role of h in r asks for removes the K3s of h. *)
InRole(r, h) == k3s[h] # NoK3s => (k3s[h].server <=> h \in r.masters)

(* The cluster of a join is that of the row, and its new nodes; it is not  *)
(* saved yet, or its end failed.                                           *)
Unsaved == op.pc \in {"token", "masters", "workers"} \/ op.er

JoinInv ==
  ~astray /\ op.kind = "join" =>
    /\ row.status \in {"Running", "Upgrading"}
    /\ op.pc = "token" => op.c.standalone
    /\ op.masters \subseteq op.c.masters /\ op.workers \subseteq op.c.workers
    /\ ~op.c.standalone =>
         /\ op.c.masters \cap op.c.workers = {}
         /\ op.c.ip \in op.c.masters \ (op.c.found \cup New)
         /\ \A h \in Own(op.c) \ New : NodeOk(op.c, h) /\ h \notin ByHand
         /\ Unsaved => New \cap Own(row) = {}

(* The cluster of a delete is that of the row.                             *)
DeleteInv ==
  ~astray /\ op.kind = "delete" =>
    /\ row.status = "Removing"
    /\ Own(op.c) = Own(row)
    /\ ~op.c.standalone => op.c.masters \cap op.c.workers = {}
    /\ \A h \in Own(row) : h \in op.c.masters <=> h \in row.masters
    /\ op.pc = "row" /\ ~op.bad /\ ~row.standalone => \A h \in Own(row) : k3s[h] = NoK3s

(* The server of a Standalone row is not AutoK3s's to change.              *)
StandaloneInv ==
  ~astray /\ row # NoRow =>
    /\ op.kind \in {"join", "delete"} => op.c.standalone = row.standalone /\ op.c.ip = row.ip
    /\ row.standalone => row.ip \in Host /\ row.ip \in Servers(k3s) \ New
    /\ ~row.standalone /\ row.status \in {"Running", "Upgrading"} => row.token \in Token

(* The workers that failed are in the row until the deferred function.     *)
Pending == IF op.pc \in {"plugins", "defer"} THEN op.errM ELSE {}

(* The nodes of the row, but for those that were found, are not others',   *)
(* they are what the row says, and as long as it is Running or Upgrading   *)
(* they form one cluster.                                                  *)
RowInv ==
  ~astray /\ row # NoRow /\ ~row.standalone =>
    /\ row.masters \cap row.workers = {}
    /\ op.errM \cap (row.masters \ row.found) = {}
    /\ (Own(row) \ Pending) \cap ByHand = {}
    /\ \A h \in Own(row) \ Pending : InRole(row, h)
    /\ row.status \in {"Running", "Upgrading"} =>
         /\ row.ip \in row.masters \ row.found
         /\ \A h \in Own(row) \ Pending : NodeOk(row, h)
    /\ op.pc = "rollback" /\ ~op.er => op.errM \cap Own(row) = {}

(* What a sync adds to the row it has read are nodes it has found.         *)
Grown(r, l) ==
  /\ r.masters \subseteq l.masters /\ r.workers \subseteq l.workers
  /\ (l.masters \ r.masters) \cap NodesOf(r) = {} /\ (l.workers \ r.workers) \cap NodesOf(r) = {}
  /\ (l.masters \ r.masters) \cap (l.workers \ r.workers) = {}
  /\ l.found = r.found \cup (NodesOf(l) \ NodesOf(r))

SyncInv == ~astray /\ sync.pc = "save" => Grown(sync.row, sync.lists)

IInv == /\ TypeOK /\ ReadyBeforeStart /\ StageInv /\ OpInv /\ CreateInv /\ JoinInv /\ DeleteInv
        /\ StandaloneInv /\ RowInv

(***************************************************************************)
(* The order of initNode.                                                  *)
(***************************************************************************)

(* The least element of a set of numbers. *)
LEMMA Least ==
  ASSUME NEW S \in SUBSET Nat, NEW k \in S, \A j \in S : k <= j
  PROVE  (CHOOSE i \in S : \A j \in S : i <= j) = k
<1> DEFINE P(i) == i \in S /\ \A j \in S : i <= j
<1>1. P(k)
  OBVIOUS
<1>2. P(CHOOSE i : P(i))
  BY <1>1, Zenon
<1>3. ASSUME NEW i, P(i) PROVE i = k
  BY <1>3
<1>4. (CHOOSE i \in S : \A j \in S : i <= j) = CHOOSE i : P(i)
  BY Zenon
<1> QED BY <1>2, <1>3, <1>4

(* The first step whose options are set is next. *)
LEMMA StageAfterIs ==
  ASSUME NEW needs
  PROVE  /\ StageAfter("off", needs) = IF "docker" \in needs THEN "docker"
                                       ELSE StageAfter("docker", needs)
         /\ StageAfter("docker", needs) = IF "registry" \in needs THEN "registry"
                                          ELSE StageAfter("registry", needs)
         /\ StageAfter("registry", needs) = IF "certs" \in needs THEN "certs"
                                            ELSE StageAfter("certs", needs)
         /\ StageAfter("certs", needs) = IF "package" \in needs THEN "package" ELSE "run"
         /\ StageAfter("package", needs) = "run"
<1> DEFINE W(rest) == {i \in DOMAIN rest : rest[i] \in needs}
           Pick(rest) == IF W(rest) = {} THEN "run"
                         ELSE rest[CHOOSE i \in W(rest) : \A j \in W(rest) : i <= j]
           r0 == <<"docker", "registry", "certs", "package">>
           r1 == <<"registry", "certs", "package">>
           r2 == <<"certs", "package">>
           r3 == <<"package">>
<1>1. /\ StageAfter("off", needs) = Pick(r0) /\ StageAfter("docker", needs) = Pick(r1)
      /\ StageAfter("registry", needs) = Pick(r2) /\ StageAfter("certs", needs) = Pick(r3)
      /\ StageAfter("package", needs) = Pick(<<>>)
  BY DEF StageAfter
<1>2. Pick(<<>>) = "run"
  OBVIOUS
<1>3. Pick(r3) = IF "package" \in needs THEN "package" ELSE "run"
  <2>1. CASE "package" \in needs
    <3>1. W(r3) = {1}
      BY <2>1
    <3> QED BY <2>1, <3>1, Least
  <2> QED BY <2>1
<1>4. Pick(r2) = IF "certs" \in needs THEN "certs" ELSE IF "package" \in needs THEN "package" ELSE "run"
  <2>1. CASE "certs" \in needs
    <3>1. W(r2) \in SUBSET Nat /\ 1 \in W(r2) /\ \A j \in W(r2) : 1 <= j
      BY <2>1
    <3>2. (CHOOSE i \in W(r2) : \A j \in W(r2) : i <= j) = 1
      BY <3>1, Least
    <3> QED BY <2>1, <3>1, <3>2
  <2>2. CASE "certs" \notin needs /\ "package" \in needs
    <3>1. W(r2) \in SUBSET Nat /\ 2 \in W(r2) /\ \A j \in W(r2) : 2 <= j
      BY <2>2
    <3>2. (CHOOSE i \in W(r2) : \A j \in W(r2) : i <= j) = 2
      BY <3>1, Least
    <3> QED BY <2>2, <3>1, <3>2
  <2>3. CASE "certs" \notin needs /\ "package" \notin needs
    BY <2>3
  <2> QED BY <2>1, <2>2, <2>3
<1>5. Pick(r1) = IF "registry" \in needs THEN "registry" ELSE Pick(r2)
  <2>1. CASE "registry" \in needs
    <3>1. W(r1) \in SUBSET Nat /\ 1 \in W(r1) /\ \A j \in W(r1) : 1 <= j
      BY <2>1
    <3>2. (CHOOSE i \in W(r1) : \A j \in W(r1) : i <= j) = 1
      BY <3>1, Least
    <3> QED BY <2>1, <3>1, <3>2
  <2>2. CASE "registry" \notin needs /\ "certs" \in needs
    <3>1. W(r1) \in SUBSET Nat /\ 2 \in W(r1) /\ \A j \in W(r1) : 2 <= j
      BY <2>2
    <3>2. (CHOOSE i \in W(r1) : \A j \in W(r1) : i <= j) = 2
      BY <3>1, Least
    <3> QED BY <1>4, <2>2, <3>1, <3>2
  <2>3. CASE "registry" \notin needs /\ "certs" \notin needs /\ "package" \in needs
    <3>1. W(r1) \in SUBSET Nat /\ 3 \in W(r1) /\ \A j \in W(r1) : 3 <= j
      BY <2>3
    <3>2. (CHOOSE i \in W(r1) : \A j \in W(r1) : i <= j) = 3
      BY <3>1, Least
    <3> QED BY <1>4, <2>3, <3>1, <3>2
  <2>4. CASE "registry" \notin needs /\ "certs" \notin needs /\ "package" \notin needs
    BY <1>4, <2>4
  <2> QED BY <2>1, <2>2, <2>3, <2>4
<1>6. Pick(r0) = IF "docker" \in needs THEN "docker" ELSE Pick(r1)
  <2>1. CASE "docker" \in needs
    <3>1. W(r0) \in SUBSET Nat /\ 1 \in W(r0) /\ \A j \in W(r0) : 1 <= j
      BY <2>1
    <3>2. (CHOOSE i \in W(r0) : \A j \in W(r0) : i <= j) = 1
      BY <3>1, Least
    <3> QED BY <2>1, <3>1, <3>2
  <2>2. CASE "docker" \notin needs /\ "registry" \in needs
    <3>1. W(r0) \in SUBSET Nat /\ 2 \in W(r0) /\ \A j \in W(r0) : 2 <= j
      BY <2>2
    <3>2. (CHOOSE i \in W(r0) : \A j \in W(r0) : i <= j) = 2
      BY <3>1, Least
    <3> QED BY <1>5, <2>2, <3>1, <3>2
  <2>3. CASE "docker" \notin needs /\ "registry" \notin needs /\ "certs" \in needs
    <3>1. W(r0) \in SUBSET Nat /\ 3 \in W(r0) /\ \A j \in W(r0) : 3 <= j
      BY <2>3
    <3>2. (CHOOSE i \in W(r0) : \A j \in W(r0) : i <= j) = 3
      BY <3>1, Least
    <3> QED BY <1>4, <1>5, <2>3, <3>1, <3>2
  <2>4. CASE "docker" \notin needs /\ "registry" \notin needs /\ "certs" \notin needs
             /\ "package" \in needs
    <3>1. W(r0) \in SUBSET Nat /\ 4 \in W(r0) /\ \A j \in W(r0) : 4 <= j
      BY <2>4
    <3>2. (CHOOSE i \in W(r0) : \A j \in W(r0) : i <= j) = 4
      BY <3>1, Least
    <3> QED BY <1>4, <1>5, <2>4, <3>1, <3>2
  <2>5. CASE "docker" \notin needs /\ "registry" \notin needs /\ "certs" \notin needs
             /\ "package" \notin needs
    BY <1>4, <1>5, <2>5
  <2> QED BY <2>1, <2>2, <2>3, <2>4, <2>5
<1> HIDE DEF Pick
<1> QED BY <1>1, <1>2, <1>3, <1>4, <1>5, <1>6

Steps == {"docker", "registry", "certs", "package"}

(* Nothing that is wanted is passed over. *)
LEMMA StageOrder ==
  ASSUME NEW needs \in SUBSET Gift
  PROVE  /\ StageAfter("off", needs) \in Steps \cup {"run"}
         /\ needs \cap Before(StageAfter("off", needs)) = {}
         /\ \A s \in Steps :
              /\ StageAfter(s, needs) \in Steps \cup {"run"}
              /\ needs \cap Before(StageAfter(s, needs)) \subseteq Before(s) \cup {s}
  BY StageAfterIs DEF Before, Steps, Gift

(***************************************************************************)
(* What a step does to the operation.                                      *)
(***************************************************************************)
OpIs(l, k, c, m, w, e, x, b) ==
  /\ op' \in OpType
  /\ op'.pc = l /\ op'.kind = k /\ op'.c = c /\ op'.masters = m /\ op'.workers = w
  /\ op'.errM = e /\ op'.er = x /\ op'.bad = b

PC == {"idle", "first", "control", "masters", "token", "workers", "plugins", "defer", "rollback",
       "uninstall", "row"}

(* The operation goes to l with the result x, and has the rest it had. *)
Continues(l, x) == OpIs(l, op.kind, op.c, op.masters, op.workers, op.errM, x, op.bad)

(* The operation after a step that goes on,                                *)
LEMMA GotoOp ==
  ASSUME TypeOK, NEW l \in PC, Goto(l)
  PROVE  Continues(l, op.er)
  BY DEF TypeOK, OpType, PC, Goto, Continues, OpIs

(* after one that fails,                                                   *)
LEMMA FailOp ==
  ASSUME TypeOK, Fail
  PROVE  Continues("defer", TRUE)
  BY DEF TypeOK, OpType, PC, Fail, Continues, OpIs

(* after the row was saved,                                                *)
LEMMA SavedOp ==
  ASSUME TypeOK, NEW l \in PC, NEW x \in BOOLEAN, Saved(l, x)
  PROVE  OpIs(l, op.kind, op.c, op.masters, op.workers, Failed, x, op.bad)
  BY DEF TypeOK, OpType, PC, Saved, Failed, OpIs

(* The empty row is a row, and the operation that does not run has it. *)
LEMMA IdleType == EmptyRow \in RowType /\ Idle \in OpType
  BY DEF EmptyRow, Idle, RowType, OpType

(* and after its end.                                                      *)
LEMMA IdleOp ==
  ASSUME op' = Idle
  PROVE  OpIs("idle", "none", EmptyRow, {}, {}, {}, FALSE, FALSE)
  BY IdleType DEF Idle, OpIs

(* A step that leaves the hosts, the row and the operation as they are. *)
LEMMA OutsideStep ==
  ASSUME IInv, TypeOK', UNCHANGED <<flags, hosts, row, op, astray>>
  PROVE  IInv'
  BY DEF hosts, IInv, ReadyBeforeStart, StageInv, OpInv, CreateInv, JoinInv, DeleteInv, StandaloneInv,
         RowInv, New, Args, Own, ClusterOf, Busy, Unsaved, Pending, NodeOk, InRole, ByHand, Servers

(***************************************************************************)
(* Steps that only move the operation on.                                  *)
(***************************************************************************)

(* The types of what such a step leaves alone. *)
LEMMA FrameType ==
  ASSUME TypeOK, UNCHANGED <<flags, hosts, row, ctx, kube, sync, bounds>>, op' \in OpType
  PROVE  TypeOK'
  BY DEF TypeOK, hosts, bounds

(* An error ends the operation before the row is saved, or after a create. *)
LEMMA FailStep ==
  ASSUME IInv, Fail, UNCHANGED <<flags, hosts, row, ctx, kube, sync, bounds>>, Busy = {},
         op.pc \in {"first", "control", "masters", "token", "plugins"}
  PROVE  IInv'
<1>1. Continues("defer", TRUE) /\ UNCHANGED <<flags, k3s, gifts, stage, row, astray>> /\ IInv
  BY FailOp DEF IInv, hosts, bounds
<1>2. TypeOK'
  BY <1>1, FrameType DEF IInv, Continues, OpIs
<1>3. ReadyBeforeStart'
  BY <1>1 DEF IInv, ReadyBeforeStart
<1>4. StageInv'
  BY <1>1 DEF IInv, StageInv, New, Args, ClusterOf, Busy, Continues, OpIs
<1>5. OpInv'
  BY <1>1 DEF IInv, OpInv, New, Continues, OpIs
<1>6. CreateInv'
  BY <1>1 DEF IInv, OpInv, CreateInv, New, ByHand, Continues, OpIs
<1>7. JoinInv'
  BY <1>1 DEF IInv, OpInv, JoinInv, New, Own, ByHand, Unsaved, NodeOk, InRole, Continues, OpIs
<1>8. DeleteInv' /\ StandaloneInv'
  BY <1>1 DEF IInv, OpInv, DeleteInv, StandaloneInv, New, Servers, Continues, OpIs
<1>9. RowInv'
  BY <1>1 DEF IInv, OpInv, RowInv, Own, Pending, ByHand, NodeOk, InRole, Continues, OpIs
<1> QED BY <1>2, <1>3, <1>4, <1>5, <1>6, <1>7, <1>8, <1>9 DEF IInv

(* Nothing runs on a host before the first one is begun. *)
LEMMA OffIsNotBusy ==
  ASSUME \A h \in Host : stage[h] = "off"
  PROVE  Busy = {}
  BY DEF Busy

(* A package that cannot be prepared ends it before any host is touched.   *)
LEMMA PrepareStep ==
  ASSUME IInv, PreparePackage
  PROVE  IInv'
  BY FailStep, OffIsNotBusy DEF PreparePackage, At

(* An error of a master, or of the first worker, ends the operation.       *)
LEMMA InitFailedStep ==
  ASSUME IInv, InitFailed
  PROVE  IInv'
  BY FailStep DEF InitFailed

(* DeployExtraManifest succeeds, or its error makes the create fail. *)
LEMMA PluginsStep ==
  ASSUME IInv, Plugins
  PROVE  IInv'
<1>1. Busy = {} /\ op.pc = "plugins" /\ UNCHANGED <<flags, hosts, row, ctx, kube, sync, bounds>>
  BY DEF IInv, StageInv, Plugins, At
<1>2. CASE Goto("defer")
  <2>1. Continues("defer", op.er) /\ UNCHANGED <<flags, k3s, gifts, stage, row, astray>>
    BY <1>1, <1>2, GotoOp DEF IInv, hosts, bounds, PC
  <2>2. TypeOK'
    BY <1>1, <2>1, FrameType DEF IInv, Continues, OpIs
  <2>3. ReadyBeforeStart'
    BY <2>1 DEF IInv, ReadyBeforeStart
  <2>4. StageInv'
    BY <1>1, <2>1 DEF IInv, StageInv, New, Args, ClusterOf, Busy, Continues, OpIs
  <2>5. OpInv' /\ CreateInv' /\ JoinInv'
    BY <1>1, <2>1 DEF IInv, OpInv, CreateInv, JoinInv, New, ByHand, Continues, OpIs
  <2>6. DeleteInv' /\ StandaloneInv'
    BY <1>1, <2>1 DEF IInv, OpInv, DeleteInv, StandaloneInv, New, Servers, Continues, OpIs
  <2>7. RowInv'
    BY <1>1, <2>1 DEF IInv, OpInv, RowInv, Own, Pending, ByHand, NodeOk, InRole, Continues, OpIs
  <2> QED BY <2>2, <2>3, <2>4, <2>5, <2>6, <2>7 DEF IInv
<1> QED BY <1>1, <1>2, FailStep DEF Plugins

(* The token of a server that was set up by hand, or of one of a cluster   *)
(* that was not Running. *)
LEMMA GetTokenStep ==
  ASSUME IInv, GetToken
  PROVE  IInv'
<1>1. /\ op.pc = "token" /\ UNCHANGED <<flags, hosts, row, ctx, kube, sync, bounds>> /\ TypeOK
      /\ Busy = {} /\ op.kind = "join" /\ \A h \in Host : stage[h] = "off"
  BY OffIsNotBusy DEF IInv, TypeOK, OpType, StageInv, OpInv, GetToken, At
<1>2. ASSUME NEW s \in Servers(k3s), IF op.c.ip = NoHost THEN s \in op.c.masters ELSE s = op.c.ip,
             op' = [op EXCEPT !.pc = "masters", !.c.ip = s, !.c.token = k3s[s].token]
      PROVE  IInv'
  <2>1. op \in OpType /\ op.c \in RowType /\ s \in Host
    BY <1>1 DEF TypeOK, OpType, Servers
  <2>2. k3s[s].token \in Token
    BY <1>1, <2>1 DEF TypeOK, K3sType, Servers
  <2> DEFINE c == [op.c EXCEPT !.ip = s, !.token = k3s[s].token]
  <2>3. c \in RowType /\ c.standalone = op.c.standalone /\ c.ip = s /\ c.masters = op.c.masters
        /\ c.workers = op.c.workers /\ c.token \in Token
    BY <2>1, <2>2 DEF RowType
  <2>4. op' = [op EXCEPT !.pc = "masters", !.c = c]
    BY <1>2, <2>1 DEF OpType
  <2>5. OpIs("masters", op.kind, c, op.masters, op.workers, op.errM, op.er, op.bad)
    BY <2>1, <2>3, <2>4 DEF OpType, OpIs
  <2> HIDE DEF c
  <2>6. UNCHANGED <<flags, k3s, gifts, stage, row, astray>>
    BY <1>1 DEF hosts, bounds
  <2>7. TypeOK'
    BY <1>1, <2>5, FrameType DEF IInv, OpIs
  <2>8. ReadyBeforeStart'
    BY <2>6 DEF IInv, ReadyBeforeStart
  <2>9. StageInv'
    BY <1>1, <2>5, <2>6 DEF IInv, StageInv, New, OpIs
  <2>10. ~astray => op.c.standalone /\ row.standalone /\ op.c.ip = s
    BY <1>1, <1>2, K3sAssumption DEF IInv, OpInv, JoinInv, StandaloneInv
  <2>11. OpInv' /\ CreateInv' /\ JoinInv'
    BY <1>1, <2>3, <2>5, <2>6, <2>10 DEF IInv, OpInv, CreateInv, JoinInv, New, OpIs
  <2>12. DeleteInv' /\ StandaloneInv'
    BY <1>1, <2>3, <2>5, <2>6, <2>10 DEF IInv, OpInv, DeleteInv, StandaloneInv, New, Servers, OpIs
  <2>13. RowInv'
    BY <1>1, <2>5, <2>6, <2>10 DEF RowInv
  <2> QED BY <2>7, <2>8, <2>9, <2>11, <2>12, <2>13 DEF IInv
<1> QED BY <1>1, <1>2, FailStep DEF GetToken

(* initNode is begun on hosts the operation brings, and it goes on with l. *)
LEMMA BeginStep ==
  ASSUME IInv, NEW H \in SUBSET New, Begin(H), NEW l,
         Continues(l, op.er), UNCHANGED <<flags, row, ctx, kube, sync, bounds>>,
         \/ op.pc \in {"control", "masters"} /\ l = "masters"
         \/ /\ op.pc = "masters" /\ l = "workers" /\ H = Waiting(op.workers)
            /\ Busy = {} /\ Failed = {} /\ Waiting(op.masters) = {}
  PROVE  IInv'
<1>1. /\ UNCHANGED <<flags, k3s, gifts, row, astray>>
      /\ TypeOK /\ StageAfter("off", flags.needs) \in Steps \cup {"run"}
      /\ flags.needs \cap Before(StageAfter("off", flags.needs)) = {}
  BY StageOrder DEF IInv, TypeOK, FlagsType, Begin, bounds
<1>2. /\ stage' \in [Host -> StageType]
      /\ \A h \in Host : IF h \in H THEN stage'[h] = StageAfter("off", flags.needs)
                                      ELSE stage'[h] = stage[h]
  BY <1>1 DEF TypeOK, Begin, StageType, Steps
<1>3. TypeOK'
  BY <1>1, <1>2 DEF TypeOK, Continues, OpIs, bounds
<1>4. ReadyBeforeStart'
  BY <1>1 DEF IInv, ReadyBeforeStart
<1>5. StageInv'
  <2>1. op'.pc \in {"masters", "workers"}
    BY DEF Continues, OpIs
  <2>2. ASSUME op'.pc = "workers"
        PROVE  /\ \A h \in op'.masters : stage'[h] = "done"
               /\ \A h \in op'.workers : stage'[h] # "off"
    <3>1. op.masters \subseteq Host /\ op.workers \subseteq Host /\ op'.masters = op.masters
          /\ op'.workers = op.workers /\ H = Waiting(op.workers) /\ op.masters \cap op.workers = {}
          /\ Busy = {} /\ Failed = {} /\ Waiting(op.masters) = {}
      BY <1>1, <2>2 DEF IInv, OpInv, TypeOK, OpType, Continues, OpIs
    <3> QED BY <1>1, <1>2, <3>1 DEF Waiting, Busy, Failed, Steps
  <2>3. ASSUME NEW h \in Host
        PROVE  /\ stage'[h] # "off" => h \in New'
               /\ flags'.needs \cap Before(stage'[h]) \subseteq gifts'[h]
               /\ stage'[h] = "done" => k3s'[h] = Args(h)'
    BY <1>1, <1>2, <2>3 DEF IInv, StageInv, New, Args, ClusterOf, Continues, OpIs, Steps
  <2> QED BY <2>1, <2>2, <2>3 DEF StageInv
<1>6. OpInv' /\ CreateInv'
  BY <1>1 DEF IInv, TypeOK, OpType, OpInv, CreateInv, New, ByHand, Own, Continues, OpIs
<1>7. JoinInv'
  BY <1>1 DEF IInv, OpInv, JoinInv, New, Own, ByHand, Unsaved, NodeOk, InRole, Continues, OpIs
<1>8. DeleteInv' /\ StandaloneInv'
  BY <1>1 DEF IInv, OpInv, DeleteInv, StandaloneInv, New, Servers, Continues, OpIs
<1>9. RowInv'
  BY <1>1 DEF IInv, OpInv, RowInv, Own, Pending, ByHand, NodeOk, InRole, Continues, OpIs
<1> QED BY <1>3, <1>4, <1>5, <1>6, <1>7, <1>8, <1>9 DEF IInv

(* The first worker of a create begins.                                    *)
LEMMA InitFirstWorkerStep ==
  ASSUME IInv, InitFirstWorker
  PROVE  IInv'
<1>1. op.pc = "control" /\ UNCHANGED <<flags, row, ctx, kube, sync, bounds>> /\ TypeOK
      /\ Continues("masters", op.er)
  BY GotoOp DEF IInv, InitFirstWorker, At, PC
<1>2. \E H \in SUBSET New : Begin(H)
  <2>1. CASE UNCHANGED hosts
    <3>1. stage' = [h \in Host |-> IF h \in {} THEN StageAfter("off", flags.needs) ELSE stage[h]]
      BY <1>1, <2>1 DEF hosts, TypeOK
    <3>2. Begin({})
      BY <2>1, <3>1 DEF Begin, hosts
    <3> QED BY <3>2
  <2>2. CASE \E h \in op.workers : Begin({h})
    BY <2>2 DEF New
  <2> QED BY <2>1, <2>2 DEF InitFirstWorker
<1> QED BY <1>1, <1>2, BeginStep

(* A further master begins, with the token and the server of the first.    *)
LEMMA InitControlNodeStep ==
  ASSUME IInv, InitControlNode
  PROVE  IInv'
<1>1. /\ op.pc = "masters" /\ UNCHANGED <<flags, row, ctx, kube, sync, bounds>> /\ TypeOK
      /\ Busy = {} /\ Failed = {}
  BY DEF IInv, InitControlNode, At
<1>2. ASSUME NEW h \in Waiting(op.masters), Begin({h}), Goto("masters") PROVE IInv'
  <2>1. Continues("masters", op.er)
    BY <1>1, <1>2, GotoOp DEF PC
  <2>2. {h} \in SUBSET New
    BY DEF Waiting, New
  <2> QED BY <1>1, <1>2, <2>1, <2>2, BeginStep
<1>3. ASSUME Waiting(op.masters) = {}, Begin(Waiting(op.workers)), Goto("workers") PROVE IInv'
  <2>1. Continues("workers", op.er)
    BY <1>1, <1>3, GotoOp DEF PC
  <2>2. Waiting(op.workers) \in SUBSET New
    BY DEF Waiting, New
  <2> QED BY <1>1, <1>3, <2>1, <2>2, BeginStep
<1> QED BY <1>2, <1>3 DEF InitControlNode

(* The first master gives the cluster its address. *)
LEMMA InitFirstControlStep ==
  ASSUME IInv, InitFirstControl
  PROVE  IInv'
<1>1. /\ op.pc = "first" /\ UNCHANGED <<flags, row, ctx, kube, sync, bounds>> /\ TypeOK
      /\ op.kind = "create" /\ \A h \in Host : stage[h] = "off"
  BY DEF IInv, TypeOK, OpType, StageInv, OpInv, InitFirstControl, At
<1>2. PICK h \in op.masters : Begin({h}) /\ op' = [op EXCEPT !.pc = "control", !.c.ip = h]
  BY DEF InitFirstControl
<1>3. h \in Host /\ op \in OpType /\ op.c \in RowType
  BY <1>1 DEF TypeOK, OpType
<1> DEFINE c == [op.c EXCEPT !.ip = h]
<1>4. c \in RowType /\ c.standalone = op.c.standalone /\ c.ip = h /\ c.masters = op.c.masters
      /\ c.workers = op.c.workers /\ c.token = op.c.token /\ c.found = op.c.found
  BY <1>3 DEF RowType
<1>5. op' = [op EXCEPT !.pc = "control", !.c = c]
  BY <1>2, <1>3 DEF OpType
<1>6. OpIs("control", op.kind, c, op.masters, op.workers, op.errM, op.er, op.bad)
  BY <1>3, <1>4, <1>5 DEF OpType, OpIs
<1> HIDE DEF c
<1>7. /\ UNCHANGED <<flags, k3s, gifts, row, astray>>
      /\ StageAfter("off", flags.needs) \in Steps \cup {"run"}
      /\ flags.needs \cap Before(StageAfter("off", flags.needs)) = {}
  BY <1>1, <1>2, StageOrder DEF TypeOK, FlagsType, Begin, bounds
<1>8. /\ stage' \in [Host -> StageType]
      /\ \A g \in Host : IF g = h THEN stage'[g] = StageAfter("off", flags.needs)
                                   ELSE stage'[g] = "off"
  BY <1>1, <1>2, <1>7 DEF TypeOK, Begin, StageType, Steps
<1>9. TypeOK'
  BY <1>1, <1>6, <1>7, <1>8 DEF TypeOK, OpIs, bounds
<1>10. ReadyBeforeStart'
  BY <1>7 DEF IInv, ReadyBeforeStart
<1>11. StageInv'
  BY <1>1, <1>6, <1>7, <1>8 DEF StageInv, New, OpIs, Steps, Before
<1>12. OpInv' /\ CreateInv' /\ JoinInv'
  BY <1>1, <1>4, <1>6, <1>7 DEF IInv, OpInv, CreateInv, JoinInv, New, Own, ByHand, OpIs
<1>13. DeleteInv' /\ StandaloneInv'
  BY <1>1, <1>6, <1>7 DEF IInv, OpInv, DeleteInv, StandaloneInv, New, Servers, OpIs
<1>14. RowInv'
  BY <1>1, <1>6, <1>7 DEF IInv, OpInv, RowInv, Own, Pending, ByHand, NodeOk, InRole, OpIs
<1> QED BY <1>9, <1>10, <1>11, <1>12, <1>13, <1>14 DEF IInv

(***************************************************************************)
(* initNode.                                                               *)
(***************************************************************************)

(* Only the operation's own hosts are touched, and none that the row has   *)
(* as its own. *)
LEMMA OwnUntouched ==
  ASSUME IInv, NEW h \in Host, stage[h] \in Steps \cup {"run"}
  PROVE  /\ h \in New /\ op.pc \in {"control", "masters", "workers"}
         /\ op.kind = "create" \/ op.kind = "join"
         /\ op.c.token \in Token /\ Pending = {} /\ op.errM = {}
         /\ ~astray /\ ~row.standalone => h \notin Own(row)
<1>1. h \in New /\ op.pc \in {"control", "masters", "workers"}
  BY DEF IInv, TypeOK, OpType, StageInv, Busy, Steps
<1>2. (op.kind = "create" \/ op.kind = "join") /\ op.c.token \in Token /\ Pending = {} /\ op.errM = {}
      /\ row # NoRow
  BY <1>1 DEF IInv, TypeOK, OpType, OpInv, Pending
<1>3. ~astray /\ ~row.standalone => h \notin Own(row)
  BY <1>1, <1>2 DEF IInv, OpInv, CreateInv, JoinInv, StandaloneInv, Unsaved
<1> QED BY <1>1, <1>2, <1>3

(* The arguments are those of a K3s that AutoK3s installs. *)
LEMMA ArgsAre ==
  ASSUME TypeOK, NEW h \in Host, op.c.token \in Token
  PROVE  Args(h) \in K3sType /\ Args(h).hand = FALSE
<1>1. op.c.ip \in Host \cup {NoHost} /\ op.c.masters \in SUBSET Host
  BY DEF TypeOK, OpType, RowType
<1> QED BY <1>1 DEF Args, GetRunArgs, K3sType, ClusterOf, GetTLSSans

(* K3s on a host of the operation changes, or how far it is. *)
LEMMA HostStep ==
  ASSUME IInv, NEW h \in Host, stage[h] \in Steps \cup {"run"},
         UNCHANGED <<flags, row, ctx, kube, op, sync, bounds>>,
         k3s' \in [Host -> K3sType \cup {NoK3s}], gifts' \in [Host -> SUBSET Gift],
         NEW l \in StageType \ {"off"}, stage' = [stage EXCEPT ![h] = l],
         \A g \in Host : g # h => k3s'[g] = k3s[g] /\ gifts'[g] = gifts[g],
         k3s'[h] = k3s[h] \/ (k3s'[h] = Args(h) /\ flags.needs \subseteq gifts'[h]),
         gifts[h] \subseteq gifts'[h],
         flags.needs \cap Before(l) \subseteq gifts'[h],
         l = "done" => k3s'[h] = Args(h)
  PROVE  IInv'
<1>1. UNCHANGED <<flags, row, op, astray>> /\ TypeOK /\ stage' \in [Host -> StageType]
      /\ stage'[h] = l /\ \A g \in Host : g # h => stage'[g] = stage[g]
  BY DEF IInv, TypeOK, bounds
<1>2. /\ h \in New /\ op.pc \in {"control", "masters", "workers"}
      /\ op.kind = "create" \/ op.kind = "join"
      /\ op.c.token \in Token /\ Pending = {} /\ op.errM = {}
      /\ ~astray /\ ~row.standalone => h \notin Own(row)
  BY OwnUntouched
<1>3. TypeOK'
  BY <1>1 DEF TypeOK, bounds
<1>4. Args(h).hand = FALSE /\ Args(h) # NoK3s
  BY <1>1, <1>2, ArgsAre, K3sAssumption
<1>5. ReadyBeforeStart'
  BY <1>1, <1>4 DEF IInv, ReadyBeforeStart
<1>6. StageInv'
  <2>1. \A g \in Host : Args(g)' = Args(g)
    BY <1>1 DEF Args, ClusterOf
  <2>2. stage[h] # "done" /\ stage[h] # "off"
    BY DEF Steps
  <2>3. op.pc = "workers" => /\ \A g \in op.masters : stage'[g] = "done"
                             /\ \A g \in op.workers : stage'[g] # "off"
    BY <1>1, <2>2 DEF IInv, TypeOK, OpType, StageInv
  <2>4. ASSUME NEW g \in Host
        PROVE  /\ stage'[g] # "off" => g \in New
               /\ flags.needs \cap Before(stage'[g]) \subseteq gifts'[g]
               /\ stage'[g] = "done" => k3s'[g] = Args(g)
    BY <1>1, <1>2 DEF IInv, StageInv
  <2> QED BY <1>1, <1>2, <2>1, <2>3, <2>4 DEF StageInv, New
<1>7. \A g \in Host : g \in ByHand' => g \in ByHand
  BY <1>1, <1>4 DEF ByHand
<1>8. OpInv'
  BY <1>1 DEF IInv, OpInv, New
<1>9. CreateInv'
  BY <1>1, <1>7 DEF IInv, CreateInv, New, Own, ByHand
<1>10. JoinInv'
  BY <1>1, <1>2, <1>7 DEF IInv, TypeOK, OpType, RowType, JoinInv, New, Own, NodesOf, Unsaved, NodeOk, InRole
<1>11. DeleteInv'
  BY <1>1, <1>2 DEF DeleteInv
<1>12. StandaloneInv'
  BY <1>1, <1>2 DEF IInv, StandaloneInv, New, Servers
<1>13. RowInv'
  BY <1>1, <1>2, <1>7 DEF IInv, TypeOK, RowType, RowInv, Own, NodesOf, Pending, NodeOk, InRole
<1> QED BY <1>3, <1>5, <1>6, <1>8, <1>9, <1>10, <1>11, <1>12, <1>13 DEF IInv

(* One of the steps before the install script. *)
LEMMA GiveStep ==
  ASSUME IInv, NEW h \in Host, NEW s \in Steps, Give(h, s, flags.needs),
         UNCHANGED <<flags, row, ctx, kube, op, sync, bounds>>
  PROVE  IInv'
<1>1. TypeOK /\ stage[h] = s /\ k3s' = k3s /\ flags.needs \in SUBSET Gift
      /\ flags.needs \cap Before(s) \subseteq gifts[h]
  BY DEF IInv, TypeOK, FlagsType, StageInv, Give
<1>2. /\ StageAfter(s, flags.needs) \in Steps \cup {"run"}
      /\ flags.needs \cap Before(StageAfter(s, flags.needs)) \subseteq Before(s) \cup {s}
  BY <1>1, StageOrder
<1>3. CASE /\ gifts' = [gifts EXCEPT ![h] = @ \cup {s}]
           /\ stage' = [stage EXCEPT ![h] = StageAfter(s, flags.needs)]
  <2>1. gifts' \in [Host -> SUBSET Gift] /\ gifts'[h] = gifts[h] \cup {s}
        /\ \A g \in Host : g # h => gifts'[g] = gifts[g]
    BY <1>1, <1>3 DEF TypeOK, Steps, Gift
  <2>2. StageAfter(s, flags.needs) \in StageType \ {"off"} /\ StageAfter(s, flags.needs) # "done"
    BY <1>2 DEF Steps, StageType
  <2>3. flags.needs \cap Before(StageAfter(s, flags.needs)) \subseteq gifts'[h]
    BY <1>1, <1>2, <2>1
  <2>4. k3s' \in [Host -> K3sType \cup {NoK3s}]
    BY <1>1 DEF TypeOK
  <2> QED BY <1>1, <1>3, <2>1, <2>2, <2>3, <2>4, HostStep
<1>4. CASE stage' = [stage EXCEPT ![h] = "failed"] /\ gifts' = gifts
  <2>1. "failed" \in StageType \ {"off"} /\ flags.needs \cap Before("failed") \subseteq gifts'[h]
    BY DEF StageType, Before
  <2>2. k3s' \in [Host -> K3sType \cup {NoK3s}] /\ gifts' \in [Host -> SUBSET Gift]
    BY <1>1, <1>4 DEF TypeOK
  <2> QED BY <1>1, <1>4, <2>1, <2>2, HostStep
<1> QED BY <1>3, <1>4 DEF Give

(* The install script. *)
LEMMA RunStep ==
  ASSUME IInv, NEW h \in Host, RunInstall(h, Args(h)),
         UNCHANGED <<flags, row, ctx, kube, op, sync, bounds>>
  PROVE  IInv'
<1>1. TypeOK /\ stage[h] = "run" /\ gifts' = gifts /\ gifts \in [Host -> SUBSET Gift]
      /\ flags.needs \subseteq gifts[h]
  BY DEF IInv, TypeOK, FlagsType, StageInv, RunInstall, Before
<1>2. op.c.token \in Token
  BY <1>1, OwnUntouched
<1>3. Args(h) \in K3sType
  BY <1>1, <1>2, ArgsAre
<1>4. PICK l \in {"done", "failed"} :
        /\ stage' = [stage EXCEPT ![h] = l]
        /\ k3s' = [k3s EXCEPT ![h] = Args(h)] \/ (k3s' = k3s /\ l = "failed")
  BY DEF RunInstall
<1>5. /\ k3s' \in [Host -> K3sType \cup {NoK3s}]
      /\ k3s'[h] = Args(h) \/ (k3s'[h] = k3s[h] /\ l = "failed")
      /\ \A g \in Host : g # h => k3s'[g] = k3s[g]
  BY <1>1, <1>3, <1>4 DEF TypeOK
<1>6. l \in StageType \ {"off"} /\ Before(l) = {}
  BY DEF StageType, Before
<1> QED BY <1>1, <1>4, <1>5, <1>6, HostStep

(* A step of initNode on one host.                                         *)
LEMMA InitNodeStep ==
  ASSUME IInv, NEW h \in Host, InitNode(h)
  PROVE  IInv'
<1>1. UNCHANGED <<flags, row, ctx, kube, op, sync, bounds>>
  BY DEF InitNode
<1>2. \/ \E s \in Steps : Give(h, s, flags.needs)
      \/ RunInstall(h, Args(h))
  BY DEF InitNode, InstallDocker, HandleRegistry, HandleDataStoreCertificate, ScpFiles, Steps, Args
<1> QED BY <1>1, <1>2, GiveStep, RunStep

(***************************************************************************)
(* The end of a create and of a join.                                      *)
(***************************************************************************)

(* When the workers are done, those that failed are to be left out; the    *)
(* others are nodes of the cluster. *)
LEMMA Installed ==
  ASSUME IInv, op.pc = "workers", Busy = {}
  PROVE  /\ Failed \subseteq op.workers
         /\ \A h \in New \ Failed : k3s[h] = Args(h) /\ h \notin ByHand
         /\ ~astray /\ ~op.c.standalone => \A h \in New \ Failed : NodeOk(op.c, h)
<1>1. TypeOK /\ op.masters \subseteq Host /\ op.workers \subseteq Host /\ op.c.token \in Token
  BY DEF IInv, TypeOK, OpType, OpInv
<1>2. Failed \subseteq op.workers
  BY <1>1 DEF IInv, StageInv, New, Failed
<1>3. \A h \in New \ Failed : h \in Host /\ k3s[h] = Args(h)
  BY <1>1 DEF IInv, TypeOK, StageInv, New, Failed, Busy
<1>4. ASSUME NEW h \in New \ Failed PROVE k3s[h] = Args(h) /\ h \notin ByHand
  BY <1>1, <1>3, ArgsAre DEF ByHand
<1>5. ASSUME ~astray, ~op.c.standalone, NEW h \in New \ Failed
      PROVE  NodeOk(op.c, h)
  <2>1. Args(h) # NoK3s /\ k3s[h] = Args(h)
    BY <1>1, <1>3, ArgsAre, K3sAssumption
  <2>2. /\ h \in op.masters <=> h \in op.c.masters
        /\ h \in op.workers <=> h \in op.c.workers
        /\ op.c.ip \in op.c.masters /\ op.masters \cap op.workers = {}
        /\ h \in op.masters \/ h \in op.workers
        /\ op.kind = "create" => op.c.ip \in op.masters
        /\ op.kind = "join" => h # op.c.ip
        /\ op.kind = "create" \/ op.kind = "join"
    <3>1. CASE op.kind = "create"
      BY <1>5, <3>1 DEF IInv, OpInv, CreateInv, New
    <3>2. CASE op.kind = "join"
      BY <1>5, <3>2 DEF IInv, OpInv, JoinInv, New
    <3>3. op.kind = "create" \/ op.kind = "join"
      BY DEF IInv, TypeOK, OpType, OpInv
    <3> QED BY <3>1, <3>2, <3>3
  <2> DEFINE first == op.kind = "create" /\ h = op.c.ip
  <2>3. /\ Args(h).token = op.c.token
        /\ Args(h).server = (h \in op.masters)
        /\ Args(h).init = (h \in op.masters /\ flags.mode = "etcd" /\ first)
        /\ Args(h).url = IF h \notin op.masters \/ (flags.mode = "etcd" /\ ~first)
                         THEN op.c.ip ELSE NoHost
        /\ Args(h).sans = IF h \in op.masters THEN op.c.masters ELSE {}
    BY DEF Args, GetRunArgs, ClusterOf, GetTLSSans
  <2>4. Args(h).init = (flags.mode = "etcd" /\ h = op.c.ip)
    BY <1>5, <2>2, <2>3
  <2>5. Args(h).server = (h \in op.c.masters)
    BY <2>2, <2>3
  <2> QED BY <1>5, <2>1, <2>2, <2>3, <2>4, <2>5 DEF NodeOk, InRole, IsNode
<1> QED BY <1>2, <1>4, <1>5

(* The row is saved as Running, with the nodes of the operation. *)
LEMMA SaveStep ==
  ASSUME IInv, op.pc = "workers", Busy = {}, row' = [op.c EXCEPT !.status = "Running"],
         ctx' \in BOOLEAN, Saved(IF op.kind = "create" THEN "plugins" ELSE "defer", FALSE),
         UNCHANGED <<flags, hosts, kube, sync, bounds>>
  PROVE  IInv'
<1> DEFINE l == IF op.kind = "create" THEN "plugins" ELSE "defer"
<1>1. TypeOK /\ op.c \in RowType /\ UNCHANGED <<flags, k3s, gifts, stage, astray>>
      /\ (op.kind = "create" \/ op.kind = "join") /\ op.c.token \in Token /\ row # NoRow
  BY DEF IInv, TypeOK, OpType, OpInv, hosts, bounds
<1>2. OpIs(l, op.kind, op.c, op.masters, op.workers, Failed, FALSE, op.bad)
  BY <1>1, SavedOp DEF PC
<1>3. /\ row' \in RowType /\ row'.status = "Running" /\ row'.standalone = op.c.standalone
      /\ row'.masters = op.c.masters /\ row'.workers = op.c.workers /\ row'.found = op.c.found
      /\ row'.ip = op.c.ip /\ row'.token = op.c.token /\ row' # NoRow
  BY <1>1, NoRowAssumption DEF RowType
<1>4. /\ Failed \subseteq op.workers
      /\ \A h \in New \ Failed : k3s[h] = Args(h) /\ h \notin ByHand
      /\ ~astray /\ ~op.c.standalone => \A h \in New \ Failed : NodeOk(op.c, h)
  BY Installed
<1>5. TypeOK'
  BY <1>1, <1>2, <1>3 DEF TypeOK, OpIs, bounds
<1>6. ReadyBeforeStart'
  BY <1>1 DEF IInv, ReadyBeforeStart
<1>7. StageInv'
  BY <1>1, <1>2 DEF IInv, StageInv, New, Args, ClusterOf, Busy, OpIs
<1>8. OpInv'
  BY <1>1, <1>2, <1>3, <1>4 DEF IInv, OpInv, New, OpIs
<1>9. CreateInv'
  BY <1>1, <1>2, <1>3 DEF IInv, OpInv, CreateInv, New, ByHand, OpIs
<1>10. JoinInv'
  BY <1>1, <1>2, <1>3 DEF IInv, JoinInv, New, Own, ByHand, Unsaved, NodeOk, InRole, OpIs
<1>11. DeleteInv' /\ StandaloneInv'
  BY <1>1, <1>2, <1>3 DEF IInv, CreateInv, DeleteInv, StandaloneInv, New, Servers, OpIs
<1>12. RowInv'
  <2> SUFFICES ASSUME ~astray, ~op.c.standalone
               PROVE  RowInv'
    BY <1>1, <1>3 DEF RowInv
  <2>1. Pending' = Failed /\ op'.errM = Failed /\ op'.pc # "rollback"
    BY <1>2 DEF Pending, OpIs
  <2>2. /\ op.c.masters \cap op.c.workers = {} /\ op.workers \subseteq op.c.workers
        /\ op.c.ip \in op.c.masters \ op.c.found
        /\ \A h \in Own(op.c) \ New : NodeOk(op.c, h) /\ h \notin ByHand
    <3>1. CASE op.kind = "create"
      BY <3>1 DEF IInv, OpInv, CreateInv, Own, NodesOf, New
    <3>2. CASE op.kind = "join"
      BY <3>2 DEF IInv, JoinInv
    <3> QED BY <1>1, <3>1, <3>2
  <2>3. \A h \in Own(op.c) \ Failed : NodeOk(op.c, h) /\ h \notin ByHand
    BY <1>1, <1>4, <2>2
  <2>4. \A h \in Own(row)' \ Failed : NodeOk(row, h)' /\ InRole(row, h)' /\ h \notin ByHand'
    <3> SUFFICES ASSUME NEW h \in Own(row)' \ Failed
                 PROVE  NodeOk(row, h)' /\ InRole(row, h)' /\ h \notin ByHand'
      OBVIOUS
    <3>1. h \in Own(op.c) \ Failed
      BY <1>3 DEF Own, NodesOf
    <3>2. NodeOk(row, h)'
      BY <1>1, <1>3, <2>3, <3>1 DEF NodeOk, IsNode
    <3>3. InRole(row, h)'
      BY <3>2 DEF NodeOk, InRole, IsNode
    <3> QED BY <1>1, <2>3, <3>1, <3>2, <3>3 DEF ByHand
  <2> QED BY <1>3, <1>4, <2>1, <2>2, <2>4 DEF RowInv
<1> QED BY <1>5, <1>6, <1>7, <1>8, <1>9, <1>10, <1>11, <1>12 DEF IInv

(* The kubeconfig cannot be had: the row stays as it is. *)
LEMMA SaveFails ==
  ASSUME IInv, op.pc = "workers", Busy = {}, ctx' \in BOOLEAN, Saved("defer", TRUE),
         UNCHANGED <<flags, hosts, row, kube, sync, bounds>>
  PROVE  IInv'
<1>1. TypeOK /\ UNCHANGED <<flags, k3s, gifts, stage, row, astray>>
      /\ (op.kind = "create" \/ op.kind = "join") /\ op.c.token \in Token
  BY DEF IInv, TypeOK, OpType, OpInv, hosts, bounds
<1>2. OpIs("defer", op.kind, op.c, op.masters, op.workers, Failed, TRUE, op.bad)
  BY <1>1, SavedOp DEF PC
<1>3. Failed \subseteq op.workers
  BY Installed
<1>4. TypeOK'
  BY <1>1, <1>2 DEF TypeOK, OpIs, bounds
<1>5. ReadyBeforeStart'
  BY <1>1 DEF IInv, ReadyBeforeStart
<1>6. StageInv'
  BY <1>1, <1>2 DEF IInv, StageInv, New, Args, ClusterOf, Busy, OpIs
<1>7. OpInv'
  BY <1>1, <1>2, <1>3 DEF IInv, OpInv, New, OpIs
<1>8. CreateInv'
  BY <1>1, <1>2 DEF IInv, CreateInv, New, ByHand, OpIs
<1>9. JoinInv'
  BY <1>1, <1>2 DEF IInv, JoinInv, New, Own, ByHand, Unsaved, NodeOk, InRole, OpIs
<1>10. DeleteInv' /\ StandaloneInv'
  BY <1>1, <1>2 DEF IInv, DeleteInv, StandaloneInv, New, Servers, OpIs
<1>11. RowInv'
  <2> SUFFICES ASSUME row # NoRow, ~astray, ~row.standalone
               PROVE  RowInv'
    BY <1>1 DEF RowInv
  <2>1. New \cap Own(row) = {} /\ Pending = {}
    BY <1>1 DEF IInv, CreateInv, JoinInv, StandaloneInv, Unsaved, Pending
  <2>2. Failed \cap (row.masters \ row.found) = {}
    BY <1>3, <2>1 DEF New, Own, NodesOf
  <2> QED BY <1>1, <1>2, <2>1, <2>2 DEF IInv, RowInv, Own, ByHand, Pending, NodeOk, InRole, OpIs
<1> QED BY <1>4, <1>5, <1>6, <1>7, <1>8, <1>9, <1>10, <1>11 DEF IInv

(* The row of a create becomes Running.                                    *)
LEMMA SaveCreatedStep ==
  ASSUME IInv, SaveCreated
  PROVE  IInv'
<1>1. op.pc = "workers" /\ Busy = {} /\ op.kind = "create" /\ ctx \in BOOLEAN
      /\ UNCHANGED <<flags, hosts, kube, sync, bounds>>
  BY DEF IInv, TypeOK, SaveCreated, WorkersDone, At
<1> QED BY <1>1, SaveStep, SaveFails DEF SaveCreated

(* The row of a join gets its nodes.                                       *)
LEMMA SaveJoinedStep ==
  ASSUME IInv, SaveJoined
  PROVE  IInv'
<1>1. op.pc = "workers" /\ Busy = {} /\ op.kind = "join" /\ ctx \in BOOLEAN
      /\ UNCHANGED <<flags, hosts, kube, sync, bounds>>
  BY DEF IInv, TypeOK, SaveJoined, WorkersDone, At
<1> QED BY <1>1, SaveStep, SaveFails DEF SaveJoined

(* The operation is over and nothing of the hosts or the row has changed   *)
(* that the row does not allow for. *)
LEMMA EndStep ==
  ASSUME IInv, op' = Idle, \A h \in Host : stage'[h] = "off", UNCHANGED <<flags, astray>>,
         TypeOK', ReadyBeforeStart',
         row' # NoRow /\ ~astray /\ row'.standalone => row'.ip \in Servers(k3s)',
         row' # NoRow /\ ~astray /\ ~row'.standalone =>
           /\ row'.status \in {"Running", "Upgrading"} => row'.token \in Token
           /\ row'.masters \cap row'.workers = {}
           /\ Own(row)' \cap ByHand' = {}
           /\ \A h \in Own(row)' : InRole(row, h)'
           /\ row'.status \in {"Running", "Upgrading"} =>
                row'.ip \in row'.masters \ row'.found /\ \A h \in Own(row)' : NodeOk(row, h)'
  PROVE  IInv'
<1>1. OpIs("idle", "none", EmptyRow, {}, {}, {}, FALSE, FALSE)
  BY IdleOp
<1>2. StageInv'
  BY <1>1 DEF StageInv, OpIs, Before
<1>3. OpInv' /\ CreateInv' /\ JoinInv' /\ DeleteInv'
  BY <1>1 DEF OpInv, CreateInv, JoinInv, DeleteInv, New, OpIs
<1>4. StandaloneInv'
  <2>1. Servers(k3s)' \subseteq Host
    BY DEF Servers
  <2> QED BY <1>1, <2>1 DEF StandaloneInv, New, OpIs
<1>5. RowInv'
  BY <1>1 DEF RowInv, Pending, OpIs
<1> QED BY <1>2, <1>3, <1>4, <1>5 DEF IInv

(* The workers that failed leave the row. *)
LEMMA Dropped ==
  ASSUME IInv, op.pc = "defer",
         NEW st, row' = [row EXCEPT !.status = st, !.workers = @ \ op.errM,
                                    !.found = @ \ (op.errM \cap (row.workers \ row.masters))],
         st = IF op.kind = "join" THEN "Running" ELSE IF op.er THEN "Failed" ELSE row.status,
         UNCHANGED <<flags, k3s, astray>>
  PROVE  /\ row \in RowType /\ row' \in RowType /\ row' # NoRow /\ row # NoRow
         /\ row'.standalone = row.standalone /\ row'.ip = row.ip /\ row'.status = st
         /\ ~astray /\ ~row.standalone =>
              /\ st \in {"Running", "Upgrading"} => row'.token \in Token
              /\ row'.masters \cap row'.workers = {} /\ row'.masters \ row'.found = row.masters \ row.found
              /\ op.errM \cap (row'.masters \ row'.found) = {}
              /\ Own(row)' \subseteq Own(row) \ op.errM
              /\ Own(row)' \cap ByHand' = {} /\ \A h \in Own(row)' : InRole(row, h)'
              /\ st \in {"Running", "Upgrading"} =>
                   row'.ip \in row'.masters \ row'.found /\ \A h \in Own(row)' : NodeOk(row, h)'
<1>1. row # NoRow /\ row \in RowType /\ op.kind \in {"create", "join"} /\ op.errM \subseteq Host
      /\ Pending = op.errM
  BY DEF IInv, TypeOK, OpType, OpInv, Pending
<1>2. ~astray /\ op.kind = "join" => row.status \in {"Running", "Upgrading"}
  BY DEF IInv, JoinInv
<1> DEFINE ws == row.workers \ op.errM
           fs == row.found \ (op.errM \cap (row.workers \ row.masters))
<1>3. row' = [row EXCEPT !.status = st, !.workers = ws, !.found = fs]
  BY <1>1 DEF RowType
<1>4. /\ st \in {"Creating", "Running", "Failed", "Upgrading", "Removing"} /\ ws \in SUBSET Host
      /\ fs \in SUBSET Host
      /\ ~astray /\ st \in {"Running", "Upgrading"} => row.status \in {"Running", "Upgrading"}
  BY <1>1, <1>2 DEF RowType
<1> HIDE DEF ws, fs
<1>5. /\ row' \in RowType /\ row'.standalone = row.standalone /\ row'.ip = row.ip
      /\ row'.status = st /\ row'.token = row.token /\ row'.masters = row.masters
      /\ row'.workers = ws /\ row'.found = fs
  BY ONLY <1>1, <1>3, <1>4 DEF RowType
<1>6. row' # NoRow
  BY <1>5, NoRowAssumption
<1>7. ~astray /\ ~row.standalone /\ st \in {"Running", "Upgrading"} => row'.token \in Token
  BY ONLY IInv, <1>1, <1>4, <1>5 DEF IInv, StandaloneInv
<1>8. ASSUME ~astray, ~row.standalone
      PROVE  /\ row'.masters \cap row'.workers = {}
             /\ row'.masters \ row'.found = row.masters \ row.found
             /\ op.errM \cap (row'.masters \ row'.found) = {}
             /\ Own(row)' \subseteq Own(row) \ op.errM
             /\ Own(row)' \cap ByHand' = {} /\ \A h \in Own(row)' : InRole(row, h)'
             /\ st \in {"Running", "Upgrading"} =>
                  row'.ip \in row'.masters \ row'.found /\ \A h \in Own(row)' : NodeOk(row, h)'
  <2>1. /\ row.masters \cap row.workers = {} /\ op.errM \cap (row.masters \ row.found) = {}
        /\ (Own(row) \ op.errM) \cap ByHand = {} /\ \A h \in Own(row) \ op.errM : InRole(row, h)
        /\ row.status \in {"Running", "Upgrading"} =>
             row.ip \in row.masters \ row.found /\ \A h \in Own(row) \ op.errM : NodeOk(row, h)
    BY <1>1, <1>8 DEF IInv, RowInv
  <2>2. /\ row'.masters \cap row'.workers = {}
        /\ row'.masters \ row'.found = row.masters \ row.found
        /\ Own(row)' \subseteq Own(row) \ op.errM
    BY <1>5, <2>1 DEF Own, NodesOf, ws, fs
  <2>3. Own(row)' \cap ByHand' = {}
    BY <2>1, <2>2 DEF ByHand
  <2>4. st \in {"Running", "Upgrading"} => \A h \in Own(row)' : NodeOk(row, h)'
    BY ONLY <1>4, <1>5, <1>8, <2>1, <2>2, UNCHANGED <<flags, k3s>> DEF NodeOk, IsNode, ws
  <2>5. \A h \in Own(row)' : InRole(row, h)'
    BY <1>5, <2>1, <2>2 DEF InRole
  <2> QED BY ONLY <1>4, <1>5, <1>8, <2>1, <2>2, <2>3, <2>4, <2>5
<1> QED BY ONLY <1>1, <1>5, <1>6, <1>7, <1>8

(* The deferred functions of InitCluster and JoinNodes.                    *)
LEMMA DeferredStep ==
  ASSUME IInv, Deferred
  PROVE  IInv'
<1> DEFINE st == IF op.kind = "join" THEN "Running" ELSE IF op.er THEN "Failed" ELSE row.status
<1>1. /\ op.pc = "defer" /\ UNCHANGED <<flags, k3s, gifts, ctx, kube, sync, bounds>> /\ TypeOK
      /\ op.kind \in {"create", "join"} /\ row # NoRow /\ row \in RowType /\ astray' = astray
      /\ op.errM \subseteq op.workers
  BY DEF IInv, TypeOK, OpType, OpInv, Deferred, At, bounds
<1>2. ASSUME row' \in RowType, End
      PROVE  /\ op' = Idle /\ TypeOK' /\ \A h \in Host : stage'[h] = "off"
  BY <1>1, <1>2, IdleType DEF TypeOK, End, bounds, StageType
<1>3. ReadyBeforeStart'
  BY <1>1 DEF IInv, ReadyBeforeStart
<1>4. ~astray /\ row.standalone => row.ip \in Servers(k3s)' /\ row.ip \notin New
  BY <1>1 DEF IInv, StandaloneInv, Servers
<1>5. ASSUME ~op.er, op.errM = {}, End, row' = row PROVE IInv'
  <2>1. Pending = {} /\ Own(row)' = Own(row) /\ ByHand' = ByHand
    BY <1>1, <1>5 DEF Pending, Own, ByHand
  <2>2. \A h \in Host : /\ NodeOk(row, h) => NodeOk(row, h)'
                        /\ InRole(row, h) => InRole(row, h)'
    BY <1>1, <1>5 DEF NodeOk, InRole
  <2>3. Own(row) \subseteq Host
    BY <1>1 DEF Own, NodesOf, RowType
  <2>4. ~astray /\ ~row.standalone =>
             /\ row.status \in {"Running", "Upgrading"} => row.token \in Token
             /\ row.masters \cap row.workers = {}
             /\ Own(row) \cap ByHand = {} /\ \A h \in Own(row) : InRole(row, h)
             /\ row.status \in {"Running", "Upgrading"} =>
                  row.ip \in row.masters \ row.found /\ \A h \in Own(row) : NodeOk(row, h)
    BY <1>1, <2>1 DEF IInv, StandaloneInv, RowInv
  <2> QED BY <1>1, <1>2, <1>3, <1>4, <1>5, <2>1, <2>2, <2>3, <2>4, EndStep
<1>6. ASSUME row' = [row EXCEPT !.status = st, !.workers = @ \ op.errM,
                                !.found = @ \ (op.errM \cap (row.workers \ row.masters))],
             op.er \/ op.errM # {}
      PROVE  (End => IInv') /\ (Goto("rollback") /\ UNCHANGED stage => IInv')
  <2> HIDE DEF st
  <2>1. /\ row \in RowType /\ row' \in RowType /\ row' # NoRow /\ row # NoRow
        /\ row'.standalone = row.standalone /\ row'.ip = row.ip /\ row'.status = st
        /\ ~astray /\ ~row.standalone =>
              /\ st \in {"Running", "Upgrading"} => row'.token \in Token
              /\ row'.masters \cap row'.workers = {} /\ row'.masters \ row'.found = row.masters \ row.found
              /\ op.errM \cap (row'.masters \ row'.found) = {}
              /\ Own(row)' \subseteq Own(row) \ op.errM
              /\ Own(row)' \cap ByHand' = {} /\ \A h \in Own(row)' : InRole(row, h)'
              /\ st \in {"Running", "Upgrading"} =>
                   row'.ip \in row'.masters \ row'.found /\ \A h \in Own(row)' : NodeOk(row, h)'
    BY <1>1, <1>6, Dropped DEF st
  <2>2. End => IInv'
    BY <1>1, <1>2, <1>3, <1>4, <2>1, EndStep
  <2>3. ASSUME Goto("rollback"), UNCHANGED stage PROVE IInv'
    <3>1. Continues("rollback", op.er)
      BY <1>1, <2>3, GotoOp DEF PC
    <3>2. TypeOK'
      BY <1>1, <2>1, <2>3, <3>1 DEF TypeOK, bounds, Continues, OpIs
    <3>3. StageInv'
      BY <1>1, <2>3, <3>1 DEF IInv, StageInv, New, Args, ClusterOf, Busy, Continues, OpIs
    <3>4. OpInv'
      BY <1>1, <1>6, <2>1, <3>1 DEF IInv, OpInv, New, Continues, OpIs
    <3>5. CreateInv'
      BY <1>1, <2>1, <3>1 DEF IInv, CreateInv, New, ByHand, Continues, OpIs, st
    <3>6. JoinInv'
      <4>1. op.kind = "join" => st = "Running"
        BY DEF st
      <4>2. ~astray /\ ~op.c.standalone /\ op.kind = "join" /\ op.er => New \cap Own(row)' = {}
        BY <1>1, <2>1 DEF IInv, JoinInv, StandaloneInv, Unsaved
      <4>3. \A h \in Host : NodeOk(op.c, h) /\ h \notin ByHand => NodeOk(op.c, h)' /\ h \notin ByHand'
        BY <1>1, <3>1 DEF NodeOk, InRole, ByHand, Continues, OpIs
      <4>4. Own(op.c) \subseteq Host /\ Own(op.c)' = Own(op.c) /\ New' = New
        BY <1>1, <3>1 DEF TypeOK, OpType, RowType, Own, NodesOf, New, Continues, OpIs
      <4> QED BY <1>1, <2>1, <3>1, <4>1, <4>2, <4>3, <4>4 DEF IInv, JoinInv, Unsaved, Continues, OpIs
    <3>7. DeleteInv' /\ StandaloneInv'
      BY <1>1, <1>4, <2>1, <3>1 DEF IInv, DeleteInv, StandaloneInv, New, Continues, OpIs
    <3>8. RowInv'
      BY <1>1, <2>1, <3>1 DEF RowInv, Pending, Continues, OpIs
    <3> QED BY <1>3, <3>2, <3>3, <3>4, <3>5, <3>6, <3>7, <3>8 DEF IInv
  <2> QED BY <2>2, <2>3
<1> QED BY <1>5, <1>6 DEF Deferred

(***************************************************************************)
(* Rollback and delete.                                                    *)
(***************************************************************************)

(* An uninstall touches no other host, and a K3s of the other kind stays. *)
LEMMA UninstallType ==
  ASSUME TypeOK, ReadyBeforeStart, flags' = flags, NEW M, NEW W, Uninstall(M, W)
  PROVE  /\ k3s' \in [Host -> K3sType \cup {NoK3s}] /\ gifts' \in [Host -> SUBSET Gift]
         /\ \A h \in Host : k3s'[h] = NoK3s \/ (k3s'[h] = k3s[h] /\ gifts'[h] = gifts[h])
         /\ \A h \in Host : h \notin M \cup W => k3s'[h] = k3s[h]
         /\ \A h \in Host : k3s[h] # NoK3s /\ h \in (IF k3s[h].server THEN M ELSE W) => k3s'[h] = NoK3s
         /\ ReadyBeforeStart'
         /\ \A h \in Host : h \in ByHand' => h \in ByHand
<1>1. /\ k3s' \in [Host -> K3sType \cup {NoK3s}] /\ gifts' \in [Host -> SUBSET Gift]
      /\ \A h \in Host : k3s'[h] = NoK3s \/ (k3s'[h] = k3s[h] /\ gifts'[h] = gifts[h])
      /\ \A h \in Host : h \notin M \cup W => k3s'[h] = k3s[h]
      /\ \A h \in Host : k3s[h] # NoK3s /\ h \in (IF k3s[h].server THEN M ELSE W) => k3s'[h] = NoK3s
  BY DEF TypeOK, Uninstall
<1> QED BY <1>1 DEF ReadyBeforeStart, ByHand

(* rollbackInstance uninstalls the hosts of the operation.                 *)
LEMMA RollbackStep ==
  ASSUME IInv, RollbackInstance
  PROVE  IInv'
<1> DEFINE ids == IF op.errM # {} THEN op.errM ELSE op.masters \cup op.workers
<1>1. /\ op.pc = "rollback" /\ UNCHANGED <<flags, row, sync, bounds>> /\ End /\ TypeOK /\ ReadyBeforeStart
      /\ op.kind \in {"create", "join"} /\ row # NoRow /\ row \in RowType /\ astray' = astray
      /\ ids \subseteq New /\ New \subseteq Host
  BY DEF IInv, TypeOK, OpType, OpInv, RollbackInstance, At, New, bounds
<1>2. PICK gone \in SUBSET ids, left \in SUBSET (IF ctx THEN ids ELSE {}) :
        /\ Uninstall(gone \cap op.masters, gone \cap op.workers)
        /\ kube' = IF Serving(k3s') = {} THEN {} ELSE kube \ left
  BY DEF RollbackInstance
<1>3. /\ k3s' \in [Host -> K3sType \cup {NoK3s}] /\ gifts' \in [Host -> SUBSET Gift]
      /\ \A h \in Host : k3s'[h] = NoK3s \/ k3s'[h] = k3s[h]
      /\ \A h \in Host \ gone : k3s'[h] = k3s[h]
      /\ ReadyBeforeStart' /\ \A h \in Host : h \in ByHand' => h \in ByHand
  BY <1>1, <1>2, UninstallType
<1>4. op' = Idle /\ \A h \in Host : stage'[h] = "off"
  BY <1>1 DEF End
<1>5. TypeOK'
  <2>1. kube' \subseteq Host
    BY <1>1, <1>2 DEF TypeOK
  <2>2. ctx' \in BOOLEAN
    BY DEF RollbackInstance
  <2>3. stage' \in [Host -> StageType]
    BY <1>1 DEF End, StageType
  <2> QED BY <1>1, <1>3, <1>4, <2>1, <2>2, <2>3, IdleType DEF TypeOK, bounds
<1>6. ~astray /\ row.standalone => row.ip \in Servers(k3s)'
  BY <1>1, <1>2, <1>3 DEF IInv, StandaloneInv, Servers
<1>7. ~astray /\ ~row.standalone /\ row.status \in {"Running", "Upgrading"} => row.token \in Token
  BY <1>1 DEF IInv, StandaloneInv
<1>8. ASSUME ~astray, ~row.standalone
      PROVE  /\ row.masters \cap row.workers = {}
             /\ Own(row)' \cap ByHand' = {} /\ \A h \in Own(row)' : InRole(row, h)'
             /\ row.status \in {"Running", "Upgrading"} =>
                  row.ip \in row.masters \ row.found /\ \A h \in Own(row)' : NodeOk(row, h)'
  <2>1. Pending = {} /\ Own(row)' = Own(row) /\ Own(row) \subseteq Host
    BY <1>1 DEF Pending, Own, NodesOf, RowType
  <2>2. /\ row.masters \cap row.workers = {} /\ Own(row) \cap ByHand = {}
        /\ \A h \in Own(row) : InRole(row, h)
        /\ row.status \in {"Running", "Upgrading"} =>
             row.ip \in row.masters \ row.found /\ \A h \in Own(row) : NodeOk(row, h)
    BY <1>1, <1>8, <2>1 DEF IInv, RowInv
  <2>3. row.status \in {"Running", "Upgrading"} => ids \cap Own(row) = {}
    <3>1. CASE ~op.er
      BY <1>1, <1>8, <3>1 DEF IInv, OpInv, RowInv
    <3>2. CASE op.er /\ op.kind = "create"
      BY <1>1, <1>8, <3>2 DEF IInv, CreateInv
    <3>3. CASE op.er /\ op.kind = "join"
      BY <1>1, <1>8, <3>3 DEF IInv, JoinInv, StandaloneInv, Unsaved
    <3> QED BY <1>1, <3>1, <3>2, <3>3
  <2>4. row.status \in {"Running", "Upgrading"} => \A h \in Own(row) : k3s'[h] = k3s[h]
    BY <1>2, <1>3, <2>1, <2>3
  <2>5. \A h \in Own(row) : InRole(row, h)'
    BY <1>1, <1>3, <2>1, <2>2 DEF InRole
  <2> QED BY <1>1, <1>3, <2>1, <2>2, <2>4, <2>5 DEF NodeOk
<1> QED BY <1>1, <1>3, <1>4, <1>5, <1>6, <1>7, <1>8, EndStep

(* The end of a delete.                                                    *)
LEMMA DeleteRowStep ==
  ASSUME IInv, DeleteRow
  PROVE  IInv'
<1>1. op.pc = "row" /\ row' = NoRow /\ op' = Idle /\ UNCHANGED <<flags, k3s, gifts, stage, astray>> /\ TypeOK
  BY DEF IInv, DeleteRow, At, hosts, bounds
<1>2. TypeOK' /\ \A h \in Host : stage'[h] = "off"
  BY <1>1, IdleType DEF IInv, TypeOK, StageInv, DeleteRow, bounds
<1>3. ReadyBeforeStart'
  BY <1>1 DEF IInv, ReadyBeforeStart
<1> QED BY <1>1, <1>2, <1>3, EndStep

(* Every node that can be reached loses K3s, as far as that works. *)
LEMMA UninstallStep ==
  ASSUME IInv, UninstallCluster
  PROVE  IInv'
<1>1. /\ op.pc = "uninstall" /\ UNCHANGED <<flags, stage, row, ctx, sync, bounds>> /\ TypeOK
      /\ ReadyBeforeStart /\ op.kind = "delete" /\ row # NoRow /\ row \in RowType /\ astray' = astray
      /\ (\A h \in Host : stage[h] = "off") /\ New = {} /\ op.errM = {} /\ ~op.er /\ Pending = {}
  BY DEF IInv, TypeOK, OpType, OpInv, StageInv, UninstallCluster, At, bounds, Pending
<1>2. ~astray =>
        /\ row.status = "Removing" /\ op.c.standalone = row.standalone /\ op.c.ip = row.ip
        /\ Own(op.c) = Own(row) /\ \A h \in Own(row) : h \in op.c.masters <=> h \in row.masters
        /\ ~op.c.standalone => op.c.masters \cap op.c.workers = {}
        /\ ~op.c.standalone => Own(op.c) = Reachable(op.c)
  BY <1>1 DEF IInv, DeleteInv, StandaloneInv, Own, Reachable
<1>3. ASSUME NEW b \in BOOLEAN,
             OpIs("row", op.kind, op.c, op.masters, op.workers, op.errM, op.er, b),
             k3s' \in [Host -> K3sType \cup {NoK3s}], gifts' \in [Host -> SUBSET Gift],
             kube' \subseteq Host, ReadyBeforeStart',
             \A h \in Host : h \in ByHand' => h \in ByHand,
             \A h \in Host : k3s'[h] = NoK3s \/ k3s'[h] = k3s[h],
             op.c.standalone => k3s' = k3s,
             ~astray /\ ~op.c.standalone /\ ~b => \A h \in Own(op.c) : k3s'[h] = NoK3s
      PROVE  IInv'
  <2>1. TypeOK'
    BY <1>1, <1>3 DEF TypeOK, OpIs, bounds
  <2>2. StageInv'
    BY <1>1, <1>3 DEF StageInv, Before, OpIs
  <2>3. OpInv' /\ CreateInv' /\ JoinInv'
    BY <1>1, <1>3 DEF IInv, OpInv, CreateInv, JoinInv, New, OpIs
  <2>4. DeleteInv'
    BY <1>1, <1>2, <1>3 DEF DeleteInv, Own, OpIs
  <2>5. StandaloneInv'
    BY <1>1, <1>2, <1>3 DEF IInv, StandaloneInv, New, Servers, OpIs
  <2>6. RowInv'
    <3> SUFFICES ASSUME ~astray, ~row.standalone
                 PROVE  RowInv'
      BY <1>1 DEF RowInv
    <3>1. Own(row) \subseteq Host /\ Own(row)' = Own(row) /\ Pending' = {}
      BY <1>1, <1>3 DEF RowType, Own, NodesOf, Pending, OpIs
    <3>2. /\ row.masters \cap row.workers = {} /\ Own(row) \cap ByHand = {}
          /\ \A h \in Own(row) : InRole(row, h)
      BY <1>1 DEF IInv, RowInv
    <3>3. \A h \in Own(row) : InRole(row, h)'
      BY <1>1, <1>3, <3>1, <3>2 DEF InRole
    <3> QED BY <1>1, <1>2, <1>3, <3>1, <3>2, <3>3 DEF RowInv, OpIs
  <2> QED BY <1>3, <2>1, <2>2, <2>3, <2>4, <2>5, <2>6 DEF IInv
<1>4. CASE op.c.standalone /\ UNCHANGED <<k3s, gifts, kube>> /\ Goto("row")
  <2>1. Continues("row", op.er) /\ op.bad \in BOOLEAN
    BY <1>1, <1>4, GotoOp DEF PC, TypeOK, OpType
  <2>2. /\ k3s' \in [Host -> K3sType \cup {NoK3s}] /\ gifts' \in [Host -> SUBSET Gift] /\ kube' \subseteq Host
        /\ ReadyBeforeStart' /\ ByHand' = ByHand /\ k3s' = k3s
    BY <1>1, <1>4 DEF TypeOK, ReadyBeforeStart, ByHand
  <2> QED BY <1>3, <1>4, <2>1, <2>2 DEF Continues
<1>5. ASSUME ~op.c.standalone, NEW gone \in SUBSET Reachable(op.c),
             Uninstall(gone \cap op.c.masters, gone \cap op.c.workers),
             kube' = IF Serving(k3s') = {} THEN {} ELSE kube,
             op' = [op EXCEPT !.pc = "row", !.bad = (gone # Reachable(op.c))]
      PROVE  IInv'
  <2> DEFINE b == gone # Reachable(op.c)
  <2>1. OpIs("row", op.kind, op.c, op.masters, op.workers, op.errM, op.er, b)
    BY <1>1, <1>5 DEF TypeOK, OpType, OpIs
  <2>2. /\ k3s' \in [Host -> K3sType \cup {NoK3s}] /\ gifts' \in [Host -> SUBSET Gift]
        /\ \A h \in Host : k3s'[h] = NoK3s \/ k3s'[h] = k3s[h]
        /\ \A h \in Host : k3s[h] # NoK3s /\ h \in (IF k3s[h].server THEN gone \cap op.c.masters
                                                   ELSE gone \cap op.c.workers) => k3s'[h] = NoK3s
        /\ ReadyBeforeStart' /\ \A h \in Host : h \in ByHand' => h \in ByHand
    BY <1>1, <1>5, UninstallType
  <2>3. kube' \subseteq Host /\ Own(op.c) \subseteq Host /\ Own(op.c) \subseteq op.c.masters \cup op.c.workers
    BY <1>1, <1>5 DEF TypeOK, OpType, RowType, Own, NodesOf
  <2>4. ASSUME ~astray, ~b, NEW h \in Own(op.c) PROVE k3s'[h] = NoK3s
    <3>1. InRole(row, h) /\ h \in gone /\ (h \in op.c.masters <=> h \in row.masters)
      BY <1>1, <1>2, <1>5, <2>4 DEF IInv, RowInv
    <3> QED BY <2>2, <2>3, <2>4, <3>1 DEF InRole
  <2>5. b \in BOOLEAN
    OBVIOUS
  <2> HIDE DEF b
  <2> QED BY <1>3, <1>5, <2>1, <2>2, <2>3, <2>4, <2>5
<1> QED BY <1>4, <1>5 DEF UninstallCluster

(***************************************************************************)
(* syncInstanceNodes, and nodes that are joined by hand.                   *)
(***************************************************************************)

(* What syncInstanceNodes starts from has its types. *)
LEMMA SyncIdleType == SyncIdle \in [pc : {"off", "list", "save"}, row : RowType, lists : ListsType]
  BY IdleType DEF SyncIdle, ListsType

(* syncInstanceNodes writes the lists back, over newer ones or not.        *)
LEMMA SyncWriteStep ==
  ASSUME IInv, SyncInv, SyncWrite
  PROVE  IInv'
<1>1. /\ sync.pc = "save" /\ UNCHANGED <<flags, hosts, ctx, kube, op, count>> /\ TypeOK /\ sync' = SyncIdle
      /\ UNCHANGED <<k3s, gifts, stage>> /\ sync.row \in RowType /\ sync.lists \in ListsType
  BY DEF IInv, TypeOK, SyncWrite, hosts
<1>2. CASE row = NoRow /\ UNCHANGED <<row, astray>>
  <2>1. TypeOK'
    BY <1>1, <1>2, SyncIdleType DEF TypeOK
  <2> QED BY <1>1, <1>2, <2>1, OutsideStep
<1>3. CASE /\ row # NoRow
           /\ row' = [sync.row EXCEPT !.masters = sync.lists.masters, !.workers = sync.lists.workers,
                                      !.found = sync.lists.found]
           /\ astray' = (astray \/ row # sync.row)
  <2> DEFINE q == sync.row
             l == sync.lists
  <2>0. q \in RowType /\ l \in ListsType
        /\ row' = [q EXCEPT !.masters = l.masters, !.workers = l.workers, !.found = l.found]
    BY <1>1, <1>3
  <2> HIDE DEF q, l
  <2>3. /\ row' \in RowType /\ row' # NoRow
        /\ row'.standalone = q.standalone /\ row'.ip = q.ip /\ row'.token = q.token
        /\ row'.status = q.status
        /\ Grown(q, l) =>
             /\ Own(row') = Own(q) /\ row'.masters \ row'.found = q.masters \ q.found
             /\ q.masters \cap q.workers = {} => row'.masters \cap row'.workers = {}
             /\ \A h \in Own(q) : /\ h \in row'.masters <=> h \in q.masters
                                  /\ h \in row'.workers <=> h \in q.workers
    <3>1. /\ row' \in RowType /\ row'.standalone = q.standalone /\ row'.ip = q.ip
          /\ row'.token = q.token /\ row'.status = q.status /\ row'.masters = l.masters
          /\ row'.workers = l.workers /\ row'.found = l.found
      BY ONLY <2>0 DEF RowType, ListsType
    <3>2. row' # NoRow
      BY ONLY <3>1, NoRowAssumption
    <3>3. ASSUME Grown(q, l)
          PROVE  /\ Own(row') = Own(q) /\ row'.masters \ row'.found = q.masters \ q.found
                 /\ q.masters \cap q.workers = {} => row'.masters \cap row'.workers = {}
                 /\ \A h \in Own(q) : /\ h \in row'.masters <=> h \in q.masters
                                      /\ h \in row'.workers <=> h \in q.workers
      BY ONLY <3>1, <3>3 DEF Grown, Own, NodesOf
    <3> QED BY ONLY <3>1, <3>2, <3>3
  <2>4. astray' \in BOOLEAN /\ (~astray' => ~astray /\ row = q)
    BY ONLY <1>1, <1>3 DEF TypeOK, q
  <2>1. /\ row' \in RowType /\ row' # NoRow
        /\ astray' \in BOOLEAN /\ (~astray' => ~astray /\ row = q /\ Grown(q, l))
    BY <1>1, <2>3, <2>4 DEF SyncInv, q, l
  <2>2. ~astray' =>
        /\ row \in RowType /\ ~astray
        /\ row'.standalone = row.standalone /\ row'.ip = row.ip /\ row'.token = row.token
        /\ row'.status = row.status
        /\ Own(row)' = Own(row) /\ row'.masters \ row'.found = row.masters \ row.found
        /\ row.masters \cap row.workers = {} => row'.masters \cap row'.workers = {}
        /\ \A h \in Own(row) : /\ h \in row'.masters <=> h \in row.masters
                               /\ h \in row'.workers <=> h \in row.workers
    <3> SUFFICES ASSUME ~astray'
                 PROVE  /\ row \in RowType /\ ~astray
                        /\ row'.standalone = row.standalone /\ row'.ip = row.ip
                        /\ row'.token = row.token /\ row'.status = row.status
                        /\ Own(row') = Own(row) /\ row'.masters \ row'.found = row.masters \ row.found
                        /\ row.masters \cap row.workers = {} => row'.masters \cap row'.workers = {}
                        /\ \A h \in Own(row) : /\ h \in row'.masters <=> h \in row.masters
                                               /\ h \in row'.workers <=> h \in row.workers
      OBVIOUS
    <3> QED BY ONLY <2>0, <2>1, <2>3, ~astray'
  <2>5. TypeOK'
    BY <1>1, <2>1, SyncIdleType DEF TypeOK
  <2>6. ReadyBeforeStart'
    BY <1>1 DEF IInv, ReadyBeforeStart
  <2>7. StageInv'
    BY <1>1 DEF IInv, StageInv, New, Args, ClusterOf, Busy
  <2>8. OpInv'
    BY <1>1, <2>1 DEF IInv, OpInv, New
  <2>9. CreateInv'
    BY <1>1, <2>2 DEF IInv, CreateInv, New, ByHand
  <2>10. JoinInv'
    <3>1. Own(op.c)' = Own(op.c) /\ New' = New /\ ByHand' = ByHand /\ (Unsaved' <=> Unsaved)
      BY <1>1 DEF Own, New, ByHand, Unsaved
    <3>2. \A h : NodeOk(op.c, h) => NodeOk(op.c, h)'
      BY <1>1 DEF NodeOk
    <3> QED BY <1>1, <2>2, <3>1, <3>2 DEF IInv, JoinInv
  <2>11. DeleteInv'
    <3>1. Own(op.c)' = Own(op.c)
      BY <1>1 DEF Own
    <3> QED BY <1>1, <2>2, <3>1 DEF IInv, DeleteInv
  <2>12. StandaloneInv'
    BY <1>1, <1>3, <2>2 DEF IInv, StandaloneInv, New, Servers
  <2>13. RowInv'
    <3> SUFFICES ASSUME ~astray', ~row'.standalone
                 PROVE  RowInv'
      BY DEF RowInv
    <3>1. ByHand' = ByHand /\ Pending' = Pending
      BY <1>1 DEF ByHand, Pending
    <3>2. \A h \in Own(row) : /\ NodeOk(row, h) => NodeOk(row, h)'
                              /\ InRole(row, h) => InRole(row, h)'
      BY <1>1, <2>2 DEF NodeOk, InRole, IsNode
    <3> QED BY <1>1, <1>3, <2>2, <3>1, <3>2 DEF IInv, RowInv
  <2> QED BY <2>5, <2>6, <2>7, <2>8, <2>9, <2>10, <2>11, <2>12, <2>13 DEF IInv
<1> QED BY <1>2, <1>3 DEF SyncWrite

(* The API server lists its nodes: what is added to the row that was read  *)
(* is new to it, unless the row is another one by now. *)
LEMMA SyncListStep ==
  ASSUME IInv, SyncList
  PROVE  IInv' /\ SyncInv'
<1> DEFINE seen == sync.lists
           new == kube \ NodesOf(seen)
           lists == [masters |-> seen.masters \cup (new \cap Servers(k3s)),
                     workers |-> seen.workers \cup (new \ Servers(k3s)),
                     found |-> seen.found \cup new]
<1>1. /\ TypeOK /\ UNCHANGED <<flags, hosts, row, ctx, kube, op, count>> /\ row \in RowType
      /\ sync' = [pc |-> "save", row |-> row, lists |-> lists] /\ lists \in ListsType
      /\ astray' = (astray \/ ListsOf(row) # seen)
  BY DEF IInv, TypeOK, SyncList, ListsType
<1>2. TypeOK'
  <2>1. sync' \in [pc : {"off", "list", "save"}, row : RowType, lists : ListsType]
    BY <1>1
  <2> QED BY <1>1, <2>1 DEF TypeOK, hosts
<1>3. IInv'
  <2>1. CASE astray' = astray
    BY <1>1, <1>2, <2>1, OutsideStep
  <2>2. CASE astray'
    BY <1>1, <1>2, <2>2
       DEF hosts, IInv, ReadyBeforeStart, StageInv, OpInv, CreateInv, JoinInv, DeleteInv, StandaloneInv,
           RowInv, New, Args, ClusterOf, Busy
  <2> QED BY <1>1, <2>1, <2>2 DEF TypeOK
<1>4. SyncInv'
  <2> SUFFICES ASSUME ~astray'
               PROVE  Grown(row, lists)
    BY <1>1 DEF SyncInv, Grown, NodesOf
  <2>2. seen = ListsOf(row)
    BY ONLY <1>1, ~astray'
  <2>1. seen.masters = row.masters /\ seen.workers = row.workers /\ seen.found = row.found
    BY ONLY <2>2 DEF ListsOf
  <2> QED BY <2>1 DEF Grown, NodesOf
<1> QED BY <1>3, <1>4

(* Whatever else happens, the sync has what it had. *)
LEMMA SyncKept ==
  ASSUME IInv, SyncInv, [Next]_vars
  PROVE  SyncInv'
<1>1. CASE SyncList
  BY <1>1, SyncListStep
<1>2. CASE SyncRead
  BY <1>2 DEF SyncRead, SyncIdle, SyncInv
<1>3. CASE SyncNothing
  BY <1>3 DEF SyncNothing, SyncIdle, SyncInv
<1>4. CASE SyncWrite
  BY <1>4 DEF SyncWrite, SyncIdle, SyncInv
<1>5. ASSUME sync' = sync, ~astray' => ~astray
      PROVE  SyncInv'
  BY <1>5 DEF SyncInv, Grown, NodesOf
<1>6. CASE CreateRequest
  BY <1>5, <1>6 DEF CreateRequest, Start
<1>7. CASE JoinRequest
  BY <1>5, <1>7 DEF JoinRequest, Start
<1>8. CASE DeleteRequest
  BY <1>5, <1>8 DEF DeleteRequest, Start
<1>9. CASE PreparePackage \/ InitFirstControl \/ InitFirstWorker \/ GetToken \/ InitControlNode
           \/ InitFailed \/ SaveCreated \/ SaveJoined \/ Plugins \/ Deferred \/ RollbackInstance
           \/ UninstallCluster \/ DeleteRow \/ UNCHANGED vars
  <2>1. UNCHANGED <<sync, astray>>
    BY <1>9 DEF bounds, vars, PreparePackage, InitFirstControl, InitFirstWorker, GetToken,
                InitControlNode, InitFailed, SaveCreated, SaveJoined, Plugins, Deferred,
                RollbackInstance, UninstallCluster, DeleteRow
  <2> QED BY <1>5, <2>1
<1>10. ASSUME NEW h \in Host, InitNode(h) \/ Register(h) \/ JoinByHand(h)
       PROVE  SyncInv'
  <2>1. UNCHANGED <<sync, astray>>
    BY <1>10 DEF bounds, InitNode, Register, JoinByHand
  <2> QED BY <1>5, <2>1
<1> QED BY <1>1, <1>2, <1>3, <1>4, <1>6, <1>7, <1>8, <1>9, <1>10 DEF Next

(* A worker that is joined by hand is on a host that nobody uses. *)
LEMMA JoinByHandStep ==
  ASSUME IInv, NEW h \in Host, JoinByHand(h)
  PROVE  IInv'
<1> DEFINE k == [token |-> row.token, server |-> FALSE, init |-> FALSE, url |-> row.ip,
                 datastore |-> FALSE, sans |-> {}, hand |-> TRUE]
<1>1. /\ UNCHANGED <<flags, gifts, stage, row, ctx, op, sync, astray>> /\ TypeOK
      /\ row # NoRow /\ row \in RowType /\ row.status = "Running" /\ row.token # NoToken
      /\ k3s[h] = NoK3s /\ h \notin NodesOf(row) /\ h \notin New
      /\ k3s' = [k3s EXCEPT ![h] = k] /\ kube' = kube \cup {h}
  BY DEF IInv, TypeOK, JoinByHand, New
<1>2. k \in K3sType
  BY <1>1 DEF K3sType, RowType
<1>3. k3s' \in [Host -> K3sType \cup {NoK3s}] /\ k3s'[h].hand /\ \A g \in Host : g # h => k3s'[g] = k3s[g]
  BY <1>1, <1>2 DEF TypeOK
<1>4. TypeOK'
  <2>1. count' \in [ops : 0..MaxOps, syncs : 0..MaxSync, hands : 0..MaxHand]
    <3>1. count \in [ops : 0..MaxOps, syncs : 0..MaxSync, hands : 0..MaxHand]
          /\ count.hands < MaxHand /\ count' = [count EXCEPT !.hands = count.hands + 1]
      BY <1>1 DEF TypeOK, JoinByHand
    <3>2. count.hands + 1 \in 0..MaxHand
      BY <3>1, NativeAssumption
    <3> QED BY <3>1, <3>2
  <2> QED BY <1>1, <1>3, <2>1 DEF TypeOK
<1>5. ReadyBeforeStart'
  BY <1>1, <1>3 DEF IInv, ReadyBeforeStart
<1>6. StageInv'
  BY <1>1, <1>3 DEF IInv, StageInv, New, Args, ClusterOf, Busy
<1>7. OpInv'
  BY <1>1 DEF IInv, OpInv, New
<1>8. \A g \in Host : g # h => (g \in ByHand' <=> g \in ByHand)
  BY <1>3 DEF ByHand
<1>9. CreateInv'
  BY <1>1, <1>8 DEF IInv, TypeOK, OpType, CreateInv, New, Own, ByHand
<1>10. JoinInv'
  <2>1. Own(op.c)' = Own(op.c) /\ New' = New /\ (Unsaved' <=> Unsaved) /\ Own(row)' = Own(row)
    BY <1>1 DEF Own, New, Unsaved
  <2>2. Own(op.c) \subseteq Host
    BY <1>1 DEF TypeOK, OpType, RowType, Own, NodesOf
  <2>3. ~NodeOk(op.c, h)
    BY <1>1 DEF NodeOk, InRole, IsNode
  <2>4. \A g \in Host : g # h /\ NodeOk(op.c, g) => NodeOk(op.c, g)'
    BY <1>1, <1>3 DEF NodeOk, InRole
  <2> QED BY <1>1, <1>8, <2>1, <2>2, <2>3, <2>4 DEF IInv, JoinInv
<1>11. DeleteInv'
  BY <1>1 DEF IInv, DeleteInv
<1>12. StandaloneInv'
  BY <1>1, <1>3 DEF IInv, StandaloneInv, New, Servers
<1>13. RowInv'
  <2>1. Own(row)' = Own(row) /\ Pending' = Pending /\ Own(row) \subseteq Host /\ h \notin Own(row)
    BY <1>1 DEF RowType, Own, NodesOf, Pending
  <2>2. \A g \in Host : g # h => /\ NodeOk(row, g) => NodeOk(row, g)'
                                 /\ InRole(row, g) => InRole(row, g)'
    BY <1>1, <1>3 DEF NodeOk, InRole
  <2> QED BY <1>1, <1>8, <2>1, <2>2 DEF IInv, RowInv
<1> QED BY <1>4, <1>5, <1>6, <1>7, <1>9, <1>10, <1>11, <1>12, <1>13 DEF IInv

(* A sync that reads, or gives up, and a node that registers. *)
LEMMA OutsideSteps ==
  ASSUME IInv, SyncRead \/ SyncNothing \/ (\E h \in Host : Register(h)) \/ UNCHANGED vars
  PROVE  IInv'
<1>1. UNCHANGED <<flags, hosts, row, op, astray>>
  BY DEF SyncRead, SyncNothing, Register, vars, bounds
<1>2. TypeOK
  BY DEF IInv
<1>3. CASE SyncRead
  <2>1. sync' \in [pc : {"off", "list", "save"}, row : RowType, lists : ListsType]
    BY <1>2, <1>3, IdleType DEF SyncRead, SyncIdle, ListsOf, ListsType, TypeOK, RowType
  <2>2. count' \in [ops : 0..MaxOps, syncs : 0..MaxSync, hands : 0..MaxHand]
    <3>1. count \in [ops : 0..MaxOps, syncs : 0..MaxSync, hands : 0..MaxHand]
          /\ count.syncs < MaxSync /\ count' = [count EXCEPT !.syncs = count.syncs + 1]
      BY <1>2, <1>3 DEF TypeOK, SyncRead
    <3>2. count.syncs + 1 \in 0..MaxSync
      BY <3>1, NativeAssumption
    <3> QED BY <3>1, <3>2
  <2>3. TypeOK'
    BY <1>1, <1>2, <1>3, <2>1, <2>2 DEF TypeOK, SyncRead, hosts
  <2> QED BY <1>1, <2>3, OutsideStep
<1>4. CASE SyncNothing
  <2>1. TypeOK'
    BY <1>1, <1>2, <1>4, SyncIdleType DEF TypeOK, SyncNothing, hosts, bounds
  <2> QED BY <1>1, <2>1, OutsideStep
<1>5. ASSUME NEW h \in Host, Register(h) PROVE IInv'
  <2>1. TypeOK'
    BY <1>1, <1>2, <1>5 DEF TypeOK, Register, hosts, bounds
  <2> QED BY <1>1, <2>1, OutsideStep
<1>6. CASE UNCHANGED vars
  <2>1. TypeOK'
    BY <1>2, <1>6 DEF TypeOK, vars, hosts, bounds
  <2> QED BY <1>1, <2>1, OutsideStep
<1> QED BY <1>3, <1>4, <1>5, <1>6

(***************************************************************************)
(* The requests and the first state.                                       *)
(***************************************************************************)

(* What holds when no operation runs, and when one has started. *)
LEMMA Started ==
  ASSUME IInv, NEW o \in OpType, NEW r \in RowType, NEW k \in SUBSET Host,
         NEW stray \in BOOLEAN, Start(o, r, k, stray),
         o.pc \in {"first", "token", "masters", "uninstall"}
  PROVE  /\ TypeOK' /\ ReadyBeforeStart' /\ StageInv' /\ TypeOK
         /\ op.kind = "none" /\ Pending = {} /\ op.errM = {}
         /\ op' = o /\ row' = r /\ r # NoRow
         /\ UNCHANGED <<flags, k3s>> /\ astray' = (astray \/ stray)
<1>1. /\ op.pc = "idle" /\ UNCHANGED <<flags, k3s, gifts, stage, ctx, sync>> /\ TypeOK
      /\ op' = o /\ row' = r /\ kube' = k /\ astray' = (astray \/ stray)
  BY DEF IInv, Start, At, hosts
<1>2. op.kind = "none" /\ Pending = {} /\ op.errM = {} /\ \A h \in Host : stage[h] = "off"
  BY <1>1 DEF IInv, TypeOK, OpType, OpInv, Pending, StageInv
<1>3. r # NoRow
  BY NoRowAssumption
<1>4. count' \in [ops : 0..MaxOps, syncs : 0..MaxSync, hands : 0..MaxHand]
  <2>1. count \in [ops : 0..MaxOps, syncs : 0..MaxSync, hands : 0..MaxHand]
        /\ count.ops < MaxOps /\ count' = [count EXCEPT !.ops = count.ops + 1]
    BY <1>1 DEF TypeOK, Start
  <2>2. count.ops + 1 \in 0..MaxOps
    BY <2>1, NativeAssumption
  <2> QED BY <2>1, <2>2
<1>5. TypeOK'
  BY <1>1, <1>4 DEF TypeOK
<1>6. ReadyBeforeStart'
  BY <1>1 DEF IInv, ReadyBeforeStart
<1>7. StageInv'
  BY <1>1, <1>2 DEF StageInv, Before
<1> QED BY <1>1, <1>2, <1>3, <1>5, <1>6, <1>7

(* A create begins with an empty row and hosts that are not others'. *)
LEMMA CreateRequestStep ==
  ASSUME IInv, CreateRequest
  PROVE  IInv'
<1>1. PICK M \in SUBSET (Host \ ByHand) \ {{}}, t \in FreshTokens :
        \E W \in SUBSET (Host \ (M \cup ByHand)) :
          /\ flags.mode = "solo" => Cardinality(M) = 1
          /\ Start([Idle EXCEPT !.pc = "first", !.kind = "create", !.masters = M, !.workers = W,
                      !.c = [EmptyRow EXCEPT !.masters = M, !.workers = W, !.token = t]],
                   EmptyRow, {}, FALSE)
  BY DEF CreateRequest
<1>2. PICK W \in SUBSET (Host \ (M \cup ByHand)) :
        /\ flags.mode = "solo" => Cardinality(M) = 1
        /\ Start([Idle EXCEPT !.pc = "first", !.kind = "create", !.masters = M, !.workers = W,
                    !.c = [EmptyRow EXCEPT !.masters = M, !.workers = W, !.token = t]],
                 EmptyRow, {}, FALSE)
  BY <1>1
<1> DEFINE c == [EmptyRow EXCEPT !.masters = M, !.workers = W, !.token = t]
           o == [Idle EXCEPT !.pc = "first", !.kind = "create", !.masters = M, !.workers = W, !.c = c]
<1>3. t \in Token /\ M \in SUBSET Host /\ W \in SUBSET Host
  BY DEF FreshTokens
<1>4. /\ c \in RowType /\ c.masters = M /\ c.workers = W /\ c.token = t /\ c.found = {}
      /\ c.standalone = FALSE
  BY <1>3, IdleType DEF EmptyRow, RowType
<1>5. /\ o \in OpType /\ o.pc = "first" /\ o.kind = "create" /\ o.masters = M /\ o.workers = W
      /\ o.c = c /\ o.errM = {} /\ o.er = FALSE
  BY <1>3, <1>4, IdleType DEF Idle, OpType
<1>6. /\ EmptyRow \in RowType /\ EmptyRow.standalone = FALSE /\ EmptyRow.status = "Creating"
      /\ EmptyRow.masters = {} /\ EmptyRow.workers = {} /\ EmptyRow.found = {}
  BY IdleType DEF EmptyRow
<1>7. Start(o, EmptyRow, {}, FALSE)
  BY <1>2
<1> HIDE DEF o, c
<1>8. /\ TypeOK' /\ ReadyBeforeStart' /\ StageInv' /\ op' = o /\ row' = EmptyRow /\ row' # NoRow
      /\ UNCHANGED <<flags, k3s>>
  BY <1>5, <1>6, <1>7, Started
<1>10. OpInv'
  BY <1>3, <1>4, <1>5, <1>8 DEF OpInv, New
<1>11. CreateInv'
  BY <1>1, <1>2, <1>4, <1>5, <1>6, <1>8 DEF CreateInv, New, ByHand, Own, NodesOf
<1>12. JoinInv' /\ DeleteInv'
  BY <1>5, <1>8 DEF JoinInv, DeleteInv
<1>13. StandaloneInv'
  BY <1>5, <1>6, <1>8 DEF StandaloneInv
<1>14. RowInv'
  BY <1>5, <1>6, <1>8 DEF RowInv, Own, NodesOf
<1> QED BY <1>8, <1>10, <1>11, <1>12, <1>13, <1>14 DEF IInv

(* A delete takes the row as it is. *)
LEMMA DeleteRequestStep ==
  ASSUME IInv, DeleteRequest
  PROVE  IInv'
<1> DEFINE o == [Idle EXCEPT !.pc = "uninstall", !.kind = "delete", !.c = row]
           r == [row EXCEPT !.status = "Removing"]
<1>1. row # NoRow /\ row \in RowType /\ kube \in SUBSET Host /\ Start(o, r, kube, FALSE)
  BY DEF IInv, TypeOK, DeleteRequest
<1>2. /\ r \in RowType /\ r.standalone = row.standalone /\ r.ip = row.ip /\ r.status = "Removing"
      /\ r.masters = row.masters /\ r.workers = row.workers /\ r.found = row.found
  BY <1>1 DEF RowType
<1>3. /\ o \in OpType /\ o.pc = "uninstall" /\ o.kind = "delete" /\ o.c = row /\ o.masters = {}
      /\ o.workers = {} /\ o.errM = {} /\ o.er = FALSE
  BY <1>1, IdleType DEF Idle, OpType
<1> HIDE DEF o, r
<1>4. /\ TypeOK' /\ ReadyBeforeStart' /\ StageInv' /\ op' = o /\ row' = r /\ row' # NoRow
      /\ UNCHANGED <<flags, k3s>> /\ (~astray' => ~astray) /\ Pending = {}
  BY <1>1, <1>2, <1>3, Started
<1>5. OpInv' /\ CreateInv' /\ JoinInv'
  BY <1>3, <1>4 DEF OpInv, CreateInv, JoinInv, New
<1>6. Own(row)' = Own(row) /\ ByHand' = ByHand /\ Own(op.c)' = Own(row)
  BY <1>2, <1>3, <1>4 DEF Own, NodesOf, ByHand
<1>7. DeleteInv'
  BY <1>1, <1>2, <1>3, <1>4, <1>6 DEF IInv, RowInv, DeleteInv
<1>8. StandaloneInv'
  BY <1>1, <1>2, <1>3, <1>4 DEF IInv, StandaloneInv, New, Servers
<1>9. RowInv'
  BY <1>1, <1>2, <1>3, <1>4, <1>6 DEF IInv, RowInv, InRole
<1> QED BY <1>4, <1>5, <1>7, <1>8, <1>9 DEF IInv

(* A join of hosts m and w to the cluster of the row. *)
LEMMA JoinRowStep ==
  ASSUME IInv, NEW M \in SUBSET Host, NEW W \in SUBSET Host, M \cap W = {},
         row # NoRow,
         NEW m \in SUBSET Host, NEW w \in SUBSET Host, m = M \ row.masters, w = W \ row.workers,
         Start([Idle EXCEPT !.pc = IF row.token = NoToken THEN "token" ELSE "masters",
                            !.kind = "join", !.masters = m, !.workers = w,
                            !.c = [row EXCEPT !.masters = @ \cup m, !.workers = @ \cup w]],
               [row EXCEPT !.status = "Upgrading"], kube, Strays(row, M, W))
  PROVE  IInv'
<1> DEFINE c == [row EXCEPT !.masters = @ \cup m, !.workers = @ \cup w]
           l == IF row.token = NoToken THEN "token" ELSE "masters"
           o == [Idle EXCEPT !.pc = l, !.kind = "join", !.masters = m, !.workers = w, !.c = c]
           r == [row EXCEPT !.status = "Upgrading"]
<1>1. row \in RowType /\ kube \in SUBSET Host /\ TypeOK
  BY DEF IInv, TypeOK
<1>2. /\ r \in RowType /\ r.standalone = row.standalone /\ r.ip = row.ip /\ r.status = "Upgrading"
      /\ r.masters = row.masters /\ r.workers = row.workers /\ r.found = row.found /\ r.token = row.token
  BY <1>1 DEF RowType
<1>3. /\ c \in RowType /\ c.standalone = row.standalone /\ c.ip = row.ip /\ c.found = row.found
      /\ c.masters = row.masters \cup m /\ c.workers = row.workers \cup w /\ c.token = row.token
  <2>1. row.masters \cup m \in SUBSET Host /\ row.workers \cup w \in SUBSET Host
    BY <1>1 DEF RowType
  <2>2. c = [row EXCEPT !.masters = row.masters \cup m, !.workers = row.workers \cup w]
    BY <1>1 DEF RowType
  <2> QED BY <1>1, <2>1, <2>2 DEF RowType
<1>4. /\ o \in OpType /\ o.pc = l /\ o.kind = "join" /\ o.c = c /\ o.masters = m
      /\ o.workers = w /\ o.errM = {} /\ o.er = FALSE
  BY <1>3, IdleType DEF Idle, OpType
<1>5. Start(o, r, kube, Strays(row, M, W)) /\ Strays(row, M, W) \in BOOLEAN
  BY DEF Strays
<1> HIDE DEF o, r, c
<1>6. /\ TypeOK' /\ ReadyBeforeStart' /\ StageInv' /\ op' = o /\ row' = r /\ row' # NoRow
      /\ UNCHANGED <<flags, k3s>> /\ (~astray' => ~astray /\ ~Strays(row, M, W)) /\ Pending = {}
  <2>1. o.pc \in {"first", "token", "masters", "uninstall"}
    BY ONLY <1>4
  <2>2. /\ TypeOK' /\ ReadyBeforeStart' /\ StageInv' /\ op' = o /\ row' = r /\ r # NoRow
        /\ UNCHANGED <<flags, k3s>> /\ Pending = {} /\ astray' = (astray \/ Strays(row, M, W))
    BY ONLY IInv, <1>1, <1>2, <1>4, <1>5, <2>1, Started
  <2> QED BY ONLY <2>2
<1>7. ~astray' => /\ ~row.standalone => row.token \in Token
                  /\ row.standalone => row.ip \in Host /\ row.ip \in Servers(k3s)
  BY <1>6 DEF IInv, StandaloneInv, Strays
<1>8. OpInv'
  <2>1. l = "masters" => row.token \in Token
    BY <1>1 DEF RowType
  <2> HIDE DEF l
  <2>3. l \in {"token", "masters"}
    BY DEF l
  <2>4. m \cap w = {}
    OBVIOUS
  <2> QED BY <1>3, <1>4, <1>6, <2>1, <2>3, <2>4 DEF OpInv, New
<1>9. CreateInv' /\ DeleteInv'
  BY <1>4, <1>6 DEF CreateInv, DeleteInv
<1>10. Own(row)' = Own(row) /\ ByHand' = ByHand /\ New' = m \cup w
  BY <1>2, <1>4, <1>6 DEF Own, NodesOf, ByHand, New
<1>11. ~astray' => (m \cup w) \cap NodesOf(row) = {}
  BY <1>6 DEF NodesOf, Strays
<1>12. ASSUME ~astray', ~row.standalone
       PROVE  /\ row.masters \cap row.workers = {} /\ row.ip \in row.masters \ row.found
              /\ Own(row) \cap ByHand = {} /\ \A h \in Own(row) : NodeOk(row, h) /\ InRole(row, h)
  BY <1>6, <1>12 DEF IInv, RowInv, Strays
<1>13. JoinInv'
  <2>1. op'.masters \subseteq op'.c.masters /\ op'.workers \subseteq op'.c.workers
    BY <1>3, <1>4, <1>6
  <2>2. ASSUME ~astray', ~row.standalone
        PROVE  /\ op'.c.masters \cap op'.c.workers = {}
               /\ op'.c.ip \in op'.c.masters \ (op'.c.found \cup New')
               /\ \A h \in Own(op.c)' \ New' : NodeOk(op.c, h)' /\ h \notin ByHand'
               /\ New' \cap Own(row)' = {}
    <3>1. op'.c.masters \cap op'.c.workers = {}
      BY <1>3, <1>4, <1>6, <1>11, <1>12, <2>2 DEF NodesOf
    <3>2. op'.c.ip \in op'.c.masters \ (op'.c.found \cup New')
      BY <1>3, <1>4, <1>6, <1>10, <1>11, <1>12, <2>2 DEF NodesOf
    <3>3. \A h \in Own(op.c)' \ New' : /\ h \in Own(row)
                                       /\ h \in c.masters <=> h \in row.masters
                                       /\ h \in c.workers <=> h \in row.workers
      BY <1>3, <1>4, <1>6, <1>10 DEF Own, NodesOf
    <3>4. \A h \in Own(op.c)' \ New' : NodeOk(op.c, h)'
      BY <1>3, <1>4, <1>6, <1>12, <2>2, <3>3 DEF NodeOk, InRole, IsNode
    <3>5. New' \cap Own(row)' = {}
      BY <1>10, <1>11, <2>2 DEF Own
    <3> QED BY <1>10, <1>12, <2>2, <3>1, <3>2, <3>3, <3>4, <3>5
  <2>3. ~astray' /\ l = "token" => row.standalone
    BY <1>1, <1>7, NativeAssumption
  <2> QED BY <1>2, <1>3, <1>4, <1>6, <2>1, <2>2, <2>3 DEF JoinInv
<1>14. StandaloneInv'
  <2>1. ~astray' /\ row.standalone => row.ip \notin m \cup w
    BY <1>6 DEF Strays
  <2> QED BY <1>2, <1>3, <1>4, <1>6, <1>7, <1>10, <2>1 DEF StandaloneInv, Servers
<1>15. RowInv'
  <2>1. ~astray' /\ ~row.standalone => \A h \in Own(row)' : NodeOk(row, h)' /\ InRole(row, h)'
    BY <1>2, <1>6, <1>10, <1>12 DEF NodeOk, InRole, IsNode
  <2> QED BY <1>2, <1>4, <1>6, <1>10, <1>12, <2>1 DEF RowInv
<1> QED BY <1>6, <1>8, <1>9, <1>13, <1>14, <1>15 DEF IInv

(* A join to the server s, which the database does not know. *)
LEMMA JoinServerStep ==
  ASSUME IInv, NEW M \in SUBSET Host, NEW W \in SUBSET Host, M \cap W = {},
         NEW s \in Servers(k3s) \cap ByHand,
         Start([Idle EXCEPT !.pc = "token", !.kind = "join", !.masters = M, !.workers = W,
                            !.c = [JoinK3sNode(s) EXCEPT !.masters = M, !.workers = W]],
               [JoinK3sNode(s) EXCEPT !.status = "Upgrading"], kube, Strays(JoinK3sNode(s), M, W))
  PROVE  IInv'
<1> DEFINE c == [JoinK3sNode(s) EXCEPT !.masters = M, !.workers = W]
           o == [Idle EXCEPT !.pc = "token", !.kind = "join", !.masters = M, !.workers = W, !.c = c]
           r == [JoinK3sNode(s) EXCEPT !.status = "Upgrading"]
<1>1. kube \in SUBSET Host /\ s \in Host /\ s \in Servers(k3s)
  BY DEF IInv, TypeOK, Servers
<1>2. /\ r \in RowType /\ r.standalone = TRUE /\ r.ip = s /\ r.status = "Upgrading"
      /\ c \in RowType /\ c.standalone = TRUE /\ c.ip = s /\ c.masters = M /\ c.workers = W
  BY <1>1, IdleType DEF JoinK3sNode, EmptyRow, RowType
<1>3. /\ o \in OpType /\ o.pc = "token" /\ o.kind = "join" /\ o.c = c /\ o.masters = M
      /\ o.workers = W /\ o.errM = {} /\ o.er = FALSE
  BY <1>2, IdleType DEF Idle, OpType
<1> DEFINE stray == Strays(JoinK3sNode(s), M, W)
<1>4. Start(o, r, kube, stray) /\ stray \in BOOLEAN
  BY DEF Strays
<1>11. ~stray => s \notin M \cup W
  BY DEF Strays, JoinK3sNode, EmptyRow
<1> HIDE DEF o, r, c, stray
<1>5. /\ TypeOK' /\ ReadyBeforeStart' /\ StageInv' /\ op' = o /\ row' = r /\ row' # NoRow
      /\ UNCHANGED <<flags, k3s>> /\ (~astray' => ~stray) /\ Pending = {}
  BY <1>1, <1>2, <1>3, <1>4, Started
<1>6. OpInv' /\ CreateInv' /\ DeleteInv'
  BY <1>2, <1>3, <1>5 DEF OpInv, CreateInv, DeleteInv, New
<1>7. JoinInv'
  BY <1>2, <1>3, <1>5 DEF JoinInv
<1>8. StandaloneInv'
  BY <1>1, <1>2, <1>3, <1>5, <1>11 DEF StandaloneInv, New, Servers
<1>9. RowInv'
  BY <1>2, <1>5 DEF RowInv
<1> QED BY <1>5, <1>6, <1>7, <1>8, <1>9 DEF IInv

(* A join is taken on.                                                     *)
LEMMA JoinRequestStep ==
  ASSUME IInv, JoinRequest
  PROVE  IInv'
<1>1. PICK M \in SUBSET Host, W \in SUBSET Host :
        /\ M \cap W = {}
        /\ \/ /\ row # NoRow
              /\ Start([Idle EXCEPT !.pc = IF row.token = NoToken THEN "token" ELSE "masters",
                           !.kind = "join", !.masters = M \ row.masters, !.workers = W \ row.workers,
                           !.c = [row EXCEPT !.masters = @ \cup (M \ row.masters),
                                             !.workers = @ \cup (W \ row.workers)]],
                        [row EXCEPT !.status = "Upgrading"], kube, Strays(row, M, W))
           \/ \E s \in Servers(k3s) \cap ByHand :
                Start([Idle EXCEPT !.pc = "token", !.kind = "join", !.masters = M, !.workers = W,
                             !.c = [JoinK3sNode(s) EXCEPT !.masters = M, !.workers = W]],
                      [JoinK3sNode(s) EXCEPT !.status = "Upgrading"], kube, Strays(JoinK3sNode(s), M, W))
  BY DEF JoinRequest, NewNodes
<1>2. ASSUME row # NoRow,
             Start([Idle EXCEPT !.pc = IF row.token = NoToken THEN "token" ELSE "masters",
                          !.kind = "join", !.masters = M \ row.masters, !.workers = W \ row.workers,
                          !.c = [row EXCEPT !.masters = @ \cup (M \ row.masters),
                                            !.workers = @ \cup (W \ row.workers)]],
                   [row EXCEPT !.status = "Upgrading"], kube, Strays(row, M, W))
      PROVE  IInv'
  <2> DEFINE m == M \ row.masters
             w == W \ row.workers
  <2>1. m \in SUBSET Host /\ w \in SUBSET Host
    OBVIOUS
  <2> QED BY <1>1, <1>2, <2>1, JoinRowStep
<1>3. ASSUME NEW s \in Servers(k3s) \cap ByHand,
             Start([Idle EXCEPT !.pc = "token", !.kind = "join", !.masters = M, !.workers = W,
                          !.c = [JoinK3sNode(s) EXCEPT !.masters = M, !.workers = W]],
                   [JoinK3sNode(s) EXCEPT !.status = "Upgrading"], kube, Strays(JoinK3sNode(s), M, W))
      PROVE  IInv'
  BY <1>1, <1>3, JoinServerStep
<1> QED BY <1>1, <1>2, <1>3

(* The invariant holds at the start.                                       *)
LEMMA InitInv ==
  ASSUME Init
  PROVE  IInv /\ SyncInv
<1>1. /\ op = Idle /\ row = NoRow /\ stage = [h \in Host |-> "off"] /\ gifts = [h \in Host |-> {}]
      /\ ctx = FALSE /\ sync = SyncIdle /\ astray = FALSE
      /\ count = [ops |-> 0, syncs |-> 0, hands |-> 0] /\ flags \in FlagsType
  BY NativeAssumption DEF Init
<1>2. /\ Idle \in OpType /\ op.pc = "idle" /\ op.kind = "none" /\ op.masters = {} /\ op.workers = {}
      /\ op.errM = {} /\ op.er = FALSE
  BY <1>1, IdleType DEF Idle
<1>3. /\ k3s \in [Host -> K3sType \cup {NoK3s}] /\ kube \subseteq Host
      /\ \A h \in Host : k3s[h] # NoK3s => k3s[h].hand
  <2>1. CASE k3s = [h \in Host |-> NoK3s] /\ kube = {}
    BY <2>1
  <2>2. CASE \E s \in Host, t \in Token :
               /\ k3s = [h \in Host |-> IF h = s THEN HandServer(t) ELSE NoK3s]
               /\ kube = {s}
    <3>1. \A t \in Token : HandServer(t) \in K3sType /\ HandServer(t).hand
      BY DEF HandServer, K3sType
    <3> QED BY <2>2, <3>1
  <2> QED BY <2>1, <2>2 DEF Init
<1>4. TypeOK
  <2>1. count \in [ops : 0..MaxOps, syncs : 0..MaxSync, hands : 0..MaxHand]
    BY <1>1, NativeAssumption
  <2>2. sync \in [pc : {"off", "list", "save"}, row : RowType, lists : ListsType]
    BY <1>1, SyncIdleType
  <2> QED BY <1>1, <1>2, <1>3, <2>1, <2>2 DEF TypeOK, StageType
<1>5. ReadyBeforeStart
  BY <1>3 DEF ReadyBeforeStart
<1>6. StageInv
  BY <1>1, <1>2 DEF StageInv, Before
<1>7. OpInv /\ CreateInv /\ JoinInv /\ DeleteInv /\ StandaloneInv /\ RowInv
  BY <1>1, <1>2 DEF OpInv, CreateInv, JoinInv, DeleteInv, StandaloneInv, RowInv, New
<1>8. SyncInv
  BY <1>1 DEF SyncInv, SyncIdle
<1> QED BY <1>4, <1>5, <1>6, <1>7, <1>8 DEF IInv

(***************************************************************************)
(* The results.                                                            *)
(***************************************************************************)

(* The invariant is inductive. *)
LEMMA Invariance == Spec => []IInv
<1>1. Init => IInv /\ SyncInv
  BY InitInv
<1>2. IInv /\ SyncInv /\ [Next]_vars => IInv' /\ SyncInv'
  <2> SUFFICES ASSUME IInv, SyncInv, [Next]_vars PROVE IInv'
    BY SyncKept
  <2>1. CASE CreateRequest
    BY <2>1, CreateRequestStep
  <2>2. CASE JoinRequest
    BY <2>2, JoinRequestStep
  <2>3. CASE DeleteRequest
    BY <2>3, DeleteRequestStep
  <2>4. CASE PreparePackage
    BY <2>4, PrepareStep
  <2>5. CASE InitFirstControl
    BY <2>5, InitFirstControlStep
  <2>6. CASE InitFirstWorker
    BY <2>6, InitFirstWorkerStep
  <2>7. CASE GetToken
    BY <2>7, GetTokenStep
  <2>8. CASE InitControlNode
    BY <2>8, InitControlNodeStep
  <2>9. CASE InitFailed
    BY <2>9, InitFailedStep
  <2>10. ASSUME NEW h \in Host, InitNode(h) PROVE IInv'
    BY <2>10, InitNodeStep
  <2>11. ASSUME NEW h \in Host, JoinByHand(h) PROVE IInv'
    BY <2>11, JoinByHandStep
  <2>12. CASE SaveCreated
    BY <2>12, SaveCreatedStep
  <2>13. CASE SaveJoined
    BY <2>13, SaveJoinedStep
  <2>14. CASE Plugins
    BY <2>14, PluginsStep
  <2>15. CASE Deferred
    BY <2>15, DeferredStep
  <2>16. CASE RollbackInstance
    BY <2>16, RollbackStep
  <2>17. CASE UninstallCluster
    BY <2>17, UninstallStep
  <2>18. CASE DeleteRow
    BY <2>18, DeleteRowStep
  <2>19. CASE SyncWrite
    BY <2>19, SyncWriteStep
  <2>20. CASE SyncRead \/ SyncNothing \/ (\E h \in Host : Register(h)) \/ UNCHANGED vars
    BY <2>20, OutsideSteps
  <2>21. CASE SyncList
    BY <2>21, SyncListStep
  <2> QED BY <2>1, <2>2, <2>3, <2>4, <2>5, <2>6, <2>7, <2>8, <2>9, <2>10, <2>11, <2>12, <2>13, <2>14,
             <2>15, <2>16, <2>17, <2>18, <2>19, <2>20, <2>21 DEF Next
<1> QED BY <1>1, <1>2, PTL DEF Spec

(* The state has its types. *)
THEOREM TypeCorrect == Spec => []TypeOK
<1>1. IInv => TypeOK
  BY DEF IInv
<1> QED BY <1>1, Invariance, PTL

(* K3s never runs on a node that misses what initNode was to bring first,  *)
(* whatever was installed, failed or was uninstalled before.               *)
THEOREM GiftsFirst == Spec => []ReadyBeforeStart
<1>1. IInv => ReadyBeforeStart
  BY DEF IInv
<1> QED BY <1>1, Invariance, PTL

(* The nodes of a Running row at rest form one cluster, over any joins of  *)
(* new hosts to a Running cluster, whatever of them fails (getRunArgs,     *)
(* Join, syncInstanceNodes), until a sync races or a join strays. The      *)
(* second master of a lone server is in the row, a server of its own.      *)
THEOREM FormsOneCluster == Spec => []OneCluster
<1>1. IInv => OneCluster
  <2> SUFFICES ASSUME IInv, At("idle"), ~astray, row # NoRow, row.status = "Running", ~row.standalone,
                      NEW h \in NodesOf(row) \ row.found
               PROVE  NodeOk(row, h)
    BY DEF OneCluster, NodeOk, InRole, IsNode
  <2>1. Pending = {} /\ h \in Own(row)
    BY DEF At, Pending, Own
  <2> QED BY <2>1 DEF IInv, RowInv
<1> QED BY <1>1, Invariance, PTL

(* The only hosts whose K3s a step changes: those an operation brings, and *)
(* those a delete of their cluster can reach; on others somebody installs  *)
(* it by hand. *)
LEMMA K3sChanges ==
  ASSUME IInv, [Next]_vars, NEW h \in Host, k3s'[h] # k3s[h]
  PROVE  \/ h \in New
         \/ op.kind = "delete" /\ ~op.c.standalone /\ h \in Reachable(op.c)
         \/ k3s[h] = NoK3s
<1>1. CASE UNCHANGED k3s
  BY <1>1
<1>2. ASSUME NEW g \in Host, InitNode(g) PROVE h \in New
  <2>1. /\ stage[g] \in Steps \cup {"run"}
        /\ UNCHANGED k3s \/ \E k : k3s' = [k3s EXCEPT ![g] = k]
    BY <1>2 DEF InitNode, InstallDocker, HandleRegistry, HandleDataStoreCertificate, ScpFiles, Give,
                RunInstall, Steps
  <2>2. h = g
    BY <2>1 DEF IInv, TypeOK
  <2> QED BY <2>1, <2>2, OwnUntouched
<1>3. ASSUME NEW g \in Host, JoinByHand(g) PROVE k3s[h] = NoK3s
  BY <1>3 DEF JoinByHand, IInv, TypeOK
<1>4. CASE RollbackInstance
  BY <1>4 DEF IInv, OpInv, RollbackInstance, Uninstall, New
<1>5. CASE UninstallCluster
  <2>1. op.pc = "uninstall" /\ op.kind = "delete"
    BY <1>5 DEF IInv, TypeOK, OpType, OpInv, UninstallCluster, At
  <2>2. PICK gone \in SUBSET Reachable(op.c) :
          ~op.c.standalone /\ Uninstall(gone \cap op.c.masters, gone \cap op.c.workers)
    BY <1>5 DEF UninstallCluster
  <2>3. h \in gone
    BY <2>2 DEF Uninstall, IInv, TypeOK
  <2> QED BY <2>1, <2>2, <2>3
<1> QED BY <1>1, <1>2, <1>3, <1>4, <1>5
        DEF Next, vars, hosts, CreateRequest, JoinRequest, DeleteRequest, Start, PreparePackage,
            InitFirstControl, InitFirstWorker, Begin, GetToken, InitControlNode, InitFailed, Register,
            SaveCreated, SaveJoined, Plugins, Deferred, DeleteRow, SyncRead, SyncNothing, SyncList, SyncWrite

(* A K3s that was set up by hand is never replaced or removed, unless a    *)
(* join was asked to take its host (rollbackInstance, uninstallCluster),   *)
(* until a sync races or a join strays.                                    *)
THEOREM HandNodesSafe == Spec => HandNodesKept
<1>1. IInv /\ [Next]_vars =>
        [~astray => \A h \in ByHand \ (op.masters \cup op.workers) : k3s'[h] = k3s[h]]_vars
  <2> SUFFICES ASSUME IInv, [Next]_vars, ~astray,
                      NEW h \in ByHand \ (op.masters \cup op.workers), k3s'[h] # k3s[h]
               PROVE  FALSE
    OBVIOUS
  <2>1. h \in Host /\ k3s[h] # NoK3s /\ h \notin New
    BY DEF ByHand, New
  <2>2. op.kind = "delete" /\ ~op.c.standalone /\ h \in Reachable(op.c)
    BY <2>1, K3sChanges
  <2>3. h \in Own(op.c)
    BY <2>2 DEF IInv, DeleteInv, Reachable, Own
  <2>4. row # NoRow /\ ~row.standalone /\ h \in Own(row) /\ Pending = {}
    BY <2>2, <2>3 DEF IInv, OpInv, DeleteInv, StandaloneInv, Pending
  <2> QED BY <2>4 DEF IInv, RowInv
<1> QED BY <1>1, Invariance, PTL DEF Spec, HandNodesKept

(* The nodes a cluster had before a join keep K3s, whatever fails in the   *)
(* join or in its rollback, and their place in the API server, unless a    *)
(* sync has raced or a join has strayed.                                   *)
THEOREM JoinSafe == Spec => JoinKeepsNodes
<1>1. IInv /\ [Next]_vars =>
        [op.kind = "join" =>
           \A h \in NodesOf(op.c) \ (op.masters \cup op.workers) :
             k3s[h] # NoK3s => k3s'[h] = k3s[h] /\ (~astray /\ h \in kube => h \in kube')]_vars
  <2> SUFFICES ASSUME IInv, [Next]_vars, op.kind = "join",
                      NEW h \in NodesOf(op.c) \ (op.masters \cup op.workers), k3s[h] # NoK3s
               PROVE  k3s'[h] = k3s[h] /\ (~astray /\ h \in kube => h \in kube')
    OBVIOUS
  <2>1. h \in Host /\ h \notin New
    BY DEF IInv, TypeOK, OpType, RowType, NodesOf, New
  <2>2. k3s'[h] = k3s[h]
    BY <2>1, K3sChanges
  <2>3. op.pc \notin {"idle", "uninstall"}
    BY DEF IInv, OpInv
  <2>4. ASSUME RollbackInstance, ~astray PROVE h \in kube => h \in kube'
    <3>1. PICK gone \in SUBSET New, left \in SUBSET New :
            /\ Uninstall(gone \cap op.masters, gone \cap op.workers)
            /\ kube' = IF Serving(k3s') = {} THEN {} ELSE kube \ left
      BY <2>4 DEF RollbackInstance, New, IInv, OpInv
    <3>2. op.c.ip \in Host \ New /\ op.c.ip \in Servers(k3s)
      <4>1. row # NoRow /\ op.c.standalone = row.standalone /\ op.c.ip = row.ip
        BY <2>4 DEF IInv, OpInv, StandaloneInv
      <4>2. CASE row.standalone
        BY <2>4, <4>1, <4>2 DEF IInv, StandaloneInv
      <4>3. CASE ~row.standalone
        <5>1. /\ op.c.ip \in op.c.masters \ (op.c.found \cup New)
              /\ \A g \in Own(op.c) \ New : NodeOk(op.c, g)
          BY <2>4, <4>1, <4>3 DEF IInv, JoinInv
        <5>2. op.c.ip \in Own(op.c) \ New /\ op.c.ip \in Host
          BY <5>1 DEF Own, NodesOf, IInv, TypeOK, OpType, RowType
        <5>3. NodeOk(op.c, op.c.ip)
          BY <5>1, <5>2
        <5> QED BY <5>1, <5>2, <5>3 DEF NodeOk, InRole, IsNode, Servers
      <4> QED BY <4>2, <4>3
    <3>3. k3s'[op.c.ip] = k3s[op.c.ip]
      BY <3>1, <3>2 DEF Uninstall
    <3>4. Serving(k3s') # {}
      BY <3>2, <3>3 DEF Serving, Servers
    <3> QED BY <2>1, <3>1, <3>4
  <2>5. ~astray /\ h \in kube => h \in kube'
    BY <2>3, <2>4
       DEF Next, vars, CreateRequest, JoinRequest, DeleteRequest, Start, At, PreparePackage,
           InitFirstControl, InitFirstWorker, GetToken, InitControlNode, InitFailed, InitNode,
           Register, JoinByHand, SaveCreated, SaveJoined, Plugins, Deferred, UninstallCluster,
           DeleteRow, SyncRead, SyncNothing, SyncList, SyncWrite
  <2> QED BY <2>2, <2>5
<1> QED BY <1>1, Invariance, PTL DEF Spec, JoinKeepsNodes

(* The row is given up by the last step of a delete only. *)
LEMMA RowGoes ==
  ASSUME IInv, [Next]_vars, row # NoRow, row' = NoRow
  PROVE  op.pc = "row" /\ op.kind = "delete" /\ UNCHANGED k3s
<1>1. CASE DeleteRow
  BY <1>1 DEF DeleteRow, At, hosts, IInv, TypeOK, OpType, OpInv
<1>2. row \in RowType /\ op.c \in RowType
  BY DEF IInv, TypeOK, OpType
<1>3. ASSUME NEW o, NEW r \in RowType, NEW k, NEW stray, Start(o, r, k, stray) PROVE FALSE
  BY <1>3, NoRowAssumption DEF Start
<1>4. ~CreateRequest
  BY <1>3, IdleType DEF CreateRequest
<1>5. ~DeleteRequest
  <2>1. [row EXCEPT !.status = "Removing"] \in RowType
    BY <1>2 DEF RowType
  <2> QED BY <1>3, <2>1 DEF DeleteRequest
<1>6. ~JoinRequest
  <2>1. [row EXCEPT !.status = "Upgrading"] \in RowType
    BY <1>2 DEF RowType
  <2> QED BY <1>3, <2>1 DEF JoinRequest
<1>7. ~SaveCreated /\ ~SaveJoined
  <2>1. [op.c EXCEPT !.status = "Running"] \in RowType
    BY <1>2 DEF RowType
  <2> QED BY <2>1, NoRowAssumption DEF SaveCreated, SaveJoined
<1>8. ~Deferred
  <2> DEFINE st == IF op.kind = "join" THEN "Running" ELSE IF op.er THEN "Failed" ELSE row.status
  <2> SUFFICES ASSUME Deferred PROVE FALSE
    OBVIOUS
  <2>1. /\ op.pc = "defer" /\ UNCHANGED <<flags, k3s, astray>>
        /\ row' = [row EXCEPT !.status = st, !.workers = @ \ op.errM,
                              !.found = @ \ (op.errM \cap (row.workers \ row.masters))]
    BY DEF Deferred, At, bounds
  <2> HIDE DEF st
  <2>2. st = IF op.kind = "join" THEN "Running" ELSE IF op.er THEN "Failed" ELSE row.status
    BY DEF st
  <2> QED BY <2>1, <2>2, Dropped
<1>9. ~SyncWrite
  <2> SUFFICES ASSUME SyncWrite PROVE FALSE
    OBVIOUS
  <2>1. /\ sync.row \in RowType /\ sync.lists \in ListsType
        /\ row' = [sync.row EXCEPT !.masters = sync.lists.masters, !.workers = sync.lists.workers,
                                   !.found = sync.lists.found]
    BY DEF IInv, TypeOK, SyncWrite
  <2>2. row' \in RowType
    BY ONLY <2>1 DEF RowType, ListsType
  <2> QED BY <2>2, NoRowAssumption
<1> QED BY <1>1, <1>4, <1>5, <1>6, <1>7, <1>8, <1>9
        DEF Next, vars, PreparePackage, InitFirstControl, InitFirstWorker, GetToken, InitControlNode,
            InitFailed, InitNode, Register, JoinByHand, Plugins, RollbackInstance, UninstallCluster,
            SyncRead, SyncNothing, SyncList

(* A delete none of whose commands fails leaves no K3s on the nodes of the *)
(* row (uninstallCluster), also when syncs change the row while it runs,   *)
(* until a sync races or a join strays.                                    *)
THEOREM DeleteSafe == Spec => DeleteUninstalls
<1>1. IInv /\ [Next]_vars =>
        [row # NoRow /\ row' = NoRow /\ ~op.bad /\ ~astray /\ ~row.standalone =>
           \A h \in NodesOf(row) \ row.found : k3s'[h] = NoK3s]_vars
  BY RowGoes DEF IInv, DeleteInv, Own
<1> QED BY <1>1, Invariance, PTL DEF Spec, DeleteUninstalls

=============================================================================
