----------------------- MODULE ClusterLifecycleProofs -----------------------
(***************************************************************************)
(* Proofs about ClusterLifecycle, for any number of goroutines, instances  *)
(* and operations.                                                         *)
(***************************************************************************)
EXTENDS ClusterLifecycle, FiniteSetTheorems, TLAPS

(* Where an operation goes on to use the cluster or state it holds.        *)
StatePC == {"c_save", "c_explorer", "c_manifest", "c_defer", "c_write"} \cup CreatePC
             \cup {"j_begin"} \cup JoinPC
             \cup {"u_begin"} \cup UpgradePC
             \cup {"d_delete", "d_count"}
             \cup {"l_cloud", "l_mark"}

(* Until a create has saved Running, the cluster it holds is Creating, and *)
(* the one its deferred function writes after an error is Failed.          *)
EarlyPC == {"c_save"} \cup CreatePC

Held(o) ==
  /\ o \in OpType
  /\ o.pc \in StatePC => o.st \in RowType
  /\ o.pc \in EarlyPC => o.st.status = "Creating"
  /\ o.pc = "c_write" /\ o.er => o.st.status = "Failed"
  /\ o.errM \subseteq o.mine

(* The instances two operations created are different.                     *)
Apart == \A p \in Proc, q \in Proc : p # q => op[p].mine \cap op[q].mine = {}

OpInv ==
  /\ op \in [Proc -> OpType]
  /\ \A p \in Proc : Held(op[p])
  /\ Apart

SharedInv ==
  /\ row \in RowType \cup {NoRow}
  /\ gauge \in [Version -> Int]
  /\ inst \subseteq Instance /\ untagged \subseteq Instance
  /\ k3s \subseteq Instance
  /\ ctx \in BOOLEAN
  /\ explorer \in {"none", "disabled", "enabled"}
  /\ watching \in BOOLEAN
  /\ {started, losses, crashes} \subseteq Nat
  /\ {cloudFailed, panicked, restored, twice} \subseteq BOOLEAN

(* The inductive invariant.                                                *)
IInv == OpInv /\ SharedInv

---------------------------------------------------------------------------
(* Helper operators keep the invariant of the operations.                  *)

(* An operation may be replaced by one that holds what its pc needs and    *)
(* whose instances nobody else has.                                        *)
LEMMA ReplaceOK ==
  ASSUME OpInv, NEW p \in Proc, NEW o, Held(o),
         \A q \in Proc \ {p} : o.mine \cap op[q].mine = {},
         op' = [op EXCEPT ![p] = o]
  PROVE  OpInv'
<1>1. op' \in [Proc -> OpType]
  BY DEF OpInv, Held
<1>2. \A q \in Proc : op'[q] = IF q = p THEN o ELSE op[q]
  BY DEF OpInv
<1>3. \A q \in Proc : Held(op'[q])
  BY <1>2 DEF OpInv
<1>4. Apart'
  <2> SUFFICES ASSUME NEW q \in Proc, NEW r \in Proc, q # r
               PROVE  op'[q].mine \cap op'[r].mine = {}
    BY DEF Apart
  <2>1. CASE q = p
    BY <2>1, <1>2
  <2>2. CASE r = p
    BY <2>2, <1>2
  <2>3. CASE q # p /\ r # p
    BY <2>3, <1>2 DEF OpInv, Apart
  <2> QED BY <2>1, <2>2, <2>3
<1> QED BY <1>1, <1>3, <1>4 DEF OpInv, Held

(* Goto changes the pc alone.                                              *)
LEMMA GotoOK ==
  ASSUME OpInv, NEW p \in Proc, NEW l \in PC, Goto(p, l), l # "c_write",
         l \in StatePC => op[p].st \in RowType,
         l \in EarlyPC => op[p].st.status = "Creating"
  PROVE  OpInv'
<1> DEFINE o == [op[p] EXCEPT !.pc = l]
<1>1. op[p] \in OpType /\ Held(op[p])
  BY DEF OpInv
<1>2. /\ o \in OpType /\ o.pc = l /\ o.st = op[p].st
      /\ o.mine = op[p].mine /\ o.errM = op[p].errM
  BY <1>1 DEF OpType
<1>3. Held(o)
  BY <1>1, <1>2 DEF Held
<1>4. op' = [op EXCEPT ![p] = o]
  BY <1>1 DEF Goto
<1>5. \A q \in Proc \ {p} : o.mine \cap op[q].mine = {}
  BY <1>2 DEF OpInv, Apart
<1> HIDE DEF o
<1> QED BY <1>3, <1>4, <1>5, ReplaceOK

(* An operation may take a row it has read along to where it is used.      *)
LEMMA KeepOK ==
  ASSUME OpInv, NEW p \in Proc, NEW l \in PC \ EarlyPC, NEW r \in RowType,
         op' = [op EXCEPT ![p].pc = l, ![p].st = r],
         l = "c_write" /\ op[p].er => r.status = "Failed"
  PROVE  OpInv'
<1> DEFINE o == [op[p] EXCEPT !.pc = l, !.st = r]
<1>1. op[p] \in OpType /\ Held(op[p])
  BY DEF OpInv
<1>2. /\ o \in OpType /\ o.pc = l /\ o.st = r /\ o.er = op[p].er
      /\ o.mine = op[p].mine /\ o.errM = op[p].errM
  BY <1>1 DEF OpType
<1>3. Held(o)
  BY <1>1, <1>2 DEF Held
<1>4. op' = [op EXCEPT ![p] = o]
  BY <1>1
<1>5. \A q \in Proc \ {p} : o.mine \cap op[q].mine = {}
  BY <1>2 DEF OpInv, Apart
<1> HIDE DEF o
<1> QED BY <1>3, <1>4, <1>5, ReplaceOK

(* Fail changes the pc and notes the error.                                *)
LEMMA FailOK ==
  ASSUME OpInv, NEW p \in Proc, NEW l \in PC, Fail(p, l), l # "c_write",
         l \in StatePC => op[p].st \in RowType, l \notin EarlyPC
  PROVE  OpInv'
<1> DEFINE o == [op[p] EXCEPT !.pc = l, !.er = TRUE]
<1>1. op[p] \in OpType /\ Held(op[p])
  BY DEF OpInv
<1>2. /\ o \in OpType /\ o.pc = l /\ o.st = op[p].st
      /\ o.mine = op[p].mine /\ o.errM = op[p].errM
  BY <1>1 DEF OpType
<1>3. Held(o)
  BY <1>1, <1>2 DEF Held
<1>4. op' = [op EXCEPT ![p] = o]
  BY <1>1 DEF Fail
<1>5. \A q \in Proc \ {p} : o.mine \cap op[q].mine = {}
  BY <1>2 DEF OpInv, Apart
<1> HIDE DEF o
<1> QED BY <1>3, <1>4, <1>5, ReplaceOK

(* An idle goroutine holds nothing.                                        *)
LEMMA IdleHeld == Held(Idle) /\ Idle.mine = {}
BY DEF Held, Idle, OpType, PC, StatePC, EarlyPC, CreatePC, JoinPC, UpgradePC

(* Return leaves nothing behind.                                           *)
LEMMA ReturnOK ==
  ASSUME OpInv, NEW p \in Proc, Return(p)
  PROVE  OpInv'
<1>1. op' = [op EXCEPT ![p] = Idle]
  BY DEF Return
<1>2. \A q \in Proc \ {p} : Idle.mine \cap op[q].mine = {}
  BY IdleHeld
<1> QED BY <1>1, <1>2, IdleHeld, ReplaceOK

(* A request starts an operation that has created nothing.                 *)
LEMMA StartOK ==
  ASSUME IInv, NEW p \in Proc, NEW o, Held(o), o.mine = {}, Start(p, o)
  PROVE  IInv'
<1>1. op' = [op EXCEPT ![p] = o]
  BY DEF Start
<1>2. OpInv'
  BY <1>1, ReplaceOK DEF IInv
<1>3. SharedInv'
  BY DEF Start, IInv, SharedInv, db, cloud, local, history
<1> QED BY <1>2, <1>3 DEF IInv
---------------------------------------------------------------------------
(* Helper operators keep the shared state well formed.                     *)

(* What SaveCluster leaves in the database,                                *)
LEMMA SaveClusterOK ==
  ASSUME SharedInv, NEW r \in RowType, SaveCluster(r)
  PROVE  row' \in RowType \cup {NoRow} /\ gauge' \in [Version -> Int]
<1>1. r.version \in Version
  BY DEF RowType
<1> QED BY <1>1 DEF SharedInv, SaveCluster

(* and what SaveClusterState does.                                         *)
LEMMA SaveClusterStateOK ==
  ASSUME SharedInv, NEW r \in RowType, SaveClusterState(r)
  PROVE  row' \in RowType \cup {NoRow} /\ gauge' \in [Version -> Int]
BY DEF SharedInv, SaveClusterState

(* A termination, whether it succeeds or fails, keeps the sets of          *)
(* instances.                                                              *)
LEMMA TerminateInv ==
  ASSUME SharedInv, NEW S \in SUBSET Instance, TerminateOK(S) \/ TerminateFails(S)
  PROVE  /\ inst' \subseteq Instance /\ untagged' \subseteq Instance
         /\ k3s' \subseteq Instance
         /\ {cloudFailed', panicked', restored', twice'} \subseteq BOOLEAN
<1>1. CASE TerminateOK(S)
  BY <1>1 DEF SharedInv, TerminateOK, history
<1>2. CASE TerminateFails(S)
  BY <1>2 DEF SharedInv, TerminateFails
<1> QED BY <1>1, <1>2

(* The size of a set of nodes is a number.                                 *)
LEMMA NodeCount ==
  /\ \A S \in SUBSET WorkerPool : Cardinality(S) \in Nat
  /\ \A S \in SUBSET MasterPool : Cardinality(S) \in Nat
BY FinitePools, FS_Subset, FS_CardinalityType

(* New instances belong to the pool and to nobody else.                    *)
LEMMA AskOK ==
  ASSUME NEW pool, NEW n, NEW S \in Ask(pool, n)
  PROVE  S \subseteq pool /\ \A q \in Proc : S \cap op[q].mine = {}
BY DEF Ask

(* runInstances keeps the invariant: the ids are new, so no operation has  *)
(* them.                                                                   *)
LEMMA RunInstancesOK ==
  ASSUME IInv, NEW p \in Proc, NEW pool \in SUBSET Instance, NEW n,
         NEW next \in StatePC, NEW onError \in PC \ EarlyPC,
         next \in PC, next # "c_write", onError # "c_write", op[p].st \in RowType,
         next \in EarlyPC => op[p].st.status = "Creating",
         RunInstances(p, pool, n, next, onError)
  PROVE  IInv'
<1>0. OpInv /\ SharedInv /\ op[p] \in OpType /\ Held(op[p])
  BY DEF IInv, OpInv
<1>1. ASSUME NEW S \in Ask(pool, n), NEW l \in PC \ {"c_write"}, NEW e \in BOOLEAN,
             l \in EarlyPC => op[p].st.status = "Creating",
             op' = [op EXCEPT ![p] = [op[p] EXCEPT !.pc = l, !.er = e, !.mine = @ \cup S]]
      PROVE  OpInv'
  <2> DEFINE o == [op[p] EXCEPT !.pc = l, !.er = e, !.mine = @ \cup S]
  <2>1. S \subseteq Instance /\ \A q \in Proc : S \cap op[q].mine = {}
    BY AskOK
  <2>2. /\ o \in OpType /\ o.pc = l /\ o.st = op[p].st
        /\ o.mine = op[p].mine \cup S /\ o.errM = op[p].errM
    BY <1>0, <2>1, <1>1 DEF OpType
  <2>3. Held(o)
    BY <1>0, <2>2, <1>1 DEF Held
  <2>4. \A q \in Proc \ {p} : o.mine \cap op[q].mine = {}
    BY <1>0, <2>1, <2>2 DEF OpInv, Apart
  <2>5. op' = [op EXCEPT ![p] = o]
    BY <1>1
  <2> HIDE DEF o
  <2> QED BY <1>0, <2>3, <2>4, <2>5, ReplaceOK
<1>2. CASE \E S \in Ask(pool, n) :
             /\ inst' = inst \cup S
             /\ untagged' = untagged
             /\ op' = [op EXCEPT ![p].pc = next, ![p].mine = @ \cup S]
  <2>1. PICK S \in Ask(pool, n) :
             /\ inst' = inst \cup S
             /\ untagged' = untagged
             /\ op' = [op EXCEPT ![p].pc = next, ![p].mine = @ \cup S]
    BY <1>2
  <2>2. op' = [op EXCEPT ![p] = [op[p] EXCEPT !.pc = next, !.er = op[p].er, !.mine = @ \cup S]]
    BY <2>1, <1>0 DEF OpType
  <2>3. OpInv'
    BY <2>2, <1>1, <1>0 DEF OpType
  <2>4. S \subseteq Instance
    BY AskOK
  <2>5. SharedInv'
    BY <2>1, <2>4, <1>0 DEF SharedInv, RunInstances, db, local, bounds, history
  <2> QED BY <2>3, <2>5 DEF IInv
<1>3. CASE n > 0 /\ Fail(p, onError) /\ UNCHANGED <<inst, untagged>>
  <2>1. OpInv'
    BY <1>0, <1>3, FailOK
  <2>2. SharedInv'
    BY <1>3, <1>0 DEF SharedInv, RunInstances, db, local, bounds, history
  <2> QED BY <2>1, <2>2 DEF IInv
<1>4. CASE \E S \in Ask(pool, n) :
             /\ n > 0
             /\ untagged' = untagged \cup S
             /\ inst' = inst
             /\ op' = [op EXCEPT ![p].pc = onError, ![p].er = TRUE, ![p].mine = @ \cup S]
  <2>1. PICK S \in Ask(pool, n) :
             /\ untagged' = untagged \cup S
             /\ inst' = inst
             /\ op' = [op EXCEPT ![p].pc = onError, ![p].er = TRUE, ![p].mine = @ \cup S]
    BY <1>4
  <2>2. op' = [op EXCEPT ![p] = [op[p] EXCEPT !.pc = onError, !.er = TRUE, !.mine = @ \cup S]]
    BY <2>1, <1>0 DEF OpType
  <2>3. OpInv'
    BY <2>2, <1>1, <1>0 DEF OpType
  <2>4. S \subseteq Instance
    BY AskOK
  <2>5. SharedInv'
    BY <2>1, <2>4, <1>0 DEF SharedInv, RunInstances, db, local, bounds, history
  <2> QED BY <2>3, <2>5 DEF IInv
<1> QED BY <1>2, <1>3, <1>4 DEF RunInstances
---------------------------------------------------------------------------
(* Every action keeps the inductive invariant.                             *)

(* Requests keep the invariant.                                            *)
LEMMA RequestOK ==
  ASSUME IInv, NEW p \in Proc, Request(p)
  PROVE  IInv'
<1>1. ASSUME CreateRequest(p) PROVE IInv'
  <2>1. PICK n \in MasterAsk, m \in WorkerAsk, v \in Version :
          Start(p, [Idle EXCEPT !.pc = "c_save", !.nm = n, !.nw = m,
                      !.st = [status |-> "Creating", masters |-> {}, workers |-> {},
                              master |-> n, worker |-> m, version |-> v]])
    BY <1>1 DEF CreateRequest
  <2> DEFINE o == [Idle EXCEPT !.pc = "c_save", !.nm = n, !.nw = m,
                      !.st = [status |-> "Creating", masters |-> {}, workers |-> {},
                              master |-> n, worker |-> m, version |-> v]]
  <2>2. Held(o) /\ o.mine = {}
    BY AskAssumption DEF Held, Idle, OpType, RowType, Status, PC, StatePC, EarlyPC, CreatePC, JoinPC, UpgradePC
  <2> HIDE DEF o
  <2> QED BY <2>1, <2>2, StartOK DEF o
<1>2. ASSUME JoinRequest(p) PROVE IInv'
  <2>1. PICK ask \in JoinAsk :
          Start(p, [Idle EXCEPT !.pc = "j_begin", !.nm = ask[1], !.nw = ask[2], !.st = row])
    BY <1>2 DEF JoinRequest
  <2> DEFINE o == [Idle EXCEPT !.pc = "j_begin", !.nm = ask[1], !.nw = ask[2], !.st = row]
  <2>2. row \in RowType
    BY <1>2 DEF JoinRequest, IInv, SharedInv
  <2>3. Held(o) /\ o.mine = {}
    BY <2>2, AskAssumption DEF Held, Idle, OpType, PC, StatePC, EarlyPC, CreatePC, JoinPC, UpgradePC
  <2> HIDE DEF o
  <2> QED BY <2>1, <2>3, StartOK DEF o
<1>3. ASSUME UpgradeRequest(p) PROVE IInv'
  <2>1. PICK v \in Version :
          Start(p, [Idle EXCEPT !.pc = "u_begin", !.st = [row EXCEPT !.version = v]])
    BY <1>3 DEF UpgradeRequest
  <2> DEFINE o == [Idle EXCEPT !.pc = "u_begin", !.st = [row EXCEPT !.version = v]]
  <2>2. row \in RowType
    BY <1>3 DEF UpgradeRequest, IInv, SharedInv
  <2>3. [row EXCEPT !.version = v] \in RowType
    BY <2>2 DEF RowType
  <2>4. Held(o) /\ o.mine = {}
    BY <2>3 DEF Held, Idle, OpType, PC, StatePC, EarlyPC, CreatePC, JoinPC, UpgradePC
  <2> HIDE DEF o
  <2> QED BY <2>1, <2>4, StartOK DEF o
<1>4. ASSUME DeleteRequest(p) PROVE IInv'
  <2> DEFINE o == [Idle EXCEPT !.pc = "d_begin"]
  <2>1. Held(o) /\ o.mine = {}
    BY DEF Held, Idle, OpType, PC, StatePC, EarlyPC, CreatePC, JoinPC, UpgradePC
  <2>2. Start(p, o)
    BY <1>4 DEF DeleteRequest
  <2> HIDE DEF o
  <2> QED BY <2>1, <2>2, StartOK
<1>5. ASSUME ListRequest(p) PROVE IInv'
  <2> DEFINE o == [Idle EXCEPT !.pc = "l_cloud", !.st = row]
  <2>1. row \in RowType
    BY <1>5 DEF ListRequest, IInv, SharedInv
  <2>2. Held(o) /\ o.mine = {}
    BY <2>1 DEF Held, Idle, OpType, PC, StatePC, EarlyPC, CreatePC, JoinPC, UpgradePC
  <2>3. Start(p, o)
    BY <1>5 DEF ListRequest
  <2> HIDE DEF o
  <2> QED BY <2>2, <2>3, StartOK
<1> QED BY <1>1, <1>2, <1>3, <1>4, <1>5 DEF Request


(* So do the steps of InitCluster,                                         *)
LEMMA CreateStepOK ==
  ASSUME IInv, NEW p \in Proc,
         CSave(p) \/ CKeys(p) \/ CMasters(p) \/ CWorkers(p) \/ CInit(p) \/ CCfg(p)
           \/ CRunning(p) \/ CExplorer(p) \/ CManifest(p) \/ CDefer(p) \/ CWrite(p)
  PROVE  IInv'
<1>0. OpInv /\ SharedInv /\ op[p] \in OpType /\ Held(op[p])
  BY DEF IInv, OpInv
<1> USE DEF At
<1>1. ASSUME CSave(p) PROVE IInv'
  <2>1. op[p].st \in RowType /\ op[p].st.status = "Creating"
    BY <1>0, <1>1 DEF CSave, Held, PC, StatePC, EarlyPC, CreatePC, JoinPC, UpgradePC
  <2>2. OpInv'
    BY <1>0, <1>1, <2>1, GotoOK, FailOK DEF CSave, PC, StatePC, EarlyPC, CreatePC, JoinPC, UpgradePC
  <2>3. SharedInv'
    BY <1>0, <1>1, <2>1, SaveClusterOK DEF CSave, SharedInv, db, cloud, local, bounds, history
  <2> QED BY <2>2, <2>3 DEF IInv
<1>2. ASSUME CKeys(p) PROVE IInv'
  <2>1. op[p].st \in RowType /\ op[p].st.status = "Creating"
    BY <1>0, <1>2 DEF CKeys, Held, PC, StatePC, EarlyPC, CreatePC, JoinPC, UpgradePC
  <2>2. OpInv'
    BY <1>0, <1>2, <2>1, GotoOK, FailOK DEF CKeys, PC, StatePC, EarlyPC, CreatePC, JoinPC, UpgradePC
  <2>3. SharedInv'
    BY <1>0, <1>2, <2>1, SaveClusterOK DEF CKeys, SharedInv, db, cloud, local, bounds, history
  <2> QED BY <2>2, <2>3 DEF IInv
<1>3. ASSUME CMasters(p) PROVE IInv'
  <2>1. op[p].st \in RowType /\ op[p].st.status = "Creating"
    BY <1>0, <1>3 DEF CMasters, Held, PC, StatePC, EarlyPC, CreatePC, JoinPC, UpgradePC
  <2>2. MasterPool \in SUBSET Instance
    BY DEF Instance
  <2>3. "c_workers" \in StatePC \cap PC /\ "c_defer" \in PC \ EarlyPC
    BY DEF PC, StatePC, EarlyPC, CreatePC, JoinPC, UpgradePC
  <2> QED BY <1>3, <2>1, <2>2, <2>3, RunInstancesOK DEF CMasters
<1>4. ASSUME CWorkers(p) PROVE IInv'
  <2>1. op[p].st \in RowType /\ op[p].st.status = "Creating"
    BY <1>0, <1>4 DEF CWorkers, Held, PC, StatePC, EarlyPC, CreatePC, JoinPC, UpgradePC
  <2>2. WorkerPool \in SUBSET Instance
    BY DEF Instance
  <2>3. "c_init" \in StatePC \cap PC /\ "c_defer" \in PC \ EarlyPC
    BY DEF PC, StatePC, EarlyPC, CreatePC, JoinPC, UpgradePC
  <2> QED BY <1>4, <2>1, <2>2, <2>3, RunInstancesOK DEF CWorkers
<1>5. ASSUME CInit(p) PROVE IInv'
  <2> DEFINE new == op[p].mine
             masters == new \cap MasterPool
             workers == new \cap WorkerPool
             st == [op[p].st EXCEPT !.masters = masters, !.workers = workers]
  <2>1. op[p].st \in RowType /\ op[p].st.status = "Creating" /\ new \subseteq Instance
    BY <1>0, <1>5 DEF CInit, Held, OpType, PC, StatePC, EarlyPC, CreatePC, JoinPC, UpgradePC
  <2>2. st \in RowType /\ st.status = "Creating"
    BY <2>1 DEF RowType
  <2>3. CASE \E bad \in SUBSET workers :
               /\ new \ bad \subseteq inst
               /\ k3s' = k3s \cup (new \ bad)
               /\ op' = [op EXCEPT ![p].pc = "c_cfg", ![p].errM = bad, ![p].st = st]
    <3>1. PICK bad \in SUBSET workers :
               /\ k3s' = k3s \cup (new \ bad)
               /\ op' = [op EXCEPT ![p].pc = "c_cfg", ![p].errM = bad, ![p].st = st]
      BY <2>3
    <3> DEFINE o == [op[p] EXCEPT !.pc = "c_cfg", !.errM = bad, !.st = st]
    <3>2. op' = [op EXCEPT ![p] = o]
      BY <3>1, <1>0
    <3>3. bad \subseteq new
      OBVIOUS
    <3> HIDE DEF st, masters, workers
    <3>4. /\ o \in OpType /\ o.pc = "c_cfg" /\ o.st = st
          /\ o.mine = new /\ o.errM = bad
      BY <1>0, <2>1, <2>2, <3>3 DEF OpType, PC, StatePC, EarlyPC, CreatePC, JoinPC, UpgradePC
    <3>5. Held(o)
      BY <3>4, <2>2, <3>3 DEF Held
    <3>6. \A q \in Proc \ {p} : o.mine \cap op[q].mine = {}
      BY <1>0, <3>4 DEF OpInv, Apart
    <3> HIDE DEF o
    <3>7. OpInv'
      BY <1>0, <3>2, <3>5, <3>6, ReplaceOK
    <3>8. SharedInv'
      BY <1>0, <2>1, <3>1, <1>5 DEF CInit, SharedInv, db, local, bounds, history
    <3> QED BY <3>7, <3>8 DEF IInv
  <2>4. CASE \E some \in SUBSET (new \cap inst) : k3s' = k3s \cup some /\ Fail(p, "c_defer")
    <3>1. OpInv'
      BY <1>0, <2>1, <2>4, FailOK DEF PC, StatePC, EarlyPC, CreatePC, JoinPC, UpgradePC
    <3>2. SharedInv'
      BY <1>0, <2>1, <2>4, <1>5 DEF CInit, SharedInv, db, local, bounds, history
    <3> QED BY <3>1, <3>2 DEF IInv
  <2> QED BY <1>5, <2>3, <2>4 DEF CInit
<1>6. ASSUME CCfg(p) PROVE IInv'
  <2>1. op[p].st \in RowType /\ op[p].st.status = "Creating"
    BY <1>0, <1>6 DEF CCfg, Held, PC, StatePC, EarlyPC, CreatePC, JoinPC, UpgradePC
  <2>2. OpInv'
    BY <1>0, <1>6, <2>1, GotoOK, FailOK DEF CCfg, PC, StatePC, EarlyPC, CreatePC, JoinPC, UpgradePC
  <2>3. SharedInv'
    BY <1>0, <1>6 DEF CCfg, SharedInv, db, cloud, local, bounds, history
  <2> QED BY <2>2, <2>3 DEF IInv
<1>7. ASSUME CRunning(p) PROVE IInv'
  <2>1. op[p].st \in RowType
    BY <1>0, <1>7 DEF CRunning, Held, PC, StatePC, EarlyPC, CreatePC, JoinPC, UpgradePC
  <2>2. OpInv'
    BY <1>0, <1>7, <2>1, GotoOK, FailOK DEF CRunning, PC, StatePC, EarlyPC, CreatePC, JoinPC, UpgradePC
  <2>3. [op[p].st EXCEPT !.status = "Running"] \in RowType
    BY <2>1 DEF RowType, Status
  <2>4. SharedInv'
    BY <1>0, <1>7, <2>3, SaveClusterOK DEF CRunning, SharedInv, db, cloud, local, bounds, history
  <2> QED BY <2>2, <2>4 DEF IInv
<1>8. ASSUME CExplorer(p) PROVE IInv'
  <2>1. op[p].st \in RowType
    BY <1>0, <1>8 DEF CExplorer, Held, PC, StatePC, EarlyPC, CreatePC, JoinPC, UpgradePC
  <2>2. OpInv'
    BY <1>0, <1>8, <2>1, GotoOK DEF CExplorer, PC, StatePC, EarlyPC, CreatePC, JoinPC, UpgradePC
  <2>3. SharedInv'
    BY <1>0, <1>8 DEF CExplorer, SharedInv, db, cloud, local, bounds, history
  <2> QED BY <2>2, <2>3 DEF IInv
<1>9. ASSUME CManifest(p) PROVE IInv'
  <2>1. op[p].st \in RowType
    BY <1>0, <1>9 DEF CManifest, Held, PC, StatePC, EarlyPC, CreatePC, JoinPC, UpgradePC
  <2>2. OpInv'
    BY <1>0, <1>9, <2>1, GotoOK, FailOK DEF CManifest, PC, StatePC, EarlyPC, CreatePC, JoinPC, UpgradePC
  <2>3. SharedInv'
    BY <1>0, <1>9 DEF CManifest, SharedInv, db, cloud, local, bounds, history
  <2> QED BY <2>2, <2>3 DEF IInv
<1>10. ASSUME CDefer(p) PROVE IInv'
  <2> DEFINE o == op[p]
             c == IF row = NoRow
                  THEN [o.st EXCEPT !.status = "", !.masters = {}, !.workers = {}]
                  ELSE row
             failed == [c EXCEPT !.status = IF o.er THEN "Failed" ELSE @]
             left == c.workers \ o.errM
             saved == IF o.errM # {} /\ c.workers # {}
                      THEN [failed EXCEPT !.workers = left, !.worker = Cardinality(left)]
                      ELSE failed
  <2>1. op[p].st \in RowType
    BY <1>0, <1>10 DEF CDefer, Held, PC, StatePC, EarlyPC, CreatePC, JoinPC, UpgradePC
  <2>2. c \in RowType
    BY <1>0, <2>1 DEF SharedInv, RowType, Status
  <2> HIDE DEF c
  <2>3. /\ failed \in RowType /\ c.workers \in SUBSET WorkerPool
        /\ o.er => failed.status = "Failed"
    BY <2>2 DEF RowType, Status
  <2>4. Cardinality(left) \in Nat /\ left \in SUBSET WorkerPool
    BY <2>3, NodeCount
  <2> HIDE DEF failed, left
  <2>5. saved \in RowType /\ (o.er => saved.status = "Failed")
    BY <2>3, <2>4 DEF RowType
  <2> HIDE DEF saved
  <2>6. \/ Return(p)
        \/ op' = [op EXCEPT ![p].pc = "c_write", ![p].st = saved]
        \/ Goto(p, "rollback")
    BY <1>10 DEF CDefer, c, failed, left, saved
  <2>7. OpInv'
    BY <1>0, <2>5, <2>6, GotoOK, KeepOK, ReturnOK
       DEF PC, StatePC, EarlyPC, CreatePC, JoinPC, UpgradePC
  <2>8. UNCHANGED <<db, cloud, local, bounds, history>>
    BY <1>10 DEF CDefer
  <2>9. SharedInv'
    BY <1>0, <2>8 DEF SharedInv, db, cloud, local, bounds, history
  <2> QED BY <2>7, <2>9 DEF IInv
<1>11. ASSUME CWrite(p) PROVE IInv'
  <2>1. op[p].st \in RowType
    BY <1>0, <1>11 DEF CWrite, Held, PC, StatePC, EarlyPC, CreatePC, JoinPC, UpgradePC
  <2>2. OpInv'
    BY <1>0, <1>11, GotoOK DEF CWrite, PC, StatePC, EarlyPC, CreatePC, JoinPC, UpgradePC
  <2>3. row' \in RowType \cup {NoRow} /\ gauge' \in [Version -> Int]
    BY <1>0, <1>11, <2>1, SaveClusterOK DEF CWrite, SharedInv, db
  <2>4. restored' \in BOOLEAN
    BY <1>0, <1>11 DEF CWrite, SharedInv
  <2>5. SharedInv'
    BY <1>0, <1>11, <2>3, <2>4 DEF CWrite, SharedInv, cloud, local, bounds
  <2> QED BY <2>2, <2>5 DEF IInv
<1> QED BY <1>1, <1>2, <1>3, <1>4, <1>5, <1>6, <1>7, <1>8, <1>9, <1>10, <1>11

(* of RollbackCluster,                                                     *)
LEMMA RollbackStepOK ==
  ASSUME IInv, NEW p \in Proc, RollbackInstances(p) \/ RollbackContext(p)
  PROVE  IInv'
<1>0. OpInv /\ SharedInv /\ op[p] \in OpType /\ Held(op[p])
  BY DEF IInv, OpInv
<1>1. ASSUME RollbackInstances(p) PROVE IInv'
  <2> DEFINE ids == RollbackIds(op[p])
  <2>1. ids \in SUBSET Instance
    BY <1>0 DEF RollbackIds, OpType
  <2> HIDE DEF ids
  <2>2. \/ Return(p) /\ UNCHANGED <<cloud, history>>
        \/ TerminateOK(ids) /\ Goto(p, "rollback_cfg")
        \/ TerminateFails(ids) /\ Return(p)
    BY <1>1 DEF RollbackInstances, ids
  <2>3. OpInv'
    BY <1>0, <2>2, GotoOK, ReturnOK DEF PC, StatePC, EarlyPC, CreatePC, JoinPC, UpgradePC
  <2>4. /\ inst' \subseteq Instance /\ untagged' \subseteq Instance /\ k3s' \subseteq Instance
        /\ {cloudFailed', panicked', restored', twice'} \subseteq BOOLEAN
    BY <1>0, <2>1, <2>2, TerminateInv DEF SharedInv, cloud, history
  <2>5. UNCHANGED <<db, local, bounds>>
    BY <1>1 DEF RollbackInstances
  <2>6. SharedInv'
    BY <1>0, <2>4, <2>5 DEF SharedInv, db, local, bounds
  <2> QED BY <2>3, <2>6 DEF IInv
<1>2. ASSUME RollbackContext(p) PROVE IInv'
  <2>1. OpInv'
    BY <1>0, <1>2, ReturnOK DEF RollbackContext
  <2>2. SharedInv'
    BY <1>0, <1>2 DEF RollbackContext, SharedInv, db, cloud, local, bounds, history
  <2> QED BY <2>1, <2>2 DEF IInv
<1> QED BY <1>1, <1>2

(* The process ends and is started again.                                  *)
LEMMA RestartOK ==
  ASSUME IInv, Restart, crashes' \in Nat, panicked' \in BOOLEAN
  PROVE  IInv'
<1>1. \A p \in Proc : op'[p] = Idle
  BY DEF Restart
<1>2. op' \in [Proc -> OpType]
  BY IdleHeld DEF Restart, Held
<1>3. OpInv'
  BY <1>1, <1>2, IdleHeld DEF OpInv, Held, Apart
<1>4. gauge' \in [Version -> Int]
  <2>1. \A v \in Version : (IF row # NoRow /\ row.version = v THEN 1 ELSE 0) \in Int
    OBVIOUS
  <2>2. gauge' = [v \in Version |-> IF row # NoRow /\ row.version = v THEN 1 ELSE 0]
    BY DEF Restart
  <2> QED BY <2>1, <2>2
<1>5. watching' \in BOOLEAN
  BY DEF Restart
<1>6. SharedInv'
  BY <1>4, <1>5 DEF Restart, IInv, SharedInv, cloud
<1> QED BY <1>3, <1>6 DEF IInv

(* of JoinNodes,                                                           *)
LEMMA JoinStepOK ==
  ASSUME IInv, NEW p \in Proc,
         JBegin(p) \/ JMasters(p) \/ JWorkers(p) \/ JSync(p) \/ JJoin(p) \/ JSave(p)
           \/ JDefer(p) \/ JDeferPanics(p)
  PROVE  IInv'
<1>0. OpInv /\ SharedInv /\ op[p] \in OpType /\ Held(op[p])
  BY DEF IInv, OpInv
<1> USE DEF At
<1>1. ASSUME JBegin(p) PROVE IInv'
  <2>1. op[p].st \in RowType
    BY <1>0, <1>1 DEF JBegin, Held, PC, StatePC, EarlyPC, CreatePC, JoinPC, UpgradePC
  <2>2. OpInv'
    BY <1>0, <1>1, <2>1, GotoOK, FailOK, ReturnOK DEF JBegin, PC, StatePC, EarlyPC, CreatePC, JoinPC, UpgradePC
  <2>3. row # NoRow => [row EXCEPT !.status = "Upgrading"] \in RowType
    BY <1>0 DEF SharedInv, RowType, Status
  <2>4. SharedInv'
    BY <1>0, <1>1, <2>3, SaveClusterStateOK DEF JBegin, SharedInv, db, cloud, local, bounds, history
  <2> QED BY <2>2, <2>4 DEF IInv
<1>2. ASSUME JMasters(p) PROVE IInv'
  <2>1. op[p].st \in RowType
    BY <1>0, <1>2 DEF JMasters, Held, PC, StatePC, EarlyPC, CreatePC, JoinPC, UpgradePC
  <2>2. MasterPool \in SUBSET Instance
    BY DEF Instance
  <2>3. "j_workers" \in (StatePC \cap PC) \ EarlyPC /\ "j_defer" \in PC \ EarlyPC
    BY DEF PC, StatePC, EarlyPC, CreatePC, JoinPC, UpgradePC
  <2> QED BY <1>2, <2>1, <2>2, <2>3, RunInstancesOK DEF JMasters
<1>3. ASSUME JWorkers(p) PROVE IInv'
  <2>1. op[p].st \in RowType
    BY <1>0, <1>3 DEF JWorkers, Held, PC, StatePC, EarlyPC, CreatePC, JoinPC, UpgradePC
  <2>2. WorkerPool \in SUBSET Instance
    BY DEF Instance
  <2>3. "j_sync" \in (StatePC \cap PC) \ EarlyPC /\ "j_defer" \in PC \ EarlyPC
    BY DEF PC, StatePC, EarlyPC, CreatePC, JoinPC, UpgradePC
  <2> QED BY <1>3, <2>1, <2>2, <2>3, RunInstancesOK DEF JWorkers
<1>4. ASSUME JSync(p) PROVE IInv'
  <2> DEFINE found == op[p].mine \cup inst
             st == [op[p].st EXCEPT !.masters = @ \cup (found \cap MasterPool),
                                    !.workers = @ \cup (found \cap WorkerPool)]
             o == [op[p] EXCEPT !.pc = "j_join", !.st = st]
  <2>1. op[p].st \in RowType
    BY <1>0, <1>4 DEF JSync, Held, PC, StatePC, EarlyPC, CreatePC, JoinPC, UpgradePC
  <2>2. st \in RowType
    BY <2>1 DEF RowType
  <2>3. ASSUME op' = [op EXCEPT ![p].pc = "j_join", ![p].st = st] PROVE OpInv'
    <3>1. op' = [op EXCEPT ![p] = o]
      BY <2>3, <1>0
    <3> HIDE DEF st
    <3>2. /\ o \in OpType /\ o.pc = "j_join" /\ o.st = st
          /\ o.mine = op[p].mine /\ o.errM = op[p].errM
      BY <1>0, <2>2 DEF OpType, PC, StatePC, EarlyPC, CreatePC, JoinPC, UpgradePC
    <3>3. Held(o)
      BY <1>0, <3>2, <2>2 DEF Held, PC, StatePC, EarlyPC, CreatePC, JoinPC, UpgradePC
    <3>4. \A q \in Proc \ {p} : o.mine \cap op[q].mine = {}
      BY <1>0, <3>2 DEF OpInv, Apart
    <3> HIDE DEF o
    <3> QED BY <1>0, <3>1, <3>3, <3>4, ReplaceOK
  <2>4. ASSUME Fail(p, "j_defer") PROVE OpInv'
    BY <1>0, <2>1, <2>4, FailOK DEF PC, StatePC, EarlyPC, CreatePC, JoinPC, UpgradePC
  <2>5. OpInv'
    BY <1>4, <2>3, <2>4 DEF JSync
  <2>6. SharedInv'
    BY <1>0, <1>4 DEF JSync, SharedInv, db, cloud, local, bounds, history
  <2> QED BY <2>5, <2>6 DEF IInv
<1>5. ASSUME JJoin(p) PROVE IInv'
  <2> DEFINE new == op[p].mine
  <2>1. op[p].st \in RowType /\ new \subseteq Instance
    BY <1>0, <1>5 DEF JJoin, Held, OpType, PC, StatePC, EarlyPC, CreatePC, JoinPC, UpgradePC
  <2>2. CASE \E bad \in SUBSET (new \cap WorkerPool) :
               /\ k3s' = k3s \cup (new \ bad)
               /\ op' = [op EXCEPT ![p].pc = "j_save", ![p].errM = bad]
    <3>1. PICK bad \in SUBSET (new \cap WorkerPool) :
               /\ k3s' = k3s \cup (new \ bad)
               /\ op' = [op EXCEPT ![p].pc = "j_save", ![p].errM = bad]
      BY <2>2
    <3> DEFINE o == [op[p] EXCEPT !.pc = "j_save", !.errM = bad]
    <3>2. op' = [op EXCEPT ![p] = o]
      BY <3>1, <1>0
    <3>3. /\ o \in OpType /\ o.pc = "j_save" /\ o.st = op[p].st
          /\ o.mine = new /\ o.errM = bad
      BY <1>0, <2>1 DEF OpType, PC, StatePC, EarlyPC, CreatePC, JoinPC, UpgradePC
    <3>4. Held(o)
      BY <3>3, <2>1 DEF Held, PC, StatePC, EarlyPC, CreatePC, JoinPC, UpgradePC
    <3>5. \A q \in Proc \ {p} : o.mine \cap op[q].mine = {}
      BY <1>0, <3>3 DEF OpInv, Apart
    <3> HIDE DEF o
    <3>6. OpInv'
      BY <1>0, <3>2, <3>4, <3>5, ReplaceOK
    <3>7. SharedInv'
      BY <1>0, <2>1, <3>1, <1>5 DEF JJoin, SharedInv, db, local, bounds, history
    <3> QED BY <3>6, <3>7 DEF IInv
  <2>3. CASE \E some \in SUBSET (new \cap inst) : k3s' = k3s \cup some /\ Fail(p, "j_defer")
    <3>1. OpInv'
      BY <1>0, <2>1, <2>3, FailOK DEF PC, StatePC, EarlyPC, CreatePC, JoinPC, UpgradePC
    <3>2. SharedInv'
      BY <1>0, <2>1, <2>3, <1>5 DEF JJoin, SharedInv, db, local, bounds, history
    <3> QED BY <3>1, <3>2 DEF IInv
  <2> QED BY <1>5, <2>2, <2>3 DEF JJoin
<1>6. ASSUME JSave(p) PROVE IInv'
  <2> DEFINE st == op[p].st
             saved == [st EXCEPT !.status = "Running", !.master = Cardinality(st.masters),
                                 !.worker = Cardinality(st.workers)]
  <2>1. st \in RowType /\ st.masters \in SUBSET MasterPool /\ st.workers \in SUBSET WorkerPool
    BY <1>0, <1>6 DEF JSave, Held, RowType, PC, StatePC, EarlyPC, CreatePC, JoinPC, UpgradePC
  <2>2. Cardinality(st.masters) \in Nat /\ Cardinality(st.workers) \in Nat
    BY <2>1, NodeCount
  <2>3. saved \in RowType
    BY <2>1, <2>2 DEF RowType, Status
  <2>4. OpInv'
    BY <1>0, <1>6, GotoOK DEF JSave, PC, StatePC, EarlyPC, CreatePC, JoinPC, UpgradePC
  <2>5. SaveCluster(saved) \/ UNCHANGED db
    BY <1>6 DEF JSave
  <2> HIDE DEF saved
  <2>6. row' \in RowType \cup {NoRow} /\ gauge' \in [Version -> Int]
    BY <1>0, <2>3, <2>5, SaveClusterOK DEF SharedInv, db
  <2>7. SharedInv'
    BY <1>0, <1>6, <2>6 DEF JSave, SharedInv, cloud, local, bounds, history
  <2> QED BY <2>4, <2>7 DEF IInv
<1>7. ASSUME JDefer(p) PROVE IInv'
  <2> DEFINE left == row.workers \ op[p].errM
             running == [row EXCEPT !.status = "Running"]
             saved == IF op[p].errM # {}
                      THEN [running EXCEPT !.workers = left, !.worker = Cardinality(left)]
                      ELSE running
  <2>1. row # NoRow => saved \in RowType
    <3> SUFFICES ASSUME row # NoRow PROVE saved \in RowType
      OBVIOUS
    <3>1. row \in RowType /\ left \in SUBSET WorkerPool
      BY <1>0 DEF SharedInv, RowType
    <3>2. running \in RowType
      BY <3>1 DEF RowType, Status
    <3>3. Cardinality(left) \in Nat
      BY <3>1, NodeCount
    <3> HIDE DEF running, left
    <3> QED BY <3>1, <3>2, <3>3 DEF RowType
  <2> HIDE DEF saved
  <2>2. \/ Return(p) /\ UNCHANGED db
        \/ row # NoRow /\ SaveClusterState(saved) /\ Goto(p, "rollback")
        \/ Goto(p, "rollback") /\ UNCHANGED db
    BY <1>7 DEF JDefer, saved
  <2>3. OpInv'
    BY <1>0, <2>2, GotoOK, ReturnOK DEF PC, StatePC, EarlyPC, CreatePC, JoinPC, UpgradePC
  <2>4. row' \in RowType \cup {NoRow} /\ gauge' \in [Version -> Int]
    BY <1>0, <2>1, <2>2, SaveClusterStateOK DEF SharedInv, db
  <2>5. UNCHANGED <<cloud, local, bounds, history>>
    BY <1>7 DEF JDefer
  <2>6. SharedInv'
    BY <1>0, <2>4, <2>5 DEF SharedInv, cloud, local, bounds, history
  <2> QED BY <2>3, <2>6 DEF IInv
<1>8. ASSUME JDeferPanics(p) PROVE IInv'
  BY <1>0, <1>8, RestartOK DEF JDeferPanics, SharedInv
<1> QED BY <1>1, <1>2, <1>3, <1>4, <1>5, <1>6, <1>7, <1>8

(* of UpgradeK3sCluster,                                                   *)
LEMMA UpgradeStepOK ==
  ASSUME IInv, NEW p \in Proc,
         UBegin(p) \/ UNodes(p) \/ UDefer(p) \/ UCCM(p)
  PROVE  IInv'
<1>0. OpInv /\ SharedInv /\ op[p] \in OpType /\ Held(op[p])
  BY DEF IInv, OpInv
<1> USE DEF At
<1>1. ASSUME UBegin(p) PROVE IInv'
  <2> DEFINE st == [row EXCEPT !.version = op[p].st.version]
             o == [op[p] EXCEPT !.pc = "u_nodes", !.st = st]
  <2>1. op[p].st.version \in Version
    BY <1>0, <1>1 DEF UBegin, Held, RowType, PC, StatePC, EarlyPC, CreatePC, JoinPC, UpgradePC
  <2>2. row # NoRow => st \in RowType /\ [row EXCEPT !.status = "Upgrading"] \in RowType
    BY <1>0, <2>1 DEF SharedInv, RowType, Status
  <2>3. ASSUME row # NoRow,
               op' = [op EXCEPT ![p].pc = "u_nodes",
                        ![p].st = [row EXCEPT !.version = op[p].st.version]]
        PROVE  OpInv'
    <3>1. op' = [op EXCEPT ![p] = o]
      BY <2>3, <1>0
    <3> HIDE DEF st
    <3>2. /\ o \in OpType /\ o.pc = "u_nodes" /\ o.st = st
          /\ o.mine = op[p].mine /\ o.errM = op[p].errM
      BY <1>0, <2>2, <2>3 DEF OpType, PC, StatePC, EarlyPC, CreatePC, JoinPC, UpgradePC
    <3>3. Held(o)
      BY <1>0, <3>2, <2>2, <2>3 DEF Held, PC, StatePC, EarlyPC, CreatePC, JoinPC, UpgradePC
    <3>4. \A q \in Proc \ {p} : o.mine \cap op[q].mine = {}
      BY <1>0, <3>2 DEF OpInv, Apart
    <3> HIDE DEF o
    <3> QED BY <1>0, <3>1, <3>3, <3>4, ReplaceOK
  <2>4. ASSUME Return(p) PROVE OpInv'
    BY <1>0, <2>4, ReturnOK
  <2>5. OpInv'
    BY <1>1, <2>3, <2>4 DEF UBegin
  <2>6. SharedInv'
    BY <1>0, <1>1, <2>2, SaveClusterStateOK DEF UBegin, SharedInv, db, cloud, local, bounds, history
  <2> QED BY <2>5, <2>6 DEF IInv
<1>2. ASSUME UNodes(p) PROVE IInv'
  <2>1. op[p].st \in RowType
    BY <1>0, <1>2 DEF UNodes, Held, PC, StatePC, EarlyPC, CreatePC, JoinPC, UpgradePC
  <2>2. OpInv'
    BY <1>0, <1>2, <2>1, GotoOK, FailOK DEF UNodes, PC, StatePC, EarlyPC, CreatePC, JoinPC, UpgradePC
  <2>3. SharedInv'
    BY <1>0, <1>2 DEF UNodes, SharedInv, db, cloud, local, bounds, history
  <2> QED BY <2>2, <2>3 DEF IInv
<1>3. ASSUME UDefer(p) PROVE IInv'
  <2>1. [op[p].st EXCEPT !.status = "Running"] \in RowType
    BY <1>0, <1>3 DEF UDefer, Held, RowType, Status, PC, StatePC, EarlyPC, CreatePC, JoinPC, UpgradePC
  <2>2. OpInv'
    BY <1>0, <1>3, GotoOK, ReturnOK DEF UDefer, PC, StatePC, EarlyPC, CreatePC, JoinPC, UpgradePC
  <2>3. SharedInv'
    BY <1>0, <1>3, <2>1, SaveClusterStateOK DEF UDefer, SharedInv, db, cloud, local, bounds, history
  <2> QED BY <2>2, <2>3 DEF IInv
<1>4. ASSUME UCCM(p) PROVE IInv'
  <2>1. OpInv'
    BY <1>0, <1>4, GotoOK, ReturnOK DEF UCCM, PC, StatePC, EarlyPC, CreatePC, JoinPC, UpgradePC
  <2>2. SharedInv'
    BY <1>0, <1>4 DEF UCCM, SharedInv, db, cloud, local, bounds, history
  <2> QED BY <2>1, <2>2 DEF IInv
<1> QED BY <1>1, <1>2, <1>3, <1>4

(* of DeleteCluster                                                        *)
LEMMA DeleteStepOK ==
  ASSUME IInv, NEW p \in Proc,
         DBegin(p) \/ DCloud(p) \/ DCfg(p) \/ DRow(p) \/ DDelete(p) \/ DCount(p) \/ DExplorer(p)
  PROVE  IInv'
<1>0. OpInv /\ SharedInv /\ op[p] \in OpType /\ Held(op[p])
  BY DEF IInv, OpInv
<1>1. ASSUME DBegin(p) PROVE IInv'
  <2>1. OpInv'
    BY <1>0, <1>1, GotoOK, ReturnOK DEF DBegin, PC, StatePC, EarlyPC, CreatePC, JoinPC, UpgradePC
  <2>2. row # NoRow => [row EXCEPT !.status = "Removing"] \in RowType
    BY <1>0 DEF SharedInv, RowType, Status
  <2>3. SharedInv'
    BY <1>0, <1>1, <2>2, SaveClusterStateOK DEF DBegin, SharedInv, db, cloud, local, bounds, history
  <2> QED BY <2>1, <2>3 DEF IInv
<1>2. ASSUME DCloud(p) PROVE IInv'
  <2>1. OpInv'
    BY <1>0, <1>2, GotoOK, ReturnOK DEF DCloud, PC, StatePC, EarlyPC, CreatePC, JoinPC, UpgradePC
  <2>2. inst \in SUBSET Instance
    BY <1>0 DEF SharedInv
  <2>3. /\ inst' \subseteq Instance /\ untagged' \subseteq Instance /\ k3s' \subseteq Instance
        /\ {cloudFailed', panicked', restored', twice'} \subseteq BOOLEAN
    BY <1>0, <1>2, <2>2, TerminateInv DEF DCloud, SharedInv, cloud, history
  <2>4. SharedInv'
    BY <1>0, <1>2, <2>3 DEF DCloud, SharedInv, db, local, bounds
  <2> QED BY <2>1, <2>4 DEF IInv
<1>3. ASSUME DCfg(p) PROVE IInv'
  <2>1. OpInv'
    BY <1>0, <1>3, GotoOK, ReturnOK DEF DCfg, PC, StatePC, EarlyPC, CreatePC, JoinPC, UpgradePC
  <2>2. SharedInv'
    BY <1>0, <1>3 DEF DCfg, SharedInv, db, cloud, local, bounds, history
  <2> QED BY <2>1, <2>2 DEF IInv
<1>4. ASSUME DRow(p) PROVE IInv'
  <2>1. row # NoRow => row \in RowType
    BY <1>0 DEF SharedInv
  <2>2. OpInv'
    BY <1>0, <1>4, <2>1, GotoOK, KeepOK, ReturnOK
       DEF DRow, PC, StatePC, EarlyPC, CreatePC, JoinPC, UpgradePC
  <2>3. SharedInv'
    BY <1>0, <1>4 DEF DRow, SharedInv, db, cloud, local, bounds, history
  <2> QED BY <2>2, <2>3 DEF IInv
<1>5. ASSUME DDelete(p) PROVE IInv'
  <2>1. op[p].st \in RowType
    BY <1>0, <1>5 DEF DDelete, At, Held, StatePC
  <2>2. OpInv'
    BY <1>0, <1>5, <2>1, GotoOK, ReturnOK DEF DDelete, PC, StatePC, EarlyPC, CreatePC, JoinPC, UpgradePC
  <2>3. twice' \in BOOLEAN
    BY <1>0, <1>5 DEF DDelete, SharedInv
  <2>4. SharedInv'
    BY <1>0, <1>5, <2>3 DEF DDelete, SharedInv, cloud, local, bounds
  <2> QED BY <2>2, <2>4 DEF IInv
<1>6. ASSUME DCount(p) PROVE IInv'
  <2>1. op[p].st \in RowType /\ op[p].st.version \in Version
    BY <1>0, <1>6 DEF DCount, At, Held, StatePC, RowType
  <2>2. OpInv'
    BY <1>0, <1>6, GotoOK DEF DCount, PC, StatePC, EarlyPC, CreatePC, JoinPC, UpgradePC
  <2>3. SharedInv'
    BY <1>0, <1>6, <2>1 DEF DCount, SharedInv, cloud, local, bounds, history
  <2> QED BY <2>2, <2>3 DEF IInv
<1>7. ASSUME DExplorer(p) PROVE IInv'
  <2>1. OpInv'
    BY <1>0, <1>7, ReturnOK DEF DExplorer
  <2>2. SharedInv'
    BY <1>0, <1>7 DEF DExplorer, SharedInv, db, cloud, local, bounds, history
  <2> QED BY <2>1, <2>2 DEF IInv
<1> QED BY <1>1, <1>2, <1>3, <1>4, <1>5, <1>6, <1>7

(* and of ListClusters.                                                    *)
LEMMA ListStepOK ==
  ASSUME IInv, NEW p \in Proc, LCloud(p) \/ LMark(p)
  PROVE  IInv'
<1>0. OpInv /\ SharedInv /\ op[p] \in OpType /\ Held(op[p])
  BY DEF IInv, OpInv
<1> USE DEF At
<1>1. ASSUME LCloud(p) PROVE IInv'
  <2>1. op[p].st \in RowType
    BY <1>0, <1>1 DEF LCloud, Held, PC, StatePC, EarlyPC, CreatePC, JoinPC, UpgradePC
  <2>2. OpInv'
    BY <1>0, <1>1, <2>1, GotoOK, ReturnOK DEF LCloud, PC, StatePC, EarlyPC, CreatePC, JoinPC, UpgradePC
  <2>3. SharedInv'
    BY <1>0, <1>1 DEF LCloud, SharedInv, db, cloud, local, bounds, history
  <2> QED BY <2>2, <2>3 DEF IInv
<1>2. ASSUME LMark(p) PROVE IInv'
  <2>1. [op[p].st EXCEPT !.status = "Missing"] \in RowType
    BY <1>0, <1>2 DEF LMark, Held, RowType, Status, PC, StatePC, EarlyPC, CreatePC, JoinPC, UpgradePC
  <2>2. OpInv'
    BY <1>0, <1>2, ReturnOK DEF LMark
  <2>3. SharedInv'
    BY <1>0, <1>2, <2>1, SaveClusterStateOK DEF LMark, SharedInv, db, cloud, local, bounds, history
  <2> QED BY <2>2, <2>3 DEF IInv
<1> QED BY <1>1, <1>2

(* Every step keeps the invariant.                                         *)
LEMMA NextOK ==
  ASSUME IInv, [Next]_vars
  PROVE  IInv'
<1>1. ASSUME NEW p \in Proc, Request(p) PROVE IInv'
  BY <1>1, RequestOK
<1>2. ASSUME NEW p \in Proc, Step(p) PROVE IInv'
  BY <1>2, CreateStepOK, RollbackStepOK, JoinStepOK, UpgradeStepOK, DeleteStepOK, ListStepOK
  DEF Step
<1>3. ASSUME CloudLoss PROVE IInv'
  <2>1. OpInv'
    BY <1>3 DEF CloudLoss, IInv, OpInv, Apart
  <2>2. SharedInv'
    BY <1>3 DEF CloudLoss, IInv, SharedInv, db, local, history
  <2> QED BY <2>1, <2>2 DEF IInv
<1>4. ASSUME Crash PROVE IInv'
  <2>1. crashes' \in Nat /\ panicked' \in BOOLEAN
    BY <1>4 DEF Crash, IInv, SharedInv
  <2> QED BY <1>4, <2>1, RestartOK DEF Crash
<1>5. ASSUME UNCHANGED vars PROVE IInv'
  <2>1. OpInv'
    BY <1>5 DEF vars, IInv, OpInv, Apart
  <2>2. SharedInv'
    BY <1>5 DEF vars, IInv, SharedInv, db, cloud, local, bounds, history
  <2> QED BY <2>1, <2>2 DEF IInv
<1> QED BY <1>1, <1>2, <1>3, <1>4, <1>5 DEF Next

(* It holds at the start,                                                  *)
LEMMA InitOK == Init => IInv
<1> SUFFICES ASSUME Init PROVE IInv
  OBVIOUS
<1>1. \A p \in Proc : op[p] = Idle
  BY DEF Init
<1>2. OpInv
  BY <1>1, IdleHeld DEF Init, OpInv, Held, Apart
<1>3. /\ row \in RowType \cup {NoRow}
      /\ inst \subseteq Instance /\ untagged \subseteq Instance /\ k3s \subseteq Instance
      /\ gauge \in [Version -> Int]
      /\ {started, losses, crashes} \subseteq Nat
  BY DEF Init
<1>4. /\ ctx \in BOOLEAN /\ watching \in BOOLEAN
      /\ cloudFailed \in BOOLEAN /\ panicked \in BOOLEAN
      /\ restored \in BOOLEAN /\ twice \in BOOLEAN
  BY DEF Init
<1>5. explorer \in {"none", "disabled", "enabled"}
  BY DEF Init
<1>6. SharedInv
  BY <1>3, <1>4, <1>5 DEF SharedInv
<1> QED BY <1>2, <1>6 DEF IInv

(* hence in every state.                                                   *)
LEMMA Invariance == Spec => []IInv
BY InitOK, NextOK, PTL DEF Spec

(* In every state the row, the cloud and what every operation of           *)
(* InitCluster, JoinNodes, UpgradeK3sCluster, DeleteCluster and            *)
(* ListClusters holds are well formed, whatever fails and whoever else     *)
(* writes the row.                                                         *)
THEOREM TypeCorrect == Spec => []TypeOK
<1>1. IInv => TypeOK
  BY DEF IInv, OpInv, SharedInv, TypeOK
<1> QED BY <1>1, Invariance, PTL
---------------------------------------------------------------------------
(* What a step does to the operations.                                     *)

(* A step of one goroutine, unless it panics, leaves the operations of the *)
(* others alone, and only RollbackInstances starts from "rollback".        *)
LEMMA OwnStep ==
  ASSUME OpInv, NEW q \in Proc, Step(q), ~JDeferPanics(q), ~RollbackInstances(q)
  PROVE  op[q].pc # "rollback" /\ \A p \in Proc \ {q} : op'[p] = op[p]
<1> USE DEF OpInv, At
<1>1. ASSUME CSave(q) PROVE op[q].pc # "rollback" /\ \A p \in Proc \ {q} : op'[p] = op[p]
  BY <1>1 DEF CSave, Goto, Fail
<1>2. ASSUME CKeys(q) PROVE op[q].pc # "rollback" /\ \A p \in Proc \ {q} : op'[p] = op[p]
  BY <1>2 DEF CKeys, Goto, Fail
<1>3. ASSUME CMasters(q) PROVE op[q].pc # "rollback" /\ \A p \in Proc \ {q} : op'[p] = op[p]
  BY <1>3 DEF CMasters, RunInstances, Fail
<1>4. ASSUME CWorkers(q) PROVE op[q].pc # "rollback" /\ \A p \in Proc \ {q} : op'[p] = op[p]
  BY <1>4 DEF CWorkers, RunInstances, Fail
<1>5. ASSUME CInit(q) PROVE op[q].pc # "rollback" /\ \A p \in Proc \ {q} : op'[p] = op[p]
  BY <1>5 DEF CInit, Fail
<1>6. ASSUME CCfg(q) PROVE op[q].pc # "rollback" /\ \A p \in Proc \ {q} : op'[p] = op[p]
  BY <1>6 DEF CCfg, Goto, Fail
<1>7. ASSUME CRunning(q) PROVE op[q].pc # "rollback" /\ \A p \in Proc \ {q} : op'[p] = op[p]
  BY <1>7 DEF CRunning, Goto, Fail
<1>8. ASSUME CExplorer(q) PROVE op[q].pc # "rollback" /\ \A p \in Proc \ {q} : op'[p] = op[p]
  BY <1>8 DEF CExplorer, Goto
<1>9. ASSUME CManifest(q) PROVE op[q].pc # "rollback" /\ \A p \in Proc \ {q} : op'[p] = op[p]
  BY <1>9 DEF CManifest, Goto, Fail
<1>10. ASSUME CDefer(q) PROVE op[q].pc # "rollback" /\ \A p \in Proc \ {q} : op'[p] = op[p]
  BY <1>10 DEF CDefer, Goto, Return
<1>11. ASSUME RollbackContext(q) PROVE op[q].pc # "rollback" /\ \A p \in Proc \ {q} : op'[p] = op[p]
  BY <1>11 DEF RollbackContext, Return
<1>12. ASSUME JBegin(q) PROVE op[q].pc # "rollback" /\ \A p \in Proc \ {q} : op'[p] = op[p]
  BY <1>12 DEF JBegin, Goto, Fail, Return
<1>13. ASSUME JMasters(q) PROVE op[q].pc # "rollback" /\ \A p \in Proc \ {q} : op'[p] = op[p]
  BY <1>13 DEF JMasters, RunInstances, Fail
<1>14. ASSUME JWorkers(q) PROVE op[q].pc # "rollback" /\ \A p \in Proc \ {q} : op'[p] = op[p]
  BY <1>14 DEF JWorkers, RunInstances, Fail
<1>15. ASSUME JSync(q) PROVE op[q].pc # "rollback" /\ \A p \in Proc \ {q} : op'[p] = op[p]
  BY <1>15 DEF JSync, Fail
<1>16. ASSUME JJoin(q) PROVE op[q].pc # "rollback" /\ \A p \in Proc \ {q} : op'[p] = op[p]
  BY <1>16 DEF JJoin, Fail
<1>17. ASSUME JSave(q) PROVE op[q].pc # "rollback" /\ \A p \in Proc \ {q} : op'[p] = op[p]
  BY <1>17 DEF JSave, Goto
<1>18. ASSUME JDefer(q) PROVE op[q].pc # "rollback" /\ \A p \in Proc \ {q} : op'[p] = op[p]
  BY <1>18 DEF JDefer, Goto, Return
<1>19. ASSUME UBegin(q) PROVE op[q].pc # "rollback" /\ \A p \in Proc \ {q} : op'[p] = op[p]
  BY <1>19 DEF UBegin, Return
<1>20. ASSUME UNodes(q) PROVE op[q].pc # "rollback" /\ \A p \in Proc \ {q} : op'[p] = op[p]
  BY <1>20 DEF UNodes, Goto, Fail
<1>21. ASSUME UDefer(q) PROVE op[q].pc # "rollback" /\ \A p \in Proc \ {q} : op'[p] = op[p]
  BY <1>21 DEF UDefer, Goto, Return
<1>22. ASSUME UCCM(q) PROVE op[q].pc # "rollback" /\ \A p \in Proc \ {q} : op'[p] = op[p]
  BY <1>22 DEF UCCM, Goto, Return
<1>23. ASSUME DBegin(q) PROVE op[q].pc # "rollback" /\ \A p \in Proc \ {q} : op'[p] = op[p]
  BY <1>23 DEF DBegin, Goto, Return
<1>24. ASSUME DCloud(q) PROVE op[q].pc # "rollback" /\ \A p \in Proc \ {q} : op'[p] = op[p]
  BY <1>24 DEF DCloud, Goto, Return
<1>25. ASSUME DCfg(q) PROVE op[q].pc # "rollback" /\ \A p \in Proc \ {q} : op'[p] = op[p]
  BY <1>25 DEF DCfg, Goto, Return
<1>26. ASSUME DRow(q) PROVE op[q].pc # "rollback" /\ \A p \in Proc \ {q} : op'[p] = op[p]
  BY <1>26 DEF DRow, Goto, Return
<1>27. ASSUME DExplorer(q) PROVE op[q].pc # "rollback" /\ \A p \in Proc \ {q} : op'[p] = op[p]
  BY <1>27 DEF DExplorer, Return
<1>28. ASSUME LCloud(q) PROVE op[q].pc # "rollback" /\ \A p \in Proc \ {q} : op'[p] = op[p]
  BY <1>28 DEF LCloud, Goto, Return
<1>29. ASSUME LMark(q) PROVE op[q].pc # "rollback" /\ \A p \in Proc \ {q} : op'[p] = op[p]
  BY <1>29 DEF LMark, Return
<1>30. ASSUME CWrite(q) PROVE op[q].pc # "rollback" /\ \A p \in Proc \ {q} : op'[p] = op[p]
  BY <1>30 DEF CWrite, Goto
<1>31. ASSUME DDelete(q) PROVE op[q].pc # "rollback" /\ \A p \in Proc \ {q} : op'[p] = op[p]
  BY <1>31 DEF DDelete, Goto, Return
<1>32. ASSUME DCount(q) PROVE op[q].pc # "rollback" /\ \A p \in Proc \ {q} : op'[p] = op[p]
  BY <1>32 DEF DCount, Goto
<1> QED BY <1>1, <1>2, <1>3, <1>4, <1>5, <1>6, <1>7, <1>8, <1>9, <1>10, <1>11, <1>12, <1>13, <1>14, <1>15, <1>16, <1>17, <1>18, <1>19, <1>20, <1>21, <1>22, <1>23, <1>24, <1>25, <1>26, <1>27, <1>28, <1>29, <1>30, <1>31, <1>32 DEF Step

(* A request changes the operation of its own goroutine only.              *)
LEMMA OwnRequest ==
  ASSUME OpInv, NEW q \in Proc, Request(q)
  PROVE  /\ op[q].pc = "idle" /\ \A p \in Proc \ {q} : op'[p] = op[p]
         /\ UNCHANGED <<row, inst, crashes, panicked, restored>>
<1>1. ASSUME NEW o, Start(q, o)
      PROVE  /\ op[q].pc = "idle" /\ \A p \in Proc \ {q} : op'[p] = op[p]
             /\ UNCHANGED <<row, inst, crashes, panicked, restored>>
  BY <1>1 DEF OpInv, Start, At, db, cloud, history
<1> QED BY <1>1 DEF Request, CreateRequest, JoinRequest, UpgradeRequest, DeleteRequest, ListRequest

---------------------------------------------------------------------------
(* RollbackCluster. *)

(* The instances a rollback terminates were created by the operation that  *)
(* failed, in InitCluster or JoinNodes: never one the cluster had before,  *)
(* never one of an operation that runs at the same time.                   *)
THEOREM RollbackOwn == Spec => RollbackOwnOnly
<1> DEFINE Good(p) == /\ inst \ inst' \subseteq op[p].mine
                      /\ \A q \in Proc \ {p} : (inst \ inst') \cap op[q].mine = {}
<1>1. ASSUME IInv, [Next]_vars, NEW p \in Proc, At(p, "rollback"), op'[p].pc # "rollback"
      PROVE  Good(p)
  <2>0. OpInv
    BY <1>1 DEF IInv
  <2>1. CASE \E q \in Proc : Request(q)
    BY <1>1, <2>0, <2>1, OwnRequest DEF At
  <2>2. ASSUME NEW q \in Proc, Step(q) PROVE Good(p)
    <3>1. CASE JDeferPanics(q)
      BY <3>1 DEF JDeferPanics, Restart, cloud
    <3>2. CASE RollbackInstances(q)
      <4>1. inst \ inst' \subseteq RollbackIds(op[q])
        BY <3>2 DEF RollbackInstances, TerminateOK, TerminateFails, cloud
      <4>2. RollbackIds(op[q]) \subseteq op[q].mine
        BY <2>0 DEF OpInv, Held, RollbackIds
      <4>3. CASE q = p
        <5>1. inst \ inst' \subseteq op[p].mine
          BY <4>1, <4>2, <4>3
        <5>2. \A r \in Proc \ {p} : op[p].mine \cap op[r].mine = {}
          BY <2>0 DEF OpInv, Apart
        <5> QED BY <5>1, <5>2
      <4>4. CASE q # p
        <5>1. op'[p] = op[p]
          BY <3>2, <2>0, <4>4 DEF RollbackInstances, Goto, Return, OpInv
        <5> QED BY <5>1, <1>1 DEF At
      <4> QED BY <4>3, <4>4
    <3>3. CASE ~JDeferPanics(q) /\ ~RollbackInstances(q)
      BY <1>1, <2>0, <2>2, <3>3, OwnStep DEF At
    <3> QED BY <3>1, <3>2, <3>3
  <2>3. CASE CloudLoss
    BY <1>1, <2>3 DEF CloudLoss, At
  <2>4. CASE Crash
    BY <2>4 DEF Crash, Restart, cloud
  <2>5. CASE UNCHANGED vars
    BY <2>5 DEF vars, cloud
  <2> QED BY <1>1, <2>1, <2>2, <2>3, <2>4, <2>5 DEF Next
<1>2. IInv /\ [Next]_vars =>
        [\A p \in Proc : (At(p, "rollback") /\ op'[p].pc # "rollback") => Good(p)]_vars
  BY <1>1
<1> QED BY <1>2, Invariance, PTL DEF Spec, RollbackOwnOnly

---------------------------------------------------------------------------
(* Creating and Upgrading have an owner. *)

(* The operation after a call that went well,                              *)
LEMMA GotoFields ==
  ASSUME OpInv, NEW q \in Proc, NEW l, Goto(q, l)
  PROVE  op'[q].pc = l /\ op'[q].er = op[q].er /\ op'[q].errM = op[q].errM
BY DEF OpInv, OpType, Goto

(* after one that did not,                                                 *)
LEMMA FailFields ==
  ASSUME OpInv, NEW q \in Proc, NEW l, Fail(q, l)
  PROVE  op'[q].pc = l /\ op'[q].er = TRUE /\ op'[q].errM = op[q].errM
BY DEF OpInv, OpType, Fail

(* and after runInstances.                                                 *)
LEMMA RunFields ==
  ASSUME OpInv, NEW q \in Proc, NEW pool, NEW n, NEW next, NEW onError,
         RunInstances(q, pool, n, next, onError)
  PROVE  op'[q].pc = next \/ (op'[q].pc = onError /\ op'[q].er = TRUE)
BY DEF OpInv, OpType, RunInstances, Fail

(* A step that keeps the status, and its own part as owner, keeps the      *)
(* property.                                                               *)
LEMMA Keep ==
  ASSUME InProgressHasOwner, NEW q \in Proc, \A p \in Proc \ {q} : op'[p] = op[p],
         Creator(op[q]) => Creator(op'[q]), Upgrader(op[q]) => Upgrader(op'[q]),
         row # NoRow, row'.status = row.status,
         ~DBFails, crashes = 0, ~panicked, ~restored
  PROVE  /\ row'.status = "Creating" => \E p \in Proc : Creator(op'[p])
         /\ row'.status = "Upgrading" => \E p \in Proc : Upgrader(op'[p])
<1>1. \A p \in Proc : /\ Creator(op[p]) => Creator(op'[p])
                      /\ Upgrader(op[p]) => Upgrader(op'[p])
  OBVIOUS
<1> QED BY <1>1 DEF InProgressHasOwner

(* One step keeps the owner of an unfinished status.                       *)
LEMMA StepOwned ==
  ASSUME IInv, InProgressHasOwner, NEW q \in Proc, Step(q),
         ~DBFails, row' # NoRow, crashes = 0, ~panicked, ~panicked', ~restored, ~restored'
  PROVE  /\ row'.status = "Creating" => \E p \in Proc : Creator(op'[p])
         /\ row'.status = "Upgrading" => \E p \in Proc : Upgrader(op'[p])
<1> DEFINE Owned == /\ row'.status = "Creating" => \E p \in Proc : Creator(op'[p])
                    /\ row'.status = "Upgrading" => \E p \in Proc : Upgrader(op'[p])
<1>0. OpInv /\ SharedInv /\ Held(op[q]) /\ op[q] \in OpType
  BY DEF IInv, OpInv
<1>1. ~JDeferPanics(q)
  BY DEF JDeferPanics
<1>2. ASSUME ~RollbackInstances(q) PROVE \A p \in Proc \ {q} : op'[p] = op[p]
  BY <1>0, <1>1, <1>2, OwnStep
<1>3. ASSUME row' = row, ~RollbackInstances(q),
             Creator(op[q]) => Creator(op'[q]), Upgrader(op[q]) => Upgrader(op'[q])
      PROVE  Owned
  BY <1>2, <1>3, Keep
<1> USE DEF At
<1>4. ASSUME CSave(q) PROVE Owned
  <2>1. row'.status = "Creating"
    BY <1>4, <1>0 DEF CSave, SaveCluster, Held, EarlyPC
  <2>2. Creator(op'[q])
    BY <1>4, <1>0, GotoFields DEF CSave, Creator, CreatePC, JoinPC, UpgradePC
  <2> QED BY <2>1, <2>2
<1>5. ASSUME CKeys(q) PROVE Owned
  <2>1. row' = row \/ row'.status = "Creating"
    BY <1>5, <1>0 DEF CKeys, SaveCluster, Held, EarlyPC, db, CreatePC, JoinPC, UpgradePC
  <2>2. Creator(op'[q])
    BY <1>5, <1>0, GotoFields, FailFields DEF CKeys, Creator, CreatePC, JoinPC, UpgradePC
  <2>3. ~Upgrader(op[q]) /\ ~RollbackInstances(q)
    BY <1>5 DEF CKeys, RollbackInstances, Upgrader, CreatePC, JoinPC, UpgradePC
  <2> QED BY <1>3, <2>1, <2>2, <2>3
<1>6. ASSUME CMasters(q) PROVE Owned
  <2>1. row' = row /\ ~RollbackInstances(q)
    BY <1>6 DEF CMasters, RollbackInstances, RunInstances, db
  <2>2. /\ Creator(op[q]) => Creator(op'[q])
        /\ Upgrader(op[q]) => Upgrader(op'[q])
    BY <1>6, <1>0, RunFields DEF CMasters, Creator, Upgrader, CreatePC, JoinPC, UpgradePC
  <2> QED BY <1>3, <2>1, <2>2
<1>7. ASSUME CWorkers(q) PROVE Owned
  <2>1. row' = row /\ ~RollbackInstances(q)
    BY <1>7 DEF CWorkers, RollbackInstances, RunInstances, db
  <2>2. /\ Creator(op[q]) => Creator(op'[q])
        /\ Upgrader(op[q]) => Upgrader(op'[q])
    BY <1>7, <1>0, RunFields DEF CWorkers, Creator, Upgrader, CreatePC, JoinPC, UpgradePC
  <2> QED BY <1>3, <2>1, <2>2
<1>8. ASSUME CInit(q) PROVE Owned
  <2>1. row' = row /\ ~RollbackInstances(q)
    BY <1>8 DEF CInit, RollbackInstances, db
  <2>2. op'[q].pc = "c_cfg" \/ (op'[q].pc = "c_defer" /\ op'[q].er = TRUE)
    <3>1. CASE Fail(q, "c_defer")
      BY <1>0, <3>1, FailFields
    <3>2. CASE ~Fail(q, "c_defer")
      <4>1. PICK bad, st : op' = [op EXCEPT ![q].pc = "c_cfg", ![q].errM = bad, ![q].st = st]
        BY <1>8, <3>2 DEF CInit
      <4> QED BY <1>0, <4>1 DEF OpInv, OpType
    <3> QED BY <3>1, <3>2
  <2>3. Creator(op'[q]) /\ ~Upgrader(op[q])
    BY <1>8, <2>2 DEF CInit, Creator, Upgrader, CreatePC, JoinPC, UpgradePC
  <2> QED BY <1>3, <2>1, <2>3
<1>9. ASSUME CCfg(q) PROVE Owned
  <2>1. row' = row /\ ~RollbackInstances(q)
    BY <1>9 DEF CCfg, RollbackInstances, RunInstances, db
  <2>2. /\ Creator(op[q]) => Creator(op'[q])
        /\ Upgrader(op[q]) => Upgrader(op'[q])
    BY <1>9, <1>0, GotoFields, FailFields DEF CCfg, Creator, Upgrader, CreatePC, JoinPC, UpgradePC
  <2> QED BY <1>3, <2>1, <2>2
<1>10. ASSUME CRunning(q) PROVE Owned
  <2>1. op[q].st \in RowType
    BY <1>10, <1>0 DEF CRunning, Held, StatePC, CreatePC
  <2>2. row'.status = "Running"
    BY <1>10, <2>1 DEF CRunning, SaveCluster, RowType
  <2> QED BY <2>2
<1>11. ASSUME CExplorer(q) PROVE Owned
  <2>1. row' = row /\ ~RollbackInstances(q)
    BY <1>11 DEF CExplorer, RollbackInstances, db
  <2>2. ~Creator(op[q]) /\ ~Upgrader(op[q])
    BY <1>11 DEF CExplorer, Creator, Upgrader, CreatePC, JoinPC, UpgradePC
  <2> QED BY <1>3, <2>1, <2>2
<1>12. ASSUME CManifest(q) PROVE Owned
  <2>1. row' = row /\ ~RollbackInstances(q)
    BY <1>12 DEF CManifest, RollbackInstances, db
  <2>2. ~Creator(op[q]) /\ ~Upgrader(op[q])
    BY <1>12 DEF CManifest, Creator, Upgrader, CreatePC, JoinPC, UpgradePC
  <2> QED BY <1>3, <2>1, <2>2
<1>13. ASSUME CDefer(q) PROVE Owned
  <2>1. row' = row /\ ~RollbackInstances(q)
    BY <1>13 DEF CDefer, RollbackInstances, db
  <2>2. ~Upgrader(op[q])
    BY <1>13 DEF CDefer, Upgrader, JoinPC, UpgradePC
  <2>3. Creator(op[q]) => Creator(op'[q])
    <3>1. CASE op[q].er
      <4>1. PICK r : op' = [op EXCEPT ![q].pc = "c_write", ![q].st = r]
        BY <1>13, <3>1 DEF CDefer
      <4>2. op'[q].pc = "c_write" /\ op'[q].er
        BY <1>0, <3>1, <4>1 DEF OpInv, OpType
      <4> QED BY <4>2 DEF Creator
    <3>2. CASE ~op[q].er
      BY <1>13, <3>2 DEF CDefer, Creator, CreatePC
    <3> QED BY <3>1, <3>2
  <2> QED BY <1>3, <2>1, <2>2, <2>3
<1>34. ASSUME CWrite(q) PROVE Owned
  <2> DEFINE st == op[q].st
  <2>1. st \in RowType /\ (op[q].er => st.status = "Failed")
    BY <1>34, <1>0 DEF CWrite, Held, StatePC
  <2>2. /\ row' = st
        /\ \/ st.status \notin {"Creating", "Upgrading"}
           \/ row # NoRow /\ row.status = st.status
    <3>1. row' = st
      BY <1>34 DEF CWrite, SaveCluster
    <3>2. restored' = (restored \/ (/\ st.status \in {"Creating", "Upgrading"}
                                    /\ row = NoRow \/ row.status # st.status))
      BY <1>34 DEF CWrite
    <3>3. ~(/\ st.status \in {"Creating", "Upgrading"}
            /\ row = NoRow \/ row.status # st.status)
      BY ONLY <3>2, ~restored'
    <3> QED BY <3>1, <3>3
  <2>3. CASE st.status \notin {"Creating", "Upgrading"}
    BY <2>2, <2>3
  <2>4. CASE st.status \in {"Creating", "Upgrading"}
    <3>1. row # NoRow /\ row'.status = row.status
      BY <2>2, <2>4
    <3>2. ~op[q].er
      BY <2>1, <2>4
    <3>3. ~Creator(op[q]) /\ ~Upgrader(op[q]) /\ ~RollbackInstances(q)
      BY <1>34, <3>2 DEF CWrite, Creator, Upgrader, RollbackInstances, CreatePC, JoinPC, UpgradePC
    <3> QED BY <1>2, <3>1, <3>3, Keep
  <2> QED BY <2>3, <2>4
<1>14. ASSUME RollbackInstances(q) PROVE Owned
  <2>1. row' = row /\ ~Creator(op[q]) /\ ~Upgrader(op[q])
    BY <1>14 DEF RollbackInstances, db, Creator, Upgrader, CreatePC, JoinPC, UpgradePC
  <2>2. \A p \in Proc \ {q} : op'[p] = op[p]
    BY <1>14, <1>0 DEF RollbackInstances, Goto, Return, OpInv
  <2> QED BY <2>1, <2>2, Keep
<1>15. ASSUME RollbackContext(q) PROVE Owned
  <2>1. row' = row /\ ~RollbackInstances(q)
    BY <1>15 DEF RollbackContext, RollbackInstances, db
  <2>2. ~Creator(op[q]) /\ ~Upgrader(op[q])
    BY <1>15 DEF RollbackContext, Creator, Upgrader, CreatePC, JoinPC, UpgradePC
  <2> QED BY <1>3, <2>1, <2>2
<1>16. ASSUME JBegin(q) PROVE Owned
  <2>1. row # NoRow
    BY <1>16 DEF JBegin, db
  <2>2. row'.status = "Upgrading" /\ Goto(q, "j_masters")
    BY <1>16, <1>0, <2>1 DEF JBegin, SaveClusterState, SharedInv, RowType
  <2>3. Upgrader(op'[q])
    BY <1>0, <2>2, GotoFields DEF Upgrader, JoinPC
  <2> QED BY <2>2, <2>3
<1>17. ASSUME JMasters(q) PROVE Owned
  <2>1. row' = row /\ ~RollbackInstances(q)
    BY <1>17 DEF JMasters, RollbackInstances, RunInstances, db
  <2>2. /\ Creator(op[q]) => Creator(op'[q])
        /\ Upgrader(op[q]) => Upgrader(op'[q])
    BY <1>17, <1>0, RunFields DEF JMasters, Creator, Upgrader, CreatePC, JoinPC, UpgradePC
  <2> QED BY <1>3, <2>1, <2>2
<1>18. ASSUME JWorkers(q) PROVE Owned
  <2>1. row' = row /\ ~RollbackInstances(q)
    BY <1>18 DEF JWorkers, RollbackInstances, RunInstances, db
  <2>2. /\ Creator(op[q]) => Creator(op'[q])
        /\ Upgrader(op[q]) => Upgrader(op'[q])
    BY <1>18, <1>0, RunFields DEF JWorkers, Creator, Upgrader, CreatePC, JoinPC, UpgradePC
  <2> QED BY <1>3, <2>1, <2>2
<1>19. ASSUME JSync(q) PROVE Owned
  <2>1. row' = row /\ ~RollbackInstances(q)
    BY <1>19 DEF JSync, RollbackInstances, db
  <2>2. op'[q].pc = "j_join" \/ (op'[q].pc = "j_defer" /\ op'[q].er = TRUE)
    BY <1>19, <1>0 DEF JSync, Fail, OpInv, OpType
  <2>3. Upgrader(op'[q]) /\ ~Creator(op[q])
    BY <1>19, <2>2 DEF JSync, Creator, Upgrader, CreatePC, JoinPC, UpgradePC
  <2> QED BY <1>3, <2>1, <2>3
<1>20. ASSUME JJoin(q) PROVE Owned
  <2>1. row' = row /\ ~RollbackInstances(q)
    BY <1>20 DEF JJoin, RollbackInstances, db
  <2>2. op'[q].pc = "j_save" \/ (op'[q].pc = "j_defer" /\ op'[q].er = TRUE)
    BY <1>20, <1>0 DEF JJoin, Fail, OpInv, OpType
  <2>3. Upgrader(op'[q]) /\ ~Creator(op[q])
    BY <1>20, <2>2 DEF JJoin, Creator, Upgrader, CreatePC, JoinPC, UpgradePC
  <2> QED BY <1>3, <2>1, <2>3
<1>21. ASSUME JSave(q) PROVE Owned
  <2>1. op[q].st \in RowType
    BY <1>21, <1>0 DEF JSave, Held, StatePC, JoinPC
  <2>2. row'.status = "Running"
    BY <1>21, <2>1 DEF JSave, SaveCluster, RowType
  <2> QED BY <2>2
<1>22. ASSUME JDefer(q) PROVE Owned
  <2>1. CASE op[q].er \/ op[q].errM # {}
    <3>1. row # NoRow
      BY <1>22, <2>1 DEF JDefer, SaveClusterState
    <3>2. row'.status = "Running"
      BY <1>22, <1>0, <2>1, <3>1 DEF JDefer, SaveClusterState, SharedInv, RowType
    <3> QED BY <3>2
  <2>2. CASE ~(op[q].er \/ op[q].errM # {})
    <3>1. row' = row /\ ~Creator(op[q]) /\ ~Upgrader(op[q]) /\ ~RollbackInstances(q)
      BY <1>22, <2>2 DEF JDefer, db, Creator, Upgrader, RollbackInstances, CreatePC, JoinPC, UpgradePC
    <3> QED BY <1>3, <3>1
  <2> QED BY <2>1, <2>2
<1>23. ASSUME UBegin(q) PROVE Owned
  <2>1. row # NoRow
    BY <1>23 DEF UBegin, db
  <2>2. row'.status = "Upgrading" /\ op'[q].pc = "u_nodes"
    BY <1>23, <1>0, <2>1 DEF UBegin, SaveClusterState, SharedInv, RowType, OpInv, OpType
  <2>3. Upgrader(op'[q])
    BY <2>2 DEF Upgrader, UpgradePC
  <2> QED BY <2>2, <2>3
<1>24. ASSUME UNodes(q) PROVE Owned
  <2>1. row' = row /\ ~RollbackInstances(q)
    BY <1>24 DEF UNodes, RollbackInstances, RunInstances, db
  <2>2. /\ Creator(op[q]) => Creator(op'[q])
        /\ Upgrader(op[q]) => Upgrader(op'[q])
    BY <1>24, <1>0, GotoFields, FailFields DEF UNodes, Creator, Upgrader, CreatePC, JoinPC, UpgradePC
  <2> QED BY <1>3, <2>1, <2>2
<1>25. ASSUME UDefer(q) PROVE Owned
  <2>1. op[q].st \in RowType
    BY <1>25, <1>0 DEF UDefer, Held, StatePC, UpgradePC
  <2>2. row'.status = "Running"
    BY <1>25, <2>1 DEF UDefer, SaveClusterState, RowType
  <2> QED BY <2>2
<1>26. ASSUME UCCM(q) PROVE Owned
  <2>1. row' = row /\ ~RollbackInstances(q)
    BY <1>26 DEF UCCM, RollbackInstances, db
  <2>2. ~Creator(op[q]) /\ ~Upgrader(op[q])
    BY <1>26 DEF UCCM, Creator, Upgrader, CreatePC, JoinPC, UpgradePC
  <2> QED BY <1>3, <2>1, <2>2
<1>27. ASSUME DBegin(q) PROVE Owned
  <2>1. row # NoRow
    BY <1>27 DEF DBegin, db, SaveClusterState
  <2>2. row'.status = "Removing"
    BY <1>27, <1>0, <2>1 DEF DBegin, SaveClusterState, SharedInv, RowType
  <2> QED BY <2>2
<1>28. ASSUME DCloud(q) PROVE Owned
  <2>1. row' = row /\ ~RollbackInstances(q)
    BY <1>28 DEF DCloud, RollbackInstances, db
  <2>2. ~Creator(op[q]) /\ ~Upgrader(op[q])
    BY <1>28 DEF DCloud, Creator, Upgrader, CreatePC, JoinPC, UpgradePC
  <2> QED BY <1>3, <2>1, <2>2
<1>29. ASSUME DCfg(q) PROVE Owned
  <2>1. row' = row /\ ~RollbackInstances(q)
    BY <1>29 DEF DCfg, RollbackInstances, db
  <2>2. ~Creator(op[q]) /\ ~Upgrader(op[q])
    BY <1>29 DEF DCfg, Creator, Upgrader, CreatePC, JoinPC, UpgradePC
  <2> QED BY <1>3, <2>1, <2>2
<1>30. ASSUME DRow(q) PROVE Owned
  <2>1. row' = row /\ ~RollbackInstances(q)
    BY <1>30 DEF DRow, RollbackInstances, db
  <2>2. ~Creator(op[q]) /\ ~Upgrader(op[q])
    BY <1>30 DEF DRow, Creator, Upgrader, CreatePC, JoinPC, UpgradePC
  <2> QED BY <1>3, <2>1, <2>2
<1>35. ASSUME DDelete(q) PROVE Owned
  BY <1>35 DEF DDelete
<1>36. ASSUME DCount(q) PROVE Owned
  <2>1. row' = row /\ ~RollbackInstances(q)
    BY <1>36 DEF DCount, RollbackInstances
  <2>2. ~Creator(op[q]) /\ ~Upgrader(op[q])
    BY <1>36 DEF DCount, Creator, Upgrader, CreatePC, JoinPC, UpgradePC
  <2> QED BY <1>3, <2>1, <2>2
<1>31. ASSUME DExplorer(q) PROVE Owned
  <2>1. row' = row /\ ~RollbackInstances(q)
    BY <1>31 DEF DExplorer, RollbackInstances, db
  <2>2. ~Creator(op[q]) /\ ~Upgrader(op[q])
    BY <1>31 DEF DExplorer, Creator, Upgrader, CreatePC, JoinPC, UpgradePC
  <2> QED BY <1>3, <2>1, <2>2
<1>32. ASSUME LCloud(q) PROVE Owned
  <2>1. row' = row /\ ~RollbackInstances(q)
    BY <1>32 DEF LCloud, RollbackInstances, db
  <2>2. ~Creator(op[q]) /\ ~Upgrader(op[q])
    BY <1>32 DEF LCloud, Creator, Upgrader, CreatePC, JoinPC, UpgradePC
  <2> QED BY <1>3, <2>1, <2>2
<1>33. ASSUME LMark(q) PROVE Owned
  <2>1. op[q].st \in RowType
    BY <1>33, <1>0 DEF LMark, Held, StatePC
  <2>2. row'.status = "Missing"
    BY <1>33, <2>1 DEF LMark, SaveClusterState, RowType
  <2> QED BY <2>2
<1> QED BY <1>1, <1>4, <1>5, <1>6, <1>7, <1>8, <1>9, <1>10, <1>11, <1>12, <1>13, <1>14, <1>15, <1>16, <1>17, <1>18, <1>19, <1>20, <1>21, <1>22, <1>23, <1>24, <1>25, <1>26, <1>27, <1>28, <1>29, <1>30, <1>31, <1>32, <1>33, <1>34, <1>35, <1>36 DEF Step

(* For any number of goroutines: a row that says Creating or Upgrading has *)
(* an operation at work that will replace the status, as long as the       *)
(* process lives and the database does not fail (the deferred functions of *)
(* InitCluster, JoinNodes and UpgradeK3sCluster), until a create writes    *)
(* back a status that was replaced between its read and its write.         *)
THEOREM StatusOwned == Spec => []InProgressHasOwner
<1>1. Init => InProgressHasOwner
  BY DEF Init, InProgressHasOwner
<1>2. ASSUME IInv, InProgressHasOwner, [Next]_vars PROVE InProgressHasOwner'
  <2> DEFINE Owned == /\ row'.status = "Creating" => \E p \in Proc : Creator(op'[p])
                      /\ row'.status = "Upgrading" => \E p \in Proc : Upgrader(op'[p])
  <2> SUFFICES ASSUME row' # NoRow, ~DBFails, crashes' = 0, ~panicked', ~restored' PROVE Owned
    BY DEF InProgressHasOwner, Creator, Upgrader
  <2>0. OpInv /\ crashes \in Nat /\ {panicked, restored} \subseteq BOOLEAN
    BY <1>2 DEF IInv, SharedInv
  <2>1. ASSUME NEW q \in Proc, Request(q) PROVE Owned
    <3>1. /\ op[q].pc = "idle" /\ \A p \in Proc \ {q} : op'[p] = op[p]
          /\ UNCHANGED <<row, inst, crashes, panicked, restored>>
      BY <2>0, <2>1, OwnRequest
    <3>2. ~Creator(op[q]) /\ ~Upgrader(op[q])
      BY <3>1 DEF Creator, Upgrader, CreatePC, JoinPC, UpgradePC
    <3> QED BY <1>2, <3>1, <3>2, Keep
  <2>2. ASSUME NEW q \in Proc, Step(q) PROVE Owned
    <3>1. crashes = 0 /\ ~panicked /\ ~restored
      <4>1. crashes' = crashes
        BY <2>2 DEF Step, CSave, CKeys, CMasters, CWorkers, CInit, CCfg, CRunning, CExplorer,
             CManifest, CDefer, CWrite, RollbackInstances, RollbackContext, JBegin, JMasters, JWorkers,
             JSync, JJoin, JSave, JDefer, JDeferPanics, UBegin, UNodes, UDefer, UCCM,
             DBegin, DCloud, DCfg, DRow, DDelete, DCount, DExplorer, LCloud, LMark, RunInstances, bounds
      <4>2. panicked' = panicked \/ panicked' = TRUE
        BY <2>2 DEF Step, CSave, CKeys, CMasters, CWorkers, CInit, CCfg, CRunning, CExplorer,
             CManifest, CDefer, CWrite, RollbackInstances, RollbackContext, JBegin, JMasters, JWorkers,
             JSync, JJoin, JSave, JDefer, JDeferPanics, UBegin, UNodes, UDefer, UCCM,
             DBegin, DCloud, DCfg, DRow, DDelete, DCount, DExplorer, LCloud, LMark, RunInstances,
             TerminateOK, TerminateFails, history
      <4>3. restored => restored'
        BY <2>2 DEF Step, CSave, CKeys, CMasters, CWorkers, CInit, CCfg, CRunning, CExplorer,
             CManifest, CDefer, CWrite, RollbackInstances, RollbackContext, JBegin, JMasters,
             JWorkers, JSync, JJoin, JSave, JDefer, JDeferPanics, Restart, UBegin, UNodes, UDefer,
             UCCM, DBegin, DCloud, DCfg, DRow, DDelete, DCount, DExplorer, LCloud, LMark,
             RunInstances, TerminateOK, TerminateFails, history
      <4> QED BY <4>1, <4>2, <4>3
    <3> QED BY <1>2, <2>2, <3>1, StepOwned
  <2>3. ASSUME CloudLoss PROVE Owned
    BY <1>2, <2>3 DEF CloudLoss, InProgressHasOwner, db, history
  <2>4. ASSUME Crash PROVE Owned
    BY <2>0, <2>4 DEF Crash
  <2>5. ASSUME UNCHANGED vars PROVE Owned
    BY <1>2, <2>5 DEF vars, InProgressHasOwner, db, bounds, history
  <2> QED BY <1>2, <2>1, <2>2, <2>3, <2>4, <2>5 DEF Next
<1> QED BY <1>1, <1>2, Invariance, PTL DEF Spec

---------------------------------------------------------------------------
(* One operation at a time: the commands of a user who waits for one to    *)
(* end before the next, or an API server whose requests do not overlap.    *)

OneAtATime == \E c : Proc = {c}

(* Where an operation counts on the row it has saved or found.             *)
CoverPC == CreatePC \cup {"c_explorer", "c_manifest"} \cup JoinPC \cup {"j_defer"}

(* An operation that will create instances has the row, and one that is    *)
(* about to delete the row has terminated all of them.                     *)
CoverInv ==
  /\ RowCoversInstances
  /\ \A p \in Proc : /\ op[p].pc \in CoverPC => row # NoRow
                     /\ op[p].pc \in {"d_cfg", "d_row", "d_delete"} => inst = {}

(* No create or join is under way when a delete, with the instances gone,  *)
(* goes on to the context and the row. Creates, joins, upgrades and lists  *)
(* may overlap with each other, and deletes with deletes.                  *)
DeletesApart ==
  \A p \in Proc, q \in Proc :
    p # q /\ op[p].pc \in {"d_cfg", "d_row", "d_delete"} => op[q].pc \notin CoverPC

(* What the row is after one of the saves.                                 *)
LEMMA SavesRow ==
  ASSUME NEW r \in RowType
  PROVE  /\ SaveCluster(r) => row' = r /\ row' # NoRow
         /\ SaveClusterState(r) /\ row # NoRow => row' = r /\ row' # NoRow
         /\ SaveClusterState(r) /\ row = NoRow => row' = NoRow
BY NoRowAssumption DEF SaveCluster, SaveClusterState

(* The operation after Return, and after a restart of the process.         *)
LEMMA ReturnFields ==
  ASSUME OpInv, NEW q \in Proc, Return(q)
  PROVE  op'[q] = Idle /\ op'[q].pc = "idle"
BY DEF OpInv, Return, Idle

(* The rows that are saved are rows: a step of an operation leaves the     *)
(* database alone, saves one, deletes or counts the row or ends the        *)
(* process.                                                                *)
LEMMA DbStep ==
  ASSUME IInv, NEW p \in Proc, Step(p)
  PROVE  \/ UNCHANGED db
         \/ \E r \in RowType : SaveCluster(r) \/ SaveClusterState(r)
         \/ DDelete(p) \/ DCount(p)
         \/ JDeferPanics(p)
<1> DEFINE Db == \/ UNCHANGED db
                 \/ \E r \in RowType : SaveCluster(r) \/ SaveClusterState(r)
<1>0. SharedInv /\ Held(op[p]) /\ op[p] \in OpType
  BY DEF IInv, OpInv
<1>1. ASSUME op[p].pc \in StatePC PROVE op[p].st \in RowType
  BY <1>0, <1>1 DEF Held
<1>2. \A r \in RowType, s \in Status : [r EXCEPT !.status = s] \in RowType
  BY DEF RowType
<1>3. row # NoRow => row \in RowType
  BY <1>0 DEF SharedInv
<1>4. {"Running", "Upgrading", "Removing", "Missing", "Failed"} \subseteq Status
  BY DEF Status
<1>5. CASE CSave(p) \/ CKeys(p) \/ CRunning(p)
  <2>1. op[p].st \in RowType
    BY <1>1, <1>5 DEF CSave, CKeys, CRunning, At, StatePC, CreatePC
  <2>2. [op[p].st EXCEPT !.status = "Running"] \in RowType
    BY <1>2, <1>4, <2>1
  <2> QED BY <1>5, <2>1, <2>2 DEF CSave, CKeys, CRunning
<1>6. CASE CWrite(p)
  <2>1. op[p].st \in RowType
    BY <1>1, <1>6 DEF CWrite, At, StatePC
  <2> QED BY <1>6, <2>1 DEF CWrite
<1>7. CASE JSave(p)
  <2> DEFINE st == op[p].st
             saved == [st EXCEPT !.status = "Running", !.master = Cardinality(st.masters),
                                 !.worker = Cardinality(st.workers)]
  <2>1. st \in RowType
    BY <1>1, <1>7 DEF JSave, At, StatePC, JoinPC
  <2>2. st.masters \in SUBSET MasterPool /\ st.workers \in SUBSET WorkerPool
    BY <2>1 DEF RowType
  <2>3. Cardinality(st.masters) \in Nat /\ Cardinality(st.workers) \in Nat
    BY <2>2, NodeCount
  <2>4. saved \in RowType
    BY <2>1, <2>3 DEF RowType, Status
  <2>5. SaveCluster(saved) \/ UNCHANGED db
    BY <1>7 DEF JSave
  <2> HIDE DEF saved
  <2> QED BY <2>4, <2>5
<1>8. CASE JDefer(p)
  <2> DEFINE left == row.workers \ op[p].errM
             running == [row EXCEPT !.status = "Running"]
             saved == IF op[p].errM # {}
                      THEN [running EXCEPT !.workers = left, !.worker = Cardinality(left)]
                      ELSE running
  <2>1. UNCHANGED db \/ (row # NoRow /\ SaveClusterState(saved))
    BY <1>8 DEF JDefer
  <2>2. ASSUME row # NoRow PROVE saved \in RowType
    <3>1. running \in RowType /\ left \in SUBSET WorkerPool
      BY <1>2, <1>3, <1>4, <2>2 DEF RowType
    <3>2. Cardinality(left) \in Nat
      BY <3>1, NodeCount
    <3> HIDE DEF running, left
    <3> QED BY <3>1, <3>2 DEF RowType
  <2> HIDE DEF saved
  <2> QED BY <2>1, <2>2
<1>9. CASE JBegin(p) \/ UBegin(p) \/ DBegin(p)
  <2>1. row # NoRow => /\ [row EXCEPT !.status = "Upgrading"] \in RowType
                       /\ [row EXCEPT !.status = "Removing"] \in RowType
    BY <1>2, <1>3, <1>4
  <2> QED BY <1>9, <2>1 DEF JBegin, UBegin, DBegin
<1>10. CASE UDefer(p) \/ LMark(p)
  <2>1. op[p].st \in RowType
    BY <1>1, <1>10 DEF UDefer, LMark, At, StatePC, UpgradePC
  <2>2. /\ [op[p].st EXCEPT !.status = "Running"] \in RowType
        /\ [op[p].st EXCEPT !.status = "Missing"] \in RowType
    BY <1>2, <1>4, <2>1
  <2> QED BY <1>10, <2>2 DEF UDefer, LMark
<1>11. CASE \/ CMasters(p) \/ CWorkers(p) \/ CInit(p) \/ CCfg(p) \/ CExplorer(p) \/ CManifest(p)
            \/ RollbackInstances(p) \/ RollbackContext(p)
            \/ JMasters(p) \/ JWorkers(p) \/ JSync(p) \/ JJoin(p) \/ UNodes(p) \/ UCCM(p)
            \/ CDefer(p) \/ DCloud(p) \/ DCfg(p) \/ DRow(p) \/ DExplorer(p) \/ LCloud(p)
  <2>1. UNCHANGED db
    BY <1>11 DEF CMasters, CWorkers, CInit, CCfg, CExplorer, CManifest, RollbackInstances,
         RollbackContext, JMasters, JWorkers, JSync, JJoin, UNodes, UCCM, CDefer, DCloud, DCfg,
         DRow, DExplorer, LCloud, RunInstances
  <2> QED BY <2>1
<1> QED BY <1>5, <1>6, <1>7, <1>8, <1>9, <1>10, <1>11 DEF Step

(* A step makes instances only where it counts on the row.                 *)
LEMMA MakesCovered ==
  ASSUME NEW p \in Proc, Step(p)
  PROVE  inst' \subseteq inst \/ op[p].pc \in CoverPC
<1>1. CASE CMasters(p) \/ CWorkers(p) \/ JMasters(p) \/ JWorkers(p)
  BY <1>1 DEF CMasters, CWorkers, JMasters, JWorkers, At, CoverPC, CreatePC, JoinPC
<1>2. CASE RollbackInstances(p) \/ DCloud(p)
  BY <1>2 DEF RollbackInstances, DCloud, cloud, TerminateOK, TerminateFails
<1>3. CASE JDeferPanics(p)
  BY <1>3 DEF JDeferPanics, Restart, cloud
<1> QED BY <1>1, <1>2, <1>3 DEF Step, CSave, CKeys, CInit, CCfg, CRunning, CExplorer, CManifest,
         CDefer, CWrite, RollbackContext, JBegin, JSync, JJoin, JSave, JDefer, UBegin, UNodes,
         UDefer, UCCM, DBegin, DCfg, DRow, DDelete, DCount, DExplorer, LCloud, LMark, cloud

(* A step keeps the row over the instances, its own and the others'.       *)
LEMMA CoverStep ==
  ASSUME DeletesApart, IInv, CoverInv, NEW p \in Proc, Step(p)
  PROVE  CoverInv'
<1> DEFINE Good == /\ inst' # {} => row' # NoRow
                   /\ op'[p].pc \in CoverPC => row' # NoRow
                   /\ op'[p].pc \in {"d_cfg", "d_row", "d_delete"} => inst' = {}
<1>0. OpInv /\ SharedInv /\ op[p] \in OpType /\ Held(op[p])
  BY DEF IInv, OpInv
<1>00. /\ inst # {} => row # NoRow
       /\ op[p].pc \in CoverPC => row # NoRow
       /\ op[p].pc \in {"d_cfg", "d_row", "d_delete"} => inst = {}
  BY DEF CoverInv, RowCoversInstances
<1>000. \A q \in Proc \ {p} : op'[q] = op[q] \/ op'[q].pc = "idle"
  <2>1. CASE JDeferPanics(p)
    BY <2>1 DEF JDeferPanics, Restart, Idle
  <2>2. CASE RollbackInstances(p)
    BY <1>0, <2>2 DEF RollbackInstances, Goto, Return, OpInv
  <2> QED BY <1>0, <2>1, <2>2, OwnStep
<1>01. ASSUME NEW q \in Proc \ {p}, op[q].pc \in CoverPC PROVE row' # NoRow
  <2>1. row # NoRow /\ op[p].pc # "d_delete"
    BY <1>01 DEF CoverInv, DeletesApart
  <2>2. ~DDelete(p) /\ ~JDeferPanics(p)
    BY <2>1 DEF DDelete, JDeferPanics, At
  <2>3. DCount(p) => row' = row
    BY DEF DCount
  <2> QED BY <2>1, <2>2, <2>3, DbStep, SavesRow DEF db
<1>02. ASSUME NEW q \in Proc \ {p}, op[q].pc \in {"d_cfg", "d_row", "d_delete"} PROVE inst' = {}
  <2>1. inst = {} /\ op[p].pc \notin CoverPC
    BY <1>02 DEF CoverInv, DeletesApart
  <2> QED BY <2>1, MakesCovered
<1> SUFFICES Good
  <2> SUFFICES ASSUME Good PROVE CoverInv'
    OBVIOUS
  <2>1. ASSUME NEW q \in Proc
        PROVE  /\ op'[q].pc \in CoverPC => row' # NoRow
               /\ op'[q].pc \in {"d_cfg", "d_row", "d_delete"} => inst' = {}
    <3>1. "idle" \notin CoverPC \cup {"d_cfg", "d_row", "d_delete"}
      BY DEF CoverPC, CreatePC, JoinPC
    <3> QED BY <1>000, <1>01, <1>02, <3>1
  <2> QED BY <2>1 DEF CoverInv, RowCoversInstances
<1> USE DEF At
<1>1. ASSUME CSave(p) \/ CKeys(p) PROVE Good
  <2>1. op[p].st \in RowType /\ op[p].pc \in {"c_save", "c_keys"}
    BY <1>0, <1>1 DEF CSave, CKeys, Held, StatePC, CreatePC
  <2>2. inst' = inst /\ op'[p].pc \in {"c_keys", "c_masters", "c_defer"}
    BY <1>0, <1>1, GotoFields, FailFields DEF CSave, CKeys, cloud
  <2>3. \/ row' # NoRow
        \/ row' = row /\ (op[p].pc = "c_keys" \/ op'[p].pc = "c_defer")
    BY <1>0, <1>1, <2>1, SavesRow, FailFields DEF CSave, CKeys, db
  <2> QED BY <1>00, <2>1, <2>2, <2>3 DEF CoverPC, CreatePC, JoinPC
<1>2. ASSUME CMasters(p) \/ CWorkers(p) \/ JMasters(p) \/ JWorkers(p) PROVE Good
  <2>1. op[p].pc \in CoverPC /\ row' = row
    BY <1>2 DEF CMasters, CWorkers, JMasters, JWorkers, RunInstances, db, CoverPC, CreatePC, JoinPC
  <2>2. op'[p].pc \in {"c_workers", "c_init", "j_workers", "j_sync", "c_defer", "j_defer"}
    BY <1>0, <1>2, RunFields DEF CMasters, CWorkers, JMasters, JWorkers
  <2> QED BY <1>00, <2>1, <2>2
<1>3. ASSUME CInit(p) \/ JSync(p) \/ JJoin(p) PROVE Good
  <2>1. op[p].pc \in CoverPC /\ row' = row
    BY <1>3 DEF CInit, JSync, JJoin, db, CoverPC, CreatePC, JoinPC
  <2>2. op'[p].pc \in {"c_cfg", "j_join", "j_save", "c_defer", "j_defer"}
    <3>1. CASE Fail(p, "c_defer") \/ Fail(p, "j_defer")
      BY <1>0, <3>1, FailFields
    <3>2. CASE CInit(p) /\ ~Fail(p, "c_defer")
      <4>1. PICK bad, st : op' = [op EXCEPT ![p].pc = "c_cfg", ![p].errM = bad, ![p].st = st]
        BY <3>2 DEF CInit
      <4> QED BY <1>0, <4>1 DEF OpInv, OpType
    <3>3. CASE JSync(p) /\ ~Fail(p, "j_defer")
      <4>1. PICK st : op' = [op EXCEPT ![p].pc = "j_join", ![p].st = st]
        BY <3>3 DEF JSync
      <4> QED BY <1>0, <4>1 DEF OpInv, OpType
    <3>4. CASE JJoin(p) /\ ~Fail(p, "j_defer")
      <4>1. PICK bad : op' = [op EXCEPT ![p].pc = "j_save", ![p].errM = bad]
        BY <3>4 DEF JJoin
      <4> QED BY <1>0, <4>1 DEF OpInv, OpType
    <3> QED BY <1>3, <3>1, <3>2, <3>3, <3>4
  <2> QED BY <1>00, <2>1, <2>2
<1>4. ASSUME CCfg(p) \/ CExplorer(p) \/ CManifest(p) PROVE Good
  <2>1. op[p].pc \in CoverPC /\ row' = row
    BY <1>4 DEF CCfg, CExplorer, CManifest, db, CoverPC, CreatePC, JoinPC
  <2>2. op'[p].pc \in {"c_running", "c_manifest", "c_defer"}
    BY <1>0, <1>4, GotoFields, FailFields DEF CCfg, CExplorer, CManifest
  <2> QED BY <1>00, <2>1, <2>2
<1>5. ASSUME CRunning(p) PROVE Good
  <2>1. op[p].pc \in CoverPC
    BY <1>5 DEF CRunning, CoverPC, CreatePC
  <2>2. [op[p].st EXCEPT !.status = "Running"] \in RowType
    BY <1>0, <1>5 DEF CRunning, Held, StatePC, CreatePC, RowType, Status
  <2>3. row' # NoRow
    BY <1>00, <1>5, <2>1, <2>2, SavesRow DEF CRunning, db
  <2>4. op'[p].pc \in {"c_explorer", "c_defer"}
    BY <1>0, <1>5, GotoFields, FailFields DEF CRunning
  <2> QED BY <2>3, <2>4
<1>6. ASSUME CDefer(p) \/ CWrite(p) PROVE Good
  <2>1. op'[p].pc \in {"idle", "c_write", "rollback"} /\ inst' = inst
    <3>1. CASE Goto(p, "rollback") \/ Return(p)
      BY <1>0, <1>6, <3>1, GotoFields, ReturnFields DEF CDefer, CWrite, cloud
    <3>2. CASE ~(Goto(p, "rollback") \/ Return(p))
      <4>1. PICK r : op' = [op EXCEPT ![p].pc = "c_write", ![p].st = r]
        BY <1>6, <3>2 DEF CDefer, CWrite
      <4> QED BY <1>0, <1>6, <4>1 DEF CDefer, CWrite, OpInv, OpType, cloud
    <3> QED BY <3>1, <3>2
  <2>2. row # NoRow => row' # NoRow
    <3>1. CASE CDefer(p)
      BY <3>1 DEF CDefer, db
    <3>2. CASE CWrite(p)
      BY <1>0, <3>2, SavesRow DEF CWrite, Held, StatePC, db
    <3> QED BY <1>6, <3>1, <3>2
  <2> QED BY <1>00, <2>1, <2>2 DEF CoverPC, CreatePC, JoinPC
<1>7. ASSUME RollbackInstances(p) PROVE Good
  <2>1. row' = row /\ inst' \subseteq inst
    BY <1>7 DEF RollbackInstances, db, cloud, TerminateOK, TerminateFails
  <2>2. op'[p].pc \in {"idle", "rollback_cfg"}
    BY <1>0, <1>7, GotoFields, ReturnFields DEF RollbackInstances
  <2> QED BY <1>00, <2>1, <2>2 DEF CoverPC, CreatePC, JoinPC
<1>8. ASSUME RollbackContext(p) \/ LCloud(p) \/ UCCM(p) \/ UNodes(p) \/ DExplorer(p) PROVE Good
  <2>1. row' = row /\ inst' = inst
    BY <1>8 DEF RollbackContext, LCloud, UCCM, UNodes, DExplorer, db, cloud
  <2>2. op'[p].pc \in {"idle", "l_mark", "u_defer"}
    BY <1>0, <1>8, GotoFields, FailFields, ReturnFields
       DEF RollbackContext, LCloud, UCCM, UNodes, DExplorer
  <2> QED BY <1>00, <2>1, <2>2 DEF CoverPC, CreatePC, JoinPC
<1>9. ASSUME JBegin(p) PROVE Good
  <2>1. row # NoRow => row \in RowType /\ [row EXCEPT !.status = "Upgrading"] \in RowType
    BY <1>0 DEF SharedInv, RowType, Status
  <2>2. inst' = inst /\ op'[p].pc \in {"idle", "j_masters", "j_defer"}
    BY <1>0, <1>9, GotoFields, FailFields, ReturnFields DEF JBegin, cloud
  <2>3. (row # NoRow /\ row' # NoRow) \/ (op'[p].pc = "idle" /\ row' = row)
    BY <1>0, <1>9, <2>1, SavesRow, ReturnFields DEF JBegin, db
  <2> QED BY <1>00, <2>2, <2>3 DEF CoverPC, CreatePC, JoinPC
<1>10. ASSUME JSave(p) PROVE Good
  <2> DEFINE m == Cardinality(op[p].st.masters)
             w == Cardinality(op[p].st.workers)
             r == [op[p].st EXCEPT !.status = "Running", !.master = m, !.worker = w]
  <2>1. op[p].pc \in CoverPC /\ op[p].st \in RowType
    BY <1>0, <1>10 DEF JSave, Held, StatePC, CoverPC, JoinPC
  <2>2. m \in Nat /\ w \in Nat
    BY <2>1, NodeCount DEF RowType
  <2> HIDE DEF m, w
  <2>3. r \in RowType
    BY <2>1, <2>2 DEF RowType, Status
  <2>4. row' # NoRow
    BY <1>00, <1>10, <2>1, <2>3, SavesRow DEF JSave, db, m, w
  <2>5. op'[p].pc = "j_defer"
    BY <1>0, <1>10, GotoFields DEF JSave
  <2> QED BY <2>4, <2>5
<1>11. ASSUME JDefer(p) PROVE Good
  <2>1. op'[p].pc \in {"idle", "rollback"} /\ inst' = inst
    BY <1>0, <1>11, GotoFields, ReturnFields DEF JDefer, cloud
  <2>2. row # NoRow
    BY <1>00, <1>11 DEF JDefer, CoverPC
  <2>3. row' # NoRow
    <3> DEFINE left == row.workers \ op[p].errM
               running == [row EXCEPT !.status = "Running"]
               saved == IF op[p].errM # {}
                        THEN [running EXCEPT !.workers = left, !.worker = Cardinality(left)]
                        ELSE running
    <3>1. row \in RowType /\ left \subseteq WorkerPool /\ Cardinality(left) \in Nat
      BY <1>0, <2>2, NodeCount DEF SharedInv, RowType
    <3>2. row' = row \/ row' = saved
      BY <1>11, <2>2 DEF JDefer, SaveClusterState, db
    <3> HIDE DEF left
    <3>3. running \in RowType
      BY <3>1 DEF RowType, Status
    <3>4. saved \in RowType
      BY <3>1, <3>3 DEF RowType
    <3> QED BY <2>2, <3>2, <3>4, NoRowAssumption
  <2> QED BY <2>1, <2>3 DEF CoverPC, CreatePC, JoinPC
<1>12. ASSUME JDeferPanics(p) PROVE Good
  <2>1. op'[p].pc = "idle" /\ row' = row /\ inst' = inst
    BY <1>12 DEF JDeferPanics, Restart, Idle, cloud
  <2> QED BY <1>00, <2>1 DEF CoverPC, CreatePC, JoinPC
<1>13. ASSUME UBegin(p) PROVE Good
  <2>1. row # NoRow => row \in RowType /\ [row EXCEPT !.status = "Upgrading"] \in RowType
    BY <1>0 DEF SharedInv, RowType, Status
  <2>2. inst' = inst /\ op'[p].pc \in {"idle", "u_nodes"}
    BY <1>0, <1>13, ReturnFields DEF UBegin, cloud, OpInv, OpType
  <2>3. row # NoRow => row' # NoRow
    BY <1>13, <2>1, SavesRow DEF UBegin, db
  <2> QED BY <1>00, <2>2, <2>3 DEF CoverPC, CreatePC, JoinPC
<1>14. ASSUME UDefer(p) \/ LMark(p) PROVE Good
  <2>1. op[p].st \in RowType
    BY <1>0, <1>14 DEF UDefer, LMark, Held, StatePC, UpgradePC
  <2>2. /\ [op[p].st EXCEPT !.status = "Running"] \in RowType
        /\ [op[p].st EXCEPT !.status = "Missing"] \in RowType
    BY <2>1 DEF RowType, Status
  <2>3. row # NoRow => row' # NoRow
    BY <1>14, <2>2, SavesRow DEF UDefer, LMark, db
  <2>4. inst' = inst /\ op'[p].pc \in {"idle", "u_ccm"}
    BY <1>0, <1>14, GotoFields, ReturnFields DEF UDefer, LMark, cloud
  <2> QED BY <1>00, <2>3, <2>4 DEF CoverPC, CreatePC, JoinPC
<1>15. ASSUME DBegin(p) PROVE Good
  <2>1. row # NoRow => row \in RowType /\ [row EXCEPT !.status = "Removing"] \in RowType
    BY <1>0 DEF SharedInv, RowType, Status
  <2>2. row # NoRow => row' # NoRow
    BY <1>15, <2>1, SavesRow DEF DBegin, db
  <2>3. inst' = inst /\ op'[p].pc \in {"idle", "d_cloud"}
    BY <1>0, <1>15, GotoFields, ReturnFields DEF DBegin, cloud
  <2> QED BY <1>00, <2>2, <2>3 DEF CoverPC, CreatePC, JoinPC
<1>16. ASSUME DCloud(p) PROVE Good
  <2>1. row' = row /\ inst' \subseteq inst
    BY <1>16 DEF DCloud, db, cloud, TerminateOK, TerminateFails
  <2>2. op'[p].pc = "idle" \/ (op'[p].pc = "d_cfg" /\ inst' = {})
    BY <1>0, <1>16, GotoFields, ReturnFields DEF DCloud, TerminateOK, cloud
  <2> QED BY <1>00, <2>1, <2>2 DEF CoverPC, CreatePC, JoinPC
<1>17. ASSUME DCfg(p) PROVE Good
  <2>1. inst = {} /\ inst' = inst
    BY <1>00, <1>17 DEF DCfg, cloud
  <2>2. op'[p].pc \in {"idle", "d_row"}
    BY <1>0, <1>17, GotoFields, ReturnFields DEF DCfg
  <2> QED BY <2>1, <2>2 DEF CoverPC, CreatePC, JoinPC
<1>18. ASSUME DRow(p) \/ DDelete(p) PROVE Good
  <2>1. inst = {} /\ inst' = inst
    BY <1>00, <1>18 DEF DRow, DDelete, cloud
  <2>2. op'[p].pc \in {"idle", "d_delete", "d_count", "d_explorer"}
    BY <1>0, <1>18, GotoFields, ReturnFields DEF DRow, DDelete, OpInv, OpType
  <2> QED BY <2>1, <2>2 DEF CoverPC, CreatePC, JoinPC
<1>19. ASSUME DCount(p) PROVE Good
  <2>1. row' = row /\ inst' = inst /\ op'[p].pc = "d_explorer"
    BY <1>0, <1>19, GotoFields DEF DCount, cloud
  <2> QED BY <1>00, <2>1 DEF CoverPC, CreatePC, JoinPC
<1> QED BY <1>1, <1>2, <1>3, <1>4, <1>5, <1>6, <1>7, <1>8, <1>9, <1>10, <1>11, <1>12, <1>13,
           <1>14, <1>15, <1>16, <1>17, <1>18, <1>19 DEF Step

(* Every step keeps the row over the instances.                            *)
LEMMA CoverNext ==
  ASSUME DeletesApart, IInv, CoverInv, [Next]_vars
  PROVE  CoverInv'
<1>1. ASSUME NEW p \in Proc, Request(p) PROVE CoverInv'
  <2>1. row' = row /\ inst' = inst
    BY <1>1, OwnRequest DEF IInv
  <2>2. op'[p].pc \in {"c_save", "j_begin", "u_begin", "d_begin", "l_cloud"}
    BY <1>1 DEF Request, CreateRequest, JoinRequest, UpgradeRequest, DeleteRequest, ListRequest,
                Start, IInv, OpInv, Idle
  <2>3. \A q \in Proc \ {p} : op'[q] = op[q]
    BY <1>1, OwnRequest DEF IInv
  <2> QED BY <2>1, <2>2, <2>3 DEF CoverInv, RowCoversInstances, CoverPC, CreatePC, JoinPC
<1>2. CASE \E p \in Proc : Step(p)
  BY <1>2, CoverStep
<1>3. CASE CloudLoss
  BY <1>3 DEF CloudLoss, db, CoverInv, RowCoversInstances
<1>4. CASE Crash
  BY <1>4 DEF Crash, Restart, cloud, Idle, CoverInv, RowCoversInstances, CoverPC, CreatePC, JoinPC
<1>5. CASE UNCHANGED vars
  BY <1>5 DEF vars, db, cloud, CoverInv, RowCoversInstances
<1> QED BY <1>1, <1>2, <1>3, <1>4, <1>5 DEF Next

(* It is there at the start,                                               *)
LEMMA CoverInit == Init => CoverInv
BY DEF Init, CoverInv, RowCoversInstances, CoverPC, CreatePC, JoinPC, Idle

(* hence in every state; one operation at a time has nothing to overlap    *)
(* with.                                                                   *)
LEMMA CoverInvariance == ASSUME OneAtATime PROVE Spec => []CoverInv
<1>1. IInv /\ CoverInv /\ [Next]_vars => CoverInv'
  <2>1. DeletesApart
    BY DEF OneAtATime, DeletesApart
  <2> QED BY <2>1, CoverNext
<1> QED BY <1>1, CoverInit, Invariance, PTL DEF Spec

(* Any number of operations at once, as long as no delete ends while a     *)
(* create or join is under way: no instance with the cluster's tags is     *)
(* ever without a row, whatever fails (the cloud, the database, the        *)
(* kubeconfig file) and wherever the process is killed. InitCluster saves  *)
(* the row before the first instance, nothing but Store.DeleteCluster      *)
(* drops it, and DeleteCluster gets there after the last instance is gone. *)
THEOREM RowCoversApart == Spec /\ []DeletesApart => []RowCoversInstances
<1>1. DeletesApart /\ IInv /\ CoverInv /\ [Next]_vars => CoverInv'
  BY CoverNext
<1>2. CoverInv => RowCoversInstances
  BY DEF CoverInv
<1> QED BY <1>1, <1>2, CoverInit, Invariance, PTL DEF Spec

(* Operations one at a time: no instance with the cluster's tags is ever   *)
(* without a row, whatever fails (the cloud, the database, the kubeconfig  *)
(* file) and wherever the process is killed. InitCluster saves the row     *)
(* before the first instance and DeleteCluster drops it after the last.    *)
THEOREM RowCovers == ASSUME OneAtATime PROVE Spec => []RowCoversInstances
<1>1. CoverInv => RowCoversInstances
  BY DEF CoverInv
<1> QED BY <1>1, CoverInvariance, PTL

---------------------------------------------------------------------------
(* One operation at a time on a process that is not killed, with a         *)
(* database that does not fail.                                            *)

Steady == OneAtATime /\ ~DBFails /\ MaxCrash = 0

(* What autok3s list shows.                                                *)
Shown == IF row = NoRow THEN "Absent" ELSE row.status

(* What the deferred functions of InitCluster and JoinNodes save over row, *)
(* for a status s.                                                         *)
Dropped(s, bad) ==
  LET left == row.workers \ bad
  IN  IF bad # {} /\ row.workers # {}
      THEN [[row EXCEPT !.status = s] EXCEPT !.workers = left, !.worker = Cardinality(left)]
      ELSE [row EXCEPT !.status = s]

(* The status of the row at each place of the operation, and when it may   *)
(* have noted an error or workers that failed.                             *)
Phase(o) ==
  /\ o.pc \in {"idle", "d_begin"} => Shown \in Abstract!Settled \cup {"Absent"}
  /\ o.pc = "c_save" => Shown \in {"Absent", "Failed"}
  /\ o.pc \in CreatePC => Shown = "Creating"
  /\ o.pc \in {"c_explorer", "c_manifest"} => Shown = "Running"
  /\ o.pc \in {"c_defer", "c_write"} => Shown = "Running" \/ (o.er /\ Shown = "Creating")
  /\ o.pc = "c_write" =>
       /\ o.er \/ o.errM # {}
       /\ o.st = Dropped(IF o.er THEN "Failed" ELSE row.status, o.errM)
  /\ o.pc \in {"rollback", "rollback_cfg"} => Shown \in {"Running", "Failed"}
  /\ o.pc \in {"j_begin", "u_begin"} => Shown \in Abstract!Settled /\ (Orderly => Shown = "Running")
  /\ o.pc \in JoinPC \cup UpgradePC => Shown = "Upgrading"
  /\ o.pc = "j_defer" => Shown = IF o.er THEN "Upgrading" ELSE "Running"
  /\ o.pc \in {"u_ccm", "l_cloud", "l_mark"} => Shown = "Running"
  /\ o.pc \in {"d_cloud", "d_cfg", "d_row"} => Shown \in {"Removing", "Absent"}
  /\ o.pc = "d_delete" => Shown = "Removing"
  /\ o.pc \in {"d_count", "d_explorer"} => Shown = "Absent"
  /\ o.er => o.pc \in {"c_defer", "c_write", "j_defer", "u_defer", "rollback", "rollback_cfg"}
  /\ o.errM # {} => o.pc \in {"c_cfg", "c_running", "c_explorer", "c_manifest", "c_defer",
                              "c_write", "j_save", "j_defer", "rollback", "rollback_cfg"}

PhaseInv == crashes = 0 /\ \A p \in Proc : Phase(op[p])

(* What is left of a cluster without a row: nothing but an explorer that   *)
(* the delete is about to stop. Instances without tags belong to the       *)
(* operation that failed to tag them and will roll them back.              *)
LeftInv ==
  /\ row = NoRow => ~ctx
  /\ watching => explorer = "enabled"
  /\ \A p \in Proc : /\ op[p].pc \in {"d_row", "d_delete"} => ~ctx
                     /\ row = NoRow /\ explorer # "none" => op[p].pc \in {"d_count", "d_explorer"}
                     /\ ~cloudFailed /\ untagged # {} =>
                          /\ op[p].pc \in {"c_defer", "c_write", "j_defer", "rollback"}
                          /\ op[p].er /\ op[p].errM = {} /\ untagged \subseteq op[p].mine

(* The counts of a row or state are those of its nodes. *)
Counted(r) == r.master = Cardinality(r.masters) /\ r.worker = Cardinality(r.workers)

Sized(r) == r.masters # {} /\ Counted(r)

RealNow == Sized(row) /\ inst = Nodes(row) /\ k3s = inst /\ untagged = {} /\ ctx

(* How the row, the cloud and what the operation holds agree, as long as   *)
(* nothing is lost in the cloud.                                           *)
RealOp(o) ==
  /\ o.pc \in {"idle", "j_begin", "u_begin", "u_ccm", "d_begin", "l_cloud", "rollback_cfg"}
       => (Shown = "Running" => RealNow)
  /\ o.pc = "j_begin" => o.st = row /\ o.mine = {}
  /\ o.pc # "l_mark"
  /\ o.pc \in UpgradePC =>
       /\ RealNow
       /\ o.st.masters = row.masters /\ o.st.workers = row.workers
       /\ o.st.master = row.master /\ o.st.worker = row.worker
  /\ o.pc \in {"c_save", "c_keys", "c_masters", "c_workers", "c_init"} =>
       /\ inst = o.mine /\ untagged = {} /\ k3s = {}
       /\ o.nm >= 1 /\ o.st.master = o.nm /\ o.st.worker = o.nw
       /\ o.pc \in {"c_save", "c_keys", "c_masters"} => o.mine = {}
       /\ o.pc = "c_workers" => o.mine \subseteq MasterPool
       /\ o.pc \in {"c_workers", "c_init"} => Cardinality(o.mine \cap MasterPool) = o.nm
       /\ o.pc = "c_init" => Cardinality(o.mine \cap WorkerPool) = o.nw
  /\ o.pc \in {"c_cfg", "c_running"} =>
       /\ Sized(o.st) /\ Nodes(o.st) = o.mine
       /\ inst = o.mine /\ untagged = {} /\ k3s = o.mine \ o.errM /\ o.errM \subseteq WorkerPool
       /\ o.pc = "c_running" => ctx
  /\ o.pc \in {"c_explorer", "c_manifest"} \/ (o.pc \in {"c_defer", "c_write", "j_defer"} /\ ~o.er) =>
       /\ Sized(row) /\ ctx
       /\ inst = Nodes(row) /\ untagged = {} /\ k3s = inst \ o.errM /\ o.errM \subseteq WorkerPool
  /\ o.pc = "rollback" /\ Shown = "Running" =>
       /\ Sized(row) /\ ctx
       /\ inst \ RollbackIds(o) = Nodes(row) /\ k3s \ RollbackIds(o) = Nodes(row)
       /\ untagged \subseteq RollbackIds(o)
  /\ o.pc \in {"j_masters", "j_workers", "j_sync", "j_join"} =>
       /\ Sized(row) /\ ctx /\ untagged = {}
       /\ Nodes(row) \cap o.mine = {} /\ inst = Nodes(row) \cup o.mine /\ k3s = Nodes(row)
       /\ o.pc # "j_join" => o.st.masters = row.masters /\ o.st.workers = row.workers
  /\ o.pc \in {"j_join", "j_save"} => o.st.masters # {} /\ Nodes(o.st) = inst
  /\ o.pc = "j_save" => ctx /\ untagged = {} /\ k3s = inst \ o.errM /\ o.errM \subseteq WorkerPool
  /\ o.pc = "j_defer" /\ o.er =>
       /\ Sized(row) /\ ctx /\ o.errM = {}
       /\ inst \ o.mine = Nodes(row) /\ k3s \ o.mine = Nodes(row) /\ untagged \subseteq o.mine

RealInv ==
  losses = 0 /\ ~cloudFailed => \A p \in Proc : RealOp(op[p])

(* The operation after Goto, Fail and RunInstances.                        *)
LEMMA GotoAll ==
  ASSUME OpInv, NEW p \in Proc, NEW l, Goto(p, l)
  PROVE  /\ op'[p].pc = l /\ op'[p].st = op[p].st /\ op'[p].nm = op[p].nm /\ op'[p].nw = op[p].nw
         /\ op'[p].mine = op[p].mine /\ op'[p].errM = op[p].errM /\ op'[p].er = op[p].er
BY DEF OpInv, OpType, Goto

(* All that the operation holds after a call that failed,                  *)
LEMMA FailAll ==
  ASSUME OpInv, NEW p \in Proc, NEW l, Fail(p, l)
  PROVE  /\ op'[p].pc = l /\ op'[p].st = op[p].st /\ op'[p].nm = op[p].nm /\ op'[p].nw = op[p].nw
         /\ op'[p].mine = op[p].mine /\ op'[p].errM = op[p].errM /\ op'[p].er = TRUE
BY DEF OpInv, OpType, Fail

(* The three outcomes of RunInstances: the instances with their tags, none *)
(* at all, or instances that lack them.                                    *)
RunOutcome(p, pool, n, next, onError) ==
  \/ \E S \in Ask(pool, n) :
       /\ inst' = inst \cup S /\ untagged' = untagged
       /\ op'[p].pc = next /\ op'[p].er = op[p].er /\ op'[p].mine = op[p].mine \cup S
  \/ /\ UNCHANGED <<inst, untagged>>
     /\ op'[p].pc = onError /\ op'[p].er = TRUE /\ op'[p].mine = op[p].mine
  \/ \E S \in Ask(pool, n) :
       /\ inst' = inst /\ untagged' = untagged \cup S
       /\ op'[p].pc = onError /\ op'[p].er = TRUE /\ op'[p].mine = op[p].mine \cup S

(* and after runInstances.                                                 *)
LEMMA RunAll ==
  ASSUME OpInv, NEW p \in Proc, NEW pool, NEW n, NEW next, NEW onError,
         RunInstances(p, pool, n, next, onError)
  PROVE  /\ op'[p].st = op[p].st /\ op'[p].nm = op[p].nm /\ op'[p].nw = op[p].nw
         /\ op'[p].errM = op[p].errM
         /\ UNCHANGED <<row, k3s, ctx, explorer, watching, losses, crashes, cloudFailed>>
         /\ RunOutcome(p, pool, n, next, onError)
<1>1. UNCHANGED <<row, k3s, ctx, explorer, watching, losses, crashes, cloudFailed>>
  BY DEF RunInstances, db, local, bounds, history
<1>2. CASE \E S \in Ask(pool, n) :
             /\ inst' = inst \cup S
             /\ untagged' = untagged
             /\ op' = [op EXCEPT ![p].pc = next, ![p].mine = @ \cup S]
  BY <1>1, <1>2 DEF OpInv, OpType, RunOutcome
<1>3. CASE Fail(p, onError) /\ UNCHANGED <<inst, untagged>>
  BY <1>1, <1>3, FailAll DEF RunOutcome
<1>4. CASE \E S \in Ask(pool, n) :
             /\ untagged' = untagged \cup S
             /\ inst' = inst
             /\ op' = [op EXCEPT ![p].pc = onError, ![p].er = TRUE, ![p].mine = @ \cup S]
  <2>1. PICK S \in Ask(pool, n) :
             /\ untagged' = untagged \cup S
             /\ inst' = inst
             /\ op' = [op EXCEPT ![p].pc = onError, ![p].er = TRUE, ![p].mine = @ \cup S]
    BY <1>4
  <2>2. /\ op'[p].st = op[p].st /\ op'[p].nm = op[p].nm /\ op'[p].nw = op[p].nw
        /\ op'[p].errM = op[p].errM /\ op'[p].pc = onError /\ op'[p].er = TRUE
        /\ op'[p].mine = op[p].mine \cup S
    BY <2>1 DEF OpInv, OpType
  <2> QED BY <1>1, <2>1, <2>2 DEF RunOutcome
<1> QED BY <1>2, <1>3, <1>4 DEF RunInstances

(* Where it goes on, and whether it has failed.                            *)
LEMMA RunNext ==
  ASSUME OpInv, NEW p \in Proc, NEW pool, NEW n, NEW next, NEW onError,
         RunInstances(p, pool, n, next, onError)
  PROVE  \/ op'[p].pc = next /\ op'[p].er = op[p].er
         \/ op'[p].pc = onError /\ op'[p].er = TRUE
BY DEF RunInstances, Fail, OpInv, OpType

(* What the saves show.                                                    *)
LEMMA SavesShown ==
  ASSUME NEW r \in RowType
  PROVE  /\ SaveCluster(r) => row' = r /\ row' # NoRow /\ Shown' = r.status
         /\ SaveClusterState(r) /\ row # NoRow => row' = r /\ row' # NoRow /\ Shown' = r.status
BY SavesRow DEF Shown

(* The row that a deferred function saves without the nodes that failed.   *)
LEMMA DroppedRow ==
  ASSUME SharedInv, row # NoRow, NEW s \in Status, NEW bad
  PROVE  /\ Dropped(s, bad) \in RowType /\ Dropped(s, bad).status = s
         /\ Dropped(s, bad).masters = row.masters /\ Dropped(s, bad).master = row.master
         /\ Dropped(s, bad).workers = row.workers \ bad
         /\ Counted(row) => Counted(Dropped(s, bad))
<1> DEFINE left == row.workers \ bad
           n == Cardinality(left)
           one == [row EXCEPT !.status = s]
<1>1. row \in RowType /\ left \in SUBSET WorkerPool
  BY DEF SharedInv, RowType
<1>2. n \in Nat
  BY <1>1, NodeCount
<1>3. Dropped(s, bad) = IF bad # {} /\ row.workers # {}
                        THEN [one EXCEPT !.workers = left, !.worker = n] ELSE one
  BY DEF Dropped
<1>4. /\ one \in RowType /\ one.status = s /\ one.masters = row.masters /\ one.master = row.master
      /\ one.workers = row.workers /\ one.worker = row.worker
  BY <1>1 DEF RowType
<1>5. n = Cardinality(left) /\ left = row.workers \ bad
  OBVIOUS
<1> HIDE DEF n, left, one
<1>6. CASE bad # {} /\ row.workers # {}
  <2>1. Dropped(s, bad) = [one EXCEPT !.workers = left, !.worker = n]
    BY <1>3, <1>6
  <2> QED BY <1>1, <1>2, <1>4, <1>5, <2>1 DEF RowType, Counted
<1>7. CASE ~(bad # {} /\ row.workers # {})
  <2>1. Dropped(s, bad) = one /\ row.workers \ bad = row.workers
    BY <1>3, <1>7
  <2> QED BY <1>4, <2>1 DEF Counted
<1> QED BY <1>6, <1>7

(* The deferred function of InitCluster that finds a row reads it ...      *)
LEMMA CDeferRow ==
  ASSUME IInv, ~DBFails, NEW p \in Proc, CDefer(p), row # NoRow
  PROVE  /\ UNCHANGED <<row, inst, untagged, k3s, ctx, explorer, watching, losses, crashes, cloudFailed>>
         /\ \/ ~op[p].er /\ op[p].errM = {} /\ Return(p)
            \/ /\ op[p].er \/ op[p].errM # {}
               /\ op'[p].pc = "c_write" /\ op'[p].er = op[p].er /\ op'[p].errM = op[p].errM
               /\ op'[p].mine = op[p].mine
               /\ op'[p].st = Dropped(IF op[p].er THEN "Failed" ELSE row.status, op[p].errM)
<1>1. UNCHANGED <<row, inst, untagged, k3s, ctx, explorer, watching, losses, crashes, cloudFailed>>
  BY DEF CDefer, db, cloud, local, bounds, history
<1>2. \/ ~op[p].er /\ op[p].errM = {} /\ Return(p)
      \/ /\ op[p].er \/ op[p].errM # {}
         /\ op' = [op EXCEPT ![p].pc = "c_write",
                     ![p].st = Dropped(IF op[p].er THEN "Failed" ELSE row.status, op[p].errM)]
  BY DEF CDefer, Dropped, IInv, SharedInv, RowType
<1> QED BY <1>1, <1>2 DEF IInv, OpInv, OpType

(* ... and writes it, with a database that does not fail and nobody who    *)
(* has changed it meanwhile.                                               *)
LEMMA CWriteRow ==
  ASSUME ~DBFails, NEW p \in Proc, CWrite(p), Phase(op[p])
  PROVE  /\ UNCHANGED <<inst, untagged, k3s, ctx, explorer, watching, losses, crashes, cloudFailed>>
         /\ op[p].er \/ op[p].errM # {}
         /\ row' = Dropped(IF op[p].er THEN "Failed" ELSE row.status, op[p].errM)
         /\ Goto(p, "rollback")
<1>1. /\ op[p].er \/ op[p].errM # {}
      /\ op[p].st = Dropped(IF op[p].er THEN "Failed" ELSE row.status, op[p].errM)
  BY DEF CWrite, At, Phase
<1>2. row' = op[p].st /\ Goto(p, "rollback")
  BY DEF CWrite, SaveCluster
<1> QED BY <1>1, <1>2 DEF CWrite, cloud, local, bounds

(* The two ways in which the deferred function of JoinNodes ends.          *)
LEMMA JDeferRow ==
  ASSUME IInv, ~DBFails, NEW p \in Proc, JDefer(p), row # NoRow
  PROVE  /\ UNCHANGED <<inst, untagged, k3s, ctx, explorer, watching, losses, crashes, cloudFailed>>
         /\ \/ ~op[p].er /\ op[p].errM = {} /\ Return(p) /\ UNCHANGED row
            \/ /\ op[p].er \/ op[p].errM # {}
               /\ \E r \in RowType :
                    /\ row' = r /\ r.status = "Running" /\ r.masters = row.masters
                    /\ r.master = row.master /\ r.workers = row.workers \ op[p].errM
                    /\ Counted(row) => Counted(r)
               /\ Goto(p, "rollback")
<1> DEFINE left == row.workers \ op[p].errM
           n == Cardinality(left)
           one == [row EXCEPT !.status = "Running"]
           r == IF op[p].errM # {} THEN [one EXCEPT !.workers = left, !.worker = n] ELSE one
<1>1. row \in RowType /\ left \in SUBSET WorkerPool
  BY DEF IInv, SharedInv, RowType
<1>2. n \in Nat
  BY <1>1, NodeCount
<1>3. /\ one \in RowType /\ one.status = "Running" /\ one.masters = row.masters
      /\ one.master = row.master /\ one.workers = row.workers /\ one.worker = row.worker
  BY <1>1 DEF RowType, Status
<1>4. /\ UNCHANGED <<inst, untagged, k3s, ctx, explorer, watching, losses, crashes, cloudFailed>>
      /\ \/ ~op[p].er /\ op[p].errM = {} /\ Return(p) /\ UNCHANGED row
         \/ /\ op[p].er \/ op[p].errM # {}
            /\ row' = r /\ Goto(p, "rollback")
  BY DEF JDefer, SaveClusterState, db, cloud, local, bounds, history
<1>5. n = Cardinality(left) /\ left = row.workers \ op[p].errM
  OBVIOUS
<1> HIDE DEF n, left, one
<1>6. /\ r \in RowType /\ r.status = "Running" /\ r.masters = row.masters
      /\ r.master = row.master /\ r.workers = row.workers \ op[p].errM
      /\ Counted(row) => Counted(r)
  <2>1. CASE op[p].errM # {}
    BY <1>1, <1>2, <1>3, <1>5, <2>1 DEF RowType, Counted
  <2>2. CASE op[p].errM = {}
    BY <1>3, <1>5, <2>2 DEF Counted
  <2> QED BY <2>1, <2>2
<1> HIDE DEF r
<1> QED BY <1>4, <1>6

(* The steps of ClusterStatus.                                             *)
LEMMA ShownMoves ==
  /\ Shown \in {"Absent", "Failed"} /\ Shown' = "Creating" => Abstract!Next
  /\ Shown = "Creating" /\ Shown' \in {"Running", "Failed"} => Abstract!Next
  /\ Shown = "Running" /\ Shown' \in {"Failed", "Missing"} => Abstract!Next
  /\ Shown \in Abstract!Settled /\ Shown' \in {"Upgrading", "Removing"} => Abstract!Next
  /\ Shown = "Upgrading" /\ Shown' = "Running" => Abstract!Next
  /\ Shown = "Removing" /\ Shown' = "Absent" => Abstract!Next
BY DEF Shown, Abstract!Next, Abstract!BeginCreate, Abstract!EndCreate, Abstract!BeginUpgrade,
       Abstract!EndUpgrade, Abstract!Lose, Abstract!BeginDelete, Abstract!EndDelete, Abstract!Settled

(* A step of the only operation goes on in the phase it says, and shows a  *)
(* step of ClusterStatus or none.                                          *)
LEMMA PhaseStep ==
  ASSUME Steady, IInv, CoverInv, PhaseInv, NEW p \in Proc, Step(p)
  PROVE  PhaseInv' /\ (Abstract!Next \/ UNCHANGED Shown)
<1> DEFINE Good == Phase(op[p])' /\ (Abstract!Next \/ Shown' = Shown)
<1>0. OpInv /\ SharedInv /\ op[p] \in OpType /\ Held(op[p]) /\ Phase(op[p])
  BY DEF IInv, OpInv, PhaseInv
<1>00. /\ op[p].pc \in CoverPC => row # NoRow
       /\ row \in RowType \cup {NoRow} /\ (row = NoRow <=> Shown = "Absent")
  <2>1. "Absent" \notin Status
    BY DEF Status
  <2> QED BY <1>0, <2>1 DEF CoverInv, SharedInv, Shown, RowType
<1>000. ~DBFails
  BY DEF Steady
<1>0000. crashes' = crashes /\ crashes = 0
  <2>1. ~JDeferPanics(p)
    BY <1>00 DEF JDeferPanics, At, CoverPC
  <2> QED
    BY <2>1 DEF Step, CSave, CKeys, CMasters, CWorkers, CInit, CCfg, CRunning, CExplorer,
         CManifest, CDefer, CWrite, RollbackInstances, RollbackContext, JBegin, JMasters, JWorkers,
         JSync, JJoin, JSave, JDefer, UBegin, UNodes, UDefer, UCCM, DBegin, DCloud, DCfg, DRow,
         DDelete, DCount, DExplorer, LCloud, LMark, RunInstances, bounds, PhaseInv
<1> SUFFICES Good
  BY <1>0000 DEF Steady, OneAtATime, PhaseInv
<1>a. ASSUME row' = row, Phase(op[p])' PROVE Good
  BY <1>a DEF Shown
<1> USE DEF At
<1>1. ASSUME CSave(p) \/ CKeys(p) PROVE Good
  <2>1. /\ op[p].st \in RowType /\ op[p].st.status = "Creating" /\ op[p].pc \in {"c_save", "c_keys"}
        /\ Shown \in {"Absent", "Failed"} \/ (op[p].pc = "c_keys" /\ Shown = "Creating")
        /\ op[p].er = FALSE /\ op[p].errM = {}
    BY <1>0, <1>1 DEF CSave, CKeys, Held, StatePC, EarlyPC, CreatePC, Phase, OpType
  <2>2. \/ Shown' = "Creating" /\ (Goto(p, "c_keys") \/ Goto(p, "c_masters"))
        \/ row' = row /\ op[p].pc = "c_keys" /\ (Goto(p, "c_masters") \/ Fail(p, "c_defer"))
    BY <1>000, <1>1, <2>1, SavesShown DEF CSave, CKeys, db
  <2>3. \/ op'[p].pc \in {"c_keys", "c_masters"} /\ op'[p].er = FALSE /\ op'[p].errM = {}
        \/ op'[p].pc = "c_defer" /\ op'[p].er = TRUE /\ op'[p].errM = {}
    <3>1. CASE Goto(p, "c_keys") \/ Goto(p, "c_masters")
      BY <1>0, <2>1, <3>1, GotoAll
    <3>2. CASE Fail(p, "c_defer")
      BY <1>0, <2>1, <3>2, FailAll
    <3> QED BY <2>2, <3>1, <3>2
  <2>4. Shown' = "Creating"
    BY <1>0, <2>1, <2>2 DEF Shown, Phase, CreatePC
  <2>5. Phase(op[p])'
    BY <2>3, <2>4 DEF Phase, CreatePC, JoinPC, UpgradePC
  <2> QED BY <2>1, <2>4, <2>5, ShownMoves
<1>2. ASSUME CMasters(p) \/ CWorkers(p) \/ JMasters(p) \/ JWorkers(p) PROVE Good
  <2>1. row' = row /\ op'[p].errM = op[p].errM
    BY <1>0, <1>2, RunAll DEF CMasters, CWorkers, JMasters, JWorkers
  <2>2. /\ ~op[p].er /\ op[p].errM = {}
        /\ op[p].pc \in {"c_masters", "c_workers"} => Shown = "Creating"
        /\ op[p].pc \in {"j_masters", "j_workers"} => Shown = "Upgrading"
    BY <1>0, <1>2 DEF CMasters, CWorkers, JMasters, JWorkers, Phase, CreatePC, JoinPC, OpType
  <2>3. \/ /\ op[p].pc \in {"c_masters", "c_workers"}
           /\ \/ op'[p].pc \in {"c_workers", "c_init"} /\ op'[p].er = op[p].er
              \/ op'[p].pc = "c_defer" /\ op'[p].er = TRUE
        \/ /\ op[p].pc \in {"j_masters", "j_workers"}
           /\ \/ op'[p].pc \in {"j_workers", "j_sync"} /\ op'[p].er = op[p].er
              \/ op'[p].pc = "j_defer" /\ op'[p].er = TRUE
    <3>1. CASE CMasters(p)
      BY <1>0, <3>1, RunNext DEF CMasters
    <3>2. CASE CWorkers(p)
      BY <1>0, <3>2, RunNext DEF CWorkers
    <3>3. CASE JMasters(p)
      BY <1>0, <3>3, RunNext DEF JMasters
    <3>4. CASE JWorkers(p)
      BY <1>0, <3>4, RunNext DEF JWorkers
    <3> QED BY <1>2, <3>1, <3>2, <3>3, <3>4
  <2>4. Shown' = Shown
    BY <2>1 DEF Shown
  <2>5. Phase(op[p])'
    BY <2>1, <2>2, <2>3, <2>4 DEF Phase, CreatePC, JoinPC, UpgradePC
  <2> QED BY <2>4, <2>5
<1>3. ASSUME CInit(p) \/ JSync(p) \/ JJoin(p) PROVE Good
  <2>1. /\ row' = row /\ Shown' = Shown /\ ~op[p].er /\ op[p].errM = {}
        /\ op[p].pc = "c_init" => Shown = "Creating"
        /\ op[p].pc \in {"j_sync", "j_join"} => Shown = "Upgrading"
    BY <1>0, <1>3 DEF CInit, JSync, JJoin, db, Shown, Phase, CreatePC, JoinPC
  <2>2. \/ op[p].pc = "c_init" /\ op'[p].pc = "c_cfg" /\ op'[p].er = op[p].er
        \/ op[p].pc = "j_sync" /\ op'[p].pc = "j_join" /\ op'[p].er = op[p].er /\ op'[p].errM = {}
        \/ op[p].pc = "j_join" /\ op'[p].pc = "j_save" /\ op'[p].er = op[p].er
        \/ op[p].pc = "c_init" /\ op'[p].pc = "c_defer" /\ op'[p].er
        \/ op[p].pc \in {"j_sync", "j_join"} /\ op'[p].pc = "j_defer" /\ op'[p].er
    <3>1. CASE CInit(p) /\ ~Fail(p, "c_defer")
      <4>1. PICK bad, st : op' = [op EXCEPT ![p].pc = "c_cfg", ![p].errM = bad, ![p].st = st]
        BY <3>1 DEF CInit
      <4> QED BY <1>0, <3>1, <4>1 DEF CInit, OpInv, OpType
    <3>2. CASE JSync(p) /\ ~Fail(p, "j_defer")
      <4>1. PICK st : op' = [op EXCEPT ![p].pc = "j_join", ![p].st = st]
        BY <3>2 DEF JSync
      <4> QED BY <1>0, <2>1, <3>2, <4>1 DEF JSync, OpInv, OpType
    <3>3. CASE JJoin(p) /\ ~Fail(p, "j_defer")
      <4>1. PICK bad : op' = [op EXCEPT ![p].pc = "j_save", ![p].errM = bad]
        BY <3>3 DEF JJoin
      <4> QED BY <1>0, <3>3, <4>1 DEF JJoin, OpInv, OpType
    <3>4. CASE CInit(p) /\ Fail(p, "c_defer")
      BY <1>0, <3>4, FailAll DEF CInit
    <3>5. CASE (JSync(p) \/ JJoin(p)) /\ Fail(p, "j_defer")
      BY <1>0, <3>5, FailAll DEF JSync, JJoin
    <3> QED BY <1>3, <3>1, <3>2, <3>3, <3>4, <3>5
  <2>3. Phase(op[p])'
    BY <2>1, <2>2 DEF Phase, CreatePC, JoinPC, UpgradePC
  <2> QED BY <2>1, <2>3
<1>4. ASSUME CCfg(p) \/ CExplorer(p) \/ CManifest(p) PROVE Good
  <2>1. /\ row' = row /\ Shown' = Shown /\ ~op[p].er
        /\ op[p].pc = "c_cfg" => Shown = "Creating"
        /\ op[p].pc \in {"c_explorer", "c_manifest"} => Shown = "Running"
    BY <1>0, <1>4 DEF CCfg, CExplorer, CManifest, db, Shown, Phase, CreatePC
  <2>2. \/ op[p].pc = "c_cfg" /\ op'[p].pc = "c_running" /\ op'[p].er = op[p].er
        \/ op[p].pc = "c_cfg" /\ op'[p].pc = "c_defer" /\ op'[p].er
        \/ op[p].pc = "c_explorer" /\ op'[p].pc = "c_manifest" /\ op'[p].er = op[p].er
        \/ op[p].pc = "c_manifest" /\ op'[p].pc = "c_defer"
    BY <1>0, <1>4, GotoAll, FailAll DEF CCfg, CExplorer, CManifest
  <2>3. Phase(op[p])'
    BY <2>1, <2>2 DEF Phase, CreatePC, JoinPC, UpgradePC
  <2> QED BY <2>1, <2>3
<1>5. ASSUME CRunning(p) PROVE Good
  <2>1. op[p].st \in RowType /\ Shown = "Creating" /\ ~op[p].er
    BY <1>0, <1>5 DEF CRunning, Held, StatePC, CreatePC, Phase
  <2>2. /\ [op[p].st EXCEPT !.status = "Running"] \in RowType
        /\ [op[p].st EXCEPT !.status = "Running"].status = "Running"
    BY <2>1 DEF RowType, Status
  <2>3. Shown' = "Running" /\ Goto(p, "c_explorer")
    BY <1>5, <1>000, <2>2, SavesShown DEF CRunning
  <2>4. op'[p].pc = "c_explorer" /\ ~op'[p].er
    BY <1>0, <2>1, <2>3, GotoAll
  <2>5. Phase(op[p])'
    BY <2>3, <2>4 DEF Phase, CreatePC, JoinPC, UpgradePC
  <2> QED BY <2>1, <2>3, <2>5, ShownMoves
<1>6. ASSUME CDefer(p) PROVE Good
  <2>1. row # NoRow /\ (Shown = "Running" \/ (op[p].er /\ Shown = "Creating"))
    BY <1>0, <1>00, <1>6 DEF CDefer, Phase, Shown
  <2>2. row' = row /\ Shown' = Shown
    BY <1>000, <1>6, <2>1, CDeferRow DEF Shown
  <2>3. CASE Return(p) /\ ~op[p].er
    <3>1. Shown = "Running" /\ op'[p] = Idle
      BY <1>0, <2>1, <2>3, ReturnFields
    <3> QED BY <2>2, <3>1 DEF Phase, Idle, Abstract!Settled, CreatePC, JoinPC, UpgradePC
  <2>4. CASE /\ op[p].er \/ op[p].errM # {}
             /\ op'[p].pc = "c_write" /\ op'[p].er = op[p].er /\ op'[p].errM = op[p].errM
             /\ op'[p].st = Dropped(IF op[p].er THEN "Failed" ELSE row.status, op[p].errM)
    <3>1. op'[p].st = Dropped(IF op[p].er THEN "Failed" ELSE row.status, op[p].errM)'
      BY <2>2, <2>4 DEF Dropped
    <3>2. Phase(op[p])'
      BY <2>1, <2>2, <2>4, <3>1 DEF Phase, CreatePC, JoinPC, UpgradePC
    <3> QED BY <2>2, <3>2
  <2> QED BY <1>000, <1>6, <2>1, <2>3, <2>4, CDeferRow
<1>21. ASSUME CWrite(p) PROVE Good
  <2>1. row # NoRow /\ (Shown = "Running" \/ (op[p].er /\ Shown = "Creating")) /\ Shown = row.status
    BY <1>0, <1>00, <1>21 DEF CWrite, Phase, Shown
  <2>2. /\ row' = Dropped(IF op[p].er THEN "Failed" ELSE row.status, op[p].errM)
        /\ Goto(p, "rollback")
    BY <1>0, <1>000, <1>21, CWriteRow
  <2>3. (IF op[p].er THEN "Failed" ELSE row.status) \in Status
    BY <2>1 DEF Status
  <2>4. Shown' = IF op[p].er THEN "Failed" ELSE Shown
    BY <1>0, <2>1, <2>2, <2>3, DroppedRow, NoRowAssumption DEF Shown
  <2>5. op'[p].pc = "rollback"
    BY <1>0, <2>2, GotoAll
  <2>6. Phase(op[p])'
    BY <2>1, <2>4, <2>5 DEF Phase, CreatePC, JoinPC, UpgradePC
  <2> QED BY <2>1, <2>4, <2>6, ShownMoves
<1>7. ASSUME RollbackInstances(p) \/ RollbackContext(p) PROVE Good
  <2>1. row' = row /\ Shown' = Shown /\ Shown \in {"Running", "Failed"}
    BY <1>0, <1>7 DEF RollbackInstances, RollbackContext, db, Shown, Phase
  <2>2. op'[p].pc = "rollback_cfg" \/ op'[p] = Idle
    BY <1>0, <1>7, GotoAll, ReturnFields DEF RollbackInstances, RollbackContext
  <2>3. Phase(op[p])'
    BY <2>1, <2>2 DEF Phase, Idle, Abstract!Settled, CreatePC, JoinPC, UpgradePC
  <2> QED BY <2>1, <2>3
<1>8. ASSUME JBegin(p) PROVE Good
  <2>1. row # NoRow /\ Shown \in Abstract!Settled /\ ~op[p].er /\ op[p].errM = {}
    BY <1>0, <1>00, <1>8 DEF JBegin, Phase, Abstract!Settled
  <2>2. /\ [row EXCEPT !.status = "Upgrading"] \in RowType
        /\ [row EXCEPT !.status = "Upgrading"].status = "Upgrading"
    BY <1>00, <2>1 DEF RowType, Status
  <2>3. Shown' = "Upgrading" /\ Goto(p, "j_masters")
    BY <1>000, <1>8, <2>1, <2>2, SavesShown DEF JBegin
  <2>4. op'[p].pc = "j_masters" /\ ~op'[p].er /\ op'[p].errM = {}
    BY <1>0, <2>1, <2>3, GotoAll
  <2>5. Phase(op[p])'
    BY <2>3, <2>4 DEF Phase, CreatePC, JoinPC, UpgradePC
  <2> QED BY <2>1, <2>3, <2>5, ShownMoves
<1>9. ASSUME JSave(p) PROVE Good
  <2> DEFINE m == Cardinality(op[p].st.masters)
             w == Cardinality(op[p].st.workers)
             r == [op[p].st EXCEPT !.status = "Running", !.master = m, !.worker = w]
  <2>1. op[p].st \in RowType /\ Shown = "Upgrading" /\ ~op[p].er
    BY <1>0, <1>9 DEF JSave, Held, StatePC, JoinPC, Phase
  <2>2. m \in Nat /\ w \in Nat
    BY <2>1, NodeCount DEF RowType
  <2>3. SaveCluster(r) /\ Goto(p, "j_defer")
    BY <1>000, <1>9 DEF JSave
  <2> HIDE DEF m, w
  <2>4. r \in RowType /\ r.status = "Running"
    BY <2>1, <2>2 DEF RowType, Status
  <2> HIDE DEF r
  <2>5. Shown' = "Running"
    BY <2>3, <2>4, SavesShown
  <2>6. op'[p].pc = "j_defer" /\ ~op'[p].er
    BY <1>0, <2>1, <2>3, GotoAll
  <2>7. Phase(op[p])'
    BY <2>5, <2>6 DEF Phase, CreatePC, JoinPC, UpgradePC
  <2> QED BY <2>1, <2>5, <2>7, ShownMoves
<1>10. ASSUME JDefer(p) PROVE Good
  <2>1. row # NoRow /\ Shown = IF op[p].er THEN "Upgrading" ELSE "Running"
    BY <1>0, <1>00, <1>10 DEF JDefer, Phase
  <2>2. CASE Return(p) /\ UNCHANGED row /\ ~op[p].er
    <3>1. Shown' = Shown /\ Shown = "Running" /\ op'[p] = Idle
      BY <1>0, <2>1, <2>2, ReturnFields DEF Shown
    <3> QED BY <3>1 DEF Phase, Idle, Abstract!Settled, CreatePC, JoinPC, UpgradePC
  <2>3. CASE (\E r \in RowType : row' = r /\ r.status = "Running") /\ Goto(p, "rollback")
    <3>1. Shown' = "Running" /\ op'[p].pc = "rollback"
      BY <1>0, <2>3, GotoAll, NoRowAssumption DEF Shown
    <3>2. Phase(op[p])'
      BY <3>1 DEF Phase, CreatePC, JoinPC, UpgradePC
    <3> QED BY <2>1, <3>1, <3>2, ShownMoves
  <2> QED BY <1>000, <1>10, <2>1, <2>2, <2>3, JDeferRow
<1>11. ASSUME JDeferPanics(p) PROVE FALSE
  BY <1>00, <1>11 DEF JDeferPanics, CoverPC
<1>12. ASSUME UBegin(p) PROVE Good
  <2>1. row # NoRow /\ Shown \in Abstract!Settled /\ ~op[p].er /\ op[p].errM = {}
    BY <1>0, <1>00, <1>12 DEF UBegin, Phase, Abstract!Settled
  <2>2. /\ [row EXCEPT !.status = "Upgrading"] \in RowType
        /\ [row EXCEPT !.status = "Upgrading"].status = "Upgrading"
    BY <1>00, <2>1 DEF RowType, Status
  <2>3. Shown' = "Upgrading" /\ \E st : op' = [op EXCEPT ![p].pc = "u_nodes", ![p].st = st]
    BY <1>000, <1>12, <2>1, <2>2, SavesShown DEF UBegin
  <2>4. op'[p].pc = "u_nodes" /\ ~op'[p].er /\ op'[p].errM = {}
    BY <1>0, <2>1, <2>3 DEF OpInv, OpType
  <2>5. Phase(op[p])'
    BY <2>3, <2>4 DEF Phase, CreatePC, JoinPC, UpgradePC
  <2> QED BY <2>1, <2>3, <2>5, ShownMoves
<1>13. ASSUME UNodes(p) PROVE Good
  <2>1. row' = row /\ Shown' = Shown /\ Shown = "Upgrading" /\ op[p].errM = {}
    BY <1>0, <1>13 DEF UNodes, db, Shown, Phase, UpgradePC
  <2>2. op'[p].pc = "u_defer" /\ op'[p].errM = {}
    BY <1>0, <1>13, <2>1, GotoAll, FailAll DEF UNodes
  <2>3. Phase(op[p])'
    BY <2>1, <2>2 DEF Phase, CreatePC, JoinPC, UpgradePC
  <2> QED BY <2>1, <2>3
<1>14. ASSUME UDefer(p) PROVE Good
  <2>1. op[p].st \in RowType /\ row # NoRow /\ Shown = "Upgrading" /\ op[p].errM = {}
    BY <1>0, <1>00, <1>14 DEF UDefer, Held, StatePC, UpgradePC, Phase
  <2>2. /\ [op[p].st EXCEPT !.status = "Running"] \in RowType
        /\ [op[p].st EXCEPT !.status = "Running"].status = "Running"
    BY <2>1 DEF RowType, Status
  <2>3. Shown' = "Running"
    BY <1>000, <1>14, <2>1, <2>2, SavesShown DEF UDefer
  <2>4. op'[p] = Idle \/ (op'[p].pc = "u_ccm" /\ ~op'[p].er /\ op'[p].errM = {})
    BY <1>0, <1>14, <2>1, GotoAll, ReturnFields DEF UDefer
  <2>5. Phase(op[p])'
    BY <2>3, <2>4 DEF Phase, Idle, Abstract!Settled, CreatePC, JoinPC, UpgradePC
  <2> QED BY <2>1, <2>3, <2>5, ShownMoves
<1>15. ASSUME UCCM(p) \/ LCloud(p) PROVE Good
  <2>1. row' = row /\ Shown' = Shown /\ Shown = "Running" /\ op[p].errM = {} /\ ~op[p].er
    BY <1>0, <1>15 DEF UCCM, LCloud, db, Shown, Phase
  <2>2. op'[p] = Idle \/ (op'[p].pc = "l_mark" /\ ~op'[p].er /\ op'[p].errM = {})
    BY <1>0, <1>15, <2>1, GotoAll, ReturnFields DEF UCCM, LCloud
  <2>3. Phase(op[p])'
    BY <2>1, <2>2 DEF Phase, Idle, Abstract!Settled, CreatePC, JoinPC, UpgradePC
  <2> QED BY <2>1, <2>3
<1>16. ASSUME LMark(p) PROVE Good
  <2>1. op[p].st \in RowType /\ row # NoRow /\ Shown = "Running"
    BY <1>0, <1>00, <1>16 DEF LMark, Held, StatePC, Phase
  <2>2. /\ [op[p].st EXCEPT !.status = "Missing"] \in RowType
        /\ [op[p].st EXCEPT !.status = "Missing"].status = "Missing"
    BY <2>1 DEF RowType, Status
  <2>3. Shown' = "Missing" /\ op'[p] = Idle
    BY <1>0, <1>000, <1>16, <2>1, <2>2, SavesShown, ReturnFields DEF LMark
  <2>4. Phase(op[p])'
    BY <2>3 DEF Phase, Idle, Abstract!Settled, CreatePC, JoinPC, UpgradePC
  <2> QED BY <2>1, <2>3, <2>4, ShownMoves
<1>17. ASSUME DBegin(p) PROVE Good
  <2>1. Shown \in Abstract!Settled \cup {"Absent"} /\ ~op[p].er /\ op[p].errM = {}
    BY <1>0, <1>17 DEF DBegin, Phase
  <2>2. row # NoRow => /\ [row EXCEPT !.status = "Removing"] \in RowType
                       /\ [row EXCEPT !.status = "Removing"].status = "Removing"
    BY <1>00 DEF RowType, Status
  <2>3. /\ row = NoRow => Shown = "Absent" /\ Shown' = Shown
        /\ row # NoRow => Shown \in Abstract!Settled /\ Shown' = "Removing"
    BY <1>00, <1>000, <1>17, <2>1, <2>2, SavesShown DEF DBegin, Shown, db
  <2>4. op'[p].pc = "d_cloud" /\ ~op'[p].er /\ op'[p].errM = {}
    BY <1>0, <1>000, <1>17, <2>1, GotoAll DEF DBegin
  <2>5. Phase(op[p])'
    BY <2>3, <2>4 DEF Phase, CreatePC, JoinPC, UpgradePC
  <2> QED BY <2>3, <2>5, ShownMoves
<1>18. ASSUME DCloud(p) \/ DCfg(p) PROVE Good
  <2>1. row' = row /\ Shown' = Shown /\ Shown \in {"Removing", "Absent"} /\ op[p].errM = {} /\ ~op[p].er
    BY <1>0, <1>18 DEF DCloud, DCfg, db, Shown, Phase
  <2>2. op'[p] = Idle \/ (op'[p].pc \in {"d_cfg", "d_row"} /\ ~op'[p].er /\ op'[p].errM = {})
    BY <1>0, <1>18, <2>1, GotoAll, ReturnFields DEF DCloud, DCfg
  <2>3. Phase(op[p])'
    BY <2>1, <2>2 DEF Phase, Idle, Abstract!Settled, CreatePC, JoinPC, UpgradePC
  <2> QED BY <2>1, <2>3
<1>19. ASSUME DRow(p) PROVE Good
  <2>1. row' = row /\ Shown' = Shown /\ Shown \in {"Removing", "Absent"} /\ op[p].errM = {} /\ ~op[p].er
    BY <1>0, <1>19 DEF DRow, Phase, Shown, db
  <2>2. \/ row = NoRow /\ Goto(p, "d_explorer")
        \/ row # NoRow /\ op' = [op EXCEPT ![p].pc = "d_delete", ![p].st = row]
    BY <1>000, <1>19 DEF DRow
  <2>3. /\ \/ Shown = "Absent" /\ op'[p].pc = "d_explorer"
           \/ Shown = "Removing" /\ op'[p].pc = "d_delete"
        /\ ~op'[p].er /\ op'[p].errM = {}
    BY <1>0, <1>00, <2>1, <2>2, GotoAll DEF OpInv, OpType
  <2>4. Phase(op[p])'
    BY <2>1, <2>3 DEF Phase, CreatePC, JoinPC, UpgradePC
  <2> QED BY <2>1, <2>4
<1>22. ASSUME DDelete(p) \/ DCount(p) PROVE Good
  <2>1. Shown \in {"Removing", "Absent"} /\ op[p].errM = {} /\ ~op[p].er
    BY <1>0, <1>22 DEF DDelete, DCount, Phase
  <2>2. Shown' = "Absent" /\ (Goto(p, "d_count") \/ Goto(p, "d_explorer"))
    BY <1>0, <1>000, <1>22 DEF DDelete, DCount, Shown, Phase
  <2>3. op'[p].pc \in {"d_count", "d_explorer"} /\ ~op'[p].er /\ op'[p].errM = {}
    BY <1>0, <2>1, <2>2, GotoAll
  <2>4. Phase(op[p])'
    BY <2>2, <2>3 DEF Phase, CreatePC, JoinPC, UpgradePC
  <2> QED BY <2>1, <2>2, <2>4, ShownMoves
<1>20. ASSUME DExplorer(p) PROVE Good
  <2>1. row' = row /\ Shown' = Shown /\ Shown = "Absent" /\ op'[p] = Idle
    BY <1>0, <1>20, ReturnFields DEF DExplorer, db, Shown, Phase
  <2>2. Phase(op[p])'
    BY <2>1 DEF Phase, Idle, CreatePC, JoinPC, UpgradePC
  <2> QED BY <2>1, <2>2
<1> QED BY <1>1, <1>2, <1>3, <1>4, <1>5, <1>6, <1>7, <1>8, <1>9, <1>10, <1>11, <1>12, <1>13,
           <1>14, <1>15, <1>16, <1>17, <1>18, <1>19, <1>20, <1>21, <1>22 DEF Step

(* What a request begins.                                                  *)
LEMMA RequestAll ==
  ASSUME OpInv, NEW p \in Proc, Request(p)
  PROVE  /\ UNCHANGED <<row, inst, untagged, k3s, ctx, explorer, watching, losses, crashes, cloudFailed>>
         /\ op[p].pc = "idle"
         /\ op'[p].mine = {} /\ op'[p].errM = {} /\ op'[p].er = FALSE
         /\ \/ /\ op'[p].pc = "c_save" /\ (row # NoRow => row.status = "Failed") /\ inst = {}
               /\ op'[p].nm >= 1 /\ op'[p].st.master = op'[p].nm /\ op'[p].st.worker = op'[p].nw
            \/ /\ op'[p].pc = "j_begin" /\ op'[p].st = row
               /\ row # NoRow /\ (Orderly => row.status = "Running")
            \/ op'[p].pc = "u_begin" /\ row # NoRow /\ (Orderly => row.status = "Running")
            \/ op'[p].pc = "d_begin"
            \/ op'[p].pc = "l_cloud" /\ row # NoRow /\ row.status = "Running"
<1>0. ASSUME NEW o, Start(p, o)
      PROVE  /\ UNCHANGED <<row, inst, untagged, k3s, ctx, explorer, watching, losses, crashes, cloudFailed>>
             /\ op[p].pc = "idle" /\ op'[p] = o
  BY <1>0 DEF Start, At, OpInv, db, cloud, local, history
<1>1. CASE CreateRequest(p)
  <2>1. PICK n \in MasterAsk, m \in WorkerAsk, v \in Version :
          /\ n >= 1
          /\ Start(p, [Idle EXCEPT !.pc = "c_save", !.nm = n, !.nw = m,
                         !.st = [status |-> "Creating", masters |-> {}, workers |-> {},
                                 master |-> n, worker |-> m, version |-> v]])
    BY <1>1 DEF CreateRequest
  <2> DEFINE o == [Idle EXCEPT !.pc = "c_save", !.nm = n, !.nw = m,
                         !.st = [status |-> "Creating", masters |-> {}, workers |-> {},
                                 master |-> n, worker |-> m, version |-> v]]
  <2>2. /\ o.mine = {} /\ o.errM = {} /\ o.er = FALSE /\ o.pc = "c_save" /\ o.nm = n
        /\ o.st.master = n /\ o.st.worker = m /\ o.nw = m
    BY DEF Idle
  <2>3. Start(p, o)
    BY <2>1
  <2> HIDE DEF o
  <2> QED BY <1>0, <1>1, <2>1, <2>2, <2>3 DEF CreateRequest
<1>2. CASE JoinRequest(p)
  <2>1. PICK ask \in JoinAsk :
          Start(p, [Idle EXCEPT !.pc = "j_begin", !.nm = ask[1], !.nw = ask[2], !.st = row])
    BY <1>2 DEF JoinRequest
  <2> DEFINE o == [Idle EXCEPT !.pc = "j_begin", !.nm = ask[1], !.nw = ask[2], !.st = row]
  <2>2. o.mine = {} /\ o.errM = {} /\ o.er = FALSE /\ o.pc = "j_begin" /\ o.st = row
    BY DEF Idle
  <2>3. Start(p, o)
    BY <2>1
  <2> HIDE DEF o
  <2> QED BY <1>0, <1>2, <2>2, <2>3 DEF JoinRequest
<1>3. CASE UpgradeRequest(p)
  <2>1. PICK v \in Version :
          Start(p, [Idle EXCEPT !.pc = "u_begin", !.st = [row EXCEPT !.version = v]])
    BY <1>3 DEF UpgradeRequest
  <2> DEFINE o == [Idle EXCEPT !.pc = "u_begin", !.st = [row EXCEPT !.version = v]]
  <2>2. o.mine = {} /\ o.errM = {} /\ o.er = FALSE /\ o.pc = "u_begin"
    BY DEF Idle
  <2>3. Start(p, o)
    BY <2>1
  <2> HIDE DEF o
  <2> QED BY <1>0, <1>3, <2>2, <2>3 DEF UpgradeRequest
<1>4. CASE DeleteRequest(p)
  <2> DEFINE o == [Idle EXCEPT !.pc = "d_begin"]
  <2>1. o.mine = {} /\ o.errM = {} /\ o.er = FALSE /\ o.pc = "d_begin"
    BY DEF Idle
  <2>2. Start(p, o)
    BY <1>4 DEF DeleteRequest
  <2> HIDE DEF o
  <2> QED BY <1>0, <2>1, <2>2
<1>5. CASE ListRequest(p)
  <2> DEFINE o == [Idle EXCEPT !.pc = "l_cloud", !.st = row]
  <2>1. o.mine = {} /\ o.errM = {} /\ o.er = FALSE /\ o.pc = "l_cloud"
    BY DEF Idle
  <2>2. Start(p, o)
    BY <1>5 DEF ListRequest
  <2> HIDE DEF o
  <2> QED BY <1>0, <1>5, <2>1, <2>2 DEF ListRequest
<1> QED BY <1>1, <1>2, <1>3, <1>4, <1>5 DEF Request

(* An accepted request begins an operation in its first phase.             *)
LEMMA PhaseRequest ==
  ASSUME Steady, IInv, PhaseInv, NEW p \in Proc, Request(p)
  PROVE  PhaseInv' /\ UNCHANGED Shown
<1>0. OpInv /\ Phase(op[p])
  BY DEF IInv, PhaseInv
<1>1. /\ op[p].pc = "idle" /\ row' = row /\ Shown' = Shown /\ crashes' = 0
      /\ Shown \in Abstract!Settled \cup {"Absent"} /\ (row # NoRow => Shown = row.status)
  BY <1>0, OwnRequest DEF Shown, Phase, PhaseInv
<1>2. /\ op'[p].pc \in {"c_save", "j_begin", "u_begin", "d_begin", "l_cloud"}
      /\ op'[p].er = FALSE /\ op'[p].errM = {}
      /\ op'[p].pc = "c_save" => (row # NoRow => row.status = "Failed")
      /\ op'[p].pc \in {"j_begin", "u_begin"} => row # NoRow /\ (Orderly => row.status = "Running")
      /\ op'[p].pc = "l_cloud" => row # NoRow /\ row.status = "Running"
  BY <1>0, RequestAll
<1>3. row # NoRow => Shown # "Absent"
  <2>1. "Absent" \notin Status
    BY DEF Status
  <2> QED BY <1>1, <2>1 DEF IInv, SharedInv, RowType
<1>4. Phase(op[p])'
  BY <1>1, <1>2, <1>3 DEF Phase, Shown, Abstract!Settled, CreatePC, JoinPC, UpgradePC
<1> QED BY <1>1, <1>4 DEF Steady, OneAtATime, PhaseInv

(* The phases are about the row, the operations and the crashes alone.      *)
LEMMA PhaseStutter ==
  ASSUME PhaseInv, UNCHANGED <<row, op, crashes>>
  PROVE  PhaseInv' /\ UNCHANGED Shown
<1>1. UNCHANGED Shown
  BY DEF Shown
<1>2. ASSUME NEW p \in Proc
      PROVE  Phase(op[p])'
  <2>1. Phase(op[p])
    BY DEF PhaseInv
  <2>2. op'[p] = op[p] /\ row' = row
    OBVIOUS
  <2> QED BY <1>1, <2>1, <2>2 DEF Phase, Dropped
<1> QED BY <1>1, <1>2 DEF PhaseInv

(* Every step shows a step of ClusterStatus or none.                       *)
LEMMA PhaseNext ==
  ASSUME Steady, IInv, CoverInv, PhaseInv, [Next]_vars
  PROVE  PhaseInv' /\ (Abstract!Next \/ UNCHANGED Shown)
<1>1. CASE \E p \in Proc : Request(p)
  BY <1>1, PhaseRequest
<1>2. CASE \E p \in Proc : Step(p)
  BY <1>2, PhaseStep
<1>3. CASE CloudLoss
  BY <1>3, PhaseStutter DEF CloudLoss, db
<1>4. ~Crash
  BY DEF Crash, Steady, PhaseInv
<1>5. CASE UNCHANGED vars
  BY <1>5, PhaseStutter DEF vars, db, bounds
<1> QED BY <1>1, <1>2, <1>3, <1>4, <1>5 DEF Next

(* The phases hold in every state.                                         *)
LEMMA PhaseInvariance == ASSUME Steady PROVE Spec => []PhaseInv
<1>1. Init => PhaseInv
  BY DEF Init, PhaseInv, Phase, Shown, Idle, CreatePC, JoinPC, UpgradePC
<1>2. IInv /\ CoverInv /\ PhaseInv /\ [Next]_vars => PhaseInv'
  BY PhaseNext
<1>3. OneAtATime
  BY DEF Steady
<1> QED BY <1>1, <1>2, <1>3, Invariance, CoverInvariance, PTL DEF Spec

(* The safety part of StatusMachine: with operations one at a time the row *)
(* goes through the statuses of ClusterStatus and no others: it is created *)
(* from nothing or from Failed, leaves Creating for Running or Failed and  *)
(* Upgrading for Running, and is dropped from Removing alone.              *)
THEOREM StatusSteps == ASSUME Steady PROVE Spec => Abstract!Init /\ [][Abstract!Next]_Shown
<1>1. Init => Abstract!Init
  BY DEF Init, Abstract!Init
<1>2. IInv /\ CoverInv /\ PhaseInv /\ [Next]_vars => [Abstract!Next]_Shown
  BY PhaseNext
<1>3. OneAtATime
  BY DEF Steady
<1> QED BY <1>1, <1>2, <1>3, Invariance, CoverInvariance, PhaseInvariance, PTL DEF Spec

---------------------------------------------------------------------------
(* What a delete leaves behind. *)

(* Only Store.DeleteCluster drops the row.                                 *)
LEMMA RowGone ==
  ASSUME IInv, NEW p \in Proc, Step(p), row # NoRow, row' = NoRow
  PROVE  DDelete(p)
<1>1. ~DCount(p) /\ ~JDeferPanics(p)
  BY DEF DCount, JDeferPanics, Restart
<1> QED BY <1>1, DbStep, SavesRow DEF db

(* A step leaves nothing behind but what a later step of the operation     *)
(* takes away.                                                             *)
LEMMA LeftStep ==
  ASSUME Steady, Rollback, IInv, CoverInv, PhaseInv, LeftInv, NEW p \in Proc, Step(p)
  PROVE  LeftInv'
<1> DEFINE Mine(o) == /\ o.pc \in {"c_defer", "c_write", "j_defer", "rollback"}
                      /\ o.er /\ o.errM = {} /\ untagged \subseteq o.mine
           Good == /\ row' = NoRow => ~ctx'
                   /\ watching' => explorer' = "enabled"
                   /\ op'[p].pc \in {"d_row", "d_delete"} => ~ctx'
                   /\ row' = NoRow /\ explorer' # "none" => op'[p].pc \in {"d_count", "d_explorer"}
                   /\ ~cloudFailed' /\ untagged' # {} =>
                        /\ op'[p].pc \in {"c_defer", "c_write", "j_defer", "rollback"}
                        /\ op'[p].er /\ op'[p].errM = {} /\ untagged' \subseteq op'[p].mine
<1>0. OpInv /\ SharedInv /\ op[p] \in OpType /\ Held(op[p]) /\ Phase(op[p]) /\ ~DBFails
  BY DEF IInv, OpInv, PhaseInv, Steady
<1>00. /\ row = NoRow => ~ctx
       /\ watching => explorer = "enabled"
       /\ op[p].pc \in {"d_row", "d_delete"} => ~ctx
       /\ row = NoRow /\ explorer # "none" => op[p].pc \in {"d_count", "d_explorer"}
       /\ ~cloudFailed /\ untagged # {} => Mine(op[p])
       /\ op[p].pc \in CoverPC => row # NoRow
  BY DEF LeftInv, CoverInv
<1> SUFFICES Good
  BY DEF Steady, OneAtATime, LeftInv
<1> HIDE DEF Mine
<1>01. ~DDelete(p) => (row' = NoRow => row = NoRow)
  BY RowGone
<1>02. op[p].pc \notin {"c_defer", "c_write", "j_defer", "rollback"} => (~cloudFailed => untagged = {})
  BY <1>00 DEF Mine
<1> USE DEF At
<1>a. ASSUME UNCHANGED <<ctx, explorer, watching, untagged, cloudFailed>>, ~DDelete(p),
             op[p].pc \notin {"c_defer", "c_write", "j_defer", "rollback", "d_count", "d_explorer"},
             op'[p].pc \notin {"d_row", "d_delete"}
      PROVE  Good
  BY <1>00, <1>01, <1>02, <1>a
<1>1. ASSUME CSave(p) \/ CKeys(p) \/ CRunning(p) \/ CManifest(p) PROVE Good
  <2>1. op'[p].pc \in {"c_keys", "c_masters", "c_explorer", "c_defer"}
    BY <1>0, <1>1, GotoAll, FailAll DEF CSave, CKeys, CRunning, CManifest
  <2>2. op[p].pc \in {"c_save", "c_keys", "c_running", "c_manifest"}
        /\ UNCHANGED <<ctx, explorer, watching, untagged, cloudFailed>>
    BY <1>1 DEF CSave, CKeys, CRunning, CManifest, cloud, local, history
  <2>3. ~DDelete(p)
    BY <2>2 DEF DDelete
  <2> QED BY <1>a, <2>1, <2>2, <2>3
<1>2. ASSUME NEW pool, NEW n, NEW next \in {"c_workers", "c_init", "j_workers", "j_sync"},
             NEW onError \in {"c_defer", "j_defer"},
             op[p].pc \in {"c_masters", "c_workers", "j_masters", "j_workers"},
             RunInstances(p, pool, n, next, onError)
      PROVE  Good
  <2>1. /\ op'[p].errM = {} /\ row # NoRow
        /\ UNCHANGED <<row, k3s, ctx, explorer, watching, losses, crashes, cloudFailed>>
    BY <1>0, <1>00, <1>2, RunAll DEF Phase, CoverPC, CreatePC, JoinPC
  <2>2. \/ untagged' = untagged /\ op'[p].pc \in {next, onError}
        \/ \E S : /\ untagged' = untagged \cup S
                  /\ op'[p].pc = onError /\ op'[p].er = TRUE /\ op'[p].mine = op[p].mine \cup S
    <3>1. RunOutcome(p, pool, n, next, onError)
      BY <1>0, <1>2, RunAll
    <3> QED BY <3>1 DEF RunOutcome
  <2>3. untagged' = {} \/ cloudFailed \/ /\ untagged' \subseteq op'[p].mine
                                         /\ op'[p].pc = onError /\ op'[p].er
    BY <1>02, <1>2, <2>2
  <2>4. op'[p].pc \notin {"d_row", "d_delete"}
    BY <1>2, <2>2
  <2> QED BY <1>00, <1>2, <2>1, <2>3, <2>4
<1>3. ASSUME CMasters(p) \/ CWorkers(p) \/ JMasters(p) \/ JWorkers(p) PROVE Good
  BY <1>2, <1>3 DEF CMasters, CWorkers, JMasters, JWorkers
<1>4. ASSUME CInit(p) \/ JSync(p) \/ JJoin(p) PROVE Good
  <2>1. op'[p].pc \in {"c_cfg", "j_join", "j_save", "c_defer", "j_defer"}
    <3>1. CASE Fail(p, "c_defer") \/ Fail(p, "j_defer")
      BY <1>0, <3>1, FailFields
    <3>2. CASE CInit(p) /\ ~Fail(p, "c_defer")
      <4>1. PICK bad, st : op' = [op EXCEPT ![p].pc = "c_cfg", ![p].errM = bad, ![p].st = st]
        BY <3>2 DEF CInit
      <4> QED BY <1>0, <4>1 DEF OpInv, OpType
    <3>3. CASE JSync(p) /\ ~Fail(p, "j_defer")
      <4>1. PICK st : op' = [op EXCEPT ![p].pc = "j_join", ![p].st = st]
        BY <3>3 DEF JSync
      <4> QED BY <1>0, <4>1 DEF OpInv, OpType
    <3>4. CASE JJoin(p) /\ ~Fail(p, "j_defer")
      <4>1. PICK bad : op' = [op EXCEPT ![p].pc = "j_save", ![p].errM = bad]
        BY <3>4 DEF JJoin
      <4> QED BY <1>0, <4>1 DEF OpInv, OpType
    <3> QED BY <1>4, <3>1, <3>2, <3>3, <3>4
  <2>2. op[p].pc \in {"c_init", "j_sync", "j_join"}
        /\ UNCHANGED <<ctx, explorer, watching, untagged, cloudFailed>>
    BY <1>4 DEF CInit, JSync, JJoin, cloud, local, history
  <2>3. ~DDelete(p)
    BY <2>2 DEF DDelete
  <2> QED BY <1>a, <2>1, <2>2, <2>3
<1>5. ASSUME CCfg(p) \/ CExplorer(p) PROVE Good
  <2>1. /\ op[p].pc \in {"c_cfg", "c_explorer"} /\ row # NoRow
        /\ UNCHANGED <<row, untagged, cloudFailed>>
        /\ UNCHANGED <<explorer, watching>> \/ explorer' = "enabled"
    BY <1>00, <1>5 DEF CCfg, CExplorer, db, cloud, history, CoverPC, CreatePC
  <2>2. op'[p].pc \in {"c_running", "c_manifest", "c_defer"}
    BY <1>0, <1>5, GotoFields, FailFields DEF CCfg, CExplorer
  <2> QED BY <1>00, <1>02, <2>1, <2>2
<1>6. ASSUME CDefer(p) \/ CWrite(p) \/ JDefer(p) PROVE Good
  <2>1. row # NoRow /\ op[p].pc \in {"c_defer", "c_write", "j_defer"}
    BY <1>0, <1>00, <1>6 DEF CDefer, CWrite, JDefer, CoverPC, Phase, Shown
  <2>2. /\ UNCHANGED <<inst, untagged, k3s, ctx, explorer, watching, losses, crashes, cloudFailed>>
        /\ \/ ~op[p].er /\ Return(p)
           \/ op'[p].pc = "c_write" /\ op'[p].er = op[p].er /\ op'[p].errM = op[p].errM
              /\ op'[p].mine = op[p].mine
           \/ Goto(p, "rollback")
    <3>1. CASE CDefer(p)
      BY <1>0, <2>1, <3>1, CDeferRow
    <3>2. CASE CWrite(p)
      BY <1>0, <3>2, CWriteRow
    <3>3. CASE JDefer(p)
      BY <1>0, <2>1, <3>3, JDeferRow
    <3> QED BY <1>6, <3>1, <3>2, <3>3
  <2>3. row' # NoRow
    BY <1>01, <2>1 DEF DDelete
  <2>4. CASE ~op[p].er /\ Return(p)
    <3>1. op'[p].pc = "idle"
      BY <1>0, <2>4, ReturnFields
    <3> QED BY <1>00, <2>2, <2>3, <2>4, <3>1 DEF Mine
  <2>5. CASE op'[p].pc = "c_write" /\ op'[p].er = op[p].er /\ op'[p].errM = op[p].errM
              /\ op'[p].mine = op[p].mine
    BY <1>00, <2>2, <2>3, <2>5 DEF Mine
  <2>6. CASE Goto(p, "rollback")
    <3>1. /\ op'[p].pc = "rollback" /\ op'[p].er = op[p].er /\ op'[p].errM = op[p].errM
          /\ op'[p].mine = op[p].mine
      BY <1>0, <2>6, GotoAll
    <3> QED BY <1>00, <2>2, <2>3, <3>1 DEF Mine
  <2> QED BY <2>2, <2>4, <2>5, <2>6
<1>7. ASSUME RollbackInstances(p) PROVE Good
  <2>1. op[p].pc = "rollback" /\ row # NoRow /\ UNCHANGED <<row, ctx, explorer, watching>>
    BY <1>0, <1>7 DEF RollbackInstances, db, local, Phase, Shown
  <2>2. op'[p].pc \in {"idle", "rollback_cfg"}
    BY <1>0, <1>7, GotoAll, ReturnFields DEF RollbackInstances
  <2>3. cloudFailed' \/ (cloudFailed' = cloudFailed /\ untagged' = untagged \ RollbackIds(op[p]))
    BY <1>7 DEF RollbackInstances, TerminateOK, TerminateFails, history
  <2>4. ~cloudFailed' => untagged' = {}
    BY <1>00, <2>3 DEF Mine, RollbackIds
  <2> QED BY <1>00, <2>1, <2>2, <2>4
<1>8. ASSUME RollbackContext(p) PROVE Good
  <2>1. /\ op[p].pc = "rollback_cfg" /\ row # NoRow
        /\ UNCHANGED <<row, explorer, watching, untagged, cloudFailed>>
    BY <1>0, <1>8 DEF RollbackContext, db, cloud, history, Phase, Shown
  <2>2. op'[p].pc = "idle"
    BY <1>0, <1>8, ReturnFields DEF RollbackContext
  <2> QED BY <1>00, <1>02, <2>1, <2>2
<1>9. ASSUME JBegin(p) \/ JSave(p) \/ UBegin(p) \/ UNodes(p) \/ UDefer(p) \/ UCCM(p) \/ DBegin(p)
               \/ LCloud(p)
      PROVE  Good
  <2>1. op'[p].pc \in {"idle", "j_masters", "j_defer", "u_nodes", "u_defer", "u_ccm", "d_cloud", "l_mark"}
    <3>1. CASE UBegin(p) /\ ~Return(p)
      <4>1. PICK st : op' = [op EXCEPT ![p].pc = "u_nodes", ![p].st = st]
        BY <3>1 DEF UBegin
      <4> QED BY <1>0, <4>1 DEF OpInv, OpType
    <3>2. CASE Return(p)
      BY <1>0, <3>2, ReturnFields
    <3>3. CASE ~UBegin(p)
      BY <1>0, <1>9, <3>3, GotoFields, FailFields, ReturnFields
         DEF JBegin, JSave, UNodes, UDefer, UCCM, DBegin, LCloud
    <3> QED BY <3>1, <3>2, <3>3
  <2>2. op[p].pc \in {"j_begin", "j_save", "u_begin", "u_nodes", "u_defer", "u_ccm", "d_begin", "l_cloud"}
        /\ UNCHANGED <<ctx, explorer, watching, untagged, cloudFailed>>
    BY <1>9 DEF JBegin, JSave, UBegin, UNodes, UDefer, UCCM, DBegin, LCloud, cloud, local, history
  <2>3. ~DDelete(p)
    BY <2>2 DEF DDelete
  <2> QED BY <1>a, <2>1, <2>2, <2>3
<1>10. ASSUME JDeferPanics(p) PROVE FALSE
  BY <1>00, <1>10 DEF JDeferPanics, CoverPC
<1>11. ASSUME DCloud(p) PROVE Good
  <2>1. op[p].pc = "d_cloud" /\ UNCHANGED <<row, ctx, explorer, watching>>
    BY <1>11 DEF DCloud, db, local
  <2>2. op'[p].pc \in {"idle", "d_cfg"}
    BY <1>0, <1>11, GotoAll, ReturnFields DEF DCloud
  <2>3. cloudFailed' \/ (cloudFailed' = cloudFailed /\ untagged' \subseteq untagged)
    BY <1>11 DEF DCloud, TerminateOK, TerminateFails, history, cloud
  <2> QED BY <1>00, <1>02, <2>1, <2>2, <2>3
<1>12. ASSUME DCfg(p) PROVE Good
  <2>1. /\ op[p].pc = "d_cfg" /\ ctx' = FALSE
        /\ UNCHANGED <<row, explorer, watching, untagged, cloudFailed>>
    BY <1>0, <1>12 DEF DCfg, db, cloud, history
  <2> QED BY <1>00, <1>02, <2>1
<1>13. ASSUME DRow(p) PROVE Good
  <2>1. /\ op[p].pc = "d_row" /\ UNCHANGED <<row, ctx, explorer, watching, untagged, cloudFailed>>
        /\ \/ Goto(p, "d_explorer")
           \/ row # NoRow /\ op' = [op EXCEPT ![p].pc = "d_delete", ![p].st = row]
    BY <1>0, <1>13 DEF DRow, db, cloud, local, history
  <2>2. op'[p].pc = "d_explorer" \/ (row # NoRow /\ op'[p].pc = "d_delete")
    BY <1>0, <2>1, GotoAll DEF OpInv, OpType
  <2> QED BY <1>00, <1>02, <2>1, <2>2
<1>16. ASSUME DDelete(p) \/ DCount(p) PROVE Good
  <2>1. /\ op[p].pc \in {"d_delete", "d_count"} /\ UNCHANGED <<ctx, explorer, watching, untagged, cloudFailed>>
        /\ row' = NoRow => ~ctx
        /\ Goto(p, "d_count") \/ Goto(p, "d_explorer")
    BY <1>0, <1>00, <1>16 DEF DDelete, DCount, cloud, local, history
  <2>2. op'[p].pc \in {"d_count", "d_explorer"}
    BY <1>0, <2>1, GotoAll
  <2> QED BY <1>00, <1>02, <2>1, <2>2
<1>14. ASSUME DExplorer(p) PROVE Good
  <2>1. /\ op[p].pc = "d_explorer" /\ explorer' = "none" /\ watching' = (watching /\ explorer # "enabled")
        /\ UNCHANGED <<row, ctx, untagged, cloudFailed>>
    BY <1>0, <1>14 DEF DExplorer, db, cloud, history
  <2>2. op'[p].pc = "idle"
    BY <1>0, <1>14, ReturnFields DEF DExplorer
  <2> QED BY <1>00, <1>02, <2>1, <2>2
<1>15. ASSUME LMark(p) PROVE Good
  <2>1. /\ op[p].pc = "l_mark" /\ ctx' = FALSE /\ row # NoRow
        /\ UNCHANGED <<explorer, watching, untagged, cloudFailed>>
    BY <1>0, <1>15 DEF LMark, cloud, history, Phase, Shown
  <2>2. ~DDelete(p)
    BY <2>1 DEF DDelete
  <2> QED BY <1>00, <1>01, <1>02, <2>1, <2>2
<1> QED BY <1>1, <1>3, <1>4, <1>5, <1>6, <1>7, <1>8, <1>9, <1>10, <1>11, <1>12, <1>13,
           <1>14, <1>15, <1>16 DEF Step

(* It holds in every state.                                                *)
LEMMA LeftInvariance == ASSUME Steady, Rollback PROVE Spec => []LeftInv
<1>1. Init => LeftInv
  BY DEF Init, LeftInv, Idle
<1>2. IInv /\ CoverInv /\ PhaseInv /\ LeftInv /\ [Next]_vars => LeftInv'
  <2> SUFFICES ASSUME IInv, CoverInv, PhaseInv, LeftInv, [Next]_vars PROVE LeftInv'
    OBVIOUS
  <2>1. ASSUME NEW p \in Proc, Request(p) PROVE LeftInv'
    <3>1. /\ UNCHANGED <<row, untagged, ctx, explorer, watching, cloudFailed>>
          /\ op[p].pc = "idle"
          /\ op'[p].pc \in {"c_save", "j_begin", "u_begin", "d_begin", "l_cloud"}
      BY <2>1, RequestAll DEF IInv
    <3> QED BY <3>1 DEF Steady, OneAtATime, LeftInv
  <2>2. CASE \E p \in Proc : Step(p)
    BY <2>2, LeftStep
  <2>3. CASE CloudLoss
    BY <2>3 DEF CloudLoss, db, local, history, LeftInv
  <2>4. ~Crash
    BY DEF Crash, Steady, PhaseInv
  <2>5. CASE UNCHANGED vars
    BY <2>5 DEF vars, db, cloud, local, history, LeftInv
  <2> QED BY <2>1, <2>2, <2>3, <2>4, <2>5 DEF Next
<1>3. OneAtATime
  BY DEF Steady
<1> QED BY <1>1, <1>2, <1>3, Invariance, CoverInvariance, PhaseInvariance, PTL DEF Spec

(* With operations one at a time, rollback on, and neither the database    *)
(* nor a termination failing: a cluster without a row has left nothing in  *)
(* the cloud, in the kubeconfig file or in the explorer once the operation *)
(* is over (DeleteCluster, RollbackCluster).                               *)
THEOREM DeletedClean == ASSUME Steady, Rollback PROVE Spec => []NothingLeft
<1>1. CoverInv /\ LeftInv => NothingLeft
  <2> SUFFICES ASSUME CoverInv, LeftInv, Quiet, row = NoRow, ~cloudFailed
               PROVE  inst = {} /\ untagged = {} /\ ~ctx /\ explorer = "none" /\ ~watching
    BY DEF NothingLeft
  <2>1. PICK p \in Proc : op[p].pc = "idle"
    BY DEF Quiet, At, Steady, OneAtATime
  <2>2. explorer = "none" /\ untagged = {}
    BY <2>1 DEF LeftInv
  <2> QED BY <2>2 DEF LeftInv, CoverInv, RowCoversInstances
<1>2. OneAtATime
  BY DEF Steady
<1> QED BY <1>1, <1>2, CoverInvariance, LeftInvariance, PTL

---------------------------------------------------------------------------
(* A Running cluster is what its row says. *)

(* K3s is on instances that run.                                           *)
K3sInv == k3s \subseteq inst \cup untagged

(* No step installs K3s elsewhere, or leaves it on an instance that ends.  *)
LEMMA K3sStep ==
  ASSUME OpInv, K3sInv, [Next]_vars
  PROVE  K3sInv'
<1>1. ASSUME NEW p \in Proc, Step(p) PROVE K3sInv'
  <2>1. CASE CMasters(p) \/ CWorkers(p) \/ JMasters(p) \/ JWorkers(p)
    BY <2>1 DEF CMasters, CWorkers, JMasters, JWorkers, RunInstances, K3sInv
  <2>2. CASE CInit(p) \/ JJoin(p)
    BY <2>2 DEF CInit, JJoin, K3sInv
  <2>3. CASE RollbackInstances(p) \/ DCloud(p)
    BY <2>3 DEF RollbackInstances, DCloud, TerminateOK, TerminateFails, cloud, K3sInv
  <2>4. CASE UNCHANGED cloud
    BY <2>4 DEF cloud, K3sInv
  <2> QED BY <1>1, <2>1, <2>2, <2>3, <2>4
          DEF Step, CSave, CKeys, CCfg, CRunning, CExplorer, CManifest, CDefer, CWrite, RollbackContext,
              JBegin, JSync, JSave, JDefer, JDeferPanics, Restart, UBegin, UNodes, UDefer, UCCM,
              DBegin, DCfg, DRow, DDelete, DCount, DExplorer, LCloud, LMark
<1>2. ASSUME NEW p \in Proc, Request(p) PROVE K3sInv'
  BY <1>2, RequestAll DEF K3sInv
<1>3. CASE CloudLoss \/ Crash \/ UNCHANGED vars
  BY <1>3 DEF CloudLoss, Crash, Restart, vars, cloud, K3sInv
<1> QED BY <1>1, <1>2, <1>3 DEF Next

(* A row or state with nodes, and the nodes in it.                         *)
LEMMA NodesParts ==
  ASSUME NEW r \in RowType
  PROVE  /\ Nodes(r) = r.masters \cup r.workers /\ r # NoRow
         /\ r.masters = Nodes(r) \cap MasterPool /\ r.workers = Nodes(r) \cap WorkerPool
         /\ Nodes(r) \subseteq Instance
BY NoRowAssumption, PoolAssumption DEF Nodes, RowType, Instance

(* New instances are new to the row and to the cloud.                      *)
LEMMA AskNew ==
  ASSUME NEW pool, NEW n, NEW S \in Ask(pool, n)
  PROVE  /\ S \subseteq pool /\ Cardinality(S) = n
         /\ S \cap inst = {} /\ S \cap untagged = {} /\ S \cap Nodes(row) = {}
BY DEF Ask

(* A step only adds to what was lost.                                      *)
LEMMA LossStep ==
  ASSUME IInv, NEW p \in Proc, Step(p)
  PROVE  losses' = losses /\ (cloudFailed => cloudFailed')
<1>1. losses' = losses
  BY DEF Step, CSave, CKeys, CMasters, CWorkers, CInit, CCfg, CRunning, CExplorer,
         CManifest, CDefer, CWrite, RollbackInstances, RollbackContext, JBegin, JMasters, JWorkers,
         JSync, JJoin, JSave, JDefer, JDeferPanics, Restart, UBegin, UNodes, UDefer, UCCM,
         DBegin, DCloud, DCfg, DRow, DDelete, DCount, DExplorer, LCloud, LMark, RunInstances, bounds
<1>2. cloudFailed' = cloudFailed \/ cloudFailed' = TRUE
  BY DEF Step, CSave, CKeys, CMasters, CWorkers, CInit, CCfg, CRunning, CExplorer,
         CManifest, CDefer, CWrite, RollbackInstances, RollbackContext, JBegin, JMasters, JWorkers,
         JSync, JJoin, JSave, JDefer, JDeferPanics, Restart, UBegin, UNodes, UDefer, UCCM,
         DBegin, DCloud, DCfg, DRow, DDelete, DCount, DExplorer, LCloud, LMark, RunInstances,
         TerminateOK, TerminateFails, history
<1> QED BY <1>1, <1>2

(* The steps of a create.                                                  *)
LEMMA RealCreate ==
  ASSUME IInv, ~DBFails, NEW p \in Proc, Phase(op[p]), RealOp(op[p]),
         CSave(p) \/ CKeys(p) \/ CMasters(p) \/ CWorkers(p) \/ CInit(p) \/ CCfg(p)
           \/ CRunning(p) \/ CExplorer(p) \/ CManifest(p),
         IInv'
  PROVE  RealOp(op[p])'
<1> USE DEF At
<1>0. OpInv /\ SharedInv /\ op[p] \in OpType /\ Held(op[p])
  BY DEF IInv, OpInv
<1>a. ASSUME op'[p].pc = "c_defer", op'[p].er = TRUE PROVE RealOp(op[p])'
  BY <1>a DEF RealOp, UpgradePC
<1>1. ASSUME CSave(p) \/ CKeys(p) PROVE RealOp(op[p])'
  <2>1. /\ op[p].pc \in {"c_save", "c_keys"} /\ UNCHANGED <<inst, untagged, k3s>>
        /\ Goto(p, "c_keys") \/ Goto(p, "c_masters") \/ Fail(p, "c_defer")
    BY <1>1 DEF CSave, CKeys, cloud
  <2>2. CASE Fail(p, "c_defer")
    BY <1>0, <1>a, <2>2, FailAll
  <2>3. CASE Goto(p, "c_keys") \/ Goto(p, "c_masters")
    <3>1. /\ op'[p].pc \in {"c_keys", "c_masters"}
          /\ op'[p].st = op[p].st /\ op'[p].nm = op[p].nm /\ op'[p].nw = op[p].nw
          /\ op'[p].mine = op[p].mine
      BY <1>0, <2>3, GotoAll
    <3> QED BY <2>1, <3>1 DEF RealOp, UpgradePC
  <2> QED BY <2>1, <2>2, <2>3
<1>2. ASSUME CMasters(p) PROVE RealOp(op[p])'
  <2>1. /\ inst = op[p].mine /\ untagged = {} /\ k3s = {} /\ op[p].mine = {}
        /\ op[p].nm >= 1 /\ op[p].st.master = op[p].nm /\ op[p].st.worker = op[p].nw
    BY <1>2 DEF CMasters, RealOp
  <2>2. /\ op'[p].st = op[p].st /\ op'[p].nm = op[p].nm /\ op'[p].nw = op[p].nw /\ k3s' = k3s
        /\ RunOutcome(p, MasterPool, op[p].nm, "c_workers", "c_defer")
    BY <1>0, <1>2, RunAll DEF CMasters
  <2>3. CASE op'[p].pc = "c_defer" /\ op'[p].er = TRUE
    BY <1>a, <2>3
  <2>4. CASE \E S \in Ask(MasterPool, op[p].nm) :
               /\ inst' = inst \cup S /\ untagged' = untagged
               /\ op'[p].pc = "c_workers" /\ op'[p].mine = op[p].mine \cup S
    <3>1. PICK S \in Ask(MasterPool, op[p].nm) :
               /\ inst' = inst \cup S /\ untagged' = untagged
               /\ op'[p].pc = "c_workers" /\ op'[p].mine = op[p].mine \cup S
      BY <2>4
    <3>2. S \subseteq MasterPool /\ Cardinality(S) = op[p].nm
      BY AskNew
    <3>3. op'[p].mine = S /\ inst' = S /\ S \cap MasterPool = S
      BY <2>1, <3>1, <3>2
    <3>4. /\ inst' = op'[p].mine /\ untagged' = {} /\ k3s' = {} /\ op'[p].pc = "c_workers"
          /\ op'[p].nm >= 1 /\ op'[p].st.master = op'[p].nm /\ op'[p].st.worker = op'[p].nw
          /\ op'[p].mine \subseteq MasterPool /\ Cardinality(op'[p].mine \cap MasterPool) = op'[p].nm
      BY <2>1, <2>2, <3>1, <3>2, <3>3
    <3> QED BY <3>4 DEF RealOp, UpgradePC
  <2> QED BY <2>2, <2>3, <2>4 DEF RunOutcome
<1>3. ASSUME CWorkers(p) PROVE RealOp(op[p])'
  <2>1. /\ inst = op[p].mine /\ untagged = {} /\ k3s = {} /\ op[p].mine \subseteq MasterPool
        /\ op[p].nm >= 1 /\ op[p].st.master = op[p].nm /\ op[p].st.worker = op[p].nw
        /\ Cardinality(op[p].mine \cap MasterPool) = op[p].nm
    BY <1>3 DEF CWorkers, RealOp
  <2>2. /\ op'[p].st = op[p].st /\ op'[p].nm = op[p].nm /\ op'[p].nw = op[p].nw /\ k3s' = k3s
        /\ RunOutcome(p, WorkerPool, op[p].nw, "c_init", "c_defer")
    BY <1>0, <1>3, RunAll DEF CWorkers
  <2>3. CASE op'[p].pc = "c_defer" /\ op'[p].er = TRUE
    BY <1>a, <2>3
  <2>4. CASE \E S \in Ask(WorkerPool, op[p].nw) :
               /\ inst' = inst \cup S /\ untagged' = untagged
               /\ op'[p].pc = "c_init" /\ op'[p].mine = op[p].mine \cup S
    <3>1. PICK S \in Ask(WorkerPool, op[p].nw) :
               /\ inst' = inst \cup S /\ untagged' = untagged
               /\ op'[p].pc = "c_init" /\ op'[p].mine = op[p].mine \cup S
      BY <2>4
    <3>2. S \subseteq WorkerPool /\ Cardinality(S) = op[p].nw
      BY AskNew
    <3>3. /\ op'[p].mine \cap WorkerPool = S
          /\ op'[p].mine \cap MasterPool = op[p].mine \cap MasterPool
      BY <2>1, <3>1, <3>2, PoolAssumption
    <3>4. /\ inst' = op'[p].mine /\ untagged' = {} /\ k3s' = {} /\ op'[p].pc = "c_init"
          /\ op'[p].nm >= 1 /\ op'[p].st.master = op'[p].nm /\ op'[p].st.worker = op'[p].nw
          /\ Cardinality(op'[p].mine \cap MasterPool) = op'[p].nm
          /\ Cardinality(op'[p].mine \cap WorkerPool) = op'[p].nw
      BY <2>1, <2>2, <3>1, <3>2, <3>3
    <3> QED BY <3>4 DEF RealOp, UpgradePC
  <2> QED BY <2>2, <2>3, <2>4 DEF RunOutcome
<1>4. ASSUME CInit(p) PROVE RealOp(op[p])'
  <2>1. /\ inst = op[p].mine /\ untagged = {} /\ k3s = {}
        /\ op[p].nm >= 1 /\ op[p].st.master = op[p].nm /\ op[p].st.worker = op[p].nw
        /\ Cardinality(op[p].mine \cap MasterPool) = op[p].nm
        /\ Cardinality(op[p].mine \cap WorkerPool) = op[p].nw
    BY <1>4 DEF CInit, RealOp
  <2>2. CASE Fail(p, "c_defer")
    BY <1>0, <1>a, <2>2, FailAll
  <2>3. CASE ~Fail(p, "c_defer")
    <3> DEFINE ms == op[p].mine \cap MasterPool
               ws == op[p].mine \cap WorkerPool
               st == [op[p].st EXCEPT !.masters = ms, !.workers = ws]
    <3>1. PICK bad \in SUBSET ws :
            /\ k3s' = k3s \cup (op[p].mine \ bad) /\ UNCHANGED <<inst, untagged>>
            /\ op' = [op EXCEPT ![p].pc = "c_cfg", ![p].errM = bad, ![p].st = st]
      BY <1>4, <2>3 DEF CInit
    <3>2. op[p].st \in RowType /\ ms \in SUBSET MasterPool /\ ws \in SUBSET WorkerPool
      BY <1>0, <1>4 DEF CInit, Held, StatePC, CreatePC
    <3>3. /\ st \in RowType /\ st.masters = ms /\ st.workers = ws
          /\ st.master = op[p].st.master /\ st.worker = op[p].st.worker
      BY <3>2 DEF RowType
    <3>4. ms # {}
      BY <2>1, FS_EmptySet
    <3>5. ms \cup ws = op[p].mine
      BY <1>0 DEF OpType, Instance
    <3>6. Nodes(st) = op[p].mine /\ Sized(st)
      BY <2>1, <3>3, <3>4, <3>5, NodesParts DEF Sized, Counted
    <3> HIDE DEF st
    <3>7. /\ op'[p].pc = "c_cfg" /\ op'[p].st = st /\ op'[p].mine = op[p].mine
          /\ op'[p].errM = bad
      BY <1>0, <3>1 DEF OpInv, OpType
    <3>8. /\ Sized(op'[p].st) /\ Nodes(op'[p].st) = op'[p].mine /\ op'[p].errM \subseteq WorkerPool
          /\ inst' = op'[p].mine /\ untagged' = {} /\ k3s' = op'[p].mine \ op'[p].errM
      BY <2>1, <3>1, <3>2, <3>6, <3>7
    <3> QED BY <3>7, <3>8 DEF RealOp, UpgradePC, Sized, Counted, Nodes
  <2> QED BY <2>2, <2>3
<1>5. ASSUME CCfg(p) PROVE RealOp(op[p])'
  <2>1. UNCHANGED <<inst, untagged, k3s>> /\ op[p].pc = "c_cfg"
    BY <1>5 DEF CCfg, cloud
  <2>2. CASE Fail(p, "c_defer")
    BY <1>0, <1>a, <2>2, FailAll
  <2>3. CASE Goto(p, "c_running") /\ ctx' = TRUE
    <3>1. /\ op'[p].pc = "c_running" /\ op'[p].st = op[p].st /\ op'[p].mine = op[p].mine
          /\ op'[p].errM = op[p].errM
      BY <1>0, <2>3, GotoAll
    <3>2. /\ Sized(op[p].st) /\ Nodes(op[p].st) = op[p].mine /\ op[p].errM \subseteq WorkerPool
          /\ inst = op[p].mine /\ untagged = {} /\ k3s = op[p].mine \ op[p].errM
      BY <2>1 DEF RealOp
    <3> QED BY <2>1, <2>3, <3>1, <3>2 DEF RealOp, UpgradePC, Sized, Counted, Nodes
  <2> QED BY <1>5, <2>2, <2>3 DEF CCfg
<1>6. ASSUME CRunning(p) PROVE RealOp(op[p])'
  <2> DEFINE r == [op[p].st EXCEPT !.status = "Running"]
  <2>1. /\ Sized(op[p].st) /\ Nodes(op[p].st) = op[p].mine /\ op[p].errM \subseteq WorkerPool
        /\ inst = op[p].mine /\ untagged = {} /\ k3s = op[p].mine \ op[p].errM /\ ctx
    BY <1>6 DEF CRunning, RealOp
  <2>2. op[p].st \in RowType
    BY <1>0, <1>6 DEF CRunning, Held, StatePC, CreatePC
  <2>3. /\ r \in RowType /\ r.masters = op[p].st.masters /\ r.workers = op[p].st.workers
        /\ r.master = op[p].st.master /\ r.worker = op[p].st.worker
    BY <2>2 DEF RowType, Status
  <2>4. SaveCluster(r) /\ Goto(p, "c_explorer") /\ UNCHANGED <<inst, untagged, k3s, ctx>>
    BY <1>6 DEF CRunning, cloud, local
  <2> HIDE DEF r
  <2>5. row' = r
    BY <2>3, <2>4, SavesRow
  <2>6. Sized(row') /\ Nodes(row') = inst'
    BY <2>1, <2>2, <2>3, <2>4, <2>5, NodesParts DEF Sized, Counted
  <2>7. op'[p].pc = "c_explorer" /\ op'[p].errM = op[p].errM
    BY <1>0, <2>4, GotoAll
  <2> QED BY <2>1, <2>4, <2>6, <2>7 DEF RealOp, UpgradePC, Sized, Counted, Nodes
<1>7. ASSUME CExplorer(p) \/ CManifest(p) PROVE RealOp(op[p])'
  <2>1. /\ Sized(row) /\ ctx
        /\ inst = Nodes(row) /\ untagged = {} /\ k3s = inst \ op[p].errM /\ op[p].errM \subseteq WorkerPool
    BY <1>7 DEF CExplorer, CManifest, RealOp
  <2>2. UNCHANGED <<row, inst, untagged, k3s, ctx>>
    BY <1>7 DEF CExplorer, CManifest, cloud, local, db
  <2>3. op'[p].pc \in {"c_manifest", "c_defer"} /\ op'[p].errM = op[p].errM
    BY <1>0, <1>7, GotoAll, FailAll DEF CExplorer, CManifest
  <2> QED BY <2>1, <2>2, <2>3 DEF RealOp, UpgradePC, Sized, Counted, Nodes
<1> QED BY <1>1, <1>2, <1>3, <1>4, <1>5, <1>6, <1>7

(* The deferred functions of InitCluster and JoinNodes.                    *)
LEMMA RealDefer ==
  ASSUME IInv, ~DBFails, NEW p \in Proc, Phase(op[p]), RealOp(op[p]),
         CDefer(p) \/ CWrite(p) \/ JDefer(p), IInv'
  PROVE  RealOp(op[p])'
<1> USE DEF At
<1>0. /\ OpInv /\ SharedInv /\ op[p] \in OpType /\ Held(op[p])
      /\ op[p].pc \in {"c_defer", "c_write", "j_defer"}
  BY DEF IInv, OpInv, CDefer, CWrite, JDefer
<1>1. row # NoRow /\ row \in RowType
  BY <1>0 DEF Phase, Shown, SharedInv
<1>2. UNCHANGED <<inst, untagged, k3s, ctx>>
  BY <1>1, CDeferRow, CWriteRow, JDeferRow
<1>3. op[p].er = FALSE =>
        /\ Sized(row) /\ ctx /\ inst = Nodes(row) /\ untagged = {}
        /\ k3s = inst \ op[p].errM /\ op[p].errM \subseteq WorkerPool
  BY <1>0 DEF RealOp
<1>4. op[p].er \in BOOLEAN
  BY <1>0 DEF OpType
<1>5. CASE op[p].er = FALSE /\ op[p].errM = {}
  <2>1. Return(p) /\ UNCHANGED row
    BY <1>1, <1>5, CDeferRow, CWriteRow, JDeferRow
  <2>2. op'[p].pc = "idle"
    BY <1>0, <2>1, ReturnFields
  <2> QED BY <1>2, <1>3, <1>5, <2>1, <2>2 DEF RealOp, RealNow, UpgradePC, Sized, Counted, Nodes
<1>6. CASE CDefer(p) /\ ~(op[p].er = FALSE /\ op[p].errM = {})
  <2>1. /\ UNCHANGED row /\ op'[p].pc = "c_write"
        /\ op'[p].er = op[p].er /\ op'[p].errM = op[p].errM
    BY <1>1, <1>4, <1>6, CDeferRow
  <2> QED BY <1>2, <1>3, <1>4, <2>1 DEF RealOp, UpgradePC, Sized, Counted, Nodes
<1>7. CASE (CWrite(p) \/ JDefer(p)) /\ ~(op[p].er = FALSE /\ op[p].errM = {})
  <2>1. PICK r \in RowType :
          /\ row' = r /\ Goto(p, "rollback")
          /\ r.status = "Failed" \/ op[p].er = FALSE \/ op[p].pc = "j_defer"
          /\ r.masters = row.masters /\ r.master = row.master /\ r.workers = row.workers \ op[p].errM
          /\ Counted(row) => Counted(r)
    <3>1. CASE CWrite(p)
      <4> DEFINE s == IF op[p].er THEN "Failed" ELSE row.status
      <4>1. row' = Dropped(s, op[p].errM) /\ Goto(p, "rollback")
        BY <3>1, CWriteRow
      <4>2. s \in Status /\ (s = "Failed" \/ op[p].er = FALSE)
        BY <1>1, <1>4 DEF RowType, Status
      <4> HIDE DEF s
      <4> QED BY <1>0, <1>1, <4>1, <4>2, DroppedRow
    <3>2. CASE JDefer(p)
      <4>1. op[p].pc = "j_defer"
        BY <3>2 DEF JDefer
      <4> QED BY <1>1, <1>4, <1>7, <3>2, <4>1, JDeferRow
    <3> QED BY <1>7, <3>1, <3>2
  <2>2. op'[p].pc = "rollback" /\ op'[p].errM = op[p].errM /\ op'[p].mine = op[p].mine
    BY <1>0, <2>1, GotoAll
  <2>3. Nodes(row) = row.masters \cup row.workers /\ Nodes(row') = r.masters \cup r.workers
        /\ row.masters \subseteq MasterPool
    BY <1>1, <2>1, NodesParts DEF RowType
  <2>4. RollbackIds(op'[p]) = RollbackIds(op[p])
    BY <2>2 DEF RollbackIds
  <2>5. CASE r.status = "Failed"
    <3>1. Shown' = "Failed"
      BY <2>1, <2>5, NoRowAssumption DEF Shown
    <3> QED BY <2>2, <3>1 DEF RealOp, UpgradePC
  <2>6. CASE op[p].er = FALSE
    <3>1. Sized(row') /\ ctx'
      BY <1>2, <1>3, <2>1, <2>6 DEF Sized
    <3>2. RollbackIds(op[p]) = op[p].errM
      BY <1>7, <2>6 DEF RollbackIds
    <3>3. Nodes(row') = Nodes(row) \ op[p].errM
      BY <1>3, <2>1, <2>3, <2>6, PoolAssumption
    <3>4. /\ inst' \ RollbackIds(op'[p]) = Nodes(row') /\ k3s' \ RollbackIds(op'[p]) = Nodes(row')
          /\ untagged' \subseteq RollbackIds(op'[p])
      BY <1>2, <1>3, <2>4, <2>6, <3>2, <3>3
    <3> QED BY <2>2, <3>1, <3>4 DEF RealOp, UpgradePC, Sized, Counted, Nodes
  <2>7. CASE op[p].er = TRUE /\ op[p].pc = "j_defer"
    <3>1. /\ Sized(row) /\ ctx /\ op[p].errM = {}
          /\ inst \ op[p].mine = Nodes(row) /\ k3s \ op[p].mine = Nodes(row)
          /\ untagged \subseteq op[p].mine
      BY <2>7 DEF RealOp
    <3>2. Sized(row') /\ ctx'
      BY <1>2, <2>1, <3>1 DEF Sized
    <3>3. RollbackIds(op'[p]) = op[p].mine /\ Nodes(row') = Nodes(row)
      BY <2>1, <2>3, <2>4, <3>1 DEF RollbackIds
    <3>4. /\ inst' \ RollbackIds(op'[p]) = Nodes(row') /\ k3s' \ RollbackIds(op'[p]) = Nodes(row')
          /\ untagged' \subseteq RollbackIds(op'[p])
      BY <1>2, <3>1, <3>3
    <3> QED BY <2>2, <3>2, <3>4 DEF RealOp, UpgradePC, Sized, Counted, Nodes
  <2> QED BY <1>4, <2>1, <2>5, <2>6, <2>7
<1> QED BY <1>5, <1>6, <1>7

(* RollbackCluster, unless a termination fails.                            *)
LEMMA RealRollback ==
  ASSUME IInv, ~DBFails, Rollback, NEW p \in Proc, Phase(op[p]), RealOp(op[p]), ~cloudFailed',
         RollbackInstances(p) \/ RollbackContext(p), IInv'
  PROVE  RealOp(op[p])'
<1> USE DEF At
<1>0. OpInv /\ SharedInv /\ op[p] \in OpType
  BY DEF IInv, OpInv
<1>1. CASE RollbackInstances(p)
  <2> DEFINE ids == RollbackIds(op[p])
  <2>1. /\ inst' = inst \ ids /\ untagged' = untagged \ ids /\ k3s' = k3s \ ids
        /\ Goto(p, "rollback_cfg") /\ UNCHANGED <<row, ctx>> /\ op[p].pc = "rollback"
    BY <1>1 DEF RollbackInstances, TerminateOK, TerminateFails, db, local
  <2>2. Shown = "Running" => /\ Sized(row) /\ ctx
                             /\ inst \ ids = Nodes(row) /\ k3s \ ids = Nodes(row)
                             /\ untagged \subseteq ids
    BY <2>1 DEF RealOp
  <2>3. op'[p].pc = "rollback_cfg"
    BY <1>0, <2>1, GotoAll
  <2>4. Shown' = Shown /\ (Shown = "Running" => RealNow')
    BY <2>1, <2>2 DEF Shown, RealNow, Sized, Counted, Nodes
  <2> QED BY <2>3, <2>4 DEF RealOp, UpgradePC
<1>2. CASE RollbackContext(p)
  <2>1. /\ op[p].pc = "rollback_cfg" /\ UNCHANGED <<row, inst, untagged, k3s>>
        /\ ctx' = (ctx /\ row # NoRow /\ row.status = "Running") /\ Return(p)
    BY <1>2 DEF RollbackContext, db, cloud
  <2>2. op'[p].pc = "idle"
    BY <1>0, <2>1, ReturnFields
  <2>3. Shown = "Running" => RealNow /\ row # NoRow /\ row.status = "Running"
    BY <2>1 DEF RealOp, Shown
  <2>4. Shown' = Shown /\ (Shown = "Running" => RealNow')
    BY <2>1, <2>3 DEF Shown, RealNow, Sized, Counted, Nodes
  <2> QED BY <2>2, <2>4 DEF RealOp, UpgradePC
<1> QED BY <1>1, <1>2

(* The steps of a join, up to its deferred function.                       *)
LEMMA RealJoin ==
  ASSUME IInv, ~DBFails, Orderly, NEW p \in Proc, Phase(op[p]), RealOp(op[p]),
         JBegin(p) \/ JMasters(p) \/ JWorkers(p) \/ JSync(p) \/ JJoin(p) \/ JSave(p), IInv'
  PROVE  RealOp(op[p])'
<1> USE DEF At
<1>0. OpInv /\ SharedInv /\ op[p] \in OpType /\ Held(op[p])
  BY DEF IInv, OpInv
<1>1. /\ op[p].pc \in {"j_begin", "j_masters", "j_workers", "j_sync", "j_join", "j_save"}
      /\ row # NoRow /\ row \in RowType /\ op[p].st \in RowType
      /\ op[p].pc # "j_save" => op[p].errM = {}
  <2>1. op[p].pc \in {"j_begin", "j_masters", "j_workers", "j_sync", "j_join", "j_save"}
    BY DEF JBegin, JMasters, JWorkers, JSync, JJoin, JSave
  <2>2. Shown # "Absent"
    BY <2>1 DEF Phase, JoinPC, Abstract!Settled
  <2> QED BY <1>0, <2>1, <2>2 DEF Phase, Shown, SharedInv, Held, StatePC, JoinPC
<1>2. op[p].pc \in {"j_masters", "j_workers", "j_sync", "j_join"} =>
        /\ Sized(row) /\ ctx /\ untagged = {}
        /\ Nodes(row) \cap op[p].mine = {} /\ inst = Nodes(row) \cup op[p].mine /\ k3s = Nodes(row)
        /\ op[p].pc # "j_join" => op[p].st.masters = row.masters /\ op[p].st.workers = row.workers
  BY DEF RealOp
<1>a. ASSUME UNCHANGED <<row, ctx>>, op[p].pc \in {"j_masters", "j_workers", "j_sync", "j_join"},
             op'[p].pc = "j_defer", op'[p].er = TRUE, op'[p].errM = {},
             inst' \ op'[p].mine = Nodes(row), k3s' \ op'[p].mine = Nodes(row),
             untagged' \subseteq op'[p].mine
      PROVE  RealOp(op[p])'
  BY <1>2, <1>a DEF RealOp, UpgradePC, Sized, Counted, Nodes
<1>3. ASSUME JBegin(p) PROVE RealOp(op[p])'
  <2> DEFINE r == [row EXCEPT !.status = "Upgrading"]
  <2>1. /\ SaveClusterState(r) /\ Goto(p, "j_masters") /\ UNCHANGED <<inst, untagged, k3s, ctx>>
        /\ op[p].pc = "j_begin"
    BY <1>1, <1>3 DEF JBegin, cloud, local
  <2>2. /\ r \in RowType /\ r.masters = row.masters /\ r.workers = row.workers
        /\ r.master = row.master /\ r.worker = row.worker
    BY <1>1 DEF RowType, Status
  <2> HIDE DEF r
  <2>3. row' = r
    BY <1>1, <2>1, <2>2, SavesRow
  <2>4. Shown = "Running"
    BY <2>1 DEF Phase
  <2>5. RealNow /\ op[p].st = row /\ op[p].mine = {}
    BY <2>1, <2>4 DEF RealOp
  <2>6. op'[p].pc = "j_masters" /\ op'[p].st = op[p].st /\ op'[p].mine = op[p].mine
    BY <1>0, <2>1, GotoAll
  <2>7. Nodes(row') = Nodes(row) /\ Sized(row')
    BY <1>1, <2>2, <2>3, <2>5, NodesParts DEF RealNow, Sized, Counted
  <2>8. /\ Sized(row') /\ ctx' /\ untagged' = {}
        /\ Nodes(row') \cap op'[p].mine = {} /\ inst' = Nodes(row') \cup op'[p].mine
        /\ k3s' = Nodes(row')
        /\ op'[p].st.masters = row'.masters /\ op'[p].st.workers = row'.workers
    BY <2>1, <2>2, <2>3, <2>5, <2>6, <2>7 DEF RealNow
  <2> QED BY <2>6, <2>8 DEF RealOp, UpgradePC, Sized, Counted, Nodes
<1>4. ASSUME NEW pool, NEW n, NEW next \in {"j_workers", "j_sync"},
             op[p].pc \in {"j_masters", "j_workers"},
             RunInstances(p, pool, n, next, "j_defer")
      PROVE  RealOp(op[p])'
  <2>1. /\ op'[p].st = op[p].st /\ op'[p].errM = {} /\ UNCHANGED <<row, k3s, ctx>>
        /\ RunOutcome(p, pool, n, next, "j_defer")
    BY <1>0, <1>1, <1>4, RunAll
  <2>2. CASE \E S \in Ask(pool, n) :
               /\ inst' = inst \cup S /\ untagged' = untagged
               /\ op'[p].pc = next /\ op'[p].mine = op[p].mine \cup S
    <3>1. PICK S \in Ask(pool, n) :
               /\ inst' = inst \cup S /\ untagged' = untagged
               /\ op'[p].pc = next /\ op'[p].mine = op[p].mine \cup S
      BY <2>2
    <3>2. S \cap Nodes(row) = {}
      BY AskNew
    <3>3. /\ Sized(row) /\ ctx' /\ untagged' = {}
          /\ Nodes(row) \cap op'[p].mine = {} /\ inst' = Nodes(row) \cup op'[p].mine
          /\ k3s' = Nodes(row)
          /\ op'[p].st.masters = row.masters /\ op'[p].st.workers = row.workers
      BY <1>2, <1>4, <2>1, <3>1, <3>2
    <3> QED BY <2>1, <3>1, <3>3 DEF RealOp, UpgradePC, Sized, Counted, Nodes
  <2>3. CASE /\ UNCHANGED <<inst, untagged>>
             /\ op'[p].pc = "j_defer" /\ op'[p].er = TRUE /\ op'[p].mine = op[p].mine
    <3>1. /\ inst' \ op'[p].mine = Nodes(row) /\ k3s' \ op'[p].mine = Nodes(row)
          /\ untagged' \subseteq op'[p].mine
      BY <1>2, <1>4, <2>1, <2>3
    <3> QED BY <1>4, <1>a, <2>1, <2>3, <3>1
  <2>4. CASE \E S \in Ask(pool, n) :
               /\ inst' = inst /\ untagged' = untagged \cup S
               /\ op'[p].pc = "j_defer" /\ op'[p].er = TRUE /\ op'[p].mine = op[p].mine \cup S
    <3>1. PICK S \in Ask(pool, n) :
               /\ inst' = inst /\ untagged' = untagged \cup S
               /\ op'[p].pc = "j_defer" /\ op'[p].er = TRUE /\ op'[p].mine = op[p].mine \cup S
      BY <2>4
    <3>2. S \cap Nodes(row) = {}
      BY AskNew
    <3>3. /\ inst' \ op'[p].mine = Nodes(row) /\ k3s' \ op'[p].mine = Nodes(row)
          /\ untagged' \subseteq op'[p].mine
      BY <1>2, <1>4, <2>1, <3>1, <3>2
    <3> QED BY <1>4, <1>a, <2>1, <3>1, <3>3
  <2> QED BY <2>1, <2>2, <2>3, <2>4 DEF RunOutcome
<1>5. ASSUME JMasters(p) \/ JWorkers(p) PROVE RealOp(op[p])'
  BY <1>4, <1>5 DEF JMasters, JWorkers
<1>6. ASSUME Fail(p, "j_defer"), op[p].pc \in {"j_sync", "j_join"}, UNCHANGED <<row, inst, untagged, ctx>>,
             \E some \in SUBSET op[p].mine : k3s' = k3s \cup some
      PROVE  RealOp(op[p])'
  <2>1. op'[p].pc = "j_defer" /\ op'[p].er = TRUE /\ op'[p].errM = {} /\ op'[p].mine = op[p].mine
    BY <1>0, <1>1, <1>6, FailAll
  <2>2. /\ inst' \ op'[p].mine = Nodes(row) /\ k3s' \ op'[p].mine = Nodes(row)
        /\ untagged' \subseteq op'[p].mine
    BY <1>2, <1>6, <2>1
  <2> QED BY <1>6, <1>a, <2>1, <2>2
<1>7. ASSUME JSync(p) PROVE RealOp(op[p])'
  <2>1. op[p].pc = "j_sync" /\ UNCHANGED <<row, inst, untagged, k3s, ctx>>
    BY <1>7 DEF JSync, db, cloud, local
  <2>2. CASE Fail(p, "j_defer")
    <3>1. {} \in SUBSET op[p].mine /\ k3s' = k3s \cup {}
      BY <2>1
    <3> QED BY <1>6, <2>1, <2>2, <3>1
  <2>3. CASE ~Fail(p, "j_defer")
    <3> DEFINE found == op[p].mine \cup inst
               ms == op[p].st.masters \cup (found \cap MasterPool)
               ws == op[p].st.workers \cup (found \cap WorkerPool)
               st == [op[p].st EXCEPT !.masters = ms, !.workers = ws]
    <3>1. op' = [op EXCEPT ![p].pc = "j_join", ![p].st = st]
      BY <1>7, <2>3 DEF JSync
    <3>2. /\ st \in RowType /\ st.masters = ms /\ st.workers = ws
      BY <1>1 DEF RowType
    <3>3. /\ op[p].st.masters = row.masters /\ op[p].st.workers = row.workers
          /\ Nodes(row) = row.masters \cup row.workers /\ found = inst /\ inst \subseteq Instance
      BY <1>0, <1>1, <1>2, <2>1, NodesParts DEF SharedInv
    <3>4. ms \cup ws = inst /\ ms # {}
      BY <1>2, <2>1, <3>3 DEF Sized, Instance
    <3>5. Nodes(st) = inst /\ st.masters # {}
      BY <3>2, <3>4, NodesParts
    <3> HIDE DEF st
    <3>6. op'[p].pc = "j_join" /\ op'[p].st = st /\ op'[p].mine = op[p].mine
      BY <1>0, <3>1 DEF OpInv, OpType
    <3>7. /\ Sized(row) /\ ctx' /\ untagged' = {}
          /\ Nodes(row) \cap op'[p].mine = {} /\ inst' = Nodes(row) \cup op'[p].mine
          /\ k3s' = Nodes(row) /\ row' = row
          /\ op'[p].st.masters # {} /\ Nodes(op'[p].st) = inst'
      BY <1>2, <2>1, <3>5, <3>6
    <3> QED BY <3>6, <3>7 DEF RealOp, UpgradePC, Sized, Counted, Nodes
  <2> QED BY <2>2, <2>3
<1>8. ASSUME JJoin(p) PROVE RealOp(op[p])'
  <2>1. op[p].pc = "j_join" /\ UNCHANGED <<row, inst, untagged, ctx>>
    BY <1>8 DEF JJoin, db, local
  <2>2. CASE \E some \in SUBSET (op[p].mine \cap MasterPool \cap inst) :
               k3s' = k3s \cup some /\ Fail(p, "j_defer")
    BY <1>6, <2>1, <2>2
  <2>3. CASE \E bad \in SUBSET (op[p].mine \cap WorkerPool) :
               /\ k3s' = k3s \cup (op[p].mine \ bad)
               /\ op' = [op EXCEPT ![p].pc = "j_save", ![p].errM = bad]
    <3>1. PICK bad \in SUBSET (op[p].mine \cap WorkerPool) :
               /\ k3s' = k3s \cup (op[p].mine \ bad)
               /\ op' = [op EXCEPT ![p].pc = "j_save", ![p].errM = bad]
      BY <2>3
    <3>2. op'[p].pc = "j_save" /\ op'[p].st = op[p].st /\ op'[p].errM = bad
      BY <1>0, <3>1 DEF OpInv, OpType
    <3>3. op[p].st.masters # {} /\ Nodes(op[p].st) = inst
      BY <2>1 DEF RealOp
    <3>4. /\ ctx' /\ untagged' = {} /\ k3s' = inst' \ op'[p].errM /\ op'[p].errM \subseteq WorkerPool
          /\ op'[p].st.masters # {} /\ Nodes(op'[p].st) = inst'
      BY <1>2, <2>1, <3>1, <3>2, <3>3
    <3> QED BY <3>2, <3>4 DEF RealOp, UpgradePC, Nodes
  <2> QED BY <1>8, <2>2, <2>3 DEF JJoin
<1>9. ASSUME JSave(p) PROVE RealOp(op[p])'
  <2> DEFINE st == op[p].st
             m == Cardinality(st.masters)
             w == Cardinality(st.workers)
             r == [st EXCEPT !.status = "Running", !.master = m, !.worker = w]
  <2>1. /\ SaveCluster(r) /\ Goto(p, "j_defer") /\ UNCHANGED <<inst, untagged, k3s, ctx>>
        /\ op[p].pc = "j_save"
    BY <1>9 DEF JSave, cloud, local
  <2>2. st.masters \in SUBSET MasterPool /\ st.workers \in SUBSET WorkerPool
    BY <1>1 DEF RowType
  <2>3. m \in Nat /\ w \in Nat
    BY <2>2, NodeCount
  <2> HIDE DEF m, w
  <2>4. /\ r \in RowType /\ r.masters = st.masters /\ r.workers = st.workers
        /\ r.master = m /\ r.worker = w
    BY <1>1, <2>3 DEF RowType, Status
  <2> HIDE DEF r
  <2>5. row' = r
    BY <2>1, <2>4, SavesRow
  <2>6. /\ ctx /\ untagged = {} /\ k3s = inst \ op[p].errM /\ op[p].errM \subseteq WorkerPool
        /\ st.masters # {} /\ Nodes(st) = inst
    BY <2>1 DEF RealOp
  <2>7. Sized(row') /\ Nodes(row') = inst
    BY <1>1, <2>4, <2>5, <2>6, NodesParts DEF Sized, Counted, m, w
  <2>8. op'[p].pc = "j_defer" /\ op'[p].errM = op[p].errM /\ op'[p].er = FALSE
    <3>1. op[p].er = FALSE
      BY <1>0, <2>1 DEF Phase, OpType
    <3> QED BY <1>0, <2>1, <3>1, GotoAll
  <2>9. /\ Sized(row') /\ ctx' /\ inst' = Nodes(row') /\ untagged' = {}
        /\ k3s' = inst' \ op'[p].errM /\ op'[p].errM \subseteq WorkerPool
    BY <2>1, <2>6, <2>7, <2>8
  <2> QED BY <2>8, <2>9 DEF RealOp, UpgradePC, Sized, Counted, Nodes
<1> QED BY <1>3, <1>5, <1>7, <1>8, <1>9

(* The steps of an upgrade, of a delete and of a list.                     *)
LEMMA RealOther ==
  ASSUME IInv, ~DBFails, Orderly, NEW p \in Proc, Phase(op[p]), RealOp(op[p]), Phase(op[p])',
         UBegin(p) \/ UNodes(p) \/ UDefer(p) \/ UCCM(p) \/ DBegin(p) \/ DCloud(p) \/ DCfg(p)
           \/ DRow(p) \/ DDelete(p) \/ DCount(p) \/ DExplorer(p) \/ LCloud(p) \/ LMark(p),
         IInv'
  PROVE  RealOp(op[p])'
<1> USE DEF At
<1>0. OpInv /\ SharedInv /\ op[p] \in OpType /\ Held(op[p])
  BY DEF IInv, OpInv
<1>1. ASSUME UBegin(p) PROVE RealOp(op[p])'
  <2> DEFINE r == [row EXCEPT !.status = "Upgrading"]
             st == [row EXCEPT !.version = op[p].st.version]
  <2>1. op[p].pc = "u_begin" /\ Shown = "Running" /\ row # NoRow /\ row \in RowType
    BY <1>0, <1>1 DEF UBegin, Phase, Shown, SharedInv
  <2>2. /\ SaveClusterState(r) /\ op' = [op EXCEPT ![p].pc = "u_nodes", ![p].st = st]
        /\ UNCHANGED <<inst, untagged, k3s, ctx>>
    BY <1>1, <2>1 DEF UBegin, cloud, local
  <2>3. /\ r \in RowType /\ r.masters = row.masters /\ r.workers = row.workers
        /\ r.master = row.master /\ r.worker = row.worker
    BY <2>1 DEF RowType, Status
  <2>4. /\ st.masters = row.masters /\ st.workers = row.workers
        /\ st.master = row.master /\ st.worker = row.worker
    BY <2>1 DEF RowType
  <2> HIDE DEF r, st
  <2>5. row' = r
    BY <2>1, <2>2, <2>3, SavesRow
  <2>6. op'[p].pc = "u_nodes" /\ op'[p].st = st
    BY <1>0, <2>2 DEF OpInv, OpType
  <2>7. RealNow
    BY <2>1 DEF RealOp
  <2>8. Nodes(row') = Nodes(row) /\ Sized(row')
    BY <2>1, <2>3, <2>5, <2>7, NodesParts DEF RealNow, Sized, Counted
  <2>9. /\ RealNow'
        /\ op'[p].st.masters = row'.masters /\ op'[p].st.workers = row'.workers
        /\ op'[p].st.master = row'.master /\ op'[p].st.worker = row'.worker
    BY <2>2, <2>3, <2>4, <2>5, <2>6, <2>7, <2>8 DEF RealNow, Sized, Counted, Nodes
  <2> QED BY <2>6, <2>9 DEF RealOp, UpgradePC
<1>2. ASSUME UNodes(p) PROVE RealOp(op[p])'
  <2>1. op[p].pc = "u_nodes" /\ UNCHANGED <<row, inst, untagged, k3s, ctx>>
    BY <1>2 DEF UNodes, db, cloud, local
  <2>2. op'[p].pc = "u_defer" /\ op'[p].st = op[p].st
    BY <1>0, <1>2, GotoAll, FailAll DEF UNodes
  <2>3. /\ RealNow
        /\ op[p].st.masters = row.masters /\ op[p].st.workers = row.workers
        /\ op[p].st.master = row.master /\ op[p].st.worker = row.worker
    BY <2>1 DEF RealOp, UpgradePC
  <2> QED BY <2>1, <2>2, <2>3 DEF RealOp, UpgradePC, RealNow, Sized, Counted, Nodes
<1>3. ASSUME UDefer(p) PROVE RealOp(op[p])'
  <2> DEFINE r == [op[p].st EXCEPT !.status = "Running"]
  <2>1. op[p].pc = "u_defer" /\ row # NoRow /\ row \in RowType /\ op[p].st \in RowType
    BY <1>0, <1>3 DEF UDefer, Phase, UpgradePC, Shown, SharedInv, Held, StatePC
  <2>2. SaveClusterState(r) /\ UNCHANGED <<inst, untagged, k3s, ctx>>
    BY <1>3 DEF UDefer, cloud, local
  <2>3. /\ r \in RowType /\ r.masters = op[p].st.masters /\ r.workers = op[p].st.workers
        /\ r.master = op[p].st.master /\ r.worker = op[p].st.worker
    BY <2>1 DEF RowType, Status
  <2> HIDE DEF r
  <2>4. row' = r
    BY <2>1, <2>2, <2>3, SavesRow
  <2>5. /\ RealNow
        /\ op[p].st.masters = row.masters /\ op[p].st.workers = row.workers
        /\ op[p].st.master = row.master /\ op[p].st.worker = row.worker
    BY <2>1 DEF RealOp, UpgradePC
  <2>6. Nodes(row') = Nodes(row) /\ Sized(row')
    BY <2>1, <2>3, <2>4, <2>5, NodesParts DEF RealNow, Sized, Counted
  <2>7. RealNow'
    BY <2>2, <2>5, <2>6 DEF RealNow, Sized, Counted, Nodes
  <2>8. op'[p].pc \in {"idle", "u_ccm"}
    BY <1>0, <1>3, GotoAll, ReturnFields DEF UDefer
  <2> QED BY <2>7, <2>8 DEF RealOp, UpgradePC
<1>4. ASSUME UCCM(p) \/ LCloud(p) PROVE RealOp(op[p])'
  <2>1. op[p].pc \in {"u_ccm", "l_cloud"} /\ UNCHANGED <<row, inst, untagged, k3s, ctx>>
    BY <1>4 DEF UCCM, LCloud, db, cloud, local
  <2>2. RealNow /\ Shown = "Running" /\ row \in RowType
    BY <1>0, <2>1 DEF RealOp, Phase, Shown, SharedInv
  <2>3. inst # {}
    BY <2>2, NodesParts DEF RealNow, Sized
  <2>4. op'[p].pc = "idle"
    BY <1>0, <1>4, <2>3, ReturnFields DEF UCCM, LCloud
  <2> QED BY <2>1, <2>2, <2>4 DEF RealOp, UpgradePC, RealNow, Sized, Counted, Nodes
<1>5. ~LMark(p)
  BY DEF LMark, RealOp
<1>6. ASSUME DBegin(p) \/ DCloud(p) \/ DCfg(p) \/ DRow(p) \/ DDelete(p) \/ DCount(p) \/ DExplorer(p)
      PROVE  RealOp(op[p])'
  <2>1. op'[p].pc \in {"idle", "d_cloud", "d_cfg", "d_row", "d_delete", "d_count", "d_explorer"}
    <3>1. ASSUME op' = [op EXCEPT ![p].pc = "d_delete", ![p].st = row] PROVE op'[p].pc = "d_delete"
      BY <1>0, <3>1 DEF OpInv, OpType
    <3> QED BY <1>0, <1>6, <3>1, GotoAll, ReturnFields DEF DBegin, DCloud, DCfg, DRow, DDelete, DCount, DExplorer
  <2>2. Shown' # "Running"
    <3>1. CASE op'[p].pc # "idle"
      BY <2>1, <3>1 DEF Phase, Shown
    <3>2. CASE op'[p].pc = "idle"
      <4>0. ~DRow(p)
        <5>1. ASSUME op' = [op EXCEPT ![p].pc = "d_delete", ![p].st = row] PROVE op'[p].pc = "d_delete"
          BY <1>0, <5>1 DEF OpInv, OpType
        <5> QED BY <1>0, <3>2, <5>1, GotoAll DEF DRow
      <4>1. op[p].pc \in {"d_cloud", "d_explorer"} /\ row' = row
        BY <1>0, <1>6, <3>2, <4>0, GotoAll DEF DBegin, DCloud, DCfg, DDelete, DCount, DExplorer, db
      <4> QED BY <4>1 DEF Phase, Shown
    <3> QED BY <3>1, <3>2
  <2> QED BY <2>1, <2>2 DEF RealOp, UpgradePC
<1> QED BY <1>1, <1>2, <1>3, <1>4, <1>5, <1>6

(* A step of the only operation keeps row, cloud and operation in accord.  *)
LEMMA RealStep ==
  ASSUME Steady, Rollback, Orderly, IInv, CoverInv, PhaseInv, RealInv, IInv', PhaseInv',
         NEW p \in Proc, Step(p)
  PROVE  RealInv'
<1> SUFFICES ASSUME losses' = 0, ~cloudFailed' PROVE RealOp(op[p])'
  BY DEF RealInv, Steady, OneAtATime
<1>1. ~DBFails /\ Phase(op[p]) /\ Phase(op[p])'
  BY DEF Steady, PhaseInv
<1>2. RealOp(op[p])
  BY LossStep DEF RealInv
<1>3. ~JDeferPanics(p)
  BY DEF JDeferPanics, At, CoverInv, CoverPC
<1> QED BY <1>1, <1>2, <1>3, RealCreate, RealDefer, RealRollback, RealJoin, RealOther DEF Step

(* An accepted request finds them in accord.                               *)
LEMMA RealRequest ==
  ASSUME Steady, IInv, PhaseInv, LeftInv, K3sInv, RealInv, NEW p \in Proc, Request(p)
  PROVE  RealInv'
<1>1. /\ UNCHANGED <<row, inst, untagged, k3s, ctx, losses, cloudFailed>>
      /\ op[p].pc = "idle" /\ op'[p].mine = {}
      /\ \/ /\ op'[p].pc = "c_save" /\ inst = {}
            /\ op'[p].nm >= 1 /\ op'[p].st.master = op'[p].nm /\ op'[p].st.worker = op'[p].nw
         \/ op'[p].pc = "j_begin" /\ op'[p].st = row
         \/ op'[p].pc \in {"u_begin", "d_begin", "l_cloud"}
  BY RequestAll DEF IInv
<1> SUFFICES ASSUME losses = 0, ~cloudFailed PROVE RealOp(op[p])'
  BY <1>1 DEF RealInv, Steady, OneAtATime
<1>2. Shown' = Shown /\ (Shown = "Running" => RealNow)
  BY <1>1 DEF RealInv, RealOp, Shown
<1>3. untagged = {}
  BY <1>1 DEF LeftInv
<1>4. CASE op'[p].pc = "c_save"
  <2>1. inst' = op'[p].mine /\ untagged' = {} /\ k3s' = {}
    BY <1>1, <1>3, <1>4 DEF K3sInv
  <2> QED BY <1>1, <1>4, <2>1 DEF RealOp, UpgradePC
<1>5. CASE op'[p].pc \in {"j_begin", "u_begin", "d_begin", "l_cloud"}
  <2>1. RealNow' = RealNow
    BY <1>1 DEF RealNow, Sized, Counted, Nodes
  <2>2. op'[p].pc = "j_begin" => op'[p].st = row'
    BY <1>1
  <2> QED BY <1>1, <1>2, <1>5, <2>1, <2>2 DEF RealOp, UpgradePC
<1> QED BY <1>1, <1>4, <1>5

(* They are in accord in every state.                                      *)
LEMMA RealInvariance == ASSUME Steady, Rollback, Orderly PROVE Spec => [](K3sInv /\ RealInv)
<1> DEFINE Base == IInv /\ CoverInv /\ PhaseInv /\ LeftInv
<1>1. Init => K3sInv /\ RealInv
  BY DEF Init, K3sInv, RealInv, RealOp, Shown, Idle, UpgradePC
<1>2. Base /\ Base' /\ K3sInv /\ RealInv /\ [Next]_vars => K3sInv' /\ RealInv'
  <2> SUFFICES ASSUME IInv, CoverInv, PhaseInv, LeftInv, IInv', PhaseInv', K3sInv, RealInv, [Next]_vars
               PROVE  K3sInv' /\ RealInv'
    OBVIOUS
  <2>1. K3sInv'
    BY K3sStep DEF IInv
  <2>2. ASSUME NEW p \in Proc, Request(p) PROVE RealInv'
    BY <2>2, RealRequest
  <2>3. ASSUME NEW p \in Proc, Step(p) PROVE RealInv'
    BY <2>3, RealStep
  <2>4. CASE CloudLoss
    <3>1. losses' # 0
      BY <2>4 DEF CloudLoss, IInv, SharedInv
    <3> QED BY <2>1, <3>1 DEF RealInv
  <2>5. ~Crash
    BY DEF Crash, Steady, PhaseInv
  <2>6. CASE UNCHANGED vars
    <3>1. UNCHANGED <<row, inst, untagged, k3s, ctx, op, losses, cloudFailed>>
      BY <2>6 DEF vars, db, cloud, local, bounds, history
    <3>2. Shown' = Shown /\ RealNow' = RealNow /\ Sized(row)' = Sized(row) /\ Nodes(row)' = Nodes(row)
      BY <3>1 DEF Shown, RealNow, Sized, Counted, Nodes
    <3>3. ASSUME NEW p \in Proc, RealOp(op[p]) PROVE RealOp(op[p])'
      BY <3>1, <3>2, <3>3 DEF RealOp, Sized, Counted, Nodes, RollbackIds
    <3> QED BY <2>1, <3>1, <3>3 DEF RealInv
  <2> QED BY <2>1, <2>2, <2>3, <2>4, <2>5, <2>6 DEF Next
<1>3. OneAtATime
  BY DEF Steady
<1> QED BY <1>1, <1>2, <1>3, Invariance, CoverInvariance, PhaseInvariance, LeftInvariance, PTL DEF Spec

(* With operations one at a time, rollback on, join and upgrade asked of   *)
(* Running clusters, and nothing lost in the cloud: once the operation is  *)
(* over, a cluster that list shows as Running has exactly the instances    *)
(* of its row, K3s on all of them, the counts of its row and its context   *)
(* in the kubeconfig file, whatever failed on the way (InitCluster,        *)
(* JoinNodes, UpgradeK3sCluster, RollbackCluster).                         *)
THEOREM RunningReal == ASSUME Steady, Rollback, Orderly PROVE Spec => []RunningIsReal
<1>1. K3sInv /\ RealInv => RunningIsReal
  <2> SUFFICES ASSUME RealInv, Quiet, row # NoRow, row.status = "Running", losses = 0, ~cloudFailed
               PROVE  /\ row.masters # {}
                      /\ inst = Nodes(row) /\ k3s = inst /\ untagged = {}
                      /\ row.master = Cardinality(row.masters)
                      /\ row.worker = Cardinality(row.workers)
                      /\ ctx
    BY DEF RunningIsReal
  <2>1. PICK p \in Proc : op[p].pc = "idle" /\ RealOp(op[p])
    BY DEF Quiet, At, RealInv, Steady, OneAtATime
  <2>2. RealNow
    BY <2>1 DEF RealOp, Shown
  <2> QED BY <2>2 DEF RealNow, Sized, Counted
<1> QED BY <1>1, RealInvariance, PTL
---------------------------------------------------------------------------
(* How far an operation is from its end. *)

(* The most steps an operation can still take, at each of its places.      *)
ToGo ==
  [idle |-> 0, rollback_cfg |-> 1, rollback |-> 2,
   c_write |-> 3, c_defer |-> 4, c_manifest |-> 5, c_explorer |-> 6, c_running |-> 7,
   c_cfg |-> 8, c_init |-> 9, c_workers |-> 10, c_masters |-> 11, c_keys |-> 12, c_save |-> 13,
   j_defer |-> 3, j_save |-> 4, j_join |-> 5, j_sync |-> 6, j_workers |-> 7,
   j_masters |-> 8, j_begin |-> 9,
   u_ccm |-> 1, u_defer |-> 2, u_nodes |-> 3, u_begin |-> 4,
   d_explorer |-> 1, d_count |-> 2, d_delete |-> 3, d_row |-> 4, d_cfg |-> 5, d_cloud |-> 6,
   d_begin |-> 7,
   l_mark |-> 1, l_cloud |-> 2]

(* From which place a step takes an operation, and where.                  *)
Moves(a, b) ==
  \/ a = "c_save" /\ b \in {"c_keys", "c_defer"}
  \/ a = "c_keys" /\ b \in {"c_masters", "c_defer"}
  \/ a = "c_masters" /\ b \in {"c_workers", "c_defer"}
  \/ a = "c_workers" /\ b \in {"c_init", "c_defer"}
  \/ a = "c_init" /\ b \in {"c_cfg", "c_defer"}
  \/ a = "c_cfg" /\ b \in {"c_running", "c_defer"}
  \/ a = "c_running" /\ b \in {"c_explorer", "c_defer"}
  \/ a = "c_explorer" /\ b \in {"c_manifest"}
  \/ a = "c_manifest" /\ b \in {"c_defer"}
  \/ a = "c_defer" /\ b \in {"idle", "c_write", "rollback"}
  \/ a = "c_write" /\ b \in {"rollback"}
  \/ a = "rollback" /\ b \in {"idle", "rollback_cfg"}
  \/ a = "rollback_cfg" /\ b \in {"idle"}
  \/ a = "j_begin" /\ b \in {"idle", "j_masters", "j_defer"}
  \/ a = "j_masters" /\ b \in {"j_workers", "j_defer"}
  \/ a = "j_workers" /\ b \in {"j_sync", "j_defer"}
  \/ a = "j_sync" /\ b \in {"j_join", "j_defer"}
  \/ a = "j_join" /\ b \in {"j_save", "j_defer"}
  \/ a = "j_save" /\ b \in {"j_defer"}
  \/ a = "j_defer" /\ b \in {"idle", "rollback"}
  \/ a = "u_begin" /\ b \in {"idle", "u_nodes"}
  \/ a = "u_nodes" /\ b \in {"u_defer"}
  \/ a = "u_defer" /\ b \in {"idle", "u_ccm"}
  \/ a = "u_ccm" /\ b \in {"idle"}
  \/ a = "d_begin" /\ b \in {"idle", "d_cloud"}
  \/ a = "d_cloud" /\ b \in {"idle", "d_cfg"}
  \/ a = "d_cfg" /\ b \in {"idle", "d_row"}
  \/ a = "d_row" /\ b \in {"idle", "d_delete", "d_explorer"}
  \/ a = "d_delete" /\ b \in {"idle", "d_count", "d_explorer"}
  \/ a = "d_count" /\ b \in {"d_explorer"}
  \/ a = "d_explorer" /\ b \in {"idle"}
  \/ a = "l_cloud" /\ b \in {"idle", "l_mark"}
  \/ a = "l_mark" /\ b \in {"idle"}

(* Where a step takes an operation from each of its places, and by what a  *)
(* delete leaves the two of Store.DeleteCluster.                           *)
LEMMA StepPlaces ==
  ASSUME OpInv, NEW p \in Proc, Step(p)
  PROVE  /\ Moves(op[p].pc, op'[p].pc)
         /\ op[p].pc = "d_delete" => DDelete(p)
         /\ op[p].pc = "d_count" => DCount(p)
<1> USE DEF At
<1>1. ASSUME CSave(p) PROVE op[p].pc = "c_save" /\ op'[p].pc \in {"c_keys", "c_defer"}
  BY <1>1, GotoFields, FailFields, ReturnFields DEF CSave
<1>2. ASSUME CKeys(p) PROVE op[p].pc = "c_keys" /\ op'[p].pc \in {"c_masters", "c_defer"}
  BY <1>2, GotoFields, FailFields, ReturnFields DEF CKeys
<1>3. ASSUME CMasters(p) PROVE op[p].pc = "c_masters" /\ op'[p].pc \in {"c_workers", "c_defer"}
  BY <1>3, RunFields DEF CMasters
<1>4. ASSUME CWorkers(p) PROVE op[p].pc = "c_workers" /\ op'[p].pc \in {"c_init", "c_defer"}
  BY <1>4, RunFields DEF CWorkers
<1>5. ASSUME CInit(p) PROVE op[p].pc = "c_init" /\ op'[p].pc \in {"c_cfg", "c_defer"}
  <2>1. CASE Fail(p, "c_defer")
    BY <1>5, <2>1, FailFields DEF CInit
  <2>2. CASE ~Fail(p, "c_defer")
    <3>1. PICK bad, st : op' = [op EXCEPT ![p].pc = "c_cfg", ![p].errM = bad, ![p].st = st]
      BY <1>5, <2>2 DEF CInit
    <3> QED BY <1>5, <3>1 DEF CInit, OpInv, OpType
  <2> QED BY <2>1, <2>2
<1>6. ASSUME CCfg(p) PROVE op[p].pc = "c_cfg" /\ op'[p].pc \in {"c_running", "c_defer"}
  BY <1>6, GotoFields, FailFields, ReturnFields DEF CCfg
<1>7. ASSUME CRunning(p) PROVE op[p].pc = "c_running" /\ op'[p].pc \in {"c_explorer", "c_defer"}
  BY <1>7, GotoFields, FailFields, ReturnFields DEF CRunning
<1>8. ASSUME CExplorer(p) PROVE op[p].pc = "c_explorer" /\ op'[p].pc \in {"c_manifest"}
  BY <1>8, GotoFields, FailFields, ReturnFields DEF CExplorer
<1>9. ASSUME CManifest(p) PROVE op[p].pc = "c_manifest" /\ op'[p].pc \in {"c_defer"}
  BY <1>9, GotoFields, FailFields, ReturnFields DEF CManifest
<1>10. ASSUME CDefer(p) PROVE op[p].pc = "c_defer" /\ op'[p].pc \in {"idle", "c_write", "rollback"}
  <2>1. CASE Return(p) \/ Goto(p, "rollback")
    BY <1>10, <2>1, GotoFields, ReturnFields DEF CDefer
  <2>2. CASE ~(Return(p) \/ Goto(p, "rollback"))
    <3>1. PICK r : op' = [op EXCEPT ![p].pc = "c_write", ![p].st = r]
      BY <1>10, <2>2 DEF CDefer
    <3> QED BY <1>10, <3>1 DEF CDefer, OpInv, OpType
  <2> QED BY <2>1, <2>2
<1>11. ASSUME RollbackInstances(p) PROVE op[p].pc = "rollback" /\ op'[p].pc \in {"idle", "rollback_cfg"}
  BY <1>11, GotoFields, FailFields, ReturnFields DEF RollbackInstances
<1>12. ASSUME RollbackContext(p) PROVE op[p].pc = "rollback_cfg" /\ op'[p].pc \in {"idle"}
  BY <1>12, GotoFields, FailFields, ReturnFields DEF RollbackContext
<1>13. ASSUME JBegin(p) PROVE op[p].pc = "j_begin" /\ op'[p].pc \in {"idle", "j_masters", "j_defer"}
  BY <1>13, GotoFields, FailFields, ReturnFields DEF JBegin
<1>14. ASSUME JMasters(p) PROVE op[p].pc = "j_masters" /\ op'[p].pc \in {"j_workers", "j_defer"}
  BY <1>14, RunFields DEF JMasters
<1>15. ASSUME JWorkers(p) PROVE op[p].pc = "j_workers" /\ op'[p].pc \in {"j_sync", "j_defer"}
  BY <1>15, RunFields DEF JWorkers
<1>16. ASSUME JSync(p) PROVE op[p].pc = "j_sync" /\ op'[p].pc \in {"j_join", "j_defer"}
  <2>1. CASE Fail(p, "j_defer")
    BY <1>16, <2>1, FailFields DEF JSync
  <2>2. CASE ~Fail(p, "j_defer")
    <3>1. PICK st : op' = [op EXCEPT ![p].pc = "j_join", ![p].st = st]
      BY <1>16, <2>2 DEF JSync
    <3> QED BY <1>16, <3>1 DEF JSync, OpInv, OpType
  <2> QED BY <2>1, <2>2
<1>17. ASSUME JJoin(p) PROVE op[p].pc = "j_join" /\ op'[p].pc \in {"j_save", "j_defer"}
  <2>1. CASE Fail(p, "j_defer")
    BY <1>17, <2>1, FailFields DEF JJoin
  <2>2. CASE ~Fail(p, "j_defer")
    <3>1. PICK bad : op' = [op EXCEPT ![p].pc = "j_save", ![p].errM = bad]
      BY <1>17, <2>2 DEF JJoin
    <3> QED BY <1>17, <3>1 DEF JJoin, OpInv, OpType
  <2> QED BY <2>1, <2>2
<1>18. ASSUME JSave(p) PROVE op[p].pc = "j_save" /\ op'[p].pc \in {"j_defer"}
  BY <1>18, GotoFields, FailFields, ReturnFields DEF JSave
<1>19. ASSUME JDefer(p) PROVE op[p].pc = "j_defer" /\ op'[p].pc \in {"idle", "rollback"}
  BY <1>19, GotoFields, FailFields, ReturnFields DEF JDefer
<1>20. ASSUME UBegin(p) PROVE op[p].pc = "u_begin" /\ op'[p].pc \in {"idle", "u_nodes"}
  BY <1>20, ReturnFields DEF UBegin, OpInv, OpType
<1>21. ASSUME UNodes(p) PROVE op[p].pc = "u_nodes" /\ op'[p].pc \in {"u_defer"}
  BY <1>21, GotoFields, FailFields, ReturnFields DEF UNodes
<1>22. ASSUME UDefer(p) PROVE op[p].pc = "u_defer" /\ op'[p].pc \in {"idle", "u_ccm"}
  BY <1>22, GotoFields, FailFields, ReturnFields DEF UDefer
<1>23. ASSUME UCCM(p) PROVE op[p].pc = "u_ccm" /\ op'[p].pc \in {"idle"}
  BY <1>23, GotoFields, FailFields, ReturnFields DEF UCCM
<1>24. ASSUME DBegin(p) PROVE op[p].pc = "d_begin" /\ op'[p].pc \in {"idle", "d_cloud"}
  BY <1>24, GotoFields, FailFields, ReturnFields DEF DBegin
<1>25. ASSUME DCloud(p) PROVE op[p].pc = "d_cloud" /\ op'[p].pc \in {"idle", "d_cfg"}
  BY <1>25, GotoFields, FailFields, ReturnFields DEF DCloud
<1>26. ASSUME DCfg(p) PROVE op[p].pc = "d_cfg" /\ op'[p].pc \in {"idle", "d_row"}
  BY <1>26, GotoFields, FailFields, ReturnFields DEF DCfg
<1>27. ASSUME DRow(p) PROVE op[p].pc = "d_row" /\ op'[p].pc \in {"idle", "d_delete", "d_explorer"}
  <2>1. ASSUME op' = [op EXCEPT ![p].pc = "d_delete", ![p].st = row] PROVE op'[p].pc = "d_delete"
    BY <2>1 DEF OpInv, OpType
  <2> QED BY <1>27, <2>1, GotoFields, ReturnFields DEF DRow
<1>28. ASSUME DExplorer(p) PROVE op[p].pc = "d_explorer" /\ op'[p].pc \in {"idle"}
  BY <1>28, GotoFields, FailFields, ReturnFields DEF DExplorer
<1>29. ASSUME LCloud(p) PROVE op[p].pc = "l_cloud" /\ op'[p].pc \in {"idle", "l_mark"}
  BY <1>29, GotoFields, FailFields, ReturnFields DEF LCloud
<1>30. ASSUME LMark(p) PROVE op[p].pc = "l_mark" /\ op'[p].pc \in {"idle"}
  BY <1>30, GotoFields, FailFields, ReturnFields DEF LMark
<1>31. ASSUME JDeferPanics(p) PROVE op[p].pc = "j_defer" /\ op'[p].pc \in {"idle"}
  BY <1>31 DEF JDeferPanics, Restart, Idle
<1>32. ASSUME CWrite(p) PROVE op[p].pc = "c_write" /\ op'[p].pc \in {"rollback"}
  BY <1>32, GotoFields, FailFields, ReturnFields DEF CWrite
<1>33. ASSUME DDelete(p) PROVE op[p].pc = "d_delete" /\ op'[p].pc \in {"idle", "d_count", "d_explorer"}
  BY <1>33, GotoFields, ReturnFields DEF DDelete
<1>34. ASSUME DCount(p) PROVE op[p].pc = "d_count" /\ op'[p].pc \in {"d_explorer"}
  BY <1>34, GotoFields DEF DCount
<1> QED BY <1>1, <1>2, <1>3, <1>4, <1>5, <1>6, <1>7, <1>8, <1>9, <1>10, <1>11, <1>12, <1>13, <1>14, <1>15, <1>16,
           <1>17, <1>18, <1>19, <1>20, <1>21, <1>22, <1>23, <1>24, <1>25, <1>26, <1>27, <1>28, <1>29, <1>30, <1>31,
           <1>32, <1>33, <1>34
        DEF Step, Moves

(* No operation goes back: each move is one nearer to the end.             *)
LEMMA MovesNearer ==
  ASSUME NEW a, NEW b, Moves(a, b)
  PROVE  ToGo[a] \in Nat /\ ToGo[b] \in Nat /\ ToGo[b] < ToGo[a]
BY DEF Moves, ToGo

(* However the operations interleave, and whatever fails: a goroutine of   *)
(* InitCluster, JoinNodes, UpgradeK3sCluster, DeleteCluster or             *)
(* ListClusters goes forward with each of its steps, none of them is taken *)
(* twice, and nobody else moves it, unless the process ends. An operation  *)
(* is over after at most 13 steps.                                         *)
THEOREM OperationsAdvance ==
  Spec => [][\A p \in Proc :
               /\ Step(p) => ToGo[op'[p].pc] < ToGo[op[p].pc]
               /\ \/ op'[p] = op[p]
                  \/ At(p, "idle")
                  \/ Step(p)
                  \/ op'[p].pc = "idle"]_vars
<1> DEFINE Forward == \A p \in Proc :
               /\ Step(p) => ToGo[op'[p].pc] < ToGo[op[p].pc]
               /\ \/ op'[p] = op[p]
                  \/ At(p, "idle")
                  \/ Step(p)
                  \/ op'[p].pc = "idle"
<1>1. ASSUME IInv, Next PROVE Forward
  <2> SUFFICES ASSUME NEW p \in Proc
               PROVE  /\ Step(p) => ToGo[op'[p].pc] < ToGo[op[p].pc]
                      /\ \/ op'[p] = op[p]
                         \/ At(p, "idle")
                         \/ Step(p)
                         \/ op'[p].pc = "idle"
    OBVIOUS
  <2>0. OpInv
    BY <1>1 DEF IInv
  <2>1. Step(p) => ToGo[op'[p].pc] < ToGo[op[p].pc]
    BY <2>0, StepPlaces, MovesNearer
  <2>2. ASSUME NEW q \in Proc, Step(q), q # p PROVE op'[p] = op[p] \/ op'[p].pc = "idle"
    <3>1. CASE JDeferPanics(q)
      BY <3>1 DEF JDeferPanics, Restart, Idle
    <3>2. CASE RollbackInstances(q)
      BY <2>0, <2>2, <3>2 DEF RollbackInstances, Goto, Return, OpInv
    <3> QED BY <2>0, <2>2, <3>1, <3>2, OwnStep
  <2>3. ASSUME NEW q \in Proc, Request(q) PROVE op'[p] = op[p] \/ At(p, "idle")
    BY <2>0, <2>3, OwnRequest DEF At
  <2>4. ASSUME CloudLoss \/ Crash PROVE op'[p] = op[p] \/ op'[p].pc = "idle"
    <3>1. CASE CloudLoss
      BY <3>1 DEF CloudLoss
    <3>2. CASE Crash
      BY <3>2 DEF Crash, Restart, Idle
    <3> QED BY <2>4, <3>1, <3>2
  <2> QED BY <1>1, <2>1, <2>2, <2>3, <2>4 DEF Next
<1> QED BY <1>1, Invariance, PTL DEF Spec
---------------------------------------------------------------------------
(* The gauge of clusters.                                                  *)

(* What is a unit of a gauge.                                              *)
LEMMA UnitsOf ==
  ASSUME NEW g \in [Version -> Int]
  PROVE  /\ \A u : u \in Units(g) <=>
                     \E v \in Version, i \in Int : u = <<v, i>> /\ 1 <= i /\ i <= g[v]
         /\ \A v \in Version, i \in Int : <<v, i>> \in Units(g) <=> 1 <= i /\ i <= g[v]
         /\ Negative(g) \in [Version -> Int]
         /\ \A v \in Version : Negative(g)[v] = -g[v]
<1>1. \A v \in Version : \A i : i \in 1..g[v] <=> i \in Int /\ 1 <= i /\ i <= g[v]
  OBVIOUS
<1>2. \A u : u \in Units(g) <=> \E v \in Version : u \in {v} \X (1..g[v])
  BY DEF Units
<1>3. \A u : u \in Units(g) <=> \E v \in Version : \E i \in 1..g[v] : u = <<v, i>>
  BY <1>2
<1> QED BY <1>1, <1>3 DEF Negative

(* Gauges that agree wherever one of them is above zero have the same      *)
(* units,                                                                  *)
LEMMA SameUnits ==
  ASSUME NEW g \in [Version -> Int], NEW h \in [Version -> Int],
         \A w \in Version : h[w] = g[w] \/ (h[w] <= 0 /\ g[w] <= 0)
  PROVE  Units(h) = Units(g)
<1>1. \A w \in Version, i \in Int : 1 <= i /\ i <= h[w] <=> 1 <= i /\ i <= g[w]
  OBVIOUS
<1>2. \A u : u \in Units(h) <=> u \in Units(g)
  BY <1>1, UnitsOf
<1> QED BY <1>2

(* and one that is one more, of a version that is not below zero, has one  *)
(* unit more.                                                              *)
LEMMA UnitMore ==
  ASSUME NEW g \in [Version -> Int], NEW h \in [Version -> Int], NEW v \in Version,
         g[v] >= 0, h[v] = g[v] + 1, \A w \in Version \ {v} : h[w] = g[w]
  PROVE  Units(h) = Units(g) \cup {<<v, h[v]>>} /\ <<v, h[v]>> \notin Units(g)
<1>1. \A w \in Version, i \in Int :
        1 <= i /\ i <= h[w] <=> (1 <= i /\ i <= g[w]) \/ (w = v /\ i = h[v])
  OBVIOUS
<1>2. ASSUME NEW u PROVE u \in Units(h) <=> u \in Units(g) \/ u = <<v, h[v]>>
  <2>1. u \in Units(h) <=>
          \E w \in Version, i \in Int : u = <<w, i>> /\ 1 <= i /\ i <= h[w]
    BY UnitsOf
  <2>2. u \in Units(g) <=>
          \E w \in Version, i \in Int : u = <<w, i>> /\ 1 <= i /\ i <= g[w]
    BY UnitsOf
  <2>3. h[v] \in Int
    OBVIOUS
  <2> QED BY <1>1, <2>1, <2>2, <2>3
<1>3. <<v, h[v]>> \notin Units(g)
  BY UnitsOf
<1> QED BY <1>2, <1>3

(* One more of a version is one unit more above zero, or one unit less     *)
(* below: the sum goes up by one.                                          *)
LEMMA CountOneMore ==
  ASSUME NEW g \in [Version -> Int], NEW v \in Version,
         IsFiniteSet(Units(g)), IsFiniteSet(Units(Negative(g)))
  PROVE  LET h == [g EXCEPT ![v] = @ + 1]
         IN  /\ IsFiniteSet(Units(h)) /\ IsFiniteSet(Units(Negative(h)))
             /\ Total(h) = Total(g) + 1
<1> DEFINE h == [g EXCEPT ![v] = @ + 1]
<1>1. h \in [Version -> Int] /\ h[v] = g[v] + 1 /\ \A w \in Version \ {v} : h[w] = g[w]
  OBVIOUS
<1> HIDE DEF h
<1>2. /\ Negative(g) \in [Version -> Int] /\ Negative(h) \in [Version -> Int]
      /\ \A w \in Version : Negative(g)[w] = -g[w] /\ Negative(h)[w] = -h[w]
  BY <1>1, UnitsOf
<1>3. /\ Cardinality(Units(g)) \in Nat
      /\ Cardinality(Units(Negative(g))) \in Nat
  BY FS_CardinalityType
<1> SUFFICES /\ IsFiniteSet(Units(h)) /\ IsFiniteSet(Units(Negative(h)))
             /\ Total(h) = Total(g) + 1
  BY DEF h
<1>4. CASE g[v] >= 0
  <2>1. Units(h) = Units(g) \cup {<<v, h[v]>>} /\ <<v, h[v]>> \notin Units(g)
    BY <1>1, <1>4, UnitMore
  <2>2. \A w \in Version : \/ Negative(h)[w] = Negative(g)[w]
                           \/ Negative(h)[w] <= 0 /\ Negative(g)[w] <= 0
    BY <1>1, <1>2, <1>4
  <2>3. Units(Negative(h)) = Units(Negative(g))
    BY <1>2, <2>2, SameUnits
  <2>4. IsFiniteSet(Units(h)) /\ Cardinality(Units(h)) = Cardinality(Units(g)) + 1
    BY <2>1, FS_AddElement
  <2> QED BY <1>3, <2>3, <2>4 DEF Total
<1>5. CASE g[v] < 0
  <2>1. \A w \in Version : h[w] = g[w] \/ (h[w] <= 0 /\ g[w] <= 0)
    BY <1>1, <1>5
  <2>2. Units(h) = Units(g)
    BY <1>1, <2>1, SameUnits
  <2> DEFINE x == <<v, Negative(g)[v]>>
  <2>3. /\ Negative(h)[v] >= 0 /\ Negative(g)[v] = Negative(h)[v] + 1
        /\ \A w \in Version \ {v} : Negative(g)[w] = Negative(h)[w]
    BY <1>1, <1>2, <1>5
  <2>4. Units(Negative(g)) = Units(Negative(h)) \cup {x} /\ x \notin Units(Negative(h))
    BY <1>2, <2>3, UnitMore
  <2> HIDE DEF x
  <2>5. Units(Negative(h)) = Units(Negative(g)) \ {x} /\ x \in Units(Negative(g))
    BY <2>4
  <2>6. /\ IsFiniteSet(Units(Negative(h)))
        /\ Cardinality(Units(Negative(h))) = Cardinality(Units(Negative(g))) - 1
    BY <2>5, FS_RemoveElement
  <2> QED BY <1>3, <2>2, <2>6 DEF Total
<1>6. g[v] \in Int
  OBVIOUS
<1> QED BY <1>4, <1>5, <1>6

(* One less is one more of the negative: the sum goes down by one.         *)
LEMMA CountOneLess ==
  ASSUME NEW g \in [Version -> Int], NEW v \in Version,
         IsFiniteSet(Units(g)), IsFiniteSet(Units(Negative(g)))
  PROVE  LET h == [g EXCEPT ![v] = @ - 1]
         IN  /\ IsFiniteSet(Units(h)) /\ IsFiniteSet(Units(Negative(h)))
             /\ Total(h) = Total(g) - 1
<1> DEFINE h == [g EXCEPT ![v] = @ - 1]
           n == Negative(g)
           k == [n EXCEPT ![v] = @ + 1]
<1>1. n \in [Version -> Int] /\ \A w \in Version : n[w] = -g[w]
  BY UnitsOf
<1>2. Negative(n) = g
  BY <1>1 DEF Negative
<1>3. Negative(h) = k /\ Negative(k) = h
  <2>1. h \in [Version -> Int] /\ \A w \in Version : h[w] = IF w = v THEN g[w] - 1 ELSE g[w]
    OBVIOUS
  <2>2. k \in [Version -> Int] /\ \A w \in Version : k[w] = IF w = v THEN n[w] + 1 ELSE n[w]
    BY <1>1
  <2> HIDE DEF h, k, n
  <2>3. \A w \in Version : k[w] = -h[w] /\ h[w] = -k[w]
    BY <1>1, <2>1, <2>2
  <2> QED BY <2>1, <2>2, <2>3 DEF Negative
<1> HIDE DEF n, h
<1>4. /\ IsFiniteSet(Units(k)) /\ IsFiniteSet(Units(Negative(k)))
      /\ Total(k) = Total(n) + 1
  BY <1>1, <1>2, CountOneMore DEF n
<1> HIDE DEF k
<1>5. /\ Cardinality(Units(g)) \in Nat /\ Cardinality(Units(n)) \in Nat
      /\ Cardinality(Units(h)) \in Nat /\ Cardinality(Units(k)) \in Nat
  BY <1>3, <1>4, FS_CardinalityType DEF n
<1>6. Total(h) = Total(g) - 1
  BY <1>2, <1>3, <1>4, <1>5 DEF Total, n
<1> QED BY <1>3, <1>4, <1>6 DEF h

(* The deletes that have removed the row and have still to count it.       *)
Counting == {p \in Proc : At(p, "d_count")}

(* What a step may do to the gauge, to whether there is a row and to those *)
(* deletes: nothing; a cluster is inserted and counted; a delete removes   *)
(* the row; it takes it from the count; the process starts again.          *)
GaugeMoves ==
  \/ /\ gauge' = gauge /\ (row' = NoRow <=> row = NoRow)
     /\ Counting' = Counting /\ twice' = twice
  \/ /\ row = NoRow /\ row' # NoRow
     /\ \E v \in Version : gauge' = [gauge EXCEPT ![v] = @ + 1]
     /\ Counting' = Counting /\ twice' = twice
  \/ /\ gauge' = gauge /\ row' = NoRow
     /\ \E p \in Proc \ Counting : Counting' = Counting \cup {p}
     /\ ~twice' => ~twice /\ row # NoRow
  \/ /\ row' = row
     /\ \E v \in Version : gauge' = [gauge EXCEPT ![v] = @ - 1]
     /\ \E p \in Counting : Counting' = Counting \ {p}
     /\ twice' = twice
  \/ /\ row' = row
     /\ gauge' = [v \in Version |-> IF row # NoRow /\ row.version = v THEN 1 ELSE 0]
     /\ Counting' = {}

(* Only a delete that finds the row gone counts a cluster twice.           *)
LEMMA TwiceStep ==
  ASSUME NEW p \in Proc, Step(p), ~DDelete(p), ~JDeferPanics(p)
  PROVE  twice' = twice
<1>1. CASE DCloud(p) \/ RollbackInstances(p)
  BY <1>1 DEF DCloud, RollbackInstances, TerminateOK, TerminateFails, history
<1>2. CASE CMasters(p) \/ CWorkers(p) \/ JMasters(p) \/ JWorkers(p)
  BY <1>2 DEF CMasters, CWorkers, JMasters, JWorkers, RunInstances, history
<1>3. CASE CWrite(p)
  BY <1>3 DEF CWrite
<1>4. CASE UNCHANGED history
  BY <1>4 DEF history
<1> QED BY <1>1, <1>2, <1>3, <1>4
        DEF Step, CSave, CKeys, CInit, CCfg, CRunning, CExplorer, CManifest, CDefer,
            RollbackContext, JBegin, JSync, JJoin, JSave, JDefer, UBegin, UNodes, UDefer, UCCM,
            DBegin, DCfg, DRow, DCount, DExplorer, LCloud, LMark

(* The deletes that have still to count are those that go to that place    *)
(* and have not left it.                                                   *)
LEMMA CountingStep ==
  ASSUME OpInv, NEW p \in Proc, Step(p), ~JDeferPanics(p)
  PROVE  Counting' = IF op'[p].pc = "d_count" THEN Counting \cup {p} ELSE Counting \ {p}
<1>1. \A q \in Proc \ {p} : op'[q] = op[q]
  <2>1. CASE RollbackInstances(p)
    BY <2>1 DEF RollbackInstances, Goto, Return, OpInv
  <2> QED BY <2>1, OwnStep
<1> QED BY <1>1 DEF Counting, At

(* The gauge moves with the row and the deletes, or is counted again.      *)
LEMMA GaugeStep ==
  ASSUME IInv, [Next]_vars
  PROVE  GaugeMoves
<1>0. OpInv /\ twice \in BOOLEAN
  BY DEF IInv, SharedInv
<1>1. ASSUME NEW p \in Proc, Step(p) PROVE GaugeMoves
  <2>1. CASE DDelete(p)
    <3>1. op[p].pc = "d_delete" /\ gauge' = gauge
      BY <2>1 DEF DDelete, At
    <3>2. ~JDeferPanics(p) /\ p \in Proc \ Counting
      BY <3>1 DEF JDeferPanics, At, Counting
    <3>3. CASE op'[p].pc = "d_count"
      <4>1. Counting' = Counting \cup {p}
        BY <1>0, <1>1, <3>2, <3>3, CountingStep
      <4>2. row' = NoRow /\ twice' = (twice \/ row = NoRow)
        BY <1>0, <2>1, <3>3, GotoFields, ReturnFields DEF DDelete
      <4> QED BY <3>1, <3>2, <4>1, <4>2 DEF GaugeMoves
    <3>4. CASE op'[p].pc # "d_count"
      <4>1. Counting' = Counting
        BY <1>0, <1>1, <3>2, <3>4, CountingStep
      <4>2. row' = row /\ twice' = twice
        BY <1>0, <2>1, <3>4, GotoFields DEF DDelete
      <4> QED BY <3>1, <4>1, <4>2 DEF GaugeMoves
    <3> QED BY <3>3, <3>4
  <2>2. CASE DCount(p)
    <3>1. op[p].pc = "d_count" /\ row' = row
      BY <2>2 DEF DCount, At
    <3>2. ~JDeferPanics(p) /\ ~DDelete(p) /\ p \in Counting
      BY <3>1 DEF JDeferPanics, DDelete, At, Counting
    <3>3. op[p].st \in RowType
      BY <3>1 DEF IInv, OpInv, Held, StatePC
    <3>4. op[p].st.version \in Version
      BY <3>3 DEF RowType
    <3>5. gauge' = [gauge EXCEPT ![op[p].st.version] = @ - 1] /\ op'[p].pc = "d_explorer"
      BY <1>0, <2>2, GotoFields DEF DCount
    <3>6. Counting' = Counting \ {p} /\ twice' = twice
      BY <1>0, <1>1, <3>2, <3>5, CountingStep, TwiceStep
    <3> QED BY <3>1, <3>2, <3>4, <3>5, <3>6 DEF GaugeMoves
  <2>3. CASE JDeferPanics(p)
    BY <2>3 DEF JDeferPanics, Restart, GaugeMoves, Counting, At, Idle
  <2>4. CASE ~DDelete(p) /\ ~DCount(p) /\ ~JDeferPanics(p)
    <3>1. op[p].pc # "d_count" /\ op'[p].pc # "d_count"
      BY <1>0, <1>1, <2>4, StepPlaces DEF Moves
    <3>2. Counting' = Counting /\ twice' = twice
      BY <1>0, <1>1, <2>4, <3>1, CountingStep, TwiceStep DEF Counting, At
    <3>3. ASSUME NEW r \in RowType, SaveCluster(r) \/ SaveClusterState(r) PROVE GaugeMoves
      <4>1. r.version \in Version /\ r # NoRow
        BY NoRowAssumption DEF RowType
      <4> QED BY <3>2, <3>3, <4>1 DEF SaveCluster, SaveClusterState, GaugeMoves
    <3>4. ASSUME UNCHANGED db PROVE GaugeMoves
      BY <3>2, <3>4 DEF db, GaugeMoves
    <3> QED BY <1>1, <2>4, <3>3, <3>4, DbStep
  <2> QED BY <2>1, <2>2, <2>3, <2>4
<1>2. ASSUME Crash PROVE GaugeMoves
  BY <1>2 DEF Crash, Restart, GaugeMoves, Counting, At, Idle
<1>3. ASSUME NEW p \in Proc, Request(p) PROVE GaugeMoves
  <2>1. ASSUME NEW o, Start(p, o), o.pc # "d_count" PROVE GaugeMoves
    <3>1. /\ UNCHANGED <<row, gauge, twice>> /\ op[p].pc = "idle" /\ op'[p] = o
          /\ \A q \in Proc \ {p} : op'[q] = op[q]
      BY <1>0, <2>1 DEF OpInv, Start, At, db, history
    <3>2. Counting' = Counting
      BY <2>1, <3>1 DEF Counting, At
    <3> QED BY <3>1, <3>2 DEF GaugeMoves
  <2> QED BY <1>3, <2>1 DEF Request, CreateRequest, JoinRequest, UpgradeRequest, DeleteRequest,
       ListRequest, Idle
<1>4. ASSUME CloudLoss \/ UNCHANGED vars PROVE GaugeMoves
  BY <1>4 DEF CloudLoss, vars, db, history, GaugeMoves, Counting, At
<1> QED BY <1>1, <1>2, <1>3, <1>4 DEF Next

(* The sum needs that units and deletes can be counted: they are finitely  *)
(* many, of however many versions and goroutines.                          *)
GaugeInv ==
  /\ IsFiniteSet(Units(gauge)) /\ IsFiniteSet(Units(Negative(gauge)))
  /\ IsFiniteSet(Counting)
  /\ GaugeTotal

(* A gauge that is nowhere above zero has no units,                        *)
LEMMA NoUnits ==
  ASSUME NEW g \in [Version -> Int], \A v \in Version : g[v] <= 0
  PROVE  Units(g) = {}
<1>1. ~ \E v \in Version, i \in Int : 1 <= i /\ i <= g[v]
  OBVIOUS
<1> QED BY <1>1, UnitsOf

(* and one that is one for a single version has one.                       *)
LEMMA OneUnit ==
  ASSUME NEW g \in [Version -> Int], NEW v \in Version,
         \A w \in Version : g[w] = IF w = v THEN 1 ELSE 0
  PROVE  Units(g) = {<<v, 1>>}
<1>1. \A w \in Version, i \in Int : 1 <= i /\ i <= g[w] <=> w = v /\ i = 1
  OBVIOUS
<1>2. \A u : u \in Units(g) <=> u = <<v, 1>>
  BY <1>1, UnitsOf
<1> QED BY <1>2

(* The count at the start of the process: one for the row, if there is one.*)
LEMMA Recount ==
  ASSUME NEW g \in [Version -> Int], NEW r \in RowType \cup {NoRow},
         \A v \in Version : g[v] = IF r # NoRow /\ r.version = v THEN 1 ELSE 0
  PROVE  /\ IsFiniteSet(Units(g)) /\ IsFiniteSet(Units(Negative(g)))
         /\ Total(g) = IF r = NoRow THEN 0 ELSE 1
<1>1. Units(Negative(g)) = {}
  <2>1. /\ Negative(g) \in [Version -> Int]
        /\ \A v \in Version : Negative(g)[v] = -g[v]
    BY UnitsOf
  <2>2. \A v \in Version : Negative(g)[v] <= 0
    BY <2>1
  <2> QED BY <2>1, <2>2, NoUnits
<1>2. CASE r = NoRow
  <2>1. Units(g) = {}
    BY <1>2, NoUnits
  <2> QED BY <1>1, <1>2, <2>1, FS_EmptySet DEF Total
<1>3. CASE r # NoRow
  <2>1. r.version \in Version
    BY <1>3 DEF RowType
  <2>2. Units(g) = {<<r.version, 1>>}
    BY <1>3, <2>1, OneUnit
  <2>3. IsFiniteSet(Units(g)) /\ Cardinality(Units(g)) = 1
    BY <2>2, FS_Singleton
  <2> QED BY <1>1, <1>3, <2>3, FS_EmptySet DEF Total
<1> QED BY <1>2, <1>3

(* Over any interleaving of creates, joins, upgrades, deletes and lists,   *)
(* however many, any failure of the database and any restart:              *)
(* metrics.ClusterCount, summed over the K3s versions, is never more than  *)
(* the row there is and the deletes that have removed one and not counted  *)
(* it yet, and exactly that unless two deletes overlapped in               *)
(* Store.DeleteCluster since the process started (SaveCluster,             *)
(* DeleteCluster and the count at the start of the process).               *)
THEOREM GaugeCorrect == Spec => []GaugeTotal
<1> DEFINE Rows == (IF row = NoRow THEN 0 ELSE 1) + Cardinality(Counting)
<1>0. GaugeTotal <=> Total(gauge) <= Rows /\ (~twice => Total(gauge) = Rows)
  BY DEF GaugeTotal, Counting
<1>1. Init => GaugeInv
  <2> SUFFICES ASSUME Init PROVE GaugeInv
    OBVIOUS
  <2>1. /\ gauge \in [Version -> Int] /\ row = NoRow /\ row \in RowType \cup {NoRow}
        /\ \A v \in Version : gauge[v] = IF row # NoRow /\ row.version = v THEN 1 ELSE 0
    BY DEF Init
  <2>2. Counting = {}
    BY DEF Init, Counting, At, Idle
  <2>3. /\ IsFiniteSet(Units(gauge)) /\ IsFiniteSet(Units(Negative(gauge)))
        /\ Total(gauge) = 0
    BY <2>1, Recount
  <2>4. IsFiniteSet(Counting) /\ Rows = 0
    BY <2>1, <2>2, FS_EmptySet
  <2> QED BY <1>0, <2>3, <2>4 DEF GaugeInv
<1>2. IInv /\ GaugeInv /\ [Next]_vars => GaugeInv'
  <2> SUFFICES ASSUME IInv, GaugeInv, [Next]_vars PROVE GaugeInv'
    OBVIOUS
  <2> DEFINE rows == IF row = NoRow THEN 0 ELSE 1
             rowsN == IF row' = NoRow THEN 0 ELSE 1
             c == Cardinality(Counting)
             cN == Cardinality(Counting')
             t == Total(gauge)
             tN == Total(gauge')
             Finite == IsFiniteSet(Units(gauge')) /\ IsFiniteSet(Units(Negative(gauge')))
  <2>1. gauge \in [Version -> Int] /\ row \in RowType \cup {NoRow}
    BY DEF IInv, SharedInv
  <2>2. /\ IsFiniteSet(Units(gauge)) /\ IsFiniteSet(Units(Negative(gauge)))
        /\ IsFiniteSet(Counting)
        /\ t <= rows + c /\ (~twice => t = rows + c)
    BY <1>0 DEF GaugeInv
  <2>3. /\ Cardinality(Units(gauge)) \in Nat
        /\ Cardinality(Units(Negative(gauge))) \in Nat
        /\ Cardinality(Counting) \in Nat
    BY <2>2, FS_CardinalityType
  <2>4. t \in Int /\ c \in Nat /\ rows \in 0..1 /\ rowsN \in 0..1
    BY <2>3 DEF Total
  <2> SUFFICES /\ Finite /\ IsFiniteSet(Counting')
               /\ tN <= rowsN + cN /\ (~twice' => tN = rowsN + cN)
    <3>1. GaugeTotal' <=> tN <= rowsN + cN /\ (~twice' => tN = rowsN + cN)
      BY DEF GaugeTotal, Counting, Total, Units, Negative, At
    <3> QED BY <3>1 DEF GaugeInv, Counting, Units, Negative, At
  <2>5. CASE /\ gauge' = gauge /\ (row' = NoRow <=> row = NoRow)
             /\ Counting' = Counting /\ twice' = twice
    <3>1. Finite /\ IsFiniteSet(Counting') /\ tN = t /\ cN = c /\ rowsN = rows
      BY <2>2, <2>5
    <3> QED BY <2>2, <2>5, <3>1
  <2>6. CASE /\ row = NoRow /\ row' # NoRow
             /\ \E v \in Version : gauge' = [gauge EXCEPT ![v] = @ + 1]
             /\ Counting' = Counting /\ twice' = twice
    <3>1. PICK v \in Version : gauge' = [gauge EXCEPT ![v] = @ + 1]
      BY <2>6
    <3> DEFINE h == [gauge EXCEPT ![v] = @ + 1]
    <3>2. /\ IsFiniteSet(Units(h)) /\ IsFiniteSet(Units(Negative(h)))
          /\ Total(h) = Total(gauge) + 1
      BY <2>1, <2>2, CountOneMore
    <3>3. gauge' = h
      BY <3>1
    <3> HIDE DEF h
    <3>4. Finite /\ tN = t + 1 /\ IsFiniteSet(Counting') /\ cN = c /\ rows = 0 /\ rowsN = 1
      BY <2>2, <2>6, <3>2, <3>3
    <3> HIDE DEF t, tN, c, cN, rows, rowsN, Finite
    <3> QED BY <2>2, <2>4, <2>6, <3>4
  <2>7. CASE /\ gauge' = gauge /\ row' = NoRow
             /\ \E p \in Proc \ Counting : Counting' = Counting \cup {p}
             /\ ~twice' => ~twice /\ row # NoRow
    <3>1. PICK p \in Proc \ Counting : Counting' = Counting \cup {p}
      BY <2>7
    <3>2. IsFiniteSet(Counting') /\ cN = c + 1
      BY <2>2, <3>1, FS_AddElement
    <3>3. Finite /\ tN = t /\ rowsN = 0 /\ (~twice' => rows = 1)
      BY <2>2, <2>7
    <3>4. ~twice' => ~twice
      BY <2>7
    <3> HIDE DEF t, tN, c, cN, rows, rowsN, Finite
    <3> QED BY <2>2, <2>4, <3>2, <3>3, <3>4
  <2>8. CASE /\ row' = row
             /\ \E v \in Version : gauge' = [gauge EXCEPT ![v] = @ - 1]
             /\ \E p \in Counting : Counting' = Counting \ {p}
             /\ twice' = twice
    <3>1. PICK v \in Version : gauge' = [gauge EXCEPT ![v] = @ - 1]
      BY <2>8
    <3>2. PICK p \in Counting : Counting' = Counting \ {p}
      BY <2>8
    <3> DEFINE h == [gauge EXCEPT ![v] = @ - 1]
    <3>3. /\ IsFiniteSet(Units(h)) /\ IsFiniteSet(Units(Negative(h)))
          /\ Total(h) = Total(gauge) - 1
      BY <2>1, <2>2, CountOneLess
    <3>4. gauge' = h
      BY <3>1
    <3> HIDE DEF h
    <3>5. IsFiniteSet(Counting') /\ cN = c - 1
      BY <2>2, <3>2, FS_RemoveElement
    <3>6. Finite /\ tN = t - 1 /\ rowsN = rows
      BY <2>8, <3>3, <3>4
    <3> HIDE DEF t, tN, c, cN, rows, rowsN, Finite
    <3> QED BY <2>2, <2>4, <2>8, <3>5, <3>6
  <2>9. CASE /\ row' = row
             /\ gauge' = [v \in Version |-> IF row # NoRow /\ row.version = v THEN 1 ELSE 0]
             /\ Counting' = {}
    <3>1. /\ gauge' \in [Version -> Int]
          /\ \A v \in Version : gauge'[v] = IF row # NoRow /\ row.version = v THEN 1 ELSE 0
      BY <2>9
    <3>2. Finite /\ tN = rows /\ rowsN = rows
      BY <2>1, <2>9, <3>1, Recount
    <3>3. IsFiniteSet(Counting') /\ cN = 0
      BY <2>9, FS_EmptySet
    <3> HIDE DEF t, tN, c, cN, rows, rowsN, Finite
    <3> QED BY <2>4, <3>2, <3>3
  <2> HIDE DEF t, tN, c, cN, rows, rowsN, Finite
  <2> QED BY <2>5, <2>6, <2>7, <2>8, <2>9, GaugeStep DEF GaugeMoves
<1>3. GaugeInv => GaugeTotal
  BY DEF GaugeInv
<1> QED BY <1>1, <1>2, <1>3, Invariance, PTL DEF Spec
=============================================================================
