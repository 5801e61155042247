-------------------------- MODULE ProvidersProofs --------------------------
(***************************************************************************)
(* Proofs about Providers, for any number of instances, addresses and      *)
(* operations. The steps of the four providers are first shown to be steps *)
(* of one kind (Effect); the rest speaks of Effect alone.                  *)
(***************************************************************************)
EXTENDS Providers, TLAPS

(* The places of generateInstance, of the install and what follows, and of *)
(* a delete.                                                               *)
WorkPC == {"network", "masters", "workers", "wait", "eip_masters", "eip_workers",
           "eip_wait", "assemble"}
EndPC == {"k3s", "plugins", "defer", "rollback", "terminate"}
DeletePC == {"d_exist", "d_eip", "d_terminate", "d_row"}

(* What belongs to what at each place: an operation has a row; what it     *)
(* made is new, runs until it is rolled back, and holds the workers that   *)
(* failed.                                                                 *)
PlaceInv ==
  /\ op.pc = "idle" => op = Idle
  /\ op.pc \in WorkPC \cup EndPC => op.kind \in {"create", "join"}
  /\ op.pc = "plugins" => op.kind = "create"
  /\ op.pc \in DeletePC => op.kind = "delete"
  /\ op.pc # "idle" => row # NoRow
  /\ op.kind = "create" => op.old = {}
  /\ op.kind = "delete" => op.made = {}
  /\ op.errM \subseteq op.made /\ op.made \cap op.old = {}
  /\ op.pc \in WorkPC \cup {"k3s", "plugins", "defer"} => op.made \subseteq inst

(* A node that an operation added can be used.                             *)
Usable(i) == i \in inst /\ (provider = "tencent" /\ flags.eip => HasAddress(i))

(* What the row says of the nodes an operation made.                       *)
RowInv ==
  /\ op.pc \in WorkPC \cup {"k3s"} =>
       /\ row.status \in {"Creating", "Upgrading"} /\ op.errM = {} /\ op.er = FALSE
       /\ op.kind = "join" => row.nodes = op.old
  /\ op.pc = "plugins" => op.er = FALSE
  /\ op.pc = "plugins" \/ (op.pc = "defer" /\ op.er = FALSE) =>
       \A i \in op.made \ op.errM : Usable(i)
  /\ op.pc = "defer" /\ op.er = TRUE /\ op.kind = "join" => row.nodes = op.old
  /\ op.pc \in {"rollback", "terminate"} /\ row.status = "Running" =>
       /\ \A i \in row.nodes \cap op.made : Usable(i) /\ i \notin RollbackIds
       /\ provider = "k3d" => RollbackIds = {}

(* What the providers without elastic addresses, and k3d, never do.        *)
KindInv ==
  /\ provider \in {"google", "k3d"} => tagged = {}
  /\ provider = "k3d" => op.errM = {} /\ (op.kind = "join" => op.made = {})
  /\ provider # "k3d" => stopped = {}

(* A delete for which no page is too long finds every instance.            *)
Whole == provider \in {"tencent", "k3d"} \/ ~op.many

(* How far a delete without force has come, and that no page has got too   *)
(* long meanwhile.                                                         *)
DeleteInv ==
  /\ op.pc \in {"d_terminate", "d_row"} /\ ~op.force /\ ~op.bad /\ ~op.many => tagged = {}
  /\ op.pc = "d_row" /\ ~op.force /\ (provider # "google" \/ ~op.bad) /\ Whole => inst = {}
  /\ op.pc \in {"d_exist", "d_eip"} /\ ~op.many =>
       ~Long(inst) /\ ~Long(tagged) /\ ~Long(inst \cup tagged)
  /\ op.pc = "d_terminate" /\ ~op.many => ~Long(inst)

(* The inductive invariant.                                                *)
Inv == TypeOK /\ PlaceInv /\ RowInv /\ KindInv /\ DeleteInv

---------------------------------------------------------------------------
(* The steps of all providers. *)

Typed ==
  /\ op \in OpType
  /\ inst \subseteq Instance
  /\ eip \in [Eip -> Instance \cup {"free", "spare"}]
  /\ tagged \subseteq Eip

(* The operation goes on.                                                  *)
SameOp ==
  /\ op'.kind = op.kind /\ op'.old = op.old
  /\ op'.force = op.force /\ op'.many = op.many

(* A step of generateInstance: it may make instances and addresses, all    *)
(* new, and returns at the latest with an error.                           *)
Make ==
  /\ op.pc \in WorkPC
  /\ UNCHANGED <<flags, row, started>>
  /\ SameOp /\ op'.errM = op.errM
  /\ \/ op'.pc \in WorkPC \cup {"k3s"} /\ op'.er = op.er
     \/ op'.pc = "defer" /\ op'.er = TRUE
  /\ inst \subseteq inst' /\ op'.made \subseteq inst' /\ op'.made \cap op.old = {}
  /\ \A e \in Eip : eip[e] \in Instance => eip'[e] = eip[e]
  /\ provider \in {"google", "k3d"} => tagged' = tagged
  /\ provider = "k3d" /\ op.kind = "join" => op'.made = {}
  /\ Typed'

(* The install: the row is Running with the nodes known, or an error.      *)
Installed ==
  /\ op.pc = "k3s"
  /\ UNCHANGED <<flags, account, started>>
  /\ SameOp /\ op'.made = op.made /\ op' \in OpType
  /\ \/ /\ row' = [status |-> "Running", nodes |-> op.known]
        /\ op'.pc = (IF op.kind = "create" THEN "plugins" ELSE "defer") /\ op'.er = op.er
        /\ op'.errM \subseteq op.made
        /\ provider = "tencent" /\ flags.eip => \A i \in op.made \ op'.errM : HasAddress(i)
        /\ provider = "k3d" => op'.errM = {}
     \/ /\ row' = row /\ op'.pc = "defer" /\ op'.er = TRUE
        /\ op'.errM \subseteq op.made
        /\ provider = "k3d" => op'.errM = {}

(* The process ends in the middle of an operation.                         *)
Abandon ==
  /\ op.pc \in WorkPC \cup {"k3s"}
  /\ op' = Idle
  /\ inst \subseteq inst' /\ inst' \subseteq Instance
  /\ UNCHANGED <<flags, row, eip, tagged, started>>

(* A step of a rollback: it ends instances it is asked to, and releases    *)
(* addresses of nodes that the operation made; k3d may end the cluster.    *)
Undo ==
  /\ op.pc \in {"rollback", "terminate"}
  /\ UNCHANGED <<flags, row, started>>
  /\ \/ op' = Idle
     \/ provider # "k3d" /\ op'.pc = "terminate" /\ SameOp /\ op'.made = op.made /\ op'.errM = op.errM
  /\ provider # "k3d" => /\ inst \ RollbackIds \subseteq inst'
                         /\ \A e \in Eip : eip[e] \in Instance \ op.made => eip'[e] = eip[e]
  /\ provider = "tencent" => \A e \in Eip : eip[e] \in Instance \ RollbackIds => eip'[e] = eip[e]
  /\ provider = "k3d" /\ RollbackIds = {} => UNCHANGED <<inst, eip>>
  /\ provider \in {"google", "k3d"} => tagged' = tagged
  /\ Typed'

(* A step of a delete: without force and an error of a call it comes to    *)
(* the row only with everything released, as far as one page shows it.     *)
Clear ==
  /\ op.pc \in {"d_exist", "d_eip", "d_terminate"}
  /\ UNCHANGED <<flags, row, started>>
  /\ \/ op' = Idle
     \/ /\ SameOp /\ op'.made = op.made /\ op'.errM = op.errM
        /\ op'.pc \in {"d_eip", "d_terminate", "d_row"}
        /\ op'.pc \in {"d_terminate", "d_row"} /\ ~op'.force /\ ~op'.bad /\ ~op.many => tagged' = {}
        /\ op'.pc = "d_row" /\ ~op'.force /\ (provider # "google" \/ ~op'.bad) /\ Whole => inst' = {}
        /\ op'.pc = "d_eip" => op.pc = "d_exist" /\ UNCHANGED <<inst, tagged>>
        /\ op'.pc = "d_terminate" => op.pc \in {"d_exist", "d_eip"} /\ UNCHANGED inst
  /\ provider \in {"google", "k3d"} => tagged' = tagged
  /\ Typed'

Effect ==
  \/ \E exists : CreateRequest(exists) \/ JoinRequest(exists)
  \/ BaseNext
  \/ Make \/ Installed \/ Abandon \/ Undo \/ Clear
  \/ UNCHANGED vars

---------------------------------------------------------------------------
(* The operation after each of the moves of CloudProvider. *)

(* An idle provider object has the type of an operation.                   *)
LEMMA IdleType == Idle \in OpType
BY DEF Idle, OpType

(* The operation after a call that went well,                              *)
LEMMA GotoOp ==
  ASSUME op \in OpType, NEW l \in WorkPC \cup EndPC \cup DeletePC, Goto(l)
  PROVE  /\ op' \in OpType /\ op'.pc = l /\ SameOp
         /\ op'.made = op.made /\ op'.errM = op.errM /\ op'.er = op.er /\ op'.bad = op.bad
BY DEF OpType, Goto, WorkPC, EndPC, DeletePC, SameOp

(* after one whose error was logged,                                       *)
LEMMA LoggedOp ==
  ASSUME op \in OpType, NEW l \in WorkPC \cup EndPC \cup DeletePC, Logged(l)
  PROVE  /\ op' \in OpType /\ op'.pc = l /\ SameOp
         /\ op'.made = op.made /\ op'.errM = op.errM /\ op'.er = op.er /\ op'.bad = TRUE
BY DEF OpType, Logged, WorkPC, EndPC, DeletePC, SameOp

(* and after one whose error was returned.                                 *)
LEMMA FailOp ==
  ASSUME op \in OpType, Fail
  PROVE  /\ op' \in OpType /\ op'.pc = "defer" /\ SameOp
         /\ op'.made = op.made /\ op'.errM = op.errM /\ op'.er = TRUE
BY DEF OpType, Fail, SameOp

(* The fields of an idle operation.                                        *)
LEMMA IdleFields ==
  /\ Idle.pc = "idle" /\ Idle.kind = "none" /\ Idle.made = {} /\ Idle.errM = {} /\ Idle.old = {}
  /\ Idle.er = FALSE /\ Idle.bad = FALSE /\ Idle.force = FALSE
BY DEF Idle

---------------------------------------------------------------------------
(* Requests and the base keep the invariant. *)

(* Where nothing runs, little is claimed.                                  *)
LEMMA EndedInv ==
  ASSUME Inv, UNCHANGED <<provider, flags>>, op' = Idle, row' \in RowType \cup {NoRow},
         stopped' \subseteq inst', provider # "k3d" => stopped' = stopped,
         provider \in {"google", "k3d"} => tagged' = tagged, started' \in 0..MaxOps, Typed'
  PROVE  Inv'
<1>1. op'.pc = "idle" /\ op'.kind = "none" /\ op'.made = {} /\ op'.errM = {}
  BY IdleFields
<1>2. TypeOK'
  BY DEF Inv, TypeOK, Typed
<1>3. PlaceInv'
  BY <1>1 DEF PlaceInv, WorkPC, EndPC, DeletePC, Idle
<1>4. RowInv' /\ KindInv' /\ DeleteInv'
  BY <1>1 DEF Inv, RowInv, KindInv, DeleteInv, WorkPC
<1> QED BY <1>2, <1>3, <1>4 DEF Inv

(* A request takes on an operation that has made nothing.                  *)
LEMMA StartInv ==
  ASSUME Inv, UNCHANGED provider, stopped' \subseteq inst', provider # "k3d" => stopped' = stopped,
         NEW o \in OpType, NEW r \in RowType, Start(o, r),
         o.made = {}, o.errM = {}, o.er = FALSE,
         \/ o.pc = "network" /\ o.kind = "create" /\ o.old = {} /\ r.status = "Creating"
         \/ o.pc = "network" /\ o.kind = "join" /\ r.status = "Upgrading" /\ r.nodes = o.old
         \/ /\ o.pc = "d_exist" /\ o.kind = "delete"
            /\ ~o.many => ~Long(inst) /\ ~Long(tagged) /\ ~Long(inst \cup tagged)
  PROVE  Inv'
<1>1. /\ op' = o /\ row' = r /\ UNCHANGED <<flags, inst, eip, tagged>> /\ started' \in 0..MaxOps
      /\ row' # NoRow
  BY AskAssumption, NoRowAssumption DEF Start, account, Inv, TypeOK
<1>2. TypeOK'
  BY <1>1 DEF Inv, TypeOK
<1>3. PlaceInv'
  BY <1>1 DEF PlaceInv, WorkPC, EndPC, DeletePC
<1>4. RowInv'
  BY <1>1 DEF RowInv, WorkPC
<1>5. KindInv'
  BY <1>1 DEF Inv, KindInv
<1>6. DeleteInv'
  BY <1>1 DEF DeleteInv, Long
<1> QED BY <1>2, <1>3, <1>4, <1>5, <1>6 DEF Inv

(* The requests keep the invariant.                                        *)
LEMMA RequestInv ==
  ASSUME Inv, UNCHANGED provider, stopped' \subseteq inst', provider # "k3d" => stopped' = stopped,
         (\E exists : CreateRequest(exists) \/ JoinRequest(exists)) \/ DeleteRequest
  PROVE  Inv'
<1>1. ASSUME NEW exists, CreateRequest(exists) PROVE Inv'
  <2> DEFINE r == [status |-> "Creating", nodes |-> {}]
  <2>1. PICK n \in MasterAsk, w \in WorkerAsk :
          Start([Idle EXCEPT !.pc = "network", !.kind = "create", !.nm = n, !.nw = w], r)
    BY <1>1 DEF CreateRequest
  <2> DEFINE o == [Idle EXCEPT !.pc = "network", !.kind = "create", !.nm = n, !.nw = w]
  <2>2. o \in OpType
    BY AskAssumption DEF Idle, OpType
  <2>3. /\ o.made = {} /\ o.errM = {} /\ o.er = FALSE /\ o.pc = "network" /\ o.kind = "create"
        /\ o.old = {}
    BY DEF Idle
  <2>4. r \in RowType /\ r.status = "Creating"
    BY DEF RowType
  <2>5. Start(o, r)
    BY <2>1
  <2> HIDE DEF o, r
  <2> QED BY <2>2, <2>3, <2>4, <2>5, StartInv
<1>2. ASSUME NEW exists, JoinRequest(exists) PROVE Inv'
  <2> DEFINE r == [row EXCEPT !.status = "Upgrading"]
  <2>1. PICK n \in MasterAsk, w \in WorkerAsk :
          Start([Idle EXCEPT !.pc = "network", !.kind = "join", !.nm = n, !.nw = w,
                   !.known = MergeConfig, !.old = row.nodes], r)
    BY <1>2 DEF JoinRequest
  <2> DEFINE o == [Idle EXCEPT !.pc = "network", !.kind = "join", !.nm = n, !.nw = w,
                     !.known = MergeConfig, !.old = row.nodes]
  <2>2. row \in RowType /\ row.nodes \in SUBSET Instance
    BY <1>2 DEF JoinRequest, Inv, TypeOK, RowType
  <2>3. o \in OpType
    BY <2>2, AskAssumption DEF Idle, OpType, MergeConfig
  <2>4. /\ o.made = {} /\ o.errM = {} /\ o.er = FALSE /\ o.pc = "network" /\ o.kind = "join"
        /\ o.old = row.nodes
    BY DEF Idle
  <2>5. r \in RowType /\ r.status = "Upgrading" /\ r.nodes = row.nodes
    BY <2>2 DEF RowType
  <2>6. Start(o, r)
    BY <2>1
  <2> HIDE DEF o, r
  <2> QED BY <2>3, <2>4, <2>5, <2>6, StartInv
<1>3. CASE DeleteRequest
  <2> DEFINE r == [row EXCEPT !.status = "Removing"]
  <2>1. PICK f \in BOOLEAN :
          Start([Idle EXCEPT !.pc = "d_exist", !.kind = "delete", !.force = f,
                   !.many = Long(inst) \/ Long(tagged) \/ Long(inst \cup tagged)], r)
    BY <1>3 DEF DeleteRequest
  <2> DEFINE b == Long(inst) \/ Long(tagged) \/ Long(inst \cup tagged)
             o == [Idle EXCEPT !.pc = "d_exist", !.kind = "delete", !.force = f, !.many = b]
  <2>7. b \in BOOLEAN
    BY DEF Long
  <2>2. row \in RowType
    BY <1>3 DEF DeleteRequest, Inv, TypeOK
  <2>6. Start(o, r)
    BY <2>1
  <2>8. ~b => ~Long(inst) /\ ~Long(tagged) /\ ~Long(inst \cup tagged)
    OBVIOUS
  <2> HIDE DEF b
  <2>3. o \in OpType
    BY <2>7 DEF Idle, OpType
  <2>4. /\ o.made = {} /\ o.errM = {} /\ o.er = FALSE /\ o.pc = "d_exist" /\ o.kind = "delete"
        /\ o.many = b
    BY DEF Idle
  <2>5. r \in RowType
    BY <2>2 DEF RowType
  <2> HIDE DEF o, r
  <2> QED BY <2>3, <2>4, <2>5, <2>6, <2>8, StartInv
<1> QED BY <1>1, <1>2, <1>3

(* The deferred functions, and the end of a delete.                        *)
LEMMA BaseInv ==
  ASSUME Inv, UNCHANGED provider, stopped' \subseteq inst', provider # "k3d" => stopped' = stopped,
         Plugins \/ Deferred \/ DeleteRow
  PROVE  Inv'
<1> USE DEF At
<1>0. /\ Typed /\ TypeOK /\ PlaceInv /\ RowInv /\ KindInv /\ DeleteInv /\ op.er \in BOOLEAN
      /\ stopped \subseteq inst
  BY DEF Inv, TypeOK, Typed, OpType
<1>a. UNCHANGED <<flags, inst, eip, tagged, started>>
  BY DEF Plugins, Deferred, DeleteRow, account
<1>1. CASE DeleteRow
  <2>1. op' = Idle /\ row' = NoRow /\ Typed'
    BY <1>0, <1>1, <1>a, IdleType DEF DeleteRow, Typed
  <2> QED BY <1>0, <1>a, <2>1, EndedInv DEF TypeOK
<1>2. CASE Plugins
  <2>1. /\ op.pc = "plugins" /\ op.kind = "create" /\ row' = row /\ row # NoRow
        /\ op.made \subseteq inst /\ op.errM \subseteq op.made /\ op.made \cap op.old = {} /\ op.old = {}
        /\ \A i \in op.made \ op.errM : Usable(i)
    BY <1>0, <1>2 DEF Plugins, PlaceInv, RowInv, EndPC
  <2>2. /\ op' \in OpType /\ op'.pc = "defer" /\ SameOp
        /\ op'.made = op.made /\ op'.errM = op.errM /\ op'.er \in BOOLEAN
    BY <1>0, <1>2, GotoOp, FailOp DEF Plugins, Typed, EndPC
  <2>3. TypeOK'
    BY <1>0, <1>a, <2>1, <2>2 DEF TypeOK
  <2>4. PlaceInv'
    BY <1>a, <2>1, <2>2 DEF PlaceInv, SameOp, WorkPC, EndPC, DeletePC
  <2>5. \A i \in op'.made \ op'.errM : Usable(i)'
    BY <1>a, <2>1, <2>2 DEF Usable, HasAddress, AddressesOf
  <2>6. RowInv'
    BY <2>1, <2>2, <2>5 DEF RowInv, SameOp, WorkPC
  <2>7. KindInv' /\ DeleteInv'
    BY <1>0, <1>a, <2>1, <2>2 DEF KindInv, DeleteInv, SameOp
  <2> QED BY <2>3, <2>4, <2>6, <2>7 DEF Inv
<1>3. CASE Deferred
  <2> DEFINE status == IF op.kind = "join" THEN "Running" ELSE IF op.er THEN "Failed" ELSE row.status
             r == [status |-> status, nodes |-> row.nodes \ op.errM]
  <2>1. /\ op.pc = "defer" /\ op.kind \in {"create", "join"} /\ row # NoRow /\ row \in RowType
        /\ op.made \subseteq inst /\ op.errM \subseteq op.made /\ op.made \cap op.old = {}
        /\ op.kind = "create" => op.old = {}
    BY <1>0, <1>3 DEF Deferred, PlaceInv, TypeOK, EndPC
  <2>2. r \in RowType /\ r.status = status /\ r.nodes = row.nodes \ op.errM /\ r # NoRow
    BY <2>1, NoRowAssumption DEF RowType
  <2>3. row' = row \/ row' = r
    BY <1>3 DEF Deferred
  <2>4. status = "Running" => op.kind = "join" \/ op.er = FALSE
    BY <1>0
  <2>5. op.er = FALSE /\ op.errM = {} => op' = Idle
    BY <1>3 DEF Deferred
  <2>6. op' = Idle \/ (row' = r /\ Goto("rollback"))
    BY <1>3 DEF Deferred
  <2> HIDE DEF r, status
  <2>7. CASE op' = Idle
    <3>1. row' \in RowType \cup {NoRow} /\ Typed'
      BY <1>0, <1>a, <2>1, <2>2, <2>3, <2>7, IdleType DEF Typed
    <3> QED BY <1>0, <1>a, <2>7, <3>1, EndedInv DEF TypeOK
  <2>8. CASE op' # Idle
    <3>1. row' = r /\ op' \in OpType /\ op'.pc = "rollback" /\ SameOp
          /\ op'.made = op.made /\ op'.errM = op.errM
      BY <1>0, <2>6, <2>8, GotoOp DEF Typed, EndPC
    <3>2. TypeOK'
      BY <1>0, <1>a, <2>2, <3>1 DEF TypeOK
    <3>3. PlaceInv'
      BY <1>a, <2>1, <2>2, <3>1 DEF PlaceInv, SameOp, WorkPC, EndPC, DeletePC
    <3>4. RollbackIds' = RollbackIds
      BY <3>1 DEF RollbackIds
    <3>5. ASSUME r.status = "Running"
          PROVE  /\ \A i \in r.nodes \cap op.made : Usable(i) /\ i \notin RollbackIds
                 /\ provider = "k3d" => RollbackIds = {}
      <4>1. CASE op.er = FALSE
        <5>1. op.errM # {} /\ \A i \in op.made \ op.errM : Usable(i)
          BY <1>0, <2>1, <2>5, <2>8, <4>1 DEF RowInv
        <5>2. RollbackIds = op.errM /\ provider # "k3d"
          BY <1>0, <5>1 DEF RollbackIds, KindInv
        <5> QED BY <2>2, <5>1, <5>2
      <4>2. CASE op.er = TRUE
        <5>1. op.kind = "join" /\ row.nodes = op.old
          BY <1>0, <2>1, <2>2, <2>4, <3>5, <4>2 DEF RowInv
        <5>2. r.nodes \cap op.made = {}
          BY <2>1, <2>2, <5>1
        <5>3. provider = "k3d" => op.made = {} /\ op.errM = {}
          BY <1>0, <5>1 DEF KindInv
        <5> QED BY <5>2, <5>3 DEF RollbackIds
      <4> QED BY <1>0, <4>1, <4>2
    <3>6. \A i : Usable(i) => Usable(i)'
      BY <1>a DEF Usable, HasAddress, AddressesOf
    <3>7. RowInv'
      BY <3>1, <3>4, <3>5, <3>6 DEF RowInv, WorkPC
    <3>8. KindInv' /\ DeleteInv'
      BY <1>0, <1>a, <3>1 DEF KindInv, DeleteInv, SameOp
    <3> QED BY <3>2, <3>3, <3>7, <3>8 DEF Inv
  <2> QED BY <2>7, <2>8
<1> QED BY <1>1, <1>2, <1>3

---------------------------------------------------------------------------
(* So do the steps of the providers. *)

(* generateInstance.                                                       *)
LEMMA MakeInv ==
  ASSUME Inv, UNCHANGED provider, stopped' \subseteq inst', provider # "k3d" => stopped' = stopped,
         Make
  PROVE  Inv'
<1>1. /\ TypeOK /\ PlaceInv /\ RowInv /\ KindInv
      /\ UNCHANGED <<flags, row, started>> /\ SameOp /\ op'.errM = op.errM /\ Typed'
  BY DEF Inv, Make
<1>2. /\ op.pc \in WorkPC /\ op.kind \in {"create", "join"} /\ row # NoRow
      /\ row.status \in {"Creating", "Upgrading"} /\ op.errM = {} /\ op.er = FALSE
      /\ op.kind = "join" => row.nodes = op.old
  BY <1>1 DEF Make, PlaceInv, RowInv, WorkPC
<1>3. /\ op'.pc \in WorkPC \cup {"k3s", "defer"}
      /\ op'.pc \in WorkPC \cup {"k3s"} => op'.er = FALSE
      /\ op'.pc = "defer" => op'.er = TRUE
  BY <1>2 DEF Make, WorkPC
<1>4. TypeOK'
  BY <1>1 DEF TypeOK, Typed
<1>5. PlaceInv'
  <2>1. op'.made \subseteq inst' /\ op'.made \cap op'.old = {}
    BY <1>1 DEF Make, SameOp
  <2>2. op'.kind = op.kind /\ (op'.kind = "create" => op'.old = {})
    BY <1>1 DEF PlaceInv, SameOp
  <2> QED BY <1>1, <1>2, <1>3, <2>1, <2>2 DEF PlaceInv, WorkPC, EndPC, DeletePC
<1>6. RowInv'
  BY <1>1, <1>2, <1>3 DEF RowInv, SameOp, WorkPC
<1>7. KindInv'
  BY <1>1, <1>2 DEF Make, KindInv, SameOp
<1>8. DeleteInv'
  BY <1>3 DEF DeleteInv, WorkPC
<1> QED BY <1>4, <1>5, <1>6, <1>7, <1>8 DEF Inv

(* The install.                                                            *)
LEMMA InstalledInv ==
  ASSUME Inv, UNCHANGED provider, stopped' \subseteq inst', provider # "k3d" => stopped' = stopped,
         Installed
  PROVE  Inv'
<1>1. /\ TypeOK /\ PlaceInv /\ RowInv /\ KindInv
      /\ UNCHANGED <<flags, inst, eip, tagged, started>> /\ SameOp /\ op'.made = op.made
      /\ op.pc = "k3s" /\ op' \in OpType
  BY DEF Inv, Installed, account
<1>2. /\ op.kind \in {"create", "join"} /\ row # NoRow /\ op.made \subseteq inst
      /\ op.errM = {} /\ op.er = FALSE /\ op.made \cap op.old = {}
      /\ op.kind = "create" => op.old = {}
      /\ op.kind = "join" => row.nodes = op.old
  BY <1>1 DEF PlaceInv, RowInv, WorkPC, EndPC
<1>3. op.known \in SUBSET Instance
  BY <1>1 DEF TypeOK, OpType
<1>4. row' \in RowType \cup {NoRow} /\ row' # NoRow
  BY <1>1, <1>2, <1>3, NoRowAssumption DEF Installed, TypeOK, RowType
<1>5. /\ op'.pc = "plugins" \/ op'.pc = "defer"
      /\ op'.pc = "plugins" => op.kind = "create" /\ op'.er = FALSE
      /\ op'.errM \subseteq op.made
      /\ provider = "k3d" => op'.errM = {}
  BY <1>1, <1>2 DEF Installed
<1>6. TypeOK'
  BY <1>1, <1>4 DEF TypeOK
<1>7. PlaceInv'
  BY <1>1, <1>2, <1>4, <1>5 DEF PlaceInv, SameOp, WorkPC, EndPC, DeletePC
<1>8. ASSUME op'.er = FALSE, NEW i \in op.made \ op'.errM PROVE Usable(i)'
  <2>1. provider = "tencent" /\ flags.eip => HasAddress(i)
    BY <1>8 DEF Installed
  <2> QED BY <1>1, <1>2, <2>1 DEF Usable, HasAddress, AddressesOf
<1>9. op'.er = TRUE => row' = row
  BY <1>2 DEF Installed
<1>10. RowInv'
  BY <1>1, <1>2, <1>5, <1>8, <1>9 DEF RowInv, SameOp, WorkPC
<1>11. KindInv' /\ DeleteInv'
  BY <1>1, <1>2, <1>5 DEF KindInv, DeleteInv, SameOp
<1> QED BY <1>6, <1>7, <1>10, <1>11 DEF Inv

(* A rollback.                                                             *)
LEMMA UndoInv ==
  ASSUME Inv, UNCHANGED provider, stopped' \subseteq inst', provider # "k3d" => stopped' = stopped,
         Undo
  PROVE  Inv'
<1>1. /\ TypeOK /\ PlaceInv /\ RowInv /\ KindInv /\ UNCHANGED <<flags, row, started>> /\ Typed'
      /\ op.pc \in {"rollback", "terminate"}
  BY DEF Inv, Undo
<1>2. CASE op' = Idle
  BY <1>1, <1>2, EndedInv DEF Undo, TypeOK
<1>3. CASE op' # Idle
  <2>1. /\ provider # "k3d" /\ op'.pc = "terminate" /\ SameOp
        /\ op'.made = op.made /\ op'.errM = op.errM
    BY <1>3 DEF Undo
  <2>2. TypeOK'
    BY <1>1 DEF TypeOK, Typed
  <2>3. PlaceInv'
    BY <1>1, <2>1 DEF PlaceInv, SameOp, WorkPC, EndPC, DeletePC
  <2>4. RollbackIds' = RollbackIds
    BY <2>1 DEF RollbackIds
  <2>5. ASSUME NEW i, Usable(i), i \notin RollbackIds PROVE Usable(i)'
    <3>1. i \in inst' /\ i \in Instance
      BY <1>1, <2>1, <2>5 DEF Undo, Usable, TypeOK
    <3>2. provider = "tencent" /\ HasAddress(i) => HasAddress(i)'
      BY <2>5, <3>1 DEF Undo, HasAddress, AddressesOf
    <3> QED BY <1>1, <2>5, <3>1, <3>2 DEF Usable
  <2>6. RowInv'
    BY <1>1, <2>1, <2>4, <2>5 DEF RowInv, WorkPC
  <2>7. KindInv' /\ DeleteInv'
    BY <1>1, <2>1 DEF Undo, KindInv, DeleteInv
  <2> QED BY <2>2, <2>3, <2>6, <2>7 DEF Inv
<1> QED BY <1>2, <1>3

(* A delete.                                                               *)
LEMMA ClearInv ==
  ASSUME Inv, UNCHANGED provider, stopped' \subseteq inst', provider # "k3d" => stopped' = stopped,
         Clear
  PROVE  Inv'
<1>1. /\ TypeOK /\ PlaceInv /\ KindInv /\ UNCHANGED <<flags, row, started>> /\ Typed'
      /\ op.pc \in {"d_exist", "d_eip", "d_terminate"}
  BY DEF Inv, Clear
<1>2. CASE op' = Idle
  BY <1>1, <1>2, EndedInv DEF Clear, TypeOK
<1>3. CASE op' # Idle
  <2>1. /\ SameOp /\ op'.made = op.made /\ op'.errM = op.errM
        /\ op'.pc \in {"d_eip", "d_terminate", "d_row"}
    BY <1>3 DEF Clear
  <2>2. TypeOK'
    BY <1>1 DEF TypeOK, Typed
  <2>3. op.kind = "delete" /\ op.made = {} /\ row # NoRow
    BY <1>1 DEF PlaceInv, DeletePC
  <2>4. PlaceInv'
    BY <1>1, <2>1, <2>3 DEF PlaceInv, SameOp, WorkPC, EndPC, DeletePC
  <2>5. RowInv'
    BY <2>1 DEF RowInv, WorkPC
  <2>6. KindInv'
    BY <1>1, <1>3, <2>1, <2>3 DEF Clear, KindInv, SameOp
  <2>7. op'.many = op.many /\ (Whole' <=> Whole)
    BY <2>1 DEF SameOp, Whole
  <2>8. /\ op'.pc = "d_eip" => op.pc = "d_exist" /\ inst' = inst /\ tagged' = tagged
        /\ op'.pc = "d_terminate" => op.pc \in {"d_exist", "d_eip"} /\ inst' = inst
        /\ op'.pc \in {"d_terminate", "d_row"} /\ ~op'.force /\ ~op'.bad /\ ~op.many => tagged' = {}
        /\ op'.pc = "d_row" /\ ~op'.force /\ (provider # "google" \/ ~op'.bad) /\ Whole => inst' = {}
    BY <1>3 DEF Clear
  <2>9. DeleteInv'
    BY <1>1, <2>1, <2>7, <2>8 DEF Inv, DeleteInv, Long
  <2> QED BY <2>2, <2>4, <2>5, <2>6, <2>9 DEF Inv
<1> QED BY <1>2, <1>3

(* Nothing but the containers that run changes.                            *)
LEMMA SameInv ==
  ASSUME Inv, UNCHANGED provider, stopped' \subseteq inst', provider # "k3d" => stopped' = stopped,
         UNCHANGED vars
  PROVE  Inv'
<1>1. UNCHANGED <<flags, row, inst, eip, tagged, op, started>>
  BY DEF vars, account
<1>2. TypeOK'
  BY <1>1 DEF Inv, TypeOK
<1>3. PlaceInv'
  BY <1>1 DEF Inv, PlaceInv
<1>4. RowInv'
  BY <1>1 DEF Inv, RowInv, Usable, HasAddress, AddressesOf, RollbackIds
<1>5. KindInv' /\ DeleteInv'
  BY <1>1 DEF Inv, KindInv, DeleteInv, Long, Whole
<1> QED BY <1>2, <1>3, <1>4, <1>5 DEF Inv

(* Every step keeps the invariant.                                         *)
LEMMA EffectInv ==
  ASSUME Inv, UNCHANGED provider, stopped' \subseteq inst', provider # "k3d" => stopped' = stopped,
         Effect
  PROVE  Inv'
<1>1. CASE Abandon
  <2>1. op' = Idle /\ row' \in RowType \cup {NoRow} /\ started' \in 0..MaxOps /\ tagged' = tagged
        /\ Typed' /\ UNCHANGED flags
    BY <1>1, IdleType DEF Abandon, Inv, TypeOK, Typed
  <2> QED BY <2>1, EndedInv
<1>2. CASE (\E exists : CreateRequest(exists) \/ JoinRequest(exists)) \/ BaseNext
  BY <1>2, RequestInv, BaseInv DEF BaseNext
<1> QED BY <1>1, <1>2, MakeInv, InstalledInv, UndoInv, ClearInv, SameInv DEF Effect

---------------------------------------------------------------------------
(* What the calls of a provider do, in the terms of CloudProvider. *)

(* A place of generateInstance is passed, or it fails.                     *)
LEMMA Went ==
  ASSUME Inv, op.pc \in WorkPC, UNCHANGED <<flags, row, inst, eip, tagged, started>>,
         \/ Fail
         \/ \E l \in WorkPC : Goto(l)
         \/ \E known \in SUBSET Instance : op' = [op EXCEPT !.pc = "k3s", !.known = known]
  PROVE  Make
<1>1. op \in OpType /\ Typed /\ PlaceInv /\ KindInv
  BY DEF Inv, TypeOK, Typed
<1>2. /\ op' \in OpType /\ SameOp /\ op'.made = op.made /\ op'.errM = op.errM
      /\ \/ op'.pc \in WorkPC \cup {"k3s"} /\ op'.er = op.er
         \/ op'.pc = "defer" /\ op'.er = TRUE
  BY <1>1, GotoOp, FailOp DEF SameOp, OpType
<1>3. /\ op.made \subseteq inst /\ op.made \cap op.old = {}
      /\ provider = "k3d" /\ op.kind = "join" => op.made = {}
  BY <1>1 DEF PlaceInv, KindInv
<1> QED BY <1>1, <1>2, <1>3 DEF Make, Typed

(* Instances are made; the ids may be lost with an error.                  *)
LEMMA Ran ==
  ASSUME Inv, op.pc \in WorkPC, UNCHANGED <<flags, row, eip, tagged, started>>,
         NEW S \in SUBSET (Fresh(MasterPool) \cup Fresh(WorkerPool)), inst' = inst \cup S,
         \/ Fail
         \/ \E l \in WorkPC : Goto(l)
         \/ provider # "k3d" /\ \E l \in WorkPC : op' = [op EXCEPT !.pc = l, !.made = @ \cup S]
  PROVE  Make
<1>1. op \in OpType /\ Typed /\ PlaceInv /\ KindInv
  BY DEF Inv, TypeOK, Typed
<1>2. S \subseteq Instance /\ S \cap op.old = {}
  BY DEF Fresh, Instance
<1>3. /\ op' \in OpType /\ SameOp /\ op'.errM = op.errM
      /\ op'.made = op.made \/ (provider # "k3d" /\ op'.made = op.made \cup S)
      /\ \/ op'.pc \in WorkPC \cup {"k3s"} /\ op'.er = op.er
         \/ op'.pc = "defer" /\ op'.er = TRUE
  <2>1. CASE Fail \/ \E l \in WorkPC : Goto(l)
    BY <1>1, <2>1, GotoOp, FailOp
  <2>2. ASSUME provider # "k3d", NEW l \in WorkPC, op' = [op EXCEPT !.pc = l, !.made = @ \cup S]
        PROVE  /\ op' \in OpType /\ SameOp /\ op'.errM = op.errM
               /\ op'.made = op.made \cup S /\ op'.pc = l /\ op'.er = op.er
    BY <1>1, <1>2, <2>2 DEF OpType, SameOp, WorkPC
  <2> QED BY <2>1, <2>2
<1>4. /\ op.made \subseteq inst /\ op.made \cap op.old = {}
      /\ provider = "k3d" /\ op.kind = "join" => op.made = {}
  BY <1>1 DEF PlaceInv, KindInv
<1>5. op'.made \subseteq inst' /\ op'.made \cap op.old = {}
  BY <1>2, <1>3, <1>4
<1> QED BY <1>1, <1>2, <1>3, <1>4, <1>5 DEF Make, Typed

(* Addresses are allocated, and associated with new nodes or lost.         *)
LEMMA Addressed ==
  ASSUME Inv, provider \in {"alibaba", "tencent"}, op.pc \in WorkPC,
         UNCHANGED <<flags, row, inst, started>>, tagged' \subseteq Eip,
         NEW E \in SUBSET FreeEip, NEW S \in SUBSET op.made, NEW l \in WorkPC,
         \/ Associate(E, S, l)
         \/ Fail /\ eip' = [e \in Eip |-> IF e \in E THEN "spare" ELSE eip[e]]
  PROVE  Make
<1>1. /\ op \in OpType /\ Typed /\ PlaceInv /\ E \subseteq Eip /\ S \subseteq Instance
      /\ op.made \subseteq inst /\ op.made \cap op.old = {}
  BY DEF Inv, TypeOK, Typed, PlaceInv, FreeEip, OpType
<1>2. \A e \in Eip : eip[e] \in Instance => e \notin E
  BY AddressAssumption DEF FreeEip
<1>3. CASE Fail /\ eip' = [e \in Eip |-> IF e \in E THEN "spare" ELSE eip[e]]
  <2>1. /\ eip' \in [Eip -> Instance \cup {"free", "spare"}]
        /\ \A e \in Eip : eip[e] \in Instance => eip'[e] = eip[e]
    BY <1>1, <1>2, <1>3 DEF Typed
  <2>2. /\ op' \in OpType /\ op'.pc = "defer" /\ SameOp
        /\ op'.made = op.made /\ op'.errM = op.errM /\ op'.er = TRUE
    BY <1>1, <1>3, FailOp
  <2> QED BY <1>1, <2>1, <2>2 DEF Make, Typed
<1>4. CASE Associate(E, S, l)
  <2>1. PICK done \in SUBSET S, f \in [S -> E] :
          /\ eip' = [e \in Eip |-> IF \E i \in done : f[i] = e THEN CHOOSE i \in done : f[i] = e
                                   ELSE IF e \in E THEN "spare" ELSE eip[e]]
          /\ \/ done = S /\ op' = [op EXCEPT !.pc = l, !.tried = @ \cup E]
             \/ \E i \in S \ done :
                  op' = [op EXCEPT !.pc = l, !.bad = TRUE,
                           !.tried = @ \cup {f[j] : j \in done \cup {i}}]
    BY <1>4 DEF Associate
  <2>2. ASSUME NEW e \in Eip
        PROVE  /\ eip'[e] \in Instance \cup {"free", "spare"}
               /\ eip[e] \in Instance => eip'[e] = eip[e]
    <3>1. CASE \E i \in done : f[i] = e
      <4>1. e \in E /\ (CHOOSE i \in done : f[i] = e) \in Instance
        BY <1>1, <3>1
      <4>2. eip'[e] = CHOOSE i \in done : f[i] = e
        BY <2>1, <3>1
      <4> QED BY <1>2, <4>1, <4>2
    <3>2. CASE ~ \E i \in done : f[i] = e
      <4>1. eip'[e] = IF e \in E THEN "spare" ELSE eip[e]
        BY <2>1, <3>2
      <4> QED BY <1>1, <1>2, <4>1 DEF Typed
    <3> QED BY <3>1, <3>2
  <2>3. eip' \in [Eip -> Instance \cup {"free", "spare"}]
    <3>1. DOMAIN eip' = Eip /\ eip' = [e \in Eip |-> eip'[e]]
      BY <2>1
    <3> QED BY <2>2, <3>1
  <2>4. \E b \in BOOLEAN, X \in SUBSET Eip :
          op' = [op EXCEPT !.pc = l, !.bad = b, !.tried = @ \cup X]
    <3>1. CASE op' = [op EXCEPT !.pc = l, !.tried = @ \cup E]
      <4>1. op' = [op EXCEPT !.pc = l, !.bad = op.bad, !.tried = @ \cup E] /\ op.bad \in BOOLEAN
        BY <1>1, <3>1 DEF OpType
      <4> QED BY <1>1, <4>1
    <3>2. ASSUME NEW i \in S \ done,
                 op' = [op EXCEPT !.pc = l, !.bad = TRUE,
                          !.tried = @ \cup {f[j] : j \in done \cup {i}}]
          PROVE  \E X \in SUBSET Eip : op' = [op EXCEPT !.pc = l, !.bad = TRUE, !.tried = @ \cup X]
      <4>1. {f[j] : j \in done \cup {i}} \subseteq Eip
        BY <1>1
      <4> QED BY <3>2, <4>1
    <3>3. CASE \E i \in S \ done :
                 op' = [op EXCEPT !.pc = l, !.bad = TRUE,
                          !.tried = @ \cup {f[j] : j \in done \cup {i}}]
      <4>1. \E X \in SUBSET Eip : op' = [op EXCEPT !.pc = l, !.bad = TRUE, !.tried = @ \cup X]
        BY <3>2, <3>3
      <4> QED BY <4>1
    <3> QED BY <2>1, <3>1, <3>3
  <2>5. /\ op' \in OpType /\ op'.pc = l /\ SameOp
        /\ op'.made = op.made /\ op'.errM = op.errM /\ op'.er = op.er
    <3>1. PICK b \in BOOLEAN, X \in SUBSET Eip :
            op' = [op EXCEPT !.pc = l, !.bad = b, !.tried = op.tried \cup X]
      BY <2>4
    <3>2. op.tried \cup X \in SUBSET Eip
      BY <1>1 DEF OpType
    <3> QED BY <1>1, <3>1, <3>2 DEF OpType, SameOp, WorkPC
  <2> QED BY <1>1, <2>2, <2>3, <2>5 DEF Make, Typed
<1> QED BY <1>3, <1>4

(* Addresses of nodes that the operation made are given back.              *)
LEMMA Released ==
  ASSUME Inv, provider \in {"alibaba", "tencent"}, op.pc = "rollback",
         UNCHANGED <<flags, row, inst, started>>, tagged' \subseteq Eip,
         NEW M \in SUBSET op.made, provider = "tencent" => M \subseteq RollbackIds,
         eip' \in [Eip -> Instance \cup {"free", "spare"}],
         \A e \in Eip : eip[e] \in Instance \ M => eip'[e] = eip[e],
         op' = Idle \/ Goto("terminate") \/ Logged("terminate")
  PROVE  Undo
<1>1. op \in OpType /\ inst \subseteq Instance
  BY DEF Inv, TypeOK
<1>2. /\ op' \in OpType
      /\ op' = Idle \/ (op'.pc = "terminate" /\ SameOp /\ op'.made = op.made /\ op'.errM = op.errM)
  BY <1>1, GotoOp, LoggedOp, IdleType DEF EndPC
<1>3. \A e \in Eip : eip[e] \in Instance \ op.made => eip'[e] = eip[e]
  OBVIOUS
<1> QED BY <1>1, <1>2, <1>3 DEF Undo, Typed

(* Instances that the rollback is asked to end are ended.                  *)
LEMMA Ended ==
  ASSUME Inv, provider # "k3d", op.pc \in {"rollback", "terminate"}, op' = Idle,
         UNCHANGED <<flags, row, started>>,
         (\E S \in SUBSET RollbackIds : Terminate(S)) \/ UNCHANGED account
  PROVE  Undo
<1>1. Typed /\ op.errM \subseteq op.made
  BY DEF Inv, TypeOK, Typed, PlaceInv
<1>2. CASE UNCHANGED account
  BY <1>1, <1>2, IdleType DEF Undo, Typed, account
<1>3. ASSUME NEW S \in SUBSET RollbackIds, Terminate(S) PROVE Undo
  <2>1. S \subseteq op.made
    BY <1>1 DEF RollbackIds
  <2>2. /\ inst' = inst \ S /\ tagged' = tagged
        /\ \A e \in Eip : eip'[e] = IF eip[e] \in S THEN "spare" ELSE eip[e]
        /\ eip' \in [Eip -> Instance \cup {"free", "spare"}]
    BY <1>1, <1>3 DEF Terminate, Typed
  <2>3. \A e \in Eip : eip[e] \in Instance \ RollbackIds => eip'[e] = eip[e]
    BY <2>2
  <2>4. \A e \in Eip : eip[e] \in Instance \ op.made => eip'[e] = eip[e]
    BY <2>1, <2>2
  <2> QED BY <1>1, <2>2, <2>3, <2>4, IdleType DEF Undo, Typed
<1> QED BY <1>2, <1>3

(* The installation.                                                       *)
LEMMA InstallStep ==
  ASSUME Inv, NEW dumb, InstallK3s(dumb), provider # "k3d",
         provider = "tencent" /\ flags.eip => \A i \in op.made \ dumb : HasAddress(i)
  PROVE  Installed
<1>1. op \in OpType
  BY DEF Inv, TypeOK
<1>2. op.pc = "k3s" /\ UNCHANGED <<flags, account, started>>
  BY DEF InstallK3s, At
<1>3. ASSUME NEW errM \in SUBSET (op.made \cap WorkerPool), row' = row,
             op' = [op EXCEPT !.errM = errM, !.pc = "defer", !.er = TRUE, !.bad = TRUE]
      PROVE  Installed
  <2>1. /\ op' \in OpType /\ SameOp /\ op'.made = op.made /\ op'.errM = errM /\ op'.er = TRUE
        /\ op'.pc = "defer"
    BY <1>1, <1>3 DEF OpType, SameOp
  <2> QED BY <1>2, <1>3, <2>1 DEF Installed
<1>4. ASSUME NEW errM \in SUBSET (op.made \cap WorkerPool), dumb \subseteq errM,
             row' = [status |-> "Running", nodes |-> op.known],
             op' = [op EXCEPT !.errM = errM,
                      !.pc = IF op.kind = "create" THEN "plugins" ELSE "defer"]
      PROVE  Installed
  <2>2. /\ op' \in OpType /\ SameOp /\ op'.made = op.made /\ op'.errM = errM /\ op'.er = op.er
        /\ op'.pc = IF op.kind = "create" THEN "plugins" ELSE "defer"
    BY <1>1, <1>4 DEF OpType, SameOp
  <2> QED BY <1>2, <1>4, <2>2 DEF Installed
<1> QED BY <1>3, <1>4 DEF InstallK3s

(* A query answers a part of what it is asked for, and all of it when that *)
(* fits a page.                                                            *)
LEMMA PageOf ==
  ASSUME NEW S, NEW page \in OnePage(S)
  PROVE  page \in SUBSET S /\ (~Long(S) => page = S)
BY DEF OnePage

(* The four providers have the same pages.                                 *)
LEMMA SamePages ==
  ASSUME NEW S
  PROVE  /\ A!OnePage(S) = OnePage(S) /\ T!OnePage(S) = OnePage(S) /\ G!OnePage(S) = OnePage(S)
         /\ A!Long(S) = Long(S) /\ T!Long(S) = Long(S) /\ G!Long(S) = Long(S) /\ K!Long(S) = Long(S)
BY DEF OnePage, A!OnePage, T!OnePage, G!OnePage, Long, A!Long, T!Long, G!Long, K!Long,
       Cardinality, A!Cardinality, T!Cardinality, G!Cardinality, K!Cardinality

(* A delete goes on, or ends with an error.                                *)
LEMMA Cleared ==
  ASSUME Inv, op.pc \in {"d_exist", "d_eip", "d_terminate"}, UNCHANGED <<flags, row, started>>,
         inst' \subseteq Instance, tagged' \subseteq Eip,
         eip' \in [Eip -> Instance \cup {"free", "spare"}],
         provider \in {"google", "k3d"} => tagged' = tagged,
         NEW l \in {"d_eip", "d_terminate", "d_row"},
         l = "d_eip" => op.pc = "d_exist" /\ UNCHANGED <<inst, tagged>>,
         l = "d_terminate" => op.pc \in {"d_exist", "d_eip"} /\ UNCHANGED inst,
         \/ op' = Idle
         \/ /\ Goto(l)
            /\ l \in {"d_terminate", "d_row"} /\ ~op.force /\ ~op.bad /\ ~op.many => tagged' = {}
            /\ l = "d_row" /\ ~op.force /\ Whole => inst' = {}
         \/ Logged(l) /\ (l = "d_row" /\ ~op.force => provider = "google")
  PROVE  Clear
<1>1. op \in OpType /\ l \in WorkPC \cup EndPC \cup DeletePC
  BY DEF Inv, TypeOK, DeletePC
<1>2. CASE op' = Idle
  BY <1>1, <1>2, IdleType DEF Clear, Typed
<1>3. CASE /\ Goto(l)
           /\ l \in {"d_terminate", "d_row"} /\ ~op.force /\ ~op.bad /\ ~op.many => tagged' = {}
           /\ l = "d_row" /\ ~op.force /\ Whole => inst' = {}
  <2>1. /\ op' \in OpType /\ op'.pc = l /\ SameOp /\ op'.made = op.made /\ op'.errM = op.errM
        /\ op'.bad = op.bad /\ op'.force = op.force
    BY <1>1, <1>3, GotoOp DEF SameOp
  <2> QED BY <1>3, <2>1 DEF Clear, Typed
<1>4. CASE Logged(l) /\ (l = "d_row" /\ ~op.force => provider = "google")
  <2>1. /\ op' \in OpType /\ op'.pc = l /\ SameOp /\ op'.made = op.made /\ op'.errM = op.errM
        /\ op'.bad = TRUE /\ op'.force = op.force
    BY <1>1, <1>4, LoggedOp DEF SameOp
  <2> QED BY <1>4, <2>1 DEF Clear, Typed
<1> QED BY <1>2, <1>3, <1>4

---------------------------------------------------------------------------
(* Alibaba. *)

(* generateInstance: instances, then addresses, then the nodes of          *)
(* p.Status.                                                               *)
LEMMA AlibabaMakes ==
  ASSUME Inv, provider = "alibaba",
         \/ A!GenerateInstance \/ A!RunMasters \/ A!RunWorkers \/ A!WaitRunning
         \/ A!EipMasters \/ A!EipWorkers \/ A!EipInUse \/ A!AssembleInstanceStatus
  PROVE  Make
<1>0. op.pc \in WorkPC /\ UNCHANGED <<flags, row, started>>
  BY DEF A!GenerateInstance, A!Network, A!RunMasters, A!RunWorkers, A!WaitRunning, A!EipMasters,
         A!EipWorkers, A!EipInUse, A!AssembleInstanceStatus, A!AssignEip, A!Skip, A!RunInstances,
         A!At, WorkPC
<1>1. CASE A!GenerateInstance \/ A!WaitRunning \/ A!EipInUse
  <2>1. Fail \/ \E l \in WorkPC : Goto(l)
    BY <1>1 DEF A!GenerateInstance, A!Network, A!WaitRunning, A!EipInUse, A!Goto, A!Fail,
         Goto, Fail, WorkPC
  <2>2. UNCHANGED <<inst, eip, tagged>>
    BY <1>1 DEF A!GenerateInstance, A!Network, A!WaitRunning, A!EipInUse, A!account
  <2> QED BY <1>0, <2>1, <2>2, Went
<1>2. ASSUME NEW pool \in {MasterPool, WorkerPool}, NEW n, NEW l \in WorkPC,
             A!RunInstances(pool, n, l)
      PROVE  Make
  <2>1. PICK S \in SUBSET Fresh(pool) :
          /\ Fail \/ op' = [op EXCEPT !.pc = l, !.made = @ \cup S]
          /\ inst' = inst \cup S /\ UNCHANGED <<eip, tagged>>
    BY <1>2 DEF A!RunInstances, A!Fresh, A!Fail, Fresh, Fail
  <2>2. S \in SUBSET (Fresh(MasterPool) \cup Fresh(WorkerPool))
    OBVIOUS
  <2> QED BY <1>0, <2>1, <2>2, Ran
<1>3. ASSUME NEW l \in WorkPC, A!Skip(l) PROVE Make
  <2>1. Goto(l) /\ UNCHANGED <<inst, eip, tagged>>
    BY <1>3 DEF A!Skip, A!Goto, Goto, A!account
  <2> QED BY <1>0, <2>1, Went
<1>4. CASE A!RunMasters \/ A!RunWorkers
  BY <1>2, <1>3, <1>4 DEF A!RunMasters, A!RunWorkers, WorkPC
<1>5. ASSUME NEW k, NEW pool, NEW l \in WorkPC, A!AssignEip(k, pool, l) PROVE Make
  <2>1. UNCHANGED inst
    BY <1>5 DEF A!AssignEip
  <2>2. tagged \subseteq Eip
    BY DEF Inv, TypeOK
  <2>3. CASE Goto(l) /\ UNCHANGED <<eip, tagged>>
    BY <1>0, <2>1, <2>3, Went
  <2>4. CASE ~ (Goto(l) /\ UNCHANGED <<eip, tagged>>)
    <3>1. PICK E \in SUBSET FreeEip :
            /\ tagged' \in {tagged, tagged \cup E}
            /\ \/ Associate(E, op.made \cap pool, l)
               \/ Fail /\ eip' = [e \in Eip |-> IF e \in E THEN "spare" ELSE eip[e]]
      BY <1>5, <2>4 DEF A!AssignEip, A!Goto, Goto, A!Fail, Fail, A!FreeEip, FreeEip,
         A!Associate, Associate, A!TagVpcResources
    <3>2. tagged' \subseteq Eip /\ op.made \cap pool \in SUBSET op.made
      BY <2>2, <3>1 DEF FreeEip
    <3> QED BY <1>0, <2>1, <3>1, <3>2, Addressed
  <2> QED BY <2>3, <2>4
<1>6. CASE A!EipMasters \/ A!EipWorkers
  BY <1>5, <1>6 DEF A!EipMasters, A!EipWorkers, WorkPC
<1>7. CASE A!AssembleInstanceStatus
  <2>1. op.known \cup op.made \cup inst \in SUBSET Instance
    BY DEF Inv, TypeOK, OpType
  <2>2. \/ Fail
        \/ \E known \in SUBSET Instance : op' = [op EXCEPT !.pc = "k3s", !.known = known]
    BY <1>7, <2>1 DEF A!AssembleInstanceStatus, A!SyncExistNodes, A!DescribeInstances, A!Fail, Fail
  <2>3. UNCHANGED <<inst, eip, tagged>>
    BY <1>7 DEF A!AssembleInstanceStatus, A!account
  <2> QED BY <1>0, <2>2, <2>3, Went
<1> QED BY <1>1, <1>4, <1>6, <1>7

(* rollbackInstance: the addresses of new nodes, then the instances.       *)
LEMMA AlibabaUndoes ==
  ASSUME Inv, provider = "alibaba", A!RollbackEip \/ A!RollbackInstances
  PROVE  Undo
<1>1. CASE A!RollbackInstances
  <2>1. /\ op.pc \in {"rollback", "terminate"} /\ op' = Idle /\ UNCHANGED <<flags, row, started>>
        /\ Terminate(RollbackIds) \/ UNCHANGED account
    BY <1>1 DEF A!RollbackInstances, A!At, A!Idle, Idle, A!Terminate, Terminate, A!RollbackIds,
         RollbackIds, A!account, account
  <2> QED BY <2>1, Ended
<1>2. CASE A!RollbackEip
  <2>0. op.pc = "rollback" /\ UNCHANGED <<flags, row, inst, started>>
    BY <1>2 DEF A!RollbackEip, A!At
  <2>1. tagged \subseteq Eip /\ eip \in [Eip -> Instance \cup {"free", "spare"}]
    BY DEF Inv, TypeOK
  <2> DEFINE M == op.made \cap op.known
  <2>2. CASE op' = Idle /\ UNCHANGED <<eip, tagged>>
    BY <2>0, <2>1, <2>2, Released
  <2>3. CASE ~ (op' = Idle /\ UNCHANGED <<eip, tagged>>)
    <3>1. PICK L \in OnePage(AddressesOf(M) \cap tagged) :
            A!ReleaseAddresses(AddressesOf(M), L, "terminate")
      BY <1>2, <2>3, SamePages DEF A!RollbackEip, A!Idle, Idle, A!AddressesOf, AddressesOf,
         A!ListVpcTagResources
    <3>5. L \in SUBSET AddressesOf(M)
      <4>1. L \in SUBSET (AddressesOf(M) \cap tagged)
        BY PageOf
      <4> QED BY <4>1
    <3>2. PICK un \in SUBSET AddressesOf(M), rel \in SUBSET AddressesOf(M) :
            /\ eip' = [e \in Eip |-> IF e \in rel THEN "free"
                                     ELSE IF e \in un THEN "spare" ELSE eip[e]]
            /\ tagged' = tagged \ rel
            /\ Goto("terminate") \/ Logged("terminate")
      BY <3>1, <3>5 DEF A!ReleaseAddresses, A!Goto, Goto, A!Logged, Logged
    <3>3. /\ eip' \in [Eip -> Instance \cup {"free", "spare"}] /\ tagged' \subseteq Eip
          /\ \A e \in Eip : eip[e] \in Instance \ M => eip'[e] = eip[e]
      BY <2>1, <3>2 DEF AddressesOf
    <3>4. M \in SUBSET op.made
      OBVIOUS
    <3> HIDE DEF M
    <3> QED BY <2>0, <3>2, <3>3, <3>4, Released
  <2> QED BY <2>2, <2>3
<1> QED BY <1>1, <1>2

(* deleteInstance: only with all instances ended does it come to the row.  *)
LEMMA AlibabaClears ==
  ASSUME Inv, provider = "alibaba", A!DeleteExist \/ A!DeleteEip \/ A!DeleteInstances
  PROVE  Clear
<1>0. Typed /\ DeleteInv /\ op.pc \in {"d_exist", "d_eip", "d_terminate"}
  BY DEF Inv, TypeOK, Typed, A!DeleteExist, A!DeleteEip, A!DeleteInstances, A!At
<1>1. CASE A!DeleteExist
  <2>1. op.pc = "d_exist" /\ UNCHANGED <<flags, row, inst, eip, tagged, started>>
    BY <1>1 DEF A!DeleteExist, A!At, A!account, A!DeleteError
  <2>2. op' = Idle \/ Goto("d_eip") \/ (op.force /\ (Goto("d_row") \/ Logged("d_row")))
    BY <1>1 DEF A!DeleteExist, A!DeleteError, A!Goto, Goto, A!Logged, Logged, A!Idle, Idle
  <2> QED BY <1>0, <2>1, <2>2, Cleared DEF Typed
<1>2. CASE A!DeleteEip
  <2>1. op.pc = "d_eip" /\ UNCHANGED <<flags, row, inst, started>>
    BY <1>2 DEF A!DeleteEip, A!At
  <2>2. CASE Logged("d_terminate") /\ UNCHANGED <<eip, tagged>>
    BY <1>0, <2>1, <2>2, Cleared DEF Typed
  <2>3. CASE ~ (Logged("d_terminate") /\ UNCHANGED <<eip, tagged>>)
    <3>0. PICK L \in OnePage(tagged) : A!ReleaseAddresses(L, L, "d_terminate")
      <4>1. Eip \cap tagged = tagged
        BY <1>0 DEF Typed
      <4> QED BY <1>2, <2>3, <4>1, SamePages DEF A!DeleteEip, A!Logged, Logged,
            A!ListVpcTagResources
    <3>1. PICK un \in SUBSET L, rel \in SUBSET L :
            /\ eip' = [e \in Eip |-> IF e \in rel THEN "free"
                                     ELSE IF e \in un THEN "spare" ELSE eip[e]]
            /\ tagged' = tagged \ rel
            /\ (rel = L /\ Goto("d_terminate")) \/ Logged("d_terminate")
      BY <3>0 DEF A!ReleaseAddresses, A!Goto, Goto, A!Logged, Logged
    <3>4. L \subseteq tagged /\ (~op.many => L = tagged)
      BY <1>0, <2>1, PageOf DEF DeleteInv
    <3>2. eip' \in [Eip -> Instance \cup {"free", "spare"}] /\ tagged' \subseteq Eip
      BY <1>0, <3>1 DEF Typed
    <3>3. (Goto("d_terminate") /\ (~op.many => tagged' = {})) \/ Logged("d_terminate")
      BY <3>1, <3>4
    <3> QED BY <1>0, <2>1, <3>2, <3>3, Cleared DEF Typed
  <2> QED BY <2>2, <2>3
<1>3. CASE A!DeleteInstances
  <2>1. /\ op.pc = "d_terminate" /\ UNCHANGED <<flags, row, started>>
        /\ \/ op' = Idle /\ UNCHANGED account
           \/ \E ids \in OnePage(inst) : Terminate(ids) /\ (op' = Idle \/ Goto("d_row"))
    BY <1>3, SamePages DEF A!DeleteInstances, A!At, A!Terminate, Terminate, A!Goto, Goto, A!Idle,
         Idle, A!DeleteError, A!account, account, A!ListTagResources
  <2>2. CASE op' = Idle /\ UNCHANGED account
    <3>1. UNCHANGED <<inst, eip, tagged>>
      BY <2>2 DEF account
    <3> QED BY <1>0, <2>1, <2>2, <3>1, Cleared DEF Typed
  <2>3. ASSUME NEW ids \in OnePage(inst), Terminate(ids), op' = Idle \/ Goto("d_row") PROVE Clear
    <3>1. ids \subseteq inst /\ (~op.many => ids = inst)
      BY <1>0, <2>1, PageOf DEF DeleteInv
    <3>2. /\ inst' = inst \ ids /\ tagged' = tagged
          /\ eip' \in [Eip -> Instance \cup {"free", "spare"}]
      BY <1>0, <2>3 DEF Terminate, Typed
    <3>3. inst' \subseteq Instance /\ tagged' \subseteq Eip /\ (Whole => inst' = {})
      BY <1>0, <3>1, <3>2 DEF Typed, Whole
    <3>4. ~op.force /\ ~op.bad /\ ~op.many => tagged' = {}
      BY <1>0, <2>1, <3>2 DEF DeleteInv
    <3> QED BY <1>0, <2>1, <2>3, <3>2, <3>3, <3>4, Cleared
  <2> QED BY <2>1, <2>2, <2>3
<1> QED BY <1>1, <1>2, <1>3

(* Every step of the provider is a step of the common kind.                *)
LEMMA AlibabaEffect ==
  ASSUME Inv, provider = "alibaba", A!Next
  PROVE  Effect
<1>1. CASE A!BaseNext \/ A!CreateCheck \/ A!JoinCheck
  <2>1. A!BaseNext => BaseNext
    <3>1. A!DeleteRequest => DeleteRequest
      BY SamePages DEF A!DeleteRequest, DeleteRequest, A!Start, Start, A!At, At, A!Idle, Idle,
         A!account, account
    <3> QED BY <3>1 DEF A!BaseNext, BaseNext, A!Plugins, Plugins, A!Deferred, Deferred,
          A!DeleteRow, DeleteRow, A!At, At, A!Goto, Goto, A!Fail, Fail, A!Idle, Idle,
          A!account, account
  <2>2. A!CreateCheck => CreateRequest(A!IsClusterExist)
    BY DEF A!CreateCheck, A!CreateRequest, CreateRequest, A!Start, Start, A!At,
       At, A!Idle, Idle, A!account, account
  <2>3. A!JoinCheck => JoinRequest(A!IsClusterExist)
    BY DEF A!JoinCheck, A!JoinRequest, JoinRequest, A!Start, Start, A!At, At,
       A!Idle, Idle, A!account, account, A!MergeConfig, MergeConfig
  <2> QED BY <1>1, <2>1, <2>2, <2>3 DEF Effect
<1>2. CASE A!Install
  <2>1. InstallK3s({})
    BY <1>2 DEF A!Install, A!InstallK3s, InstallK3s, A!At, At, A!Fail, Fail, A!account, account
  <2> QED BY <2>1, InstallStep DEF Effect
<1> QED BY <1>1, <1>2, AlibabaMakes, AlibabaUndoes, AlibabaClears DEF A!Next, Effect

---------------------------------------------------------------------------
(* Tencent. *)

(* generateInstance, where an association may fail unnoticed.              *)
LEMMA TencentMakes ==
  ASSUME Inv, provider = "tencent",
         \/ T!GenerateInstance \/ T!RunMasters \/ T!RunWorkers \/ T!WaitRunning
         \/ T!EipMasters \/ T!EipWorkers \/ T!EipTasks \/ T!AssembleInstanceStatus
  PROVE  Make
<1>0. op.pc \in WorkPC /\ UNCHANGED <<flags, row, started>>
  BY DEF T!GenerateInstance, T!Network, T!RunMasters, T!RunWorkers, T!WaitRunning, T!EipMasters,
         T!EipWorkers, T!EipTasks, T!AssembleInstanceStatus, T!AllocateEip, T!Skip, T!RunInstances,
         T!At, WorkPC
<1>1. CASE T!GenerateInstance \/ T!WaitRunning \/ T!EipTasks
  <2>1. Fail \/ \E l \in WorkPC : Goto(l)
    BY <1>1 DEF T!GenerateInstance, T!Network, T!WaitRunning, T!EipTasks, T!Goto, T!Fail,
         Goto, Fail, WorkPC
  <2>2. UNCHANGED <<inst, eip, tagged>>
    BY <1>1 DEF T!GenerateInstance, T!Network, T!WaitRunning, T!EipTasks, T!account
  <2> QED BY <1>0, <2>1, <2>2, Went
<1>2. ASSUME NEW pool \in {MasterPool, WorkerPool}, NEW n, NEW l \in WorkPC,
             T!RunInstances(pool, n, l)
      PROVE  Make
  <2>1. PICK S \in SUBSET Fresh(pool) :
          /\ Fail \/ op' = [op EXCEPT !.pc = l, !.made = @ \cup S]
          /\ inst' = inst \cup S /\ UNCHANGED <<eip, tagged>>
    BY <1>2 DEF T!RunInstances, T!Fresh, T!Fail, Fresh, Fail
  <2>2. S \in SUBSET (Fresh(MasterPool) \cup Fresh(WorkerPool))
    OBVIOUS
  <2> QED BY <1>0, <2>1, <2>2, Ran
<1>3. ASSUME NEW l \in WorkPC, T!Skip(l) PROVE Make
  <2>1. Goto(l) /\ UNCHANGED <<inst, eip, tagged>>
    BY <1>3 DEF T!Skip, T!Goto, Goto, T!account
  <2> QED BY <1>0, <2>1, Went
<1>4. CASE T!RunMasters \/ T!RunWorkers
  BY <1>2, <1>3, <1>4 DEF T!RunMasters, T!RunWorkers, WorkPC
<1>5. ASSUME NEW k, NEW pool, NEW l \in WorkPC, T!AllocateEip(k, pool, l) PROVE Make
  <2>1. UNCHANGED inst
    BY <1>5 DEF T!AllocateEip
  <2>2. tagged \subseteq Eip
    BY DEF Inv, TypeOK
  <2>3. CASE Goto(l) /\ UNCHANGED <<eip, tagged>>
    BY <1>0, <2>1, <2>3, Went
  <2>4. CASE ~ (Goto(l) /\ UNCHANGED <<eip, tagged>>)
    <3>1. \/ Fail /\ UNCHANGED <<eip, tagged>>
          \/ \E E \in SUBSET FreeEip :
               /\ tagged' = tagged \cup E
               /\ \/ Associate(E, op.made \cap pool, l)
                  \/ Fail /\ eip' = [e \in Eip |-> IF e \in E THEN "spare" ELSE eip[e]]
      BY <1>5, <2>4 DEF T!AllocateEip, T!Goto, Goto, T!Fail, Fail, T!FreeEip, FreeEip,
         T!Associate, Associate
    <3>2. CASE Fail /\ UNCHANGED <<eip, tagged>>
      BY <1>0, <2>1, <3>2, Went
    <3>3. ASSUME NEW E \in SUBSET FreeEip, tagged' = tagged \cup E,
                 \/ Associate(E, op.made \cap pool, l)
                 \/ Fail /\ eip' = [e \in Eip |-> IF e \in E THEN "spare" ELSE eip[e]]
          PROVE  Make
      <4>1. tagged' \subseteq Eip /\ op.made \cap pool \in SUBSET op.made
        BY <2>2, <3>3 DEF FreeEip
      <4> QED BY <1>0, <2>1, <3>3, <4>1, Addressed
    <3> QED BY <3>1, <3>2, <3>3
  <2> QED BY <2>3, <2>4
<1>6. CASE T!EipMasters \/ T!EipWorkers
  BY <1>5, <1>6 DEF T!EipMasters, T!EipWorkers, WorkPC
<1>7. CASE T!AssembleInstanceStatus
  <2>1. op.known \cup op.made \cup inst \in SUBSET Instance
    BY DEF Inv, TypeOK, OpType
  <2>2. \/ Fail
        \/ \E known \in SUBSET Instance : op' = [op EXCEPT !.pc = "k3s", !.known = known]
    BY <1>7, <2>1 DEF T!AssembleInstanceStatus, T!SyncExistNodes, T!DescribeInstances, T!Fail, Fail
  <2>3. UNCHANGED <<inst, eip, tagged>>
    BY <1>7 DEF T!AssembleInstanceStatus, T!account
  <2> QED BY <1>0, <2>2, <2>3, Went
<1> QED BY <1>1, <1>4, <1>6, <1>7

(* rollbackInstance: the addresses of the instances it is asked to end.    *)
LEMMA TencentUndoes ==
  ASSUME Inv, provider = "tencent", T!RollbackEip \/ T!RollbackInstances
  PROVE  Undo
<1>1. CASE T!RollbackInstances
  <2>1. /\ op.pc \in {"rollback", "terminate"} /\ op' = Idle /\ UNCHANGED <<flags, row, started>>
        /\ Terminate(RollbackIds) \/ UNCHANGED account
    BY <1>1 DEF T!RollbackInstances, T!At, T!Idle, Idle, T!TerminateInstances, T!Terminate, Terminate, T!RollbackIds,
         RollbackIds, T!account, account
  <2> QED BY <2>1, Ended
<1>2. CASE T!RollbackEip
  <2>0. op.pc = "rollback" /\ UNCHANGED <<flags, row, inst, started>>
    BY <1>2 DEF T!RollbackEip, T!At
  <2>1. tagged \subseteq Eip /\ eip \in [Eip -> Instance \cup {"free", "spare"}]
    BY DEF Inv, TypeOK
  <2>4. op.errM \subseteq op.made
    BY DEF Inv, PlaceInv
  <2>2. CASE op' = Idle /\ UNCHANGED <<eip, tagged>>
    <3>1. {} \subseteq RollbackIds /\ {} \in SUBSET op.made
      OBVIOUS
    <3> QED BY <2>0, <2>1, <2>2, <3>1, Released
  <2>3. CASE ~ (op' = Idle /\ UNCHANGED <<eip, tagged>>)
    <3>1. PICK E \in SUBSET AddressesOf(RollbackIds) : T!ReleaseAddresses(E, "terminate")
      <4>1. PICK E \in IF flags.eip THEN OnePage(AddressesOf(RollbackIds)) ELSE {{}} :
              T!ReleaseAddresses(E, "terminate")
        BY <1>2, <2>3, SamePages DEF T!RollbackEip, T!Idle, Idle, T!AddressesOf, AddressesOf,
           T!RollbackIds, RollbackIds, T!DescribeAddresses
      <4>2. E \in SUBSET AddressesOf(RollbackIds)
        BY PageOf
      <4> QED BY <4>1, <4>2
    <3>2. PICK un \in SUBSET E, rel \in {{}, E} :
            /\ eip' = [e \in Eip |-> IF e \in rel THEN "free"
                                     ELSE IF e \in un THEN "spare" ELSE eip[e]]
            /\ tagged' = tagged \ rel
            /\ Goto("terminate") \/ Logged("terminate")
      <4>1. PICK un \in SUBSET E :
               \/ /\ eip' = [e \in Eip |-> IF e \in E THEN "free" ELSE eip[e]]
                  /\ tagged' = tagged \ E
                  /\ Goto("terminate")
               \/ /\ eip' = [e \in Eip |-> IF e \in un THEN "spare" ELSE eip[e]]
                  /\ tagged' = tagged
                  /\ Goto("terminate") \/ Logged("terminate")
        BY <3>1 DEF T!ReleaseAddresses, T!Goto, Goto, T!Logged, Logged
      <4>2. CASE tagged' = tagged \ E /\ eip' = [e \in Eip |-> IF e \in E THEN "free" ELSE eip[e]]
        <5>1. eip' = [e \in Eip |-> IF e \in E THEN "free" ELSE IF e \in {} THEN "spare" ELSE eip[e]]
          BY <4>2
        <5> QED BY <4>1, <4>2, <5>1
      <4>3. CASE tagged' = tagged /\ eip' = [e \in Eip |-> IF e \in un THEN "spare" ELSE eip[e]]
        <5>1. /\ eip' = [e \in Eip |-> IF e \in {} THEN "free" ELSE IF e \in un THEN "spare" ELSE eip[e]]
              /\ tagged' = tagged \ {}
          BY <4>3
        <5> QED BY <4>1, <4>3, <5>1
      <4> QED BY <4>1, <4>2, <4>3
    <3>3. /\ eip' \in [Eip -> Instance \cup {"free", "spare"}] /\ tagged' \subseteq Eip
          /\ \A e \in Eip : eip[e] \in Instance \ RollbackIds => eip'[e] = eip[e]
      BY <2>1, <3>2 DEF AddressesOf
    <3>4. RollbackIds \in SUBSET op.made
      BY <2>4 DEF RollbackIds
    <3> QED BY <2>0, <3>2, <3>3, <3>4, Released
  <2> QED BY <2>2, <2>3
<1> QED BY <1>1, <1>2

(* deleteInstance.                                                         *)
LEMMA TencentClears ==
  ASSUME Inv, provider = "tencent", T!DeleteExist \/ T!DeleteEip \/ T!DeleteInstances
  PROVE  Clear
<1>0. Typed /\ DeleteInv /\ op.pc \in {"d_exist", "d_eip", "d_terminate"}
  BY DEF Inv, TypeOK, Typed, T!DeleteExist, T!DeleteEip, T!DeleteInstances, T!At
<1>1. CASE T!DeleteExist
  <2>1. op.pc = "d_exist" /\ UNCHANGED <<flags, row, inst, eip, tagged, started>>
    BY <1>1 DEF T!DeleteExist, T!At, T!account, T!DeleteError
  <2>2. op' = Idle \/ Goto("d_eip") \/ (op.force /\ (Goto("d_row") \/ Logged("d_row")))
    BY <1>1 DEF T!DeleteExist, T!DeleteError, T!Goto, Goto, T!Logged, Logged, T!Idle, Idle
  <2> QED BY <1>0, <2>1, <2>2, Cleared DEF Typed
<1>2. CASE T!DeleteEip
  <2>1. op.pc = "d_eip" /\ UNCHANGED <<flags, row, inst, started>>
    BY <1>2 DEF T!DeleteEip, T!At
  <2>2. CASE Logged("d_terminate") /\ UNCHANGED <<eip, tagged>>
    BY <1>0, <2>1, <2>2, Cleared DEF Typed
  <2>3. CASE ~ (Logged("d_terminate") /\ UNCHANGED <<eip, tagged>>)
    <3>0. PICK rows \in OnePage(inst \cup tagged) :
            T!ReleaseAddresses(rows \cap tagged, "d_terminate")
      BY <1>2, <2>3, SamePages DEF T!DeleteEip, T!Logged, Logged, T!DescribeResourcesByTags
    <3> DEFINE E == rows \cap tagged
    <3>4. E \subseteq tagged /\ (~op.many => E = tagged)
      <4>1. ~op.many => rows = inst \cup tagged
        BY <1>0, <2>1, PageOf DEF DeleteInv
      <4> QED BY <4>1
    <3>5. T!ReleaseAddresses(E, "d_terminate")
      BY <3>0
    <3> HIDE DEF E
    <3>1. PICK un \in SUBSET E :
            \/ /\ eip' = [e \in Eip |-> IF e \in E THEN "free" ELSE eip[e]]
               /\ tagged' = tagged \ E
               /\ Goto("d_terminate")
            \/ /\ eip' = [e \in Eip |-> IF e \in un THEN "spare" ELSE eip[e]]
               /\ tagged' = tagged
               /\ IF E = {} THEN Goto("d_terminate") ELSE Logged("d_terminate")
      BY <3>5 DEF T!ReleaseAddresses, T!Goto, Goto, T!Logged, Logged
    <3>2. eip' \in [Eip -> Instance \cup {"free", "spare"}] /\ tagged' \subseteq Eip
      BY <1>0, <3>1 DEF Typed
    <3>3. (Goto("d_terminate") /\ (~op.many => tagged' = {})) \/ Logged("d_terminate")
      BY <3>1, <3>4
    <3> QED BY <1>0, <2>1, <3>2, <3>3, Cleared DEF Typed
  <2> QED BY <2>2, <2>3
<1>3. CASE T!DeleteInstances
  <2>1. /\ op.pc = "d_terminate" /\ UNCHANGED <<flags, row, started>>
        /\ Terminate(inst) \/ UNCHANGED account
        /\ op' = Idle \/ (Terminate(inst) /\ Goto("d_row"))
    BY <1>3 DEF T!DeleteInstances, T!At, T!TerminateInstances, T!DescribeInstances, T!Terminate, Terminate, T!Goto, Goto, T!Idle, Idle,
         T!DeleteError, T!account, account
  <2>2. Terminate(inst) => inst' = {} /\ tagged' = tagged
                           /\ eip' \in [Eip -> Instance \cup {"free", "spare"}]
    BY <1>0 DEF Terminate, Typed
  <2>3. /\ inst' \subseteq Instance /\ tagged' = tagged
        /\ eip' \in [Eip -> Instance \cup {"free", "spare"}]
    BY <1>0, <2>1, <2>2 DEF Typed, account
  <2>4. ~op.force /\ ~op.bad /\ ~op.many => tagged = {}
    BY <1>0, <2>1 DEF DeleteInv
  <2> QED BY <1>0, <2>1, <2>2, <2>3, <2>4, Cleared DEF Typed
<1> QED BY <1>1, <1>2, <1>3

(* Every step of the provider is a step of the common kind; the panic      *)
(* abandons.                                                               *)
LEMMA TencentEffect ==
  ASSUME Inv, provider = "tencent", T!Next
  PROVE  Effect
<1>1. CASE T!BaseNext \/ T!CreateCheck \/ T!JoinCheck
  <2>1. T!BaseNext => BaseNext
    <3>1. T!DeleteRequest => DeleteRequest
      BY SamePages DEF T!DeleteRequest, DeleteRequest, T!Start, Start, T!At, At, T!Idle, Idle,
         T!account, account
    <3> QED BY <3>1 DEF T!BaseNext, BaseNext, T!Plugins, Plugins, T!Deferred, Deferred,
          T!DeleteRow, DeleteRow, T!At, At, T!Goto, Goto, T!Fail, Fail, T!Idle, Idle,
          T!account, account
  <2>2. T!CreateCheck => CreateRequest(inst # {})
    BY DEF T!CreateCheck, T!CreateRequest, CreateRequest, T!IsClusterExist, T!DescribeInstances, T!Start, Start, T!At,
       At, T!Idle, Idle, T!account, account
  <2>3. T!JoinCheck => JoinRequest(inst # {})
    BY DEF T!JoinCheck, T!JoinRequest, JoinRequest, T!IsClusterExist, T!DescribeInstances, T!Start, Start, T!At, At,
       T!Idle, Idle, T!account, account, T!MergeConfig, MergeConfig
  <2> QED BY <1>1, <2>1, <2>2, <2>3 DEF Effect
<1>2. CASE T!Install
  <2>1. InstallK3s({i \in op.made : ~(flags.eip => HasAddress(i))})
    BY <1>2 DEF T!Install, T!InstallK3s, InstallK3s, T!At, At, T!Fail, Fail, T!account, account,
       T!Reachable, T!HasAddress, HasAddress, T!AddressesOf, AddressesOf
  <2> QED BY <2>1, InstallStep DEF Effect
<1>3. CASE T!InstallPanics
  BY <1>3 DEF T!InstallPanics, Abandon, Effect, T!At, T!Idle, Idle, T!account, Inv, TypeOK
<1> QED BY <1>1, <1>2, <1>3, TencentMakes, TencentUndoes, TencentClears DEF T!Next, Effect

---------------------------------------------------------------------------
(* Google. *)

(* generateInstance: one instance at a time, of which the last may be      *)
(* lost.                                                                   *)
LEMMA GoogleMakes ==
  ASSUME Inv, provider = "google",
         \/ G!GenerateInstance \/ G!StartMasters \/ G!StartWorkers \/ G!SyncInstances
  PROVE  Make \/ Abandon
<1>0. op.pc \in WorkPC /\ UNCHANGED <<flags, row, eip, tagged, started>>
  BY DEF G!GenerateInstance, G!Network, G!StartMasters, G!StartWorkers, G!SyncInstances,
         G!StartInstance, G!At, G!account, WorkPC
<1>1. CASE G!GenerateInstance
  <2>1. (Fail \/ \E l \in WorkPC : Goto(l)) /\ UNCHANGED inst
    BY <1>1 DEF G!GenerateInstance, G!Network, G!Goto, G!Fail, Goto, Fail, WorkPC, G!account
  <2> QED BY <1>0, <2>1, Went
<1>2. ASSUME NEW k, NEW pool \in {MasterPool, WorkerPool}, NEW n, NEW l \in WorkPC,
             G!StartInstance(k, pool, n, l)
      PROVE  Make \/ Abandon
  <2>1. \/ inst' = inst /\ (Fail \/ Goto(l))
        \/ \E i \in Fresh(pool) :
             inst' = inst \cup {i} /\ (Fail \/ op' = [op EXCEPT !.made = @ \cup {i}] \/ op' = Idle)
    BY <1>2 DEF G!StartInstance, G!Goto, Goto, G!Fail, Fail, G!Fresh, Fresh, G!Idle, Idle
  <2>2. CASE inst' = inst /\ (Fail \/ Goto(l))
    BY <1>0, <2>2, Went
  <2>3. ASSUME NEW i \in Fresh(pool), inst' = inst \cup {i},
               Fail \/ op' = [op EXCEPT !.made = @ \cup {i}]
        PROVE  Make
    <3>1. {i} \in SUBSET (Fresh(MasterPool) \cup Fresh(WorkerPool))
      OBVIOUS
    <3>2. op' = [op EXCEPT !.made = @ \cup {i}] => op' = [op EXCEPT !.pc = op.pc, !.made = @ \cup {i}]
      BY DEF Inv, TypeOK, OpType
    <3> QED BY <1>0, <2>3, <3>1, <3>2, Ran
  <2>4. ASSUME NEW i \in Fresh(pool), inst' = inst \cup {i}, op' = Idle PROVE Abandon
    BY <1>0, <2>4 DEF Abandon, Fresh, Instance, Inv, TypeOK
  <2> QED BY <2>1, <2>2, <2>3, <2>4
<1>3. CASE G!StartMasters \/ G!StartWorkers
  BY <1>2, <1>3 DEF G!StartMasters, G!StartWorkers, WorkPC
<1>4. CASE G!SyncInstances
  <2>1. \A found \in SUBSET inst : op.known \cup op.made \cup found \in SUBSET Instance
    BY DEF Inv, TypeOK, OpType
  <2>2. \/ Fail
        \/ \E known \in SUBSET Instance : op' = [op EXCEPT !.pc = "k3s", !.known = known]
    BY <1>4, <2>1 DEF G!SyncInstances, G!SyncExistNodes, G!DescribeInstances, G!OnePage, G!Fail, Fail
  <2>3. UNCHANGED inst
    BY <1>4 DEF G!SyncInstances, G!account
  <2> QED BY <1>0, <2>2, <2>3, Went
<1> QED BY <1>1, <1>3, <1>4

(* remove: it comes to the row with instances left only after a logged     *)
(* error.                                                                  *)
LEMMA GoogleClears ==
  ASSUME Inv, provider = "google", G!RemoveExist \/ G!RemoveInstances
  PROVE  Clear
<1>0. /\ Typed /\ tagged = {} /\ DeleteInv /\ op.pc \in {"d_exist", "d_eip", "d_terminate"}
      /\ UNCHANGED <<flags, row, started>>
  BY DEF Inv, TypeOK, Typed, KindInv, G!RemoveExist, G!RemoveInstances, G!At, G!DeleteError
<1>1. CASE G!RemoveExist
  <2>1. op.pc = "d_exist" /\ UNCHANGED <<inst, eip, tagged>>
    BY <1>1 DEF G!RemoveExist, G!account, G!DeleteError, G!At
  <2>2. op' = Idle \/ Goto("d_terminate") \/ (op.force /\ Goto("d_row"))
    BY <1>1 DEF G!RemoveExist, G!DeleteError, G!Goto, Goto, G!Idle, Idle
  <2> QED BY <1>0, <2>1, <2>2, Cleared DEF Typed
<1>2. CASE G!RemoveInstances
  <2>0. op.pc = "d_terminate"
    BY <1>2 DEF G!RemoveInstances, G!At
  <2>5. PICK ids \in OnePage(inst) : \E S \in SUBSET ids :
          Terminate(S) /\ IF S = ids THEN Goto("d_row") ELSE Logged("d_row")
    BY <1>2, SamePages DEF G!RemoveInstances, G!DescribeInstances, G!Terminate, Terminate, G!Goto,
         Goto, G!Logged, Logged
  <2>1. PICK S \in SUBSET ids :
          Terminate(S) /\ IF S = ids THEN Goto("d_row") ELSE Logged("d_row")
    BY <2>5
  <2>4. ids \subseteq inst /\ (~op.many => ids = inst)
    BY <1>0, <2>0, PageOf DEF DeleteInv
  <2>2. /\ inst' = inst \ S /\ tagged' = tagged
        /\ eip' \in [Eip -> Instance \cup {"free", "spare"}]
    BY <1>0, <2>1 DEF Terminate, Typed
  <2>3. /\ inst' \subseteq Instance /\ tagged' = {}
        /\ (Goto("d_row") /\ (Whole => inst' = {})) \/ Logged("d_row")
    BY <1>0, <2>1, <2>2, <2>4 DEF Typed, Whole
  <2> QED BY <1>0, <2>2, <2>3, Cleared
<1> QED BY <1>1, <1>2

(* Every step of the provider is a step of the common kind.                *)
LEMMA GoogleEffect ==
  ASSUME Inv, provider = "google", G!Next
  PROVE  Effect
<1>1. CASE G!BaseNext \/ G!CreateCheck \/ G!JoinCheck
  <2>1. G!BaseNext => BaseNext
    <3>1. G!DeleteRequest => DeleteRequest
      BY SamePages DEF G!DeleteRequest, DeleteRequest, G!Start, Start, G!At, At, G!Idle, Idle,
         G!account, account
    <3> QED BY <3>1 DEF G!BaseNext, BaseNext, G!Plugins, Plugins, G!Deferred, Deferred,
          G!DeleteRow, DeleteRow, G!At, At, G!Goto, Goto, G!Fail, Fail, G!Idle, Idle,
          G!account, account
  <2>2. G!CreateCheck => CreateRequest(G!IsClusterExist)
    BY DEF G!CreateCheck, G!CreateRequest, CreateRequest,
       G!Start, Start, G!At, At, G!Idle, Idle, G!account, account
  <2>3. G!JoinCheck => JoinRequest(G!IsClusterExist)
    BY DEF G!JoinCheck, G!JoinRequest, JoinRequest, G!Start,
       Start, G!At, At, G!Idle, Idle, G!account, account, G!MergeConfig, MergeConfig
  <2> QED BY <1>1, <2>1, <2>2, <2>3 DEF Effect
<1>2. CASE G!Install
  <2>1. InstallK3s({})
    BY <1>2 DEF G!Install, G!InstallK3s, InstallK3s, G!At, At, G!Fail, Fail, G!account, account
  <2> QED BY <2>1, InstallStep DEF Effect
<1>3. CASE G!RollbackInstance
  <2>1. /\ op.pc \in {"rollback", "terminate"} /\ op' = Idle /\ UNCHANGED <<flags, row, started>>
        /\ \E S \in SUBSET RollbackIds : Terminate(S)
    BY <1>3 DEF G!RollbackInstance, G!At, G!Idle, Idle, G!Terminate, Terminate, G!RollbackIds,
         RollbackIds
  <2> QED BY <2>1, Ended DEF Effect
<1> QED BY <1>1, <1>2, <1>3, GoogleMakes, GoogleClears DEF G!Next, Effect

---------------------------------------------------------------------------
(* K3d. *)

(* createK3d and joinK3d: a join has no node to roll back.                 *)
LEMMA K3dMakes ==
  ASSUME Inv, provider = "k3d", K!WrapCliFlags \/ K!ClusterRun \/ K!JoinK3d \/ K!K3dStatus
  PROVE  Make /\ stopped' \subseteq inst'
<1>0. /\ op.pc \in WorkPC /\ UNCHANGED <<flags, row, eip, tagged, started>>
      /\ op \in OpType /\ stopped \subseteq inst
  BY DEF K!WrapCliFlags, K!ClusterRun, K!JoinK3d, K!K3dStatus, K!At, K!account, WorkPC, Inv, TypeOK
<1>1. CASE K!WrapCliFlags
  <2>1. (Fail \/ \E l \in WorkPC : Goto(l)) /\ UNCHANGED <<inst, stopped>>
    BY <1>1 DEF K!WrapCliFlags, K!Goto, K!Fail, Goto, Fail, WorkPC, K!account
  <2> QED BY <1>0, <2>1, Went
<1>2. CASE K!ClusterRun \/ K!JoinK3d
  <2>1. PICK S \in SUBSET (Fresh(MasterPool) \cup Fresh(WorkerPool)) :
          /\ inst' = inst \cup S
          /\ Fail \/ Goto("assemble")
          /\ stopped' = stopped \/ \E dead \in SUBSET S : stopped' = stopped \cup dead
    <3>1. CASE K!HalfMade
      BY <3>1 DEF K!HalfMade, K!Fail, Fail, K!Fresh, Fresh
    <3>2. CASE ~K!HalfMade
      <4>1. /\ \E S \in K!Nodes(op.nm, op.nw) : inst' = inst \cup S
            /\ Goto("assemble") /\ stopped' = stopped
        BY <1>2, <3>2 DEF K!ClusterRun, K!JoinK3d, K!Goto, Goto
      <4> QED BY <4>1 DEF K!Nodes, K!Fresh, Fresh
    <3> QED BY <3>1, <3>2
  <2>2. stopped' \subseteq inst'
    BY <1>0, <2>1
  <2> QED BY <1>0, <2>1, <2>2, Ran DEF WorkPC
<1>3. CASE K!K3dStatus
  <2>1. UNCHANGED <<inst, stopped>>
    BY <1>3 DEF K!K3dStatus, K!account
  <2>2. CASE Fail
    BY <1>0, <2>1, <2>2, Went
  <2>3. CASE ~Fail
    <3>1. op' = [op EXCEPT !.pc = "k3s", !.known = op.known \cup op.made \cup inst,
                   !.made = IF op.kind = "create" THEN inst ELSE {}]
      BY <1>3, <2>3 DEF K!K3dStatus, K!Fail, Fail, K!SyncExistNodes
    <3>2. /\ op.known \cup op.made \cup inst \in SUBSET Instance
          /\ inst \in SUBSET Instance
      BY <1>0 DEF Inv, TypeOK, OpType
    <3>3. /\ op' \in OpType /\ SameOp /\ op'.errM = op.errM /\ op'.er = op.er /\ op'.pc = "k3s"
          /\ op'.made = IF op.kind = "create" THEN inst ELSE {}
      BY <1>0, <3>1, <3>2 DEF OpType, SameOp
    <3>4. op.kind = "create" => op.old = {}
      BY DEF Inv, PlaceInv
    <3>5. Typed
      BY DEF Inv, TypeOK, Typed
    <3> QED BY <1>0, <2>1, <3>3, <3>4, <3>5 DEF Make, Typed
  <2> QED BY <2>2, <2>3
<1> QED BY <1>1, <1>2, <1>3

(* rollbackK3d and deleteK3d.                                              *)
LEMMA K3dEnds ==
  ASSUME Inv, provider = "k3d", K!RollbackK3d \/ K!DeleteExist \/ K!ClusterDelete
  PROVE  (Undo \/ Clear) /\ stopped' \subseteq inst'
<1>0. Typed /\ tagged = {} /\ UNCHANGED <<flags, row, started>> /\ stopped \subseteq inst
  BY DEF Inv, TypeOK, Typed, KindInv, K!RollbackK3d, K!DeleteExist, K!ClusterDelete
<1>1. ASSUME NEW S \in SUBSET inst, K!Remove(S)
      PROVE  /\ inst' = inst \ S /\ tagged' = tagged /\ stopped' \subseteq inst'
             /\ inst' \subseteq Instance /\ tagged' \subseteq Eip
             /\ eip' \in [Eip -> Instance \cup {"free", "spare"}]
  BY <1>0, <1>1 DEF K!Remove, K!Terminate, Typed
<1>2. CASE K!RollbackK3d
  <2>1. op.pc = "rollback" /\ op' = Idle
    BY <1>2 DEF K!RollbackK3d, K!At, K!Idle, Idle
  <2>2. \/ UNCHANGED <<inst, eip, tagged, stopped>>
        \/ RollbackIds # {} /\ \E S \in SUBSET inst : K!Remove(S)
    BY <1>2 DEF K!RollbackK3d, K!RollbackIds, RollbackIds, K!account
  <2>3. /\ stopped' \subseteq inst' /\ tagged' = tagged /\ Typed'
        /\ RollbackIds = {} => UNCHANGED <<inst, eip>>
    BY <1>0, <1>1, <2>1, <2>2, IdleType DEF Typed
  <2> QED BY <1>0, <2>1, <2>3 DEF Undo
<1>3. CASE K!DeleteExist
  <2>1. op.pc = "d_exist" /\ UNCHANGED <<inst, eip, tagged, stopped>>
    BY <1>3 DEF K!DeleteExist, K!At, K!account
  <2>2. op' = Idle \/ Goto("d_terminate") \/ (op.force /\ Goto("d_row"))
    BY <1>3 DEF K!DeleteExist, K!Goto, Goto, K!Idle, Idle
  <2>3. Clear
    BY <1>0, <2>1, <2>2, Cleared DEF Typed
  <2> QED BY <1>0, <2>1, <2>3
<1>4. CASE K!ClusterDelete
  <2>1. /\ op.pc = "d_terminate"
        /\ (K!Remove(inst) /\ Goto("d_row")) \/ (op' = Idle /\ \E S \in SUBSET inst : K!Remove(S))
    BY <1>4 DEF K!ClusterDelete, K!At, K!Goto, Goto, K!Idle, Idle
  <2>2. PICK S \in SUBSET inst :
          K!Remove(S) /\ (op' = Idle \/ (S = inst /\ Goto("d_row")))
    BY <2>1
  <2>3. op' = Idle \/ (inst' = {} /\ Goto("d_row"))
    BY <1>1, <2>2
  <2>4. Clear
    BY <1>0, <1>1, <2>1, <2>2, <2>3, Cleared
  <2> QED BY <1>1, <2>2, <2>4
<1> QED BY <1>2, <1>3, <1>4

(* Besides, k3d's containers that do not run are containers.               *)
LEMMA K3dEffect ==
  ASSUME Inv, provider = "k3d", K!Next
  PROVE  Effect /\ stopped' \subseteq inst'
<1>0. stopped \subseteq inst /\ op \in OpType
  BY DEF Inv, TypeOK
<1>1. CASE (K!BaseNext /\ UNCHANGED stopped) \/ K!CreateCheck \/ K!JoinCheck
  <2>1. K!BaseNext => BaseNext
    <3>1. K!DeleteRequest => DeleteRequest
      BY SamePages DEF K!DeleteRequest, DeleteRequest, K!Start, Start, K!At, At, K!Idle, Idle,
         K!account, account
    <3> QED BY <3>1 DEF K!BaseNext, BaseNext, K!Plugins, Plugins, K!Deferred, Deferred,
          K!DeleteRow, DeleteRow, K!At, At, K!Goto, Goto, K!Fail, Fail, K!Idle, Idle,
          K!account, account
  <2>2. K!CreateCheck => \E exists : CreateRequest(exists)
    BY DEF K!CreateCheck, K!CreateRequest, CreateRequest, K!Start, Start, K!At,
       At, K!Idle, Idle, K!account, account
  <2>3. K!JoinCheck => \E exists : JoinRequest(exists)
    BY DEF K!JoinCheck, K!JoinRequest, JoinRequest, K!Start, Start, K!At, At,
       K!Idle, Idle, K!account, account, K!MergeConfig, MergeConfig
  <2>4. UNCHANGED <<stopped, inst>>
    BY <1>1 DEF K!CreateCheck, K!JoinCheck, K!BaseNext, K!DeleteRequest, K!Plugins, K!Deferred,
       K!DeleteRow, K!CreateRequest, K!JoinRequest, K!Start, K!account
  <2> QED BY <1>0, <1>1, <2>1, <2>2, <2>3, <2>4 DEF Effect
<1>2. CASE K!ObtainKubeCfg \/ K!AutoJoined
  <2>1. /\ op.pc = "k3s" /\ UNCHANGED <<flags, account, started, stopped>>
        /\ \/ /\ row' = [status |-> "Running", nodes |-> op.known]
              /\ Goto(IF op.kind = "create" THEN "plugins" ELSE "defer")
           \/ Fail /\ row' = row
    BY <1>2 DEF K!ObtainKubeCfg, K!AutoJoined, K!At, K!Goto, Goto, K!Fail, Fail, K!account, account
  <2>2. CASE Fail /\ row' = row
    <3>1. op.errM = {}
      BY DEF Inv, KindInv
    <3> QED BY <1>0, <2>1, <2>2, <3>1, FailOp DEF Installed, Effect, account
  <2>3. CASE ~ (Fail /\ row' = row)
    <3> DEFINE l == IF op.kind = "create" THEN "plugins" ELSE "defer"
    <3>1. l \in WorkPC \cup EndPC \cup DeletePC
      BY DEF EndPC
    <3>2. Goto(l)
      BY <2>1, <2>3
    <3> HIDE DEF l
    <3>3. /\ op' \in OpType /\ op'.pc = l /\ SameOp
          /\ op'.made = op.made /\ op'.errM = op.errM /\ op'.er = op.er
      BY <1>0, <3>1, <3>2, GotoOp
    <3>4. op.errM = {}
      BY DEF Inv, KindInv
    <3>5. Installed
      BY <2>1, <2>3, <3>3, <3>4 DEF Installed, l
    <3> QED BY <1>0, <2>1, <3>5 DEF Effect, account
  <2> QED BY <2>2, <2>3
<1>3. CASE K!Docker
  <2>1. UNCHANGED vars /\ stopped' \in {{}, inst} /\ inst' = inst
    BY <1>3 DEF K!Docker, K!vars, K!account, vars, account
  <2> QED BY <2>1 DEF Effect
<1> QED BY <1>1, <1>2, <1>3, K3dMakes, K3dEnds DEF K!Next, Effect

---------------------------------------------------------------------------
(* The theorems. *)

(* The invariant holds at the start, on every provider,                    *)
LEMMA InitInv == Init => Inv
<1> SUFFICES ASSUME Init PROVE Inv
  OBVIOUS
<1>1. /\ provider \in {"alibaba", "tencent", "google", "k3d"} /\ stopped = {}
      /\ flags \in [eip : BOOLEAN, rollback : BOOLEAN, internal : BOOLEAN] /\ row = NoRow /\ inst = {}
      /\ eip = [e \in Eip |-> "free"] /\ tagged = {} /\ op = Idle /\ started = 0
  BY DEF Init, A!Init, T!Init, G!Init, K!Init, A!BaseInit, T!BaseInit, G!BaseInit, K!BaseInit,
         A!Idle, T!Idle, G!Idle, K!Idle, Idle
<1>2. TypeOK
  BY <1>1, IdleType, AskAssumption DEF TypeOK
<1>3. PlaceInv
  BY <1>1, IdleFields DEF PlaceInv, WorkPC, EndPC, DeletePC
<1>4. RowInv /\ KindInv /\ DeleteInv
  BY <1>1, IdleFields DEF RowInv, KindInv, DeleteInv, WorkPC
<1> QED BY <1>2, <1>3, <1>4 DEF Inv

(* A step, of whichever provider, is one of the steps above.               *)
LEMMA StepEffect ==
  ASSUME Inv, [Next]_allVars
  PROVE  /\ Effect /\ UNCHANGED provider /\ stopped' \subseteq inst'
         /\ provider # "k3d" => stopped' = stopped
<1>1. stopped \subseteq inst /\ (provider # "k3d" => stopped = {})
  BY DEF Inv, TypeOK, KindInv
<1>2. CASE UNCHANGED allVars
  BY <1>1, <1>2 DEF allVars, Effect, vars, account
<1>3. CASE Next
  <2>1. UNCHANGED provider
    BY <1>3 DEF Next
  <2>2. CASE provider = "k3d" /\ K!Next
    BY <2>1, <2>2, K3dEffect
  <2>3. CASE ~ (provider = "k3d" /\ K!Next)
    <3>1. /\ UNCHANGED stopped /\ provider # "k3d"
          /\ \/ provider = "alibaba" /\ A!Next
             \/ provider = "tencent" /\ T!Next
             \/ provider = "google" /\ G!Next
      BY <1>3, <2>3 DEF Next
    <3> QED BY <1>1, <2>1, <3>1, AlibabaEffect, TencentEffect, GoogleEffect
  <2> QED BY <2>2, <2>3
<1> QED BY <1>2, <1>3

(* hence in every state.                                                   *)
LEMMA Invariance == Spec => []Inv
<1>1. Inv /\ [Next]_allVars => Inv'
  BY StepEffect, EffectInv
<1> QED BY InitInv, <1>1, PTL DEF Spec

(* The type invariant.                                                     *)
THEOREM TypeCorrect == Spec => []TypeOK
<1>1. Inv => TypeOK
  BY DEF Inv
<1> QED BY Invariance, <1>1, PTL

(* What a request or the base does: no instance, no address changes.       *)
LEMMA BaseAccount ==
  ASSUME (\E exists : CreateRequest(exists) \/ JoinRequest(exists)) \/ BaseNext
  PROVE  /\ UNCHANGED <<flags, inst, eip, tagged>>
         /\ op.pc = "idle" \/ Plugins \/ Deferred \/ DeleteRow
BY DEF CreateRequest, JoinRequest, BaseNext, DeleteRequest, Start, At, Plugins, Deferred, DeleteRow,
       account

(* Nothing that a join or its rollback does, on any provider and whatever  *)
(* fails, takes an instance or an address from the nodes that the cluster  *)
(* had before (generateInstance, RollbackCluster, rollbackInstance,        *)
(* rollbackK3d).                                                           *)
THEOREM JoinsKeep == Spec => JoinKeepsCluster
<1>1. ASSUME Inv, [Next]_allVars, op.kind = "join"
      PROVE  op.old \cap inst \subseteq inst' /\ \A e \in AddressesOf(op.old) : eip'[e] = eip[e]
  <2>0. /\ Effect /\ PlaceInv /\ KindInv /\ op.old \subseteq Instance
        /\ op.pc # "idle" /\ op.pc \notin DeletePC
    BY <1>1, StepEffect, IdleFields DEF Inv, TypeOK, OpType, PlaceInv
  <2>1. CASE UNCHANGED <<inst, eip>>
    BY <2>1 DEF AddressesOf
  <2>2. CASE (\E exists : CreateRequest(exists) \/ JoinRequest(exists)) \/ BaseNext
    BY <2>1, <2>2, BaseAccount
  <2>3. CASE Make
    BY <2>0, <2>3 DEF Make, AddressesOf
  <2>4. CASE Undo
    <3>1. RollbackIds \cap op.old = {} /\ op.made \cap op.old = {}
      BY <2>0 DEF PlaceInv, RollbackIds
    <3>2. CASE provider = "k3d"
      <4>1. RollbackIds = {}
        BY <1>1, <2>0, <3>2 DEF KindInv, RollbackIds
      <4> QED BY <2>1, <2>4, <3>2, <4>1 DEF Undo
    <3>3. CASE provider # "k3d"
      <4>1. /\ inst \ RollbackIds \subseteq inst'
            /\ \A e \in Eip : eip[e] \in Instance \ op.made => eip'[e] = eip[e]
        BY <2>4, <3>3 DEF Undo
      <4> QED BY <2>0, <3>1, <4>1 DEF AddressesOf
    <3> QED BY <3>2, <3>3
  <2>5. CASE Clear
    BY <2>0, <2>5 DEF Clear, DeletePC
  <2> QED BY <2>0, <2>1, <2>2, <2>3, <2>4, <2>5 DEF Effect, Installed, Abandon, vars, account
<1>2. ASSUME Inv, [Next]_allVars
      PROVE  [op.kind = "join" =>
                /\ op.old \cap inst \subseteq inst'
                /\ \A e \in AddressesOf(op.old) : eip'[e] = eip[e]]_allVars
  BY <1>1, <1>2
<1> QED BY Invariance, <1>2, PTL DEF Spec, JoinKeepsCluster

(* The nodes that an operation leaves in a Running row can be used, on     *)
(* every provider: the rollback of the workers that failed touches no      *)
(* other node (Deferred, RollbackCluster, rollbackInstance).               *)
THEOREM AddedUsable == Spec => AddedNodesUsable
<1>1. ASSUME Inv, [Next]_allVars, ~At("idle"), op'.pc = "idle", row' # NoRow,
             row'.status = "Running", NEW i \in row'.nodes \cap op.made
      PROVE  i \in inst' /\ (provider = "tencent" /\ flags.eip => \E e \in Eip : eip'[e] = i)
  <2>0. /\ Effect /\ PlaceInv /\ RowInv /\ KindInv /\ op.pc # "idle"
        /\ op.er \in BOOLEAN /\ inst \subseteq Instance
    BY <1>1, StepEffect DEF Inv, TypeOK, OpType, At
  <2>1. ASSUME Usable(i), UNCHANGED <<inst, eip>>
        PROVE  i \in inst' /\ (provider = "tencent" /\ flags.eip => \E e \in Eip : eip'[e] = i)
    BY <2>1 DEF Usable, HasAddress, AddressesOf
  <2>2. CASE (\E exists : CreateRequest(exists) \/ JoinRequest(exists)) \/ BaseNext
    <3>1. UNCHANGED <<inst, eip>> /\ (Plugins \/ Deferred \/ DeleteRow)
      BY <2>0, <2>2, BaseAccount
    <3>2. CASE Plugins
      BY <1>1, <3>2 DEF Plugins, Goto, Fail, Inv, TypeOK, OpType
    <3>3. CASE DeleteRow
      BY <1>1, <3>3 DEF DeleteRow
    <3>4. CASE Deferred
      <4>1. op.pc = "defer"
        BY <3>4 DEF Deferred, At
      <4>2. CASE op.er = FALSE
        <5>1. i \notin op.errM
          BY <1>1, <3>4, <4>2 DEF Deferred
        <5>2. Usable(i)
          BY <1>1, <2>0, <4>1, <4>2, <5>1 DEF RowInv
        <5> QED BY <2>1, <3>1, <5>2
      <4>3. CASE op.er = TRUE
        <5>1. op.kind = "join" /\ i \in row.nodes
          BY <1>1, <3>4, <4>3 DEF Deferred
        <5>2. i \in op.old /\ op.made \cap op.old = {}
          BY <2>0, <4>1, <4>3, <5>1 DEF RowInv, PlaceInv
        <5> QED BY <1>1, <5>2
      <4> QED BY <2>0, <4>2, <4>3
    <3> QED BY <3>1, <3>2, <3>3, <3>4
  <2>3. CASE Make \/ Installed
    <3>1. op'.pc # "idle"
      BY <2>3 DEF Make, Installed, WorkPC
    <3> QED BY <1>1, <3>1
  <2>4. CASE Abandon
    <3>1. row.status # "Running" /\ row' = row
      BY <2>0, <2>4 DEF Abandon, RowInv
    <3> QED BY <1>1, <3>1
  <2>5. CASE Undo
    <3>1. /\ Usable(i) /\ i \notin RollbackIds /\ (provider = "k3d" => RollbackIds = {})
      BY <1>1, <2>0, <2>5 DEF Undo, RowInv
    <3>2. CASE provider = "k3d"
      BY <2>1, <2>5, <3>1, <3>2 DEF Undo
    <3>3. CASE provider # "k3d"
      <4>1. i \in inst' /\ i \in Instance \ RollbackIds
        BY <2>0, <2>5, <3>1, <3>3 DEF Undo, Usable
      <4>2. provider = "tencent" /\ flags.eip => \E e \in Eip : eip[e] = i /\ eip'[e] = i
        BY <2>5, <3>1, <4>1 DEF Undo, Usable, HasAddress, AddressesOf
      <4> QED BY <4>1, <4>2
    <3> QED BY <3>2, <3>3
  <2>6. CASE Clear
    <3>1. op.made = {}
      BY <2>0, <2>6 DEF Clear, PlaceInv, DeletePC
    <3> QED BY <1>1, <3>1
  <2>7. CASE UNCHANGED vars
    BY <1>1, <2>0, <2>7 DEF vars
  <2> QED BY <2>0, <2>2, <2>3, <2>4, <2>5, <2>6, <2>7 DEF Effect
<1>2. ASSUME Inv, [Next]_allVars
      PROVE  [~At("idle") /\ op'.pc = "idle" /\ row' # NoRow /\ row'.status = "Running" =>
                \A i \in row'.nodes \cap op.made :
                  /\ i \in inst'
                  /\ provider = "tencent" /\ flags.eip => \E e \in Eip : eip'[e] = i]_allVars
  BY <1>1, <1>2
<1> QED BY Invariance, <1>2, PTL DEF Spec, AddedNodesUsable

(* Only the end of a delete gives up the row.                              *)
LEMMA OnlyDeleteRow ==
  ASSUME Inv, [Next]_allVars, Removed
  PROVE  op.pc = "d_row" /\ UNCHANGED <<inst, eip, tagged>> /\ ~op.force
<1>0. Effect /\ Inv' /\ row # NoRow /\ row' = NoRow /\ ~op.force
  BY StepEffect, EffectInv DEF Removed
<1>1. op'.pc = "idle"
  BY <1>0 DEF Inv, PlaceInv
<1>2. CASE (\E exists : CreateRequest(exists) \/ JoinRequest(exists)) \/ BaseNext
  <2>1. ~ \E exists : CreateRequest(exists) \/ JoinRequest(exists)
    BY <1>1 DEF CreateRequest, JoinRequest, Start, Idle
  <2>2. ~DeleteRequest
    BY <1>1 DEF DeleteRequest, Start, Idle
  <2>3. ~Plugins
    BY <1>0 DEF Plugins
  <2>4. ~Deferred
    <3>1. SUFFICES ASSUME Deferred PROVE FALSE
      OBVIOUS
    <3>2. row \in RowType /\ op.errM \subseteq op.made /\ op.made \subseteq Instance /\ op.er \in BOOLEAN
      BY <1>0 DEF Inv, TypeOK, PlaceInv, OpType
    <3>3. row' \in RowType
      BY <1>0, <3>1, <3>2 DEF Deferred, RowType
    <3> QED BY <1>0, <3>3, NoRowAssumption
  <2> QED BY <1>0, <1>2, <2>1, <2>2, <2>3, <2>4 DEF BaseNext, DeleteRow, At, account
<1>3. CASE Installed
  <2>1. op'.pc # "idle"
    BY <1>3 DEF Installed
  <2> QED BY <1>1, <2>1
<1> QED BY <1>0, <1>2, <1>3 DEF Effect, Make, Abandon, Undo, Clear, vars

(* On Alibaba, Tencent and k3d the row goes last: a delete without force   *)
(* gives it up only when no instance is left, on Alibaba when the cluster  *)
(* fits one answer of ListTagResources (deleteInstance, deleteK3d).        *)
THEOREM RowGoesLast == Spec => RemovedMeansEnded
<1>1. ASSUME Inv, [Next]_allVars
      PROVE  [Removed /\ provider # "google" /\ (provider = "alibaba" => ~op.many) =>
                inst' = {}]_allVars
  <2>1. ASSUME Removed, provider # "google", provider = "alibaba" => ~op.many PROVE inst' = {}
    <3>1. Whole
      BY <1>1, <2>1 DEF Whole, Inv, TypeOK
    <3> QED BY <1>1, <2>1, <3>1, OnlyDeleteRow DEF Inv, DeleteInv
  <2> QED BY <2>1
<1> QED BY Invariance, <1>1, PTL DEF Spec, RemovedMeansEnded

(* A delete whose calls all succeed finds by the tags what earlier         *)
(* operations left behind, and leaves nothing, if what carries the tags    *)
(* fits one page (releaseEipAddresses, deleteInstance, remove).            *)
THEOREM DeletesClean == Spec => CleanDelete
<1>1. ASSUME Inv, [Next]_allVars
      PROVE  [Removed /\ ~op.bad /\ (provider = "k3d" \/ ~op.many) =>
                inst' = {} /\ \A e \in tagged : eip'[e] = "free"]_allVars
  <2>1. ASSUME Removed, ~op.bad, provider = "k3d" \/ ~op.many PROVE inst' = {} /\ tagged = {}
    <3>1. Whole
      BY <2>1 DEF Whole
    <3> QED BY <1>1, <2>1, <3>1, OnlyDeleteRow DEF Inv, DeleteInv, KindInv
  <2> QED BY <2>1
<1> QED BY Invariance, <1>1, PTL DEF Spec, CleanDelete
=============================================================================
