------------------------- MODULE CloudNetworkProofs -------------------------
(* Proofs about CloudNetwork, for any clusters, zones and ids and any      *)
(* number of set-ups.                                                      *)
EXTENDS CloudNetwork, FiniteSetTheorems, TLAPS

(***************************************************************************)
(* The inductive invariant.                                                *)
(***************************************************************************)
Early == {"vpc", "make_vpc", "subnet", "make_subnet"}

(* What the provider object of a cluster holds at each step: what it has   *)
(* chosen exists in the cloud, and it is chosen before it is used.         *)
HoldsInv(c) ==
  /\ setup[c].vpc # None => setup[c].vpc \in vpcs
  /\ setup[c].group # None => \E g \in groups : g.id = setup[c].group
  /\ setup[c].pc \in Early => setup[c].subnet = None /\ provider \in {"alibaba", "tencent"}
  /\ setup[c].pc \in {"subnet", "make_subnet"} => setup[c].vpc # None
  /\ setup[c].pc \in Early \cup {"group", "make_group"} =>
       setup[c].group = None /\ setup[c].seen = {}
  /\ setup[c].pc \in {"group", "make_group", "rules", "add", "done"} /\ provider # "google" =>
       setup[c].subnet # None
  /\ setup[c].pc \in {"rules", "done"} => setup[c].group # None
  /\ setup[c].pc = "add" /\ provider # "google" => setup[c].group # None

(* The subnet it has chosen; but for Tencent it was looked for in the VPC. *)
ChosenInv(c) ==
  setup[c].subnet # None =>
    /\ setup[c].vpc # None
    /\ \E s \in subnets : s.id = setup[c].subnet
                         /\ (provider # "tencent" => s.vpc = setup[c].vpc)

(* As long as set-ups follow each other, what one has not found is still   *)
(* not there when it makes it, and what it has read is still so.           *)
ReadInv(c) ==
  alone =>
    /\ setup[c].pc = "make_vpc" => vpcs = {}
    /\ setup[c].pc = "make_subnet" => \A s \in subnets : s.zone # setup[c].zone
    /\ provider = "google" /\ setup[c].pc = "add" /\ setup[c].group # None =>
         setup[c].seen = rules[setup[c].group]

(* Rules are never removed, except that Update of Google writes back what  *)
(* was read: what a set-up has seen is there when it adds the rest.        *)
SeenInv(c) ==
  provider # "google" /\ setup[c].group # None => setup[c].seen \subseteq rules[setup[c].group]

Needed(c) == Common(c) \cup
             (IF setup[c].ha /\ provider \in {"tencent", "google"} THEN Etcd ELSE {})

DoneInv(c) ==
  At(c, "done") /\ ~setup[c].lost /\ (provider = "google" => alone) =>
    \A p \in Needed(c) : Open(c, p)

ClusterInv(c) == HoldsInv(c) /\ ChosenInv(c) /\ ReadInv(c) /\ SeenInv(c) /\ DoneInv(c)

(* Subnets have ids of their own and lie in a VPC of the account; a rule   *)
(* for a port other than those of etcd is open to all (Google writes none  *)
(* with another source either, but this is not needed); Tencent's VPCs     *)
(* have their tag from the start.                                          *)
CloudInv ==
  /\ \A s, t \in subnets : s.id = t.id => s = t
  /\ \A s \in subnets : s.vpc \in vpcs
  /\ provider # "google" => \A g \in Group : \A r \in rules[g] : r[1] \notin Etcd => r[2] = "any"
  /\ provider = "tencent" => labelled = vpcs

(* Set-ups that follow each other make one VPC, and one subnet in a zone.  *)
OnceInv ==
  alone => /\ provider \in {"alibaba", "tencent"} => \A v, w \in vpcs : v = w
           /\ \A s, t \in subnets : s.zone = t.zone => s = t

AloneInv == alone => \A c, d \in Cluster : InProgress(c) /\ InProgress(d) => c = d

IInv == /\ TypeOK /\ CloudInv /\ OnceInv /\ AloneInv
        /\ \A c \in Cluster : ClusterInv(c)

(***************************************************************************)
(* What a step does to the set-up of its cluster.                          *)
(***************************************************************************)
PC == {"idle", "vpc", "make_vpc", "subnet", "make_subnet", "group",
       "make_group", "rules", "add", "done", "failed"}

(* The set-up of c is at l and holds the given values, and has the options *)
(* it had; those of the other clusters are as they were.                   *)
Changed(c, l, v, sn, g, R, x) ==
  /\ setup' \in [Cluster -> SetupType]
  /\ \A d \in Cluster : d # c => setup'[d] = setup[d]
  /\ setup'[c].pc = l /\ setup'[c].vpc = v /\ setup'[c].subnet = sn
  /\ setup'[c].group = g /\ setup'[c].seen = R /\ setup'[c].lost = x
  /\ setup'[c].zone = setup[c].zone
  /\ setup'[c].ha = setup[c].ha /\ setup'[c].vxlan = setup[c].vxlan

(* It only goes to l.                                                      *)
Moves(c, l) == Changed(c, l, setup[c].vpc, setup[c].subnet, setup[c].group, setup[c].seen,
                       setup[c].lost)

(* A set-up that goes to its next call.                                    *)
LEMMA MoveSetup ==
  ASSUME TypeOK, NEW c \in Cluster, NEW l \in PC, Goto(c, l)
  PROVE  Moves(c, l)
  BY DEF TypeOK, SetupType, Goto, Changed, Moves, PC

(* A set-up that has found or made its VPC,                                *)
LEMMA SetVpc ==
  ASSUME TypeOK, NEW c \in Cluster, NEW l \in PC, NEW v \in Vpc,
         setup' = [setup EXCEPT ![c].vpc = v, ![c].pc = l]
  PROVE  Changed(c, l, v, setup[c].subnet, setup[c].group, setup[c].seen, setup[c].lost)
<1> DEFINE n == [setup[c] EXCEPT !.vpc = v, !.pc = l]
<1>1. setup \in [Cluster -> SetupType]
  BY DEF TypeOK
<1>2. n \in SetupType
  BY <1>1 DEF SetupType, PC
<1>3. setup' = [setup EXCEPT ![c] = n]
  BY <1>1
<1> QED BY <1>1, <1>2, <1>3 DEF SetupType, Changed

(* its subnet,                                                             *)
LEMMA SetSubnet ==
  ASSUME TypeOK, NEW c \in Cluster, NEW l \in PC, NEW sn \in Subnet,
         setup' = [setup EXCEPT ![c].subnet = sn, ![c].pc = l]
  PROVE  Changed(c, l, setup[c].vpc, sn, setup[c].group, setup[c].seen, setup[c].lost)
<1> DEFINE n == [setup[c] EXCEPT !.subnet = sn, !.pc = l]
<1>1. setup \in [Cluster -> SetupType]
  BY DEF TypeOK
<1>2. n \in SetupType
  BY <1>1 DEF SetupType, PC
<1>3. setup' = [setup EXCEPT ![c] = n]
  BY <1>1
<1> QED BY <1>1, <1>2, <1>3 DEF SetupType, Changed

(* its group,                                                              *)
LEMMA SetGroup ==
  ASSUME TypeOK, NEW c \in Cluster, NEW l \in PC, NEW g \in Group,
         setup' = [setup EXCEPT ![c].group = g, ![c].pc = l]
  PROVE  Changed(c, l, setup[c].vpc, setup[c].subnet, g, setup[c].seen, setup[c].lost)
<1> DEFINE n == [setup[c] EXCEPT !.group = g, !.pc = l]
<1>1. setup \in [Cluster -> SetupType]
  BY DEF TypeOK
<1>2. n \in SetupType
  BY <1>1 DEF SetupType, PC
<1>3. setup' = [setup EXCEPT ![c] = n]
  BY <1>1
<1> QED BY <1>1, <1>2, <1>3 DEF SetupType, Changed

(* that has read the rules of the group,                                   *)
LEMMA SetSeen ==
  ASSUME TypeOK, NEW c \in Cluster, NEW l \in PC, NEW R \in SUBSET Rule,
         setup' = [setup EXCEPT ![c].seen = R, ![c].pc = l]
  PROVE  Changed(c, l, setup[c].vpc, setup[c].subnet, setup[c].group, R, setup[c].lost)
<1> DEFINE n == [setup[c] EXCEPT !.seen = R, !.pc = l]
<1>1. setup \in [Cluster -> SetupType]
  BY DEF TypeOK
<1>2. n \in SetupType
  BY <1>1 DEF SetupType, PC
<1>3. setup' = [setup EXCEPT ![c] = n]
  BY <1>1
<1> QED BY <1>1, <1>2, <1>3 DEF SetupType, Changed

(* that has found the group together with its rules,                       *)
LEMMA SetGroupSeen ==
  ASSUME TypeOK, NEW c \in Cluster, NEW l \in PC, NEW g \in Group, NEW R \in SUBSET Rule,
         TakeGroup(c, g, R, l)
  PROVE  Changed(c, l, setup[c].vpc, setup[c].subnet, g, R, setup[c].lost)
<1> DEFINE n == [setup[c] EXCEPT !.group = g, !.seen = R, !.pc = l]
<1>1. setup \in [Cluster -> SetupType]
  BY DEF TypeOK
<1>2. n \in SetupType
  BY <1>1 DEF SetupType, PC
<1>3. setup' = [setup EXCEPT ![c] = n]
  BY <1>1 DEF TakeGroup
<1> QED BY <1>1, <1>2, <1>3 DEF SetupType, Changed

(* or whose call to add a rule has failed.                                 *)
LEMMA SetLost ==
  ASSUME TypeOK, NEW c \in Cluster, NEW l \in PC, NEW x \in BOOLEAN,
         setup' = [setup EXCEPT ![c].pc = l, ![c].lost = x]
  PROVE  Changed(c, l, setup[c].vpc, setup[c].subnet, setup[c].group, setup[c].seen, x)
<1> DEFINE n == [setup[c] EXCEPT !.pc = l, !.lost = x]
<1>1. setup \in [Cluster -> SetupType]
  BY DEF TypeOK
<1>2. n \in SetupType
  BY <1>1 DEF SetupType, PC
<1>3. setup' = [setup EXCEPT ![c] = n]
  BY <1>1
<1> QED BY <1>1, <1>2, <1>3 DEF SetupType, Changed

(***************************************************************************)
(* What no step disturbs.                                                  *)
(***************************************************************************)

(* The cloud only grows: but for Google's firewall when set-ups overlap,   *)
(* the rules of the groups too.                                            *)
Grows ==
  /\ vpcs \subseteq vpcs' /\ subnets \subseteq subnets' /\ groups \subseteq groups'
  /\ provider # "google" \/ alone =>
       \A g \in groups : rules[g.id] \subseteq rules'[g.id]

(* The invariant of a cluster whose set-up does not take the step. *)
LEMMA OtherCluster ==
  ASSUME IInv, NEW d \in Cluster, setup'[d] = setup[d], provider' = provider, Grows,
         alone' => alone /\ ~InProgress(d)
  PROVE  ClusterInv(d)'
<1> USE DEF IInv, ClusterInv
<1>1. HoldsInv(d)'
  BY DEF HoldsInv, Grows
<1>2. ChosenInv(d)'
  BY DEF ChosenInv, Grows
<1>3. ReadInv(d)'
  BY DEF ReadInv, InProgress
<1>4. SeenInv(d)'
  BY DEF SeenInv, HoldsInv, Grows
<1>5. DoneInv(d)'
  <2> SUFFICES ASSUME At(d, "done")', ~setup'[d].lost, provider' = "google" => alone',
                      NEW p \in Needed(d)'
               PROVE  Open(d, p)'
    BY DEF DoneInv
  <2>1. p \in Needed(d) /\ At(d, "done") /\ (provider = "google" => alone)
    BY DEF Needed, Common, At
  <2>2. Open(d, p) /\ \E g \in groups : g.id = setup[d].group
    BY <2>1 DEF DoneInv, HoldsInv, At
  <2> QED BY <2>1, <2>2 DEF Open, Grows
<1> QED BY <1>1, <1>2, <1>3, <1>4, <1>5

(* A step of a set-up under way keeps the invariant if it does so for the  *)
(* cloud and for its own cluster. *)
LEMMA OwnStep ==
  ASSUME IInv, NEW c \in Cluster, InProgress(c), Stays, Grows, TypeOK', CloudInv', OnceInv',
         \A d \in Cluster : d # c => setup'[d] = setup[d],
         ClusterInv(c)'
  PROVE  IInv'
<1>1. AloneInv'
  BY DEF IInv, AloneInv, InProgress, Stays
<1>2. ASSUME NEW d \in Cluster, d # c PROVE ClusterInv(d)'
  <2>1. alone' => alone /\ ~InProgress(d)
    BY <1>2 DEF IInv, AloneInv, Stays
  <2> QED BY <1>2, <2>1, OtherCluster DEF Stays
<1> QED BY <1>1, <1>2 DEF IInv

(* A step that leaves the cloud alone and does not end the set-up. *)
LEMMA QuietStep ==
  ASSUME IInv, NEW c \in Cluster, InProgress(c), Stays, UNCHANGED cloud,
         NEW l \in PC \ {"done"}, NEW v, NEW sn, NEW g, NEW R, NEW x, Changed(c, l, v, sn, g, R, x),
         HoldsInv(c)', ChosenInv(c)', ReadInv(c)', SeenInv(c)'
  PROVE  IInv'
<1>1. Grows
  BY DEF Grows, cloud
<1>2. TypeOK' /\ CloudInv' /\ OnceInv'
  BY DEF IInv, TypeOK, CloudInv, OnceInv, Stays, cloud, Changed
<1>3. DoneInv(c)'
  BY DEF DoneInv, At, Changed
<1>4. \A d \in Cluster : d # c => setup'[d] = setup[d]
  BY DEF Changed
<1> QED BY <1>1, <1>2, <1>3, <1>4, OwnStep DEF ClusterInv

(* A call that fails ends the set-up. *)
LEMMA FailStep ==
  ASSUME IInv, NEW c \in Cluster, InProgress(c), Goto(c, "failed"), UNCHANGED cloud, Stays
  PROVE  IInv'
<1>1. Moves(c, "failed")
  BY MoveSetup DEF PC, IInv
<1>2. HoldsInv(c)' /\ ChosenInv(c)' /\ ReadInv(c)' /\ SeenInv(c)'
  BY <1>1 DEF IInv, ClusterInv, HoldsInv, ChosenInv, ReadInv, SeenInv, Moves, Changed, cloud, Stays,
              Early
<1> QED BY <1>1, <1>2, QuietStep DEF Moves, PC

(***************************************************************************)
(* VPC and subnet.                                                         *)
(***************************************************************************)

(* DescribeVpcs finds the VPC, or says that there is none. *)
LEMMA FindVpcStep ==
  ASSUME IInv, NEW c \in Cluster, FindVpc(c) \/ FindVpcTencent(c)
  PROVE  IInv'
<1>1. /\ setup[c].pc = "vpc" /\ UNCHANGED cloud /\ Stays /\ TypeOK /\ ClusterInv(c)
      /\ provider \in {"alibaba", "tencent"}
  BY DEF FindVpc, FindVpcTencent, IInv, At
<1>2. InProgress(c)
  BY <1>1 DEF InProgress
<1>3. \/ \E v \in vpcs : setup' = [setup EXCEPT ![c].vpc = v, ![c].pc = "subnet"]
      \/ vpcs = {} /\ Goto(c, "make_vpc")
      \/ Goto(c, "failed")
  BY DEF FindVpc, FindVpcTencent, IInv, CloudInv
<1>4. ASSUME NEW v \in vpcs, setup' = [setup EXCEPT ![c].vpc = v, ![c].pc = "subnet"]
      PROVE  IInv'
  <2>1. Changed(c, "subnet", v, setup[c].subnet, setup[c].group, setup[c].seen, setup[c].lost)
    BY <1>1, <1>4, SetVpc DEF PC, TypeOK
  <2>2. v # None
    BY <1>1, NoneAssumption DEF TypeOK
  <2>3. HoldsInv(c)' /\ ChosenInv(c)' /\ ReadInv(c)' /\ SeenInv(c)'
    BY <1>1, <2>1, <2>2 DEF ClusterInv, HoldsInv, ChosenInv, ReadInv, SeenInv, Changed, cloud, Stays,
                            Early
  <2> QED BY <1>1, <1>2, <2>1, <2>3, QuietStep DEF PC
<1>5. ASSUME vpcs = {}, Goto(c, "make_vpc") PROVE IInv'
  <2>1. Moves(c, "make_vpc")
    BY <1>1, <1>5, MoveSetup DEF PC
  <2>2. HoldsInv(c)' /\ ChosenInv(c)' /\ ReadInv(c)' /\ SeenInv(c)'
    BY <1>1, <1>5, <2>1 DEF ClusterInv, HoldsInv, ChosenInv, ReadInv, SeenInv, Moves, Changed, cloud,
                            Stays, Early
  <2> QED BY <1>1, <1>2, <2>1, <2>2, QuietStep DEF PC, Moves
<1> QED BY <1>1, <1>2, <1>3, <1>4, <1>5, FailStep

(* A VPC is made, and the set-up goes on or ends. *)
LEMMA MakeVpcStep ==
  ASSUME IInv, NEW c \in Cluster, MakeVpcAlibaba(c) \/ MakeVpcTencent(c)
  PROVE  IInv'
<1>1. /\ setup[c].pc = "make_vpc" /\ Stays /\ TypeOK /\ ClusterInv(c)
      /\ provider \in {"alibaba", "tencent"}
  BY DEF MakeVpcAlibaba, MakeVpcTencent, IInv, At
<1>2. InProgress(c)
  BY <1>1 DEF InProgress
<1>3. \/ Failed(c)
      \/ \E v \in Vpc \ vpcs :
           /\ vpcs' = vpcs \cup {v} /\ UNCHANGED <<subnets, groups, rules>>
           /\ labelled' = labelled \/ labelled' = labelled \cup {v}
           /\ provider = "tencent" => labelled' = labelled \cup {v}
           /\ \/ Goto(c, "failed")
              \/ setup' = [setup EXCEPT ![c].vpc = v, ![c].pc = "make_subnet"]
  BY DEF MakeVpcAlibaba, MakeVpcTencent
<1>4. ASSUME NEW v \in Vpc \ vpcs, vpcs' = vpcs \cup {v}, UNCHANGED <<subnets, groups, rules>>,
             labelled' = labelled \/ labelled' = labelled \cup {v},
             provider = "tencent" => labelled' = labelled \cup {v},
             \/ Goto(c, "failed")
             \/ setup' = [setup EXCEPT ![c].vpc = v, ![c].pc = "make_subnet"]
      PROVE  IInv'
  <2>1. \/ Moves(c, "failed")
        \/ Changed(c, "make_subnet", v, setup[c].subnet, setup[c].group, setup[c].seen,
                   setup[c].lost)
    BY <1>1, <1>4, MoveSetup, SetVpc DEF PC
  <2>2. Grows
    BY <1>1, <1>4 DEF Grows, Stays
  <2>3. TypeOK'
    BY <1>1, <1>4, <2>1 DEF TypeOK, Stays, Moves, Changed
  <2>4. CloudInv'
    BY <1>1, <1>4 DEF IInv, CloudInv, Stays
  <2>5. alone => vpcs = {}
    BY <1>1 DEF ClusterInv, ReadInv
  <2>6. OnceInv'
    BY <1>1, <1>4, <2>5 DEF IInv, OnceInv, Stays
  <2>7. alone => subnets = {}
    BY <2>5 DEF IInv, CloudInv
  <2>8. HoldsInv(c)' /\ ChosenInv(c)' /\ SeenInv(c)'
    BY <1>1, <1>4, <2>1, NoneAssumption
       DEF ClusterInv, HoldsInv, ChosenInv, SeenInv, Moves, Changed, Stays, Early
  <2>9. ReadInv(c)' /\ DoneInv(c)'
    BY <1>1, <1>4, <2>1, <2>7 DEF ReadInv, DoneInv, At, Moves, Changed, Stays
  <2>10. \A d \in Cluster : d # c => setup'[d] = setup[d]
    BY <2>1 DEF Moves, Changed
  <2> QED BY <1>1, <1>2, <2>2, <2>3, <2>4, <2>6, <2>8, <2>9, <2>10, OwnStep DEF ClusterInv
<1> QED BY <1>1, <1>2, <1>3, <1>4, FailStep DEF Failed

(* The subnet of the zone is found, or there is none. *)
LEMMA FindSubnetStep ==
  ASSUME IInv, NEW c \in Cluster, FindVSwitch(c) \/ FindSubnet(c)
  PROVE  IInv'
<1>1. /\ setup[c].pc = "subnet" /\ UNCHANGED cloud /\ Stays /\ TypeOK /\ ClusterInv(c)
      /\ provider \in {"alibaba", "tencent"}
  BY DEF FindVSwitch, FindSubnet, IInv, At
<1>2. InProgress(c)
  BY <1>1 DEF InProgress
<1> DEFINE candidates == IF provider = "tencent" THEN subnets
                         ELSE {s \in subnets : s.vpc = setup[c].vpc}
<1>3. TakeSubnet(c, candidates)
  BY <1>1 DEF FindVSwitch, FindSubnet
<1>4. ASSUME NEW s \in candidates, setup' = [setup EXCEPT ![c].subnet = s.id, ![c].pc = "group"]
      PROVE  IInv'
  <2>1. s \in subnets /\ s.id \in Subnet /\ s.id # None
        /\ (provider # "tencent" => s.vpc = setup[c].vpc)
    BY <1>1, <1>4, NoneAssumption DEF TypeOK
  <2>2. Changed(c, "group", setup[c].vpc, s.id, setup[c].group, setup[c].seen, setup[c].lost)
    BY <1>1, <1>4, <2>1, SetSubnet DEF PC
  <2>3. HoldsInv(c)' /\ ReadInv(c)' /\ SeenInv(c)'
    BY <1>1, <2>1, <2>2 DEF ClusterInv, HoldsInv, ReadInv, SeenInv, Changed, cloud, Stays, Early
  <2>4. ChosenInv(c)'
    BY <1>1, <2>1, <2>2 DEF ClusterInv, HoldsInv, ChosenInv, Changed, cloud, Stays
  <2> QED BY <1>1, <1>2, <2>2, <2>3, <2>4, QuietStep DEF PC
<1>5. ASSUME \A x \in candidates : x.zone # setup[c].zone, Goto(c, "make_subnet")
      PROVE  IInv'
  <2>1. Moves(c, "make_subnet")
    BY <1>1, <1>5, MoveSetup DEF PC
  <2>2. HoldsInv(c)' /\ ChosenInv(c)' /\ SeenInv(c)'
    BY <1>1, <2>1 DEF ClusterInv, HoldsInv, ChosenInv, SeenInv, Moves, Changed, cloud, Stays, Early
  <2>3. alone => \A s \in subnets : s.vpc = setup[c].vpc
    BY <1>1 DEF IInv, CloudInv, OnceInv, ClusterInv, HoldsInv
  <2>4. ReadInv(c)'
    BY <1>1, <1>5, <2>1, <2>3 DEF ReadInv, Moves, Changed, cloud, Stays
  <2> QED BY <1>1, <1>2, <2>1, <2>2, <2>4, QuietStep DEF PC, Moves
<1> QED BY <1>1, <1>2, <1>3, <1>4, <1>5, FailStep DEF TakeSubnet

(* A subnet is made in the VPC and the zone of the cluster. *)
LEMMA MakeSubnetStep ==
  ASSUME IInv, NEW c \in Cluster, MakeVSwitch(c) \/ MakeSubnet(c)
  PROVE  IInv'
<1>1. /\ setup[c].pc = "make_subnet" /\ Stays /\ TypeOK /\ ClusterInv(c)
      /\ provider \in {"alibaba", "tencent"}
  BY DEF MakeVSwitch, MakeSubnet, IInv, At
<1>2. InProgress(c)
  BY <1>1 DEF InProgress
<1>3. \/ Failed(c)
      \/ \E s \in Subnet \ SubnetIds :
           /\ AddSubnet(c, s)
           /\ \/ Goto(c, "failed")
              \/ setup' = [setup EXCEPT ![c].subnet = s, ![c].pc = "group"]
  BY DEF MakeVSwitch, MakeSubnet
<1>4. ASSUME NEW s \in Subnet \ SubnetIds, AddSubnet(c, s),
             \/ Goto(c, "failed")
             \/ setup' = [setup EXCEPT ![c].subnet = s, ![c].pc = "group"]
      PROVE  IInv'
  <2> DEFINE new == [id |-> s, vpc |-> setup[c].vpc, zone |-> setup[c].zone]
  <2>1. \/ Moves(c, "failed")
        \/ Changed(c, "group", setup[c].vpc, s, setup[c].group, setup[c].seen, setup[c].lost)
    BY <1>1, <1>4, MoveSetup, SetSubnet DEF PC
  <2>2. /\ setup[c].vpc \in vpcs /\ setup[c].zone \in Zone /\ setup[c].vpc # None
        /\ subnets' = subnets \cup {new} /\ UNCHANGED <<vpcs, labelled, groups, rules>>
    BY <1>1, <1>4 DEF ClusterInv, HoldsInv, TypeOK, SetupType, AddSubnet
  <2>3. Grows
    BY <1>1, <2>2 DEF Grows, Stays
  <2>4. TypeOK'
    BY <1>1, <1>4, <2>1, <2>2 DEF TypeOK, Stays, Moves, Changed
  <2>5. \A t \in subnets : t.id # s
    BY <1>4 DEF SubnetIds
  <2>6. CloudInv'
    BY <1>1, <2>2, <2>5 DEF IInv, CloudInv, Stays
  <2>7. alone => \A t \in subnets : t.zone # setup[c].zone
    BY <1>1 DEF ClusterInv, ReadInv
  <2>8. OnceInv'
    BY <1>1, <2>2, <2>7 DEF IInv, OnceInv, Stays
  <2>9. HoldsInv(c)' /\ SeenInv(c)'
    BY <1>1, <1>4, <2>1, <2>2, NoneAssumption
       DEF ClusterInv, HoldsInv, SeenInv, Moves, Changed, Stays, Early
  <2>10. ChosenInv(c)'
    <3>1. new \in subnets' /\ new.id = s /\ new.vpc = setup[c].vpc
      BY <2>2
    <3> QED BY <1>1, <2>1, <2>2, <3>1 DEF ClusterInv, HoldsInv, ChosenInv, Moves, Changed, Stays, Early
  <2>11. ReadInv(c)' /\ DoneInv(c)'
    BY <1>1, <2>1 DEF ReadInv, DoneInv, At, Moves, Changed, Stays
  <2>12. \A d \in Cluster : d # c => setup'[d] = setup[d]
    BY <2>1 DEF Moves, Changed
  <2> QED BY <1>1, <1>2, <2>3, <2>4, <2>6, <2>8, <2>9, <2>10, <2>11, <2>12, OwnStep DEF ClusterInv
<1> QED BY <1>1, <1>2, <1>3, <1>4, FailStep DEF Failed

(***************************************************************************)
(* The security group.                                                     *)
(***************************************************************************)

(* The group is found, with its rules but on Tencent, or there is none. *)
LEMMA FindGroupStep ==
  ASSUME IInv, NEW c \in Cluster,
         FindGroupAlibaba(c) \/ FindGroupAws(c) \/ FindGroupTencent(c)
  PROVE  IInv'
<1>1. /\ setup[c].pc = "group" /\ UNCHANGED cloud /\ Stays /\ TypeOK /\ ClusterInv(c)
      /\ provider # "google"
  BY DEF FindGroupAlibaba, FindGroupAws, FindGroupTencent, IInv, At
<1>2. InProgress(c)
  BY <1>1 DEF InProgress
<1>3. \/ \E g \in groups : TakeGroup(c, g.id, rules[g.id], "add")
      \/ \E g \in groups : setup' = [setup EXCEPT ![c].group = g.id, ![c].pc = "rules"]
      \/ Goto(c, "make_group")
      \/ Goto(c, "failed")
  BY DEF FindGroupAlibaba, FindGroupAws, FindGroupTencent, GroupsOf
<1>4. ASSUME NEW g \in groups PROVE g.id \in Group /\ g.id # None /\ rules[g.id] \in SUBSET Rule
  BY <1>1, <1>4, NoneAssumption DEF TypeOK
<1>5. ASSUME NEW g \in groups, TakeGroup(c, g.id, rules[g.id], "add") PROVE IInv'
  <2>1. Changed(c, "add", setup[c].vpc, setup[c].subnet, g.id, rules[g.id], setup[c].lost)
    BY <1>1, <1>4, <1>5, SetGroupSeen DEF PC
  <2>2. HoldsInv(c)' /\ ChosenInv(c)' /\ ReadInv(c)' /\ SeenInv(c)'
    BY <1>1, <1>4, <2>1 DEF ClusterInv, HoldsInv, ChosenInv, ReadInv, SeenInv, Changed, cloud, Stays,
                            Early
  <2> QED BY <1>1, <1>2, <2>1, <2>2, QuietStep DEF PC
<1>6. ASSUME NEW g \in groups, setup' = [setup EXCEPT ![c].group = g.id, ![c].pc = "rules"]
      PROVE  IInv'
  <2>1. Changed(c, "rules", setup[c].vpc, setup[c].subnet, g.id, setup[c].seen, setup[c].lost)
    BY <1>1, <1>4, <1>6, SetGroup DEF PC
  <2>2. HoldsInv(c)' /\ ChosenInv(c)' /\ ReadInv(c)' /\ SeenInv(c)'
    BY <1>1, <1>4, <2>1 DEF ClusterInv, HoldsInv, ChosenInv, ReadInv, SeenInv, Changed, cloud, Stays,
                            Early
  <2> QED BY <1>1, <1>2, <2>1, <2>2, QuietStep DEF PC
<1>7. ASSUME Goto(c, "make_group") PROVE IInv'
  <2>1. Moves(c, "make_group")
    BY <1>1, <1>7, MoveSetup DEF PC
  <2>2. HoldsInv(c)' /\ ChosenInv(c)' /\ ReadInv(c)' /\ SeenInv(c)'
    BY <1>1, <2>1 DEF ClusterInv, HoldsInv, ChosenInv, ReadInv, SeenInv, Moves, Changed, cloud, Stays,
                      Early
  <2> QED BY <1>1, <1>2, <2>1, <2>2, QuietStep DEF PC, Moves
<1> QED BY <1>1, <1>2, <1>3, <1>5, <1>6, <1>7, FailStep

(* A group is made; it has the rules that its id had: none of them was     *)
(* seen. *)
LEMMA MakeGroupStep ==
  ASSUME IInv, NEW c \in Cluster,
         MakeGroupAlibaba(c) \/ MakeGroupAws(c) \/ MakeGroupTencent(c)
  PROVE  IInv'
<1>1. /\ setup[c].pc = "make_group" /\ Stays /\ TypeOK /\ ClusterInv(c)
      /\ provider # "google"
  BY DEF MakeGroupAlibaba, MakeGroupAws, MakeGroupTencent, IInv, At
<1>2. InProgress(c)
  BY <1>1 DEF InProgress
<1>3. \/ Failed(c)
      \/ \E g \in Group \ GroupIds, v \in {setup[c].vpc, None} :
           /\ MakeGroupFor(g, v)
           /\ TakeGroup(c, g, {}, "add") \/ TakeGroup(c, g, {}, "rules") \/ Goto(c, "failed")
  BY DEF MakeGroupAlibaba, MakeGroupAws, MakeGroupTencent
<1>4. ASSUME NEW g \in Group \ GroupIds, NEW v \in {setup[c].vpc, None}, MakeGroupFor(g, v),
             TakeGroup(c, g, {}, "add") \/ TakeGroup(c, g, {}, "rules") \/ Goto(c, "failed")
      PROVE  IInv'
  <2>1. \/ Moves(c, "failed")
        \/ \E l \in {"add", "rules"} :
             Changed(c, l, setup[c].vpc, setup[c].subnet, g, {}, setup[c].lost)
    BY <1>1, <1>4, MoveSetup, SetGroupSeen DEF PC
  <2>2. /\ v \in Vpc \cup {None} /\ groups' = groups \cup {[id |-> g, vpc |-> v]}
        /\ UNCHANGED <<vpcs, labelled, subnets, rules>>
    BY <1>1, <1>4 DEF TypeOK, SetupType, MakeGroupFor
  <2>3. Grows
    BY <1>1, <2>2 DEF Grows, Stays
  <2>4. setup' \in [Cluster -> SetupType] /\ \A d \in Cluster : d # c => setup'[d] = setup[d]
    BY <2>1 DEF Moves, Changed
  <2>5. TypeOK'
    BY <1>1, <2>2, <2>4 DEF TypeOK, Stays
  <2>6. CloudInv' /\ OnceInv'
    BY <1>1, <2>2 DEF IInv, CloudInv, OnceInv, Stays
  <2>7. g # None /\ \E h \in groups' : h.id = g
    <3>1. g # None
      BY NoneAssumption
    <3>2. [id |-> g, vpc |-> v] \in groups' /\ [id |-> g, vpc |-> v].id = g
      BY <2>2
    <3> QED BY <3>1, <3>2
  <2>8. HoldsInv(c)' /\ ChosenInv(c)' /\ ReadInv(c)' /\ SeenInv(c)'
    <3>1. CASE Moves(c, "failed")
      BY <1>1, <2>2, <3>1
         DEF ClusterInv, HoldsInv, ChosenInv, ReadInv, SeenInv, Moves, Changed, Stays, Early
    <3>2. ASSUME NEW l \in {"add", "rules"},
                 Changed(c, l, setup[c].vpc, setup[c].subnet, g, {}, setup[c].lost)
          PROVE  HoldsInv(c)' /\ ChosenInv(c)' /\ ReadInv(c)' /\ SeenInv(c)'
      <4>1. HoldsInv(c)'
        BY <1>1, <2>2, <2>7, <3>2 DEF ClusterInv, HoldsInv, Changed, Stays, Early
      <4> QED BY <1>1, <2>2, <3>2, <4>1
                 DEF ClusterInv, ChosenInv, ReadInv, SeenInv, Changed, Stays
    <3> QED BY <2>1, <3>1, <3>2
  <2>9. DoneInv(c)'
    BY <2>1 DEF DoneInv, At, Moves, Changed
  <2> QED BY <1>1, <1>2, <2>3, <2>4, <2>5, <2>6, <2>8, <2>9, OwnStep DEF ClusterInv
<1> QED BY <1>1, <1>2, <1>3, <1>4, FailStep DEF Failed

(* Tencent reads the rules of the group it has chosen. *)
LEMMA ReadRulesStep ==
  ASSUME IInv, NEW c \in Cluster, ReadRules(c)
  PROVE  IInv'
<1>1. setup[c].pc = "rules" /\ UNCHANGED cloud /\ Stays /\ TypeOK /\ ClusterInv(c)
  BY DEF ReadRules, IInv, At
<1>2. InProgress(c)
  BY <1>1 DEF InProgress
<1>3. ASSUME setup' = [setup EXCEPT ![c].seen = rules[setup[c].group], ![c].pc = "add"]
      PROVE  IInv'
  <2>1. rules[setup[c].group] \in SUBSET Rule
    BY <1>1 DEF ClusterInv, HoldsInv, TypeOK, SetupType
  <2>2. Changed(c, "add", setup[c].vpc, setup[c].subnet, setup[c].group, rules[setup[c].group],
                setup[c].lost)
    BY <1>1, <1>3, <2>1, SetSeen DEF PC
  <2>3. HoldsInv(c)' /\ ChosenInv(c)' /\ ReadInv(c)' /\ SeenInv(c)'
    BY <1>1, <2>2 DEF ClusterInv, HoldsInv, ChosenInv, ReadInv, SeenInv, Changed, cloud, Stays, Early
  <2> QED BY <1>1, <1>2, <2>2, <2>3, QuietStep DEF PC
<1> QED BY <1>1, <1>2, <1>3, FailStep DEF ReadRules

(***************************************************************************)
(* The rules.                                                              *)
(***************************************************************************)

(* Rules for ports of the table, from any source or from a subnet. *)
LEMMA RuleTypes ==
  ASSUME NEW P \in SUBSET Port, NEW src \in {"any"} \cup Subnet
  PROVE  P \X {src} \in SUBSET Rule
  BY DEF Rule

(* The ports that are open to all are not those of etcd. *)
LEMMA CommonTypes ==
  ASSUME NEW c \in Cluster
  PROVE  Common(c) \in SUBSET Port /\ Common(c) \cap Etcd = {} /\ Etcd \in SUBSET Port
  BY DEF Common, Port, Etcd

(* A port other than those of etcd that has been seen is open to all. *)
LEMMA SeenCommon ==
  ASSUME IInv, NEW c \in Cluster, provider # "google", setup[c].group # None,
         NEW p \in Common(c), p \in PortsOf(setup[c].seen)
  PROVE  <<p, "any">> \in setup[c].seen
<1>1. PICK r \in setup[c].seen : r[1] = p
  BY DEF PortsOf
<1>2. setup[c].group \in Group /\ r \in rules[setup[c].group] /\ r \in Rule
  BY DEF IInv, ClusterInv, SeenInv, TypeOK, SetupType
<1>3. p \notin Etcd
  BY CommonTypes
<1>4. r[2] = "any"
  BY <1>1, <1>2, <1>3 DEF IInv, CloudInv
<1> QED BY <1>1, <1>2, <1>4 DEF Rule

(* One call adds rules to the group, and the set-up ends. Whatever else    *)
(* the group has by then, the ports the cluster needs are open if what was *)
(* seen and what is added opens them. *)
LEMMA AddStep ==
  ASSUME IInv, NEW c \in Cluster, At(c, "add"), provider # "google", Stays,
         NEW R \in SUBSET Rule, AddRules(c, R), \A r \in R : r[1] \notin Etcd => r[2] = "any",
         NEW l \in {"done", "failed"}, NEW x \in BOOLEAN,
         Changed(c, l, setup[c].vpc, setup[c].subnet, setup[c].group, setup[c].seen, x),
         l = "done" /\ ~x =>
           \A p \in Needed(c) : \E src \in {"any", setup[c].subnet} :
             <<p, src>> \in setup[c].seen \cup R
  PROVE  IInv'
<1> DEFINE g == setup[c].group
<1>1. /\ InProgress(c) /\ setup[c].pc = "add" /\ TypeOK /\ ClusterInv(c)
      /\ provider' = provider /\ alone' = alone /\ UNCHANGED <<vpcs, labelled, subnets, groups>>
  BY DEF IInv, At, InProgress, Stays, AddRules
<1>2. g \in Group
  BY <1>1 DEF ClusterInv, HoldsInv, TypeOK, SetupType
<1>3. /\ rules' \in [Group -> SUBSET Rule] /\ rules'[g] = rules[g] \cup R
      /\ \A h \in Group : h # g => rules'[h] = rules[h]
  BY <1>1, <1>2 DEF TypeOK, AddRules
<1>4. Grows
  BY <1>1, <1>2, <1>3 DEF Grows, TypeOK
<1>5. TypeOK'
  BY <1>1, <1>3 DEF TypeOK, Stays, Changed
<1>6. CloudInv'
  BY <1>1, <1>2, <1>3 DEF IInv, CloudInv
<1>7. OnceInv'
  BY <1>1 DEF IInv, OnceInv
<1>8. HoldsInv(c)' /\ ChosenInv(c)'
  BY <1>1 DEF ClusterInv, HoldsInv, ChosenInv, Changed, Early
<1>9. ReadInv(c)' /\ SeenInv(c)'
  BY <1>1, <1>2, <1>3 DEF ClusterInv, ReadInv, SeenInv, Changed
<1>10. DoneInv(c)'
  <2> SUFFICES ASSUME At(c, "done")', ~setup'[c].lost, NEW p \in Needed(c)'
               PROVE  Open(c, p)'
    BY DEF DoneInv
  <2>1. p \in Needed(c) /\ l = "done" /\ ~x
    BY <1>1 DEF Needed, Common, At, Changed
  <2>2. PICK src \in {"any", setup[c].subnet} : <<p, src>> \in setup[c].seen \cup R
    BY <2>1
  <2>3. <<p, src>> \in rules'[g]
    BY <1>1, <1>2, <1>3, <2>2 DEF ClusterInv, HoldsInv, SeenInv
  <2> QED BY <2>2, <2>3 DEF Open, Changed
<1>11. \A d \in Cluster : d # c => setup'[d] = setup[d]
  BY DEF Changed
<1> QED BY <1>1, <1>4, <1>5, <1>6, <1>7, <1>8, <1>9, <1>10, <1>11, OwnStep DEF ClusterInv

(* Alibaba: a call per rule; the set-up knows nothing of those that fail. *)
LEMMA AuthorizeAlibabaStep ==
  ASSUME IInv, NEW c \in Cluster, AuthorizeAlibaba(c)
  PROVE  IInv'
<1> DEFINE missing == FromAny((Common(c) \ PortsOf(setup[c].seen)) \cup
                              (Common(c) \cap {"8472/udp"}))
<1>1. At(c, "add") /\ setup[c].pc = "add" /\ provider = "alibaba" /\ Stays /\ TypeOK
      /\ ClusterInv(c)
  BY DEF AuthorizeAlibaba, At, IInv
<1>2. PICK R \in SUBSET missing :
        AddRules(c, R) /\ setup' = [setup EXCEPT ![c].pc = "done", ![c].lost = (R # missing)]
  BY DEF AuthorizeAlibaba
<1>3. R \in SUBSET Rule /\ \A r \in R : r[1] \notin Etcd => r[2] = "any"
  <2>1. missing \in SUBSET Rule
    BY CommonTypes, RuleTypes DEF FromAny
  <2> QED BY <2>1 DEF FromAny
<1>4. Changed(c, "done", setup[c].vpc, setup[c].subnet, setup[c].group, setup[c].seen, R # missing)
  BY <1>1, <1>2, SetLost DEF PC
<1>5. ASSUME ~(R # missing), NEW p \in Needed(c)
      PROVE  <<p, "any">> \in setup[c].seen \cup R
  <2>1. p \in Common(c) /\ setup[c].group # None
    BY <1>1 DEF Needed, ClusterInv, HoldsInv
  <2>2. CASE p \in PortsOf(setup[c].seen)
    BY <1>1, <2>1, <2>2, SeenCommon
  <2>3. CASE p \notin PortsOf(setup[c].seen)
    BY <1>5, <2>1, <2>3 DEF FromAny
  <2> QED BY <2>2, <2>3
<1> QED BY <1>1, <1>2, <1>3, <1>4, <1>5, AddStep

(* AWS: one call for what is missing. *)
LEMMA AuthorizeAwsStep ==
  ASSUME IInv, NEW c \in Cluster, AuthorizeAws(c)
  PROVE  IInv'
<1>1. /\ At(c, "add") /\ setup[c].pc = "add" /\ provider = "aws" /\ Stays /\ TypeOK
      /\ ClusterInv(c) /\ InProgress(c)
  BY DEF AuthorizeAws, At, IInv, InProgress
<1> DEFINE etcd(src) == IF setup[c].ha /\ ~(Etcd \subseteq PortsOf(setup[c].seen))
                        THEN Etcd \X {src} ELSE {}
           R(src) == FromAny(Common(c) \ PortsOf(setup[c].seen)) \cup etcd(src)
<1>2. ASSUME NEW src \in GetSubnetCIDR(c), AddRules(c, R(src)), Goto(c, "done")
      PROVE  IInv'
  <2>1. src \in {"any"} \cup Subnet /\ setup[c].group # None
    BY <1>1 DEF GetSubnetCIDR, ClusterInv, HoldsInv, TypeOK, SetupType
  <2>2. R(src) \in SUBSET Rule
    <3>1. FromAny(Common(c) \ PortsOf(setup[c].seen)) \in SUBSET Rule
      BY CommonTypes, RuleTypes DEF FromAny
    <3>2. Etcd \X {src} \in SUBSET Rule
      BY <2>1, CommonTypes, RuleTypes
    <3> QED BY <3>1, <3>2
  <2>3. \A r \in R(src) : r[1] \notin Etcd => r[2] = "any"
    BY DEF FromAny
  <2>4. Changed(c, "done", setup[c].vpc, setup[c].subnet, setup[c].group, setup[c].seen,
                setup[c].lost)
    BY <1>1, <1>2, MoveSetup DEF PC, Moves
  <2>5. ASSUME NEW p \in Needed(c) PROVE <<p, "any">> \in setup[c].seen \cup R(src)
    <3>1. p \in Common(c)
      BY <1>1 DEF Needed
    <3>2. CASE p \in PortsOf(setup[c].seen)
      BY <1>1, <2>1, <3>1, <3>2, SeenCommon
    <3>3. CASE p \notin PortsOf(setup[c].seen)
      BY <3>1, <3>3 DEF FromAny
    <3> QED BY <3>2, <3>3
  <2>6. setup[c].lost \in BOOLEAN
    BY <1>1 DEF TypeOK, SetupType
  <2> HIDE DEF R
  <2> QED BY <1>1, <1>2, <2>2, <2>3, <2>4, <2>5, <2>6, AddStep
<1> QED BY <1>1, <1>2, FailStep DEF AuthorizeAws, Failed

(* Tencent: one call for what is missing; the etcd ports count as open     *)
(* only if they are open to the cluster's own subnet. *)
LEMMA AuthorizeTencentStep ==
  ASSUME IInv, NEW c \in Cluster, AuthorizeTencent(c)
  PROVE  IInv'
<1>1. /\ At(c, "add") /\ setup[c].pc = "add" /\ provider = "tencent" /\ Stays /\ TypeOK
      /\ ClusterInv(c) /\ InProgress(c)
  BY DEF AuthorizeTencent, At, IInv, InProgress
<1> DEFINE sn == setup[c].subnet
           seen == setup[c].seen
           open == {p \in Etcd : <<p, "any">> \in seen \/ <<p, sn>> \in seen}
           R == FromAny(Common(c) \ PortsOf(seen)) \cup
                IF open = Etcd THEN {} ELSE Etcd \X {sn}
<1>2. ASSUME AddRules(c, R), NEW l \in {"done", "failed"}, Goto(c, l)
      PROVE  IInv'
  <2>1. sn \in Subnet /\ setup[c].group # None
    BY <1>1 DEF ClusterInv, HoldsInv, TypeOK, SetupType
  <2>2. R \in SUBSET Rule
    <3>1. FromAny(Common(c) \ PortsOf(seen)) \in SUBSET Rule
      BY CommonTypes, RuleTypes DEF FromAny
    <3>2. Etcd \X {sn} \in SUBSET Rule
      BY <2>1, CommonTypes, RuleTypes
    <3> QED BY <3>1, <3>2
  <2>3. \A r \in R : r[1] \notin Etcd => r[2] = "any"
    BY DEF FromAny
  <2>4. Changed(c, l, setup[c].vpc, sn, setup[c].group, seen, setup[c].lost)
    BY <1>1, <1>2, MoveSetup DEF PC, Moves
  <2>5. ASSUME NEW p \in Needed(c) PROVE \E src \in {"any", sn} : <<p, src>> \in seen \cup R
    <3>1. CASE p \in Common(c)
      <4>1. CASE p \in PortsOf(seen)
        BY <1>1, <2>1, <3>1, <4>1, SeenCommon
      <4>2. CASE p \notin PortsOf(seen)
        BY <3>1, <4>2 DEF FromAny
      <4> QED BY <4>1, <4>2
    <3>2. CASE p \notin Common(c)
      <4>1. p \in Etcd
        BY <3>2 DEF Needed
      <4>2. CASE open = Etcd
        <5>1. p \in open
          BY <4>1, <4>2
        <5> QED BY <5>1
      <4>3. CASE open # Etcd
        BY <4>1, <4>3
      <4> QED BY <4>2, <4>3
    <3> QED BY <3>1, <3>2
  <2>6. setup[c].lost \in BOOLEAN
    BY <1>1 DEF TypeOK, SetupType
  <2> HIDE DEF R, seen, sn
  <2> QED BY <1>1, <1>2, <2>2, <2>3, <2>4, <2>5, <2>6, AddStep DEF seen, sn
<1> QED BY <1>1, <1>2, FailStep DEF AuthorizeTencent, Failed

(***************************************************************************)
(* The firewall of Google.                                                 *)
(***************************************************************************)

(* The firewall is read, or counts as missing. *)
LEMMA GetFirewallStep ==
  ASSUME IInv, NEW c \in Cluster, GetFirewall(c)
  PROVE  IInv'
<1>1. /\ setup[c].pc = "group" /\ UNCHANGED cloud /\ Stays /\ TypeOK /\ ClusterInv(c)
      /\ provider = "google"
  BY DEF GetFirewall, IInv, At
<1>2. InProgress(c)
  BY <1>1 DEF InProgress
<1>3. ASSUME NEW g \in groups, TakeGroup(c, g.id, rules[g.id], "add") PROVE IInv'
  <2>1. g.id \in Group /\ g.id # None /\ rules[g.id] \in SUBSET Rule
    BY <1>1, NoneAssumption DEF TypeOK
  <2>2. Changed(c, "add", setup[c].vpc, setup[c].subnet, g.id, rules[g.id], setup[c].lost)
    BY <1>1, <1>3, <2>1, SetGroupSeen DEF PC
  <2>3. HoldsInv(c)' /\ ChosenInv(c)' /\ ReadInv(c)' /\ SeenInv(c)'
    BY <1>1, <2>1, <2>2
       DEF ClusterInv, HoldsInv, ChosenInv, ReadInv, SeenInv, Changed, cloud, Stays, Early
  <2> QED BY <1>1, <1>2, <2>2, <2>3, QuietStep DEF PC
<1>4. ASSUME Goto(c, "add") PROVE IInv'
  <2>1. Moves(c, "add")
    BY <1>1, <1>4, MoveSetup DEF PC
  <2>2. HoldsInv(c)' /\ ChosenInv(c)' /\ ReadInv(c)' /\ SeenInv(c)'
    BY <1>1, <2>1
       DEF ClusterInv, HoldsInv, ChosenInv, ReadInv, SeenInv, Moves, Changed, cloud, Stays, Early
  <2> QED BY <1>1, <1>2, <2>1, <2>2, QuietStep DEF PC, Moves
<1> QED BY <1>3, <1>4 DEF GetFirewall, TakeGroup, Goto

(* The firewall is written with all the ports of the cluster: what it had  *)
(* is lost only if it has changed since it was read. *)
LEMMA PutFirewallStep ==
  ASSUME IInv, NEW c \in Cluster, PutFirewall(c)
  PROVE  IInv'
<1> DEFINE ports == FromAny(Common(c) \cup IF setup[c].ha THEN Etcd ELSE {})
           group == setup[c].group
           seen == setup[c].seen
<1>1. /\ InProgress(c) /\ setup[c].pc = "add" /\ TypeOK /\ ClusterInv(c) /\ Stays
      /\ provider = "google" /\ provider' = provider /\ alone' = alone
  BY DEF PutFirewall, IInv, At, InProgress, Stays
<1>2. \/ /\ group # None
         /\ rules' = IF ports \subseteq seen THEN rules
                     ELSE [rules EXCEPT ![group] = seen \cup ports]
         /\ \E l \in {"done", "failed"} : Goto(c, l)
         /\ UNCHANGED <<vpcs, labelled, subnets, groups>>
      \/ /\ group = None /\ groups = {}
         /\ \E g \in Group, l \in {"done", "failed"} :
              /\ groups' = {[id |-> g, vpc |-> setup[c].vpc]}
              /\ rules' = [rules EXCEPT ![g] = ports]
              /\ setup' = [setup EXCEPT ![c].group = g, ![c].pc = l]
         /\ UNCHANGED <<vpcs, labelled, subnets>>
      \/ Failed(c)
  BY DEF PutFirewall
<1>3. ports \in SUBSET Rule
  <2> DEFINE P == Common(c) \cup IF setup[c].ha THEN Etcd ELSE {}
  <2>1. P \in SUBSET Port
    BY CommonTypes
  <2> QED BY <2>1, RuleTypes DEF FromAny
<1>4. \A p \in Needed(c) : <<p, "any">> \in ports
  BY DEF Needed, FromAny
<1> HIDE DEF ports
<1>5. ASSUME NEW g \in Group, NEW l \in {"done", "failed"}, Grows, rules' \in [Group -> SUBSET Rule],
             groups' \subseteq [id : Group, vpc : Vpc \cup {None}], \E h \in groups' : h.id = g,
             UNCHANGED <<vpcs, labelled, subnets>>, alone => ports \subseteq rules'[g],
             Changed(c, l, setup[c].vpc, setup[c].subnet, g, seen, setup[c].lost)
      PROVE  IInv'
  <2>1. TypeOK'
    BY <1>1, <1>5 DEF TypeOK, Stays, Changed
  <2>2. CloudInv' /\ OnceInv'
    BY <1>1, <1>5 DEF IInv, CloudInv, OnceInv
  <2>3. HoldsInv(c)' /\ ChosenInv(c)' /\ ReadInv(c)' /\ SeenInv(c)'
    <3>1. g # None
      BY NoneAssumption
    <3> QED BY <1>1, <1>5, <3>1
               DEF ClusterInv, HoldsInv, ChosenInv, ReadInv, SeenInv, Changed, Early
  <2>4. DoneInv(c)'
    <3> SUFFICES ASSUME alone, NEW p \in Needed(c)'
                 PROVE  Open(c, p)'
      BY <1>1 DEF DoneInv
    <3>1. p \in Needed(c)
      BY <1>1, <1>5 DEF Needed, Common, Changed
    <3>2. <<p, "any">> \in rules'[g]
      BY <1>4, <1>5, <3>1
    <3> QED BY <1>5, <3>2 DEF Open, Changed
  <2>5. \A d \in Cluster : d # c => setup'[d] = setup[d]
    BY <1>5 DEF Changed
  <2> QED BY <1>1, <1>5, <2>1, <2>2, <2>3, <2>4, <2>5, OwnStep DEF ClusterInv
<1>6. ASSUME group # None, NEW l \in {"done", "failed"},
             rules' = IF ports \subseteq seen THEN rules
                      ELSE [rules EXCEPT ![group] = seen \cup ports],
             Goto(c, l), UNCHANGED <<vpcs, labelled, subnets, groups>>
      PROVE  IInv'
  <2>1. /\ group \in Group /\ seen \in SUBSET Rule /\ rules \in [Group -> SUBSET Rule]
        /\ \A h \in groups : h.id \in Group
    BY <1>1, <1>6 DEF TypeOK, SetupType
  <2>2. alone => seen = rules[group]
    BY <1>1, <1>6 DEF ClusterInv, ReadInv
  <2>3. rules' \in [Group -> SUBSET Rule]
    BY <1>3, <1>6, <2>1
  <2>4. alone => ports \subseteq rules'[group] /\ \A h \in Group : rules[h] \subseteq rules'[h]
    BY <1>6, <2>1, <2>2
  <2>5. Grows
    BY <1>1, <1>6, <2>1, <2>4 DEF Grows
  <2>6. Changed(c, l, setup[c].vpc, setup[c].subnet, group, seen, setup[c].lost)
    BY <1>1, <1>6, MoveSetup DEF PC, Moves
  <2>7. /\ \E h \in groups' : h.id = group
        /\ groups' \subseteq [id : Group, vpc : Vpc \cup {None}]
    BY <1>1, <1>6 DEF TypeOK, ClusterInv, HoldsInv
  <2> QED BY <1>5, <1>6, <2>1, <2>3, <2>4, <2>5, <2>6, <2>7
<1>7. ASSUME groups = {}, NEW g \in Group, NEW l \in {"done", "failed"}, groups' = {[id |-> g, vpc |-> setup[c].vpc]},
             rules' = [rules EXCEPT ![g] = ports],
             setup' = [setup EXCEPT ![c].group = g, ![c].pc = l],
             UNCHANGED <<vpcs, labelled, subnets>>
      PROVE  IInv'
  <2>1. rules' \in [Group -> SUBSET Rule] /\ ports \subseteq rules'[g]
    BY <1>1, <1>3, <1>7 DEF TypeOK
  <2>2. Grows
    BY <1>1, <1>7 DEF Grows
  <2>3. Changed(c, l, setup[c].vpc, setup[c].subnet, g, seen, setup[c].lost)
    BY <1>1, <1>7, SetGroup DEF PC
  <2>4. setup[c].vpc \in Vpc \cup {None}
    BY <1>1 DEF TypeOK, SetupType
  <2>5. groups' \subseteq [id : Group, vpc : Vpc \cup {None}]
    BY <1>7, <2>4
  <2>6. \E h \in groups' : h.id = g
    BY <1>7
  <2> QED BY <1>5, <1>7, <2>1, <2>2, <2>3, <2>5, <2>6
<1> QED BY <1>1, <1>2, <1>6, <1>7, FailStep DEF Failed

(***************************************************************************)
(* The first state and the beginning of a set-up.                          *)
(***************************************************************************)

(* A set-up begins: nothing of it is chosen, but for what CreateCheck has. *)
LEMMA BeginStep ==
  ASSUME IInv, NEW c \in Cluster, Begin(c)
  PROVE  IInv'
<1>1. /\ TypeOK /\ provider' = provider /\ UNCHANGED cloud /\ tries < MaxTries
      /\ tries' = tries + 1 /\ alone' = (alone /\ \A d \in Cluster : ~InProgress(d))
  BY DEF IInv, Begin
<1>2. PICK z \in Zone, ha \in BOOLEAN, vx \in BOOLEAN, v \in vpcs \cup {None} :
      \E s \in {x \in subnets : provider = "aws" /\ x.zone = z}
                 \cup {[id |-> None, vpc |-> v, zone |-> z]} :
        /\ provider = "aws" => s.id # None /\ v = s.vpc
        /\ provider = "google" => v # None
        /\ provider \in {"alibaba", "tencent"} => v = None
        /\ setup' = [setup EXCEPT ![c] =
             [pc |-> IF provider \in {"aws", "google"} THEN "group" ELSE "vpc",
              zone |-> z, ha |-> ha, vxlan |-> vx, vpc |-> v, subnet |-> s.id,
              group |-> None, seen |-> {}, lost |-> FALSE]]
  BY DEF Begin
<1>3. PICK s \in {x \in subnets : provider = "aws" /\ x.zone = z}
                 \cup {[id |-> None, vpc |-> v, zone |-> z]} :
        /\ provider = "aws" => s.id # None /\ v = s.vpc
        /\ provider = "google" => v # None
        /\ provider \in {"alibaba", "tencent"} => v = None
        /\ setup' = [setup EXCEPT ![c] =
             [pc |-> IF provider \in {"aws", "google"} THEN "group" ELSE "vpc",
              zone |-> z, ha |-> ha, vxlan |-> vx, vpc |-> v, subnet |-> s.id,
              group |-> None, seen |-> {}, lost |-> FALSE]]
  BY <1>2
<1> DEFINE l == IF provider \in {"aws", "google"} THEN "group" ELSE "vpc"
           n == [pc |-> l, zone |-> z, ha |-> ha, vxlan |-> vx, vpc |-> v, subnet |-> s.id,
                 group |-> None, seen |-> {}, lost |-> FALSE]
<1>4. s.id # None => provider = "aws" /\ s \in subnets
  BY <1>3
<1>5. provider = "aws" => s \in subnets /\ s.id # None /\ v = s.vpc
  BY <1>3
<1>6. provider \in {"aws", "google", "alibaba", "tencent"}
  BY <1>1, ProviderAssumption DEF TypeOK
<1>7. n \in SetupType
  <2>1. v \in Vpc \cup {None} /\ s.id \in Subnet \cup {None}
    BY <1>1, <1>4 DEF TypeOK
  <2> QED BY <2>1 DEF SetupType
<1>8. setup' \in [Cluster -> SetupType] /\ setup'[c] = n
      /\ \A d \in Cluster : d # c => setup'[d] = setup[d]
  BY <1>1, <1>3, <1>7 DEF TypeOK
<1>9. TypeOK'
  <2>1. tries' \in 0..MaxTries
    BY <1>1, TriesAssumption DEF TypeOK
  <2>2. alone' \in BOOLEAN
    BY <1>1
  <2> QED BY <1>1, <1>8, <2>1, <2>2 DEF TypeOK, cloud
<1>10. CloudInv' /\ OnceInv'
  BY <1>1 DEF IInv, CloudInv, OnceInv, cloud
<1>11. AloneInv'
  BY <1>1, <1>8 DEF AloneInv, InProgress
<1>12. ASSUME NEW d \in Cluster, d # c PROVE ClusterInv(d)'
  <2>1. Grows
    BY <1>1 DEF Grows, cloud
  <2> QED BY <1>1, <1>8, <1>12, <2>1, OtherCluster
<1>13. ClusterInv(c)'
  <2>1. /\ setup'[c].pc = l /\ setup'[c].vpc = v /\ setup'[c].subnet = s.id
        /\ setup'[c].group = None /\ setup'[c].seen = {}
    BY <1>8
  <2>2. HoldsInv(c)'
    BY <1>1, <1>4, <1>5, <1>6, <2>1 DEF HoldsInv, Early, cloud
  <2>3. ChosenInv(c)'
    <3>1. \A x \in subnets : x.vpc # None
      BY <1>1, NoneAssumption DEF TypeOK
    <3> QED BY <1>1, <1>4, <1>5, <2>1, <3>1 DEF ChosenInv, cloud
  <2>4. ReadInv(c)' /\ SeenInv(c)' /\ DoneInv(c)'
    BY <2>1 DEF ReadInv, SeenInv, DoneInv, At
  <2> QED BY <2>2, <2>3, <2>4 DEF ClusterInv
<1> QED BY <1>9, <1>10, <1>11, <1>12, <1>13 DEF IInv

(* The account as it is at first. *)
LEMMA InitInv ==
  ASSUME Init
  PROVE  IInv
<1>1. /\ vpcs \subseteq Vpc /\ labelled = {} /\ groups = {}
      /\ subnets \subseteq [id : Subnet, vpc : Vpc, zone : Zone]
      /\ provider \notin {"aws", "google"} => vpcs = {}
      /\ \A s, t \in subnets : (s.id = t.id \/ s.zone = t.zone) => s = t
      /\ \A s \in subnets : s.vpc \in vpcs
  <2>1. CASE provider \in {"aws", "google"}
    <3>1. PICK v \in Vpc, f \in [Zone -> Subnet] :
            /\ \A y, z \in Zone : y # z => f[y] # f[z]
            /\ vpcs = IF provider = "aws" THEN {v} ELSE Vpc
            /\ subnets = {[id |-> f[z], vpc |-> v, zone |-> z] : z \in Zone}
      BY <2>1 DEF Init
    <3>2. \A s \in subnets : \E z \in Zone : s = [id |-> f[z], vpc |-> v, zone |-> z]
      BY <3>1
    <3>3. ASSUME NEW s \in subnets, NEW t \in subnets, s.id = t.id \/ s.zone = t.zone
          PROVE  s = t
      <4>1. PICK y \in Zone : s = [id |-> f[y], vpc |-> v, zone |-> y]
        BY <3>2
      <4>2. PICK z \in Zone : t = [id |-> f[z], vpc |-> v, zone |-> z]
        BY <3>2
      <4>3. y = z
        BY <3>1, <3>3, <4>1, <4>2
      <4> QED BY <4>1, <4>2, <4>3
    <3>4. v \in vpcs /\ vpcs \subseteq Vpc
      BY <3>1
    <3> QED BY <2>1, <3>1, <3>2, <3>3, <3>4 DEF Init
  <2>2. CASE provider \notin {"aws", "google"}
    BY <2>2 DEF Init
  <2> QED BY <2>1, <2>2
<1>2. PICK z \in Zone :
        setup = [c \in Cluster |->
                   [pc |-> "idle", zone |-> z, ha |-> FALSE, vxlan |-> FALSE, vpc |-> None,
                    subnet |-> None, group |-> None, seen |-> {}, lost |-> FALSE]]
  BY DEF Init
<1>3. /\ setup \in [Cluster -> SetupType]
      /\ \A c \in Cluster : /\ setup[c].pc = "idle" /\ setup[c].vpc = None
                            /\ setup[c].subnet = None /\ setup[c].group = None
  BY <1>2 DEF SetupType
<1>4. rules = [g \in Group |-> {}] /\ tries = 0 /\ alone = TRUE /\ provider \in Provider
  BY DEF Init
<1>5. TypeOK
  <2>1. tries \in 0..MaxTries
    BY <1>4, TriesAssumption
  <2>2. rules \in [Group -> SUBSET Rule]
    BY <1>4
  <2> QED BY <1>1, <1>3, <1>4, <2>1, <2>2 DEF TypeOK
<1>6. CloudInv
  BY <1>1, <1>4 DEF CloudInv
<1>7. OnceInv /\ AloneInv
  BY <1>1, <1>3 DEF OnceInv, AloneInv, InProgress
<1>8. ASSUME NEW c \in Cluster PROVE ClusterInv(c)
  BY <1>3 DEF ClusterInv, HoldsInv, ChosenInv, ReadInv, SeenInv, DoneInv, At, Early
<1> QED BY <1>5, <1>6, <1>7, <1>8 DEF IInv

(***************************************************************************)
(* The results.                                                            *)
(***************************************************************************)

(* The invariant is inductive: a step of any cluster's set-up keeps it. *)
LEMMA Invariance == Spec => []IInv
<1>1. Init => IInv
  BY InitInv
<1>2. IInv /\ [Next]_vars => IInv'
  <2> SUFFICES ASSUME IInv, [Next]_vars PROVE IInv'
    OBVIOUS
  <2>1. ASSUME NEW c \in Cluster, Begin(c) PROVE IInv'
    BY <2>1, BeginStep
  <2>2. ASSUME NEW c \in Cluster, FindVpc(c) \/ FindVpcTencent(c) PROVE IInv'
    BY <2>2, FindVpcStep
  <2>3. ASSUME NEW c \in Cluster, MakeVpcAlibaba(c) \/ MakeVpcTencent(c) PROVE IInv'
    BY <2>3, MakeVpcStep
  <2>4. ASSUME NEW c \in Cluster, FindVSwitch(c) \/ FindSubnet(c) PROVE IInv'
    BY <2>4, FindSubnetStep
  <2>5. ASSUME NEW c \in Cluster, MakeVSwitch(c) \/ MakeSubnet(c) PROVE IInv'
    BY <2>5, MakeSubnetStep
  <2>6. ASSUME NEW c \in Cluster, FindGroupAlibaba(c) \/ FindGroupAws(c) \/ FindGroupTencent(c)
        PROVE  IInv'
    BY <2>6, FindGroupStep
  <2>7. ASSUME NEW c \in Cluster, MakeGroupAlibaba(c) \/ MakeGroupAws(c) \/ MakeGroupTencent(c)
        PROVE  IInv'
    BY <2>7, MakeGroupStep
  <2>8. ASSUME NEW c \in Cluster, ReadRules(c) PROVE IInv'
    BY <2>8, ReadRulesStep
  <2>9. ASSUME NEW c \in Cluster, AuthorizeAlibaba(c) PROVE IInv'
    BY <2>9, AuthorizeAlibabaStep
  <2>10. ASSUME NEW c \in Cluster, AuthorizeAws(c) PROVE IInv'
    BY <2>10, AuthorizeAwsStep
  <2>11. ASSUME NEW c \in Cluster, AuthorizeTencent(c) PROVE IInv'
    BY <2>11, AuthorizeTencentStep
  <2>12. ASSUME NEW c \in Cluster, GetFirewall(c) PROVE IInv'
    BY <2>12, GetFirewallStep
  <2>13. ASSUME NEW c \in Cluster, PutFirewall(c) PROVE IInv'
    BY <2>13, PutFirewallStep
  <2>14. CASE UNCHANGED vars
    BY <2>14 DEF vars, cloud, IInv, TypeOK, CloudInv, OnceInv, AloneInv, ClusterInv, HoldsInv,
                 ChosenInv, ReadInv, SeenInv, DoneInv, Needed, Common, Open, At, InProgress
  <2> QED BY <2>1, <2>2, <2>3, <2>4, <2>5, <2>6, <2>7, <2>8, <2>9, <2>10, <2>11, <2>12, <2>13, <2>14
             DEF Next
<1> QED BY <1>1, <1>2, PTL DEF Spec

(* The state has its types. *)
THEOREM TypeCorrect == Spec => []TypeOK
<1>1. IInv => TypeOK
  BY DEF IInv
<1> QED BY <1>1, Invariance, PTL

(* The subnet a cluster uses is in its VPC: always but on Tencent, whose   *)
(* configNetwork looks in every VPC, and there while set-ups follow each   *)
(* other.                                                                  *)
THEOREM SubnetOfItsVpc == Spec => []SubnetInVpc
<1>1. IInv => SubnetInVpc
  <2> SUFFICES ASSUME IInv, NEW c \in Cluster, NEW s \in subnets, setup[c].subnet = s.id,
                      provider = "tencent" => alone
               PROVE  s.vpc = setup[c].vpc
    BY DEF SubnetInVpc
  <2>1. s.id # None
    BY NoneAssumption DEF IInv, TypeOK
  <2>2. PICK t \in subnets : t.id = setup[c].subnet /\ (provider # "tencent" => t.vpc = setup[c].vpc)
    BY <2>1 DEF IInv, ClusterInv, ChosenInv
  <2>3. s = t /\ s.vpc \in vpcs /\ setup[c].vpc \in vpcs
    BY <2>1, <2>2 DEF IInv, CloudInv, ClusterInv, ChosenInv, HoldsInv
  <2> QED BY <2>2, <2>3 DEF IInv, OnceInv
<1> QED BY <1>1, Invariance, PTL

(* Creates that follow each other, and fail anywhere in configNetwork, use *)
(* one VPC and one subnet in a zone.                                       *)
THEOREM OneNetwork == Spec => []NetworkReused
<1>1. IInv => NetworkReused
  <2> SUFFICES ASSUME IInv, alone PROVE NetworkReused
    BY DEF NetworkReused
  <2>1. ASSUME provider \in {"alibaba", "tencent"} PROVE Cardinality(vpcs) <= 1
    <3>1. CASE vpcs = {}
      BY <3>1, FS_EmptySet
    <3>2. CASE vpcs # {}
      <4>1. PICK v \in vpcs : TRUE
        BY <3>2
      <4>2. vpcs = {v}
        BY <2>1, <4>1 DEF IInv, OnceInv
      <4> QED BY <4>2, FS_Singleton
    <3> QED BY <3>1, <3>2
  <2> QED BY <2>1 DEF NetworkReused, IInv, OnceInv
<1> QED BY <1>1, Invariance, PTL

(* Once the set-up of a cluster is done, the ports it needs are and stay   *)
(* open to its nodes, whatever the set-ups of the other clusters add.      *)
THEOREM PortsOpen == Spec => []PortsStayOpen
<1>1. IInv => PortsStayOpen
  BY DEF IInv, ClusterInv, DoneInv, Needed, PortsStayOpen
<1> QED BY <1>1, Invariance, PTL
=============================================================================
