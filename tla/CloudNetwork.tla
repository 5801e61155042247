---------------------------- MODULE CloudNetwork ----------------------------
(***************************************************************************)
(* The default network that the creates of different clusters share in one *)
(* cloud account: the VPC and the subnets (vswitches) that Alibaba and     *)
(* Tencent make and find again, and the default security group (on Google  *)
(* the firewall) with the rules that each cluster adds for its ports. The  *)
(* set-up of a cluster is a sequence of cloud calls; set-ups of several    *)
(* clusters interleave, and any call may fail, which ends the create, to   *)
(* be tried again.                                                         *)
(***************************************************************************)
EXTENDS Integers, FiniteSets

CONSTANTS Cluster,   \* clusters that are created in the account
          Zone,      \* zones they are created in
          Vpc,       \* ids of VPCs
          Subnet,    \* ids of subnets; the id stands for the address range too
          Group,     \* ids of security groups
          None,      \* no id yet
          Provider,  \* the providers that are looked at
          MaxTries   \* bound: set-ups begun in a behaviour

ASSUME NoneAssumption == None \notin Vpc \cup Subnet \cup Group
ASSUME TriesAssumption == MaxTries \in Nat
ASSUME ProviderAssumption == Provider \subseteq {"aws", "alibaba", "tencent", "google"}

Port == {"22", "6443", "10250", "8472/udp", "2379", "2380"}
Etcd == {"2379", "2380"}

(* The source of a rule: 0.0.0.0/0 or the range of a subnet.               *)
Rule == Port \X ({"any"} \cup Subnet)

VARIABLES
  provider,  \* the provider of the account
  vpcs,      \* the VPCs with the default name
  labelled,  \* those of them with the autok3s tag
  subnets,   \* the subnets of the account: [id, vpc, zone]
  groups,    \* the groups with the default name: [id, vpc]
  rules,     \* the ingress rules of each group
  setup,     \* the set-up of each cluster
  tries,     \* set-ups begun so far
  alone      \* history: no two set-ups have been under way together

cloud == <<vpcs, labelled, subnets, groups, rules>>
vars == <<provider, cloud, setup, tries, alone>>

(* What the provider object of a cluster holds: its zone, whether it has   *)
(* an embedded etcd (--cluster) and the vxlan backend, the VPC, subnet and *)
(* group it has chosen, and the rules of the group as it read them; lost:  *)
(* history, a call that adds a rule failed and was only logged.            *)
SetupType == [pc : {"idle", "vpc", "make_vpc", "subnet", "make_subnet", "group",
                    "make_group", "rules", "add", "done", "failed"},
              zone : Zone, ha : BOOLEAN, vxlan : BOOLEAN,
              vpc : Vpc \cup {None}, subnet : Subnet \cup {None},
              group : Group \cup {None}, seen : SUBSET Rule, lost : BOOLEAN]

InProgress(c) == setup[c].pc \notin {"idle", "done", "failed"}

(* AWS and Google use the network of the account: a VPC with a subnet in   *)
(* every zone (for Google the networks that --vm-network may name).        *)
Init ==
  /\ provider \in Provider
  /\ labelled = {}
  /\ IF provider \in {"aws", "google"}
     THEN \E v \in Vpc, f \in [Zone -> Subnet] :
            /\ \A y, z \in Zone : y # z => f[y] # f[z]
            /\ vpcs = IF provider = "aws" THEN {v} ELSE Vpc
            /\ subnets = {[id |-> f[z], vpc |-> v, zone |-> z] : z \in Zone}
     ELSE vpcs = {} /\ subnets = {}
  /\ groups = {}
  /\ rules = [g \in Group |-> {}]
  /\ \E z \in Zone :
       setup = [c \in Cluster |->
                  [pc |-> "idle", zone |-> z, ha |-> FALSE, vxlan |-> FALSE, vpc |-> None,
                   subnet |-> None, group |-> None, seen |-> {}, lost |-> FALSE]]
  /\ tries = 0
  /\ alone = TRUE

---------------------------------------------------------------------------
(* Helpers. *)

At(c, l) == setup[c].pc = l
Goto(c, l) == setup' = [setup EXCEPT ![c].pc = l]

(* A call fails: generateInstance returns its error.                       *)
Failed(c) == Goto(c, "failed") /\ UNCHANGED cloud

Stays == UNCHANGED <<provider, tries, alone>>

SubnetIds == {s.id : s \in subnets}
GroupIds == {g.id : g \in groups}

PortsOf(R) == {r[1] : r \in R}

(* The ports every cluster needs open to all.                              *)
Common(c) == {"22", "6443", "10250"} \cup IF setup[c].vxlan THEN {"8472/udp"} ELSE {}

FromAny(P) == P \X {"any"}

(* CreateCheck of the provider has passed and generateInstance begins. AWS *)
(* has chosen the subnet of the zone by then (CreateCheck), Google takes   *)
(* the network it is told; the others look for theirs.                     *)
Begin(c) ==
  /\ At(c, "idle") \/ At(c, "failed")
  /\ tries < MaxTries
  /\ tries' = tries + 1
  /\ alone' = (alone /\ \A d \in Cluster : ~InProgress(d))
  /\ \E z \in Zone, ha \in BOOLEAN, vx \in BOOLEAN, v \in vpcs \cup {None} :
     \E s \in {x \in subnets : provider = "aws" /\ x.zone = z}
                \cup {[id |-> None, vpc |-> v, zone |-> z]} :
       /\ provider = "aws" => s.id # None /\ v = s.vpc
       /\ provider = "google" => v # None
       /\ provider \in {"alibaba", "tencent"} => v = None
       /\ setup' = [setup EXCEPT ![c] =
            [pc |-> IF provider \in {"aws", "google"} THEN "group" ELSE "vpc",
             zone |-> z, ha |-> ha, vxlan |-> vx, vpc |-> v, subnet |-> s.id,
             group |-> None, seen |-> {}, lost |-> FALSE]]
  /\ UNCHANGED <<provider, cloud>>

---------------------------------------------------------------------------
(* VPC and subnet, Alibaba and Tencent. *)

(* Mutant: the VPC is looked for by the tag as well.                       *)
FindVpcLabelled(c) ==
  /\ At(c, "vpc") /\ provider = "alibaba"
  /\ \/ \E v \in labelled : setup' = [setup EXCEPT ![c].vpc = v, ![c].pc = "subnet"]
     \/ labelled = {} /\ Goto(c, "make_vpc")
     \/ Goto(c, "failed")
  /\ UNCHANGED cloud /\ Stays

(* configNetwork of Alibaba, first part: DescribeVpcs by the default name; *)
(* the first of the list is taken.                                         *)
FindVpc(c) ==
  /\ At(c, "vpc") /\ provider = "alibaba"
  /\ \/ \E v \in vpcs : setup' = [setup EXCEPT ![c].vpc = v, ![c].pc = "subnet"]
     \/ vpcs = {} /\ Goto(c, "make_vpc")
     \/ Goto(c, "failed")
  /\ UNCHANGED cloud /\ Stays

(* configNetwork of Tencent, first part: by the name and by the tag, which *)
(* its VPCs are created with.                                              *)
FindVpcTencent(c) ==
  /\ At(c, "vpc") /\ provider = "tencent"
  /\ \/ \E v \in labelled : setup' = [setup EXCEPT ![c].vpc = v, ![c].pc = "subnet"]
     \/ labelled = {} /\ Goto(c, "make_vpc")
     \/ Goto(c, "failed")
  /\ UNCHANGED cloud /\ Stays

(* generateDefaultVPC of Alibaba: create, then tag, then wait until it is  *)
(* available. An error after the first call leaves the VPC.                *)
MakeVpcAlibaba(c) ==
  /\ At(c, "make_vpc") /\ provider = "alibaba"
  /\ \/ \E v \in Vpc \ vpcs :
          /\ vpcs' = vpcs \cup {v}
          /\ \/ labelled' = labelled /\ Goto(c, "failed")
             \/ labelled' = labelled \cup {v} /\ Goto(c, "failed")
             \/ /\ labelled' = labelled \cup {v}
                /\ setup' = [setup EXCEPT ![c].vpc = v, ![c].pc = "make_subnet"]
          /\ UNCHANGED <<subnets, groups, rules>>
     \/ Failed(c)
  /\ Stays

(* generateDefaultVPC of Tencent: created with its tag by one call.        *)
MakeVpcTencent(c) ==
  /\ At(c, "make_vpc") /\ provider = "tencent"
  /\ \/ \E v \in Vpc \ vpcs :
          /\ vpcs' = vpcs \cup {v}
          /\ labelled' = labelled \cup {v}
          /\ setup' = [setup EXCEPT ![c].vpc = v, ![c].pc = "make_subnet"]
          /\ UNCHANGED <<subnets, groups, rules>>
     \/ Failed(c)
  /\ Stays

(* The subnet of the zone, or one has to be made.                          *)
TakeSubnet(c, candidates) ==
  \/ \E s \in {x \in candidates : x.zone = setup[c].zone} :
       setup' = [setup EXCEPT ![c].subnet = s.id, ![c].pc = "group"]
  \/ (\A x \in candidates : x.zone # setup[c].zone) /\ Goto(c, "make_subnet")
  \/ Goto(c, "failed")

(* Mutant: the vswitches are not asked for by their VPC.                   *)
FindVSwitchAnywhere(c) ==
  /\ At(c, "subnet") /\ provider = "alibaba"
  /\ TakeSubnet(c, subnets)
  /\ UNCHANGED cloud /\ Stays

(* configNetwork of Alibaba, second part: the vswitches of the VPC.        *)
FindVSwitch(c) ==
  /\ At(c, "subnet") /\ provider = "alibaba"
  /\ TakeSubnet(c, {s \in subnets : s.vpc = setup[c].vpc})
  /\ UNCHANGED cloud /\ Stays

(* configNetwork of Tencent, second part: every subnet with the tag,       *)
(* whichever VPC it is in.                                                 *)
FindSubnet(c) ==
  /\ At(c, "subnet") /\ provider = "tencent"
  /\ TakeSubnet(c, subnets)
  /\ UNCHANGED cloud /\ Stays

(* A subnet for the VPC and the zone of c.                                 *)
AddSubnet(c, s) ==
  /\ subnets' = subnets \cup {[id |-> s, vpc |-> setup[c].vpc, zone |-> setup[c].zone]}
  /\ UNCHANGED <<vpcs, labelled, groups, rules>>

(* generateDefaultVSwitch of Alibaba: create, tag, wait; as for the VPC an *)
(* error may leave it behind.                                              *)
MakeVSwitch(c) ==
  /\ At(c, "make_subnet") /\ provider = "alibaba"
  /\ \/ \E s \in Subnet \ SubnetIds :
          /\ AddSubnet(c, s)
          /\ \/ setup' = [setup EXCEPT ![c].subnet = s, ![c].pc = "group"]
             \/ Goto(c, "failed")
     \/ Failed(c)
  /\ Stays

(* generateDefaultSubnet of Tencent is one call.                           *)
MakeSubnet(c) ==
  /\ At(c, "make_subnet") /\ provider = "tencent"
  /\ \/ \E s \in Subnet \ SubnetIds :
          /\ AddSubnet(c, s)
          /\ setup' = [setup EXCEPT ![c].subnet = s, ![c].pc = "group"]
     \/ Failed(c)
  /\ Stays

---------------------------------------------------------------------------
(* The default security group. *)

(* The group of the default name, made for VPC v, and its rules to come.   *)
MakeGroupFor(g, v) == groups' = groups \cup {[id |-> g, vpc |-> v]}
                           /\ UNCHANGED <<vpcs, labelled, subnets, rules>>
TakeGroup(c, g, seen, next) ==
  setup' = [setup EXCEPT ![c].group = g, ![c].seen = seen, ![c].pc = next]

GroupsOf(v) == {g \in groups : g.vpc = v}

(* configSecurityGroup of Alibaba: the group of the name in the VPC, with  *)
(* its rules, which another call reads, whose error means that a group is  *)
(* made.                                                                   *)
FindGroupAlibaba(c) ==
  /\ At(c, "group") /\ provider = "alibaba"
  /\ \/ \E g \in GroupsOf(setup[c].vpc) : TakeGroup(c, g.id, rules[g.id], "add")
     \/ Goto(c, "make_group")
     \/ Goto(c, "failed")
  /\ UNCHANGED cloud /\ Stays

(* configSecurityGroup of AWS: the description has the rules.              *)
FindGroupAws(c) ==
  /\ At(c, "group") /\ provider = "aws"
  /\ \/ \E g \in GroupsOf(setup[c].vpc) : TakeGroup(c, g.id, rules[g.id], "add")
     \/ GroupsOf(setup[c].vpc) = {} /\ Goto(c, "make_group")
     \/ Goto(c, "failed")
  /\ UNCHANGED cloud /\ Stays

(* configSecurityGroup of Tencent: a group belongs to no VPC; its rules    *)
(* are read afterwards.                                                    *)
FindGroupTencent(c) ==
  /\ At(c, "group") /\ provider = "tencent"
  /\ \/ \E g \in groups : setup' = [setup EXCEPT ![c].group = g.id, ![c].pc = "rules"]
     \/ groups = {} /\ Goto(c, "make_group")
     \/ Goto(c, "failed")
  /\ UNCHANGED cloud /\ Stays

(* CreateSecurityGroup of Alibaba; the description after it may fail.      *)
MakeGroupAlibaba(c) ==
  /\ At(c, "make_group") /\ provider = "alibaba"
  /\ \/ \E g \in Group \ GroupIds :
          /\ MakeGroupFor(g, setup[c].vpc)
          /\ TakeGroup(c, g, {}, "add") \/ Goto(c, "failed")
     \/ Failed(c)
  /\ Stays

(* CreateSecurityGroup of AWS; the wait for it may fail.                   *)
MakeGroupAws(c) ==
  /\ At(c, "make_group") /\ provider = "aws"
  /\ \/ \E g \in Group \ GroupIds :
          /\ MakeGroupFor(g, setup[c].vpc)
          /\ TakeGroup(c, g, {}, "add") \/ Goto(c, "failed")
     \/ Failed(c)
  /\ Stays

(* generateDefaultSecurityGroup of Tencent: one call.                      *)
MakeGroupTencent(c) ==
  /\ At(c, "make_group") /\ provider = "tencent"
  /\ \/ \E g \in Group \ GroupIds :
          MakeGroupFor(g, None) /\ TakeGroup(c, g, {}, "rules")
     \/ Failed(c)
  /\ Stays

(* DescribeSecurityGroupPolicies of Tencent, and the range of the subnet.  *)
ReadRules(c) ==
  /\ At(c, "rules")
  /\ setup' = [setup EXCEPT ![c].seen = rules[setup[c].group], ![c].pc = "add"]
       \/ Goto(c, "failed")
  /\ UNCHANGED cloud /\ Stays

(* One call adds the rules R to the cluster's group.                       *)
AddRules(c, R) ==
  /\ rules' = [rules EXCEPT ![setup[c].group] = @ \cup R]
  /\ UNCHANGED <<vpcs, labelled, subnets, groups>>

(* configDefaultSecurityPermissions of Alibaba: what is missing, and vxlan *)
(* always; a call per rule, whose error is logged. No rule for etcd.       *)
AuthorizeAlibaba(c) ==
  LET missing == FromAny((Common(c) \ PortsOf(setup[c].seen)) \cup (Common(c) \cap {"8472/udp"}))
  IN  /\ At(c, "add") /\ provider = "alibaba"
      /\ \E R \in SUBSET missing :
           /\ AddRules(c, R)
           /\ setup' = [setup EXCEPT ![c].pc = "done", ![c].lost = (R # missing)]
      /\ Stays

(* The range of the subnet or, when that cannot be read, any.              *)
GetSubnetCIDR(c) == {"any", setup[c].subnet}

(* configPermission and AuthorizeSecurityGroupIngress of AWS: one call for *)
(* all that is missing. The etcd ports are added when the group has no     *)
(* rule for them at all.                                                   *)
AuthorizeAws(c) ==
  LET s == setup[c]
      etcd(src) == IF s.ha /\ ~(Etcd \subseteq PortsOf(s.seen)) THEN Etcd \X {src} ELSE {}
  IN  /\ At(c, "add") /\ provider = "aws"
      /\ \/ \E src \in GetSubnetCIDR(c) :
              /\ AddRules(c, FromAny(Common(c) \ PortsOf(s.seen)) \cup etcd(src))
              /\ Goto(c, "done")
         \/ Failed(c)
      /\ Stays

(* Mutant: a rule for etcd counts whatever subnet it is for.               *)
AuthorizeTencentAnySource(c) ==
  LET s == setup[c] IN
  /\ At(c, "add") /\ provider = "tencent"
  /\ \/ /\ AddRules(c, FromAny(Common(c) \ PortsOf(s.seen))
                         \cup IF Etcd \subseteq PortsOf(s.seen) THEN {} ELSE Etcd \X {s.subnet})
        /\ Goto(c, "done")
     \/ Failed(c)
  /\ Stays

(* configDefaultSecurityPermission of Tencent: the etcd ports are added,   *)
(* with or without --cluster, unless both are open to this subnet. One     *)
(* call for the ingress rules; the one for the egress rule may fail after. *)
AuthorizeTencent(c) ==
  LET s == setup[c]
      open == {p \in Etcd : <<p, "any">> \in s.seen \/ <<p, s.subnet>> \in s.seen}
  IN  /\ At(c, "add") /\ provider = "tencent"
      /\ \/ /\ AddRules(c, FromAny(Common(c) \ PortsOf(s.seen))
                             \cup IF open = Etcd THEN {} ELSE Etcd \X {s.subnet})
            /\ Goto(c, "done") \/ Goto(c, "failed")
         \/ Failed(c)
      /\ Stays

---------------------------------------------------------------------------
(* The firewall of Google. *)

(* ensureFirewall: Firewalls.Get, whose error counts as "there is none".   *)
GetFirewall(c) ==
  /\ At(c, "group") /\ provider = "google"
  /\ \/ \E g \in groups : setup' = [setup EXCEPT ![c].group = g.id, ![c].seen = rules[g.id],
                                                 ![c].pc = "add"]
     \/ setup' = [setup EXCEPT ![c].pc = "add"]
  /\ UNCHANGED cloud /\ Stays

(* configPorts and Insert or Update: the whole firewall is written, as it  *)
(* was read and with the ports that were missing; nothing is written when  *)
(* none was. The name is taken once, so a second Insert is refused. The    *)
(* firewall keeps the network it was created with. The wait for what was   *)
(* written may fail too.                                                   *)
PutFirewall(c) ==
  LET s == setup[c]
      ports == FromAny(Common(c) \cup IF s.ha THEN Etcd ELSE {})
  IN  /\ At(c, "add") /\ provider = "google"
      /\ \/ /\ s.group # None
            /\ rules' = IF ports \subseteq s.seen THEN rules
                        ELSE [rules EXCEPT ![s.group] = s.seen \cup ports]
            /\ \E l \in {"done", "failed"} : Goto(c, l)
            /\ UNCHANGED <<vpcs, labelled, subnets, groups>>
         \/ /\ s.group = None /\ groups = {}
            /\ \E g \in Group, l \in {"done", "failed"} :
                 /\ groups' = {[id |-> g, vpc |-> s.vpc]}
                 /\ rules' = [rules EXCEPT ![g] = ports]
                 /\ setup' = [setup EXCEPT ![c].group = g, ![c].pc = l]
            /\ UNCHANGED <<vpcs, labelled, subnets>>
         \/ Failed(c)
      /\ Stays

---------------------------------------------------------------------------
Next ==
  \E c \in Cluster :
    \/ Begin(c)
    \/ FindVpc(c) \/ FindVpcTencent(c) \/ MakeVpcAlibaba(c) \/ MakeVpcTencent(c)
    \/ FindVSwitch(c) \/ FindSubnet(c) \/ MakeVSwitch(c) \/ MakeSubnet(c)
    \/ FindGroupAlibaba(c) \/ FindGroupAws(c) \/ FindGroupTencent(c)
    \/ MakeGroupAlibaba(c) \/ MakeGroupAws(c) \/ MakeGroupTencent(c) \/ ReadRules(c)
    \/ AuthorizeAlibaba(c) \/ AuthorizeAws(c) \/ AuthorizeTencent(c)
    \/ GetFirewall(c) \/ PutFirewall(c)

Spec == Init /\ [][Next]_vars

---------------------------------------------------------------------------
(* The state has its types.                                                *)
TypeOK ==
  /\ provider \in Provider
  /\ vpcs \subseteq Vpc /\ labelled \subseteq vpcs
  /\ subnets \subseteq [id : Subnet, vpc : Vpc, zone : Zone]
  /\ groups \subseteq [id : Group, vpc : Vpc \cup {None}]
  /\ rules \in [Group -> SUBSET Rule]
  /\ setup \in [Cluster -> SetupType]
  /\ tries \in 0..MaxTries
  /\ alone \in BOOLEAN

Open(c, p) ==
  \E src \in {"any", setup[c].subnet} : <<p, src>> \in rules[setup[c].group]

SameNetwork(c) ==
  \A g \in groups : g.id = setup[c].group => g.vpc = setup[c].vpc \/ g.vpc = None

(* Once the set-up of a cluster is done, the group of its nodes has and    *)
(* keeps the ports of the table in docs/i18n/en_us/tencent/README.md:84-92 *)
(* open to its own subnet, whatever the other clusters add: on Google if   *)
(* no two set-ups were under way together (Update writes back what was     *)
(* read) and the firewall is of the cluster's network; on Alibaba if no    *)
(* rule was lost, and but for etcd, which it opens for nobody; on AWS but  *)
(* for etcd.                                                               *)
PortsStayOpen ==
  \A c \in Cluster :
    At(c, "done") /\ SameNetwork(c) /\ ~setup[c].lost /\ (provider = "google" => alone) =>
      \A p \in Common(c) \cup
               (IF setup[c].ha /\ provider \in {"tencent", "google"} THEN Etcd ELSE {}) :
        Open(c, p)

(* Creates that follow each other, and fail anywhere in configNetwork, use *)
(* one VPC and one subnet in a zone: what a failed create left is found.   *)
NetworkReused ==
  alone =>
    /\ provider \in {"alibaba", "tencent"} => Cardinality(vpcs) <= 1
    /\ \A s, t \in subnets : s.zone = t.zone => s = t

(* The subnet a cluster uses is in its VPC: always on Alibaba and AWS, and *)
(* on Tencent, which looks in every VPC, while set-ups follow each other.  *)
SubnetInVpc ==
  \A c \in Cluster, s \in subnets :
    setup[c].subnet = s.id /\ (provider = "tencent" => alone) => s.vpc = setup[c].vpc
=============================================================================
