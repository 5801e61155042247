---------------------------- MODULE NodeInstall ----------------------------
(***************************************************************************)
(* How a host becomes a node: initNode of pkg/cluster/cluster.go brings    *)
(* docker, the registry file, the certificates of the datastore and the    *)
(* files of the airgap package to it over SSH, and then runs the install   *)
(* script with the arguments of pkg/cluster/commands.go.                   *)
(***************************************************************************)
EXTENDS Integers, FiniteSets

CONSTANTS Host,      \* the machines
          Token,     \* the cluster tokens that are drawn
          NoHost,    \* no address
          NoK3s      \* K3s is not installed

(* What a node is given before K3s is installed on it, in this order.      *)
Gift == {"docker", "registry", "certs", "package"}

(* How K3s was installed on a host, the last time. token: K3S_TOKEN;       *)
(* server: the first argument is "server"; init: --cluster-init; url: the  *)
(* address in --server or K3S_URL; datastore: --datastore-endpoint; sans:  *)
(* the addresses in --tls-san; hand: somebody ran it without AutoK3s.      *)
K3sType == [token : Token, server : BOOLEAN, init : BOOLEAN, url : Host \cup {NoHost},
            datastore : BOOLEAN, sans : SUBSET Host, hand : BOOLEAN]

ASSUME K3sAssumption == NoHost \notin Host /\ NoK3s \notin K3sType
ASSUME HostAssumption == IsFiniteSet(Host)

VARIABLES
  k3s,      \* how K3s is installed on each host
  gifts,    \* what each host was given
  stage     \* where initNode is on each host

hosts == <<k3s, gifts, stage>>

StageType == {"off", "docker", "registry", "certs", "package", "run", "done", "failed"}

---------------------------------------------------------------------------
(* The command line. *)

(* getTLSSans: the addresses of the masters of the cluster.                *)
GetTLSSans(c) == c.masters

(* Mutant: every master of an embedded etcd initialises one of its own.    *)
GetRunArgsInit(isFirst, fixedIP, c, master) ==
  [token |-> c.token, server |-> master, init |-> master /\ c.cluster /\ ~c.datastore,
   url |-> IF master THEN NoHost ELSE fixedIP, datastore |-> master /\ c.datastore,
   sans |-> IF master THEN GetTLSSans(c) ELSE {}, hand |-> FALSE]

(* getRunArgs and getCommand. A datastore overrides --cluster; only the    *)
(* first master of an embedded etcd initialises it, the others join it.    *)
GetRunArgs(isFirst, fixedIP, c, master) ==
  LET isCluster == c.cluster /\ ~c.datastore
  IN  [token |-> c.token,
       server |-> master,
       init |-> master /\ isCluster /\ isFirst,
       url |-> IF ~master \/ (isCluster /\ ~isFirst) THEN fixedIP ELSE NoHost,
       datastore |-> master /\ c.datastore,
       sans |-> IF master THEN GetTLSSans(c) ELSE {},
       hand |-> FALSE]

---------------------------------------------------------------------------
(* initNode on host h. *)

(* The order of the steps; one whose options are not set is passed over.   *)
StageAfter(s, needs) ==
  LET rest == CASE s = "off" -> <<"docker", "registry", "certs", "package">>
                [] s = "docker" -> <<"registry", "certs", "package">>
                [] s = "registry" -> <<"certs", "package">>
                [] s = "certs" -> <<"package">>
                [] OTHER -> <<>>
      wanted == {i \in DOMAIN rest : rest[i] \in needs}
  IN  IF wanted = {} THEN "run" ELSE rest[CHOOSE i \in wanted : \A j \in wanted : i <= j]

(* One of the steps before the install script: the commands ran, or an     *)
(* error is returned.                                                      *)
Give(h, s, needs) ==
  /\ stage[h] = s
  /\ \/ /\ gifts' = [gifts EXCEPT ![h] = @ \cup {s}]
        /\ stage' = [stage EXCEPT ![h] = StageAfter(s, needs)]
     \/ /\ stage' = [stage EXCEPT ![h] = "failed"]
        /\ UNCHANGED gifts
  /\ UNCHANGED k3s

InstallDocker(h, needs) == Give(h, "docker", needs)

(* handleRegistry, with registryTLSMap and saveRegistryTLS.                *)
HandleRegistry(h, needs) == Give(h, "registry", needs)

HandleDataStoreCertificate(h, needs) == Give(h, "certs", needs)

(* Mutant: an error of ScpFiles is only logged.                            *)
ScpFilesLogged(h, needs) ==
  /\ stage[h] = "package"
  /\ \/ gifts' = [gifts EXCEPT ![h] = @ \cup {"package"}]
     \/ UNCHANGED gifts
  /\ stage' = [stage EXCEPT ![h] = "run"]
  /\ UNCHANGED k3s

(* ScpFiles: the arch of the host must be in the package, and every file   *)
(* of it is copied, moved to its place and made executable.                *)
ScpFiles(h, needs) == Give(h, "package", needs)

(* The install script, with the arguments args. A failed one may have      *)
(* installed K3s all the same, or not have come that far.                  *)
RunInstall(h, args) ==
  /\ stage[h] = "run"
  /\ \/ k3s' = [k3s EXCEPT ![h] = args] /\ stage' = [stage EXCEPT ![h] = "done"]
     \/ k3s' = [k3s EXCEPT ![h] = args] /\ stage' = [stage EXCEPT ![h] = "failed"]
     \/ k3s' = k3s /\ stage' = [stage EXCEPT ![h] = "failed"]
  /\ UNCHANGED gifts

(* The uninstall scripts, of a server on the hosts M and of an agent on W: *)
(* each removes a K3s of its kind, its data and its configuration, and has *)
(* no effect where there is none; docker and the certificates stay. The    *)
(* commands mask a script that fails: M and W are those where it did not.  *)
Uninstall(M, W) ==
  LET gone == {h \in M \cup W : k3s[h] # NoK3s /\ h \in (IF k3s[h].server THEN M ELSE W)}
  IN  /\ k3s' = [h \in Host |-> IF h \in gone THEN NoK3s ELSE k3s[h]]
      /\ gifts' = [h \in Host |-> IF h \in gone THEN gifts[h] \ {"registry", "package"}
                                   ELSE gifts[h]]
=============================================================================
