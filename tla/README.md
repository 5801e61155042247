# AutoK3s: models, checks and proofs

AutoK3s creates and manages K3s clusters on cloud instances, from a command line
or from an API server with a UI. This directory holds TLA+ models of its core,
TLC configurations that check them on small instances, and TLAPS proofs.
Paths below are relative to `src/`. `PROJECT.json` lists every component, run,
mutant, hazard, finding and theorem, and maps each definition to the lines it models.

## 1. The system

| Part | State it keeps | Operations | Talks to |
|---|---|---|---|
| Provider base `pkg/cluster/base.go`, `cluster.go` | provider object of one request: `p.M`, `p.ErrM`, metadata | `InitCluster`, `JoinNodes`, `UpgradeK3sCluster`, `DeleteCluster`, `RollbackCluster`, `ListClusters` | database, cloud provider, nodes by SSH, kubeconfig, explorer |
| Cloud providers `pkg/providers/{aws,alibaba,tencent,google}` | none of their own; instances, addresses, networks and groups found by tags, labels and names | make, tag, find, release | the cloud's API |
| k3d and native providers `pkg/providers/{k3d,native}` | containers; hosts that exist | make containers; install and uninstall over SSH; `syncInstanceNodes` | the k3d library; hosts, the cluster's API server |
| Installation `pkg/cluster/cluster.go`, `commands.go`, `pkg/airgap/file_scp.go` | what a host was given, how K3s was started | `initNode`, `getCommand`, `ScpFiles` | hosts by SSH |
| Database `pkg/common/model.go`, `db.go` | rows of clusters, templates, credentials, explorers, packages, keys, settings | `SaveCluster`, `SaveClusterState`, `DeleteCluster`, ... | broadcaster (gorm hooks), metrics |
| Broadcaster `pkg/common/broadcast.go` | the registered channels, a mutex | `Register`, `Evict`, `Broadcast` | the loops of `Store.Watch` and `Store.Log`, websockets |
| Kubeconfig `pkg/common/file.go` | `.kube/config`, the variable `KUBECONFIG` | `SaveCfg`, `ClearCfgByContext` | create, join (native), delete, list, rollback, dashboard |
| Airgap `pkg/airgap`, `pkg/server/store/pkg` | package record, package directory, `cancelDownloadMap` | create, update, download, cancel, remove, import | the K3s release source, database |
| Explorer and dashboard `pkg/common/explorer.go`, `dashboard.go` | `ExplorerWatchers`, explorer rows, a child process | enable, disable, start at launch | create, delete, API actions |
| Metrics `pkg/common/metrics.go` | gauges by provider and K3s version | counted at start, moved by inserts and deletes | database |
| Shells `pkg/hosts`, `pkg/server/store/websocket` | SSH or docker session, websocket | connect, copy, resize, close | browser, node |
| Stores `pkg/server/store/*` | rows | REST handlers | all of the above |

The API server answers a request at once and runs the operation in a goroutine
of its own. **Nothing serialises operations on one cluster or one package.** The
command line runs the same code, one operation per process, on the same database.

What is hard here: operations of several steps against things that fail one by one (cloud,
SSH, database, disk); deferred functions that must put row, cloud and kubeconfig in agreement again;
goroutines that each hold a copy of a row and write all of it back; a variable of
the process used as a parameter; channels whose two ends are closed by
different goroutines; a process that may end at any step. What makes each part correct:

- *lifecycle*: a Running row is a running cluster; no row, no resources; unfinished
  statuses end; a rollback destroys its own instances only; the gauge counts rows;
- *broadcaster*: no send on a closed channel; each event once and in order; every broadcast returns;
- *kubeconfig*: a saved context stays; other clusters' entries are untouched; `KUBECONFIG` is set back;
- *airgap*: `.done` never lies; Active means downloaded; a record in progress has a download;
- *other providers*: a join never costs the cluster the nodes it had; a delete finds what failed operations left;
- *networks*: what one create left the next finds; a cluster's ports stay open whatever other clusters add;
- *native*: the row's nodes form one cluster; nodes of others are left alone;
- *shells*: no send on a closed channel, no output behind the close message, nobody left waiting once shell or client is gone;
- *explorer*: one child process per entry.

## 2. Modules

| Module | Models |
|---|---|
| `Broadcaster` | the broadcaster, its callers, subscriber loops and the goroutines that read from them |
| `ClusterStatus` | abstract: the statuses a user sees when operations come one at a time |
| `ClusterLifecycle` | one cluster through all operations of `ProviderBase` and the AWS provider |
| `KubeConfig` | the kubeconfig file and `KUBECONFIG` |
| `AirgapPackage` | one package: record, directory, downloads |
| `CloudProvider` | what the next four share: the base's control of an operation, row, instances, addresses |
| `Alibaba`, `Tencent`, `Google`, `K3d` | one provider each: create, join, delete, rollback, call by call |
| `Providers` | the registry: one of the four, and the properties they have in common |
| `CloudNetwork` | the default network of an account that creates of several clusters share |
| `NodeInstall` | `initNode` on a host and the flags of the K3s command |
| `Native` | a cluster on existing hosts, with syncs and hands beside it (extends `NodeInstall`) |
| `Shell` | one terminal session in the browser |
| `MC...` | the instances TLC checks: small sets, symmetry (and `TotalIsSum`, that `Total` of `GaugeTotal` is the library's sum over the versions) |
| `...Proofs` | theorems and their proofs |

Definitions named after a bug (`EvictUnlocked`, `DiffByArch`, ...) are mutants: the
specification never uses them. With one in the place of the definition it varies, TLC must find
the property it is paired with violated.

### Broadcaster

`m` is the mutex, `subs` the map, `closed` the closed channels; `pending[w]` holds
the publish goroutines `wg.Wait` still waits for. Channels are unbuffered, so a
send and its receive are one step. A subscriber is of one of three kinds: read by
the API server until the channel is closed (*direct*), read by the second loop of the cluster or
template store, which leaves when the request is done (*relay*), or `Store.Log` read by `logHandler`, which closes a
channel it does not own (*log*). `Broadcaster.Close` is never called.

### ClusterLifecycle

A goroutine's `op` holds what its provider object and local variables hold: `st`
(the cluster it works on), `mine` (nodes of `p.M` it created), `errM` (`p.ErrM`), `er` (the named
result). `pc` names the call it performs next. A step ends where the code waits for
a remote call or for the database. Four times a read of the row and the write that follows it at once are one step (the beginning of a join, an upgrade
and a delete, the end of a join): the status written there does not depend on the one read.

- *Create*: `CreateRequest` (checks), `CSave`, `CKeys`, `CMasters`, `CWorkers`,
  `CInit` (nodes over SSH), `CCfg`, `CRunning`, `CExplorer`, `CManifest`, `CDefer` (the read of the
  deferred function) and `CWrite` (its write),
  then `RollbackInstances`, `RollbackContext`.
- *Join*: `JoinRequest`, `JBegin`, `JMasters`, `JWorkers`, `JSync`, `JJoin`, `JSave`,
  `JDefer` (or `JDeferPanics`), then the rollback.
- *Upgrade*: `UpgradeRequest`, `UBegin`, `UNodes`, `UDefer`, `UCCM`.
- *Delete*: `DeleteRequest`, `DBegin`, `DCloud`, `DCfg`, `Store.DeleteCluster` as `DRow` (read), `DDelete`, `DCount` (the gauge),
  `DExplorer`.
- *List*: `ListRequest`, `LCloud`, `LMark`.
- *Environment*: `CloudLoss` (instances deleted in the console), `Crash` and the `Restart` after it.

Instances are `inst` (running, with the cluster's tags), `untagged` (running without them, so no
search finds them); `k3s` are those K3s is installed on. Installation is one step with every set of
nodes it may leave installed, since no other part reads the state between. Left out: the
log file, callbacks (they call `Broadcast`, see above), flags that only shape
command lines. History variables for the properties: `cloudFailed`, `panicked`, `restored` (a create has written back Creating or Upgrading, as read, over the
status that had replaced it) and `twice` (a delete has found the row gone that it had read, and counts it all the same; a restart counts afresh).

Constants choose the setting: `Server` (goroutines of the server or a
command), `Forced`, `Rollback`, `DBFails` (database and kubeconfig file may fail), `Orderly`
(join and upgrade are asked only of Running clusters; the code accepts any).

### KubeConfig

`file` maps each context to the save its entries come from. `env` is `KUBECONFIG`: the file, or the file
and one goroutine's temporary file. `OverwriteCfg` holds the mutex from read to
write and is one step. It may fail before the write, or halfway: `clientcmd.WriteToFile` empties the file first, so that a beginning of the new contents
is left (`Cut`: some contexts, or all of them and some users), or something that cannot be parsed (`~ok`), with which every later save and clear fails; `tears` counts such writes.
KUBECONFIG is not under the mutex: each `Setenv` outside the mutex is a step of its own, or part of
the step of its goroutine just before. The merge of clientcmd is external: of two files the first that has an entry counts. `Overlap` says
what may run at the same time: nothing, other contexts, anything. `Within` says which user names contain another context's name.

### AirgapPackage

The directory is `base` (exists), `vfile` (version.json), `done` (.done) and, for each arch, the
versions its files come from, whether all are there, and its own .done. The
steps `DStart` ... `DVerified` are those of `downloadPackage`, split where a goroutine waits for the
network or has saved the record. `Verifies` is what `verifyArchFiles` can tell: the list of checksums is itself one
of the files, so complete files of one old version pass. `os.RemoveAll` deletes entry by entry, in any order: of an unwanted arch (`DRemoveSome`, then `DRemove`), or of the
whole package (`RemoveSome`, then `RemoveEnds`; `removal` says for whom: the API's delete, which has deleted the record before, the remove command, which deletes it afterwards, or a failed
import). A crash may come after any entry, and with `RemoveFails` an error; `halved` are the archs of which a removal has left `.done` and not all files. The local disk does not fail elsewhere,
and the database does not fail in this model. Archs are fetched in any order, the code takes them sorted.

### CloudProvider, Alibaba, Tencent, Google, K3d, Providers

`ClusterLifecycle` has the operations that overlap, on AWS; these modules have one operation at a time and every
cloud call of it. `op` is the provider object: `made` (nodes of `p.M` with `RollBack`), `known` (`p.Status`),
`errM`, `tried` (addresses it tried to associate). `inst` are the instances with the cluster's tags,
`eip` says what each address is associated with, `tagged` which addresses carry the tags. A failing call either
ends the operation (`Fail`) or is logged (`Logged`), as in the code; `op.bad` remembers it. The queries by tags and labels that do not ask for the next page answer with any `Page`
of the records when there are more (`OnePage`): `ListTagResources` and `ListVpcTagResources` of Alibaba, `DescribeResourcesByTags` and `DescribeAddresses` of Tencent, the list of Google. AWS and Tencent's
`describeInstances` do ask. `op.many` remembers that a delete began with more than a page. Left out: a Tencent create with more new addresses than one answer of `describeAddresses` holds
(`tencent.go:1343`).

| | instances | addresses | rollback | delete |
|---|---|---|---|---|
| Alibaba | one call; fewer than asked is an error that forgets the ids | allocated one by one, tagged afterwards | addresses of all new nodes, then the ids | addresses by tags, then instances by tags |
| Tencent | same | allocated and tagged in one call; a failed association is forgotten | addresses of the ids | same |
| Google | one by one; in `p.M` only after three more calls | part of the instance | each id, errors logged | each instance with the labels, errors logged |
| k3d | all containers in one call of the library, which may stop halfway | none | the whole cluster, if there is an id | the whole cluster |

`Providers` instantiates the four; `provider` is chosen once, like the row's provider. `stopped` are containers of k3d that do not run.
`InstallPanics` (Tencent) is the index into an empty list of addresses; on Google
`UseInternalIPOnly` panics in the same way after the first instance (`google.go:530`), and the operation ends where it is.

### CloudNetwork

`vpcs`, `labelled`, `subnets`, `groups` and `rules` are the account; `setup[c]` is what the provider object of
cluster `c` has found so far. One step per cloud call, per provider, since each provider looks for things by other keys (name, tag, VPC) and
makes and tags them in another order. A subnet's id stands for its address range. Set-ups of different clusters interleave and a
failed one may be tried again, also one whose firewall was accepted and whose wait failed; `alone` remembers whether two were ever under way together.

### NodeInstall and Native

`stage[h]` is where `initNode` is on host `h`; `gifts[h]` what it was given (docker, registry file, certificates, airgap files),
`k3s[h]` how K3s was started there: token, role, `--cluster-init`, the server it was pointed to, `--tls-san`. `Give`
is a step that runs commands over SSH or fails. Workers are installed side by side (a goroutine each, and a wait group), masters one
after the other. `kube` is what the cluster's API server lists. `Native` adds the operations, the `syncInstanceNodes` of a
list or describe in another goroutine or process, split at its two reads of the row and its write (`SyncRead`, `SyncList`, `SyncWrite`), `Register` (a node that appears in the API server later) and `JoinByHand`.
`JoinRequest` takes every join that `JoinCheck` lets through: to a cluster of any status, of hosts it has in the other role, of one master to a cluster without etcd or datastore (which
becomes a server of its own with an API of its own, `Serving`). `astray` remembers that a sync wrote back a row that was not the row's any more, or that a join was of a kind `Join` does not expect (`Strays`).
`k3s[h]` is the last installation on a host; an uninstall script removes a K3s of its own role only, and its failure is masked by the command.

### Shell

The goroutines of one session: handler `h` (dial, open, `readMessage`, return), `input` and `output` (the two `io.Copy`), `waiter` (of
`readMessage`), `exec` (of the docker shell's `ExecStart`). `stop` is `ClosedCh`, with its one place and its close; `exited` is `sessionClosed`; `outputDone` and
`detached` have no buffer, so send and receive are one step. The browser may leave, the shell exit and the request end at any moment.
`ssh`, `docker` and `pty` differ in who waits for whom (`Wait`) and in what is deferred. A message may be empty, or come in two parts with the client leaving between them: `ReadEmpty` and `ReadCut` are
the returns of `TerminalReader.Read` that send nothing on `ClosedCh` (`silent`). A write to the shell may wait for it to read (`block`), which it need not do (`ShellReads`).

## 3. What TLC checks

Passing runs (`deadlock` is not checked: requests are bounded, so every behaviour ends):

| Run | Checks | Bounds |
|---|---|---|
| `broadcaster` | `NoSendOnClosed`, `DeliveredInOrder`, `ReturnsWhileRead`, with clients that come and go | 2 writers, 3 subscribers (one of each kind), 2 events |
| `lifecycle_cli` | `RunningIsReal`, `NothingLeft`, `StatusMachine` (implements `ClusterStatus`) | 4 commands in a row, 2 masters, 3 workers, 1 loss |
| `lifecycle_server` | `InProgressHasOwner`, `GaugeTotal`, `RollbackOwnOnly`, `StatusSettles` | 2 goroutines, 3 operations in any order, 1 master, 2 workers |
| `lifecycle_faults` | `RowCoversInstances` | database faults anywhere, 2 K3s versions, 1 crash, 1 loss, 3 commands |
| `airgap_faults` | `DoneArchIsReal`, `KeepsWanted` | 5 requests, 2 versions, 2 archs, faults, cancels, removals that stop anywhere, imports over the package, 1 crash |
| `airgap_overlap` | `InProgressHasDownloader`, `CancelReachesRunning`, `StateSettles` | 2 downloads at a time, 2 versions, 1 arch, 3 requests |
| `kubeconfig_overlap` | `CurrentExists`, `CredentialsMatch`, `EnvRestored`, `OthersKept` | 3 goroutines, 2 contexts, 4 operations, reads and writes that fail, also halfway |
| `providers` | `JoinKeepsCluster`, `AddedNodesUsable`, `RemovedMeansEnded`, `CleanDelete` | 4 operations on each of 4 providers, 2 masters, 3 workers, 4 addresses, every call may fail, pages of 4 records |
| `network` | `PortsStayOpen`, `NetworkReused`, `SubnetInVpc` | 3 set-ups of 2 clusters in 2 zones, 2 VPCs, 3 subnets, 2 groups, 4 providers |
| `native` | `ReadyBeforeStart`, `OneCluster`, `JoinKeepsNodes`, `HandNodesKept`, `DeleteUninstalls` | 3 hosts, 2 tokens, 3 operations, 1 sync and 1 join by hand, 3 settings; all together 6 with an operation counted as two and going astray as two more |
| `shell` | `NoSendOnClosed`, `ByeIsLast`, `HandlerReturns`, `GoroutinesEnd` | one session of each kind, 2 dials, 2 messages of the client (empty, long, cut off, ...), 1 write of the shell |

Why the bounds are enough for the questions asked: an interleaving matters between two operations,
and a third brings the row into the state they meet on (create, then two at once). With one master and
two workers a create of which one worker fails overlaps with a join or an upgrade, which is what `restored` is about, and a create without workers and a join
beside it each have an instance of their own, which is what `RollbackOwnOnly` tells apart; two deletes at once are what `GaugeTotal` has to tell from one. In `lifecycle_cli` two workers of one
operation are needed for one to fail and one to succeed, a third so that a join adds to a
cluster that has some; two archs and two versions are what an update can
keep, add, drop or replace; a third goroutine in `KubeConfig` resets the variable while two others overlap.
In `providers` a create, a join of two workers of which one fails, a delete that fails and the next delete fit in four operations, and
four addresses are what a create with three nodes and one left over by an error need; pages of four
records make a cluster of five nodes, or of three with their addresses on Tencent, longer than one answer, and smaller ones not. `network` wants two set-ups that overlap and a third that finds what
they left. In `native` a first node and two that join or fail side by side are three hosts; a second token is what a retried create draws.
In `shell` a dial that fails and is tried again, and the last one, are two (the code's backoff has 5 steps: how many came before is used nowhere else). The
copies handle one message at a time: the second message of the client may arrive while the first is not yet read to its end or written, and a write of the
shell that has been copied leaves everything as it was, so that one, at any moment, meets all there is to meet.

Fairness. `ClusterLifecycle` and `AirgapPackage`: weak fairness of every goroutine's steps. Go schedules every
goroutine. The SDKs, the SSH dialer and the HTTP client have timeouts or retries that are counted; a command on a node has none (`session.Run`, `pkg/hosts/dialer/ssh.go:200`), so that
it ends is an assumption of `StatusSettles`. Requests, losses and crashes are never required. `Broadcaster`:
weak fairness of each goroutine's own step; none for new requests, new broadcasts or clients that leave. `Shell`: weak fairness of each
goroutine, and of the shell's end once it has lost its terminal or its input (`ShellHangsUp`): the kernel sends SIGHUP, and a shell that reads
end of file exits. Nothing is assumed of the client or of the user, and what runs in the shell need not read; that a write to the websocket ends, also to a client
that stays and does not read, is assumed. For a docker shell that is an assumption about the program in the container. The other
new modules state safety only: their operations are sequences of calls without a wait for each other.

One run ends in a violation of a line of the repository (quoted in `PROJECT.json`, `findings`): in `broadcaster_deadlock` a client
leaves while a Broadcast waits for it; its loop goes to `Evict`, which waits for the mutex that Broadcast holds.

Where a property is stated with a condition, the condition is a limit the models have shown the code to have:

- `RunningIsReal` is checked with `Orderly`: an upgrade asked of a Failed cluster makes its row Running (`base.go:1348`).
- `RunningIsReal` and `NothingLeft` except a failed termination: the tags are deleted first (`aws.go:1164`), so a later forced delete
  finds no instance and removes the row while they run.
- `InProgressHasOwner` and `StatusSettles` hold up to `restored`: a create of which workers failed reads Upgrading in its deferred function and writes it back after the join or upgrade has ended
  (`base.go:352`, `:380`); the row then stays Upgrading with nobody at work.
- `GaugeTotal` allows too low a count after two overlapping deletes have read the same row: each counts one less (`model.go:412`, `:425`), until the process is restarted.
- `GaugeTotal` is about the sum over the versions: a row saved again with another K3s version stays counted under the first (`model.go:392`).
- `CredentialsMatch` wants `Within = {}`: users are removed by a part of their name (`file.go:80`).
- `OthersKept` excludes a write that fails halfway, and `CredentialsMatch` holds before the first one: the file is emptied before it is written (`file.go:61`), and the entries of every cluster may be lost.
- `InProgressHasDownloader` and `StateSettles` are checked without cancels: a cancel seen between two steps ends the download without a
  state (`download.go:163`). And without removals that fail: that error of a download leaves the record as it is (`download.go:127`).
- `DoneArchIsReal` excludes archs whose removal was cut short with `.done` among what is left (`halved`, `download.go:126`, `utils.go:51`): the next download takes such an arch for done.
- `KeepsWanted` except while the package is removed and while there is no version.json, and except an import over the package, which answers Conflict, goes on and removes the directory (`schema.go:68`).
- An Active package may have no files: after an update whose version cannot be validated, the update back finds version.json and
  `.done` (`download.go:114`); after that import; and its path alone is lost by a download cut off between `.done` and Active (`download.go:119`).
- A running download writes its copy of the record back (`utils.go:204`): it undoes an update and brings a removed record back.
- `RunningIsReal` is about Running rows: a create that fails after some workers failed rolls back those workers only and leaves the rest running
  under a Failed row (`base.go:1208`).
- A join whose row a delete has removed dereferences nil in its deferred function and ends the server (`base.go:516`, `JDeferPanics`).
- `OthersKept` does not say that a save saves: when another goroutine sets `KUBECONFIG` first, `SaveCfg` returns no error and has saved nothing (`file.go:45`).
- `AddedNodesUsable` asks for addresses on Tencent only: Alibaba's partial rollback releases those of all new nodes (`alibaba.go:754`).
- `RemovedMeansEnded` excludes Google, which logs the error of an instance and removes the row (`google.go:541`), and forced deletes.
- `RemovedMeansEnded` on Alibaba and `CleanDelete` are about what fits one page: the delete ends the ids of one answer of `ListTagResources` (`alibaba.go:187`), releases the addresses of one answer of the tag query
  (`alibaba.go:864`, `tencent.go:988`), or ends the instances of one answer of the list (`google.go:738`), and then removes the row.
- `CleanDelete` is about tagged addresses: the ones allocated before a failed allocation have no tag yet (`alibaba.go:691`).
- `PortsStayOpen`: on Google for set-ups that do not overlap and the firewall's own network (`google.go:552`); on Alibaba unless the call that adds a rule failed, which
  is logged; etcd ports on Tencent and Google only (AWS adds them for the first subnet, `aws.go:1010`, Alibaba for none).
- `NetworkReused` and, for Tencent, `SubnetInVpc` are about set-ups that follow each other; overlapping ones make two VPCs, and Tencent then takes a subnet of either
  (`tencent.go:1023`).
- `OneCluster`, `HandNodesKept`, `DeleteUninstalls` and, for the API server's list, `JoinKeepsNodes` hold until `astray`: a sync overwrites a newer row (`native.go:449`), after which a rolled
  back worker is in the row again, or a hand-made node is taken for one of AutoK3s; or a join goes to a cluster that is not Running, which it calls Running, or takes a node in its other role, which then has K3s
  twice (`JoinCheck` looks at neither).
- `OneCluster` says little of the one master that a join may bring to a cluster with neither etcd nor datastore: `JoinCheck` refuses "can't join master nodes" only from two on (`native.go:212`), and the Running row
  then lists a server that is a cluster of its own.
- `HandNodesKept` leaves out hosts the join was asked to take: a rollback uninstalls K3s there, also where it never got to (`native.go:182`).
- Two joins of one cluster at once are left out of `RunningIsReal`: each saves a node list with the other's new workers in it, and one that then fails stays
  there (`cluster.go:271`). A delete during an upgrade only makes it return an error its comment calls impossible (`aws.go:134`).
- `DoneArchIsReal` is about requests that do not overlap: two downloads of one package write the same `.tmp` file (`download.go:300`). An import that fails while it
  unpacks leaves files the next one appends to (`tarfiles.go:46`); the archive is abstracted to a good one.
- `NoSendOnClosed` is about the broadcaster's channels: `logHandler` closes one that the goroutine of `Store.Log` may still send on (`log.go:157`), a panic
  the model has as `ForwardPanics`.
- A message longer than the buffer of `io.Copy` is read on as one of no type (`ReadRest`, `websocket.go:166`); a browser's SSH shell closes its session and not the connection
  (`ssh.go:243`), which the model does not have.
- `HandlerReturns` leaves out a client that goes unheard (`Unheard`): while the copy of the input waits for the shell to read (`pty.go:74`), and, on SSH and pty, when the reader of the message fails because the
  client left inside it, or meets an empty message (`websocket.go:165`): nothing is sent on `ClosedCh` and the handler stays until the shell exits.
- `ByeIsLast` leaves out the pty (`pty.go`, `Wait` does not wait for the output), `GoroutinesEnd` the escape keys of docker (`docker.go:398`).

## 4. What is proved

For every value of the constants (any number of goroutines, instances, subscribers,
contexts, versions, archs, hosts, clusters, and any bound), under the hypotheses named in the table:

| Module | Theorems | Argument |
|---|---|---|
| `BroadcasterProofs` | `TypeCorrect`, `SendsOnOpenChannels`, `DeliveryCorrect`, `BroadcastWaitsFor`, `BroadcastAdvances` | publishers exist only while their writer holds the mutex, for channels in the map, and Evict needs the mutex; what a subscriber has got and the one event still pending together are the accepted part of the log since it registered; a loop at Evict has seen that its request is over (`EvictInv`); nobody but the holder of the mutex adds publishers, so the receives a Broadcast waits for (`Work`) only get fewer |
| `ClusterLifecycleProofs` | `TypeCorrect`, `RollbackOwn`, `StatusOwned` | `IInv`: the instances operations have created are apart from each other and, in the pools, of the kind the code takes them for; `errM` is part of `mine`; a row that is Creating or Upgrading has an operation whose deferred function is still to come. The write of a create's deferred function keeps that unless the status it has read was replaced meanwhile, which is `restored` |
| | `RowCovers`, if `OneAtATime` | `CoverInv`: from the first save to the last step of a create or join the row is there, and a delete comes to the row with no instance left; a crash keeps both |
| | `RowCoversApart`, if `[]DeletesApart` | the same `CoverInv`, with any number of operations: what could break it is a create or join under way when a delete, its instances gone, goes on to the context and the row |
| | `GaugeCorrect` | `GaugeInv`: the units of the gauge are finite in number and so are the deletes that are still to count; with that `GaugeTotal` is inductive, since every step moves row, gauge and these deletes together or sets `twice`. `Total` counts pairs of a version and a number up to its gauge, less those of the negated gauge, so that plus or minus one on a version is one element more or less, and no induction over the versions is needed |
| | `OperationsAdvance` | `ToGo`: the most steps an operation has left at each of its places, at most 13 |
| | `StatusSteps`, if `Steady` | `PhaseInv`: which status is shown at each place of each operation, and where an error or failed workers may have been noted. With it each step is one of `ClusterStatus`, or shows nothing |
| | `DeletedClean`, if `Steady`, `Rollback` | `LeftInv`: instances without tags belong to the operation that is about to roll them back; the context goes before the row, the explorer right after it |
| | `RunningReal`, if `Steady`, `Rollback`, `Orderly` | `RealInv`, place by place: how instances, K3s, the row's lists and counts and the copy in the operation relate (for example, at the deferred function of a join that failed, the instances less its own are the row's); `K3sInv`: K3s is on instances only |
| `AirgapPackageProofs` | `TypeCorrect`, `DoneCorrect`, `CancelCorrect` | without overlap there is at most one download (`SeqInv`), and where it is says what version.json and the directories may hold: after the removal of unwanted archs what is done is of the wanted version, and while a removal is under way what is left is of the version it had |
| | `DownloaderAlive`, if `~Cancels`, `MaxCrash = 0`, `~RemoveFails` | `AnswerInv`: a record in progress has a download that is not cancelled and will write an outcome (one that found the package Active writes none) |
| | `DownloaderAliveAtRest`, if `StopsAtRest` | the same `AnswerInv`: the cancels, crashes and failing removals that break it are those that come while the record is in progress |
| | `DownloadsAdvance`, if `Arch` is finite | `Remaining`: the stage of the download, a step for each arch to remove and three for each not done, at most 13 + 3n and the archs to remove; the deletion of a single file leaves it as it is; the arch at work is one of those left (`CurInv`) |
| | `KeepsVerified`, if `~Overlap` | `KeepInv`: the copy of the running download names the version and archs of the record |
| `KubeConfigProofs` | `TypeCorrect`, `CurrentCorrect`, `CredentialsCorrect`, `EnvCorrect`, `OthersSafe` | `KUBECONFIG` names a temporary file only while its goroutine is between `SetEnv` and `Restore`, so its context and save are defined; a merged read has every entry of the file; a beginning of a file has its current context only with all entries |
| `ProvidersProofs` | `TypeCorrect`, `JoinsKeep`, `AddedUsable`, `RowGoesLast`, `DeletesClean` | see below |
| `CloudNetworkProofs` | `TypeCorrect`, `SubnetOfItsVpc`, `OneNetwork`, `PortsOpen` | what a set-up has chosen exists and was chosen before it is used; while set-ups follow each other, what one has not found is still not there when it makes it; rules are added only, and what a set-up has seen is part of them |
| `NativeProofs` | `TypeCorrect`, `GiftsFirst`, `FormsOneCluster`, `HandNodesSafe`, `JoinSafe`, `DeleteSafe` | where `initNode` is on a host says what it has been given and that it is one of the operation's; the copy of the cluster in the operation, and the row a sync has read, agree with the row until `astray`; each own node is installed with the token, role and server of that copy |
| `ShellProofs` | `TypeCorrect`, `ReaderChannelSafe`, `CloseMessageLast`, `NoStandstill`, `NobodyStranded`, `SessionAdvances` | what `Read` puts in `ClosedCh` is its last act, and `readMessage` closes it only after receiving it; the handler gets to the close message only behind the end of the output (docker: `ExecStart` returned; SSH: `Wait` returned); `WaitInv` says which goroutine has ended or left something in a channel at each place of the handler (with `Unheard` the handler may wait for a shell that goes on), `Left` adds up what every goroutine can still do |

`OneAtATime` says that one goroutine asks for operations (a user at the command line, or a client that waits); `Steady`
adds that the database works and the process is not killed. `Rollback` and `Orderly` are the constants of the model.
The configurations of the runs that check these properties satisfy the hypotheses (`lifecycle_faults`: `OneAtATime` with faults and a crash; `lifecycle_cli`: all of them; `airgap_overlap`:
no cancels, no crash, no failing removal; `airgap_faults`: no overlap). `DeletesApart` and `StopsAtRest` are about the behaviour, not the constants: the first holds of every behaviour with `OneAtATime`, the second of every
one without cancels, crashes and failing removals, and both of many others. Section 3 says what the code does without them.

*Providers.* The steps of the four providers are about forty actions; `ProvidersProofs` does not go through all of them for each property. It
shows that each is a step of one kind, `Effect`: a step of `generateInstance` that makes only new things (`Make`), the install (`Installed`), a process that ends (`Abandon`), a
step of a rollback that ends what it is asked to and releases addresses of nodes the operation made (`Undo`), or a step of a delete that
comes to the row only with everything released, force and errors aside (`Clear`); the lemmas `AlibabaEffect`, `TencentEffect`, `GoogleEffect`, `K3dEffect`.
`Inv` is inductive for `Effect`, and the four properties follow from the two. It needs to know that a failed worker is one of the nodes made (`PlaceInv`), that the row of a join lists the old nodes until
the install succeeds and a Running row lists none that is about to be rolled back (`RowInv`), that a k3d join has nothing to roll back (`KindInv`), and how far
a delete has come (`DeleteInv`, as far as the tags fit one page: `Whole`).

The invariants the runs check are not inductive. `RollbackOwnOnly` says nothing of the
ids in flight, `InProgressHasOwner` nothing of what a deferred function will find, `DoneArchIsReal`
nothing of an arch half downloaded, `RunningIsReal` and `NothingLeft` nothing at all while an operation runs, `OneCluster` nothing of the hosts being
installed, `ByeIsLast` nothing of who waits for whom; the strengthenings add that, and TLC has checked them on the instances of the runs. Assumptions are the
`ASSUME`s of the modules: disjoint finite pools, a finite set of hosts, values that are no row, no package, no context, no address.

*Liveness, as far as it goes without fairness.* The prover has neither fairness nor `ENABLED`. What the liveness properties need besides is proved: a measure that
every step of an operation, download, Broadcast or session makes smaller (`OperationsAdvance`, `DownloadsAdvance`, `BroadcastAdvances`, `SessionAdvances`), and, where goroutines
wait for each other, that somebody's guard holds until the end is reached (`BroadcastWaitsFor`, `NoStandstill`, `NobodyStranded`; the guards are written out as `CanTake` and
`SomebodyCan`). That the scheduler then runs who can move is the fairness of section 3, and the conclusion is what TLC checks.

Only model-checked:

- liveness (`ReturnsWhileRead`, `StatusSettles`, `StateSettles`, `HandlerReturns`, `GoroutinesEnd`) and the fair part of the refinement
  `StatusMachine`, whose steps `StatusSteps` has: the prover has no fairness;
- that `Total` is the sum over the versions as the library folds it (`TotalIsSum`, for gauges from -3 to 3): that needs an induction over a set;
- everything about settings the hypotheses above leave out.

`BroadcastReturns` is the property the code does not have.

## 5. What is not modelled, and the plan

Not modelled: flags that only become text of a command line, SSH and docker transport, the archive format of packages, the API schema, UI, HTTP proxy, output
(describe, status, kubectl), and the stores of templates, credentials, settings, addons and keys: each of their calls is one row
read or written, and nothing else depends on the order. Not faithful enough to be worth it: the contents of the addresses the providers return, since only whether a node has
one decides anything.

Left for later, in this order:

1. `Explorer`: `ExplorerWatchers` as a plain map under concurrent enable, disable, create and delete, the child process, the dashboard and its setting.
2. The default template, the settings with side effects and the template gauge.
