--------------------------- MODULE AirgapPackage ---------------------------
(***************************************************************************)
(* One airgap package: its record in the database, its directory on disk,  *)
(* the requests of pkg/server/store/pkg (or the airgap commands of the     *)
(* CLI) and the download goroutines of pkg/airgap/download.go.             *)
(*                                                                         *)
(* The directory holds version.json, a .done file, and for each arch a     *)
(* directory with the downloaded files and a .done file of its own. A step *)
(* ends where a goroutine waits for the network or has saved the record.   *)
(* The removal of a directory (os.RemoveAll) deletes one entry after the   *)
(* other, in any order, and may stop anywhere: the process is killed, or   *)
(* an entry cannot be deleted. The disk does not fail in other places, and *)
(* the database does not fail.                                             *)
(***************************************************************************)
EXTENDS Naturals, FiniteSets

CONSTANTS Proc,        \* goroutines (or CLI commands) that download
          Version,     \* K3s versions
          Arch,        \* the archs of ValidatedArch
          None,        \* no record, no file, no directory, no entry
          Corrupt,     \* the origin of a file that is not what was published
          Overlap,     \* requests also come while a download is running
          Offline,     \* the request that validates the version may fail
          Damage,      \* the source may serve a file with a wrong checksum
          Cancels,     \* downloads are cancelled
          RemoveFails, \* os.RemoveAll may return an error
          ImportOver,  \* an import may name a package that exists
          MaxOps,      \* bound: requests in a behaviour
          MaxCrash     \* bound: restarts of the process

ASSUME FlagAssumption ==
  {Overlap, Offline, Damage, Cancels, RemoveFails, ImportOver} \subseteq BOOLEAN
ASSUME BoundAssumption == {MaxOps, MaxCrash} \subseteq Nat
ASSUME CorruptAssumption == Corrupt \notin Version
ASSUME VersionAssumption == None \notin Version /\ None \notin Proc

Archs == SUBSET Arch \ {{}}
InProgress == {"Validating", "Downloading", "Verifying"}
State == InProgress \cup {"Active", "OutOfSync"}

(* common.Package, without its name; path says whether FilePath is set.    *)
PackageType == [version : Version, archs : Archs, state : State, path : BOOLEAN]

(* version.json.                                                           *)
VersionFile == [version : Version, archs : Archs]

(* The directory of an arch: the versions its files come from, whether     *)
(* none of them is missing, and its .done file.                            *)
DirType == [files : SUBSET (Version \cup {Corrupt}), complete : BOOLEAN, done : BOOLEAN]

PC == {"idle", "start", "remove", "validate", "validating", "write", "writing", "fetch",
       "arch", "files", "check", "finish", "verify", "verifying"}

(* Who removes the package directory: Store.Delete, the remove command,    *)
(* the deferred function of importHandler, or nobody.                      *)
Removal == {"none", "store", "command", "import"}

ASSUME NoneAssumption == None \notin PackageType \cup VersionFile \cup DirType

VARIABLES
  row,        \* the record, or None
  base,       \* the package directory exists
  vfile,      \* version.json, or None
  done,       \* .done of the package directory
  dir,        \* the directory of each arch, or None
  halved,     \* history: archs of which a removal has left .done, not all files
  removal,    \* the removal of the package directory that is under way
  pc,         \* downloader: what it does next
  pkg,        \* downloader: d.pkg, its copy of the record
  left,       \* downloader: archs still to remove, later those still to
              \* download, the current one included
  cur,        \* downloader: the arch at work
  cancelled,  \* downloaders whose context is cancelled
  cancelMap,  \* cancelDownloadMap: the downloader its entry cancels, or None
  ops, crashes  \* how far the bounds are used

disk == <<base, vfile, done, dir, halved, removal>>
dl == <<pc, pkg, left, cur, cancelled, cancelMap>>
bounds == <<ops, crashes>>
vars == <<row, disk, dl, bounds>>

Init ==
  /\ row = None
  /\ base = FALSE /\ vfile = None /\ done = FALSE
  /\ dir = [a \in Arch |-> None]
  /\ halved = {} /\ removal = "none"
  /\ pc = [p \in Proc |-> "idle"]
  /\ pkg = [p \in Proc |-> None]
  /\ left = [p \in Proc |-> {}]
  /\ cur = [p \in Proc |-> None]
  /\ cancelled = {}
  /\ cancelMap = None
  /\ ops = 0 /\ crashes = 0

---------------------------------------------------------------------------
(* Helpers. *)

Running == {p \in Proc : pc[p] # "idle"}
Dirs == {a \in Arch : dir[a] # None}
EmptyDir == [files |-> {}, complete |-> FALSE, done |-> FALSE]

(* verifyArchFiles: every file is there and has its checksum. The list of  *)
(* checksums is one of the files, so files of one old version pass too.    *)
Verifies(d) == d # None /\ d.complete /\ \E v \in Version : d.files = {v}

(* os.RemoveAll of the directory of an arch: all of it, ...                *)
RemoveArch(a) ==
  /\ dir' = [dir EXCEPT ![a] = None]
  /\ halved' = halved \ {a}

(* ... or some of its entries, in any order.                               *)
RemovePart(a) ==
  /\ dir[a] # None
  /\ \E f \in DirType \ {dir[a]} :
       /\ f.files \subseteq dir[a].files
       /\ ~f.complete
       /\ f.done => dir[a].done
       /\ dir' = [dir EXCEPT ![a] = f]
       /\ halved' = IF f.done THEN halved \cup {a} ELSE halved \ {a}

(* The version versionAndBasePath finds: version.json when the package is  *)
(* done; else the directories there are count as well. None: no version.   *)
FoundVersion == IF vfile = None THEN None ELSE vfile.version
FoundArchs ==
  (IF vfile = None THEN {} ELSE vfile.archs)
    \cup (IF vfile # None /\ done THEN {} ELSE Dirs)

(* Mutant: the version does not matter.                                    *)
DiffByArch(want) == [add |-> want.archs \ FoundArchs, del |-> FoundArchs \ want.archs]

(* Mutant: nothing downloaded is kept.                                     *)
DiffRemovesAll(want) == [add |-> want.archs \ FoundArchs, del |-> FoundArchs]

(* version.diff and GetArchDiff: what to download, what to remove.         *)
Diff(want) ==
  IF FoundVersion # want.version
  THEN [add |-> want.archs, del |-> FoundArchs]
  ELSE [add |-> want.archs \ FoundArchs, del |-> FoundArchs \ want.archs]

(* Mutant: the entry of cancelDownloadMap stays.                           *)
EndKeepsEntry(p) ==
  /\ pc' = [pc EXCEPT ![p] = "idle"]
  /\ pkg' = [pkg EXCEPT ![p] = None]
  /\ left' = [left EXCEPT ![p] = {}]
  /\ cur' = [cur EXCEPT ![p] = None]
  /\ cancelled' = cancelled \ {p}
  /\ UNCHANGED cancelMap

(* DownloadPackage returns: its deferred function deletes the entry of     *)
(* cancelDownloadMap, whoever stored it.                                   *)
End(p) ==
  /\ pc' = [pc EXCEPT ![p] = "idle"]
  /\ pkg' = [pkg EXCEPT ![p] = None]
  /\ left' = [left EXCEPT ![p] = {}]
  /\ cur' = [cur EXCEPT ![p] = None]
  /\ cancelled' = cancelled \ {p}
  /\ cancelMap' = None

(* updatePackageState: the record becomes the downloader's copy of it.     *)
Save(p, s) == row' = [pkg[p] EXCEPT !.state = s]

(* Mutant: the step that fails does not say so in the record.              *)
FailSilently(p) == UNCHANGED row /\ End(p)

(* A step of downloadPackage returns an error.                             *)
Fail(p) == Save(p, "OutOfSync") /\ End(p)

Goto(p, l) == pc' = [pc EXCEPT ![p] = l]

(* The check of d.ctx before a step of downloadPackage.                    *)
Stop(p, l) == pc[p] = l /\ p \in cancelled /\ End(p) /\ UNCHANGED <<row, disk, bounds>>
Proceed(p, l) == pc[p] = l /\ p \notin cancelled

---------------------------------------------------------------------------
(* Requests. *)

Request ==
  /\ ops < MaxOps
  /\ ops' = ops + 1
  /\ Overlap \/ (Running = {} /\ removal = "none")
  /\ UNCHANGED crashes

(* go downloadAndUpdatepackage(r), with the map entry it will overwrite.   *)
Spawn(p, r) ==
  /\ pc[p] = "idle"
  /\ pc' = [pc EXCEPT ![p] = "start"]
  /\ pkg' = [pkg EXCEPT ![p] = r]
  /\ UNCHANGED <<left, cur, cancelMap>>

(* Mutant: a package without archs is accepted.                            *)
CreateUnchecked(p) ==
  /\ Request
  /\ row = None
  /\ \E v \in Version, A \in SUBSET Arch :
       /\ row' = [version |-> v, archs |-> A, state |-> "OutOfSync", path |-> FALSE]
       /\ Spawn(p, row')
  /\ UNCHANGED <<disk, cancelled>>

(* Store.Create and the create command: the record, then the download.     *)
Create(p) ==
  /\ Request
  /\ row = None
  /\ \E v \in Version, A \in Archs :
       /\ row' = [version |-> v, archs |-> A, state |-> "OutOfSync", path |-> FALSE]
       /\ Spawn(p, row')
  /\ UNCHANGED <<disk, cancelled>>

(* Store.Update and the update command, when something changes.            *)
Update(p) ==
  /\ Request
  /\ row # None
  /\ \E v \in Version, A \in Archs :
       /\ v # row.version \/ A # row.archs
       /\ row' = [row EXCEPT !.version = v, !.archs = A, !.state = "OutOfSync"]
       /\ Spawn(p, row')
  /\ UNCHANGED <<disk, cancelled>>

(* The download action, which first cancels the download there is, and the *)
(* update command when nothing changes.                                    *)
Redownload(p) ==
  /\ Request
  /\ row # None
  /\ Spawn(p, row)
  /\ cancelled' = cancelled \cup ({cancelMap} \ {None})
  /\ UNCHANGED <<row, disk>>

(* The cancel action.                                                      *)
Cancel ==
  /\ Cancels
  /\ ops < MaxOps
  /\ ops' = ops + 1
  /\ cancelMap # None
  /\ cancelled' = cancelled \cup {cancelMap}
  /\ UNCHANGED <<row, disk, pc, pkg, left, cur, cancelMap, crashes>>

(* Store.Delete, which deletes the record before the directory, and the    *)
(* remove command, which begins with the directory. A running download     *)
(* goes on.                                                                *)
Delete ==
  /\ Request
  /\ row # None
  /\ removal = "none"
  /\ \/ removal' = "store" /\ row' = None
     \/ removal' = "command" /\ row' = row
  /\ UNCHANGED <<base, vfile, done, dir, halved, dl>>

(* RemovePackage has deleted an entry of the package directory.            *)
RemoveSome ==
  /\ removal # "none"
  /\ \/ vfile' = None /\ UNCHANGED <<done, dir, halved>>
     \/ done' = FALSE /\ UNCHANGED <<vfile, dir, halved>>
     \/ /\ \E a \in Dirs : RemoveArch(a) \/ RemovePart(a)
        /\ UNCHANGED <<vfile, done>>
  /\ UNCHANGED <<row, base, removal, dl, bounds>>

(* RemovePackage has deleted all of it, or returns an error, with which    *)
(* the remove command ends before it deletes the record.                   *)
RemoveEnds ==
  /\ removal # "none"
  /\ removal' = "none"
  /\ \/ /\ base' = FALSE /\ vfile' = None /\ done' = FALSE
        /\ dir' = [a \in Arch |-> None]
        /\ halved' = {}
        /\ row' = IF removal = "command" THEN None ELSE row
     \/ RemoveFails /\ UNCHANGED <<row, base, vfile, done, dir, halved>>
  /\ UNCHANGED <<dl, bounds>>

(* importHandler and the import command, with an archive export has made.  *)
(* The Conflict of a name in use is written and the handler goes on; the   *)
(* rename fails when the directory exists, and then the deferred function  *)
(* of the handler removes that directory; the command leaves it.           *)
Import ==
  /\ Request
  /\ ImportOver \/ row = None
  /\ removal = "none"
  /\ \/ /\ ~base
        /\ \E v \in Version, A \in Archs :
             /\ row' = [version |-> v, archs |-> A, state |-> "Active", path |-> TRUE]
             /\ vfile' = [version |-> v, archs |-> A]
             /\ dir' = [a \in Arch |-> IF a \in A
                                       THEN [files |-> {v}, complete |-> TRUE, done |-> TRUE]
                                       ELSE None]
        /\ base' = TRUE /\ done' = TRUE /\ halved' = {}
        /\ UNCHANGED removal
     \/ base /\ removal' = "import" /\ UNCHANGED <<row, base, vfile, done, dir, halved>>
     \/ base /\ UNCHANGED <<row, disk>>
  /\ UNCHANGED dl

---------------------------------------------------------------------------
(* The downloader. *)

(* DownloadPackage up to the first step: GetLogFile makes the directory,   *)
(* the entry of cancelDownloadMap is stored; a package that is there is    *)
(* ready at once; else the archs that are not wanted are to be removed.    *)
DStart(p) ==
  LET d == Diff(pkg[p])
      ready == d.add = {} /\ d.del = {} /\ done
  IN  /\ pc[p] = "start"
      /\ base' = TRUE
      /\ \/ /\ ready
            /\ IF pkg[p].state = "Active" THEN UNCHANGED row ELSE Save(p, "Active")
            /\ End(p)
         \/ /\ ~ready
            /\ cancelMap' = p
            /\ left' = [left EXCEPT ![p] = d.del]
            /\ Goto(p, "remove")
            /\ UNCHANGED <<row, pkg, cur, cancelled>>
      /\ UNCHANGED <<vfile, done, dir, halved, removal, bounds>>

(* The removal of those archs. Its error is returned as it is: the record  *)
(* stays.                                                                  *)
DRemove(p) ==
  /\ pc[p] = "remove"
  /\ \/ /\ left[p] = {}
        /\ Goto(p, "validate")
        /\ UNCHANGED <<dir, halved, pkg, left, cur, cancelled, cancelMap>>
     \/ /\ \E a \in left[p] : RemoveArch(a) /\ left' = [left EXCEPT ![p] = @ \ {a}]
        /\ UNCHANGED <<pc, pkg, cur, cancelled, cancelMap>>
     \/ RemoveFails /\ left[p] # {} /\ End(p) /\ UNCHANGED <<dir, halved>>
  /\ UNCHANGED <<row, base, vfile, done, removal, bounds>>

(* It has deleted an entry of one of them.                                 *)
DRemoveSome(p) ==
  /\ pc[p] = "remove"
  /\ \E a \in left[p] : RemovePart(a)
  /\ UNCHANGED <<row, base, vfile, done, removal, dl, bounds>>

DValidate(p) ==
  \/ Stop(p, "validate")
  \/ /\ Proceed(p, "validate")
     /\ Save(p, "Validating")
     /\ Goto(p, "validating")
     /\ UNCHANGED <<disk, pkg, left, cur, cancelled, cancelMap, bounds>>

(* validateVersion: the list of images is fetched, under d.ctx.            *)
DValidated(p) ==
  /\ pc[p] = "validating"
  /\ \/ /\ Goto(p, "write")
        /\ UNCHANGED <<row, pkg, left, cur, cancelled, cancelMap>>
     \/ (Offline \/ p \in cancelled) /\ Fail(p)
  /\ UNCHANGED <<disk, bounds>>

(* writeVersion removes version.json and .done, ...                        *)
DWrite(p) ==
  \/ Stop(p, "write")
  \/ /\ Proceed(p, "write")
     /\ vfile' = None
     /\ done' = FALSE
     /\ Goto(p, "writing")
     /\ UNCHANGED <<row, base, dir, halved, removal, pkg, left, cur, cancelled, cancelMap, bounds>>

(* ... then writes version.json, if the directory is still there.          *)
DWritten(p) ==
  /\ pc[p] = "writing"
  /\ \/ /\ base
        /\ vfile' = [version |-> pkg[p].version, archs |-> pkg[p].archs]
        /\ Goto(p, "fetch")
        /\ UNCHANGED <<row, pkg, left, cur, cancelled, cancelMap>>
     \/ ~base /\ vfile' = vfile /\ Fail(p)
  /\ UNCHANGED <<base, done, dir, halved, removal, bounds>>

DFetch(p) ==
  \/ Stop(p, "fetch")
  \/ /\ Proceed(p, "fetch")
     /\ Save(p, "Downloading")
     /\ left' = [left EXCEPT ![p] = pkg[p].archs]
     /\ Goto(p, "arch")
     /\ UNCHANGED <<disk, pkg, cur, cancelled, cancelMap, bounds>>

(* The next arch: its directory is made. (The code takes them in the order *)
(* of their names, the model in any order.)                                *)
DArch(p) ==
  /\ pc[p] = "arch"
  /\ \/ /\ left[p] = {}
        /\ Goto(p, "finish")
        /\ UNCHANGED <<base, dir, cur>>
     \/ \E a \in left[p] :
          /\ cur' = [cur EXCEPT ![p] = a]
          /\ base' = TRUE
          /\ dir' = [dir EXCEPT ![a] = IF @ = None THEN EmptyDir ELSE @]
          /\ Goto(p, "files")
  /\ UNCHANGED <<row, vfile, done, halved, removal, pkg, left, cancelled, cancelMap, bounds>>

(* Another goroutine downloads into the same directory: the two share the  *)
(* .tmp files, and one may rename what the other has half written.         *)
Shared(p) == \E q \in Proc \ {p} : pc[q] = "files" /\ cur[q] = cur[p]

(* The directory d may become f when the files it lacks are asked for: a   *)
(* file under its final name is never asked for again.                     *)
Fetched(p, d, f) ==
  LET origins == {pkg[p].version} \cup (IF Damage \/ Shared(p) THEN {Corrupt} ELSE {}) IN
  \/ f = d
  \/ /\ ~d.complete
     /\ \E S \in SUBSET origins : S # {} /\ f.files = d.files \cup S
     /\ f.done = d.done

(* checkArchExists and the downloads of downloadArch.                      *)
DFiles(p) ==
  LET a == cur[p]
      d == dir[a]
  IN  /\ pc[p] = "files"
      /\ \/ /\ d # None /\ d.done
            /\ left' = [left EXCEPT ![p] = @ \ {a}]
            /\ Goto(p, "arch")
            /\ UNCHANGED <<row, dir, pkg, cur, cancelled, cancelMap>>
         \/ /\ d # None /\ ~d.done
            /\ \E f \in DirType : Fetched(p, d, f) /\ dir' = [dir EXCEPT ![a] = f]
            /\ Goto(p, "check")
            /\ UNCHANGED <<row, pkg, left, cur, cancelled, cancelMap>>
         \/ Fail(p) /\ UNCHANGED dir
      /\ UNCHANGED <<base, vfile, done, halved, removal, bounds>>

(* Mutant: an arch that does not verify is downloaded again.               *)
DCheckRetries(p) ==
  LET a == cur[p] IN
  /\ pc[p] = "check"
  /\ \/ /\ Verifies(dir[a])
        /\ dir' = [dir EXCEPT ![a].done = TRUE]
        /\ left' = [left EXCEPT ![p] = @ \ {a}]
        /\ Goto(p, "arch")
     \/ ~Verifies(dir[a]) /\ Goto(p, "files") /\ UNCHANGED <<dir, left>>
  /\ UNCHANGED <<row, base, vfile, done, halved, removal, pkg, cur, cancelled, cancelMap, bounds>>

(* verifyArchFiles and the .done file of the arch.                         *)
DCheck(p) ==
  LET a == cur[p] IN
  /\ pc[p] = "check"
  /\ \/ /\ Verifies(dir[a])
        /\ dir' = [dir EXCEPT ![a].done = TRUE]
        /\ left' = [left EXCEPT ![p] = @ \ {a}]
        /\ Goto(p, "arch")
        /\ UNCHANGED <<row, pkg, cur, cancelled, cancelMap>>
     \/ ~Verifies(dir[a]) /\ Fail(p) /\ UNCHANGED dir
  /\ UNCHANGED <<base, vfile, done, halved, removal, bounds>>

(* The .done file of the package.                                          *)
DFinish(p) ==
  \/ Stop(p, "finish")
  \/ /\ Proceed(p, "finish")
     /\ \/ /\ base /\ done' = TRUE
           /\ Goto(p, "verify")
           /\ UNCHANGED <<row, pkg, left, cur, cancelled, cancelMap>>
        \/ ~base /\ done' = done /\ Fail(p)
     /\ UNCHANGED <<base, vfile, dir, halved, removal, bounds>>

DVerify(p) ==
  \/ Stop(p, "verify")
  \/ /\ Proceed(p, "verify")
     /\ Save(p, "Verifying")
     /\ Goto(p, "verifying")
     /\ UNCHANGED <<disk, pkg, left, cur, cancelled, cancelMap, bounds>>

(* VerifyFiles, which makes a directory that is not there, and the end.    *)
DVerified(p) ==
  LET good == base /\ \A a \in FoundArchs : Verifies(dir[a]) /\ dir[a].done IN
  /\ pc[p] = "verifying"
  /\ base' = TRUE
  /\ \/ good /\ row' = [pkg[p] EXCEPT !.state = "Active", !.path = TRUE] /\ End(p)
     \/ ~good /\ Fail(p)
  /\ UNCHANGED <<vfile, done, dir, halved, removal, bounds>>

(* The process ends and is started again: nothing looks for the downloads  *)
(* and the removals it had begun.                                          *)
Crash ==
  /\ crashes < MaxCrash
  /\ crashes' = crashes + 1
  /\ pc' = [p \in Proc |-> "idle"]
  /\ pkg' = [p \in Proc |-> None]
  /\ left' = [p \in Proc |-> {}]
  /\ cur' = [p \in Proc |-> None]
  /\ cancelled' = {}
  /\ cancelMap' = None
  /\ removal' = "none"
  /\ UNCHANGED <<row, base, vfile, done, dir, halved, ops>>

---------------------------------------------------------------------------

Download(p) ==
  \/ DStart(p) \/ DRemove(p) \/ DRemoveSome(p) \/ DValidate(p) \/ DValidated(p)
  \/ DWrite(p) \/ DWritten(p) \/ DFetch(p) \/ DArch(p) \/ DFiles(p) \/ DCheck(p) \/ DFinish(p)
  \/ DVerify(p) \/ DVerified(p)

Next ==
  \/ \E p \in Proc : Create(p) \/ Update(p) \/ Redownload(p)
  \/ Cancel \/ Delete \/ Import \/ RemoveSome \/ RemoveEnds
  \/ \E p \in Proc : Download(p)
  \/ Crash

(* A download goes on: its goroutine is scheduled, and its requests return *)
(* or reach the timeout of the HTTP client.                                *)
Spec == Init /\ [][Next]_vars /\ \A p \in Proc : WF_vars(Download(p))

---------------------------------------------------------------------------
(* Properties. *)

(* The shape of the record, of the directory and of every download.        *)
TypeOK ==
  /\ row \in PackageType \cup {None}
  /\ base \in BOOLEAN /\ done \in BOOLEAN
  /\ vfile \in VersionFile \cup {None}
  /\ dir \in [Arch -> DirType \cup {None}]
  /\ halved \subseteq Arch
  /\ removal \in Removal
  /\ pc \in [Proc -> PC]
  /\ pkg \in [Proc -> PackageType \cup {None}]
  /\ left \in [Proc -> SUBSET Arch]
  /\ cur \in [Proc -> Arch \cup {None}]
  /\ cancelled \subseteq Proc
  /\ cancelMap \in Proc \cup {None}
  /\ {ops, crashes} \subseteq Nat

(* With one request at a time the .done file of an arch is right: its      *)
(* files are all there, of one version, and of the version that            *)
(* version.json names, whatever was cancelled, failed, served damaged or   *)
(* cut off by a crash on the way. The one exception are archs (halved)     *)
(* that some os.RemoveAll had begun to remove and left, with .done among   *)
(* what is left, because the process was killed or an entry could not be   *)
(* deleted; their remaining files are still of that version. (DStart and   *)
(* DFiles skip what is done, so a lie here is not put right.)              *)
DoneArchIsReal ==
  ~Overlap => \A a \in Dirs : dir[a].done =>
                /\ vfile # None => dir[a].files \subseteq {vfile.version}
                /\ a \notin halved => Verifies(dir[a])

(* "The downloaded and validated arch won't be changed after the package   *)
(* update" (docs, airgap): verified files that the record still asks for   *)
(* are not touched, however often the package is updated, downloads fail,  *)
(* are cancelled or cut off by a crash. (Not while the whole package is    *)
(* removed, by a delete or by an import over it, and not while there is no *)
(* version.json, as after a crash in DWrite or in such a removal: without  *)
(* it nobody knows of which version the files are.)                        *)
Wanted(r, a) == r # None /\ a \in r.archs
                  /\ dir[a] # None /\ dir[a].done /\ dir[a].files = {r.version}
KeepsWanted ==
  [][\A a \in Arch :
       (Wanted(row, a) /\ row' # None /\ row'.version = row.version
          /\ a \in row'.archs /\ removal = "none" /\ vfile # None)
         => dir'[a] = dir[a]]_vars

(* A record in one of the states of a download has a goroutine that works  *)
(* on it, however many downloads of the package overlap, as long as no     *)
(* removal of an arch fails: the error return of DRemove leaves the record *)
(* in the state a cancelled download has given it.                         *)
InProgressHasDownloader == (row # None /\ row.state \in InProgress) => Running # {}

(* An entry of cancelDownloadMap is that of a download still running: to   *)
(* cancel one never reaches a download that has ended, although the entry  *)
(* is shared by all downloads of the package and each deletes it.          *)
CancelReachesRunning == cancelMap # None => cancelMap \in Running

(* The states of a download do not last, as long as nobody cancels, the    *)
(* process lives and no removal of an arch fails.                          *)
StateSettles ==
  (row # None /\ row.state \in InProgress) ~> (row = None \/ row.state \notin InProgress)
============================================================================
