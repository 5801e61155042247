------------------------ MODULE AirgapPackageProofs ------------------------
(***************************************************************************)
(* What AirgapPackage keeps for every set of downloaders, versions and     *)
(* archs, and every number of requests and crashes.                        *)
(***************************************************************************)
EXTENDS AirgapPackage, FiniteSetTheorems, TLAPS

(* A download that runs has its copy of the record, and an arch at hand    *)
(* when it works on one.                                                   *)
OpOK ==
  \A p \in Proc : /\ pc[p] # "idle" => pkg[p] \in PackageType
                  /\ pc[p] \in {"files", "check"} => cur[p] \in Arch

TypeInv == TypeOK /\ OpOK

(* The initial states have their types.                                    *)
LEMMA TypeInit == Init => TypeInv
<1> SUFFICES ASSUME Init PROVE TypeInv
  OBVIOUS
<1>1. pc \in [Proc -> PC] /\ OpOK
  BY DEF Init, OpOK, PC
<1>2. row \in PackageType \cup {None} /\ vfile \in VersionFile \cup {None}
  BY DEF Init
<1>3. base \in BOOLEAN /\ done \in BOOLEAN
  BY DEF Init
<1>4. dir \in [Arch -> DirType \cup {None}] /\ halved \subseteq Arch /\ removal \in Removal
  BY DEF Init, Removal
<1>5. /\ pkg \in [Proc -> PackageType \cup {None}]
      /\ left \in [Proc -> SUBSET Arch] /\ cur \in [Proc -> Arch \cup {None}]
  BY DEF Init
<1>6. cancelled \subseteq Proc /\ cancelMap \in Proc \cup {None} /\ {ops, crashes} \subseteq Nat
  BY DEF Init
<1> QED
  BY <1>1, <1>2, <1>3, <1>4, <1>5, <1>6 DEF TypeInv, TypeOK

(* The end of a download, and the two ways to leave a step with it.        *)
LEMMA EndType ==
  ASSUME TypeInv, NEW p \in Proc, End(p)
  PROVE  /\ pc' \in [Proc -> PC] /\ pkg' \in [Proc -> PackageType \cup {None}]
         /\ left' \in [Proc -> SUBSET Arch] /\ cur' \in [Proc -> Arch \cup {None}]
         /\ cancelled' \subseteq Proc /\ cancelMap' \in Proc \cup {None}
         /\ OpOK'
  BY DEF TypeInv, TypeOK, OpOK, End, PC

(* Saving the record keeps its type.                                       *)
LEMMA SaveType ==
  ASSUME TypeInv, NEW p \in Proc, pc[p] # "idle", NEW s \in State, Save(p, s)
  PROVE  row' \in PackageType
  BY DEF TypeInv, TypeOK, OpOK, Save, PackageType

(* A download that fails keeps the types.                                  *)
LEMMA FailType ==
  ASSUME TypeInv, NEW p \in Proc, pc[p] # "idle", Fail(p)
  PROVE  /\ row' \in PackageType
         /\ pc' \in [Proc -> PC] /\ pkg' \in [Proc -> PackageType \cup {None}]
         /\ left' \in [Proc -> SUBSET Arch] /\ cur' \in [Proc -> Arch \cup {None}]
         /\ cancelled' \subseteq Proc /\ cancelMap' \in Proc \cup {None}
         /\ OpOK'
  BY EndType, SaveType DEF Fail, State

(* So does one that ends.                                                  *)
LEMMA StopType ==
  ASSUME TypeInv, NEW p \in Proc, NEW l, Stop(p, l)
  PROVE  TypeInv'
<1>1. End(p) /\ UNCHANGED <<row, disk, bounds>>
  BY DEF Stop
<1>2. QED
  BY <1>1, EndType DEF TypeInv, TypeOK, disk, bounds

(* p goes on at l with the same copy of the record.                        *)
LEMMA GotoType ==
  ASSUME TypeInv, NEW p \in Proc, pc[p] # "idle", NEW l \in PC, Goto(p, l),
         pkg' = pkg, cur' = cur, l \in {"files", "check"} => cur[p] \in Arch
  PROVE  pc' \in [Proc -> PC] /\ OpOK'
  BY DEF TypeInv, TypeOK, OpOK, Goto

(* A download is started.                                                  *)
LEMMA SpawnType ==
  ASSUME TypeInv, NEW p \in Proc, NEW r \in PackageType, Spawn(p, r)
  PROVE  /\ pc' \in [Proc -> PC] /\ pkg' \in [Proc -> PackageType \cup {None}]
         /\ OpOK'
  BY DEF TypeInv, TypeOK, OpOK, Spawn, PC

(* A request that is counted.                                              *)
LEMMA RequestType ==
  ASSUME TypeInv, Request
  PROVE  {ops', crashes'} \subseteq Nat
  BY DEF TypeInv, TypeOK, Request

(* Create, update and download requests keep the types.                    *)
LEMMA TypeRequests ==
  ASSUME TypeInv, NEW p \in Proc, Create(p) \/ Update(p) \/ Redownload(p)
  PROVE  TypeInv'
<1>1. CASE Create(p)
  <2>1. PICK v \in Version, A \in Archs :
          /\ row' = [version |-> v, archs |-> A, state |-> "OutOfSync", path |-> FALSE]
          /\ Spawn(p, row')
    BY <1>1 DEF Create
  <2>2. row' \in PackageType
    BY <2>1 DEF PackageType, State
  <2>3. Request /\ UNCHANGED <<disk, cancelled>>
    BY <1>1 DEF Create
  <2>4. UNCHANGED <<left, cur, cancelMap>>
    BY <2>1 DEF Spawn
  <2> QED
    BY <2>1, <2>2, <2>3, <2>4, SpawnType, RequestType DEF TypeInv, TypeOK, disk
<1>2. CASE Update(p)
  <2>1. PICK v \in Version, A \in Archs :
          /\ row' = [row EXCEPT !.version = v, !.archs = A, !.state = "OutOfSync"]
          /\ Spawn(p, row')
    BY <1>2 DEF Update
  <2>2. row' \in PackageType
    BY <1>2, <2>1 DEF PackageType, State, Update, TypeInv, TypeOK
  <2>3. Request /\ UNCHANGED <<disk, cancelled>>
    BY <1>2 DEF Update
  <2>4. UNCHANGED <<left, cur, cancelMap>>
    BY <2>1 DEF Spawn
  <2> QED
    BY <2>1, <2>2, <2>3, <2>4, SpawnType, RequestType DEF TypeInv, TypeOK, disk
<1>3. CASE Redownload(p)
  <2>1. row \in PackageType /\ Spawn(p, row) /\ Request /\ UNCHANGED <<row, disk>>
    BY <1>3 DEF Redownload, TypeInv, TypeOK
  <2>2. cancelled' \subseteq Proc /\ UNCHANGED <<left, cur, cancelMap>>
    BY <1>3 DEF Redownload, Spawn, TypeInv, TypeOK
  <2> QED
    BY <2>1, <2>2, SpawnType, RequestType DEF TypeInv, TypeOK, disk
<1> QED
  BY <1>1, <1>2, <1>3

(* Removing an arch, or a part of it.                                      *)
LEMMA RemoveType ==
  ASSUME TypeInv, NEW a \in Arch, RemoveArch(a) \/ RemovePart(a)
  PROVE  dir' \in [Arch -> DirType \cup {None}] /\ halved' \subseteq Arch
<1>1. CASE RemoveArch(a)
  BY <1>1 DEF RemoveArch, TypeInv, TypeOK
<1>2. CASE RemovePart(a)
  <2>1. PICK f \in DirType :
          dir' = [dir EXCEPT ![a] = f] /\ halved' = IF f.done THEN halved \cup {a} ELSE halved \ {a}
    BY <1>2 DEF RemovePart
  <2> QED
    BY <2>1 DEF TypeInv, TypeOK
<1> QED
  BY <1>1, <1>2

(* Cancel, delete, import, the steps of a removal and crash keep the types. *)
LEMMA TypeOthers ==
  ASSUME TypeInv, Cancel \/ Delete \/ Import \/ RemoveSome \/ RemoveEnds \/ Crash
  PROVE  TypeInv'
<1>1. CASE Cancel
  BY <1>1 DEF Cancel, TypeInv, TypeOK, OpOK, disk
<1>2. CASE Delete
  <2>1. row' \in {None, row} /\ removal' \in Removal /\ Request
        /\ UNCHANGED <<base, vfile, done, dir, halved, dl>>
    BY <1>2 DEF Delete, Removal
  <2> QED
    BY <2>1, RequestType DEF TypeInv, TypeOK, OpOK, dl
<1>5. CASE RemoveSome
  <2>1. UNCHANGED <<row, base, removal, dl, bounds>>
    BY <1>5 DEF RemoveSome
  <2>2. vfile' \in VersionFile \cup {None} /\ done' \in BOOLEAN
    BY <1>5 DEF RemoveSome, TypeInv, TypeOK
  <2>3. dir' \in [Arch -> DirType \cup {None}] /\ halved' \subseteq Arch
    <3>1. CASE UNCHANGED <<dir, halved>>
      BY <3>1 DEF TypeInv, TypeOK
    <3>2. CASE \E a \in Dirs : RemoveArch(a) \/ RemovePart(a)
      BY <3>2, RemoveType DEF Dirs
    <3> QED
      BY <1>5, <3>1, <3>2 DEF RemoveSome
  <2> QED
    BY <2>1, <2>2, <2>3 DEF TypeInv, TypeOK, OpOK, dl, bounds
<1>6. CASE RemoveEnds
  <2>1. removal' \in Removal /\ row' \in {None, row} /\ UNCHANGED <<dl, bounds>>
    BY <1>6 DEF RemoveEnds, Removal
  <2>2. /\ base' \in BOOLEAN /\ done' \in BOOLEAN /\ vfile' \in VersionFile \cup {None}
        /\ dir' \in [Arch -> DirType \cup {None}] /\ halved' \subseteq Arch
    BY <1>6 DEF RemoveEnds, TypeInv, TypeOK
  <2> QED
    BY <2>1, <2>2 DEF TypeInv, TypeOK, OpOK, dl, bounds
<1>3. CASE Import
  <2>1. Request /\ UNCHANGED dl
    BY <1>3 DEF Import
  <2>2. CASE removal' = "import" /\ UNCHANGED <<row, base, vfile, done, dir, halved>>
    BY <2>1, <2>2, RequestType DEF TypeInv, TypeOK, OpOK, dl, Removal
  <2>3. CASE UNCHANGED <<row, disk>>
    BY <2>1, <2>3, RequestType DEF TypeInv, TypeOK, OpOK, dl, disk
  <2>4. ASSUME NEW v \in Version, NEW A \in Archs,
               row' = [version |-> v, archs |-> A, state |-> "Active", path |-> TRUE],
               vfile' = [version |-> v, archs |-> A],
               dir' = [a \in Arch |-> IF a \in A
                          THEN [files |-> {v}, complete |-> TRUE, done |-> TRUE] ELSE None],
               base' = TRUE, done' = TRUE, halved' = {}, removal' = removal
        PROVE  TypeInv'
    <3>1. row' \in PackageType
      BY <2>4 DEF PackageType, State
    <3>2. vfile' \in VersionFile
      BY <2>4 DEF VersionFile
    <3>3. [files |-> {v}, complete |-> TRUE, done |-> TRUE] \in DirType
      BY DEF DirType
    <3>4. dir' \in [Arch -> DirType \cup {None}]
      BY <2>4, <3>3
    <3> QED
      BY <2>1, <2>4, <3>1, <3>2, <3>4, RequestType DEF TypeInv, TypeOK, OpOK, dl
  <2> QED
    BY <1>3, <2>2, <2>3, <2>4 DEF Import
<1>4. CASE Crash
  BY <1>4 DEF Crash, TypeInv, TypeOK, OpOK, PC, Removal
<1> QED
  BY <1>1, <1>2, <1>3, <1>4, <1>5, <1>6

(* Only archs are removed.                                                 *)
LEMMA DiffType == ASSUME TypeInv, NEW r PROVE Diff(r).del \subseteq Arch
<1>1. FoundArchs \subseteq Arch
  BY DEF FoundArchs, Dirs, TypeInv, TypeOK, VersionFile, Archs
<1> QED
  BY <1>1 DEF Diff

(* The steps of downloadPackage keep the types.                            *)
LEMMA TypeDownload ==
  ASSUME TypeInv, NEW p \in Proc, Download(p)
  PROVE  TypeInv'
<1> USE DEF disk, bounds
<1>1. CASE DStart(p)
  <2>1. pc[p] = "start" /\ base' = TRUE /\ UNCHANGED <<vfile, done, dir, halved, removal, bounds>>
    BY <1>1 DEF DStart
  <2>2. CASE End(p) /\ (UNCHANGED row \/ Save(p, "Active"))
    <3>1. row' \in PackageType \cup {None}
      BY <2>1, <2>2, SaveType DEF State, TypeInv, TypeOK
    <3> QED
      BY <2>1, <2>2, <3>1, EndType DEF TypeInv, TypeOK
  <2>3. CASE /\ cancelMap' = p /\ Goto(p, "remove")
             /\ left' = [left EXCEPT ![p] = Diff(pkg[p]).del]
             /\ UNCHANGED <<row, pkg, cur, cancelled>>
    <3>1. left' \in [Proc -> SUBSET Arch]
      BY <2>3, DiffType DEF TypeInv, TypeOK
    <3>2. pc' \in [Proc -> PC] /\ OpOK'
      BY <2>1, <2>3, GotoType DEF PC
    <3> QED
      BY <2>1, <2>3, <3>1, <3>2 DEF TypeInv, TypeOK
  <2> QED
    BY <1>1, <2>2, <2>3 DEF DStart
<1>13. CASE DRemove(p)
  <2>1. pc[p] = "remove" /\ UNCHANGED <<row, base, vfile, done, removal, bounds>>
    BY <1>13 DEF DRemove
  <2>2. CASE Goto(p, "validate") /\ UNCHANGED <<dir, halved, pkg, left, cur, cancelled, cancelMap>>
    <3>1. pc' \in [Proc -> PC] /\ OpOK'
      BY <2>1, <2>2, GotoType DEF PC
    <3> QED
      BY <2>1, <2>2, <3>1 DEF TypeInv, TypeOK
  <2>3. ASSUME NEW a \in left[p], RemoveArch(a), left' = [left EXCEPT ![p] = @ \ {a}],
               UNCHANGED <<pc, pkg, cur, cancelled, cancelMap>>
        PROVE  TypeInv'
    <3>1. dir' \in [Arch -> DirType \cup {None}] /\ halved' \subseteq Arch
      BY <2>3, RemoveType DEF TypeInv, TypeOK
    <3> QED
      BY <2>1, <2>3, <3>1 DEF TypeInv, TypeOK, OpOK
  <2>4. CASE End(p) /\ UNCHANGED <<dir, halved>>
    BY <2>1, <2>4, EndType DEF TypeInv, TypeOK
  <2> QED
    BY <1>13, <2>2, <2>3, <2>4 DEF DRemove
<1>14. CASE DRemoveSome(p)
  <2>1. UNCHANGED <<row, base, vfile, done, removal, dl, bounds>>
    BY <1>14 DEF DRemoveSome
  <2>2. PICK a \in left[p] : RemovePart(a)
    BY <1>14 DEF DRemoveSome
  <2>3. dir' \in [Arch -> DirType \cup {None}] /\ halved' \subseteq Arch
    BY <2>2, RemoveType DEF TypeInv, TypeOK
  <2> QED
    BY <2>1, <2>3 DEF TypeInv, TypeOK, OpOK, dl
<1>2. CASE DValidate(p)
  <2>1. CASE Proceed(p, "validate") /\ Save(p, "Validating") /\ Goto(p, "validating")
             /\ UNCHANGED <<disk, pkg, left, cur, cancelled, cancelMap, bounds>>
    <3>1. row' \in PackageType
      BY <2>1, SaveType DEF Proceed, State, InProgress
    <3>2. pc' \in [Proc -> PC] /\ OpOK'
      BY <2>1, GotoType DEF PC, Proceed
    <3> QED
      BY <2>1, <3>1, <3>2 DEF TypeInv, TypeOK
  <2> QED
    BY <1>2, <2>1, StopType DEF DValidate
<1>3. CASE DValidated(p)
  <2>1. pc[p] = "validating" /\ UNCHANGED <<disk, bounds>>
    BY <1>3 DEF DValidated
  <2>2. CASE Goto(p, "write") /\ UNCHANGED <<row, pkg, left, cur, cancelled, cancelMap>>
    <3>1. pc' \in [Proc -> PC] /\ OpOK'
      BY <2>1, <2>2, GotoType DEF PC
    <3> QED
      BY <2>1, <2>2, <3>1 DEF TypeInv, TypeOK
  <2>3. CASE Fail(p)
    BY <2>1, <2>3, FailType DEF TypeInv, TypeOK
  <2> QED
    BY <1>3, <2>2, <2>3 DEF DValidated
<1>4. CASE DWrite(p)
  <2>1. CASE Proceed(p, "write") /\ vfile' = None /\ done' = FALSE /\ Goto(p, "writing")
             /\ UNCHANGED <<row, base, dir, halved, removal, pkg, left, cur, cancelled, cancelMap, bounds>>
    <3>1. pc' \in [Proc -> PC] /\ OpOK'
      BY <2>1, GotoType DEF PC, Proceed
    <3> QED
      BY <2>1, <3>1 DEF TypeInv, TypeOK
  <2> QED
    BY <1>4, <2>1, StopType DEF DWrite
<1>5. CASE DWritten(p)
  <2>1. pc[p] = "writing" /\ UNCHANGED <<base, done, dir, halved, removal, bounds>>
    BY <1>5 DEF DWritten
  <2>2. CASE /\ vfile' = [version |-> pkg[p].version, archs |-> pkg[p].archs]
             /\ Goto(p, "fetch") /\ UNCHANGED <<row, pkg, left, cur, cancelled, cancelMap>>
    <3>1. pc' \in [Proc -> PC] /\ OpOK'
      BY <2>1, <2>2, GotoType DEF PC
    <3>2. vfile' \in VersionFile
      BY <2>1, <2>2 DEF TypeInv, OpOK, PackageType, VersionFile
    <3> QED
      BY <2>1, <2>2, <3>1, <3>2 DEF TypeInv, TypeOK
  <2>3. CASE vfile' = vfile /\ Fail(p)
    BY <2>1, <2>3, FailType DEF TypeInv, TypeOK
  <2> QED
    BY <1>5, <2>2, <2>3 DEF DWritten
<1>6. CASE DFetch(p)
  <2>1. CASE Proceed(p, "fetch") /\ Save(p, "Downloading") /\ Goto(p, "arch")
             /\ left' = [left EXCEPT ![p] = pkg[p].archs]
             /\ UNCHANGED <<disk, pkg, cur, cancelled, cancelMap, bounds>>
    <3>1. row' \in PackageType
      BY <2>1, SaveType DEF Proceed, State, InProgress
    <3>2. pc' \in [Proc -> PC] /\ OpOK'
      BY <2>1, GotoType DEF PC, Proceed
    <3>3. left' \in [Proc -> SUBSET Arch]
      BY <2>1 DEF TypeInv, TypeOK, OpOK, PackageType, Archs, Proceed
    <3> QED
      BY <2>1, <3>1, <3>2, <3>3 DEF TypeInv, TypeOK
  <2> QED
    BY <1>6, <2>1, StopType DEF DFetch
<1>7. CASE DArch(p)
  <2>1. pc[p] = "arch" /\ UNCHANGED <<row, vfile, done, halved, removal, pkg, left, cancelled, cancelMap, bounds>>
    BY <1>7 DEF DArch
  <2>2. CASE Goto(p, "finish") /\ UNCHANGED <<base, dir, cur>>
    <3>1. pc' \in [Proc -> PC] /\ OpOK'
      BY <2>1, <2>2, GotoType DEF PC
    <3> QED
      BY <2>1, <2>2, <3>1 DEF TypeInv, TypeOK
  <2>3. ASSUME NEW a \in left[p], cur' = [cur EXCEPT ![p] = a], base' = TRUE,
               dir' = [dir EXCEPT ![a] = IF @ = None THEN EmptyDir ELSE @], Goto(p, "files")
        PROVE  TypeInv'
    <3>1. a \in Arch
      BY <2>3 DEF TypeInv, TypeOK
    <3>2. dir' \in [Arch -> DirType \cup {None}]
      BY <2>3, <3>1 DEF TypeInv, TypeOK, EmptyDir, DirType
    <3>3. pc' \in [Proc -> PC] /\ cur' \in [Proc -> Arch \cup {None}] /\ OpOK'
      BY <2>1, <2>3, <3>1 DEF TypeInv, TypeOK, OpOK, Goto, PC
    <3> QED
      BY <2>1, <2>3, <3>2, <3>3 DEF TypeInv, TypeOK
  <2> QED
    BY <1>7, <2>2, <2>3 DEF DArch
<1>8. CASE DFiles(p)
  <2>1. pc[p] = "files" /\ UNCHANGED <<base, vfile, done, halved, removal, bounds>>
    BY <1>8 DEF DFiles
  <2>a. cur[p] \in Arch /\ pkg[p] \in PackageType
    BY <2>1 DEF TypeInv, OpOK
  <2>2. CASE /\ left' = [left EXCEPT ![p] = @ \ {cur[p]}] /\ Goto(p, "arch")
             /\ UNCHANGED <<row, dir, pkg, cur, cancelled, cancelMap>>
    <3>1. pc' \in [Proc -> PC] /\ OpOK'
      BY <2>1, <2>2, GotoType DEF PC
    <3> QED
      BY <2>1, <2>2, <3>1 DEF TypeInv, TypeOK
  <2>3. ASSUME Goto(p, "check"), NEW f \in DirType, dir' = [dir EXCEPT ![cur[p]] = f],
               UNCHANGED <<row, pkg, left, cur, cancelled, cancelMap>>
        PROVE  TypeInv'
    <3>3. dir' \in [Arch -> DirType \cup {None}]
      BY <2>3 DEF TypeInv, TypeOK
    <3>4. pc' \in [Proc -> PC] /\ OpOK'
      BY <2>1, <2>a, <2>3, GotoType DEF PC
    <3> QED
      BY <2>1, <2>3, <3>3, <3>4 DEF TypeInv, TypeOK
  <2>4. CASE Fail(p) /\ UNCHANGED dir
    BY <2>1, <2>4, FailType DEF TypeInv, TypeOK
  <2> QED
    BY <1>8, <2>2, <2>3, <2>4 DEF DFiles
<1>9. CASE DCheck(p)
  <2>1. pc[p] = "check" /\ UNCHANGED <<base, vfile, done, halved, removal, bounds>>
    BY <1>9 DEF DCheck
  <2>a. cur[p] \in Arch
    BY <2>1 DEF TypeInv, OpOK
  <2>2. CASE /\ Verifies(dir[cur[p]]) /\ dir' = [dir EXCEPT ![cur[p]].done = TRUE]
             /\ left' = [left EXCEPT ![p] = @ \ {cur[p]}] /\ Goto(p, "arch")
             /\ UNCHANGED <<row, pkg, cur, cancelled, cancelMap>>
    <3>1. dir[cur[p]] \in DirType
      BY <2>a, <2>2 DEF TypeInv, TypeOK, Verifies
    <3>2. [dir[cur[p]] EXCEPT !.done = TRUE] \in DirType
      BY <3>1 DEF DirType
    <3>3. dir' \in [Arch -> DirType \cup {None}]
      BY <2>2, <3>2 DEF TypeInv, TypeOK
    <3>4. pc' \in [Proc -> PC] /\ OpOK'
      BY <2>1, <2>2, GotoType DEF PC
    <3> QED
      BY <2>1, <2>2, <3>3, <3>4 DEF TypeInv, TypeOK
  <2>3. CASE Fail(p) /\ UNCHANGED dir
    BY <2>1, <2>3, FailType DEF TypeInv, TypeOK
  <2> QED
    BY <1>9, <2>2, <2>3 DEF DCheck
<1>10. CASE DFinish(p)
  <2>1. CASE Proceed(p, "finish") /\ done' = TRUE /\ Goto(p, "verify")
             /\ UNCHANGED <<row, pkg, left, cur, cancelled, cancelMap, base, vfile, dir, halved, removal, bounds>>
    <3>1. pc' \in [Proc -> PC] /\ OpOK'
      BY <2>1, GotoType DEF PC, Proceed
    <3> QED
      BY <2>1, <3>1 DEF TypeInv, TypeOK
  <2>2. CASE Proceed(p, "finish") /\ done' = done /\ Fail(p) /\ UNCHANGED <<base, vfile, dir, halved, removal, bounds>>
    BY <2>2, FailType DEF TypeInv, TypeOK, Proceed
  <2> QED
    BY <1>10, <2>1, <2>2, StopType DEF DFinish
<1>11. CASE DVerify(p)
  <2>1. CASE Proceed(p, "verify") /\ Save(p, "Verifying") /\ Goto(p, "verifying")
             /\ UNCHANGED <<disk, pkg, left, cur, cancelled, cancelMap, bounds>>
    <3>1. row' \in PackageType
      BY <2>1, SaveType DEF Proceed, State, InProgress
    <3>2. pc' \in [Proc -> PC] /\ OpOK'
      BY <2>1, GotoType DEF PC, Proceed
    <3> QED
      BY <2>1, <3>1, <3>2 DEF TypeInv, TypeOK
  <2> QED
    BY <1>11, <2>1, StopType DEF DVerify
<1>12. CASE DVerified(p)
  <2>1. pc[p] = "verifying" /\ base' = TRUE /\ UNCHANGED <<vfile, done, dir, halved, removal, bounds>>
    BY <1>12 DEF DVerified
  <2>2. CASE row' = [pkg[p] EXCEPT !.state = "Active", !.path = TRUE] /\ End(p)
    <3>1. row' \in PackageType
      BY <2>1, <2>2 DEF TypeInv, OpOK, PackageType, State
    <3> QED
      BY <2>1, <2>2, <3>1, EndType DEF TypeInv, TypeOK
  <2>3. CASE Fail(p)
    BY <2>1, <2>3, FailType DEF TypeInv, TypeOK
  <2> QED
    BY <1>12, <2>2, <2>3 DEF DVerified
<1> QED
  BY <1>1, <1>2, <1>3, <1>4, <1>5, <1>6, <1>7, <1>8, <1>9, <1>10, <1>11, <1>12, <1>13, <1>14
     DEF Download

(* So does a step in which nothing changes.                                *)
LEMMA TypeStutter == TypeInv /\ UNCHANGED vars => TypeInv'
  BY DEF TypeInv, TypeOK, OpOK, vars, disk, dl, bounds

(* Every step keeps the types.                                             *)
LEMMA TypeStep == TypeInv /\ [Next]_vars => TypeInv'
  BY TypeRequests, TypeOthers, TypeDownload, TypeStutter DEF Next

(* What one request at a time leaves on the disk: no .done file of an arch *)
(* lies that no removal has halved, and version.json tells of every file   *)
(* and, when the package is done, of every directory. While p downloads,   *)
(* its own copy of the record tells the same, version.json or not; while   *)
(* it removes archs, of all but those.                                     *)
DiskOK ==
  /\ \A a \in Arch : dir[a] # None /\ dir[a].done =>
                       /\ Corrupt \notin dir[a].files
                       /\ a \notin halved => Verifies(dir[a])
  /\ vfile # None => \A a \in Arch : dir[a] # None =>
                       /\ dir[a].files \subseteq {vfile.version, Corrupt}
                       /\ done => a \in vfile.archs

DirsOf(p) ==
  \A a \in Arch : dir[a] # None => /\ a \in pkg[p].archs
                                   /\ dir[a].files \subseteq {pkg[p].version, Corrupt}

Written == {"fetch", "arch", "files", "check", "finish", "verify", "verifying"}

DownloadOK(p) ==
  /\ DirsOf(p)
  /\ pc[p] \in {"arch", "files", "check"} => left[p] \subseteq pkg[p].archs
  /\ pc[p] \in {"files", "check"} => cur[p] \in pkg[p].archs
  /\ pc[p] \in Written => vfile = [version |-> pkg[p].version, archs |-> pkg[p].archs]

RemoveOK(p) ==
  /\ \A a \in Arch \ left[p] : dir[a] # None =>
       /\ a \in pkg[p].archs
       /\ dir[a].files \subseteq {pkg[p].version, Corrupt}
  /\ (vfile # None /\ vfile.version = pkg[p].version) => left[p] \cap pkg[p].archs = {}

SeqInv ==
  /\ \A p, q \in Proc : pc[p] # "idle" /\ pc[q] # "idle" => p = q
  /\ removal # "none" => \A p \in Proc : pc[p] = "idle"
  /\ DiskOK
  /\ \A p \in Proc : pc[p] \notin {"idle", "start", "remove"} => DownloadOK(p)
  /\ \A p \in Proc : pc[p] = "remove" => RemoveOK(p)

IInv == TypeInv /\ (~Overlap => SeqInv)

(* The record, the directory and the downloads keep their shapes.          *)
THEOREM TypeCorrect == Spec => []TypeOK
<1>1. Init => TypeInv
  BY TypeInit
<1>2. TypeInv /\ [Next]_vars => TypeInv'
  BY TypeStep
<1>3. TypeInv => TypeOK
  BY DEF TypeInv
<1> QED
  BY <1>1, <1>2, <1>3, PTL DEF Spec

(* Every download is over: nothing is left to say but of the disk.         *)
LEMMA EndSeq ==
  ASSUME TypeInv, SeqInv, NEW p \in Proc, pc[p] # "idle", End(p), DiskOK'
  PROVE  SeqInv'
<1>1. \A q \in Proc : pc'[q] = "idle"
  BY DEF SeqInv, TypeInv, TypeOK, End
<1> QED
  BY <1>1 DEF SeqInv

(* p goes on, alone.                                                       *)
LEMMA MoveSeq ==
  ASSUME TypeInv, SeqInv, NEW p \in Proc, pc[p] # "idle", NEW l \in PC, Goto(p, l),
         removal' = removal, DiskOK',
         IF l = "remove" THEN RemoveOK(p)' ELSE DownloadOK(p)'
  PROVE  SeqInv'
<1>1. pc'[p] = l /\ \A q \in Proc : pc'[q] # "idle" => q = p
  BY DEF SeqInv, TypeInv, TypeOK, Goto
<1>2. removal' = "none"
  BY DEF SeqInv
<1> QED
  BY <1>1, <1>2 DEF SeqInv

(* DiskOK is about the directory alone.                                    *)
LEMMA DiskKept == DiskOK /\ UNCHANGED disk => DiskOK'
  BY DEF DiskOK, Verifies, disk

(* A download that ends keeps what is known of the disk.                   *)
LEMMA StopSeq ==
  ASSUME TypeInv, SeqInv, NEW p \in Proc, NEW l \in PC \ {"idle"}, Stop(p, l)
  PROVE  SeqInv'
  BY EndSeq, DiskKept DEF Stop, SeqInv

(* The disk and the copy of the record stay: the claims on p that its next *)
(* step adds are those that need a proof.                                  *)
LEMMA SameDisk ==
  ASSUME TypeInv, SeqInv, NEW p \in Proc, pc[p] \notin {"idle", "start", "remove"},
         NEW l \in PC \ {"remove"}, Goto(p, l), UNCHANGED <<disk, pkg>>,
         l \in {"arch", "files", "check"} => left'[p] \subseteq pkg[p].archs,
         l \in {"files", "check"} => cur'[p] \in pkg[p].archs,
         l \in Written => vfile = [version |-> pkg[p].version, archs |-> pkg[p].archs]
  PROVE  SeqInv'
<1>1. pc'[p] = l
  BY DEF Goto, TypeInv, TypeOK
<1>2. DirsOf(p)'
  BY DEF SeqInv, DownloadOK, DirsOf, disk
<1>3. DownloadOK(p)'
  BY <1>1, <1>2 DEF DownloadOK, disk
<1> QED
  BY <1>3, DiskKept, MoveSeq DEF SeqInv, disk

(* What the removal of an arch, or of a part of it, leaves.                *)
LEMMA RemovedArch ==
  ASSUME TypeInv, NEW a \in Arch, RemoveArch(a) \/ RemovePart(a)
  PROVE  /\ \A b \in Arch \ {a} : dir'[b] = dir[b] /\ (b \in halved' <=> b \in halved)
         /\ dir'[a] # None =>
              /\ dir[a] # None /\ dir'[a].files \subseteq dir[a].files
              /\ dir'[a].done => dir[a].done /\ a \in halved'
<1>1. CASE RemoveArch(a)
  BY <1>1 DEF RemoveArch, TypeInv, TypeOK
<1>2. CASE RemovePart(a)
  <2>1. dir[a] # None
    BY <1>2 DEF RemovePart
  <2>2. PICK f \in DirType :
          /\ f.files \subseteq dir[a].files /\ (f.done => dir[a].done)
          /\ dir' = [dir EXCEPT ![a] = f]
          /\ halved' = IF f.done THEN halved \cup {a} ELSE halved \ {a}
    BY <1>2 DEF RemovePart
  <2>3. dir'[a] = f /\ \A b \in Arch \ {a} : dir'[b] = dir[b]
    BY <2>2 DEF TypeInv, TypeOK
  <2> QED
    BY <2>1, <2>2, <2>3
<1> QED
  BY <1>1, <1>2

(* It breaks no promise about the disk.                                    *)
LEMMA RemovedDisk ==
  ASSUME TypeInv, DiskOK, NEW a \in Arch, RemoveArch(a) \/ RemovePart(a),
         UNCHANGED <<vfile, done>>
  PROVE  DiskOK'
<1>1. ASSUME NEW b \in Arch, dir'[b] # None
      PROVE  /\ dir'[b].done => Corrupt \notin dir'[b].files /\ (b \notin halved' => Verifies(dir'[b]))
             /\ vfile # None => /\ dir'[b].files \subseteq {vfile.version, Corrupt}
                                /\ done => b \in vfile.archs
  <2>1. CASE b = a
    BY <1>1, <2>1, RemovedArch DEF DiskOK
  <2>2. CASE b # a
    BY <1>1, <2>2, RemovedArch DEF DiskOK
  <2> QED
    BY <2>1, <2>2
<1> QED
  BY <1>1 DEF DiskOK, Verifies

(* The strengthening holds at the start.                                   *)
LEMMA SeqInit == Init => SeqInv
  BY DEF Init, SeqInv, DiskOK

(* Requests keep it: they come when no download is at work.                *)
LEMMA SeqRequests ==
  ASSUME TypeInv, SeqInv, ~Overlap, NEW p \in Proc,
         Create(p) \/ Update(p) \/ Redownload(p)
  PROVE  SeqInv'
<1>1. Running = {} /\ removal = "none" /\ UNCHANGED disk
  BY DEF Create, Update, Redownload, Request
<1>2. pc' = [pc EXCEPT ![p] = "start"]
  BY DEF Create, Update, Redownload, Spawn
<1>3. \A q \in Proc : pc'[q] = IF q = p THEN "start" ELSE "idle"
  BY <1>1, <1>2 DEF Running, TypeInv, TypeOK
<1> QED
  BY <1>1, <1>3, DiskKept DEF SeqInv, disk

(* Cancel, delete, import, the steps of a removal and crash keep it.       *)
LEMMA SeqOthers ==
  ASSUME TypeInv, SeqInv, ~Overlap,
         Cancel \/ Delete \/ Import \/ RemoveSome \/ RemoveEnds \/ Crash
  PROVE  SeqInv'
<1>1. CASE Cancel
  <2>1. UNCHANGED <<disk, pc, pkg, left, cur>>
    BY <1>1 DEF Cancel
  <2>2. \A p \in Proc : /\ DownloadOK(p) => DownloadOK(p)'
                        /\ RemoveOK(p) => RemoveOK(p)'
    BY <2>1 DEF DownloadOK, DirsOf, RemoveOK, disk
  <2> QED
    BY <2>1, <2>2, DiskKept DEF SeqInv, disk
<1>2. CASE Crash
  <2>1. UNCHANGED <<vfile, done, dir, halved>> /\ \A p \in Proc : pc'[p] = "idle"
    BY <1>2 DEF Crash
  <2> QED
    BY <2>1 DEF SeqInv, DiskOK, Verifies
<1>3. CASE Delete
  <2>1. Running = {} /\ UNCHANGED <<pc, vfile, done, dir, halved>>
    BY <1>3 DEF Delete, Request, dl
  <2> QED
    BY <2>1 DEF SeqInv, Running, DiskOK, Verifies
<1>5. CASE RemoveSome
  <2>1. (\A p \in Proc : pc[p] = "idle") /\ pc' = pc
    BY <1>5 DEF RemoveSome, SeqInv, dl
  <2>2. DiskOK'
    <3>1. CASE (vfile' = None \/ done' = FALSE) /\ vfile' \in {vfile, None} /\ UNCHANGED <<dir, halved>>
      BY <3>1 DEF SeqInv, DiskOK, Verifies
    <3>2. CASE UNCHANGED <<vfile, done>> /\ \E a \in Dirs : RemoveArch(a) \/ RemovePart(a)
      BY <3>2, RemovedDisk DEF SeqInv, Dirs
    <3> QED
      BY <1>5, <3>1, <3>2 DEF RemoveSome
  <2> QED
    BY <2>1, <2>2 DEF SeqInv
<1>6. CASE RemoveEnds
  <2>1. (\A p \in Proc : pc[p] = "idle") /\ pc' = pc
    BY <1>6 DEF RemoveEnds, SeqInv, dl
  <2>2. DiskOK'
    BY <1>6 DEF RemoveEnds, SeqInv, DiskOK, Verifies
  <2> QED
    BY <2>1, <2>2 DEF SeqInv
<1>4. CASE Import
  <2>1. Running = {} /\ pc' = pc
    BY <1>4 DEF Import, Request, dl
  <2>2. CASE UNCHANGED <<vfile, done, dir, halved>>
    BY <2>1, <2>2 DEF SeqInv, Running, DiskOK, Verifies
  <2>3. ASSUME NEW v \in Version, NEW A \in Archs,
               vfile' = [version |-> v, archs |-> A],
               dir' = [a \in Arch |-> IF a \in A
                          THEN [files |-> {v}, complete |-> TRUE, done |-> TRUE] ELSE None]
        PROVE  SeqInv'
    <3>1. DiskOK'
      BY <2>3, CorruptAssumption DEF DiskOK, Verifies
    <3> QED
      BY <2>1, <3>1 DEF SeqInv, Running
  <2> QED
    BY <1>4, <2>2, <2>3 DEF Import, disk
<1> QED
  BY <1>1, <1>2, <1>3, <1>4, <1>5, <1>6

(* What DStart does not ask to remove is wanted: a directory that          *)
(* version.json, or in its place the list of directories, does not name is *)
(* not there.                                                              *)
LEMMA SeqStart ==
  ASSUME TypeInv, SeqInv, NEW p \in Proc, DStart(p)
  PROVE  SeqInv'
<1>1. pc[p] = "start" /\ UNCHANGED <<vfile, done, dir, halved, removal>>
  BY DEF DStart
<1>2. DiskOK'
  BY <1>1 DEF SeqInv, DiskOK, Verifies
<1>3. CASE End(p)
  BY <1>1, <1>2, <1>3, EndSeq
<1>4. CASE Goto(p, "remove") /\ UNCHANGED pkg /\ left' = [left EXCEPT ![p] = Diff(pkg[p]).del]
  <2>1. left'[p] = Diff(pkg[p]).del
    BY <1>4 DEF TypeInv, TypeOK
  <2>2. \A a \in Arch : dir[a] # None => a \in FoundArchs
    BY DEF FoundArchs, Dirs, SeqInv, DiskOK
  <2>3. ASSUME NEW a \in Arch \ Diff(pkg[p]).del, dir[a] # None
        PROVE  a \in pkg[p].archs /\ dir[a].files \subseteq {pkg[p].version, Corrupt}
    <3>2. FoundVersion = pkg[p].version /\ a \in pkg[p].archs
      BY <2>2, <2>3 DEF Diff
    <3>3. pkg[p] \in PackageType
      BY <1>1 DEF TypeInv, OpOK
    <3>4. vfile # None => vfile.version = pkg[p].version
      BY <3>2 DEF FoundVersion
    <3>5. vfile # None
      BY <3>2, <3>3, VersionAssumption DEF FoundVersion, PackageType
    <3> QED
      BY <2>3, <3>2, <3>4, <3>5 DEF SeqInv, DiskOK
  <2>4. (vfile # None /\ vfile.version = pkg[p].version) =>
           Diff(pkg[p]).del \cap pkg[p].archs = {}
    BY DEF Diff, FoundVersion
  <2>5. RemoveOK(p)'
    BY <1>1, <1>4, <2>1, <2>3, <2>4 DEF RemoveOK
  <2> QED
    BY <1>1, <1>2, <1>4, <2>5, MoveSeq DEF PC
<1> QED
  BY <1>3, <1>4 DEF DStart

(* Archs are removed until all that are left are wanted.                   *)
LEMMA SeqRemove ==
  ASSUME TypeInv, SeqInv, NEW p \in Proc, DRemove(p) \/ DRemoveSome(p)
  PROVE  SeqInv'
<1>1. pc[p] = "remove" /\ UNCHANGED <<vfile, done, removal>> /\ RemoveOK(p)
  BY DEF DRemove, DRemoveSome, SeqInv
<1>2. CASE left[p] = {} /\ Goto(p, "validate") /\ UNCHANGED <<dir, halved, pkg>>
  <2>1. DiskOK'
    BY <1>1, <1>2 DEF SeqInv, DiskOK, Verifies
  <2>2. pc'[p] = "validate"
    BY <1>2 DEF Goto, TypeInv, TypeOK
  <2>3. DownloadOK(p)'
    BY <1>1, <1>2, <2>2 DEF DownloadOK, DirsOf, RemoveOK, Written
  <2> QED
    BY <1>1, <1>2, <2>1, <2>3, MoveSeq DEF PC
<1>3. ASSUME NEW a \in left[p], RemoveArch(a) \/ RemovePart(a), UNCHANGED <<pc, pkg>>,
             left'[p] \subseteq left[p], left[p] \subseteq left'[p] \cup {a},
             dir'[a] # None => a \in left'[p]
      PROVE  SeqInv'
  <2>1. a \in Arch
    BY <1>3 DEF TypeInv, TypeOK
  <2>2. DiskOK'
    BY <1>1, <1>3, <2>1, RemovedDisk DEF SeqInv
  <2>3. \A b \in Arch \ {a} : dir'[b] = dir[b]
    BY <1>3, <2>1, RemovedArch
  <2>4. RemoveOK(p)'
    BY <1>1, <1>3, <2>3 DEF RemoveOK
  <2>5. \A q \in Proc : pc'[q] # "idle" => q = p
    BY <1>1, <1>3 DEF SeqInv
  <2> QED
    BY <1>1, <1>3, <2>2, <2>4, <2>5 DEF SeqInv
<1>4. CASE End(p) /\ UNCHANGED <<dir, halved>>
  <2>1. DiskOK'
    BY <1>1, <1>4 DEF SeqInv, DiskOK, Verifies
  <2> QED
    BY <1>1, <1>4, <2>1, EndSeq
<1>5. CASE \E a \in left[p] : RemoveArch(a) /\ left' = [left EXCEPT ![p] = @ \ {a}]
                              /\ UNCHANGED <<pc, pkg>>
  <2>1. PICK a \in left[p] : RemoveArch(a) /\ left' = [left EXCEPT ![p] = @ \ {a}]
    BY <1>5
  <2>2. left'[p] = left[p] \ {a} /\ dir'[a] = None
    BY <2>1 DEF RemoveArch, TypeInv, TypeOK
  <2> QED
    BY <1>3, <1>5, <2>1, <2>2
<1>6. CASE DRemoveSome(p)
  BY <1>3, <1>6 DEF DRemoveSome, dl
<1> QED
  BY <1>2, <1>4, <1>5, <1>6 DEF DRemove

(* The steps of downloadPackage keep it.                                   *)
LEMMA SeqDownload ==
  ASSUME TypeInv, SeqInv, NEW p \in Proc, Download(p)
  PROVE  SeqInv'
<1>1. CASE DStart(p)
  BY <1>1, SeqStart
<1>13. CASE DRemove(p) \/ DRemoveSome(p)
  BY <1>13, SeqRemove
<1>2. CASE DValidate(p)
  BY <1>2, StopSeq, SameDisk DEF DValidate, Proceed, PC, Written
<1>3. CASE DValidated(p)
  <2>1. CASE Goto(p, "write") /\ UNCHANGED <<pkg, disk>>
    BY <1>3, <2>1, SameDisk DEF DValidated, PC, Written
  <2>2. CASE Fail(p) /\ UNCHANGED disk
    BY <1>3, <2>2, EndSeq, DiskKept DEF DValidated, Fail, SeqInv
  <2> QED
    BY <1>3, <2>1, <2>2 DEF DValidated
<1>4. CASE DWrite(p)
  <2>1. CASE /\ pc[p] = "write" /\ vfile' = None /\ Goto(p, "writing")
             /\ UNCHANGED <<dir, halved, removal, pkg>>
    <3>1. DiskOK'
      BY <2>1 DEF DiskOK, Verifies, SeqInv
    <3>2. pc'[p] = "writing"
      BY <2>1 DEF Goto, TypeInv, TypeOK
    <3>3. DownloadOK(p)'
      BY <2>1, <3>2 DEF SeqInv, DownloadOK, DirsOf, Written
    <3> QED
      BY <2>1, <3>1, <3>3, MoveSeq DEF PC
  <2> QED
    BY <1>4, <2>1, StopSeq DEF DWrite, Proceed, PC
<1>5. CASE DWritten(p)
  <2>1. CASE /\ pc[p] = "writing" /\ Goto(p, "fetch") /\ UNCHANGED <<dir, halved, removal, pkg>>
             /\ vfile' = [version |-> pkg[p].version, archs |-> pkg[p].archs]
    <3>1. DirsOf(p)
      BY <2>1 DEF SeqInv, DownloadOK
    <3>2. DiskOK'
      BY <2>1, <3>1 DEF DiskOK, DirsOf, Verifies, SeqInv
    <3>3. pc'[p] = "fetch"
      BY <2>1 DEF Goto, TypeInv, TypeOK
    <3>4. DownloadOK(p)'
      BY <2>1, <3>1, <3>3 DEF DownloadOK, DirsOf
    <3> QED
      BY <2>1, <3>2, <3>4, MoveSeq DEF PC
  <2>2. CASE pc[p] = "writing" /\ Fail(p) /\ UNCHANGED disk
    BY <2>2, EndSeq, DiskKept DEF Fail, SeqInv
  <2> QED
    BY <1>5, <2>1, <2>2 DEF DWritten, disk
<1>6. CASE DFetch(p)
  <2>1. CASE Proceed(p, "fetch") /\ Goto(p, "arch") /\ UNCHANGED <<disk, pkg>>
             /\ left' = [left EXCEPT ![p] = pkg[p].archs]
    <3>1. left'[p] = pkg[p].archs
      BY <2>1 DEF TypeInv, TypeOK
    <3>2. vfile = [version |-> pkg[p].version, archs |-> pkg[p].archs]
      BY <2>1 DEF Proceed, SeqInv, DownloadOK, Written
    <3> QED
      BY <2>1, <3>1, <3>2, SameDisk DEF Proceed, PC
  <2> QED
    BY <1>6, <2>1, StopSeq DEF DFetch, PC
<1>7. CASE DArch(p)
  <2>a. pc[p] = "arch" /\ UNCHANGED <<vfile, done, halved, removal, pkg, left>>
    BY <1>7 DEF DArch
  <2>b. DownloadOK(p) /\ vfile = [version |-> pkg[p].version, archs |-> pkg[p].archs]
    BY <2>a DEF SeqInv, DownloadOK, Written
  <2>1. CASE Goto(p, "finish") /\ UNCHANGED disk
    BY <2>a, <2>b, <2>1, SameDisk DEF PC
  <2>2. ASSUME NEW a \in left[p], cur' = [cur EXCEPT ![p] = a], Goto(p, "files"),
               dir' = [dir EXCEPT ![a] = IF @ = None THEN EmptyDir ELSE @]
        PROVE  SeqInv'
    <3>1. a \in pkg[p].archs /\ a \in Arch
      BY <2>a, <2>b DEF DownloadOK, TypeInv, TypeOK
    <3>2. \A b \in Arch : dir'[b] # None =>
            \/ dir[b] # None /\ dir'[b] = dir[b]
            \/ b = a /\ dir'[b] = EmptyDir
      BY <2>2, <3>1 DEF TypeInv, TypeOK
    <3>3. DiskOK'
      BY <2>a, <2>b, <3>1, <3>2 DEF SeqInv, DiskOK, Verifies, EmptyDir
    <3>4. pc'[p] = "files" /\ cur'[p] = a
      BY <2>2 DEF Goto, TypeInv, TypeOK
    <3>5. DirsOf(p)'
      BY <2>a, <2>b, <3>1, <3>2 DEF DownloadOK, DirsOf, EmptyDir
    <3>6. DownloadOK(p)'
      BY <2>a, <2>b, <3>1, <3>4, <3>5 DEF DownloadOK
    <3> QED
      BY <2>a, <2>2, <3>3, <3>6, MoveSeq DEF PC
  <2> QED
    BY <1>7, <2>1, <2>2 DEF DArch, disk
<1>8. CASE DFiles(p)
  <2>a. pc[p] = "files" /\ UNCHANGED <<base, vfile, done, halved, removal>>
    BY <1>8 DEF DFiles
  <2>b. DownloadOK(p) /\ vfile = [version |-> pkg[p].version, archs |-> pkg[p].archs]
    BY <2>a DEF SeqInv, DownloadOK, Written
  <2>c. cur[p] \in Arch /\ cur[p] \in pkg[p].archs /\ left[p] \subseteq pkg[p].archs
    BY <2>a, <2>b DEF TypeInv, OpOK, DownloadOK
  <2>1. CASE /\ left' = [left EXCEPT ![p] = @ \ {cur[p]}] /\ Goto(p, "arch")
             /\ UNCHANGED <<disk, pkg>>
    <3>1. left'[p] \subseteq pkg[p].archs
      BY <2>c, <2>1 DEF TypeInv, TypeOK
    <3> QED
      BY <2>a, <2>b, <2>1, <3>1, SameDisk DEF PC
  <2>2. ASSUME dir[cur[p]] # None, ~dir[cur[p]].done, Goto(p, "check"),
               NEW f \in DirType, Fetched(p, dir[cur[p]], f),
               dir' = [dir EXCEPT ![cur[p]] = f], UNCHANGED <<pkg, left, cur>>
        PROVE  SeqInv'
    <3>1. f.files \subseteq {pkg[p].version, Corrupt} /\ ~f.done
      BY <2>b, <2>c, <2>2 DEF Fetched, DownloadOK, DirsOf
    <3>2. \A b \in Arch : dir'[b] = IF b = cur[p] THEN f ELSE dir[b]
      BY <2>2 DEF TypeInv, TypeOK
    <3>3. DirsOf(p)'
      BY <2>b, <2>c, <2>2, <3>1, <3>2 DEF DownloadOK, DirsOf
    <3>4. DiskOK'
      BY <2>a, <2>b, <2>2, <3>1, <3>2, <3>3 DEF SeqInv, DiskOK, Verifies, DirsOf
    <3>5. pc'[p] = "check"
      BY <2>2 DEF Goto, TypeInv, TypeOK
    <3>6. DownloadOK(p)'
      BY <2>a, <2>b, <2>c, <2>2, <3>3, <3>5 DEF DownloadOK
    <3> QED
      BY <2>a, <2>2, <3>4, <3>6, MoveSeq DEF PC
  <2>3. CASE Fail(p) /\ UNCHANGED disk
    BY <2>a, <2>3, EndSeq, DiskKept DEF Fail, SeqInv
  <2> QED
    BY <1>8, <2>1, <2>2, <2>3 DEF DFiles, disk
<1>9. CASE DCheck(p)
  <2>a. pc[p] = "check" /\ UNCHANGED <<base, vfile, done, halved, removal>>
    BY <1>9 DEF DCheck
  <2>b. DownloadOK(p) /\ vfile = [version |-> pkg[p].version, archs |-> pkg[p].archs]
    BY <2>a DEF SeqInv, DownloadOK, Written
  <2>c. cur[p] \in Arch /\ left[p] \subseteq pkg[p].archs
    BY <2>a, <2>b DEF TypeInv, OpOK, DownloadOK
  <2>1. CASE /\ Verifies(dir[cur[p]]) /\ dir' = [dir EXCEPT ![cur[p]].done = TRUE]
             /\ left' = [left EXCEPT ![p] = @ \ {cur[p]}] /\ Goto(p, "arch")
             /\ UNCHANGED pkg
    <3>1. dir[cur[p]] # None /\ dir[cur[p]] \in DirType
      BY <2>c, <2>1 DEF Verifies, TypeInv, TypeOK
    <3>2. \A b \in Arch \ {cur[p]} : dir'[b] = dir[b]
      BY <2>1 DEF TypeInv, TypeOK
    <3>3. /\ dir'[cur[p]].files = dir[cur[p]].files
          /\ dir'[cur[p]].complete = dir[cur[p]].complete
          /\ dir'[cur[p]] # None
      BY <2>c, <2>1, <3>1, NoneAssumption DEF TypeInv, TypeOK, DirType
    <3>4. Verifies(dir'[cur[p]])
      BY <2>1, <3>3 DEF Verifies
    <3>5. DirsOf(p)'
      BY <2>b, <2>1, <3>1, <3>2, <3>3 DEF DownloadOK, DirsOf
    <3>6. DiskOK'
      BY <2>a, <2>b, <2>1, <3>2, <3>4, <3>5, CorruptAssumption DEF SeqInv, DiskOK, Verifies, DirsOf
    <3>7. pc'[p] = "arch" /\ left'[p] \subseteq pkg[p].archs
      BY <2>c, <2>1 DEF Goto, TypeInv, TypeOK
    <3>8. DownloadOK(p)'
      BY <2>a, <2>b, <2>1, <3>5, <3>7 DEF DownloadOK
    <3> QED
      BY <2>a, <2>1, <3>6, <3>8, MoveSeq DEF PC
  <2>2. CASE Fail(p) /\ UNCHANGED disk
    BY <2>a, <2>2, EndSeq, DiskKept DEF Fail, SeqInv
  <2> QED
    BY <1>9, <2>1, <2>2 DEF DCheck, disk
<1>10. CASE DFinish(p)
  <2>1. CASE Proceed(p, "finish") /\ Goto(p, "verify") /\ UNCHANGED <<vfile, dir, halved, removal, pkg>>
    <3>1. DownloadOK(p) /\ vfile = [version |-> pkg[p].version, archs |-> pkg[p].archs]
      BY <2>1 DEF Proceed, SeqInv, DownloadOK, Written
    <3>2. DiskOK'
      BY <2>1, <3>1 DEF SeqInv, DiskOK, Verifies, DownloadOK, DirsOf
    <3>3. pc'[p] = "verify"
      BY <2>1 DEF Goto, TypeInv, TypeOK
    <3>4. DownloadOK(p)'
      BY <2>1, <3>1, <3>3 DEF DownloadOK, DirsOf
    <3> QED
      BY <2>1, <3>2, <3>4, MoveSeq DEF PC, Proceed
  <2>2. CASE Proceed(p, "finish") /\ Fail(p) /\ UNCHANGED disk
    BY <2>2, EndSeq, DiskKept DEF Fail, SeqInv, Proceed
  <2> QED
    BY <1>10, <2>1, <2>2, StopSeq DEF DFinish, disk, PC
<1>11. CASE DVerify(p)
  <2>1. CASE Proceed(p, "verify") /\ Goto(p, "verifying") /\ UNCHANGED <<disk, pkg>>
    <3>1. vfile = [version |-> pkg[p].version, archs |-> pkg[p].archs]
      BY <2>1 DEF Proceed, SeqInv, DownloadOK, Written
    <3> QED
      BY <2>1, <3>1, SameDisk DEF Proceed, PC
  <2> QED
    BY <1>11, <2>1, StopSeq DEF DVerify, PC
<1>12. CASE DVerified(p)
  <2>1. pc[p] = "verifying" /\ End(p) /\ UNCHANGED <<vfile, done, dir, halved>>
    BY <1>12 DEF DVerified, Fail
  <2> QED
    BY <2>1, EndSeq DEF SeqInv, DiskOK, Verifies
<1> QED
  BY <1>1, <1>2, <1>3, <1>4, <1>5, <1>6, <1>7, <1>8, <1>9, <1>10, <1>11, <1>12, <1>13
     DEF Download

(* So does a step in which nothing changes.                                *)
LEMMA SeqStutter == SeqInv /\ UNCHANGED vars => SeqInv'
<1> SUFFICES ASSUME SeqInv, UNCHANGED vars PROVE SeqInv'
  OBVIOUS
<1>1. \A p \in Proc : DownloadOK(p) => DownloadOK(p)'
  BY DEF DownloadOK, DirsOf, vars, disk, dl
<1>2. \A p \in Proc : RemoveOK(p) => RemoveOK(p)'
  BY DEF RemoveOK, vars, disk, dl
<1> QED
  BY <1>1, <1>2, DiskKept DEF SeqInv, vars, disk, dl

(* Every step keeps types and strengthening together.                      *)
LEMMA InvStep == IInv /\ [Next]_vars => IInv'
  BY TypeStep, SeqRequests, SeqOthers, SeqDownload, SeqStutter DEF IInv, Next

(* One request at a time: no .done file of an arch is wrong, whatever is   *)
(* cancelled, fails, is served damaged or is cut off by a crash, but for   *)
(* those that a removal cut short has left beside a part of their files,   *)
(* and these files too are of the version in version.json. The proof is    *)
(* the invariant above; version.json must tell of all directories for      *)
(* DStart to remove the ones of another version.                           *)
THEOREM DoneCorrect == Spec => []DoneArchIsReal
<1>1. Init => IInv
  BY TypeInit, SeqInit DEF IInv
<1>2. IInv => DoneArchIsReal
  BY CorruptAssumption DEF IInv, SeqInv, DiskOK, DoneArchIsReal, Dirs, Verifies
<1> QED
  BY <1>1, <1>2, InvStep, PTL DEF Spec

(* Every step keeps the entry of cancelDownloadMap right.                  *)
LEMMA CancelStep ==
  ASSUME TypeInv, CancelReachesRunning, [Next]_vars
  PROVE  CancelReachesRunning'
<1> USE VersionAssumption DEF CancelReachesRunning, Running
<1>1. ASSUME NEW p \in Proc, Create(p) \/ Update(p) \/ Redownload(p)
      PROVE  CancelReachesRunning'
  BY <1>1 DEF Create, Update, Redownload, Spawn, TypeInv, TypeOK
<1>2. CASE Cancel \/ Delete \/ Import \/ RemoveSome \/ RemoveEnds
  BY <1>2 DEF Cancel, Delete, Import, RemoveSome, RemoveEnds, dl
<1>3. CASE Crash
  BY <1>3 DEF Crash
<1>4. ASSUME NEW p \in Proc, Download(p)
      PROVE  CancelReachesRunning'
  <2>1. CASE End(p)
    BY <2>1 DEF End
  <2>2. ASSUME NEW l \in PC \ {"idle"}, Goto(p, l), cancelMap' \in {cancelMap, p}
        PROVE  CancelReachesRunning'
    BY <2>2 DEF Goto, TypeInv, TypeOK
  <2>4. CASE UNCHANGED <<pc, cancelMap>>
    BY <2>4
  <2>3. \/ End(p) \/ UNCHANGED <<pc, cancelMap>>
        \/ \E l \in PC \ {"idle"} : Goto(p, l) /\ cancelMap' \in {cancelMap, p}
    BY <1>4 DEF Download, DStart, DRemove, DRemoveSome, dl, DValidate, DValidated, DWrite, DWritten, DFetch, DArch,
                DFiles, DCheck, DFinish, DVerify, DVerified, Stop, Fail, PC
  <2> QED
    BY <2>1, <2>2, <2>3, <2>4
<1>5. CASE UNCHANGED vars
  BY <1>5 DEF vars, dl
<1> QED
  BY <1>1, <1>2, <1>3, <1>4, <1>5 DEF Next

(* However many downloads of the package overlap, the entry of             *)
(* cancelDownloadMap is that of one still running.                         *)
THEOREM CancelCorrect == Spec => []CancelReachesRunning
<1>1. Init => TypeInv /\ CancelReachesRunning
  BY TypeInit DEF Init, CancelReachesRunning
<1> QED
  BY <1>1, TypeStep, CancelStep, PTL DEF Spec

---------------------------------------------------------------------------
(* Who will end the state of a download. *)

(* A download that will still write the record: nobody has cancelled it,   *)
(* and it will not find the package ready and its copy Active.             *)
Answers(q) ==
  /\ pc[q] # "idle" /\ q \notin cancelled
  /\ pc[q] = "start" => pkg[q].state # "Active"

(* The record in one of the states of a download has such a download, and  *)
(* only running downloads are cancelled.                                   *)
AnswerInv ==
  /\ (row # None /\ row.state \in InProgress) => \E q \in Proc : Answers(q)
  /\ cancelled \subseteq Running
  /\ CancelReachesRunning

(* The record says that a download is at work.                             *)
Busy == row # None /\ row.state \in InProgress

(* What can leave a record in progress without a download: the cancel      *)
(* action, the end of the process, and an os.RemoveAll that fails.         *)
Stops == Cancel \/ Crash \/ \E p \in Proc : DRemove(p) /\ pc'[p] = "idle"

(* What a step of a download does to the record: it ends and has written   *)
(* the outcome; it ends without a word, cancelled, with nothing to do or   *)
(* because a removal has failed; or it goes on, and if it has written the  *)
(* record it is not cancelled.                                             *)
Outcome(p) ==
  \/ End(p) /\ row' # None /\ row'.state \in {"Active", "OutOfSync"}
  \/ End(p) /\ row' = row /\ (p \in cancelled \/ (pc[p] = "start" /\ pkg[p].state = "Active"))
  \/ End(p) /\ row' = row /\ Stops
  \/ /\ \E l \in PC \ {"idle", "start"} : Goto(p, l)
     /\ UNCHANGED <<pkg, cancelled>>
     /\ row' = row \/ p \notin cancelled

(* The record of a download that runs.                                     *)
LEMMA SaveState ==
  ASSUME TypeInv, NEW p \in Proc, pc[p] # "idle", NEW s \in State
  PROVE  /\ Save(p, s) => /\ row' # None /\ row'.state = s
                          /\ row'.version = pkg[p].version /\ row'.archs = pkg[p].archs
         /\ row' = [pkg[p] EXCEPT !.state = "Active", !.path = TRUE] =>
              /\ row' # None /\ row'.state = "Active"
              /\ row'.version = pkg[p].version /\ row'.archs = pkg[p].archs
<1>1. pkg[p] \in PackageType
  BY DEF TypeInv, OpOK
<1>2. /\ [pkg[p] EXCEPT !.state = s] \in PackageType
      /\ [pkg[p] EXCEPT !.state = "Active", !.path = TRUE] \in PackageType
  BY <1>1 DEF PackageType, State
<1> QED
  BY <1>1, <1>2, NoneAssumption DEF Save, PackageType

(* Where a step of downloadPackage leaves the download and the state of    *)
(* the record.                                                             *)
LEMMA DownloadOutcome ==
  ASSUME TypeInv, NEW p \in Proc, Download(p)
  PROVE  pc[p] # "idle" /\ Outcome(p)
<1>1. pc[p] # "idle"
  BY DEF Download, DStart, DRemove, DRemoveSome, DValidate, DValidated, DWrite, DWritten,
         DFetch, DArch, DFiles, DCheck, DFinish, DVerify, DVerified, Stop, Proceed
<1>2. Fail(p) => Outcome(p)
  BY <1>1, SaveState DEF Fail, Outcome, State
<1>3. ASSUME p \in cancelled, End(p), row' = row PROVE Outcome(p)
  BY <1>3 DEF Outcome
<1>a. ASSUME NEW l \in PC \ {"idle", "start"}, p \notin cancelled, Goto(p, l), UNCHANGED <<pkg, cancelled>>
      PROVE  Outcome(p)
  BY <1>a DEF Outcome
<1>4. CASE DStart(p)
  BY <1>1, <1>4, SaveState DEF DStart, Outcome, State, PC
<1>9. CASE DRemove(p)
  <2>1. pc[p] = "remove" /\ row' = row
    BY <1>9 DEF DRemove
  <2>2. CASE Goto(p, "validate") /\ UNCHANGED <<pkg, cancelled>>
    BY <2>1, <2>2 DEF Outcome, PC
  <2>3. CASE UNCHANGED <<pc, pkg, cancelled>>
    <3>1. Goto(p, "remove")
      BY <2>1, <2>3 DEF Goto, TypeInv, TypeOK
    <3> QED
      BY <2>1, <2>3, <3>1 DEF Outcome, PC
  <2>4. CASE End(p)
    <3>1. pc'[p] = "idle"
      BY <2>4 DEF End, TypeInv, TypeOK
    <3> QED
      BY <1>9, <2>1, <2>4, <3>1 DEF Outcome, Stops
  <2>5. Outcome(p)
    BY <1>9, <2>2, <2>3, <2>4 DEF DRemove
  <2> QED
    BY <1>1, <2>5
<1>10. CASE DRemoveSome(p)
  <2>1. UNCHANGED <<row, pc, pkg, cancelled>> /\ Goto(p, "remove")
    BY <1>10 DEF DRemoveSome, dl, Goto, TypeInv, TypeOK
  <2> QED
    BY <1>1, <2>1 DEF Outcome, PC
<1>5. CASE DValidate(p) \/ DWrite(p) \/ DFetch(p) \/ DVerify(p)
  BY <1>3, <1>5, <1>a DEF DValidate, DWrite, DFetch, DVerify, Stop, Proceed, PC
<1>6. CASE DValidated(p) \/ DWritten(p) \/ DArch(p) \/ DFiles(p) \/ DCheck(p)
  BY <1>2, <1>6 DEF DValidated, DWritten, DArch, DFiles, DCheck, Outcome, PC
<1>7. CASE DFinish(p)
  BY <1>2, <1>3, <1>7, <1>a DEF DFinish, Stop, Proceed, PC
<1>8. CASE DVerified(p)
  <2>1. "Active" \in State
    BY DEF State
  <2> QED
    BY <1>1, <1>2, <1>8, <2>1, SaveState DEF DVerified, Outcome
<1> QED
  BY <1>1, <1>4, <1>5, <1>6, <1>7, <1>8, <1>9, <1>10 DEF Download

(* Every step keeps the promise of an answer, if nothing is cancelled or   *)
(* killed and no removal fails while the record says that a download is at *)
(* work.                                                                   *)
LEMMA AnswerStep ==
  ASSUME Stops => ~Busy, TypeInv, AnswerInv, [Next]_vars
  PROVE  AnswerInv'
<1> USE DEF Busy
<1>0. CancelReachesRunning'
  BY CancelStep DEF AnswerInv
<1>1. ASSUME NEW p \in Proc, Create(p) \/ Update(p) \/ Redownload(p) PROVE AnswerInv'
  <2>1. pc[p] = "idle" /\ pc' = [pc EXCEPT ![p] = "start"] /\ pkg' = [pkg EXCEPT ![p] = row']
    BY <1>1 DEF Create, Update, Redownload, Spawn
  <2>2. cancelled' \subseteq cancelled \cup ({cancelMap} \ {None})
    BY <1>1 DEF Create, Update, Redownload
  <2>3. p \notin cancelled' /\ cancelled' \subseteq Running'
    BY <2>1, <2>2 DEF AnswerInv, CancelReachesRunning, Running, TypeInv, TypeOK
  <2>4. Busy' => Answers(p)'
    BY <2>1, <2>3 DEF Answers, InProgress, TypeInv, TypeOK
  <2> QED
    BY <1>0, <2>3, <2>4 DEF AnswerInv
<1>2. CASE Delete \/ Import \/ RemoveSome \/ RemoveEnds
  <2>1. UNCHANGED dl /\ (Busy' => Busy)
    <3>1. CASE Delete
      BY <3>1 DEF Delete
    <3>2. CASE Import
      BY <3>2 DEF Import, InProgress
    <3>3. CASE RemoveSome \/ RemoveEnds
      BY <3>3 DEF RemoveSome, RemoveEnds
    <3> QED
      BY <1>2, <3>1, <3>2, <3>3
  <2> QED
    BY <1>0, <2>1 DEF AnswerInv, Answers, Running, dl
<1>3. CASE Cancel \/ Crash
  <2>1. ~Busy /\ row' = row
    BY <1>3 DEF Cancel, Crash, Stops
  <2>2. cancelled' \subseteq Running'
    BY <1>3 DEF Cancel, Crash, AnswerInv, CancelReachesRunning, Running
  <2> QED
    BY <1>0, <2>1, <2>2 DEF AnswerInv
<1>4. ASSUME NEW p \in Proc, Download(p) PROVE AnswerInv'
  <2>1. pc[p] # "idle" /\ Outcome(p)
    BY <1>4, DownloadOutcome
  <2>2. CASE End(p)
    <3>1. cancelled' = cancelled \ {p} /\ \A q \in Proc \ {p} : pc'[q] = pc[q] /\ pkg'[q] = pkg[q]
      BY <2>2 DEF End, TypeInv, TypeOK
    <3>2. cancelled' \subseteq Running'
      BY <3>1 DEF AnswerInv, Running
    <3>3. CASE row' # None /\ row'.state \in {"Active", "OutOfSync"}
      BY <1>0, <3>2, <3>3 DEF AnswerInv, InProgress
    <3>4. CASE row' = row /\ (p \in cancelled \/ (pc[p] = "start" /\ pkg[p].state = "Active"))
      <4>1. \A q \in Proc : Answers(q) => q # p /\ Answers(q)'
        BY <3>1, <3>4 DEF Answers
      <4> QED
        BY <1>0, <3>2, <3>4, <4>1 DEF AnswerInv
    <3>5. CASE UNCHANGED pkg /\ \E l \in PC \ {"idle", "start"} : Goto(p, l)
      BY <2>2, <3>5 DEF Goto, End, TypeInv, TypeOK
    <3>6. CASE row' = row /\ Stops
      BY <1>0, <3>2, <3>6 DEF AnswerInv
    <3> QED
      BY <2>1, <3>3, <3>4, <3>5, <3>6 DEF Outcome
  <2>3. CASE ~End(p)
    <3>1. PICK l \in PC \ {"idle", "start"} : Goto(p, l)
      BY <2>1, <2>3 DEF Outcome
    <3>2. UNCHANGED <<pkg, cancelled>> /\ (row' = row \/ p \notin cancelled)
      BY <2>1, <2>3 DEF Outcome
    <3>3. pc'[p] = l /\ \A q \in Proc \ {p} : pc'[q] = pc[q]
      BY <3>1 DEF Goto, TypeInv, TypeOK
    <3>4. cancelled' \subseteq Running'
      BY <3>2, <3>3 DEF AnswerInv, Running
    <3>5. \A q \in Proc : Answers(q) => Answers(q)'
      BY <3>2, <3>3 DEF Answers
    <3>6. p \notin cancelled => Answers(p)'
      BY <3>2, <3>3 DEF Answers
    <3> QED
      BY <1>0, <3>2, <3>4, <3>5, <3>6 DEF AnswerInv
  <2> QED
    BY <2>2, <2>3
<1>5. CASE UNCHANGED vars
  BY <1>0, <1>5 DEF vars, dl, AnswerInv, Answers, Running
<1> QED
  BY <1>1, <1>2, <1>3, <1>4, <1>5 DEF Next

(* It holds at the start,                                                  *)
LEMMA AnswerInit == Init => TypeInv /\ AnswerInv
BY TypeInit DEF Init, AnswerInv, CancelReachesRunning

(* and is what is wanted.                                                  *)
LEMMA AnswerAlive == AnswerInv => InProgressHasDownloader
BY DEF AnswerInv, Answers, InProgressHasDownloader, Running

(* Unless the user cancels, the process ends or os.RemoveAll fails: a      *)
(* record in one of the states of a download has a goroutine that works on *)
(* it, although every redownload cancels the one before it, whose end says *)
(* nothing. The new download has the record's state in its copy, and so    *)
(* writes the outcome.                                                     *)
THEOREM DownloaderAlive ==
  ASSUME ~Cancels, MaxCrash = 0, ~RemoveFails
  PROVE  Spec => []InProgressHasDownloader
<1>1. TypeInv => ~Stops
  <2>1. TypeInv => ~Cancel /\ ~Crash
    BY DEF Cancel, Crash, TypeInv, TypeOK
  <2>2. ASSUME TypeInv, NEW p \in Proc, DRemove(p) PROVE pc'[p] # "idle"
    BY <2>2 DEF DRemove, Goto, TypeInv, TypeOK
  <2> QED
    BY <2>1, <2>2 DEF Stops
<1>2. TypeInv /\ AnswerInv /\ [Next]_vars => AnswerInv'
  BY <1>1, AnswerStep
<1> QED
  BY <1>2, AnswerInit, AnswerAlive, TypeStep, PTL DEF Spec

(* The cancel action, the end of the process and a failed removal find no  *)
(* record that says Validating, Downloading or Verifying.                  *)
StopsAtRest == [][Stops => ~Busy]_vars

(* The cancels, kills and failed removals that leave a record in progress  *)
(* for ever are the ones that come while it says so: with any number of    *)
(* cancels before a download has written its first state, or after the     *)
(* last, and of restarts in between, a record in one of the states of a    *)
(* download has a goroutine that works on it (DownloadPackage,             *)
(* CancelDownload).                                                        *)
THEOREM DownloaderAliveAtRest == Spec /\ StopsAtRest => []InProgressHasDownloader
<1>1. TypeInv /\ AnswerInv /\ [Next]_vars /\ [Stops => ~Busy]_vars => AnswerInv'
  <2>1. CASE UNCHANGED vars
    BY <2>1 DEF vars, dl, AnswerInv, Answers, Running, CancelReachesRunning
  <2>2. CASE Stops => ~Busy
    BY <2>2, AnswerStep
  <2> QED
    BY <2>1, <2>2
<1> QED
  BY <1>1, AnswerInit, AnswerAlive, TypeStep, PTL DEF Spec, StopsAtRest

---------------------------------------------------------------------------
(* What a download keeps. *)

(* One request at a time: the copy of a running download names the version *)
(* and the archs of the record, and without a directory there is none of   *)
(* an arch.                                                                *)
KeepInv ==
  /\ \A p \in Proc : pc[p] # "idle" =>
       row # None /\ row.version = pkg[p].version /\ row.archs = pkg[p].archs
  /\ ~base => \A a \in Arch : dir[a] = None

(* A step of a download writes what its copy says.                         *)
LEMMA DownloadRow ==
  ASSUME TypeInv, NEW p \in Proc, Download(p)
  PROVE  \/ row' = row
         \/ row' # None /\ row'.version = pkg[p].version /\ row'.archs = pkg[p].archs
<1>1. pc[p] # "idle"
  BY DownloadOutcome
<1>2. {"Active", "OutOfSync", "Validating", "Downloading", "Verifying"} \subseteq State
  BY DEF State, InProgress
<1>3. \/ row' = row
      \/ \E s \in State : Save(p, s)
      \/ row' = [pkg[p] EXCEPT !.state = "Active", !.path = TRUE]
  BY <1>2
     DEF Download, DStart, DRemove, DRemoveSome, DValidate, DValidated, DWrite, DWritten,
         DFetch, DArch, DFiles, DCheck, DFinish, DVerify, DVerified, Stop, Fail
<1> QED
  BY <1>1, <1>2, <1>3, SaveState

(* It never makes the directory of an arch in a package that has none.     *)
LEMMA DownloadBase ==
  ASSUME TypeInv, KeepInv, NEW p \in Proc, Download(p), ~base'
  PROVE  \A a \in Arch : dir'[a] = None
<1>1. CASE DFiles(p) \/ DCheck(p)
  <2>1. ~base /\ cur[p] \in Arch
    BY <1>1 DEF DFiles, DCheck, TypeInv, OpOK
  <2>2. dir[cur[p]] = None /\ \A a \in Arch : dir[a] = None
    BY <2>1 DEF KeepInv
  <2>3. dir' = dir
    BY <1>1, <2>2 DEF DFiles, DCheck, Verifies
  <2> QED
    BY <2>2, <2>3
<1>3. CASE DRemove(p) \/ DRemoveSome(p)
  <2>1. ~base /\ left[p] \subseteq Arch
    BY <1>3 DEF DRemove, DRemoveSome, TypeInv, TypeOK
  <2>2. \A a \in Arch : dir[a] = None
    BY <2>1 DEF KeepInv
  <2>3. dir' = dir \/ \E a \in left[p] : RemoveArch(a) \/ RemovePart(a)
    BY <1>3 DEF DRemove, DRemoveSome
  <2> QED
    BY <2>1, <2>2, <2>3, RemovedArch
<1>2. CASE ~(DFiles(p) \/ DCheck(p) \/ DRemove(p) \/ DRemoveSome(p))
  <2>1. base' = base /\ dir' = dir
    BY <1>2 DEF Download, DStart, DValidate, DValidated, DWrite, DWritten, DFetch, DArch,
                DFinish, DVerify, DVerified, Stop, disk
  <2> QED
    BY <2>1 DEF KeepInv
<1> QED
  BY <1>1, <1>2, <1>3

(* Every step keeps what KeepsWanted needs, with one request at a time.    *)
LEMMA KeepStep ==
  ASSUME ~Overlap, TypeInv, SeqInv, KeepInv, [Next]_vars
  PROVE  KeepInv'
<1>1. ASSUME NEW p \in Proc, Create(p) \/ Update(p) \/ Redownload(p) PROVE KeepInv'
  <2>1. Running = {} /\ UNCHANGED disk /\ row' # None
    <3>1. CASE Create(p)
      <4>1. PICK v \in Version, A \in Archs :
              row' = [version |-> v, archs |-> A, state |-> "OutOfSync", path |-> FALSE]
        BY <3>1 DEF Create
      <4>2. row' \in PackageType
        BY <4>1 DEF PackageType, State
      <4> QED
        BY <3>1, <4>2, NoneAssumption DEF Create, Request
    <3>2. CASE Update(p)
      <4>1. PICK v \in Version, A \in Archs :
              row' = [row EXCEPT !.version = v, !.archs = A, !.state = "OutOfSync"]
        BY <3>2 DEF Update
      <4>2. row' \in PackageType
        BY <3>2, <4>1 DEF Update, PackageType, State, TypeInv, TypeOK
      <4> QED
        BY <3>2, <4>2, NoneAssumption DEF Update, Request
    <3>3. CASE Redownload(p)
      BY <3>3 DEF Redownload, Request
    <3> QED
      BY <1>1, <3>1, <3>2, <3>3
  <2>2. pc' = [pc EXCEPT ![p] = "start"] /\ pkg' = [pkg EXCEPT ![p] = row']
    BY <1>1 DEF Create, Update, Redownload, Spawn
  <2>3. pkg'[p] = row' /\ \A q \in Proc : pc'[q] # "idle" => q = p
    BY <2>1, <2>2 DEF Running, TypeInv, TypeOK
  <2> QED
    BY <2>1, <2>3 DEF KeepInv, disk
<1>2. CASE Cancel
  BY <1>2 DEF Cancel, KeepInv, disk
<1>3. CASE Delete \/ Import
  <2>1. Running = {} /\ pc' = pc
    BY <1>3 DEF Delete, Import, Request, dl
  <2>2. ~base' => \A a \in Arch : dir'[a] = None
    BY <1>3 DEF Delete, Import, KeepInv, disk
  <2> QED
    BY <2>1, <2>2 DEF KeepInv, Running
<1>7. CASE RemoveSome \/ RemoveEnds
  <2>1. pc' = pc /\ \A p \in Proc : pc[p] = "idle"
    BY <1>7 DEF RemoveSome, RemoveEnds, SeqInv, dl
  <2>2. ~base' => \A a \in Arch : dir'[a] = None
    <3>1. CASE RemoveSome
      BY <3>1 DEF RemoveSome, KeepInv, Dirs
    <3>2. CASE RemoveEnds
      BY <3>2 DEF RemoveEnds, KeepInv
    <3> QED
      BY <1>7, <3>1, <3>2
  <2> QED
    BY <2>1, <2>2 DEF KeepInv
<1>4. CASE Crash
  BY <1>4 DEF Crash, KeepInv
<1>5. ASSUME NEW p \in Proc, Download(p) PROVE KeepInv'
  <2>1. pc[p] # "idle"
    BY <1>5, DownloadOutcome
  <2>2. row' # None /\ row'.version = pkg[p].version /\ row'.archs = pkg[p].archs
    BY <1>5, <2>1, DownloadRow DEF KeepInv
  <2>3. \A q \in Proc : pc'[q] # "idle" => pc[q] # "idle" /\ pkg'[q] = pkg[q]
    <3>1. CASE End(p)
      BY <3>1 DEF End, TypeInv, TypeOK
    <3>2. CASE UNCHANGED pkg /\ \E l \in PC \ {"idle", "start"} : Goto(p, l)
      BY <2>1, <3>2 DEF Goto, TypeInv, TypeOK
    <3> QED
      BY <1>5, <3>1, <3>2, DownloadOutcome DEF Outcome
  <2>4. \A q \in Proc : pc[q] # "idle" => pkg[q].version = pkg[p].version /\ pkg[q].archs = pkg[p].archs
    BY <2>1 DEF KeepInv
  <2>5. ~base' => \A a \in Arch : dir'[a] = None
    BY <1>5, DownloadBase
  <2> QED
    BY <2>2, <2>3, <2>4, <2>5 DEF KeepInv
<1>6. CASE UNCHANGED vars
  BY <1>6 DEF vars, dl, disk, KeepInv
<1> QED
  BY <1>1, <1>2, <1>3, <1>4, <1>5, <1>6, <1>7 DEF Next

(* A step of a download does not touch verified files of the version and   *)
(* the archs it wants.                                                     *)
LEMMA DownloadKeeps ==
  ASSUME TypeInv, SeqInv, KeepInv, NEW p \in Proc, Download(p),
         NEW a \in Arch, Wanted(row, a), vfile # None
  PROVE  dir'[a] = dir[a]
<1>0. /\ dir[a] # None /\ dir[a].done /\ dir[a] \in DirType /\ dir[a].files = {row.version}
      /\ row.version = pkg[p].version /\ a \in pkg[p].archs /\ row \in PackageType
  <2>1. pc[p] # "idle"
    BY DownloadOutcome
  <2> QED
    BY <2>1 DEF Wanted, KeepInv, TypeInv, TypeOK
<1>1. CASE DRemove(p) \/ DRemoveSome(p)
  <2>1. pc[p] = "remove" /\ (dir' = dir \/ \E b \in left[p] : RemoveArch(b) \/ RemovePart(b))
    BY <1>1 DEF DRemove, DRemoveSome
  <2>2. vfile.version = pkg[p].version
    <3>1. dir[a].files \subseteq {vfile.version, Corrupt}
      BY <1>0 DEF SeqInv, DiskOK
    <3>2. row.version # Corrupt
      BY <1>0, CorruptAssumption DEF PackageType
    <3> QED
      BY <1>0, <3>1, <3>2
  <2>3. a \notin left[p] /\ left[p] \subseteq Arch
    BY <1>0, <2>1, <2>2 DEF SeqInv, RemoveOK, TypeInv, TypeOK
  <2> QED
    BY <2>1, <2>3, RemovedArch
<1>2. CASE DArch(p)
  <2>1. dir' = dir \/ \E b \in left[p] : dir' = [dir EXCEPT ![b] = IF @ = None THEN EmptyDir ELSE @]
    BY <1>2 DEF DArch
  <2> QED
    BY <1>0, <2>1 DEF TypeInv, TypeOK
<1>3. CASE DFiles(p)
  <2>1. dir' = dir \/ (~dir[cur[p]].done /\ \E f : dir' = [dir EXCEPT ![cur[p]] = f])
    BY <1>3 DEF DFiles
  <2> QED
    BY <1>0, <2>1 DEF TypeInv, TypeOK
<1>4. CASE DCheck(p)
  <2>1. dir' = dir \/ dir' = [dir EXCEPT ![cur[p]].done = TRUE]
    BY <1>4 DEF DCheck
  <2>2. [dir[a] EXCEPT !.done = TRUE] = dir[a]
    BY <1>0 DEF DirType
  <2> QED
    BY <1>0, <2>1, <2>2 DEF TypeInv, TypeOK
<1>5. CASE ~(DRemove(p) \/ DRemoveSome(p) \/ DArch(p) \/ DFiles(p) \/ DCheck(p))
  BY <1>5 DEF Download, DStart, DValidate, DValidated, DWrite, DWritten, DFetch, DFinish, DVerify,
              DVerified, Stop, disk
<1> QED
  BY <1>1, <1>2, <1>3, <1>4, <1>5

(* One request at a time: what is downloaded and verified stays as it is   *)
(* while the record asks for it, through updates, failures, cancels and    *)
(* crashes. A download removes only what version.json says is of another   *)
(* version or arch, and version.json is right about every verified arch.   *)
THEOREM KeepsVerified == ASSUME ~Overlap PROVE Spec => KeepsWanted
<1>1. Init => IInv /\ KeepInv
  BY TypeInit, SeqInit DEF IInv, Init, KeepInv
<1>2. IInv /\ KeepInv /\ [Next]_vars => KeepInv'
  BY KeepStep DEF IInv
<1>3. IInv /\ KeepInv /\ [Next]_vars =>
        [\A a \in Arch :
           (Wanted(row, a) /\ row' # None /\ row'.version = row.version
              /\ a \in row'.archs /\ removal = "none" /\ vfile # None)
             => dir'[a] = dir[a]]_vars
  <2> SUFFICES ASSUME TypeInv, SeqInv, KeepInv, Next, NEW a \in Arch,
                      Wanted(row, a), row' # None, removal = "none", vfile # None
               PROVE  dir'[a] = dir[a]
    BY DEF IInv
  <2>1. ASSUME NEW p \in Proc, Download(p) PROVE dir'[a] = dir[a]
    BY <2>1, DownloadKeeps
  <2>2. CASE Import
    BY <2>2 DEF Import, disk, KeepInv, Wanted
  <2>3. CASE \/ Cancel \/ Delete \/ RemoveSome \/ RemoveEnds \/ Crash
             \/ \E p \in Proc : Create(p) \/ Update(p) \/ Redownload(p)
    BY <2>3 DEF Cancel, Delete, RemoveSome, RemoveEnds, Crash, Create, Update, Redownload, disk
  <2> QED
    BY <2>1, <2>2, <2>3 DEF Next
<1> QED
  BY <1>1, <1>2, <1>3, InvStep, PTL DEF Spec, KeepsWanted
---------------------------------------------------------------------------
(* How far a download is from its end. *)

Stage == [idle |-> 0, verifying |-> 1, verify |-> 2, finish |-> 3,
          check |-> 4, files |-> 5, arch |-> 6,
          fetch |-> 7, writing |-> 8, write |-> 9, validating |-> 10, validate |-> 11,
          remove |-> 12, start |-> 13]

Early == {"start", "remove", "validate", "validating", "write", "writing", "fetch"}
Loop == {"arch", "files", "check"}

(* The archs a download may still have to work on, those it may have to    *)
(* remove, and the most steps it can still take: three for each of the     *)
(* former, one for each of the latter.                                     *)
Pending(p) == IF pc[p] \in Early THEN pkg[p].archs
              ELSE IF pc[p] \in Loop THEN left[p] ELSE {}
Unwanted(p) == IF pc[p] = "start" THEN Arch ELSE IF pc[p] = "remove" THEN left[p] ELSE {}
Remaining(p) == Stage[pc[p]] + 3 * Cardinality(Pending(p)) + Cardinality(Unwanted(p))

(* The arch at work is one of those left.                                  *)
CurInv == \A p \in Proc : pc[p] \in {"files", "check"} => cur[p] \in left[p]

(* Where a step of a download takes it that does more than to delete one   *)
(* file of an arch: to its end, on with the archs it has, to the next arch *)
(* with one less to remove or to download, or past the last.               *)
Onward(p) ==
  \/ End(p)
  \/ /\ pc[p] \in Early /\ pc'[p] \in Early \ {"start"} /\ pkg'[p] = pkg[p]
     /\ Stage[pc'[p]] < Stage[pc[p]]
  \/ /\ pc[p] = "remove" /\ pc'[p] = "remove" /\ pkg'[p] = pkg[p]
     /\ \E a \in left[p] : left'[p] = left[p] \ {a}
  \/ pc[p] = "fetch" /\ pc'[p] = "arch" /\ left'[p] = pkg[p].archs
  \/ /\ pc[p] = "arch" /\ pc'[p] = "files" /\ left'[p] = left[p] /\ cur'[p] \in left[p]
  \/ pc[p] = "files" /\ pc'[p] = "check" /\ left'[p] = left[p] /\ cur'[p] = cur[p]
  \/ pc[p] \in {"files", "check"} /\ pc'[p] = "arch" /\ left'[p] = left[p] \ {cur[p]}
  \/ pc[p] = "arch" /\ left[p] = {} /\ pc'[p] = "finish"
  \/ pc[p] = "finish" /\ pc'[p] = "verify"
  \/ pc[p] = "verify" /\ pc'[p] = "verifying"

(* Each step of downloadPackage is one of these.                           *)
LEMMA DownloadOnward ==
  ASSUME TypeInv, NEW p \in Proc, Download(p), ~DRemoveSome(p)
  PROVE  pc[p] # "idle" /\ Onward(p)
<1>1. pc[p] # "idle"
  BY DownloadOutcome
<1> USE DEF TypeInv, TypeOK, Stop, Proceed, Fail, Goto
<1>2. ASSUME NEW a \in Early, NEW b \in Early \ {"start"}, pc[p] = a, pc'[p] = b, pkg' = pkg,
             Stage[b] < Stage[a]
      PROVE  Onward(p)
  BY <1>2 DEF Onward
<1>3. /\ Stage["remove"] < Stage["start"] /\ Stage["validate"] < Stage["remove"] /\ Stage["validating"] < Stage["validate"]
      /\ Stage["write"] < Stage["validating"] /\ Stage["writing"] < Stage["write"]
      /\ Stage["fetch"] < Stage["writing"]
  BY DEF Stage
<1>4. CASE DStart(p) \/ DValidate(p) \/ DValidated(p) \/ DWrite(p) \/ DWritten(p)
  <2>1. CASE End(p)
    BY <1>1, <2>1 DEF Onward
  <2>2. CASE ~End(p)
    <3>1. \/ pc[p] = "start" /\ pc'[p] = "remove"
          \/ pc[p] = "validate" /\ pc'[p] = "validating"
          \/ pc[p] = "validating" /\ pc'[p] = "write"
          \/ pc[p] = "write" /\ pc'[p] = "writing"
          \/ pc[p] = "writing" /\ pc'[p] = "fetch"
      BY <1>4, <2>2 DEF DStart, DValidate, DValidated, DWrite, DWritten
    <3>2. pkg' = pkg
      BY <1>4, <2>2 DEF DStart, DValidate, DValidated, DWrite, DWritten
    <3>3. Onward(p)
      BY <1>2, <1>3, <3>1, <3>2 DEF Early
    <3> QED BY <1>1, <3>3
  <2> QED BY <2>1, <2>2
<1>10. CASE DRemove(p)
  <2>1. CASE End(p)
    BY <1>1, <2>1 DEF Onward
  <2>2. CASE Goto(p, "validate") /\ UNCHANGED pkg
    <3>1. pc[p] = "remove" /\ pc'[p] = "validate"
      BY <1>10, <2>2 DEF DRemove
    <3> QED BY <1>1, <1>2, <1>3, <2>2, <3>1 DEF Early
  <2>3. CASE /\ \E a \in left[p] : left' = [left EXCEPT ![p] = @ \ {a}]
             /\ UNCHANGED <<pc, pkg>>
    BY <1>10, <2>3 DEF DRemove, Onward
  <2> QED BY <1>10, <2>1, <2>2, <2>3 DEF DRemove
<1>5. CASE DFetch(p)
  BY <1>5 DEF DFetch, Onward
<1>6. CASE DArch(p)
  BY <1>6 DEF DArch, Onward
<1>7. CASE DFiles(p)
  BY <1>7 DEF DFiles, Onward
<1>8. CASE DCheck(p)
  BY <1>8 DEF DCheck, Onward
<1>9. CASE DFinish(p) \/ DVerify(p) \/ DVerified(p)
  BY <1>9 DEF DFinish, DVerify, DVerified, Onward
<1> QED BY <1>1, <1>4, <1>5, <1>6, <1>7, <1>8, <1>9, <1>10 DEF Download

(* The archs of a download are finitely many.                              *)
LEMMA PendingCount ==
  ASSUME IsFiniteSet(Arch), TypeInv, NEW p \in Proc
  PROVE  /\ IsFiniteSet(Pending(p)) /\ Cardinality(Pending(p)) \in Nat
         /\ IsFiniteSet(left[p]) /\ Cardinality(left[p]) \in Nat
         /\ Cardinality(Unwanted(p)) \in Nat
<1>1. Pending(p) \subseteq Arch /\ left[p] \subseteq Arch
  <2>1. pc[p] \in Early => pkg[p].archs \subseteq Arch
    BY DEF TypeInv, OpOK, Early, PackageType, Archs
  <2> QED BY <2>1 DEF TypeInv, TypeOK, Pending
<1>2. Unwanted(p) \subseteq Arch
  BY <1>1 DEF Unwanted
<1> QED BY <1>1, <1>2, FS_Subset, FS_CardinalityType

(* Each of them leaves less to do.                                         *)
LEMMA LessRemains ==
  ASSUME IsFiniteSet(Arch), TypeInv, TypeInv', CurInv, NEW p \in Proc, pc[p] # "idle", Onward(p)
  PROVE  Remaining(p)' < Remaining(p)
<1> DEFINE n == Cardinality(Pending(p))
           m == Cardinality(Pending(p)')
           k == Cardinality(Unwanted(p))
           j == Cardinality(Unwanted(p)')
<1>0. Remaining(p) = Stage[pc[p]] + 3 * n + k /\ Remaining(p)' = Stage[pc'[p]] + 3 * m + j
  BY DEF Remaining
<1>1. n \in Nat /\ k \in Nat
  BY PendingCount
<1>2. Cardinality({}) = 0
  BY FS_EmptySet
<1>3. pc[p] \in PC
  BY DEF TypeInv, TypeOK
<1>a. pc'[p] \notin {"start", "remove"} => j = 0
  BY <1>2 DEF Unwanted
<1>4. CASE End(p)
  <2>1. pc'[p] = "idle"
    BY <1>4 DEF End, TypeInv, TypeOK
  <2>2. m = 0
    BY <1>2, <2>1 DEF Pending, Early, Loop
  <2>3. Stage[pc[p]] \in Nat \ {0} /\ Stage[pc'[p]] = 0
    BY <1>3, <2>1 DEF Stage, PC
  <2> HIDE DEF n, m
  <2>4. j = 0
    BY <1>a, <2>1
  <2> HIDE DEF k, j
  <2> QED BY <1>0, <1>1, <2>2, <2>3, <2>4
<1>5. CASE /\ pc[p] \in Early /\ pc'[p] \in Early \ {"start"} /\ pkg'[p] = pkg[p]
           /\ Stage[pc'[p]] < Stage[pc[p]]
  <2>1. m = n
    BY <1>5 DEF Pending
  <2>2. Stage[pc[p]] \in Nat /\ Stage[pc'[p]] \in Nat
    BY <1>5 DEF Stage, Early
  <2>3. j <= k /\ j \in Nat
    <3>1. CASE pc'[p] # "remove"
      BY <1>1, <1>5, <1>a, <3>1
    <3>2. CASE pc'[p] = "remove"
      <4>1. pc[p] = "start"
        BY <1>5, <3>2 DEF Early, Stage
      <4>2. Unwanted(p) = Arch /\ Unwanted(p)' = left'[p]
        BY <3>2, <4>1 DEF Unwanted
      <4>3. left'[p] \subseteq Arch
        BY DEF TypeInv, TypeOK
      <4>4. Cardinality(left'[p]) \in Nat /\ Cardinality(left'[p]) <= Cardinality(Arch)
        BY <4>3, FS_Subset, FS_CardinalityType
      <4> QED BY <4>2, <4>4
    <3> QED BY <3>1, <3>2
  <2> HIDE DEF n, m, k, j
  <2> QED BY <1>0, <1>1, <1>5, <2>1, <2>2, <2>3
<1>11. CASE /\ pc[p] = "remove" /\ pc'[p] = "remove" /\ pkg'[p] = pkg[p]
            /\ \E a \in left[p] : left'[p] = left[p] \ {a}
  <2>1. m = n
    BY <1>11 DEF Pending, Early
  <2>2. Unwanted(p) = left[p] /\ Unwanted(p)' = left'[p] /\ IsFiniteSet(left[p])
    BY <1>11, PendingCount DEF Unwanted
  <2>3. j = k - 1
    BY <1>11, <2>2, FS_RemoveElement
  <2>4. Stage[pc[p]] = 12 /\ Stage[pc'[p]] = 12
    BY <1>11 DEF Stage
  <2> HIDE DEF n, m, k, j
  <2> QED BY <1>0, <1>1, <2>1, <2>3, <2>4
<1>6. CASE pc[p] = "fetch" /\ pc'[p] = "arch" /\ left'[p] = pkg[p].archs
  <2>1. m = n
    BY <1>6 DEF Pending, Early, Loop
  <2>2. Stage[pc[p]] = 7 /\ Stage[pc'[p]] = 6
    BY <1>6 DEF Stage
  <2>3. j = 0
    BY <1>a, <1>6
  <2> HIDE DEF n, m, k, j
  <2> QED BY <1>0, <1>1, <2>1, <2>2, <2>3
<1>7. CASE pc[p] = "arch" /\ pc'[p] = "files" /\ left'[p] = left[p] /\ cur'[p] \in left[p]
  <2>1. m = n
    BY <1>7 DEF Pending, Early, Loop
  <2>2. Stage[pc[p]] = 6 /\ Stage[pc'[p]] = 5
    BY <1>7 DEF Stage
  <2>3. j = 0
    BY <1>a, <1>7
  <2> HIDE DEF n, m, k, j
  <2> QED BY <1>0, <1>1, <2>1, <2>2, <2>3
<1>8. CASE pc[p] = "files" /\ pc'[p] = "check" /\ left'[p] = left[p] /\ cur'[p] = cur[p]
  <2>1. m = n
    BY <1>8 DEF Pending, Early, Loop
  <2>2. Stage[pc[p]] = 5 /\ Stage[pc'[p]] = 4
    BY <1>8 DEF Stage
  <2>3. j = 0
    BY <1>a, <1>8
  <2> HIDE DEF n, m, k, j
  <2> QED BY <1>0, <1>1, <2>1, <2>2, <2>3
<1>9. CASE pc[p] \in {"files", "check"} /\ pc'[p] = "arch" /\ left'[p] = left[p] \ {cur[p]}
  <2>1. Pending(p) = left[p] /\ Pending(p)' = left[p] \ {cur[p]} /\ cur[p] \in left[p]
    BY <1>9 DEF Pending, Early, Loop, CurInv
  <2>2. IsFiniteSet(left[p])
    BY PendingCount
  <2>3. m = n - 1
    BY <2>1, <2>2, FS_RemoveElement
  <2>4. Stage[pc[p]] \in {4, 5} /\ Stage[pc'[p]] = 6
    BY <1>9 DEF Stage
  <2>5. j = 0
    BY <1>a, <1>9
  <2> HIDE DEF n, m, k, j
  <2> QED BY <1>0, <1>1, <2>3, <2>4, <2>5
<1>10. CASE \/ pc[p] = "arch" /\ left[p] = {} /\ pc'[p] = "finish"
            \/ pc[p] = "finish" /\ pc'[p] = "verify"
            \/ pc[p] = "verify" /\ pc'[p] = "verifying"
  <2>1. m = 0 /\ n = 0
    BY <1>2, <1>10 DEF Pending, Early, Loop
  <2>2. \/ Stage[pc[p]] = 6 /\ Stage[pc'[p]] = 3
        \/ Stage[pc[p]] = 3 /\ Stage[pc'[p]] = 2
        \/ Stage[pc[p]] = 2 /\ Stage[pc'[p]] = 1
    BY <1>10 DEF Stage
  <2>3. j = 0
    BY <1>a, <1>10
  <2> HIDE DEF n, m, k, j
  <2> QED BY <1>0, <1>1, <2>1, <2>2, <2>3
<1> QED BY <1>4, <1>5, <1>6, <1>7, <1>8, <1>9, <1>10, <1>11 DEF Onward

(* The arch at work stays one of those left.                               *)
LEMMA CurStep ==
  ASSUME TypeInv, CurInv, [Next]_vars
  PROVE  CurInv'
<1>1. ASSUME NEW p \in Proc, Create(p) \/ Update(p) \/ Redownload(p) PROVE CurInv'
  <2>1. pc' = [pc EXCEPT ![p] = "start"] /\ UNCHANGED <<left, cur>>
    BY <1>1 DEF Create, Update, Redownload, Spawn
  <2> QED BY <2>1 DEF CurInv, TypeInv, TypeOK
<1>2. CASE Cancel \/ Delete \/ Import \/ RemoveSome \/ RemoveEnds \/ UNCHANGED vars
  BY <1>2 DEF Cancel, Delete, Import, RemoveSome, RemoveEnds, vars, dl, CurInv
<1>3. CASE Crash
  BY <1>3 DEF Crash, CurInv
<1>5. ASSUME NEW p \in Proc, DRemoveSome(p) PROVE CurInv'
  BY <1>5 DEF DRemoveSome, dl, CurInv
<1>4. ASSUME NEW p \in Proc, Download(p), ~DRemoveSome(p) PROVE CurInv'
  <2>1. pc[p] # "idle" /\ Onward(p)
    BY <1>4, DownloadOnward
  <2>2. \A q \in Proc \ {p} : pc'[q] = pc[q] /\ left'[q] = left[q] /\ cur'[q] = cur[q]
    BY <1>4 DEF Download, DStart, DRemove, DValidate, DValidated, DWrite, DWritten, DFetch, DArch,
                DFiles, DCheck, DFinish, DVerify, DVerified, Stop, Fail, End, Goto, TypeInv, TypeOK
  <2>3. pc'[p] \in {"files", "check"} => cur'[p] \in left'[p]
    <3>1. CASE End(p)
      BY <3>1 DEF End, TypeInv, TypeOK
    <3>2. CASE ~End(p)
      BY <2>1, <3>2 DEF Onward, Early, CurInv
    <3> QED BY <3>1, <3>2
  <2> QED BY <2>2, <2>3 DEF CurInv
<1> QED BY <1>1, <1>2, <1>3, <1>4, <1>5 DEF Next

(* However many downloads overlap, and whatever is served, cancelled or    *)
(* removed under them: each step of DownloadPackage brings it nearer to    *)
(* its end, so that one of n archs is over after at most 13 + 3n steps and *)
(* one for each arch there is to remove, not counted the files deleted     *)
(* inside these. No arch is taken twice, and nothing is tried again.       *)
THEOREM DownloadsAdvance ==
  ASSUME IsFiniteSet(Arch)
  PROVE  Spec => [][\A p \in Proc : Download(p) =>
                      \/ Remaining(p)' < Remaining(p)
                      \/ DRemoveSome(p) /\ Remaining(p)' = Remaining(p)]_vars
<1>1. Init => TypeInv /\ CurInv
  BY TypeInit DEF Init, CurInv
<1>2. ASSUME NEW p \in Proc, DRemoveSome(p) PROVE Remaining(p)' = Remaining(p)
  BY <1>2 DEF DRemoveSome, dl, Remaining, Pending, Unwanted
<1>3. TypeInv /\ TypeInv' /\ CurInv /\ [Next]_vars =>
        [\A p \in Proc : Download(p) =>
           \/ Remaining(p)' < Remaining(p)
           \/ DRemoveSome(p) /\ Remaining(p)' = Remaining(p)]_vars
  BY <1>2, DownloadOnward, LessRemains
<1> QED BY <1>1, <1>3, TypeStep, CurStep, PTL DEF Spec
=============================================================================
