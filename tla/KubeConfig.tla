----------------------------- MODULE KubeConfig -----------------------------
(***************************************************************************)
(* The kubeconfig file all clusters share: ConfigFileManager of            *)
(* pkg/common/file.go, SaveCfg of pkg/cluster/cluster.go, and the          *)
(* environment variable KUBECONFIG, which tells a read of the file what to *)
(* read. The variable belongs to the process and is set outside the mutex. *)
(*                                                                         *)
(* OverwriteCfg holds the mutex from its read to its write: one step, also *)
(* when the write fails halfway. The entries of a context are told apart   *)
(* by the save they come from, 0 when there is none.                       *)
(***************************************************************************)
EXTENDS Naturals

CONSTANTS Proc,     \* goroutines that create, delete, roll back or list clusters
          Context,  \* the context names of the clusters
          Within,   \* <<c, d>>: the name of d's user contains "@" and c
          None,     \* no context; KUBECONFIG names no temporary file
          Overlap,  \* what may run at the same time, see Begin
          Faults,   \* a read or write of the file may fail
          MaxOps    \* bound: saves and clears in a behaviour

ASSUME WithinAssumption == Within \subseteq Context \X Context
ASSUME NoneAssumption == None \notin Proc \cup Context
ASSUME FlagAssumption == Overlap \in {"none", "others", "any"} /\ Faults \in BOOLEAN
ASSUME BoundAssumption == MaxOps \in Nat

(* api.Config: the cluster and context entries, the user entries, the      *)
(* current context; and whether the file can be parsed.                    *)
FileType == [cfg : [Context -> Nat], user : [Context -> Nat], current : Context \cup {None},
             ok : BOOLEAN]

NoEntries == [c \in Context |-> 0]

VARIABLES
  file,   \* CfgPath/.kube/config
  env,    \* KUBECONFIG: None for the file, p for the file and p's temporary one
  pc,     \* what a goroutine does next
  ctx,    \* the context it works on
  gen,    \* the save it performs
  ops,    \* saves and clears so far
  tears   \* history: writes that have failed halfway

vars == <<file, env, pc, ctx, gen, ops, tears>>

Init ==
  /\ file = [cfg |-> NoEntries, user |-> NoEntries, current |-> None, ok |-> TRUE]
  /\ env = None
  /\ pc = [p \in Proc |-> "idle"]
  /\ ctx = [p \in Proc |-> None]
  /\ gen = [p \in Proc |-> 0]
  /\ ops = 0 /\ tears = 0

---------------------------------------------------------------------------
(* Mutant: only the temporary file is read.                                *)
LoadedTempOnly ==
  IF env = None THEN file
  ELSE [cfg |-> [c \in Context |-> IF c = ctx[env] THEN gen[env] ELSE 0],
        user |-> [c \in Context |-> IF c = ctx[env] THEN gen[env] ELSE 0],
        current |-> ctx[env], ok |-> TRUE]

(* GetStartingConfig: the files KUBECONFIG names, merged; what the first   *)
(* one says counts. A temporary file has one context, its current one.     *)
Loaded ==
  IF env = None THEN file
  ELSE [cfg |-> [file.cfg EXCEPT ![ctx[env]] = IF @ = 0 THEN gen[env] ELSE @],
        user |-> [file.user EXCEPT ![ctx[env]] = IF @ = 0 THEN gen[env] ELSE @],
        current |-> IF file.current = None THEN ctx[env] ELSE file.current,
        ok |-> TRUE]

(* Mutant: the current context stays.                                      *)
RemoveCfgKeepsCurrent(f, c) ==
  [cfg |-> [f.cfg EXCEPT ![c] = 0],
   user |-> [d \in Context |-> IF d = c \/ <<c, d>> \in Within THEN 0 ELSE f.user[d]],
   current |-> f.current, ok |-> TRUE]

(* Mutant: the user stays.                                                 *)
RemoveCfgKeepsUser(f, c) ==
  [cfg |-> [f.cfg EXCEPT ![c] = 0],
   user |-> f.user,
   current |-> IF f.current = c THEN None ELSE f.current, ok |-> TRUE]

(* RemoveCfg: the entries of c, and every user whose name contains "@c".   *)
RemoveCfg(f, c) ==
  [cfg |-> [f.cfg EXCEPT ![c] = 0],
   user |-> [d \in Context |-> IF d = c \/ <<c, d>> \in Within THEN 0 ELSE f.user[d]],
   current |-> IF f.current = c THEN None ELSE f.current, ok |-> TRUE]

(* The beginning of f that has the entries of S and the users of U.        *)
Beginning(f, S, U, k) ==
  [cfg |-> [c \in Context |-> IF c \in S THEN f.cfg[c] ELSE 0],
   user |-> [c \in Context |-> IF c \in U THEN f.user[c] ELSE 0],
   current |-> k, ok |-> TRUE]

(* clientcmd.WriteToFile empties the file before it writes: what a write   *)
(* of f may leave when it fails. The users are the last in the file, after *)
(* the current context; what ends within an entry cannot be parsed.        *)
Cut(f) ==
  {[cfg |-> NoEntries, user |-> NoEntries, current |-> None, ok |-> FALSE]}
    \cup {Beginning(f, S, {}, None) : S \in SUBSET Context}
    \cup {Beginning(f, Context, U, f.current) : U \in SUBSET Context}

(* OverwriteCfg, which reads the file and writes f.                        *)
OverwriteCfg(f) == file.ok /\ file' = f /\ UNCHANGED tears

OverwriteFails(f) ==
  \/ (~file.ok \/ Faults) /\ UNCHANGED <<file, tears>>
  \/ file.ok /\ Faults /\ file' \in Cut(f) /\ tears' = tears + 1

(* A goroutine begins to save or clear the entries of c.                   *)
Begin(p, c, l) ==
  /\ ops < MaxOps
  /\ ops' = ops + 1
  /\ pc[p] = "idle"
  /\ Overlap = "none" => \A q \in Proc : pc[q] = "idle"
  /\ Overlap = "others" => \A q \in Proc : pc[q] # "idle" => ctx[q] # c
  /\ pc' = [pc EXCEPT ![p] = l]
  /\ ctx' = [ctx EXCEPT ![p] = c]
  /\ gen' = [gen EXCEPT ![p] = ops + 1]
  /\ env' = None
  /\ UNCHANGED <<file, tears>>

Goto(p, l) == pc' = [pc EXCEPT ![p] = l]

---------------------------------------------------------------------------
(* SaveCfg: the temporary file, KUBECONFIG, then two turns with the mutex. *)

SaveCfg(p, c) == Begin(p, c, "remove")

Remove(p) ==
  /\ pc[p] = "remove"
  /\ \/ OverwriteCfg(RemoveCfg(Loaded, ctx[p])) /\ Goto(p, "setenv")
     \/ OverwriteFails(RemoveCfg(Loaded, ctx[p])) /\ Goto(p, "failed")
  /\ UNCHANGED <<env, ctx, gen, ops>>

SetEnv(p) ==
  /\ pc[p] = "setenv"
  /\ env' = p
  /\ Goto(p, "merge")
  /\ UNCHANGED <<file, ctx, gen, ops, tears>>

(* MergeCfg refuses a context that the file has.                           *)
MergeCfg(p) ==
  /\ pc[p] = "merge"
  /\ \/ file.cfg[ctx[p]] = 0 /\ OverwriteCfg(Loaded) /\ Goto(p, "merged")
     \/ file.cfg[ctx[p]] = 0 /\ OverwriteFails(Loaded) /\ Goto(p, "failed")
     \/ file.cfg[ctx[p]] # 0 /\ Goto(p, "failed") /\ UNCHANGED <<file, tears>>
  /\ UNCHANGED <<env, ctx, gen, ops>>

(* Mutant: KUBECONFIG is set back only when the file was saved.            *)
RestoreOnSuccess(p) ==
  /\ \/ pc[p] = "merged" /\ env' = None /\ Goto(p, "saved")
     \/ pc[p] = "failed" /\ Goto(p, "idle") /\ UNCHANGED env
  /\ UNCHANGED <<file, ctx, gen, ops, tears>>

(* Mutant: KUBECONFIG is unset.                                            *)
RestoreUnsets(p) ==
  /\ \/ pc[p] = "merged" /\ Goto(p, "saved")
     \/ pc[p] = "failed" /\ Goto(p, "idle")
  /\ env' = ""
  /\ UNCHANGED <<file, ctx, gen, ops, tears>>

(* The deferred functions: KUBECONFIG is set back, the temporary file goes.*)
Restore(p) ==
  /\ \/ pc[p] = "merged" /\ Goto(p, "saved")
     \/ pc[p] = "failed" /\ Goto(p, "idle")
  /\ env' = None
  /\ UNCHANGED <<file, ctx, gen, ops, tears>>

(* InitK3sCluster sets KUBECONFIG once more.                               *)
Settle(p) ==
  /\ pc[p] = "saved"
  /\ env' = None
  /\ Goto(p, "idle")
  /\ UNCHANGED <<file, ctx, gen, ops, tears>>

---------------------------------------------------------------------------
(* ClearCfgByContext, of delete, list and rollback. *)

ClearCfgByContext(p, c) == Begin(p, c, "clear")

Clear(p) ==
  /\ pc[p] = "clear"
  /\ OverwriteCfg(RemoveCfg(Loaded, ctx[p])) \/ OverwriteFails(RemoveCfg(Loaded, ctx[p]))
  /\ Goto(p, "idle")
  /\ UNCHANGED <<env, ctx, gen, ops>>

(* StartHelmDashboard sets KUBECONFIG too.                                 *)
StartHelmDashboard ==
  /\ Overlap # "none"
  /\ env # None
  /\ env' = None
  /\ UNCHANGED <<file, pc, ctx, gen, ops, tears>>

Next ==
  \/ \E p \in Proc, c \in Context : SaveCfg(p, c) \/ ClearCfgByContext(p, c)
  \/ \E p \in Proc : Remove(p) \/ SetEnv(p) \/ MergeCfg(p) \/ Restore(p) \/ Settle(p) \/ Clear(p)
  \/ StartHelmDashboard

Spec == Init /\ [][Next]_vars

---------------------------------------------------------------------------
(* Properties. *)

(* The shape of the file, of KUBECONFIG and of every save and clear.       *)
TypeOK ==
  /\ file \in FileType
  /\ env \in Proc \cup {None}
  /\ pc \in [Proc -> {"idle", "remove", "setenv", "merge", "merged", "failed", "saved", "clear"}]
  /\ ctx \in [Proc -> Context \cup {None}]
  /\ gen \in [Proc -> Nat]
  /\ ops \in Nat /\ tears \in Nat

(* Whatever overlaps, the context and cluster entries of a cluster that is *)
(* in the file change only when RemoveCfg is called for it: a save or      *)
(* clear of another never undoes them, although each writes the whole file *)
(* and reads it through a variable others set. The one exception is a      *)
(* write of the file that fails halfway (clientcmd.WriteToFile empties the *)
(* file first): it may lose the entries of any cluster.                    *)
OthersKept ==
  [][\A c \in Context : (tears' = tears /\ file.cfg[c] # 0 /\ file'.cfg[c] # file.cfg[c]) =>
       \E p \in Proc : ctx[p] = c /\ pc[p] \in {"remove", "clear"} /\ pc'[p] # pc[p]]_vars

(* The current context of the file is one the file has, also in the        *)
(* beginning of a file that a failed write has left.                       *)
CurrentExists == file.current # None => file.cfg[file.current] # 0

(* The user of a context is the one saved with it, if no context name is   *)
(* part of another's and no write has failed halfway: credentials of a     *)
(* cluster deleted and created again are never mixed.                      *)
CredentialsMatch == Within = {} /\ tears = 0 => \A c \in Context : file.user[c] = file.cfg[c]

(* When nobody saves or clears, KUBECONFIG is the file alone: no command   *)
(* the server starts later reads a temporary file that is gone.            *)
EnvRestored == (\A p \in Proc : pc[p] = "idle") => env = None
=============================================================================
