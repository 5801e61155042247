-------------------------- MODULE KubeConfigProofs --------------------------
(***************************************************************************)
(* What KubeConfig keeps for every set of goroutines and contexts, and     *)
(* every number of saves and clears.                                       *)
(***************************************************************************)
EXTENDS KubeConfig, TLAPS

(* A goroutine that is not idle knows its context and has a save number;   *)
(* KUBECONFIG names the temporary file of one that has not yet left.       *)
BusyOK == \A p \in Proc : pc[p] # "idle" => ctx[p] \in Context /\ gen[p] > 0
EnvOK == env # None => pc[env] \in {"merge", "merged", "failed"}

TypeInv == TypeOK /\ BusyOK /\ EnvOK
IInv == TypeInv /\ CurrentExists /\ CredentialsMatch

(* What a read of the file returns.                                        *)
LEMMA LoadedOK ==
  ASSUME TypeInv
  PROVE  /\ Loaded \in FileType
         /\ \A c \in Context : file.cfg[c] # 0 => Loaded.cfg[c] = file.cfg[c]
<1>1. CASE env = None
  BY <1>1 DEF Loaded, TypeInv, TypeOK
<1>2. CASE env # None
  <2>1. env \in Proc /\ ctx[env] \in Context /\ gen[env] \in Nat
    BY <1>2 DEF TypeInv, TypeOK, BusyOK, EnvOK
  <2> QED
    BY <1>2, <2>1 DEF Loaded, FileType, TypeInv, TypeOK
<1> QED
  BY <1>1, <1>2

(* What is read, the file alone or merged with a temporary one, is as      *)
(* sound as the file.                                                      *)
LEMMA LoadedKeeps ==
  ASSUME IInv
  PROVE  /\ Loaded.current # None => Loaded.cfg[Loaded.current] # 0
         /\ Within = {} /\ tears = 0 => \A c \in Context : Loaded.user[c] = Loaded.cfg[c]
<1>1. CASE env = None
  BY <1>1 DEF Loaded, IInv, CurrentExists, CredentialsMatch
<1>2. CASE env # None
  <2>1. env \in Proc /\ ctx[env] \in Context /\ gen[env] \in Nat /\ gen[env] > 0
    BY <1>2 DEF IInv, TypeInv, TypeOK, BusyOK, EnvOK
  <2>2. file \in FileType
    BY DEF IInv, TypeInv, TypeOK
  <2>3. Loaded.current # None => Loaded.cfg[Loaded.current] # 0
    BY <1>2, <2>1, <2>2 DEF Loaded, FileType, IInv, CurrentExists
  <2>4. Within = {} /\ tears = 0 => \A c \in Context : Loaded.user[c] = Loaded.cfg[c]
    BY <1>2, <2>1, <2>2 DEF Loaded, FileType, IInv, CredentialsMatch
  <2> QED
    BY <2>3, <2>4
<1> QED
  BY <1>1, <1>2

(* What RemoveCfg makes of it.                                             *)
LEMMA RemoveOK ==
  ASSUME NEW f \in FileType, NEW c \in Context
  PROVE  /\ RemoveCfg(f, c) \in FileType
         /\ \A d \in Context \ {c} : RemoveCfg(f, c).cfg[d] = f.cfg[d]
         /\ (f.current # None => f.cfg[f.current] # 0) =>
              (RemoveCfg(f, c).current # None =>
                 RemoveCfg(f, c).cfg[RemoveCfg(f, c).current] # 0)
         /\ (Within = {} /\ \A d \in Context : f.user[d] = f.cfg[d]) =>
              \A d \in Context : RemoveCfg(f, c).user[d] = RemoveCfg(f, c).cfg[d]
<1>1. RemoveCfg(f, c) \in FileType
  BY DEF RemoveCfg, FileType
<1>2. \A d \in Context : RemoveCfg(f, c).cfg[d] = IF d = c THEN 0 ELSE f.cfg[d]
  BY DEF RemoveCfg, FileType
<1>3. RemoveCfg(f, c).current = IF f.current = c THEN None ELSE f.current
  BY DEF RemoveCfg
<1>4. \A d \in Context : RemoveCfg(f, c).user[d] =
                           IF d = c \/ <<c, d>> \in Within THEN 0 ELSE f.user[d]
  BY DEF RemoveCfg
<1>5. f.current \in Context \cup {None}
  BY DEF FileType
<1> QED
  BY <1>1, <1>2, <1>3, <1>4, <1>5

(* What a write that fails halfway leaves is a file, and its current       *)
(* context, which comes after the contexts, is one it has.                 *)
LEMMA CutOK ==
  ASSUME NEW f \in FileType, NEW g \in Cut(f)
  PROVE  /\ g \in FileType
         /\ (f.current # None => f.cfg[f.current] # 0) =>
              (g.current # None => g.cfg[g.current] # 0)
<1>1. CASE g = [cfg |-> NoEntries, user |-> NoEntries, current |-> None, ok |-> FALSE]
  BY <1>1 DEF FileType, NoEntries
<1>2. ASSUME NEW S \in SUBSET Context, g = Beginning(f, S, {}, None)
      PROVE  g \in FileType /\ g.current = None
  BY <1>2 DEF Beginning, FileType
<1>3. ASSUME NEW U \in SUBSET Context, g = Beginning(f, Context, U, f.current)
      PROVE  g \in FileType /\ g.current = f.current /\ \A c \in Context : g.cfg[c] = f.cfg[c]
  BY <1>3 DEF Beginning, FileType
<1>4. f.current \in Context \cup {None}
  BY DEF FileType
<1> QED
  BY <1>1, <1>2, <1>3, <1>4 DEF Cut

(* Whether the write of OverwriteCfg succeeds, fails or fails halfway.     *)
LEMMA WriteOK ==
  ASSUME TypeOK, NEW f \in FileType, OverwriteCfg(f) \/ OverwriteFails(f)
  PROVE  /\ file' \in FileType /\ tears' \in Nat
         /\ \/ tears' = tears /\ (file' = f \/ file' = file)
            \/ tears' = tears + 1 /\ file' \in Cut(f)
<1>1. CASE OverwriteCfg(f)
  BY <1>1 DEF OverwriteCfg, TypeOK
<1>2. CASE OverwriteFails(f)
  BY <1>2, CutOK DEF OverwriteFails, TypeOK
<1> QED
  BY <1>1, <1>2

---------------------------------------------------------------------------
(* The initial states have their types.                                    *)
LEMMA TypeInit == Init => TypeInv
<1> SUFFICES ASSUME Init PROVE TypeInv
  OBVIOUS
<1>1. file \in FileType
  BY DEF Init, FileType, NoEntries
<1>2. TypeOK
  BY <1>1 DEF Init, TypeOK
<1> QED
  BY <1>2 DEF Init, TypeInv, BusyOK, EnvOK

(* A request keeps the types.                                              *)
LEMMA BeginType ==
  ASSUME TypeInv, NEW p \in Proc, NEW c \in Context, NEW l \in {"remove", "clear"},
         Begin(p, c, l)
  PROVE  TypeInv'
<1>1. TypeOK'
  BY DEF Begin, TypeInv, TypeOK
<1>2. BusyOK'
  BY DEF Begin, TypeInv, TypeOK, BusyOK
<1> QED
  BY <1>1, <1>2 DEF Begin, TypeInv, EnvOK

(* So do the steps of SaveCfg and ClearCfgByContext.                       *)
LEMMA StepType ==
  ASSUME TypeInv, NEW p \in Proc,
         Remove(p) \/ SetEnv(p) \/ MergeCfg(p) \/ Restore(p) \/ Settle(p) \/ Clear(p)
  PROVE  TypeInv'
<1>1. CASE Remove(p)
  <2>1. ctx[p] \in Context
    BY <1>1 DEF Remove, TypeInv, BusyOK
  <2>2. file' \in FileType /\ tears' \in Nat
    <3>1. RemoveCfg(Loaded, ctx[p]) \in FileType
      BY <2>1, LoadedOK, RemoveOK
    <3> QED
      BY <1>1, <3>1, WriteOK DEF Remove, TypeInv
  <2> QED
    BY <1>1, <2>2 DEF Remove, Goto, TypeInv, TypeOK, BusyOK, EnvOK
<1>2. CASE SetEnv(p)
  BY <1>2 DEF SetEnv, Goto, TypeInv, TypeOK, BusyOK, EnvOK
<1>3. CASE MergeCfg(p)
  <2>1. file' \in FileType /\ tears' \in Nat
    <3>1. CASE UNCHANGED <<file, tears>>
      BY <3>1 DEF TypeInv, TypeOK
    <3>2. CASE OverwriteCfg(Loaded) \/ OverwriteFails(Loaded)
      BY <3>2, LoadedOK, WriteOK DEF TypeInv
    <3> QED
      BY <1>3, <3>1, <3>2 DEF MergeCfg
  <2> QED
    BY <1>3, <2>1 DEF MergeCfg, Goto, TypeInv, TypeOK, BusyOK, EnvOK
<1>4. CASE Restore(p)
  <2>1. ctx[p] \in Context
    BY <1>4 DEF Restore, TypeInv, BusyOK
  <2> QED
    BY <1>4, <2>1 DEF Restore, Goto, TypeInv, TypeOK, BusyOK, EnvOK
<1>5. CASE Settle(p)
  BY <1>5 DEF Settle, Goto, TypeInv, TypeOK, BusyOK, EnvOK
<1>6. CASE Clear(p)
  <2>1. ctx[p] \in Context
    BY <1>6 DEF Clear, TypeInv, BusyOK
  <2>2. file' \in FileType /\ tears' \in Nat
    <3>1. RemoveCfg(Loaded, ctx[p]) \in FileType
      BY <2>1, LoadedOK, RemoveOK
    <3> QED
      BY <1>6, <3>1, WriteOK DEF Clear, TypeInv
  <2> QED
    BY <1>6, <2>2 DEF Clear, Goto, TypeInv, TypeOK, BusyOK, EnvOK
<1> QED
  BY <1>1, <1>2, <1>3, <1>4, <1>5, <1>6

(* Every step keeps the types.                                             *)
LEMMA TypeStep == TypeInv /\ [Next]_vars => TypeInv'
<1> SUFFICES ASSUME TypeInv, [Next]_vars PROVE TypeInv'
  OBVIOUS
<1>1. CASE StartHelmDashboard
  BY <1>1 DEF StartHelmDashboard, TypeInv, TypeOK, BusyOK, EnvOK
<1>2. CASE UNCHANGED vars
  BY <1>2 DEF vars, TypeInv, TypeOK, BusyOK, EnvOK
<1> QED
  BY <1>1, <1>2, BeginType, StepType DEF Next, SaveCfg, ClearCfgByContext

(* The file, KUBECONFIG and what every SaveCfg and ClearCfgByContext holds *)
(* keep their shapes.                                                      *)
THEOREM TypeCorrect == Spec => []TypeOK
<1>1. TypeInv => TypeOK
  BY DEF TypeInv
<1> QED
  BY <1>1, TypeInit, TypeStep, PTL DEF Spec

---------------------------------------------------------------------------
(* The ways a step treats the file.                                        *)
Writes(f) ==
  \/ tears' = tears /\ (file' = f \/ file' = file)
  \/ tears' = tears + 1 /\ file' \in Cut(f)

LEMMA FileStep ==
  ASSUME TypeInv, [Next]_vars
  PROVE  \/ UNCHANGED <<file, tears>>
         \/ Writes(Loaded)
         \/ \E p \in Proc : /\ ctx[p] \in Context /\ Writes(RemoveCfg(Loaded, ctx[p]))
                            /\ pc[p] \in {"remove", "clear"} /\ pc'[p] # pc[p]
<1>0. Loaded \in FileType /\ TypeOK
  BY LoadedOK DEF TypeInv
<1>1. ASSUME NEW p \in Proc, Remove(p) \/ Clear(p)
      PROVE  /\ ctx[p] \in Context /\ Writes(RemoveCfg(Loaded, ctx[p]))
             /\ pc[p] \in {"remove", "clear"} /\ pc'[p] # pc[p]
  <2>1. ctx[p] \in Context /\ pc[p] \in {"remove", "clear"}
    BY <1>1 DEF Remove, Clear, TypeInv, BusyOK
  <2>2. pc'[p] # pc[p]
    BY <1>1 DEF Remove, Clear, Goto, TypeInv, TypeOK
  <2>3. RemoveCfg(Loaded, ctx[p]) \in FileType
    BY <1>0, <2>1, RemoveOK
  <2> QED
    BY <1>0, <1>1, <2>1, <2>2, <2>3, WriteOK DEF Remove, Clear, Writes
<1>2. ASSUME NEW p \in Proc, MergeCfg(p)
      PROVE  Writes(Loaded)
  BY <1>0, <1>2, WriteOK DEF MergeCfg, Writes
<1>3. ASSUME NEW p \in Proc, SetEnv(p) \/ Restore(p) \/ Settle(p)
      PROVE  UNCHANGED <<file, tears>>
  BY <1>3 DEF SetEnv, Restore, Settle
<1>4. ASSUME NEW p \in Proc, NEW c \in Context, SaveCfg(p, c) \/ ClearCfgByContext(p, c)
      PROVE  UNCHANGED <<file, tears>>
  BY <1>4 DEF SaveCfg, ClearCfgByContext, Begin
<1>5. CASE StartHelmDashboard \/ UNCHANGED vars
  BY <1>5 DEF StartHelmDashboard, vars
<1> QED
  BY <1>1, <1>2, <1>3, <1>4, <1>5 DEF Next

(* A write of a sound file leaves a sound file.                            *)
LEMMA WritesSound ==
  ASSUME IInv, TypeInv', NEW f \in FileType, Writes(f),
         f.current # None => f.cfg[f.current] # 0,
         Within = {} /\ tears = 0 => \A c \in Context : f.user[c] = f.cfg[c]
  PROVE  IInv'
<1>1. CurrentExists'
  BY CutOK DEF Writes, IInv, CurrentExists
<1>2. CredentialsMatch'
  <2>1. tears \in Nat
    BY DEF IInv, TypeInv, TypeOK
  <2> QED
    BY <2>1 DEF Writes, IInv, CredentialsMatch
<1> QED
  BY <1>1, <1>2 DEF IInv

(* Every step keeps the invariant.                                         *)
LEMMA InvStep == IInv /\ [Next]_vars => IInv'
<1> SUFFICES ASSUME IInv, [Next]_vars PROVE IInv'
  OBVIOUS
<1>1. TypeInv /\ TypeInv' /\ Loaded \in FileType
  BY TypeStep, LoadedOK DEF IInv
<1>2. CASE UNCHANGED <<file, tears>>
  BY <1>1, <1>2 DEF IInv, CurrentExists, CredentialsMatch
<1>3. CASE Writes(Loaded)
  BY <1>1, <1>3, LoadedKeeps, WritesSound
<1>4. ASSUME NEW p \in Proc, ctx[p] \in Context, Writes(RemoveCfg(Loaded, ctx[p]))
      PROVE  IInv'
  <2> DEFINE f == RemoveCfg(Loaded, ctx[p])
  <2>1. /\ f \in FileType
        /\ f.current # None => f.cfg[f.current] # 0
        /\ Within = {} /\ tears = 0 => \A c \in Context : f.user[c] = f.cfg[c]
    BY <1>1, <1>4, LoadedKeeps, RemoveOK
  <2>2. Writes(f)
    BY <1>4
  <2> HIDE DEF f
  <2> QED
    BY <1>1, <2>1, <2>2, WritesSound
<1> QED
  BY <1>1, <1>2, <1>3, <1>4, FileStep

(* It holds at the start.                                                  *)
LEMMA InvInit == Init => IInv
  BY TypeInit DEF Init, IInv, CurrentExists, CredentialsMatch

(* However the saves and clears of file.go overlap and fail, the current   *)
(* context of the file is one the file has.                                *)
THEOREM CurrentCorrect == Spec => []CurrentExists
<1>1. IInv => CurrentExists
  BY DEF IInv
<1> QED
  BY <1>1, InvInit, InvStep, PTL DEF Spec

(* ... and, if no context name is part of another's and no write has       *)
(* failed halfway, RemoveCfg and the merge never leave a context with the  *)
(* user of another save.                                                   *)
THEOREM CredentialsCorrect == Spec => []CredentialsMatch
<1>1. IInv => CredentialsMatch
  BY DEF IInv
<1> QED
  BY <1>1, InvInit, InvStep, PTL DEF Spec

(* SaveCfg leaves KUBECONFIG as it should be, on every path out of it.     *)
THEOREM EnvCorrect == Spec => []EnvRestored
<1>1. TypeInv => EnvRestored
  BY DEF TypeInv, TypeOK, EnvOK, EnvRestored
<1> QED
  BY <1>1, TypeInit, TypeStep, PTL DEF Spec

(* The entries of a cluster change only by a RemoveCfg for that cluster,   *)
(* or by a write of the file that fails halfway.                           *)
THEOREM OthersSafe == Spec => OthersKept
<1> DEFINE Kept == \A c \in Context : (tears' = tears /\ file.cfg[c] # 0 /\ file'.cfg[c] # file.cfg[c]) =>
                     \E p \in Proc : ctx[p] = c /\ pc[p] \in {"remove", "clear"} /\ pc'[p] # pc[p]
<1>1. TypeInv /\ [Next]_vars => Kept
  <2> SUFFICES ASSUME TypeInv, [Next]_vars,
                      NEW c \in Context, tears' = tears, file.cfg[c] # 0, file'.cfg[c] # file.cfg[c]
               PROVE  \E p \in Proc : ctx[p] = c /\ pc[p] \in {"remove", "clear"} /\ pc'[p] # pc[p]
    OBVIOUS
  <2>1. Loaded \in FileType /\ Loaded.cfg[c] = file.cfg[c] /\ tears \in Nat
    BY LoadedOK DEF TypeInv, TypeOK
  <2>2. PICK p \in Proc : /\ ctx[p] \in Context /\ file' = RemoveCfg(Loaded, ctx[p])
                          /\ pc[p] \in {"remove", "clear"} /\ pc'[p] # pc[p]
    BY <2>1, FileStep DEF Writes
  <2>3. ctx[p] = c
    BY <2>1, <2>2, RemoveOK
  <2> QED
    BY <2>2, <2>3
<1>2. TypeInv /\ [Next]_vars => [Kept]_vars
  BY <1>1
<1> HIDE DEF Kept
<1>3. TypeInv /\ [][Next]_vars /\ []TypeInv => [][Kept]_vars
  BY <1>2, PTL
<1>4. [][Kept]_vars <=> OthersKept
  BY PTL DEF Kept, OthersKept
<1> QED
  BY <1>3, <1>4, TypeInit, TypeStep, PTL DEF Spec
=============================================================================
