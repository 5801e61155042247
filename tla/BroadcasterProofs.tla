------------------------- MODULE BroadcasterProofs -------------------------
(* Proofs about Broadcaster, for any number of writers and subscribers.    *)
EXTENDS Broadcaster, FiniteSets, FiniteSetTheorems, TLAPS

(* The mutex: the publishing writer is the one that holds b.m, and no      *)
(* publish goroutine outlives its Broadcast call.                          *)
MutexInv ==
  \A w \in Writer :
    /\ wpc[w] = "publish" <=> m = w
    /\ wpc[w] = "idle" => pending[w] = {}

(* The map: it holds the subscribers between Register and Evict, whose     *)
(* channels are open, and publish goroutines serve only these.             *)
MapInv ==
  /\ \A s \in Sub : s \in subs <=> spc[s] \in {"select", "forward", "evict"}
  /\ \A s \in closed : spc[s] = "gone"
  /\ \A w \in Writer : pending[w] \subseteq subs


(* Every initial state is well typed. *)
LEMMA TypeInit == Init => TypeOK
<1> SUFFICES ASSUME Init PROVE TypeOK
  OBVIOUS
<1>1. log \in Seq(Event) /\ got \in [Sub -> Seq(Nat)]
  BY DEF Init
<1>2. far \in [Sub -> {"reading", "left", "closed"}] /\ crashed \in BOOLEAN
  BY DEF Init
<1>3. QED
  BY <1>1, <1>2 DEF Init, TypeOK

(* Every step keeps the state well typed. *)
LEMMA TypeNext == TypeOK /\ [Next]_vars => TypeOK'
<1> SUFFICES ASSUME TypeOK, [Next]_vars PROVE TypeOK'
  OBVIOUS
<1> USE DEF TypeOK, vars, bvars, svars
<1>1. CASE UNCHANGED vars
  BY <1>1
<1>2. ASSUME NEW w \in Writer, NEW e \in Event, Broadcast(w, e) PROVE TypeOK'
  BY <1>2 DEF Broadcast
<1>3. ASSUME NEW w \in Writer, NEW s \in Sub, Publish(w, s) PROVE TypeOK'
  BY <1>3 DEF Publish
<1>4. ASSUME NEW w \in Writer, BroadcastReturn(w) PROVE TypeOK'
  BY <1>4 DEF BroadcastReturn
<1>5. ASSUME NEW s \in Sub, Register(s) PROVE TypeOK'
  BY <1>5 DEF Register
<1>6. ASSUME NEW s \in Sub, Forward(s) PROVE TypeOK'
  BY <1>6 DEF Forward
<1>7. ASSUME NEW s \in Sub, ForwardPanics(s) PROVE TypeOK'
  BY <1>7 DEF ForwardPanics
<1>8. ASSUME NEW s \in Sub, ContextDone(s) PROVE TypeOK'
  BY <1>8 DEF ContextDone
<1>9. ASSUME NEW s \in Sub, FarLeaves(s) PROVE TypeOK'
  BY <1>9 DEF FarLeaves
<1>10. ASSUME NEW s \in Sub, TailEnds(s) PROVE TypeOK'
  BY <1>10 DEF TailEnds
<1>11. ASSUME NEW s \in Sub, TakeDone(s) PROVE TypeOK'
  BY <1>11 DEF TakeDone
<1>12. ASSUME NEW s \in Sub, Evict(s) PROVE TypeOK'
  BY <1>12 DEF Evict
<1>13. QED
  BY <1>1, <1>2, <1>3, <1>4, <1>5, <1>6, <1>7, <1>8, <1>9, <1>10, <1>11, <1>12 DEF Next, WriterNext, SubNext

(* Type correctness of the broadcaster, its callers and its subscribers:   *)
(* program counters, channels and counters keep their ranges whichever     *)
(* goroutine moves.                                                        *)
THEOREM TypeCorrect == Spec => []TypeOK
  BY TypeInit, TypeNext, PTL DEF Spec

(***************************************************************************)
(* Safety. The inductive invariant adds to the types who holds the mutex   *)
(* and which subscribers the map holds.                                    *)
(***************************************************************************)
SafeInv == TypeOK /\ MutexInv /\ MapInv

(* Initially nobody holds b.m and the map is empty. *)
LEMMA SafeInit == Init => MutexInv /\ MapInv
  BY FreeAssumption DEF Init, MutexInv, MapInv

(* Every step keeps the mutex and the map consistent. *)
LEMMA SafeNext == SafeInv /\ [Next]_vars => (MutexInv /\ MapInv)'
<1> SUFFICES ASSUME SafeInv, [Next]_vars PROVE (MutexInv /\ MapInv)'
  OBVIOUS
<1> USE FreeAssumption DEF SafeInv, TypeOK, MutexInv, MapInv, vars, bvars, svars
<1>1. CASE UNCHANGED vars
  BY <1>1
<1>2. ASSUME NEW w \in Writer, NEW e \in Event, Broadcast(w, e) PROVE (MutexInv /\ MapInv)'
  BY <1>2 DEF Broadcast
<1>3. ASSUME NEW w \in Writer, NEW s \in Sub, Publish(w, s) PROVE (MutexInv /\ MapInv)'
  BY <1>3 DEF Publish
<1>4. ASSUME NEW w \in Writer, BroadcastReturn(w) PROVE (MutexInv /\ MapInv)'
  BY <1>4 DEF BroadcastReturn
<1>5. ASSUME NEW s \in Sub, Register(s) PROVE (MutexInv /\ MapInv)'
  BY <1>5 DEF Register
<1>6. ASSUME NEW s \in Sub, Forward(s) PROVE (MutexInv /\ MapInv)'
  BY <1>6 DEF Forward
<1>7. ASSUME NEW s \in Sub, ForwardPanics(s) PROVE (MutexInv /\ MapInv)'
  BY <1>7 DEF ForwardPanics
<1>8. ASSUME NEW s \in Sub, ContextDone(s) PROVE (MutexInv /\ MapInv)'
  BY <1>8 DEF ContextDone
<1>9. ASSUME NEW s \in Sub, FarLeaves(s) PROVE (MutexInv /\ MapInv)'
  BY <1>9 DEF FarLeaves
<1>10. ASSUME NEW s \in Sub, TailEnds(s) PROVE (MutexInv /\ MapInv)'
  BY <1>10 DEF TailEnds
<1>11. ASSUME NEW s \in Sub, TakeDone(s) PROVE (MutexInv /\ MapInv)'
  BY <1>11 DEF TakeDone
<1>12. ASSUME NEW s \in Sub, Evict(s) PROVE (MutexInv /\ MapInv)'
  BY <1>12 DEF Evict
<1>13. QED
  BY <1>1, <1>2, <1>3, <1>4, <1>5, <1>6, <1>7, <1>8, <1>9, <1>10, <1>11, <1>12 DEF Next, WriterNext, SubNext

(* publish never meets a closed channel: Evict closes a channel only when  *)
(* it holds b.m, and then no Broadcast call has a publish goroutine left.  *)
THEOREM SendsOnOpenChannels == Spec => []NoSendOnClosed
<1>1. Init => SafeInv
  BY SafeInit, TypeInit DEF SafeInv
<1>2. SafeInv /\ [Next]_vars => SafeInv'
  BY SafeNext, TypeNext DEF SafeInv
<1>3. SafeInv => NoSendOnClosed
  BY DEF SafeInv, MapInv, NoSendOnClosed, TypeOK
<1>4. QED
  BY <1>1, <1>2, <1>3, PTL DEF Spec

(***************************************************************************)
(* Delivery. Each subscriber's history lies within the log, and a publish  *)
(* goroutine that has not sent yet carries the last event of the log,      *)
(* which its subscriber's filter accepts and which it has not received.    *)
(***************************************************************************)
HistoryInv ==
  /\ \A s \in Sub :
       /\ since[s] <= Len(log)
       /\ spc[s] = "new" => got[s] = <<>>
       /\ \A k \in 1..Len(got[s]) : got[s][k] \in 1..Len(log)
  /\ \A w \in Writer : \A s \in pending[w] :
       /\ since[s] < Len(log)
       /\ log[Len(log)] \in Fits[s]
       /\ \A k \in 1..Len(got[s]) : got[s][k] < Len(log)

DeliveryInv == HistoryInv /\ DeliveredInOrder

(* At the start nothing is logged and nobody has registered. *)
LEMMA DeliveryInit == Init => DeliveryInv
  BY DEF Init, DeliveryInv, HistoryInv, DeliveredInOrder, Owed

(* A step that leaves the log, the publish goroutines and the histories    *)
(* alone, and adds no subscriber, keeps what has been delivered.           *)
LEMMA DeliveryFrame ==
  ASSUME TypeOK, DeliveryInv, subs' \subseteq subs,
         UNCHANGED <<log, pending, since, got>>,
         \A s \in Sub : spc'[s] = "new" => spc[s] = "new"
  PROVE  DeliveryInv'
<1>1. HistoryInv'
  BY DEF DeliveryInv, HistoryInv, TypeOK
<1>2. \A s \in Sub : Owed(s)' = Owed(s)
  BY DEF Owed
<1>3. DeliveredInOrder'
  BY <1>2 DEF DeliveryInv, DeliveredInOrder, TypeOK
<1>4. QED
  BY <1>1, <1>3 DEF DeliveryInv

(* Every step delivers in the order of the log, and only once.             *)
LEMMA DeliveryNext == SafeInv /\ DeliveryInv /\ [Next]_vars => DeliveryInv'
<1> SUFFICES ASSUME SafeInv, DeliveryInv, [Next]_vars PROVE DeliveryInv'
  OBVIOUS
<1> USE DEF SafeInv
<1>1. CASE UNCHANGED vars
  BY <1>1, DeliveryFrame DEF vars, bvars, svars
<1>2. ASSUME NEW w \in Writer, NEW e \in Event, Broadcast(w, e) PROVE DeliveryInv'
  <2>1. \A v \in Writer : pending[v] = {}
    BY <1>2, FreeAssumption DEF Broadcast, MutexInv, TypeOK
  <2>2. /\ Len(log') = Len(log) + 1
        /\ log'[Len(log) + 1] = e
        /\ \A i \in 1..Len(log) : log'[i] = log[i]
        /\ Len(log) \in Nat
    BY <1>2 DEF Broadcast, TypeOK
  <2>3. HistoryInv'
    BY <1>2, <2>1, <2>2 DEF Broadcast, DeliveryInv, HistoryInv, TypeOK, svars
  <2>4. \A s \in subs : Owed(s)' = Owed(s)
    <3> SUFFICES ASSUME NEW s \in subs, NEW i PROVE i \in Owed(s)' <=> i \in Owed(s)
      OBVIOUS
    <3>1. s \in Sub /\ since'[s] = since[s] /\ since[s] \in Nat
      BY <1>2 DEF Broadcast, TypeOK, svars
    <3>2. pending'[w] = {t \in subs : e \in Fits[t]}
      BY <1>2 DEF Broadcast, TypeOK
    <3>3. QED
      BY <2>1, <2>2, <3>1, <3>2 DEF Owed
  <2>5. DeliveredInOrder'
    BY <1>2, <2>4 DEF Broadcast, DeliveryInv, DeliveredInOrder, svars
  <2>6. QED
    BY <2>3, <2>5 DEF DeliveryInv
<1>3. ASSUME NEW w \in Writer, NEW s \in Sub, Publish(w, s) PROVE DeliveryInv'
  <2>0. s \in pending[w] /\ Len(log) \in Nat /\ got[s] \in Seq(Nat) /\ since[s] \in Nat
    BY <1>3 DEF Publish, TypeOK
  <2>1. \A v \in Writer : v # w => s \notin pending[v]
    BY <2>0 DEF MutexInv, TypeOK
  <2>2. got'[s] = Append(got[s], Len(log)) /\ \A t \in Sub : t # s => got'[t] = got[t]
    BY <1>3 DEF Publish, TypeOK
  <2>3. /\ Len(got'[s]) = Len(got[s]) + 1
        /\ got'[s][Len(got[s]) + 1] = Len(log)
        /\ \A k \in 1..Len(got[s]) : got'[s][k] = got[s][k]
        /\ DOMAIN got'[s] = 1..(Len(got[s]) + 1)
        /\ DOMAIN got[s] = 1..Len(got[s])
        /\ Len(got[s]) \in Nat
    BY <2>0, <2>2
  <2>4. \A v \in Writer : pending'[v] \subseteq pending[v] /\ s \notin pending'[v]
    BY <1>3, <2>1 DEF Publish, TypeOK
  <2>5. \A t \in Sub, v \in Writer : t # s => (t \in pending'[v] <=> t \in pending[v])
    BY <1>3 DEF Publish, TypeOK
  <2>6. HistoryInv'
    <3>1. log' = log /\ since' = since /\ spc'[s] = "forward"
          /\ \A t \in Sub : t # s => spc'[t] = spc[t]
      BY <1>3 DEF Publish, TypeOK
    <3>2. Len(log) >= 1
      BY <2>0 DEF DeliveryInv, HistoryInv
    <3>3. ASSUME NEW t \in Sub PROVE
            /\ since'[t] <= Len(log')
            /\ spc'[t] = "new" => got'[t] = <<>>
            /\ \A k \in 1..Len(got'[t]) : got'[t][k] \in 1..Len(log')
      <4>1. CASE t = s
        <5>1. \A k \in 1..Len(got[s]) : got[s][k] \in 1..Len(log)
          BY DEF DeliveryInv, HistoryInv
        <5>2. \A k \in 1..Len(got'[s]) : got'[s][k] \in 1..Len(log)
          <6> SUFFICES ASSUME NEW k \in 1..(Len(got[s]) + 1)
                       PROVE got'[s][k] \in 1..Len(log)
            BY <2>3
          <6>1. CASE k = Len(got[s]) + 1
            BY <6>1, <3>2, <2>0, <2>3
          <6>2. CASE k \in 1..Len(got[s])
            BY <6>2, <5>1, <2>3
          <6>3. QED
            BY <6>1, <6>2, <2>3
        <5>3. since[s] <= Len(log)
          BY DEF DeliveryInv, HistoryInv
        <5>4. QED
          BY <4>1, <5>2, <5>3, <3>1
      <4>2. CASE t # s
        BY <4>2, <3>1, <2>2 DEF DeliveryInv, HistoryInv
      <4>3. QED
        BY <4>1, <4>2
    <3>4. ASSUME NEW v \in Writer, NEW t \in pending'[v] PROVE
            /\ since'[t] < Len(log')
            /\ log'[Len(log')] \in Fits[t]
            /\ \A k \in 1..Len(got'[t]) : got'[t][k] < Len(log')
      <4>1. t # s /\ t \in pending[v] /\ t \in Sub
        BY <2>4 DEF TypeOK
      <4>2. QED
        BY <4>1, <3>1, <2>2 DEF DeliveryInv, HistoryInv
    <3>5. QED
      BY <3>3, <3>4 DEF HistoryInv
  <2>7. ASSUME NEW t \in subs', t # s PROVE
          /\ {got'[t][k] : k \in DOMAIN got'[t]} = Owed(t)'
          /\ \A j, k \in DOMAIN got'[t] : j < k => got'[t][j] < got'[t][k]
    <3>1. t \in Sub /\ t \in subs /\ got'[t] = got[t]
      BY <1>3, <2>2, <2>7 DEF Publish, TypeOK
    <3>2. Owed(t)' = Owed(t)
      BY <1>3, <2>5, <2>7, <3>1 DEF Publish, Owed
    <3>3. QED
      BY <3>1, <3>2 DEF DeliveryInv, DeliveredInOrder
  <2>8. /\ {got'[s][k] : k \in DOMAIN got'[s]} = Owed(s)'
        /\ \A j, k \in DOMAIN got'[s] : j < k => got'[s][j] < got'[s][k]
    <3>1. s \in subs
      BY <2>0 DEF MapInv
    <3>2. /\ \A k \in 1..Len(got[s]) : got[s][k] < Len(log)
          /\ since[s] < Len(log) /\ log[Len(log)] \in Fits[s]
      BY <2>0 DEF DeliveryInv, HistoryInv
    <3>3. {got'[s][k] : k \in DOMAIN got'[s]} = {got[s][k] : k \in DOMAIN got[s]} \cup {Len(log)}
      BY <2>3
    <3>4. Owed(s)' = Owed(s) \cup {Len(log)}
      <4>1. log' = log /\ since' = since
        BY <1>3 DEF Publish
      <4>2. QED
        BY <4>1, <2>0, <2>4, <3>2 DEF Owed
    <3>5. {got[s][k] : k \in DOMAIN got[s]} = Owed(s)
      BY <3>1 DEF DeliveryInv, DeliveredInOrder
    <3>6. ASSUME NEW j \in DOMAIN got'[s], NEW k \in DOMAIN got'[s], j < k
          PROVE got'[s][j] < got'[s][k]
      <4>1. j \in 1..Len(got[s])
        BY <2>3, <3>6
      <4>2. CASE k = Len(got[s]) + 1
        BY <4>1, <4>2, <2>3, <3>2
      <4>3. CASE k \in 1..Len(got[s])
        BY <4>1, <4>3, <3>6, <3>1, <2>3 DEF DeliveryInv, DeliveredInOrder
      <4>4. QED
        BY <4>2, <4>3, <2>3
    <3>7. QED
      BY <3>3, <3>4, <3>5, <3>6
  <2>9. DeliveredInOrder'
    BY <2>7, <2>8 DEF DeliveredInOrder
  <2>10. QED
    BY <2>6, <2>9 DEF DeliveryInv
<1>4. ASSUME NEW w \in Writer, BroadcastReturn(w) PROVE DeliveryInv'
  BY <1>4, DeliveryFrame DEF BroadcastReturn, svars
<1>5. ASSUME NEW s \in Sub, Register(s) PROVE DeliveryInv'
  <2>1. /\ subs' = subs \cup {s} /\ UNCHANGED <<log, pending, got>>
        /\ since'[s] = Len(log) /\ \A t \in Sub : t # s => since'[t] = since[t]
        /\ Len(log) \in Nat /\ s \notin subs /\ spc[s] = "new"
    <3>1. spc[s] = "new" /\ s \notin subs
      BY <1>5 DEF Register, MapInv
    <3>2. since'[s] = Len(log) /\ \A t \in Sub : t # s => since'[t] = since[t]
      BY <1>5 DEF Register, TypeOK
    <3>3. QED
      BY <1>5, <3>1, <3>2 DEF Register, TypeOK
  <2>2. \A v \in Writer : s \notin pending[v] /\ pending[v] \subseteq Sub
    BY <2>1 DEF MapInv, TypeOK
  <2>. got[s] = <<>>
    BY <2>1 DEF DeliveryInv, HistoryInv
  <2>3. HistoryInv'
    <3>1. ASSUME NEW t \in Sub PROVE
            /\ since'[t] <= Len(log')
            /\ spc'[t] = "new" => got'[t] = <<>>
            /\ \A k \in 1..Len(got'[t]) : got'[t][k] \in 1..Len(log')
      <4>1. spc'[t] = "new" => spc[t] = "new"
        BY <1>5 DEF Register, TypeOK
      <4>2. since'[t] <= Len(log')
        BY <2>1 DEF DeliveryInv, HistoryInv
      <4>3. QED
        BY <4>1, <4>2, <2>1 DEF DeliveryInv, HistoryInv
    <3>2. ASSUME NEW v \in Writer, NEW t \in pending'[v] PROVE
            /\ since'[t] < Len(log')
            /\ log'[Len(log')] \in Fits[t]
            /\ \A k \in 1..Len(got'[t]) : got'[t][k] < Len(log')
      BY <2>1, <2>2 DEF DeliveryInv, HistoryInv
    <3>3. QED
      BY <3>1, <3>2 DEF HistoryInv
  <2>4. \A t \in subs : Owed(t)' = Owed(t)
    BY <2>1 DEF Owed, TypeOK
  <2>5. Owed(s)' = {} /\ DOMAIN got'[s] = {}
    BY <2>1 DEF Owed
  <2>6. DeliveredInOrder'
    BY <2>1, <2>4, <2>5 DEF DeliveryInv, DeliveredInOrder
  <2>7. QED
    BY <2>3, <2>6 DEF DeliveryInv
<1>6. ASSUME NEW s \in Sub, Forward(s) PROVE DeliveryInv'
  BY <1>6, DeliveryFrame DEF Forward, bvars, TypeOK
<1>7. ASSUME NEW s \in Sub, Evict(s) PROVE DeliveryInv'
  BY <1>7, DeliveryFrame DEF Evict, TypeOK
<1>8. ASSUME NEW s \in Sub, ForwardPanics(s) PROVE DeliveryInv'
  BY <1>8, DeliveryFrame DEF ForwardPanics, bvars, svars, TypeOK
<1>9. ASSUME NEW s \in Sub, ContextDone(s) PROVE DeliveryInv'
  BY <1>9, DeliveryFrame DEF ContextDone, bvars, svars, TypeOK
<1>10. ASSUME NEW s \in Sub, FarLeaves(s) PROVE DeliveryInv'
  BY <1>10, DeliveryFrame DEF FarLeaves, bvars, svars, TypeOK
<1>11. ASSUME NEW s \in Sub, TailEnds(s) PROVE DeliveryInv'
  BY <1>11, DeliveryFrame DEF TailEnds, bvars, svars, TypeOK
<1>12. ASSUME NEW s \in Sub, TakeDone(s) PROVE DeliveryInv'
  BY <1>12, DeliveryFrame DEF TakeDone, bvars, svars, TypeOK
<1>13. QED
  BY <1>1, <1>2, <1>3, <1>4, <1>5, <1>6, <1>7, <1>8, <1>9, <1>10, <1>11, <1>12 DEF Next, WriterNext, SubNext

(* Broadcast reaches each registered subscriber whose filter accepts the   *)
(* event, exactly once, and all subscribers see the concurrent Broadcast   *)
(* calls in one and the same order.                                        *)
THEOREM DeliveryCorrect == Spec => []DeliveredInOrder
<1>1. Init => SafeInv /\ DeliveryInv
  BY SafeInit, TypeInit, DeliveryInit DEF SafeInv
<1>2. SafeInv /\ DeliveryInv /\ [Next]_vars => (SafeInv /\ DeliveryInv)'
  BY SafeNext, TypeNext, DeliveryNext DEF SafeInv
<1>3. DeliveryInv => DeliveredInOrder
  BY DEF DeliveryInv
<1>4. QED
  BY <1>1, <1>2, <1>3, PTL DEF Spec
---------------------------------------------------------------------------
(* How far a Broadcast is from its return. *)

(* The subscriber's loop can take the event, or hand on the one it holds.  *)
CanTake(s) == spc[s] = "select" \/ (spc[s] = "forward" /\ far[s] = "reading")

(* Its request is over, or nobody reads what it hands on.                  *)
Leaving(s) == s \in done \/ far[s] # "reading"

(* A loop that goes to Evict has seen that its request is over.            *)
EvictInv == \A s \in Sub : spc[s] = "evict" => s \in done

(* Every step keeps it: done only grows.                                   *)
LEMMA EvictStep ==
  ASSUME TypeOK, EvictInv, [Next]_vars
  PROVE  EvictInv'
<1> USE DEF TypeOK, EvictInv, vars, bvars, svars
<1>1. CASE UNCHANGED vars
  BY <1>1
<1>2. ASSUME NEW w \in Writer, WriterNext(w) PROVE EvictInv'
  BY <1>2 DEF WriterNext, Broadcast, Publish, BroadcastReturn
<1>3. ASSUME NEW s \in Sub, Register(s) \/ Forward(s) \/ ForwardPanics(s) PROVE EvictInv'
  BY <1>3 DEF Register, Forward, ForwardPanics
<1>4. ASSUME NEW s \in Sub, ContextDone(s) \/ FarLeaves(s) \/ TailEnds(s) PROVE EvictInv'
  BY <1>4 DEF ContextDone, FarLeaves, TailEnds
<1>5. ASSUME NEW s \in Sub, TakeDone(s) \/ Evict(s) PROVE EvictInv'
  BY <1>5 DEF TakeDone, Evict
<1> QED BY <1>1, <1>2, <1>3, <1>4, <1>5 DEF Next, SubNext

(* Whom a Broadcast waits for: each subscriber that has not got its event  *)
(* yet can take it or hand on the one before, or it is leaving. Nobody is  *)
(* waited for that still has to register or is evicted already, and nobody *)
(* waits for another writer or for the mutex, except a loop that is        *)
(* leaving (Broadcast, publish, Evict and the loops of Watch and Log).     *)
THEOREM BroadcastWaitsFor ==
  Spec => [](\A w \in Writer : \A s \in pending[w] : CanTake(s) \/ Leaving(s))
<1>1. Init => SafeInv /\ EvictInv
  BY SafeInit, TypeInit DEF SafeInv, Init, EvictInv
<1>2. SafeInv /\ EvictInv /\ [Next]_vars => SafeInv' /\ EvictInv'
  BY SafeNext, TypeNext, EvictStep DEF SafeInv
<1>3. SafeInv /\ EvictInv => \A w \in Writer : \A s \in pending[w] : CanTake(s) \/ Leaving(s)
  BY DEF SafeInv, TypeOK, MapInv, EvictInv, CanTake, Leaving
<1> QED BY <1>1, <1>2, <1>3, PTL DEF Spec

(* The subscribers a Broadcast waits for that hold an event still, and the *)
(* most receives it can still wait for: theirs, and one of each.           *)
Holding(w) == {s \in pending[w] : spc[s] = "forward"}
Work(w) == Cardinality(pending[w]) + Cardinality(Holding(w))

(* A receive that brings the Broadcast of w nearer to its return.          *)
Receives(w) == \E s \in pending[w] : Publish(w, s) \/ Forward(s)

(* Nobody adds to what a Broadcast waits for, and a receive takes from it. *)
LEMMA LessToWaitFor ==
  ASSUME SafeInv, [Next]_vars, NEW w \in Writer, wpc[w] = "publish"
  PROVE  /\ pending'[w] \subseteq pending[w] /\ Holding(w)' \subseteq Holding(w)
         /\ Receives(w) => pending'[w] # pending[w] \/ Holding(w)' # Holding(w)
<1> USE DEF SafeInv, TypeOK, vars, bvars, svars, Holding
<1>1. m = w /\ w # Free
  BY FreeAssumption DEF MutexInv
<1>2. /\ pending'[w] \subseteq pending[w] /\ Holding(w)' \subseteq Holding(w)
  <2> DEFINE Fewer == pending'[w] \subseteq pending[w] /\ Holding(w)' \subseteq Holding(w)
  <2>1. CASE UNCHANGED vars
    BY <2>1
  <2>2. ASSUME NEW v \in Writer, NEW e \in Event, Broadcast(v, e) PROVE FALSE
    BY <1>1, <2>2 DEF Broadcast
  <2>3. ASSUME NEW v \in Writer, NEW s \in Sub, Publish(v, s) PROVE Fewer
    <3>1. v = w
      BY <1>1, <2>3 DEF Publish, MutexInv
    <3> QED BY <2>3, <3>1 DEF Publish
  <2>4. ASSUME NEW v \in Writer, BroadcastReturn(v) PROVE Fewer
    BY <2>4 DEF BroadcastReturn
  <2>5. ASSUME NEW s \in Sub, Register(s) \/ Forward(s) \/ ForwardPanics(s) PROVE Fewer
    BY <2>5 DEF Register, Forward, ForwardPanics
  <2>6. ASSUME NEW s \in Sub, ContextDone(s) \/ FarLeaves(s) \/ TailEnds(s) PROVE Fewer
    BY <2>6 DEF ContextDone, FarLeaves, TailEnds
  <2>7. ASSUME NEW s \in Sub, TakeDone(s) \/ Evict(s) PROVE Fewer
    BY <2>7 DEF TakeDone, Evict
  <2> QED BY <2>1, <2>2, <2>3, <2>4, <2>5, <2>6, <2>7 DEF Next, WriterNext, SubNext
<1>3. ASSUME NEW s \in pending[w], Publish(w, s) PROVE pending'[w] # pending[w]
  BY <1>3 DEF Publish
<1>4. ASSUME NEW s \in pending[w], Forward(s) PROVE Holding(w)' # Holding(w)
  <2>1. s \in Sub /\ s \in Holding(w)
    BY <1>4 DEF Forward
  <2>2. spc'[s] = "select"
    BY <1>4, <2>1 DEF Forward
  <2> QED BY <2>1, <2>2
<1> QED BY <1>2, <1>3, <1>4 DEF Receives

(* However writers and subscribers come and go: while a Broadcast waits,   *)
(* nothing adds to what it waits for, and every receive by a subscriber it *)
(* waits for takes from it. So it waits for at most two receives of each   *)
(* subscriber, and with BroadcastWaitsFor only for those that can make     *)
(* them or are leaving.                                                    *)
THEOREM BroadcastAdvances ==
  ASSUME IsFiniteSet(Sub)
  PROVE  Spec => [][\A w \in Writer : wpc[w] = "publish" =>
                      /\ Work(w)' <= Work(w)
                      /\ Receives(w) => Work(w)' < Work(w)]_vars
<1>1. Init => SafeInv
  BY SafeInit, TypeInit DEF SafeInv
<1>2. SafeInv /\ [Next]_vars => SafeInv'
  BY SafeNext, TypeNext DEF SafeInv
<1>3. ASSUME SafeInv, [Next]_vars, NEW w \in Writer, wpc[w] = "publish"
      PROVE  Work(w)' <= Work(w) /\ (Receives(w) => Work(w)' < Work(w))
  <2> DEFINE a == Cardinality(pending[w])   b == Cardinality(Holding(w))
             c == Cardinality(pending'[w])  d == Cardinality(Holding(w)')
  <2>1. /\ pending'[w] \subseteq pending[w] /\ Holding(w)' \subseteq Holding(w)
        /\ Receives(w) => pending'[w] # pending[w] \/ Holding(w)' # Holding(w)
    BY <1>3, LessToWaitFor
  <2>2. IsFiniteSet(pending[w]) /\ IsFiniteSet(Holding(w))
    <3>1. pending[w] \subseteq Sub /\ Holding(w) \subseteq Sub
      BY <1>3 DEF SafeInv, TypeOK, Holding
    <3> QED BY <3>1, FS_Subset
  <2>3. a \in Nat /\ b \in Nat /\ c \in Nat /\ d \in Nat /\ c <= a /\ d <= b
    BY <2>1, <2>2, FS_Subset, FS_CardinalityType
  <2>4. (pending'[w] # pending[w] => c < a) /\ (Holding(w)' # Holding(w) => d < b)
    <3>1. (c = a => pending'[w] = pending[w]) /\ (d = b => Holding(w)' = Holding(w))
      BY <2>1, <2>2, FS_Subset
    <3> HIDE DEF a, b, c, d
    <3> QED BY <2>3, <3>1
  <2>5. Work(w) = a + b /\ Work(w)' = c + d
    BY DEF Work
  <2> HIDE DEF a, b, c, d
  <2> QED BY <2>1, <2>3, <2>4, <2>5
<1>4. SafeInv /\ [Next]_vars =>
        [\A w \in Writer : wpc[w] = "publish" =>
           /\ Work(w)' <= Work(w)
           /\ Receives(w) => Work(w)' < Work(w)]_vars
  BY <1>3
<1> QED BY <1>1, <1>2, <1>4, PTL DEF Spec
=============================================================================
