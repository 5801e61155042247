---------------------------- MODULE Broadcaster ----------------------------
(***************************************************************************)
(* pkg/common/broadcast.go and the goroutines around it: Broadcast callers *)
(* (the gorm hooks, DeleteCluster, the "create"/"update" callbacks), the   *)
(* subscriber loops of Store.Watch and Store.Log, and the goroutine at the *)
(* far end of each subscriber's result channel:                            *)
(*   "direct"  Store.Watch read by the API server itself, which drains the *)
(*             result channel until it is closed;                          *)
(*   "relay"   Store.Watch read by the second loop of the cluster and      *)
(*             template stores, which leaves when the request is done;     *)
(*   "log"     Store.Log read by logHandler, which closes the channel it   *)
(*             does not own when it leaves.                                *)
(* Channels are unbuffered: a send and its receive are one step.           *)
(***************************************************************************)
EXTENDS Naturals, Sequences

CONSTANTS Writer,     \* goroutines that call Broadcast
          Sub,        \* requests that subscribe
          Event,      \* event payloads
          Kind,       \* Kind[s]: which far end subscriber s has
          Fits,       \* Fits[s]: the events its filter sf accepts
          Ends,       \* the log events that finish a log request
          Leaver,     \* the requests whose client may disconnect
          Free,       \* the mutex has no holder
          MaxEvents   \* bound: Broadcast calls in a behaviour

ASSUME KindAssumption == Kind \in [Sub -> {"direct", "relay", "log"}]
ASSUME FitsAssumption == Fits \in [Sub -> SUBSET Event]
ASSUME FreeAssumption == Free \notin Writer /\ Writer \cap Sub = {}
ASSUME BoundAssumption == MaxEvents \in Nat /\ Leaver \subseteq Sub

VARIABLES
  m,        \* b.m: the writer that holds it, or Free
  subs,     \* b.subs: the registered channels
  closed,   \* the subscriber channels that are closed
  log,      \* history: the events whose Broadcast took the lock, in order
  wpc,      \* writer: "idle" | "publish"
  pending,  \* writer: the publish goroutines wg.Wait still waits for
  spc,      \* subscriber loop: "new" | "select" | "forward" | "evict" | "gone"
  inhand,   \* subscriber loop: index in log of the event it holds, 0 if none
  since,    \* history: Len(log) when the subscriber registered
  got,      \* history: indices in log of the events received, in order
  far,      \* goroutine at the far end: "reading" | "left" | "closed"
  done,     \* requests whose context is done
  crashed   \* a send on a closed channel ended the process

bvars == <<m, subs, closed, log, wpc, pending>>
svars == <<spc, inhand, since, got, far, done>>
vars  == <<bvars, svars, crashed>>

Init ==
  /\ m = Free
  /\ subs = {}
  /\ closed = {}
  /\ log = <<>>
  /\ wpc = [w \in Writer |-> "idle"]
  /\ pending = [w \in Writer |-> {}]
  /\ spc = [s \in Sub |-> "new"]
  /\ inhand = [s \in Sub |-> 0]
  /\ since = [s \in Sub |-> 0]
  /\ got = [s \in Sub |-> <<>>]
  /\ far = [s \in Sub |-> "reading"]
  /\ done = {}
  /\ crashed = FALSE

---------------------------------------------------------------------------
(* Variants of the actions below with a plausible slip each. The mutation  *)
(* runs put one in the place of the action it is named after.              *)

(* Evict that does not take b.m. *)
EvictUnlocked(s) ==
  /\ spc[s] = "evict"
  /\ subs' = subs \ {s}
  /\ closed' = closed \cup {s}
  /\ spc' = [spc EXCEPT ![s] = "gone"]
  /\ UNCHANGED <<m, log, wpc, pending, inhand, since, got, far, done, crashed>>

(* Evict that forgets the deferred Unlock. *)
EvictKeepsLock(s) ==
  /\ spc[s] = "evict"
  /\ m = Free
  /\ m' = s
  /\ subs' = subs \ {s}
  /\ closed' = closed \cup {s}
  /\ spc' = [spc EXCEPT ![s] = "gone"]
  /\ UNCHANGED <<log, wpc, pending, inhand, since, got, far, done, crashed>>

(* Broadcast that unlocks without waiting for the publish goroutines. *)
BroadcastReturnEarly(w) ==
  /\ wpc[w] = "publish"
  /\ m' = Free
  /\ wpc' = [wpc EXCEPT ![w] = "idle"]
  /\ UNCHANGED <<subs, closed, log, pending, svars, crashed>>

(* A subscriber loop that returns after its first event. *)
ForwardOnce(s) ==
  /\ spc[s] = "forward"
  /\ far[s] = "reading"
  /\ spc' = [spc EXCEPT ![s] = "gone"]
  /\ inhand' = [inhand EXCEPT ![s] = 0]
  /\ UNCHANGED <<bvars, since, got, far, done, crashed>>

---------------------------------------------------------------------------
(* The broadcaster. *)

(* Register: make the channel and add it to the map under the lock. *)
Register(s) ==
  /\ ~crashed
  /\ spc[s] = "new"
  /\ m = Free
  /\ subs' = subs \cup {s}
  /\ spc' = [spc EXCEPT ![s] = "select"]
  /\ since' = [since EXCEPT ![s] = Len(log)]
  /\ UNCHANGED <<m, closed, log, wpc, pending, inhand, got, far, done, crashed>>

(* Broadcast: take the lock and start one publish goroutine per channel in *)
(* the map; those whose filter rejects the event return at once.           *)
Broadcast(w, e) ==
  /\ ~crashed
  /\ wpc[w] = "idle"
  /\ m = Free
  /\ Len(log) < MaxEvents
  /\ m' = w
  /\ log' = Append(log, e)
  /\ pending' = [pending EXCEPT ![w] = {s \in subs : e \in Fits[s]}]
  /\ wpc' = [wpc EXCEPT ![w] = "publish"]
  /\ UNCHANGED <<subs, closed, svars, crashed>>

(* publish: the blocking send s <- v meets the receive of the select loop. *)
(* A send on a closed channel would panic: NoSendOnClosed says that the    *)
(* case does not arise.                                                    *)
Publish(w, s) ==
  /\ ~crashed
  /\ s \in pending[w]
  /\ spc[s] = "select"
  /\ spc' = [spc EXCEPT ![s] = "forward"]
  /\ inhand' = [inhand EXCEPT ![s] = Len(log)]
  /\ got' = [got EXCEPT ![s] = Append(@, Len(log))]
  /\ pending' = [pending EXCEPT ![w] = @ \ {s}]
  /\ UNCHANGED <<m, subs, closed, log, wpc, since, far, done, crashed>>

(* wg.Wait returns once every publish goroutine is done; the deferred      *)
(* Unlock follows.                                                         *)
BroadcastReturn(w) ==
  /\ ~crashed
  /\ wpc[w] = "publish"
  /\ pending[w] = {}
  /\ m' = Free
  /\ wpc' = [wpc EXCEPT ![w] = "idle"]
  /\ UNCHANGED <<subs, closed, log, pending, svars, crashed>>

---------------------------------------------------------------------------
(* The subscriber loops. *)

(* result <- event, received by the far end. The relay and the API server  *)
(* go on reading. When the event is the one its request waits for,         *)
(* logHandler writes the last lines of the log and closes the channel, or  *)
(* returns without closing it when WriteLastLogs fails.                    *)
Forward(s) ==
  /\ ~crashed
  /\ spc[s] = "forward"
  /\ far[s] = "reading"
  /\ spc' = [spc EXCEPT ![s] = "select"]
  /\ inhand' = [inhand EXCEPT ![s] = 0]
  /\ \/ /\ Kind[s] = "log" /\ log[inhand[s]] \in Ends
        /\ \E end \in {"closed", "left"} : far' = [far EXCEPT ![s] = end]
     \/ /\ ~(Kind[s] = "log" /\ log[inhand[s]] \in Ends)
        /\ UNCHANGED far
  /\ UNCHANGED <<bvars, since, got, done, crashed>>

(* Store.Log sends on the channel logHandler has closed. *)
ForwardPanics(s) ==
  /\ ~crashed
  /\ spc[s] = "forward"
  /\ far[s] = "closed"
  /\ crashed' = TRUE
  /\ UNCHANGED <<bvars, svars>>

(* The client goes away, or logHandler has returned: the request's context *)
(* is done.                                                                *)
ContextDone(s) ==
  /\ ~crashed
  /\ spc[s] # "new"
  /\ s \in Leaver \/ far[s] # "reading"
  /\ s \notin done
  /\ done' = done \cup {s}
  /\ UNCHANGED <<bvars, spc, inhand, since, got, far, crashed>>

(* The far end takes its own Done case: the relay stops reading, logHandler*)
(* closes the channel Store.Log sends on.                                  *)
FarLeaves(s) ==
  /\ ~crashed
  /\ s \in done
  /\ Kind[s] # "direct"
  /\ far[s] = "reading"
  /\ far' = [far EXCEPT ![s] = IF Kind[s] = "log" THEN "closed" ELSE "left"]
  /\ UNCHANGED <<bvars, spc, inhand, since, got, done, crashed>>

(* The tailed log file goes away (a deleted cluster's directory does) and  *)
(* logHandler returns without closing the channel.                         *)
TailEnds(s) ==
  /\ ~crashed
  /\ spc[s] # "new"
  /\ Kind[s] = "log"
  /\ far[s] = "reading"
  /\ far' = [far EXCEPT ![s] = "left"]
  /\ UNCHANGED <<bvars, spc, inhand, since, got, done, crashed>>

(* The select of the loop takes the Done case and calls Evict. *)
TakeDone(s) ==
  /\ ~crashed
  /\ spc[s] = "select"
  /\ s \in done
  /\ spc' = [spc EXCEPT ![s] = "evict"]
  /\ UNCHANGED <<bvars, inhand, since, got, far, done, crashed>>

(* Evict: under the lock, delete the channel from the map and close it.    *)
Evict(s) ==
  /\ ~crashed
  /\ spc[s] = "evict"
  /\ m = Free
  /\ subs' = subs \ {s}
  /\ closed' = closed \cup {s}
  /\ spc' = [spc EXCEPT ![s] = "gone"]
  /\ UNCHANGED <<m, log, wpc, pending, inhand, since, got, far, done, crashed>>

WriterNext(w) ==
  \/ \E e \in Event : Broadcast(w, e)
  \/ \E s \in Sub : Publish(w, s)
  \/ BroadcastReturn(w)

SubNext(s) ==
  \/ Register(s)
  \/ Forward(s)
  \/ ForwardPanics(s)
  \/ ContextDone(s)
  \/ FarLeaves(s)
  \/ TailEnds(s)
  \/ TakeDone(s)
  \/ Evict(s)

Next ==
  \/ \E w \in Writer : WriterNext(w)
  \/ \E s \in Sub : SubNext(s)

(* The Go scheduler runs every goroutine that can move. A new request, a   *)
(* new Broadcast call and a client's departure are the environment's.      *)
Fairness ==
  /\ \A w \in Writer :
       /\ WF_vars(BroadcastReturn(w))
       /\ \A s \in Sub : WF_vars(Publish(w, s))
  /\ \A s \in Sub :
       /\ WF_vars(Forward(s))
       /\ WF_vars(ForwardPanics(s))
       /\ WF_vars(FarLeaves(s))
       /\ WF_vars(TakeDone(s))
       /\ WF_vars(Evict(s))

Spec == Init /\ [][Next]_vars
FairSpec == Spec /\ Fairness

---------------------------------------------------------------------------
(* Properties. *)

(* The type invariant of the broadcaster and its subscribers. *)
TypeOK ==
  /\ m \in Writer \cup {Free}
  /\ subs \subseteq Sub
  /\ closed \subseteq Sub
  /\ log \in Seq(Event)
  /\ wpc \in [Writer -> {"idle", "publish"}]
  /\ pending \in [Writer -> SUBSET Sub]
  /\ spc \in [Sub -> {"new", "select", "forward", "evict", "gone"}]
  /\ inhand \in [Sub -> Nat]
  /\ since \in [Sub -> Nat]
  /\ got \in [Sub -> Seq(Nat)]
  /\ far \in [Sub -> {"reading", "left", "closed"}]
  /\ done \subseteq Sub
  /\ crashed \in BOOLEAN

(* publish (broadcast.go) never sends on a channel Evict has closed, which *)
(* would panic the whole process: Evict closes only under b.m, and         *)
(* Broadcast keeps b.m until its last publish goroutine is done.           *)
NoSendOnClosed == \A w \in Writer : pending[w] \cap closed = {}

(* The indices a subscriber must have received so far: every Broadcast     *)
(* since it registered whose event its filter accepts, except the one in   *)
(* progress that its publish goroutine has not delivered yet.              *)
Owed(s) ==
  {i \in since[s] + 1 .. Len(log) :
     /\ log[i] \in Fits[s]
     /\ ~(i = Len(log) /\ \E w \in Writer : s \in pending[w])}

(* "Broadcast events to each subscriber" (broadcast.go): a registered      *)
(* subscriber has received every event it is owed, exactly once, and in    *)
(* the order in which the Broadcast calls took the lock, however many      *)
(* writers broadcast at the same time.                                     *)
DeliveredInOrder ==
  \A s \in subs :
    /\ {got[s][k] : k \in DOMAIN got[s]} = Owed(s)
    /\ \A j, k \in DOMAIN got[s] : j < k => got[s][j] < got[s][k]

(* A Broadcast returns, and so gives b.m back, unless it waits for a       *)
(* subscriber whose request is done or whose reader has left: nobody else  *)
(* can hold it up, however subscribers come and go around it.              *)
ReturnsWhileRead ==
  \A w \in Writer :
    (wpc[w] = "publish") ~>
      \/ wpc[w] = "idle" \/ crashed
      \/ \E s \in pending[w] : s \in done \/ far[s] # "reading"

(* "Broadcast events to each subscriber": every call returns. Till then    *)
(* its writer holds b.m, and in the gorm hooks the only connection of the  *)
(* database.                                                               *)
BroadcastReturns ==
  \A w \in Writer : (wpc[w] = "publish") ~> (wpc[w] = "idle" \/ crashed)
============================================================================
