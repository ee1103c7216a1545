------------------------------ MODULE EventBus ------------------------------
(***************************************************************************)
(* The event bus of the surge engine (internal/surge/orchestrator/         *)
(* event_bus.go, event_subscription.go): publishers and pool workers send  *)
(* on one bounded channel, broadcastLoop hands each event to every         *)
(* subscription, and each subscription has a goroutine that writes to its  *)
(* consumer.  The persistence worker reads the one reliable subscription,  *)
(* Store, which must see every lifecycle event; observers lose progress,   *)
(* and are cut off rather than waited for.                                 *)
(*                                                                         *)
(* An event is its position in log, the order in which InputCh accepted    *)
(* events, so InputCh holds the positions read + 1 .. Len(log).            *)
(***************************************************************************)
EXTENDS Integers, SequencesExt

CONSTANTS Publishers, \* goroutines that call Publish
          Workers,    \* pool workers, which send on InputCh themselves
          Observers,  \* subscriptions Subscribe may create
          Store,      \* the subscription of the persistence worker
          InCap,      \* capacity of InputCh (eventQueueCapacity)
          CritCap,    \* capacity of critical (eventQueueCapacity)
          MaxEvents   \* bound: events sent in a behaviour

ASSUME BusAssumption ==
  /\ Store \notin Observers
  /\ Publishers \cap Workers = {}
  /\ InCap \in Nat \ {0} /\ CritCap \in Nat \ {0} /\ MaxEvents \in Nat

\* "persist" is what persistenceEvent lets through, "progress" what
\* isProgressEvent recognises, "other" the rest (first byte, system, requests).
Kinds   == {"persist", "progress", "other"}
Senders == Publishers \cup Workers
Subs    == Observers \cup {Store}

VARIABLES log,       \* kinds of the events InputCh accepted, in order
          read,      \* events broadcastLoop has received
          todo,      \* subscriptions still to be handed event read
          drained,   \* broadcastLoop has returned
          sending,   \* what a sender is sending, or "no"
          shut,      \* Shutdown: "no", "cancelled", "closed", "returned"
          listeners, \* bus.listeners
          stopped,   \* subscriptions whose done is closed
          pc,        \* run of a subscription
          critical, progress, held, delivered,
          since      \* history: events received before the subscription

vars == <<log, read, todo, drained, sending, shut, listeners, stopped, pc,
          critical, progress, held, delivered, since>>

ingress == <<log, sending>>
sub     == <<pc, critical, progress, held, delivered, since>>

Nothing == 0  \* an empty progress channel, or no event in hand

Init ==
  /\ log = <<>> /\ read = 0 /\ todo = {} /\ drained = FALSE
  /\ sending = [p \in Senders |-> "no"]
  /\ shut = "no"
  /\ listeners = {Store} /\ stopped = {}
  /\ pc = [s \in Subs |-> IF s = Store THEN "top" ELSE "off"]
  /\ critical = [s \in Subs |-> <<>>]
  /\ progress = [s \in Subs |-> Nothing]
  /\ held = [s \in Subs |-> Nothing]
  /\ delivered = [s \in Subs |-> <<>>]
  /\ since = [s \in Subs |-> 0]

-----------------------------------------------------------------------------
(* Senders. *)

Full == Len(log) - read = InCap

InSend == {p \in Senders : sending[p] # "no"}

BoundEvents == Len(log) + Cardinality(InSend) < MaxEvents

\* Defect: Publish joins pubWg without the check of the context under pubMu.
PubEnter_Late(p, k) ==
  /\ BoundEvents
  /\ sending[p] = "no"
  /\ sending' = [sending EXCEPT ![p] = k]
  /\ UNCHANGED <<log, read, todo, drained, shut, listeners, stopped, sub>>

\* Publish up to its select: the context is checked and pubWg joined under
\* pubMu.  A cancelled bus refuses and changes nothing.
PubEnter(p, k) ==
  /\ BoundEvents
  /\ sending[p] = "no"
  /\ shut = "no"
  /\ sending' = [sending EXCEPT ![p] = k]
  /\ UNCHANGED <<log, read, todo, drained, shut, listeners, stopped, sub>>

\* A pool worker sends lifecycle events on InputCh itself (safeSendProgress,
\* sendProgressEvent).  LifecycleManager.Shutdown waits for the workers first.
WorkerEnter(p, k) ==
  /\ BoundEvents
  /\ sending[p] = "no"
  /\ shut = "no"
  /\ k # "progress"
  /\ sending' = [sending EXCEPT ![p] = k]
  /\ UNCHANGED <<log, read, todo, drained, shut, listeners, stopped, sub>>

\* The channel takes the event.
Accept(p) ==
  /\ sending[p] # "no"
  /\ ~Full
  /\ log' = Append(log, sending[p])
  /\ sending' = [sending EXCEPT ![p] = "no"]
  /\ UNCHANGED <<read, todo, drained, shut, listeners, stopped, sub>>

\* The select takes another branch: progress meets a full channel, the bus is
\* cancelled, or a worker's send times out or loses its done channel.
GiveUp(p) ==
  /\ \/ sending[p] = "progress" /\ Full
     \/ sending[p] # "no" /\ p \in Workers
     \/ sending[p] \in {"persist", "other"} /\ p \in Publishers /\ shut # "no"
  /\ sending' = [sending EXCEPT ![p] = "no"]
  /\ UNCHANGED <<log, read, todo, drained, shut, listeners, stopped, sub>>

-----------------------------------------------------------------------------
(* broadcastLoop. *)

\* Receive the next event and copy the listeners.
LoopTake ==
  /\ todo = {}
  /\ read < Len(log)
  /\ read' = read + 1
  /\ todo' = listeners
  /\ UNCHANGED <<ingress, drained, shut, listeners, stopped, sub>>

\* enqueue returned: the loop goes on to its next listener, or drops this one.
Enqueued(s) ==
  /\ todo' = todo \ {s}
  /\ UNCHANGED <<ingress, read, drained, shut, pc, held, delivered, since>>

Refused(s) ==
  /\ stopped' = stopped \cup {s}
  /\ listeners' = listeners \ {s}

\* A subscription that is done gets nothing more.
EnqueueDone(s) ==
  /\ s \in todo \cap stopped
  /\ Enqueued(s) /\ Refused(s)
  /\ UNCHANGED <<critical, progress>>

\* Defect: the reliable branch does not wait for room in critical.
EnqueueStore_Drops ==
  /\ Store \in todo \ stopped
  /\ Enqueued(Store)
  /\ IF log[read] = "persist" /\ Len(critical[Store]) < CritCap
     THEN critical' = [critical EXCEPT ![Store] = Append(@, read)]
     ELSE UNCHANGED critical
  /\ UNCHANGED <<progress, listeners, stopped>>

\* The reliable branch skips transient events and waits for room.
EnqueueStore ==
  /\ Store \in todo \ stopped
  /\ Enqueued(Store)
  /\ \/ log[read] # "persist" /\ UNCHANGED critical
     \/ /\ log[read] = "persist"
        /\ Len(critical[Store]) < CritCap
        /\ critical' = [critical EXCEPT ![Store] = Append(@, read)]
  /\ UNCHANGED <<progress, listeners, stopped>>

\* A progress event replaces the one still pending.
EnqueueProgress(s) ==
  /\ s \in (todo \cap Observers) \ stopped
  /\ log[read] = "progress"
  /\ Enqueued(s)
  /\ progress' = [progress EXCEPT ![s] = read]
  /\ UNCHANGED <<critical, listeners, stopped>>

\* Defect: the pending progress frame stays.
EnqueueLifecycle_KeepsProgress(s) ==
  /\ s \in (todo \cap Observers) \ stopped
  /\ log[read] # "progress"
  /\ Enqueued(s)
  /\ UNCHANGED progress
  /\ \/ /\ Len(critical[s]) < CritCap
        /\ critical' = [critical EXCEPT ![s] = Append(@, read)]
        /\ UNCHANGED <<listeners, stopped>>
     \/ Len(critical[s]) = CritCap /\ Refused(s) /\ UNCHANGED critical

\* Defect: an overflowing event is dropped and the stream goes on.
EnqueueLifecycle_Drops(s) ==
  /\ s \in (todo \cap Observers) \ stopped
  /\ log[read] # "progress"
  /\ Enqueued(s)
  /\ progress' = [progress EXCEPT ![s] = Nothing]
  /\ \/ /\ Len(critical[s]) < CritCap
        /\ critical' = [critical EXCEPT ![s] = Append(@, read)]
     \/ Len(critical[s]) = CritCap /\ UNCHANGED critical
  /\ UNCHANGED <<listeners, stopped>>

\* A lifecycle event supersedes pending progress; one that does not fit ends
\* the subscription.
EnqueueLifecycle(s) ==
  /\ s \in (todo \cap Observers) \ stopped
  /\ log[read] # "progress"
  /\ Enqueued(s)
  /\ progress' = [progress EXCEPT ![s] = Nothing]
  /\ \/ /\ Len(critical[s]) < CritCap
        /\ critical' = [critical EXCEPT ![s] = Append(@, read)]
        /\ UNCHANGED <<listeners, stopped>>
     \/ Len(critical[s]) = CritCap /\ Refused(s) /\ UNCHANGED critical

\* Defect: only the reliable queue is closed, observers are left running.
LoopEnd_KeepsObservers ==
  /\ shut = "closed"
  /\ todo = {} /\ read = Len(log) /\ ~drained
  /\ drained' = TRUE
  /\ listeners' = {}
  /\ UNCHANGED <<ingress, read, todo, shut, stopped, sub>>

\* InputCh is closed and empty: the reliable queue is closed (drained says
\* so), observers are stopped.
LoopEnd ==
  /\ shut = "closed"
  /\ todo = {} /\ read = Len(log) /\ ~drained
  /\ drained' = TRUE
  /\ stopped' = stopped \cup (listeners \cap Observers)
  /\ listeners' = {}
  /\ UNCHANGED <<ingress, read, todo, shut, sub>>

-----------------------------------------------------------------------------
(* Subscriptions. *)

Elsewhere == <<ingress, read, todo, drained, shut>>

\* Subscribe on a live bus; on a cancelled one the caller gets a closed stream.
Subscribe(s) ==
  /\ s \in Observers /\ pc[s] = "off"
  /\ shut = "no"
  /\ listeners' = listeners \cup {s}
  /\ pc' = [pc EXCEPT ![s] = "top"]
  /\ since' = [since EXCEPT ![s] = read]
  /\ UNCHANGED <<Elsewhere, stopped, critical, progress, held, delivered>>

\* cleanup: an observer leaves, or the persistence worker has panicked
\* (runSurgeEventWorker) or has returned.  It stops, then unlists: a copy of
\* the listeners made in between meets EnqueueDone.
Cleanup(s) ==
  /\ pc[s] # "off" /\ s \notin stopped
  /\ stopped' = stopped \cup {s}
  /\ listeners' = listeners \ {s}
  /\ UNCHANGED <<Elsewhere, sub>>

\* run sees done closed, in any of its selects, and what it holds is lost.
RunDone(s) ==
  /\ pc[s] \in {"top", "second", "hold"}
  /\ s \in stopped
  /\ pc' = [pc EXCEPT ![s] = "ended"]
  /\ held' = [held EXCEPT ![s] = Nothing]
  /\ UNCHANGED <<Elsewhere, listeners, stopped, critical, progress, delivered, since>>

\* run finds the reliable queue closed and empty.
RunClosed(s) ==
  /\ pc[s] \in {"top", "second"}
  /\ s = Store /\ drained /\ critical[s] = <<>>
  /\ pc' = [pc EXCEPT ![s] = "ended"]
  /\ UNCHANGED <<Elsewhere, listeners, stopped, critical, progress, held,
                 delivered, since>>

\* A lifecycle event is there at either select.  The first select comes after
\* a look at done; the second may pick it although done is closed.
RunCritical(s) ==
  /\ pc[s] = "second" \/ (pc[s] = "top" /\ s \notin stopped)
  /\ critical[s] # <<>>
  /\ held' = [held EXCEPT ![s] = Head(critical[s])]
  /\ critical' = [critical EXCEPT ![s] = Tail(@)]
  /\ pc' = [pc EXCEPT ![s] = "hold"]
  /\ UNCHANGED <<Elsewhere, listeners, stopped, progress, delivered, since>>

\* No lifecycle event at the first select: on to the second, which waits.
RunIdle(s) ==
  /\ pc[s] = "top"
  /\ s \notin stopped /\ critical[s] = <<>>
  /\ ~(s = Store /\ drained)
  /\ pc' = [pc EXCEPT ![s] = "second"]
  /\ UNCHANGED <<Elsewhere, listeners, stopped, critical, progress, held,
                 delivered, since>>

\* The second select may take progress even if a lifecycle event has come.
RunProgress(s) ==
  /\ pc[s] = "second"
  /\ progress[s] # Nothing
  /\ held' = [held EXCEPT ![s] = progress[s]]
  /\ progress' = [progress EXCEPT ![s] = Nothing]
  /\ pc' = [pc EXCEPT ![s] = "hold"]
  /\ UNCHANGED <<Elsewhere, listeners, stopped, critical, delivered, since>>

\* The consumer takes the event run offers on out.
Deliver(s) ==
  /\ pc[s] = "hold"
  /\ delivered' = [delivered EXCEPT ![s] = Append(@, held[s])]
  /\ held' = [held EXCEPT ![s] = Nothing]
  /\ pc' = [pc EXCEPT ![s] = "top"]
  /\ UNCHANGED <<Elsewhere, listeners, stopped, critical, progress, since>>

-----------------------------------------------------------------------------
(* Shutdown.  LifecycleManager.Shutdown has waited for the aggregator and for *)
(* the pool, so no worker is in a send; publishers may be.                   *)

ShutCancel ==
  /\ shut = "no"
  /\ InSend \cap Workers = {}
  /\ shut' = "cancelled"
  /\ UNCHANGED <<ingress, read, todo, drained, listeners, stopped, sub>>

\* pubWg.Wait, then close(InputCh).
ShutClose ==
  /\ shut = "cancelled"
  /\ InSend = {}
  /\ shut' = "closed"
  /\ UNCHANGED <<ingress, read, todo, drained, listeners, stopped, sub>>

\* wg.Wait: broadcastLoop and every run have returned.
ShutReturn ==
  /\ shut = "closed"
  /\ drained
  /\ \A s \in Subs : pc[s] \in {"off", "ended"}
  /\ shut' = "returned"
  /\ UNCHANGED <<ingress, read, todo, drained, listeners, stopped, sub>>

-----------------------------------------------------------------------------

Enqueue(s) ==
  \/ EnqueueDone(s) \/ EnqueueProgress(s) \/ EnqueueLifecycle(s)
  \/ s = Store /\ EnqueueStore

LoopStep  == LoopTake \/ LoopEnd \/ \E s \in Subs : Enqueue(s)
RunStep(s) ==
  RunDone(s) \/ RunClosed(s) \/ RunCritical(s) \/ RunIdle(s) \/ RunProgress(s)
SendStep(p) == Accept(p) \/ GiveUp(p)

Next ==
  \/ \E p \in Publishers, k \in Kinds : PubEnter(p, k)
  \/ \E p \in Workers, k \in Kinds : WorkerEnter(p, k)
  \/ \E p \in Senders : SendStep(p)
  \/ LoopStep
  \/ \E s \in Subs : Subscribe(s) \/ Cleanup(s) \/ RunStep(s) \/ Deliver(s)
  \/ ShutCancel \/ ShutClose \/ ShutReturn

Spec == Init /\ [][Next]_vars

\* The steps of the bus, of whoever is in a send or in Shutdown, and of the
\* persistence worker.  An observer may leave its stream unread for ever.
BusStep ==
  \/ LoopStep \/ ShutClose \/ ShutReturn \/ Deliver(Store)
  \/ \E p \in Senders : SendStep(p)
  \/ \E s \in Subs : RunStep(s)

\* While any of these can be taken, some are.  Events are bounded, so this is
\* all that is needed of the scheduler.
Fairness == WF_vars(BusStep)

FairSpec == Spec /\ Fairness

-----------------------------------------------------------------------------
(* Properties. *)

TypeOK ==
  /\ log \in Seq(Kinds) /\ Len(log) <= MaxEvents
  /\ read \in 0..Len(log) /\ Len(log) - read <= InCap
  /\ todo \in SUBSET Subs /\ listeners \in SUBSET Subs /\ stopped \in SUBSET Subs
  /\ drained \in BOOLEAN
  /\ sending \in [Senders -> Kinds \cup {"no"}]
  /\ shut \in {"no", "cancelled", "closed", "returned"}
  /\ pc \in [Subs -> {"off", "top", "second", "hold", "ended"}]
  /\ \A s \in Subs :
       /\ critical[s] \in Seq(1..read) /\ Len(critical[s]) <= CritCap
       /\ progress[s] \in 0..read /\ held[s] \in 0..read
       /\ held[s] # Nothing <=> pc[s] = "hold"
       /\ delivered[s] \in Seq(1..read)
       /\ since[s] \in 0..read

\* What a subscription has handed out, and what it still will: a run that has
\* ended hands out nothing more.
InHand(s) == IF held[s] = Nothing THEN <<>> ELSE <<held[s]>>
Stream(s) ==
  delivered[s] \o InHand(s) \o IF pc[s] = "ended" THEN <<>> ELSE critical[s]

\* The events of these kinds a subscription has been given by the loop.
Owed(s, kinds) ==
  {i \in since[s] + 1 .. read : log[i] \in kinds /\ ~(i = read /\ s \in todo)}

\* Lifecycle events come before whatever is later in the sequence.
InOrder(seq) ==
  \A i, j \in DOMAIN seq : i < j /\ log[seq[i]] # "progress" => seq[i] < seq[j]

\* "The persistence worker must not lose lifecycle events"
\* (engine_surge.go:192-193): everything InputCh accepted for it is delivered
\* or queued, once and in order, whatever observers and publishers do.
StoreMissesNothing ==
  Store \notin stopped =>
    /\ InOrder(Stream(Store))
    /\ Range(Stream(Store)) = Owed(Store, {"persist"})

\* "Overflowing lifecycle notifications close the stream so the client can
\* resynchronize" (event_bus.go:98-99): the lifecycle events of an observer are
\* in order and have no gap, up to the end of its stream.
ObserverSeesNoGap ==
  \A s \in {o \in Observers : pc[o] # "off"} :
    LET Lifecycle == {i \in Range(Stream(s)) : log[i] # "progress"}
        owed == Owed(s, Kinds \ {"progress"})
    IN /\ \A i, j \in DOMAIN Stream(s) :
            i < j /\ Stream(s)[i] \in Lifecycle /\ Stream(s)[j] \in Lifecycle
              => Stream(s)[i] < Stream(s)[j]
       /\ Lifecycle \subseteq owed
       /\ \A i \in owed, j \in Lifecycle : i < j => i \in Lifecycle
       /\ s \notin stopped => Lifecycle = owed

\* "A lifecycle transition supersedes any still-pending progress frame"
\* (event_subscription.go:74): no progress older than a lifecycle event is
\* handed out after it.
NoStaleProgress ==
  \A s \in Observers :
    LET out == delivered[s] \o InHand(s)
    IN \A i, j \in DOMAIN out :
         i < j /\ log[out[i]] # "progress" /\ log[out[j]] = "progress"
           => out[i] < out[j]

\* Nobody sends on a closed InputCh: pubMu and pubWg order Shutdown after
\* every Publish that passed the check (event_bus.go:75-80, 146-153).
NoSendOnClosed == shut \in {"closed", "returned"} => InSend = {}

\* Shutdown ends although observers never read
\* (TestEventBus_ShutdownDoesNotDeadlockWithBlockedListener).
ShutdownEnds == (shut = "cancelled") ~> (shut = "returned")
=============================================================================
