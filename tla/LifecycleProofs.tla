-------------------------- MODULE LifecycleProofs --------------------------
(***************************************************************************)
(* An accepted download is never lost, and completion wins over a pause,   *)
(* for any numbers of downloads, names, callers, calls, dropped events and *)
(* crashes.                                                                *)
(*                                                                         *)
(* The steps of the model are first put into a few groups, each described  *)
(* by what it may change (Reserves, Enters, Runs, Asks, Begins, Proceeds,  *)
(* Announces, Persists, Recovers); the invariant is then proved from the   *)
(* groups.  IInv says who has a right to a name: a download keeps the name *)
(* it reserved until its removal is applied, and of the two files that may *)
(* stand there one is there and is its own.  So whoever makes, promotes or *)
(* removes a file at a name does it to the file of the download that keeps *)
(* the name.                                                               *)
(*                                                                         *)
(* Two more parts stand on the first: a parked download settles on the     *)
(* checkpoint it was parked with (SInv, CheckpointAlwaysSettles), and a    *)
(* removed one stays removed (RInv, RemovedAlwaysStaysGone).               *)
(***************************************************************************)
EXTENDS Lifecycle, SequenceTheorems, TLAPS

-----------------------------------------------------------------------------
(* Types. *)

Removal == {"cpool", "cwait", "centry", "cpub"}
Resuming == {"extract", "hydrate", "clook", "cload", "add", "rpub"}
Types == {"queued", "started", "complete", "error", "paused", "resumed", "removed"}
Events == [type : Types, id : Ids, lvl : Levels, done : BOOLEAN]
Callers == [pc : {"idle", "plook", "ppub"} \cup Resuming \cup Removal, id : Ids \cup {None},
            lvl : Levels, done : BOOLEAN, found : BOOLEAN]

StoreTyped ==
  /\ row \in [Ids -> Unfinished \cup {None, "completed"}]
  /\ detail \in [Ids -> Levels]
  /\ dest \in [Ids -> 0..Dests]
  /\ surge \in [Names -> Ids \cup {None}] /\ final \in [Names -> Ids \cup {None}]

PoolTyped ==
  /\ entry \in [Ids -> {None, "queued", "active", "paused"}]
  /\ run \in [Ids -> {None, "won", "failed"} \cup Running]
  /\ level \in [Ids -> 0..MaxLevel]
  /\ late \in [Ids -> Events \cup {NoEvent}]
  /\ \A id \in Ids : late[id] # NoEvent => late[id].id = id /\ late[id].type \in {"paused", "error"}
  /\ marked \subseteq Ids

CallsTyped ==
  /\ lock \subseteq Ids
  /\ enq \in [Ids -> {"idle", "reserved", "locked", "row", "added", "done"}]
  /\ user \in [Users -> Callers]
  /\ \A u \in Users :
       /\ user[u].pc # "idle" => user[u].id \in Ids
       /\ user[u].pc \in {"hydrate", "add"} => user[u].lvl \in 0..MaxLevel

EventsTyped ==
  /\ bus \in Seq(Events) /\ Len(bus) <= MaxBus
  /\ pw \in [step : {"idle", "load", "detail", "final", "gc", "files"},
             ev : Events \cup {NoEvent}, lvl : Levels]
  /\ pw.step # "idle" => pw.ev \in Events

BoundsTyped ==
  /\ budget \in [calls : Nat, drops : Nat, crashes : Nat, cancels : [Ids -> 0..MaxCancels]]
  /\ scenario \in Scenarios
  /\ phase \in {"up", "normalise", "validate"}
  /\ kept \subseteq Ids /\ gone \subseteq Ids

Typed == StoreTyped /\ PoolTyped /\ CallsTyped /\ EventsTyped /\ BoundsTyped

\* What the constants are.
LEMMA Constants ==
  /\ None \notin Ids /\ Hls \subseteq Ids
  /\ MaxLevel \in Nat /\ MaxBus \in Nat /\ MaxCancels \in Nat /\ Dests \in Nat
  /\ NoLevel \in Levels /\ 0..MaxLevel \subseteq Levels /\ 0 \in 0..MaxLevel
  /\ NoLevel \notin 0..MaxLevel
BY LifecycleAssumption DEF None, NoLevel, Levels

\* An event of a download.
LEMMA EventIs ==
  ASSUME NEW type \in Types, NEW id \in Ids, NEW lvl \in Levels, NEW done \in BOOLEAN
  PROVE  /\ Event(type, id, lvl, done) \in Events
         /\ Event(type, id, lvl, done).type = type /\ Event(type, id, lvl, done).id = id
         /\ Event(type, id, lvl, done) # NoEvent
<1>1. Event(type, id, lvl, done).type = type /\ Event(type, id, lvl, done).id = id
  BY DEF Event
<1>2. NoEvent.type = None BY DEF NoEvent, Event
<1>3. None \notin Types BY DEF None, Types
<1>4. Event(type, id, lvl, done) \in Events BY DEF Event, Events
<1> QED BY <1>1, <1>2, <1>3, <1>4

\* An event of each type.
LEMMA EventOf ==
  \A id \in Ids, lvl \in Levels, type \in Types :
    /\ Event(type, id, lvl, FALSE) \in Events
    /\ Event(type, id, lvl, FALSE).type = type /\ Event(type, id, lvl, FALSE).id = id
BY DEF Event, Events

\* The types of events.
LEMMA TypesAre ==
  /\ "queued" \in Types /\ "started" \in Types /\ "complete" \in Types /\ "error" \in Types
  /\ "paused" \in Types /\ "resumed" \in Types /\ "removed" \in Types
BY DEF Types

\* The fields of an event.
LEMMA EventFields ==
  ASSUME NEW e \in Events
  PROVE  e.type \in Types /\ e.id \in Ids /\ e.lvl \in Levels /\ e.done \in BOOLEAN /\ e # NoEvent
<1>1. e.type \in Types /\ e.id \in Ids /\ e.lvl \in Levels /\ e.done \in BOOLEAN BY DEF Events
<1>2. NoEvent.type = None BY DEF NoEvent, Event
<1>3. None \notin Types BY DEF None, Types
<1> QED BY <1>1, <1>2, <1>3

\* The fields of a call.
LEMMA CallFields ==
  ASSUME NEW c \in Callers
  PROVE  /\ c.pc \in {"idle", "plook", "ppub"} \cup Resuming \cup Removal
         /\ c.id \in Ids \cup {None} /\ c.lvl \in Levels
         /\ c.done \in BOOLEAN /\ c.found \in BOOLEAN
BY DEF Callers

\* An event at the end of a channel.
LEMMA Appended ==
  ASSUME NEW S, NEW q \in Seq(S), NEW e \in S
  PROVE  /\ Append(q, e) \in Seq(S) /\ Len(Append(q, e)) = Len(q) + 1
         /\ \A i \in 1..Len(q) : Append(q, e)[i] = q[i]
         /\ Append(q, e)[Len(q) + 1] = e
OBVIOUS

\* An event taken from a channel.
LEMMA Taken ==
  ASSUME NEW S, NEW q \in Seq(S), q # <<>>
  PROVE  /\ Head(q) \in S /\ Head(q) = q[1] /\ Len(q) \in Nat \ {0}
         /\ Tail(q) \in Seq(S) /\ Len(Tail(q)) = Len(q) - 1
         /\ \A i \in 1..Len(q) - 1 : Tail(q)[i] = q[i + 1]
OBVIOUS

\* Nothing but an event at the end changes the bus.
Sent(ev) == bus' = bus \/ (bus' = Append(bus, ev) /\ Len(bus) < MaxBus)

\* Only bounds on calls, drops and crashes are used up.
Spends == budget' \in [calls : Nat, drops : Nat, crashes : Nat, cancels : [Ids -> 0..MaxCancels]]
          /\ budget'.cancels = budget.cancels

\* Publish and Send.
LEMMA Sends ==
  ASSUME BoundsTyped, NEW ev, Publish(ev) \/ Send(ev)
  PROVE  Sent(ev) /\ Spends
<1>1. CASE Publish(ev) BY <1>1 DEF Publish, Sent, Spends, BoundsTyped
<1>2. CASE budget.drops > 0 /\ budget' = [budget EXCEPT !.drops = @ - 1] /\ UNCHANGED bus
  <2>1. budget.drops \in Nat /\ budget.drops - 1 \in Nat BY <1>2 DEF BoundsTyped
  <2> QED BY <1>2, <2>1 DEF Sent, Spends, BoundsTyped
<1> QED BY <1>1, <1>2 DEF Send

\* Nothing is sent and nothing used up.
LEMMA SendsNothing ==
  ASSUME BoundsTyped, UNCHANGED <<bus, budget>>, NEW ev
  PROVE  Sent(ev) /\ Spends
BY DEF Sent, Spends, BoundsTyped

\* A bus with one more event, or none.
LEMMA SentBus ==
  ASSUME EventsTyped, NEW ev \in Events, Sent(ev)
  PROVE  /\ bus' \in Seq(Events) /\ Len(bus') <= MaxBus /\ Len(bus) \in Nat
         /\ Len(bus') \in {Len(bus), Len(bus) + 1}
         /\ \A i \in 1..Len(bus) : bus'[i] = bus[i]
         /\ \A i \in 1..Len(bus') : i \in 1..Len(bus) \/ (i = Len(bus) + 1 /\ bus'[i] = ev)
<1>1. bus \in Seq(Events) /\ Len(bus) \in Nat /\ Len(bus) <= MaxBus /\ MaxBus \in Nat
  BY Constants DEF EventsTyped
<1>2. CASE bus' = bus BY <1>1, <1>2
<1>3. CASE bus' = Append(bus, ev) /\ Len(bus) < MaxBus
  <2>1. /\ bus' \in Seq(Events) /\ Len(bus') = Len(bus) + 1
        /\ \A i \in 1..Len(bus) : bus'[i] = bus[i]
        /\ bus'[Len(bus) + 1] = ev
    BY <1>1, <1>3, Appended
  <2>2. \A i \in 1..Len(bus) + 1 : i \in 1..Len(bus) \/ i = Len(bus) + 1 BY <1>1
  <2> QED BY <1>1, <1>3, <2>1, <2>2
<1> QED BY <1>2, <1>3 DEF Sent

\* The downloads start unknown, and nothing is under way.
LEMMA InitTyped == Init => Typed
<1> SUFFICES ASSUME Init PROVE Typed OBVIOUS
<1> USE Constants
<1>1. StoreTyped BY DEF Init, StoreTyped, Levels, Names, None
<1>2. PoolTyped BY DEF Init, PoolTyped, Levels, Running, None
<1>3. IdleUser \in Callers BY DEF IdleUser, Callers
<1>4. CallsTyped BY <1>3 DEF Init, CallsTyped, IdleUser
<1>5. EventsTyped BY DEF Init, EventsTyped, IdlePw
<1>6. BoundsTyped
  <2>1. PICK s \in Scenarios :
          scenario = s /\ budget = [calls |-> s.calls, drops |-> s.drops, crashes |-> MaxCrashes,
                                    cancels |-> [id \in Ids |-> MaxCancels]]
    BY DEF Init
  <2>2. s.calls \in Nat /\ s.drops \in Nat /\ MaxCrashes \in Nat BY LifecycleAssumption
  <2>3. phase = "up" /\ kept = {} /\ gone = {} BY DEF Init
  <2> QED BY <2>1, <2>2, <2>3 DEF BoundsTyped
<1> QED BY <1>1, <1>2, <1>4, <1>5, <1>6 DEF Typed

-----------------------------------------------------------------------------
(* What the steps do. *)

\* A step of the run of one download: it leaves the other downloads alone, owes
\* and sends only events of its own, none of them a removal, and a completion
\* only while it runs; it enters no pool it was not in, and the one file it makes
\* is its own working file under a free name.
Runs(id, ev) ==
  /\ UNCHANGED <<row, dest, final, lock, enq, user, pw, phase, kept, gone>>
  /\ Spends /\ Sent(ev)
  /\ ev \in Events /\ ev.id = id /\ ev.type \in {"started", "complete", "queued", "paused", "error"}
  /\ ev.type = "complete" => run[id] \in Running
  /\ entry[id] # None \/ run[id] # None \/ late[id] # NoEvent
  /\ \A x \in Ids \ {id} : entry'[x] = entry[x] /\ run'[x] = run[x] /\ late'[x] = late[x]
  /\ entry'[id] # None => entry[id] # None
  /\ run'[id] \in Running => run[id] \in Running \/ entry[id] # None
  /\ \/ surge' = surge
     \/ entry[id] # None /\ surge[dest[id]] = None /\ surge' = [surge EXCEPT ![dest[id]] = id]

\* What a run does that owes and sends nothing and touches no file.
Quiet(id) ==
  /\ UNCHANGED <<row, dest, surge, final, lock, enq, user, pw, phase, kept, gone, bus, budget>>
  /\ entry[id] # None \/ run[id] # None \/ late[id] # NoEvent
  /\ \A x \in Ids \ {id} : entry'[x] = entry[x] /\ run'[x] = run[x] /\ late'[x] = late[x]
  /\ entry'[id] # None => entry[id] # None
  /\ run'[id] \in Running => run[id] \in Running

\* A quiet step is a step of the run.
LEMMA QuietRuns ==
  ASSUME BoundsTyped, NEW id \in Ids, Quiet(id)
  PROVE  \E ev : Runs(id, ev)
<1>l. NoLevel \in Levels BY Constants
<1> DEFINE ev == Event("queued", id, NoLevel, FALSE)
<1>1. ev \in Events /\ ev.id = id /\ ev.type = "queued"
  <2>1. ev \in Events BY EventOf, TypesAre, <1>l
  <2>2. ev.id = id /\ ev.type = "queued" BY DEF Event
  <2> QED BY <2>1, <2>2
<1>2. Sent(ev) /\ Spends BY SendsNothing DEF Quiet
<1> HIDE DEF ev
<1>3. Runs(id, ev) BY <1>1, <1>2 DEF Quiet, Runs
<1> QED BY <1>3

\* What a run does that sends one event.
LEMMA SpeaksRuns ==
  ASSUME BoundsTyped, NEW id \in Ids, NEW ev \in Events, Publish(ev) \/ Send(ev),
         ev.id = id, ev.type \in {"started", "complete", "queued", "paused", "error"},
         ev.type = "complete" => run[id] \in Running,
         UNCHANGED <<row, dest, surge, final, lock, enq, user, pw, phase, kept, gone>>,
         entry[id] # None \/ run[id] # None \/ late[id] # NoEvent,
         \A x \in Ids \ {id} : entry'[x] = entry[x] /\ run'[x] = run[x] /\ late'[x] = late[x],
         entry'[id] # None => entry[id] # None,
         run'[id] \in Running => run[id] \in Running \/ entry[id] # None
  PROVE  Runs(id, ev)
<1>1. Sent(ev) /\ Spends BY Sends
<1> QED BY <1>1 DEF Runs

\* A step of a run is what Runs says.
LEMMA RunDoes ==
  ASSUME Typed, NEW id \in Ids, Run(id)
  PROVE  \E ev : Runs(id, ev)
<1> USE DEF SetRun, SetEntry, Owes, RunFrame, disk, calls, ghost, Running
<1>t. /\ entry \in [Ids -> {None, "queued", "active", "paused"}]
      /\ run \in [Ids -> {None, "won", "failed"} \cup Running]
      /\ late \in [Ids -> Events \cup {NoEvent}]
      /\ level[id] \in Levels /\ BoundsTyped
  BY Constants DEF Typed, PoolTyped
<1>n. None = "none" BY DEF None
<1>l. NoLevel \in Levels BY Constants
<1>1. CASE Start(id)
  <2> DEFINE ev == Event("started", id, NoLevel, FALSE)
  <2>1. ev \in Events /\ ev.id = id /\ ev.type = "started"
    <3>1. ev \in Events BY EventOf, TypesAre, <1>l
    <3>2. ev.id = id /\ ev.type = "started" BY DEF Event
    <3> QED BY <3>1, <3>2
  <2>2. /\ UNCHANGED <<row, dest, final, lock, enq, user, pw, phase, kept, gone, late>>
        /\ entry' = [entry EXCEPT ![id] = "active"] /\ run' = [run EXCEPT ![id] = "running"]
        /\ entry[id] = "queued" /\ Send(ev)
        /\ surge' = [surge EXCEPT ![dest[id]] = IF @ = None THEN id ELSE @]
    BY <1>1 DEF Start
  <2>3. Sent(ev) /\ Spends BY <1>t, <2>2, Sends
  <2> HIDE DEF ev
  <2>4. \A x \in Ids \ {id} : entry'[x] = entry[x] /\ run'[x] = run[x] /\ late'[x] = late[x]
    BY <1>t, <2>2
  <2>5. surge \in [Names -> Ids \cup {None}] BY DEF Typed, StoreTyped
  <2>6. \/ surge' = surge
        \/ entry[id] # None /\ surge[dest[id]] = None /\ surge' = [surge EXCEPT ![dest[id]] = id]
    <3>1. CASE surge[dest[id]] = None BY <1>n, <2>2, <3>1
    <3>2. CASE surge[dest[id]] # None BY <2>2, <2>5, <3>2
    <3> QED BY <3>1, <3>2
  <2>7. entry[id] # None BY <1>n, <2>2
  <2>8. Runs(id, ev) BY <2>1, <2>2, <2>3, <2>4, <2>6, <2>7 DEF Runs
  <2> QED BY <2>8
<1>2. CASE Advance(id)
  <2>1. Quiet(id) BY <1>2, <1>t, <1>n DEF Advance, Quiet
  <2> QED BY <1>t, <2>1, QuietRuns
<1>3. CASE Win(id)
  <2> DEFINE ev == Event("complete", id, NoLevel, FALSE)
  <2>1. ev \in Events /\ ev.id = id /\ ev.type = "complete"
    <3>1. ev \in Events BY EventOf, TypesAre, <1>l
    <3>2. ev.id = id /\ ev.type = "complete" BY DEF Event
    <3> QED BY <3>1, <3>2
  <2> HIDE DEF ev
  <2>2. /\ UNCHANGED <<row, dest, surge, final, lock, enq, user, pw, phase, kept, gone, late, entry>>
        /\ run' = [run EXCEPT ![id] = "won"] /\ run[id] \in Running /\ Send(ev)
    BY <1>3 DEF Win, ev
  <2>3. Runs(id, ev) BY <1>t, <1>n, <2>1, <2>2, SpeaksRuns
  <2> QED BY <2>3
<1>4. CASE Retire(id)
  <2>1. Quiet(id) BY <1>4, <1>t, <1>n DEF Retire, Quiet
  <2> QED BY <1>t, <2>1, QuietRuns
<1>5. CASE Fail(id)
  <2>1. Quiet(id) BY <1>5, <1>t, <1>n DEF Fail, Quiet
  <2> QED BY <1>t, <2>1, QuietRuns
<1>6. CASE Detach(id)
  <2>1. Quiet(id) BY <1>6, <1>t, <1>n DEF Detach, Quiet
  <2> QED BY <1>t, <2>1, QuietRuns
<1>7. CASE Requeue(id)
  <2> DEFINE ev == Event("queued", id, NoLevel, FALSE)
  <2>1. ev \in Events /\ ev.id = id /\ ev.type = "queued"
    <3>1. ev \in Events BY EventOf, TypesAre, <1>l
    <3>2. ev.id = id /\ ev.type = "queued" BY DEF Event
    <3> QED BY <3>1, <3>2
  <2> HIDE DEF ev
  <2>2. /\ UNCHANGED <<row, dest, surge, final, lock, enq, user, pw, phase, kept, gone, late>>
        /\ entry' = [entry EXCEPT ![id] = "queued"] /\ run' = [run EXCEPT ![id] = None]
        /\ entry[id] = "active" /\ Send(ev)
    BY <1>7 DEF Requeue, ev
  <2>3. Runs(id, ev) BY <1>t, <1>n, <2>1, <2>2, SpeaksRuns
  <2> QED BY <2>3
<1>8. CASE SavePause(id)
  <2>1. Quiet(id) BY <1>8, <1>t, <1>n DEF SavePause, Quiet
  <2> QED BY <1>t, <2>1, QuietRuns
<1>9. CASE OpenPause(id)
  <2>1. CASE Send(Event("paused", id, level[id], FALSE)) /\ UNCHANGED late
    <3> DEFINE ev == Event("paused", id, level[id], FALSE)
    <3>1. ev \in Events /\ ev.id = id /\ ev.type = "paused"
      <4>1. ev \in Events BY <1>t, EventOf, TypesAre
      <4>2. ev.id = id /\ ev.type = "paused" BY DEF Event
      <4> QED BY <4>1, <4>2
    <3> HIDE DEF ev
    <3>2. /\ UNCHANGED <<row, dest, surge, final, lock, enq, user, pw, phase, kept, gone, late>>
          /\ entry' = [entry EXCEPT ![id] = IF entry[id] = "active" THEN "paused" ELSE entry[id]]
          /\ run' = [run EXCEPT ![id] = None] /\ run[id] = "pausing" /\ Send(ev)
      BY <1>9, <2>1 DEF OpenPause, ev
    <3>3. Runs(id, ev) BY <1>t, <1>n, <3>1, <3>2, SpeaksRuns
    <3> QED BY <3>3
  <2>2. CASE entry[id] = "active" /\ Owes(id, Sparse(id)) /\ UNCHANGED <<bus, budget>>
    <3>1. Quiet(id) BY <1>9, <2>2, <1>t, <1>n DEF OpenPause, Quiet
    <3> QED BY <1>t, <3>1, QuietRuns
  <2> QED BY <1>9, <2>1, <2>2 DEF OpenPause
<1>10. CASE LastLook(id)
  <2>1. Quiet(id) BY <1>10, <1>t, <1>n DEF LastLook, Quiet
  <2> QED BY <1>t, <2>1, QuietRuns
<1>11. CASE SendLate(id)
  <2> DEFINE ev == [late[id] EXCEPT !.done = FALSE]
  <2>1. late[id] \in Events /\ late[id].id = id /\ late[id].type \in {"paused", "error"}
    BY <1>11, <1>t DEF SendLate, Typed, PoolTyped
  <2>2. ev \in Events /\ ev.id = id /\ ev.type \in {"paused", "error"} BY <2>1 DEF Events
  <2> HIDE DEF ev
  <2>3. /\ UNCHANGED <<row, dest, surge, final, lock, enq, user, pw, phase, kept, gone, entry, run>>
        /\ late' = [late EXCEPT ![id] = NoEvent] /\ late[id] # NoEvent /\ Send(ev)
    BY <1>11 DEF SendLate, ev
  <2>4. Runs(id, ev) BY <1>t, <1>n, <2>2, <2>3, SpeaksRuns
  <2> QED BY <2>4
<1>12. CASE Checkpoint(id)
  <2>1. Quiet(id) BY <1>12, <1>t, <1>n DEF Checkpoint, Quiet, pool
  <2> QED BY <1>t, <2>1, QuietRuns
<1>13. CASE Cancelled(id)
  <2>1. Quiet(id) BY <1>13, <1>t, <1>n DEF Cancelled, Quiet
  <2> QED BY <1>t, <2>1, QuietRuns
<1> QED BY <1>1, <1>2, <1>3, <1>4, <1>5, <1>6, <1>7, <1>8, <1>9, <1>10, <1>11, <1>12, <1>13 DEF Run

\* A step of a run keeps the types.
LEMMA RunTyped ==
  ASSUME Typed, NEW id \in Ids, Run(id), scenario' = scenario
  PROVE  Typed'
<1>r. PICK ev : Runs(id, ev) BY RunDoes
<1>p. PoolTyped /\ StoreTyped /\ CallsTyped /\ EventsTyped /\ BoundsTyped BY DEF Typed
<1>1. CallsTyped' BY <1>r, <1>p DEF Runs, CallsTyped
<1>2. EventsTyped'
  <2>1. bus' \in Seq(Events) /\ Len(bus') <= MaxBus BY <1>r, <1>p, SentBus DEF Runs
  <2>2. pw' = pw BY <1>r DEF Runs
  <2> QED BY <1>p, <2>1, <2>2 DEF EventsTyped
<1>3. BoundsTyped' BY <1>r, <1>p DEF Runs, Spends, BoundsTyped
<1>l. /\ level \in [Ids -> 0..MaxLevel] /\ \A n \in 0..MaxLevel : n \in Levels /\ n \in Nat
      /\ \A n \in Nat : n < MaxLevel => n + 1 \in 0..MaxLevel
  BY <1>p, Constants DEF PoolTyped, Levels
<1>4. detail' \in [Ids -> Levels]
  <2>1. detail \in [Ids -> Levels] BY <1>p DEF StoreTyped
  <2>2. detail' \in {detail, [detail EXCEPT ![id] = level[id]]}
    BY DEF Run, Start, Advance, Win, Retire, Fail, Detach, Requeue, SavePause, OpenPause,
       LastLook, SendLate, Checkpoint, Cancelled, disk
  <2>3. level[id] \in Levels BY <1>l
  <2> QED BY <2>1, <2>2, <2>3
<1>5. StoreTyped'
  <2>1. surge \in [Names -> Ids \cup {None}] BY <1>p DEF StoreTyped
  <2>2. surge' \in [Names -> Ids \cup {None}] BY <1>r, <2>1 DEF Runs
  <2> QED BY <1>r, <1>p, <1>4, <2>2 DEF Runs, StoreTyped
<1>6. PoolTyped'
  <2> USE DEF SetRun, SetEntry, Owes, disk
  <2>t. /\ entry \in [Ids -> {None, "queued", "active", "paused"}]
        /\ run \in [Ids -> {None, "won", "failed"} \cup Running]
        /\ late \in [Ids -> Events \cup {NoEvent}]
        /\ \A x \in Ids : late[x] # NoEvent => late[x].id = x /\ late[x].type \in {"paused", "error"}
        /\ marked \subseteq Ids
    BY <1>p DEF PoolTyped
  <2>1. entry' \in [Ids -> {None, "queued", "active", "paused"}]
    <3>1. CASE \E e \in {None, "queued", "active", "paused"} : entry' = [entry EXCEPT ![id] = e]
      BY <2>t, <3>1
    <3>2. CASE Start(id) BY <3>1, <3>2 DEF Start
    <3>3. CASE Retire(id) BY <2>t, <3>1, <3>3 DEF Retire
    <3>4. CASE Detach(id) BY <2>t, <3>1, <3>4 DEF Detach
    <3>5. CASE Requeue(id) BY <3>1, <3>5 DEF Requeue
    <3>6. CASE SavePause(id) BY <3>1, <3>6 DEF SavePause
    <3>7. CASE OpenPause(id) BY <2>t, <3>1, <3>7 DEF OpenPause
    <3>8. CASE Advance(id) \/ Win(id) \/ Fail(id) \/ LastLook(id) \/ SendLate(id)
               \/ Checkpoint(id) \/ Cancelled(id)
      BY <2>t, <3>8 DEF Advance, Win, Fail, LastLook, SendLate, Checkpoint, Cancelled, pool
    <3> QED BY <3>2, <3>3, <3>4, <3>5, <3>6, <3>7, <3>8 DEF Run
  <2>2. run' \in [Ids -> {None, "won", "failed"} \cup Running]
    BY <2>t DEF Run, Start, Advance, Win, Retire, Fail, Detach, Requeue, SavePause, OpenPause,
       LastLook, SendLate, Checkpoint, Cancelled, pool, Running
  <2>3. level' \in [Ids -> 0..MaxLevel]
    <3>1. CASE Advance(id)
      <4>1. level[id] + 1 \in 0..MaxLevel /\ level' = [level EXCEPT ![id] = @ + 1]
        BY <1>l, <3>1 DEF Advance
      <4> QED BY <1>l, <4>1
    <3>2. CASE ~Advance(id)
      <4>1. level' = level
        BY <3>2 DEF Run, Start, Win, Retire, Fail, Detach, Requeue, SavePause, OpenPause,
           LastLook, SendLate, Checkpoint, Cancelled, pool
      <4> QED BY <1>l, <4>1
    <3> QED BY <3>1, <3>2
  <2>4. marked' \subseteq Ids
    BY <2>t DEF Run, Start, Advance, Win, Retire, Fail, Detach, Requeue, SavePause, OpenPause,
       LastLook, SendLate, Checkpoint, Cancelled, pool
  <2>5. /\ late' \in [Ids -> Events \cup {NoEvent}]
        /\ \A x \in Ids : late'[x] # NoEvent => late'[x].id = x /\ late'[x].type \in {"paused", "error"}
    <3>0. ASSUME NEW e, e \in Events \cup {NoEvent}, late' = [late EXCEPT ![id] = e],
                 e # NoEvent => e.id = id /\ e.type \in {"paused", "error"}
          PROVE  /\ late' \in [Ids -> Events \cup {NoEvent}]
                 /\ \A x \in Ids : late'[x] # NoEvent => late'[x].id = x /\ late'[x].type \in {"paused", "error"}
      BY <2>t, <3>0
    <3>l. NoLevel \in Levels /\ level[id] \in Levels BY Constants, <1>l
    <3>1. CASE Detach(id) /\ late' # late
      <4>1. PICK lvl \in Levels : late' = [late EXCEPT ![id] = Event("error", id, lvl, FALSE)]
        BY <3>1, <3>l DEF Detach
      <4>2. Event("error", id, lvl, FALSE) \in Events BY EventOf, TypesAre
      <4>3. Event("error", id, lvl, FALSE).id = id /\ Event("error", id, lvl, FALSE).type = "error"
        BY DEF Event
      <4> QED BY <3>0, <4>1, <4>2, <4>3
    <3>2. CASE (SavePause(id) \/ OpenPause(id)) /\ late' # late
      <4>1. PICK lvl \in Levels : late' = [late EXCEPT ![id] = Event("paused", id, lvl, FALSE)]
        BY <3>2, <3>l DEF SavePause, OpenPause, Sparse
      <4>2. Event("paused", id, lvl, FALSE) \in Events BY EventOf, TypesAre
      <4>3. Event("paused", id, lvl, FALSE).id = id /\ Event("paused", id, lvl, FALSE).type = "paused"
        BY DEF Event
      <4> QED BY <3>0, <4>1, <4>2, <4>3
    <3>3. CASE LastLook(id)
      <4>1. late[id] \in Events BY <2>t, <3>3 DEF LastLook
      <4>2. [late[id] EXCEPT !.done = TRUE] \in Events BY <4>1 DEF Events
      <4>3. /\ [late[id] EXCEPT !.done = TRUE].id = late[id].id
            /\ [late[id] EXCEPT !.done = TRUE].type = late[id].type
        BY <4>1 DEF Events
      <4>4. CASE id \in marked
        <5>1. late' = [late EXCEPT ![id] = NoEvent] BY <3>3, <4>4 DEF LastLook
        <5> QED BY <3>0, <5>1
      <4>5. CASE id \notin marked
        <5>1. late' = [late EXCEPT ![id] = [late[id] EXCEPT !.done = TRUE]] BY <3>3, <4>5 DEF LastLook
        <5>2. late[id].id = id /\ late[id].type \in {"paused", "error"} BY <2>t, <3>3 DEF LastLook
        <5> QED BY <3>0, <4>2, <4>3, <5>1, <5>2
      <4> QED BY <4>4, <4>5
    <3>4. CASE SendLate(id)
      <4>1. late' = [late EXCEPT ![id] = NoEvent] BY <3>4 DEF SendLate
      <4> QED BY <3>0, <4>1
    <3>5. CASE late' = late BY <2>t, <3>5
    <3>6. \/ Detach(id) \/ SavePause(id) \/ OpenPause(id) \/ LastLook(id) \/ SendLate(id)
          \/ late' = late
      BY DEF Run, Start, Advance, Win, Retire, Fail, Requeue, Checkpoint, Cancelled, pool
    <3> QED BY <3>1, <3>2, <3>3, <3>4, <3>5, <3>6
  <2> QED BY <2>1, <2>2, <2>3, <2>4, <2>5 DEF PoolTyped
<1> QED BY <1>1, <1>2, <1>3, <1>5, <1>6 DEF Typed

\* A step of a pause or a resume of one download: it leaves the store, the files
\* and the other downloads alone, sends no more than a pause or a resumption, and
\* puts a download in the pool only at the end of a resume.
Asks(u, x, ev) ==
  /\ UNCHANGED <<row, detail, dest, surge, final, late, marked, lock, enq, pw, phase, kept>>
  /\ Spends /\ Sent(ev) /\ ev \in Events /\ ev.id = x /\ ev.type \in {"paused", "resumed"}
  /\ x \in Ids /\ (enq[x] = "done" \/ (user[u].pc # "idle" /\ user[u].id = x))
  /\ user' \in [Users -> Callers] /\ \A v \in Users \ {u} : user'[v] = user[v]
  /\ user[u].pc \notin Removal /\ user'[u].pc \notin Removal
  /\ user'[u].pc # "idle" => user'[u].id = x
  /\ user'[u].pc \in Resuming => user[u].pc \in Resuming \/ "resume" \in scenario.ops
  /\ user'[u].pc \in {"hydrate", "add"} => user'[u].lvl \in 0..MaxLevel
  /\ entry' \in [Ids -> {None, "queued", "active", "paused"}]
  /\ run' \in [Ids -> {None, "won", "failed"} \cup Running]
  /\ level' \in [Ids -> 0..MaxLevel]
  /\ \A y \in Ids \ {x} : entry'[y] = entry[y] /\ run'[y] = run[y]
  /\ entry'[x] # None => entry[x] # None \/ user[u].pc = "add"
  /\ run'[x] \in Running => run[x] \in Running
  /\ run'[x] # None => run[x] # None
  /\ gone' \subseteq gone

\* A step that sends nothing, and a step that only moves the call.
AsksQuietly(u, x) ==
  /\ UNCHANGED <<row, detail, dest, surge, final, late, marked, lock, enq, pw, phase, kept, bus>>
  /\ Spends
  /\ x \in Ids /\ (enq[x] = "done" \/ (user[u].pc # "idle" /\ user[u].id = x))
  /\ user' \in [Users -> Callers] /\ \A v \in Users \ {u} : user'[v] = user[v]
  /\ user[u].pc \notin Removal /\ user'[u].pc \notin Removal
  /\ user'[u].pc # "idle" => user'[u].id = x
  /\ user'[u].pc \in Resuming => user[u].pc \in Resuming \/ "resume" \in scenario.ops
  /\ user'[u].pc \in {"hydrate", "add"} => user'[u].lvl \in 0..MaxLevel

\* A step of Pause or Resume that sends nothing.
LEMMA AsksNothing ==
  ASSUME Typed, NEW u \in Users, NEW x \in Ids, AsksQuietly(u, x),
         \/ UNCHANGED <<entry, run, level>> /\ gone' \subseteq gone
         \/ /\ \E e \in {None, "queued"} : entry' = [entry EXCEPT ![x] = e] /\ (e # None => user[u].pc = "add")
            /\ UNCHANGED run /\ gone' \subseteq gone
            /\ \E l \in 0..MaxLevel : level' \in {level, [level EXCEPT ![x] = l]}
         \/ run' = [run EXCEPT ![x] = "pausing"] /\ run[x] = "running" /\ UNCHANGED <<entry, level, gone>>
  PROVE  \E ev : Asks(u, x, ev)
<1>l. NoLevel \in Levels BY Constants
<1> DEFINE ev == Event("paused", x, NoLevel, FALSE)
<1>1. ev \in Events /\ ev.id = x /\ ev.type = "paused"
  <2>1. ev \in Events BY EventOf, TypesAre, <1>l
  <2>2. ev.id = x /\ ev.type = "paused" BY DEF Event
  <2> QED BY <2>1, <2>2
<1>2. Sent(ev) BY DEF AsksQuietly, Sent
<1> HIDE DEF ev
<1>t. /\ entry \in [Ids -> {None, "queued", "active", "paused"}]
      /\ run \in [Ids -> {None, "won", "failed"} \cup Running]
      /\ level \in [Ids -> 0..MaxLevel]
  BY DEF Typed, PoolTyped
<1>3. /\ entry' \in [Ids -> {None, "queued", "active", "paused"}]
      /\ \A y \in Ids \ {x} : entry'[y] = entry[y]
      /\ entry'[x] # None => entry[x] # None \/ user[u].pc = "add"
  BY <1>t
<1>4. /\ run' \in [Ids -> {None, "won", "failed"} \cup Running]
      /\ \A y \in Ids \ {x} : run'[y] = run[y]
      /\ run'[x] \in Running => run[x] \in Running
      /\ run'[x] # None => run[x] # None
  BY <1>t DEF Running, None
<1>5. level' \in [Ids -> 0..MaxLevel] BY <1>t
<1>6. gone' \subseteq gone OBVIOUS
<1>7. Asks(u, x, ev) BY <1>1, <1>2, <1>3, <1>4, <1>5, <1>6 DEF AsksQuietly, Asks
<1> QED BY <1>7

\* A call at another place of its code.
LEMMA Moves ==
  ASSUME user \in [Users -> Callers], NEW u \in Users, NEW c \in Callers,
         user' = [user EXCEPT ![u] = c]
  PROVE  user' \in [Users -> Callers] /\ user'[u] = c /\ \A v \in Users \ {u} : user'[v] = user[v]
OBVIOUS

\* Where a call may stand, and with what.
LEMMA CallIs ==
  ASSUME NEW c \in Callers, NEW pc \in {"idle", "plook", "ppub"} \cup Resuming \cup Removal,
         NEW lvl \in Levels
  PROVE  /\ [c EXCEPT !.pc = pc] \in Callers
         /\ [c EXCEPT !.pc = pc, !.lvl = lvl] \in Callers
         /\ [c EXCEPT !.pc = pc].pc = pc /\ [c EXCEPT !.pc = pc].id = c.id
         /\ [c EXCEPT !.pc = pc, !.lvl = lvl].pc = pc /\ [c EXCEPT !.pc = pc, !.lvl = lvl].id = c.id
         /\ [c EXCEPT !.pc = pc, !.lvl = lvl].lvl = lvl
BY DEF Callers

\* A call that begins.
LEMMA IdleIs ==
  ASSUME NEW pc \in {"idle", "plook", "ppub"} \cup Resuming \cup Removal, NEW id \in Ids \cup {None}
  PROVE  /\ IdleUser \in Callers /\ IdleUser.pc = "idle" /\ IdleUser.id = None
         /\ [IdleUser EXCEPT !.pc = pc, !.id = id] \in Callers
         /\ [IdleUser EXCEPT !.pc = pc, !.id = id].pc = pc
         /\ [IdleUser EXCEPT !.pc = pc, !.id = id].id = id
BY Constants DEF IdleUser, Callers

\* The steps of a call use up no removals.
LEMMA SpendCalls ==
  ASSUME BoundsTyped, budget' = [budget EXCEPT !.calls = @ - 1], budget.calls > 0
  PROVE  Spends
<1>1. budget.calls \in Nat BY DEF BoundsTyped
<1>2. budget.calls - 1 \in Nat BY <1>1
<1> QED BY <1>2 DEF BoundsTyped, Spends

\* A step of a call that has begun, and is neither a removal nor its last one.
LEMMA OnlyMoves ==
  ASSUME Typed, NEW u \in Users, NEW c \in Callers, user' = [user EXCEPT ![u] = c],
         user[u].pc \notin Removal \cup {"idle"}, c.pc \notin Removal,
         c.pc # "idle" => c.id = user[u].id,
         c.pc \in Resuming => user[u].pc \in Resuming,
         c.pc \in {"hydrate", "add"} => c.lvl \in 0..MaxLevel,
         UNCHANGED <<row, marked, lock, bus, budget>>, UserFrame
  PROVE  AsksQuietly(u, user[u].id)
<1>1. user[u].id \in Ids /\ user \in [Users -> Callers] /\ BoundsTyped BY DEF Typed, CallsTyped
<1>2. user' \in [Users -> Callers] /\ user'[u] = c /\ \A v \in Users \ {u} : user'[v] = user[v]
  BY <1>1, Moves
<1>3. Spends BY <1>1 DEF Spends, BoundsTyped
<1> QED BY <1>1, <1>2, <1>3 DEF AsksQuietly, UserFrame

\* A call that begins, and is not a removal.
LEMMA OnlyBegins ==
  ASSUME Typed, NEW u \in Users, NEW x \in Ids, NEW c \in Callers, user' = [user EXCEPT ![u] = c],
         user[u].pc = "idle", enq[x] = "done", budget.calls > 0,
         c.pc \in {"idle", "plook", "ppub", "extract"}, c.pc # "idle" => c.id = x,
         c.pc = "extract" => "resume" \in scenario.ops,
         budget' = [budget EXCEPT !.calls = @ - 1],
         UNCHANGED <<row, marked, lock, bus>>, UserFrame
  PROVE  AsksQuietly(u, x)
<1>1. user \in [Users -> Callers] /\ BoundsTyped BY DEF Typed, CallsTyped
<1>2. user' \in [Users -> Callers] /\ user'[u] = c /\ \A v \in Users \ {u} : user'[v] = user[v]
  BY <1>1, Moves
<1>3. Spends BY <1>1, SpendCalls
<1>4. c.pc \notin Removal /\ user[u].pc \notin Removal BY DEF Removal
<1>5. c.pc \in Resuming => "resume" \in scenario.ops BY DEF Resuming
<1> QED BY <1>1, <1>2, <1>3, <1>4, <1>5 DEF AsksQuietly, UserFrame

\* Pause and Resume.
Asking(u) ==
  \/ \E id \in Ids : PauseCall(u, id) \/ ResumeCall(u, id)
  \/ PauseLook(u) \/ PausePublish(u)
  \/ Extract(u) \/ Hydrate(u) \/ ColdLook(u) \/ ColdLoad(u) \/ Add(u) \/ ResumePublish(u)

\* The first steps of Pause and Resume.
LEMMA CallDoes ==
  ASSUME Typed, NEW u \in Users, NEW x \in Ids, PauseCall(u, x) \/ ResumeCall(u, x)
  PROVE  \E ev : Asks(u, x, ev)
<1>n. None \in Ids \cup {None} /\ x \in Ids \cup {None} OBVIOUS
<1>1. user[u].pc = "idle" /\ enq[x] = "done" /\ budget.calls > 0
  BY DEF PauseCall, ResumeCall, Call
<1>2. CASE PauseCall(u, x) /\ entry[x] = "queued" /\ SetEntry(x, None) /\ UNCHANGED run /\ Spend(u, x, "ppub")
  <2> DEFINE c == [IdleUser EXCEPT !.pc = "ppub", !.id = x]
  <2>1. c \in Callers /\ c.pc = "ppub" /\ c.id = x BY <1>n, IdleIs
  <2>2. user' = [user EXCEPT ![u] = c] /\ budget' = [budget EXCEPT !.calls = @ - 1] BY <1>2 DEF Spend
  <2> HIDE DEF c
  <2>3. UNCHANGED <<row, marked, lock, bus, level, gone>> /\ UserFrame BY <1>2 DEF PauseCall
  <2>4. AsksQuietly(u, x) BY <1>1, <2>1, <2>2, <2>3, OnlyBegins
  <2>5. entry' = [entry EXCEPT ![x] = None] /\ UNCHANGED run BY <1>2 DEF SetEntry
  <2>6. \E e \in {None, "queued"} : entry' = [entry EXCEPT ![x] = e] /\ (e # None => user[u].pc = "add")
    BY <2>5
  <2>7. \E l \in 0..MaxLevel : level' \in {level, [level EXCEPT ![x] = l]} BY <2>3, Constants
  <2> QED BY <2>3, <2>4, <2>5, <2>6, <2>7, AsksNothing
<1>3. CASE /\ PauseCall(u, x) /\ entry[x] = "active" /\ run[x] = "running" /\ SetRun(x, "pausing")
           /\ UNCHANGED entry /\ Spend(u, None, "idle")
  <2> DEFINE c == [IdleUser EXCEPT !.pc = "idle", !.id = None]
  <2>1. c \in Callers /\ c.pc = "idle" BY <1>n, IdleIs
  <2>2. user' = [user EXCEPT ![u] = c] /\ budget' = [budget EXCEPT !.calls = @ - 1] BY <1>3 DEF Spend
  <2> HIDE DEF c
  <2>3. UNCHANGED <<row, marked, lock, bus, level, gone>> /\ UserFrame BY <1>3 DEF PauseCall
  <2>4. AsksQuietly(u, x) BY <1>1, <2>1, <2>2, <2>3, OnlyBegins
  <2>5. run' = [run EXCEPT ![x] = "pausing"] /\ UNCHANGED entry BY <1>3 DEF SetRun
  <2> QED BY <1>3, <2>3, <2>4, <2>5, AsksNothing
<1>4. CASE PauseCall(u, x) /\ entry[x] = None /\ UNCHANGED <<entry, run>> /\ Spend(u, x, "plook")
  <2> DEFINE c == [IdleUser EXCEPT !.pc = "plook", !.id = x]
  <2>1. c \in Callers /\ c.pc = "plook" /\ c.id = x BY <1>n, IdleIs
  <2>2. user' = [user EXCEPT ![u] = c] /\ budget' = [budget EXCEPT !.calls = @ - 1] BY <1>4 DEF Spend
  <2> HIDE DEF c
  <2>3. UNCHANGED <<row, marked, lock, bus, level, gone>> /\ UserFrame BY <1>4 DEF PauseCall
  <2>4. AsksQuietly(u, x) BY <1>1, <2>1, <2>2, <2>3, OnlyBegins
  <2> QED BY <1>4, <2>3, <2>4, AsksNothing
<1>5. CASE ResumeCall(u, x)
  <2> DEFINE c == [IdleUser EXCEPT !.pc = "extract", !.id = x]
  <2>1. c \in Callers /\ c.pc = "extract" /\ c.id = x BY <1>n, IdleIs DEF Resuming
  <2>2. user' = [user EXCEPT ![u] = c] /\ budget' = [budget EXCEPT !.calls = @ - 1]
    BY <1>5 DEF ResumeCall, Spend
  <2> HIDE DEF c
  <2>3. UNCHANGED <<row, entry, run, marked, lock, bus, level, gone>> /\ UserFrame BY <1>5 DEF ResumeCall
  <2>4. "resume" \in scenario.ops BY <1>5 DEF ResumeCall, Call
  <2>5. AsksQuietly(u, x) BY <1>1, <2>1, <2>2, <2>3, <2>4, OnlyBegins
  <2> QED BY <2>3, <2>5, AsksNothing
<1> QED BY <1>2, <1>3, <1>4, <1>5 DEF PauseCall

\* A call that publishes and returns.
LEMMA PublishDoes ==
  ASSUME Typed, NEW u \in Users, PausePublish(u) \/ ResumePublish(u)
  PROVE  \E ev : Asks(u, user[u].id, ev)
<1> DEFINE x == user[u].id
           ev == IF PausePublish(u) THEN Sparse(x) ELSE Event("resumed", x, NoLevel, FALSE)
<1>1. user[u].pc \in {"ppub", "rpub"} /\ user[u].pc \notin Removal \cup {"idle"}
  BY DEF PausePublish, ResumePublish, Removal
<1>2. x \in Ids /\ user \in [Users -> Callers] /\ BoundsTyped BY <1>1 DEF Typed, CallsTyped
<1>l. NoLevel \in Levels BY Constants
<1>3. ev \in Events /\ ev.id = x /\ ev.type \in {"paused", "resumed"}
  <2>1. ev \in Events BY <1>2, EventOf, TypesAre, <1>l DEF Sparse
  <2>2. ev.id = x /\ ev.type \in {"paused", "resumed"} BY DEF Event, Sparse
  <2> QED BY <2>1, <2>2
<1>4. Publish(ev) BY DEF PausePublish, ResumePublish
<1> HIDE DEF ev
<1>5. Sent(ev) /\ Spends BY <1>2, <1>4, Sends
<1>6. user' = [user EXCEPT ![u] = IdleUser] /\ UNCHANGED <<row, entry, run, level, marked, lock, gone>>
      /\ UserFrame
  BY DEF PausePublish, ResumePublish, Return
<1>7. user' \in [Users -> Callers] /\ user'[u].pc = "idle" /\ \A v \in Users \ {u} : user'[v] = user[v]
  BY <1>2, <1>6, IdleIs, Moves
<1>8. /\ entry \in [Ids -> {None, "queued", "active", "paused"}]
      /\ run \in [Ids -> {None, "won", "failed"} \cup Running]
      /\ level \in [Ids -> 0..MaxLevel]
  BY DEF Typed, PoolTyped
<1>9. "idle" \notin Removal /\ "idle" \notin Resuming BY DEF Removal, Resuming
<1>10. Asks(u, x, ev) BY <1>1, <1>2, <1>3, <1>5, <1>6, <1>7, <1>8, <1>9 DEF Asks, UserFrame
<1> QED BY <1>10

\* The other steps of Pause and Resume.
LEMMA AskDoes ==
  ASSUME Typed, NEW u \in Users, Asking(u)
  PROVE  \E x, ev : Asks(u, x, ev)
<1> DEFINE x == user[u].id
<1>i. IdleUser \in Callers /\ IdleUser.pc = "idle" BY IdleIs
<1>c. user[u] \in Callers /\ user[u].lvl \in Levels BY CallFields DEF Typed, CallsTyped
<1>p. /\ {"plook", "ppub", "idle", "hydrate", "clook", "cload", "add", "rpub"}
           \subseteq {"idle", "plook", "ppub"} \cup Resuming \cup Removal
      /\ {"extract", "hydrate", "clook", "cload", "add", "rpub"} = Resuming
      /\ Resuming \cap (Removal \cup {"idle"}) = {}
      /\ "plook" \notin Removal \cup {"idle"} \cup Resuming /\ "ppub" \notin Removal \cup Resuming
      /\ "idle" \notin Resuming \cup Removal
  BY DEF Resuming, Removal
<1>d. user[u].pc # "idle" => x \in Ids BY DEF Typed, CallsTyped
<1>m. ASSUME NEW pc \in {"idle", "plook", "ppub"} \cup Resuming \cup Removal, Goto(u, pc)
      PROVE  /\ user' = [user EXCEPT ![u] = [user[u] EXCEPT !.pc = pc]]
             /\ [user[u] EXCEPT !.pc = pc] \in Callers
             /\ [user[u] EXCEPT !.pc = pc].pc = pc /\ [user[u] EXCEPT !.pc = pc].id = x
  <2>1. NoLevel \in Levels BY Constants
  <2> QED BY <1>m, <1>c, <2>1, CallIs DEF Goto
<1>e. ASSUME AsksQuietly(u, x), x \in Ids, UNCHANGED <<entry, run, level, gone>>
      PROVE  \E y, ev : Asks(u, y, ev)
  BY <1>e, AsksNothing
<1>g. ASSUME NEW pc \in {"ppub", "cload", "clook", "rpub"}, Goto(u, pc), x \in Ids,
             user[u].pc \notin Removal \cup {"idle"},
             pc \in Resuming => user[u].pc \in Resuming,
             UNCHANGED <<row, marked, lock, bus, budget>>, UserFrame
      PROVE  AsksQuietly(u, x)
  <2> DEFINE c == [user[u] EXCEPT !.pc = pc]
  <2>1. pc \in {"idle", "plook", "ppub"} \cup Resuming \cup Removal /\ pc \notin Removal BY <1>p
  <2>2. user' = [user EXCEPT ![u] = c] /\ c \in Callers /\ c.pc = pc /\ c.id = x
    BY <1>g, <1>m, <2>1
  <2> HIDE DEF c
  <2> QED BY <1>g, <2>1, <2>2, OnlyMoves
<1>r. ASSUME user' = [user EXCEPT ![u] = IdleUser], x \in Ids,
             user[u].pc \notin Removal \cup {"idle"},
             UNCHANGED <<row, marked, lock, bus, budget>>, UserFrame
      PROVE  AsksQuietly(u, x)
  <2>1. /\ IdleUser.pc \notin Removal /\ IdleUser.pc \notin Resuming
        /\ IdleUser.pc \notin {"hydrate", "add"}
    BY <1>i, <1>p
  <2> QED BY <1>r, <1>i, <2>1, OnlyMoves
<1>1. CASE \E y \in Ids : PauseCall(u, y) \/ ResumeCall(u, y) BY <1>1, CallDoes
<1>2. CASE PauseLook(u)
  <2>1. user[u].pc = "plook" /\ UNCHANGED <<row, entry, run, level, marked, lock, bus, budget, gone>>
        /\ UserFrame /\ (Goto(u, "ppub") \/ user' = [user EXCEPT ![u] = IdleUser])
    BY <1>2 DEF PauseLook, Return
  <2>2. AsksQuietly(u, x)
    <3>1. CASE Goto(u, "ppub") BY <2>1, <3>1, <1>p, <1>d, <1>g
    <3>2. CASE user' = [user EXCEPT ![u] = IdleUser] BY <2>1, <3>2, <1>p, <1>d, <1>r
    <3> QED BY <2>1, <3>1, <3>2
  <2> QED BY <1>d, <1>e, <2>1, <2>2
<1>3. CASE PausePublish(u) \/ ResumePublish(u) BY <1>3, PublishDoes
<1>4. CASE ColdLook(u)
  <2>1. user[u].pc = "clook" /\ UNCHANGED <<row, entry, run, level, marked, lock, bus, budget, gone>>
        /\ UserFrame /\ (Goto(u, "cload") \/ user' = [user EXCEPT ![u] = IdleUser])
    BY <1>4 DEF ColdLook, Return
  <2>2. AsksQuietly(u, x)
    <3>1. CASE Goto(u, "cload") BY <2>1, <3>1, <1>p, <1>d, <1>g
    <3>2. CASE user' = [user EXCEPT ![u] = IdleUser] BY <2>1, <3>2, <1>p, <1>d, <1>r
    <3> QED BY <2>1, <3>1, <3>2
  <2> QED BY <1>d, <1>e, <1>p, <2>1, <2>2
<1>5. ASSUME NEW lvl \in 0..MaxLevel, user[u].pc \in {"extract", "hydrate", "cload"},
             NEW pc \in {"hydrate", "add"},
             user' = [user EXCEPT ![u] = [user[u] EXCEPT !.pc = pc, !.lvl = lvl]],
             UNCHANGED <<row, marked, lock, bus, budget>>, UserFrame
      PROVE  AsksQuietly(u, x)
  <2>1. lvl \in Levels BY Constants
  <2> DEFINE c == [user[u] EXCEPT !.pc = pc, !.lvl = lvl]
  <2>0. pc \in {"idle", "plook", "ppub"} \cup Resuming \cup Removal BY <1>p
  <2>2. c \in Callers /\ c.pc = pc /\ c.id = x /\ c.lvl = lvl
    <3>1. user[u] \in Callers BY <1>c
    <3> DEFINE d == user[u]
    <3>2. d \in Callers BY <3>1
    <3> HIDE DEF d
    <3>3. /\ [d EXCEPT !.pc = pc, !.lvl = lvl] \in Callers
          /\ [d EXCEPT !.pc = pc, !.lvl = lvl].pc = pc /\ [d EXCEPT !.pc = pc, !.lvl = lvl].id = d.id
          /\ [d EXCEPT !.pc = pc, !.lvl = lvl].lvl = lvl
      BY <3>2, <2>0, <2>1 DEF Callers
    <3> QED BY <3>3 DEF d
  <2> HIDE DEF c
  <2>3. user' = [user EXCEPT ![u] = c] BY <1>5 DEF c
  <2> QED BY <1>5, <1>p, <2>2, <2>3, OnlyMoves
<1>s. \A y \in Ids : Saved(y) # NoLevel => Saved(y) \in 0..MaxLevel
  <2>1. detail \in [Ids -> Levels] /\ \A n \in Levels : n # NoLevel => n \in 0..MaxLevel
    BY LifecycleAssumption DEF Typed, StoreTyped, Levels, NoLevel
  <2> QED BY <2>1 DEF Saved
<1>6. CASE Hydrate(u)
  <2>1. x \in Ids /\ user[u].pc = "hydrate" /\ user[u].lvl \in 0..MaxLevel
    BY <1>6 DEF Hydrate, Typed, CallsTyped
  <2> DEFINE l == IF Saved(x) = NoLevel THEN user[u].lvl ELSE Saved(x)
  <2>2. l \in 0..MaxLevel BY <1>s, <2>1
  <2>3. user' = [user EXCEPT ![u] = [user[u] EXCEPT !.pc = "add", !.lvl = l]]
        /\ UNCHANGED <<row, entry, run, level, marked, lock, bus, budget, gone>> /\ UserFrame
    BY <1>6 DEF Hydrate
  <2> HIDE DEF l
  <2>4. AsksQuietly(u, x) BY <1>5, <2>1, <2>2, <2>3
  <2> QED BY <1>e, <2>1, <2>3, <2>4
<1>7. CASE ColdLoad(u)
  <2>1. x \in Ids /\ user[u].pc = "cload" BY <1>7 DEF ColdLoad, Typed, CallsTyped
  <2> DEFINE l == IF Saved(x) = NoLevel THEN 0 ELSE Saved(x)
  <2>2. l \in 0..MaxLevel BY <1>s, <2>1, Constants
  <2>3. user' = [user EXCEPT ![u] = [user[u] EXCEPT !.pc = "add", !.lvl = l]]
        /\ UNCHANGED <<row, entry, run, level, marked, lock, bus, budget, gone>> /\ UserFrame
    BY <1>7 DEF ColdLoad
  <2> HIDE DEF l
  <2>4. AsksQuietly(u, x) BY <1>5, <2>1, <2>2, <2>3
  <2> QED BY <1>e, <2>1, <2>3, <2>4
<1>8. CASE Extract(u)
  <2>1. x \in Ids /\ user[u].pc = "extract" /\ level[x] \in 0..MaxLevel
    BY <1>8 DEF Extract, Typed, CallsTyped, PoolTyped
  <2>2. UNCHANGED <<row, run, level, marked, lock, bus, budget, gone>> /\ UserFrame
    BY <1>8 DEF Extract
  <2>3. CASE entry[x] = "paused"
    <3>1. entry' = [entry EXCEPT ![x] = None]
          /\ user' = [user EXCEPT ![u] = [user[u] EXCEPT !.pc = "hydrate", !.lvl = level[x]]]
      BY <1>8, <2>3 DEF Extract, SetEntry
    <3>2. AsksQuietly(u, x) BY <1>5, <2>1, <2>2, <3>1
    <3> QED BY <2>1, <2>2, <3>1, <3>2, AsksNothing
  <2>4. CASE entry[x] # "paused"
    <3>1. Goto(u, "clook") /\ UNCHANGED entry BY <1>8, <2>4 DEF Extract
    <3>2. AsksQuietly(u, x) BY <2>1, <2>2, <3>1, <1>p, <1>d, <1>g
    <3> QED BY <1>e, <2>1, <2>2, <3>1, <3>2
  <2> QED BY <2>3, <2>4
<1>9. CASE Add(u)
  <2>1. x \in Ids /\ user[u].pc = "add" /\ user[u].lvl \in 0..MaxLevel
    BY <1>9 DEF Add, Typed, CallsTyped
  <2>2. UNCHANGED <<row, run, marked, lock, bus, budget>> /\ UserFrame
    BY <1>9 DEF Add
  <2>3. CASE entry[x] = None
    <3>1. entry' = [entry EXCEPT ![x] = "queued"] /\ level' = [level EXCEPT ![x] = user[u].lvl]
          /\ gone' = gone \ {x} /\ Goto(u, "rpub")
      BY <1>9, <2>3 DEF Add, SetEntry
    <3>2. AsksQuietly(u, x) BY <2>1, <2>2, <3>1, <1>p, <1>d, <1>g
    <3> QED BY <2>1, <2>2, <3>1, <3>2, AsksNothing
  <2>4. CASE entry[x] # None
    <3>1. user' = [user EXCEPT ![u] = IdleUser] /\ UNCHANGED <<entry, level, gone>>
      BY <1>9, <2>4 DEF Add, Return
    <3>2. AsksQuietly(u, x) BY <2>1, <2>2, <3>1, <1>p, <1>d, <1>r
    <3> QED BY <1>e, <2>1, <2>2, <3>1, <3>2
  <2> QED BY <2>3, <2>4
<1> QED BY <1>1, <1>2, <1>3, <1>4, <1>6, <1>7, <1>8, <1>9 DEF Asking

\* A step of Pause or Resume keeps the types.
LEMMA AskTyped ==
  ASSUME Typed, NEW u \in Users, NEW x, NEW ev, Asks(u, x, ev), scenario' = scenario
  PROVE  Typed'
<1>p. PoolTyped /\ StoreTyped /\ CallsTyped /\ EventsTyped /\ BoundsTyped BY DEF Typed
<1>1. StoreTyped' BY <1>p DEF Asks, StoreTyped
<1>2. PoolTyped' BY <1>p DEF Asks, PoolTyped
<1>3. CallsTyped'
  <2>1. user' \in [Users -> Callers] /\ UNCHANGED <<lock, enq>> BY DEF Asks
  <2>2. \A v \in Users : /\ user'[v].pc # "idle" => user'[v].id \in Ids
                         /\ user'[v].pc \in {"hydrate", "add"} => user'[v].lvl \in 0..MaxLevel
    BY <1>p DEF Asks, CallsTyped
  <2> QED BY <1>p, <2>1, <2>2 DEF CallsTyped
<1>4. EventsTyped'
  <2>1. bus' \in Seq(Events) /\ Len(bus') <= MaxBus BY <1>p, SentBus DEF Asks
  <2> QED BY <1>p, <2>1 DEF Asks, EventsTyped
<1>5. BoundsTyped' BY <1>p DEF Asks, Spends, BoundsTyped
<1> QED BY <1>1, <1>2, <1>3, <1>4, <1>5 DEF Typed

\* A removal begins: the last of the calls it may make, and nobody counts on the
\* download any more.
Begins(u, x) ==
  /\ UNCHANGED <<row, detail, dest, surge, final, entry, run, level, late, marked, enq, bus, pw,
                 phase, gone>>
  /\ x \in Ids /\ enq[x] = "done" /\ user[u].pc = "idle" /\ budget.cancels[x] > 0
  /\ "cancel" \in scenario.ops
  /\ budget' \in [calls : Nat, drops : Nat, crashes : Nat, cancels : [Ids -> 0..MaxCancels]]
  /\ budget'.cancels = [budget.cancels EXCEPT ![x] = @ - 1]
  /\ lock' = lock \cup {x} /\ kept' = kept \ {x}
  /\ user' \in [Users -> Callers] /\ \A v \in Users \ {u} : user'[v] = user[v]
  /\ user'[u].pc = "cpool" /\ user'[u].id = x

\* A removal begins with these.
LEMMA CancelBegins ==
  ASSUME Typed, NEW u \in Users, NEW x \in Ids, CancelCall(u, x)
  PROVE  Begins(u, x)
<1>t. user \in [Users -> Callers] /\ BoundsTyped BY DEF Typed, CallsTyped
<1> DEFINE c == [IdleUser EXCEPT !.pc = "cpool", !.id = x]
<1>1. c \in Callers /\ c.pc = "cpool" /\ c.id = x
  <2>1. "cpool" \in {"idle", "plook", "ppub"} \cup Resuming \cup Removal /\ x \in Ids \cup {None}
    BY DEF Removal
  <2> QED BY <2>1, IdleIs
<1> HIDE DEF c
<1>2. user' = [user EXCEPT ![u] = c] BY DEF CancelCall, c
<1>3. user' \in [Users -> Callers] /\ user'[u] = c /\ \A v \in Users \ {u} : user'[v] = user[v]
  BY <1>t, <1>1, <1>2, Moves
<1>4. /\ budget' = [budget EXCEPT !.calls = @ - 1, !.cancels[x] = @ - 1]
      /\ budget.calls > 0 /\ budget.cancels[x] > 0
  BY DEF CancelCall, Call
<1>5. /\ budget \in [calls : Nat, drops : Nat, crashes : Nat, cancels : [Ids -> 0..MaxCancels]]
      /\ budget.calls \in Nat /\ budget.cancels[x] \in 0..MaxCancels
      /\ budget.cancels \in [Ids -> 0..MaxCancels]
  BY <1>t DEF BoundsTyped
<1>6. budget.calls - 1 \in Nat BY <1>4, <1>5
<1>7. budget.cancels[x] - 1 \in 0..MaxCancels BY <1>4, <1>5, Constants
<1>8. [budget.cancels EXCEPT ![x] = @ - 1] \in [Ids -> 0..MaxCancels] BY <1>5, <1>7
<1>9. /\ budget' \in [calls : Nat, drops : Nat, crashes : Nat, cancels : [Ids -> 0..MaxCancels]]
      /\ budget'.cancels = [budget.cancels EXCEPT ![x] = @ - 1]
  BY <1>4, <1>5, <1>6, <1>8
<1>10. /\ UNCHANGED <<row, detail, dest, surge, final, entry, run, level, late, marked, enq, bus, pw,
                      phase, gone>>
       /\ lock' = lock \cup {x} /\ kept' = kept \ {x}
       /\ enq[x] = "done" /\ user[u].pc = "idle" /\ "cancel" \in scenario.ops
  BY DEF CancelCall, Call, pool
<1> QED BY <1>1, <1>3, <1>4, <1>9, <1>10 DEF Begins

\* A removal goes on: the entry is taken out, then the run has ended, then the
\* store was asked.
Proceeds(u, x, pc) ==
  /\ UNCHANGED <<row, detail, dest, surge, final, run, level, late, lock, enq, bus, pw, phase,
                 budget, kept, gone>>
  /\ x \in Ids /\ user[u].id = x /\ user[u].pc \in Removal /\ marked' \subseteq Ids
  /\ user' \in [Users -> Callers] /\ \A v \in Users \ {u} : user'[v] = user[v]
  /\ user'[u].pc = pc /\ user'[u].id = x
  /\ \/ pc = "cwait" /\ entry' = [entry EXCEPT ![x] = None]
     \/ pc = "centry" /\ user[u].pc = "cwait" /\ entry' = entry /\ run[x] \notin Running
     \/ pc = "cpub" /\ user[u].pc = "centry" /\ entry' = entry

\* The middle steps of a removal are these.
LEMMA CancelProceeds ==
  ASSUME Typed, NEW u \in Users, CancelPool(u) \/ CancelWait(u) \/ CancelEntry(u)
  PROVE  \E x \in Ids, pc \in Removal : Proceeds(u, x, pc)
<1> DEFINE x == user[u].id
<1>t. user \in [Users -> Callers] /\ BoundsTyped /\ marked \subseteq Ids
  BY DEF Typed, CallsTyped, PoolTyped
<1>1. user[u].pc \in {"cpool", "cwait", "centry"} BY DEF CancelPool, CancelWait, CancelEntry
<1>2. x \in Ids /\ user[u].pc \in Removal BY <1>1 DEF Typed, CallsTyped, Removal
<1>3. user[u] \in Callers BY <1>t
<1>4. ASSUME NEW pc \in Removal, NEW c, user' = [user EXCEPT ![u] = c],
             \E done, found \in BOOLEAN :
               c = [user[u] EXCEPT !.pc = pc, !.done = done, !.found = found]
      PROVE  /\ user' \in [Users -> Callers] /\ \A v \in Users \ {u} : user'[v] = user[v]
             /\ user'[u].pc = pc /\ user'[u].id = x
  <2>1. PICK done, found \in BOOLEAN : c = [user[u] EXCEPT !.pc = pc, !.done = done, !.found = found]
    BY <1>4
  <2>2. c \in Callers /\ c.pc = pc /\ c.id = x BY <1>3, <2>1 DEF Callers
  <2> QED BY <1>4, <1>t, <2>2, Moves
<1>5. "cwait" \in Removal /\ "centry" \in Removal /\ "cpub" \in Removal BY DEF Removal
<1>6. user[u].done \in BOOLEAN /\ user[u].found \in BOOLEAN BY <1>3, CallFields
<1>7. CASE CancelPool(u)
  <2>1. PICK done \in BOOLEAN :
          user' = [user EXCEPT ![u].pc = "cwait", ![u].done = done, ![u].found = (entry[x] # None)]
    BY <1>7 DEF CancelPool
  <2> DEFINE c == [user[u] EXCEPT !.pc = "cwait", !.done = done, !.found = (entry[x] # None)]
  <2>2. user' = [user EXCEPT ![u] = c] BY <2>1
  <2>3. (entry[x] # None) \in BOOLEAN OBVIOUS
  <2>4. /\ user' \in [Users -> Callers] /\ \A v \in Users \ {u} : user'[v] = user[v]
        /\ user'[u].pc = "cwait" /\ user'[u].id = x
    BY <1>4, <1>5, <2>2, <2>3
  <2>5. entry' = [entry EXCEPT ![x] = None] BY <1>7 DEF CancelPool, SetEntry
  <2>6. marked' \subseteq Ids BY <1>t, <1>2, <1>7 DEF CancelPool
  <2>7. UNCHANGED <<row, detail, dest, surge, final, run, level, late, lock, enq, bus, pw, phase,
                 budget, kept, gone>>
    BY <1>7 DEF CancelPool, UserFrame
  <2>8. Proceeds(u, x, "cwait") BY <1>2, <1>5, <2>4, <2>5, <2>6, <2>7 DEF Proceeds
  <2> QED BY <1>2, <1>5, <2>8
<1>8. CASE CancelWait(u)
  <2> DEFINE c == [user[u] EXCEPT !.pc = "centry", !.done = user[u].done, !.found = user[u].found]
  <2>1. user' = [user EXCEPT ![u] = [user[u] EXCEPT !.pc = "centry"]] BY <1>8 DEF CancelWait, Goto
  <2>2. c = [user[u] EXCEPT !.pc = "centry"] BY <1>3 DEF Callers
  <2>3. user' = [user EXCEPT ![u] = c] BY <2>1, <2>2
  <2>4. /\ user' \in [Users -> Callers] /\ \A v \in Users \ {u} : user'[v] = user[v]
        /\ user'[u].pc = "centry" /\ user'[u].id = x
    BY <1>4, <1>5, <1>6, <2>3
  <2>5. entry' = entry /\ run[x] \notin Running /\ user[u].pc = "cwait" /\ marked' = marked
    BY <1>8 DEF CancelWait, Running, None
  <2>6. UNCHANGED <<row, detail, dest, surge, final, run, level, late, lock, enq, bus, pw, phase,
                 budget, kept, gone>>
    BY <1>8 DEF CancelWait, UserFrame
  <2>7. Proceeds(u, x, "centry") BY <1>t, <1>2, <2>4, <2>5, <2>6 DEF Proceeds
  <2> QED BY <1>2, <1>5, <2>7
<1>9. CASE CancelEntry(u)
  <2> DEFINE done == user[u].done \/ row[x] = "completed"
             found == user[u].found \/ row[x] # None
             c == [user[u] EXCEPT !.pc = "cpub", !.done = done, !.found = found]
  <2>1. user' = [user EXCEPT ![u] = c] BY <1>9 DEF CancelEntry
  <2>2. done \in BOOLEAN /\ found \in BOOLEAN BY <1>6
  <2>4. /\ user' \in [Users -> Callers] /\ \A v \in Users \ {u} : user'[v] = user[v]
        /\ user'[u].pc = "cpub" /\ user'[u].id = x
    <3> HIDE DEF done, found
    <3> QED BY <1>4, <1>5, <2>1, <2>2
  <2>5. entry' = entry /\ user[u].pc = "centry" /\ marked' = marked
    BY <1>9 DEF CancelEntry
  <2>6. UNCHANGED <<row, detail, dest, surge, final, run, level, late, lock, enq, bus, pw, phase,
                 budget, kept, gone>>
    BY <1>9 DEF CancelEntry, UserFrame
  <2>7. Proceeds(u, x, "cpub") BY <1>t, <1>2, <2>4, <2>5, <2>6 DEF Proceeds
  <2> QED BY <1>2, <1>5, <2>7
<1> QED BY <1>7, <1>8, <1>9

\* A removal ends with its event, or without one when nobody knew the download.
Announces(u, x, ev) ==
  /\ UNCHANGED <<row, detail, dest, surge, final, entry, run, level, late, marked, enq, pw, phase, kept>>
  /\ Spends /\ Sent(ev) /\ ev \in Events /\ ev.id = x /\ ev.type = "removed"
  /\ x \in Ids /\ user[u].id = x /\ user[u].pc = "cpub"
  /\ lock' = lock \ {x} /\ gone' = gone \cup {x}
  /\ user' \in [Users -> Callers] /\ \A v \in Users \ {u} : user'[v] = user[v]
  /\ user'[u].pc = "idle"

\* The last step of a removal is this.
LEMMA CancelAnnounces ==
  ASSUME Typed, NEW u \in Users, CancelPublish(u)
  PROVE  \E x, ev : Announces(u, x, ev)
<1> DEFINE x == user[u].id
           ev == Event("removed", x, NoLevel, user[u].done)
<1>t. user \in [Users -> Callers] /\ BoundsTyped BY DEF Typed, CallsTyped
<1>1. user[u].pc = "cpub" BY DEF CancelPublish
<1>2. x \in Ids BY <1>1 DEF Typed, CallsTyped
<1>3. ev \in Events /\ ev.id = x /\ ev.type = "removed"
  <2>1. NoLevel \in Levels BY Constants
  <2>2. user[u].done \in BOOLEAN BY <1>t, CallFields
  <2>3. ev \in Events BY <1>2, <2>1, <2>2, TypesAre DEF Event, Events
  <2>4. ev.id = x /\ ev.type = "removed" BY DEF Event
  <2> QED BY <2>3, <2>4
<1>4. Publish(ev) \/ UNCHANGED <<bus, budget>> BY DEF CancelPublish
<1> HIDE DEF ev
<1>5. Sent(ev) /\ Spends BY <1>t, <1>4, Sends, SendsNothing
<1>6. /\ user' = [user EXCEPT ![u] = IdleUser] /\ lock' = lock \ {x} /\ gone' = gone \cup {x}
      /\ UNCHANGED <<row, detail, dest, surge, final, entry, run, level, late, marked, enq, pw, phase, kept>>
  BY DEF CancelPublish, Return, UserFrame
<1>7. user' \in [Users -> Callers] /\ user'[u].pc = "idle" /\ \A v \in Users \ {u} : user'[v] = user[v]
  BY <1>t, <1>6, IdleIs, Moves
<1>8. Announces(u, x, ev) BY <1>1, <1>2, <1>3, <1>5, <1>6, <1>7 DEF Announces
<1> QED BY <1>8

\* The steps of a removal keep the types.
LEMMA CancelTyped ==
  ASSUME Typed, NEW u \in Users, NEW x, NEW pc, NEW ev,
         Begins(u, x) \/ Proceeds(u, x, pc) \/ Announces(u, x, ev), scenario' = scenario
  PROVE  Typed'
<1>p. PoolTyped /\ StoreTyped /\ CallsTyped /\ EventsTyped /\ BoundsTyped BY DEF Typed
<1>1. x \in Ids /\ UNCHANGED <<row, detail, dest, surge, final, run, level, late, enq, pw, phase>>
  BY DEF Begins, Proceeds, Announces
<1>2. StoreTyped' BY <1>p, <1>1 DEF StoreTyped
<1>3. PoolTyped'
  <2>1. entry' = entry \/ entry' = [entry EXCEPT ![x] = None] BY DEF Begins, Proceeds, Announces
  <2>2. entry' \in [Ids -> {None, "queued", "active", "paused"}] BY <1>p, <2>1 DEF PoolTyped
  <2>3. marked' \subseteq Ids BY <1>p DEF Begins, Proceeds, Announces, PoolTyped
  <2> QED BY <1>p, <1>1, <2>2, <2>3 DEF PoolTyped
<1>4. CallsTyped'
  <2>1. user' \in [Users -> Callers] /\ \A v \in Users \ {u} : user'[v] = user[v]
    BY DEF Begins, Proceeds, Announces
  <2>2. user'[u].pc \in {"cpool", "cwait", "centry", "cpub", "idle"}
        /\ (user'[u].pc # "idle" => user'[u].id = x)
    BY DEF Begins, Proceeds, Announces
  <2>3. \A v \in Users : /\ user'[v].pc # "idle" => user'[v].id \in Ids
                         /\ user'[v].pc \in {"hydrate", "add"} => user'[v].lvl \in 0..MaxLevel
    BY <1>p, <1>1, <2>1, <2>2 DEF CallsTyped
  <2>4. lock' \subseteq Ids BY <1>p, <1>1 DEF Begins, Proceeds, Announces, CallsTyped
  <2> QED BY <1>p, <1>1, <2>1, <2>3, <2>4 DEF CallsTyped
<1>5. EventsTyped'
  <2>1. CASE bus' = bus BY <1>p, <1>1, <2>1 DEF EventsTyped
  <2>2. CASE Announces(u, x, ev)
    <3>1. bus' \in Seq(Events) /\ Len(bus') <= MaxBus BY <1>p, <2>2, SentBus DEF Announces
    <3> QED BY <1>p, <1>1, <3>1 DEF EventsTyped
  <2> QED BY <2>1, <2>2 DEF Begins, Proceeds
<1>6. BoundsTyped'
  <2>1. budget' \in [calls : Nat, drops : Nat, crashes : Nat, cancels : [Ids -> 0..MaxCancels]]
    BY <1>p DEF Begins, Proceeds, Announces, Spends, BoundsTyped
  <2>2. kept' \subseteq Ids /\ gone' \subseteq Ids
    BY <1>p, <1>1 DEF Begins, Proceeds, Announces, BoundsTyped
  <2> QED BY <1>p, <1>1, <2>1, <2>2 DEF BoundsTyped
<1> QED BY <1>2, <1>3, <1>4, <1>5, <1>6 DEF Typed

\* A name is reserved that no file and no download of the pool has.
Reserves(x, n) ==
  /\ UNCHANGED <<row, detail, final, entry, run, level, late, marked, lock, user, bus, pw, phase,
                 budget, kept, gone>>
  /\ x \in Ids /\ x \in scenario.ids /\ enq[x] = "idle" /\ enq' = [enq EXCEPT ![x] = "reserved"]
  /\ n \in Names /\ surge[n] = None /\ final[n] = None
  /\ surge' = [surge EXCEPT ![n] = x] /\ dest' = [dest EXCEPT ![x] = n]

\* The other steps of an Enqueue: what it publishes, and what it writes.
Enters(x, ev) ==
  /\ UNCHANGED <<dest, surge, final, run, level, late, marked, user, pw, phase, gone>>
  /\ x \in Ids /\ Spends /\ Sent(ev) /\ ev \in Events /\ ev.id = x /\ ev.type = "queued"
  /\ detail' \in [Ids -> Levels] /\ lock' \subseteq Ids
  /\ \/ /\ enq[x] = "reserved" /\ enq' = [enq EXCEPT ![x] = "locked"]
        /\ UNCHANGED <<row, entry, kept, bus>>
     \/ /\ enq[x] = "locked" /\ enq' = [enq EXCEPT ![x] = "row"]
        /\ row' = [row EXCEPT ![x] = "queued"] /\ UNCHANGED <<entry, kept, bus>>
     \/ /\ enq[x] = "row" /\ enq' = [enq EXCEPT ![x] = "added"]
        /\ entry' = [entry EXCEPT ![x] = "queued"] /\ kept' = kept \cup {x} /\ UNCHANGED <<row, bus>>
     \/ /\ enq[x] = "added" /\ enq' = [enq EXCEPT ![x] = "done"]
        /\ UNCHANGED <<row, entry, kept>>

\* The steps of an Enqueue are these.
LEMMA EnqueueDoes ==
  ASSUME Typed, NEW x \in Ids, Enqueue(x)
  PROVE  (\E n : Reserves(x, n)) \/ (\E ev : Enters(x, ev))
<1>p. BoundsTyped /\ detail \in [Ids -> Levels] /\ lock \subseteq Ids
  BY DEF Typed, StoreTyped, CallsTyped
<1>l. NoLevel \in Levels /\ 0 \in Levels BY Constants
<1> DEFINE ev == Event("queued", x, NoLevel, FALSE)
<1>1. ev \in Events /\ ev.id = x /\ ev.type = "queued"
  <2>1. ev \in Events BY EventOf, TypesAre, <1>l
  <2>2. ev.id = x /\ ev.type = "queued" BY DEF Event
  <2> QED BY <2>1, <2>2
<1>2. CASE Reserve(x)
  <2>1. PICK n \in Names : /\ Free(n)
                           /\ surge' = [surge EXCEPT ![n] = x] /\ dest' = [dest EXCEPT ![x] = n]
    BY <1>2 DEF Reserve
  <2>2. /\ x \in scenario.ids /\ enq[x] = "idle" /\ enq' = [enq EXCEPT ![x] = "reserved"]
        /\ UNCHANGED <<row, detail, final, pool, lock, user, bus, pw, phase, budget, ghost>>
    BY <1>2 DEF Reserve
  <2>3. Reserves(x, n) BY <2>1, <2>2 DEF Reserves, Free, pool, ghost
  <2> QED BY <2>3
<1>3. CASE LockEnqueue(x) \/ PersistQueued(x) \/ SeedAndAdd(x)
  <2>1. UNCHANGED <<bus, budget>> BY <1>3 DEF LockEnqueue, PersistQueued, SeedAndAdd
  <2>2. Sent(ev) /\ Spends BY <1>p, <2>1, SendsNothing
  <2>3. detail' \in [Ids -> Levels] /\ lock' \subseteq Ids
    BY <1>p, <1>l, <1>3 DEF LockEnqueue, PersistQueued, SeedAndAdd, disk
  <2> HIDE DEF ev
  <2>4. Enters(x, ev)
    <3>1. CASE LockEnqueue(x) BY <1>1, <2>1, <2>2, <2>3, <3>1 DEF LockEnqueue, Enters, disk, pool, ghost
    <3>2. CASE PersistQueued(x) BY <1>1, <2>1, <2>2, <2>3, <3>2 DEF PersistQueued, Enters, pool, ghost
    <3>3. CASE SeedAndAdd(x) BY <1>1, <2>1, <2>2, <2>3, <3>3 DEF SeedAndAdd, Enters
    <3> QED BY <1>3, <3>1, <3>2, <3>3
  <2> QED BY <2>4
<1>4. CASE PublishQueued(x)
  <2>1. Publish(ev) BY <1>4 DEF PublishQueued
  <2>2. Sent(ev) /\ Spends BY <1>p, <2>1, Sends
  <2> HIDE DEF ev
  <2>3. detail' \in [Ids -> Levels] /\ lock' \subseteq Ids BY <1>p, <1>4 DEF PublishQueued, disk
  <2>4. Enters(x, ev) BY <1>1, <1>4, <2>2, <2>3 DEF PublishQueued, Enters, disk, pool, ghost
  <2> QED BY <2>4
<1> QED BY <1>2, <1>3, <1>4 DEF Enqueue

\* The steps of an Enqueue keep the types.
LEMMA EnqueueTyped ==
  ASSUME Typed, NEW x \in Ids, Enqueue(x), scenario' = scenario
  PROVE  Typed'
<1>p. PoolTyped /\ StoreTyped /\ CallsTyped /\ EventsTyped /\ BoundsTyped BY DEF Typed
<1>1. CASE \E n : Reserves(x, n)
  <2>1. PICK n : Reserves(x, n) BY <1>1
  <2>2. n \in Names /\ n \in 0..Dests BY <2>1, Constants DEF Reserves, Names
  <2>3. StoreTyped' BY <1>p, <2>1, <2>2 DEF Reserves, StoreTyped
  <2>4. PoolTyped' BY <1>p, <2>1 DEF Reserves, PoolTyped
  <2>5. CallsTyped'
    <3>1. enq \in [Ids -> {"idle", "reserved", "locked", "row", "added", "done"}] BY <1>p DEF CallsTyped
    <3>2. enq' \in [Ids -> {"idle", "reserved", "locked", "row", "added", "done"}]
      BY <3>1, <2>1 DEF Reserves
    <3> QED BY <1>p, <2>1, <3>2 DEF Reserves, CallsTyped
  <2>6. EventsTyped' BY <1>p, <2>1 DEF Reserves, EventsTyped
  <2>7. BoundsTyped' BY <1>p, <2>1 DEF Reserves, BoundsTyped
  <2> QED BY <2>3, <2>4, <2>5, <2>6, <2>7 DEF Typed
<1>2. CASE \E ev : Enters(x, ev)
  <2>1. PICK ev : Enters(x, ev) BY <1>2
  <2>2. row' \in [Ids -> Unfinished \cup {None, "completed"}]
    <3>1. row \in [Ids -> Unfinished \cup {None, "completed"}] BY <1>p DEF StoreTyped
    <3>2. "queued" \in Unfinished BY DEF Unfinished
    <3>3. row' = row \/ row' = [row EXCEPT ![x] = "queued"] BY <2>1 DEF Enters
    <3> QED BY <3>1, <3>2, <3>3
  <2>3. StoreTyped' BY <1>p, <2>1, <2>2 DEF Enters, StoreTyped
  <2>4. PoolTyped'
    <3>1. entry' \in [Ids -> {None, "queued", "active", "paused"}]
      BY <1>p, <2>1 DEF Enters, PoolTyped
    <3> QED BY <1>p, <2>1, <3>1 DEF Enters, PoolTyped
  <2>5. CallsTyped'
    <3>1. enq \in [Ids -> {"idle", "reserved", "locked", "row", "added", "done"}] BY <1>p DEF CallsTyped
    <3>2. enq' \in [Ids -> {"idle", "reserved", "locked", "row", "added", "done"}]
      BY <3>1, <2>1 DEF Enters
    <3> QED BY <1>p, <2>1, <3>2 DEF Enters, CallsTyped
  <2>6. EventsTyped'
    <3>1. bus' \in Seq(Events) /\ Len(bus') <= MaxBus BY <1>p, <2>1, SentBus DEF Enters
    <3> QED BY <1>p, <2>1, <3>1 DEF Enters, EventsTyped
  <2>7. BoundsTyped'
    <3>1. kept' \subseteq Ids BY <1>p, <2>1 DEF Enters, BoundsTyped
    <3> QED BY <1>p, <2>1, <3>1 DEF Enters, Spends, BoundsTyped
  <2> QED BY <2>3, <2>4, <2>5, <2>6, <2>7 DEF Typed
<1> QED BY <1>1, <1>2, EnqueueDoes

\* The persistence worker does one store call for an event that it takes from
\* the bus or that it has.
Working(ev) ==
  /\ UNCHANGED <<dest, entry, run, level, late, marked, lock, enq, user, phase, budget, kept, gone>>
  /\ ev \in Events
  /\ \/ /\ phase = "up" /\ pw.step = "idle" /\ bus # <<>>
        /\ ev = Head(bus) /\ bus' = Tail(bus)
     \/ pw.step # "idle" /\ ev = pw.ev /\ bus' = bus
  /\ pw' \in [step : {"idle", "load", "detail", "final", "gc", "files"},
              ev : Events \cup {NoEvent}, lvl : Levels]
  /\ pw'.step # "idle" => pw'.ev = ev
  /\ row' \in [Ids -> Unfinished \cup {None, "completed"}] /\ detail' \in [Ids -> Levels]
  /\ \A x \in Ids \ {ev.id} : row'[x] = row[x]
  /\ row'[ev.id] = "paused" => row[ev.id] # "completed"

\* It notes in the row what the event says, or leaves the row alone.
Notes(ev) ==
  /\ UNCHANGED <<surge, final>> /\ pw'.step \notin {"final", "files"}
  /\ row'[ev.id] = row[ev.id] \/ row'[ev.id] \notin {None, "completed"}

\* It promotes the working file at the name, or finds it promoted.
Promotes(ev) ==
  LET name == dest[ev.id] IN
  /\ row'[ev.id] = row[ev.id] /\ pw'.step = "final"
  /\ \/ /\ surge[name] # None /\ surge' = [surge EXCEPT ![name] = None]
        /\ final' = [final EXCEPT ![name] = surge[name]]
     \/ surge[name] = None /\ final[name] # None /\ UNCHANGED <<surge, final>>

\* It deletes the state of a removed download.
Deletes(ev) ==
  /\ UNCHANGED <<surge, final>> /\ pw.step = "idle" /\ ev.type = "removed"
  /\ row'[ev.id] = None /\ pw'.step \in {"idle", "files"}

\* It records the completion.
Records(ev) ==
  /\ UNCHANGED <<surge, final>> /\ pw.step = "final"
  /\ row'[ev.id] = "completed" /\ pw'.step = "gc"

\* It removes the working file at the name of a removed download.
Removes(ev) ==
  /\ UNCHANGED final /\ pw.step = "files" /\ pw'.step = "idle"
  /\ row'[ev.id] = row[ev.id] /\ surge' = [surge EXCEPT ![dest[ev.id]] = None]

Persists(ev) ==
  Working(ev) /\ (Notes(ev) \/ Promotes(ev) \/ Deletes(ev) \/ Records(ev) \/ Removes(ev))

\* The next steps of the worker.
LEMMA NextStep ==
  ASSUME NEW st \in {"load", "detail", "final", "gc", "files"}, NEW ev \in Events, NEW lvl \in Levels
  PROVE  /\ IdlePw \in [step : {"idle", "load", "detail", "final", "gc", "files"},
                        ev : Events \cup {NoEvent}, lvl : Levels]
         /\ IdlePw.step = "idle"
         /\ Step(st, ev, lvl) =>
              /\ pw' \in [step : {"idle", "load", "detail", "final", "gc", "files"},
                          ev : Events \cup {NoEvent}, lvl : Levels]
              /\ pw'.step = st /\ pw'.ev = ev
BY Constants DEF IdlePw, Step

\* A step that takes an event.
LEMMA TakeDoes ==
  ASSUME Typed, NEW ev, Take(ev)
  PROVE  /\ phase = "up" /\ pw.step = "idle" /\ bus # <<>> /\ ev = Head(bus) /\ bus' = Tail(bus)
         /\ ev \in Events /\ ev.id \in Ids /\ ev.lvl \in Levels /\ ev.done \in BOOLEAN
<1>1. bus \in Seq(Events) BY DEF Typed, EventsTyped
<1>2. bus # <<>> /\ ev = Head(bus) BY DEF Take
<1>3. ev \in Events BY <1>1, <1>2, Taken
<1>4. ev.id \in Ids /\ ev.lvl \in Levels /\ ev.done \in BOOLEAN BY <1>3, EventFields
<1> QED BY <1>3, <1>4 DEF Take, Up

\* The steps that take an event are steps of the worker.
LEMMA TakePersists ==
  ASSUME Typed, NEW ev,
         Skip(ev) \/ PersistStarted(ev) \/ PersistPaused(ev) \/ PersistError(ev) \/ Promote(ev) \/ DeleteState(ev)
  PROVE  Persists(ev)
<1> DEFINE id == ev.id
<1>0. Take(ev) /\ PwFrame
  BY DEF Skip, PersistStarted, PersistPaused, PersistError, Promote, DeleteState
<1>1. /\ phase = "up" /\ pw.step = "idle" /\ bus # <<>> /\ ev = Head(bus) /\ bus' = Tail(bus)
      /\ ev \in Events /\ id \in Ids /\ ev.lvl \in Levels /\ ev.done \in BOOLEAN
  BY <1>0, TakeDoes
<1>2. /\ row \in [Ids -> Unfinished \cup {None, "completed"}] /\ detail \in [Ids -> Levels]
      /\ pw \in [step : {"idle", "load", "detail", "final", "gc", "files"},
                 ev : Events \cup {NoEvent}, lvl : Levels]
  BY DEF Typed, StoreTyped, EventsTyped
<1>3. UNCHANGED <<dest, entry, run, level, late, marked, lock, enq, user, phase, budget, kept, gone>>
  BY <1>0 DEF PwFrame, pool, calls, ghost
<1>l. NoLevel \in Levels BY Constants
<1>u. /\ Unfinished = {"queued", "downloading", "paused", "error"}
      /\ "completed" \notin Unfinished /\ None \notin Unfinished /\ None # "completed"
  BY DEF Unfinished, None
<1>r. ASSUME NEW s \in Unfinished \cup {None}, SetRow(id, s), detail' = detail,
             s = "paused" => row[id] # "completed"
      PROVE  /\ row' \in [Ids -> Unfinished \cup {None, "completed"}] /\ detail' \in [Ids -> Levels]
             /\ \A x \in Ids \ {ev.id} : row'[x] = row[x]
             /\ row'[id] = s /\ (row'[id] = "paused" => row[id] # "completed")
  BY <1>r, <1>1, <1>2 DEF SetRow
<1>i. ASSUME pw' = pw
      PROVE  /\ pw' \in [step : {"idle", "load", "detail", "final", "gc", "files"},
                         ev : Events \cup {NoEvent}, lvl : Levels]
             /\ pw'.step = "idle"
  BY <1>i, <1>1, <1>2
<1>4. CASE Skip(ev)
  <2>1. UNCHANGED <<row, detail, surge, final, pw>> BY <1>4 DEF Skip
  <2>2. row'[id] = "paused" => row[id] # "completed" BY <2>1, <1>u DEF Unfinished
  <2>3. Working(ev) BY <1>1, <1>2, <1>3, <2>1, <2>2 DEF Working
  <2>4. Notes(ev) BY <1>1, <2>1 DEF Notes
  <2> QED BY <2>3, <2>4 DEF Persists
<1>5. CASE PersistStarted(ev)
  <2>1. SetRow(id, "downloading") /\ UNCHANGED <<detail, surge, final, pw>> BY <1>5 DEF PersistStarted
  <2>2. Working(ev) BY <1>1, <1>3, <1>i, <1>r, <1>u, <2>1 DEF Working
  <2>3. Notes(ev) BY <1>1, <1>r, <1>u, <2>1 DEF Notes
  <2> QED BY <2>2, <2>3 DEF Persists
<1>6. CASE PersistPaused(ev)
  <2>1. /\ SetRow(id, "paused") /\ UNCHANGED <<detail, surge, final>> /\ row[id] # "completed"
        /\ Step("load", ev, ev.lvl) \/ Step("detail", ev, ev.lvl)
    BY <1>6 DEF PersistPaused
  <2>2. /\ pw' \in [step : {"idle", "load", "detail", "final", "gc", "files"},
                    ev : Events \cup {NoEvent}, lvl : Levels]
        /\ pw'.step \in {"load", "detail"} /\ pw'.ev = ev
    BY <1>1, <2>1, NextStep
  <2>3. Working(ev) BY <1>1, <1>3, <1>r, <1>u, <2>1, <2>2 DEF Working
  <2>4. Notes(ev) BY <1>r, <1>u, <2>1, <2>2 DEF Notes
  <2> QED BY <2>3, <2>4 DEF Persists
<1>7. CASE PersistError(ev)
  <2>1. /\ SetRow(id, "error") /\ UNCHANGED <<detail, surge, final>>
        /\ pw' = IdlePw \/ Step("detail", ev, ev.lvl)
    BY <1>7 DEF PersistError, Done
  <2>2. /\ pw' \in [step : {"idle", "load", "detail", "final", "gc", "files"},
                    ev : Events \cup {NoEvent}, lvl : Levels]
        /\ pw'.step \in {"idle", "detail"} /\ (pw'.step # "idle" => pw'.ev = ev)
    BY <1>1, <2>1, NextStep
  <2>3. Working(ev) BY <1>1, <1>3, <1>r, <1>u, <2>1, <2>2 DEF Working
  <2>4. Notes(ev) BY <1>r, <1>u, <2>1, <2>2 DEF Notes
  <2> QED BY <2>3, <2>4 DEF Persists
<1>8. CASE Promote(ev)
  <2> DEFINE name == dest[id]
  <2>0. detail' = detail BY <1>8 DEF Promote
  <2>1. CASE SetRow(id, "error") /\ UNCHANGED <<surge, final, pw>>
    <3>1. Working(ev) BY <1>1, <1>3, <1>i, <1>r, <1>u, <2>0, <2>1 DEF Working
    <3>2. Notes(ev) BY <1>1, <1>r, <1>u, <2>0, <2>1 DEF Notes
    <3> QED BY <3>1, <3>2 DEF Persists
  <2>2. CASE /\ Step("final", ev, NoLevel) /\ UNCHANGED row
             /\ \/ /\ surge[name] # None /\ surge' = [surge EXCEPT ![name] = None]
                   /\ final' = [final EXCEPT ![name] = surge[name]]
                \/ surge[name] = None /\ final[name] # None /\ UNCHANGED <<surge, final>>
    <3>1. /\ pw' \in [step : {"idle", "load", "detail", "final", "gc", "files"},
                      ev : Events \cup {NoEvent}, lvl : Levels]
          /\ pw'.step = "final" /\ pw'.ev = ev
      BY <1>1, <1>l, <2>2, NextStep
    <3>2. row'[id] = "paused" => row[id] # "completed" BY <2>2
    <3>3. Working(ev) BY <1>1, <1>2, <1>3, <2>0, <2>2, <3>1, <3>2 DEF Working
    <3>4. Promotes(ev) BY <2>2, <3>1 DEF Promotes
    <3> QED BY <3>3, <3>4 DEF Persists
  <2> QED BY <1>8, <2>1, <2>2 DEF Promote
<1>9. CASE DeleteState(ev)
  <2>1. /\ ev.type = "removed" /\ SetRow(id, None) /\ detail' = [detail EXCEPT ![id] = NoLevel]
        /\ UNCHANGED <<surge, final>> /\ (pw' = pw \/ Step("files", ev, NoLevel))
    BY <1>9 DEF DeleteState
  <2>2. /\ pw' \in [step : {"idle", "load", "detail", "final", "gc", "files"},
                    ev : Events \cup {NoEvent}, lvl : Levels]
        /\ pw'.step \in {"idle", "files"} /\ (pw'.step # "idle" => pw'.ev = ev)
    BY <1>1, <1>2, <1>l, <2>1, NextStep
  <2>3. detail' \in [Ids -> Levels] BY <1>2, <1>l, <2>1
  <2>4. /\ row' \in [Ids -> Unfinished \cup {None, "completed"}]
        /\ \A x \in Ids \ {ev.id} : row'[x] = row[x]
        /\ row'[id] = None
    BY <1>1, <1>2, <2>1 DEF SetRow
  <2>5. row'[id] # "paused" BY <2>4 DEF None
  <2>6. Working(ev) BY <1>1, <1>3, <2>2, <2>3, <2>4, <2>5 DEF Working
  <2>7. Deletes(ev) BY <1>1, <2>1, <2>2, <2>4 DEF Deletes
  <2> QED BY <2>6, <2>7 DEF Persists
<1> QED BY <1>4, <1>5, <1>6, <1>7, <1>8, <1>9

\* The steps that go on with an event are steps of the worker.
LEMMA HavePersists ==
  ASSUME Typed, LoadDetail \/ WriteDetail \/ RecordCompleted \/ DeleteDetail \/ RemoveFiles
  PROVE  Persists(pw.ev)
<1> DEFINE ev == pw.ev
           id == pw.ev.id
<1>1. /\ pw.step # "idle" /\ bus' = bus /\ PwFrame
  BY DEF LoadDetail, WriteDetail, RecordCompleted, DeleteDetail, RemoveFiles
<1>2. /\ row \in [Ids -> Unfinished \cup {None, "completed"}] /\ detail \in [Ids -> Levels]
      /\ pw \in [step : {"idle", "load", "detail", "final", "gc", "files"},
                 ev : Events \cup {NoEvent}, lvl : Levels]
  BY DEF Typed, StoreTyped, EventsTyped
<1>3. ev \in Events /\ pw.lvl \in Levels BY <1>1, <1>2 DEF Typed, EventsTyped
<1>4. id \in Ids BY <1>3, EventFields
<1>5. UNCHANGED <<dest, entry, run, level, late, marked, lock, enq, user, phase, budget, kept, gone>>
  BY <1>1 DEF PwFrame, pool, calls, ghost
<1>l. NoLevel \in Levels BY Constants
<1>6. CASE LoadDetail
  <2>1. Saved(id) \in Levels BY <1>2, <1>4, <1>l DEF Saved
  <2>2. UNCHANGED <<row, detail, surge, final>> /\ (pw' = IdlePw \/ Step("detail", ev, Saved(id)))
    BY <1>6 DEF LoadDetail, Done, disk
  <2>3. /\ pw' \in [step : {"idle", "load", "detail", "final", "gc", "files"},
                    ev : Events \cup {NoEvent}, lvl : Levels]
        /\ pw'.step \in {"idle", "detail"} /\ (pw'.step # "idle" => pw'.ev = ev)
    BY <1>3, <2>1, <2>2, NextStep
  <2>4. row'[id] = "paused" => row[id] # "completed" BY <2>2
  <2>5. Working(ev) BY <1>1, <1>2, <1>3, <1>5, <2>2, <2>3, <2>4 DEF Working
  <2>6. Notes(ev) BY <2>2, <2>3 DEF Notes
  <2> QED BY <2>5, <2>6 DEF Persists
<1>7. CASE WriteDetail \/ DeleteDetail
  <2>1. /\ UNCHANGED <<row, surge, final>> /\ pw' = IdlePw
        /\ \E l \in Levels : detail' = [detail EXCEPT ![id] = l]
    BY <1>7, <1>3, <1>l DEF WriteDetail, DeleteDetail, Done
  <2>2. detail' \in [Ids -> Levels] BY <1>2, <2>1
  <2>3. /\ pw' \in [step : {"idle", "load", "detail", "final", "gc", "files"},
                    ev : Events \cup {NoEvent}, lvl : Levels]
        /\ pw'.step = "idle"
    BY <1>3, <1>l, <2>1, NextStep
  <2>4. row'[id] = "paused" => row[id] # "completed" BY <2>1
  <2>5. Working(ev) BY <1>1, <1>2, <1>3, <1>5, <2>1, <2>2, <2>3, <2>4 DEF Working
  <2>6. Notes(ev) BY <2>1, <2>3 DEF Notes
  <2> QED BY <2>5, <2>6 DEF Persists
<1>8. CASE RecordCompleted
  <2>1. /\ pw.step = "final" /\ row' = [row EXCEPT ![id] = "completed"] /\ Step("gc", ev, NoLevel)
        /\ UNCHANGED <<detail, surge, final>>
    BY <1>8 DEF RecordCompleted, SetRow
  <2>2. /\ pw' \in [step : {"idle", "load", "detail", "final", "gc", "files"},
                    ev : Events \cup {NoEvent}, lvl : Levels]
        /\ pw'.step = "gc" /\ pw'.ev = ev
    BY <1>3, <1>l, <2>1, NextStep
  <2>3. /\ row' \in [Ids -> Unfinished \cup {None, "completed"}]
        /\ \A x \in Ids \ {ev.id} : row'[x] = row[x]
        /\ row'[id] = "completed"
    BY <1>2, <1>4, <2>1
  <2>4. Working(ev) BY <1>1, <1>2, <1>3, <1>5, <2>1, <2>2, <2>3 DEF Working
  <2>5. Records(ev) BY <2>1, <2>2, <2>3 DEF Records
  <2> QED BY <2>4, <2>5 DEF Persists
<1>9. CASE RemoveFiles
  <2>1. /\ pw.step = "files" /\ surge' = [surge EXCEPT ![dest[id]] = None] /\ pw' = IdlePw
        /\ UNCHANGED <<row, detail, final>>
    BY <1>9 DEF RemoveFiles, Done
  <2>2. /\ pw' \in [step : {"idle", "load", "detail", "final", "gc", "files"},
                    ev : Events \cup {NoEvent}, lvl : Levels]
        /\ pw'.step = "idle"
    BY <1>3, <1>l, <2>1, NextStep
  <2>3. row'[id] = "paused" => row[id] # "completed" BY <2>1
  <2>4. Working(ev) BY <1>1, <1>2, <1>3, <1>5, <2>1, <2>2, <2>3 DEF Working
  <2>5. Removes(ev) BY <2>1, <2>2 DEF Removes
  <2> QED BY <2>4, <2>5 DEF Persists
<1> QED BY <1>6, <1>7, <1>8, <1>9

\* A step of the persistence worker is one of these.
LEMMA PersistDoes ==
  ASSUME Typed, Persist
  PROVE  \E ev : Persists(ev)
BY TakePersists, HavePersists DEF Persist

\* A step of the persistence worker keeps the types.
LEMMA PersistTyped ==
  ASSUME Typed, NEW ev, Persists(ev), scenario' = scenario
  PROVE  Typed'
<1>p. PoolTyped /\ StoreTyped /\ CallsTyped /\ EventsTyped /\ BoundsTyped BY DEF Typed
<1>w. Working(ev) BY DEF Persists
<1>1. surge' \in [Names -> Ids \cup {None}] /\ final' \in [Names -> Ids \cup {None}]
  <2> DEFINE name == dest[ev.id]
  <2>1. surge \in [Names -> Ids \cup {None}] /\ final \in [Names -> Ids \cup {None}]
    BY <1>p DEF StoreTyped
  <2>2. CASE UNCHANGED <<surge, final>> BY <2>1, <2>2
  <2>3. CASE surge' = [surge EXCEPT ![name] = None] /\ final' = final BY <2>1, <2>3
  <2>4. CASE /\ surge' = [surge EXCEPT ![name] = None]
             /\ final' = [final EXCEPT ![name] = surge[name]]
    <3>1. CASE name \in Names BY <2>1, <2>4, <3>1
    <3>2. CASE name \notin Names BY <2>1, <2>4, <3>2
    <3> QED BY <3>1, <3>2
  <2> QED BY <2>2, <2>3, <2>4 DEF Persists, Notes, Promotes, Deletes, Records, Removes
<1>2. StoreTyped' BY <1>p, <1>w, <1>1 DEF StoreTyped, Working
<1>3. PoolTyped' BY <1>p, <1>w DEF PoolTyped, Working
<1>4. CallsTyped' BY <1>p, <1>w DEF CallsTyped, Working
<1>5. EventsTyped'
  <2>1. bus \in Seq(Events) /\ Len(bus) <= MaxBus /\ MaxBus \in Nat BY <1>p, Constants DEF EventsTyped
  <2>2. bus' \in Seq(Events) /\ Len(bus') <= MaxBus
    <3>1. CASE bus' = bus BY <2>1, <3>1
    <3>2. CASE bus # <<>> /\ bus' = Tail(bus)
      <4>1. Tail(bus) \in Seq(Events) /\ Len(Tail(bus)) = Len(bus) - 1 /\ Len(bus) \in Nat
        BY <2>1, <3>2, Taken
      <4> QED BY <2>1, <3>2, <4>1
    <3> QED BY <1>w, <3>1, <3>2 DEF Working
  <2>3. pw'.step # "idle" => pw'.ev \in Events BY <1>w DEF Working
  <2> QED BY <1>w, <2>2, <2>3 DEF EventsTyped, Working
<1>6. BoundsTyped' BY <1>p, <1>w DEF BoundsTyped, Working
<1> QED BY <1>2, <1>3, <1>4, <1>5, <1>6 DEF Typed

\* A crash and the passes of startup keep the types.
LEMMA CrashTyped ==
  ASSUME Typed, Crash, scenario' = scenario
  PROVE  Typed'
<1>p. PoolTyped /\ StoreTyped /\ CallsTyped /\ EventsTyped /\ BoundsTyped BY DEF Typed
<1>1. StoreTyped' BY <1>p DEF Crash, disk, StoreTyped
<1>2. PoolTyped'
  <2>1. entry' = [id \in Ids |-> None] /\ run' = [id \in Ids |-> None] /\ level' = [id \in Ids |-> 0]
        /\ late' = [id \in Ids |-> NoEvent] /\ marked' = {}
    BY DEF Crash
  <2>2. 0 \in 0..MaxLevel BY Constants
  <2> QED BY <2>1, <2>2 DEF PoolTyped
<1>3. CallsTyped'
  <2>1. IdleUser \in Callers /\ IdleUser.pc = "idle" BY IdleIs
  <2>2. user' = [u \in Users |-> IdleUser] /\ lock' = {} BY DEF Crash
  <2>3. enq' \in [Ids -> {"idle", "reserved", "locked", "row", "added", "done"}] BY DEF Crash
  <2> QED BY <2>1, <2>2, <2>3 DEF CallsTyped
<1>4. EventsTyped'
  <2>1. bus' = <<>> /\ pw' = IdlePw BY DEF Crash
  <2>2. IdlePw \in [step : {"idle", "load", "detail", "final", "gc", "files"},
                    ev : Events \cup {NoEvent}, lvl : Levels] /\ IdlePw.step = "idle"
    BY Constants DEF IdlePw
  <2>3. Len(<<>>) <= MaxBus /\ <<>> \in Seq(Events) BY Constants
  <2> QED BY <2>1, <2>2, <2>3 DEF EventsTyped
<1>5. BoundsTyped'
  <2>1. budget.crashes \in Nat /\ budget.crashes > 0 /\ budget' = [budget EXCEPT !.crashes = @ - 1]
    BY <1>p DEF Crash, BoundsTyped
  <2>2. budget.crashes - 1 \in Nat BY <2>1
  <2> QED BY <1>p, <2>1, <2>2 DEF BoundsTyped, Crash
<1> QED BY <1>1, <1>2, <1>3, <1>4, <1>5 DEF Typed

\* Neither pass of startup touches anything but the store.
Recovers == UNCHANGED <<dest, final, entry, run, level, late, marked, lock, enq, user, bus, pw,
                        budget, kept, gone>>

\* The passes of startup keep the types.
LEMMA RecoverTyped ==
  ASSUME Typed, Recover, scenario' = scenario
  PROVE  Typed' /\ Recovers
<1>p. PoolTyped /\ StoreTyped /\ CallsTyped /\ EventsTyped /\ BoundsTyped BY DEF Typed
<1>1. Recovers
  BY DEF Recovers, Recover, NormalizeStaleDownloads, ValidateIntegrity, pool, calls, ghost
<1>2. /\ row \in [Ids -> Unfinished \cup {None, "completed"}] /\ detail \in [Ids -> Levels]
      /\ surge \in [Names -> Ids \cup {None}]
  BY <1>p DEF StoreTyped
<1>3. /\ row' \in [Ids -> Unfinished \cup {None, "completed"}] /\ detail' \in [Ids -> Levels]
      /\ surge' \in [Names -> Ids \cup {None}] /\ phase' \in {"up", "validate"}
  <2>1. CASE NormalizeStaleDownloads
    <3>1. "paused" \in Unfinished BY DEF Unfinished
    <3> QED BY <1>2, <2>1, <3>1 DEF NormalizeStaleDownloads
  <2>2. CASE ValidateIntegrity
    <3>1. /\ \E f \in [Ids -> BOOLEAN] : row' = [id \in Ids |-> IF f[id] THEN None ELSE row[id]]
          /\ \E f \in [Names -> BOOLEAN] : surge' = [n \in Names |-> IF f[n] THEN None ELSE surge[n]]
          /\ detail' \in [Ids -> Levels]
      <4>1. row' = [id \in Ids |-> IF row[id] \in {"paused", "queued"} /\ surge[dest[id]] = None
                                   THEN None ELSE row[id]]
        BY <2>2 DEF ValidateIntegrity
      <4>2. surge' = [n \in Names |->
                        IF (\E id \in Ids : row[id] # None)
                           /\ n \notin {dest[id] : id \in {i \in Ids : row[i] \in Unfinished}}
                        THEN None ELSE surge[n]]
        BY <2>2 DEF ValidateIntegrity
      <4>3. detail' = [id \in Ids |-> IF row'[id] \in Unfinished THEN detail[id] ELSE NoLevel]
        BY <2>2 DEF ValidateIntegrity
      <4> DEFINE f == [id \in Ids |-> row[id] \in {"paused", "queued"} /\ surge[dest[id]] = None]
                 g == [n \in Names |-> (\E id \in Ids : row[id] # None)
                         /\ n \notin {dest[id] : id \in {i \in Ids : row[i] \in Unfinished}}]
      <4>4. f \in [Ids -> BOOLEAN] /\ row' = [id \in Ids |-> IF f[id] THEN None ELSE row[id]]
        BY <4>1
      <4>5. g \in [Names -> BOOLEAN] /\ surge' = [n \in Names |-> IF g[n] THEN None ELSE surge[n]]
        BY <4>2
      <4>6. detail' \in [Ids -> Levels] BY <1>2, <4>3, Constants
      <4> QED BY <4>4, <4>5, <4>6
    <3>2. phase' = "up" BY <2>2 DEF ValidateIntegrity
    <3> QED BY <1>2, <3>1, <3>2, Constants
  <2> QED BY <2>1, <2>2 DEF Recover
<1>4. StoreTyped' BY <1>p, <1>1, <1>3 DEF Recovers, StoreTyped
<1>5. PoolTyped' BY <1>p, <1>1 DEF Recovers, PoolTyped
<1>6. CallsTyped' BY <1>p, <1>1 DEF Recovers, CallsTyped
<1>7. EventsTyped' BY <1>p, <1>1 DEF Recovers, EventsTyped
<1>8. BoundsTyped' BY <1>p, <1>1, <1>3 DEF Recovers, BoundsTyped
<1> QED BY <1>1, <1>4, <1>5, <1>6, <1>7, <1>8 DEF Typed

\* What a step may be.
Steps ==
  \/ \E x \in Ids, n \in Names : Reserves(x, n)
  \/ \E x \in Ids, ev \in Events : Enters(x, ev)
  \/ \E x \in Ids, ev \in Events : Runs(x, ev)
  \/ \E u \in Users, x \in Ids, ev \in Events : Asks(u, x, ev)
  \/ \E u \in Users, x \in Ids : Begins(u, x)
  \/ \E u \in Users, x \in Ids, pc \in Removal : Proceeds(u, x, pc)
  \/ \E u \in Users, x \in Ids, ev \in Events : Announces(u, x, ev)
  \/ \E ev \in Events : Persists(ev)
  \/ Crash
  \/ Recover /\ Recovers

\* Every step is one of these, and keeps the types.
LEMMA NextSteps ==
  ASSUME Typed, Next
  PROVE  Steps /\ scenario' = scenario /\ Typed'
<1>s. scenario' = scenario BY DEF Next
<1>1. CASE \E id \in Ids : Enqueue(id)
  <2>1. PICK id \in Ids : Enqueue(id) BY <1>1
  <2>2. Typed' BY <1>s, <2>1, EnqueueTyped
  <2>3. CASE \E n : Reserves(id, n)
    <3>1. PICK n : Reserves(id, n) BY <2>3
    <3>2. n \in Names BY <3>1 DEF Reserves
    <3>3. Steps BY <2>1, <3>1, <3>2 DEF Steps
    <3> QED BY <1>s, <2>2, <3>3
  <2>4. CASE \E ev : Enters(id, ev)
    <3>1. PICK ev : Enters(id, ev) BY <2>4
    <3>2. ev \in Events BY <3>1 DEF Enters
    <3>3. Steps BY <2>1, <3>1, <3>2 DEF Steps
    <3> QED BY <1>s, <2>2, <3>3
  <2> QED BY <2>1, <2>3, <2>4, EnqueueDoes
<1>2. CASE \E id \in Ids : Run(id)
  <2>1. PICK id \in Ids : Run(id) BY <1>2
  <2>2. Typed' BY <1>s, <2>1, RunTyped
  <2>3. PICK ev : Runs(id, ev) BY <2>1, RunDoes
  <2>4. ev \in Events BY <2>3 DEF Runs
  <2>5. Steps BY <2>1, <2>3, <2>4 DEF Steps
  <2> QED BY <1>s, <2>2, <2>5
<1>3. CASE \E u \in Users : User(u)
  <2>1. PICK u \in Users : User(u) BY <1>3
  <2>2. CASE Asking(u)
    <3>1. PICK x, ev : Asks(u, x, ev) BY <2>2, AskDoes
    <3>2. x \in Ids /\ ev \in Events BY <3>1 DEF Asks
    <3>3. Steps BY <3>1, <3>2 DEF Steps
    <3>4. Typed' BY <1>s, <3>1, AskTyped
    <3> QED BY <1>s, <3>3, <3>4
  <2>3. CASE \E id \in Ids : CancelCall(u, id)
    <3>1. PICK id \in Ids : CancelCall(u, id) BY <2>3
    <3>2. Begins(u, id) BY <3>1, CancelBegins
    <3>3. Steps BY <3>2 DEF Steps
    <3>4. Typed' BY <1>s, <3>2, CancelTyped
    <3> QED BY <1>s, <3>3, <3>4
  <2>4. CASE CancelPool(u) \/ CancelWait(u) \/ CancelEntry(u)
    <3>1. PICK x \in Ids, pc \in Removal : Proceeds(u, x, pc) BY <2>4, CancelProceeds
    <3>2. x \in Ids BY <3>1 DEF Proceeds
    <3>3. Steps BY <3>1, <3>2 DEF Steps
    <3>4. Typed' BY <1>s, <3>1, CancelTyped
    <3> QED BY <1>s, <3>3, <3>4
  <2>5. CASE CancelPublish(u)
    <3>1. PICK x, ev : Announces(u, x, ev) BY <2>5, CancelAnnounces
    <3>2. x \in Ids /\ ev \in Events BY <3>1 DEF Announces
    <3>3. Steps BY <3>1, <3>2 DEF Steps
    <3>4. Typed' BY <1>s, <3>1, CancelTyped
    <3> QED BY <1>s, <3>3, <3>4
  <2> QED BY <2>1, <2>2, <2>3, <2>4, <2>5 DEF User, Asking
<1>4. CASE Persist
  <2>1. PICK ev : Persists(ev) BY <1>4, PersistDoes
  <2>2. ev \in Events BY <2>1 DEF Persists, Working
  <2>3. Steps BY <2>1, <2>2 DEF Steps
  <2>4. Typed' BY <1>s, <2>1, PersistTyped
  <2> QED BY <1>s, <2>3, <2>4
<1>5. CASE Crash BY <1>s, <1>5, CrashTyped DEF Steps
<1>6. CASE Recover BY <1>s, <1>6, RecoverTyped DEF Steps
<1> QED BY <1>1, <1>2, <1>3, <1>4, <1>5, <1>6 DEF Next

\* A step of Pause, Resume or Cancel.
Calling ==
  \/ \E u \in Users, y \in Ids, ev \in Events : Asks(u, y, ev)
  \/ \E u \in Users, y \in Ids : Begins(u, y)
  \/ \E u \in Users, y \in Ids, pc \in Removal : Proceeds(u, y, pc)
  \/ \E u \in Users, y \in Ids, ev \in Events : Announces(u, y, ev)

\* It leaves the store, the files, the worker and what is enqueued alone.
LEMMA CallsLeave ==
  ASSUME Calling
  PROVE  UNCHANGED <<row, detail, dest, surge, final, enq, pw>>
<1>1. CASE \E u \in Users, y \in Ids, ev \in Events : Asks(u, y, ev) BY <1>1 DEF Asks
<1>2. CASE \E u \in Users, y \in Ids : Begins(u, y) BY <1>2 DEF Begins
<1>3. CASE \E u \in Users, y \in Ids, pc \in Removal : Proceeds(u, y, pc) BY <1>3 DEF Proceeds
<1>4. CASE \E u \in Users, y \in Ids, ev \in Events : Announces(u, y, ev) BY <1>4 DEF Announces
<1> QED BY <1>1, <1>2, <1>3, <1>4 DEF Calling

-----------------------------------------------------------------------------
(* The invariant. *)

Named(x) == enq[x] # "idle"
Known(x) == enq[x] \in {"added", "done"}
Asked(x) == budget.cancels[x] < MaxCancels

\* Where the removal of a download stands: in the call, on the bus, or with the
\* worker, which still has to remove the working file.
Cancels(u, x) == user[u].pc \in Removal /\ user[u].id = x
Leaving(x) == \E u \in Users : user[u].pc = "cpool" /\ user[u].id = x
Announced(x, i) == bus[i].type = "removed" /\ bus[i].id = x
Cleans(x) == pw.step = "files" /\ pw.ev.id = x
Removing(x) ==
  \/ \E u \in Users : Cancels(u, x)
  \/ \E i \in 1..Len(bus) : Announced(x, i)
  \/ Cleans(x)

\* The scenario has one download; it has several, and some may be removed.
Alone == \A x, y \in scenario.ids : x = y
Several == ~Alone /\ "cancel" \in scenario.ops

\* Between a crash and the end of startup nothing is under way.
DownOK == phase # "up" =>
  /\ bus = <<>> /\ pw.step = "idle" /\ \A u \in Users : user[u].pc = "idle"
  /\ \A x \in Ids : /\ enq[x] \in {"idle", "done"}
                    /\ entry[x] = None /\ run[x] = None /\ late[x] = NoEvent

\* What is under way is of downloads that were enqueued.
KnownOK ==
  /\ \A x \in Ids : Named(x) => x \in scenario.ids /\ dest[x] \in Names
  /\ \A x \in Ids : entry[x] # None \/ run[x] # None \/ late[x] # NoEvent => Known(x)
  /\ \A u \in Users : user[u].pc # "idle" => enq[user[u].id] = "done"
  /\ \A i \in 1..Len(bus) : Known(bus[i].id)
  /\ pw.step # "idle" => Known(pw.ev.id)

\* A removal under way was asked for, of a download whose Enqueue has returned.
AskedOK ==
  /\ \A x \in Ids : Asked(x) => enq[x] = "done" /\ "cancel" \in scenario.ops
  /\ \A x \in Ids : Removing(x) => Asked(x)
  /\ \A x \in kept : Known(x) /\ ~Asked(x)
  /\ \A u \in Users : user[u].pc \in Resuming => "resume" \in scenario.ops

\* The name of a download is its own until its removal is applied.
Keeps(x) == Named(x) /\ (~Asked(x) \/ (~Alone /\ Removing(x)))

\* Of the two files that may stand at the name one is there, and no other
\* download's.
NamesOK == \A x \in Ids : Keeps(x) =>
  /\ surge[dest[x]] \in {None, x} /\ final[dest[x]] \in {None, x}
  /\ surge[dest[x]] = x \/ final[dest[x]] = x

\* A download has a row until it is finished, and is completed only when its
\* file was promoted.
RowsOK ==
  /\ \A x \in Ids : ~Asked(x) /\ enq[x] \in {"row", "added", "done"} =>
                      row[x] # None \/ final[dest[x]] = x
  /\ \A x \in Ids : Keeps(x) /\ row[x] = "completed" => final[dest[x]] = x
  /\ pw.step = "final" /\ Keeps(pw.ev.id) => final[dest[pw.ev.id]] = pw.ev.id
  /\ \A x \in Ids : enq[x] \in {"idle", "reserved", "locked"} => row[x] = None

\* Where names are competed for, a download is removed once, and is not in the
\* pool again.
OneRemoval == Several =>
  \A x \in Ids :
    /\ Asked(x) => entry[x] = None \/ Leaving(x)
    /\ \A u, v \in Users : Cancels(u, x) /\ Cancels(v, x) => u = v
    /\ \A i, j \in 1..Len(bus) : Announced(x, i) /\ Announced(x, j) => i = j
    /\ \A u \in Users : Cancels(u, x) => ~Cleans(x) /\ \A i \in 1..Len(bus) : ~Announced(x, i)
    /\ \A i \in 1..Len(bus) : Announced(x, i) => ~Cleans(x)

IInv == Typed /\ DownOK /\ KnownOK /\ AskedOK /\ NamesOK /\ RowsOK /\ OneRemoval

\* Names are competed for only where a download is removed at most once and
\* cannot come back: one download alone, no removals, or no resumption and one
\* removal of each.
Apart ==
  \A s \in Scenarios :
    \/ \A x, y \in s.ids : x = y
    \/ "cancel" \notin s.ops
    \/ "resume" \notin s.ops /\ MaxCancels <= 1

\* No removal is under way at the start.
LEMMA InitSafe == Init => IInv
<1> SUFFICES ASSUME Init PROVE IInv OBVIOUS
<1>1. Typed BY InitTyped
<1>2. /\ phase = "up" /\ bus = <<>> /\ pw = IdlePw /\ kept = {}
      /\ user = [u \in Users |-> IdleUser] /\ enq = [id \in Ids |-> "idle"]
      /\ entry = [id \in Ids |-> None] /\ run = [id \in Ids |-> None]
      /\ late = [id \in Ids |-> NoEvent] /\ row = [id \in Ids |-> None]
  BY DEF Init
<1>3. \A u \in Users : user[u].pc = "idle" BY <1>2, IdleIs
<1>4. pw.step = "idle" BY <1>2 DEF IdlePw
<1>5. \A x \in Ids : budget.cancels[x] = MaxCancels BY DEF Init
<1>6. \A x \in Ids : ~Asked(x) /\ ~Named(x) /\ enq[x] = "idle" /\ row[x] = None
  BY <1>2, <1>5, Constants DEF Asked, Named
<1>7. /\ "idle" \notin Removal /\ "idle" \notin Resuming /\ "idle" # "files" /\ "idle" # "cpool"
      /\ 1..Len(bus) = {} /\ "completed" # None
  BY <1>2 DEF Removal, Resuming, None
<1>8. \A x \in Ids : ~Removing(x) BY <1>3, <1>4, <1>7 DEF Removing, Cancels, Cleans
<1>9. DownOK BY <1>2 DEF DownOK
<1>10. KnownOK BY <1>2, <1>3, <1>4, <1>6, <1>7 DEF KnownOK
<1>11. AskedOK BY <1>2, <1>3, <1>6, <1>7, <1>8 DEF AskedOK
<1>12. NamesOK BY <1>6 DEF NamesOK, Keeps
<1>13. RowsOK BY <1>4, <1>6, <1>7 DEF RowsOK
<1>14. OneRemoval BY <1>3, <1>4, <1>6, <1>7 DEF OneRemoval, Cancels, Cleans
<1> QED BY <1>1, <1>9, <1>10, <1>11, <1>12, <1>13, <1>14 DEF IInv

\* A crash leaves nothing under way, and startup is the next thing that happens.
LEMMA DownKept ==
  ASSUME Typed, DownOK, Next
  PROVE  DownOK'
<1>t. enq \in [Ids -> {"idle", "reserved", "locked", "row", "added", "done"}] BY DEF Typed, CallsTyped
<1>1. CASE \E id \in Ids : Enqueue(id)
  <2>1. PICK id \in Ids : Enqueue(id) BY <1>1
  <2>2. phase' = phase /\ (phase = "up" \/ enq[id] \notin {"idle", "done"})
    BY <2>1 DEF Enqueue, Reserve, LockEnqueue, PersistQueued, SeedAndAdd, PublishQueued, Up
  <2> QED BY <2>2 DEF DownOK
<1>2. CASE \E id \in Ids : Run(id)
  <2>1. PICK id \in Ids : Run(id) BY <1>2
  <2>2. PICK ev : Runs(id, ev) BY <2>1, RunDoes
  <2> QED BY <2>2 DEF Runs, DownOK
<1>3. CASE \E u \in Users : User(u)
  <2>1. PICK u \in Users : User(u) BY <1>3
  <2>2. phase' = phase /\ (phase = "up" \/ user[u].pc # "idle")
    BY <2>1 DEF User, PauseCall, ResumeCall, CancelCall, Call, Up, PauseLook, PausePublish,
       Extract, Hydrate, ColdLook, ColdLoad, Add, ResumePublish, CancelPool, CancelWait,
       CancelEntry, CancelPublish, UserFrame
  <2> QED BY <2>2 DEF DownOK
<1>4. CASE Persist
  <2>1. PICK ev : Persists(ev) BY <1>4, PersistDoes
  <2>2. phase' = phase /\ (phase = "up" \/ pw.step # "idle") BY <2>1 DEF Persists, Working
  <2> QED BY <2>2 DEF DownOK
<1>5. CASE Crash
  <2>1. /\ bus' = <<>> /\ pw' = IdlePw /\ user' = [u \in Users |-> IdleUser]
        /\ \A x \in Ids : /\ enq'[x] \in {"idle", "done"}
                          /\ entry'[x] = None /\ run'[x] = None /\ late'[x] = NoEvent
    BY <1>5 DEF Crash
  <2>2. IdlePw.step = "idle" /\ IdleUser.pc = "idle" BY DEF IdlePw, IdleUser
  <2> QED BY <2>1, <2>2 DEF DownOK
<1>6. CASE Recover
  <2>1. phase # "up" BY <1>6 DEF Recover, NormalizeStaleDownloads, ValidateIntegrity
  <2>2. Recovers BY <1>6 DEF Recovers, Recover, NormalizeStaleDownloads, ValidateIntegrity, pool, calls, ghost
  <2> QED BY <2>1, <2>2 DEF DownOK, Recovers
<1> QED BY <1>1, <1>2, <1>3, <1>4, <1>5, <1>6 DEF Next

-----------------------------------------------------------------------------
(* What every step leaves as it is. *)

\* What the worker does with the bus: it leaves it alone or takes its first event.
LEMMA WorkerBus ==
  ASSUME Typed, NEW ev, Working(ev)
  PROVE  \/ pw.step # "idle" /\ ev = pw.ev /\ bus' = bus
         \/ /\ pw.step = "idle" /\ 1 \in 1..Len(bus) /\ ev = bus[1]
            /\ \A i \in 1..Len(bus') : i \in Nat /\ i + 1 \in 1..Len(bus) /\ bus'[i] = bus[i + 1]
<1>1. bus \in Seq(Events) BY DEF Typed, EventsTyped
<1>2. CASE pw.step = "idle" /\ bus # <<>> /\ ev = Head(bus) /\ bus' = Tail(bus)
  <2>1. /\ Head(bus) = bus[1] /\ Len(bus) \in Nat \ {0}
        /\ Len(Tail(bus)) = Len(bus) - 1
        /\ \A i \in 1..Len(bus) - 1 : Tail(bus)[i] = bus[i + 1]
    BY <1>1, <1>2, Taken
  <2>2. \A i \in 1..Len(bus) - 1 : i \in Nat /\ i + 1 \in 1..Len(bus) BY <2>1
  <2>3. 1 \in 1..Len(bus) BY <2>1
  <2> QED BY <1>2, <2>1, <2>2, <2>3
<1> QED BY <1>2 DEF Working

\* What stands on the bus afterwards stood there before, or was sent.
LEMMA BusFrom ==
  ASSUME Typed, NEW ev \in Events, Sent(ev)
  PROVE  \A i \in 1..Len(bus') :
           (i \in 1..Len(bus) /\ bus'[i] = bus[i]) \/ (i \notin 1..Len(bus) /\ i = Len(bus) + 1 /\ bus'[i] = ev)
<1>1. /\ Len(bus) \in Nat
      /\ \A i \in 1..Len(bus) : bus'[i] = bus[i]
      /\ \A i \in 1..Len(bus') : i \in 1..Len(bus) \/ (i = Len(bus) + 1 /\ bus'[i] = ev)
  BY SentBus DEF Typed
<1>2. Len(bus) + 1 \notin 1..Len(bus) BY <1>1
<1> QED BY <1>1, <1>2

\* An Enqueue only goes on, also over a crash, and a name stays reserved.
LEMMA Grows ==
  ASSUME Typed, Steps, NEW x \in Ids
  PROVE  /\ Known(x) => Known(x)'
         /\ enq[x] = "done" => enq'[x] = "done"
         /\ Named(x)' => Named(x) \/ \E n \in Names : Reserves(x, n)
         /\ Named(x) => dest'[x] = dest[x]
<1>t. /\ enq \in [Ids -> {"idle", "reserved", "locked", "row", "added", "done"}]
      /\ dest \in [Ids -> 0..Dests]
  BY DEF Typed, CallsTyped, StoreTyped
<1>1. CASE UNCHANGED <<enq, dest>> BY <1>1 DEF Named, Known
<1>2. CASE \E y \in Ids, n \in Names : Reserves(y, n)
  <2>1. PICK y \in Ids, n \in Names : Reserves(y, n) BY <1>2
  <2>2. /\ enq[y] = "idle" /\ enq' = [enq EXCEPT ![y] = "reserved"]
        /\ dest' = [dest EXCEPT ![y] = n]
    BY <2>1 DEF Reserves
  <2>3. CASE x = y BY <1>t, <2>1, <2>2, <2>3 DEF Named, Known
  <2>4. CASE x # y
    <3>1. enq'[x] = enq[x] /\ dest'[x] = dest[x] BY <1>t, <2>2, <2>4
    <3> QED BY <3>1 DEF Named, Known
  <2> QED BY <2>3, <2>4
<1>3. CASE \E y \in Ids, ev \in Events : Enters(y, ev)
  <2>1. PICK y \in Ids, ev \in Events : Enters(y, ev) BY <1>3
  <2>2. dest' = dest BY <2>1 DEF Enters
  <2>3. enq'[x] = enq[x] \/ (enq[x] \in {"reserved", "locked", "row"} /\ ~Known(x))
        \/ (enq[x] = "added" /\ enq'[x] = "done")
    BY <1>t, <2>1 DEF Enters, Known
  <2>4. enq'[x] = enq[x] \/ enq[x] # "idle" BY <2>3
  <2>5. enq[x] = "row" => enq'[x] \in {"row", "added"} BY <1>t, <2>1 DEF Enters
  <2> QED BY <2>2, <2>3, <2>4, <2>5 DEF Named, Known
<1>4. CASE Crash
  <2>1. enq'[x] = IF enq[x] \in {"idle", "reserved", "locked"} THEN "idle" ELSE "done"
    BY <1>4 DEF Crash
  <2>2. dest' = dest BY <1>4 DEF Crash, disk
  <2> QED BY <1>t, <2>1, <2>2 DEF Named, Known
<1>5. CASE \/ \E y \in Ids, ev \in Events : Runs(y, ev)
           \/ \E u \in Users, y \in Ids, ev \in Events : Asks(u, y, ev)
  BY <1>1, <1>5 DEF Runs, Asks
<1>6. CASE \/ \E u \in Users, y \in Ids : Begins(u, y)
           \/ \E u \in Users, y \in Ids, pc \in Removal : Proceeds(u, y, pc)
           \/ \E u \in Users, y \in Ids, ev \in Events : Announces(u, y, ev)
  BY <1>1, <1>6 DEF Begins, Proceeds, Announces
<1>7. CASE (\E ev \in Events : Persists(ev)) \/ (Recover /\ Recovers)
  BY <1>1, <1>7 DEF Persists, Working, Recovers
<1> QED BY <1>2, <1>3, <1>4, <1>5, <1>6, <1>7 DEF Steps

\* Only the beginning of a removal asks for one.
LEMMA AskedFrom ==
  ASSUME Typed, Steps, NEW x \in Ids
  PROVE  /\ Asked(x) => Asked(x)'
         /\ Asked(x)' => Asked(x) \/ \E u \in Users : Begins(u, x)
<1>1. CASE budget'.cancels = budget.cancels BY <1>1 DEF Asked
<1>2. CASE \E u \in Users, y \in Ids : Begins(u, y)
  <2>1. PICK u \in Users, y \in Ids : Begins(u, y) BY <1>2
  <2>2. budget'.cancels = [budget.cancels EXCEPT ![y] = @ - 1] BY <2>1 DEF Begins
  <2>3. budget.cancels \in [Ids -> 0..MaxCancels] /\ MaxCancels \in Nat BY Constants DEF Typed, BoundsTyped
  <2>4. CASE x = y
    <3>1. budget.cancels[x] \in 0..MaxCancels /\ budget'.cancels[x] = budget.cancels[x] - 1
      BY <2>2, <2>3, <2>4
    <3>2. budget'.cancels[x] < MaxCancels BY <2>3, <3>1
    <3> QED BY <2>1, <2>4, <3>2 DEF Asked
  <2>5. CASE x # y BY <2>2, <2>3, <2>5 DEF Asked
  <2> QED BY <2>4, <2>5
<1>3. budget'.cancels = budget.cancels \/ \E u \in Users, y \in Ids : Begins(u, y)
  <2>1. CASE Crash
    <3>1. budget' = [budget EXCEPT !.crashes = @ - 1] BY <2>1 DEF Crash
    <3> QED BY <3>1 DEF Typed, BoundsTyped
  <2> QED BY <2>1 DEF Steps, Reserves, Enters, Runs, Asks, Proceeds, Announces, Persists, Working, Recovers, Spends
<1> QED BY <1>1, <1>2, <1>3

\* No removal is under way that was not, but for one that begins.
LEMMA RemovingFrom ==
  ASSUME Typed, Steps, NEW x \in Ids
  PROVE  Removing(x)' => Removing(x) \/ \E u \in Users : Begins(u, x)
<1>1. CASE UNCHANGED <<user, bus, pw>> BY <1>1 DEF Removing, Cancels, Announced, Cleans
<1>2. ASSUME NEW ev \in Events, Sent(ev), ev.type # "removed", UNCHANGED pw,
             \A u \in Users : Cancels(u, x)' => Cancels(u, x)
      PROVE  Removing(x)' => Removing(x)
  <2>1. \A i \in 1..Len(bus') : Announced(x, i)' => i \in 1..Len(bus) /\ Announced(x, i)
    BY <1>2, BusFrom DEF Announced
  <2> QED BY <1>2, <2>1 DEF Removing, Cleans
<1>3. CASE \E y \in Ids, ev \in Events : Enters(y, ev) \/ Runs(y, ev)
  <2>1. PICK y \in Ids, ev \in Events : Enters(y, ev) \/ Runs(y, ev) BY <1>3
  <2>2. Sent(ev) /\ ev.type # "removed" /\ UNCHANGED <<pw, user>> BY <2>1 DEF Enters, Runs
  <2>3. \A u \in Users : Cancels(u, x)' => Cancels(u, x) BY <2>2 DEF Cancels
  <2> QED BY <1>2, <2>1, <2>2, <2>3
<1>4. CASE \E u \in Users, y \in Ids, ev \in Events : Asks(u, y, ev)
  <2>1. PICK u \in Users, y \in Ids, ev \in Events : Asks(u, y, ev) BY <1>4
  <2>2. Sent(ev) /\ ev.type # "removed" /\ UNCHANGED pw BY <2>1 DEF Asks
  <2>3. \A v \in Users : Cancels(v, x)' => Cancels(v, x) BY <2>1 DEF Cancels, Asks
  <2> QED BY <1>2, <2>1, <2>2, <2>3
<1>5. CASE \E u \in Users, y \in Ids : Begins(u, y)
  <2>1. PICK u \in Users, y \in Ids : Begins(u, y) BY <1>5
  <2>2. CASE x = y BY <2>1, <2>2
  <2>3. CASE x # y
    <3>1. \A v \in Users : Cancels(v, x)' => Cancels(v, x) BY <2>1, <2>3 DEF Cancels, Begins
    <3>2. UNCHANGED <<bus, pw>> BY <2>1 DEF Begins
    <3> QED BY <3>1, <3>2 DEF Removing, Announced, Cleans
  <2> QED BY <2>2, <2>3
<1>6. CASE \E u \in Users, y \in Ids, pc \in Removal : Proceeds(u, y, pc)
  <2>1. PICK u \in Users, y \in Ids, pc \in Removal : Proceeds(u, y, pc) BY <1>6
  <2>2. \A v \in Users : Cancels(v, x)' => Cancels(v, x) BY <2>1 DEF Cancels, Proceeds
  <2>3. UNCHANGED <<bus, pw>> BY <2>1 DEF Proceeds
  <2> QED BY <2>2, <2>3 DEF Removing, Announced, Cleans
<1>7. CASE \E u \in Users, y \in Ids, ev \in Events : Announces(u, y, ev)
  <2>1. PICK u \in Users, y \in Ids, ev \in Events : Announces(u, y, ev) BY <1>7
  <2>2. Sent(ev) /\ UNCHANGED pw /\ ev.id = y BY <2>1 DEF Announces
  <2>3. Cancels(u, y) BY <2>1 DEF Announces, Cancels, Removal
  <2>4. \A v \in Users : Cancels(v, x)' => Cancels(v, x)
    BY <2>1 DEF Cancels, Announces, Removal
  <2>5. \A i \in 1..Len(bus') : Announced(x, i)' => x = y \/ (i \in 1..Len(bus) /\ Announced(x, i))
    BY <2>2, BusFrom DEF Announced
  <2> QED BY <2>2, <2>3, <2>4, <2>5 DEF Removing, Cleans
<1>8. CASE \E ev \in Events : Persists(ev)
  <2>1. PICK ev \in Events : Persists(ev) BY <1>8
  <2>w. Working(ev) BY <2>1 DEF Persists
  <2>2. \A v \in Users : Cancels(v, x)' => Cancels(v, x) BY <2>w DEF Cancels, Working
  <2>3. \A i \in 1..Len(bus') : Announced(x, i)' => \E j \in 1..Len(bus) : Announced(x, j)
    BY <2>w, WorkerBus DEF Announced
  <2>4. Cleans(x)' => \E j \in 1..Len(bus) : Announced(x, j)
    <3>1. SUFFICES ASSUME Cleans(x)' PROVE \E j \in 1..Len(bus) : Announced(x, j) OBVIOUS
    <3>2. pw'.step = "files" /\ pw'.ev.id = x BY <3>1 DEF Cleans
    <3>3. Deletes(ev) BY <2>1, <3>2 DEF Persists, Notes, Promotes, Records, Removes
    <3>4. pw'.ev = ev BY <2>w, <3>2 DEF Working
    <3>5. pw.step = "idle" /\ ev.type = "removed" /\ ev.id = x BY <3>2, <3>3, <3>4 DEF Deletes
    <3>6. 1 \in 1..Len(bus) /\ ev = bus[1] BY <2>w, <3>5, WorkerBus
    <3> QED BY <3>5, <3>6 DEF Announced
  <2> QED BY <2>2, <2>3, <2>4 DEF Removing
<1>9. CASE Crash
  <2>1. bus' = <<>> /\ pw'.step = "idle" /\ \A v \in Users : user'[v].pc = "idle"
    BY <1>9, IdleIs DEF Crash, IdlePw
  <2>2. Len(bus') = 0 BY <2>1
  <2> QED BY <2>1, <2>2 DEF Removing, Cancels, Cleans, Removal
<1>10. CASE (\E y \in Ids, n \in Names : Reserves(y, n)) \/ (Recover /\ Recovers)
  BY <1>1, <1>10 DEF Reserves, Recovers
<1> QED BY <1>3, <1>4, <1>5, <1>6, <1>7, <1>8, <1>9, <1>10 DEF Steps

-----------------------------------------------------------------------------
(* What is under way is of known downloads. *)

\* Who asks, asks for a download whose Enqueue has returned.
LEMMA AsksKnown ==
  ASSUME Typed, KnownOK, NEW u \in Users, NEW x \in Ids, NEW ev,
         Asks(u, x, ev) \/ Begins(u, x) \/ (\E pc \in Removal : Proceeds(u, x, pc)) \/ Announces(u, x, ev)
  PROVE  enq[x] = "done"
<1>1. (user[u].pc # "idle" /\ user[u].id = x) \/ enq[x] = "done"
  BY DEF Asks, Begins, Proceeds, Announces, Removal
<1> QED BY <1>1 DEF KnownOK

\* The entry, the run and the owed event of a download are those of a known one.
LEMMA PoolKnown ==
  ASSUME Typed, KnownOK, Steps, NEW x \in Ids,
         entry'[x] # None \/ run'[x] # None \/ late'[x] # NoEvent
  PROVE  Known(x)'
<1>0. Known(x) => Known(x)' BY Grows
<1>1. CASE entry'[x] = entry[x] /\ run'[x] = run[x] /\ late'[x] = late[x]
  BY <1>0, <1>1 DEF KnownOK
<1>2. CASE \E y \in Ids, ev \in Events : Enters(y, ev)
  <2>1. PICK y \in Ids, ev \in Events : Enters(y, ev) BY <1>2
  <2>2. CASE entry' = entry BY <1>1, <2>1, <2>2 DEF Enters
  <2>3. CASE enq' = [enq EXCEPT ![y] = "added"] /\ entry' = [entry EXCEPT ![y] = "queued"]
    <3>1. CASE x = y BY <2>3, <3>1 DEF Known, Typed, CallsTyped
    <3>2. CASE x # y
      <4>1. entry'[x] = entry[x] BY <2>3, <3>2 DEF Typed, PoolTyped
      <4> QED BY <1>1, <2>1, <4>1 DEF Enters
    <3> QED BY <3>1, <3>2
  <2> QED BY <2>1, <2>2, <2>3 DEF Enters
<1>3. CASE \E y \in Ids, ev \in Events : Runs(y, ev)
  <2>1. PICK y \in Ids, ev \in Events : Runs(y, ev) BY <1>3
  <2>2. CASE x = y
    <3>1. entry[x] # None \/ run[x] # None \/ late[x] # NoEvent BY <2>1, <2>2 DEF Runs
    <3> QED BY <1>0, <3>1 DEF KnownOK
  <2>3. CASE x # y
    <3>1. entry'[x] = entry[x] /\ run'[x] = run[x] /\ late'[x] = late[x] BY <2>1, <2>3 DEF Runs
    <3> QED BY <1>1, <3>1
  <2> QED BY <2>2, <2>3
<1>4. CASE \E u \in Users, y \in Ids, ev \in Events : Asks(u, y, ev)
  <2>1. PICK u \in Users, y \in Ids, ev \in Events : Asks(u, y, ev) BY <1>4
  <2>2. CASE x = y
    <3>1. enq[x] = "done" BY <2>1, <2>2, AsksKnown
    <3> QED BY <1>0, <3>1 DEF Known
  <2>3. CASE x # y
    <3>1. entry'[x] = entry[x] /\ run'[x] = run[x] /\ late'[x] = late[x] BY <2>1, <2>3 DEF Asks
    <3> QED BY <1>1, <3>1
  <2> QED BY <2>2, <2>3
<1>5. CASE \E u \in Users, y \in Ids, pc \in Removal : Proceeds(u, y, pc)
  <2>1. PICK u \in Users, y \in Ids, pc \in Removal : Proceeds(u, y, pc) BY <1>5
  <2>2. CASE x = y
    <3>1. enq[x] = "done" BY <2>1, <2>2, AsksKnown
    <3> QED BY <1>0, <3>1 DEF Known
  <2>3. CASE x # y
    <3>1. entry'[x] = entry[x] /\ run'[x] = run[x] /\ late'[x] = late[x]
      BY <2>1, <2>3 DEF Proceeds, Typed, PoolTyped
    <3> QED BY <1>1, <3>1
  <2> QED BY <2>2, <2>3
<1>6. CASE Crash BY <1>6 DEF Crash
<1>7. CASE \/ \E y \in Ids, n \in Names : Reserves(y, n)
           \/ \E u \in Users, y \in Ids : Begins(u, y)
           \/ \E u \in Users, y \in Ids, ev \in Events : Announces(u, y, ev)
  BY <1>1, <1>7 DEF Reserves, Begins, Announces
<1>8. CASE (\E ev \in Events : Persists(ev)) \/ (Recover /\ Recovers)
  BY <1>1, <1>8 DEF Persists, Working, Recovers
<1> QED BY <1>2, <1>3, <1>4, <1>5, <1>6, <1>7, <1>8 DEF Steps

\* A call is for a download whose Enqueue has returned.
LEMMA UserKnown ==
  ASSUME Typed, KnownOK, Steps, NEW v \in Users, user'[v].pc # "idle"
  PROVE  enq'[user'[v].id] = "done"
<1>0. \A y \in Ids : enq[y] = "done" => enq'[y] = "done" BY Grows
<1>1. CASE user'[v] = user[v]
  <2>1. user[v].id \in Ids /\ enq[user[v].id] = "done" BY <1>1 DEF KnownOK, Typed, CallsTyped
  <2> QED BY <1>0, <1>1, <2>1
<1>2. ASSUME NEW u \in Users, NEW y \in Ids, enq[y] = "done",
             \A w \in Users \ {u} : user'[w] = user[w], user'[u].pc # "idle" => user'[u].id = y
      PROVE  enq'[user'[v].id] = "done"
  <2>1. CASE v = u BY <1>0, <1>2, <2>1
  <2>2. CASE v # u BY <1>1, <1>2, <2>2
  <2> QED BY <2>1, <2>2
<1>3. CASE \E u \in Users, y \in Ids, ev \in Events : Asks(u, y, ev)
  <2>1. PICK u \in Users, y \in Ids, ev \in Events : Asks(u, y, ev) BY <1>3
  <2>2. enq[y] = "done" BY <2>1, AsksKnown
  <2>3. (\A w \in Users \ {u} : user'[w] = user[w]) /\ (user'[u].pc # "idle" => user'[u].id = y)
    BY <2>1 DEF Asks
  <2> QED BY <1>2, <2>2, <2>3
<1>4. CASE \E u \in Users, y \in Ids : Begins(u, y)
  <2>1. PICK u \in Users, y \in Ids : Begins(u, y) BY <1>4
  <2>2. enq[y] = "done" BY <2>1 DEF Begins
  <2>3. (\A w \in Users \ {u} : user'[w] = user[w]) /\ (user'[u].pc # "idle" => user'[u].id = y)
    BY <2>1 DEF Begins
  <2> QED BY <1>2, <2>2, <2>3
<1>5. CASE \E u \in Users, y \in Ids, pc \in Removal : Proceeds(u, y, pc)
  <2>1. PICK u \in Users, y \in Ids, pc \in Removal : Proceeds(u, y, pc) BY <1>5
  <2>2. enq[y] = "done" BY <2>1, AsksKnown
  <2>3. (\A w \in Users \ {u} : user'[w] = user[w]) /\ (user'[u].pc # "idle" => user'[u].id = y)
    BY <2>1 DEF Proceeds
  <2> QED BY <1>2, <2>2, <2>3
<1>6. CASE \E u \in Users, y \in Ids, ev \in Events : Announces(u, y, ev)
  <2>1. PICK u \in Users, y \in Ids, ev \in Events : Announces(u, y, ev) BY <1>6
  <2>2. enq[y] = "done" BY <2>1, AsksKnown
  <2>3. (\A w \in Users \ {u} : user'[w] = user[w]) /\ (user'[u].pc # "idle" => user'[u].id = y)
    BY <2>1 DEF Announces
  <2> QED BY <1>2, <2>2, <2>3
<1>7. CASE Crash
  <2>1. user'[v].pc = "idle" BY <1>7, IdleIs DEF Crash
  <2> QED BY <2>1
<1>8. CASE \/ \E y \in Ids, n \in Names : Reserves(y, n)
           \/ \E y \in Ids, ev \in Events : Enters(y, ev) \/ Runs(y, ev)
  BY <1>1, <1>8 DEF Reserves, Enters, Runs
<1>9. CASE (\E ev \in Events : Persists(ev)) \/ (Recover /\ Recovers)
  BY <1>1, <1>9 DEF Persists, Working, Recovers
<1> QED BY <1>3, <1>4, <1>5, <1>6, <1>7, <1>8, <1>9 DEF Steps

\* An event on the bus, or with the worker, is of a known download.
LEMMA EventKnown ==
  ASSUME Typed, KnownOK, Steps
  PROVE  /\ \A i \in 1..Len(bus') : Known(bus[i].id)'
         /\ pw'.step # "idle" => Known(pw.ev.id)'
<1>t. /\ \A i \in 1..Len(bus) : bus[i].id \in Ids /\ Known(bus[i].id)
      /\ pw.step # "idle" => pw.ev.id \in Ids /\ Known(pw.ev.id)
  <2>1. \A i \in 1..Len(bus) : bus[i] \in Events BY DEF Typed, EventsTyped
  <2>2. pw.step # "idle" => pw.ev \in Events BY DEF Typed, EventsTyped
  <2> QED BY <2>1, <2>2, EventFields DEF KnownOK
<1>0. \A y \in Ids : Known(y) => Known(y)' BY Grows
<1>1. CASE UNCHANGED <<bus, pw>>
  <2>1. \A i \in 1..Len(bus') : enq'[bus'[i].id] \in {"added", "done"} BY <1>t, <1>0, <1>1 DEF Known
  <2>2. pw'.step # "idle" => enq'[pw'.ev.id] \in {"added", "done"} BY <1>t, <1>0, <1>1 DEF Known
  <2> QED BY <2>1, <2>2 DEF Known
<1>2. ASSUME NEW ev \in Events, Sent(ev), UNCHANGED pw, Known(ev.id) \/ bus' = bus
      PROVE  /\ \A i \in 1..Len(bus') : Known(bus[i].id)'
             /\ pw'.step # "idle" => Known(pw.ev.id)'
  <2>1. CASE bus' = bus BY <1>1, <1>2, <2>1
  <2>2. CASE Known(ev.id)
    <3>1. ev.id \in Ids BY EventFields
    <3>2. \A i \in 1..Len(bus') : enq'[bus'[i].id] \in {"added", "done"}
      BY <1>t, <1>0, <1>2, <2>2, <3>1, BusFrom DEF Known
    <3>3. pw'.step # "idle" => enq'[pw'.ev.id] \in {"added", "done"} BY <1>t, <1>0, <1>2 DEF Known
    <3> QED BY <3>2, <3>3 DEF Known
  <2> QED BY <1>2, <2>1, <2>2
<1>3. CASE \E y \in Ids, ev \in Events : Enters(y, ev)
  <2>1. PICK y \in Ids, ev \in Events : Enters(y, ev) BY <1>3
  <2>2. Sent(ev) /\ UNCHANGED pw /\ (Known(ev.id) \/ bus' = bus) BY <2>1 DEF Enters, Known
  <2> QED BY <1>2, <2>2
<1>4. CASE \E y \in Ids, ev \in Events : Runs(y, ev)
  <2>1. PICK y \in Ids, ev \in Events : Runs(y, ev) BY <1>4
  <2>2. Sent(ev) /\ UNCHANGED pw /\ ev.id = y BY <2>1 DEF Runs
  <2>3. Known(y) BY <2>1 DEF Runs, KnownOK
  <2> QED BY <1>2, <2>2, <2>3
<1>5. CASE \E u \in Users, y \in Ids, ev \in Events : Asks(u, y, ev) \/ Announces(u, y, ev)
  <2>1. PICK u \in Users, y \in Ids, ev \in Events : Asks(u, y, ev) \/ Announces(u, y, ev) BY <1>5
  <2>2. Sent(ev) /\ UNCHANGED pw /\ ev.id = y BY <2>1 DEF Asks, Announces
  <2>3. Known(y) BY <2>1, AsksKnown DEF Known
  <2> QED BY <1>2, <2>2, <2>3
<1>6. CASE \E ev \in Events : Persists(ev)
  <2>1. PICK ev \in Events : Persists(ev) BY <1>6
  <2>w. Working(ev) BY <2>1 DEF Persists
  <2>2. Known(ev.id) /\ ev.id \in Ids BY <1>t, <2>w, WorkerBus
  <2>3. \A i \in 1..Len(bus') : \E j \in 1..Len(bus) : bus'[i] = bus[j] BY <2>w, WorkerBus
  <2>4. \A i \in 1..Len(bus') : enq'[bus'[i].id] \in {"added", "done"} BY <1>t, <1>0, <2>3 DEF Known
  <2>5. pw'.step # "idle" => pw'.ev = ev BY <2>w DEF Working
  <2>6. pw'.step # "idle" => enq'[pw'.ev.id] \in {"added", "done"} BY <1>0, <2>2, <2>5 DEF Known
  <2> QED BY <2>4, <2>6 DEF Known
<1>7. CASE Crash
  <2>1. bus' = <<>> /\ pw'.step = "idle" BY <1>7 DEF Crash, IdlePw
  <2> QED BY <2>1
<1>8. CASE \/ \E y \in Ids, n \in Names : Reserves(y, n)
           \/ \E u \in Users, y \in Ids : Begins(u, y)
           \/ \E u \in Users, y \in Ids, pc \in Removal : Proceeds(u, y, pc)
           \/ Recover /\ Recovers
  BY <1>1, <1>8 DEF Reserves, Begins, Proceeds, Recovers
<1> QED BY <1>3, <1>4, <1>5, <1>6, <1>7, <1>8 DEF Steps

\* What is under way stays of known downloads.
LEMMA KnownKept ==
  ASSUME Typed, KnownOK, Steps, scenario' = scenario
  PROVE  KnownOK'
<1>1. \A x \in Ids : Named(x)' => x \in scenario.ids /\ dest'[x] \in Names
  <2>1. SUFFICES ASSUME NEW x \in Ids, Named(x)' PROVE x \in scenario.ids /\ dest'[x] \in Names
    OBVIOUS
  <2>2. CASE Named(x) BY <2>2, Grows DEF KnownOK
  <2>3. CASE \E n \in Names : Reserves(x, n)
    <3>1. PICK n \in Names : Reserves(x, n) BY <2>3
    <3>2. x \in scenario.ids /\ dest' = [dest EXCEPT ![x] = n] BY <3>1 DEF Reserves
    <3>3. dest'[x] = n BY <3>2 DEF Typed, StoreTyped
    <3> QED BY <3>2, <3>3
  <2> QED BY <2>1, <2>2, <2>3, Grows
<1>2. \A x \in Ids : entry'[x] # None \/ run'[x] # None \/ late'[x] # NoEvent => Known(x)'
  BY PoolKnown
<1>3. \A u \in Users : user'[u].pc # "idle" => enq'[user'[u].id] = "done" BY UserKnown
<1>4. /\ \A i \in 1..Len(bus') : Known(bus[i].id)'
      /\ pw'.step # "idle" => Known(pw.ev.id)'
  BY EventKnown
<1> QED BY <1>1, <1>2, <1>3, <1>4 DEF KnownOK

\* A removal that begins was asked for.
LEMMA BeginsAsked ==
  ASSUME Typed, NEW u \in Users, NEW x \in Ids, Begins(u, x)
  PROVE  Asked(x)' /\ kept' = kept \ {x} /\ enq[x] = "done" /\ "cancel" \in scenario.ops
<1>1. budget'.cancels = [budget.cancels EXCEPT ![x] = @ - 1] BY DEF Begins
<1>2. /\ budget.cancels \in [Ids -> 0..MaxCancels] /\ MaxCancels \in Nat
      /\ budget.cancels[x] \in 0..MaxCancels
  BY Constants DEF Typed, BoundsTyped
<1>3. budget'.cancels[x] = budget.cancels[x] - 1 BY <1>1, <1>2
<1>4. budget'.cancels[x] < MaxCancels BY <1>2, <1>3
<1> QED BY <1>4 DEF Asked, Begins

\* A removal under way stays asked for.
LEMMA AskedKept ==
  ASSUME Typed, KnownOK, AskedOK, Steps, scenario' = scenario
  PROVE  AskedOK'
<1>1. \A x \in Ids : Asked(x)' => enq'[x] = "done" /\ "cancel" \in scenario.ops
  BY AskedFrom, BeginsAsked, Grows DEF AskedOK
<1>2. \A x \in Ids : Removing(x)' => Asked(x)'
  BY RemovingFrom, AskedFrom, BeginsAsked DEF AskedOK
<1>3. \A x \in kept' : Known(x)' /\ ~Asked(x)'
  <2>1. SUFFICES ASSUME NEW x \in kept' PROVE Known(x)' /\ ~Asked(x)' OBVIOUS
  <2>k. kept \subseteq Ids BY DEF Typed, BoundsTyped
  <2>2. CASE x \in kept
    <3>1. x \in Ids /\ Known(x)' BY <2>k, <2>2, Grows DEF AskedOK
    <3>2. ~Asked(x)' BY <2>1, <2>2, <3>1, AskedFrom, BeginsAsked DEF AskedOK
    <3> QED BY <3>1, <3>2
  <2>3. CASE x \notin kept
    <3>1. PICK y \in Ids, ev \in Events : Enters(y, ev)
      <4>1. CASE \/ \E y \in Ids, n \in Names : Reserves(y, n)
                 \/ \E y \in Ids, ev \in Events : Runs(y, ev)
                 \/ \E u \in Users, y \in Ids, ev \in Events : Asks(u, y, ev)
        BY <2>1, <2>3, <4>1 DEF Reserves, Runs, Asks
      <4>2. CASE \/ \E u \in Users, y \in Ids : Begins(u, y)
                 \/ \E u \in Users, y \in Ids, pc \in Removal : Proceeds(u, y, pc)
                 \/ \E u \in Users, y \in Ids, ev \in Events : Announces(u, y, ev)
        BY <2>1, <2>3, <4>2 DEF Begins, Proceeds, Announces
      <4>3. CASE (\E ev \in Events : Persists(ev)) \/ Crash \/ (Recover /\ Recovers)
        BY <2>1, <2>3, <4>3 DEF Persists, Working, Crash, Recovers
      <4> QED BY <4>1, <4>2, <4>3 DEF Steps
    <3>2. x = y /\ enq[x] = "row" /\ enq' = [enq EXCEPT ![x] = "added"] BY <2>1, <2>3, <3>1 DEF Enters
    <3>3. ~Asked(x) BY <3>1, <3>2 DEF AskedOK
    <3>4. ~Asked(x)' BY <3>1, <3>2, <3>3, AskedFrom, BeginsAsked
    <3>5. Known(x)' BY <3>1, <3>2 DEF Known, Typed, CallsTyped
    <3> QED BY <3>4, <3>5
  <2> QED BY <2>2, <2>3
<1>4. \A v \in Users : user'[v].pc \in Resuming => "resume" \in scenario.ops
  <2>1. SUFFICES ASSUME NEW v \in Users, user'[v].pc \in Resuming PROVE "resume" \in scenario.ops
    OBVIOUS
  <2>2. CASE user'[v] = user[v] BY <2>1, <2>2 DEF AskedOK
  <2>3. CASE user'[v] # user[v]
    <3>1. CASE \E u \in Users, y \in Ids, ev \in Events : Asks(u, y, ev)
      <4>1. PICK u \in Users, y \in Ids, ev \in Events : Asks(u, y, ev) BY <3>1
      <4>2. v = u BY <2>3, <4>1 DEF Asks
      <4> QED BY <2>1, <4>1, <4>2 DEF Asks, AskedOK
    <3>2. CASE \E u \in Users, y \in Ids : Begins(u, y)
      <4>1. PICK u \in Users, y \in Ids : Begins(u, y) BY <3>2
      <4>2. user'[v].pc = "cpool" BY <2>3, <4>1 DEF Begins
      <4> QED BY <2>1, <4>2 DEF Resuming
    <3>3. CASE \E u \in Users, y \in Ids, pc \in Removal : Proceeds(u, y, pc)
      <4>1. PICK u \in Users, y \in Ids, pc \in Removal : Proceeds(u, y, pc) BY <3>3
      <4>2. user'[v].pc \in {"cwait", "centry", "cpub"} BY <2>3, <4>1 DEF Proceeds
      <4> QED BY <2>1, <4>2 DEF Resuming
    <3>4. CASE \E u \in Users, y \in Ids, ev \in Events : Announces(u, y, ev)
      <4>1. PICK u \in Users, y \in Ids, ev \in Events : Announces(u, y, ev) BY <3>4
      <4>2. user'[v].pc = "idle" BY <2>3, <4>1 DEF Announces
      <4> QED BY <2>1, <4>2 DEF Resuming
    <3>5. CASE Crash
      <4>1. user'[v].pc = "idle" BY <3>5, IdleIs DEF Crash
      <4> QED BY <2>1, <4>1 DEF Resuming
    <3>6. CASE user' = user BY <2>3, <3>6
    <3> QED BY <3>1, <3>2, <3>3, <3>4, <3>5, <3>6
        DEF Steps, Reserves, Enters, Runs, Persists, Working, Recovers
  <2> QED BY <2>2, <2>3
<1> QED BY <1>1, <1>2, <1>3, <1>4 DEF AskedOK

-----------------------------------------------------------------------------
(* Names. *)

\* Of a download that comes to keep its name, the name was just reserved.
LEMMA KeepsFrom ==
  ASSUME Typed, Apart, Steps, scenario' = scenario, NEW x \in Ids, Keeps(x)'
  PROVE  Keeps(x) \/ \E n \in Names : Reserves(x, n)
<1>1. Named(x)' /\ (~Asked(x)' \/ (~Alone /\ Removing(x)')) BY DEF Keeps, Alone
<1>2. CASE ~Named(x) BY <1>1, <1>2, Grows
<1>3. CASE Named(x) /\ ~Asked(x)
  BY <1>3 DEF Keeps
<1>4. CASE Named(x) /\ Asked(x)
  <2>1. Asked(x)' BY <1>4, AskedFrom
  <2>2. ~Alone /\ (Removing(x) \/ \E u \in Users : Begins(u, x)) BY <1>1, <2>1, RemovingFrom
  <2>3. CASE Removing(x) BY <1>4, <2>2, <2>3 DEF Keeps
  <2>4. CASE \E u \in Users : Begins(u, x)
    <3>1. "cancel" \in scenario.ops /\ budget.cancels[x] > 0 BY <2>4 DEF Begins
    <3>2. scenario \in Scenarios BY DEF Typed, BoundsTyped
    <3>3. MaxCancels <= 1 BY <2>2, <3>1, <3>2 DEF Apart, Alone
    <3>4. budget.cancels[x] \in 0..MaxCancels /\ MaxCancels \in Nat BY Constants DEF Typed, BoundsTyped
    <3>5. budget.cancels[x] < MaxCancels BY <1>4 DEF Asked
    <3> QED BY <3>1, <3>3, <3>4, <3>5
  <2> QED BY <2>2, <2>3, <2>4
<1> QED BY <1>2, <1>3, <1>4

\* Two downloads that keep their names have two names.
LEMMA Apartness ==
  ASSUME NamesOK, NEW x \in Ids, NEW y \in Ids, Keeps(x), Keeps(y), dest[x] = dest[y]
  PROVE  x = y
<1>1. None \notin Ids BY Constants
<1> QED BY <1>1 DEF NamesOK

\* Whoever makes or removes a working file keeps its name, unless the download
\* is the only one.
LEMMA Holder ==
  ASSUME KnownOK, AskedOK, OneRemoval, NEW y \in Ids, NEW x \in Ids, Named(x),
         entry[y] # None \/ (pw.step = "files" /\ pw.ev.id = y)
  PROVE  x = y \/ Keeps(y)
<1>1. Known(y) BY DEF KnownOK
<1>2. Named(y) BY <1>1 DEF Known, Named
<1>3. CASE Alone BY <1>2, <1>3 DEF Alone, KnownOK
<1>4. CASE ~Asked(y) BY <1>2, <1>4 DEF Keeps
<1>5. CASE ~Alone /\ Asked(y)
  <2>1. Several BY <1>5 DEF AskedOK, Several
  <2>2. entry[y] = None \/ Leaving(y) BY <1>5, <2>1 DEF OneRemoval
  <2>3. Removing(y)
    <3>1. CASE entry[y] # None
      <4>1. PICK u \in Users : user[u].pc = "cpool" /\ user[u].id = y BY <2>2, <3>1 DEF Leaving
      <4>2. Cancels(u, y) BY <4>1 DEF Cancels, Removal
      <4> QED BY <4>2 DEF Removing
    <3>2. CASE pw.step = "files" /\ pw.ev.id = y BY <3>2 DEF Removing, Cleans
    <3> QED BY <3>1, <3>2
  <2> QED BY <1>2, <1>5, <2>3 DEF Keeps
<1> QED BY <1>3, <1>4, <1>5

\* After the working file was removed the removal is over.
LEMMA CleanedUp ==
  ASSUME Typed, AskedOK, OneRemoval, NEW ev \in Events, Working(ev), Removes(ev), scenario' = scenario
  PROVE  ~Keeps(ev.id)'
<1> DEFINE x == ev.id
<1>1. x \in Ids BY EventFields
<1>2. pw.step = "files" /\ pw.ev = ev /\ bus' = bus /\ pw'.step = "idle" BY DEF Removes, Working
<1>3. Cleans(x) BY <1>2 DEF Cleans
<1>4. Asked(x) BY <1>1, <1>3 DEF AskedOK, Removing
<1>5. Asked(x)' BY <1>4 DEF Asked, Working
<1>6. SUFFICES ASSUME ~Alone PROVE ~Removing(x)' BY <1>5 DEF Keeps, Alone
<1>7. Several BY <1>1, <1>4, <1>6 DEF Several, AskedOK
<1>8. /\ \A u \in Users : ~Cancels(u, x)
      /\ \A i \in 1..Len(bus) : ~Announced(x, i)
  BY <1>1, <1>3, <1>7 DEF OneRemoval
<1>9. \A u \in Users : ~Cancels(u, x)' BY <1>8 DEF Cancels, Working
<1>10. \A i \in 1..Len(bus') : ~Announced(x, i)' BY <1>2, <1>8 DEF Announced
<1>11. ~Cleans(x)' BY <1>2 DEF Cleans
<1> QED BY <1>9, <1>10, <1>11 DEF Removing

\* The name of a download stays its own.
LEMMA NamesKept ==
  ASSUME IInv, Apart, Steps, scenario' = scenario
  PROVE  NamesOK'
<1>i. Typed /\ DownOK /\ KnownOK /\ AskedOK /\ NamesOK /\ RowsOK /\ OneRemoval BY DEF IInv
<1>t. /\ surge \in [Names -> Ids \cup {None}] /\ final \in [Names -> Ids \cup {None}]
      /\ dest \in [Ids -> 0..Dests] /\ None \notin Ids
  BY <1>i, Constants DEF Typed, StoreTyped
<1> SUFFICES ASSUME NEW x \in Ids, Keeps(x)'
             PROVE  /\ surge'[dest'[x]] \in {None, x} /\ final'[dest'[x]] \in {None, x}
                    /\ surge'[dest'[x]] = x \/ final'[dest'[x]] = x
  BY DEF NamesOK
<1>1. CASE \E n \in Names : Reserves(x, n)
  <2>1. PICK n \in Names : Reserves(x, n) BY <1>1
  <2>2. /\ surge' = [surge EXCEPT ![n] = x] /\ dest' = [dest EXCEPT ![x] = n]
        /\ final[n] = None /\ final' = final
    BY <2>1 DEF Reserves
  <2>3. dest'[x] = n /\ surge'[n] = x BY <1>t, <2>2
  <2> QED BY <2>2, <2>3
<1>2. CASE Keeps(x)
  <2> DEFINE d == dest[x]
  <2>1. Named(x) /\ d \in Names /\ dest'[x] = d BY <1>i, <1>2, Grows DEF Keeps, KnownOK
  <2>2. /\ surge[d] \in {None, x} /\ final[d] \in {None, x}
        /\ surge[d] = x \/ final[d] = x
    BY <1>i, <1>2 DEF NamesOK
  <2>3. CASE surge'[d] = surge[d] /\ final'[d] = final[d] BY <2>1, <2>2, <2>3
  <2>4. CASE \E y \in Ids, n \in Names : Reserves(y, n)
    <3>1. PICK y \in Ids, n \in Names : Reserves(y, n) BY <2>4
    <3>2. /\ surge' = [surge EXCEPT ![n] = y] /\ surge[n] = None /\ final[n] = None
          /\ final' = final
      BY <3>1 DEF Reserves
    <3>3. n # d BY <1>t, <2>2, <3>2
    <3> QED BY <1>t, <2>1, <2>3, <3>2, <3>3
  <2>5. CASE \E y \in Ids, ev \in Events : Runs(y, ev)
    <3>1. PICK y \in Ids, ev \in Events : Runs(y, ev) BY <2>5
    <3>2. final' = final BY <3>1 DEF Runs
    <3>3. CASE surge' = surge BY <2>3, <3>2, <3>3
    <3>4. CASE entry[y] # None /\ surge[dest[y]] = None /\ surge' = [surge EXCEPT ![dest[y]] = y]
      <4>1. CASE dest[y] # d BY <1>t, <2>1, <2>3, <3>2, <3>4, <4>1
      <4>2. CASE dest[y] = d
        <5>1. x = y \/ Keeps(y) BY <1>i, <2>1, <3>4, Holder
        <5>2. x = y BY <1>i, <1>2, <4>2, <5>1, Apartness
        <5>3. surge'[d] = x BY <1>t, <2>1, <3>4, <4>2, <5>2
        <5> QED BY <2>1, <2>2, <3>2, <5>3
      <4> QED BY <4>1, <4>2
    <3> QED BY <3>1, <3>3, <3>4 DEF Runs
  <2>6. CASE \E ev \in Events : Persists(ev)
    <3>1. PICK ev \in Events : Persists(ev) BY <2>6
    <3>2. CASE UNCHANGED <<surge, final>> BY <2>3, <3>2
    <3>3. CASE Promotes(ev)
      <4> DEFINE name == dest[ev.id]
      <4>1. CASE /\ surge[name] # None /\ surge' = [surge EXCEPT ![name] = None]
                 /\ final' = [final EXCEPT ![name] = surge[name]]
        <5>1. CASE name # d BY <1>t, <2>1, <2>3, <4>1, <5>1
        <5>2. CASE name = d
          <6>1. surge[d] = x BY <2>2, <4>1, <5>2
          <6>2. surge'[d] = None /\ final'[d] = x BY <1>t, <2>1, <4>1, <5>2, <6>1
          <6> QED BY <2>1, <6>2
        <5> QED BY <5>1, <5>2
      <4> QED BY <3>2, <3>3, <4>1 DEF Promotes
    <3>4. CASE Removes(ev)
      <4> DEFINE y == ev.id
      <4>0. Working(ev) BY <3>1 DEF Persists
      <4>1. final' = final /\ surge' = [surge EXCEPT ![dest[y]] = None] /\ y \in Ids
        BY <3>4, EventFields DEF Removes
      <4>2. CASE dest[y] # d BY <1>t, <2>1, <2>3, <4>1, <4>2
      <4>3. CASE dest[y] = d
        <5>1. x # y BY <1>i, <3>4, <4>0, CleanedUp
        <5>2. pw.step = "files" /\ pw.ev.id = y BY <3>4, <4>0 DEF Removes, Working
        <5>3. x = y \/ Keeps(y) BY <1>i, <2>1, <4>1, <5>2, Holder
        <5>4. x = y BY <1>i, <1>2, <4>1, <4>3, <5>3, Apartness
        <5> QED BY <5>1, <5>4
      <4> QED BY <4>2, <4>3
    <3> QED BY <3>1, <3>2, <3>3, <3>4 DEF Persists, Notes, Deletes, Records
  <2>7. CASE Recover /\ Recovers
    <3>1. final' = final BY <2>7 DEF Recovers
    <3>2. CASE NormalizeStaleDownloads BY <2>3, <3>1, <3>2 DEF NormalizeStaleDownloads
    <3>3. CASE ValidateIntegrity
      <4>1. surge' = [n \in Names |->
                        IF (\E id \in Ids : row[id] # None)
                           /\ n \notin {dest[id] : id \in {i \in Ids : row[i] \in Unfinished}}
                        THEN None ELSE surge[n]]
        BY <3>3 DEF ValidateIntegrity
      <4>2. surge'[d] \in {None, surge[d]} BY <2>1, <4>1
      <4>3. CASE final[d] = x BY <2>1, <2>2, <3>1, <4>2, <4>3
      <4>4. CASE final[d] # x
        <5>1. phase # "up" BY <3>3 DEF ValidateIntegrity
        <5>2. bus = <<>> /\ pw.step = "idle" /\ (\A u \in Users : user[u].pc = "idle")
              /\ enq[x] \in {"idle", "done"}
          BY <1>i, <5>1 DEF DownOK
        <5>3. ~Removing(x)
          <6>1. Len(bus) = 0 BY <5>2
          <6> QED BY <5>2, <6>1 DEF Removing, Cancels, Cleans, Removal
        <5>4. ~Asked(x) /\ enq[x] = "done" BY <1>2, <2>1, <5>2, <5>3 DEF Keeps, Named
        <5>5. row[x] # None /\ row[x] # "completed" BY <1>i, <1>2, <4>4, <5>4 DEF RowsOK
        <5>6. row[x] \in Unfinished BY <1>i, <5>5 DEF Typed, StoreTyped
        <5>7. d \in {dest[id] : id \in {i \in Ids : row[i] \in Unfinished}} BY <5>6
        <5>8. surge'[d] = surge[d] BY <2>1, <4>1, <5>7
        <5> QED BY <2>3, <3>1, <5>8
      <4> QED BY <4>3, <4>4
    <3> QED BY <2>7, <3>2, <3>3 DEF Recover
  <2>8. CASE Crash BY <2>3, <2>8 DEF Crash, disk
  <2>9. CASE (\E y \in Ids, ev \in Events : Enters(y, ev)) \/ (\E u \in Users, y \in Ids : Begins(u, y))
    BY <2>3, <2>9 DEF Enters, Begins
  <2>10. CASE \/ \E u \in Users, y \in Ids, ev \in Events : Asks(u, y, ev)
              \/ \E u \in Users, y \in Ids, pc \in Removal : Proceeds(u, y, pc)
              \/ \E u \in Users, y \in Ids, ev \in Events : Announces(u, y, ev)
    BY <2>3, <2>10 DEF Asks, Proceeds, Announces
  <2> QED BY <2>4, <2>5, <2>6, <2>7, <2>8, <2>9, <2>10 DEF Steps
<1> QED BY <1>1, <1>2, <1>i, KeepsFrom

-----------------------------------------------------------------------------
(* Rows. *)

\* A promoted file stays where it is.
LEMMA FinalStays ==
  ASSUME Typed, KnownOK, NamesOK, Steps, NEW x \in Ids, Keeps(x), final[dest[x]] = x
  PROVE  final'[dest'[x]] = x
<1> DEFINE d == dest[x]
<1>1. Named(x) /\ d \in Names /\ dest'[x] = d BY Grows DEF Keeps, KnownOK
<1>2. final \in [Names -> Ids \cup {None}] /\ surge[d] \in {None, x}
  BY DEF Typed, StoreTyped, NamesOK
<1>3. CASE final' = final BY <1>1, <1>3
<1>4. CASE \E ev \in Events : Promotes(ev)
  <2>1. PICK ev \in Events : Promotes(ev) BY <1>4
  <2>2. CASE /\ surge[dest[ev.id]] # None /\ final' = [final EXCEPT ![dest[ev.id]] = surge[dest[ev.id]]]
    <3>1. final'[d] = x BY <1>1, <1>2, <2>2
    <3> QED BY <1>1, <3>1
  <2> QED BY <1>3, <2>1, <2>2 DEF Promotes
<1>5. final' = final \/ \E ev \in Events : Promotes(ev)
  <2>1. CASE \E ev \in Events : Persists(ev)
    BY <2>1 DEF Persists, Notes, Deletes, Records, Removes
  <2>2. CASE Crash BY <2>2 DEF Crash, disk
  <2>3. CASE \/ \E y \in Ids, n \in Names : Reserves(y, n)
             \/ \E y \in Ids, ev \in Events : Enters(y, ev)
             \/ \E y \in Ids, ev \in Events : Runs(y, ev)
             \/ Recover /\ Recovers
    BY <2>3 DEF Reserves, Enters, Runs, Recovers
  <2>4. CASE Calling BY <2>4, CallsLeave
  <2> QED BY <2>1, <2>2, <2>3, <2>4 DEF Steps, Calling
<1> QED BY <1>3, <1>4, <1>5

\* Who writes rows.
LEMMA RowsFrom ==
  ASSUME Typed, Steps
  PROVE  \/ row' = row
         \/ \E y \in Ids, ev \in Events : Enters(y, ev) /\ enq[y] = "locked"
              /\ enq' = [enq EXCEPT ![y] = "row"] /\ row' = [row EXCEPT ![y] = "queued"]
         \/ \E ev \in Events : Persists(ev)
         \/ Recover /\ Recovers
<1>1. CASE \E y \in Ids, ev \in Events : Enters(y, ev) BY <1>1 DEF Enters
<1>2. CASE Crash BY <1>2 DEF Crash, disk
<1>3. CASE \/ \E y \in Ids, n \in Names : Reserves(y, n)
           \/ \E y \in Ids, ev \in Events : Runs(y, ev)
  BY <1>3 DEF Reserves, Runs
<1>4. CASE Calling BY <1>4, CallsLeave
<1> QED BY <1>1, <1>2, <1>3, <1>4 DEF Steps, Calling

\* What a pass of startup makes of a row.
LEMMA RecoverRows ==
  ASSUME Typed, Recover, NEW x \in Ids
  PROVE  /\ row[x] = None => row'[x] = None
         /\ row'[x] = None => row[x] = None \/ surge[dest[x]] = None
         /\ row'[x] = "completed" => row[x] = "completed"
<1>1. CASE NormalizeStaleDownloads
  <2>1. row'[x] = IF row[x] = "downloading" THEN "paused" ELSE row[x] BY <1>1 DEF NormalizeStaleDownloads
  <2> QED BY <2>1 DEF None
<1>2. CASE ValidateIntegrity
  <2>1. row'[x] = IF row[x] \in {"paused", "queued"} /\ surge[dest[x]] = None THEN None ELSE row[x]
    BY <1>2 DEF ValidateIntegrity
  <2> QED BY <2>1 DEF None
<1> QED BY <1>1, <1>2 DEF Recover

\* The event the worker has is of a known download; a removal was asked for.
LEMMA WorkerKnown ==
  ASSUME Typed, KnownOK, AskedOK, NEW ev \in Events, Working(ev)
  PROVE  /\ ev.id \in Ids /\ Known(ev.id) /\ Named(ev.id)
         /\ pw.step = "idle" /\ ev.type = "removed" => Asked(ev.id)
<1>1. ev.id \in Ids BY EventFields
<1>2. Known(ev.id) BY WorkerBus DEF KnownOK
<1>3. ASSUME pw.step = "idle", ev.type = "removed" PROVE Asked(ev.id)
  <2>1. 1 \in 1..Len(bus) /\ ev = bus[1] BY <1>3, WorkerBus
  <2>2. Announced(ev.id, 1) BY <1>3, <2>1 DEF Announced
  <2>3. Removing(ev.id) BY <2>1, <2>2 DEF Removing
  <2> QED BY <1>1, <2>3 DEF AskedOK
<1> QED BY <1>1, <1>2, <1>3 DEF Known, Named

\* A download that is not to be removed keeps its row or its promoted file.
LEMMA RowStays ==
  ASSUME IInv, Steps, NEW x \in Ids, ~Asked(x)', enq'[x] \in {"row", "added", "done"}
  PROVE  row'[x] # None \/ final'[dest'[x]] = x
<1>i. Typed /\ KnownOK /\ AskedOK /\ NamesOK /\ RowsOK BY DEF IInv
<1>t. /\ enq \in [Ids -> {"idle", "reserved", "locked", "row", "added", "done"}]
      /\ row \in [Ids -> Unfinished \cup {None, "completed"}]
  BY <1>i DEF Typed, CallsTyped, StoreTyped
<1>0. ~Asked(x) BY <1>i, AskedFrom
<1>1. CASE enq[x] \notin {"row", "added", "done"}
  <2>1. CASE \E y \in Ids, ev \in Events : Enters(y, ev)
    <3>1. PICK y \in Ids, ev \in Events : Enters(y, ev) BY <2>1
    <3>2. CASE enq[y] = "locked" /\ enq' = [enq EXCEPT ![y] = "row"] /\ row' = [row EXCEPT ![y] = "queued"]
      <4>1. x = y BY <1>1, <1>t, <3>2
      <4>2. row'[x] = "queued" BY <1>t, <3>2, <4>1
      <4> QED BY <4>2 DEF None
    <3>3. CASE enq[y] # "locked"
      <4>1. enq'[x] \notin {"row", "added", "done"} BY <1>1, <1>t, <3>1, <3>3 DEF Enters
      <4> QED BY <4>1
    <3> QED BY <3>1, <3>2, <3>3 DEF Enters
  <2>2. CASE enq' = enq BY <1>1, <2>2
  <2>3. CASE Crash
    <3>1. enq'[x] = IF enq[x] \in {"idle", "reserved", "locked"} THEN "idle" ELSE "done"
      BY <2>3 DEF Crash
    <3> QED BY <1>1, <1>t, <3>1
  <2>4. CASE \E y \in Ids, n \in Names : Reserves(y, n)
    <3>1. PICK y \in Ids, n \in Names : Reserves(y, n) BY <2>4
    <3>2. enq'[x] \in {enq[x], "reserved"} BY <1>t, <3>1 DEF Reserves
    <3> QED BY <1>1, <3>2
  <2>5. CASE \/ \E y \in Ids, ev \in Events : Runs(y, ev)
             \/ \E ev \in Events : Persists(ev)
             \/ Recover /\ Recovers
    BY <2>2, <2>5 DEF Runs, Persists, Working, Recovers
  <2>6. CASE Calling BY <2>2, <2>6, CallsLeave
  <2> QED BY <2>1, <2>3, <2>4, <2>5, <2>6 DEF Steps, Calling
<1>2. CASE enq[x] \in {"row", "added", "done"}
  <2>1. Keeps(x) BY <1>0, <1>2 DEF Keeps, Named
  <2>2. final[dest[x]] = x => final'[dest'[x]] = x BY <1>i, <2>1, FinalStays
  <2>3. row[x] # None \/ final[dest[x]] = x BY <1>i, <1>0, <1>2 DEF RowsOK
  <2>4. SUFFICES ASSUME row[x] # None, final[dest[x]] # x PROVE row'[x] # None BY <2>2, <2>3
  <2>5. CASE row' = row BY <2>4, <2>5
  <2>6. CASE \E y \in Ids, ev \in Events : Enters(y, ev)
               /\ enq[y] = "locked" /\ enq' = [enq EXCEPT ![y] = "row"] /\ row' = [row EXCEPT ![y] = "queued"]
    BY <1>t, <2>4, <2>6 DEF None
  <2>7. CASE \E ev \in Events : Persists(ev)
    <3>1. PICK ev \in Events : Persists(ev) BY <2>7
    <3>2. Working(ev) BY <3>1 DEF Persists
    <3>3. CASE x # ev.id BY <2>4, <3>2, <3>3 DEF Working
    <3>4. CASE x = ev.id
      <4>1. ~Deletes(ev) BY <1>i, <1>0, <3>2, <3>4, WorkerKnown DEF Deletes
      <4>2. row'[x] = row[x] \/ row'[x] \notin {None, "completed"} \/ row'[x] = "completed"
        BY <3>1, <3>4, <4>1 DEF Persists, Notes, Promotes, Records, Removes
      <4> QED BY <2>4, <4>2 DEF None
    <3> QED BY <3>3, <3>4
  <2>8. CASE Recover
    <3>1. surge[dest[x]] = x BY <1>i, <2>1, <2>4 DEF NamesOK
    <3>2. surge[dest[x]] # None BY <3>1, Constants
    <3> QED BY <1>i, <2>4, <2>8, <3>2, RecoverRows
  <2> QED BY <1>i, <2>5, <2>6, <2>7, <2>8, RowsFrom
<1> QED BY <1>1, <1>2

\* Only a promoted download becomes completed.
LEMMA CompletedStays ==
  ASSUME IInv, Apart, Steps, scenario' = scenario, NEW x \in Ids, Keeps(x)', row'[x] = "completed"
  PROVE  final'[dest'[x]] = x
<1>i. Typed /\ KnownOK /\ AskedOK /\ NamesOK /\ RowsOK BY DEF IInv
<1>t. row \in [Ids -> Unfinished \cup {None, "completed"}] BY <1>i DEF Typed, StoreTyped
<1>1. CASE \E n \in Names : Reserves(x, n)
  <2>1. PICK n \in Names : Reserves(x, n) BY <1>1
  <2>2. row' = row /\ enq[x] = "idle" BY <2>1 DEF Reserves
  <2>3. row[x] = None BY <1>i, <2>2 DEF RowsOK
  <2> QED BY <2>2, <2>3 DEF None
<1>2. CASE Keeps(x)
  <2>1. final[dest[x]] = x => final'[dest'[x]] = x BY <1>i, <1>2, FinalStays
  <2>2. CASE row[x] = "completed" BY <1>i, <1>2, <2>1, <2>2 DEF RowsOK
  <2>3. CASE row[x] # "completed"
    <3>1. CASE \E y \in Ids, ev \in Events : Enters(y, ev)
                 /\ enq[y] = "locked" /\ enq' = [enq EXCEPT ![y] = "row"] /\ row' = [row EXCEPT ![y] = "queued"]
      <4>1. row'[x] \in {row[x], "queued"} BY <1>t, <3>1
      <4> QED BY <2>3, <4>1
    <3>2. CASE \E ev \in Events : Persists(ev)
      <4>1. PICK ev \in Events : Persists(ev) BY <3>2
      <4>2. Working(ev) BY <4>1 DEF Persists
      <4>3. x = ev.id BY <2>3, <4>2 DEF Working
      <4>4. Records(ev)
        BY <2>3, <4>1, <4>3 DEF Persists, Notes, Promotes, Deletes, Removes, None
      <4>5. pw.step = "final" /\ pw.ev = ev BY <4>2, <4>4 DEF Records, Working
      <4>6. final[dest[x]] = x BY <1>i, <1>2, <4>3, <4>5 DEF RowsOK
      <4> QED BY <2>1, <4>6
    <3>3. CASE Recover BY <1>i, <2>3, <3>3, RecoverRows
    <3> QED BY <1>i, <2>3, <3>1, <3>2, <3>3, RowsFrom
  <2> QED BY <2>2, <2>3
<1> QED BY <1>1, <1>2, <1>i, KeepsFrom

\* What is about to be recorded as completed was promoted.
LEMMA FinalStep ==
  ASSUME IInv, Apart, Steps, scenario' = scenario, pw'.step = "final", Keeps(pw.ev.id)'
  PROVE  final'[dest'[pw'.ev.id]] = pw'.ev.id
<1>i. Typed /\ KnownOK /\ AskedOK /\ NamesOK /\ RowsOK BY DEF IInv
<1>1. CASE pw' = pw
  <2>0. pw.step = "final" /\ pw.ev \in Events BY <1>i, <1>1 DEF Typed, EventsTyped
  <2>1. PICK z \in Ids : z = pw.ev.id BY <2>0, EventFields
  <2>2. pw'.ev.id = z BY <1>1, <2>1
  <2>3. Known(z) BY <1>i, <2>0, <2>1 DEF KnownOK
  <2>4. Keeps(z)' BY <2>2 DEF Keeps, Named, Asked, Removing, Cancels, Announced, Cleans, Alone
  <2>5. \A n \in Names : ~Reserves(z, n) BY <2>3 DEF Reserves, Known
  <2>6. Keeps(z) BY <1>i, <2>3, <2>4, <2>5, KeepsFrom
  <2>7. final[dest[z]] = z BY <1>i, <2>0, <2>1, <2>6 DEF RowsOK
  <2>8. final'[dest'[z]] = z BY <1>i, <2>6, <2>7, FinalStays
  <2> QED BY <2>2, <2>8
<1>2. CASE \E ev \in Events : Persists(ev)
  <2>1. PICK ev \in Events : Persists(ev) BY <1>2
  <2> DEFINE z == ev.id
  <2>w. Working(ev) BY <2>1 DEF Persists
  <2>2. Promotes(ev) BY <2>1 DEF Persists, Notes, Deletes, Records, Removes
  <2>3. pw'.ev = ev BY <2>w DEF Working
  <2>4. z \in Ids /\ Known(z) /\ Named(z) BY <1>i, <2>w, WorkerKnown
  <2>5. Keeps(z)' BY <2>3 DEF Keeps, Named, Asked, Removing, Cancels, Announced, Cleans, Alone
  <2>6. \A n \in Names : ~Reserves(z, n) BY <2>4 DEF Reserves, Known
  <2>7. Keeps(z) BY <1>i, <2>4, <2>5, <2>6, KeepsFrom
  <2>8. dest' = dest /\ dest[z] \in Names BY <1>i, <2>w, <2>4 DEF Working, KnownOK
  <2>9. surge[dest[z]] \in {None, z} /\ final[dest[z]] \in {None, z}
        /\ final \in [Names -> Ids \cup {None}]
    BY <1>i, <2>4, <2>7 DEF NamesOK, Typed, StoreTyped
  <2>10. final'[dest[z]] = z BY <2>2, <2>8, <2>9 DEF Promotes
  <2> QED BY <2>3, <2>8, <2>10
<1>3. CASE Crash
  <2>1. pw'.step = "idle" BY <1>3 DEF Crash, IdlePw
  <2> QED BY <2>1
<1>4. CASE \/ \E y \in Ids, n \in Names : Reserves(y, n)
           \/ \E y \in Ids, ev \in Events : Enters(y, ev) \/ Runs(y, ev)
           \/ Recover /\ Recovers
  BY <1>1, <1>4 DEF Reserves, Enters, Runs, Recovers
<1>5. CASE Calling BY <1>1, <1>5, CallsLeave
<1> QED BY <1>2, <1>3, <1>4, <1>5 DEF Steps, Calling

\* A download that was not enqueued has no row.
LEMMA NoRow ==
  ASSUME IInv, Steps, NEW x \in Ids, enq'[x] \in {"idle", "reserved", "locked"}
  PROVE  row'[x] = None
<1>i. Typed /\ KnownOK /\ AskedOK /\ NamesOK /\ RowsOK BY DEF IInv
<1>t. /\ enq \in [Ids -> {"idle", "reserved", "locked", "row", "added", "done"}]
      /\ row \in [Ids -> Unfinished \cup {None, "completed"}]
  BY <1>i DEF Typed, CallsTyped, StoreTyped
<1>1. enq[x] \in {"idle", "reserved", "locked"}
  <2>1. CASE enq[x] \in {"added", "done"}
    <3>1. enq'[x] \in {"added", "done"} BY <1>i, <2>1, Grows DEF Known
    <3> QED BY <3>1
  <2>2. CASE enq[x] = "row"
    <3>1. CASE enq' = enq BY <2>2, <3>1
    <3>2. CASE \E y \in Ids, n \in Names : Reserves(y, n)
      <4>1. PICK y \in Ids, n \in Names : Reserves(y, n) BY <3>2
      <4>2. enq[y] = "idle" /\ enq' = [enq EXCEPT ![y] = "reserved"] BY <4>1 DEF Reserves
      <4> QED BY <1>t, <2>2, <4>2
    <3>3. CASE \E y \in Ids, ev \in Events : Enters(y, ev)
      <4>1. PICK y \in Ids, ev \in Events : Enters(y, ev) BY <3>3
      <4>2. enq'[x] \in {"row", "added"} BY <1>t, <2>2, <4>1 DEF Enters
      <4> QED BY <4>2
    <3>4. CASE Crash
      <4>1. enq'[x] = "done" BY <2>2, <3>4 DEF Crash
      <4> QED BY <4>1
    <3>5. CASE \/ \E y \in Ids, ev \in Events : Runs(y, ev)
               \/ \E ev \in Events : Persists(ev)
               \/ Recover /\ Recovers
      BY <3>1, <3>5 DEF Runs, Persists, Working, Recovers
    <3>6. CASE Calling BY <3>1, <3>6, CallsLeave
    <3> QED BY <3>2, <3>3, <3>4, <3>5, <3>6 DEF Steps, Calling
  <2> QED BY <1>t, <2>1, <2>2
<1>2. row[x] = None BY <1>i, <1>1 DEF RowsOK
<1>3. CASE \E y \in Ids, ev \in Events : Enters(y, ev)
             /\ enq[y] = "locked" /\ enq' = [enq EXCEPT ![y] = "row"] /\ row' = [row EXCEPT ![y] = "queued"]
  <2>1. PICK y \in Ids : enq' = [enq EXCEPT ![y] = "row"] /\ row' = [row EXCEPT ![y] = "queued"]
    BY <1>3
  <2>2. x # y BY <1>t, <2>1
  <2> QED BY <1>t, <1>2, <2>1, <2>2
<1>4. CASE \E ev \in Events : Persists(ev)
  <2>1. PICK ev \in Events : Persists(ev) BY <1>4
  <2>2. Working(ev) BY <2>1 DEF Persists
  <2>3. x # ev.id BY <1>i, <1>1, <2>2, WorkerKnown DEF Known
  <2> QED BY <1>2, <2>2, <2>3 DEF Working
<1>5. CASE Recover BY <1>i, <1>2, <1>5, RecoverRows
<1> QED BY <1>i, <1>2, <1>3, <1>4, <1>5, RowsFrom

\* Rows stay as they should be.
LEMMA RowsKept ==
  ASSUME IInv, Apart, Steps, scenario' = scenario
  PROVE  RowsOK'
<1>1. \A x \in Ids : ~Asked(x)' /\ enq'[x] \in {"row", "added", "done"} =>
                       row'[x] # None \/ final'[dest'[x]] = x
  BY RowStays
<1>2. \A x \in Ids : Keeps(x)' /\ row'[x] = "completed" => final'[dest'[x]] = x BY CompletedStays
<1>3. pw'.step = "final" /\ Keeps(pw.ev.id)' => final'[dest'[pw'.ev.id]] = pw'.ev.id BY FinalStep
<1>4. \A x \in Ids : enq'[x] \in {"idle", "reserved", "locked"} => row'[x] = None BY NoRow
<1> QED BY <1>1, <1>2, <1>3, <1>4 DEF RowsOK

-----------------------------------------------------------------------------
(* One removal of a download. *)

\* Where names are competed for, a removal begins only when none was asked for,
\* and nothing is resumed.
LEMMA OnlyOne ==
  ASSUME Typed, AskedOK, Apart, Several
  PROVE  /\ "resume" \notin scenario.ops
         /\ \A u \in Users, x \in Ids : Begins(u, x) => ~Removing(x)
<1>1. scenario \in Scenarios BY DEF Typed, BoundsTyped
<1>2. "resume" \notin scenario.ops /\ MaxCancels <= 1 BY <1>1 DEF Several, Alone, Apart
<1>3. ASSUME NEW u \in Users, NEW x \in Ids, Begins(u, x)
      PROVE  ~Removing(x)
  <2>1. budget.cancels[x] > 0 /\ budget.cancels[x] \in 0..MaxCancels /\ MaxCancels \in Nat
    BY <1>3, Constants DEF Begins, Typed, BoundsTyped
  <2>2. ~Asked(x) BY <1>2, <2>1 DEF Asked
  <2> QED BY <2>2 DEF AskedOK
<1> QED BY <1>2, <1>3

\* A download that was asked to be removed does not come back to the pool.
LEMMA StaysOut ==
  ASSUME IInv, Apart, Several, Steps, scenario' = scenario, NEW x \in Ids, Asked(x)', entry'[x] # None
  PROVE  Leaving(x)'
<1>i. Typed /\ KnownOK /\ AskedOK /\ OneRemoval BY DEF IInv
<1>1. CASE \E u \in Users : Begins(u, x)
  <2>1. PICK u \in Users : Begins(u, x) BY <1>1
  <2>2. user'[u].pc = "cpool" /\ user'[u].id = x BY <2>1 DEF Begins
  <2> QED BY <2>2 DEF Leaving
<1>2. CASE \A u \in Users : ~Begins(u, x)
  <2>1. Asked(x) BY <1>i, <1>2, AskedFrom
  <2>2. entry[x] = None \/ Leaving(x) BY <1>i, <2>1 DEF OneRemoval
  <2>3. CASE entry'[x] = entry[x] /\ \A v \in Users : user[v].pc = "cpool" => user'[v] = user[v]
    BY <2>2, <2>3 DEF Leaving
  <2>4. CASE \E y \in Ids, ev \in Events : Enters(y, ev)
    <3>1. PICK y \in Ids, ev \in Events : Enters(y, ev) BY <2>4
    <3>2. user' = user BY <3>1 DEF Enters
    <3>3. entry'[x] = entry[x]
      <4>1. CASE entry' = entry BY <4>1
      <4>2. CASE enq[y] = "row" /\ entry' = [entry EXCEPT ![y] = "queued"]
        <5>1. x # y BY <1>i, <2>1, <4>2 DEF AskedOK
        <5> QED BY <1>i, <4>2, <5>1 DEF Typed, PoolTyped
      <4> QED BY <3>1, <4>1, <4>2 DEF Enters
    <3> QED BY <2>3, <3>2, <3>3
  <2>5. CASE \E y \in Ids, ev \in Events : Runs(y, ev)
    <3>1. PICK y \in Ids, ev \in Events : Runs(y, ev) BY <2>5
    <3>2. user' = user /\ entry[x] # None BY <3>1 DEF Runs
    <3> QED BY <2>2, <3>2 DEF Leaving
  <2>6. CASE \E u \in Users, y \in Ids, ev \in Events : Asks(u, y, ev)
    <3>1. PICK u \in Users, y \in Ids, ev \in Events : Asks(u, y, ev) BY <2>6
    <3>2. user[u].pc # "add"
      <4>1. "resume" \notin scenario.ops BY <1>i, OnlyOne
      <4> QED BY <1>i, <4>1 DEF AskedOK, Resuming
    <3>3. entry[x] # None BY <3>1, <3>2 DEF Asks
    <3>4. \A v \in Users : user[v].pc = "cpool" => user'[v] = user[v] BY <3>1 DEF Asks, Removal
    <3> QED BY <2>2, <3>3, <3>4 DEF Leaving
  <2>7. CASE \E u \in Users, y \in Ids : Begins(u, y)
    <3>1. PICK u \in Users, y \in Ids : Begins(u, y) BY <2>7
    <3>2. entry' = entry /\ \A v \in Users : user[v].pc = "cpool" => user'[v] = user[v]
      BY <3>1 DEF Begins
    <3> QED BY <2>3, <3>2
  <2>8. CASE \E u \in Users, y \in Ids, pc \in Removal : Proceeds(u, y, pc)
    <3>1. PICK u \in Users, y \in Ids, pc \in Removal : Proceeds(u, y, pc) BY <2>8
    <3>2. entry \in [Ids -> {None, "queued", "active", "paused"}] BY <1>i DEF Typed, PoolTyped
    <3>3. CASE pc = "cwait" /\ entry' = [entry EXCEPT ![y] = None]
      <4>1. x # y /\ entry'[x] = entry[x] BY <3>2, <3>3
      <4>2. PICK v \in Users : user[v].pc = "cpool" /\ user[v].id = x BY <2>2, <4>1 DEF Leaving
      <4>3. v # u BY <3>1, <4>1, <4>2 DEF Proceeds
      <4>4. user'[v] = user[v] BY <3>1, <4>3 DEF Proceeds
      <4> QED BY <4>2, <4>4 DEF Leaving
    <3>4. CASE user[u].pc \in {"cwait", "centry"} /\ entry' = entry
      <4>1. \A v \in Users : user[v].pc = "cpool" => user'[v] = user[v] BY <3>1, <3>4 DEF Proceeds
      <4> QED BY <2>3, <3>4, <4>1
    <3> QED BY <3>1, <3>3, <3>4 DEF Proceeds
  <2>9. CASE \E u \in Users, y \in Ids, ev \in Events : Announces(u, y, ev)
    <3>1. PICK u \in Users, y \in Ids, ev \in Events : Announces(u, y, ev) BY <2>9
    <3>2. entry' = entry /\ \A v \in Users : user[v].pc = "cpool" => user'[v] = user[v]
      BY <3>1 DEF Announces
    <3> QED BY <2>3, <3>2
  <2>10. CASE Crash BY <2>10 DEF Crash
  <2>11. CASE \/ \E y \in Ids, n \in Names : Reserves(y, n)
              \/ \E ev \in Events : Persists(ev)
              \/ Recover /\ Recovers
    BY <2>3, <2>11 DEF Reserves, Persists, Working, Recovers
  <2> QED BY <2>4, <2>5, <2>6, <2>7, <2>8, <2>9, <2>10, <2>11 DEF Steps
<1> QED BY <1>1, <1>2

\* Where the one removal of a download may stand.
Single(x) ==
  /\ \A u, v \in Users : Cancels(u, x) /\ Cancels(v, x) => u = v
  /\ \A i, j \in 1..Len(bus) : Announced(x, i) /\ Announced(x, j) => i = j
  /\ \A u \in Users : Cancels(u, x) => ~Cleans(x) /\ \A i \in 1..Len(bus) : ~Announced(x, i)
  /\ \A i \in 1..Len(bus) : Announced(x, i) => ~Cleans(x)

\* No removal in two places comes from fewer places.
LEMMA SingleStays ==
  ASSUME NEW x \in Ids, Single(x), \A u \in Users : Cancels(u, x)' => Cancels(u, x),
         \A i \in 1..Len(bus') : Announced(x, i)' => i \in 1..Len(bus) /\ Announced(x, i),
         Cleans(x)' => Cleans(x)
  PROVE  Single(x)'
<1>1. \A u, v \in Users : Cancels(u, x)' /\ Cancels(v, x)' => u = v BY DEF Single
<1>2. \A i, j \in 1..Len(bus') : Announced(x, i)' /\ Announced(x, j)' => i = j BY DEF Single
<1>3. \A u \in Users : Cancels(u, x)' => ~Cleans(x)' /\ \A i \in 1..Len(bus') : ~Announced(x, i)'
  BY DEF Single
<1>4. \A i \in 1..Len(bus') : Announced(x, i)' => ~Cleans(x)' BY DEF Single
<1> QED BY <1>1, <1>2, <1>3, <1>4 DEF Single

\* A removal that the worker takes from the bus is with the worker alone.
LEMMA WorkerSingle ==
  ASSUME Typed, NEW x \in Ids, Single(x), NEW ev \in Events, Persists(ev)
  PROVE  Single(x)'
<1>w. Working(ev) BY DEF Persists
<1>1. \A u \in Users : Cancels(u, x)' => Cancels(u, x) BY <1>w DEF Cancels, Working
<1>2. Cleans(x)' => pw.step = "idle" /\ ev.type = "removed" /\ ev.id = x
  <2>1. SUFFICES ASSUME Cleans(x)' PROVE pw.step = "idle" /\ ev.type = "removed" /\ ev.id = x OBVIOUS
  <2>2. pw'.step = "files" /\ pw'.ev.id = x BY <2>1 DEF Cleans
  <2>3. Deletes(ev) BY <2>2 DEF Persists, Notes, Promotes, Records, Removes
  <2>4. pw'.ev = ev BY <1>w, <2>2 DEF Working
  <2> QED BY <2>2, <2>3, <2>4 DEF Deletes
<1>3. CASE pw.step # "idle" /\ bus' = bus
  <2>1. ~Cleans(x)' BY <1>2, <1>3
  <2>2. \A i \in 1..Len(bus') : Announced(x, i)' => i \in 1..Len(bus) /\ Announced(x, i)
    BY <1>3 DEF Announced
  <2> QED BY <1>1, <2>1, <2>2, SingleStays
<1>4. CASE /\ pw.step = "idle" /\ 1 \in 1..Len(bus) /\ ev = bus[1]
           /\ \A i \in 1..Len(bus') : i \in Nat /\ i + 1 \in 1..Len(bus) /\ bus'[i] = bus[i + 1]
  <2>1. Cleans(x)' => Announced(x, 1) BY <1>2, <1>4 DEF Announced
  <2>2. \A i \in 1..Len(bus') : Announced(x, i)' => i \in Nat \ {0} /\ i + 1 \in 1..Len(bus) /\ Announced(x, i + 1)
    BY <1>4 DEF Announced
  <2>3. \A u, v \in Users : Cancels(u, x)' /\ Cancels(v, x)' => u = v BY <1>1 DEF Single
  <2>4. \A i, j \in 1..Len(bus') : Announced(x, i)' /\ Announced(x, j)' => i = j
    <3>1. SUFFICES ASSUME NEW i \in 1..Len(bus'), NEW j \in 1..Len(bus'), Announced(x, i)', Announced(x, j)'
                   PROVE  i = j
      OBVIOUS
    <3>2. /\ i \in Nat /\ i + 1 \in 1..Len(bus) /\ Announced(x, i + 1)
          /\ j \in Nat /\ j + 1 \in 1..Len(bus) /\ Announced(x, j + 1)
      BY <2>2, <3>1
    <3>3. i + 1 = j + 1 BY <3>2 DEF Single
    <3> QED BY <3>2, <3>3
  <2>5. \A u \in Users : Cancels(u, x)' => ~Cleans(x)' /\ \A i \in 1..Len(bus') : ~Announced(x, i)'
    BY <1>1, <1>4, <2>1, <2>2 DEF Single
  <2>6. \A i \in 1..Len(bus') : Announced(x, i)' => ~Cleans(x)'
    <3>1. SUFFICES ASSUME NEW i \in 1..Len(bus'), Announced(x, i)', Cleans(x)' PROVE FALSE OBVIOUS
    <3>2. i \in Nat \ {0} /\ i + 1 \in 1..Len(bus) /\ Announced(x, i + 1) BY <2>2, <3>1
    <3>3. 1 \in 1..Len(bus) /\ Announced(x, 1) BY <1>4, <2>1, <3>1
    <3>4. i + 1 = 1 BY <3>2, <3>3 DEF Single
    <3> QED BY <3>2, <3>4
  <2> QED BY <2>3, <2>4, <2>5, <2>6 DEF Single
<1> QED BY <1>w, <1>3, <1>4, WorkerBus

\* A removal that is announced is on the bus alone.
LEMMA AnnouncesSingle ==
  ASSUME Typed, NEW x \in Ids, Single(x), NEW u \in Users, NEW y \in Ids, NEW ev \in Events,
         Announces(u, y, ev)
  PROVE  Single(x)'
<1>1. Sent(ev) /\ pw' = pw /\ ev.id = y /\ Cancels(u, y) BY DEF Announces, Cancels, Removal
<1>2. \A v \in Users : Cancels(v, x)' => Cancels(v, x) /\ v # u
  BY DEF Cancels, Announces, Removal
<1>3. Cleans(x)' => Cleans(x) BY <1>1 DEF Cleans
<1>4. CASE x # y
  <2>1. \A i \in 1..Len(bus') : Announced(x, i)' => i \in 1..Len(bus) /\ Announced(x, i)
    BY <1>1, <1>4, BusFrom DEF Announced
  <2> QED BY <1>2, <1>3, <2>1, SingleStays
<1>5. CASE x = y
  <2>1. /\ \A v \in Users : ~Cancels(v, x)'
        /\ ~Cleans(x) /\ \A i \in 1..Len(bus) : ~Announced(x, i)
    BY <1>1, <1>2, <1>5 DEF Single
  <2>2. \A i \in 1..Len(bus') : Announced(x, i)' => i = Len(bus) + 1
    BY <1>1, <2>1, BusFrom DEF Announced
  <2>3. \A i, j \in 1..Len(bus') : Announced(x, i)' /\ Announced(x, j)' => i = j BY <2>2
  <2> QED BY <1>3, <2>1, <2>3 DEF Single
<1> QED BY <1>4, <1>5

\* A removal stays in one place.
LEMMA SingleKept ==
  ASSUME IInv, Apart, Several, Steps, scenario' = scenario, NEW x \in Ids
  PROVE  Single(x)'
<1>i. Typed /\ KnownOK /\ AskedOK /\ OneRemoval BY DEF IInv
<1>0. Single(x) BY <1>i DEF OneRemoval, Single
<1>1. ASSUME NEW ev \in Events, Sent(ev), ev.type # "removed", UNCHANGED pw,
             \A v \in Users : Cancels(v, x)' => Cancels(v, x)
      PROVE  Single(x)'
  <2>1. \A i \in 1..Len(bus') : Announced(x, i)' => i \in 1..Len(bus) /\ Announced(x, i)
    BY <1>i, <1>1, BusFrom DEF Announced
  <2>2. Cleans(x)' => Cleans(x) BY <1>1 DEF Cleans
  <2> QED BY <1>0, <1>1, <2>1, <2>2, SingleStays
<1>2. ASSUME UNCHANGED <<bus, pw>>, \A v \in Users : Cancels(v, x)' => Cancels(v, x)
      PROVE  Single(x)'
  <2>1. \A i \in 1..Len(bus') : Announced(x, i)' => i \in 1..Len(bus) /\ Announced(x, i)
    BY <1>2 DEF Announced
  <2>2. Cleans(x)' => Cleans(x) BY <1>2 DEF Cleans
  <2> QED BY <1>0, <1>2, <2>1, <2>2, SingleStays
<1>3. CASE \E y \in Ids, ev \in Events : Enters(y, ev) \/ Runs(y, ev)
  <2>1. PICK y \in Ids, ev \in Events : Enters(y, ev) \/ Runs(y, ev) BY <1>3
  <2>2. Sent(ev) /\ ev.type # "removed" /\ UNCHANGED <<pw, user>> BY <2>1 DEF Enters, Runs
  <2>3. \A u \in Users : Cancels(u, x)' => Cancels(u, x) BY <2>2 DEF Cancels
  <2> QED BY <1>1, <2>2, <2>3
<1>4. CASE \E u \in Users, y \in Ids, ev \in Events : Asks(u, y, ev)
  <2>1. PICK u \in Users, y \in Ids, ev \in Events : Asks(u, y, ev) BY <1>4
  <2>2. Sent(ev) /\ ev.type # "removed" /\ UNCHANGED pw BY <2>1 DEF Asks
  <2>3. \A v \in Users : Cancels(v, x)' => Cancels(v, x) BY <2>1 DEF Cancels, Asks
  <2> QED BY <1>1, <2>2, <2>3
<1>5. CASE \E u \in Users, y \in Ids : Begins(u, y)
  <2>1. PICK u \in Users, y \in Ids : Begins(u, y) BY <1>5
  <2>2. UNCHANGED <<bus, pw>> BY <2>1 DEF Begins
  <2>3. CASE x = y
    <3>1. ~Removing(x) BY <1>i, <2>1, <2>3, OnlyOne
    <3>2. \A v \in Users : Cancels(v, x)' => v = u
      BY <2>1, <3>1 DEF Begins, Removing, Cancels
    <3>3. \A i \in 1..Len(bus') : ~Announced(x, i)' BY <2>2, <3>1 DEF Removing, Announced
    <3>4. ~Cleans(x)' BY <2>2, <3>1 DEF Removing, Cleans
    <3> QED BY <3>2, <3>3, <3>4 DEF Single
  <2>4. CASE x # y
    <3>1. \A v \in Users : Cancels(v, x)' => Cancels(v, x) BY <2>1, <2>4 DEF Cancels, Begins
    <3> QED BY <1>2, <2>2, <3>1
  <2> QED BY <2>3, <2>4
<1>6. CASE \E u \in Users, y \in Ids, pc \in Removal : Proceeds(u, y, pc)
  <2>1. PICK u \in Users, y \in Ids, pc \in Removal : Proceeds(u, y, pc) BY <1>6
  <2>2. \A v \in Users : Cancels(v, x)' => Cancels(v, x) BY <2>1 DEF Cancels, Proceeds
  <2>3. UNCHANGED <<bus, pw>> BY <2>1 DEF Proceeds
  <2> QED BY <1>2, <2>2, <2>3
<1>7. CASE \E u \in Users, y \in Ids, ev \in Events : Announces(u, y, ev)
  BY <1>i, <1>0, <1>7, AnnouncesSingle
<1>8. CASE \E ev \in Events : Persists(ev) BY <1>i, <1>0, <1>8, WorkerSingle
<1>9. CASE Crash
  <2>1. bus' = <<>> /\ pw'.step = "idle" /\ \A v \in Users : user'[v].pc = "idle"
    BY <1>9, IdleIs DEF Crash, IdlePw
  <2>2. Len(bus') = 0 /\ 1..0 = {} BY <2>1
  <2> QED BY <2>1, <2>2 DEF Single, Cancels, Removal
<1>10. CASE (\E y \in Ids, n \in Names : Reserves(y, n)) \/ (Recover /\ Recovers)
  <2>1. UNCHANGED <<bus, pw, user>> BY <1>10 DEF Reserves, Recovers
  <2>2. \A v \in Users : Cancels(v, x)' => Cancels(v, x) BY <2>1 DEF Cancels
  <2> QED BY <1>2, <2>1, <2>2
<1> QED BY <1>3, <1>4, <1>5, <1>6, <1>7, <1>8, <1>9, <1>10 DEF Steps

\* Where names are competed for, a download stays removed once.
LEMMA OneRemovalKept ==
  ASSUME IInv, Apart, Steps, scenario' = scenario
  PROVE  OneRemoval'
<1> SUFFICES ASSUME Several, NEW x \in Ids
             PROVE  (Asked(x)' => entry'[x] = None \/ Leaving(x)') /\ Single(x)'
  BY DEF OneRemoval, Single, Several, Alone
<1> QED BY StaysOut, SingleKept

-----------------------------------------------------------------------------
(* The invariant and the theorems. *)

\* A step that changes nothing keeps the invariant.
LEMMA StutterSafe ==
  ASSUME IInv, UNCHANGED vars
  PROVE  IInv'
<1> USE DEF vars, disk, pool, calls, ghost
<1>1. Typed' BY DEF IInv, Typed, StoreTyped, PoolTyped, CallsTyped, EventsTyped, BoundsTyped
<1>2. DownOK' BY DEF IInv, DownOK
<1>3. KnownOK' BY DEF IInv, KnownOK, Named, Known
<1>4. AskedOK' BY DEF IInv, AskedOK, Asked, Known, Removing, Cancels, Announced, Cleans
<1>5. NamesOK' BY DEF IInv, NamesOK, Keeps, Named, Asked, Alone, Removing, Cancels, Announced, Cleans
<1>6. RowsOK' BY DEF IInv, RowsOK, Keeps, Named, Asked, Alone, Removing, Cancels, Announced, Cleans
<1>7. OneRemoval' BY DEF IInv, OneRemoval, Several, Alone, Asked, Leaving, Cancels, Announced, Cleans
<1> QED BY <1>1, <1>2, <1>3, <1>4, <1>5, <1>6, <1>7 DEF IInv

\* Every step keeps the invariant.
LEMMA NextSafe ==
  ASSUME IInv, Apart, [Next]_vars
  PROVE  IInv'
<1>1. CASE UNCHANGED vars BY <1>1, StutterSafe
<1>2. CASE Next
  <2>i. Typed /\ DownOK /\ KnownOK /\ AskedOK BY DEF IInv
  <2>1. Steps /\ scenario' = scenario /\ Typed' BY <1>2, <2>i, NextSteps
  <2>2. DownOK' BY <1>2, <2>i, DownKept
  <2>3. KnownOK' BY <2>i, <2>1, KnownKept
  <2>4. AskedOK' BY <2>i, <2>1, AskedKept
  <2>5. NamesOK' BY <2>1, NamesKept
  <2>6. RowsOK' BY <2>1, RowsKept
  <2>7. OneRemoval' BY <2>1, OneRemovalKept
  <2> QED BY <2>1, <2>2, <2>3, <2>4, <2>5, <2>6, <2>7 DEF IInv
<1> QED BY <1>1, <1>2

\* A download that was accepted and that nobody asked to remove has its row and
\* its working file, or its finished file, whatever the pauses, resumptions,
\* removals of others, failures and crashes, and at every step of startup.
THEOREM AcceptedAlwaysSurvives == Apart => (Spec => []AcceptedSurvives)
<1> SUFFICES ASSUME Apart PROVE Spec => []AcceptedSurvives OBVIOUS
<1>1. IInv => AcceptedSurvives
  <2> SUFFICES ASSUME IInv, NEW x \in kept
               PROVE  final[dest[x]] = x \/ (row[x] # None /\ surge[dest[x]] = x)
    BY DEF AcceptedSurvives
  <2>i. Typed /\ AskedOK /\ NamesOK /\ RowsOK BY DEF IInv
  <2>1. x \in Ids /\ Known(x) /\ ~Asked(x) BY <2>i DEF AskedOK, Typed, BoundsTyped
  <2>2. Keeps(x) BY <2>1 DEF Keeps, Known, Named
  <2>3. row[x] # None \/ final[dest[x]] = x BY <2>i, <2>1 DEF RowsOK, Known
  <2> QED BY <2>i, <2>1, <2>2, <2>3 DEF NamesOK
<1>2. IInv /\ [Next]_vars => IInv' BY NextSafe
<1> QED BY <1>1, <1>2, InitSafe, PTL DEF Spec

\* Once a completion is recorded, no pause, late, duplicated or synthesized for a
\* download the pool does not know, turns the row back to paused while the
\* program runs.
THEOREM CompletionAlwaysWins == Spec => CompletionWins
<1>1. Typed /\ [Next]_vars => Typed'
  <2> SUFFICES ASSUME Typed, [Next]_vars PROVE Typed' OBVIOUS
  <2>1. CASE UNCHANGED vars
    BY <2>1 DEF vars, disk, pool, calls, ghost, Typed, StoreTyped, PoolTyped, CallsTyped,
       EventsTyped, BoundsTyped
  <2>2. CASE Next BY <2>2, NextSteps
  <2> QED BY <2>1, <2>2
<1>2. ASSUME Typed, [Next]_vars, NEW x \in Ids, row[x] = "completed", Up
      PROVE  row'[x] # "paused"
  <2>1. CASE row' = row BY <1>2, <2>1
  <2>2. CASE Next
    <3>1. Steps BY <1>2, <2>2, NextSteps
    <3>2. CASE \E y \in Ids, ev \in Events : Enters(y, ev)
                 /\ enq[y] = "locked" /\ enq' = [enq EXCEPT ![y] = "row"] /\ row' = [row EXCEPT ![y] = "queued"]
      BY <1>2, <3>2 DEF Typed, StoreTyped
    <3>3. CASE \E ev \in Events : Persists(ev) BY <1>2, <3>3 DEF Persists, Working
    <3>4. CASE Recover BY <1>2, <3>4 DEF Recover, NormalizeStaleDownloads, ValidateIntegrity, Up
    <3> QED BY <1>2, <2>1, <3>1, <3>2, <3>3, <3>4, RowsFrom
  <2> QED BY <1>2, <2>1, <2>2 DEF vars, disk
<1>3. Typed /\ [Next]_vars => [\A id \in Ids : row[id] = "completed" /\ Up => row'[id] # "paused"]_vars
  BY <1>2
<1> QED BY <1>1, <1>3, InitTyped, PTL DEF Spec, CompletionWins

-----------------------------------------------------------------------------
(* The checkpoint a download was parked with.                                *)
(*                                                                           *)
(* A parked HLS download is owed its pause until the pause is recorded: the  *)
(* run still has to send it, or it is on the bus with nothing but harmless   *)
(* events of the download behind it, or the row says paused and the detail   *)
(* is the checkpoint, or the worker is about to write it again.  It takes no *)
(* assumption about names, only that no event of an HLS run is dropped.      *)

\* The channel never gives up an event of an HLS download.
Heard == \A s \in Scenarios : s.drops = 0 \/ s.ids \cap Hls = {}

HeardOK == budget.drops = 0 \/ scenario.ids \cap Hls = {}

\* Only removals mark claims.
MarkedOK == \A x \in marked : Asked(x)

\* No completion of a download stands on the bus from a place on.
NoWin(x, i) == \A j \in i..Len(bus) : bus[j].id = x => bus[j].type # "complete"

\* The row is not completed when a pause of the present run is taken: no older
\* completion is on its way, or the start of this run comes after it.
Fresh(x) ==
  \/ row[x] # "completed" /\ (pw.step = "final" => pw.ev.id # x) /\ NoWin(x, 1)
  \/ \E i \in 1..Len(bus) : bus[i].type = "started" /\ bus[i].id = x /\ NoWin(x, i + 1)

\* An event that leaves the row and the checkpoint of a paused download alone.
Mild(ev) == ev.type \in {"queued", "resumed"} \/ (ev.type = "paused" /\ ev.lvl = NoLevel)
Calm(x, i) == \A j \in i..Len(bus) : bus[j].id = x => Mild(bus[j])

\* The event that brings the checkpoint.
Pays(x, ev) == ev.type = "paused" /\ ev.id = x /\ ev.lvl = level[x]

Recorded(x) ==
  /\ row[x] = "paused"
  /\ \/ pw.step = "detail" /\ pw.ev.id = x /\ pw.lvl = level[x]
     \/ detail[x] = level[x] /\ (pw.step \in {"idle", "load"} \/ pw.ev.id # x)

Settles(x) ==
  \/ Pays(x, late[x])
  \/ late[x] = NoEvent /\ \E i \in 1..Len(bus) : Pays(x, bus[i]) /\ Calm(x, i + 1)
  \/ late[x] = NoEvent /\ Calm(x, 1) /\ Recorded(x)

\* What holds of a download that was accepted and that nobody asked to remove.
Live(x) == entry[x] = "paused" \/ run[x] \in Running \cup {"failed"}
Parked(x) == entry[x] = "paused" /\ level[x] > 0
Orderly(x) ==
  /\ run[x] # None => entry[x] = "active"
  /\ Live(x) => Fresh(x)
  /\ Parked(x) => Settles(x)

OrderOK == \A x \in kept \cap Hls : Orderly(x)

SInv == Typed /\ DownOK /\ KnownOK /\ AskedOK /\ HeardOK /\ MarkedOK /\ OrderOK

\* A pause without a checkpoint, and what is no pause, is no event.
LEMMA MildIs ==
  ASSUME NEW x \in Ids, NEW type \in {"queued", "resumed", "paused"}
  PROVE  /\ Event(type, x, NoLevel, FALSE) \in Events
         /\ Mild(Event(type, x, NoLevel, FALSE))
BY EventOf, TypesAre, Constants DEF Mild, Event

\* What is appended behind the bus keeps the order of a download, unless it is
\* a completion of its own.
LEMMA FreshAside ==
  ASSUME Typed, NEW x \in Ids, NEW ev \in Events, Sent(ev), ev.id = x => ev.type # "complete",
         UNCHANGED pw, row'[x] = row[x], Fresh(x)
  PROVE  Fresh(x)'
<1>1. /\ Len(bus) \in Nat /\ Len(bus') \in {Len(bus), Len(bus) + 1}
      /\ \A i \in 1..Len(bus) : bus'[i] = bus[i]
      /\ \A i \in 1..Len(bus') : i \in 1..Len(bus) \/ (i = Len(bus) + 1 /\ bus'[i] = ev)
  BY SentBus DEF Typed
<1>2. ASSUME NEW i \in Nat \ {0}, NoWin(x, i) PROVE NoWin(x, i)'
  <2>1. SUFFICES ASSUME NEW j \in i..Len(bus'), bus'[j].id = x PROVE bus'[j].type # "complete"
    BY DEF NoWin
  <2>2. j \in 1..Len(bus') BY <1>1, <2>1
  <2>3. CASE j \in 1..Len(bus)
    <3>1. j \in i..Len(bus) /\ bus'[j] = bus[j] BY <1>1, <2>1, <2>3
    <3> QED BY <1>2, <2>1, <3>1 DEF NoWin
  <2>4. CASE j = Len(bus) + 1 /\ bus'[j] = ev BY <2>1, <2>4
  <2> QED BY <1>1, <2>2, <2>3, <2>4
<1>3. CASE row[x] # "completed" /\ (pw.step = "final" => pw.ev.id # x) /\ NoWin(x, 1)
  <2>1. NoWin(x, 1)' BY <1>2, <1>3
  <2> QED BY <1>3, <2>1 DEF Fresh
<1>4. CASE \E i \in 1..Len(bus) : bus[i].type = "started" /\ bus[i].id = x /\ NoWin(x, i + 1)
  <2>1. PICK i \in 1..Len(bus) : bus[i].type = "started" /\ bus[i].id = x /\ NoWin(x, i + 1) BY <1>4
  <2>2. i + 1 \in Nat \ {0} /\ i \in 1..Len(bus') /\ bus'[i] = bus[i] BY <1>1, <2>1
  <2>3. NoWin(x, i + 1)' BY <1>2, <2>1, <2>2
  <2> QED BY <2>1, <2>2, <2>3 DEF Fresh
<1> QED BY <1>3, <1>4 DEF Fresh

\* What is appended behind the bus leaves a parked download settled, unless it
\* is an event of its own that is not mild.
LEMMA SettlesAside ==
  ASSUME Typed, NEW x \in Ids, NEW ev \in Events, Sent(ev), ev.id = x => Mild(ev),
         UNCHANGED pw, row'[x] = row[x], detail'[x] = detail[x], late'[x] = late[x],
         level'[x] = level[x], Settles(x)
  PROVE  Settles(x)'
<1>1. /\ Len(bus) \in Nat /\ Len(bus') \in {Len(bus), Len(bus) + 1}
      /\ \A i \in 1..Len(bus) : bus'[i] = bus[i]
      /\ \A i \in 1..Len(bus') : i \in 1..Len(bus) \/ (i = Len(bus) + 1 /\ bus'[i] = ev)
  BY SentBus DEF Typed
<1>2. ASSUME NEW i \in Nat \ {0}, Calm(x, i) PROVE Calm(x, i)'
  <2>1. SUFFICES ASSUME NEW j \in i..Len(bus'), bus'[j].id = x PROVE Mild(bus'[j])
    BY DEF Calm, Mild
  <2>2. j \in 1..Len(bus') BY <1>1, <2>1
  <2>3. CASE j \in 1..Len(bus)
    <3>1. j \in i..Len(bus) /\ bus'[j] = bus[j] BY <1>1, <2>1, <2>3
    <3> QED BY <1>2, <2>1, <3>1 DEF Calm
  <2>4. CASE j = Len(bus) + 1 /\ bus'[j] = ev BY <2>1, <2>4
  <2> QED BY <1>1, <2>2, <2>3, <2>4
<1>3. CASE Pays(x, late[x]) BY <1>3 DEF Settles, Pays
<1>4. CASE late[x] = NoEvent /\ \E i \in 1..Len(bus) : Pays(x, bus[i]) /\ Calm(x, i + 1)
  <2>1. PICK i \in 1..Len(bus) : Pays(x, bus[i]) /\ Calm(x, i + 1) BY <1>4
  <2>2. i + 1 \in Nat \ {0} /\ i \in 1..Len(bus') /\ bus'[i] = bus[i] BY <1>1, <2>1
  <2>3. Calm(x, i + 1)' BY <1>2, <2>1, <2>2
  <2>4. bus'[i].type = "paused" /\ bus'[i].id = x /\ bus'[i].lvl = level'[x] BY <2>1, <2>2 DEF Pays
  <2> QED BY <1>4, <2>2, <2>3, <2>4 DEF Settles, Pays
<1>5. CASE late[x] = NoEvent /\ Calm(x, 1) /\ Recorded(x)
  <2>1. Calm(x, 1)' BY <1>2, <1>5
  <2>2. Recorded(x)' BY <1>5 DEF Recorded
  <2> QED BY <1>5, <2>1, <2>2 DEF Settles
<1> QED BY <1>3, <1>4, <1>5 DEF Settles

\* A step that sends at most a mild event of the download, and leaves the rest of
\* it alone or takes it out of the pool.
LEMMA OrderlyAside ==
  ASSUME Typed, NEW x \in Ids, NEW ev \in Events, Sent(ev), ev.id = x => Mild(ev),
         UNCHANGED pw, row'[x] = row[x], detail'[x] = detail[x], late'[x] = late[x],
         run'[x] # None => entry'[x] = "active",
         Live(x)' => Live(x),
         Parked(x)' => Parked(x) /\ level'[x] = level[x],
         Orderly(x)
  PROVE  Orderly(x)'
<1>1. ev.id = x => ev.type # "complete" BY DEF Mild
<1>2. Live(x)' => Fresh(x)' BY <1>1, FreshAside DEF Orderly
<1>3. Parked(x)' => Settles(x)' BY SettlesAside DEF Orderly
<1> QED BY <1>2, <1>3 DEF Orderly

\* An event of an HLS download is not dropped.
LEMMA NothingDropped ==
  ASSUME NEW ev, budget.drops = 0, Publish(ev) \/ Send(ev)
  PROVE  Publish(ev)
<1>1. ~(budget.drops > 0) OBVIOUS
<1> QED BY <1>1 DEF Send

\* Where no event may be dropped none ever is.
LEMMA HeardKept ==
  ASSUME Typed, HeardOK, Next
  PROVE  HeardOK'
<1>t. scenario' = scenario BY DEF Next
<1>1. SUFFICES ASSUME budget.drops = 0 PROVE budget'.drops = 0 BY <1>t DEF HeardOK
<1>b. budget \in [calls : Nat, drops : Nat, crashes : Nat, cancels : [Ids -> 0..MaxCancels]]
  BY DEF Typed, BoundsTyped
<1>s. \A ev : Publish(ev) \/ Send(ev) => budget' = budget BY <1>1, NothingDropped DEF Publish
<1>2. CASE budget' = budget BY <1>1, <1>2
<1>3. CASE \E id \in Ids : Enqueue(id) \/ Run(id)
  <2>1. budget' = budget
    BY <1>3, <1>s DEF Enqueue, Reserve, LockEnqueue, PersistQueued, SeedAndAdd, PublishQueued,
       Run, Start, Advance, Win, Retire, Fail, Detach, Requeue, SavePause, OpenPause, LastLook,
       SendLate, Checkpoint, Cancelled
  <2> QED BY <1>2, <2>1
<1>4. CASE \E u \in Users : User(u)
  <2>1. PICK u \in Users : User(u) BY <1>4
  <2>2. CASE \E id \in Ids : PauseCall(u, id) \/ ResumeCall(u, id)
    <3>1. budget' = [budget EXCEPT !.calls = @ - 1] BY <2>2 DEF PauseCall, ResumeCall, Spend
    <3> QED BY <1>1, <1>b, <3>1
  <2>3. CASE \E id \in Ids : CancelCall(u, id)
    <3>1. PICK id \in Ids : budget' = [budget EXCEPT !.calls = @ - 1, !.cancels[id] = @ - 1]
      BY <2>3 DEF CancelCall
    <3> QED BY <1>1, <1>b, <3>1
  <2>4. CASE PausePublish(u) \/ ResumePublish(u) BY <1>2, <1>s, <2>4 DEF PausePublish, ResumePublish
  <2>5. CASE CancelPublish(u) BY <1>2, <1>s, <2>5 DEF CancelPublish
  <2>6. CASE \/ PauseLook(u) \/ Extract(u) \/ Hydrate(u) \/ ColdLook(u) \/ ColdLoad(u) \/ Add(u)
             \/ CancelPool(u) \/ CancelWait(u) \/ CancelEntry(u)
    BY <1>2, <2>6 DEF PauseLook, Extract, Hydrate, ColdLook, ColdLoad, Add, CancelPool,
       CancelWait, CancelEntry
  <2> QED BY <2>1, <2>2, <2>3, <2>4, <2>5, <2>6 DEF User
<1>5. CASE Persist
  <2>1. PICK ev : Persists(ev) BY <1>5, PersistDoes
  <2> QED BY <1>2, <2>1 DEF Persists, Working
<1>6. CASE Crash
  <2>1. budget' = [budget EXCEPT !.crashes = @ - 1] BY <1>6 DEF Crash
  <2> QED BY <1>1, <1>b, <2>1
<1>7. CASE Recover BY <1>2, <1>7 DEF Recover, NormalizeStaleDownloads, ValidateIntegrity
<1> QED BY <1>3, <1>4, <1>5, <1>6, <1>7 DEF Next

\* A claim comes to be marked by a removal that was asked for.
LEMMA MarkedKept ==
  ASSUME Typed, AskedOK, MarkedOK, Next
  PROVE  MarkedOK'
<1>s. Steps BY NextSteps
<1>m. marked \subseteq Ids BY DEF Typed, PoolTyped
<1>1. ASSUME NEW y \in Ids, Asked(y), marked' \subseteq marked \cup {y} PROVE MarkedOK'
  <2>1. \A x \in marked' : Asked(x) /\ x \in Ids BY <1>1, <1>m DEF MarkedOK
  <2> QED BY <1>s, <2>1, AskedFrom DEF MarkedOK
<1>2. CASE marked' \subseteq marked
  <2>1. \A x \in marked' : Asked(x) /\ x \in Ids BY <1>2, <1>m DEF MarkedOK
  <2> QED BY <1>s, <2>1, AskedFrom DEF MarkedOK
<1>3. CASE \E id \in Ids : Enqueue(id)
  BY <1>2, <1>3 DEF Enqueue, Reserve, LockEnqueue, PersistQueued, SeedAndAdd, PublishQueued, pool
<1>4. CASE \E id \in Ids : Run(id)
  <2>1. PICK id \in Ids : Run(id) BY <1>4
  <2> QED BY <1>2, <2>1 DEF Run, Start, Advance, Win, Retire, Fail, Detach, Requeue, SavePause,
       OpenPause, LastLook, SendLate, Checkpoint, Cancelled, pool
<1>5. CASE \E u \in Users : User(u)
  <2>1. PICK u \in Users : User(u) BY <1>5
  <2>2. CASE CancelPool(u)
    <3>1. user[u].pc = "cpool" /\ marked' \subseteq marked \cup {user[u].id} BY <2>2 DEF CancelPool
    <3>2. user[u].id \in Ids BY <3>1 DEF Typed, CallsTyped
    <3>3. Removing(user[u].id) BY <3>1 DEF Removing, Cancels, Removal
    <3> QED BY <1>1, <3>1, <3>2, <3>3 DEF AskedOK
  <2>3. CASE \E id \in Ids : CancelCall(u, id) BY <1>2, <2>3 DEF CancelCall, pool
  <2>4. CASE CancelWait(u) \/ CancelEntry(u) \/ CancelPublish(u)
    BY <1>2, <2>4 DEF CancelWait, CancelEntry, CancelPublish
  <2>5. CASE Asking(u)
    <3>1. PICK x, ev : Asks(u, x, ev) BY <2>5, AskDoes
    <3> QED BY <1>2, <3>1 DEF Asks
  <2> QED BY <2>1, <2>2, <2>3, <2>4, <2>5 DEF User, Asking
<1>6. CASE Persist
  <2>1. PICK ev : Persists(ev) BY <1>6, PersistDoes
  <2> QED BY <1>2, <2>1 DEF Persists, Working
<1>7. CASE Crash BY <1>2, <1>7 DEF Crash
<1>8. CASE Recover BY <1>2, <1>8, RecoverTyped, <1>s DEF Recover, NormalizeStaleDownloads, ValidateIntegrity, pool
<1> QED BY <1>3, <1>4, <1>5, <1>6, <1>7, <1>8 DEF Next

\* A step of the run of another download.
LEMMA OtherOrderly ==
  ASSUME Typed, NEW x \in Ids, NEW y \in Ids, x # y, Run(y), Orderly(x)
  PROVE  Orderly(x)'
<1>1. PICK ev : Runs(y, ev) BY RunDoes
<1>2. /\ ev \in Events /\ ev.id = y /\ Sent(ev) /\ UNCHANGED <<pw, row>>
      /\ entry'[x] = entry[x] /\ run'[x] = run[x] /\ late'[x] = late[x]
  BY <1>1 DEF Runs
<1>3. detail'[x] = detail[x] /\ level'[x] = level[x]
  BY DEF Typed, StoreTyped, PoolTyped, Run, Start, Advance, Win, Retire, Fail, Detach, Requeue,
     SavePause, OpenPause, LastLook, SendLate, Checkpoint, Cancelled, disk, pool
<1>4. (run'[x] # None => entry'[x] = "active") /\ (Live(x)' => Live(x)) /\ (Parked(x)' => Parked(x))
  BY <1>2, <1>3 DEF Live, Parked, Orderly
<1> QED BY <1>2, <1>3, <1>4, OrderlyAside

\* An event that is sent stands at the end of the bus, with nothing behind it.
LEMMA Last ==
  ASSUME Typed, NEW ev \in Events, Publish(ev)
  PROVE  /\ Len(bus') \in Nat /\ Len(bus') \in 1..Len(bus') /\ bus'[Len(bus')] = ev
         /\ \A j : j \notin Len(bus') + 1..Len(bus')
<1>1. bus \in Seq(Events) /\ bus' = Append(bus, ev) /\ Len(bus) \in Nat
  BY DEF Typed, EventsTyped, Publish
<1>2. Len(bus') = Len(bus) + 1 /\ bus'[Len(bus) + 1] = ev BY <1>1, Appended
<1> QED BY <1>1, <1>2

\* A step of the own run of an HLS download that was accepted: it starts and
\* says so, goes on, ends in another way, or parks and owes its pause.
LEMMA OwnOrderly ==
  ASSUME Typed, NEW x \in Hls, Run(x), budget.drops = 0, x \notin marked, Orderly(x)
  PROVE  Orderly(x)'
<1>x. x \in Ids BY Constants
<1>n. None = "none" BY DEF None
<1>t. /\ entry \in [Ids -> {None, "queued", "active", "paused"}]
      /\ run \in [Ids -> {None, "won", "failed"} \cup Running]
      /\ level \in [Ids -> 0..MaxLevel] /\ late \in [Ids -> Events \cup {NoEvent}]
      /\ detail \in [Ids -> Levels] /\ level[x] \in Levels
      /\ late[x] # NoEvent => late[x].id = x /\ late[x].type \in {"paused", "error"}
  BY <1>x, Constants DEF Typed, PoolTyped, StoreTyped
<1>l. NoLevel \in Levels BY Constants
<1>r. Running = {"running", "pausing"} BY DEF Running
<1>o. /\ run[x] # None => entry[x] = "active"
      /\ Live(x) => Fresh(x)
      /\ Parked(x) => Settles(x)
  BY DEF Orderly
<1> USE DEF SetRun, SetEntry, Owes, RunFrame, disk, calls, ghost
\* what a step needs that does not leave the download parked
<1>u. ASSUME NEW ev \in Events, Sent(ev), ev.id = x => ev.type # "complete", UNCHANGED <<pw, row>>,
             entry'[x] # "paused", run'[x] # None => entry'[x] = "active",
             run'[x] \in Running \cup {"failed"} => run[x] \in Running \cup {"failed"}
      PROVE  Orderly(x)'
  <2>1. ~Parked(x)' BY <1>u DEF Parked
  <2>2. Live(x)' => Live(x) BY <1>u DEF Live
  <2>3. Live(x)' => Fresh(x)' BY <1>o, <1>u, <1>x, <2>2, FreshAside
  <2> QED BY <1>u, <2>1, <2>3 DEF Orderly
<1>q. \A ev : UNCHANGED bus => Sent(ev) BY DEF Sent
<1>e. \A ev : Publish(ev) \/ Send(ev) => Publish(ev) /\ Sent(ev) BY NothingDropped DEF Publish, Sent
<1>v. /\ Event("queued", x, NoLevel, FALSE) \in Events /\ Event("queued", x, NoLevel, FALSE).id = x
      /\ Event("queued", x, NoLevel, FALSE).type = "queued"
  <2>1. Event("queued", x, NoLevel, FALSE) \in Events BY <1>x, <1>l, EventOf, TypesAre
  <2> QED BY <2>1 DEF Event
<1>1. CASE Start(x)
  <2> DEFINE ev == Event("started", x, NoLevel, FALSE)
  <2>1. ev \in Events /\ ev.type = "started" /\ ev.id = x
    <3>1. ev \in Events BY <1>x, <1>l, EventOf, TypesAre
    <3> QED BY <3>1 DEF Event
  <2> HIDE DEF ev
  <2>2. Publish(ev) /\ entry'[x] = "active" /\ run'[x] = "running" BY <1>1, <1>e, <1>t, <1>x DEF Start, ev
  <2>3. Len(bus') \in 1..Len(bus') /\ bus'[Len(bus')] = ev /\ \A j : j \notin Len(bus') + 1..Len(bus')
    BY <2>1, <2>2, Last
  <2>4. NoWin(x, Len(bus) + 1)' BY <2>3 DEF NoWin
  <2>5. Fresh(x)' BY <2>1, <2>3, <2>4 DEF Fresh
  <2>6. ~Parked(x)' BY <2>2 DEF Parked
  <2> QED BY <2>2, <2>5, <2>6 DEF Orderly
<1>2. CASE Advance(x)
  <2>1. UNCHANGED <<entry, run, bus, pw, row>> /\ run[x] = "running" BY <1>2 DEF Advance
  <2>2. entry[x] = "active" BY <1>o, <1>n, <2>1
  <2> QED BY <1>u, <1>q, <1>v, <2>1, <2>2
<1>3. CASE Win(x)
  <2>1. UNCHANGED <<entry, pw, row>> /\ run' = [run EXCEPT ![x] = "won"] /\ run[x] \in Running
    BY <1>3 DEF Win
  <2>2. entry'[x] = "active" /\ run'[x] = "won" BY <1>o, <1>n, <1>r, <1>t, <1>x, <2>1
  <2>3. ~Parked(x)' /\ ~Live(x)' BY <1>r, <2>2 DEF Parked, Live
  <2> QED BY <2>2, <2>3 DEF Orderly
<1>4. CASE Retire(x)
  <2>1. UNCHANGED <<bus, pw, row>> /\ entry'[x] = None /\ run'[x] = None
    BY <1>4, <1>o, <1>n, <1>t, <1>x DEF Retire
  <2> QED BY <1>u, <1>q, <1>v, <1>n, <1>r, <2>1
<1>5. CASE Fail(x)
  <2>1. UNCHANGED <<entry, bus, pw, row>> /\ run'[x] = "failed" /\ run[x] = "running"
    BY <1>5, <1>t, <1>x DEF Fail
  <2>2. entry[x] = "active" BY <1>o, <1>n, <2>1
  <2> QED BY <1>u, <1>q, <1>v, <1>r, <2>1, <2>2
<1>6. CASE Detach(x)
  <2>1. UNCHANGED <<bus, pw, row>> /\ entry'[x] = None /\ run'[x] = None
    BY <1>6, <1>o, <1>n, <1>t, <1>x DEF Detach
  <2> QED BY <1>u, <1>q, <1>v, <1>n, <1>r, <2>1
<1>7. CASE Requeue(x)
  <2>1. UNCHANGED <<pw, row>> /\ entry'[x] = "queued" /\ run'[x] = None
        /\ Sent(Event("queued", x, NoLevel, FALSE))
    BY <1>7, <1>e, <1>t, <1>x DEF Requeue
  <2> QED BY <1>u, <1>v, <1>n, <1>r, <2>1
<1>8. CASE SavePause(x)
  <2>1. /\ UNCHANGED <<bus, pw, row, level>> /\ entry'[x] = "paused" /\ run'[x] = None
        /\ run[x] = "pausing"
        /\ late' = [late EXCEPT ![x] = Event("paused", x, level[x], FALSE)] \/ level[x] = 0
    BY <1>8, <1>t, <1>x DEF SavePause
  <2>2. Fresh(x) BY <1>o, <1>r, <2>1 DEF Live
  <2>3. Fresh(x)' BY <1>q, <1>v, <1>x, <2>1, <2>2, FreshAside
  <2>4. Parked(x)' => Settles(x)'
    <3>1. SUFFICES ASSUME level[x] > 0 PROVE Settles(x)' BY <2>1 DEF Parked
    <3>2. level[x] # 0 BY <3>1
    <3>3. late' = [late EXCEPT ![x] = Event("paused", x, level[x], FALSE)] BY <2>1, <3>2
    <3>4. late'[x] = Event("paused", x, level[x], FALSE) BY <1>t, <1>x, <3>3
    <3>5. late'[x].type = "paused" /\ late'[x].id = x /\ late'[x].lvl = level'[x]
      BY <2>1, <3>4 DEF Event
    <3> QED BY <3>5 DEF Settles, Pays
  <2> QED BY <2>1, <2>3, <2>4 DEF Orderly
<1>9. CASE OpenPause(x) BY <1>9 DEF OpenPause
<1>10. CASE LastLook(x)
  <2>1. /\ UNCHANGED <<entry, run, level, bus, pw, row>> /\ late[x] # NoEvent
        /\ late' = [late EXCEPT ![x] = [late[x] EXCEPT !.done = TRUE]]
    BY <1>10 DEF LastLook
  <2>2. late[x] \in Events /\ late'[x] = [late[x] EXCEPT !.done = TRUE] BY <1>t, <1>x, <2>1
  <2>3. Live(x)' => Fresh(x)'
    <3>1. Live(x)' => Live(x) BY <2>1 DEF Live
    <3> QED BY <1>o, <1>q, <1>v, <1>x, <2>1, <3>1, FreshAside
  <2>4. Parked(x)' => Settles(x)'
    <3>1. SUFFICES ASSUME Parked(x)' PROVE Settles(x)' OBVIOUS
    <3>2. Parked(x) BY <2>1, <3>1 DEF Parked
    <3>3. Pays(x, late[x]) BY <1>o, <2>1, <3>2 DEF Settles
    <3>4. late'[x].type = late[x].type /\ late'[x].id = late[x].id /\ late'[x].lvl = late[x].lvl
      BY <2>2 DEF Events
    <3> QED BY <2>1, <3>3, <3>4 DEF Settles, Pays
  <2> QED BY <1>o, <2>1, <2>3, <2>4 DEF Orderly
<1>11. CASE SendLate(x)
  <2> DEFINE ev == [late[x] EXCEPT !.done = FALSE]
  <2>1. /\ UNCHANGED <<entry, run, level, pw, row>> /\ late[x] # NoEvent
        /\ late' = [late EXCEPT ![x] = NoEvent] /\ Send(ev)
    BY <1>11 DEF SendLate
  <2>2. late[x] \in Events /\ late'[x] = NoEvent BY <1>t, <1>x, <2>1
  <2>3. /\ ev \in Events /\ ev.type = late[x].type /\ ev.id = late[x].id /\ ev.lvl = late[x].lvl
    BY <2>2 DEF Events
  <2>4. Publish(ev) /\ Sent(ev) BY <1>e, <2>1
  <2> HIDE DEF ev
  <2>5. Live(x)' => Fresh(x)'
    <3>1. Live(x)' => Live(x) BY <2>1 DEF Live
    <3>2. ev.type # "complete" BY <1>t, <2>1, <2>3
    <3> QED BY <1>o, <1>x, <2>1, <2>3, <2>4, <3>1, <3>2, FreshAside
  <2>6. Parked(x)' => Settles(x)'
    <3>1. SUFFICES ASSUME Parked(x)' PROVE Settles(x)' OBVIOUS
    <3>2. Parked(x) BY <2>1, <3>1 DEF Parked
    <3>3. Pays(x, late[x]) BY <1>o, <2>1, <3>2 DEF Settles
    <3>4. Len(bus') \in 1..Len(bus') /\ bus'[Len(bus')] = ev /\ \A j : j \notin Len(bus') + 1..Len(bus')
      BY <2>3, <2>4, Last
    <3>5. Pays(x, bus[Len(bus)])' BY <2>1, <2>3, <3>3, <3>4 DEF Pays
    <3>6. Calm(x, Len(bus) + 1)' BY <3>4 DEF Calm
    <3> QED BY <2>2, <3>4, <3>5, <3>6 DEF Settles
  <2> QED BY <1>o, <2>1, <2>5, <2>6 DEF Orderly
<1>12. CASE Checkpoint(x)
  <2>1. UNCHANGED <<entry, run, bus, pw, row>> /\ run[x] = "running" BY <1>12 DEF Checkpoint, pool
  <2>2. entry[x] = "active" BY <1>o, <1>n, <2>1
  <2> QED BY <1>u, <1>q, <1>v, <2>1, <2>2
<1>13. CASE Cancelled(x)
  <2>1. run[x] \in Running /\ entry[x] # "active" BY <1>13 DEF Cancelled
  <2> QED BY <1>o, <1>n, <1>r, <2>1
<1> QED BY <1>1, <1>2, <1>3, <1>4, <1>5, <1>6, <1>7, <1>8, <1>9, <1>10, <1>11, <1>12, <1>13 DEF Run

\* A step of an Enqueue.
LEMMA EnqueueOrderly ==
  ASSUME Typed, KnownOK, NEW x \in Ids, NEW y \in Ids, Enqueue(y), Known(x), Orderly(x)
  PROVE  Orderly(x)'
<1> DEFINE ev == Event("queued", y, NoLevel, FALSE)
<1>1. ev \in Events /\ Mild(ev) BY MildIs
<1>2. Sent(ev) /\ UNCHANGED <<pw, run, late, level>>
  BY DEF Enqueue, Reserve, LockEnqueue, PersistQueued, SeedAndAdd, PublishQueued, Publish, Sent, pool
<1> HIDE DEF ev
<1>3. /\ entry'[x] = entry[x] /\ row'[x] = row[x] /\ detail'[x] = detail[x]
  <2>1. CASE x = y
    <3>1. enq[y] \in {"added", "done"} BY <2>1 DEF Known
    <3> QED BY <3>1 DEF Enqueue, Reserve, LockEnqueue, PersistQueued, SeedAndAdd, PublishQueued, pool, disk
  <2>2. CASE x # y
    BY <2>2 DEF Enqueue, Reserve, LockEnqueue, PersistQueued, SeedAndAdd, PublishQueued, pool, disk,
       Typed, StoreTyped, PoolTyped
  <2> QED BY <2>1, <2>2
<1>4. (run'[x] # None => entry'[x] = "active") /\ (Live(x)' => Live(x)) /\ (Parked(x)' => Parked(x))
  BY <1>2, <1>3 DEF Live, Parked, Orderly
<1> QED BY <1>1, <1>2, <1>3, <1>4, OrderlyAside

\* A download that becomes accepted is in the pool and does not run.
LEMMA AcceptedOrderly ==
  ASSUME Typed, KnownOK, NEW x \in Ids, x \in kept' \ kept, Next
  PROVE  Orderly(x)'
<1>1. Steps BY NextSteps
<1>2. PICK y \in Ids, ev \in Events : Enters(y, ev) /\ x \in kept' \ kept
  BY <1>1 DEF Steps, Reserves, Runs, Asks, Begins, Proceeds, Announces, Persists, Working, Crash, Recovers
<1>3. /\ x = y /\ enq[x] = "row" /\ entry' = [entry EXCEPT ![x] = "queued"] /\ run' = run
  BY <1>2 DEF Enters
<1>4. run[x] = None BY <1>3 DEF KnownOK, Known
<1>5. entry'[x] = "queued" /\ run'[x] = None BY <1>3, <1>4 DEF Typed, PoolTyped
<1> QED BY <1>5 DEF Orderly, Live, Parked, Running, None

\* What a step of Pause or Resume leaves of a download, whosever call it is.
LEMMA AskLeaves ==
  ASSUME Typed, NEW u \in Users, Asking(u), NEW x \in Ids
  PROVE  /\ UNCHANGED <<row, detail, late, pw>>
         /\ \E ev \in Events : Sent(ev) /\ (ev.id = x => Mild(ev))
         /\ \/ /\ entry'[x] = entry[x] /\ level'[x] = level[x]
               /\ run'[x] = run[x] \/ (run[x] = "running" /\ run'[x] = "pausing")
            \/ entry[x] # "active" /\ entry'[x] \in {None, "queued"} /\ run'[x] = run[x]
<1>t. /\ entry \in [Ids -> {None, "queued", "active", "paused"}]
      /\ run \in [Ids -> {None, "won", "failed"} \cup Running] /\ level \in [Ids -> 0..MaxLevel]
  BY DEF Typed, PoolTyped
<1>d. user[u].pc # "idle" => user[u].id \in Ids BY DEF Typed, CallsTyped
<1>s. ASSUME UNCHANGED bus PROVE \E ev \in Events : Sent(ev) /\ (ev.id = x => Mild(ev))
  <2>1. Event("queued", x, NoLevel, FALSE) \in Events /\ Mild(Event("queued", x, NoLevel, FALSE)) BY MildIs
  <2> QED BY <1>s, <2>1 DEF Sent
<1> USE DEF UserFrame, SetEntry, SetRun
<1>1. CASE \E y \in Ids : PauseCall(u, y)
  <2>1. PICK y \in Ids : PauseCall(u, y) BY <1>1
  <2>2. UNCHANGED <<row, detail, late, pw, bus, level>> BY <2>1 DEF PauseCall
  <2>3. \/ entry[y] = "queued" /\ entry' = [entry EXCEPT ![y] = None] /\ run' = run
        \/ entry' = entry /\ run[y] = "running" /\ run' = [run EXCEPT ![y] = "pausing"]
        \/ entry' = entry /\ run' = run
    BY <2>1 DEF PauseCall
  <2> QED BY <1>s, <1>t, <2>2, <2>3
<1>2. CASE \E y \in Ids : ResumeCall(u, y)
  <2>1. UNCHANGED <<row, detail, late, pw, bus, level, entry, run>> BY <1>2 DEF ResumeCall
  <2> QED BY <1>s, <2>1
<1>3. CASE PausePublish(u)
  <2>1. UNCHANGED <<row, detail, late, pw, level, entry, run>> BY <1>3 DEF PausePublish
  <2>2. user[u].id \in Ids /\ Publish(Event("paused", user[u].id, NoLevel, FALSE))
    BY <1>3, <1>d DEF PausePublish, Sparse
  <2>3. Sent(Event("paused", user[u].id, NoLevel, FALSE)) BY <2>2 DEF Publish, Sent
  <2> QED BY <2>1, <2>2, <2>3, MildIs
<1>4. CASE ResumePublish(u)
  <2>1. UNCHANGED <<row, detail, late, pw, level, entry, run>> BY <1>4 DEF ResumePublish
  <2>2. user[u].id \in Ids /\ Publish(Event("resumed", user[u].id, NoLevel, FALSE))
    BY <1>4, <1>d DEF ResumePublish
  <2>3. Sent(Event("resumed", user[u].id, NoLevel, FALSE)) BY <2>2 DEF Publish, Sent
  <2> QED BY <2>1, <2>2, <2>3, MildIs
<1>5. CASE Extract(u)
  <2>1. UNCHANGED <<row, detail, late, pw, bus, level, run>> BY <1>5 DEF Extract
  <2>2. entry' = entry \/ (entry[user[u].id] = "paused" /\ entry' = [entry EXCEPT ![user[u].id] = None])
    BY <1>5 DEF Extract
  <2> QED BY <1>s, <1>t, <2>1, <2>2
<1>6. CASE Add(u)
  <2>1. UNCHANGED <<row, detail, late, pw, bus, run>> BY <1>6 DEF Add
  <2>2. \/ entry' = entry /\ level' = level
        \/ /\ entry[user[u].id] = None /\ entry' = [entry EXCEPT ![user[u].id] = "queued"]
           /\ level' = [level EXCEPT ![user[u].id] = user[u].lvl]
    BY <1>6 DEF Add
  <2>3. None # "active" BY DEF None
  <2> QED BY <1>s, <1>t, <2>1, <2>2, <2>3
<1>7. CASE PauseLook(u) \/ Hydrate(u) \/ ColdLook(u) \/ ColdLoad(u)
  <2>1. UNCHANGED <<row, detail, late, pw, bus, level, entry, run>>
    BY <1>7 DEF PauseLook, Hydrate, ColdLook, ColdLoad
  <2> QED BY <1>s, <2>1
<1> QED BY <1>1, <1>2, <1>3, <1>4, <1>5, <1>6, <1>7 DEF Asking

\* A step of Pause or Resume.
LEMMA AskOrderly ==
  ASSUME Typed, NEW u \in Users, Asking(u), NEW x \in Ids, Orderly(x)
  PROVE  Orderly(x)'
<1>1. UNCHANGED <<row, detail, late, pw>> BY AskLeaves
<1>2. PICK ev \in Events : Sent(ev) /\ (ev.id = x => Mild(ev)) BY AskLeaves
<1>n. None \notin {"running", "pausing", "failed", "paused", "queued", "active"} BY DEF None
<1>3. CASE /\ entry'[x] = entry[x] /\ level'[x] = level[x]
           /\ run'[x] = run[x] \/ (run[x] = "running" /\ run'[x] = "pausing")
  <2>1. run'[x] # None => entry'[x] = "active" BY <1>3, <1>n DEF Orderly
  <2>2. Live(x)' => Live(x) BY <1>3 DEF Live, Running
  <2>3. Parked(x)' => Parked(x) /\ level'[x] = level[x] BY <1>3 DEF Parked
  <2> QED BY <1>1, <1>2, <2>1, <2>2, <2>3, OrderlyAside
<1>4. CASE entry[x] # "active" /\ entry'[x] \in {None, "queued"} /\ run'[x] = run[x]
  <2>1. run'[x] = None BY <1>4 DEF Orderly
  <2>2. ~Live(x)' /\ ~Parked(x)' BY <1>4, <1>n, <2>1 DEF Live, Parked, Running
  <2> QED BY <2>1, <2>2 DEF Orderly
<1> QED BY <1>3, <1>4, AskLeaves

\* A step of the removal of another download.
LEMMA CancelOrderly ==
  ASSUME Typed, NEW u \in Users, NEW x \in Ids, NEW y \in Ids, x # y,
         Begins(u, y) \/ (\E pc \in Removal : Proceeds(u, y, pc)) \/ (\E ev : Announces(u, y, ev)),
         Orderly(x)
  PROVE  Orderly(x)'
<1>1. UNCHANGED <<row, detail, run, level, late, pw>> BY DEF Begins, Proceeds, Announces
<1>2. entry'[x] = entry[x] BY DEF Begins, Proceeds, Announces, Typed, PoolTyped
<1>3. \E ev \in Events : Sent(ev) /\ (ev.id = x => Mild(ev))
  <2>1. CASE bus' = bus
    <3>1. Event("queued", x, NoLevel, FALSE) \in Events /\ Mild(Event("queued", x, NoLevel, FALSE)) BY MildIs
    <3> QED BY <2>1, <3>1 DEF Sent
  <2>2. CASE \E ev : Announces(u, y, ev)
    <3>1. PICK ev : Announces(u, y, ev) BY <2>2
    <3>2. ev \in Events /\ ev.id = y /\ Sent(ev) BY <3>1 DEF Announces
    <3> QED BY <3>2
  <2> QED BY <2>1, <2>2 DEF Begins, Proceeds
<1>4. PICK ev \in Events : Sent(ev) /\ (ev.id = x => Mild(ev)) BY <1>3
<1>5. (run'[x] # None => entry'[x] = "active") /\ (Live(x)' => Live(x))
      /\ (Parked(x)' => Parked(x) /\ level'[x] = level[x])
  BY <1>1, <1>2 DEF Live, Parked, Orderly
<1> QED BY <1>1, <1>4, <1>5, OrderlyAside

\* The bus without its first event.
LEMMA Shifted ==
  ASSUME Typed, NEW ev, Take(ev)
  PROVE  /\ Len(bus) \in Nat \ {0} /\ Len(bus') = Len(bus) - 1 /\ ev = bus[1] /\ pw.step = "idle"
         /\ \A i \in 1..Len(bus') : bus'[i] = bus[i + 1]
<1>1. bus \in Seq(Events) /\ bus # <<>> /\ ev = Head(bus) /\ bus' = Tail(bus) /\ pw.step = "idle"
  BY TakeDoes DEF Typed, EventsTyped
<1>2. /\ Head(bus) = bus[1] /\ Len(bus) \in Nat \ {0} /\ Len(Tail(bus)) = Len(bus) - 1
      /\ \A i \in 1..Len(bus) - 1 : Tail(bus)[i] = bus[i + 1]
  BY <1>1, Taken
<1> QED BY <1>1, <1>2

\* What holds of the bus from a place on holds from the place before.
LEMMA ShiftedFrom ==
  ASSUME Typed, NEW ev, Take(ev), NEW x \in Ids, NEW i \in Nat \ {0}
  PROVE  /\ NoWin(x, i + 1) => NoWin(x, i)'
         /\ Calm(x, i + 1) => Calm(x, i)'
         /\ NoWin(x, i) => NoWin(x, i + 1)
         /\ Calm(x, i) => Calm(x, i + 1)
<1>1. /\ Len(bus) \in Nat \ {0} /\ Len(bus') = Len(bus) - 1
      /\ \A j \in 1..Len(bus') : bus'[j] = bus[j + 1]
  BY Shifted
<1>2. \A j \in i..Len(bus') : j \in 1..Len(bus') /\ j + 1 \in i + 1..Len(bus) BY <1>1
<1>3. \A j \in i + 1..Len(bus) : j \in i..Len(bus) BY <1>1
<1>4. NoWin(x, i + 1) => NoWin(x, i)' BY <1>1, <1>2 DEF NoWin
<1>5. Calm(x, i + 1) => Calm(x, i)' BY <1>1, <1>2 DEF Calm, Mild
<1> QED BY <1>3, <1>4, <1>5 DEF NoWin, Calm

\* What the worker does with an event that it takes, to the download of the event
\* and to the others.
LEMMA TakeLeaves ==
  ASSUME Typed, NEW ev, NEW x \in Ids,
         Skip(ev) \/ PersistStarted(ev) \/ PersistPaused(ev) \/ PersistError(ev) \/ Promote(ev) \/ DeleteState(ev)
  PROVE  /\ Take(ev) /\ UNCHANGED <<entry, run, level, late>>
         /\ pw' = pw \/ pw' = IdlePw \/ (pw'.ev = ev /\ pw'.step # "idle")
         /\ pw'.step = "final" => ev.type = "complete"
         /\ row'[x] # "completed" \/ row'[x] = row[x]
         /\ x # ev.id => row'[x] = row[x] /\ detail'[x] = detail[x]
         /\ ev.type = "started" /\ x = ev.id /\ x \in Hls => row'[x] = "downloading" /\ pw' = pw
<1>1. Take(ev) /\ UNCHANGED <<entry, run, level, late>>
  BY DEF Skip, PersistStarted, PersistPaused, PersistError, Promote, DeleteState, PwFrame, pool
<1>2. ev.id \in Ids /\ pw.step = "idle" BY <1>1, TakeDoes
<1>t. row \in [Ids -> Unfinished \cup {None, "completed"}] /\ detail \in [Ids -> Levels]
  BY DEF Typed, StoreTyped
<1>3. /\ pw' = pw \/ pw' = IdlePw \/ (pw'.ev = ev /\ pw'.step # "idle")
      /\ pw'.step = "final" => ev.type = "complete"
  BY <1>2 DEF Skip, PersistStarted, PersistPaused, PersistError, Promote, DeleteState, Step, Done, IdlePw
<1>4. row'[x] # "completed" \/ row'[x] = row[x]
  BY <1>t, <1>2 DEF Skip, PersistStarted, PersistPaused, PersistError, Promote, DeleteState, SetRow, None
<1>5. x # ev.id => row'[x] = row[x] /\ detail'[x] = detail[x]
  BY <1>t, <1>2 DEF Skip, PersistStarted, PersistPaused, PersistError, Promote, DeleteState, SetRow
<1>6. ev.type = "started" /\ x = ev.id /\ x \in Hls => row'[x] = "downloading" /\ pw' = pw
  BY <1>t, <1>2 DEF Skip, PersistStarted, PersistPaused, PersistError, Promote, DeleteState, SetRow
<1> QED BY <1>1, <1>3, <1>4, <1>5, <1>6

\* Taking an event keeps the order of completions, starts and pauses.
LEMMA TakeFresh ==
  ASSUME Typed, NEW ev, NEW x \in Hls, Fresh(x),
         Skip(ev) \/ PersistStarted(ev) \/ PersistPaused(ev) \/ PersistError(ev) \/ Promote(ev) \/ DeleteState(ev)
  PROVE  Fresh(x)'
<1>x. x \in Ids BY Constants
<1>1. Take(ev) BY <1>x, TakeLeaves
<1>2. /\ Len(bus) \in Nat \ {0} /\ Len(bus') = Len(bus) - 1 /\ ev = bus[1] /\ pw.step = "idle"
      /\ \A i \in 1..Len(bus') : bus'[i] = bus[i + 1]
  BY <1>1, Shifted
<1>i. IdlePw.step = "idle" BY DEF IdlePw
<1>3. CASE row[x] # "completed" /\ NoWin(x, 1)
  <2>1. NoWin(x, 1)' BY <1>1, <1>x, <1>3, ShiftedFrom
  <2>2. row'[x] # "completed" BY <1>3, <1>x, TakeLeaves
  <2>3. ev.id = x => ev.type # "complete" BY <1>2, <1>3 DEF NoWin
  <2>4. pw'.step = "final" => pw'.ev.id # x BY <1>2, <1>i, <1>x, <2>3, TakeLeaves
  <2> QED BY <2>1, <2>2, <2>4 DEF Fresh
<1>4. CASE \E i \in 1..Len(bus) : bus[i].type = "started" /\ bus[i].id = x /\ NoWin(x, i + 1)
  <2>1. PICK i \in 1..Len(bus) : bus[i].type = "started" /\ bus[i].id = x /\ NoWin(x, i + 1) BY <1>4
  <2>2. CASE i = 1
    <3>1. row'[x] = "downloading" /\ pw' = pw BY <1>2, <1>x, <2>1, <2>2, TakeLeaves
    <3>2. NoWin(x, 1)' BY <1>1, <1>x, <2>1, <2>2, ShiftedFrom
    <3> QED BY <1>2, <3>1, <3>2 DEF Fresh
  <2>3. CASE i # 1
    <3> DEFINE k == i - 1
    <3>1. k \in Nat \ {0} /\ k + 1 = i /\ k \in 1..Len(bus') BY <1>2, <2>1, <2>3
    <3> HIDE DEF k
    <3>2. NoWin(x, k + 1)'
      <4>1. k + 1 \in Nat \ {0} /\ NoWin(x, k + 1 + 1) BY <2>1, <3>1
      <4> QED BY <1>1, <1>x, <4>1, ShiftedFrom
    <3>3. bus'[k] = bus[i] BY <1>2, <3>1
    <3> QED BY <2>1, <3>1, <3>2, <3>3 DEF Fresh
  <2> QED BY <2>2, <2>3
<1> QED BY <1>3, <1>4 DEF Fresh

\* Taking an event keeps a parked download settled: the pause that brings the
\* checkpoint finds no completed row.
LEMMA TakeSettles ==
  ASSUME Typed, NEW ev, NEW x \in Hls, Fresh(x), Settles(x),
         Skip(ev) \/ PersistStarted(ev) \/ PersistPaused(ev) \/ PersistError(ev) \/ Promote(ev) \/ DeleteState(ev)
  PROVE  Settles(x)'
<1>x. x \in Ids BY Constants
<1>t. /\ row \in [Ids -> Unfinished \cup {None, "completed"}] /\ detail \in [Ids -> Levels]
      /\ level[x] # NoLevel
  BY <1>x, Constants DEF Typed, StoreTyped, PoolTyped
<1>1. Take(ev) /\ UNCHANGED <<level, late>> BY <1>x, TakeLeaves
<1>2. /\ Len(bus) \in Nat \ {0} /\ Len(bus') = Len(bus) - 1 /\ ev = bus[1] /\ pw.step = "idle"
      /\ \A i \in 1..Len(bus') : bus'[i] = bus[i + 1]
  BY <1>1, Shifted
<1>3. CASE Pays(x, late[x]) BY <1>1, <1>3 DEF Pays, Settles
<1>4. CASE late[x] = NoEvent /\ \E i \in 1..Len(bus) : Pays(x, bus[i]) /\ Calm(x, i + 1)
  <2>1. PICK i \in 1..Len(bus) : Pays(x, bus[i]) /\ Calm(x, i + 1) BY <1>4
  <2>2. CASE i = 1
    <3>1. ev.type = "paused" /\ ev.id = x /\ ev.lvl = level[x] BY <1>2, <2>1, <2>2 DEF Pays
    <3>2. row[x] # "completed"
      <4>1. SUFFICES ASSUME NEW j \in 1..Len(bus), bus[j].type = "started", bus[j].id = x PROVE FALSE
        BY DEF Fresh
      <4>2. j # 1 BY <1>2, <3>1, <4>1
      <4>3. j \in 1 + 1..Len(bus) BY <1>2, <4>1, <4>2
      <4>4. Mild(bus[j]) BY <2>1, <2>2, <4>1, <4>3 DEF Calm
      <4> QED BY <4>1, <4>4 DEF Mild
    <3>3. PersistPaused(ev)
      BY <1>t, <3>1, <3>2 DEF Skip, PersistStarted, PersistError, Promote, DeleteState
    <3>4. row'[x] = "paused" /\ pw'.step = "detail" /\ pw'.ev = ev /\ pw'.lvl = level[x]
      BY <1>t, <1>x, <3>1, <3>3 DEF PersistPaused, SetRow, Step
    <3>5. Calm(x, 1)' BY <1>1, <1>x, <2>1, <2>2, ShiftedFrom
    <3>6. Recorded(x)' BY <1>1, <3>1, <3>4 DEF Recorded
    <3> QED BY <1>1, <1>4, <3>5, <3>6 DEF Settles
  <2>3. CASE i # 1
    <3> DEFINE k == i - 1
    <3>1. k \in Nat \ {0} /\ k + 1 = i /\ k \in 1..Len(bus') BY <1>2, <2>1, <2>3
    <3> HIDE DEF k
    <3>2. Calm(x, k + 1)'
      <4>1. k + 1 \in Nat \ {0} /\ Calm(x, k + 1 + 1) BY <2>1, <3>1
      <4> QED BY <1>1, <1>x, <4>1, ShiftedFrom
    <3>3. bus'[k] = bus[i] BY <1>2, <3>1
    <3>4. Pays(x, bus[k])' BY <1>1, <2>1, <3>3 DEF Pays
    <3> QED BY <1>1, <1>4, <3>1, <3>2, <3>4 DEF Settles
  <2> QED BY <2>2, <2>3
<1>5. CASE late[x] = NoEvent /\ Calm(x, 1) /\ Recorded(x)
  <2>1. Calm(x, 1)' BY <1>1, <1>x, <1>5, ShiftedFrom
  <2>2. row[x] = "paused" /\ detail[x] = level[x] BY <1>2, <1>5 DEF Recorded
  <2>3. Recorded(x)'
    <3>1. CASE ev.id = x
      <4>1. Mild(ev) BY <1>2, <1>5, <3>1 DEF Calm
      <4>2. CASE Skip(ev)
        <5>1. UNCHANGED <<row, detail, pw>> BY <4>2 DEF Skip
        <5> QED BY <1>1, <1>2, <2>2, <5>1 DEF Recorded
      <4>3. CASE PersistPaused(ev)
        <5>1. ev.lvl = NoLevel BY <4>1, <4>3 DEF Mild, PersistPaused
        <5>2. row'[x] = "paused" /\ detail' = detail /\ pw'.step = "load"
          BY <1>t, <1>x, <3>1, <4>3, <5>1 DEF PersistPaused, SetRow, Step
        <5> QED BY <1>1, <2>2, <5>2 DEF Recorded
      <4>4. ~PersistStarted(ev) /\ ~PersistError(ev) /\ ~Promote(ev) /\ ~DeleteState(ev)
        BY <4>1 DEF Mild, PersistStarted, PersistError, Promote, DeleteState
      <4> QED BY <4>2, <4>3, <4>4
    <3>2. CASE ev.id # x
      <4>1. row'[x] = row[x] /\ detail'[x] = detail[x] BY <1>x, <3>2, TakeLeaves
      <4>2. pw'.step = "idle" \/ pw'.ev.id # x
        <5>1. IdlePw.step = "idle" BY DEF IdlePw
        <5> QED BY <1>2, <1>x, <3>2, <5>1, TakeLeaves
      <4> QED BY <1>1, <2>2, <4>1, <4>2 DEF Recorded
    <3> QED BY <3>1, <3>2
  <2> QED BY <1>1, <1>5, <2>1, <2>3 DEF Settles
<1> QED BY <1>3, <1>4, <1>5 DEF Settles

\* The next store call for an event that the worker has keeps the order of a
\* download, and leaves a parked one settled.
LEMMA HaveOrderly ==
  ASSUME Typed, NEW x \in Ids,
         LoadDetail \/ WriteDetail \/ RecordCompleted \/ DeleteDetail \/ RemoveFiles
  PROVE  /\ Fresh(x) => Fresh(x)'
         /\ Settles(x) => Settles(x)'
         /\ UNCHANGED <<entry, run, level, late>>
<1>t. /\ row \in [Ids -> Unfinished \cup {None, "completed"}] /\ detail \in [Ids -> Levels]
      /\ level[x] # NoLevel
  BY Constants DEF Typed, StoreTyped, PoolTyped
<1>1. UNCHANGED <<bus, entry, run, level, late>>
  BY DEF LoadDetail, WriteDetail, RecordCompleted, DeleteDetail, RemoveFiles, PwFrame, pool
<1>2. pw' = IdlePw \/ (pw'.ev = pw.ev /\ pw'.step \in {"detail", "gc"})
  BY DEF LoadDetail, WriteDetail, RecordCompleted, DeleteDetail, RemoveFiles, Done, Step
<1>i. IdlePw.step = "idle" BY DEF IdlePw
<1>e. pw.ev.id \in Ids
  <2>1. pw.step # "idle" BY DEF LoadDetail, WriteDetail, RecordCompleted, DeleteDetail, RemoveFiles
  <2> QED BY <2>1, EventFields DEF Typed, EventsTyped
<1>3. pw.ev.id # x => row'[x] = row[x] /\ detail'[x] = detail[x]
  BY <1>t, <1>e DEF LoadDetail, WriteDetail, RecordCompleted, DeleteDetail, RemoveFiles, SetRow, disk
<1>4. pw.step # "final" => row' = row
  BY DEF LoadDetail, WriteDetail, RecordCompleted, DeleteDetail, RemoveFiles, disk
<1>5. (\A i : NoWin(x, i) => NoWin(x, i)') /\ (\A i : Calm(x, i) => Calm(x, i)')
  BY <1>1 DEF NoWin, Calm, Mild
<1>6. Fresh(x) => Fresh(x)'
  <2>1. CASE row[x] # "completed" /\ (pw.step = "final" => pw.ev.id # x) /\ NoWin(x, 1)
    <3>1. row'[x] = row[x] BY <1>3, <1>4, <2>1
    <3>2. pw'.step # "final" BY <1>2, <1>i
    <3> QED BY <1>5, <2>1, <3>1, <3>2 DEF Fresh
  <2>2. CASE \E i \in 1..Len(bus) : bus[i].type = "started" /\ bus[i].id = x /\ NoWin(x, i + 1)
    BY <1>1, <1>5, <2>2 DEF Fresh
  <2> QED BY <2>1, <2>2 DEF Fresh
<1>7. Settles(x) => Settles(x)'
  <2>1. CASE Pays(x, late[x]) BY <1>1, <2>1 DEF Pays, Settles
  <2>2. CASE late[x] = NoEvent /\ \E i \in 1..Len(bus) : Pays(x, bus[i]) /\ Calm(x, i + 1)
    BY <1>1, <1>5, <2>2 DEF Settles, Pays
  <2>3. CASE late[x] = NoEvent /\ Calm(x, 1) /\ Recorded(x)
    <3>1. Recorded(x)'
      <4>1. CASE pw.ev.id # x
        <5>1. detail[x] = level[x] /\ row[x] = "paused" BY <2>3, <4>1 DEF Recorded
        <5>2. pw'.step = "idle" \/ pw'.ev.id # x BY <1>2, <1>i, <4>1
        <5> QED BY <1>1, <1>3, <4>1, <5>1, <5>2 DEF Recorded
      <4>2. CASE pw.ev.id = x /\ pw.step = "detail" /\ pw.lvl = level[x]
        <5>1. WriteDetail BY <4>2 DEF LoadDetail, RecordCompleted, DeleteDetail, RemoveFiles
        <5>2. detail'[x] = level[x] /\ row' = row /\ pw' = IdlePw
          BY <1>t, <4>2, <5>1 DEF WriteDetail, Done
        <5> QED BY <1>1, <1>i, <2>3, <5>2 DEF Recorded
      <4>3. CASE pw.ev.id = x /\ pw.step \in {"idle", "load"} /\ detail[x] = level[x]
        <5>1. LoadDetail BY <4>3 DEF LoadDetail, WriteDetail, RecordCompleted, DeleteDetail, RemoveFiles
        <5>2. row[x] = "paused" BY <2>3 DEF Recorded
        <5>3. Saved(x) = level[x] BY <4>3, <5>2 DEF Saved, Unfinished
        <5>4. UNCHANGED <<row, detail>> /\ pw'.step = "detail" /\ pw'.ev.id = x /\ pw'.lvl = level[x]
          BY <1>t, <4>3, <5>1, <5>3 DEF LoadDetail, Step, disk
        <5> QED BY <1>1, <5>2, <5>4 DEF Recorded
      <4> QED BY <2>3, <4>1, <4>2, <4>3 DEF Recorded
    <3> QED BY <1>1, <1>5, <2>3, <3>1 DEF Settles
  <2> QED BY <2>1, <2>2, <2>3 DEF Settles
<1> QED BY <1>1, <1>6, <1>7

\* A step of the persistence worker.
LEMMA PersistOrderly ==
  ASSUME Typed, NEW x \in Hls, Persist, Orderly(x)
  PROVE  Orderly(x)'
<1>x. x \in Ids BY Constants
<1>1. CASE LoadDetail \/ WriteDetail \/ RecordCompleted \/ DeleteDetail \/ RemoveFiles
  BY <1>1, <1>x, HaveOrderly DEF Orderly, Live, Parked
<1>2. CASE \E i \in 1..Len(bus) :
             \/ Skip(bus[i]) \/ PersistStarted(bus[i]) \/ PersistPaused(bus[i])
             \/ PersistError(bus[i]) \/ Promote(bus[i]) \/ DeleteState(bus[i])
  <2>1. PICK ev : Skip(ev) \/ PersistStarted(ev) \/ PersistPaused(ev) \/ PersistError(ev)
                  \/ Promote(ev) \/ DeleteState(ev)
    BY <1>2
  <2>2. UNCHANGED <<entry, run, level, late>> BY <1>x, <2>1, TakeLeaves
  <2>3. Fresh(x) => Fresh(x)' BY <2>1, TakeFresh
  <2>4. Fresh(x) /\ Settles(x) => Settles(x)' BY <2>1, TakeSettles
  <2>5. Parked(x) => Live(x) BY DEF Parked, Live
  <2> QED BY <2>2, <2>3, <2>4, <2>5 DEF Orderly, Live, Parked
<1> QED BY <1>1, <1>2 DEF Persist

\* Nothing is under way at the start.
LEMMA InitSettled ==
  ASSUME Heard, Init
  PROVE  SInv
<1>1. Typed /\ DownOK /\ KnownOK /\ AskedOK BY InitSafe DEF IInv
<1>2. PICK s \in Scenarios :
        scenario = s /\ budget = [calls |-> s.calls, drops |-> s.drops, crashes |-> MaxCrashes,
                                  cancels |-> [id \in Ids |-> MaxCancels]]
  BY DEF Init
<1>3. HeardOK BY <1>2 DEF HeardOK, Heard
<1>4. marked = {} /\ kept = {} BY DEF Init
<1> QED BY <1>1, <1>3, <1>4 DEF SInv, MarkedOK, OrderOK

\* Every step keeps every accepted HLS download in order.
LEMMA OrderKept ==
  ASSUME SInv, Next
  PROVE  OrderOK'
<1>i. Typed /\ DownOK /\ KnownOK /\ AskedOK /\ HeardOK /\ MarkedOK /\ OrderOK BY DEF SInv
<1>1. SUFFICES ASSUME NEW x \in kept' \cap Hls PROVE Orderly(x)' BY DEF OrderOK
<1>x. x \in Ids /\ x \in Hls BY <1>1, Constants
<1>2. CASE x \notin kept BY <1>i, <1>x, <1>1, <1>2, AcceptedOrderly
<1>3. CASE x \in kept
  <2>1. Orderly(x) /\ Known(x) /\ ~Asked(x) BY <1>i, <1>x, <1>3 DEF OrderOK, AskedOK
  <2>2. x \notin marked BY <1>i, <2>1 DEF MarkedOK
  <2>3. budget.drops = 0
    <3>1. x \in scenario.ids BY <1>i, <1>x, <2>1 DEF KnownOK, Named, Known
    <3> QED BY <1>i, <1>x, <3>1 DEF HeardOK
  <2>4. ~Removing(x) BY <1>i, <1>x, <2>1 DEF AskedOK
  <2>5. CASE \E y \in Ids : Enqueue(y) BY <1>i, <1>x, <2>1, <2>5, EnqueueOrderly
  <2>6. CASE \E y \in Ids : Run(y)
    <3>1. PICK y \in Ids : Run(y) BY <2>6
    <3>2. CASE x = y BY <1>i, <1>x, <2>1, <2>2, <2>3, <3>1, <3>2, OwnOrderly
    <3>3. CASE x # y BY <1>i, <1>x, <2>1, <3>1, <3>3, OtherOrderly
    <3> QED BY <3>2, <3>3
  <2>7. CASE \E u \in Users : User(u)
    <3>1. PICK u \in Users : User(u) BY <2>7
    <3>2. CASE Asking(u) BY <1>i, <1>x, <2>1, <3>2, AskOrderly
    <3>3. CASE \E y \in Ids : CancelCall(u, y)
      <4>1. PICK y \in Ids : CancelCall(u, y) BY <3>3
      <4>2. Begins(u, y) /\ x # y BY <1>i, <1>1, <4>1, CancelBegins DEF Begins
      <4> QED BY <1>i, <1>x, <2>1, <4>2, CancelOrderly
    <3>4. CASE CancelPool(u) \/ CancelWait(u) \/ CancelEntry(u)
      <4>1. PICK y \in Ids, pc \in Removal : Proceeds(u, y, pc) BY <1>i, <3>4, CancelProceeds
      <4>2. x # y BY <2>4, <4>1 DEF Proceeds, Removing, Cancels
      <4> QED BY <1>i, <1>x, <2>1, <4>1, <4>2, CancelOrderly
    <3>5. CASE CancelPublish(u)
      <4>1. PICK y, ev : Announces(u, y, ev) BY <1>i, <3>5, CancelAnnounces
      <4>2. y \in Ids /\ x # y BY <2>4, <4>1 DEF Announces, Removing, Cancels, Removal
      <4> QED BY <1>i, <1>x, <2>1, <4>1, <4>2, CancelOrderly
    <3> QED BY <3>1, <3>2, <3>3, <3>4, <3>5 DEF User, Asking
  <2>8. CASE Persist BY <1>i, <1>x, <2>1, <2>8, PersistOrderly
  <2>n. None \notin Running \cup {"failed", "paused"} BY DEF None, Running
  <2>9. CASE Crash
    <3>1. entry'[x] = None /\ run'[x] = None BY <1>x, <2>9 DEF Crash
    <3> QED BY <2>n, <3>1 DEF Orderly, Live, Parked
  <2>10. CASE Recover
    <3>1. phase # "up" BY <2>10 DEF Recover, NormalizeStaleDownloads, ValidateIntegrity
    <3>2. UNCHANGED <<entry, run>>
      BY <2>10 DEF Recover, NormalizeStaleDownloads, ValidateIntegrity, pool
    <3>3. entry'[x] = None /\ run'[x] = None BY <1>i, <1>x, <3>1, <3>2 DEF DownOK
    <3> QED BY <2>n, <3>3 DEF Orderly, Live, Parked
  <2> QED BY <2>5, <2>6, <2>7, <2>8, <2>9, <2>10 DEF Next
<1> QED BY <1>2, <1>3

\* Every step keeps the invariant.
LEMMA NextSettled ==
  ASSUME SInv, [Next]_vars
  PROVE  SInv'
<1>i. Typed /\ DownOK /\ KnownOK /\ AskedOK /\ HeardOK /\ MarkedOK /\ OrderOK BY DEF SInv
<1>1. CASE UNCHANGED vars
  <2> USE DEF vars, disk, pool, calls, ghost
  <2>1. Typed' BY <1>i, <1>1 DEF Typed, StoreTyped, PoolTyped, CallsTyped, EventsTyped, BoundsTyped
  <2>2. DownOK' BY <1>i, <1>1 DEF DownOK
  <2>3. KnownOK' BY <1>i, <1>1 DEF KnownOK, Named, Known
  <2>4. AskedOK' BY <1>i, <1>1 DEF AskedOK, Asked, Known, Removing, Cancels, Announced, Cleans
  <2>5. HeardOK' /\ MarkedOK' BY <1>i, <1>1 DEF HeardOK, MarkedOK, Asked
  <2>6. OrderOK'
    <3>1. \A x : Fresh(x)' = Fresh(x) BY <1>1 DEF Fresh, NoWin
    <3>2. \A x : Settles(x)' = Settles(x) BY <1>1 DEF Settles, Pays, Calm, Mild, Recorded
    <3> QED BY <1>i, <1>1, <3>1, <3>2 DEF OrderOK, Orderly, Live, Parked
  <2> QED BY <2>1, <2>2, <2>3, <2>4, <2>5, <2>6 DEF SInv
<1>2. CASE Next
  <2>1. Steps /\ scenario' = scenario /\ Typed' BY <1>i, <1>2, NextSteps
  <2>2. DownOK' BY <1>i, <1>2, DownKept
  <2>3. KnownOK' BY <1>i, <2>1, KnownKept
  <2>4. AskedOK' BY <1>i, <2>1, AskedKept
  <2>5. HeardOK' /\ MarkedOK' BY <1>i, <1>2, HeardKept, MarkedKept
  <2>6. OrderOK' BY <1>2, OrderKept
  <2> QED BY <2>1, <2>2, <2>3, <2>4, <2>5, <2>6 DEF SInv
<1> QED BY <1>1, <1>2

\* Once all events are applied, the store has the checkpoint an accepted HLS
\* download was parked with, whatever older completions, pauses and errors were
\* on their way when it was saved, however often it was paused and resumed.
THEOREM CheckpointAlwaysSettles == Heard => (Spec => []CheckpointSettles)
<1> SUFFICES ASSUME Heard PROVE Spec => []CheckpointSettles OBVIOUS
<1>1. SInv => CheckpointSettles
  <2> SUFFICES ASSUME SInv, Rest, NEW x \in Hls \cap kept, entry[x] = "paused", level[x] > 0
               PROVE  row[x] = "paused" /\ detail[x] \in level[x]..MaxLevel
    BY DEF CheckpointSettles
  <2>x. x \in Ids /\ x \in kept \cap Hls BY Constants
  <2>1. Settles(x) BY <2>x DEF SInv, OrderOK, Orderly, Parked
  <2>2. late[x] = NoEvent /\ bus = <<>> /\ pw = IdlePw BY <2>x DEF Rest
  <2>3. ~Pays(x, late[x]) BY <2>2 DEF Pays, NoEvent, Event, None
  <2>4. 1..Len(bus) = {} BY <2>2
  <2>5. Recorded(x) BY <2>1, <2>3, <2>4 DEF Settles
  <2>6. row[x] = "paused" /\ detail[x] = level[x] BY <2>2, <2>5 DEF Recorded, IdlePw
  <2>7. level[x] \in 0..MaxLevel /\ MaxLevel \in Nat BY <2>x, Constants DEF SInv, Typed, PoolTyped
  <2>8. level[x] \in level[x]..MaxLevel BY <2>7
  <2> QED BY <2>6, <2>8
<1>2. Init => SInv BY InitSettled
<1>3. SInv /\ [Next]_vars => SInv' BY NextSettled
<1> QED BY <1>1, <1>2, <1>3, PTL DEF Spec

-----------------------------------------------------------------------------
(* A removed download stays removed.                                         *)
(*                                                                           *)
(* The removal of an HLS download is announced when its run has ended and    *)
(* everything the run had to say is on the bus, so nothing of the download   *)
(* comes behind the announcement but sparse pauses, which find no row.  What *)
(* is left is the working file: a removal that says the download was done    *)
(* leaves it alone, because the completion, which moves it, is recorded or   *)
(* on the bus before the removal.  That takes that a completed download is   *)
(* not resumed into a second run, and that a removal and a resume of one     *)
(* download do not overlap.                                                  *)

\* Of a download that may be removed each removal is the only one, no event is
\* dropped, and it is resumed by the one caller that removes it and not before
\* its completion is recorded.
Alternate ==
  /\ MaxCancels <= 1
  /\ \A s \in Scenarios : "cancel" \in s.ops =>
       /\ s.drops = 0 \/ s.ids \cap Hls = {}
       /\ "resume" \in s.ops => ~LateResume /\ \A u, v \in s.users : u = v

Removals == "cancel" \in scenario.ops

CallersOK == \A u \in Users : user[u].pc # "idle" => u \in scenario.users

\* An Enqueue that has not returned has its row when it comes to write it.
EarlyOK == \A x \in Ids :
  /\ enq[x] \in {"idle", "reserved", "locked"} => row[x] = None
  /\ enq[x] = "row" => row[x] = "queued"
  /\ enq[x] = "added" => row[x] # None

\* A completion of a download, on the bus and anywhere before it is recorded.
Wins(x, i) == bus[i].type = "complete" /\ bus[i].id = x
Winning(x) ==
  \/ pw.step = "final" /\ pw.ev.id = x
  \/ run[x] = "won"
  \/ \E i \in 1..Len(bus) : Wins(x, i)
Ended(x) == row[x] = "completed" \/ Winning(x)

At(u, x, pcs) == user[u].pc \in pcs /\ user[u].id = x

\* Nobody asked for the removal yet, or the call has not returned.
Unremoved(x) == ~Asked(x) \/ \E u \in Users : Cancels(u, x)

\* The working file is not there, or a completion on the bus will move it.
Promised(x) == surge[dest[x]] # x \/ \E i \in 1..Len(bus) : Wins(x, i)
Cleared(x, i) == surge[dest[x]] # x \/ \E j \in 1..i - 1 : Wins(x, j)

\* A download that has ended is not in the pool again.
Over(x) ==
  /\ run[x] # None => entry[x] \in {"active", None}
  /\ Ended(x) => entry[x] \notin {"queued", "paused"} /\ run[x] \in {None, "won"}

\* Where a resume has come to.
Back(x) ==
  \A u \in Users :
    /\ At(u, x, {"hydrate", "cload", "add"}) => ~Ended(x)
    /\ At(u, x, Resuming \ {"rpub"}) => ~Winning(x) /\ run[x] = None /\ entry[x] \in {None, "paused"}

\* Where a removal has come to.
Left(x) ==
  \A u \in Users :
    /\ At(u, x, {"cwait", "centry", "cpub"}) => entry[x] = None /\ (user[u].done => Promised(x))
    /\ At(u, x, {"centry", "cpub"}) => run[x] = None /\ late[x] = NoEvent
    /\ At(u, x, {"cpub"}) => user[u].found \/ row[x] = None

\* Startup dropped the download with all it had, and nobody works on it.
Blank(x) ==
  /\ detail[x] = NoLevel /\ surge[dest[x]] # x
  /\ entry[x] = None /\ run[x] = None /\ late[x] = NoEvent
  /\ \A i \in 1..Len(bus) : bus[i].id # x
  /\ pw.step # "idle" => pw.ev.id # x
  /\ \A u \in Users : /\ ~At(u, x, {"hydrate", "cload", "add", "rpub", "ppub"})
                      /\ Cancels(u, x) => ~user[u].found

Held(x) == Unremoved(x) =>
  /\ Known(x) /\ row[x] = None => Blank(x)
  /\ run[x] = "won" => Promised(x)

\* The working file of a download whose completion is being recorded was moved.
Moved(x) ==
  row[x] = "completed" \/ (pw.step = "final" /\ pw.ev.id = x) => surge[dest[x]] # x

\* The removal is on the bus, before nothing but mild events, or was applied, but
\* for the working file.
Coming(x) == row[x] # None /\ \E i \in 1..Len(bus) :
  Announced(x, i) /\ Calm(x, i + 1) /\ (bus[i].done => Cleared(x, i))
Applied(x) ==
  /\ row[x] = None /\ detail[x] = NoLevel /\ Calm(x, 1)
  /\ Cleans(x) \/ (surge[dest[x]] # x /\ (pw.step = "idle" \/ pw.ev.id # x))
Gone(x) ==
  /\ entry[x] = None /\ run[x] = None /\ late[x] = NoEvent
  /\ \A u \in Users : ~Cancels(u, x)
  /\ Coming(x) \/ Applied(x)

Fine(x) ==
  /\ Single(x) /\ Over(x) /\ Back(x) /\ Left(x) /\ Held(x) /\ Moved(x)
  /\ x \in gone => Gone(x)

\* Only what somebody asked to remove is gone.
GoneOK == \A x \in gone : Asked(x)

RInv ==
  /\ Typed /\ DownOK /\ KnownOK /\ AskedOK /\ CallersOK /\ EarlyOK /\ GoneOK
  /\ Removals => HeardOK /\ \A x \in Hls : Fine(x)

\* A call may come to a place: it stays, leaves the download, or goes on with a
\* pause or a resume as far as the download allows.
Comes(u, x) ==
  \/ user'[u] = user[u] \/ user'[u].id # x \/ user'[u].pc \in {"idle", "plook"}
  \/ /\ user'[u].pc \in {"ppub"} \cup Resuming
     /\ user'[u].pc \in {"hydrate", "cload", "add"} => ~Ended(x)
     /\ user'[u].pc \in Resuming \ {"rpub"} => ~Winning(x) /\ run[x] = None /\ entry[x] \in {None, "paused"}
     /\ user'[u].pc \in {"hydrate", "cload", "add", "rpub", "ppub"} => row[x] # None \/ ~Blank(x)

\* A step that leaves a download alone, but for a pause or a mild event of its own.
Leaves(x, ev) ==
  /\ ev \in Events /\ Sent(ev) /\ (ev.id = x => Mild(ev) /\ (bus' = bus \/ row[x] # None \/ ~Blank(x)))
  /\ pw' = pw /\ row'[x] = row[x] /\ detail'[x] = detail[x] /\ late'[x] = late[x]
  /\ entry'[x] \in {entry[x], None}
  /\ run'[x] = run[x] \/ (run[x] = "running" /\ run'[x] = "pausing")
  /\ (Asked(x)' <=> Asked(x)) /\ (Known(x)' => Known(x))
  /\ surge'[dest'[x]] = x => surge[dest[x]] = x
  /\ x \in gone' => x \in gone
  /\ \A u \in Users : Comes(u, x)

\* What such a step leaves of the bus.
LEMMA BusAside ==
  ASSUME Typed, NEW x \in Ids, NEW ev \in Events, Sent(ev), ev.id = x => ev.type \notin {"complete", "removed"}
  PROVE  /\ Len(bus) \in Nat /\ Len(bus') \in {Len(bus), Len(bus) + 1}
         /\ \A i \in 1..Len(bus) : i \in 1..Len(bus') /\ bus'[i] = bus[i]
         /\ \A i \in 1..Len(bus') : Wins(x, i)' => i \in 1..Len(bus) /\ Wins(x, i)
         /\ \A i \in 1..Len(bus) : Wins(x, i) => i \in 1..Len(bus') /\ Wins(x, i)'
         /\ \A i \in 1..Len(bus') : Announced(x, i)' => i \in 1..Len(bus) /\ Announced(x, i)
<1>1. /\ Len(bus) \in Nat /\ Len(bus') \in {Len(bus), Len(bus) + 1}
      /\ \A i \in 1..Len(bus) : bus'[i] = bus[i]
      /\ \A i \in 1..Len(bus') : i \in 1..Len(bus) \/ (i = Len(bus) + 1 /\ bus'[i] = ev)
  BY SentBus DEF Typed
<1>2. \A i \in 1..Len(bus) : i \in 1..Len(bus') BY <1>1
<1>3. \A i \in 1..Len(bus') : Wins(x, i)' => i \in 1..Len(bus) /\ Wins(x, i) BY <1>1 DEF Wins
<1>4. \A i \in 1..Len(bus) : Wins(x, i) => i \in 1..Len(bus') /\ Wins(x, i)' BY <1>1, <1>2 DEF Wins
<1>5. \A i \in 1..Len(bus') : Announced(x, i)' => i \in 1..Len(bus) /\ Announced(x, i)
  BY <1>1 DEF Announced
<1> QED BY <1>1, <1>2, <1>3, <1>4, <1>5

\* Mild events behind the bus keep it calm.
LEMMA CalmAside ==
  ASSUME Typed, NEW x \in Ids, NEW ev \in Events, Sent(ev), ev.id = x => Mild(ev),
         NEW i \in Nat \ {0}, Calm(x, i)
  PROVE  Calm(x, i)'
<1>1. /\ Len(bus) \in Nat /\ \A j \in 1..Len(bus) : bus'[j] = bus[j]
      /\ \A j \in 1..Len(bus') : j \in 1..Len(bus) \/ (j = Len(bus) + 1 /\ bus'[j] = ev)
      /\ Len(bus') \in Nat
  BY SentBus DEF Typed
<1>2. SUFFICES ASSUME NEW j \in i..Len(bus'), bus'[j].id = x PROVE Mild(bus'[j]) BY DEF Calm, Mild
<1>3. j \in 1..Len(bus') BY <1>1, <1>2
<1>4. CASE j \in 1..Len(bus)
  <2>1. j \in i..Len(bus) /\ bus'[j] = bus[j] BY <1>1, <1>2, <1>4
  <2> QED BY <1>2, <2>1 DEF Calm
<1> QED BY <1>1, <1>2, <1>3, <1>4

\* A removal that is coming or was applied stays so behind mild events.
LEMMA GoneAside ==
  ASSUME Typed, NEW x \in Ids, NEW ev \in Events, Sent(ev), ev.id = x => Mild(ev),
         pw' = pw, row'[x] = row[x], detail'[x] = detail[x],
         surge'[dest'[x]] = x => surge[dest[x]] = x,
         Coming(x) \/ Applied(x)
  PROVE  Coming(x)' \/ Applied(x)'
<1>m. ev.id = x => ev.type \notin {"complete", "removed"} BY DEF Mild
<1>b. /\ \A i \in 1..Len(bus) : i \in 1..Len(bus') /\ bus'[i] = bus[i]
      /\ \A i \in 1..Len(bus) : Wins(x, i) => i \in 1..Len(bus') /\ Wins(x, i)'
      /\ Len(bus) \in Nat
  BY <1>m, BusAside
<1>1. CASE Coming(x)
  <2>1. PICK i \in 1..Len(bus) : Announced(x, i) /\ Calm(x, i + 1) /\ (bus[i].done => Cleared(x, i))
    BY <1>1 DEF Coming
  <2>2. i + 1 \in Nat \ {0} /\ i \in 1..Len(bus') /\ bus'[i] = bus[i] /\ Announced(x, i)'
    BY <1>b, <2>1 DEF Announced
  <2>3. Calm(x, i + 1)' BY <2>1, <2>2, CalmAside
  <2>4. Cleared(x, i) => Cleared(x, i)'
    <3>1. \A j \in 1..i - 1 : j \in 1..Len(bus) BY <1>b, <2>1
    <3> QED BY <1>b, <3>1 DEF Cleared
  <2> QED BY <1>1, <2>1, <2>2, <2>3, <2>4 DEF Coming
<1>2. CASE Applied(x)
  <2>1. Calm(x, 1)' BY <1>2, CalmAside DEF Applied
  <2> QED BY <1>2, <2>1 DEF Applied, Cleans
<1> QED BY <1>1, <1>2

\* A step that leaves a download alone keeps it in order.
LEMMA FineAside ==
  ASSUME Typed, NEW x \in Ids, NEW ev, Leaves(x, ev), Fine(x)
  PROVE  Fine(x)'
<1>l. /\ ev \in Events /\ Sent(ev) /\ (ev.id = x => Mild(ev) /\ (bus' = bus \/ row[x] # None \/ ~Blank(x)))
      /\ pw' = pw /\ row'[x] = row[x] /\ detail'[x] = detail[x] /\ late'[x] = late[x]
      /\ entry'[x] \in {entry[x], None}
      /\ run'[x] = run[x] \/ (run[x] = "running" /\ run'[x] = "pausing")
      /\ (Asked(x)' <=> Asked(x)) /\ (Known(x)' => Known(x))
      /\ surge'[dest'[x]] = x => surge[dest[x]] = x
      /\ x \in gone' => x \in gone
      /\ \A u \in Users : Comes(u, x)
  BY DEF Leaves
<1>n. None = "none" BY DEF None
<1>m. ev.id = x => ev.type \notin {"complete", "removed"} BY <1>l DEF Mild
<1>b. /\ \A i \in 1..Len(bus) : i \in 1..Len(bus') /\ bus'[i] = bus[i]
      /\ \A i \in 1..Len(bus') : Wins(x, i)' => i \in 1..Len(bus) /\ Wins(x, i)
      /\ \A i \in 1..Len(bus) : Wins(x, i) => i \in 1..Len(bus') /\ Wins(x, i)'
      /\ \A i \in 1..Len(bus') : Announced(x, i)' => i \in 1..Len(bus) /\ Announced(x, i)
  BY <1>l, <1>m, BusAside
<1>f. Single(x) /\ Over(x) /\ Back(x) /\ Left(x) /\ Held(x) /\ Moved(x) BY DEF Fine
<1>u. \A u \in Users : Cancels(u, x)' => Cancels(u, x) /\ user'[u] = user[u]
  BY <1>l DEF Cancels, Comes, Removal, Resuming
<1>a. \A u \in Users : At(u, x, {"cwait", "centry", "cpub"})' => user'[u] = user[u]
  BY <1>l DEF At, Comes, Resuming
<1>p. Promised(x) => Promised(x)' BY <1>l, <1>b DEF Promised
<1>r. run'[x] = "won" => run[x] = "won" BY <1>l
<1>w. (Winning(x)' => Winning(x)) /\ (Ended(x)' => Ended(x)) BY <1>l, <1>b, <1>r DEF Winning, Ended
<1>1. Single(x)'
  <2>1. Cleans(x)' => Cleans(x) BY <1>l DEF Cleans
  <2> QED BY <1>f, <1>b, <1>u, <2>1, SingleStays
<1>2. Over(x)' BY <1>l, <1>f, <1>w, <1>n DEF Over
<1>3. Back(x)'
  <2> SUFFICES ASSUME NEW u \in Users
               PROVE  /\ At(u, x, {"hydrate", "cload", "add"})' => ~Ended(x)'
                      /\ At(u, x, Resuming \ {"rpub"})' => ~Winning(x)' /\ run'[x] = None /\ entry'[x] \in {None, "paused"}
    BY DEF Back
  <2>1. At(u, x, {"hydrate", "cload", "add"})' => ~Ended(x)
    BY <1>l, <1>f DEF At, Comes, Back
  <2>2. At(u, x, Resuming \ {"rpub"})' => ~Winning(x) /\ run[x] = None /\ entry[x] \in {None, "paused"}
    BY <1>l, <1>f DEF At, Comes, Back, Resuming
  <2> QED BY <1>l, <1>w, <1>n, <2>1, <2>2
<1>4. Left(x)'
  <2> SUFFICES ASSUME NEW u \in Users, At(u, x, {"cwait", "centry", "cpub"})'
               PROVE  /\ entry'[x] = None /\ (user'[u].done => Promised(x)')
                      /\ At(u, x, {"centry", "cpub"})' => run'[x] = None /\ late'[x] = NoEvent
                      /\ At(u, x, {"cpub"})' => user'[u].found \/ row'[x] = None
    BY DEF Left, At
  <2>1. user'[u] = user[u] BY <1>a
  <2> QED BY <1>l, <1>f, <1>p, <1>n, <2>1 DEF Left, At
<1>5. Held(x)'
  <2>1. Unremoved(x)' => Unremoved(x) BY <1>l, <1>u DEF Unremoved
  <2>2. Blank(x) /\ row[x] = None => Blank(x)'
    <3>1. SUFFICES ASSUME Blank(x), row[x] = None PROVE Blank(x)' OBVIOUS
    <3>2. ev.id # x \/ bus' = bus BY <1>l, <3>1
    <3>3. \A i \in 1..Len(bus') : bus'[i].id # x BY <1>l, <3>1, <3>2, BusFrom DEF Blank
    <3>4. \A u \in Users : /\ ~At(u, x, {"hydrate", "cload", "add", "rpub", "ppub"})'
                           /\ Cancels(u, x)' => ~user'[u].found
      BY <1>l, <1>u, <3>1 DEF Blank, At, Comes
    <3> QED BY <1>l, <1>n, <3>1, <3>3, <3>4 DEF Blank
  <2> QED BY <1>l, <1>f, <1>p, <1>r, <2>1, <2>2 DEF Held
<1>6. Moved(x)' BY <1>l, <1>f DEF Moved
<1>7. x \in gone' => Gone(x)'
  <2>1. SUFFICES ASSUME x \in gone PROVE Gone(x)' BY <1>l
  <2>2. Gone(x) BY <2>1 DEF Fine
  <2>3. Coming(x)' \/ Applied(x)' BY <1>l, <2>2, GoneAside DEF Gone
  <2> QED BY <1>l, <1>u, <1>n, <2>2, <2>3 DEF Gone
<1> QED BY <1>1, <1>2, <1>3, <1>4, <1>5, <1>6, <1>7 DEF Fine

\* Nothing of a download is under way.
Still(x) ==
  /\ \A u \in Users : user[u].pc # "idle" => user[u].id # x
  /\ \A i \in 1..Len(bus) : bus[i].id # x
  /\ pw.step # "idle" => pw.ev.id # x
  /\ run[x] = None /\ late[x] = NoEvent
  /\ row[x] = "completed" => entry[x] = None
  /\ Held(x) /\ Moved(x) /\ (x \in gone => Gone(x))

StillsFine == \A x \in Ids : Still(x) => Fine(x)

\* Then there is nothing more to ask.
LEMMA StillFine == StillsFine
<1> SUFFICES ASSUME NEW x \in Ids, Still(x) PROVE Fine(x) BY DEF StillsFine
<1>1. \A u \in Users : user[u].pc # "idle" => user[u].id # x BY DEF Still
<1>2. \A u \in Users : ~Cancels(u, x) BY <1>1 DEF Cancels, Removal
<1>3. \A u \in Users : \A pcs \in {{"hydrate", "cload", "add"}, Resuming \ {"rpub"},
        {"cwait", "centry", "cpub"}, {"centry", "cpub"}, {"cpub"}} : ~At(u, x, pcs)
  BY <1>1 DEF At, Resuming
<1>4. \A i \in 1..Len(bus) : ~Announced(x, i) /\ ~Wins(x, i) BY DEF Still, Announced, Wins
<1>5. ~Cleans(x) /\ ~Winning(x) BY <1>4 DEF Still, Cleans, Winning, None
<1>6. Single(x) BY <1>2, <1>4, <1>5 DEF Single
<1>7. Over(x) BY <1>5 DEF Over, Still, Ended, None
<1>8. Back(x) BY <1>3 DEF Back
<1>9. Left(x) BY <1>3 DEF Left
<1> QED BY <1>6, <1>7, <1>8, <1>9 DEF Fine, Still

UnknownsFine ==
  Typed /\ KnownOK /\ AskedOK /\ EarlyOK /\ GoneOK => \A x \in Ids : ~Known(x) => Fine(x)

\* Nothing is under way of a download that nobody accepted.
LEMMA UnknownFine == UnknownsFine
<1> SUFFICES ASSUME Typed, KnownOK, AskedOK, EarlyOK, GoneOK, NEW x \in Ids, ~Known(x)
             PROVE  Fine(x)
  BY DEF UnknownsFine
<1>1. enq[x] \in {"idle", "reserved", "locked", "row"} BY DEF Typed, CallsTyped, Known
<1>2. row[x] # "completed" BY <1>1 DEF EarlyOK, None
<1>3. \A u \in Users : user[u].pc # "idle" => user[u].id # x BY DEF KnownOK, Known
<1>4. \A i \in 1..Len(bus) : bus[i].id # x BY DEF KnownOK
<1>5. pw.step # "idle" => pw.ev.id # x BY DEF KnownOK
<1>6. run[x] = None /\ late[x] = NoEvent BY DEF KnownOK
<1>7. Held(x) BY <1>6 DEF Held, None
<1>8. Moved(x) BY <1>2, <1>5 DEF Moved
<1>9. x \notin gone BY <1>1 DEF GoneOK, AskedOK
<1>10. Still(x) BY <1>2, <1>3, <1>4, <1>5, <1>6, <1>7, <1>8, <1>9 DEF Still
<1> QED BY <1>10, StillFine DEF StillsFine

\* What a step about another download leaves.
LEMMA BesideLeaves ==
  ASSUME Typed, KnownOK, NEW x \in Ids, NEW ev \in Events, ev.id # x, Sent(ev), Known(x),
         pw' = pw, row'[x] = row[x], detail'[x] = detail[x], entry'[x] = entry[x],
         run'[x] = run[x], late'[x] = late[x], enq'[x] = enq[x],
         budget'.cancels[x] = budget.cancels[x], x \in gone' => x \in gone,
         dest'[x] = dest[x], surge' = surge \/ \E n, y : y # x /\ surge' = [surge EXCEPT ![n] = y],
         \A u \in Users : user'[u] = user[u] \/ user'[u].id # x \/ user'[u].pc \in {"idle", "plook"}
  PROVE  Leaves(x, ev)
<1>1. dest[x] \in Names BY DEF KnownOK, Named, Known
<1>2. surge \in [Names -> Ids \cup {None}] BY DEF Typed, StoreTyped
<1>3. surge'[dest'[x]] = x => surge[dest[x]] = x BY <1>1, <1>2
<1>4. \A u \in Users : Comes(u, x) BY DEF Comes
<1>5. (Asked(x)' <=> Asked(x)) /\ (Known(x)' => Known(x)) BY DEF Asked, Known
<1> QED BY <1>3, <1>4, <1>5 DEF Leaves

\* A step of an Enqueue.
LEMMA EnqueueFine ==
  ASSUME Typed, KnownOK, AskedOK, EarlyOK, GoneOK, NEW x \in Ids, NEW y \in Ids, Enqueue(y), Fine(x),
         Typed', KnownOK', AskedOK', EarlyOK', GoneOK'
  PROVE  Fine(x)'
<1>n. None = "none" BY DEF None
<1>t. /\ enq \in [Ids -> {"idle", "reserved", "locked", "row", "added", "done"}]
      /\ entry \in [Ids -> {None, "queued", "active", "paused"}] /\ dest \in [Ids -> 0..Dests]
      /\ row \in [Ids -> Unfinished \cup {None, "completed"}] /\ detail \in [Ids -> Levels]
  BY DEF Typed, StoreTyped, PoolTyped, CallsTyped
<1> DEFINE ev == Event("queued", y, NoLevel, FALSE)
<1>1. ev \in Events /\ Mild(ev) BY MildIs
<1>2. ev.id = y BY DEF Event
<1>3. Sent(ev) /\ UNCHANGED <<pw, run, late, user, gone, budget>>
  BY DEF Enqueue, Reserve, LockEnqueue, PersistQueued, SeedAndAdd, PublishQueued, Publish, Sent, pool, ghost
<1> HIDE DEF ev
<1>4. CASE ~Known(x)'
  <2>1. UnknownsFine' BY UnknownFine, PTL
  <2> QED BY <1>4, <2>1 DEF UnknownsFine
<1>5. CASE Known(x)' /\ x # y
  <2>1. /\ enq'[x] = enq[x] /\ entry'[x] = entry[x] /\ dest'[x] = dest[x] /\ row'[x] = row[x]
        /\ detail'[x] = detail[x]
    BY <1>t, <1>5 DEF Enqueue, Reserve, LockEnqueue, PersistQueued, SeedAndAdd, PublishQueued, pool, disk
  <2>2. surge' = surge \/ \E n : surge' = [surge EXCEPT ![n] = y]
    BY DEF Enqueue, Reserve, LockEnqueue, PersistQueued, SeedAndAdd, PublishQueued, pool, disk
  <2>3. Known(x) BY <1>5, <2>1 DEF Known
  <2>4. surge' = surge \/ \E n, z : z # x /\ surge' = [surge EXCEPT ![n] = z] BY <1>5, <2>2
  <2>5. run'[x] = run[x] /\ late'[x] = late[x] /\ pw' = pw /\ budget'.cancels[x] = budget.cancels[x] /\ gone' = gone
    BY <1>3
  <2>6. \A u \in Users : user'[u] = user[u] BY <1>3
  <2>7. ev.id # x BY <1>2, <1>5
  <2>8. Leaves(x, ev) BY <1>1, <1>3, <2>1, <2>3, <2>4, <2>5, <2>6, <2>7, BesideLeaves
  <2> QED BY <2>8, FineAside
<1>6. CASE Known(x)' /\ x = y /\ enq[x] = "added"
  <2>1. UNCHANGED <<disk, pool>>
    BY <1>6 DEF Enqueue, Reserve, LockEnqueue, PersistQueued, SeedAndAdd, PublishQueued
  <2>2. row[x] # None /\ Known(x) BY <1>6 DEF EarlyOK, Known
  <2>3. Asked(x)' <=> Asked(x) BY <1>3 DEF Asked
  <2>4. Leaves(x, ev) BY <1>1, <1>3, <2>1, <2>2, <2>3 DEF Leaves, Comes, disk, pool
  <2> QED BY <2>4, FineAside
<1>7. CASE Known(x)' /\ x = y /\ enq[x] # "added"
  <2>1. SeedAndAdd(x)
    BY <1>t, <1>7 DEF Enqueue, Reserve, LockEnqueue, PersistQueued, PublishQueued, Known
  <2>2. enq[x] = "row" /\ row' = row /\ bus' = bus BY <2>1 DEF SeedAndAdd
  <2>3. row[x] = "queued" /\ ~Known(x) BY <2>2 DEF EarlyOK, Known
  <2>4. \A u \in Users : user'[u].pc # "idle" => user'[u].id # x BY <1>3, <2>2 DEF KnownOK
  <2>5. \A i \in 1..Len(bus') : bus'[i].id # x BY <2>2, <2>3 DEF KnownOK
  <2>6. pw'.step # "idle" => pw'.ev.id # x BY <1>3, <2>3 DEF KnownOK
  <2>7. run'[x] = None /\ late'[x] = NoEvent BY <1>3, <2>3 DEF KnownOK
  <2>8. Held(x)' BY <1>n, <2>2, <2>3, <2>7 DEF Held
  <2>9. Moved(x)' BY <2>2, <2>3, <2>6 DEF Moved
  <2>10. x \notin gone' BY <1>3, <2>2 DEF GoneOK, AskedOK
  <2>11. Still(x)' BY <2>2, <2>3, <2>4, <2>5, <2>6, <2>7, <2>8, <2>9, <2>10 DEF Still
  <2>12. StillsFine' BY StillFine, PTL
  <2> QED BY <2>11, <2>12 DEF StillsFine
<1> QED BY <1>4, <1>5, <1>6, <1>7

\* A step of the run of another download.
LEMMA OtherRunFine ==
  ASSUME Typed, KnownOK, NEW x \in Ids, NEW y \in Ids, x # y, Run(y), Known(x), Fine(x)
  PROVE  Fine(x)'
<1>1. PICK ev : Runs(y, ev) BY RunDoes
<1>2. /\ ev \in Events /\ ev.id = y /\ Sent(ev) /\ UNCHANGED <<pw, row, dest, enq, user, gone>>
      /\ entry'[x] = entry[x] /\ run'[x] = run[x] /\ late'[x] = late[x]
      /\ budget'.cancels = budget.cancels
      /\ surge' = surge \/ surge' = [surge EXCEPT ![dest[y]] = y]
  BY <1>1 DEF Runs, Spends
<1>3. detail'[x] = detail[x]
  BY DEF Typed, StoreTyped, Run, Start, Advance, Win, Retire, Fail, Detach, Requeue,
     SavePause, OpenPause, LastLook, SendLate, Checkpoint, Cancelled, disk
<1>4. surge' = surge \/ \E n, z : z # x /\ surge' = [surge EXCEPT ![n] = z] BY <1>2
<1>5. Leaves(x, ev) BY <1>2, <1>3, <1>4, BesideLeaves
<1> QED BY <1>5, FineAside

\* A step sends no completion and no removal.
Plainly == \E ev \in Events : Sent(ev) /\ ev.type \notin {"complete", "removed"}

\* Only a win sends a completion.
LEMMA RunPlainly ==
  ASSUME Typed, NEW x \in Hls, Run(x)
  PROVE  Win(x) \/ Plainly
<1>x. x \in Ids BY Constants
<1>t. /\ late \in [Ids -> Events \cup {NoEvent}]
      /\ late[x] # NoEvent => late[x].type \in {"paused", "error"}
  BY <1>x DEF Typed, PoolTyped
<1>l. NoLevel \in Levels BY Constants
<1>v. \A type \in {"queued", "started"} :
        Event(type, x, NoLevel, FALSE) \in Events /\ Event(type, x, NoLevel, FALSE).type = type
  <2>1. \A type \in {"queued", "started"} : Event(type, x, NoLevel, FALSE) \in Events
    BY <1>x, <1>l, EventOf, TypesAre
  <2> QED BY <2>1 DEF Event
<1>s. \A ev : Send(ev) => Sent(ev) BY Sends DEF Typed
<1>1. CASE Start(x) BY <1>1, <1>v, <1>s DEF Start, Plainly
<1>2. CASE Requeue(x) BY <1>2, <1>v, <1>s DEF Requeue, Plainly
<1>3. CASE SendLate(x)
  <2> DEFINE ev == [late[x] EXCEPT !.done = FALSE]
  <2>1. late[x] # NoEvent /\ Send(ev) BY <1>3 DEF SendLate
  <2>2. late[x] \in Events BY <1>x, <1>t, <2>1
  <2>3. ev \in Events /\ ev.type = late[x].type BY <2>2 DEF Events
  <2>4. ev.type \notin {"complete", "removed"} BY <1>t, <2>1, <2>3
  <2> QED BY <1>s, <2>1, <2>3, <2>4 DEF Plainly
<1>4. CASE bus' = bus BY <1>4, <1>v DEF Sent, Plainly
<1> QED BY <1>1, <1>2, <1>3, <1>4 DEF Run, Advance, Retire, Fail, Detach, SavePause, OpenPause,
      LastLook, Checkpoint, Cancelled, pool

\* What a step of the own run of an HLS download does to what is asked of it.
LEMMA OwnRunDoes ==
  ASSUME Typed, NEW x \in Hls, Run(x), budget.drops = 0
  PROVE  \* it starts
         \/ /\ entry[x] = "queued" /\ run[x] = None /\ Plainly
            /\ entry'[x] = "active" /\ run'[x] = "running"
         \* it goes on or ends
         \/ /\ Plainly /\ run[x] \in Running \cup {"failed"} /\ surge' = surge
            /\ run'[x] # None => entry'[x] = entry[x] /\ run'[x] \in Running \cup {"failed"}
         \/ /\ run[x] \in Running /\ surge' = surge /\ entry'[x] = entry[x]
            /\ run'[x] = "won" /\ \E i \in 1..Len(bus') : Wins(x, i)'
         \/ /\ run[x] = "won" /\ run'[x] = None /\ UNCHANGED surge /\ Plainly
            /\ entry'[x] = (IF entry[x] = "active" THEN None ELSE entry[x])
         \* it says what it owes
         \/ late[x] # NoEvent /\ UNCHANGED <<entry, run, surge>> /\ Plainly
<1>x. x \in Ids BY Constants
<1>n. None = "none" BY DEF None
<1>t. /\ entry \in [Ids -> {None, "queued", "active", "paused"}]
      /\ run \in [Ids -> {None, "won", "failed"} \cup Running]
  BY DEF Typed, PoolTyped
<1>r. Running = {"running", "pausing"} BY DEF Running
<1>p. Win(x) \/ Plainly BY RunPlainly
<1> USE DEF SetRun, SetEntry, disk
<1>1. CASE Start(x) /\ Plainly BY <1>1, <1>x, <1>t DEF Start
<1>2. CASE (Advance(x) \/ Checkpoint(x)) /\ Plainly BY <1>2, <1>x, <1>t, <1>r DEF Advance, Checkpoint, pool
<1>3. CASE Win(x)
  <2> DEFINE ev == Event("complete", x, NoLevel, FALSE)
  <2>1. ev \in Events /\ ev.type = "complete" /\ ev.id = x
    <3>1. ev \in Events BY <1>x, Constants, EventOf, TypesAre
    <3> QED BY <3>1 DEF Event
  <2> HIDE DEF ev
  <2>2. Publish(ev) BY <1>3, NothingDropped DEF Win, ev
  <2>3. Len(bus') \in 1..Len(bus') /\ bus'[Len(bus')] = ev BY <2>1, <2>2, Last
  <2>4. Wins(x, Len(bus))' BY <2>1, <2>3 DEF Wins
  <2> QED BY <1>3, <1>x, <1>t, <2>3, <2>4 DEF Win
<1>4. CASE Retire(x) /\ Plainly BY <1>4, <1>x, <1>t DEF Retire
<1>5. CASE Fail(x) /\ Plainly BY <1>5, <1>x, <1>t, <1>r DEF Fail
<1>6. CASE (Detach(x) \/ Requeue(x) \/ SavePause(x) \/ Cancelled(x)) /\ Plainly
  BY <1>6, <1>x, <1>t, <1>r DEF Detach, Requeue, SavePause, Cancelled
<1>7. CASE (LastLook(x) \/ SendLate(x)) /\ Plainly BY <1>7 DEF LastLook, SendLate
<1> QED BY <1>p, <1>1, <1>2, <1>3, <1>4, <1>5, <1>6, <1>7 DEF Run, OpenPause

\* A step of the own run: it only starts what has not ended, and it wins with
\* its completion on the bus.
LEMMA OwnRunFine ==
  ASSUME Typed, KnownOK, NEW x \in Hls, Run(x), budget.drops = 0, Known(x), Fine(x)
  PROVE  Fine(x)'
<1>x. x \in Ids BY Constants
<1>n. None = "none" BY DEF None
<1>r. Running = {"running", "pausing"} BY DEF Running
<1>e. /\ entry \in [Ids -> {None, "queued", "active", "paused"}]
      /\ run \in [Ids -> {None, "won", "failed"} \cup Running]
  BY DEF Typed, PoolTyped
<1>f. Single(x) /\ Over(x) /\ Back(x) /\ Left(x) /\ Held(x) /\ Moved(x) /\ (x \in gone => Gone(x)) BY DEF Fine
<1>1. PICK ev : Runs(x, ev) BY <1>x, RunDoes
<1>2. /\ UNCHANGED <<row, dest, user, enq, pw, gone>> /\ Sent(ev) /\ ev \in Events
      /\ ev.type # "removed"
      /\ entry[x] # None \/ run[x] # None \/ late[x] # NoEvent
      /\ budget'.cancels = budget.cancels
      /\ entry'[x] # None => entry[x] # None
  BY <1>1 DEF Runs, Spends
<1> DEFINE Begun == entry[x] = "queued" /\ run[x] = None /\ entry'[x] = "active" /\ run'[x] = "running"
           Going == /\ run[x] \in Running \cup {"failed"} /\ surge' = surge
                    /\ run'[x] # None => entry'[x] = entry[x] /\ run'[x] \in Running \cup {"failed"}
           Won == /\ run[x] \in Running /\ surge' = surge /\ entry'[x] = entry[x]
                  /\ run'[x] = "won" /\ \E i \in 1..Len(bus') : Wins(x, i)'
           Retired == /\ run[x] = "won" /\ run'[x] = None /\ surge' = surge
                      /\ entry'[x] = (IF entry[x] = "active" THEN None ELSE entry[x])
           Said == late[x] # NoEvent /\ UNCHANGED <<entry, run, surge>>
<1>3. Won \/ (Plainly /\ (Begun \/ Going \/ Retired \/ Said)) BY OwnRunDoes
<1>4. x \notin gone BY <1>2, <1>f DEF Gone
<1>5. Unremoved(x) => row[x] # None BY <1>2, <1>f DEF Held, Blank
<1>6. \A i \in 1..Len(bus) : i \in 1..Len(bus') /\ bus'[i] = bus[i] BY <1>2, SentBus DEF Typed
<1>7. \A i \in 1..Len(bus) : Wins(x, i) => i \in 1..Len(bus') /\ Wins(x, i)' BY <1>6 DEF Wins
\* a download that has ended stays so, and only the win of a run ends it
<1>8. Ended(x) => run[x] \in {None, "won"} /\ entry[x] \in {None, "active"} BY <1>e, <1>f, <1>x DEF Over
<1>9. Winning(x)' => Winning(x) \/ Won
  <2>1. SUFFICES ASSUME Winning(x)', Plainly, Begun \/ Going \/ Retired \/ Said PROVE Winning(x) BY <1>3
  <2>2. PICK e \in Events : Sent(e) /\ e.type \notin {"complete", "removed"} BY <2>1 DEF Plainly
  <2>3. \A i \in 1..Len(bus') : Wins(x, i)' => i \in 1..Len(bus) /\ Wins(x, i) BY <1>x, <2>2, BusAside
  <2>4. run'[x] # "won" \/ run[x] = "won" BY <1>n, <1>r, <2>1
  <2> QED BY <1>2, <2>1, <2>3, <2>4 DEF Winning
<1>10. Ended(x)' => Ended(x) \/ Won BY <1>2, <1>9 DEF Ended
<1>11. Begun \/ surge' = surge BY <1>3
<1>12. Promised(x) /\ ~Begun => Promised(x)' BY <1>2, <1>7, <1>11 DEF Promised
<1>13. \A u \in Users : At(u, x, Resuming \ {"rpub"}) =>
         /\ ~Winning(x) /\ UNCHANGED <<entry, run>>
         /\ run[x] = None /\ entry[x] \in {None, "paused"} /\ ~Won /\ ~Begun
  <2> SUFFICES ASSUME NEW u \in Users, At(u, x, Resuming \ {"rpub"})
               PROVE  /\ ~Winning(x) /\ UNCHANGED <<entry, run>>
                      /\ run[x] = None /\ entry[x] \in {None, "paused"} /\ ~Won /\ ~Begun
    OBVIOUS
  <2>1. ~Winning(x) /\ run[x] = None /\ entry[x] \in {None, "paused"} BY <1>f DEF Back
  <2>2. ~Begun /\ ~Going /\ ~Won /\ ~Retired BY <1>n, <1>r, <2>1
  <2> QED BY <1>3, <2>1, <2>2
<1>14. Single(x)'
  <2>1. \A u \in Users : Cancels(u, x)' => Cancels(u, x) BY <1>2 DEF Cancels
  <2>2. \A i \in 1..Len(bus') : Announced(x, i)' => i \in 1..Len(bus) /\ Announced(x, i)
    BY <1>2, <1>x, BusFrom DEF Announced
  <2>3. Cleans(x)' => Cleans(x) BY <1>2 DEF Cleans
  <2> QED BY <1>f, <1>x, <2>1, <2>2, <2>3, SingleStays
<1>15. Over(x)'
  <2>1. CASE Begun
    <3>1. ~Ended(x)' BY <1>8, <1>10, <1>r, <1>n, <2>1
    <3> QED BY <2>1, <3>1 DEF Over
  <2>2. CASE Going
    <3>1. ~Ended(x)' BY <1>8, <1>10, <1>r, <1>n, <2>2
    <3> QED BY <1>f, <1>r, <1>n, <2>2, <3>1 DEF Over
  <2>3. CASE Won BY <1>f, <1>r, <1>n, <2>3 DEF Over
  <2>4. CASE Retired BY <1>f, <1>n, <2>4 DEF Over
  <2>5. CASE Said BY <1>f, <1>8, <1>10, <1>r, <1>n, <2>5 DEF Over
  <2> QED BY <1>3, <2>1, <2>2, <2>3, <2>4, <2>5
<1>16. Back(x)'
  <2> SUFFICES ASSUME NEW u \in Users
               PROVE  /\ At(u, x, {"hydrate", "cload", "add"})' => ~Ended(x)'
                      /\ At(u, x, Resuming \ {"rpub"})' => ~Winning(x)' /\ run'[x] = None /\ entry'[x] \in {None, "paused"}
    BY DEF Back
  <2>1. At(u, x, {"hydrate", "cload", "add"})' => At(u, x, {"hydrate", "cload", "add"}) /\ At(u, x, Resuming \ {"rpub"})
    BY <1>2 DEF At, Resuming
  <2>2. At(u, x, {"hydrate", "cload", "add"})' => ~Ended(x)' BY <1>f, <1>10, <1>13, <2>1 DEF Back
  <2>3. At(u, x, Resuming \ {"rpub"})' => At(u, x, Resuming \ {"rpub"}) BY <1>2 DEF At
  <2> QED BY <1>9, <1>13, <2>2, <2>3
<1>17. Left(x)'
  <2> SUFFICES ASSUME NEW u \in Users, At(u, x, {"cwait", "centry", "cpub"})'
               PROVE  /\ entry'[x] = None /\ (user'[u].done => Promised(x)')
                      /\ At(u, x, {"centry", "cpub"})' => run'[x] = None /\ late'[x] = NoEvent
                      /\ At(u, x, {"cpub"})' => user'[u].found \/ row'[x] = None
    BY DEF Left, At
  <2>1. At(u, x, {"cwait", "centry", "cpub"}) /\ user'[u] = user[u] BY <1>2 DEF At
  <2>2. entry[x] = None /\ (user[u].done => Promised(x)) BY <1>f, <2>1 DEF Left
  <2>3. ~Begun /\ entry'[x] = None BY <1>2, <1>n, <2>2
  <2>4. ~At(u, x, {"centry", "cpub"}) BY <1>f, <1>2, <2>2 DEF Left
  <2>5. ~At(u, x, {"centry", "cpub"})' /\ ~At(u, x, {"cpub"})' BY <2>1, <2>4 DEF At
  <2> QED BY <1>12, <2>1, <2>2, <2>3, <2>5
<1>18. Held(x)'
  <2>1. Unremoved(x)' => Unremoved(x) BY <1>2 DEF Unremoved, Asked, Cancels
  <2>2. run'[x] = "won" /\ Unremoved(x) => Promised(x)'
    <3>1. CASE Won BY <3>1 DEF Promised
    <3>2. CASE Said
      <4>1. run'[x] = "won" => ~Begun BY <1>n
      <4> QED BY <1>f, <1>12, <3>2, <4>1 DEF Held
    <3> QED BY <1>3, <1>n, <1>r, <3>1, <3>2
  <2> QED BY <1>2, <1>5, <2>1, <2>2 DEF Held
<1>19. Moved(x)'
  <2>1. row'[x] = "completed" \/ (pw'.step = "final" /\ pw'.ev.id = x) => Ended(x) /\ surge[dest[x]] # x
    BY <1>2, <1>f DEF Moved, Ended, Winning
  <2>2. Ended(x) => ~Begun BY <1>8, <1>n
  <2> QED BY <1>2, <1>11, <2>1, <2>2 DEF Moved
<1> QED BY <1>2, <1>4, <1>14, <1>15, <1>16, <1>17, <1>18, <1>19 DEF Fine

\* A pause or a resume comes only to where the download allows it.
LEMMA AskComes ==
  ASSUME Typed, Alternate, Removals, NEW u \in Users, Asking(u), NEW x \in Hls, Fine(x)
  PROVE  Comes(u, x)
<1>x. x \in Ids BY Constants
<1>n. None = "none" /\ None # x BY <1>x, Constants DEF None
<1>u. user \in [Users -> Callers] BY DEF Typed, CallsTyped
<1>c. \A c \in Callers : \A pc : [c EXCEPT !.pc = pc].pc = pc /\ [c EXCEPT !.pc = pc].id = c.id BY DEF Callers
<1>d. \A c \in Callers : \A pc, l : [c EXCEPT !.pc = pc, !.lvl = l].pc = pc /\ [c EXCEPT !.pc = pc, !.lvl = l].id = c.id
  BY DEF Callers
<1>i. IdleUser \in Callers /\ IdleUser.pc = "idle" BY IdleIs
<1>b. \A id, pc : [IdleUser EXCEPT !.pc = pc, !.id = id].pc = pc /\ [IdleUser EXCEPT !.pc = pc, !.id = id].id = id
  BY DEF IdleUser
<1>k. /\ At(u, x, {"hydrate", "cload", "add"}) => ~Ended(x)
      /\ At(u, x, Resuming \ {"rpub"}) => ~Winning(x) /\ run[x] = None /\ entry[x] \in {None, "paused"}
      /\ Blank(x) => ~At(u, x, {"hydrate", "cload", "add", "rpub", "ppub"})
  BY DEF Fine, Back, Blank
<1>r. Resuming = {"extract", "hydrate", "clook", "cload", "add", "rpub"} BY DEF Resuming
<1>p. ASSUME NEW pc, Goto(u, pc) PROVE user'[u].pc = pc /\ user'[u].id = user[u].id
  BY <1>p, <1>u, <1>c DEF Goto
<1>m. ASSUME NEW pc, NEW l, user' = [user EXCEPT ![u] = [user[u] EXCEPT !.pc = pc, !.lvl = l]]
      PROVE  user'[u].pc = pc /\ user'[u].id = user[u].id
  <2>1. user'[u] = [user[u] EXCEPT !.pc = pc, !.lvl = l] /\ user[u] \in Callers BY <1>m, <1>u
  <2> QED BY <1>d, <2>1
<1>q. Return(u) => user'[u].pc = "idle" BY <1>u, <1>i DEF Return
<1>s. ASSUME NEW id, NEW pc, Spend(u, id, pc) PROVE user'[u].pc = pc /\ user'[u].id = id
  BY <1>s, <1>u, <1>b DEF Spend
<1>1. CASE \E y \in Ids : PauseCall(u, y)
  <2>1. PICK y \in Ids : PauseCall(u, y) BY <1>1
  <2>2. \/ entry[y] = "queued" /\ Spend(u, y, "ppub")
        \/ Spend(u, None, "idle")
        \/ Spend(u, y, "plook")
    BY <2>1 DEF PauseCall
  <2>3. entry[x] = "queued" => ~Blank(x) BY <1>n DEF Blank
  <2> QED BY <1>n, <1>r, <1>s, <2>2, <2>3 DEF Comes
<1>2. CASE \E y \in Ids : ResumeCall(u, y)
  <2>1. PICK y \in Ids : ResumeCall(u, y) BY <1>2
  <2>2. Spend(u, y, "extract") /\ entry[y] \in {"paused", None} /\ run[y] = None /\ "resume" \in scenario.ops
    BY <2>1 DEF ResumeCall, Call
  <2>3. ~LateResume /\ ~Unrecorded(y)
    <3>1. scenario \in Scenarios BY DEF Typed, BoundsTyped
    <3> QED BY <2>1, <2>2, <3>1 DEF ResumeCall, Alternate, Removals
  <2>4. ~Winning(y) BY <2>3 DEF Unrecorded, Winning, Wins
  <2> QED BY <1>r, <1>s, <2>2, <2>4 DEF Comes
<1>3. CASE PauseLook(u)
  <2>1. (row[user[u].id] # None /\ Goto(u, "ppub")) \/ Return(u) BY <1>3, <1>n DEF PauseLook
  <2> QED BY <1>p, <1>q, <1>r, <2>1 DEF Comes
<1>4. CASE PausePublish(u) \/ ResumePublish(u) BY <1>4, <1>q DEF PausePublish, ResumePublish, Comes
<1>5. CASE Extract(u)
  <2>1. user[u].pc = "extract" /\ user'[u].pc \in {"hydrate", "clook"} /\ user'[u].id = user[u].id
        /\ (user'[u].pc = "hydrate" => entry[user[u].id] = "paused")
    <3>1. CASE entry[user[u].id] = "paused"
      <4>1. user' = [user EXCEPT ![u] = [user[u] EXCEPT !.pc = "hydrate", !.lvl = level[user[u].id]]]
        BY <1>5, <3>1 DEF Extract
      <4> QED BY <1>5, <1>m, <3>1, <4>1 DEF Extract
    <3>2. CASE entry[user[u].id] # "paused" /\ Goto(u, "clook") BY <1>5, <1>p, <3>2 DEF Extract
    <3> QED BY <1>5, <3>1, <3>2 DEF Extract
  <2>2. user[u].id = x => At(u, x, Resuming \ {"rpub"}) BY <1>r, <2>1 DEF At
  <2>3. entry[x] = "paused" => ~Ended(x) /\ ~Blank(x) BY <1>n DEF Fine, Over, Blank
  <2> QED BY <1>k, <1>r, <2>1, <2>2, <2>3 DEF Comes
<1>6. CASE Hydrate(u) \/ ColdLoad(u)
  <2>1. user[u].pc \in {"hydrate", "cload"} /\ user'[u].pc = "add" /\ user'[u].id = user[u].id
    <3>1. CASE Hydrate(u)
      <4>1. user' = [user EXCEPT ![u] = [user[u] EXCEPT !.pc = "add",
                       !.lvl = IF Saved(user[u].id) = NoLevel THEN user[u].lvl ELSE Saved(user[u].id)]]
        BY <3>1 DEF Hydrate
      <4> QED BY <1>m, <3>1, <4>1 DEF Hydrate
    <3>2. CASE ColdLoad(u)
      <4>1. user' = [user EXCEPT ![u] = [user[u] EXCEPT !.pc = "add",
                       !.lvl = IF Saved(user[u].id) = NoLevel THEN 0 ELSE Saved(user[u].id)]]
        BY <3>2 DEF ColdLoad
      <4> QED BY <1>m, <3>2, <4>1 DEF ColdLoad
    <3> QED BY <1>6, <3>1, <3>2
  <2>2. user[u].id = x => At(u, x, Resuming \ {"rpub"}) /\ At(u, x, {"hydrate", "cload", "add"})
        /\ At(u, x, {"hydrate", "cload", "add", "rpub", "ppub"})
    BY <1>r, <2>1 DEF At
  <2> QED BY <1>k, <1>r, <2>1, <2>2 DEF Comes
<1>7. CASE ColdLook(u)
  <2>1. user[u].pc = "clook" /\ ((row[user[u].id] \in Unfinished /\ Goto(u, "cload")) \/ Return(u))
    BY <1>7 DEF ColdLook
  <2>2. row[x] \in Unfinished => row[x] # None /\ row[x] # "completed" BY <1>n DEF Unfinished
  <2>3. user[u].id = x => At(u, x, Resuming \ {"rpub"}) BY <1>r, <2>1 DEF At
  <2> QED BY <1>k, <1>p, <1>q, <1>r, <2>1, <2>2, <2>3 DEF Comes, Ended
<1>8. CASE Add(u)
  <2>1. user[u].pc = "add" /\ (Goto(u, "rpub") \/ Return(u)) BY <1>8 DEF Add
  <2>2. user[u].id = x => At(u, x, {"hydrate", "cload", "add", "rpub", "ppub"}) BY <2>1 DEF At
  <2> QED BY <1>k, <1>p, <1>q, <1>r, <2>1, <2>2 DEF Comes
<1> QED BY <1>1, <1>2, <1>3, <1>4, <1>5, <1>6, <1>7, <1>8 DEF Asking

\* What a pause or a resume says is mild, and it says nothing of a blank download.
LEMMA AskSends ==
  ASSUME Typed, NEW u \in Users, Asking(u), NEW x \in Ids
  PROVE  \E ev \in Events : Sent(ev) /\ (ev.id = x => Mild(ev) /\ (bus' = bus \/ ~Blank(x)))
<1>d. user[u].pc # "idle" => user[u].id \in Ids BY DEF Typed, CallsTyped
<1>i. \A type \in {"queued", "resumed", "paused"} : \A id \in Ids : Event(type, id, NoLevel, FALSE).id = id
  BY DEF Event
<1>1. CASE bus' = bus
  <2>1. Event("queued", x, NoLevel, FALSE) \in Events /\ Mild(Event("queued", x, NoLevel, FALSE)) BY MildIs
  <2> QED BY <1>1, <2>1 DEF Sent
<1>2. CASE PausePublish(u) \/ ResumePublish(u)
  <2>1. PICK type \in {"paused", "resumed"} :
          user[u].pc \in {"ppub", "rpub"} /\ Publish(Event(type, user[u].id, NoLevel, FALSE))
    BY <1>2 DEF PausePublish, ResumePublish, Sparse
  <2> DEFINE ev == Event(type, user[u].id, NoLevel, FALSE)
  <2>2. ev \in Events /\ Mild(ev) /\ ev.id = user[u].id /\ Sent(ev)
    BY <1>d, <1>i, <2>1, MildIs DEF Publish, Sent
  <2> HIDE DEF ev
  <2>3. ev.id = x => ~Blank(x) BY <2>1, <2>2 DEF Blank, At
  <2> QED BY <2>2, <2>3
<1> QED BY <1>1, <1>2 DEF Asking, PauseCall, ResumeCall, PauseLook, Extract, Hydrate, ColdLook,
      ColdLoad, Add

\* Where a download may be removed, it is resumed by the only caller.
LEMMA OnlyCaller ==
  ASSUME Typed, AskedOK, CallersOK, Alternate, Removals, NEW u \in Users, user[u].pc \in Resuming,
         NEW v \in Users, v # u
  PROVE  user[v].pc = "idle"
<1>1. scenario \in Scenarios BY DEF Typed, BoundsTyped
<1>2. "resume" \in scenario.ops /\ u \in scenario.users
  BY DEF AskedOK, CallersOK, Resuming
<1>3. \A w \in scenario.users : w = u BY <1>1, <1>2 DEF Alternate, Removals
<1> QED BY <1>3 DEF CallersOK

\* A download that comes back to the pool: nobody else calls, and it has not ended.
LEMMA AddFine ==
  ASSUME Typed, KnownOK, AskedOK, CallersOK, Alternate, Removals,
         NEW u \in Users, Add(u), NEW x \in Hls, user[u].id = x, entry[x] = None, Known(x), Fine(x)
  PROVE  Fine(x)'
<1>x. x \in Ids BY Constants
<1>n. None = "none" BY DEF None
<1>f. Single(x) /\ Over(x) /\ Back(x) /\ Held(x) /\ Moved(x) BY DEF Fine
<1>1. /\ user[u].pc = "add" /\ user' = [user EXCEPT ![u].pc = "rpub"]
      /\ entry' = [entry EXCEPT ![x] = "queued"] /\ gone' = gone \ {x}
      /\ UNCHANGED <<row, detail, dest, surge, run, late, enq, pw, bus, budget>>
  BY DEF Add, SetEntry, Goto, UserFrame
<1>2. user[u].pc \in Resuming BY <1>1 DEF Resuming
<1>3. entry'[x] = "queued" BY <1>1, <1>x DEF Typed, PoolTyped
<1>4. user'[u].pc = "rpub" /\ \A v \in Users \ {u} : user'[v].pc = "idle"
  <2>1. user \in [Users -> Callers] /\ user[u] \in Callers BY DEF Typed, CallsTyped
  <2>2. user'[u].pc = "rpub" BY <1>1, <2>1 DEF Callers
  <2>3. \A v \in Users \ {u} : user'[v] = user[v] BY <1>1, <2>1
  <2> QED BY <1>2, <2>2, <2>3, OnlyCaller
<1>5. At(u, x, {"hydrate", "cload", "add"}) /\ At(u, x, Resuming \ {"rpub"})
      /\ At(u, x, {"hydrate", "cload", "add", "rpub", "ppub"})
  BY <1>1 DEF At, Resuming
<1>6. ~Ended(x) /\ run[x] = None /\ ~Blank(x) BY <1>f, <1>5 DEF Back, Blank
<1>7. ~Ended(x)' BY <1>1, <1>6 DEF Ended, Winning, Wins
<1>8. \A v \in Users : user'[v].pc \in {"idle", "rpub"} BY <1>4
<1>9. \A v \in Users : ~Cancels(v, x)' BY <1>8 DEF Cancels, Removal
<1>10. Single(x)'
  <2>1. \A i \in 1..Len(bus') : Announced(x, i)' => i \in 1..Len(bus) /\ Announced(x, i)
    BY <1>1 DEF Announced
  <2>2. Cleans(x)' => Cleans(x) BY <1>1 DEF Cleans
  <2> QED BY <1>f, <1>x, <1>9, <2>1, <2>2, SingleStays
<1>11. Over(x)' BY <1>1, <1>6, <1>7 DEF Over
<1>12. Back(x)'
  <2>1. \A v \in Users : ~At(v, x, {"hydrate", "cload", "add"})' /\ ~At(v, x, Resuming \ {"rpub"})'
    BY <1>8 DEF At, Resuming
  <2> QED BY <2>1 DEF Back
<1>13. Left(x)'
  <2>1. \A v \in Users : ~At(v, x, {"cwait", "centry", "cpub"})' /\ ~At(v, x, {"centry", "cpub"})'
                         /\ ~At(v, x, {"cpub"})'
    BY <1>8 DEF At
  <2> QED BY <2>1 DEF Left
<1>14. Held(x)'
  <2>1. Unremoved(x)' => Unremoved(x) BY <1>1, <1>9 DEF Unremoved, Asked
  <2>2. Unremoved(x) => row[x] # None BY <1>f, <1>6 DEF Held
  <2>3. run'[x] # "won" BY <1>1, <1>6, <1>n
  <2> QED BY <1>1, <2>1, <2>2, <2>3 DEF Held
<1>15. Moved(x)' BY <1>1, <1>f DEF Moved
<1>16. x \notin gone' BY <1>1
<1> QED BY <1>10, <1>11, <1>12, <1>13, <1>14, <1>15, <1>16 DEF Fine

\* A step of Pause or Resume.
LEMMA AskFine ==
  ASSUME Typed, KnownOK, AskedOK, CallersOK, Alternate, Removals,
         NEW u \in Users, Asking(u), NEW x \in Hls, Known(x), Fine(x)
  PROVE  Fine(x)'
<1>x. x \in Ids BY Constants
<1>1. PICK y, e : Asks(u, y, e) BY AskDoes
<1>2. /\ UNCHANGED <<row, detail, dest, surge, late, enq, pw>>
      /\ budget'.cancels = budget.cancels /\ gone' \subseteq gone
      /\ \A v \in Users \ {u} : user'[v] = user[v]
  BY <1>1 DEF Asks, Spends
<1>3. PICK ev \in Events : Sent(ev) /\ (ev.id = x => Mild(ev) /\ (bus' = bus \/ ~Blank(x))) BY <1>x, AskSends
<1>4. CASE Add(u) /\ user[u].id = x /\ entry[x] = None BY <1>4, AddFine
<1>5. CASE ~(Add(u) /\ user[u].id = x /\ entry[x] = None)
  <2>1. entry'[x] \in {entry[x], None}
    BY <1>5, <1>x DEF Typed, PoolTyped, Asking, PauseCall, ResumeCall, PauseLook, PausePublish, Extract, Hydrate,
       ColdLook, ColdLoad, Add, ResumePublish, SetEntry
  <2>2. run'[x] = run[x] \/ (run[x] = "running" /\ run'[x] = "pausing") BY <1>x, AskLeaves
  <2>3. Comes(u, x) BY AskComes
  <2>4. \A v \in Users : Comes(v, x) BY <1>2, <2>3 DEF Comes
  <2>5. (Asked(x)' <=> Asked(x)) /\ (Known(x)' => Known(x)) BY <1>2 DEF Asked, Known
  <2>6. Leaves(x, ev) BY <1>2, <1>3, <2>1, <2>2, <2>4, <2>5 DEF Leaves
  <2> QED BY <1>x, <2>6, FineAside
<1> QED BY <1>4, <1>5

\* A step of the removal of another download.
LEMMA CancelOtherFine ==
  ASSUME Typed, KnownOK, NEW u \in Users, NEW x \in Ids, NEW y \in Ids, x # y, Known(x), Fine(x),
         Begins(u, y) \/ (\E pc \in Removal : Proceeds(u, y, pc)) \/ (\E ev : Announces(u, y, ev))
  PROVE  Fine(x)'
<1>t. /\ entry \in [Ids -> {None, "queued", "active", "paused"}]
      /\ budget.cancels \in [Ids -> 0..MaxCancels]
  BY DEF Typed, PoolTyped, BoundsTyped
<1>1. /\ UNCHANGED <<row, detail, dest, surge, run, late, enq, pw>> /\ entry'[x] = entry[x]
      /\ x \in gone' => x \in gone
      /\ budget'.cancels[x] = budget.cancels[x]
      /\ \A v \in Users : user'[v] = user[v] \/ user'[v].id # x \/ user'[v].pc \in {"idle", "plook"}
  <2>1. CASE Begins(u, y) BY <1>t, <2>1 DEF Begins
  <2>2. CASE \E pc \in Removal : Proceeds(u, y, pc) BY <1>t, <2>2 DEF Proceeds
  <2>3. CASE \E ev : Announces(u, y, ev) BY <1>t, <2>3 DEF Announces, Spends
  <2> QED BY <2>1, <2>2, <2>3
<1>2. PICK ev \in Events : Sent(ev) /\ ev.id # x
  <2>1. CASE bus' = bus
    <3>1. Event("queued", y, NoLevel, FALSE) \in Events BY MildIs
    <3>2. Event("queued", y, NoLevel, FALSE).id = y BY DEF Event
    <3> QED BY <2>1, <3>1, <3>2 DEF Sent
  <2>2. CASE \E ev : Announces(u, y, ev)
    <3>1. PICK ev : Announces(u, y, ev) BY <2>2
    <3>2. ev \in Events /\ ev.id = y /\ Sent(ev) BY <3>1 DEF Announces
    <3> QED BY <3>2
  <2> QED BY <2>1, <2>2 DEF Begins, Proceeds
<1>3. Leaves(x, ev) BY <1>1, <1>2, BesideLeaves
<1> QED BY <1>3, FineAside

\* The only removal of a download begins.
LEMMA BeginsFine ==
  ASSUME Typed, KnownOK, AskedOK, GoneOK, Alternate, NEW u \in Users, NEW x \in Ids, CancelCall(u, x),
         Known(x), Fine(x)
  PROVE  Fine(x)'
<1>f. Single(x) /\ Over(x) /\ Back(x) /\ Left(x) /\ Held(x) /\ Moved(x) BY DEF Fine
<1>1. Begins(u, x) BY CancelBegins
<1>2. /\ UNCHANGED <<row, detail, dest, surge, entry, run, late, enq, bus, pw, gone>>
      /\ \A v \in Users \ {u} : user'[v] = user[v]
      /\ user'[u].pc = "cpool" /\ user'[u].id = x
  BY <1>1 DEF Begins
<1>3. ~Asked(x)
  <2>1. budget.cancels[x] \in 0..MaxCancels /\ budget.cancels[x] > 0 /\ MaxCancels <= 1 /\ MaxCancels \in Nat
    BY <1>1, Constants DEF Begins, Typed, BoundsTyped, Alternate
  <2> QED BY <2>1 DEF Asked
<1>4. ~Removing(x) /\ x \notin gone' BY <1>2, <1>3 DEF AskedOK, GoneOK
<1>5. ~user'[u].found
  <2>1. user' = [user EXCEPT ![u] = [IdleUser EXCEPT !.pc = "cpool", !.id = x]] BY DEF CancelCall
  <2>2. user \in [Users -> Callers] BY DEF Typed, CallsTyped
  <2>3. user'[u] = [IdleUser EXCEPT !.pc = "cpool", !.id = x] BY <2>1, <2>2
  <2> QED BY <2>3 DEF IdleUser
<1>6. Single(x)'
  <2>1. \A v \in Users : Cancels(v, x)' => v = u
    <3>1. \A v \in Users \ {u} : Cancels(v, x)' => Cancels(v, x) BY <1>2 DEF Cancels
    <3> QED BY <1>4, <3>1 DEF Removing
  <2>2. \A i \in 1..Len(bus') : ~Announced(x, i)' BY <1>2, <1>4 DEF Removing, Announced
  <2>3. ~Cleans(x)' BY <1>2, <1>4 DEF Removing, Cleans
  <2> QED BY <2>1, <2>2, <2>3 DEF Single
<1>7. (Ended(x)' <=> Ended(x)) /\ (Winning(x)' <=> Winning(x)) /\ (Promised(x)' <=> Promised(x))
  BY <1>2 DEF Ended, Winning, Promised, Wins
<1>8. Over(x)' BY <1>2, <1>7, <1>f DEF Over
<1>9. \A pcs : "cpool" \notin pcs => \A v \in Users : At(v, x, pcs)' => At(v, x, pcs) /\ user'[v] = user[v]
  BY <1>2 DEF At
<1>10. Back(x)'
  <2>1. "cpool" \notin Resuming \ {"rpub"} BY DEF Resuming
  <2> QED BY <1>2, <1>7, <1>9, <1>f, <2>1 DEF Back
<1>11. Left(x)' BY <1>2, <1>7, <1>9, <1>f DEF Left
<1>12. Held(x)'
  <2>1. Unremoved(x) BY <1>3 DEF Unremoved
  <2>2. Blank(x) => Blank(x)'
    <3> SUFFICES ASSUME Blank(x) PROVE Blank(x)' OBVIOUS
    <3>1. \A v \in Users : ~At(v, x, {"hydrate", "cload", "add", "rpub", "ppub"})' BY <1>9 DEF Blank
    <3>2. \A v \in Users : Cancels(v, x)' => ~user'[v].found
      <4>1. \A v \in Users \ {u} : Cancels(v, x)' => Cancels(v, x) BY <1>2 DEF Cancels
      <4> QED BY <1>4, <1>5, <4>1 DEF Removing
    <3> QED BY <1>2, <3>1, <3>2 DEF Blank
  <2> QED BY <1>2, <1>7, <1>f, <2>1, <2>2 DEF Held, Known
<1>13. Moved(x)' BY <1>2, <1>f DEF Moved
<1> QED BY <1>4, <1>6, <1>8, <1>10, <1>11, <1>12, <1>13 DEF Fine

\* A removal goes on: it takes the entry out, waits for the run and its last
\* event, and learns whether the download was done and known.
LEMMA ProceedsFine ==
  ASSUME Typed, KnownOK, NEW u \in Users, NEW x \in Hls, user[u].id = x, Known(x), Fine(x),
         CancelPool(u) \/ CancelWait(u) \/ CancelEntry(u)
  PROVE  Fine(x)'
<1>x. x \in Ids BY Constants
<1>n. None = "none" BY DEF None
<1>f. Single(x) /\ Over(x) /\ Back(x) /\ Left(x) /\ Held(x) /\ Moved(x) /\ (x \in gone => Gone(x)) BY DEF Fine
<1>t. /\ entry \in [Ids -> {None, "queued", "active", "paused"}]
      /\ user \in [Users -> Callers] /\ user[u] \in Callers
  BY DEF Typed, PoolTyped, CallsTyped
<1>1. /\ UNCHANGED <<row, detail, dest, surge, run, late, enq, bus, pw, budget, gone>>
      /\ user[u].pc \in {"cpool", "cwait", "centry"}
  BY DEF CancelPool, CancelWait, CancelEntry, UserFrame
<1>2. Cancels(u, x) /\ Unremoved(x) BY <1>1 DEF Cancels, Removal, Unremoved
<1>3. x \notin gone BY <1>f, <1>2 DEF Gone
<1>4. entry'[x] \in {entry[x], None} /\ (\A v \in Users \ {u} : user'[v] = user[v])
      /\ user'[u].id = x /\ user'[u].pc \in {"cwait", "centry", "cpub"}
  <2>1. CASE CancelPool(u)
    <3>1. PICK done \in BOOLEAN :
            user' = [user EXCEPT ![u] = [user[u] EXCEPT !.pc = "cwait", !.done = done, !.found = (entry[x] # None)]]
      BY <1>t, <2>1 DEF CancelPool
    <3>2. entry' = [entry EXCEPT ![x] = None] BY <2>1 DEF CancelPool, SetEntry
    <3> QED BY <1>t, <1>x, <3>1, <3>2 DEF Callers
  <2>2. CASE CancelWait(u)
    <3>1. user' = [user EXCEPT ![u] = [user[u] EXCEPT !.pc = "centry"]] /\ entry' = entry
      BY <2>2 DEF CancelWait, Goto
    <3> QED BY <1>t, <3>1 DEF Callers
  <2>3. CASE CancelEntry(u)
    <3>1. user' = [user EXCEPT ![u] = [user[u] EXCEPT !.pc = "cpub", !.done = @ \/ row[x] = "completed",
                                                      !.found = @ \/ row[x] # None]]
          /\ entry' = entry
      BY <2>3 DEF CancelEntry
    <3> QED BY <1>t, <3>1 DEF Callers
  <2> QED BY <2>1, <2>2, <2>3
\* where the call is now
<1>5. /\ entry'[x] = None /\ (user'[u].done => Promised(x))
      /\ user'[u].pc \in {"centry", "cpub"} => run[x] = None /\ late[x] = NoEvent
      /\ user'[u].pc = "cpub" => user'[u].found \/ row[x] = None
      /\ Blank(x) /\ row[x] = None => ~user'[u].found
  <2>1. CASE CancelPool(u)
    <3>1. PICK done \in BOOLEAN :
            /\ done => run[x] = "won"
            /\ user' = [user EXCEPT ![u] = [user[u] EXCEPT !.pc = "cwait", !.done = done, !.found = (entry[x] # None)]]
      BY <1>t, <2>1 DEF CancelPool
    <3>2. entry' = [entry EXCEPT ![x] = None] BY <2>1 DEF CancelPool, SetEntry
    <3>3. user'[u].pc = "cwait" /\ user'[u].done = done /\ user'[u].found = (entry[x] # None)
      BY <1>t, <3>1 DEF Callers
    <3>4. done => Promised(x) BY <1>f, <1>2, <3>1 DEF Held
    <3> QED BY <1>t, <1>x, <3>2, <3>3, <3>4 DEF Blank
  <2>2. CASE CancelWait(u)
    <3>1. user' = [user EXCEPT ![u] = [user[u] EXCEPT !.pc = "centry"]] /\ entry' = entry
          /\ run[x] = None /\ late[x] = NoEvent /\ user[u].pc = "cwait"
      BY <2>2 DEF CancelWait, Goto
    <3>2. user'[u].pc = "centry" /\ user'[u].done = user[u].done /\ user'[u].found = user[u].found
      BY <1>t, <3>1 DEF Callers
    <3>3. At(u, x, {"cwait", "centry", "cpub"}) BY <3>1 DEF At
    <3> QED BY <1>f, <1>2, <3>1, <3>2, <3>3 DEF Left, Blank
  <2>3. CASE CancelEntry(u)
    <3>1. user' = [user EXCEPT ![u] = [user[u] EXCEPT !.pc = "cpub", !.done = @ \/ row[x] = "completed",
                                                      !.found = @ \/ row[x] # None]]
          /\ entry' = entry /\ user[u].pc = "centry"
      BY <2>3 DEF CancelEntry
    <3>2. user'[u].pc = "cpub" /\ user'[u].done = (user[u].done \/ row[x] = "completed")
          /\ user'[u].found = (user[u].found \/ row[x] # None)
      BY <1>t, <3>1 DEF Callers
    <3>3. At(u, x, {"cwait", "centry", "cpub"}) /\ At(u, x, {"centry", "cpub"}) BY <3>1 DEF At
    <3>4. row[x] = "completed" => Promised(x) BY <1>f DEF Moved, Promised
    <3> QED BY <1>f, <1>2, <3>1, <3>2, <3>3, <3>4 DEF Left, Blank
  <2> QED BY <2>1, <2>2, <2>3
<1>6. \A v \in Users : Cancels(v, x) => v = u BY <1>f, <1>2 DEF Single
<1>7. \A v \in Users : Cancels(v, x)' => v = u BY <1>4, <1>6 DEF Cancels
<1>8. Single(x)'
  <2>1. \A v \in Users : Cancels(v, x)' => Cancels(v, x) BY <1>2, <1>7
  <2>2. \A i \in 1..Len(bus') : Announced(x, i)' => i \in 1..Len(bus) /\ Announced(x, i) BY <1>1 DEF Announced
  <2>3. Cleans(x)' => Cleans(x) BY <1>1 DEF Cleans
  <2> QED BY <1>f, <1>x, <2>1, <2>2, <2>3, SingleStays
<1>9. (Ended(x)' <=> Ended(x)) /\ (Winning(x)' <=> Winning(x)) /\ (Promised(x)' <=> Promised(x))
  BY <1>1 DEF Ended, Winning, Promised, Wins
<1>10. Over(x)' BY <1>1, <1>5, <1>9, <1>f, <1>n DEF Over
<1>11. Back(x)'
  <2>1. \A v \in Users : \A pcs \in {{"hydrate", "cload", "add"}, Resuming \ {"rpub"}} : At(v, x, pcs)' => At(v, x, pcs)
    BY <1>4 DEF At, Resuming
  <2> QED BY <1>1, <1>5, <1>9, <1>f, <2>1 DEF Back
<1>12. Left(x)'
  <2> SUFFICES ASSUME NEW v \in Users, At(v, x, {"cwait", "centry", "cpub"})'
               PROVE  /\ entry'[x] = None /\ (user'[v].done => Promised(x)')
                      /\ At(v, x, {"centry", "cpub"})' => run'[x] = None /\ late'[x] = NoEvent
                      /\ At(v, x, {"cpub"})' => user'[v].found \/ row'[x] = None
    BY DEF Left, At
  <2>1. Cancels(v, x)' BY DEF Cancels, At, Removal
  <2>2. v = u BY <1>7, <2>1
  <2> QED BY <1>1, <1>5, <1>9, <2>2 DEF At
<1>13. Held(x)'
  <2>1. Blank(x) /\ row[x] = None => Blank(x)'
    <3> SUFFICES ASSUME Blank(x), row[x] = None PROVE Blank(x)' OBVIOUS
    <3>1. \A v \in Users : ~At(v, x, {"hydrate", "cload", "add", "rpub", "ppub"})'
      BY <1>4 DEF Blank, At
    <3>2. \A v \in Users : Cancels(v, x)' => ~user'[v].found BY <1>5, <1>7
    <3> QED BY <1>1, <1>5, <3>1, <3>2 DEF Blank
  <2> QED BY <1>1, <1>2, <1>9, <1>f, <2>1 DEF Held, Known
<1>14. Moved(x)' BY <1>1, <1>f DEF Moved
<1> QED BY <1>1, <1>3, <1>8, <1>10, <1>11, <1>12, <1>13, <1>14 DEF Fine

\* A removal returns: it is announced behind all that the run had to say, or
\* there is nothing to announce.
LEMMA AnnouncesFine ==
  ASSUME Typed, KnownOK, AskedOK, NEW u \in Users, NEW x \in Hls, user[u].id = x, Known(x), Fine(x),
         CancelPublish(u)
  PROVE  Fine(x)'
<1>x. x \in Ids BY Constants
<1>l. NoLevel \in Levels BY Constants
<1>t. user \in [Users -> Callers] /\ user[u] \in Callers /\ user[u].done \in BOOLEAN
  BY DEF Typed, CallsTyped, Callers
<1>f. Single(x) /\ Over(x) /\ Back(x) /\ Left(x) /\ Held(x) /\ Moved(x) BY DEF Fine
<1>1. /\ UNCHANGED <<row, detail, dest, surge, entry, run, late, enq, pw>>
      /\ user[u].pc = "cpub" /\ user' = [user EXCEPT ![u] = IdleUser]
      /\ IF user[u].found THEN Publish(Event("removed", x, NoLevel, user[u].done))
         ELSE UNCHANGED <<bus, budget>>
  BY DEF CancelPublish, UserFrame, Return
<1>2. user'[u].pc = "idle" /\ \A v \in Users \ {u} : user'[v] = user[v]
  BY <1>1, <1>t DEF IdleUser
<1>3. /\ At(u, x, {"cwait", "centry", "cpub"}) /\ At(u, x, {"centry", "cpub"}) /\ At(u, x, {"cpub"})
      /\ Cancels(u, x) /\ Unremoved(x)
  BY <1>1 DEF At, Cancels, Removal, Unremoved
<1>4. /\ entry[x] = None /\ run[x] = None /\ late[x] = NoEvent
      /\ user[u].done => Promised(x)
      /\ user[u].found \/ row[x] = None
  BY <1>f, <1>3 DEF Left
<1>5. row[x] = None => Blank(x) /\ ~user[u].found BY <1>f, <1>3 DEF Held, Blank
<1>6. \A v \in Users : ~Cancels(v, x)'
  <2>1. \A v \in Users : Cancels(v, x) => v = u BY <1>f, <1>3 DEF Single
  <2> QED BY <1>2, <2>1 DEF Cancels, Removal
<1>7. Single(x)'
  <2>1. PICK y, ev : Announces(u, y, ev) BY CancelAnnounces
  <2>2. y \in Ids /\ ev \in Events BY <2>1 DEF Announces
  <2> QED BY <1>f, <1>x, <2>1, <2>2, AnnouncesSingle
<1>8. Coming(x)' \/ Applied(x)'
  <2>1. CASE user[u].found
    <3> DEFINE ev == Event("removed", x, NoLevel, user[u].done)
    <3>1. ev \in Events BY <1>x, <1>l, <1>t, EventIs, TypesAre
    <3>2. ev.type = "removed" /\ ev.id = x /\ ev.done = user[u].done BY DEF Event
    <3>3. Publish(ev) BY <1>1, <2>1
    <3> HIDE DEF ev
    <3>4. Len(bus') \in 1..Len(bus') /\ bus'[Len(bus')] = ev /\ \A j : j \notin Len(bus') + 1..Len(bus')
      BY <3>1, <3>3, Last
    <3>5. Announced(x, Len(bus))' BY <3>2, <3>4 DEF Announced
    <3>6. Calm(x, Len(bus) + 1)' BY <3>4 DEF Calm
    <3>7. Promised(x) => Cleared(x, Len(bus))'
      <4>1. CASE surge[dest[x]] # x BY <1>1, <4>1 DEF Cleared
      <4>2. CASE \E i \in 1..Len(bus) : Wins(x, i)
        <5>1. PICK i \in 1..Len(bus) : Wins(x, i) BY <4>2
        <5>2. bus' = Append(bus, ev) /\ bus \in Seq(Events) BY <3>3 DEF Publish, Typed, EventsTyped
        <5>3. Len(bus') = Len(bus) + 1 /\ bus'[i] = bus[i] /\ Len(bus) \in Nat BY <3>1, <5>2, Appended
        <5>4. i \in 1..Len(bus') - 1 /\ Wins(x, i)' BY <5>1, <5>3 DEF Wins
        <5> QED BY <5>4 DEF Cleared
      <4> QED BY <4>1, <4>2 DEF Promised
    <3>8. row'[x] # None BY <1>1, <1>5, <2>1
    <3>9. bus'[Len(bus')].done => Cleared(x, Len(bus))' BY <1>4, <3>2, <3>4, <3>7
    <3> QED BY <3>4, <3>5, <3>6, <3>8, <3>9 DEF Coming
  <2>2. CASE ~user[u].found
    <3>1. row[x] = None /\ Blank(x) /\ bus' = bus BY <1>1, <1>4, <1>5, <2>2
    <3>2. Calm(x, 1)' BY <3>1 DEF Calm, Blank
    <3> QED BY <1>1, <3>1, <3>2 DEF Applied, Blank
  <2> QED BY <2>1, <2>2
<1>9. Sent(Event("removed", x, NoLevel, user[u].done))
  BY <1>1 DEF Sent, Publish
<1>10. Winning(x)' => Winning(x)
  <2> DEFINE ev == Event("removed", x, NoLevel, user[u].done)
  <2>1. ev \in Events BY <1>x, <1>l, <1>t, EventIs, TypesAre
  <2>2. ev.type = "removed" BY DEF Event
  <2>3. Sent(ev) BY <1>9
  <2> HIDE DEF ev
  <2>4. \A i \in 1..Len(bus') : Wins(x, i)' => Wins(x, i) /\ i \in 1..Len(bus)
    BY <1>x, <2>1, <2>2, <2>3, BusFrom DEF Wins
  <2> QED BY <1>1, <2>4 DEF Winning
<1>11. Ended(x)' => Ended(x) BY <1>1, <1>10 DEF Ended
<1>12. Over(x)' BY <1>1, <1>11, <1>f DEF Over
<1>13. Back(x)'
  <2>1. \A v \in Users : \A pcs \in {{"hydrate", "cload", "add"}, Resuming \ {"rpub"}} : At(v, x, pcs)' => At(v, x, pcs)
    BY <1>2 DEF At, Resuming
  <2> QED BY <1>1, <1>10, <1>11, <1>f, <2>1 DEF Back
<1>14. Left(x)'
  <2>1. \A v \in Users : ~At(v, x, {"cwait", "centry", "cpub"})' /\ ~At(v, x, {"centry", "cpub"})'
                         /\ ~At(v, x, {"cpub"})'
    BY <1>6 DEF At, Cancels, Removal
  <2> QED BY <2>1 DEF Left
<1>15. Held(x)'
  <2>1. CASE Asked(x)
    <3>1. budget'.cancels = budget.cancels BY <1>1 DEF Publish
    <3> QED BY <1>6, <2>1, <3>1 DEF Held, Unremoved, Asked
  <2>2. CASE ~Asked(x) BY <1>x, <1>3, <2>2 DEF AskedOK, Removing
  <2> QED BY <2>1, <2>2
<1>16. Moved(x)' BY <1>1, <1>f DEF Moved
<1>17. Gone(x)' BY <1>1, <1>4, <1>6, <1>8 DEF Gone
<1> QED BY <1>7, <1>12, <1>13, <1>14, <1>15, <1>16, <1>17 DEF Fine

\* What a step of the persistence worker is to a download.
Serves(x) ==
  /\ UNCHANGED <<entry, run, late, user, gone, enq, budget, dest>>
  /\ (Winning(x)' => Winning(x)) /\ (Ended(x)' => Ended(x))
  /\ Promised(x) /\ row[x] # None => Promised(x)'
  /\ row'[x] = None => row[x] = None \/ \E i \in 1..Len(bus) : Announced(x, i)
  /\ Blank(x) /\ row[x] = None => Blank(x)' /\ row'[x] = None
  /\ Moved(x) => Moved(x)'
  /\ Single(x) /\ (Coming(x) \/ Applied(x)) => Coming(x)' \/ Applied(x)'

\* It keeps a download in order.
LEMMA ServedFine ==
  ASSUME Typed, KnownOK, AskedOK, NEW x \in Hls, Known(x), Fine(x), Persist, Serves(x)
  PROVE  Fine(x)'
<1>x. x \in Ids BY Constants
<1>n. None = "none" BY DEF None
<1>f. Single(x) /\ Over(x) /\ Back(x) /\ Left(x) /\ Held(x) /\ Moved(x) /\ (x \in gone => Gone(x)) BY DEF Fine
<1>1. UNCHANGED <<entry, run, late, user, gone, enq, budget, dest>> BY DEF Serves
<1>2. Unremoved(x)' <=> Unremoved(x) BY <1>1 DEF Unremoved, Asked, Cancels
<1>3. Unremoved(x) /\ row[x] = None => Blank(x) /\ Blank(x)' /\ row'[x] = None BY <1>f DEF Held, Serves
<1>4. Unremoved(x) /\ Promised(x) => Promised(x)'
  <2>1. Blank(x)' => Promised(x)' BY DEF Blank, Promised
  <2> QED BY <1>3, <2>1 DEF Serves
<1>5. Single(x)'
  <2>1. PICK ev : Persists(ev) BY PersistDoes
  <2> QED BY <1>f, <1>x, <2>1, WorkerSingle DEF Persists, Working
<1>6. Over(x)' BY <1>1, <1>f DEF Over, Serves
<1>7. Back(x)'
  <2>1. \A u \in Users : \A pcs : At(u, x, pcs)' <=> At(u, x, pcs) BY <1>1 DEF At
  <2> QED BY <1>1, <1>f, <2>1 DEF Back, Serves
<1>8. Left(x)'
  <2> SUFFICES ASSUME NEW u \in Users, At(u, x, {"cwait", "centry", "cpub"})'
               PROVE  /\ entry'[x] = None /\ (user'[u].done => Promised(x)')
                      /\ At(u, x, {"centry", "cpub"})' => run'[x] = None /\ late'[x] = NoEvent
                      /\ At(u, x, {"cpub"})' => user'[u].found \/ row'[x] = None
    BY DEF Left, At
  <2>1. At(u, x, {"cwait", "centry", "cpub"}) BY <1>1 DEF At
  <2>2. Unremoved(x) BY <2>1 DEF Unremoved, Cancels, At, Removal
  <2> QED BY <1>1, <1>3, <1>4, <1>f, <2>1, <2>2 DEF Left, At
<1>9. Held(x)'
  <2>1. Unremoved(x) /\ row[x] # None => row'[x] # None
    <3> SUFFICES ASSUME Unremoved(x), NEW i \in 1..Len(bus), Announced(x, i) PROVE FALSE BY DEF Serves
    <3>1. Asked(x) BY <1>x DEF AskedOK, Removing
    <3> QED BY <1>f, <3>1 DEF Unremoved, Single
  <2> QED BY <1>1, <1>2, <1>3, <1>4, <1>f, <2>1 DEF Held
<1>10. Moved(x)' BY <1>f DEF Serves
<1>11. x \in gone' => Gone(x)'
  <2>1. SUFFICES ASSUME x \in gone PROVE Gone(x)' BY <1>1
  <2>2. Coming(x)' \/ Applied(x)' BY <1>f, <2>1 DEF Gone, Serves
  <2>3. \A u \in Users : ~Cancels(u, x)' BY <1>1, <1>f, <2>1 DEF Gone, Cancels
  <2> QED BY <1>1, <1>f, <2>1, <2>2, <2>3 DEF Gone
<1> QED BY <1>5, <1>6, <1>7, <1>8, <1>9, <1>10, <1>11 DEF Fine

\* What the worker does to the row, the files and the step, of an event it takes.
LEMMA TakeDisk ==
  ASSUME Typed, KnownOK, NEW ev, NEW x \in Ids, Known(x),
         Skip(ev) \/ PersistStarted(ev) \/ PersistPaused(ev) \/ PersistError(ev) \/ Promote(ev) \/ DeleteState(ev)
  PROVE  /\ UNCHANGED <<user, gone, enq, budget, dest>>
         /\ surge'[dest[x]] \in {surge[dest[x]], None}
         /\ ev.type = "complete" /\ ev.id = x /\ row[x] # None => surge'[dest[x]] # x
         /\ pw'.step = "final" => ev.type = "complete" /\ (ev.id = x => row[x] # None)
         /\ row'[x] = None => row[x] = None \/ (ev.type = "removed" /\ ev.id = x)
         /\ ev.type = "removed" /\ ev.id = x =>
              /\ row'[x] = None /\ detail'[x] = NoLevel /\ UNCHANGED surge
              /\ IF ev.done THEN pw' = pw ELSE pw'.step = "files" /\ pw'.ev = ev
         /\ Mild(ev) /\ ev.id = x /\ row[x] = None => row'[x] = None /\ detail'[x] = detail[x] /\ pw' = pw
<1>n. None = "none" /\ None # x BY Constants DEF None
<1>t. /\ row \in [Ids -> Unfinished \cup {None, "completed"}] /\ detail \in [Ids -> Levels]
      /\ surge \in [Names -> Ids \cup {None}]
  BY DEF Typed, StoreTyped
<1>1. Take(ev) BY TakeLeaves
<1>2. ev.id \in Ids /\ pw.step = "idle" BY <1>1, TakeDoes
<1>3. dest[x] \in Names BY DEF KnownOK, Named, Known
<1>4. UNCHANGED <<user, gone, enq, budget, dest>>
  BY DEF Skip, PersistStarted, PersistPaused, PersistError, Promote, DeleteState, PwFrame, calls, ghost
<1>5. surge'[dest[x]] \in {surge[dest[x]], None}
  BY <1>t, <1>3 DEF Skip, PersistStarted, PersistPaused, PersistError, Promote, DeleteState
<1>6. ev.type = "complete" /\ ev.id = x /\ row[x] # None => surge'[dest[x]] # x
  <2> SUFFICES ASSUME ev.type = "complete", ev.id = x, row[x] # None PROVE surge'[dest[x]] # x OBVIOUS
  <2>1. Promote(ev) BY DEF Skip, PersistStarted, PersistPaused, PersistError, DeleteState
  <2> QED BY <1>t, <1>n, <1>3, <2>1 DEF Promote
<1>7. pw'.step = "final" => ev.type = "complete" /\ (ev.id = x => row[x] # None)
  BY <1>2 DEF Skip, PersistStarted, PersistPaused, PersistError, Promote, DeleteState, Step, Done, IdlePw
<1>8. row'[x] = None => row[x] = None \/ (ev.type = "removed" /\ ev.id = x)
  BY <1>t, <1>n, <1>2 DEF Skip, PersistStarted, PersistPaused, PersistError, Promote, DeleteState, SetRow
<1>9. ev.type = "removed" /\ ev.id = x =>
        /\ row'[x] = None /\ detail'[x] = NoLevel /\ UNCHANGED surge
        /\ IF ev.done THEN pw' = pw ELSE pw'.step = "files" /\ pw'.ev = ev
  <2> SUFFICES ASSUME ev.type = "removed", ev.id = x
               PROVE  /\ row'[x] = None /\ detail'[x] = NoLevel /\ UNCHANGED surge
                      /\ IF ev.done THEN pw' = pw ELSE pw'.step = "files" /\ pw'.ev = ev
    OBVIOUS
  <2>1. DeleteState(ev) BY DEF Skip, PersistStarted, PersistPaused, PersistError, Promote
  <2> QED BY <1>t, <2>1 DEF DeleteState, SetRow, Step
<1>10. Mild(ev) /\ ev.id = x /\ row[x] = None => row'[x] = None /\ detail'[x] = detail[x] /\ pw' = pw
  <2> SUFFICES ASSUME Mild(ev), ev.id = x, row[x] = None
               PROVE  row'[x] = None /\ detail'[x] = detail[x] /\ pw' = pw
    OBVIOUS
  <2>1. Skip(ev) BY DEF Mild, PersistStarted, PersistPaused, PersistError, Promote, DeleteState
  <2> QED BY <2>1 DEF Skip
<1> QED BY <1>4, <1>5, <1>6, <1>7, <1>8, <1>9, <1>10

\* The worker takes an event.
LEMMA TakeServes ==
  ASSUME Typed, KnownOK, NEW ev, NEW x \in Ids, Known(x),
         Skip(ev) \/ PersistStarted(ev) \/ PersistPaused(ev) \/ PersistError(ev) \/ Promote(ev) \/ DeleteState(ev)
  PROVE  Serves(x)
<1>n. None = "none" /\ None # x BY Constants DEF None
<1>i. IdlePw.step = "idle" BY DEF IdlePw
<1>1. /\ Take(ev) /\ UNCHANGED <<entry, run, level, late>>
      /\ pw' = pw \/ pw' = IdlePw \/ (pw'.ev = ev /\ pw'.step # "idle")
      /\ row'[x] # "completed" \/ row'[x] = row[x]
      /\ x # ev.id => row'[x] = row[x] /\ detail'[x] = detail[x]
  BY TakeLeaves
<1>2. /\ Len(bus) \in Nat \ {0} /\ Len(bus') = Len(bus) - 1 /\ ev = bus[1] /\ pw.step = "idle"
      /\ \A i \in 1..Len(bus') : bus'[i] = bus[i + 1]
  BY <1>1, Shifted
<1>3. /\ UNCHANGED <<user, gone, enq, budget, dest>>
      /\ surge'[dest[x]] \in {surge[dest[x]], None}
      /\ ev.type = "complete" /\ ev.id = x /\ row[x] # None => surge'[dest[x]] # x
      /\ pw'.step = "final" => ev.type = "complete" /\ (ev.id = x => row[x] # None)
      /\ row'[x] = None => row[x] = None \/ (ev.type = "removed" /\ ev.id = x)
      /\ ev.type = "removed" /\ ev.id = x =>
           /\ row'[x] = None /\ detail'[x] = NoLevel /\ UNCHANGED surge
           /\ IF ev.done THEN pw' = pw ELSE pw'.step = "files" /\ pw'.ev = ev
      /\ Mild(ev) /\ ev.id = x /\ row[x] = None => row'[x] = None /\ detail'[x] = detail[x] /\ pw' = pw
  BY TakeDisk
<1>4. 1 \in 1..Len(bus) BY <1>2
<1>5. \A i \in 1..Len(bus') : i + 1 \in 1..Len(bus) BY <1>2
<1>s. surge'[dest'[x]] = x => surge[dest[x]] = x BY <1>3, <1>n
<1>p. pw'.step # "idle" => pw'.ev = ev BY <1>1, <1>2, <1>i
<1>w. \A i \in 1..Len(bus') : Wins(x, i)' => Wins(x, i + 1) BY <1>2 DEF Wins
<1>6. Winning(x)' => Winning(x)
  <2>1. ASSUME pw'.step = "final", pw'.ev.id = x PROVE Wins(x, 1) BY <1>2, <1>3, <1>p, <2>1 DEF Wins
  <2> QED BY <1>1, <1>4, <1>5, <1>w, <2>1 DEF Winning
<1>7. Ended(x)' => Ended(x) BY <1>1, <1>6 DEF Ended
\* of the completions at the head of the bus one is applied, or all move up
<1>8. ASSUME NEW i \in 1..Len(bus), Wins(x, i), row[x] # None
      PROVE  surge'[dest'[x]] # x \/ (i - 1 \in 1..Len(bus') /\ Wins(x, i - 1)')
  <2>1. CASE i = 1 BY <1>2, <1>3, <1>8, <2>1 DEF Wins
  <2>2. CASE i # 1
    <3> DEFINE k == i - 1
    <3>1. k \in 1..Len(bus') /\ k + 1 = i BY <1>2, <2>2
    <3> HIDE DEF k
    <3>2. bus'[k] = bus[i] BY <1>2, <3>1
    <3>3. Wins(x, k)' BY <1>8, <3>2 DEF Wins
    <3> QED BY <3>1, <3>3 DEF k
  <2> QED BY <2>1, <2>2
<1>9. Promised(x) /\ row[x] # None => Promised(x)' BY <1>s, <1>8 DEF Promised
<1>10. row'[x] = None => row[x] = None \/ \E i \in 1..Len(bus) : Announced(x, i)
  BY <1>2, <1>3, <1>4 DEF Announced
<1>11. Blank(x) /\ row[x] = None => Blank(x)' /\ row'[x] = None
  <2> SUFFICES ASSUME Blank(x), row[x] = None PROVE Blank(x)' /\ row'[x] = None OBVIOUS
  <2>1. ev.id # x BY <1>2, <1>4 DEF Blank
  <2>2. \A i \in 1..Len(bus') : bus'[i].id # x BY <1>2, <1>5 DEF Blank
  <2>3. \A u \in Users : /\ ~At(u, x, {"hydrate", "cload", "add", "rpub", "ppub"})'
                         /\ Cancels(u, x)' => ~user'[u].found
    BY <1>3 DEF Blank, At, Cancels
  <2> QED BY <1>1, <1>s, <1>p, <2>1, <2>2, <2>3 DEF Blank
<1>12. Moved(x) => Moved(x)' BY <1>1, <1>3, <1>s, <1>p DEF Moved
<1>13. Single(x) /\ (Coming(x) \/ Applied(x)) => Coming(x)' \/ Applied(x)'
  <2> SUFFICES ASSUME Single(x), Coming(x) \/ Applied(x) PROVE Coming(x)' \/ Applied(x)' OBVIOUS
  <2>1. CASE Coming(x)
    <3>1. PICK i \in 1..Len(bus) : Announced(x, i) /\ Calm(x, i + 1) /\ (bus[i].done => Cleared(x, i))
      BY <2>1 DEF Coming
    <3>2. row[x] # None BY <2>1 DEF Coming
    <3>3. CASE i = 1
      <4>1. ev.type = "removed" /\ ev.id = x BY <1>2, <3>1, <3>3 DEF Announced
      <4>2. Calm(x, 1)' BY <1>1, <3>1, <3>3, ShiftedFrom
      <4>3. ev.done => surge[dest[x]] # x BY <1>2, <3>1, <3>3 DEF Cleared
      <4> QED BY <1>2, <1>3, <1>s, <4>1, <4>2, <4>3 DEF Applied, Cleans
    <3>4. CASE i # 1
      <4> DEFINE k == i - 1
      <4>1. k \in Nat \ {0} /\ k + 1 = i /\ k \in 1..Len(bus') BY <1>2, <3>1, <3>4
      <4> HIDE DEF k
      <4>2. Calm(x, k + 1)'
        <5>1. k + 1 \in Nat \ {0} /\ Calm(x, k + 1 + 1) BY <3>1, <4>1
        <5> QED BY <1>1, <5>1, ShiftedFrom
      <4>3. bus'[k] = bus[i] BY <1>2, <4>1
      <4>4. Announced(x, k)' BY <3>1, <4>3 DEF Announced
      <4>5. Cleared(x, i) => Cleared(x, k)'
        <5> SUFFICES ASSUME Cleared(x, i) PROVE Cleared(x, k)' OBVIOUS
        <5>1. CASE surge[dest[x]] # x BY <1>s, <5>1 DEF Cleared
        <5>2. CASE \E j \in 1..i - 1 : Wins(x, j)
          <6>1. PICK j \in 1..i - 1 : Wins(x, j) BY <5>2
          <6>2. j \in 1..Len(bus) BY <1>2, <3>1, <6>1
          <6>3. surge'[dest'[x]] # x \/ (j - 1 \in 1..Len(bus') /\ Wins(x, j - 1)') BY <1>8, <3>2, <6>1, <6>2
          <6>4. j - 1 \in 1..Len(bus') => j - 1 \in 1..k - 1 BY <1>2, <4>1, <6>1
          <6> QED BY <6>3, <6>4 DEF Cleared
        <5> QED BY <5>1, <5>2 DEF Cleared
      <4>6. row'[x] # None
        <5> SUFFICES ASSUME row'[x] = None PROVE FALSE OBVIOUS
        <5>1. Announced(x, 1) BY <1>2, <1>3, <3>2 DEF Announced
        <5> QED BY <1>4, <3>1, <3>4, <5>1 DEF Single
      <4> QED BY <3>1, <4>1, <4>2, <4>3, <4>4, <4>5, <4>6 DEF Coming
    <3> QED BY <3>3, <3>4
  <2>2. CASE Applied(x)
    <3>1. row[x] = None /\ detail[x] = NoLevel /\ Calm(x, 1) /\ surge[dest[x]] # x
      BY <1>2, <2>2 DEF Applied, Cleans
    <3>2. Calm(x, 1)' BY <1>1, <3>1, ShiftedFrom
    <3>3. ev.id = x => Mild(ev) BY <1>2, <1>4, <3>1 DEF Calm
    <3> QED BY <1>1, <1>2, <1>3, <1>s, <1>p, <3>1, <3>2, <3>3 DEF Applied
  <2> QED BY <2>1, <2>2
<1> QED BY <1>1, <1>3, <1>6, <1>7, <1>9, <1>10, <1>11, <1>12, <1>13 DEF Serves

\* The worker does the next store call for the event that it has.
LEMMA HaveServes ==
  ASSUME Typed, KnownOK, NEW x \in Ids, Known(x),
         LoadDetail \/ WriteDetail \/ RecordCompleted \/ DeleteDetail \/ RemoveFiles
  PROVE  Serves(x)
<1>n. None = "none" /\ None # x BY Constants DEF None
<1>i. IdlePw.step = "idle" BY DEF IdlePw
<1>t. /\ row \in [Ids -> Unfinished \cup {None, "completed"}] /\ detail \in [Ids -> Levels]
      /\ surge \in [Names -> Ids \cup {None}]
  BY DEF Typed, StoreTyped
<1>1. UNCHANGED <<bus, entry, run, level, late, user, gone, enq, budget, dest>>
  BY DEF LoadDetail, WriteDetail, RecordCompleted, DeleteDetail, RemoveFiles, PwFrame, pool, calls, ghost, disk
<1>2. pw' = IdlePw \/ (pw'.ev = pw.ev /\ pw'.step \in {"detail", "gc"})
  BY DEF LoadDetail, WriteDetail, RecordCompleted, DeleteDetail, RemoveFiles, Done, Step
<1>3. pw.step # "idle" BY DEF LoadDetail, WriteDetail, RecordCompleted, DeleteDetail, RemoveFiles
<1>e. pw.ev.id \in Ids BY <1>3, EventFields DEF Typed, EventsTyped
<1>d. dest[x] \in Names BY DEF KnownOK, Named, Known
<1>4. pw.ev.id # x => row'[x] = row[x] /\ detail'[x] = detail[x]
  BY <1>t, <1>e DEF LoadDetail, WriteDetail, RecordCompleted, DeleteDetail, RemoveFiles, SetRow, disk
<1>5. row' = row \/ (pw.step = "final" /\ row' = [row EXCEPT ![pw.ev.id] = "completed"])
  BY DEF LoadDetail, WriteDetail, RecordCompleted, DeleteDetail, RemoveFiles, SetRow, disk
<1>6. row'[x] = row[x] \/ (row'[x] = "completed" /\ pw.step = "final" /\ pw.ev.id = x) BY <1>t, <1>5
<1>7. surge'[dest[x]] \in {surge[dest[x]], None}
  BY <1>t, <1>d DEF LoadDetail, WriteDetail, RecordCompleted, DeleteDetail, RemoveFiles, disk
<1>8. Cleans(x) => pw' = IdlePw /\ row' = row /\ detail' = detail /\ surge'[dest[x]] # x
  <2> SUFFICES ASSUME Cleans(x) PROVE pw' = IdlePw /\ row' = row /\ detail' = detail /\ surge'[dest[x]] # x OBVIOUS
  <2>1. RemoveFiles BY DEF Cleans, LoadDetail, WriteDetail, RecordCompleted, DeleteDetail
  <2> QED BY <1>t, <1>n, <1>d, <2>1 DEF Cleans, RemoveFiles, Done
<1>s. surge'[dest'[x]] = x => surge[dest[x]] = x BY <1>1, <1>7, <1>n
<1>f. pw'.step # "final" BY <1>2, <1>i
<1>p. pw'.step # "idle" => pw'.ev = pw.ev BY <1>2, <1>i
<1>9. Winning(x)' => Winning(x) BY <1>1, <1>f DEF Winning, Wins
<1>10. Ended(x)' => Ended(x) BY <1>6, <1>9 DEF Ended, Winning
<1>11. Promised(x) => Promised(x)' BY <1>1, <1>s DEF Promised, Wins
<1>12. row'[x] = None => row[x] = None BY <1>6, <1>n
<1>13. Blank(x) /\ row[x] = None => Blank(x)' /\ row'[x] = None
  <2> SUFFICES ASSUME Blank(x), row[x] = None PROVE Blank(x)' /\ row'[x] = None OBVIOUS
  <2>1. pw.ev.id # x BY <1>3 DEF Blank
  <2>2. \A u \in Users : /\ ~At(u, x, {"hydrate", "cload", "add", "rpub", "ppub"})'
                         /\ Cancels(u, x)' => ~user'[u].found
    BY <1>1 DEF Blank, At, Cancels
  <2> QED BY <1>1, <1>4, <1>s, <1>p, <2>1, <2>2 DEF Blank
<1>14. Moved(x) => Moved(x)' BY <1>6, <1>s, <1>f DEF Moved
<1>15. Coming(x) => Coming(x)'
  BY <1>1, <1>12, <1>s DEF Coming, Announced, Calm, Mild, Cleared, Wins
<1>16. Applied(x) => Applied(x)'
  <2> SUFFICES ASSUME Applied(x) PROVE Applied(x)' OBVIOUS
  <2>1. Calm(x, 1)' BY <1>1 DEF Applied, Calm, Mild
  <2>2. CASE Cleans(x) BY <1>1, <1>8, <1>i, <2>1, <2>2 DEF Applied
  <2>3. CASE ~Cleans(x)
    <3>1. pw.ev.id # x /\ surge[dest[x]] # x BY <1>3, <2>3 DEF Applied
    <3> QED BY <1>4, <1>s, <1>p, <2>1, <3>1 DEF Applied
  <2> QED BY <2>2, <2>3
<1> QED BY <1>1, <1>9, <1>10, <1>11, <1>12, <1>13, <1>14, <1>15, <1>16 DEF Serves

\* A step of the persistence worker.
LEMMA PersistFine ==
  ASSUME Typed, KnownOK, AskedOK, NEW x \in Hls, Known(x), Fine(x), Persist
  PROVE  Fine(x)'
<1>x. x \in Ids BY Constants
<1>1. CASE LoadDetail \/ WriteDetail \/ RecordCompleted \/ DeleteDetail \/ RemoveFiles
  BY <1>1, <1>x, HaveServes, ServedFine
<1>2. CASE \E i \in 1..Len(bus) :
             \/ Skip(bus[i]) \/ PersistStarted(bus[i]) \/ PersistPaused(bus[i])
             \/ PersistError(bus[i]) \/ Promote(bus[i]) \/ DeleteState(bus[i])
  <2>1. PICK ev : Skip(ev) \/ PersistStarted(ev) \/ PersistPaused(ev) \/ PersistError(ev)
                  \/ Promote(ev) \/ DeleteState(ev)
    BY <1>2
  <2>2. Serves(x) BY <1>x, <2>1, TakeServes
  <2> QED BY <2>2, ServedFine
<1> QED BY <1>1, <1>2 DEF Persist

\* A crash leaves what is on disk.
LEMMA CrashFine ==
  ASSUME Typed, KnownOK, EarlyOK, NEW x \in Ids, Fine(x), Crash
  PROVE  Fine(x)'
<1>n. None = "none" BY DEF None
<1>1. /\ bus' = <<>> /\ pw' = IdlePw /\ user' = [u \in Users |-> IdleUser]
      /\ entry'[x] = None /\ run'[x] = None /\ late'[x] = NoEvent /\ gone' = {}
      /\ enq'[x] = (IF enq[x] \in {"idle", "reserved", "locked"} THEN "idle" ELSE "done")
      /\ UNCHANGED <<row, detail, dest, surge>> /\ budget' = [budget EXCEPT !.crashes = @ - 1]
  BY DEF Crash, disk
<1>2. pw'.step = "idle" /\ \A u \in Users : user'[u].pc = "idle" BY <1>1 DEF IdlePw, IdleUser
<1>3. \A i \in 1..Len(bus') : FALSE BY <1>1
<1>4. \A u \in Users : ~Cancels(u, x)' BY <1>2 DEF Cancels, Removal
<1>5. Unremoved(x)' => Unremoved(x)
  <2>1. budget'.cancels = budget.cancels BY <1>1 DEF Typed, BoundsTyped
  <2> QED BY <1>4, <2>1 DEF Unremoved, Asked
<1>6. Unremoved(x)' /\ Known(x)' /\ row'[x] = None => Blank(x)'
  <2> SUFFICES ASSUME Unremoved(x)', Known(x)', row'[x] = None PROVE Blank(x)' OBVIOUS
  <2>1. enq[x] \in {"row", "added", "done"} /\ row[x] = None BY <1>1 DEF Known, Typed, CallsTyped
  <2>2. Known(x) BY <1>n, <2>1 DEF EarlyOK, Known
  <2>3. Blank(x) BY <1>5, <2>1, <2>2 DEF Fine, Held
  <2>4. \A u \in Users : ~At(u, x, {"hydrate", "cload", "add", "rpub", "ppub"})' BY <1>2 DEF At
  <2> QED BY <1>1, <1>2, <1>3, <1>4, <2>3, <2>4 DEF Blank
<1>7. Held(x)' BY <1>1, <1>n, <1>6 DEF Held
<1>8. Moved(x)' BY <1>1, <1>2 DEF Fine, Moved
<1>9. Still(x)' BY <1>1, <1>2, <1>3, <1>7, <1>8 DEF Still
<1>10. StillsFine' BY StillFine, PTL
<1> QED BY <1>9, <1>10 DEF StillsFine

\* A pass of startup drops a download with all it has, or keeps it as it is.
LEMMA RecoverLoses ==
  ASSUME Typed, Recover, NEW x \in Ids, dest[x] \in Names
  PROVE  /\ surge'[dest'[x]] = x => surge[dest[x]] = x
         /\ row[x] = None => row'[x] = None /\ detail'[x] \in {detail[x], NoLevel}
         /\ row'[x] = None /\ row[x] # None => detail'[x] = NoLevel /\ surge'[dest'[x]] # x
<1>n. None = "none" /\ None # x BY Constants DEF None
<1>t. surge \in [Names -> Ids \cup {None}] BY DEF Typed, StoreTyped
<1>1. CASE NormalizeStaleDownloads
  <2>1. UNCHANGED <<detail, dest, surge>> /\ row'[x] = IF row[x] = "downloading" THEN "paused" ELSE row[x]
    BY <1>1 DEF NormalizeStaleDownloads
  <2> QED BY <1>n, <2>1
<1>2. CASE ValidateIntegrity
  <2>1. /\ row'[x] = IF row[x] \in {"paused", "queued"} /\ surge[dest[x]] = None THEN None ELSE row[x]
        /\ detail'[x] = IF row'[x] \in Unfinished THEN detail[x] ELSE NoLevel
        /\ surge'[dest[x]] \in {surge[dest[x]], None} /\ dest' = dest
    BY <1>2 DEF ValidateIntegrity
  <2>2. row'[x] = None => row'[x] \notin Unfinished BY <1>n DEF Unfinished
  <2> QED BY <1>n, <2>1, <2>2
<1> QED BY <1>1, <1>2 DEF Recover

\* The passes of startup bring no removed download back.
LEMMA RecoverFine ==
  ASSUME Typed, DownOK, KnownOK, NEW x \in Ids, Known(x), Fine(x), Recover
  PROVE  Fine(x)'
<1>1. phase # "up" /\ UNCHANGED <<dest, entry, run, late, enq, user, bus, pw, budget, gone>>
  BY DEF Recover, NormalizeStaleDownloads, ValidateIntegrity, pool, calls, ghost
<1>2. /\ bus' = <<>> /\ pw'.step = "idle" /\ \A u \in Users : user'[u].pc = "idle"
      /\ entry'[x] = None /\ run'[x] = None /\ late'[x] = NoEvent
  BY <1>1 DEF DownOK
<1>3. \A i \in 1..Len(bus') : FALSE BY <1>2
<1>4. \A u \in Users : ~Cancels(u, x)' BY <1>2 DEF Cancels, Removal
<1>5. dest[x] \in Names BY DEF KnownOK, Named, Known
<1>6. Held(x) /\ Moved(x) /\ (x \in gone => Gone(x)) BY DEF Fine
<1>7. /\ surge'[dest'[x]] = x => surge[dest[x]] = x
      /\ row[x] = None => row'[x] = None /\ detail'[x] \in {detail[x], NoLevel}
      /\ row'[x] = None /\ row[x] # None => detail'[x] = NoLevel /\ surge'[dest'[x]] # x
  BY <1>5, RecoverLoses
<1>8. Unremoved(x)' => Unremoved(x) BY <1>1 DEF Unremoved, Asked, Cancels
<1>9. Unremoved(x)' /\ row'[x] = None => Blank(x)'
  <2> SUFFICES ASSUME Unremoved(x)', row'[x] = None PROVE Blank(x)' OBVIOUS
  <2>1. detail'[x] = NoLevel /\ surge'[dest'[x]] # x BY <1>6, <1>7, <1>8 DEF Held, Blank
  <2>2. \A u \in Users : ~At(u, x, {"hydrate", "cload", "add", "rpub", "ppub"})' BY <1>2 DEF At
  <2> QED BY <1>2, <1>3, <1>4, <2>1, <2>2 DEF Blank
<1>10. Held(x)' BY <1>2, <1>9 DEF Held, None
<1>11. Moved(x)' BY <1>2, <1>6, <1>7, RecoverRows DEF Moved
<1>12. x \in gone' => Gone(x)'
  <2>1. SUFFICES ASSUME x \in gone PROVE Gone(x)' BY <1>1
  <2>2. \A i \in 1..Len(bus) : FALSE BY <1>1, <1>3
  <2>3. Applied(x) BY <1>6, <2>1, <2>2 DEF Gone, Coming
  <2>4. row[x] = None /\ detail[x] = NoLevel /\ surge[dest[x]] # x BY <1>1, <1>2, <2>3 DEF Applied, Cleans
  <2>5. Applied(x)' BY <1>2, <1>3, <1>7, <2>4 DEF Applied, Calm
  <2> QED BY <1>2, <1>4, <2>5 DEF Gone
<1>13. Still(x)' BY <1>2, <1>3, <1>10, <1>11, <1>12 DEF Still
<1>14. StillsFine' BY StillFine, PTL
<1> QED BY <1>13, <1>14 DEF StillsFine

\* Only those who may call do.
LEMMA CallersKept ==
  ASSUME CallersOK, Typed, Next
  PROVE  CallersOK'
<1>s. scenario' = scenario BY DEF Next
<1>1. CASE user' = user BY <1>s, <1>1 DEF CallersOK
<1>2. CASE \E id \in Ids : Enqueue(id)
  BY <1>1, <1>2 DEF Enqueue, Reserve, LockEnqueue, PersistQueued, SeedAndAdd, PublishQueued
<1>3. CASE \E id \in Ids : Run(id) BY <1>1, <1>3, RunDoes DEF Runs
<1>4. CASE \E u \in Users : User(u)
  <2>1. PICK u \in Users : User(u) BY <1>4
  <2>2. u \in scenario.users \/ user[u].pc # "idle"
    BY <2>1 DEF User, PauseCall, ResumeCall, CancelCall, Call, PauseLook, PausePublish, Extract, Hydrate,
       ColdLook, ColdLoad, Add, ResumePublish, CancelPool, CancelWait, CancelEntry, CancelPublish
  <2>3. \A v \in Users \ {u} : user'[v] = user[v]
    <3>1. CASE Asking(u) BY <3>1, AskDoes DEF Asks
    <3>2. CASE \E id \in Ids : CancelCall(u, id) BY <3>2, CancelBegins DEF Begins
    <3>3. CASE CancelPool(u) \/ CancelWait(u) \/ CancelEntry(u) BY <3>3, CancelProceeds DEF Proceeds
    <3>4. CASE CancelPublish(u) BY <3>4, CancelAnnounces DEF Announces
    <3> QED BY <2>1, <3>1, <3>2, <3>3, <3>4 DEF User, Asking
  <2> QED BY <1>s, <2>2, <2>3 DEF CallersOK
<1>5. CASE Persist BY <1>1, <1>5, PersistDoes DEF Persists, Working
<1>6. CASE Crash
  <2>1. \A u \in Users : user'[u].pc = "idle" BY <1>6, IdleIs DEF Crash
  <2> QED BY <2>1 DEF CallersOK
<1>7. CASE Recover BY <1>1, <1>7 DEF Recover, NormalizeStaleDownloads, ValidateIntegrity, calls
<1> QED BY <1>2, <1>3, <1>4, <1>5, <1>6, <1>7 DEF Next

\* Only what somebody asked to remove comes to be gone.
LEMMA GoneKept ==
  ASSUME Typed, AskedOK, GoneOK, Steps
  PROVE  GoneOK'
<1>g. gone \subseteq Ids BY DEF Typed, BoundsTyped
<1>1. \A x \in gone' : x \in gone \/ (x \in Ids /\ Removing(x))
  <2>1. CASE \E u \in Users, y \in Ids, ev \in Events : Announces(u, y, ev)
    <3>1. PICK u \in Users, y \in Ids, ev \in Events : Announces(u, y, ev) BY <2>1
    <3>2. Removing(y) BY <3>1 DEF Announces, Removing, Cancels, Removal
    <3> QED BY <3>1, <3>2 DEF Announces
  <2>2. CASE \/ \E y \in Ids, n \in Names : Reserves(y, n)
             \/ \E y \in Ids, ev \in Events : Enters(y, ev)
             \/ \E y \in Ids, ev \in Events : Runs(y, ev)
    BY <2>2 DEF Reserves, Enters, Runs
  <2>3. CASE \/ \E u \in Users, y \in Ids, ev \in Events : Asks(u, y, ev)
             \/ \E u \in Users, y \in Ids : Begins(u, y)
             \/ \E u \in Users, y \in Ids, pc \in Removal : Proceeds(u, y, pc)
    BY <2>3 DEF Asks, Begins, Proceeds
  <2>4. CASE (\E ev \in Events : Persists(ev)) \/ Crash \/ (Recover /\ Recovers)
    BY <2>4 DEF Persists, Working, Crash, Recovers
  <2> QED BY <2>1, <2>2, <2>3, <2>4 DEF Steps
<1>2. \A x \in gone' : x \in Ids /\ Asked(x) BY <1>1, <1>g DEF GoneOK, AskedOK
<1> QED BY <1>2, AskedFrom DEF GoneOK

\* An Enqueue finds the row that it wrote.
LEMMA EarlyKept ==
  ASSUME Typed, DownOK, KnownOK, AskedOK, EarlyOK, Steps
  PROVE  EarlyOK'
<1>n. None = "none" BY DEF None
<1>t. /\ enq \in [Ids -> {"idle", "reserved", "locked", "row", "added", "done"}]
      /\ row \in [Ids -> Unfinished \cup {None, "completed"}]
  BY DEF Typed, CallsTyped, StoreTyped
<1>1. CASE UNCHANGED <<enq, row>> BY <1>1 DEF EarlyOK
<1>2. CASE \E y \in Ids, n \in Names : Reserves(y, n)
  <2>1. PICK y \in Ids, n \in Names : Reserves(y, n) BY <1>2
  <2>2. enq[y] = "idle" /\ enq' = [enq EXCEPT ![y] = "reserved"] /\ row' = row BY <2>1 DEF Reserves
  <2> QED BY <1>t, <2>2 DEF EarlyOK
<1>3. CASE \E y \in Ids, ev \in Events : Enters(y, ev)
  <2>1. PICK y \in Ids, ev \in Events : Enters(y, ev) BY <1>3
  <2>2. \/ enq[y] = "reserved" /\ enq' = [enq EXCEPT ![y] = "locked"] /\ row' = row
        \/ enq[y] = "locked" /\ enq' = [enq EXCEPT ![y] = "row"] /\ row' = [row EXCEPT ![y] = "queued"]
        \/ enq[y] = "row" /\ enq' = [enq EXCEPT ![y] = "added"] /\ row' = row
        \/ enq[y] = "added" /\ enq' = [enq EXCEPT ![y] = "done"] /\ row' = row
    BY <2>1 DEF Enters
  <2> QED BY <1>n, <1>t, <2>2 DEF EarlyOK
<1>4. CASE \/ \E y \in Ids, ev \in Events : Runs(y, ev)
           \/ Calling
  BY <1>1, <1>4, CallsLeave DEF Runs
<1>5. CASE \E ev \in Events : Persists(ev)
  <2>1. PICK ev \in Events : Persists(ev) BY <1>5
  <2>2. Working(ev) BY <2>1 DEF Persists
  <2>3. enq' = enq /\ \A x \in Ids \ {ev.id} : row'[x] = row[x] BY <2>2 DEF Working
  <2>4. enq[ev.id] \in {"added", "done"} BY <2>2, WorkerKnown DEF Known
  <2>5. enq[ev.id] = "added" => row'[ev.id] # None
    <3> SUFFICES ASSUME enq[ev.id] = "added" PROVE row'[ev.id] # None OBVIOUS
    <3>1. ev.id \in Ids /\ row[ev.id] # None BY EventFields DEF EarlyOK
    <3>2. ~Asked(ev.id) BY <3>1 DEF AskedOK
    <3>3. ~Deletes(ev) BY <2>2, <3>2, WorkerKnown DEF Deletes
    <3> QED BY <1>n, <2>1, <3>1, <3>3 DEF Persists, Notes, Promotes, Records, Removes
  <2> QED BY <2>3, <2>4, <2>5 DEF EarlyOK
<1>6. CASE Crash
  <2>1. row' = row /\ enq' = [id \in Ids |-> IF enq[id] \in {"idle", "reserved", "locked"}
                                              THEN "idle" ELSE "done"]
    BY <1>6 DEF Crash, disk
  <2> QED BY <2>1 DEF EarlyOK
<1>7. CASE Recover /\ Recovers
  <2>1. phase # "up" BY <1>7 DEF Recover, NormalizeStaleDownloads, ValidateIntegrity
  <2>2. enq' = enq /\ \A x \in Ids : enq[x] \in {"idle", "done"} BY <1>7, <2>1 DEF Recovers, DownOK
  <2> QED BY <1>7, <2>2, RecoverRows DEF EarlyOK
<1> QED BY <1>2, <1>3, <1>4, <1>5, <1>6, <1>7 DEF Steps, Calling

\* Nothing was removed at the start.
LEMMA InitGone ==
  ASSUME Alternate, Init
  PROVE  RInv
<1>1. Typed /\ DownOK /\ KnownOK /\ AskedOK BY InitSafe DEF IInv
<1>2. PICK s \in Scenarios :
        scenario = s /\ budget = [calls |-> s.calls, drops |-> s.drops, crashes |-> MaxCrashes,
                                  cancels |-> [id \in Ids |-> MaxCancels]]
  BY DEF Init
<1>3. Removals => HeardOK BY <1>2 DEF HeardOK, Removals, Alternate
<1>4. CallersOK
  <2>1. \A u \in Users : user[u].pc = "idle" BY IdleIs DEF Init
  <2> QED BY <2>1 DEF CallersOK
<1>5. (\A x \in Ids : enq[x] = "idle" /\ row[x] = None) /\ gone = {} BY DEF Init
<1>6. EarlyOK /\ GoneOK BY <1>5 DEF EarlyOK, GoneOK
<1>7. \A x \in Hls : Fine(x) BY <1>1, <1>5, <1>6, UnknownFine, Constants DEF UnknownsFine, Known
<1> QED BY <1>1, <1>3, <1>4, <1>6, <1>7 DEF RInv

\* Every step keeps every HLS download that may be removed in order.
LEMMA FineKept ==
  ASSUME RInv, Alternate, Removals, Next, NEW x \in Hls,
         Typed', KnownOK', AskedOK', EarlyOK', GoneOK'
  PROVE  Fine(x)'
<1>i. /\ Typed /\ DownOK /\ KnownOK /\ AskedOK /\ CallersOK /\ EarlyOK /\ GoneOK /\ HeardOK
      /\ Fine(x)
  BY DEF RInv
<1>x. x \in Ids BY Constants
<1>1. CASE ~Known(x)
  <2>1. CASE ~Known(x)'
    <3>1. UnknownsFine' BY UnknownFine, PTL
    <3> QED BY <1>x, <2>1, <3>1 DEF UnknownsFine
  <2>2. CASE Known(x)'
    <3>1. CASE \E y \in Ids : Enqueue(y) BY <1>i, <1>x, <3>1, EnqueueFine
    <3>2. CASE Crash BY <1>i, <1>x, <3>2, CrashFine
    <3>3. CASE enq' = enq BY <1>1, <2>2, <3>3 DEF Known
    <3>4. CASE \E y \in Ids : Run(y) BY <1>i, <3>3, <3>4, RunDoes DEF Runs
    <3>5. CASE \E u \in Users : User(u)
      BY <3>3, <3>5 DEF User, PauseCall, ResumeCall, CancelCall, PauseLook, PausePublish, Extract, Hydrate,
         ColdLook, ColdLoad, Add, ResumePublish, CancelPool, CancelWait, CancelEntry, CancelPublish, UserFrame
    <3>6. CASE Persist BY <1>i, <3>3, <3>6, PersistDoes DEF Persists, Working
    <3>7. CASE Recover BY <3>3, <3>7 DEF Recover, NormalizeStaleDownloads, ValidateIntegrity, calls
    <3> QED BY <3>1, <3>2, <3>4, <3>5, <3>6, <3>7 DEF Next
  <2> QED BY <2>1, <2>2
<1>2. CASE Known(x)
  <2>1. budget.drops = 0
    <3>1. x \in scenario.ids BY <1>i, <1>x, <1>2 DEF KnownOK, Named, Known
    <3> QED BY <1>i, <3>1 DEF HeardOK
  <2>2. CASE \E y \in Ids : Enqueue(y) BY <1>i, <1>x, <2>2, EnqueueFine
  <2>3. CASE \E y \in Ids : Run(y)
    <3>1. PICK y \in Ids : Run(y) BY <2>3
    <3>2. CASE x = y BY <1>i, <1>2, <2>1, <3>1, <3>2, OwnRunFine
    <3>3. CASE x # y BY <1>i, <1>x, <1>2, <3>1, <3>3, OtherRunFine
    <3> QED BY <3>2, <3>3
  <2>4. CASE \E u \in Users : User(u)
    <3>1. PICK u \in Users : User(u) BY <2>4
    <3>2. CASE Asking(u) BY <1>i, <1>2, <3>2, AskFine
    <3>3. CASE \E y \in Ids : CancelCall(u, y)
      <4>1. PICK y \in Ids : CancelCall(u, y) BY <3>3
      <4>2. CASE x = y BY <1>i, <1>x, <1>2, <4>1, <4>2, BeginsFine
      <4>3. CASE x # y
        <5>1. Begins(u, y) BY <1>i, <4>1, CancelBegins
        <5> QED BY <1>i, <1>x, <1>2, <4>3, <5>1, CancelOtherFine
      <4> QED BY <4>2, <4>3
    <3>4. CASE CancelPool(u) \/ CancelWait(u) \/ CancelEntry(u)
      <4>1. PICK y \in Ids, pc \in Removal : Proceeds(u, y, pc) BY <1>i, <3>4, CancelProceeds
      <4>2. CASE x = y
        <5>1. user[u].id = x BY <4>1, <4>2 DEF Proceeds
        <5> QED BY <1>i, <1>2, <3>4, <5>1, ProceedsFine
      <4>3. CASE x # y BY <1>i, <1>x, <1>2, <4>1, <4>3, CancelOtherFine
      <4> QED BY <4>2, <4>3
    <3>5. CASE CancelPublish(u)
      <4>1. PICK y, ev : Announces(u, y, ev) BY <1>i, <3>5, CancelAnnounces
      <4>2. y \in Ids /\ user[u].id = y BY <4>1 DEF Announces
      <4>3. CASE x = y BY <1>i, <1>2, <3>5, <4>2, <4>3, AnnouncesFine
      <4>4. CASE x # y BY <1>i, <1>x, <1>2, <4>1, <4>2, <4>4, CancelOtherFine
      <4> QED BY <4>3, <4>4
    <3> QED BY <3>1, <3>2, <3>3, <3>4, <3>5 DEF User, Asking
  <2>5. CASE Persist BY <1>i, <1>2, <2>5, PersistFine
  <2>6. CASE Crash BY <1>i, <1>x, <2>6, CrashFine
  <2>7. CASE Recover BY <1>i, <1>x, <1>2, <2>7, RecoverFine
  <2> QED BY <2>2, <2>3, <2>4, <2>5, <2>6, <2>7 DEF Next
<1> QED BY <1>1, <1>2

\* Every step keeps the invariant.
LEMMA NextGone ==
  ASSUME RInv, Alternate, [Next]_vars
  PROVE  RInv'
<1>i. /\ Typed /\ DownOK /\ KnownOK /\ AskedOK /\ CallersOK /\ EarlyOK /\ GoneOK
      /\ Removals => HeardOK /\ \A x \in Hls : Fine(x)
  BY DEF RInv
<1>1. CASE UNCHANGED vars
  <2> USE DEF vars, disk, pool, calls, ghost
  <2>1. Typed' BY <1>i, <1>1 DEF Typed, StoreTyped, PoolTyped, CallsTyped, EventsTyped, BoundsTyped
  <2>2. DownOK' BY <1>i, <1>1 DEF DownOK
  <2>3. KnownOK' BY <1>i, <1>1 DEF KnownOK, Named, Known
  <2>4. AskedOK' BY <1>i, <1>1 DEF AskedOK, Asked, Known, Removing, Cancels, Announced, Cleans
  <2>5. HeardOK' <=> HeardOK BY <1>1 DEF HeardOK
  <2>6. CallersOK' /\ EarlyOK' /\ GoneOK' BY <1>i, <1>1 DEF CallersOK, EarlyOK, GoneOK, Asked
  <2>7. ASSUME NEW x \in Hls, Fine(x) PROVE Fine(x)'
    <3>1. Single(x)' = Single(x) BY <1>1 DEF Single, Cancels, Announced, Cleans
    <3>2. Winning(x)' = Winning(x) /\ Promised(x)' = Promised(x) BY <1>1 DEF Winning, Promised, Wins
    <3>3. \A u, pcs : At(u, x, pcs)' = At(u, x, pcs) BY <1>1 DEF At
    <3>4. \A u : Cancels(u, x)' = Cancels(u, x) BY <1>1 DEF Cancels
    <3>5. Ended(x)' = Ended(x) BY <1>1, <3>2 DEF Ended
    <3>6. Over(x)' = Over(x) BY <1>1, <3>5 DEF Over
    <3>7. Back(x)' = Back(x) BY <1>1, <3>2, <3>3, <3>5 DEF Back
    <3>8. Left(x)' = Left(x) BY <1>1, <3>2, <3>3 DEF Left
    <3>9. Blank(x)' = Blank(x) BY <1>1, <3>3, <3>4 DEF Blank
    <3>10. Held(x)' = Held(x) BY <1>1, <3>2, <3>4, <3>9 DEF Held, Unremoved, Known, Asked
    <3>11. Moved(x)' = Moved(x) BY <1>1 DEF Moved
    <3>12. Coming(x)' = Coming(x) BY <1>1 DEF Coming, Announced, Calm, Mild, Cleared, Wins
    <3>13. Applied(x)' = Applied(x) BY <1>1 DEF Applied, Calm, Mild, Cleans
    <3>14. Gone(x)' = Gone(x) BY <1>1, <3>4, <3>12, <3>13 DEF Gone
    <3> QED BY <1>1, <2>7, <3>1, <3>6, <3>7, <3>8, <3>10, <3>11, <3>14 DEF Fine
  <2>8. Removals' = Removals BY <1>1 DEF Removals
  <2> QED BY <1>i, <2>1, <2>2, <2>3, <2>4, <2>5, <2>6, <2>7, <2>8 DEF RInv
<1>2. CASE Next
  <2>1. Steps /\ scenario' = scenario /\ Typed' BY <1>i, <1>2, NextSteps
  <2>2. DownOK' BY <1>i, <1>2, DownKept
  <2>3. KnownOK' BY <1>i, <2>1, KnownKept
  <2>4. AskedOK' BY <1>i, <2>1, AskedKept
  <2>5. CallersOK' /\ EarlyOK' /\ GoneOK' BY <1>i, <1>2, <2>1, CallersKept, EarlyKept, GoneKept
  <2>6. Removals' = Removals BY <2>1 DEF Removals
  <2>7. Removals => HeardOK' BY <1>i, <1>2, HeardKept
  <2>8. Removals => \A x \in Hls : Fine(x)' BY <1>2, <2>1, <2>3, <2>4, <2>5, FineKept
  <2> QED BY <2>1, <2>2, <2>3, <2>4, <2>5, <2>6, <2>7, <2>8 DEF RInv
<1> QED BY <1>1, <1>2

\* Once all events are applied nothing brings a removed HLS download back, where
\* each removal is the only one, no event is dropped, and a download is resumed
\* only by the caller that removes it, once its completion is recorded.
THEOREM RemovedAlwaysStaysGone == Alternate => (Spec => []RemovedStaysGone)
<1> SUFFICES ASSUME Alternate PROVE Spec => []RemovedStaysGone OBVIOUS
<1>1. RInv => RemovedStaysGone
  <2> SUFFICES ASSUME RInv, Rest, NEW x \in gone \cap Hls
               PROVE  row[x] = None /\ detail[x] = NoLevel /\ surge[dest[x]] # x
    BY DEF RemovedStaysGone
  <2>1. x \in Ids /\ Asked(x) BY Constants DEF RInv, GoneOK
  <2>2. Removals BY <2>1 DEF RInv, AskedOK, Removals
  <2>3. Gone(x) BY <2>2 DEF RInv, Fine
  <2>4. bus = <<>> /\ pw = IdlePw BY DEF Rest
  <2>5. 1..Len(bus) = {} BY <2>4
  <2>6. Applied(x) BY <2>3, <2>5 DEF Gone, Coming
  <2>7. ~Cleans(x) BY <2>4 DEF Cleans, IdlePw
  <2> QED BY <2>6, <2>7 DEF Applied
<1>2. Init => RInv BY InitGone
<1>3. RInv /\ [Next]_vars => RInv' BY NextGone
<1> QED BY <1>1, <1>2, <1>3, PTL DEF Spec

=============================================================================
