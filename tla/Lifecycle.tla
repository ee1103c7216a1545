----------------------------- MODULE Lifecycle -----------------------------
(***************************************************************************)
(* The lifecycle manager (surge/orchestrator) between the pool, the event  *)
(* bus and the store on disk: Enqueue with its reservation and the per-ID  *)
(* lock, Pause, Resume, Cancel, the persistence worker that applies the    *)
(* events one store call at a time, and a crash at any point followed by   *)
(* the two recovery passes of startup (bootstrap.go).                      *)
(*                                                                         *)
(* The pool is reduced to what the manager and the store see of it: the    *)
(* entry of an ID, the phase of its run, and the events the run sends.     *)
(* Scheduler has the pool itself. A checkpoint is a level 0..MaxLevel of   *)
(* verified data; a destination is a number, tried in order.               *)
(***************************************************************************)
EXTENDS Naturals, Sequences, FiniteSets

CONSTANTS Ids,         \* downloads, each enqueued once
          Hls,         \* those with the HLS strategy
          Dests,       \* how many names a request may end up with
          Users,       \* goroutines that pause, resume and cancel
          Scenarios,   \* bounds: who asks for what, of which downloads, how
                       \* often, and how many events a full channel makes a run drop
          MaxLevel,    \* bound on the progress of a run
          MaxBus,      \* room in the bus before a sender waits
          LateResume,  \* TRUE: callers may resume a finished download before
                       \* its completion is recorded
          MaxCancels,  \* bound on the removals asked for one ID
          MaxCrashes   \* bound on the crashes

ASSUME LifecycleAssumption ==
  /\ "none" \notin Ids /\ Hls \subseteq Ids /\ LateResume \in BOOLEAN
  /\ Scenarios \subseteq [ids : SUBSET Ids, users : SUBSET Users,
                       ops : SUBSET {"pause", "resume", "cancel"},
                       calls : Nat, drops : Nat]
  /\ {Dests, MaxLevel, MaxBus, MaxCancels, MaxCrashes} \subseteq Nat

VARIABLES
  row,     \* status of the ID in master.gob, or "none"
  detail,  \* level of the checkpoint in details/<id>.gob, or NoLevel
  dest,    \* the name reserved for the ID, 0 before
  surge,   \* whose working file stands at a name
  final,   \* whose promoted file stands at a name
  entry,   \* the ID in the pool: none, queued, active, paused
  run,     \* phase of the run of an ID
  level,   \* what the run, or the parked config, has verified
  late,    \* the event a finished run has still to send, or NoEvent
  marked,  \* IDs whose HLS claim carries the removal marker
  lock,    \* IDs whose downloadLock is held
  enq,     \* where EnqueueWithID of an ID stands
  user,    \* where each user call stands
  bus,     \* lifecycle events on their way to the persistence worker
  pw,      \* the persistence worker: step, event, detail it has read
  scenario, \* the downloads and calls of this behaviour
  phase,   \* up, or the recovery pass that is next
  budget,  \* calls, drops, crashes and removals left
  kept,    \* IDs accepted and never asked to be removed
  gone     \* IDs whose Cancel has returned and that nobody resumed since

disk == <<row, detail, dest, surge, final>>
pool == <<entry, run, level, late, marked>>
calls == <<lock, enq, user>>
ghost == <<kept, gone>>
vars == <<disk, pool, calls, bus, pw, phase, budget, scenario, ghost>>

Names == 1..Dests
None == "none"
NoLevel == MaxLevel + 1  \* no checkpoint: no detail, or an event without one
Levels == 0..NoLevel
Unfinished == {"queued", "downloading", "paused", "error"}

\* phases in which the strategy has not returned
Running == {"running", "pausing"}

Event(type, id, lvl, done) == [type |-> type, id |-> id, lvl |-> lvl, done |-> done]
NoEvent == Event(None, None, NoLevel, FALSE)
IdlePw == [step |-> "idle", ev |-> NoEvent, lvl |-> NoLevel]
IdleUser == [pc |-> "idle", id |-> None, lvl |-> NoLevel, done |-> FALSE, found |-> FALSE]

TypeOK ==
  /\ row \in [Ids -> Unfinished \cup {None, "completed"}]
  /\ detail \in [Ids -> Levels]
  /\ dest \in [Ids -> 0..Dests]
  /\ surge \in [Names -> Ids \cup {None}] /\ final \in [Names -> Ids \cup {None}]
  /\ entry \in [Ids -> {None, "queued", "active", "paused"}]
  /\ run \in [Ids -> {None, "won", "failed"} \cup Running]
  /\ level \in [Ids -> 0..MaxLevel]
  /\ \A id \in Ids : late[id].type \in {None, "paused", "error"}
  /\ marked \subseteq Ids /\ lock \subseteq Ids
  /\ enq \in [Ids -> {"idle", "reserved", "locked", "row", "added", "done"}]
  /\ \A u \in Users : user[u].pc \in {"idle", "plook", "ppub", "extract", "hydrate",
                        "clook", "cload", "add", "rpub", "cpool", "cwait", "centry", "cpub"}
  /\ Len(bus) <= MaxBus
  /\ pw.step \in {"idle", "load", "detail", "final", "gc", "files"}
  /\ phase \in {"up", "normalise", "validate"}
  /\ kept \subseteq Ids /\ gone \subseteq Ids

Init ==
  /\ row = [id \in Ids |-> None] /\ detail = [id \in Ids |-> NoLevel]
  /\ dest = [id \in Ids |-> 0]
  /\ surge = [n \in Names |-> None] /\ final = [n \in Names |-> None]
  /\ entry = [id \in Ids |-> None] /\ run = [id \in Ids |-> None]
  /\ level = [id \in Ids |-> 0] /\ late = [id \in Ids |-> NoEvent] /\ marked = {} /\ lock = {}
  /\ enq = [id \in Ids |-> "idle"] /\ user = [u \in Users |-> IdleUser]
  /\ bus = <<>> /\ pw = IdlePw /\ phase = "up"
  /\ \E s \in Scenarios : scenario = s /\ budget = [calls |-> s.calls, drops |-> s.drops, crashes |-> MaxCrashes,
                cancels |-> [id \in Ids |-> MaxCancels]]
  /\ kept = {} /\ gone = {}

-----------------------------------------------------------------------------
(* Events and the store. *)

\* EventBus.Publish: waits for room
Publish(ev) == Len(bus) < MaxBus /\ bus' = Append(bus, ev) /\ UNCHANGED budget

\* safeSendProgress: waits for room, and gives up when there is none for 3s
Send(ev) ==
  \/ Publish(ev)
  \/ /\ Len(bus) = MaxBus /\ budget.drops > 0
     /\ budget' = [budget EXCEPT !.drops = @ - 1]
     /\ UNCHANGED bus

Sparse(id) == Event("paused", id, NoLevel, FALSE)

\* LoadState finds the detail of a row that is not completed.
Saved(id) == IF row[id] \in Unfinished THEN detail[id] ELSE NoLevel

Up == phase = "up"

-----------------------------------------------------------------------------
(* EnqueueWithID. *)

\* No file of either kind has the name, and no download of the pool.
Free(n) ==
  /\ surge[n] = None /\ final[n] = None
  /\ \A id \in Ids : entry[id] # None => dest[id] # n

\* resolveDestination and the exclusive create of the working file
Reserve(id) ==
  /\ Up /\ enq[id] = "idle" /\ id \in scenario.ids
  /\ \E n \in Names :
       /\ Free(n) /\ \A m \in 1..(n - 1) : ~Free(m)
       /\ surge' = [surge EXCEPT ![n] = id]
       /\ dest' = [dest EXCEPT ![id] = n]
  /\ enq' = [enq EXCEPT ![id] = "reserved"]
  /\ UNCHANGED <<row, detail, final, pool, lock, user, bus, pw, phase, budget, ghost>>

LockEnqueue(id) ==
  /\ enq[id] = "reserved" /\ id \notin lock
  /\ lock' = lock \cup {id}
  /\ enq' = [enq EXCEPT ![id] = "locked"]
  /\ UNCHANGED <<disk, pool, user, bus, pw, phase, budget, ghost>>

\* the prepare callback, under the lock of the pool
PersistQueued(id) ==
  /\ enq[id] = "locked"
  /\ row' = [row EXCEPT ![id] = "queued"]
  /\ enq' = [enq EXCEPT ![id] = "row"]
  /\ UNCHANGED <<detail, dest, surge, final, pool, lock, user, bus, pw, phase, budget, ghost>>

\* Headers, mirrors or HLS seed a detail; then the entry is queued.
SeedAndAdd(id) ==
  /\ enq[id] = "row"
  /\ \E lvl \in IF id \in Hls THEN {0} ELSE {0, NoLevel} :
       detail' = [detail EXCEPT ![id] = lvl]
  /\ entry' = [entry EXCEPT ![id] = "queued"]
  /\ enq' = [enq EXCEPT ![id] = "added"]
  /\ kept' = kept \cup {id}
  /\ UNCHANGED <<row, dest, surge, final, run, level, late, marked, lock, user, bus,
                 pw, phase, budget, gone>>

PublishQueued(id) ==
  /\ enq[id] = "added"
  /\ Publish(Event("queued", id, NoLevel, FALSE))
  /\ lock' = lock \ {id}
  /\ enq' = [enq EXCEPT ![id] = "done"]
  /\ UNCHANGED <<disk, pool, user, pw, phase, ghost>>

-----------------------------------------------------------------------------
(* The run of an ID, as far as the manager and the store can see it. *)

SetRun(id, r) == run' = [run EXCEPT ![id] = r]
SetEntry(id, e) == entry' = [entry EXCEPT ![id] = e]
Owes(id, ev) == late' = [late EXCEPT ![id] = ev]
RunFrame == UNCHANGED <<calls, pw, phase, ghost>>

\* A worker claims the entry; the strategy opens the working file.
Start(id) ==
  /\ entry[id] = "queued" /\ run[id] = None
  /\ SetEntry(id, "active") /\ SetRun(id, "running")
  /\ marked' = marked \ {id}
  /\ surge' = [surge EXCEPT ![dest[id]] = IF @ = None THEN id ELSE @]
  /\ Send(Event("started", id, NoLevel, FALSE))
  /\ UNCHANGED <<row, detail, dest, final, level, late>> /\ RunFrame

Advance(id) ==
  /\ run[id] = "running" /\ level[id] < MaxLevel
  /\ level' = [level EXCEPT ![id] = @ + 1]
  /\ UNCHANGED <<disk, entry, run, late, marked, bus, budget>> /\ RunFrame

\* Physical success wins over a late pause; a cancelled run may still get here.
Win(id) ==
  /\ run[id] \in Running
  /\ SetRun(id, "won")
  /\ Send(Event("complete", id, NoLevel, FALSE))
  /\ UNCHANGED <<disk, entry, level, late, marked>> /\ RunFrame

Retire(id) ==
  /\ run[id] = "won"
  /\ SetRun(id, None)
  /\ SetEntry(id, IF entry[id] = "active" THEN None ELSE entry[id])
  /\ UNCHANGED <<disk, level, late, marked, bus, budget>> /\ RunFrame

\* An HLS run that fails under a pause reports the pause.
Fail(id) ==
  /\ \/ run[id] = "running"
     \/ run[id] = "pausing" /\ id \notin Hls
  /\ SetRun(id, "failed")
  /\ UNCHANGED <<disk, entry, level, late, marked, bus, budget>> /\ RunFrame

\* The worker takes its entry out and owes the error, or finds that somebody
\* else took it.
Detach(id) ==
  /\ run[id] = "failed" /\ late[id] = NoEvent
  /\ SetRun(id, None)
  /\ IF entry[id] = "active" /\ id \notin marked
       THEN /\ SetEntry(id, None)
            /\ \E lvl \in {level[id], NoLevel} : Owes(id, Event("error", id, lvl, FALSE))
       ELSE UNCHANGED <<entry, late>>
  /\ UNCHANGED <<disk, level, marked, bus, budget>> /\ RunFrame

\* Or it puts the task back in the queue.
Requeue(id) ==
  /\ run[id] = "failed" /\ entry[id] = "active" /\ id \notin marked
  /\ SetEntry(id, "queued") /\ SetRun(id, None)
  /\ Send(Event("queued", id, NoLevel, FALSE))
  /\ UNCHANGED <<disk, level, late, marked>> /\ RunFrame

\* Defect: the checkpoint is saved, and the event is thought to be redundant.
SavePause_Silent(id) ==
  /\ id \in Hls /\ run[id] = "pausing" /\ entry[id] = "active" /\ id \notin marked
  /\ SetEntry(id, "paused") /\ SetRun(id, None)
  /\ detail' = [detail EXCEPT ![id] = level[id]]
  /\ UNCHANGED <<row, dest, surge, final, level, late, marked, bus, budget, calls, pw,
                 phase, kept, gone>>

\* HLS, inside the claim fence: save, then open the gate, then publish. Without
\* a provable checkpoint the event is sparse.
SavePause(id) ==
  /\ id \in Hls /\ run[id] = "pausing" /\ entry[id] = "active" /\ id \notin marked
  /\ late[id] = NoEvent
  /\ SetEntry(id, "paused") /\ SetRun(id, None)
  /\ \/ /\ Owes(id, Event("paused", id, level[id], FALSE))
        /\ detail' = [detail EXCEPT ![id] = level[id]]
     \/ /\ level[id] = 0 /\ Owes(id, Sparse(id))
        /\ UNCHANGED detail
  /\ UNCHANGED <<row, dest, surge, final, level, marked, bus, budget, calls, pw,
                 phase, kept, gone>>

\* The concurrent downloader publishes its pause before it returns; the others
\* leave it to the worker.
OpenPause(id) ==
  /\ id \notin Hls /\ run[id] = "pausing" /\ late[id] = NoEvent
  /\ SetRun(id, None)
  /\ \/ Send(Event("paused", id, level[id], FALSE)) /\ UNCHANGED late
     \/ entry[id] = "active" /\ Owes(id, Sparse(id)) /\ UNCHANGED <<bus, budget>>
  /\ SetEntry(id, IF entry[id] = "active" THEN "paused" ELSE entry[id])
  /\ UNCHANGED <<disk, level, marked>> /\ RunFrame

\* What the run owes is sent after the gate was opened. An HLS run looks at the
\* removal marker inside its fence and sends without looking again.
LastLook(id) ==
  /\ id \in Hls /\ late[id] # NoEvent /\ ~late[id].done
  /\ Owes(id, IF id \in marked THEN NoEvent ELSE [late[id] EXCEPT !.done = TRUE])
  /\ UNCHANGED <<disk, entry, run, level, marked, bus, budget>> /\ RunFrame

SendLate(id) ==
  /\ late[id] # NoEvent
  /\ id \in Hls => late[id].done
  /\ Owes(id, NoEvent)
  /\ Send([late[id] EXCEPT !.done = FALSE])
  /\ UNCHANGED <<disk, entry, run, level, marked>> /\ RunFrame

\* An HLS run saves its checkpoint from time to time, and before it fails.
Checkpoint(id) ==
  /\ id \in Hls /\ run[id] = "running" /\ id \notin marked
  /\ detail' = [detail EXCEPT ![id] = level[id]]
  /\ UNCHANGED <<row, dest, surge, final, pool, bus, budget, calls, pw, phase, kept, gone>>

\* A run whose entry was taken out ends in silence.
Cancelled(id) ==
  /\ run[id] \in Running /\ entry[id] # "active"
  /\ SetRun(id, None)
  /\ UNCHANGED <<disk, entry, level, late, marked, bus, budget>> /\ RunFrame

Run(id) ==
  \/ Start(id) \/ Advance(id) \/ Win(id) \/ Retire(id) \/ Fail(id) \/ Detach(id)
  \/ Requeue(id) \/ SavePause(id) \/ OpenPause(id) \/ LastLook(id) \/ SendLate(id)
  \/ Checkpoint(id) \/ Cancelled(id)

-----------------------------------------------------------------------------
(* Pause, Resume and Cancel of the manager. *)

Goto(u, pc) == user' = [user EXCEPT ![u].pc = pc]
Return(u) == user' = [user EXCEPT ![u] = IdleUser]
UserFrame == UNCHANGED <<detail, dest, surge, final, late, enq, pw, phase, kept>>

Call(u, op, id) ==
  /\ Up /\ op \in scenario.ops /\ u \in scenario.users /\ user[u].pc = "idle" /\ enq[id] = "done" /\ budget.calls > 0

Spend(u, id, pc) ==
  /\ user' = [user EXCEPT ![u] = [IdleUser EXCEPT !.pc = pc, !.id = id]]
  /\ budget' = [budget EXCEPT !.calls = @ - 1]

\* pool.Pause: a queued task leaves the pool, a run is told to stop, a parked
\* or finished one is left alone, and an unknown one is looked up in the store.
PauseCall(u, id) ==
  /\ Call(u, "pause", id)
  /\ \/ entry[id] = "queued" /\ SetEntry(id, None) /\ UNCHANGED run /\ Spend(u, id, "ppub")
     \/ entry[id] = "active" /\ run[id] = "running" /\ SetRun(id, "pausing")
          /\ UNCHANGED entry /\ Spend(u, None, "idle")
     \/ entry[id] = None /\ UNCHANGED <<entry, run>> /\ Spend(u, id, "plook")
  /\ UNCHANGED <<row, level, marked, lock, bus, gone>> /\ UserFrame

PauseLook(u) ==
  /\ user[u].pc = "plook"
  /\ IF row[user[u].id] \in {"queued", "downloading"} THEN Goto(u, "ppub") ELSE Return(u)
  /\ UNCHANGED <<row, entry, run, level, marked, lock, bus, budget, gone>> /\ UserFrame

PausePublish(u) ==
  /\ user[u].pc = "ppub"
  /\ Publish(Sparse(user[u].id))
  /\ Return(u)
  /\ UNCHANGED <<row, entry, run, level, marked, lock, gone>> /\ UserFrame

\* finished, and its completion is not recorded yet
Unrecorded(id) ==
  \/ run[id] = "won"
  \/ \E i \in 1..Len(bus) : bus[i].type = "complete" /\ bus[i].id = id
  \/ pw.step = "final" /\ pw.ev.id = id

\* Resume takes no per-ID lock. GetStatus and ExtractPausedConfig.
ResumeCall(u, id) ==
  /\ Call(u, "resume", id) /\ entry[id] \in {"paused", None} /\ run[id] = None
  /\ LateResume \/ ~Unrecorded(id)
  /\ Spend(u, id, "extract")
  /\ UNCHANGED <<row, entry, run, level, marked, lock, bus, gone>> /\ UserFrame

Extract(u) ==
  LET id == user[u].id IN
  /\ user[u].pc = "extract"
  /\ IF entry[id] = "paused"
       THEN /\ SetEntry(id, None)
            /\ user' = [user EXCEPT ![u].pc = "hydrate", ![u].lvl = level[id]]
       ELSE Goto(u, "clook") /\ UNCHANGED entry
  /\ UNCHANGED <<row, run, level, marked, lock, bus, budget, gone>> /\ UserFrame

\* hydrateConfigFromDisk: a saved detail wins over the parked config.
Hydrate(u) ==
  LET id == user[u].id IN
  /\ user[u].pc = "hydrate"
  /\ user' = [user EXCEPT ![u].pc = "add",
                          ![u].lvl = IF Saved(id) = NoLevel THEN @ ELSE Saved(id)]
  /\ UNCHANGED <<row, entry, run, level, marked, lock, bus, budget, gone>> /\ UserFrame

\* the cold path, one store call at a time
ColdLook(u) ==
  /\ user[u].pc = "clook"
  /\ IF row[user[u].id] \in Unfinished THEN Goto(u, "cload") ELSE Return(u)
  /\ UNCHANGED <<row, entry, run, level, marked, lock, bus, budget, gone>> /\ UserFrame

ColdLoad(u) ==
  LET id == user[u].id IN
  /\ user[u].pc = "cload"
  /\ user' = [user EXCEPT ![u].pc = "add",
                          ![u].lvl = IF Saved(id) = NoLevel THEN 0 ELSE Saved(id)]
  /\ UNCHANGED <<row, entry, run, level, marked, lock, bus, budget, gone>> /\ UserFrame

\* pool.Add refuses an ID it already holds.
Add(u) ==
  LET id == user[u].id IN
  /\ user[u].pc = "add"
  /\ IF entry[id] = None
       THEN /\ SetEntry(id, "queued")
            /\ level' = [level EXCEPT ![id] = user[u].lvl]
            /\ gone' = gone \ {id}
            /\ Goto(u, "rpub")
       ELSE Return(u) /\ UNCHANGED <<entry, level, gone>>
  /\ UNCHANGED <<row, run, marked, lock, bus, budget>> /\ UserFrame

ResumePublish(u) ==
  /\ user[u].pc = "rpub"
  /\ Publish(Event("resumed", user[u].id, NoLevel, FALSE))
  /\ Return(u)
  /\ UNCHANGED <<row, entry, run, level, marked, lock, gone>> /\ UserFrame

CancelCall(u, id) ==
  /\ Call(u, "cancel", id) /\ id \notin lock /\ budget.cancels[id] > 0
  /\ lock' = lock \cup {id}
  /\ user' = [user EXCEPT ![u] = [IdleUser EXCEPT !.pc = "cpool", !.id = id]]
  /\ budget' = [budget EXCEPT !.calls = @ - 1, !.cancels[id] = @ - 1]
  /\ kept' = kept \ {id}
  /\ UNCHANGED <<row, detail, dest, surge, final, pool, enq, bus, pw, phase, gone>>

\* The entry goes, the context is cancelled, and every HLS claim is marked.
CancelPool(u) ==
  LET id == user[u].id IN
  /\ user[u].pc = "cpool"
  /\ SetEntry(id, None)
  /\ marked' = IF id \in Hls /\ (run[id] # None \/ late[id] # NoEvent)
                 THEN marked \cup {id} ELSE marked
  /\ \E done \in IF entry[id] = "active" /\ run[id] = "won" THEN BOOLEAN ELSE {FALSE} :
       user' = [user EXCEPT ![u].pc = "cwait", ![u].done = done,
                            ![u].found = (entry[id] # None)]
  /\ UNCHANGED <<row, run, level, lock, bus, budget, gone>> /\ UserFrame

\* Defect: an HLS removal waits for the strategy only.
CancelWait_Strategy(u) ==
  /\ user[u].pc = "cwait"
  /\ run[user[u].id] \notin Running
  /\ Goto(u, "centry")
  /\ UNCHANGED <<row, entry, run, level, marked, lock, bus, budget, gone>> /\ UserFrame

\* An HLS removal waits for the whole worker and crosses its event fence; the
\* other waits for the strategy, for at most a fixed time.
CancelWait(u) ==
  LET id == user[u].id IN
  /\ user[u].pc = "cwait"
  /\ id \in Hls => run[id] = None /\ late[id] = NoEvent
  /\ id \notin Hls => run[id] \notin Running
  /\ Goto(u, "centry")
  /\ UNCHANGED <<row, entry, run, level, marked, lock, bus, budget, gone>> /\ UserFrame

CancelEntry(u) ==
  LET id == user[u].id IN
  /\ user[u].pc = "centry"
  /\ user' = [user EXCEPT ![u].pc = "cpub", ![u].done = @ \/ row[id] = "completed",
                          ![u].found = @ \/ row[id] # None]
  /\ UNCHANGED <<row, entry, run, level, marked, lock, bus, budget, gone>> /\ UserFrame

\* An ID that neither the pool nor the store knew is treated as removed.
CancelPublish(u) ==
  LET id == user[u].id IN
  /\ user[u].pc = "cpub"
  /\ IF user[u].found THEN Publish(Event("removed", id, NoLevel, user[u].done))
     ELSE UNCHANGED <<bus, budget>>
  /\ lock' = lock \ {id}
  /\ gone' = gone \cup {id}
  /\ Return(u)
  /\ UNCHANGED <<row, entry, run, level, marked>> /\ UserFrame

User(u) ==
  \/ \E id \in Ids : PauseCall(u, id) \/ ResumeCall(u, id) \/ CancelCall(u, id)
  \/ PauseLook(u) \/ PausePublish(u)
  \/ Extract(u) \/ Hydrate(u) \/ ColdLook(u) \/ ColdLoad(u) \/ Add(u) \/ ResumePublish(u)
  \/ CancelPool(u) \/ CancelWait(u) \/ CancelEntry(u) \/ CancelPublish(u)

-----------------------------------------------------------------------------
(* The persistence worker (StartEventWorker): one event at a time, one store  *)
(* call per step. Only it changes the rows of accepted downloads.             *)

Step(st, ev, lvl) == pw' = [step |-> st, ev |-> ev, lvl |-> lvl]
Done == pw' = IdlePw
SetRow(id, status) == row' = [row EXCEPT ![id] = status]
PwFrame == UNCHANGED <<dest, pool, calls, phase, budget, ghost>>

Take(ev) ==
  /\ Up /\ pw.step = "idle" /\ bus # <<>> /\ ev = Head(bus)
  /\ bus' = Tail(bus)

\* These leave the store alone.
Skip(ev) ==
  /\ Take(ev)
  /\ \/ ev.type \in {"queued", "resumed"}
     \/ ev.type = "paused" /\ row[ev.id] = "completed"
     \/ ev.type = "paused" /\ ev.lvl = NoLevel /\ row[ev.id] = None
     \/ ev.type = "started" /\ row[ev.id] = None /\ ev.id \notin Hls
  /\ UNCHANGED <<row, detail, surge, final, pw>> /\ PwFrame

PersistStarted(ev) ==
  /\ Take(ev) /\ ev.type = "started"
  /\ SetRow(ev.id, "downloading")
  /\ UNCHANGED <<detail, surge, final, pw>> /\ PwFrame

\* Defect: the last event wins.
PersistPaused_LastWins(ev) ==
  /\ Take(ev) /\ ev.type = "paused" /\ row[ev.id] # None
  /\ SetRow(ev.id, "paused")
  /\ Step(IF ev.lvl = NoLevel THEN "load" ELSE "detail", ev, ev.lvl)
  /\ UNCHANGED <<detail, surge, final>> /\ PwFrame

\* A sparse pause reads the detail back and rewrites it; a full one brings it.
PersistPaused(ev) ==
  /\ Take(ev) /\ ev.type = "paused" /\ row[ev.id] # "completed"
  /\ ev.lvl = NoLevel => row[ev.id] # None
  /\ SetRow(ev.id, "paused")
  /\ Step(IF ev.lvl = NoLevel THEN "load" ELSE "detail", ev, ev.lvl)
  /\ UNCHANGED <<detail, surge, final>> /\ PwFrame

PersistError(ev) ==
  /\ Take(ev) /\ ev.type = "error"
  /\ SetRow(ev.id, "error")
  /\ IF ev.lvl = NoLevel THEN Done ELSE Step("detail", ev, ev.lvl)
  /\ UNCHANGED <<detail, surge, final>> /\ PwFrame

LoadDetail ==
  /\ pw.step = "load"
  /\ IF Saved(pw.ev.id) = NoLevel THEN Done ELSE Step("detail", pw.ev, Saved(pw.ev.id))
  /\ UNCHANGED <<disk, bus>> /\ PwFrame

WriteDetail ==
  /\ pw.step = "detail"
  /\ detail' = [detail EXCEPT ![pw.ev.id] = pw.lvl]
  /\ Done
  /\ UNCHANGED <<row, surge, final, bus>> /\ PwFrame

\* The working file is promoted before the completion is recorded. Without a
\* row there is no path to promote to, and the row is written as an error.
Promote(ev) ==
  LET name == dest[ev.id] IN
  /\ Take(ev) /\ ev.type = "complete"
  /\ \/ /\ row[ev.id] # None /\ surge[name] # None
        /\ surge' = [surge EXCEPT ![name] = None]
        /\ final' = [final EXCEPT ![name] = surge[name]]
        /\ Step("final", ev, NoLevel) /\ UNCHANGED row
     \/ /\ row[ev.id] # None /\ surge[name] = None /\ final[name] # None
        /\ Step("final", ev, NoLevel) /\ UNCHANGED <<row, surge, final>>
     \/ /\ (row[ev.id] = None) \/ (surge[name] = None /\ final[name] = None)
        /\ SetRow(ev.id, "error") /\ UNCHANGED <<surge, final, pw>>
  /\ UNCHANGED detail /\ PwFrame

RecordCompleted ==
  /\ pw.step = "final"
  /\ SetRow(pw.ev.id, "completed")
  /\ Step("gc", pw.ev, NoLevel)
  /\ UNCHANGED <<detail, surge, final, bus>> /\ PwFrame

DeleteDetail ==
  /\ pw.step = "gc"
  /\ detail' = [detail EXCEPT ![pw.ev.id] = NoLevel]
  /\ Done
  /\ UNCHANGED <<row, surge, final, bus>> /\ PwFrame

\* The metadata goes first, so that startup cannot bring the download back.
DeleteState(ev) ==
  /\ Take(ev) /\ ev.type = "removed"
  /\ SetRow(ev.id, None) /\ detail' = [detail EXCEPT ![ev.id] = NoLevel]
  /\ IF ev.done THEN UNCHANGED pw ELSE Step("files", ev, NoLevel)
  /\ UNCHANGED <<surge, final>> /\ PwFrame

RemoveFiles ==
  /\ pw.step = "files"
  /\ surge' = [surge EXCEPT ![dest[pw.ev.id]] = None]
  /\ Done
  /\ UNCHANGED <<row, detail, final, bus>> /\ PwFrame

Persist ==
  \/ \E i \in 1..Len(bus) :
       LET ev == bus[i] IN
       \/ Skip(ev) \/ PersistStarted(ev) \/ PersistPaused(ev) \/ PersistError(ev)
       \/ Promote(ev) \/ DeleteState(ev)
  \/ LoadDetail \/ WriteDetail \/ RecordCompleted \/ DeleteDetail \/ RemoveFiles

-----------------------------------------------------------------------------
(* A crash keeps the disk; startup runs two passes before anything else.      *)

Crash ==
  /\ Up /\ budget.crashes > 0
  /\ budget' = [budget EXCEPT !.crashes = @ - 1]
  /\ phase' = "normalise"
  /\ entry' = [id \in Ids |-> None] /\ run' = [id \in Ids |-> None]
  /\ level' = [id \in Ids |-> 0] /\ late' = [id \in Ids |-> NoEvent] /\ marked' = {}
  /\ lock' = {} /\ user' = [u \in Users |-> IdleUser]
  /\ enq' = [id \in Ids |-> IF enq[id] \in {"idle", "reserved", "locked"}
                             THEN "idle" ELSE "done"]
  /\ bus' = <<>> /\ pw' = IdlePw
  /\ gone' = {}
  /\ UNCHANGED <<disk, kept>>

NormalizeStaleDownloads ==
  /\ phase = "normalise" /\ phase' = "validate"
  /\ row' = [id \in Ids |-> IF row[id] = "downloading" THEN "paused" ELSE row[id]]
  /\ UNCHANGED <<detail, dest, surge, final, pool, calls, bus, pw, budget, ghost>>

\* Defect: only the files of rows that are checked are kept.
ValidateIntegrity_CheckedOnly ==
  LET lost(id) == row[id] \in {"paused", "queued"} /\ surge[dest[id]] = None
      expected == {dest[id] : id \in {i \in Ids : row[i] \in {"paused", "queued"}}}
  IN
  /\ phase = "validate" /\ phase' = "up"
  /\ row' = [id \in Ids |-> IF lost(id) THEN None ELSE row[id]]
  /\ surge' = [n \in Names |-> IF n \notin expected THEN None ELSE surge[n]]
  /\ detail' = [id \in Ids |-> IF row'[id] \in Unfinished THEN detail[id] ELSE NoLevel]
  /\ UNCHANGED <<dest, final, pool, calls, bus, pw, budget, ghost>>

\* A paused or queued row without its working file is dropped with its detail;
\* working files no unfinished row names are swept from the directories of the
\* rows; so are the details of missing and completed rows.
ValidateIntegrity ==
  LET lost(id) == row[id] \in {"paused", "queued"} /\ surge[dest[id]] = None
      expected == {dest[id] : id \in {i \in Ids : row[i] \in Unfinished}}
      swept == \E id \in Ids : row[id] # None
  IN
  /\ phase = "validate" /\ phase' = "up"
  /\ row' = [id \in Ids |-> IF lost(id) THEN None ELSE row[id]]
  /\ surge' = [n \in Names |-> IF swept /\ n \notin expected THEN None ELSE surge[n]]
  /\ detail' = [id \in Ids |-> IF row'[id] \in Unfinished THEN detail[id] ELSE NoLevel]
  /\ UNCHANGED <<dest, final, pool, calls, bus, pw, budget, ghost>>

Recover == NormalizeStaleDownloads \/ ValidateIntegrity

Enqueue(id) ==
  \/ Reserve(id) \/ LockEnqueue(id) \/ PersistQueued(id) \/ SeedAndAdd(id) \/ PublishQueued(id)

Next ==
  /\ \/ \E id \in Ids : Enqueue(id) \/ Run(id)
     \/ \E u \in Users : User(u)
     \/ Persist \/ Crash \/ Recover
  /\ UNCHANGED scenario

Spec == Init /\ [][Next]_vars

-----------------------------------------------------------------------------
(* Properties. *)

\* A download that was accepted and that nobody asked to remove is never lost:
\* its row stands with its working file, or its finished file does, also after
\* a crash at any point and the two recovery passes.
AcceptedSurvives ==
  \A id \in kept :
    \/ final[dest[id]] = id
    \/ row[id] # None /\ surge[dest[id]] = id

\* Nothing of the lifecycle is under way.
Rest ==
  /\ Up /\ bus = <<>> /\ pw = IdlePw
  /\ \A u \in Users : user[u].pc = "idle"
  /\ \A id \in Ids : run[id] = None /\ late[id] = NoEvent /\ enq[id] \in {"idle", "done"}

\* Once all events are applied, nothing brings a removed HLS download back: no
\* row, no checkpoint, no working file of its own. Only HLS has the fence that
\* makes a late error of the cancelled run impossible.
RemovedStaysGone ==
  Rest => \A id \in gone \cap Hls :
            /\ row[id] = None /\ detail[id] = NoLevel
            /\ surge[dest[id]] # id

\* Once all events are applied, the store has no less than the checkpoint an
\* HLS download was parked with, whatever older pauses and errors were still on
\* their way when it was saved.
CheckpointSettles ==
  Rest => \A id \in Hls \cap kept :
            entry[id] = "paused" /\ level[id] > 0 =>
              row[id] = "paused" /\ detail[id] \in level[id]..MaxLevel

\* Completion wins over every pause acknowledgment that comes after it, also
\* over the synthesized one of a download the pool does not know.
CompletionWins ==
  [][\A id \in Ids : row[id] = "completed" /\ Up => row'[id] # "paused"]_vars

=============================================================================
