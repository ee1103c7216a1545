----------------------------- MODULE HlsSegments -----------------------------
(***************************************************************************)
(* The HLS strategy (internal/surge/strategy/hls): one download that        *)
(* fetches the segments of a playlist with several workers and writes them  *)
(* to one .surge file in playlist order.                                    *)
(*                                                                          *)
(*   mount.go          seed -> files of the run                             *)
(*   segment_queue.go  leases; segment_worker.go, segment_retry.go,         *)
(*   worker_session.go one attempt; engine.go the workers and their end     *)
(*   reorder.go        the reorder window, spill.go its overflow file       *)
(*   manifest_refresh.go  new signed URIs when the old ones expire          *)
(*   downloader.go     the first checkpoint, pause, error and completion    *)
(*                                                                          *)
(* Two files live on disk: out, the .surge file, and arena, the spill file. *)
(* stored is the checkpoint of the state store. A crash keeps these three   *)
(* and nothing else. A segment is one cell of a file: only its position     *)
(* and whose bytes lie there matter. The initial segment, byte ranges, keys *)
(* and the decryption are left out.                                         *)
(***************************************************************************)
EXTENDS Naturals, FiniteSets, Sequences, FiniteSetsExt, Functions, TLC

CONSTANTS
  NSeg,        \* segments of the playlist
  Workers,     \* the worker slots
  PendingMax,  \* reorderPendingSegmentMax
  MaxRetries,  \* hlsMaxSegmentRetries
  Scenarios,   \* the budgets a behaviour may start with
  LateEvents   \* a stop's event may reach the store after the next run began

ASSUME HlsAssumption ==
  /\ NSeg \in Nat \ {0} /\ PendingMax \in Nat /\ MaxRetries \in Nat
  /\ IsFiniteSet(Workers) /\ Workers # {} /\ LateEvents \in BOOLEAN

Segs == 1..NSeg

VARIABLES
  out,      \* the cells of the .surge file
  arena,    \* the cells of the spill file
  there,    \* the spill file exists
  stored,   \* the checkpoint in the state store
  durable,  \* d.durable: the checkpoint the next run of this process starts from
  owe,      \* the checkpoint in an event not yet persisted
  mode,     \* idle, file, arena, run, done
  win,      \* ReorderWindow and the index of its spillArena
  queue,    \* segmentQueue
  task,     \* segmentTask: retries, refreshRequired, lastSeenRefreshGen
  wk,       \* hlsWorkerSession with its attempt
  eng,      \* segmentEngine and the run: its gates and its end
  url,      \* the manifest refresh, and which generation the server accepts
  prog,     \* VerifiedProgress
  budget    \* how often the environment may still act; slots, the workers allowed

disk == <<out, arena, there, stored>>
run == <<win, queue, task, wk, eng, prog>>
vars == <<disk, durable, owe, mode, run, url, budget>>

-----------------------------------------------------------------------------
(* Checkpoints. *)

Empty == [s \in {} |-> 0]
Ckpt(m, ledger, size) == [merged |-> m, ledger |-> ledger, size |-> size]
ZeroSeed == Ckpt(0, Empty, 0)
NoCkpt == Ckpt(NSeg + 1, Empty, 0)
Demote(c) == Ckpt(c.merged, Empty, 0)
Verified(c) == c.merged + Cardinality(DOMAIN c.ledger)

\* The i-th segment of a set in playlist order has i of them up to itself.
Inorder(ss) ==
  [i \in 1..Cardinality(ss) |-> CHOOSE s \in ss : Cardinality({t \in ss : t <= s}) = i]

Prefix(m) == [i \in 1..m |-> i]
Cut(f, n) == SubSeq(f, 1, IF n < Len(f) THEN n ELSE Len(f))

\* A checkpoint can be resumed from the files as they are: the prefix and, when
\* the spill file backs the declared size, every cell of the ledger.
True(c) ==
  /\ Cut(out, c.merged) = Prefix(c.merged) \/ Len(out) < c.merged
  /\ there /\ c.size > 0 /\ Len(arena) >= c.size =>
       \A s \in DOMAIN c.ledger : arena[c.ledger[s] + 1] = s

-----------------------------------------------------------------------------
(* The reorder window. *)

MergedPrefix == Ckpt(win.merged, Empty, 0)
Shut == [merged |-> 0, bits |-> {}, entries |-> Empty, tail |-> 0, pending |-> {},
         open |-> FALSE, fault |-> FALSE]

\* How many segments are contiguous at the frontier.
Contiguous(w) ==
  Min((Segs \cup {NSeg + 1}) \ (1..w.merged \cup w.pending \cup DOMAIN w.entries))
    - 1 - w.merged

Advanced(w, n) ==
  LET now == w.merged + 1 .. w.merged + n
  IN  [w EXCEPT !.merged = @ + n, !.bits = @ \cup now, !.pending = @ \ now,
                !.entries = [s \in DOMAIN @ \ now |-> @[s]]]

\* The next n segments behind the merged prefix: each one's own payload, or the
\* cell that the spill index names.
Appended(w, n) ==
  Cut(out, w.merged) \o
    [i \in 1..n |-> LET s == w.merged + i IN
       IF s \in DOMAIN w.entries THEN arena[w.entries[s] + 1] ELSE s]

Emptied(w, d) == w.entries # Empty /\ d.entries = Empty

\* Merge up to the gap, and truncate the arena with its last entry.
Drain(w, n) ==
  LET d == Advanced(w, n) IN
  /\ out' = Appended(w, n)
  /\ win' = IF Emptied(w, d) THEN [d EXCEPT !.tail = 0] ELSE d
  /\ arena' = IF Emptied(w, d) THEN << >> ELSE arena

\* A fault after k of n segments: a write that stops short leaves a dirty cell,
\* a truncation that fails leaves the file and its tail.
DrainFault(w, n) ==
  \E k \in 1..n :
    LET d == Advanced(w, k)
        cleared == k < n /\ Emptied(w, d)
    IN  /\ k = n => Emptied(w, d)
        /\ out' = IF k = n THEN Appended(w, k) ELSE Append(Appended(w, k), 0)
        /\ win' = [d EXCEPT !.fault = TRUE, !.tail = IF cleared THEN 0 ELSE @]
        /\ arena' = IF cleared THEN << >> ELSE arena

\* The spill file is created once; a file that exists is never taken over.
CanSpill == win.open \/ ~there

\* Defect: the tail is taken from the entries that are left.
Index_Live(ss) ==
  [s \in Range(ss) |-> Cardinality(DOMAIN win.entries) + (CHOOSE i \in DOMAIN ss : ss[i] = s) - 1]

\* The segments ss, appended in order at the confirmed tail.
Index(ss) == [s \in Range(ss) |-> win.tail + (CHOOSE i \in DOMAIN ss : ss[i] = s) - 1]
Indexed(ss) ==
  [s \in DOMAIN win.entries \cup Range(ss) |->
     IF s \in Range(ss) THEN Index(ss)[s] ELSE win.entries[s]]
Spill(ss) ==
  /\ arena' = Cut(arena, win.tail) \o ss
  /\ there' = TRUE
  /\ win' = [win EXCEPT !.entries = Indexed(ss), !.tail = @ + Len(ss),
                        !.bits = @ \cup Range(ss), !.pending = @ \ Range(ss),
                        !.open = TRUE]

-----------------------------------------------------------------------------
(* The run's bookkeeping. *)

Off == [pc |-> "off", seg |-> 0, stop |-> "none", drain |-> FALSE, cred |-> 0,
        err |-> "none"]
Parked == [Off EXCEPT !.pc = "pop"]
FreshTask == [retries |-> 0, mark |-> FALSE, seen |-> 0]
NoQueue == [ready |-> << >>, state |-> [s \in Segs |-> "ready"], left |-> 0,
            closed |-> FALSE]
NoEngine == [open |-> FALSE, fatal |-> FALSE, paused |-> FALSE, first |-> 0,
             base |-> 0, rec |-> NoCkpt]
NoUrl == [gen |-> 0, alive |-> 0, flight |-> FALSE, cool |-> FALSE]

Live == {w \in Workers : wk[w].pc # "off"}
Vacant == budget.slots - Cardinality(Live)
Stopped == eng.fatal \/ eng.paused
Lease(w) == wk[w].seg
Spend(b) == budget[b] > 0 /\ budget' = [budget EXCEPT ![b] = @ - 1]

DiskFrame == UNCHANGED <<out, arena, there, stored, durable, owe>>
RunFrame == DiskFrame /\ UNCHANGED <<mode, win>>

\* No run: the state a process has before and between its runs.
Quiet ==
  /\ win' = Shut /\ queue' = NoQueue /\ task' = [s \in Segs |-> FreshTask]
  /\ wk' = [w \in Workers |-> Off] /\ eng' = NoEngine /\ url' = NoUrl

Init ==
  /\ out = << >> /\ arena = << >> /\ there = FALSE
  /\ stored = ZeroSeed /\ durable = ZeroSeed /\ owe = NoCkpt
  /\ mode = "idle" /\ win = Shut /\ queue = NoQueue
  /\ task = [s \in Segs |-> FreshTask] /\ wk = [w \in Workers |-> Off]
  /\ eng = NoEngine /\ url = NoUrl /\ prog = 0
  /\ budget \in Scenarios

-----------------------------------------------------------------------------
(* mount.go: a run starts from what the pool kept or from what was stored. *)

Start ==
  /\ mode = "idle" /\ Spend("runs")
  /\ LateEvents \/ owe = NoCkpt
  /\ mode' = "file" /\ durable' \in {durable, stored}
  /\ UNCHANGED <<disk, owe, run, url>>

\* The prefix must be backed by the file; whatever lies behind it is cut off.
MountFile ==
  /\ mode = "file" /\ mode' = "arena"
  /\ IF Len(out) < durable.merged
       THEN durable' = ZeroSeed /\ out' = << >>
       ELSE out' = Cut(out, durable.merged) /\ UNCHANGED durable
  /\ UNCHANGED <<arena, there, stored, owe, run, url, budget>>

\* newSegmentEngine and start: one worker until the first checkpoint.
StartEngine(w, bits) ==
  /\ queue' = [ready |-> Inorder(Segs \ bits),
               state |-> [s \in Segs |-> IF s \in bits THEN "done" ELSE "ready"],
               left |-> Cardinality(Segs \ bits), closed |-> FALSE]
  /\ task' = [s \in Segs |-> FreshTask] /\ url' = NoUrl
  /\ \E v \in Workers : wk' = [x \in Workers |-> IF x = v /\ bits # Segs THEN Parked ELSE Off]
  /\ eng' = [NoEngine EXCEPT !.first = w.merged + 1,
                             !.base = w.merged + Cardinality(DOMAIN w.entries)]
  /\ prog' = w.merged + Cardinality(DOMAIN w.entries)
  /\ durable' = Ckpt(w.merged, w.entries, w.tail)

Opened(c) == [merged |-> c.merged, bits |-> 1..c.merged \cup DOMAIN c.ledger,
              entries |-> c.ledger, tail |-> c.size, pending |-> {},
              open |-> c.size > 0, fault |-> FALSE]

\* Defect: without a ledger the old spill file stays.
MountPrefix_KeepFile ==
  /\ mode = "arena" /\ durable.size = 0
  /\ mode' = "run" /\ win' = Opened(durable)
  /\ StartEngine(Opened(durable), 1..durable.merged)
  /\ UNCHANGED <<out, arena, there, stored, owe, budget>>

\* No ledger, or one the spill file does not back: the prefix alone, and the old
\* file is removed so that it can be created anew.
MountPrefix ==
  /\ mode = "arena"
  /\ durable.size = 0 \/ ~there \/ Len(arena) < durable.size
  /\ mode' = "run" /\ win' = Opened(Demote(durable))
  /\ StartEngine(Opened(Demote(durable)), 1..durable.merged)
  /\ arena' = << >> /\ there' = FALSE
  /\ UNCHANGED <<out, stored, owe, budget>>

\* The ledger is adopted, the file cut to the declared size, and an entry at the
\* frontier replayed before the window is used.
MountSpill ==
  /\ mode = "arena" /\ durable.size > 0 /\ there /\ Len(arena) >= durable.size
  /\ mode' = "run"
  /\ LET w == Opened(durable)
     IN  IF Contiguous(w) > 0 THEN Drain(w, Contiguous(w))
         ELSE win' = w /\ arena' = Cut(arena, durable.size) /\ UNCHANGED out
  /\ StartEngine(win', win'.bits)
  /\ UNCHANGED <<there, stored, owe, budget>>

-----------------------------------------------------------------------------
(* The queue. Each operator gives the queue after its call. *)

Closed(q) == [q EXCEPT !.closed = TRUE]

\* Defect: the state changes, and the list does not.
Requeue_Lost(q, s) == [q EXCEPT !.state[s] = "ready"]

\* Ends the lease; back to the head, once.
Requeue(q, s) ==
  IF q.state[s] # "leased" THEN q
  ELSE [q EXCEPT !.state[s] = "ready", !.ready = IF q.closed THEN @ ELSE <<s>> \o @]

\* finish and maybeComplete: the last one closes the queue.
Finish(q, s) ==
  IF q.state[s] # "leased" THEN q
  ELSE [q EXCEPT !.state[s] = "done", !.left = @ - 1, !.closed = @ \/ q.left = 1]

\* latchFatal: seals, closes the queue and cancels.
Fatal == eng' = [eng EXCEPT !.fatal = TRUE]

Spawned(ws) == [w \in Workers |-> IF w \in ws THEN Parked ELSE wk[w]]

-----------------------------------------------------------------------------
(* A worker: pop -> try -> (ref ->) net -> gate -> commit, and bad or first. *)

Goto(w, pc) == wk' = [wk EXCEPT ![w].pc = pc]
Exit(w) == wk' = [wk EXCEPT ![w] = Off]
\* At the top of the worker's loop, without a lease.
Loop(w) == wk' = [wk EXCEPT ![w] = [Parked EXCEPT !.drain = wk[w].drain]]

\* The attempt's context is cancelled.
Dead(w) == wk[w].stop # "none" \/ wk[w].drain \/ Stopped

Pop(w) ==
  /\ wk[w].pc = "pop" /\ RunFrame /\ UNCHANGED <<task, eng, url, prog, budget>>
  /\ \/ (wk[w].drain \/ Stopped \/ queue.closed) /\ Exit(w) /\ UNCHANGED queue
     \/ /\ ~wk[w].drain /\ ~Stopped /\ ~queue.closed /\ queue.ready # << >>
        /\ queue' = [queue EXCEPT !.ready = Tail(@), !.state[Head(queue.ready)] = "leased"]
        /\ wk' = [wk EXCEPT ![w].pc = "try", ![w].seg = Head(queue.ready)]

\* Before each attempt: a drained worker gives the segment back, a stopped one
\* leaves with it.
GiveBack(w) ==
  /\ wk[w].pc \in {"try", "wait"} /\ (wk[w].drain \/ Stopped)
  /\ IF wk[w].drain THEN queue' = Requeue(queue, Lease(w)) /\ Loop(w)
                    ELSE UNCHANGED queue /\ Exit(w)
  /\ RunFrame /\ UNCHANGED <<task, eng, url, prog, budget>>

Backoff(w) ==
  /\ wk[w].pc = "wait" /\ ~wk[w].drain /\ ~Stopped /\ Goto(w, "try")
  /\ RunFrame /\ UNCHANGED <<queue, task, eng, url, prog, budget>>

\* attemptURISnapshot: the URI in use is that of the current generation.
Request(w, t) ==
  /\ Goto(w, "net") /\ task' = [task EXCEPT ![Lease(w)] = [t EXCEPT !.seen = url.gen]]

\* Defect: a newer generation does not satisfy the mark.
Try_Unsatisfied(w) ==
  /\ wk[w].pc = "try" /\ ~wk[w].drain /\ ~Stopped
  /\ LET t == task[Lease(w)] IN
     \/ /\ ~t.mark \/ (~url.flight /\ url.cool)
        /\ Request(w, t) /\ UNCHANGED url
     \/ /\ t.mark /\ (url.flight \/ ~url.cool)
        /\ url' = [url EXCEPT !.flight = TRUE]
        /\ Goto(w, "ref") /\ UNCHANGED task
  /\ RunFrame /\ UNCHANGED <<queue, eng, prog, budget>>

\* Publish the attempt and consume the refresh mark: a newer generation satisfies
\* it, a flight is joined or started, and in the cooldown the old URI is used.
Try(w) ==
  /\ wk[w].pc = "try" /\ ~wk[w].drain /\ ~Stopped
  /\ LET t == task[Lease(w)]
         owed == t.mark /\ url.gen <= t.seen
     IN
     \/ /\ ~owed \/ (~url.flight /\ url.cool)
        /\ Request(w, [t EXCEPT !.mark = owed]) /\ UNCHANGED url
     \/ /\ owed /\ (url.flight \/ ~url.cool)
        /\ url' = [url EXCEPT !.flight = TRUE]
        /\ Goto(w, "ref") /\ UNCHANGED task
  /\ RunFrame /\ UNCHANGED <<queue, eng, prog, budget>>

RefreshWaited(w) ==
  /\ wk[w].pc = "ref" /\ (~url.flight \/ Dead(w))
  /\ Request(w, task[Lease(w)])
  /\ RunFrame /\ UNCHANGED <<queue, eng, url, prog, budget>>

\* The body is complete and credited to the progress.
Fetched(w) ==
  /\ wk[w].pc = "net" /\ task[Lease(w)].seen >= url.alive
  /\ wk' = [wk EXCEPT ![w].pc = "gate", ![w].cred = 1] /\ prog' = prog + 1
  /\ RunFrame /\ UNCHANGED <<queue, task, eng, url, budget>>

Bad(w, err) == wk' = [wk EXCEPT ![w].pc = "bad", ![w].err = err]

\* Or it is not: cancelled, refused as expired, denied for good, cut off.
NotFetched(w) ==
  /\ wk[w].pc = "net"
  /\ \/ Dead(w) /\ Bad(w, "cancel") /\ UNCHANGED budget
     \/ task[Lease(w)].seen < url.alive /\ Bad(w, "refused") /\ UNCHANGED budget
     \/ \E err \in {"denied", "transport"} : Bad(w, err) /\ Spend("errors")
  /\ RunFrame /\ UNCHANGED <<queue, task, eng, url, prog>>

\* enterCommit: a stop recorded before the gate wins over the commit. The
\* context is looked at before the gate, and may be cancelled in between.
Gate(w) ==
  /\ wk[w].pc = "gate"
  /\ \/ Dead(w) /\ Bad(w, "cancel")
     \/ wk[w].stop = "none" /\ Goto(w, "commit")
  /\ RunFrame /\ UNCHANGED <<queue, task, eng, url, prog, budget>>

-----------------------------------------------------------------------------
(* Ingest, and the settlement of an accepted segment. *)

\* onAccepted's gate: the first pending segment, appended directly.
Settled(w) ==
  IF Lease(w) = eng.first /\ ~eng.open
    THEN wk' = [wk EXCEPT ![w].pc = "first", ![w].cred = 0, ![w].stop = "none"]
    ELSE Loop(w)

CommitFrame == UNCHANGED <<stored, durable, owe, mode, task, url, prog>>
NoFileChange == UNCHANGED <<out, arena, there>>

\* A latched fault refuses everything.
Refused(w) ==
  /\ wk[w].pc = "commit" /\ CommitFrame /\ NoFileChange
  /\ win.fault /\ Bad(w, "io")
  /\ UNCHANGED <<win, queue, eng, budget>>

Frontier(w) == Lease(w) = win.merged + 1

Direct(w) ==
  /\ wk[w].pc = "commit" /\ ~win.fault /\ Frontier(w)
  /\ LET d == [win EXCEPT !.pending = @ \cup {Lease(w)}] IN Drain(d, Contiguous(d))
  /\ queue' = Finish(queue, Lease(w)) /\ Settled(w)
  /\ CommitFrame /\ UNCHANGED <<there, eng, budget>>

\* The append itself fails: nothing was accepted.
DirectFails(w) ==
  /\ wk[w].pc = "commit" /\ ~win.fault /\ Frontier(w) /\ Spend("faults")
  /\ out' = Append(out, 0) /\ win' = [win EXCEPT !.fault = TRUE] /\ Bad(w, "io")
  /\ CommitFrame /\ UNCHANGED <<arena, there, queue, eng>>

\* Draining behind it fails: accepted, and the error is fatal.
DrainFails(w) ==
  /\ wk[w].pc = "commit" /\ ~win.fault /\ Frontier(w) /\ Spend("faults")
  /\ LET d == [win EXCEPT !.pending = @ \cup {Lease(w)}] IN DrainFault(d, Contiguous(d))
  /\ queue' = Closed(Finish(queue, Lease(w))) /\ Exit(w) /\ Fatal
  /\ CommitFrame /\ UNCHANGED there

Buffered(w) ==
  /\ wk[w].pc = "commit" /\ ~win.fault /\ ~Frontier(w)
  /\ Cardinality(win.pending) < PendingMax
  /\ win' = [win EXCEPT !.pending = @ \cup {Lease(w)}]
  /\ queue' = Finish(queue, Lease(w)) /\ Settled(w)
  /\ CommitFrame /\ NoFileChange /\ UNCHANGED <<eng, budget>>

Overflow(w) ==
  wk[w].pc = "commit" /\ ~win.fault /\ ~Frontier(w) /\ Cardinality(win.pending) >= PendingMax

SpillIt(w) ==
  /\ Overflow(w) /\ CanSpill /\ Spill(<<Lease(w)>>)
  /\ queue' = Finish(queue, Lease(w)) /\ Settled(w)
  /\ CommitFrame /\ UNCHANGED <<out, eng, budget>>

SpillFails(w) ==
  /\ Overflow(w)
  /\ IF CanSpill
       THEN Spend("faults") /\ there' = TRUE /\ arena' = Cut(arena, win.tail) \o <<0>>
       ELSE UNCHANGED <<there, arena, budget>>
  /\ win' = [win EXCEPT !.fault = TRUE, !.open = @ \/ CanSpill] /\ Bad(w, "io")
  /\ CommitFrame /\ UNCHANGED <<out, queue, eng>>

Commit(w) ==
  \/ Refused(w) \/ Direct(w) \/ DirectFails(w) \/ DrainFails(w) \/ Buffered(w)
  \/ SpillIt(w) \/ SpillFails(w)

\* How many more workers the work left can feed.
Feedable == IF queue.left > Cardinality(Live) THEN queue.left - Cardinality(Live) ELSE 0

\* Defect: the workers fan out before the first segment is stored.
FirstCheckpoint_Unsaved(w) ==
  /\ wk[w].pc = "first"
  /\ durable' = MergedPrefix /\ eng' = [eng EXCEPT !.open = TRUE]
  /\ \E ws \in SUBSET (Workers \ Live) :
       /\ Cardinality(ws) = Min({Feedable, Vacant})
       /\ wk' = [Spawned(ws) EXCEPT ![w] = [Parked EXCEPT !.drain = wk[w].drain]]
  /\ UNCHANGED <<out, arena, there, stored, owe, mode, win, queue, task, url, prog, budget>>

\* onSegmentAccepted: the prefix is synced and stored, and only then the gate
\* opens for the other workers.
FirstCheckpoint(w) ==
  /\ wk[w].pc = "first"
  /\ stored' = MergedPrefix /\ durable' = MergedPrefix
  /\ eng' = [eng EXCEPT !.open = TRUE]
  /\ \E ws \in SUBSET (Workers \ Live) :
       /\ Cardinality(ws) = IF Stopped THEN 0 ELSE Min({Feedable, Vacant})
       /\ wk' = [Spawned(ws) EXCEPT ![w] = [Parked EXCEPT !.drain = wk[w].drain]]
  /\ UNCHANGED <<out, arena, there, owe, mode, win, queue, task, url, prog, budget>>

\* The sync or the save fails: never logged and fanned out.
FirstFails(w) ==
  /\ wk[w].pc = "first" /\ Spend("faults")
  /\ Fatal /\ queue' = Closed(queue) /\ Loop(w)
  /\ RunFrame /\ UNCHANGED <<task, url, prog>>

-----------------------------------------------------------------------------
(* settleOutcome of an attempt that was not accepted. *)

\* Defect: a stopped attempt keeps its credit.
Uncredited_StopKeeps(w) == IF wk[w].stop = "none" THEN prog - wk[w].cred ELSE prog

\* The credit of an attempt is taken back once.
Uncredited(w) == prog - wk[w].cred

Settle(w) ==
  /\ wk[w].pc = "bad" /\ prog' = Uncredited(w)
  /\ LET s == Lease(w)
         err == wk[w].err
         stop == wk[w].stop
         marked == err = "refused" /\ stop = "none"
         lethal == err \in {"io", "denied"}
         free == stop \in {"kill", "drain"}
         spent == task[s].retries = MaxRetries \/ (marked /\ ~eng.open)
         die == lethal \/ (~Stopped /\ ~free /\ spent)
     IN
     \/ /\ die /\ Exit(w) /\ Fatal /\ queue' = Closed(queue) /\ UNCHANGED task
     \/ /\ ~die /\ Stopped /\ Exit(w) /\ UNCHANGED <<queue, task, eng>>
     \/ /\ ~die /\ ~Stopped /\ free
        /\ Loop(w) /\ queue' = Requeue(queue, s) /\ UNCHANGED <<task, eng>>
     \/ /\ ~die /\ ~Stopped /\ ~free
        /\ wk' = [wk EXCEPT ![w] = [Off EXCEPT !.pc = "wait", !.seg = s, !.drain = wk[w].drain]]
        /\ task' = [task EXCEPT ![s].retries = @ + 1, ![s].mark = @ \/ marked]
        /\ UNCHANGED <<queue, eng>>
  /\ RunFrame /\ UNCHANGED <<url, budget>>

-----------------------------------------------------------------------------
(* Control from outside: health watchdog, smart threads, pause. *)

Interruptible(w) == wk[w].pc \in {"ref", "net", "gate", "bad"}

Kill(w) ==
  /\ Interruptible(w) /\ Spend("kills")
  /\ wk' = [wk EXCEPT ![w].stop = "kill"]
  /\ RunFrame /\ UNCHANGED <<queue, task, eng, url, prog>>

Stall(w) ==
  /\ wk[w].pc = "net" /\ Spend("kills")
  /\ wk' = [wk EXCEPT ![w].stop = "stall"]
  /\ RunFrame /\ UNCHANGED <<queue, task, eng, url, prog>>

\* The last worker is refused, but the count is taken before the mark is set: of
\* two controllers each may see the worker the other is about to drain.
DrainWorker(w) ==
  /\ w \in Live /\ ~wk[w].drain /\ Cardinality(Live) > 1
  /\ Spend("drains")
  /\ wk' = [wk EXCEPT ![w].drain = TRUE,
                      ![w].stop = IF Interruptible(w) /\ @ = "none" THEN "drain" ELSE @]
  /\ RunFrame /\ UNCHANGED <<queue, task, eng, url, prog>>

\* ScaleWorkers upwards, and the control loop's respawn of a run without workers.
Spawn ==
  /\ mode = "run" /\ ~Stopped /\ queue.left > 0 /\ Vacant > 0
  /\ \/ eng.open /\ Feedable > 0 /\ Live # {} /\ Spend("drains")
     \/ Live = {} /\ UNCHANGED budget
  /\ \E w \in Workers \ Live : wk' = Spawned({w})
  /\ RunFrame /\ UNCHANGED <<queue, task, eng, url, prog>>

Pause ==
  /\ mode = "run" /\ ~eng.paused /\ Spend("pauses")
  /\ eng' = [eng EXCEPT !.paused = TRUE]
  /\ RunFrame /\ UNCHANGED <<queue, task, wk, url, prog>>

-----------------------------------------------------------------------------
(* manifest_refresh.go: one shared flight. *)

\* The server stops accepting the URIs now in use.
Expire ==
  /\ mode = "run" /\ url.alive = url.gen /\ Spend("expiries")
  /\ url' = [url EXCEPT !.alive = @ + 1]
  /\ RunFrame /\ UNCHANGED <<queue, task, wk, eng, prog>>

\* adoptRefreshURIs clears the marks; what each task's last request used stays.
Adopt == task' = [s \in Segs |-> [task[s] EXCEPT !.mark = FALSE]]

Landed == [url EXCEPT !.flight = FALSE, !.cool = TRUE]

\* A flight brings a new generation, fails for now, or finds another video.
Refresh ==
  /\ url.flight
  /\ \/ ~Stopped /\ Adopt /\ url' = [Landed EXCEPT !.gen = @ + 1] /\ UNCHANGED <<queue, eng, budget>>
     \/ url' = Landed /\ UNCHANGED <<queue, task, eng, budget>>
     \/ /\ Spend("errors") /\ Fatal /\ queue' = Closed(queue)
        /\ url' = Landed /\ UNCHANGED task
  /\ RunFrame /\ UNCHANGED <<wk, prog>>

CoolDown ==
  /\ url.cool /\ ~url.flight /\ url' = [url EXCEPT !.cool = FALSE]
  /\ RunFrame /\ UNCHANGED <<queue, task, wk, eng, prog, budget>>

-----------------------------------------------------------------------------
(* wait and settleRun: every worker and the refresh flight were joined. *)

Joined == mode = "run" /\ Live = {} /\ ~url.flight

\* finishPhysical.
Complete ==
  /\ Joined /\ ~Stopped /\ queue.left = 0
  /\ IF win.merged = NSeg /\ Len(out) = NSeg
       THEN /\ mode' = "done" /\ durable' = MergedPrefix
            /\ arena' = << >> /\ there' = FALSE /\ prog' = NSeg
       ELSE mode' = "broken" /\ UNCHANGED <<durable, arena, there, prog>>
  /\ Quiet /\ UNCHANGED <<out, stored, owe, budget>>

\* Nothing of a new download was provable before it stopped.
Unproven == ~eng.open /\ eng.base = 0

StopUnproven ==
  /\ Joined /\ Stopped /\ Unproven
  /\ mode' = "idle" /\ durable' = ZeroSeed /\ prog' = 0
  /\ Quiet /\ UNCHANGED <<disk, owe, budget>>

\* captureStoppedCheckpoint: everything flushed to the arena, or else the merged
\* prefix, or else the last durable prefix. The window is closed afterwards.
Keep(c) == eng' = [eng EXCEPT !.rec = c] /\ prog' = Verified(c)

CaptureAll ==
  /\ ~win.fault
  /\ IF win.pending = {} THEN UNCHANGED <<win, arena, there>>
     ELSE CanSpill /\ Spill(Inorder(win.pending))
  /\ Keep(Ckpt(win'.merged, win'.entries, win'.tail))
  /\ UNCHANGED <<out, budget>>

CapturePrefix ==
  /\ IF win.fault \/ ~CanSpill
       THEN UNCHANGED <<win, arena, there, budget>>
       ELSE /\ Spend("faults")
            /\ \E k \in 0..Cardinality(win.pending) :
                 Spill(SubSeq(Inorder(win.pending), 1, k))
  /\ Keep(MergedPrefix)
  /\ UNCHANGED out

CaptureOld ==
  /\ Spend("faults") /\ Keep(Demote(durable))
  /\ UNCHANGED <<out, win, arena, there>>

Capture ==
  /\ Joined /\ Stopped /\ ~Unproven /\ eng.rec = NoCkpt
  /\ CaptureAll \/ CapturePrefix \/ CaptureOld
  /\ mode' = "save"
  /\ UNCHANGED <<stored, durable, owe, queue, task, wk, url>>

\* The checkpoint is stored, by the scheduler inside its claim for a pause and by
\* the run itself for an error, and goes out with the event as well.
Save ==
  /\ mode = "save" /\ mode' = "idle"
  /\ stored' = eng.rec /\ durable' = eng.rec /\ owe' = eng.rec
  /\ Quiet /\ UNCHANGED <<out, arena, there, prog, budget>>

SaveFails ==
  /\ mode = "save" /\ mode' = "idle" /\ Spend("faults")
  /\ durable' = IF eng.paused THEN eng.rec ELSE Demote(durable)
  /\ owe' = IF eng.paused THEN eng.rec ELSE owe
  /\ prog' = Verified(durable')
  /\ Quiet /\ UNCHANGED disk

\* The lifecycle's event worker stores the checkpoint of the event.
PersistEvent ==
  /\ owe # NoCkpt /\ stored' = owe /\ owe' = NoCkpt
  /\ UNCHANGED <<out, arena, there, durable, mode, run, url, budget>>

\* The process dies, and the next one reads the store.
Crash ==
  /\ Spend("crashes") /\ mode' = "idle"
  /\ durable' = stored /\ owe' = NoCkpt /\ prog' = Verified(stored)
  /\ Quiet /\ UNCHANGED disk

Worker(w) ==
  \/ Pop(w) \/ GiveBack(w) \/ Backoff(w) \/ Try(w) \/ RefreshWaited(w)
  \/ Fetched(w) \/ NotFetched(w) \/ Gate(w) \/ Commit(w)
  \/ FirstCheckpoint(w) \/ FirstFails(w) \/ Settle(w)
Control(w) == Kill(w) \/ Stall(w) \/ DrainWorker(w)
Mount == Start \/ MountFile \/ MountPrefix \/ MountSpill
End == Complete \/ StopUnproven \/ Capture \/ Save \/ SaveFails

Next ==
  \/ Mount \/ End \/ Spawn \/ Pause \/ Expire \/ Refresh \/ CoolDown
  \/ PersistEvent \/ Crash
  \/ \E w \in Workers : Worker(w) \/ Control(w)

Spec == Init /\ [][Next]_vars

-----------------------------------------------------------------------------
(* Properties. *)

IsCheckpoint(c) ==
  /\ c.merged \in 0..NSeg + 1 /\ c.size \in 0..NSeg
  /\ DOMAIN c.ledger \subseteq Segs /\ Range(c.ledger) \subseteq 0..NSeg

TypeOK ==
  /\ out \in Seq(0..NSeg) /\ arena \in Seq(0..NSeg) /\ there \in BOOLEAN
  /\ \A c \in {stored, durable, owe} : IsCheckpoint(c)
  /\ mode \in {"idle", "file", "arena", "run", "save", "done", "broken"}
  /\ queue.left \in 0..NSeg /\ prog \in 0..2 * NSeg

\* The checkpoint in the store, and the one the pool would resume from, are true
\* of the two files whenever the process may die or the next run begin: a ledger
\* whose cells were written over since would put foreign bytes into the video
\* without any check noticing (captureStoppedCheckpoint, adopt, mount).
CheckpointIsTrue == True(stored) /\ (mode \in {"idle", "file", "arena"} => True(durable))

\* The .surge file begins with the merged prefix in playlist order, and a queue
\* that was settled to the last segment leaves exactly the whole video behind:
\* nothing stays buffered or spilled (finishPhysical's contract error).
VideoInOrder ==
  /\ mode = "run" => Cut(out, win.merged) = Prefix(win.merged)
  /\ mode = "done" => out = Prefix(NSeg)
  /\ mode # "broken"

\* While the engine runs, each segment is queued once, leased to one worker, or
\* settled and in the window: a kill, a drain, a stall or a respawn loses none,
\* so idle workers of an open queue never wait for a segment nobody has.
SegmentsAccounted ==
  mode = "run" /\ ~Stopped =>
    LET is(x) == {s \in Segs : queue.state[s] = x} IN
    /\ Range(queue.ready) = is("ready") /\ Len(queue.ready) = Cardinality(is("ready"))
    /\ \A s \in is("leased") : Cardinality({w \in Live : Lease(w) = s /\ wk[w].pc # "first"}) = 1
    /\ is("done") = win.bits \cup win.pending
    /\ queue.left = Cardinality(Segs \ is("done"))
    /\ queue.left = 0 <=> (queue.closed \/ is("done") = Segs)

\* The progress shows the segments the window holds and the bodies not settled
\* yet: what a stopped or failed attempt was credited with is taken back once.
CreditIsExact ==
  mode = "run" =>
    prog = win.merged + Cardinality(DOMAIN win.entries) + Cardinality(win.pending)
             + Cardinality({w \in Workers : wk[w].cred = 1})

\* A run never finds a spill file that it can neither adopt nor create: the first
\* overflow would end the download (append's O_EXCL).
SpillStaysUsable == mode \in {"run", "save"} => CanSpill

\* The manifest is fetched again only if the URIs now in use have expired: a late
\* refusal of an older generation starts no second refresh.
RefreshOnRefusal ==
  [][~url.flight /\ url'.flight => url.alive > url.gen]_vars

=============================================================================
