-------------------------- MODULE ConcurrentRanges --------------------------
(***************************************************************************)
(* The byte ranges of one multi-connection download                        *)
(* (src/internal/surge/strategy/concurrent): workers pop ranges from the   *)
(* TaskQueue, read, write and count them; the balancer steals half of a    *)
(* busy worker's range or lets an idle worker race it (a hedge); health    *)
(* checks and controllers cancel an attempt or drain a worker; the         *)
(* completion monitor ends the run on VerifiedProgress; a pause or a fatal *)
(* error saves what is left, and a later run goes on from it.              *)
(*                                                                         *)
(* Bytes are numbers, a range is [off, end).  One turn of downloadTask's   *)
(* read loop is five steps, one per access to the offsets it shares with   *)
(* the balancer: read, write, count, clamp, publish.  `disk' is the set of *)
(* bytes WriteAt has stored; the program has no such variable, and every   *)
(* question below compares it with what the program keeps.                 *)
(***************************************************************************)
EXTENDS Naturals, Sequences, FiniteSets, FiniteSetsExt, Functions, SequencesExt

CONSTANTS
  Workers,      \* worker goroutines of a run
  Size,         \* bytes of the file
  ChunkSize,    \* bytes of a bitmap chunk (actualChunkSize)
  Buffer,       \* bytes of a worker's buffer
  TailChunk,    \* per-worker rest below which the tail begins (MinChunkSize)
  MinChunk,     \* smallest half StealWork hands out (MinChunkDynamicFloor)
  MaxHedge,     \* HedgeWork takes only a rest below it (MaxHedgeChunk)
  MaxRetries,   \* attempts a worker makes at one task (GetMaxTaskRetries)
  MaxHedges,    \* bound: SharedMaxOffset cells allocated
  MaxFaults,    \* bound: network errors, full disks, cancelled attempts
  MaxDrains,    \* bound: DrainWorker calls
  MaxSaves,     \* bound: runs that end in a saved record
  LeaveOne,     \* controllers never drain the last worker
  Torn          \* the balancer may act on a worker that is between two of
                \* its accesses to CurrentOffset, StopAt, SharedMaxOffset or
                \* activeTasks (see Settled)

ASSUME RangesAssumption ==
  /\ {Size, ChunkSize, Buffer, TailChunk, MinChunk, MaxHedge, MaxRetries} \subseteq Nat \ {0}
  /\ {MaxHedges, MaxFaults, MaxDrains, MaxSaves} \subseteq Nat
  /\ {LeaveOne, Torn} \subseteq BOOLEAN
  /\ IsFiniteSet(Workers) /\ Workers # {}

VARIABLES
  disk,     \* bytes stored by WriteAt
  prog,     \* chunkProgress of the bitmap
  queue,    \* TaskQueue.tasks
  closed,   \* TaskQueue.done
  shared,   \* the SharedMaxOffset cells, in order of allocation
  wk,       \* worker -> its task, its ActiveTask and its place in the code
  drains,   \* drainingWorkers
  bal,      \* the balancer
  ctx,      \* downloadCtx is cancelled
  why,      \* "run", "pause" or "error": what cancelled it
  stash,    \* abandonedRemaining
  phase,    \* "live", "done", "saved"
  saved,    \* the tasks and the completed chunks of the record
  left      \* what is left of the bounds

vars == <<disk, prog, queue, closed, shared, wk, drains, bal, ctx, why, stash,
          phase, saved, left>>

-----------------------------------------------------------------------------
(* Ranges.                                                                 *)

File == 0 .. Size - 1
Offsets == 0 .. Size
Chunks == 0 .. (Size - 1) \div ChunkSize
ChunkBytes(c) == {b \in File : b \div ChunkSize = c}

Lesser(a, b) == IF a < b THEN a ELSE b
Greater(a, b) == IF a < b THEN b ELSE a

Task(off, end, ptr) == [off |-> off, end |-> end, ptr |-> ptr]
BytesOf(t) == {b \in File : t.off <= b /\ b < t.end}
BytesOfAll(ts) == UNION {BytesOf(t) : t \in ts}

\* The maximal runs of a set of bytes, as tasks without a shared offset.
Runs(bytes) ==
  {t \in [off : File, end : Offsets, ptr : {0}] :
     /\ t.off < t.end /\ t.off .. (t.end - 1) \subseteq bytes
     /\ t.off = 0 \/ t.off - 1 \notin bytes
     /\ t.end \notin bytes}

\* The queue that holds a set of tasks in the order of their offsets.
InOrder(ts) ==
  {q \in [1 .. Cardinality(ts) -> ts] :
     /\ ToSet(q) = ts
     /\ \A j, k \in DOMAIN q : j < k => q[j].off <= q[k].off}

\* VerifiedProgress: every increment of a chunk is added to it.
VP == SumFunction(prog)
Whole == VP >= Size

\* UpdateChunkStatus(ChunkCompleted) over [off, end): a chunk never counts
\* more than it holds.
UpdateChunkStatus(off, end) ==
  [c \in Chunks |->
     Lesser(Cardinality(ChunkBytes(c)),
            prog[c] + Cardinality(ChunkBytes(c) \cap BytesOf(Task(off, end, 0))))]

\* RecalculateProgress: all but the remaining tasks, and a chunk the bitmap
\* calls completed in full.
RecalculateProgress(tasks, complete) ==
  [c \in Chunks |->
     Cardinality(IF c \in complete THEN ChunkBytes(c)
                 ELSE ChunkBytes(c) \ BytesOfAll(tasks))]

-----------------------------------------------------------------------------
(* Workers.  pc: "top" (loop top), "pop" (blocked in Pop), "start" (between *)
(* attempts), "read" .. "publish" (downloadTask), "ended" (it returned),    *)
(* "requeued" (residual pushed, still in activeTasks), "residual" (deleted, *)
(* residual not yet pushed), "gone".                                        *)

Loop == {"read", "write", "count", "clamp", "publish"}
Mapped == {"start", "ended", "requeued"} \cup Loop

Parked == [pc |-> "top", off |-> 0, end |-> 0, cur |-> 0, stop |-> 0, ptr |-> 0,
           hedged |-> FALSE, at |-> 0, n |-> 0, fresh |-> 0, killed |-> FALSE,
           draining |-> FALSE, tries |-> 0, res |-> "none"]

Active == {i \in Workers : wk[i].pc \in Mapped}
Blocked == {i \in Workers : wk[i].pc = "pop" /\ queue = <<>> /\ ~closed}

\* currentOffset
CurrentOffset(i) ==
  IF wk[i].ptr = 0 THEN wk[i].cur ELSE Greater(wk[i].cur, shared[wk[i].ptr])

RemainingBytes(i) ==
  IF CurrentOffset(i) >= wk[i].stop THEN 0 ELSE wk[i].stop - CurrentOffset(i)

\* RemainingTask, its end cut to the worker's own task.
Rest(i) == Task(CurrentOffset(i), Lesser(wk[i].stop, wk[i].end), wk[i].ptr)
Residual(i) == {t \in {Rest(i)} : t.off < t.end}

\* Defect: a cancelled worker leaves the map without giving its range back.
Requeue_Dropped(i) == <<>>
\* Push of the residual: releaseActiveOnCancel, the health-cancel path and the
\* exhausted-retries path.
Requeue(i) == IF Residual(i) = {} THEN <<>> ELSE <<Rest(i)>>

\* Worker i is done with its task.
Leave(i, pc) == wk' = [wk EXCEPT ![i] = [Parked EXCEPT !.pc = pc]]
End(i, res) == wk' = [wk EXCEPT ![i].pc = "ended", ![i].res = res]
Spend(b) == left[b] > 0 /\ left' = [left EXCEPT ![b] = @ - 1]

\* activeMu is free: StealWork holds it from its scan to its push, HedgeAll for
\* its whole pass.
MuFree == bal.pc \notin {"shrink", "push", "sweep"}

Resting == [pc |-> "off", victim |-> {}, split |-> 0, cur |-> 0, end |-> 0, sweep |-> FALSE]

NewRun(tasks, progress) ==
  /\ prog' = progress
  /\ queue' \in InOrder(tasks)
  /\ closed' = FALSE
  /\ shared' = <<>>
  /\ wk' = [i \in Workers |-> Parked]
  /\ drains' = {}
  /\ bal' = Resting
  /\ ctx' = FALSE
  /\ why' = "run"
  /\ stash' = {}
  /\ phase' = "live"

\* createInitialTasks: one range per connection as long as there are bytes, the
\* last one takes the rest.
InitialTasks ==
  LET conns == Cardinality(Workers)
      share == Greater(1, Size \div conns)
  IN  {Task(k * share, IF k = conns - 1 THEN Size ELSE (k + 1) * share, 0) :
         k \in {j \in 0 .. conns - 1 : j * share < Size}}

Init ==
  /\ disk = {}
  /\ prog = [c \in Chunks |-> 0]
  /\ queue \in InOrder(InitialTasks)
  /\ closed = FALSE
  /\ shared = <<>>
  /\ wk = [i \in Workers |-> Parked]
  /\ drains = {}
  /\ bal = Resting
  /\ ctx = FALSE
  /\ why = "run"
  /\ stash = {}
  /\ phase = "live"
  /\ saved = [tasks |-> {}, complete |-> {}]
  /\ left = [hedge |-> MaxHedges, fault |-> MaxFaults, drain |-> MaxDrains,
             save |-> MaxSaves]

-----------------------------------------------------------------------------
(* The worker loop.                                                        *)

\* A fatal worker error cancels the whole download.
Cancelled(reason) ==
  /\ ctx' = TRUE
  /\ why' = IF why = "pause" THEN why ELSE reason

\* Loop top: a drained worker leaves before it takes more work.
Top(i) ==
  /\ wk[i].pc = "top"
  /\ wk' = [wk EXCEPT ![i].pc = IF i \in drains THEN "gone" ELSE "pop"]
  /\ UNCHANGED <<disk, prog, queue, closed, shared, drains, bal, ctx, why,
                 stash, phase, saved, left>>

\* Pop returns a task.  When every byte is verified the worker leaves with it;
\* otherwise it registers the ActiveTask.
Pop(i) ==
  /\ wk[i].pc = "pop" /\ queue # <<>> /\ MuFree
  /\ LET t == Head(queue)
     IN  wk' = IF Whole THEN [wk EXCEPT ![i].pc = "gone"]
               ELSE [wk EXCEPT ![i].pc = "start", ![i].off = t.off, ![i].end = t.end,
                       ![i].cur = t.off, ![i].stop = t.end, ![i].ptr = t.ptr,
                       ![i].hedged = (t.ptr # 0), ![i].draining = FALSE,
                       ![i].tries = 0]
  /\ queue' = Tail(queue)
  /\ UNCHANGED <<disk, prog, closed, shared, drains, bal, ctx, why, stash,
                 phase, saved, left>>

PopClosed(i) ==
  /\ wk[i].pc = "pop" /\ queue = <<>> /\ closed
  /\ Leave(i, "gone")
  /\ UNCHANGED <<disk, prog, queue, closed, shared, drains, bal, ctx, why,
                 stash, phase, saved, left>>

\* An attempt publishes its Cancel under activeMu and inherits a drain that
\* came before it.
Start(i) ==
  /\ wk[i].pc = "start" /\ MuFree
  /\ LET drained == wk[i].draining \/ i \in drains
     IN  wk' = [wk EXCEPT ![i].pc = "read", ![i].at = wk[i].off,
                  ![i].draining = drained, ![i].killed = drained, ![i].res = "none",
                  ![i].n = 0, ![i].fresh = 0]
  /\ UNCHANGED <<disk, prog, queue, closed, shared, drains, bal, ctx, why,
                 stash, phase, saved, left>>

\* The read loop's head: stop at StopAt, or fill the buffer from the body.
Read(i) ==
  /\ wk[i].pc = "read"
  /\ LET w == wk[i] IN
     \/ w.at >= w.stop /\ End(i, "ok")
     \/ /\ w.at < w.stop /\ w.at < w.end
        /\ \E n \in 1 .. Lesser(Buffer, Lesser(w.stop, w.end) - w.at) :
              wk' = [wk EXCEPT ![i].pc = "write", ![i].n = n]
  /\ UNCHANGED <<disk, prog, queue, closed, shared, drains, bal, ctx, why,
                 stash, phase, saved, left>>

\* The request or the body fails because its context is cancelled.
ReadCancelled(i) ==
  /\ wk[i].pc = "read" /\ wk[i].at < wk[i].stop
  /\ wk[i].killed \/ ctx
  /\ End(i, "error")
  /\ UNCHANGED <<disk, prog, queue, closed, shared, drains, bal, ctx, why,
                 stash, phase, saved, left>>

\* A network error, or the body ends below StopAt (early EOF).
ReadFails(i) ==
  /\ wk[i].pc = "read" /\ wk[i].at < wk[i].stop
  /\ ~wk[i].killed /\ ~ctx
  /\ IF wk[i].at >= wk[i].end THEN UNCHANGED left ELSE Spend("fault")
  /\ End(i, "error")
  /\ UNCHANGED <<disk, prog, queue, closed, shared, drains, bal, ctx, why,
                 stash, phase, saved>>

\* StopAt is read again, the buffer cut to it and written.
Write(i) ==
  /\ wk[i].pc = "write"
  /\ LET w == wk[i] IN
     IF w.stop <= w.at THEN End(i, "ok") /\ UNCHANGED disk
     ELSE LET n == Lesser(w.n, w.stop - w.at)
          IN  /\ disk' = disk \cup (w.at .. w.at + n - 1)
              /\ wk' = [wk EXCEPT ![i].pc = "count", ![i].n = n]
  /\ UNCHANGED <<prog, queue, closed, shared, drains, bal, ctx, why, stash,
                 phase, saved, left>>

WriteFull(i) ==
  /\ wk[i].pc = "write" /\ wk[i].at < wk[i].stop
  /\ Spend("fault")
  /\ End(i, "full")
  /\ UNCHANGED <<disk, prog, queue, closed, shared, drains, bal, ctx, why,
                 stash, phase, saved>>

\* Defect: bytes a racing worker reported in part are not reported at all.
Count_AllOrNothing(i) ==
  /\ wk[i].pc = "count"
  /\ LET w == wk[i]
         to == w.at + w.n
         top == IF w.ptr = 0 THEN w.at ELSE shared[w.ptr]
     IN  /\ wk' = [wk EXCEPT ![i].pc = "clamp", ![i].at = to,
                               ![i].fresh = IF top > w.at THEN 0 ELSE w.n]
         /\ shared' = IF w.ptr = 0 \/ to <= top THEN shared
                      ELSE [shared EXCEPT ![w.ptr] = to]
  /\ UNCHANGED <<disk, prog, queue, closed, drains, bal, ctx, why, stash,
                 phase, saved, left>>

\* The bytes no racing worker has reported yet; the compare-and-swap raises
\* SharedMaxOffset to the end of this write.
Count(i) ==
  /\ wk[i].pc = "count"
  /\ LET w == wk[i]
         to == w.at + w.n
         top == IF w.ptr = 0 THEN w.at ELSE shared[w.ptr]
     IN  /\ wk' = [wk EXCEPT ![i].pc = "clamp", ![i].at = to,
                   ![i].fresh = IF to <= top THEN 0 ELSE to - Greater(w.at, top)]
         /\ shared' = IF w.ptr = 0 \/ to <= top THEN shared
                      ELSE [shared EXCEPT ![w.ptr] = to]
  /\ UNCHANGED <<disk, prog, queue, closed, drains, bal, ctx, why, stash,
                 phase, saved, left>>

\* Offset and bytes counted are clamped to the StopAt of this moment.
Clamp(i) ==
  /\ wk[i].pc = "clamp"
  /\ LET w == wk[i]
         excess == IF w.at > w.stop THEN w.at - w.stop ELSE 0
     IN  wk' = [wk EXCEPT ![i].pc = "publish", ![i].at = w.at - excess,
                  ![i].fresh = IF w.fresh > excess THEN w.fresh - excess ELSE 0]
  /\ UNCHANGED <<disk, prog, queue, closed, shared, drains, bal, ctx, why,
                 stash, phase, saved, left>>

\* CurrentOffset is stored, and flushUpdates counts the batch before the next
\* read.
Publish(i) ==
  /\ wk[i].pc = "publish"
  /\ LET w == wk[i]
     IN  /\ wk' = [wk EXCEPT ![i].pc = "read", ![i].cur = w.at,
                               ![i].n = 0, ![i].fresh = 0]
         /\ prog' = UpdateChunkStatus(w.at - w.fresh, w.at)
  /\ UNCHANGED <<disk, queue, closed, shared, drains, bal, ctx, why, stash,
                 phase, saved, left>>

-----------------------------------------------------------------------------
(* After an attempt.  The order of the cases is the order of the code.     *)

Ended(i) == wk[i].pc = "ended" /\ MuFree

\* The chunk is done.
Succeeded(i) ==
  /\ Ended(i) /\ ~ctx /\ wk[i].res = "ok"
  /\ Leave(i, "top")
  /\ UNCHANGED <<disk, prog, queue, closed, shared, drains, bal, ctx, why,
                 stash, phase, saved, left>>

\* releaseActiveOnCancel: the residual goes back before the map entry goes.
Release(i) ==
  /\ Ended(i) /\ ctx
  /\ queue' = queue \o Requeue(i)
  /\ wk' = [wk EXCEPT ![i].pc = "requeued", ![i].res = "none"]
  /\ UNCHANGED <<disk, prog, closed, shared, drains, bal, ctx, why, stash,
                 phase, saved, left>>

\* The disk is full: the residual is stashed off the queue, the worker leaves
\* with the error, the download is cancelled.
DiskFull(i) ==
  /\ Ended(i) /\ ~ctx /\ wk[i].res = "full"
  /\ stash' = stash \cup Residual(i)
  /\ Leave(i, "gone")
  /\ Cancelled("error")
  /\ UNCHANGED <<disk, prog, queue, closed, shared, drains, bal, phase, saved,
                 left>>

\* A cancelled attempt (health check, KillWorker, drain, completion monitor)
\* gives its residual back unless every byte is verified.
HealthCancelled(i) ==
  /\ Ended(i) /\ ~ctx /\ wk[i].res = "error" /\ wk[i].killed
  /\ queue' = IF Whole THEN queue ELSE queue \o Requeue(i)
  /\ wk' = [wk EXCEPT ![i].pc = "requeued"]
  /\ UNCHANGED <<disk, prog, closed, shared, drains, bal, ctx, why, stash,
                 phase, saved, left>>

\* Defect: a retry starts again with the end its task once had.
Retry_FullLength(i) ==
  /\ Ended(i) /\ ~ctx /\ wk[i].res = "error" /\ ~wk[i].killed
  /\ wk[i].tries + 1 < MaxRetries
  /\ wk' = [wk EXCEPT ![i].pc = "start", ![i].tries = @ + 1,
                       ![i].off = wk[i].cur, ![i].stop = wk[i].end]
  /\ UNCHANGED <<disk, prog, queue, closed, shared, drains, bal, ctx, why,
                 stash, phase, saved, left>>

\* resumeOnRetryOffset: the task shrinks to what StopAt has left of it.
Retry(i) ==
  /\ Ended(i) /\ ~ctx /\ wk[i].res = "error" /\ ~wk[i].killed
  /\ wk[i].tries + 1 < MaxRetries
  /\ wk' = [wk EXCEPT ![i].pc = "start", ![i].tries = @ + 1,
                ![i].off = wk[i].cur,
                ![i].end = Greater(wk[i].cur, Lesser(wk[i].stop, wk[i].end))]
  /\ UNCHANGED <<disk, prog, queue, closed, shared, drains, bal, ctx, why,
                 stash, phase, saved, left>>

\* The retries are used up: the map entry goes before the residual is back.
Exhausted(i) ==
  /\ Ended(i) /\ ~ctx /\ wk[i].res = "error" /\ ~wk[i].killed
  /\ wk[i].tries + 1 >= MaxRetries
  /\ wk' = [wk EXCEPT ![i].pc = "residual"]
  /\ UNCHANGED <<disk, prog, queue, closed, shared, drains, bal, ctx, why,
                 stash, phase, saved, left>>

\* The residual goes back to the queue, and the worker goes on or, on a
\* permanent answer, leaves with the error.
PushResidual(i) ==
  /\ wk[i].pc = "residual"
  /\ queue' = queue \o Requeue(i)
  /\ \/ Leave(i, "top") /\ UNCHANGED <<ctx, why>>
     \/ Leave(i, "gone") /\ Cancelled("error")
  /\ UNCHANGED <<disk, prog, closed, shared, drains, bal, stash, phase, saved,
                 left>>

\* The entry of a requeued task is deleted; a released worker leaves.
Unmap(i) ==
  /\ wk[i].pc = "requeued" /\ MuFree
  /\ Leave(i, IF wk[i].res = "none" THEN "gone" ELSE "top")
  /\ UNCHANGED <<disk, prog, queue, closed, shared, drains, bal, ctx, why,
                 stash, phase, saved, left>>

-----------------------------------------------------------------------------
(* Health checks, controllers, the completion monitor and the user.        *)

Live == phase = "live"

\* checkWorkerHealth or KillWorker cancels the attempt of a mapped worker.
Kill(i) ==
  /\ Live /\ MuFree /\ wk[i].pc \in Loop /\ ~wk[i].killed
  /\ Spend("fault")
  /\ wk' = [wk EXCEPT ![i].killed = TRUE]
  /\ UNCHANGED <<disk, prog, queue, closed, shared, drains, bal, ctx, why,
                 stash, phase, saved>>

\* DrainWorker: the marker first, then the flag and the cancel of an entry.
DrainWorker(i) ==
  /\ Live /\ MuFree /\ i \notin drains /\ wk[i].pc # "gone"
  /\ LeaveOne => \E j \in Workers \ {i} : j \notin drains /\ wk[j].pc # "gone"
  /\ Spend("drain")
  /\ drains' = drains \cup {i}
  /\ wk' = [wk EXCEPT ![i].draining = @ \/ wk[i].pc \in Mapped,
                       ![i].killed = @ \/ wk[i].pc \in Loop]
  /\ UNCHANGED <<disk, prog, queue, closed, shared, bal, ctx, why, stash,
                 phase, saved>>

\* runCompletionMonitor on VerifiedProgress: cancel every attempt, close and
\* drain the queue.
MonitorComplete ==
  /\ Live /\ MuFree /\ ~ctx /\ ~closed /\ Whole
  /\ wk' = [i \in Workers |->
              IF wk[i].pc \in Loop THEN [wk[i] EXCEPT !.killed = TRUE] ELSE wk[i]]
  /\ closed' = TRUE
  /\ queue' = <<>>
  /\ UNCHANGED <<disk, prog, shared, drains, bal, ctx, why, stash, phase,
                 saved, left>>

\* The monitor, or executeWorkers at its end, closes the queue of a cancelled
\* download.
MonitorCancelled ==
  /\ Live /\ ctx /\ ~closed
  /\ closed' = TRUE
  /\ UNCHANGED <<disk, prog, queue, shared, wk, drains, bal, ctx, why, stash,
                 phase, saved, left>>

\* Pause sets the flag and cancels the context.
Pause ==
  /\ Live /\ why # "pause" /\ left["save"] > 0 /\ ~Whole
  /\ ctx' = TRUE
  /\ why' = "pause"
  /\ UNCHANGED <<disk, prog, queue, closed, shared, wk, drains, bal, stash,
                 phase, saved, left>>

-----------------------------------------------------------------------------
(* The balancer.                                                           *)

\* A steal or a hedge reads offsets the worker is about to change.  With Torn
\* the balancer may meet a worker that
\*   - has read StopAt and not yet stored CurrentOffset,
\*   - has looked for a SharedMaxOffset and not yet stored CurrentOffset,
\*   - has pushed its residual and is not yet out of activeTasks,
\*   - has passed the StopAt that is computed from an older CurrentOffset,
\*   - has a StopAt that the steal has widened and not yet put back.
Settled(i, pcs) == Torn \/ wk[i].pc \notin pcs

ActiveRest == SumFunction([i \in Active |-> RemainingBytes(i)])

\* The tail-end degradation of the smallest share.
DynamicMinChunk ==
  LET busy == Cardinality(Active)
  IN  IF ActiveRest < busy * TailChunk
      THEN Greater(MinChunk,
                   (ActiveRest \div (busy + Cardinality(Blocked))) \div 2)
      ELSE TailChunk

Most(S) == {i \in S : \A j \in S : RemainingBytes(j) <= RemainingBytes(i)}

\* The workers StealWork may choose: the largest rest, not in a race, worth a
\* split.
Stealable ==
  {i \in Most({i \in Active : ~wk[i].hedged /\ RemainingBytes(i) > DynamicMinChunk}) :
     RemainingBytes(i) \div 2 >= DynamicMinChunk}

Hedgeable ==
  IF left["hedge"] = 0 THEN {}
  ELSE {i \in Active : ~wk[i].hedged /\ RemainingBytes(i) \in 1 .. MaxHedge - 1}

Wanted == Blocked # {} /\ queue = <<>>

\* A tick looks at the end game before it does anything.
Tick ==
  /\ Live /\ ~ctx /\ bal.pc = "off"
  /\ Wanted
  /\ bal' = [bal EXCEPT !.pc = "tick",
               !.sweep = ActiveRest \in 1 .. Cardinality(Active) * TailChunk - 1]
  /\ UNCHANGED <<disk, prog, queue, closed, shared, wk, drains, ctx, why,
                 stash, phase, saved, left>>

\* StealWork, first part: the worker with the most left is chosen.
StealScan ==
  /\ bal.pc = "tick" /\ Wanted
  /\ \E i \in Stealable :
        /\ Settled(i, {"requeued"})
        /\ bal' = [bal EXCEPT !.pc = "shrink", !.victim = {i},
                     !.split = RemainingBytes(i) \div 2, !.cur = wk[i].cur]
  /\ UNCHANGED <<disk, prog, queue, closed, shared, wk, drains, ctx, why,
                 stash, phase, saved, left>>

\* Its StopAt is moved; CurrentOffset was read for it at some moment since.  One
\* that would come to lie behind the old StopAt is put back at once but for Torn.
StealShrink ==
  /\ bal.pc = "shrink"
  /\ \E i \in bal.victim : \E cur \in {bal.cur, wk[i].cur} :
        LET stop == cur + bal.split
        IN  /\ Settled(i, {"publish"})
            /\ Torn \/ wk[i].cur <= stop
            /\ IF Torn \/ stop <= wk[i].stop
               THEN /\ wk' = [wk EXCEPT ![i].stop = stop]
                    /\ bal' = [bal EXCEPT !.pc = "push", !.end = wk[i].stop]
               ELSE bal' = [bal EXCEPT !.pc = "unsplit"] /\ UNCHANGED wk
  /\ UNCHANGED <<disk, prog, queue, closed, shared, drains, ctx, why, stash,
                 phase, saved, left>>

\* What lies behind the new StopAt is pushed, or the old StopAt restored.
StealPush ==
  /\ bal.pc = "push"
  /\ \E i \in bal.victim :
        LET from == Greater(wk[i].cur, wk[i].stop)
        IN  IF from >= bal.end
            THEN /\ wk' = [wk EXCEPT ![i].stop = bal.end]
                 /\ bal' = [bal EXCEPT !.pc = "unsplit"]
                 /\ UNCHANGED queue
            ELSE /\ queue' = Append(queue, Task(from, bal.end, 0))
                 /\ bal' = [bal EXCEPT !.pc = "tick"]
                 /\ UNCHANGED wk
  /\ UNCHANGED <<disk, prog, closed, shared, drains, ctx, why, stash, phase,
                 saved, left>>

\* A duplicate of the rest of i's task is pushed; both share a SharedMaxOffset.
Race(i, next) ==
  /\ Settled(i, {"clamp", "publish", "requeued"})
  /\ Spend("hedge")
  /\ LET from == CurrentOffset(i)
         ptr == IF wk[i].ptr = 0 THEN Len(shared) + 1 ELSE wk[i].ptr
     IN  /\ shared' = IF wk[i].ptr = 0 THEN Append(shared, from) ELSE shared
         /\ wk' = [wk EXCEPT ![i].hedged = TRUE, ![i].ptr = ptr]
         /\ queue' = Append(queue, Task(from, wk[i].stop, ptr))
  /\ bal' = [bal EXCEPT !.pc = next]

\* HedgeWork, when there was nothing to steal.
HedgeWork ==
  /\ Wanted
  /\ bal.pc = "unsplit" \/ (bal.pc = "tick" /\ Stealable = {})
  /\ \E i \in Most(Hedgeable) : Race(i, "tick")
  /\ UNCHANGED <<disk, prog, closed, drains, ctx, why, stash, phase, saved>>

\* Nobody is idle, or there is work in the queue, or nothing can be done: the
\* tick ends, in the end game with a race for every small rest.
TickEnds ==
  /\ \/ bal.pc \in {"tick", "unsplit"} /\ ~Wanted
     \/ bal.pc = "tick" /\ Stealable = {} /\ Hedgeable = {}
     \/ bal.pc = "unsplit" /\ Hedgeable = {}
  /\ bal' = [bal EXCEPT !.pc = IF bal.sweep THEN "sweep" ELSE "off"]
  /\ UNCHANGED <<disk, prog, queue, closed, shared, wk, drains, ctx, why,
                 stash, phase, saved, left>>

HedgeAll ==
  /\ bal.pc = "sweep"
  /\ \E i \in Hedgeable : Race(i, "sweep")
  /\ UNCHANGED <<disk, prog, closed, drains, ctx, why, stash, phase, saved>>

SweepEnds ==
  /\ bal.pc = "sweep" /\ Hedgeable = {}
  /\ bal' = Resting
  /\ UNCHANGED <<disk, prog, queue, closed, shared, wk, drains, ctx, why,
                 stash, phase, saved, left>>

-----------------------------------------------------------------------------
(* The end of a run, and the next one.                                     *)

AllGone == \A i \in Workers : wk[i].pc = "gone"

\* executeWorkers returned without an error and nobody paused.
Finish ==
  /\ Live /\ AllGone /\ why = "run"
  /\ phase' = "done"
  /\ UNCHANGED <<disk, prog, queue, closed, shared, wk, drains, bal, ctx, why,
                 stash, saved, left>>

\* preferMaxOffsetSameSharedMaxOffset
Prefer(ts) ==
  {t \in ts : t.ptr = 0 \/ ~\E s \in ts :
      s.ptr = t.ptr /\ (s.off > t.off \/ (s.off = t.off /\ s.end < t.end))}

Complete == {c \in Chunks : prog[c] >= Cardinality(ChunkBytes(c))}

\* unverifiedTasksFromBitmap
Unverified == Runs(UNION {ChunkBytes(c) : c \in Chunks \ Complete})

\* Defect: the residual of a full disk is forgotten.
Remaining_NoStash == Runs(BytesOfAll(Prefer(ToSet(queue))))

\* mergeOverlappingTasks over what is stashed and queued.
Remaining == Runs(BytesOfAll(Prefer(stash \cup ToSet(queue))))

\* saveStateSnapshot of a paused or a failed run.  A pause that finds nothing
\* left and every byte verified ends the download.
SaveSnapshot ==
  /\ Live /\ AllGone /\ why # "run"
  /\ LET tasks == IF Remaining = {} THEN Unverified ELSE Remaining
     IN  IF Remaining = {} /\ (Whole \/ tasks = {})
         THEN /\ phase' = IF why = "pause" THEN "done" ELSE "failed"
              /\ UNCHANGED saved
         ELSE /\ phase' = "saved"
              /\ saved' = [tasks |-> tasks, complete |-> Complete]
  /\ UNCHANGED <<disk, prog, queue, closed, shared, wk, drains, bal, ctx, why,
                 stash, left>>

\* setupTasks of a resumed download: its tasks and its bitmap come from the
\* record.
Resume ==
  /\ phase = "saved" /\ Spend("save")
  /\ NewRun(saved.tasks, RecalculateProgress(saved.tasks, saved.complete))
  /\ UNCHANGED <<disk, saved>>

WorkerStep(i) ==
  \/ Top(i) \/ Pop(i) \/ PopClosed(i) \/ Start(i)
  \/ Read(i) \/ ReadCancelled(i) \/ ReadFails(i)
  \/ Write(i) \/ WriteFull(i) \/ Count(i) \/ Clamp(i) \/ Publish(i)
  \/ Succeeded(i) \/ Release(i) \/ DiskFull(i) \/ HealthCancelled(i)
  \/ Retry(i) \/ Exhausted(i) \/ PushResidual(i) \/ Unmap(i)

Balance ==
  \/ Tick \/ StealScan \/ StealShrink \/ StealPush \/ HedgeWork \/ TickEnds
  \/ HedgeAll \/ SweepEnds

Next ==
  \/ \E i \in Workers : WorkerStep(i) \/ Kill(i) \/ DrainWorker(i)
  \/ Balance
  \/ MonitorComplete \/ MonitorCancelled \/ Pause
  \/ Finish \/ SaveSnapshot \/ Resume

Spec == Init /\ [][Next]_vars

-----------------------------------------------------------------------------
(* Properties.                                                             *)

\* What a worker still holds of its task.
Holding(i) == wk[i].pc \in (Mapped \cup {"residual"}) \ {"requeued"}
Held(i) ==
  IF Holding(i)
  THEN BytesOf(Task(wk[i].cur, Lesser(wk[i].stop, wk[i].end), 0))
  ELSE {}
\* What a steal has cut off and not pushed yet.
InTransit ==
  IF bal.pc = "push" THEN UNION {BytesOf(Task(wk[i].stop, bal.end, 0)) : i \in bal.victim}
  ELSE {}

InFlight ==
  BytesOfAll(ToSet(queue) \cup stash) \cup (UNION {Held(i) : i \in Workers}) \cup InTransit

\* However ranges are split, raced, cancelled, retried, drained and saved, a
\* byte that is not on disk is some task's: queued, held by a worker, stashed,
\* or in the saved record.
NoByteLost ==
  /\ Live => File \ disk \subseteq InFlight
  /\ phase = "saved" => File \ disk \subseteq BytesOfAll(saved.tasks)

\* A chunk of the bitmap, and so VerifiedProgress, never counts more bytes than
\* are on disk: the completion monitor, the workers and the next run stop on it.
VerifiedIsOnDisk ==
  \A c \in Chunks : prog[c] <= Cardinality(ChunkBytes(c) \cap disk)

\* A download that reports success has the whole file on disk.
SuccessIsWhole == phase = "done" => disk = File

\* A run never ends up with every worker waiting for work while bytes are
\* missing from VerifiedProgress: nobody would end it.
NoSilentHang ==
  Live /\ ~ctx /\ Blocked # {} /\ bal.pc \in {"off", "tick", "unsplit"}
       /\ (\A i \in Workers : i \in Blocked \/ wk[i].pc = "gone")
  => Whole
=============================================================================
