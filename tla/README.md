# Specifications of GoAria v3

TLA+ models of the concurrent core of GoAria v3 (a Wails download manager
with an in-process engine, `surge`, beside an external `aria2c`), checked with
TLC and proved about with TLAPS. Paths are relative to `src/`; *scheduler.go*
is `internal/surge/scheduler/scheduler.go`.

## The system

| Part | State | Operations | What is hard |
| --- | --- | --- | --- |
| Download pool (`surge/scheduler`) | `queued`, `queueOrder`, `downloads`, `busy`, token counter, wait group, stop flag; per run: context, `done`, removal marker | Add, Admit, worker loop, Pause, Cancel, ExtractPausedConfig, GracefulShutdown | Every worker unlocks `p.mu` between claim, registration, run and settlement; removals, retries, resumes and shutdown come in between |
| Lifecycle manager (`surge/orchestrator`) and state store | per-ID locks, rows and checkpoints on disk, reserved files | Enqueue, Pause, Resume, Cancel, persistence of events, recovery at startup | Events are applied later, one store call at a time; resume beside cancel; a crash between file and record |
| Event bus (`surge/orchestrator`) | ingress channel, subscriptions | Publish, Subscribe, Shutdown | Persistence must see every accepted lifecycle event; observers may not block |
| Concurrent strategy (`surge/strategy/concurrent`) | task queue, active tasks, bitmap | pop, steal, hedge, requeue, drain, pause | Byte coverage under stealing, races and cancellation |
| HLS strategy (`surge/strategy/hls`) | segment queue, reorder window, spill file, checkpoint | fetch, retry, reorder, checkpoint, mount | In-order output from out-of-order workers; a checkpoint must be true of two files when the process dies |
| Admission controller (`tasks`), task tracker (`monitor`) | per-opportunity entries; per-row tickets and leases | one round per kick or tick | Decisions on a snapshot that has moved on |
| Add deduper (`tasks`) | claims by target | acquire, finish, sweep | Racing adds of one target, failures, expiry |
| Extension server (`extension`) | connections, pairing, idempotency cache | dispatch, pair, batch | Retried and duplicated requests |
| Task service (`tasks`) | none of its own | add, batch, remove, query | Calls the parts above |
| Smart threads (`smartthread`) | bandwidth ledger, probes | compute, reserve, release | Numeric policy, shared ledger |
| Monitor (`monitor`) | caches, groups | ticks, terminal events | Polled state against pushed events |
| Extractor (`extractor`) | runtime generations, pack store | load, call, retire | Swapping runtimes under calls |
| RPC engines (`rpc`) | list cache, event handlers | route to aria2 or surge | Two engines behind one interface |
| Groups, history, config, speed records, update, process, tray, UI | files and maps | | I/O and presentation |
| Browser extension, frontend (TypeScript) | sockets, flows | | Reconnects and retries |

Calls go from the UI and the extension server through the task service (which
asks the deduper first) and the hybrid engine to the lifecycle manager, which
holds the per-ID lock and calls the pool. The pool's workers run the strategies
and publish events on a channel the event bus fans out to persistence and to
observers; the monitor feeds on both and kicks the admission controller, which
admits queued opportunities to the pool.

Correctness, part by part: the pool gives each ID one owner, settles each
claim once, commits to no more downloads than it has workers, publishes nothing
after a removal, and shuts down to an empty pool; the deduper lets one add of a
target through at a time; the lifecycle manager and the store lose no accepted
download and bring no removed one back; the bus loses no accepted lifecycle
event; the strategies lose no byte or segment and count none that is not on
disk; the controller never gives a slot twice, and shuts out no waiter for good.
`PROJECT.json` lists the hazards behind these, line by line.

## Modules

| Module | Models | Beside it |
| --- | --- | --- |
| `Scheduler` | the download pool | `SchedulerProofs`, `MCScheduler` |
| `AdmittedPool` | what a managed pool promises of its opportunities | `AdmissionControllerProofs` |
| `SchedulerAdmits` | the refinement: `Scheduler` implements `AdmittedPool` | `SchedulerProofs` |
| `AdmissionController` | the controller's rounds and the tracker rows, over `AdmittedPool` | `AdmissionControllerProofs`, `MCAdmissionController` |
| `Lifecycle` | lifecycle manager, persistence worker, store, crash and recovery | `LifecycleProofs`, `MCLifecycle` |
| `ConcurrentRanges` | the byte ranges of a multi-connection download | `ConcurrentRangesProofs`, `MCConcurrentRanges` |
| `HlsSegments` | the segments of an HLS download, its two files and checkpoint | `HlsSegmentsProofs`, `MCHlsSegments` |
| `AddDeduper` | concurrent adds of one target | `AddDeduperProofs`, `MCAddDeduper` |
| `IdempotencyCache` | repeated requests of the browser extension | `IdempotencyCacheProofs`, `MCIdempotencyCache` |
| `EventBus` | publication, subscriptions, shutdown of the bus | `EventBusProofs`, `MCEventBus` |

The models meet at their interfaces. `AdmissionController` runs on
`AdmittedPool`, which `Scheduler` implements, so what it shows of the rounds
holds on the pool as the code has it. `Lifecycle` reduces the pool to the entry
of an ID and the phase of its run; the events a run sends, and when, are those
of `Scheduler`'s worker branches. `HlsSegments` and `ConcurrentRanges` are the
inside of `RunDownload`, and `EventBus` the channel between pool and store.

### Scheduler

One action is one critical section of `p.mu`, or one step between two of them.

| Code | Model |
| --- | --- |
| `queuedTask` by ID, FIFO `queueOrder` | `queued[id]`; an ID is appended exactly where a token is minted, so the order of tokens is the order of the queue |
| `AdmissionKey{ID, Token}` | the token: tokens are never reused, `info[t]` has the ID, the `ProgressState` it carries (named by the first token of its lineage) and the retry count |
| `activeDownload` | its token; `registered`, `ended` (`done` closed), `ctx` (context cancelled), `removed` (`hlsRemoved`) are sets of tokens |
| `ProgressState` flags | `paused`, `pausing`, `finished`, `full` (all bytes verified): sets of roots, because retries and resumes keep the state object |
| worker goroutine | `wpc[w]`: idle, claimed, running, returned, then one branch of the result: success, pause, error, requeue, terminal; `tail` is the shared end |
| `hlsEventMu` | held by a worker in `pfence`, and for HLS in `rqsend` and `terminal`; `CancelCross` waits for it |
| Pause | `PauseQueued`, or `PauseFind` under the lock and then the unlocked reads and writes one by one |
| Cancel | `CancelLock`, `CancelStop`, `CancelWait`, `CancelCross`, `CancelReturn`; the caller publishes EventRemoved right after, so `gone` records the return |
| Resume (hot path) | `Extract`, then `ReAdd` or `ReAddRefused`; a cold resume is an `AddNew` |
| GracefulShutdown | the caller `Shut` pauses the IDs of its list, then `ShutSweep`, the poll, `wg.Wait` and the drain of `busy` |

`RunDownload` is abstracted to its results: success at any time; a failure
worth a retry or a permanent one at any time; *cancelled* only under a cancelled
context; *paused* only when it has seen the flag. Timeouts fire at any time:
`ShutForced` is the hard timeout of the poll, `Ripen` the passing of `retryAt`,
and the bounded wait of Cancel on a non-HLS run is no wait at all. Worker
wake-ups are left out: a worker may claim whenever an entry is eligible.
`MaxToken` bounds the run and plays the part of the exhausted token counter.

### AdmittedPool and the refinement

An ID is `out`, `queued`, `flying` (queued with `inFlight`: claimed, or waiting
for its `retryAt`) or `running`, and holds the token of its current opportunity;
`busy` are the unsettled claims. `SchedulerAdmits` maps `Scheduler` to it:
*running* means a worker has registered the run and not yet dealt with its
result, and a paused entry that stays in `downloads` has no place any more.
Every step of the managed pool, retries, stale claims and the sweep of shutdown
(`Depart` of a set) included, is then a step of `AdmittedPool` or a stutter. The
capacity is part of it: `Admit` is only allowed while the committed count is
below the number of workers.

### AdmissionController

One action is one locked access of the round: `Snapshot` (AdmissionSnapshot),
`Reconcile` (reconcileTickets), `Freeze` (GetOccupancyTrackedTasks), `Prepare`
(short holders and prep pass), then per candidate `PassOver`, or `Reserve` on
the tracker row and `Accept` on the pool; `Stale` and `Rollback` when the
opportunity has gone. FIFO order is the order of tokens. A row has its status,
`admissionToken` as a high-water mark, the pending ticket, and its claim on the
occupancy, whose lease may lapse at any time. The monitor reads the live status
and folds it into the row in one step, though events may be seen late or not at
all. All downloads share one scope, domain and environment and are in
exploration; bandwidth is counted in claims (`Budget`), `Record` are the
downloads that can write a speed record and so need the measurement for
themselves, `Small` those that may use the short exception. A download is added
again only once its row shows that it ended.

### Lifecycle

The store is `row` (status in `master.gob`), `detail` (level of the checkpoint in
`details/<id>.gob`), the reserved name and the working and final files under the
names. Every store call is a step, so a crash may come between any two;
`Normalise` and `Validate` are the two passes of startup. A checkpoint is a
level `0..MaxLevel`. A run is reduced to its phase, what it has verified, and
the events it publishes, with the paths that differ kept apart: the HLS pause
saved inside the claim fence, the pause a concurrent download publishes before
it returns, the error a run owes after its entry is out. Pause, Resume and
Cancel are the manager's, step by step; Resume takes no per-ID lock. Merged or
simplified: the two writes of DeleteState; GetDownload with AddToMasterList; the
time limit of a non-HLS Cancel, which waits for the strategy here; a Pause that
lands on a failing run, which is in `Scheduler`.

### ConcurrentRanges

Bytes are numbers and `disk` is the set of bytes written. One turn of
`downloadTask` is five steps, one per access to the offsets it shares with the
balancer: read, write, count, clamp, publish. StealWork, HedgeWork, the end-game
HedgeAll, cancel and drain of a worker, the retry paths with their residuals, a
full disk, the completion monitor, the snapshot of a paused or failed run and
the next run from it are actions. With `Torn = FALSE` the balancer acts on a
worker only outside five windows in which the code has no protection (between
`StopAt` or the shared offset and the store of `CurrentOffset`; between a requeue
and the deletion from `activeTasks`; behind a `StopAt` computed from an older
`CurrentOffset`; and, when the worker has meanwhile come close to its `StopAt`,
before StealWork puts back one it has widened); `ranges_torn` opens them.
Merged: Pop with the registration, publish with the flush. Folded: mirror choice
and the waits between attempts. `hedgeDisabled` is abstracted by the bound on
hedges, and a controller never drains the last worker (`LeaveOne`): with both
drained the completion monitor is left with a file nobody fetches.

### HlsSegments

A segment is one cell of a file. `out` is the `.surge` file, `arena` the spill
file, `stored` the checkpoint on disk, and a crash keeps only these. `win` is the
reorder window with the spill index, `queue` the segment queue, `wk` the worker
sessions with their attempts, `url` the manifest refresh. A stop captures a
checkpoint in one of the three ways of captureStoppedCheckpoint (all, the merged
prefix, the old one demoted), then saves it and sends it with the event; mount
adopts it or falls back to its prefix. Storage faults may strike a drain at any
point, spill appends and saves. A crash is of the process: what was written is
there. Merged or left out: the first checkpoint's snapshot, sync, save and
fan-out are one step; `markDraining` is atomic; plain cancel and a pause during
mount; byte ranges, the initial segment, keys and decryption, host penalties and
speeds. Every run starts with fresh addresses.

### AddDeduper

A caller is an extension request (`AddUriFromExtension`) or a candidate of one
batch (`submitAddCandidate`, reached from AddUri, BatchAddUri or the items of an
extractor). Each submits, acquires a claim or attaches to one, looks whether the
target is there, adds it and settles; the sweep and the 10 s expiry run beside
them. The claim is on a target (`ckey`): a candidate's URL, a request's DedupKey
or, without one, its URL. The engine gets the URL (`curl`), so `engine` is a set
of rows `<<target, url>>`, and the list and the history show the second half only.

A batch reads list and history when it starts (`StartBatch`, into `seen`) and
marks there what it adds and what other callers' claims told it; an extension
request reads the list after it owns the claim. The three Tell calls may fail,
which reads as an empty list, are cut off at 1000 entries, and may miss a row that
changes state between the live active part and the cached rest: `ExtensionAdmits`
may go to the engine whatever the list has, and `missed` remembers it. The history
answers *duplicate* with nothing in the engine. `RecordHistory`, `RemoveRow` and
`RemoveHistory` are what the monitor and removals do meanwhile; they leave the
claims alone, as the code does.

`OneAddPerWindow` is what the claims promise in spite of all that: nobody goes to
the engine with a target whose last success is on record, and no candidate with a
URL that a sibling added or was told of by a claim, although the batch's snapshot
is old and the record may have expired since. `NoSecondExtensionAdd` is the
hand-over from the record to the list: a request whose list calls missed nothing
does not add a URL that was added under the target of that name and is still
there. More is not promised. A request under a DedupKey that is not the URL is
held back by the record only (*service_add_dedup_claim_test.go:158* wants the same
URL under another key added), a list with a gap lets a request add again, and a
batch whose start is older than an expired record adds what it does not know of.
Nor does *duplicate* mean that the target is there, as *service_add.go:101* has
it: for 10 s after a removal the record still answers so.

Merged or left out: the mark of a candidate that was told *duplicate*
(`markConfirmedSeen`) is made with the answer, two statements earlier than in the
code; a raw URL that a batch finds in its own snapshot is answered without a claim
and is no caller; the `nil` Deduper of older callers; UpdateURL, which nothing in
the application calls. A batch may have a context that ends, an extension request
has none.

### IdempotencyCache

A frame is one `extractor.resolve` or batch request; both run `dispatchAsync`,
so one message type with one gate stands for them. The read loop of a connection
takes its frame through `Read` (lookup), `Admit` (the two gates) and `Begin`; the
handler goroutine through `Return`, `Keep` and `Complete`, or `Fail` or `Skip`
(abandon), to `Reply`. `entries` and `completed` are the map and the eviction
order, `connGen` and `connOp` the linkage generation and operation context a
connection took when it was accepted (read under two locks, so two actions).
`Replace` and `Retire` are ReplaceExtractorLinkage; `Unpair`, `Close`,
`ReplaceOpContext` and `Clear` are NotifyUnpaired, and Stop, which takes the same
steps. A channel gets its ack in the step that takes it out of the map: nothing
else can reach it then. Frames may still be read from a closed connection, since
its reader buffers. The swap of the context and the cancel of the old one are
one step: a handler that looks in between might as well have looked before, a
connection might as well have asked after. Expiry is a flag set at any time. An
ack is named by the frame whose handler computed it; the rewriting of a cached
ack for an expired session is left out.

### EventBus

An event is its position in `log`, the order in which `InputCh` accepted events,
so the channel holds positions `read + 1 .. Len(log)`. A sender is a caller of
Publish, which joins `pubWg` under `pubMu`, or a pool worker, which sends on the
channel itself and gives up after a timeout; the pool has stopped before
Shutdown starts (`LifecycleManager.Shutdown`), which `ShutCancel` asks for. For the
workers `NoSendOnClosed` is thus no more than that guard, which the unbounded
`wg.Wait` of GracefulShutdown justifies (*scheduler.go:2071*); the code does not
rely on it alone: `safeSendProgress` recovers from a send on a closed channel,
"which can happen during shutdown" (*scheduler/manager.go:72*), and the model has
no such send to recover from.
broadcastLoop takes an event and copies the listeners (`LoopTake`), then hands it
to each of them in any order (`Enqueue...`). `pc` follows the goroutine of a
subscription through its two selects. `Store` is the reliable subscription of
the persistence worker, there from the start; its cleanup stands for the panic
of that worker. An overflowing observer is a subscription that ends: the new one
StreamEvents opens is a further `Observers` element. The two selects on the
progress channel in `enqueue` are one step, since only the loop fills it. What
the events say is left out; `Kinds` are the classes the code tells apart.

## Runs

| Run | Instance | Shows |
| --- | --- | --- |
| `pool` | 2 IDs, 2 workers, 3 tokens, 1 retry, managed, cancels; with 2 tokens also pauses | `SoleOwner`, `ClaimsSettledOnce`, `WgBalance`, `OneLiveRun`, `ImplementsAdmittedPool` |
| `pool_live` | 1 HLS ID, 1 worker, 2 tokens, a retry, shutdown beside a caller that pauses, resumes and cancels, bytes that may be complete early, fair | `ShutdownQuiescent`, `HlsFence`, `CancelReturns`, `ShutdownCompletes` |
| `admission` | 2 downloads, 2 tokens, capacity 2, user cap 1, either mode, fair | `SlotCapHolds`, `OneMeasurement`, `DeadReservesNothing`, `LiveTicketKept`, `EveryWaiterAdmitted` |
| `lifecycle` | four scenarios of one or two downloads, one or two callers, 1 crash | `AcceptedSurvives`, `RemovedStaysGone`, `CheckpointSettles`, `CompletionWins` |
| `ranges` | 2 workers, 4 bytes in chunks of 3, one hedge, two faults, one drain, one saved run | `NoByteLost`, `VerifiedIsOnDisk`, `SuccessIsWhole`, `NoSilentHang` |
| `hls` | 6 segments, 1 buffered, up to 3 workers, four budgets of events | `CheckpointIsTrue`, `VideoInOrder`, `SegmentsAccounted`, `CreditIsExact`, `SpillStaysUsable`, `RefreshOnRefusal` |
| `deduper` | an extension caller that may ask again, a batch of 2, 1 URL, 1 DedupKey, 3 claims, fair | `SingleFlight`, `OneAddPerWindow`, `NoSecondExtensionAdd`, `EveryCallerAnswered` |
| `idempotency` | 2 connections, 3 frames, 2 request ids, 2 payloads, a cache of 2, 1 waiter, one change | `WaitersParked`, `OneLiveHandler`, `OwnAnswer` |
| `event_bus` | 1 publisher, 1 pool worker, the persistence worker, 1 observer, queues of 1, 3 events, fair | `StoreMissesNothing`, `ObserverSeesNoGap`, `NoStaleProgress`, `NoSendOnClosed`, `ShutdownEnds` |
| `pool_resume` | 1 ID, 2 workers, a caller that pauses and resumes, 3 tokens, 1 retry | a violation of `OneLiveRun` |
| `ranges_torn` | as `ranges`, windows open, no faults | a violation of `SuccessIsWhole` |
| `hls_late` | as `hls`, late events, 2 workers | a violation of `CheckpointIsTrue` |

`Scheduler`, `AddDeduper`, `Lifecycle`, `HlsSegments`, `AdmissionController`,
`IdempotencyCache` and `EventBus` also define a `TypeOK` that holds on these
instances and is not spent on a run of its own; those of the first two are part
of proved invariants.

Runs that check invariants only use symmetry over what is interchangeable in
every action: workers and callers (`Shut` is not permuted), IDs where there is no
HLS, connections, frames, request ids and digests. Runs with liveness use none.
Deadlock is not checked: a system may come to rest in any state in which no
caller does anything and no token, event or budget is left.

Why the bounds are enough. The hazards of the pool need two workers on one ID
(the old run and the new one), a third opportunity for a replacement of a
replacement, one retry, and a caller inside the unlocked parts of Pause and
Cancel beside them, or GracefulShutdown beside the caller. A pause in
`pool` has room for one replacement only (`FewTokensWhenPausing`). Two IDs matter only to the FIFO order, the capacity and the wait
group, which `pool` checks; the other properties speak of one ID, and liveness
of one run at a time. Two downloads and two opportunities let a candidate go
stale, be added again under a new token and meet the reservation of the old one;
the safety of `admission` was also run with three opportunities. The scenarios
of `lifecycle` keep apart what interacts: a series of calls on one download, two
callers on one, two downloads with names in common, a full bus. Four bytes in
chunks of three make a short last chunk and ranges that end inside a chunk, and
can be split, hedged and split again; the second fault uses up the two attempts
of a worker. Six segments with one of them buffered
make three workers spill, drain and truncate. The URLs of the
deduper share nothing but the list, so one is enough; beside it a DedupKey gives a
second target with rows of the same URL. Three callers can be owner, waiter and
the one that discards, and three claims let a target be claimed again twice. The cache needs an owner, a duplicate
and a third frame that meets what the two left behind, on an old and a new
connection. `MaxChanges` bounds the linkage replacements and unpairs together;
one of either meets every stage of a request. Three events fill the hand and
the queue of a subscription and overflow it, or block the loop on the
persistence worker.

Fairness (`FairSpec`): weak fairness of each goroutine once it has left a
wait. In `Scheduler` a worker after its claim, a call after its first step,
GracefulShutdown throughout; a run is fair only when its context is cancelled,
since every strategy watches its context. Nothing is assumed of Add, Admit, the
retry timer or of a run nobody stopped, which is why `ShutdownCompletes` goes to
the end only for runs that were asked to stop. `CancelReturns` says it of every
call: a caller is idle again and again. In `AddDeduper` each caller after
it has submitted. In `EventBus` some step of the bus, of a sender, of Shutdown
or of the persistence worker is taken while one can be; observers need not read.
In `AdmissionController` the ticker starts rounds and a round goes on, and the
workers, the monitor's poll and the clock do not all stand still; nobody has to
add, pause or cancel.

`WaitersParked` (a parked frame is on the list of an entry in flight) is what an
answer to every request needs in `IdempotencyCache`, which states no liveness.
`OneLiveHandler` holds until the first unpair: after it a late handler can take
the key of a newer request.

## Findings

* `pool_resume`: Pause finds a run under `p.mu` and raises `pausing` and `paused`
  in two writes after it has let go of it. When the run fails meanwhile, the
  worker sees no pause, clears `pausing` and requeues the same `ProgressState`;
  the retry runs with `paused` set, under a context nobody cancels. Resume takes
  any such entry out of `downloads` and adds a second run of the same destination,
  which the check of registration cannot see, since it looks at `downloads`
  (*scheduler.go:1117*).
* `ranges_torn`: the balancer reads `CurrentOffset` and installs a
  `SharedMaxOffset` while the worker, having found none, has not stored its new
  offset yet. Both workers count the same bytes, `VerifiedProgress` reaches the
  file size early, the completion monitor ends the run, and the download
  succeeds with a hole (*worker.go:923*). A steal alone does the same when the
  worker has passed the `StopAt` computed for it (*worker.go:829*).
* `hls_late`: the gate of an HLS pause opens before its event has left; a resume
  that uses it stores its first checkpoint and reuses the spill file, and then
  the old event overwrites that checkpoint. After a crash, mount adopts a ledger
  whose cells hold other segments (*events.go:315*).

Seen on the way, and kept out of the instances above by the bounds named:

* An HLS run that fails just before Pause cancels its context is taken for
  cancelled, so it ends with no event and no owner (*scheduler.go:1570*); two
  concurrent Pause calls do the same to a byte-range run.
* A worker that registers between PauseAll and the sweep is neither paused nor
  discarded, so GracefulShutdown waits for its whole download
  (*scheduler.go:2007*); `ShutdownCompletes` excepts such a run.
* A handler cancelled by NotifyUnpaired abandons, whenever it returns, the entry
  of the request that registered the key again after the clear
  (*idempotency.go:117*).
* A Resume between the completion of a run and its recording downloads the file
  again (`LateResume = FALSE` excludes it). Resume holds no per-ID lock, so beside
  a Cancel it can add a removed download again (*pause_resume.go:141*), and if its
  name was reserved meanwhile, finish over the other's file. An error
  of a cancelled byte-range run re-creates its row, hence `RemovedStaysGone` of
  HLS only. A second Cancel before the first removal is persisted can delete the
  file another download has reserved since (*pause_resume.go:413*; `MaxCancels`).
* `shortHolders` is computed once per round (*admission_controller.go:382*) and
  not updated when a candidate is accepted, so two short candidates of one bucket
  can be admitted in one round, though the comment speaks of "one live holder per
  scope+env bucket". To see it: `ShortHolderAlone` as an invariant of `Spec` with
  `Record = {}`, `Small = {a, b}`, `Budget = 0`.
* A stall recorded after a drain of the same HLS worker overrides it and charges
  the segment a retry.

## Proofs

`SchedulerProofs` proves, for any finite sets of IDs and workers, any callers,
retries and tokens:

* `Inductive`: `Spec => []IInv`;
* `OneOwnerPerId`: `Spec => []SoleOwner`;
* `EveryClaimSettledOnce`: `Spec => []ClaimsSettledOnce`.

`SoleOwner` alone is not inductive: that a retry or a registration does not make
a second owner depends on the token of a queued entry being unknown to every run
(`EntriesOK`), on `inFlight` naming exactly the worker that will settle the entry
(`InFlightOK`), and on workers holding different tokens (`WorkersOK`,
`ClaimsSettledOnce`). `IInv` is their conjunction with the types; each conjunct
has a lemma with one step per action that writes its variables, and the actions
that write none of them share a step. `MintEffect`, `Claims`, `Requeues`,
`ReAdds` and `Released` say once what the queue operations do.

On this rest:

* `WaitGroupExact`: `Spec => []WgBalance`. The wait group is a sum of two
  cardinalities, and each action changes one set by one element, moves one from
  the one to the other (a claim, a retry that is let go), or leaves both alone:
  a registration and a retry touch only entries in flight, by `InFlightOK`.
* `ShutdownLeavesNothing`: `Spec => []ShutdownQuiescent`, from `StopInv`: once
  the pool has stopped the queue is and stays empty (nothing is added, retried
  or let go), a run that has not ended has its worker, and `wg.Wait` returns
  only when no worker holds a claim, which is where `WaitGroupExact` is needed.
* `RemovedIsSilent`: `Spec => []HlsFence`, from `FenceInv`, which follows a claim
  from the critical section of the Cancel that named it to the return of that
  call. What was named is never queued or registered again (`Dequeued`); a claim
  that is past its own critical section is marked removed, is waited for until
  `done` is closed, which is when its run has returned (`RunsEnd`), and the fence
  is crossed after that, when no send of it is under way (`CancelSees`). From the
  return on, the claim is past its run and its sends (`GoneSilent`), and one that
  had not been registered never will be.
* `OneRunWithoutResume`: `"resume" \notin Ops => (Spec => []OneLiveRun)`. Then a
  run leaves `downloads` before its end only by a Cancel, which in the same
  critical section puts it among those it is about to stop; so a live run is the
  active entry of its ID (`LiveOwns`). With resumes it is false: `pool_resume`.

It also proves the refinement `ManagedPoolIsAdmitted` for `Managed`, over the
mapping of `SchedulerAdmits`. Its lemmas say for every action where it moves
each ID (*Places*), which step of `AdmittedPool` that is, and that the others
stay. Beside `IInv` only `Vouched` is needed: what a worker has claimed was
admitted. `ClaimsSettledOnce` and `WorkersOK` give the part of the mapping that
speaks of runs: an active token is run by the one worker that holds it.

`AdmissionControllerProofs` begins with `CapacityKept`: `PoolSpec` never commits more slots
than `Capacity`. Not inductive alone: a retry that ripens could carry an
admission, which would be counted again. `PlacesOK` excludes it: an opportunity
is admitted only while it waits for a claim or holds one (`ClaimsFly`). By the
refinement it holds of the managed pool too.

It then proves, for any downloads, tokens, capacity, caps,
budget and records, `SlotCapKept`, `MeasurementAlone`, `OrphansReleased` and the
action property `LiveTicketNeverReleased`. A round reads the pool and the rows
once and then acts without a lock, so `RoundsInv` says which of the things it
read stay true while workers, users and leases go on: a candidate in hand is
unadmitted or has left its place for good (`HandOK`); whoever is admitted has its
own reservation (`Vouched`); a reservation of a current opportunity is live in
the snapshot, or was made after it (`SnapLive`); the snapshot's count plus what
the round accepted bounds what is committed, since only the round commits
(`CountOK`); whoever measures was seen by the freeze or accepted by the round
(`MeasuredOK`). `AroundStep` says once what all steps beside the round do to these.

`IdempotencyCacheProofs` proves `NobodyForgotten`, `DuplicatesCoalesce` and
`AnswersAreOwn` for any connections, frames, ids, payloads, waiters and cache
size. `CacheInv` ties every frame to the entry of its key: who waits is on the
list of an open entry of its own payload (`ParkedOK`), every entry's owner,
waiters and result asked for that key and payload (`EntriesOK`, `RepliesOK`), and
until somebody unpairs each working handler of the current generation owns the
open entry (`LiveOK`), alone (`AloneOK`). The five effects of the cache
operations (`JoinEffect` ... `RegisterEffect`) are stated once.

`AddDeduperProofs` proves `SingleFlight`, `OneAddPerWindow` and
`NoSecondExtensionAdd` from an inductive invariant of its own (`IInv`), for any
callers, URLs, keys and claims. A live record is found under its target
(`RecordsKept`), so it and an owner on the way to the engine exclude each other;
what a candidate was told is in the marks of its batch, and only who made a mark
drops it (`Marked`). `NoSecondExtensionAdd` needs `Covered`: a URL added under its
own name is in the list, or on a live record the list has not caught up with, or
with an owner about to settle. It rests on the guard of `Expire`: a record (10 s)
outlives every list built before it was settled (1 s in the cache and the time to
build it, taken to be below 9 s).

`EventBusProofs` proves `NoSendOnClosed`: `pubMu` orders the check of Publish
and the cancel, and the two waits of Shutdown do the rest. `BusInductive` is the
invariant of the subscriptions, for any number of observers and any sizes of the
queues: whatever the loop still has to hand out is newer than all a subscription
has (`Given`), a lifecycle event precedes everything that comes later, the pending
progress included (`Ordered`), and what is missing is missing at the end
(`Whole`); every action is checked for the subscription it is about, and
`Untouched` covers the others. It gives `StoreIsComplete`, `StreamHasNoGap` and
`NoProgressAfterItsEnd`. `StoreIsComplete` needs `NoSendOnClosed`: after the loop
has returned no event is accepted that nobody would hand on.

`HlsSegmentsProofs` proves `EverySegmentAccounted`, `ProgressIsExact`,
`SpillAlwaysUsable` and the action property `RefreshesOnlyExpired`, for a playlist
of any length, any workers, any buffer size and any budgets, late events or not.
The counts of the three invariants say how many leases, credits and queue places
a segment has; `BookInv` says where they are. A segment is in the window exactly
when the queue has it as done (`QueueOK`), a leased one is held by one worker that
is in an attempt (`QueueOK`, `ListOK`), the parts of the window are disjoint and
its ledger ends before the tail (`WinOK`), and so does that of every checkpoint
(`CkptsOK`), which is what a run begins with. `Effect` says once what a step of a
worker may do to these books: keep, take, give back or have its segment accepted.
For `RefreshesOnlyExpired`, `AddressOK` adds that a mark lies on a task only if the
addresses its last request used were refused, and a flight starts from a mark
that no newer generation has satisfied.

`CheckpointAlwaysTrue` and `VideoAlwaysInOrder` need to know the cells of the two
files as well, which is `CellInv`; both assume `~LateEvents`, since with a late
event they are false (the run `hls_late`). Its three parts:

* `FilesOK`: the merged prefix is in the .surge file, and the cells that the
  window's index names are in the spill file. The prefix in the store is never
  longer than the durable one, nor this one longer than the window's, which makes
  it safe to go back to an older checkpoint. A stored ledger is right about the
  spill file or its size is not there (`Backs`); an event holds what the next run
  will start from.
* `FrontOK`: without a fault the .surge file ends with the merged prefix and the
  next segment is missing from the window, so that a queue settled to the end has
  everything merged; after a fault the worker that met it has yet to settle, or
  the run is stopped.
* `OpenOK`: until the first checkpoint one worker does one segment, the next one
  behind the prefix, and nothing is buffered; from then on the stored ledger is
  empty.

The last part carries the argument. The spill file is written at the window's tail,
and a window that merged its last entry has its tail back at 0: a ledger that is
still in the store would then name cells of other segments. Before the first
checkpoint the spill file only gets shorter (`Shorter`), which such a ledger
survives by its declared size (`ShorterBacks`); after it there is no ledger in the
store. `OneKeeps`, `TakesFirst` and `CommitsFirst` show that no worker can come to
spill before it, and `WholeAtEnd` that `finishPhysical` never meets its contract
error.

`ConcurrentRangesProofs` proves `NoByteIsLost` and `SuccessAlwaysWhole`, for any
workers, file, chunk and buffer sizes and any budgets:

    LeaveOne => (Spec /\ []VerifiedIsOnDisk => []NoByteLost)

and the same for `SuccessIsWhole`. `LeaveOne` is the premise on controllers stated
above; `VerifiedIsOnDisk` is what the program takes on trust when it stops on
VerifiedProgress. `VerifiedWhole` turns it into *Whole means the whole file* by
adding up the chunks. With `Torn` it fails, and `ranges_torn` shows the hole that
follows; these two theorems say that no byte is lost in any other way, in the
windows or outside them. Outside them the trust is justified
(`VerifiedAlwaysOnDisk`), and `SettledLosesNothing` puts the parts together:

    ~Torn /\ LeaveOne => (Spec => []VerifiedIsOnDisk)
    ~Torn /\ LeaveOne => (Spec => []NoByteLost /\ []SuccessIsWhole)

`NoByteLost` has to be strengthened twice over. A worker that has passed its
`StopAt`, or one that races, drops bytes from its residual that it never counted,
so `CoverOK` asks of every byte whether it is on disk or somebody answers for it,
and the rest of `RangesInv` says what is on disk behind those who do not:

* `OwnOK`: `StopAt` is within the task but for a widened one in the middle of a
  steal, and what lies between `StopAt`, or the place where the balancer last
  looked, and `CurrentOffset` is stored (`PassedIsStored`); an attempt that ended
  well has reached its `StopAt` (`EndedAtStop`).
* `RaceOK`: what lies between any two participants of a race, queued or at work,
  and the shared offset is stored, and all have the same end. So a residual may
  begin at the shared offset, and a snapshot may keep one of them.
* `VictimOK`, `CellsAllocated`: the victim of a steal does not race, and nobody
  refers to a cell that was not allocated.
* `SomebodyStays`: while nobody cancels, an undrained worker stays unless the file
  is whole; this is what `LeaveOne` is for.

`RunsCover` shows that the merged runs of a snapshot have all the bytes they were
made from, and `InitialTasksCover` the same of the first division of the file.

`VerifiedIsOnDisk` compares a number with a set, and a number does not say which
bytes it counts. `LedgerInv` keeps the books: every byte that somebody claims and
no racer has passed is still `Owed`, and a chunk counts at most the bytes of it
that are not (`CountedOK`), or is on disk in full. Since `CoverOK` says that what
is not on disk is claimed, and `RaceOK` that no shared offset has passed it, what
is settled is on disk (`LedgerTellsDisk`). The rest makes that inductive:

* `ClaimsApart`: no byte is claimed twice, in the queue, in the stash or by a
  worker, but by the participants of one race; a worker's claim includes what a
  steal is about to cut off.
* `ReportsApart`: what the racers have counted and not yet published is disjoint.
  The compare-and-swap on the shared offset is what keeps it so, and `Publish`
  needs both to count each byte once (`ReportIsOwn`).
* `PlacesOK`: a batch lies between `CurrentOffset` and the place reached, and
  below `StopAt` once clamped. This, and `ClaimsApart`, is what the windows of
  `Torn` break.
* `RecordOK`: the runs of a snapshot are disjoint (`RunsApart`) and its complete
  chunks on disk (`CompleteIsOnDisk`), so that a resumed run starts with right
  books (`ResumeLedger`); `EndedOK`: a run that has ended counts nothing more.

`NeverHangsSilently` is the converse, under the same hypotheses:

    ~Torn /\ LeaveOne => (Spec => []NoSilentHang)

Too little counted would be as bad as too much: with the queue empty and every
worker waiting in Pop, the monitor would never see the whole file and nothing
would end the run. The ledger must then hold in the other direction:

* `AllCounted`: a chunk counts at least the bytes of it that nobody owes. When all
  workers wait, nobody holds a task, so nobody owes a byte and `VerifiedProgress`
  is that of the whole file (`NothingOwed`, `WholeIsFull`).
* `BatchesOK`: outside a race, a batch reaches from `CurrentOffset` to the place
  where the worker is, so that `Publish` leaves out nothing it passes
  (`UpdatedCovers`).
* `BehindOK`: nobody in a race is ahead of its shared offset. A byte below the
  offset that nobody has published is in the batch of the racer that moved it;
  `ClampWaits` shows that what a clamp takes off a batch is still some task's.
* `StashOK`: what is stashed off the queue was stashed by a run that is cancelled.

`LifecycleProofs` proves, for any downloads, names, callers, levels and any
numbers of calls, dropped events and crashes:

    Apart => (Spec => []AcceptedSurvives)
    Spec => CompletionWins
    Heard => (Spec => []CheckpointSettles)
    Alternate => (Spec => []RemovedStaysGone)

`Apart` says of every scenario that it has one download, or no removal, or no
resumption and at most one removal of each download, which is true of all those
of the `lifecycle` run. It cannot be dropped: with two downloads and a second
removal of one of them, or a resume beside its removal, TLC finds an accepted
download whose file is gone. The removal that is applied last deletes the working
file under a name (*events.go:783*) that the other download has reserved since.

`AcceptedSurvives` speaks of one download and can only be broken by another, or
by an event that comes late, so its invariant says who has a right to a name. A
download keeps the name it reserved until its removal is applied (`Keeps`); one
file stands there, the working one or the finished one, and it is the keeper's
own, so that no two keep the same name (`NamesOK`). What was accepted has its row
or its finished file, and is completed only with the latter (`RowsOK`). The rest
says that nobody acts for another: the pool and the events know only downloads
that were accepted (`KnownOK`), a removal is under way only if a caller asked for
it (`AskedOK`), where several compete it is in one place, a caller, the queue or
the worker, and its download does not come back to the pool (`OneRemoval`), and
between a crash and the end of startup nothing runs (`DownOK`). The steps are
described in nine groups, from `Reserves` to `Recovers`, by what each may change.

`Heard` is the assumption of `CheckpointSettles`: an HLS download's events are not
dropped when the channel is full, for a dropped pause is the only one that brings
its checkpoint. `Orderly` follows a parked download from the save to the record.
Its pause is with the run (`late`), on the bus before nothing but `Mild` events,
which leave row and detail alone, or `Recorded`. That an older completion does not
make the worker skip it is `Fresh`: the row is not completed and will not be, or
the start of this run is on the bus behind the last completion. `MarkedOK` says
that the fence silences only runs that somebody asked to remove.

`Alternate` is the assumption of `RemovedStaysGone`, which every scenario of the
run meets: each download is removed once, no event of an HLS download is dropped
where some may be removed, and it is resumed only by the caller that removes it and
not before its completion is recorded. TLC finds a counterexample without each part:

* a Resume in another goroutine adds the download again behind the Cancel, which
  holds the per-ID lock that Resume does not take;
* a run resumed before the completion of the last one is recorded makes a new
  working file, the removal finds the row completed and leaves the file alone;
* the removal of a run that finished leaves the file to a completion that was
  dropped;
* after a crash between the deletion of the metadata and of the file, a second
  removal finds nothing to remove, and the file stays until a sweep of its directory.

Of the removal itself the invariant is about what may still come behind its event.
The fence lets Cancel announce the removal when the run has ended and all it owed
is on the bus (`Left`), so only `Mild` events follow, which find no row (`Coming`,
`Applied`). A removal that says the download was done leaves the working file to a
completion before it on the bus (`Promised`, `Cleared`), and this is why a download
that has ended must not be in the pool again (`Over`, `Back`, `Moved`). Where
startup dropped a download before its removal, nothing of it is left (`Blank`).

Only model-checked: all liveness, which is beyond the prover.

## Not modelled

`PROJECT.json` gives a reason for every component. Beside what the sections
above leave out:

* Pool: `UpdateURL` and the rate-limit setters, which change fields no property
  reads; `GetAll` and `GetStatus`, which read; the condition variable.
* Bus: `HasObservers` and `Closed`, which only read. A comment
  (*event_subscription.go:93*) promises lifecycle events priority over progress;
  the model keeps the window between the two selects in which a newer progress
  frame can overtake one, so only `NoStaleProgress` is stated.
* Lifecycle: the probe before the reservation and its semaphore, batches of
  resumes, `UpdateURL`, settings, the progress aggregator, file hashes.
* Ranges: the payload-first session, mirrors, rate limits, speed tiers, scaling
  up, the soft-403 and no-progress fuses.
* Admission: start, stop and kicks of the loop (which a test covers); the
  retained tickets and the answers `AdmitUnavailable` and `AlreadyAdmitted`, which
  the one controller of a pool never meets; aria2 rows; cold-scope limits, worker
  headroom and several scopes, which repeat the shape of the modelled checks.

## Plan

1. `WorkerWakeup`: `taskCond`, Signal and Broadcast, the retry timer and its
   generation: no eligible entry is left with every worker asleep.
2. The generations of the extractor's runtime manager, the hybrid engine's
   `WsClient` and its reconnects, `BandwidthLedger`.
3. Direct batches and their pending table beside `IdempotencyCache`.
