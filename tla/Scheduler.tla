------------------------------ MODULE Scheduler ------------------------------
(***************************************************************************)
(* The download pool of internal/surge/scheduler (scheduler.go): a FIFO    *)
(* queue of opportunities, a fixed set of worker goroutines that claim     *)
(* them and run RunDownload, and the operations other goroutines call      *)
(* meanwhile: Add, Admit, Pause, Cancel, ExtractPausedConfig followed by   *)
(* Add (a resume), and GracefulShutdown.                                   *)
(*                                                                         *)
(* One action is one critical section of p.mu, or one step between two of  *)
(* them.  An opportunity is named by the token the pool mints for it; the  *)
(* queuedTask, the busy slot and the activeDownload of one opportunity are *)
(* told apart by that token.  A ProgressState survives retries and         *)
(* resumes: it is named by the first token of its lineage (its root).      *)
(***************************************************************************)
EXTENDS Integers, FiniteSets

CONSTANTS Ids,        \* download IDs
          Hls,        \* the IDs whose strategy is HLS
          Workers,    \* worker goroutines; as many as the pool's capacity
          Callers,    \* goroutines that call Pause, Cancel and resume
          Shut,       \* the caller that runs GracefulShutdown
          Ops,        \* operations the callers use; "fill": a run can have
                      \* all its bytes before it returns
          Managed,    \* claims need an Admit first
          MaxRetries, \* requeues of a failed download (10 in the code)
          MaxToken    \* the last token the pool can mint

ASSUME PoolAssumption ==
  /\ Hls \subseteq Ids
  /\ Shut \in Callers
  /\ Ops \subseteq {"pause", "cancel", "resume", "shutdown", "fill"}
  /\ Managed \in BOOLEAN
  /\ MaxRetries \in Nat
  /\ MaxToken \in Nat
  /\ IsFiniteSet(Workers)
  /\ IsFiniteSet(Ids)

Tokens == 1..MaxToken
None == 0

VARIABLES
  queued,     \* p.queued: the entry of each queued ID.  p.queueOrder is the
              \* order of their tokens: an ID is appended where one is minted
  downloads,  \* p.downloads: the token of the active entry of each ID, or None
  busy,       \* p.busy: the tokens of unsettled claims
  last,       \* p.lastToken
  info,       \* what each token was minted for
  wg,         \* the counter of p.wg
  \* sets of tokens: facts about each token's activeDownload
  registered, \* it exists
  ended,      \* done is closed and running is false
  ctx,        \* its context is cancelled
  removed,    \* hlsRemoved
  \* sets of roots: the flags of each ProgressState
  paused, pausing, finished,
  full,       \* verified bytes have reached the total
  \* workers
  wpc, wtok, wnew, wres,
  \* callers
  cpc, ctok, cclaims, cgone,
  \* shutdown
  sd, todo,
  \* history: tokens whose removal has been announced, and those of them that
  \* published an event afterwards
  gone, late

pool == <<queued, downloads, busy, last, info, wg>>
ads == <<registered, ended, ctx, removed>>
flags == <<paused, pausing, finished, full>>
workers == <<wpc, wtok, wnew, wres>>
callers == <<cpc, ctok, cclaims, cgone>>
shutdown == <<sd, todo>>
history == <<gone, late>>
vars == <<pool, ads, flags, workers, callers, shutdown, history>>

\* A queuedTask; due: retryAt has passed
Entry == [tok: Tokens \cup {None}, inFlight: BOOLEAN, due: BOOLEAN, admitted: BOOLEAN]
Task(tok, inFlight, due, admitted) ==
  [tok |-> tok, inFlight |-> inFlight, due |-> due, admitted |-> admitted]
NotQueued == Task(None, FALSE, FALSE, FALSE)
Info == [id: Ids, root: Tokens, tries: 0..MaxRetries]

WorkerPCs == {"idle", "claimed", "running", "returned", "success", "pause",
              "pfence", "error", "requeued", "rqsend", "rqdone", "terminal", "tail"}
CallerPCs == {"idle", "pcheck", "pmark", "pset", "cstop", "cwait", "ccross", "readd"}
Phases == {"up", "pausing", "polling", "waiting", "draining", "done"}
Outcomes == {"ok", "retry", "perm", "cancelled", "paused"}

IdOf(t) == info[t].id
RootOf(t) == info[t].root
IsHls(t) == IdOf(t) \in Hls
IsQueued(id) == queued[id].tok # None
Stopping == sd \in {"polling", "waiting", "draining", "done"}
Running == registered \ ended

Init ==
  /\ queued = [id \in Ids |-> NotQueued]
  /\ downloads = [id \in Ids |-> None]
  /\ busy = {}
  /\ last = 0
  /\ info = [t \in {} |-> None]
  /\ wg = 0
  /\ registered = {} /\ ended = {} /\ ctx = {} /\ removed = {}
  /\ paused = {} /\ pausing = {} /\ finished = {} /\ full = {}
  /\ wpc = [w \in Workers |-> "idle"]
  /\ wtok = [w \in Workers |-> None]
  /\ wnew = [w \in Workers |-> None]
  /\ wres = [w \in Workers |-> "ok"]
  /\ cpc = [c \in Callers |-> "idle"]
  /\ ctok = [c \in Callers |-> None]
  /\ cclaims = [c \in Callers |-> {}]
  /\ cgone = [c \in Callers |-> {}]
  /\ sd = "up"
  /\ todo = {}
  /\ gone = {}
  /\ late = {}

-----------------------------------------------------------------------------
(* The queue. *)

\* committedSlotsLocked
Waiting == {id \in Ids : queued[id].admitted /\ ~queued[id].inFlight}
Committed == Cardinality(busy) + Cardinality(Waiting)

\* allocTokenLocked, and the queue insert of Add (tries = 0) and of a retry,
\* which stays in flight and waits for its retryAt
Mint(id, root, tries) ==
  /\ last < MaxToken
  /\ last' = last + 1
  /\ info' = [t \in 1..(last + 1) |->
                IF t = last + 1 THEN [id |-> id, root |-> root, tries |-> tries]
                ELSE info[t]]
  /\ queued' = [queued EXCEPT ![id] = Task(last + 1, tries > 0, tries = 0, FALSE)]

\* Defect: only the queue is searched for the ID.
Addable_QueueOnly(id) == ~Stopping /\ ~IsQueued(id)

\* Defect: Add does not look at isShuttingDown.
Addable_Stopping(id) == ~IsQueued(id) /\ downloads[id] = None

\* Add: refused while stopping and while the ID is queued or active.
Addable(id) == ~Stopping /\ ~IsQueued(id) /\ downloads[id] = None

AddEntry(id, root) ==
  /\ Addable(id)
  /\ Mint(id, root, 0)
  /\ wg' = wg + 1
  /\ UNCHANGED <<downloads, busy>>

AddNew(id) ==
  /\ AddEntry(id, last + 1)
  /\ UNCHANGED <<ads, flags, workers, callers, shutdown, history>>

\* Defect: the slots already promised are not counted.
Admit_BusyOnly(id) ==
  /\ Managed
  /\ ~Stopping
  /\ IsQueued(id)
  /\ ~queued[id].admitted
  /\ ~queued[id].inFlight
  /\ queued[id].due
  /\ Cardinality(busy) < Cardinality(Workers)
  /\ queued' = [queued EXCEPT ![id] = Task(@.tok, FALSE, TRUE, TRUE)]
  /\ UNCHANGED <<downloads, busy, last, info, wg,
                 ads, flags, workers, callers, shutdown, history>>

\* Admit, where it changes something
Admit(id) ==
  /\ Managed
  /\ ~Stopping
  /\ IsQueued(id)
  /\ ~queued[id].admitted
  /\ ~queued[id].inFlight
  /\ queued[id].due
  /\ queued[id].tok \notin busy
  /\ Committed < Cardinality(Workers)
  /\ queued' = [queued EXCEPT ![id] = Task(@.tok, FALSE, TRUE, TRUE)]
  /\ UNCHANGED <<downloads, busy, last, info, wg,
                 ads, flags, workers, callers, shutdown, history>>

\* retryAt passes
Ripen(id) ==
  /\ IsQueued(id)
  /\ ~queued[id].due
  /\ queued' = [queued EXCEPT ![id] = Task(@.tok, @.inFlight, TRUE, @.admitted)]
  /\ UNCHANGED <<downloads, busy, last, info, wg,
                 ads, flags, workers, callers, shutdown, history>>

\* Defect: the remover settles the count of an entry in flight, too.
Dequeue_CountsTwice(id) ==
  /\ queued' = [queued EXCEPT ![id] = NotQueued]
  /\ wg' = IF IsQueued(id) THEN wg - 1 ELSE wg

\* A queued entry leaves; whoever takes it out settles its wait-group count
\* unless a worker has it in flight.
Dequeue(id) ==
  /\ queued' = [queued EXCEPT ![id] = NotQueued]
  /\ wg' = IF IsQueued(id) /\ ~queued[id].inFlight THEN wg - 1 ELSE wg

-----------------------------------------------------------------------------
(* A worker, from the claim to the start of the run. *)

\* Defect: an entry in flight can be claimed again.
Eligible_InFlight(id) ==
  /\ IsQueued(id)
  /\ queued[id].due
  /\ Managed => queued[id].admitted

Eligible(id) ==
  /\ IsQueued(id)
  /\ ~queued[id].inFlight
  /\ queued[id].due
  /\ Managed => queued[id].admitted

\* waitForTask: the first eligible entry in FIFO order
Claim(w) ==
  /\ wpc[w] = "idle"
  /\ ~Stopping
  /\ \E id \in Ids :
       /\ Eligible(id)
       /\ \A other \in Ids : Eligible(other) => queued[id].tok <= queued[other].tok
       /\ queued' = [queued EXCEPT ![id] = Task(@.tok, TRUE, TRUE, @.admitted)]
       /\ busy' = busy \cup {queued[id].tok}
       /\ wtok' = [wtok EXCEPT ![w] = queued[id].tok]
  /\ wpc' = [wpc EXCEPT ![w] = "claimed"]
  /\ UNCHANGED <<downloads, last, info, wg, wnew, wres,
                 ads, flags, callers, shutdown, history>>

\* releaseBusyLocked and wg.Done, where the claim ends
Release(w) ==
  /\ busy' = busy \ {wtok[w]}
  /\ wg' = wg - 1
  /\ wpc' = [wpc EXCEPT ![w] = "idle"]
  /\ wtok' = [wtok EXCEPT ![w] = None]
  /\ UNCHANGED <<wnew, wres>>

\* The claimed entry is no longer this queuedTask.
Void(w) ==
  /\ wpc[w] = "claimed"
  /\ queued[IdOf(wtok[w])].tok # wtok[w]
  /\ Release(w)
  /\ UNCHANGED <<queued, downloads, last, info,
                 ads, flags, callers, shutdown, history>>

\* The claim becomes the active entry of its ID.  The code also refuses when
\* the ID already has an active entry; SoleOwner shows that cannot be.
Register(w) ==
  /\ wpc[w] = "claimed"
  /\ queued[IdOf(wtok[w])].tok = wtok[w]
  /\ queued' = [queued EXCEPT ![IdOf(wtok[w])] = NotQueued]
  /\ downloads' = [downloads EXCEPT ![IdOf(wtok[w])] = wtok[w]]
  /\ registered' = registered \cup {wtok[w]}
  /\ wpc' = [wpc EXCEPT ![w] = "running"]
  /\ UNCHANGED <<busy, last, info, wg, ended, ctx, removed, wtok, wnew, wres,
                 flags, callers, shutdown, history>>

\* An event on the shared stream
Publish(t) ==
  /\ late' = IF t \in gone THEN late \cup {t} ELSE late
  /\ UNCHANGED gone

\* The last byte is verified.
Fill(w) ==
  /\ "fill" \in Ops
  /\ wpc[w] = "running"
  /\ RootOf(wtok[w]) \notin full
  /\ full' = full \cup {RootOf(wtok[w])}
  /\ UNCHANGED <<paused, pausing, finished,
                 pool, ads, workers, callers, shutdown, history>>

\* Defect: done is never closed.
RunReturns_NeverClosed(w, res) ==
  /\ wpc[w] = "running"
  /\ wres' = [wres EXCEPT ![w] = res]
  /\ wpc' = [wpc EXCEPT ![w] = "returned"]
  /\ UNCHANGED <<wtok, wnew, pool, ads, flags, callers, shutdown, history>>

\* RunDownload returns, having published events of its own; done is closed.
RunReturns(w, res) ==
  /\ wpc[w] = "running"
  /\ res = "cancelled" => wtok[w] \in ctx
  /\ res = "paused" => RootOf(wtok[w]) \in paused
  /\ ended' = ended \cup {wtok[w]}
  /\ wres' = [wres EXCEPT ![w] = res]
  /\ wpc' = [wpc EXCEPT ![w] = "returned"]
  /\ Publish(wtok[w])
  /\ UNCHANGED <<registered, ctx, removed, wtok, wnew,
                 pool, flags, callers, shutdown>>

-----------------------------------------------------------------------------
(* A worker, after the run. *)

\* An HLS failure under a cancelled context counts as the cancel.
Identity(w) ==
  IF IsHls(wtok[w]) /\ wtok[w] \in ctx /\ wres[w] \in {"retry", "perm"}
  THEN "cancelled" ELSE wres[w]

IsPauseResult(w) ==
  \/ wres[w] = "paused"
  \/ Identity(w) = "cancelled" /\ RootOf(wtok[w]) \in paused

Branch(w) == CASE wres[w] = "ok" -> "success"
               [] IsPauseResult(w) -> "pause"
               [] OTHER -> "error"

\* Reads the flags; opens the pausing gate except for an HLS pause.
Classify(w) ==
  /\ wpc[w] = "returned"
  /\ wres' = [wres EXCEPT ![w] = Identity(w)]
  /\ wpc' = [wpc EXCEPT ![w] = Branch(w)]
  /\ pausing' = IF IsPauseResult(w) /\ IsHls(wtok[w]) THEN pausing
                ELSE pausing \ {RootOf(wtok[w])}
  /\ UNCHANGED <<wtok, wnew, paused, finished, full,
                 pool, ads, callers, shutdown, history>>

OwnsSlot(w) == downloads[IdOf(wtok[w])] = wtok[w]

DropSlot(w) ==
  downloads' = IF OwnsSlot(w) THEN [downloads EXCEPT ![IdOf(wtok[w])] = None]
               ELSE downloads

Success(w) ==
  /\ wpc[w] = "success"
  /\ paused' = paused \ {RootOf(wtok[w])}
  /\ finished' = finished \cup {RootOf(wtok[w])}
  /\ DropSlot(w)
  /\ wpc' = [wpc EXCEPT ![w] = "tail"]
  /\ UNCHANGED <<queued, busy, last, info, wg, pausing, full, wtok, wnew, wres,
                 ads, callers, shutdown, history>>

\* The entry stays in downloads for a resume.  A run that returned ErrPaused
\* has published its own event.
PauseSend(w) ==
  /\ wpc[w] = "pause"
  /\ ~IsHls(wtok[w])
  /\ IF wres[w] = "paused" THEN UNCHANGED history ELSE Publish(wtok[w])
  /\ wpc' = [wpc EXCEPT ![w] = "tail"]
  /\ UNCHANGED <<wtok, wnew, wres, pool, ads, flags, callers, shutdown>>

\* hlsEventMu is held in "pfence", and for HLS in "rqsend" and "terminal".
PauseFence(w) ==
  /\ wpc[w] = "pause"
  /\ IsHls(wtok[w])
  /\ wpc' = [wpc EXCEPT ![w] = "pfence"]
  /\ UNCHANGED <<wtok, wnew, wres, pool, ads, flags, callers, shutdown, history>>

PausePublish(w) ==
  /\ wpc[w] = "pfence"
  /\ pausing' = pausing \ {RootOf(wtok[w])}
  /\ IF wtok[w] \in removed THEN UNCHANGED history ELSE Publish(wtok[w])
  /\ wpc' = [wpc EXCEPT ![w] = "tail"]
  /\ UNCHANGED <<wtok, wnew, wres, paused, finished, full,
                 pool, ads, callers, shutdown>>

\* Another entry holds the ID.
Taken(w) ==
  \/ IsQueued(IdOf(wtok[w]))
  \/ downloads[IdOf(wtok[w])] \notin {None, wtok[w]}

Detached(w) == ~OwnsSlot(w) /\ ~Taken(w)

HlsClaimed(w) == IsHls(wtok[w]) /\ wtok[w] \in removed \cup ctx

\* Defect: failed downloads are retried during shutdown.
Retryable_Stopping(w) ==
  /\ wres[w] = "retry"
  /\ ~HlsClaimed(w) /\ ~Detached(w) /\ ~Taken(w)
  /\ info[wtok[w]].tries < MaxRetries
  /\ last < MaxToken

Retryable(w) ==
  /\ wres[w] = "retry"
  /\ ~HlsClaimed(w) /\ ~Detached(w) /\ ~Taken(w)
  /\ ~Stopping
  /\ info[wtok[w]].tries < MaxRetries
  /\ last < MaxToken

\* The retry opportunity stays in flight while EventQueued is sent.
Requeue(w) ==
  /\ wpc[w] = "error"
  /\ Retryable(w)
  /\ Mint(IdOf(wtok[w]), RootOf(wtok[w]), info[wtok[w]].tries + 1)
  /\ DropSlot(w)
  /\ wnew' = [wnew EXCEPT ![w] = last + 1]
  /\ wpc' = [wpc EXCEPT ![w] = "requeued"]
  /\ UNCHANGED <<busy, wg, wtok, wres, ads, flags, callers, shutdown, history>>

\* Defect: the removal marker is not read again inside the fence.
RequeueCheck_Blind(w) ==
  /\ wpc[w] = "requeued"
  /\ wpc' = [wpc EXCEPT ![w] = "rqsend"]
  /\ UNCHANGED <<wtok, wnew, wres, pool, ads, flags, callers, shutdown, history>>

RequeueCheck(w) ==
  /\ wpc[w] = "requeued"
  /\ wpc' = [wpc EXCEPT ![w] = IF HlsClaimed(w) THEN "rqdone" ELSE "rqsend"]
  /\ UNCHANGED <<wtok, wnew, wres, pool, ads, flags, callers, shutdown, history>>

RequeueSend(w) ==
  /\ wpc[w] = "rqsend"
  /\ Publish(wtok[w])
  /\ wpc' = [wpc EXCEPT ![w] = "rqdone"]
  /\ UNCHANGED <<wtok, wnew, wres, pool, ads, flags, callers, shutdown>>

EndRequeue(w) ==
  /\ wpc[w] = "rqdone"
  /\ busy' = busy \ {wtok[w]}
  /\ wpc' = [wpc EXCEPT ![w] = "idle"]
  /\ wtok' = [wtok EXCEPT ![w] = None]
  /\ wnew' = [wnew EXCEPT ![w] = None]
  /\ UNCHANGED <<downloads, last, info, wres, ads, flags, callers, shutdown, history>>

\* The requeued entry becomes claimable.
RequeueDone(w) ==
  /\ EndRequeue(w)
  /\ \E id \in Ids :
       /\ queued[id].tok = wnew[w]
       /\ queued' = [queued EXCEPT ![id] = Task(@.tok, FALSE, @.due, @.admitted)]
  /\ UNCHANGED wg

\* Someone took it out meanwhile and left its count to the worker.
RequeueLost(w) ==
  /\ EndRequeue(w)
  /\ \A id \in Ids : queued[id].tok # wnew[w]
  /\ wg' = wg - 1
  /\ UNCHANGED queued

\* A replacement owns the ID: settle silently.
SettleStale(w) ==
  /\ wpc[w] = "error"
  /\ ~Retryable(w)
  /\ Taken(w)
  /\ Release(w)
  /\ DropSlot(w)
  /\ UNCHANGED <<queued, last, info, ads, flags, callers, shutdown, history>>

\* The failure is final and the ID has no other owner.
Ends(w) == wpc[w] = "error" /\ ~Retryable(w) /\ ~Taken(w)

\* A cancelled or detached claim ends without an event.
Silent(w) == wres[w] = "cancelled" \/ Detached(w) \/ HlsClaimed(w)

Terminal(w) ==
  /\ Ends(w)
  /\ wpc' = [wpc EXCEPT ![w] = IF Silent(w) THEN "tail" ELSE "terminal"]
  /\ DropSlot(w)
  /\ UNCHANGED <<queued, busy, last, info, wg, wtok, wnew, wres,
                 ads, flags, callers, shutdown, history>>

TerminalSend(w) ==
  /\ wpc[w] = "terminal"
  /\ Publish(wtok[w])
  /\ wpc' = [wpc EXCEPT ![w] = "tail"]
  /\ UNCHANGED <<wtok, wnew, wres, pool, ads, flags, callers, shutdown>>

\* The shared tail
Settle(w) ==
  /\ wpc[w] = "tail"
  /\ Release(w)
  /\ UNCHANGED <<queued, downloads, last, info,
                 ads, flags, callers, shutdown, history>>

HoldsFence(w, t) ==
  wtok[w] = t /\ IsHls(t) /\ wpc[w] \in {"pfence", "rqsend", "terminal"}

-----------------------------------------------------------------------------
(* Pause.  Shut pauses the IDs of its todo list, the other callers any ID. *)

MayPause(c, id) ==
  /\ cpc[c] = "idle"
  /\ IF c = Shut THEN id \in todo ELSE "pause" \in Ops

\* A queued entry is removed.
PauseQueued(c, id) ==
  /\ MayPause(c, id)
  /\ IsQueued(id)
  /\ Dequeue(id)
  /\ todo' = IF c = Shut THEN todo \ {id} ELSE todo
  /\ UNCHANGED <<downloads, busy, last, info, sd,
                 ads, flags, workers, callers, history>>

PauseFind(c, id) ==
  /\ MayPause(c, id)
  /\ ~IsQueued(id)
  /\ downloads[id] # None
  /\ cpc' = [cpc EXCEPT ![c] = "pcheck"]
  /\ ctok' = [ctok EXCEPT ![c] = downloads[id]]
  /\ todo' = IF c = Shut THEN todo \ {id} ELSE todo
  /\ UNCHANGED <<cclaims, cgone, sd, pool, ads, flags, workers, history>>

\* Shut: the download of a listed ID is gone.
PauseNothing(id) ==
  /\ cpc[Shut] = "idle"
  /\ id \in todo
  /\ ~IsQueued(id)
  /\ downloads[id] = None
  /\ todo' = todo \ {id}
  /\ UNCHANGED <<sd, pool, ads, flags, workers, callers, history>>

Leave(c) ==
  /\ cpc' = [cpc EXCEPT ![c] = "idle"]
  /\ ctok' = [ctok EXCEPT ![c] = None]
  /\ UNCHANGED <<cclaims, cgone>>

\* Completed or paused already: nothing to do.
PauseSkips(c) ==
  /\ cpc[c] = "pcheck"
  /\ RootOf(ctok[c]) \in finished \cup full \cup paused
  /\ Leave(c)
  /\ UNCHANGED <<pool, ads, flags, workers, shutdown, history>>

\* Another Pause is under way: make sure the context is cancelled.
PauseJoins(c) ==
  /\ cpc[c] = "pcheck"
  /\ RootOf(ctok[c]) \notin finished \cup full \cup paused
  /\ RootOf(ctok[c]) \in pausing
  /\ ctx' = ctx \cup {ctok[c]}
  /\ Leave(c)
  /\ UNCHANGED <<registered, ended, removed, pool, flags, workers, shutdown, history>>

PauseMark(c) ==
  /\ cpc[c] = "pcheck"
  /\ RootOf(ctok[c]) \notin finished \cup full \cup paused \cup pausing
  /\ cpc' = [cpc EXCEPT ![c] = "pmark"]
  /\ UNCHANGED <<ctok, cclaims, cgone, pool, ads, flags, workers, shutdown, history>>

PauseGate(c) ==
  /\ cpc[c] = "pmark"
  /\ pausing' = pausing \cup {RootOf(ctok[c])}
  /\ cpc' = [cpc EXCEPT ![c] = "pset"]
  /\ UNCHANGED <<ctok, cclaims, cgone, paused, finished, full,
                 pool, ads, workers, shutdown, history>>

\* cancelFunc belongs to the latest run of the ProgressState.
LatestRun(root) ==
  {t \in registered : /\ RootOf(t) = root
                      /\ \A u \in registered : RootOf(u) = root => u <= t}

PauseSet(c) ==
  /\ cpc[c] = "pset"
  /\ paused' = paused \cup {RootOf(ctok[c])}
  /\ ctx' = ctx \cup {ctok[c]} \cup LatestRun(RootOf(ctok[c]))
  /\ Leave(c)
  /\ UNCHANGED <<registered, ended, removed, pausing, finished, full,
                 pool, workers, shutdown, history>>

-----------------------------------------------------------------------------
(* Cancel. *)

TokensOf(id) == {t \in 1..last : IdOf(t) = id}

\* The HLS claims of the ID: the active entry and the unsettled runs.
HlsClaims(id) ==
  {t \in registered : /\ IdOf(t) = id
                      /\ IsHls(t)
                      /\ t = downloads[id] \/ t \in busy}

\* One critical section detaches the ID and marks its HLS claims.
CancelLock(c, id) ==
  /\ "cancel" \in Ops
  /\ c # Shut
  /\ cpc[c] = "idle"
  /\ TokensOf(id) \ gone # {}
  /\ downloads' = [downloads EXCEPT ![id] = None]
  /\ Dequeue(id)
  /\ removed' = removed \cup HlsClaims(id)
  /\ cclaims' = [cclaims EXCEPT ![c] = HlsClaims(id) \cup ({downloads[id]} \ {None})]
  /\ cgone' = [cgone EXCEPT ![c] = TokensOf(id)]
  /\ cpc' = [cpc EXCEPT ![c] = "cstop"]
  /\ UNCHANGED <<ctok, busy, last, info, registered, ended, ctx,
                 flags, workers, shutdown, history>>

\* Defect: only HLS claims are cancelled.
CancelStop_HlsOnly(c) ==
  /\ cpc[c] = "cstop"
  /\ ctx' = ctx \cup {t \in cclaims[c] : IsHls(t)}
  /\ cclaims' = [cclaims EXCEPT ![c] = {t \in @ : IsHls(t)}]
  /\ cpc' = [cpc EXCEPT ![c] = "cwait"]
  /\ UNCHANGED <<ctok, cgone, registered, ended, removed,
                 pool, flags, workers, shutdown, history>>

CancelStop(c) ==
  /\ cpc[c] = "cstop"
  /\ ctx' = ctx \cup cclaims[c]
  /\ cclaims' = [cclaims EXCEPT ![c] = {t \in @ : IsHls(t)}]
  /\ cpc' = [cpc EXCEPT ![c] = "cwait"]
  /\ UNCHANGED <<ctok, cgone, registered, ended, removed,
                 pool, flags, workers, shutdown, history>>

\* The wait for HLS claims has no bound; the one for another run gives up
\* after cancelStopWaitTimeout, so the model does not wait for it.
CancelWait(c) ==
  /\ cpc[c] = "cwait"
  /\ cclaims[c] \subseteq ended
  /\ cpc' = [cpc EXCEPT ![c] = "ccross"]
  /\ UNCHANGED <<ctok, cclaims, cgone, pool, ads, flags, workers, shutdown, history>>

CancelCross(c, t) ==
  /\ cpc[c] = "ccross"
  /\ t \in cclaims[c]
  /\ \A w \in Workers : ~HoldsFence(w, t)
  /\ cclaims' = [cclaims EXCEPT ![c] = @ \ {t}]
  /\ UNCHANGED <<cpc, ctok, cgone, pool, ads, flags, workers, shutdown, history>>

\* Cancel returns and its caller publishes EventRemoved.
CancelReturn(c) ==
  /\ cpc[c] = "ccross"
  /\ cclaims[c] = {}
  /\ gone' = gone \cup cgone[c]
  /\ cgone' = [cgone EXCEPT ![c] = {}]
  /\ cpc' = [cpc EXCEPT ![c] = "idle"]
  /\ UNCHANGED <<ctok, cclaims, late, pool, ads, flags, workers, shutdown>>

-----------------------------------------------------------------------------
(* Resume of a paused download: ExtractPausedConfig, then Add. *)

Extract(c, id) ==
  /\ "resume" \in Ops
  /\ c # Shut
  /\ cpc[c] = "idle"
  /\ downloads[id] # None
  /\ RootOf(downloads[id]) \in paused \ pausing
  /\ cpc' = [cpc EXCEPT ![c] = "readd"]
  /\ ctok' = [ctok EXCEPT ![c] = downloads[id]]
  /\ downloads' = [downloads EXCEPT ![id] = None]
  /\ paused' = paused \ {RootOf(downloads[id])}
  /\ UNCHANGED <<cclaims, cgone, queued, busy, last, info, wg,
                 pausing, finished, full, ads, workers, shutdown, history>>

ReAdd(c) ==
  /\ cpc[c] = "readd"
  /\ AddEntry(IdOf(ctok[c]), RootOf(ctok[c]))
  /\ Leave(c)
  /\ UNCHANGED <<ads, flags, workers, shutdown, history>>

\* Add refuses; the model also stops here when it has run out of tokens.
ReAddRefused(c) ==
  /\ cpc[c] = "readd"
  /\ ~Addable(IdOf(ctok[c])) \/ last = MaxToken
  /\ Leave(c)
  /\ UNCHANGED <<pool, ads, flags, workers, shutdown, history>>

-----------------------------------------------------------------------------
(* GracefulShutdown, by Shut. *)

Moves(id) ==
  /\ downloads[id] # None
  /\ RootOf(downloads[id]) \notin paused \cup pausing \cup finished

\* PauseAll lists the downloads that are neither paused, pausing nor done.
ShutStart ==
  /\ "shutdown" \in Ops
  /\ sd = "up"
  /\ sd' = "pausing"
  /\ todo' = {id \in Ids : Moves(id)}
  /\ UNCHANGED <<pool, ads, flags, workers, callers, history>>

\* PauseAll has returned: the queue is emptied and the pool stops.
ShutSweep ==
  /\ sd = "pausing"
  /\ todo = {}
  /\ cpc[Shut] = "idle"
  /\ queued' = [id \in Ids |-> NotQueued]
  /\ wg' = wg - Cardinality({id \in Ids : IsQueued(id) /\ ~queued[id].inFlight})
  /\ sd' = "polling"
  /\ UNCHANGED <<todo, downloads, busy, last, info,
                 ads, flags, workers, callers, history>>

IsPausing(id) == downloads[id] # None /\ RootOf(downloads[id]) \in pausing

\* A download that is pausing although nobody runs it any more
ShutNormalise(id) ==
  /\ sd = "polling"
  /\ IsPausing(id)
  /\ downloads[id] \in ended
  /\ pausing' = pausing \ {RootOf(downloads[id])}
  /\ UNCHANGED <<paused, finished, full, pool, ads, workers, callers, shutdown, history>>

\* No download is pausing, or the hard timeout has passed.
ShutPolled ==
  /\ sd = "polling"
  /\ \A id \in Ids : ~IsPausing(id)
  /\ sd' = "waiting"
  /\ UNCHANGED <<todo, pool, ads, flags, workers, callers, history>>

ShutForced ==
  /\ sd = "polling"
  /\ \E id \in Ids : IsPausing(id)
  /\ sd' = "waiting"
  /\ UNCHANGED <<todo, pool, ads, flags, workers, callers, history>>

\* wg.Wait
ShutWaited ==
  /\ sd = "waiting"
  /\ wg = 0
  /\ sd' = "draining"
  /\ UNCHANGED <<todo, pool, ads, flags, workers, callers, history>>

ShutDrained ==
  /\ sd = "draining"
  /\ busy = {}
  /\ sd' = "done"
  /\ UNCHANGED <<todo, pool, ads, flags, workers, callers, history>>

-----------------------------------------------------------------------------
WorkerStep(w) ==
  \/ Claim(w) \/ Void(w) \/ Register(w) \/ Fill(w)
  \/ \E res \in Outcomes : RunReturns(w, res)
  \/ Classify(w) \/ Success(w) \/ PauseSend(w) \/ PauseFence(w) \/ PausePublish(w)
  \/ Requeue(w) \/ RequeueCheck(w) \/ RequeueSend(w) \/ RequeueDone(w)
  \/ RequeueLost(w)
  \/ SettleStale(w) \/ Terminal(w) \/ TerminalSend(w) \/ Settle(w)

CallerStep(c) ==
  \/ \E id \in Ids : PauseQueued(c, id) \/ PauseFind(c, id)
                     \/ CancelLock(c, id) \/ Extract(c, id)
  \/ PauseSkips(c) \/ PauseJoins(c) \/ PauseMark(c) \/ PauseGate(c) \/ PauseSet(c)
  \/ CancelStop(c) \/ CancelWait(c) \/ CancelReturn(c)
  \/ \E t \in Tokens : CancelCross(c, t)
  \/ ReAdd(c) \/ ReAddRefused(c)

ShutStep ==
  \/ \E id \in Ids : PauseNothing(id) \/ ShutNormalise(id)
  \/ ShutStart \/ ShutSweep \/ ShutPolled \/ ShutForced \/ ShutWaited \/ ShutDrained

Next ==
  \/ \E id \in Ids : AddNew(id) \/ Admit(id) \/ Ripen(id)
  \/ \E w \in Workers : WorkerStep(w)
  \/ \E c \in Callers : CallerStep(c)
  \/ ShutStep

Spec == Init /\ [][Next]_vars

\* Goroutines keep going; a run ends once its context is cancelled.
CancelledRunReturns(w) ==
  wtok[w] \in ctx /\ \E res \in Outcomes : RunReturns(w, res)

AfterRun(w) ==
  \/ wpc[w] = "running" /\ CancelledRunReturns(w)
  \/ wpc[w] \notin {"idle", "running"} /\ WorkerStep(w)

\* The rest of a call that has started
CallProceeds(c) == cpc[c] # "idle" /\ CallerStep(c)

ShutProceeds ==
  /\ sd \notin {"up", "done"}
  /\ ShutStep \/ \E id \in todo : PauseQueued(Shut, id) \/ PauseFind(Shut, id)

Fairness ==
  /\ \A w \in Workers : WF_vars(AfterRun(w))
  /\ \A c \in Callers : WF_vars(CallProceeds(c))
  /\ WF_vars(ShutProceeds)

FairSpec == Spec /\ Fairness

-----------------------------------------------------------------------------
(* Properties. *)

PoolType ==
  /\ queued \in [Ids -> Entry]
  /\ downloads \in [Ids -> Tokens \cup {None}]
  /\ busy \subseteq Tokens
  /\ last \in 0..MaxToken
  /\ info \in [1..last -> Info]
  /\ wg \in Int

AdType ==
  /\ registered \subseteq Tokens
  /\ ended \subseteq registered
  /\ ctx \subseteq registered
  /\ removed \subseteq registered

FlagType ==
  /\ paused \subseteq Tokens /\ pausing \subseteq Tokens
  /\ finished \subseteq Tokens /\ full \subseteq Tokens

WorkerType ==
  /\ wpc \in [Workers -> WorkerPCs]
  /\ wtok \in [Workers -> Tokens \cup {None}]
  /\ wnew \in [Workers -> Tokens \cup {None}]
  /\ wres \in [Workers -> Outcomes]

CallerType ==
  /\ cpc \in [Callers -> CallerPCs]
  /\ ctok \in [Callers -> Tokens \cup {None}]
  /\ cclaims \in [Callers -> SUBSET Tokens]
  /\ cgone \in [Callers -> SUBSET Tokens]

OtherType ==
  /\ sd \in Phases
  /\ todo \subseteq Ids
  /\ gone \subseteq Tokens
  /\ late \subseteq gone

TypeOK ==
  PoolType /\ AdType /\ FlagType /\ WorkerType /\ CallerType /\ OtherType

\* What each token and entry is, relative to the workers that hold them
EntriesOK ==
  /\ registered \subseteq 1..last
  /\ \A id \in Ids :
       /\ IsQueued(id) => /\ queued[id].tok <= last
                          /\ IdOf(queued[id].tok) = id
                          /\ queued[id].tok \notin registered
       /\ ~IsQueued(id) => queued[id] = NotQueued
       /\ downloads[id] # None => /\ downloads[id] \in registered
                                  /\ IdOf(downloads[id]) = id

\* An entry is in flight exactly while a worker has claimed it or is settling
\* the run it retries; that worker is the one that names its token.
InFlightOK ==
  \A id \in Ids :
    IsQueued(id) =>
      /\ queued[id].inFlight <=>
           \E w \in Workers : \/ wpc[w] = "claimed" /\ wtok[w] = queued[id].tok
                              \/ wnew[w] = queued[id].tok
      /\ \A w \in Workers : wtok[w] = queued[id].tok => wpc[w] = "claimed"

Requeueing == {"requeued", "rqsend", "rqdone"}

WorkersOK ==
  \A w \in Workers :
    /\ wtok[w] = None <=> wpc[w] = "idle"
    /\ wtok[w] <= last
    /\ wpc[w] \notin {"idle", "claimed"} => wtok[w] \in registered
    /\ wpc[w] = "claimed" => wtok[w] \notin registered
    /\ wnew[w] # None <=> wpc[w] \in Requeueing
    /\ wnew[w] <= last /\ wnew[w] \notin registered
    /\ \A v \in Workers : wnew[w] # None => wtok[v] # wnew[w]
                                            /\ (wnew[v] = wnew[w] => v = w)

CallersOK ==
  \A c \in Callers :
    /\ cclaims[c] \subseteq registered
    /\ cpc[c] \in {"pcheck", "pmark", "pset", "readd"} => ctok[c] \in registered

\* An ID is never queued and active at once: the branch of the worker loop
\* that drops a claim because its ID is occupied is dead, and a retry never
\* takes the place of a newer entry.
SoleOwner ==
  \A id \in Ids : IsQueued(id) => downloads[id] = None

\* Every busy slot is the claim of exactly one worker, which settles it once:
\* no slot leaks, and none is freed while its run is still being settled.
ClaimsSettledOnce ==
  /\ busy = {wtok[w] : w \in Workers} \ {None}
  /\ \A v, w \in Workers : wtok[v] = wtok[w] /\ v # w => wtok[v] = None

\* The inductive invariant
IInv ==
  TypeOK /\ EntriesOK /\ WorkersOK /\ CallersOK /\ InFlightOK /\ SoleOwner /\ ClaimsSettledOnce

\* The wait group counts each entry once, whoever removes it and whenever.
WgBalance ==
  wg = Cardinality({id \in Ids : IsQueued(id) /\ ~queued[id].inFlight})
       + Cardinality({w \in Workers : wtok[w] # None})

\* Once the removal of an HLS download has been announced, no claim the
\* Cancel could have known of publishes an event.
HlsFence == \A t \in late : ~IsHls(t)

\* A token some Cancel has detached and is about to cancel
BeingCancelled(t) == \E c \in Callers : cpc[c] = "cstop" /\ t \in cclaims[c]

Live(t) == t \in Running /\ t \notin ctx /\ ~BeingCancelled(t)

\* At most one run of an ID is live: two would write to one destination.  It
\* holds while nobody resumes.  ExtractPausedConfig detaches whatever entry has
\* the paused flag without the pausing one, and a retry inherits both flags.
OneLiveRun ==
  \A t, u \in Running : IdOf(t) = IdOf(u) /\ Live(t) /\ Live(u) => t = u

\* After GracefulShutdown nothing is queued, running or unsettled.
ShutdownQuiescent ==
  sd = "done" =>
    /\ busy = {} /\ wg = 0 /\ Running = {}
    /\ \A id \in Ids : ~IsQueued(id)
    /\ \A w \in Workers : wpc[w] = "idle"

\* No call stays open for ever: the unbounded wait of Cancel on HLS claims ends,
\* and so do its crossings of their fences, however pauses, resumes, retries and
\* the shutdown interleave with it.
CancelReturns ==
  \A c \in Callers \ {Shut} : []<>(cpc[c] = "idle")

\* GracefulShutdown does not stay in its pauses and polls, nor, once every run
\* that goes on has been cancelled, in wg.Wait and the drain.
ShutdownCompletes ==
  /\ []<>(sd \notin {"pausing", "polling"})
  /\ []<>~(sd \in {"waiting", "draining"} /\ Running \subseteq ctx)
=============================================================================
