----------------------------- MODULE AddDeduper -----------------------------
(***************************************************************************)
(* The add-claim registry of internal/tasks (add_deduper.go) and its two   *)
(* call sites: AddUriFromExtension (service_add.go), which looks for its   *)
(* target after it owns the claim, and submitAddCandidate                  *)
(* (service_add_dedup.go), whose batch took its snapshot of the list       *)
(* before.                                                                 *)
(*                                                                         *)
(* The claim is on a target.  A batch candidate's target is its URL; an    *)
(* extension request's is its DedupKey when it has one, while the engine   *)
(* is given, and the list and the history show, the URL.  A behaviour has  *)
(* one batch (AddUri, BatchAddUri or the items of an extractor) beside any *)
(* number of extension requests.                                           *)
(*                                                                         *)
(* Clocks are abstracted: a settled record is live until Expire, which     *)
(* keeps only the relation of addClaimRecordTTL (10s) to the age of a list *)
(* that is still served (1s and the time to build it).                     *)
(***************************************************************************)
EXTENDS Naturals, FiniteSets

CONSTANTS Extensions,  \* goroutines of extension requests
          Candidates,  \* goroutines of the candidates of one batch
          Urls,        \* what the engine is given
          DedupKeys,   \* keys an extension request may carry
          MaxTokens,   \* bound on the claims ever created
          None         \* no claim, no target, no URL

Callers == Extensions \cup Candidates
Targets == Urls \cup DedupKeys
Tokens == 1..MaxTokens

ASSUME CallersAssumption == Extensions \cap Candidates = {}
ASSUME TokensAssumption == MaxTokens \in Nat /\ None \notin Nat

VARIABLES
  claims,     \* AddDeduper.claims: target -> claim token, or None
  tok,        \* the addClaim behind each token
  next,       \* the next token to create
  pc,         \* where each caller stands
  ckey, curl, \* its target and its URL
  ctok,       \* the token it owns, loaded or waits on
  result,     \* what the batch noted for each candidate
  missed,     \* its list calls did not give a target the list has
  cancelled,  \* the batch's context has ended
  seen,       \* existingUrls, candidateSeen and historyDuplicates of the batch
  engine,     \* the engine's rows: the target each was added under, and its URL
  listed,     \* URLs in the engine's cached list
  history,    \* sources of the history entries
  recent      \* tokens settled as available since the cached list was built

registry == <<claims, tok, next>>
request == <<ckey, curl>>
world == <<engine, listed, history, recent>>
batch == <<cancelled, seen>>
vars == <<registry, pc, request, ctok, result, missed, batch, world>>

\* done is closed; the published result says the target exists; its record
\* has not passed expiresAt
Claim == [key: Targets \cup {None}, closed: BOOLEAN, avail: BOOLEAN, live: BOOLEAN]
Fresh(k) == [key |-> k, closed |-> FALSE, avail |-> FALSE, live |-> FALSE]

States == {"idle", "submitted", "load", "loaded", "discard", "wait",
           "own", "dup", "engine", "okay", "fail", "close", "told"}

\* "duplicate" is the owner's own look, "coalesced" the record of another
\* caller (both reach the user as "duplicate"), "inherited" the error another
\* caller's attempt published
Results == {"none", "added", "duplicate", "coalesced", "error", "inherited",
            "cancelled"}

Owning == {"own", "dup", "engine", "okay", "fail"}
Unsettled == Owning \cup {"close"}
Holding == {"loaded", "discard", "wait"} \cup Unsettled
Undecided == {"submitted", "load", "loaded", "discard", "wait"}

\* Shape of the state; a caller past LoadOrStore holds a token that exists
\* (acquire, add_deduper.go:73-78).
TypeOK ==
  /\ claims \in [Targets -> Tokens \cup {None}]
  /\ tok \in [Tokens -> Claim]
  /\ next \in 1..(MaxTokens + 1)
  /\ pc \in [Callers -> States]
  /\ ckey \in [Callers -> Targets \cup {None}]
  /\ curl \in [Callers -> Urls \cup {None}]
  /\ ctok \in [Callers -> Tokens \cup {None}]
  /\ result \in [Candidates -> Results]
  /\ missed \in [Callers -> BOOLEAN]
  /\ cancelled \in BOOLEAN
  /\ seen \in SUBSET Urls
  /\ engine \in SUBSET (Targets \X Urls)
  /\ listed \in SUBSET Urls
  /\ history \in SUBSET Urls
  /\ recent \in SUBSET Tokens
  /\ \A c \in Callers : pc[c] # "idle" => ckey[c] \in Targets /\ curl[c] \in Urls
  /\ \A c \in Callers : pc[c] \in Holding => ctok[c] \in 1..(next - 1)

\* The history survives a restart; nothing has been added yet.
Init ==
  /\ claims = [k \in Targets |-> None]
  /\ tok = [t \in Tokens |-> Fresh(None)]
  /\ next = 1
  /\ pc = [c \in Callers |-> "idle"]
  /\ ckey = [c \in Callers |-> None]
  /\ curl = [c \in Callers |-> None]
  /\ ctok = [c \in Callers |-> None]
  /\ result = [c \in Candidates |-> "none"]
  /\ missed = [c \in Callers |-> FALSE]
  /\ cancelled = FALSE
  /\ seen = {}
  /\ engine = {}
  /\ listed = {}
  /\ history \in SUBSET Urls
  /\ recent = {}

-----------------------------------------------------------------------------
(* The caller before and inside acquire. *)

Goto(c, s) == pc' = [pc EXCEPT ![c] = s]

\* The call returns r, and its locals are gone; a batch notes r.
Tell(c, r) ==
  /\ Goto(c, "told")
  /\ result' = IF c \in Candidates THEN [result EXCEPT ![c] = r] ELSE result
  /\ ctok' = [ctok EXCEPT ![c] = None]
  /\ missed' = [missed EXCEPT ![c] = FALSE]

RowUrls == {row[2] : row \in engine}

\* Each undecided caller makes at most one more claim.
Room == next + Cardinality({d \in Callers : pc[d] \in Undecided}) <= MaxTokens

\* A caller c asks for target k with URL u.
Submit(c, k, u) ==
  /\ Room
  /\ Goto(c, "submitted")
  /\ ckey' = [ckey EXCEPT ![c] = k]
  /\ curl' = [curl EXCEPT ![c] = u]
  /\ UNCHANGED <<registry, ctok, result, missed, batch, world>>

\* AddUriFromExtension: the DedupKey, when there is one, is the target.
Request(c, k, u) ==
  /\ c \in Extensions
  /\ pc[c] \in {"idle", "told"}
  /\ k \in DedupKeys \/ k = u
  /\ Submit(c, k, u)

\* A new batch looks at the list and, but for AddUri, at the history. Calls
\* that fail read as an empty list. A raw URL found there is answered on the
\* spot and is no caller here.
StartBatch ==
  /\ \A c \in Candidates : pc[c] = "idle"
  /\ \E shown \in SUBSET (listed \cup RowUrls), past \in {{}, history} :
       seen' = shown \cup past
  /\ UNCHANGED <<registry, pc, request, ctok, result, missed, cancelled, world>>

SubmitCandidate(c, u) ==
  /\ c \in Candidates
  /\ pc[c] = "idle"
  /\ Submit(c, u, u)

\* Only a batch has a context that can end; the extension uses Background.
\* It matters while a candidate may still look at it.
CancelBatch ==
  /\ ~cancelled
  /\ \E c \in Candidates : pc[c] \in Undecided
  /\ cancelled' = TRUE
  /\ UNCHANGED <<registry, pc, request, ctok, result, missed, seen, world>>

\* ctx.Err() before and at the head of the loop, and the ctx.Done() arms of
\* the two selects
GiveUp(c) ==
  /\ c \in Candidates
  /\ pc[c] \in {"submitted", "load", "loaded", "wait"}
  /\ cancelled
  /\ Tell(c, "cancelled")
  /\ UNCHANGED <<registry, request, batch, world>>

\* Defect: the sweep forgets to look at done.
Sweep_DropsInFlight(c, k) ==
  /\ pc[c] = "submitted"
  /\ claims[k] # None
  /\ ~tok[claims[k]].avail \/ ~tok[claims[k]].live
  /\ claims' = [claims EXCEPT ![k] = None]
  /\ UNCHANGED <<tok, next, pc, request, ctok, result, missed, batch, world>>

\* One removal of sweepExpired; the throttle and the TryLock make it optional.
Sweep(c, k) ==
  /\ pc[c] = "submitted"
  /\ claims[k] # None
  /\ tok[claims[k]].closed
  /\ ~tok[claims[k]].avail \/ ~tok[claims[k]].live
  /\ claims' = [claims EXCEPT ![k] = None]
  /\ UNCHANGED <<tok, next, pc, request, ctok, result, missed, batch, world>>

EnterLoop(c) ==
  /\ pc[c] = "submitted"
  /\ Goto(c, "load")
  /\ UNCHANGED <<registry, request, ctok, result, missed, batch, world>>

\* claims.LoadOrStore finds nothing: the caller owns a fresh token. The
\* context may have ended since it was looked at.
Own(c) ==
  /\ pc[c] = "load"
  /\ claims[ckey[c]] = None
  /\ next <= MaxTokens
  /\ claims' = [claims EXCEPT ![ckey[c]] = next]
  /\ tok' = [tok EXCEPT ![next] = Fresh(ckey[c])]
  /\ ctok' = [ctok EXCEPT ![c] = next]
  /\ next' = next + 1
  /\ Goto(c, "own")
  /\ UNCHANGED <<request, result, missed, batch, world>>

Load(c) ==
  /\ pc[c] = "load"
  /\ claims[ckey[c]] # None
  /\ ctok' = [ctok EXCEPT ![c] = claims[ckey[c]]]
  /\ Goto(c, "loaded")
  /\ UNCHANGED <<registry, request, result, missed, batch, world>>

\* A live available record, which answers a new caller and an attached waiter
LiveRecord(c) ==
  /\ pc[c] \in {"loaded", "wait"}
  /\ tok[ctok[c]].closed /\ tok[ctok[c]].avail /\ tok[ctok[c]].live

\* Defect: the batch forgets what another caller's claim told it.
TakeDuplicate_Unmarked(c) ==
  /\ LiveRecord(c)
  /\ Tell(c, "coalesced")
  /\ UNCHANGED <<registry, request, batch, world>>

\* A candidate's batch takes note (markConfirmedSeen, two statements later).
TakeDuplicate(c) ==
  /\ LiveRecord(c)
  /\ Tell(c, "coalesced")
  /\ seen' = IF c \in Candidates THEN seen \cup {curl[c]} ELSE seen
  /\ UNCHANGED <<registry, request, cancelled, world>>

\* resultForAttachedWaiter: only who waited takes the owner's failure
InheritFailure(c) ==
  /\ pc[c] = "wait"
  /\ tok[ctok[c]].closed
  /\ ~tok[ctok[c]].avail
  /\ Tell(c, "inherited")
  /\ UNCHANGED <<registry, request, batch, world>>

\* Not consumable: an expired record, or a failure settled before it was
\* looked at
FindResidue(c) ==
  /\ \/ pc[c] = "loaded"
     \/ pc[c] = "wait" /\ tok[ctok[c]].avail
  /\ tok[ctok[c]].closed
  /\ ~tok[ctok[c]].live
  /\ Goto(c, "discard")
  /\ UNCHANGED <<registry, request, ctok, result, missed, batch, world>>

\* the default arm: neither settled nor cancelled
Attach(c) ==
  /\ pc[c] = "loaded"
  /\ ~tok[ctok[c]].closed
  /\ ~(c \in Candidates /\ cancelled)
  /\ Goto(c, "wait")
  /\ UNCHANGED <<registry, request, ctok, result, missed, batch, world>>

\* claims.CompareAndDelete(key, claim)
CompareAndDelete(k, t) ==
  claims' = [claims EXCEPT ![k] = IF @ = t THEN None ELSE @]

Discard(c) ==
  /\ pc[c] = "discard"
  /\ CompareAndDelete(ckey[c], ctok[c])
  /\ Goto(c, "load")
  /\ UNCHANGED <<tok, next, request, ctok, result, missed, batch, world>>

-----------------------------------------------------------------------------
(* The owner. *)

\* The target is there already, as far as the owner can see: in the batch's
\* snapshot and marks, or in the list an extension request reads now (of which
\* the active part is not cached); or in the history as it is now.
Present(c) ==
  \/ ckey[c] \in history
  \/ c \in Candidates /\ ckey[c] \in seen
  \/ c \in Extensions /\ ckey[c] \in listed \cup RowUrls

OwnerDuplicate(c) ==
  /\ pc[c] = "own"
  /\ Present(c)
  /\ Goto(c, "dup")
  /\ UNCHANGED <<registry, request, ctok, result, missed, batch, world>>

\* A candidate is marked and goes to the engine.
CandidateAdmits(c) ==
  /\ pc[c] = "own"
  /\ c \in Candidates
  /\ ~Present(c)
  /\ seen' = seen \cup {curl[c]}
  /\ Goto(c, "engine")
  /\ UNCHANGED <<registry, request, ctok, result, missed, cancelled, world>>

\* An extension request does not find its target. When the list has it, the
\* three calls missed it: one failed, cut it off at 1000, or the row changed
\* state between the live part and the cached one.
ExtensionAdmits(c) ==
  /\ pc[c] = "own"
  /\ c \in Extensions
  /\ ckey[c] \notin history
  /\ missed' = [missed EXCEPT ![c] = ckey[c] \in listed]
  /\ Goto(c, "engine")
  /\ UNCHANGED <<registry, request, ctok, result, batch, world>>

\* addTaskCandidate gives the engine the URL and returns a gid.
EngineAdds(c) ==
  /\ pc[c] = "engine"
  /\ engine' = engine \cup {<<ckey[c], curl[c]>>}
  /\ Goto(c, "okay")
  /\ UNCHANGED <<registry, request, ctok, result, missed, batch,
                 listed, history, recent>>

\* addTaskCandidate returns an error, or the owner unwinds before a result
\* was determined; a candidate drops the mark it made.
OwnerFails(c) ==
  /\ pc[c] \in {"own", "engine"}
  /\ seen' = IF c \in Candidates /\ pc[c] = "engine" THEN seen \ {curl[c]} ELSE seen
  /\ Goto(c, "fail")
  /\ UNCHANGED <<registry, request, ctok, result, missed, cancelled, world>>

\* finish with an available result
FinishAvailable(c) ==
  /\ pc[c] \in {"dup", "okay"}
  /\ tok' = [tok EXCEPT ![ctok[c]] =
               [key |-> @.key, closed |-> TRUE, avail |-> TRUE, live |-> TRUE]]
  /\ recent' = recent \cup {ctok[c]}
  /\ Tell(c, IF pc[c] = "dup" THEN "duplicate" ELSE "added")
  /\ UNCHANGED <<claims, next, request, batch, engine, listed, history>>

\* finish with a failure releases the key, then closes done
ReleaseKey(c) ==
  /\ pc[c] = "fail"
  /\ CompareAndDelete(tok[ctok[c]].key, ctok[c])
  /\ Goto(c, "close")
  /\ UNCHANGED <<tok, next, request, ctok, result, missed, batch, world>>

\* Defect: an owner that failed leaves its claim open.
CloseFailed_Forgets(c) ==
  /\ pc[c] = "close"
  /\ Tell(c, "error")
  /\ UNCHANGED <<registry, request, batch, world>>

CloseFailed(c) ==
  /\ pc[c] = "close"
  /\ tok' = [tok EXCEPT ![ctok[c]].closed = TRUE]
  /\ Tell(c, "error")
  /\ UNCHANGED <<claims, next, request, batch, world>>

-----------------------------------------------------------------------------
(* Time, and what else happens to the rows. *)

callers == <<pc, request, ctok, result, missed, batch>>

\* The 1s list cache is rebuilt.
RefreshList ==
  /\ listed' = RowUrls
  /\ recent' = {}
  /\ UNCHANGED <<registry, callers, engine, history>>

\* Defect: a record shorter than the list cache window.
Expire_TooSoon(t) ==
  /\ tok[t].live
  /\ tok' = [tok EXCEPT ![t].live = FALSE]
  /\ UNCHANGED <<claims, next, callers, world>>

\* A record outlives every list built before it was settled.
Expire(t) ==
  /\ tok[t].live
  /\ t \notin recent
  /\ tok' = [tok EXCEPT ![t].live = FALSE]
  /\ UNCHANGED <<claims, next, callers, world>>

\* A download ends and is recorded; its row may stay.
RecordHistory(u) ==
  /\ u \in RowUrls
  /\ history' = history \cup {u}
  /\ UNCHANGED <<registry, callers, engine, listed, recent>>

\* Removal takes the row and then the history entry; claims are left alone.
RemoveRow(row) ==
  /\ row \in engine
  /\ engine' = engine \ {row}
  /\ UNCHANGED <<registry, callers, listed, history, recent>>

RemoveHistory(u) ==
  /\ u \in history
  /\ history' = history \ {u}
  /\ UNCHANGED <<registry, callers, engine, listed, recent>>

CallerStep(c) ==
  \/ GiveUp(c) \/ EnterLoop(c) \/ Own(c) \/ Load(c)
  \/ TakeDuplicate(c) \/ InheritFailure(c) \/ FindResidue(c)
  \/ Attach(c) \/ Discard(c)
  \/ OwnerDuplicate(c) \/ CandidateAdmits(c) \/ ExtensionAdmits(c)
  \/ EngineAdds(c) \/ OwnerFails(c)
  \/ FinishAvailable(c) \/ ReleaseKey(c) \/ CloseFailed(c)

Next ==
  \/ \E c \in Callers : CallerStep(c)
  \/ \E c \in Callers, k \in Targets, u \in Urls : Request(c, k, u)
  \/ \E c \in Callers, u \in Urls : SubmitCandidate(c, u)
  \/ \E c \in Callers, k \in Targets : Sweep(c, k)
  \/ \E t \in Tokens : Expire(t)
  \/ \E row \in Targets \X Urls : RemoveRow(row)
  \/ \E u \in Urls : RecordHistory(u) \/ RemoveHistory(u)
  \/ StartBatch \/ CancelBatch \/ RefreshList

Spec == Init /\ [][Next]_vars

\* Every goroutine that can run runs; the engine call is assumed to return.
Fairness == \A c \in Callers : WF_vars(CallerStep(c))
FairSpec == Spec /\ Fairness

-----------------------------------------------------------------------------
(* Properties. *)

InFlight == {c \in Callers : pc[c] \in {"own", "engine"}}

\* "At most one caller reaches the engine during an admission window"
\* (add_deduper.go:45): two owners of one target are never between acquire
\* and the end of their engine call.
SingleFlight ==
  \A c, d \in InFlight : ckey[c] = ckey[d] => c = d

\* The window is the life of the record (add_deduper.go:10-13) and, for a
\* batch, the rest of the batch (markConfirmedSeen, models.go:133-135): nobody
\* is on the way to the engine with a target whose last success is still on
\* record, whatever was removed meanwhile, and no candidate with a URL that a
\* sibling has added or was told of by another caller's claim, however stale
\* the snapshot of the batch and however long ago the record expired.
OneAddPerWindow ==
  \A c \in Callers : pc[c] = "engine" =>
    /\ \A t \in Tokens : tok[t].live => tok[t].key # ckey[c]
    /\ c \in Candidates =>
         \A d \in Candidates : curl[d] = curl[c] => result[d] \notin {"added", "coalesced"}

\* After the window the list takes over (add_deduper.go:10-13,
\* service_add.go:114-123): an extension request whose list calls miss nothing
\* never goes to the engine with a target under which the URL of that name was
\* added and has not been removed.
NoSecondExtensionAdd ==
  \A c \in Extensions :
    pc[c] = "engine" /\ ~missed[c] => <<ckey[c], ckey[c]>> \notin engine

\* No waiter is left hanging, whatever the owner ran into.
EveryCallerAnswered ==
  \A c \in Callers : pc[c] = "submitted" ~> pc[c] = "told"

-----------------------------------------------------------------------------
(* The inductive strengthening of the safety properties. *)

\* An owner's claim stays in the map, and open, until the owner settles it.
ClaimsHeld ==
  /\ \A c \in Callers : pc[c] \in Owning => claims[ckey[c]] = ctok[c]
  /\ \A c \in Callers : pc[c] \in Unsettled => ~tok[ctok[c]].closed
  /\ \A c, d \in Callers :
       pc[c] \in Unsettled /\ pc[d] \in Unsettled /\ ctok[c] = ctok[d] => c = d
  /\ \A c \in Callers :
       pc[c] = "discard" => tok[ctok[c]].closed /\ ~tok[ctok[c]].live

\* A token belongs to one target for ever.
TokensKeyed ==
  /\ \A k \in Targets : claims[k] # None => claims[k] < next /\ tok[claims[k]].key = k
  /\ \A c \in Callers : pc[c] \in Holding => tok[ctok[c]].key = ckey[c]

\* A live record has been published and is found under its target.
RecordsKept ==
  \A t \in Tokens :
    /\ tok[t].live => tok[t].avail
    /\ tok[t].avail => tok[t].closed
    /\ tok[t].closed => t < next
    /\ tok[t].live => tok[t].key \in Targets /\ claims[tok[t].key] = t

\* A URL the list does not show yet is covered by a live record the list has
\* not caught up with, or by an owner about to write one.
Covered ==
  \A k \in Targets : <<k, k>> \in engine /\ k \notin listed =>
    /\ claims[k] # None
    /\ \/ tok[claims[k]].live /\ claims[k] \in recent
       \/ \E d \in Callers : pc[d] = "okay" /\ ctok[d] = claims[k]

\* What a batch knows it has marked, and only who made a mark drops it.
Marked ==
  /\ \A c \in Candidates : ckey[c] = curl[c]
  /\ \A c \in Candidates : pc[c] # "told" => result[c] = "none"
  /\ \A c \in Candidates :
       pc[c] \in {"engine", "okay"} \/ result[c] \in {"added", "coalesced"} =>
         curl[c] \in seen

IInv == /\ TypeOK /\ ClaimsHeld /\ TokensKeyed /\ RecordsKept /\ Covered
        /\ Marked /\ NoSecondExtensionAdd /\ OneAddPerWindow
=============================================================================
