------------------------- MODULE AdmissionController -------------------------
(***************************************************************************)
(* The admission loop of a managed pool (internal/tasks/                   *)
(* admission_controller.go).  One goroutine works in rounds: it snapshots  *)
(* the pool, retires the reservations of opportunities that are gone,      *)
(* freezes what the tracker says of occupancy, and walks the queue in FIFO *)
(* order: decide, ReserveAdmission on the tracker row, Admit on the pool.  *)
(* Nothing it reads stays true while it works: workers claim, finish and   *)
(* retry, users pause, cancel and add again, the monitor folds the pool's  *)
(* status into the rows, leases run out.                                   *)
(*                                                                         *)
(* All downloads share one scope, domain and environment, whose bandwidth  *)
(* is Budget live claims.  The pool is AdmittedPool, which the scheduler   *)
(* is shown to implement; an opportunity is named by the pool's token.     *)
(***************************************************************************)
EXTENDS AdmittedPool

CONSTANTS Record,   \* the IDs whose downloads can write a speed record
          Small,    \* the IDs that are small enough for the short exception
          UserMax,  \* the user's own cap, which counts when smart mode is off
          Budget,   \* live claims the measured bandwidth has room for
          Modes     \* the values of SmartThreadMode to look at

ASSUME AdmissionAssumption ==
  /\ Record \subseteq Ids /\ Small \subseteq Ids
  /\ UserMax \in 1..Capacity /\ Budget \in Nat
  /\ Modes \subseteq BOOLEAN

VARIABLES
  smart,  \* the mode of this behaviour
  \* the users and the events
  out,    \* per ID: how it ended or stopped, a paused one that the pool
          \* still keeps included; what the pool and the events report of it
  \* the tracker
  row,    \* per ID: status, admissionToken, admittedNotStarted, lease
  \* the controller
  pc,
  snap,   \* the AdmissionSnapshot of the round
  occ,    \* the IDs that hold a live claim in the frozen occupancy
  held,   \* another key holds the short qualification
  todo,   \* prepared candidates still to be looked at
  cur,    \* the candidate in hand, and what its decision was
  round,  \* in-round accounting: accepted candidates, measurements added
  known, ticketed, shorted  \* c.entries: its keys, and those with a ticket
                            \* or with shortUsed

poolVars == <<opportunities, out>>
roundVars == <<snap, occ, held, todo, cur, round>>
entries == <<known, ticketed, shorted>>
vars == <<smart, poolVars, row, pc, roundVars, entries>>

NoRow == [st |-> "none", tok |-> 0, pending |-> FALSE, claim |-> "none"]
NoSnap == [cands |-> {}, open |-> {}, busy |-> {}, work |-> {}, committed |-> 0]
Nobody == [tok |-> 0, short |-> FALSE]
NewRound == [accepted |-> 0, measuring |-> 0]

TypeOK ==
  /\ smart \in BOOLEAN
  /\ entry \in [Ids -> [at: Places, tok: 0..MaxToken, admitted: BOOLEAN]]
  /\ busy \subseteq Tokens /\ last \in 0..MaxToken
  /\ of \in [1..last -> Ids]
  /\ out \in [Ids -> {"in", "paused", "removed", "done"}]
  /\ row \in [Ids -> [st: {"none", "waiting", "active", "paused", "done"},
                      tok: 0..MaxToken, pending: BOOLEAN, claim: {"none", "live", "lapsed"}]]
  /\ pc \in {"idle", "snapped", "clean", "frozen", "scan", "admit", "stale"}
  /\ occ \subseteq Ids /\ held \in BOOLEAN /\ todo \subseteq Tokens
  /\ cur.tok \in 0..MaxToken
  /\ ticketed \cup shorted \subseteq known /\ known \subseteq Tokens

Init ==
  /\ smart \in Modes
  /\ EmptyPool
  /\ out = [i \in Ids |-> "removed"]
  /\ row = [i \in Ids |-> NoRow]
  /\ pc = "idle" /\ snap = NoSnap /\ occ = {} /\ held = FALSE /\ todo = {}
  /\ cur = Nobody /\ round = NewRound
  /\ known = {} /\ ticketed = {} /\ shorted = {}

-----------------------------------------------------------------------------
(* The pool around the rounds.                                             *)

Elsewhere == <<smart, row, pc, roundVars, entries>>

\* Add, a new download or one that ended and whose row shows it; or a resume
Add(i) ==
  /\ \/ out[i] = "paused"
     \/ <<out[i], row[i].st>> \in {<<"done", "done">>, <<"removed", "none">>}
  /\ Enter(i)
  /\ out' = [out EXCEPT ![i] = "in"]
  /\ UNCHANGED Elsewhere

\* workers and retry timers
PoolStep ==
  /\ \/ \E i \in Ids : \/ Claim(i) \/ Register(i) \/ Retry(i) \/ Ripen(i, {})
                       \/ \E t \in busy : Ripen(i, {t})
     \/ \E t \in Tokens : Settle(t)
  /\ UNCHANGED <<Elsewhere, out>>

\* the run ends: it is over or paused
Finish(i) ==
  /\ entry[i].at = "running" /\ Depart({i})
  /\ \E end \in {"done", "paused"} : out' = [out EXCEPT ![i] = end]
  /\ UNCHANGED Elsewhere

\* Cancel, or Pause of a queued entry
Leave(i) ==
  /\ \/ Depart({i}) /\ out' = [out EXCEPT ![i] = "removed"]
     \/ Queued(i) /\ Depart({i}) /\ out' = [out EXCEPT ![i] = "paused"]
     \/ /\ entry[i].at = "out" /\ out[i] = "paused"
        /\ out' = [out EXCEPT ![i] = "removed"] /\ UNCHANGED opportunities
  /\ UNCHANGED Elsewhere

-----------------------------------------------------------------------------
(* The tracker row of a download.                                          *)

Unreserved(r) == [r EXCEPT !.pending = FALSE, !.claim = "none"]

\* applyAuthoritativeStatusLocked and, for a start, ObserveActivation
Folded(r, status) ==
  CASE status = "waiting" ->
         IF r.pending THEN [r EXCEPT !.st = "waiting"]
                      ELSE [Unreserved(r) EXCEPT !.st = "waiting"]
    [] status = "active" ->
         [r EXCEPT !.st = "active", !.pending = FALSE,
                   !.claim = IF @ = "none" THEN "live" ELSE @]
    [] OTHER -> [Unreserved(r) EXCEPT !.st = status]

\* readSurgeLiveStatus, or what the event says of an i the pool has let go
Status(i) == CASE Queued(i) -> "waiting"
               [] entry[i].at = "running" -> "active"
               [] OTHER -> out[i]

\* Defect: a download that ended stays ended when it is queued again.
Seen_Terminal(i) ==
  IF row[i].st = "done" THEN row[i]
  ELSE IF Status(i) = "removed" THEN NoRow ELSE Folded(row[i], Status(i))

\* the row after the status of i has been folded in: a pause never reopens a
\* row that has ended
Seen(i) ==
  CASE Status(i) = "removed" -> NoRow
    [] Status(i) = "paused" /\ row[i].st \in {"none", "done"} -> row[i]
    [] OTHER -> Folded(row[i], Status(i))

\* an event or a poll, under the gate of i
Observe(i) ==
  /\ Seen(i) # row[i]
  /\ row' = [row EXCEPT ![i] = Seen(i)]
  /\ UNCHANGED <<smart, poolVars, pc, roundVars, entries>>

\* TargetLeaseActive ends: no progress, or the lease of progress is over
Lapse(i) ==
  /\ row[i].claim = "live"
  /\ row' = [row EXCEPT ![i].claim = "lapsed"]
  /\ UNCHANGED <<smart, poolVars, pc, roundVars, entries>>

Pending(t) == row[of[t]].pending /\ row[of[t]].tok = t

\* Defect: the release does not compare the token.
Released_Any(t) == [row EXCEPT ![of[t]] = Unreserved(@)]

\* ReleaseAdmission
Released(t) == [row EXCEPT ![of[t]] = IF Pending(t) THEN Unreserved(@) ELSE @]

\* ReserveAdmission accepts t
Reservable(t) == row[of[t]].st = "waiting" /\ row[of[t]].tok < t

-----------------------------------------------------------------------------
(* A round.                                                                *)

SlotCap == IF smart THEN Capacity ELSE UserMax
Current(t) == \E i \in Ids : entry[i].tok = t /\ Queued(i)

EndRound ==
  /\ pc' = "idle" /\ snap' = NoSnap /\ occ' = {} /\ held' = FALSE /\ todo' = {}
  /\ cur' = Nobody /\ round' = NewRound

\* a kick or the ticker starts a round; one without keys has nothing to do
Snapshot ==
  /\ pc = "idle"
  /\ LET cands == {entry[i].tok : i \in {j \in Ids : Queued(j)}}
         waits == {entry[i].tok : i \in {j \in Ids : Waits(j)}}
         open == {entry[i].tok : i \in {j \in Ids : entry[j].at = "queued" /\ ~entry[j].admitted}} IN
     /\ cands \cup known # {}
     /\ snap' = [cands |-> cands, open |-> open, busy |-> busy,
                 work |-> IF smart THEN busy \cup waits ELSE {}, committed |-> Committed]
  /\ pc' = "snapped"
  /\ UNCHANGED <<smart, poolVars, row, occ, held, todo, cur, round, entries>>

Live(t) == t \in snap.cands \cup snap.busy

\* reconcileTickets
Reconcile ==
  /\ pc = "snapped"
  /\ LET dead == {t \in known : ~Live(t)} IN
     /\ row' = [i \in Ids |->
                  IF \E t \in dead \cap ticketed : of[t] = i /\ Released(t)[i] # row[i]
                  THEN Unreserved(row[i]) ELSE row[i]]
     /\ known' = known \ dead
     /\ ticketed' = ticketed \ dead
     /\ shorted' = shorted \ dead
  /\ pc' = "clean"
  /\ UNCHANGED <<smart, poolVars, roundVars>>

\* GetOccupancyTrackedTasks: active and reserved rows whose lease is live
Occupied(i) == row[i].claim = "live" /\ (row[i].pending \/ row[i].st = "active")

Freeze ==
  /\ pc = "clean"
  /\ occ' = {i \in Ids : smart /\ Occupied(i)}
  /\ pc' = "frozen"
  /\ UNCHANGED <<smart, poolVars, row, snap, held, todo, cur, round, entries>>

\* the short-qualification holders, then the prep pass over the queue; a
\* ticket whose reservation has ended is dropped
Prepare ==
  /\ pc = "frozen"
  /\ LET ready == {t \in snap.open : row[of[t]].st = "waiting"} IN
     /\ held' = (\E t \in shorted \cap ticketed : row[of[t]].claim = "live")
     /\ known' = known \cup ready
     /\ ticketed' = {t \in ticketed : t \in ready => Pending(t)}
     /\ IF ready = {} THEN /\ pc' = "idle" /\ snap' = NoSnap /\ occ' = {} /\ todo' = {}
                      ELSE /\ pc' = "scan" /\ todo' = ready /\ UNCHANGED occ
                           /\ snap' = [snap EXCEPT !.cands = {}, !.open = {}, !.busy = {}]
  /\ UNCHANGED <<smart, poolVars, row, cur, round, shorted>>

Candidate == CHOOSE t \in todo : \A u \in todo : t <= u

\* Defect: what this round has accepted does not count.
Headroom_Frozen == SlotCap - snap.committed

Headroom == SlotCap - snap.committed - round.accepted

\* Defect: only the frozen occupancy counts.
Measuring_Frozen == Cardinality({t \in snap.work : of[t] \in Record \cap occ})

\* committed opportunities that hold a measurement: frozen, and of this round
Measuring == Cardinality({t \in snap.work : of[t] \in Record \cap occ}) + round.measuring

\* EvaluateAdmission: room in the bandwidth, or the short exception
Fits == Cardinality(occ) + round.accepted < Budget
ShortAvailable(t) == of[t] \in Small /\ ~held
Allowed(t) ==
  smart => /\ of[t] \in Record => Measuring = 0
           /\ (Fits \/ ShortAvailable(t))

RoundOver ==
  /\ pc = "scan"
  /\ todo = {} \/ Headroom <= 0
  /\ EndRound
  /\ UNCHANGED <<smart, poolVars, row, entries>>

\* the gate refuses, or the row has left waiting since it was prepared
PassOver ==
  /\ pc = "scan" /\ todo # {} /\ Headroom > 0
  /\ ~(Allowed(Candidate) /\ Reservable(Candidate))
  /\ todo' = todo \ {Candidate}
  /\ UNCHANGED <<smart, poolVars, row, pc, snap, occ, held, cur, round, entries>>

Reserve ==
  /\ pc = "scan" /\ todo # {} /\ Headroom > 0
  /\ LET t == Candidate IN
     /\ Allowed(t) /\ Reservable(t)
     /\ row' = [row EXCEPT ![of[t]] = [@ EXCEPT !.tok = t, !.pending = TRUE, !.claim = "live"]]
     /\ ticketed' = ticketed \cup {t}
     /\ cur' = [tok |-> t, short |-> smart /\ ~Fits]
     /\ todo' = todo \ {t}
  /\ pc' = "admit"
  /\ UNCHANGED <<smart, poolVars, snap, occ, held, round, known, shorted>>

\* the round's accounting of an accepted candidate
Accounted(t) ==
  [accepted |-> round.accepted + 1,
   measuring |-> round.measuring + (IF smart /\ of[t] \in Record THEN 1 ELSE 0)]

Accept ==
  /\ pc = "admit" /\ Current(cur.tok)
  /\ LET t == cur.tok IN
     /\ Admit(of[t])
     /\ round' = Accounted(t)
     /\ shorted' = IF cur.short THEN shorted \cup {t} ELSE shorted
  /\ cur' = Nobody /\ pc' = "scan"
  /\ UNCHANGED <<smart, out, row, snap, occ, held, todo, known, ticketed>>

\* Defect: the ticket is forgotten and its reservation is not released.
Stale_Forgets ==
  /\ pc = "admit" /\ ~Current(cur.tok)
  /\ ticketed' = ticketed \ {cur.tok} /\ shorted' = shorted \ {cur.tok}
  /\ EndRound
  /\ UNCHANGED <<smart, poolVars, row, known>>

\* the opportunity is gone: a reservation made for it is released
Stale ==
  /\ pc = "admit" /\ ~Current(cur.tok)
  /\ pc' = "stale"
  /\ UNCHANGED <<smart, poolVars, row, roundVars, entries>>

Rollback ==
  /\ pc = "stale"
  /\ row' = Released(cur.tok)
  /\ ticketed' = ticketed \ {cur.tok} /\ shorted' = shorted \ {cur.tok}
  /\ EndRound
  /\ UNCHANGED <<smart, poolVars, known>>

Controller == \/ Snapshot \/ Reconcile \/ Freeze \/ Prepare \/ RoundOver \/ PassOver
              \/ Reserve \/ Accept \/ Stale \/ Rollback
Work == PoolStep \/ \E i \in Ids : Finish(i)
Monitor == \E i \in Ids : Observe(i)
Expiry == \E i \in Ids : Lapse(i)
User == \E i \in Ids : Add(i) \/ Leave(i)

Next == Controller \/ Work \/ Monitor \/ Expiry \/ User

Spec == Init /\ [][Next]_vars

Surroundings == Work \/ Monitor \/ Expiry

\* The ticker starts rounds and a round goes on; the workers, the poll of the
\* monitor and the clock do not all stand still.  Nobody has to add, pause or
\* cancel anything.
FairSpec == Spec /\ WF_vars(Controller) /\ WF_vars(Surroundings)

-----------------------------------------------------------------------------
(* Correctness.                                                            *)

\* A round admits against a count that is as old as its snapshot, while claims
\* move under it; yet the pool never commits more slots than the mode allows:
\* the user's own cap holds with smart mode off (admission_controller.go:358,
\* :503), where Admit itself only compares with the capacity.
SlotCapHolds == Committed <= SlotCap

\* With smart mode on, two committed downloads never measure one domain at the
\* same time: whatever claims, ends or is queued again between the snapshot and
\* Admit, a candidate that could write a record waits for the other's lease to
\* end (internal/smartthread/admission.go:186).
Measures(i) == i \in Record /\ Occupied(i) /\ (Waits(i) \/ entry[i].tok \in busy)
OneMeasurement == smart => \A i, j \in Ids : Measures(i) /\ Measures(j) => i = j

\* When a round freezes the occupancy, no reservation counts whose opportunity
\* had left the pool by the round's snapshot: an orphan would hold bandwidth,
\* the measurement or the short qualification until its lease runs out
\* (reconcileTickets, admission_controller.go:225).
DeadReservesNothing ==
  pc = "clean" => \A i \in Ids : row[i].pending => Live(row[i].tok)

\* The controller never ends the reservation of an opportunity that is still
\* to run: a release that comes late, for a candidate of an earlier snapshot,
\* does not hit a newer one of the same download (ReleaseAdmission,
\* monitor/tracker_occupancy.go:268).
LiveTicketKept ==
  [][\A i \in Ids :
       Controller /\ row[i].pending /\ entry[i].tok = row[i].tok
         => row'[i].pending]_vars

\* A queued download that nobody takes out of the queue is admitted in the
\* end, however its row, the leases of others and the rounds interleave: no
\* row keeps a status, a token high-water mark or a reservation that shuts it
\* out for good.
EveryWaiterAdmitted ==
  \A t \in Tokens :
    Current(t) ~> (~Current(t) \/ entry[of[t]].admitted)

\* One live holder per bucket: two downloads never run on the short exception
\* at the same time (admission_controller.go:377).
ShortHolderAlone ==
  \A t, u \in shorted \cap ticketed :
    row[of[t]].claim = "live" /\ row[of[u]].claim = "live" => t = u

=============================================================================
