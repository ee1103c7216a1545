----------------------- MODULE ConcurrentRangesProofs -----------------------
(***************************************************************************)
(* What is proved of one multi-connection download, for any number of      *)
(* workers, any sizes and any interleaving of steals, races, cancelled     *)
(* attempts, drains, pauses and resumes.                                   *)
(*                                                                         *)
(* First part: no byte is lost, and a download that reports success is     *)
(* whole - also for a balancer that meets a worker between two accesses to *)
(* its offsets (Torn) - as long as no chunk of the bitmap counts more      *)
(* bytes than are on disk (VerifiedIsOnDisk).  That is the one thing the   *)
(* workers, the completion monitor and the snapshot take on trust.         *)
(*                                                                         *)
(* Second part, the ledger: that trust is justified as long as             *)
(* the balancer meets settled workers only (~Torn).                        *)
(*                                                                         *)
(* Third part: then too what nobody has to count any more has been         *)
(* counted, so no run has all its workers wait for work beside a file      *)
(* that is not verified.                                                   *)
(***************************************************************************)
EXTENDS ConcurrentRanges, FiniteSetTheorems, SequenceTheorems, TLAPS

\* What every worker, the completion monitor and the snapshot rely on.
VerifiedMeansWhole == Whole => disk = File

-----------------------------------------------------------------------------
(* Types. *)

Pcs == Mapped \cup {"top", "pop", "residual", "gone"}
Tasks == {t \in [off : Offsets, end : Offsets, ptr : Nat] : t.off <= t.end}
Entries ==
  [pc : Pcs, off : Offsets, end : Offsets, cur : Offsets, stop : Nat, ptr : Nat,
   hedged : BOOLEAN, at : Offsets, n : Nat, fresh : Nat, killed : BOOLEAN,
   draining : BOOLEAN, tries : Nat, res : {"none", "ok", "error", "full"}]
Balancer ==
  [pc : {"off", "tick", "shrink", "push", "unsplit", "sweep"},
   victim : SUBSET Workers, split : Nat, cur : Nat, end : Nat, sweep : BOOLEAN]

RangesTypeOK ==
  /\ disk \in SUBSET File
  /\ queue \in Seq(Tasks)
  /\ closed \in BOOLEAN
  /\ shared \in Seq(Offsets)
  /\ wk \in [Workers -> Entries]
  /\ drains \in SUBSET Workers
  /\ bal \in Balancer
  /\ ctx \in BOOLEAN
  /\ why \in {"run", "pause", "error"}
  /\ stash \in SUBSET Tasks
  /\ phase \in {"live", "done", "saved", "failed"}
  /\ saved.tasks \in SUBSET Tasks

-----------------------------------------------------------------------------
(* The invariant. *)

\* Every byte from a up to b is on disk.
Stored(a, b) == \A x \in Nat : a <= x /\ x < b => x \in disk

Queued == ToSet(queue) \cup stash
Shrinking(i) == bal.pc = "shrink" /\ i \in bal.victim
Pushing(i) == bal.pc = "push" /\ i \in bal.victim

\* A task or a worker refers to a cell that was allocated, and only racing
\* workers do; the tasks of a record refer to none.
CellsAllocated ==
  /\ \A t \in Queued : t.ptr <= Len(shared)
  /\ \A i \in Workers : wk[i].ptr <= Len(shared) /\ (wk[i].ptr # 0 => wk[i].hedged)
  /\ \A t \in saved.tasks : t.ptr = 0

\* The victim of a steal is one worker, with an entry in the map and without a
\* race.
VictimOK ==
  bal.pc \in {"shrink", "push"} =>
    \E i \in Workers :
      bal.victim = {i} /\ wk[i].pc \in Mapped /\ ~wk[i].hedged

\* StopAt never lies behind the end of the task, but for the moment a steal
\* that met an advancing worker has widened it.
StopInTask(i) ==
  /\ ~Pushing(i) => wk[i].stop <= wk[i].end
  /\ Pushing(i) => bal.end <= wk[i].end

\* What a worker has read and where it stands agree; nothing is written beyond
\* the end of its task.
AtAgrees(i) ==
  LET w == wk[i]
  IN  /\ w.pc = "start" => w.off = w.cur
      /\ w.pc \in {"read", "write", "count"} => w.at = w.cur
      /\ w.pc \in {"write", "count"} => w.at + w.n <= w.end
      /\ w.pc = "count" => Stored(w.at, w.at + w.n)
      /\ w.pc \in {"clamp", "publish"} => Stored(w.cur, w.at) /\ Stored(w.at, w.cur)

\* A worker past its StopAt has written what it has passed; so has the victim
\* of a steal since the balancer looked at it.
PassedIsStored(i) ==
  /\ Stored(wk[i].stop, wk[i].cur)
  /\ Shrinking(i) => Stored(bal.cur, wk[i].cur)
  /\ Pushing(i) => Stored(bal.end, wk[i].cur)

\* An attempt that ended well has reached its StopAt.
EndedAtStop(i) ==
  wk[i].pc = "ended" /\ wk[i].res = "ok" =>
    wk[i].cur >= wk[i].stop \/ (Pushing(i) /\ wk[i].cur >= bal.end)

Own(i) == StopInTask(i) /\ AtAgrees(i) /\ PassedIsStored(i) /\ EndedAtStop(i)
OwnOK == \A i \in Workers : Own(i)

\* Where the participants of a race stand, and where it ends for each of them.
Positions(p) ==
  {shared[p]} \cup {t.off : t \in {t \in Queued : t.ptr = p}}
              \cup {wk[i].cur : i \in {i \in Workers : Holding(i) /\ wk[i].ptr = p}}
Limits(p) ==
  {t.end : t \in {t \in Queued : t.ptr = p}}
    \cup {wk[i].stop : i \in {i \in Workers : Holding(i) /\ wk[i].ptr = p}}

\* What lies between two participants of a race is on disk, and they race for
\* the same end.
RaceOK ==
  \A p \in 1 .. Len(shared) :
    /\ \A a, b \in Positions(p) : Stored(a, b)
    /\ \A a, b \in Limits(p) : a = b

\* What a worker answers for: a widened StopAt adds nothing.
Limit(i) ==
  IF Pushing(i) THEN Lesser(wk[i].stop, bal.end) ELSE wk[i].stop
Answers(i, x) == Holding(i) /\ wk[i].cur <= x /\ x < Limit(i)
Moving(x) == \E i \in Workers : Pushing(i) /\ wk[i].stop <= x /\ x < bal.end
Covered(x) ==
  \/ \E t \in Queued : t.off <= x /\ x < t.end
  \/ \E i \in Workers : Answers(i, x)
  \/ Moving(x)

\* Each byte that is not on disk has somebody who answers for it.
CoverOK ==
  /\ phase = "live" => \A x \in File : x \in disk \/ Covered(x)
  /\ phase = "saved" => \A x \in File : x \in disk
                          \/ \E t \in saved.tasks : t.off <= x /\ x < t.end

\* As long as nobody cancelled the run, a worker that is not being drained stays
\* until the file is whole.
SomebodyStays ==
  /\ ctx <=> why # "run"
  /\ \A i \in Workers : wk[i].pc = "requeued" /\ wk[i].res = "none" => ctx
  /\ why = "run" /\ closed => disk = File
  /\ why = "run" => disk = File \/ \E j \in Workers : wk[j].pc # "gone" /\ j \notin drains
  /\ phase = "done" => disk = File

RangesInv ==
  /\ RangesTypeOK /\ CellsAllocated /\ VictimOK /\ OwnOK /\ RaceOK /\ CoverOK
  /\ SomebodyStays

-----------------------------------------------------------------------------
(* What each step of a worker does. *)

\* Only worker i changes.
Turn(i) ==
  /\ wk' \in [Workers -> Entries]
  /\ \A j \in Workers : j # i => wk'[j] = wk[j]

\* Worker i keeps its place in its task.
Stands(i) ==
  /\ wk'[i].cur = wk[i].cur /\ wk'[i].stop = wk[i].stop /\ wk'[i].end = wk[i].end
  /\ wk'[i].ptr = wk[i].ptr /\ wk'[i].hedged = wk[i].hedged

\* The fields of an entry.
LEMMA EntryFields ==
  ASSUME NEW w \in Entries
  PROVE  /\ w.pc \in Pcs /\ w.off \in Nat /\ w.end \in Offsets /\ w.cur \in Nat
         /\ w.stop \in Nat /\ w.ptr \in Nat /\ w.hedged \in BOOLEAN /\ w.at \in Nat
         /\ w.n \in Nat /\ w.fresh \in Nat /\ w.killed \in BOOLEAN
         /\ w.draining \in BOOLEAN /\ w.tries \in Nat
         /\ w.res \in {"none", "ok", "error", "full"}
         /\ w.off \in Offsets /\ w.cur \in Offsets /\ w.at \in Offsets
BY RangesAssumption DEF Entries, Offsets

\* A record put in the place of one worker's entry.
LEMMA EntryPut ==
  ASSUME NEW f \in [Workers -> Entries], NEW i \in Workers, NEW e \in Entries
  PROVE  [f EXCEPT ![i] = e] \in [Workers -> Entries]
OBVIOUS

\* An attempt ends.
LEMMA EndDoes ==
  ASSUME RangesTypeOK, NEW i \in Workers, NEW res \in {"ok", "error", "full"},
         End(i, res)
  PROVE  /\ Turn(i) /\ Stands(i)
         /\ wk'[i].pc = "ended" /\ wk'[i].res = res
<1>1. wk \in [Workers -> Entries] /\ wk[i] \in Entries BY DEF RangesTypeOK
<1>2. /\ res \in {"none", "ok", "error", "full"}
  BY <1>1, EntryFields
<1>3. wk' = [wk EXCEPT ![i].pc = "ended", ![i].res = res]
  BY <1>1 DEF End
<1>4. "ended" \in Pcs
  BY DEF Pcs, Mapped, Loop
<1>5. wk' \in [Workers -> Entries] BY <1>1, <1>2, <1>3, <1>4 DEF Entries
<1>6. \A j \in Workers : j # i => wk'[j] = wk[j] BY <1>1, <1>3
<1>7. wk'[i].pc = "ended" /\ wk'[i].res = res
  BY <1>1, <1>3 DEF Entries
<1>8. Stands(i) BY <1>1, <1>3 DEF Entries, Stands
<1> QED BY <1>5, <1>6, <1>7, <1>8 DEF Turn

\* A worker is done with its task.
LEMMA LeaveDoes ==
  ASSUME RangesTypeOK, NEW i \in Workers, NEW pc \in {"top", "gone"},
         Leave(i, pc)
  PROVE  /\ Turn(i)
         /\ wk'[i].pc = pc /\ wk'[i].cur = 0 /\ wk'[i].stop = 0 /\ wk'[i].end = 0
         /\ wk'[i].ptr = 0 /\ ~wk'[i].hedged
<1>1. wk \in [Workers -> Entries] /\ wk[i] \in Entries BY DEF RangesTypeOK
<1>2. /\ pc \in {"top", "gone"} /\ 0 \in Offsets
  BY <1>1, EntryFields, RangesAssumption DEF Offsets
<1>3. wk' = [wk EXCEPT ![i] = [Parked EXCEPT !.pc = pc]]
  BY <1>1 DEF Leave
<1>4. "top" \in Pcs /\ "gone" \in Pcs
  BY DEF Pcs, Mapped, Loop
<1>5. wk' \in [Workers -> Entries] BY <1>1, <1>2, <1>3, <1>4 DEF Entries, Parked
<1>6. \A j \in Workers : j # i => wk'[j] = wk[j] BY <1>1, <1>3
<1>7. wk'[i].pc = pc /\ wk'[i].cur = 0 /\ wk'[i].stop = 0 /\ wk'[i].end = 0
         /\ wk'[i].ptr = 0 /\ ~wk'[i].hedged
  BY <1>1, <1>3 DEF Entries, Parked
<1> QED BY <1>5, <1>6, <1>7 DEF Turn

\* The loop top.
LEMMA TopDoes ==
  ASSUME RangesTypeOK, NEW i \in Workers, Top(i)
  PROVE  /\ Turn(i) /\ Stands(i)
         /\ wk[i].pc = "top"
         /\ wk'[i].pc = IF i \in drains THEN "gone" ELSE "pop"
<1>1. wk \in [Workers -> Entries] /\ wk[i] \in Entries BY DEF RangesTypeOK
<1>3. wk' = [wk EXCEPT ![i].pc = IF i \in drains THEN "gone" ELSE "pop"]
  BY <1>1 DEF Top
<1>4. "gone" \in Pcs /\ "pop" \in Pcs
  BY DEF Pcs, Mapped, Loop
<1>5. wk' \in [Workers -> Entries] BY <1>1, <1>3, <1>4 DEF Entries
<1>6. \A j \in Workers : j # i => wk'[j] = wk[j] BY <1>1, <1>3
<1>7. wk'[i].pc = IF i \in drains THEN "gone" ELSE "pop"
  BY <1>1, <1>3 DEF Entries
<1>8. Stands(i) BY <1>1, <1>3 DEF Entries, Stands
<1>9. wk[i].pc = "top" BY DEF Top
<1> QED BY <1>5, <1>6, <1>7, <1>8, <1>9 DEF Turn

\* The worker enters the read loop.
LEMMA StartDoes ==
  ASSUME RangesTypeOK, NEW i \in Workers, Start(i),
         NEW drained, drained = (wk[i].draining \/ i \in drains)
  PROVE  /\ Turn(i) /\ Stands(i)
         /\ wk[i].pc = "start"
         /\ wk'[i].pc = "read" /\ wk'[i].at = wk[i].off
<1>1. wk \in [Workers -> Entries] /\ wk[i] \in Entries BY DEF RangesTypeOK
<1>2. /\ "none" \in {"none", "ok", "error", "full"}
      /\ wk[i].off \in Offsets
      /\ drained \in BOOLEAN
  BY <1>1, EntryFields
<1>3. wk' = [wk EXCEPT ![i].pc = "read", ![i].at = wk[i].off,
               ![i].draining = drained, ![i].killed = drained, ![i].res = "none",
               ![i].n = 0, ![i].fresh = 0]
  BY <1>1 DEF Start
<1>4. "read" \in Pcs
  BY DEF Pcs, Mapped, Loop
<1> DEFINE v == [wk[i] EXCEPT !.pc = "read", !.at = wk[i].off,
                              !.draining = drained, !.killed = drained]
           w == [v EXCEPT !.res = "none", !.n = 0, !.fresh = 0]
<1>a. v \in Entries BY <1>1, <1>2, <1>4 DEF Entries
<1>b. w \in Entries
  <2>1. 0 \in Nat OBVIOUS
  <2> HIDE DEF v
  <2> QED BY <1>a, <1>2, <2>1 DEF Entries
<1>c. wk' = [wk EXCEPT ![i] = w] BY <1>3
<1>5. wk' \in [Workers -> Entries]
  <2> HIDE DEF w
  <2>1. [wk EXCEPT ![i] = w] \in [Workers -> Entries] BY <1>1, <1>b, EntryPut
  <2> QED BY <2>1, <1>c
<1>6. \A j \in Workers : j # i => wk'[j] = wk[j] BY <1>1, <1>3
<1>7. wk'[i].pc = "read" /\ wk'[i].at = wk[i].off
  BY <1>1, <1>3 DEF Entries
<1>8. Stands(i) BY <1>1, <1>3 DEF Entries, Stands
<1>9. wk[i].pc = "start" BY DEF Start
<1> QED BY <1>5, <1>6, <1>7, <1>8, <1>9 DEF Turn

\* A read fills the buffer.
LEMMA ReadsDoes ==
  ASSUME RangesTypeOK, NEW i \in Workers, NEW n \in Nat,
         wk' = [wk EXCEPT ![i].pc = "write", ![i].n = n]
  PROVE  /\ Turn(i) /\ Stands(i)
         /\ wk'[i].pc = "write" /\ wk'[i].n = n /\ wk'[i].at = wk[i].at
<1>1. wk \in [Workers -> Entries] /\ wk[i] \in Entries BY DEF RangesTypeOK
<1>4. "write" \in Pcs
  BY DEF Pcs, Mapped, Loop
<1>5. wk' \in [Workers -> Entries] BY <1>1, <1>4 DEF Entries
<1>6. \A j \in Workers : j # i => wk'[j] = wk[j] BY <1>1
<1>7. wk'[i].pc = "write" /\ wk'[i].n = n /\ wk'[i].at = wk[i].at
  BY <1>1 DEF Entries
<1>8. Stands(i) BY <1>1 DEF Entries, Stands
<1> QED BY <1>5, <1>6, <1>7, <1>8 DEF Turn

\* A write is over.
LEMMA WritesDoes ==
  ASSUME RangesTypeOK, NEW i \in Workers, NEW n \in Nat,
         wk' = [wk EXCEPT ![i].pc = "count", ![i].n = n]
  PROVE  /\ Turn(i) /\ Stands(i)
         /\ wk'[i].pc = "count" /\ wk'[i].n = n /\ wk'[i].at = wk[i].at
<1>1. wk \in [Workers -> Entries] /\ wk[i] \in Entries BY DEF RangesTypeOK
<1>4. "count" \in Pcs
  BY DEF Pcs, Mapped, Loop
<1>5. wk' \in [Workers -> Entries] BY <1>1, <1>4 DEF Entries
<1>6. \A j \in Workers : j # i => wk'[j] = wk[j] BY <1>1
<1>7. wk'[i].pc = "count" /\ wk'[i].n = n /\ wk'[i].at = wk[i].at
  BY <1>1 DEF Entries
<1>8. Stands(i) BY <1>1 DEF Entries, Stands
<1> QED BY <1>5, <1>6, <1>7, <1>8 DEF Turn

\* A worker goes on to the next step of its turn, or of the way out.
LEMMA MovesDoes ==
  ASSUME RangesTypeOK, NEW i \in Workers, NEW pc \in {"requeued", "residual"},
         wk' = [wk EXCEPT ![i].pc = pc]
  PROVE  /\ Turn(i) /\ Stands(i)
         /\ wk'[i].pc = pc /\ wk'[i].res = wk[i].res
<1>1. wk \in [Workers -> Entries] /\ wk[i] \in Entries BY DEF RangesTypeOK
<1>2. /\ pc \in {"requeued", "residual"}
  BY <1>1, EntryFields
<1>4. "requeued" \in Pcs /\ "residual" \in Pcs
  BY DEF Pcs, Mapped, Loop
<1>5. wk' \in [Workers -> Entries] BY <1>1, <1>2, <1>4 DEF Entries
<1>6. \A j \in Workers : j # i => wk'[j] = wk[j] BY <1>1
<1>7. wk'[i].pc = pc /\ wk'[i].res = wk[i].res
  BY <1>1 DEF Entries
<1>8. Stands(i) BY <1>1 DEF Entries, Stands
<1> QED BY <1>5, <1>6, <1>7, <1>8 DEF Turn

\* A released worker has given its residual back.
LEMMA ReleasedDoes ==
  ASSUME RangesTypeOK, NEW i \in Workers, wk' = [wk EXCEPT ![i].pc = "requeued", ![i].res = "none"]
  PROVE  /\ Turn(i) /\ Stands(i)
         /\ wk'[i].pc = "requeued"
<1>1. wk \in [Workers -> Entries] /\ wk[i] \in Entries BY DEF RangesTypeOK
<1>4. "requeued" \in Pcs
  BY DEF Pcs, Mapped, Loop
<1>5. wk' \in [Workers -> Entries] BY <1>1, <1>4 DEF Entries
<1>6. \A j \in Workers : j # i => wk'[j] = wk[j] BY <1>1
<1>7. wk'[i].pc = "requeued"
  BY <1>1 DEF Entries
<1>8. Stands(i) BY <1>1 DEF Entries, Stands
<1> QED BY <1>5, <1>6, <1>7, <1>8 DEF Turn

\* What a write adds is counted.
LEMMA CountsDoes ==
  ASSUME RangesTypeOK, NEW i \in Workers, NEW fresh \in Nat, NEW to \in Offsets,
         wk' = [wk EXCEPT ![i].pc = "clamp", ![i].at = to, ![i].fresh = fresh]
  PROVE  /\ Turn(i) /\ Stands(i)
         /\ wk'[i].pc = "clamp" /\ wk'[i].at = to
<1>1. wk \in [Workers -> Entries] /\ wk[i] \in Entries BY DEF RangesTypeOK
<1>4. "clamp" \in Pcs
  BY DEF Pcs, Mapped, Loop
<1>5. wk' \in [Workers -> Entries] BY <1>1, <1>4 DEF Entries
<1>6. \A j \in Workers : j # i => wk'[j] = wk[j] BY <1>1
<1>7. wk'[i].pc = "clamp" /\ wk'[i].at = to
  BY <1>1 DEF Entries
<1>8. Stands(i) BY <1>1 DEF Entries, Stands
<1> QED BY <1>5, <1>6, <1>7, <1>8 DEF Turn

\* The offset is clamped.
LEMMA ClampsDoes ==
  ASSUME RangesTypeOK, NEW i \in Workers, NEW fresh \in Nat, NEW to \in Offsets,
         wk' = [wk EXCEPT ![i].pc = "publish", ![i].at = to, ![i].fresh = fresh]
  PROVE  /\ Turn(i) /\ Stands(i)
         /\ wk'[i].pc = "publish" /\ wk'[i].at = to
<1>1. wk \in [Workers -> Entries] /\ wk[i] \in Entries BY DEF RangesTypeOK
<1>4. "publish" \in Pcs
  BY DEF Pcs, Mapped, Loop
<1>5. wk' \in [Workers -> Entries] BY <1>1, <1>4 DEF Entries
<1>6. \A j \in Workers : j # i => wk'[j] = wk[j] BY <1>1
<1>7. wk'[i].pc = "publish" /\ wk'[i].at = to
  BY <1>1 DEF Entries
<1>8. Stands(i) BY <1>1 DEF Entries, Stands
<1> QED BY <1>5, <1>6, <1>7, <1>8 DEF Turn

\* The new offset is stored.
LEMMA PublishDoes ==
  ASSUME RangesTypeOK, NEW i \in Workers, Publish(i)
  PROVE  /\ Turn(i)
         /\ wk[i].pc = "publish"
         /\ wk'[i].pc = "read" /\ wk'[i].cur = wk[i].at /\ wk'[i].at = wk[i].at
         /\ wk'[i].stop = wk[i].stop /\ wk'[i].end = wk[i].end
         /\ wk'[i].ptr = wk[i].ptr /\ wk'[i].hedged = wk[i].hedged
<1>1. wk \in [Workers -> Entries] /\ wk[i] \in Entries BY DEF RangesTypeOK
<1>2. /\ wk[i].at \in Offsets
  BY <1>1, EntryFields
<1>3. wk' = [wk EXCEPT ![i].pc = "read", ![i].cur = wk[i].at, ![i].n = 0, ![i].fresh = 0]
  BY <1>1 DEF Publish
<1>4. "read" \in Pcs
  BY DEF Pcs, Mapped, Loop
<1>5. wk' \in [Workers -> Entries] BY <1>1, <1>2, <1>3, <1>4 DEF Entries
<1>6. \A j \in Workers : j # i => wk'[j] = wk[j] BY <1>1, <1>3
<1>7. wk'[i].pc = "read" /\ wk'[i].cur = wk[i].at /\ wk'[i].at = wk[i].at
         /\ wk'[i].stop = wk[i].stop /\ wk'[i].end = wk[i].end
         /\ wk'[i].ptr = wk[i].ptr /\ wk'[i].hedged = wk[i].hedged
  BY <1>1, <1>3 DEF Entries
<1>9. wk[i].pc = "publish" BY DEF Publish
<1> QED BY <1>5, <1>6, <1>7, <1>9 DEF Turn

\* A retry begins.
LEMMA RetriesDoes ==
  ASSUME RangesTypeOK, NEW i \in Workers, NEW end \in Offsets,
         wk' = [wk EXCEPT ![i].pc = "start", ![i].tries = @ + 1, ![i].off = wk[i].cur,
                          ![i].end = end]
  PROVE  /\ Turn(i)
         /\ wk'[i].pc = "start" /\ wk'[i].off = wk[i].cur /\ wk'[i].cur = wk[i].cur
         /\ wk'[i].stop = wk[i].stop /\ wk'[i].end = end
         /\ wk'[i].ptr = wk[i].ptr /\ wk'[i].hedged = wk[i].hedged
<1>1. wk \in [Workers -> Entries] /\ wk[i] \in Entries BY DEF RangesTypeOK
<1>2. /\ wk[i].cur \in Offsets /\ wk[i].tries + 1 \in Nat
  BY <1>1, EntryFields
<1>4. "start" \in Pcs
  BY DEF Pcs, Mapped, Loop
<1>5. wk' \in [Workers -> Entries] BY <1>1, <1>2, <1>4 DEF Entries
<1>6. \A j \in Workers : j # i => wk'[j] = wk[j] BY <1>1
<1>7. wk'[i].pc = "start" /\ wk'[i].off = wk[i].cur /\ wk'[i].cur = wk[i].cur
         /\ wk'[i].stop = wk[i].stop /\ wk'[i].end = end
         /\ wk'[i].ptr = wk[i].ptr /\ wk'[i].hedged = wk[i].hedged
  BY <1>1 DEF Entries
<1> QED BY <1>5, <1>6, <1>7 DEF Turn

\* A worker is cancelled or drained.
LEMMA FlagsDoes ==
  ASSUME RangesTypeOK, NEW i \in Workers, NEW killed \in BOOLEAN, NEW draining \in BOOLEAN,
         wk' = [wk EXCEPT ![i].draining = draining, ![i].killed = killed]
  PROVE  /\ Turn(i) /\ Stands(i)
         /\ wk'[i].pc = wk[i].pc /\ wk'[i].off = wk[i].off /\ wk'[i].at = wk[i].at
         /\ wk'[i].n = wk[i].n /\ wk'[i].res = wk[i].res
<1>1. wk \in [Workers -> Entries] /\ wk[i] \in Entries BY DEF RangesTypeOK
<1>5. wk' \in [Workers -> Entries] BY <1>1 DEF Entries
<1>6. \A j \in Workers : j # i => wk'[j] = wk[j] BY <1>1
<1>7. wk'[i].pc = wk[i].pc /\ wk'[i].off = wk[i].off /\ wk'[i].at = wk[i].at
         /\ wk'[i].n = wk[i].n /\ wk'[i].res = wk[i].res
  BY <1>1 DEF Entries
<1>8. Stands(i) BY <1>1 DEF Entries, Stands
<1> QED BY <1>5, <1>6, <1>7, <1>8 DEF Turn

\* StopAt changes.
LEMMA StopMovesDoes ==
  ASSUME RangesTypeOK, NEW i \in Workers, NEW stop \in Nat, wk' = [wk EXCEPT ![i].stop = stop]
  PROVE  /\ Turn(i)
         /\ wk'[i] = [wk[i] EXCEPT !.stop = stop]
<1>1. wk \in [Workers -> Entries] /\ wk[i] \in Entries BY DEF RangesTypeOK
<1>5. wk' \in [Workers -> Entries] BY <1>1 DEF Entries
<1>6. \A j \in Workers : j # i => wk'[j] = wk[j] BY <1>1
<1>7. wk'[i] = [wk[i] EXCEPT !.stop = stop]
  BY <1>1 DEF Entries
<1> QED BY <1>5, <1>6, <1>7 DEF Turn

\* A worker joins a race.
LEMMA JoinsDoes ==
  ASSUME RangesTypeOK, NEW i \in Workers, NEW ptr \in Nat,
         wk' = [wk EXCEPT ![i].hedged = TRUE, ![i].ptr = ptr]
  PROVE  /\ Turn(i)
         /\ wk'[i] = [wk[i] EXCEPT !.hedged = TRUE, !.ptr = ptr]
<1>1. wk \in [Workers -> Entries] /\ wk[i] \in Entries BY DEF RangesTypeOK
<1>5. wk' \in [Workers -> Entries] BY <1>1 DEF Entries
<1>6. \A j \in Workers : j # i => wk'[j] = wk[j] BY <1>1
<1>7. wk'[i] = [wk[i] EXCEPT !.hedged = TRUE, !.ptr = ptr]
  BY <1>1 DEF Entries
<1> QED BY <1>5, <1>6, <1>7 DEF Turn

\* A worker leaves with a task it did not take.
LEMMA GoneDoes ==
  ASSUME RangesTypeOK, NEW i \in Workers, wk' = [wk EXCEPT ![i].pc = "gone"]
  PROVE  /\ Turn(i) /\ Stands(i)
         /\ wk'[i].pc = "gone"
<1>1. wk \in [Workers -> Entries] /\ wk[i] \in Entries BY DEF RangesTypeOK
<1>4. "gone" \in Pcs
  BY DEF Pcs, Mapped, Loop
<1>5. wk' \in [Workers -> Entries] BY <1>1, <1>4 DEF Entries
<1>6. \A j \in Workers : j # i => wk'[j] = wk[j] BY <1>1
<1>7. wk'[i].pc = "gone"
  BY <1>1 DEF Entries
<1>8. Stands(i) BY <1>1 DEF Entries, Stands
<1> QED BY <1>5, <1>6, <1>7, <1>8 DEF Turn

\* A worker takes a task.
LEMMA TakesDoes ==
  ASSUME RangesTypeOK, NEW i \in Workers, NEW t \in Tasks,
         wk' = [wk EXCEPT ![i].pc = "start", ![i].off = t.off, ![i].end = t.end,
                  ![i].cur = t.off, ![i].stop = t.end, ![i].ptr = t.ptr,
                  ![i].hedged = (t.ptr # 0), ![i].draining = FALSE, ![i].tries = 0]
  PROVE  /\ Turn(i)
         /\ wk'[i].pc = "start" /\ wk'[i].off = t.off /\ wk'[i].cur = t.off
         /\ wk'[i].stop = t.end /\ wk'[i].end = t.end /\ wk'[i].ptr = t.ptr
         /\ wk'[i].hedged = (t.ptr # 0)
<1>1. wk \in [Workers -> Entries] /\ wk[i] \in Entries BY DEF RangesTypeOK
<1>2. /\ t.off \in Offsets /\ t.end \in Offsets /\ t.end \in Nat /\ t.ptr \in Nat
      /\ (t.ptr # 0) \in BOOLEAN
  BY <1>1, EntryFields, RangesAssumption DEF Tasks, Offsets
<1>4. "start" \in Pcs
  BY DEF Pcs, Mapped, Loop
<1> DEFINE v == [wk[i] EXCEPT !.pc = "start", !.off = t.off, !.end = t.end,
                              !.cur = t.off, !.stop = t.end, !.ptr = t.ptr]
           w == [v EXCEPT !.hedged = (t.ptr # 0), !.draining = FALSE, !.tries = 0]
<1>b. v \in Entries BY <1>1, <1>2, <1>4 DEF Entries
<1>c. w \in Entries
  <2>1. FALSE \in BOOLEAN /\ 0 \in Nat OBVIOUS
  <2> HIDE DEF v
  <2> QED BY <1>b, <1>2, <2>1 DEF Entries
<1>d. wk' = [wk EXCEPT ![i] = w] BY <1>1
<1>5. wk' \in [Workers -> Entries]
  <2> HIDE DEF w
  <2>1. [wk EXCEPT ![i] = w] \in [Workers -> Entries] BY <1>1, <1>c, EntryPut
  <2> QED BY <2>1, <1>d
<1>6. \A j \in Workers : j # i => wk'[j] = wk[j] BY <1>1
<1>7. wk'[i].pc = "start" /\ wk'[i].off = t.off /\ wk'[i].cur = t.off
         /\ wk'[i].stop = t.end /\ wk'[i].end = t.end /\ wk'[i].ptr = t.ptr
         /\ wk'[i].hedged = (t.ptr # 0)
  BY <1>1 DEF Entries
<1> QED BY <1>5, <1>6, <1>7 DEF Turn

-----------------------------------------------------------------------------
(* Bytes, queues and offsets. *)

\* What is stored up to b and from b on is stored.
LEMMA StoredJoins ==
  ASSUME NEW a \in Nat, NEW b \in Nat, NEW c \in Nat, Stored(a, b), Stored(b, c)
  PROVE  Stored(a, c)
BY DEF Stored

\* Nothing lies before a and behind b when b comes first.
LEMMA StoredNone ==
  ASSUME NEW a \in Nat, NEW b \in Nat, b <= a
  PROVE  Stored(a, b)
BY DEF Stored

\* Bytes are never taken from the disk.
LEMMA StoredStays ==
  ASSUME NEW a \in Nat, NEW b \in Nat, Stored(a, b), disk \subseteq disk'
  PROVE  \A x \in Nat : a <= x /\ x < b => x \in disk'
BY DEF Stored

\* The first of a queue is taken.
LEMMA HeadTaken ==
  ASSUME NEW S, NEW q \in Seq(S), q # <<>>
  PROVE  /\ Head(q) \in S /\ Tail(q) \in Seq(S)
         /\ ToSet(q) = {Head(q)} \cup ToSet(Tail(q))
<1>1. Len(q) \in Nat /\ Len(q) >= 1 /\ q \in [1 .. Len(q) -> S] OBVIOUS
<1>2. /\ Head(q) = q[1] /\ Tail(q) \in Seq(S) /\ Len(Tail(q)) = Len(q) - 1
      /\ \A j \in 1 .. Len(q) - 1 : Tail(q)[j] = q[j + 1]
  BY <1>1
<1>3. ToSet(Tail(q)) = {Tail(q)[j] : j \in 1 .. Len(q) - 1}
  <2>1. DOMAIN Tail(q) = 1 .. Len(Tail(q)) BY <1>2
  <2> QED BY <1>2, <2>1 DEF ToSet
<1>4. ToSet(q) = {q[j] : j \in 1 .. Len(q)} BY <1>1 DEF ToSet
<1>5. ASSUME NEW t \in ToSet(q) PROVE t \in {Head(q)} \cup ToSet(Tail(q))
  <2>1. PICK j \in 1 .. Len(q) : t = q[j] BY <1>4, <1>5
  <2>2. CASE j = 1 BY <1>2, <2>1, <2>2
  <2>3. CASE j # 1
    <3>1. j - 1 \in 1 .. Len(q) - 1 /\ Tail(q)[j - 1] = q[j] BY <1>1, <1>2, <2>1, <2>3
    <3> QED BY <1>3, <2>1, <3>1
  <2> QED BY <2>2, <2>3
<1>6. ASSUME NEW t \in ToSet(Tail(q)) PROVE t \in ToSet(q)
  <2>1. PICK j \in 1 .. Len(q) - 1 : t = Tail(q)[j] BY <1>3, <1>6
  <2>2. j + 1 \in 1 .. Len(q) /\ t = q[j + 1] BY <1>1, <1>2, <2>1
  <2> QED BY <1>4, <2>2
<1>7. Head(q) \in ToSet(q) /\ Head(q) \in S BY <1>1, <1>2, <1>4
<1> QED BY <1>2, <1>5, <1>6, <1>7

\* A task is put behind a queue.
LEMMA TaskAppended ==
  ASSUME NEW S, NEW q \in Seq(S), NEW t \in S
  PROVE  /\ Append(q, t) \in Seq(S) /\ q \o <<t>> = Append(q, t)
         /\ ToSet(Append(q, t)) = ToSet(q) \cup {t}
<1>1. Len(q) \in Nat /\ q \in [1 .. Len(q) -> S] OBVIOUS
<1>2. /\ Append(q, t) \in Seq(S) /\ Len(Append(q, t)) = Len(q) + 1
      /\ \A j \in 1 .. Len(q) : Append(q, t)[j] = q[j]
      /\ Append(q, t)[Len(q) + 1] = t
  BY <1>1
<1>3. q \o <<t>> = Append(q, t) BY AppendIsConcat, Zenon
<1>4. ToSet(Append(q, t)) = {Append(q, t)[j] : j \in 1 .. Len(q) + 1} BY <1>1, <1>2 DEF ToSet
<1>5. ToSet(q) = {q[j] : j \in 1 .. Len(q)} BY <1>1 DEF ToSet
<1>6. ASSUME NEW x \in ToSet(Append(q, t)) PROVE x \in ToSet(q) \cup {t}
  <2>1. PICK j \in 1 .. Len(q) + 1 : x = Append(q, t)[j] BY <1>4, <1>6
  <2>2. CASE j = Len(q) + 1 BY <1>2, <2>1, <2>2
  <2>3. CASE j # Len(q) + 1
    <3>1. j \in 1 .. Len(q) BY <1>1, <2>1, <2>3
    <3> QED BY <1>2, <1>5, <2>1, <3>1
  <2> QED BY <2>2, <2>3
<1>7. ASSUME NEW x \in ToSet(q) PROVE x \in ToSet(Append(q, t))
  <2>1. PICK j \in 1 .. Len(q) : x = q[j] BY <1>5, <1>7
  <2>2. j \in 1 .. Len(q) + 1 BY <1>1, <2>1
  <2> QED BY <1>2, <1>4, <2>1, <2>2
<1>8. t \in ToSet(Append(q, t))
  <2>1. Len(q) + 1 \in 1 .. Len(q) + 1 BY <1>1
  <2> QED BY <1>2, <1>4, <2>1
<1> QED BY <1>2, <1>3, <1>6, <1>7, <1>8

\* The tasks of a queue are tasks.
LEMMA QueuedTasks ==
  ASSUME RangesTypeOK
  PROVE  /\ Queued \subseteq Tasks
         /\ \A t \in Queued : t.off <= t.end /\ t.off \in Nat /\ t.off \in Offsets /\ t.end \in Offsets /\ t.end \in Nat /\ t.ptr \in Nat
<1>1. ToSet(queue) \subseteq Tasks
  <2>1. queue \in [1 .. Len(queue) -> Tasks] BY DEF RangesTypeOK
  <2> QED BY <2>1 DEF ToSet
<1>2. Queued \subseteq Tasks BY <1>1 DEF Queued, RangesTypeOK
<1> QED BY <1>2, RangesAssumption DEF Tasks, Offsets

\* A task is put behind the queue.
LEMMA QueueGrows ==
  ASSUME RangesTypeOK, NEW r, r \in Tasks
  PROVE  /\ queue \o <<r>> \in Seq(Tasks) /\ Append(queue, r) \in Seq(Tasks)
         /\ ToSet(queue \o <<r>>) = ToSet(queue) \cup {r}
         /\ ToSet(Append(queue, r)) = ToSet(queue) \cup {r}
<1>1. queue \in Seq(Tasks) BY DEF RangesTypeOK
<1>2. ASSUME NEW q \in Seq(Tasks), NEW t \in Tasks
      PROVE  /\ q \o <<t>> = Append(q, t) /\ Append(q, t) \in Seq(Tasks)
             /\ ToSet(Append(q, t)) = ToSet(q) \cup {t}
  BY TaskAppended
<1> QED BY <1>1, <1>2, Zenon

\* The types a step of worker i needs.
LEMMA WorkerTypes ==
  ASSUME RangesTypeOK, NEW i \in Workers
  PROVE  /\ wk[i].pc \in Pcs /\ wk[i].off \in Nat /\ wk[i].end \in Offsets
         /\ wk[i].end \in Nat /\ wk[i].end <= Size /\ wk[i].cur \in Nat
         /\ wk[i].stop \in Nat /\ wk[i].ptr \in Nat /\ wk[i].at \in Nat /\ wk[i].n \in Nat
         /\ wk[i].fresh \in Nat /\ wk[i].hedged \in BOOLEAN
         /\ wk[i].off \in Offsets /\ wk[i].cur \in Offsets /\ wk[i].at \in Offsets
         /\ wk[i].killed \in BOOLEAN /\ wk[i].draining \in BOOLEAN
<1>1. wk[i] \in Entries BY DEF RangesTypeOK
<1> QED BY <1>1, EntryFields, RangesAssumption DEF Offsets

\* The types of the balancer.
LEMMA BalancerTypes ==
  ASSUME RangesTypeOK
  PROVE  /\ bal.pc \in {"off", "tick", "shrink", "push", "unsplit", "sweep"}
         /\ bal.victim \subseteq Workers /\ bal.split \in Nat /\ bal.cur \in Nat
         /\ bal.end \in Nat /\ bal.sweep \in BOOLEAN
BY DEF RangesTypeOK, Balancer

\* Where a worker stands, its race included.
LEMMA OffsetOfRace ==
  ASSUME RangesTypeOK, CellsAllocated, NEW i \in Workers
  PROVE  /\ CurrentOffset(i) \in Nat /\ CurrentOffset(i) \in Offsets
         /\ wk[i].cur <= CurrentOffset(i)
         /\ wk[i].ptr = 0 => CurrentOffset(i) = wk[i].cur
         /\ wk[i].ptr # 0 => /\ wk[i].ptr \in 1 .. Len(shared)
                             /\ shared[wk[i].ptr] \in Nat
                             /\ CurrentOffset(i) \in {wk[i].cur, shared[wk[i].ptr]}
<1>1. wk[i].cur \in Nat /\ wk[i].cur \in Offsets /\ wk[i].ptr \in Nat BY WorkerTypes
<1>2. /\ Len(shared) \in Nat
      /\ \A p \in 1 .. Len(shared) : shared[p] \in Nat /\ shared[p] \in Offsets
  <2>1. shared \in Seq(Offsets) BY DEF RangesTypeOK
  <2>2. Len(shared) \in Nat /\ \A p \in 1 .. Len(shared) : shared[p] \in Offsets BY <2>1
  <2>3. Offsets \subseteq Nat BY RangesAssumption DEF Offsets
  <2> QED BY <2>2, <2>3
<1>3. wk[i].ptr <= Len(shared) BY DEF CellsAllocated
<1>4. wk[i].ptr # 0 => wk[i].ptr \in 1 .. Len(shared) BY <1>1, <1>2, <1>3
<1> QED BY <1>1, <1>2, <1>4 DEF CurrentOffset, Greater

-----------------------------------------------------------------------------
(* What a step leaves alone. *)

\* The offsets of a race are numbers.
LEMMA PositionsAreOffsets ==
  ASSUME RangesTypeOK, NEW p \in 1 .. Len(shared)
  PROVE  Positions(p) \subseteq Nat
<1>1. shared[p] \in Nat BY RangesAssumption DEF RangesTypeOK, Offsets
<1>2. \A t \in Queued : t.off \in Nat BY QueuedTasks
<1>3. \A i \in Workers : wk[i].cur \in Nat BY WorkerTypes
<1> QED BY <1>1, <1>2, <1>3 DEF Positions

\* A race stays in order when each new position is level with an old one and no
\* limit is new.
LEMMA RaceKept ==
  ASSUME RangesTypeOK, RaceOK, disk \subseteq disk',
         Len(shared') = Len(shared),
         \A p \in 1 .. Len(shared) : \A a \in Positions(p)' :
           a \in Nat /\ \E b \in Positions(p) : Stored(a, b)' /\ Stored(b, a)',
         \A p \in 1 .. Len(shared) : Limits(p)' \subseteq Limits(p)
  PROVE  RaceOK'
<1>1. ASSUME NEW p \in 1 .. Len(shared), NEW a \in Positions(p)', NEW b \in Positions(p)'
      PROVE  Stored(a, b)'
  <2>1. PICK c \in Positions(p) : Stored(a, c)' /\ Stored(c, a)' OBVIOUS
  <2>2. PICK d \in Positions(p) : Stored(b, d)' /\ Stored(d, b)' OBVIOUS
  <2>3. Stored(c, d) BY DEF RaceOK
  <2>4. a \in Nat /\ b \in Nat OBVIOUS
  <2>5. c \in Nat /\ d \in Nat BY PositionsAreOffsets
  <2> QED BY <2>1, <2>2, <2>3, <2>4, <2>5 DEF Stored
<1>2. ASSUME NEW p \in 1 .. Len(shared), NEW a \in Limits(p)', NEW b \in Limits(p)'
      PROVE  a = b
  BY <1>2 DEF RaceOK
<1> QED BY <1>1, <1>2 DEF RaceOK

\* Bytes stay covered when the step covers what the old state covered.
LEMMA CoverKept ==
  ASSUME CoverOK, disk \subseteq disk', phase' = phase, saved' = saved,
         phase = "live" => \A x \in File : Covered(x) => x \in disk' \/ Covered(x)'
  PROVE  CoverOK'
<1>1. CASE phase = "live" BY <1>1 DEF CoverOK
<1>2. CASE phase # "live" BY <1>2 DEF CoverOK
<1> QED BY <1>1, <1>2

\* A step of worker i that moves nothing.
Quiet(i) ==
  /\ Turn(i)
  /\ queue' = queue /\ stash' = stash /\ Len(shared') = Len(shared) /\ bal' = bal
  /\ phase' = phase /\ saved' = saved
  /\ Holding(i)' <=> Holding(i)
  /\ Holding(i) => wk'[i].cur = wk[i].cur /\ wk'[i].stop = wk[i].stop /\ wk'[i].ptr = wk[i].ptr
  /\ wk'[i].ptr <= Len(shared) /\ (wk'[i].ptr # 0 => wk'[i].hedged)
  /\ wk[i].pc \in Mapped /\ ~MuFree =>
       wk'[i].pc \in Mapped /\ wk'[i].hedged = wk[i].hedged /\ wk'[i].stop = wk[i].stop

\* What another worker holds stays its own.
LEMMA OthersHold ==
  ASSUME NEW i \in Workers, Turn(i), NEW j \in Workers, j # i
  PROVE  wk'[j] = wk[j] /\ (Holding(j)' <=> Holding(j))
BY DEF Turn, Holding

\* It leaves cells, victim, races and cover as they were.
LEMMA QuietKeeps ==
  ASSUME RangesTypeOK, CellsAllocated, VictimOK, RaceOK, CoverOK,
         NEW i \in Workers, Quiet(i), disk \subseteq disk'
  PROVE  /\ CellsAllocated' /\ VictimOK' /\ CoverOK'
         /\ shared' = shared => RaceOK'
<1>1. Turn(i) /\ Queued' = Queued /\ Len(shared') = Len(shared) /\ bal' = bal /\ saved' = saved
      /\ phase' = phase
  BY DEF Quiet, Queued
<1>2. \A j \in Workers : Holding(j)' <=> Holding(j) BY <1>1, OthersHold DEF Quiet
<1>3. \A j \in Workers : Holding(j) =>
        wk'[j].cur = wk[j].cur /\ wk'[j].stop = wk[j].stop /\ wk'[j].ptr = wk[j].ptr
  BY <1>1, OthersHold DEF Quiet
<1>4. CellsAllocated'
  <2>1. \A j \in Workers : wk'[j].ptr <= Len(shared') /\ (wk'[j].ptr # 0 => wk'[j].hedged)
    BY <1>1, OthersHold DEF Quiet, CellsAllocated
  <2> QED BY <1>1, <2>1 DEF CellsAllocated
<1>5. VictimOK'
  <2> SUFFICES ASSUME bal.pc \in {"shrink", "push"}
               PROVE  \E j \in Workers :
                        bal.victim = {j} /\ wk'[j].pc \in Mapped /\ ~wk'[j].hedged
    BY <1>1 DEF VictimOK
  <2>1. PICK j \in Workers : bal.victim = {j} /\ wk[j].pc \in Mapped /\ ~wk[j].hedged
    BY DEF VictimOK
  <2>2. CASE j = i
    <3>1. ~MuFree BY DEF MuFree
    <3> QED BY <2>1, <2>2, <3>1 DEF Quiet
  <2>3. CASE j # i BY <1>1, <2>1, <2>3, OthersHold
  <2> QED BY <2>2, <2>3
<1>6. ASSUME shared' = shared PROVE RaceOK'
  <2>1. ASSUME NEW p \in 1 .. Len(shared) PROVE Positions(p)' = Positions(p)
    BY <1>1, <1>2, <1>3, <1>6 DEF Positions
  <2>2. ASSUME NEW p \in 1 .. Len(shared) PROVE Limits(p)' = Limits(p)
    BY <1>1, <1>2, <1>3 DEF Limits
  <2>3. \A p \in 1 .. Len(shared) : \A a \in Positions(p)' :
           a \in Nat /\ \E b \in Positions(p) : Stored(a, b)' /\ Stored(b, a)'
    <3> SUFFICES ASSUME NEW p \in 1 .. Len(shared), NEW a \in Positions(p)
                 PROVE  a \in Nat /\ Stored(a, a)'
      BY <2>1
    <3>1. a \in Nat BY PositionsAreOffsets
    <3> QED BY <3>1 DEF Stored
  <2> QED BY <1>1, <2>2, <2>3, RaceKept
<1>7. CoverOK'
  <2> SUFFICES ASSUME phase = "live", NEW x \in File, Covered(x) PROVE Covered(x)'
    BY <1>1, CoverKept
  <2>1. CASE \E t \in Queued : t.off <= x /\ x < t.end BY <1>1, <2>1 DEF Covered
  <2>2. CASE \E j \in Workers : Answers(j, x)
    <3>1. PICK j \in Workers : Answers(j, x) BY <2>2
    <3>2. Answers(j, x)' BY <1>1, <1>2, <1>3, <3>1 DEF Answers, Limit, Pushing
    <3> QED BY <3>2 DEF Covered
  <2>3. CASE Moving(x)
    <3>1. PICK j \in Workers : Pushing(j) /\ wk[j].stop <= x /\ x < bal.end
      BY <2>3 DEF Moving
    <3>2. ~MuFree /\ wk[j].pc \in Mapped BY <3>1 DEF Pushing, MuFree, VictimOK
    <3>3. wk'[j].stop = wk[j].stop BY <1>1, <3>2, OthersHold DEF Quiet
    <3> QED BY <1>1, <3>1, <3>3 DEF Moving, Pushing, Covered
  <2> QED BY <2>1, <2>2, <2>3 DEF Covered
<1> QED BY <1>4, <1>5, <1>6, <1>7

\* What belongs to another worker is left alone.
LEMMA OwnElse ==
  ASSUME RangesTypeOK, OwnOK, NEW i \in Workers, Turn(i), bal' = bal,
         disk \subseteq disk', Own(i)'
  PROVE  OwnOK'
<1> SUFFICES ASSUME NEW j \in Workers, j # i PROVE Own(j)'
  BY DEF OwnOK
<1>1. Own(j) /\ wk'[j] = wk[j] BY DEF OwnOK, Turn
<1>2. (Shrinking(j)' <=> Shrinking(j)) /\ (Pushing(j)' <=> Pushing(j))
  BY DEF Shrinking, Pushing
<1>3. StopInTask(j)' BY <1>1, <1>2 DEF Own, StopInTask
<1>4. AtAgrees(j)' BY <1>1 DEF Own, AtAgrees, Stored
<1>5. PassedIsStored(j)' BY <1>1, <1>2 DEF Own, PassedIsStored, Stored
<1>6. EndedAtStop(j)' BY <1>1, <1>2 DEF Own, EndedAtStop
<1> QED BY <1>3, <1>4, <1>5, <1>6 DEF Own

\* A worker that keeps its place has nothing new to answer for but where it is
\* in its turn.
LEMMA OwnStands ==
  ASSUME RangesTypeOK, OwnOK, NEW i \in Workers, Turn(i), Stands(i), bal' = bal,
         disk \subseteq disk', AtAgrees(i)', EndedAtStop(i)'
  PROVE  Own(i)'
<1>1. Own(i) BY DEF OwnOK
<1>2. (Shrinking(i)' <=> Shrinking(i)) /\ (Pushing(i)' <=> Pushing(i))
  BY DEF Shrinking, Pushing
<1>3. StopInTask(i)' BY <1>1, <1>2 DEF Own, StopInTask, Stands
<1>4. PassedIsStored(i)' BY <1>1, <1>2 DEF Own, PassedIsStored, Stored, Stands
<1> QED BY <1>3, <1>4 DEF Own

\* The whole file stays on disk.
LEMMA WholeStays ==
  ASSUME disk \subseteq disk', disk' \subseteq File, disk = File
  PROVE  disk' = File
OBVIOUS

\* A worker that stays, stays.
LEMMA StaysKept ==
  ASSUME SomebodyStays, NEW i \in Workers, Turn(i), disk \subseteq disk', disk' \subseteq File,
         ctx' = ctx, why' = why, closed' = closed, phase' = phase, drains' = drains,
         wk'[i].pc = "gone" => wk[i].pc = "gone" \/ i \in drains \/ disk' = File \/ ctx,
         wk'[i].pc = "requeued" /\ wk'[i].res = "none" =>
            ctx \/ (wk[i].pc = "requeued" /\ wk[i].res = "none")
  PROVE  SomebodyStays'
<1>1. \A j \in Workers : wk'[j].pc = "requeued" /\ wk'[j].res = "none" => ctx'
  <2> SUFFICES ASSUME NEW j \in Workers, wk'[j].pc = "requeued", wk'[j].res = "none"
               PROVE  ctx
    OBVIOUS
  <2>1. CASE j = i BY <2>1 DEF SomebodyStays
  <2>2. CASE j # i BY <2>2 DEF SomebodyStays, Turn
  <2> QED BY <2>1, <2>2
<1>2. why' = "run" => disk' = File \/ \E j \in Workers : wk'[j].pc # "gone" /\ j \notin drains'
  <2> SUFFICES ASSUME why = "run", disk' # File
               PROVE  \E j \in Workers : wk'[j].pc # "gone" /\ j \notin drains
    OBVIOUS
  <2>1. disk # File BY WholeStays
  <2>2. PICK j \in Workers : wk[j].pc # "gone" /\ j \notin drains
    BY <2>1 DEF SomebodyStays
  <2>3. ~ctx BY DEF SomebodyStays
  <2>4. CASE j = i BY <2>2, <2>3, <2>4
  <2>5. CASE j # i BY <2>2, <2>5 DEF Turn
  <2> QED BY <2>4, <2>5
<1>3. (why' = "run" /\ closed' => disk' = File) /\ (phase' = "done" => disk' = File)
  BY WholeStays DEF SomebodyStays
<1>4. ctx' <=> why' # "run" BY DEF SomebodyStays
<1> QED BY <1>1, <1>2, <1>3, <1>4 DEF SomebodyStays

\* A step that moves nothing keeps the invariant.
LEMMA QuietStep ==
  ASSUME RangesInv, NEW i \in Workers, Quiet(i), Own(i)', disk \subseteq disk', disk' \subseteq File,
         shared' = shared, ctx' = ctx, why' = why, closed' = closed, drains' = drains,
         wk'[i].pc = "gone" => wk[i].pc = "gone" \/ i \in drains \/ disk' = File \/ ctx,
         wk'[i].pc = "requeued" /\ wk'[i].res = "none" =>
            ctx \/ (wk[i].pc = "requeued" /\ wk[i].res = "none")
  PROVE  RangesInv'
<1>1. Turn(i) /\ queue' = queue /\ stash' = stash /\ bal' = bal
      /\ saved' = saved /\ phase' = phase
  BY DEF Quiet
<1>2. RangesTypeOK'
  <2>1. wk' \in [Workers -> Entries] BY <1>1 DEF Turn
  <2> QED BY <1>1, <2>1 DEF RangesInv, RangesTypeOK
<1>3. CellsAllocated' /\ VictimOK' /\ RaceOK' /\ CoverOK' BY QuietKeeps DEF RangesInv
<1>4. OwnOK' BY <1>1, OwnElse DEF RangesInv
<1>5. SomebodyStays' BY <1>1, StaysKept DEF RangesInv
<1> QED BY <1>2, <1>3, <1>4, <1>5 DEF RangesInv

-----------------------------------------------------------------------------
(* The steps of a worker that move nothing. *)

\* Only a mapped worker is the victim of a steal, while the map is locked.
LEMMA NotVictim ==
  ASSUME VictimOK, NEW i \in Workers, wk[i].pc \notin Mapped \/ MuFree
  PROVE  ~Shrinking(i) /\ ~Pushing(i)
BY DEF VictimOK, Shrinking, Pushing, MuFree

\* A worker that keeps its place and stays what it is moves nothing.
LEMMA StandsQuiet ==
  ASSUME RangesTypeOK, CellsAllocated, NEW i \in Workers, Turn(i), Stands(i),
         queue' = queue, stash' = stash, shared' = shared, bal' = bal,
         phase' = phase, saved' = saved,
         Holding(i)' <=> Holding(i),
         wk[i].pc \in Mapped => wk'[i].pc \in Mapped \/ MuFree
  PROVE  Quiet(i)
<1>1. wk[i].ptr <= Len(shared) /\ (wk[i].ptr # 0 => wk[i].hedged) BY DEF CellsAllocated
<1> QED BY <1>1 DEF Quiet, Stands

\* A worker that has left its task answers for nothing.
LEMMA LeftOwn ==
  ASSUME RangesTypeOK, NEW i \in Workers, NEW pc \in {"top", "gone"}, Leave(i, pc),
         bal' = bal, ~Shrinking(i), ~Pushing(i)
  PROVE  Own(i)'
<1>1. wk'[i].pc = pc /\ wk'[i].cur = 0 /\ wk'[i].stop = 0 /\ wk'[i].end = 0
  BY LeaveDoes
<1>2. ~Shrinking(i)' /\ ~Pushing(i)' BY DEF Shrinking, Pushing
<1>3. StopInTask(i)' BY <1>1, <1>2 DEF StopInTask
<1>4. AtAgrees(i)' BY <1>1 DEF AtAgrees
<1>5. PassedIsStored(i)' BY <1>1, <1>2 DEF PassedIsStored, Stored
<1>6. EndedAtStop(i)' BY <1>1 DEF EndedAtStop
<1> QED BY <1>3, <1>4, <1>5, <1>6 DEF Own

\* The loop top.
LEMMA TopKeeps ==
  ASSUME RangesInv, NEW i \in Workers, Top(i)
  PROVE  RangesInv'
<1>1. /\ Turn(i) /\ Stands(i) /\ wk[i].pc = "top"
      /\ wk'[i].pc = IF i \in drains THEN "gone" ELSE "pop"
  BY TopDoes DEF RangesInv
<1>2. UNCHANGED <<disk, queue, closed, shared, drains, bal, ctx, why, stash, phase, saved>>
  BY DEF Top
<1>3. ~Holding(i) /\ ~Holding(i)' /\ wk[i].pc \notin Mapped BY <1>1 DEF Holding, Mapped, Loop
<1>4. Quiet(i) BY <1>1, <1>2, <1>3, StandsQuiet DEF RangesInv
<1>5. AtAgrees(i)' /\ EndedAtStop(i)' BY <1>1 DEF AtAgrees, EndedAtStop
<1>6. Own(i)' BY <1>1, <1>2, <1>5, OwnStands DEF RangesInv
<1>7. disk' \subseteq File BY <1>2 DEF RangesInv, RangesTypeOK
<1> QED BY <1>1, <1>2, <1>4, <1>6, <1>7, QuietStep

\* Pop on a closed queue.
LEMMA PopClosedKeeps ==
  ASSUME RangesInv, NEW i \in Workers, PopClosed(i)
  PROVE  RangesInv'
<1>1. wk[i].pc = "pop" /\ closed /\ Leave(i, "gone") BY DEF PopClosed
<1>2. UNCHANGED <<disk, queue, closed, shared, drains, bal, ctx, why, stash, phase, saved>>
  BY DEF PopClosed
<1>3. Turn(i) /\ wk'[i].pc = "gone" /\ wk'[i].ptr = 0 BY <1>1, LeaveDoes DEF RangesInv
<1>4. ~Holding(i) /\ ~Holding(i)' /\ wk[i].pc \notin Mapped
  BY <1>1, <1>3 DEF Holding, Mapped, Loop
<1>5. Quiet(i)
  <2>1. 0 <= Len(shared) BY DEF RangesInv, RangesTypeOK
  <2> QED BY <1>2, <1>3, <1>4, <2>1 DEF Quiet
<1>6. Own(i)' BY <1>1, <1>2, <1>4, NotVictim, LeftOwn DEF RangesInv
<1>7. disk' \subseteq File BY <1>2 DEF RangesInv, RangesTypeOK
<1>8. disk' = File \/ ctx BY <1>1, <1>2 DEF RangesInv, SomebodyStays
<1> QED BY <1>2, <1>3, <1>5, <1>6, <1>7, <1>8, QuietStep

\* The start of an attempt.
LEMMA StartKeeps ==
  ASSUME RangesInv, NEW i \in Workers, Start(i)
  PROVE  RangesInv'
<1>1. /\ Turn(i) /\ Stands(i) /\ wk[i].pc = "start" /\ wk'[i].pc = "read"
      /\ wk'[i].at = wk[i].off
  BY StartDoes DEF RangesInv
<1>2. UNCHANGED <<disk, queue, closed, shared, drains, bal, ctx, why, stash, phase, saved>>
  BY DEF Start
<1>3. Holding(i) /\ Holding(i)' /\ wk'[i].pc \in Mapped BY <1>1 DEF Holding, Mapped, Loop
<1>4. Quiet(i) BY <1>1, <1>2, <1>3, StandsQuiet DEF RangesInv
<1>5. AtAgrees(i)'
  <2>1. wk[i].off = wk[i].cur BY <1>1 DEF RangesInv, OwnOK, Own, AtAgrees
  <2> QED BY <1>1, <2>1 DEF AtAgrees, Stands
<1>6. EndedAtStop(i)' BY <1>1 DEF EndedAtStop
<1>7. Own(i)' BY <1>1, <1>2, <1>5, <1>6, OwnStands DEF RangesInv
<1>8. disk' \subseteq File BY <1>2 DEF RangesInv, RangesTypeOK
<1> QED BY <1>1, <1>2, <1>4, <1>7, <1>8, QuietStep

\* The end of an attempt in the read loop.
LEMMA EndKeeps ==
  ASSUME RangesInv, NEW i \in Workers, NEW res \in {"ok", "error", "full"}, End(i, res),
         wk[i].pc \in Loop, res = "ok" => wk[i].cur >= wk[i].stop,
         UNCHANGED <<disk, queue, closed, shared, drains, bal, ctx, why, stash, phase, saved>>
  PROVE  RangesInv'
<1>1. Turn(i) /\ Stands(i) /\ wk'[i].pc = "ended" /\ wk'[i].res = res
  BY EndDoes DEF RangesInv
<1>2. Holding(i) /\ Holding(i)' /\ wk'[i].pc \in Mapped
  BY <1>1 DEF Holding, Mapped, Loop
<1>3. Quiet(i) BY <1>1, <1>2, StandsQuiet DEF RangesInv
<1>4. AtAgrees(i)' BY <1>1 DEF AtAgrees
<1>5. EndedAtStop(i)' BY <1>1 DEF EndedAtStop, Stands
<1>6. Own(i)' BY <1>1, <1>4, <1>5, OwnStands DEF RangesInv
<1>7. disk' \subseteq File BY DEF RangesInv, RangesTypeOK
<1> QED BY <1>1, <1>3, <1>6, <1>7, QuietStep

\* The head of the read loop.
LEMMA ReadKeeps ==
  ASSUME RangesInv, NEW i \in Workers, Read(i)
  PROVE  RangesInv'
<1>1. wk[i].pc = "read" BY DEF Read
<1>2. UNCHANGED <<disk, queue, closed, shared, drains, bal, ctx, why, stash, phase, saved>>
  BY DEF Read
<1>3. wk[i].at = wk[i].cur BY <1>1 DEF RangesInv, OwnOK, Own, AtAgrees
<1>4. CASE wk[i].at >= wk[i].stop /\ End(i, "ok")
  <2>1. wk[i].pc \in Loop BY <1>1 DEF Loop
  <2> QED BY <1>2, <1>3, <1>4, <2>1, EndKeeps
<1>5. CASE wk[i].at < wk[i].end /\ \E n \in 1 .. Lesser(Buffer, Lesser(wk[i].stop, wk[i].end) - wk[i].at) :
             wk' = [wk EXCEPT ![i].pc = "write", ![i].n = n]
  <2>0. wk[i].at \in Nat /\ wk[i].end \in Nat /\ wk[i].stop \in Nat /\ Buffer \in Nat
    BY WorkerTypes, RangesAssumption DEF RangesInv
  <2>1. PICK n \in 1 .. Lesser(Buffer, Lesser(wk[i].stop, wk[i].end) - wk[i].at) :
          wk' = [wk EXCEPT ![i].pc = "write", ![i].n = n]
    BY <1>5
  <2>2. n \in Nat /\ wk[i].at + n <= wk[i].end BY <2>0, <2>1 DEF Lesser
  <2>3. Turn(i) /\ Stands(i) /\ wk'[i].pc = "write" /\ wk'[i].n = n /\ wk'[i].at = wk[i].at
    BY <2>1, <2>2, ReadsDoes DEF RangesInv
  <2>4. Holding(i) /\ Holding(i)' /\ wk'[i].pc \in Mapped
    BY <1>1, <2>3 DEF Holding, Mapped, Loop
  <2>5. Quiet(i) BY <1>2, <2>3, <2>4, StandsQuiet DEF RangesInv
  <2>6. AtAgrees(i)' BY <1>3, <2>2, <2>3 DEF AtAgrees, Stands
  <2>7. EndedAtStop(i)' BY <2>3 DEF EndedAtStop
  <2>8. Own(i)' BY <1>2, <2>3, <2>6, <2>7, OwnStands DEF RangesInv
  <2>9. disk' \subseteq File BY <1>2 DEF RangesInv, RangesTypeOK
  <2> QED BY <1>2, <2>3, <2>5, <2>8, <2>9, QuietStep
<1> QED BY <1>4, <1>5 DEF Read

\* The request or the body fails.
LEMMA ReadEndsKeeps ==
  ASSUME RangesInv, NEW i \in Workers, ReadCancelled(i) \/ ReadFails(i)
  PROVE  RangesInv'
<1>1. wk[i].pc \in Loop /\ End(i, "error") BY DEF ReadCancelled, ReadFails, Loop
<1>2. UNCHANGED <<disk, queue, closed, shared, drains, bal, ctx, why, stash, phase, saved>>
  BY DEF ReadCancelled, ReadFails
<1> QED BY <1>1, <1>2, EndKeeps

\* A full disk.
LEMMA WriteFullKeeps ==
  ASSUME RangesInv, NEW i \in Workers, WriteFull(i)
  PROVE  RangesInv'
<1>1. wk[i].pc \in Loop /\ End(i, "full") BY DEF WriteFull, Loop
<1>2. UNCHANGED <<disk, queue, closed, shared, drains, bal, ctx, why, stash, phase, saved>>
  BY DEF WriteFull
<1> QED BY <1>1, <1>2, EndKeeps

\* What is written lies in the file.
LEMMA WriteKeeps ==
  ASSUME RangesInv, NEW i \in Workers, Write(i)
  PROVE  RangesInv'
<1>1. wk[i].pc = "write" /\ wk[i].pc \in Loop BY DEF Write, Loop
<1>2. UNCHANGED <<queue, closed, shared, drains, bal, ctx, why, stash, phase, saved>>
  BY DEF Write
<1>3. wk[i].at = wk[i].cur /\ wk[i].at + wk[i].n <= wk[i].end
  BY <1>1 DEF RangesInv, OwnOK, Own, AtAgrees
<1>4. /\ wk[i].at \in Nat /\ wk[i].n \in Nat /\ wk[i].stop \in Nat /\ wk[i].end \in Nat
      /\ wk[i].end <= Size /\ Size \in Nat
  BY WorkerTypes, RangesAssumption DEF RangesInv
<1>5. CASE wk[i].stop <= wk[i].at
  <2>1. End(i, "ok") /\ disk' = disk BY <1>5 DEF Write
  <2> QED BY <1>1, <1>2, <1>3, <1>5, <2>1, EndKeeps
<1>6. CASE ~(wk[i].stop <= wk[i].at)
  <2> DEFINE n == Lesser(wk[i].n, wk[i].stop - wk[i].at)
  <2>1. /\ disk' = disk \cup (wk[i].at .. wk[i].at + n - 1)
        /\ wk' = [wk EXCEPT ![i].pc = "count", ![i].n = n]
    BY <1>6 DEF Write
  <2>2. n \in Nat /\ n <= wk[i].n BY <1>4, <1>6 DEF Lesser
  <2> HIDE DEF n
  <2>3. Turn(i) /\ Stands(i) /\ wk'[i].pc = "count" /\ wk'[i].n = n /\ wk'[i].at = wk[i].at
    BY <2>1, <2>2, WritesDoes DEF RangesInv
  <2>4. Holding(i) /\ Holding(i)' /\ wk'[i].pc \in Mapped
    BY <1>1, <2>3 DEF Holding, Mapped, Loop
  <2>5. Quiet(i) BY <1>2, <2>3, <2>4, StandsQuiet DEF RangesInv
  <2>6. disk \subseteq disk' BY <2>1
  <2>7. disk' \subseteq File
    <3>1. wk[i].at + n <= Size BY <1>3, <1>4, <2>2
    <3>2. wk[i].at .. wk[i].at + n - 1 \subseteq File BY <1>4, <2>2, <3>1 DEF File
    <3> QED BY <2>1, <3>2 DEF RangesInv, RangesTypeOK
  <2>8. AtAgrees(i)'
    <3>2. wk[i].at + n <= wk[i].end BY <1>3, <1>4, <2>2
    <3>3. \A x \in Nat : wk[i].at <= x /\ x < wk[i].at + n => x \in disk'
      BY <1>4, <2>1, <2>2
    <3> QED BY <1>3, <2>3, <3>2, <3>3 DEF AtAgrees, Stands, Stored
  <2>9. EndedAtStop(i)' BY <2>3 DEF EndedAtStop
  <2>10. Own(i)' BY <1>2, <2>3, <2>6, <2>8, <2>9, OwnStands DEF RangesInv
  <2> QED BY <1>2, <2>3, <2>5, <2>6, <2>7, <2>10, QuietStep
<1> QED BY <1>5, <1>6

\* The offset is cut to StopAt.
LEMMA ClampKeeps ==
  ASSUME RangesInv, NEW i \in Workers, Clamp(i)
  PROVE  RangesInv'
<1>1. wk[i].pc = "clamp" BY DEF Clamp
<1>2. UNCHANGED <<disk, queue, closed, shared, drains, bal, ctx, why, stash, phase, saved>>
  BY DEF Clamp
<1>3. wk[i].at \in Nat /\ wk[i].at \in Offsets /\ wk[i].stop \in Nat /\ wk[i].fresh \in Nat /\ wk[i].cur \in Nat
  BY WorkerTypes DEF RangesInv
<1> DEFINE excess == IF wk[i].at > wk[i].stop THEN wk[i].at - wk[i].stop ELSE 0
           to == wk[i].at - excess
           fresh == IF wk[i].fresh > excess THEN wk[i].fresh - excess ELSE 0
<1>4. wk' = [wk EXCEPT ![i].pc = "publish", ![i].at = to, ![i].fresh = fresh]
  BY DEF Clamp
<1>5. /\ to \in Nat /\ to \in Offsets /\ fresh \in Nat
      /\ to = Lesser(wk[i].stop, wk[i].at)
  <2>1. to = Lesser(wk[i].stop, wk[i].at) BY <1>3 DEF Lesser
  <2>2. fresh \in Nat BY <1>3
  <2>3. to \in Nat /\ to \in Offsets
    <3> HIDE DEF to
    <3> QED BY <1>3, <2>1, RangesAssumption DEF Lesser, Offsets
  <2> QED BY <2>1, <2>2, <2>3
<1> HIDE DEF to, fresh
<1>6. Turn(i) /\ Stands(i) /\ wk'[i].pc = "publish" /\ wk'[i].at = to
  BY <1>4, <1>5, ClampsDoes DEF RangesInv
<1>7. Holding(i) /\ Holding(i)' /\ wk'[i].pc \in Mapped BY <1>1, <1>6 DEF Holding, Mapped, Loop
<1>8. Quiet(i) BY <1>2, <1>6, <1>7, StandsQuiet DEF RangesInv
<1>9. Stored(wk[i].cur, to) /\ Stored(to, wk[i].cur)
  <2>1. Stored(wk[i].cur, wk[i].at) /\ Stored(wk[i].at, wk[i].cur)
    BY <1>1 DEF RangesInv, OwnOK, Own, AtAgrees
  <2>2. Stored(wk[i].stop, wk[i].cur) BY DEF RangesInv, OwnOK, Own, PassedIsStored
  <2>3. CASE to = wk[i].at BY <2>1, <2>3
  <2>4. CASE to # wk[i].at
    <3>1. to = wk[i].stop /\ to < wk[i].at BY <1>3, <1>5, <2>4 DEF Lesser
    <3> QED BY <1>3, <2>1, <2>2, <3>1 DEF Stored
  <2> QED BY <2>3, <2>4
<1>10. AtAgrees(i)' BY <1>2, <1>6, <1>9 DEF AtAgrees, Stands, Stored
<1>11. EndedAtStop(i)' BY <1>6 DEF EndedAtStop
<1>12. Own(i)' BY <1>2, <1>6, <1>10, <1>11, OwnStands DEF RangesInv
<1>13. disk' \subseteq File BY <1>2 DEF RangesInv, RangesTypeOK
<1> QED BY <1>2, <1>6, <1>8, <1>12, <1>13, QuietStep

\* The retries are used up.
LEMMA ExhaustedKeeps ==
  ASSUME RangesInv, NEW i \in Workers, Exhausted(i)
  PROVE  RangesInv'
<1>1. wk[i].pc = "ended" /\ MuFree /\ wk' = [wk EXCEPT ![i].pc = "residual"]
  BY DEF Exhausted, Ended
<1>2. UNCHANGED <<disk, queue, closed, shared, drains, bal, ctx, why, stash, phase, saved>>
  BY DEF Exhausted
<1>3. Turn(i) /\ Stands(i) /\ wk'[i].pc = "residual" BY <1>1, MovesDoes DEF RangesInv
<1>4. Holding(i) /\ Holding(i)' BY <1>1, <1>3 DEF Holding, Mapped, Loop
<1>5. Quiet(i) BY <1>1, <1>2, <1>3, <1>4, StandsQuiet DEF RangesInv
<1>6. AtAgrees(i)' /\ EndedAtStop(i)' BY <1>3 DEF AtAgrees, EndedAtStop
<1>7. Own(i)' BY <1>2, <1>3, <1>6, OwnStands DEF RangesInv
<1>8. disk' \subseteq File BY <1>2 DEF RangesInv, RangesTypeOK
<1> QED BY <1>2, <1>3, <1>5, <1>7, <1>8, QuietStep

\* A retry goes on with what StopAt has left.
LEMMA RetryKeeps ==
  ASSUME RangesInv, NEW i \in Workers, Retry(i)
  PROVE  RangesInv'
<1> DEFINE end == Greater(wk[i].cur, Lesser(wk[i].stop, wk[i].end))
<1>1. /\ wk[i].pc = "ended" /\ MuFree
      /\ wk' = [wk EXCEPT ![i].pc = "start", ![i].tries = @ + 1, ![i].off = wk[i].cur,
                          ![i].end = end]
  BY DEF Retry, Ended
<1>2. UNCHANGED <<disk, queue, closed, shared, drains, bal, ctx, why, stash, phase, saved>>
  BY DEF Retry
<1>3. /\ wk[i].cur \in Nat /\ wk[i].cur \in Offsets /\ wk[i].stop \in Nat
      /\ wk[i].end \in Nat /\ wk[i].end \in Offsets /\ Size \in Nat
  BY WorkerTypes, RangesAssumption DEF RangesInv
<1>4. ~Shrinking(i) /\ ~Pushing(i) BY <1>1, NotVictim DEF RangesInv
<1>5. Own(i) BY DEF RangesInv, OwnOK
<1>6. wk[i].stop <= wk[i].end BY <1>4, <1>5 DEF Own, StopInTask
<1>7. end \in Offsets /\ wk[i].stop <= end
  BY <1>3, <1>6 DEF Greater, Lesser, Offsets
<1> HIDE DEF end
<1>8. /\ Turn(i) /\ wk'[i].pc = "start" /\ wk'[i].off = wk[i].cur
      /\ wk'[i].cur = wk[i].cur /\ wk'[i].stop = wk[i].stop /\ wk'[i].end = end
      /\ wk'[i].ptr = wk[i].ptr /\ wk'[i].hedged = wk[i].hedged
  BY <1>1, <1>7, RetriesDoes DEF RangesInv
<1>9. Holding(i) /\ Holding(i)' BY <1>1, <1>8 DEF Holding, Mapped, Loop
<1>10. Quiet(i)
  <2>1. wk[i].ptr <= Len(shared) /\ (wk[i].ptr # 0 => wk[i].hedged)
    BY DEF RangesInv, CellsAllocated
  <2> QED BY <1>1, <1>2, <1>8, <1>9, <2>1 DEF Quiet
<1>11. Own(i)'
  <2>1. ~Shrinking(i)' /\ ~Pushing(i)' BY <1>2, <1>4 DEF Shrinking, Pushing
  <2>2. StopInTask(i)' BY <1>7, <1>8, <2>1 DEF StopInTask
  <2>3. AtAgrees(i)' BY <1>8 DEF AtAgrees
  <2>4. PassedIsStored(i)' BY <1>2, <1>5, <1>8, <2>1 DEF Own, PassedIsStored, Stored
  <2>5. EndedAtStop(i)' BY <1>8 DEF EndedAtStop
  <2> QED BY <2>2, <2>3, <2>4, <2>5 DEF Own
<1>12. disk' \subseteq File BY <1>2 DEF RangesInv, RangesTypeOK
<1> QED BY <1>2, <1>8, <1>10, <1>11, <1>12, QuietStep

\* The entry of a requeued task is deleted.
LEMMA UnmapKeeps ==
  ASSUME RangesInv, NEW i \in Workers, Unmap(i)
  PROVE  RangesInv'
<1> DEFINE pc == IF wk[i].res = "none" THEN "gone" ELSE "top"
<1>1. wk[i].pc = "requeued" /\ MuFree /\ pc \in {"top", "gone"} /\ Leave(i, pc)
  BY DEF Unmap
<1>2. UNCHANGED <<disk, queue, closed, shared, drains, bal, ctx, why, stash, phase, saved>>
  BY DEF Unmap
<1>3. pc = "gone" => ctx BY <1>1 DEF RangesInv, SomebodyStays
<1> HIDE DEF pc
<1>4. Turn(i) /\ wk'[i].pc = pc /\ wk'[i].ptr = 0 BY <1>1, LeaveDoes DEF RangesInv
<1>5. ~Holding(i) /\ ~Holding(i)' BY <1>1, <1>4 DEF Holding, Mapped, Loop
<1>6. Quiet(i)
  <2>1. 0 <= Len(shared) BY DEF RangesInv, RangesTypeOK
  <2> QED BY <1>1, <1>2, <1>4, <1>5, <2>1 DEF Quiet
<1>7. Own(i)' BY <1>1, <1>2, NotVictim, LeftOwn DEF RangesInv
<1>8. disk' \subseteq File BY <1>2 DEF RangesInv, RangesTypeOK
<1> QED BY <1>1, <1>2, <1>3, <1>4, <1>6, <1>7, <1>8, QuietStep

\* A flag is raised.
LEMMA FlagQuiet ==
  ASSUME RangesInv, NEW i \in Workers, NEW killed \in BOOLEAN, NEW draining \in BOOLEAN,
         wk' = [wk EXCEPT ![i].draining = draining, ![i].killed = killed],
         UNCHANGED <<disk, queue, shared, bal, stash, phase, saved>>
  PROVE  /\ Turn(i) /\ Quiet(i) /\ Own(i)'
         /\ wk'[i].pc = wk[i].pc /\ wk'[i].res = wk[i].res
<1>1. /\ Turn(i) /\ Stands(i)
      /\ wk'[i].pc = wk[i].pc /\ wk'[i].off = wk[i].off /\ wk'[i].at = wk[i].at
      /\ wk'[i].n = wk[i].n /\ wk'[i].res = wk[i].res
  BY FlagsDoes DEF RangesInv
<1>2. Holding(i)' <=> Holding(i) BY <1>1 DEF Holding
<1>3. Quiet(i) BY <1>1, <1>2, StandsQuiet DEF RangesInv
<1>4. Own(i) BY DEF RangesInv, OwnOK
<1>5. AtAgrees(i)' BY <1>1, <1>4 DEF Own, AtAgrees, Stands, Stored
<1>6. EndedAtStop(i)' BY <1>1, <1>4 DEF Own, EndedAtStop, Stands, Pushing
<1>7. Own(i)' BY <1>1, <1>5, <1>6, OwnStands DEF RangesInv
<1> QED BY <1>1, <1>3, <1>7

\* A cancelled attempt.
LEMMA KillKeeps ==
  ASSUME RangesInv, NEW i \in Workers, Kill(i)
  PROVE  RangesInv'
<1>1. UNCHANGED <<disk, queue, closed, shared, drains, bal, ctx, why, stash, phase, saved>>
  BY DEF Kill
<1>2. wk[i].draining \in BOOLEAN BY WorkerTypes DEF RangesInv
<1>3. wk' = [wk EXCEPT ![i].draining = wk[i].draining, ![i].killed = TRUE]
  <2>1. wk \in [Workers -> Entries] /\ wk[i] \in Entries BY DEF RangesInv, RangesTypeOK
  <2>2. wk' = [wk EXCEPT ![i] = [wk[i] EXCEPT !.killed = TRUE]] BY DEF Kill
  <2>3. [wk[i] EXCEPT !.killed = TRUE] =
          [wk[i] EXCEPT !.draining = wk[i].draining, !.killed = TRUE]
    BY <2>1 DEF Entries
  <2>4. wk' = [wk EXCEPT ![i] = [wk[i] EXCEPT !.draining = wk[i].draining, !.killed = TRUE]]
    BY <2>2, <2>3
  <2> QED BY <2>1, <2>4
<1>4. Quiet(i) /\ Own(i)' /\ wk'[i].pc = wk[i].pc /\ wk'[i].res = wk[i].res
  BY <1>1, <1>2, <1>3, FlagQuiet
<1>5. disk' \subseteq File BY <1>1 DEF RangesInv, RangesTypeOK
<1> QED BY <1>1, <1>4, <1>5, QuietStep

\* DrainWorker leaves somebody.
LEMMA DrainWorkerKeeps ==
  ASSUME RangesInv, LeaveOne, NEW i \in Workers, DrainWorker(i)
  PROVE  RangesInv'
<1>1. UNCHANGED <<disk, queue, closed, shared, bal, ctx, why, stash, phase, saved>>
      /\ drains' = drains \cup {i}
  BY DEF DrainWorker
<1> DEFINE draining == wk[i].draining \/ wk[i].pc \in Mapped
           killed == wk[i].killed \/ wk[i].pc \in Loop
<1>2. draining \in BOOLEAN /\ killed \in BOOLEAN BY WorkerTypes DEF RangesInv
<1>3. wk' = [wk EXCEPT ![i].draining = draining, ![i].killed = killed]
  <2>1. wk \in [Workers -> Entries] /\ wk[i] \in Entries BY DEF RangesInv, RangesTypeOK
  <2> QED BY <2>1 DEF DrainWorker
<1> HIDE DEF draining, killed
<1>4. Turn(i) /\ Quiet(i) /\ Own(i)' /\ wk'[i].pc = wk[i].pc /\ wk'[i].res = wk[i].res
  BY <1>1, <1>2, <1>3, FlagQuiet
<1>5. RangesTypeOK'
  <2>1. wk' \in [Workers -> Entries] BY <1>4 DEF Turn
  <2> QED BY <1>1, <2>1 DEF RangesInv, RangesTypeOK
<1>6. CellsAllocated' /\ VictimOK' /\ RaceOK' /\ CoverOK'
  BY <1>1, <1>4, QuietKeeps DEF RangesInv
<1>7. OwnOK' BY <1>1, <1>4, OwnElse DEF RangesInv
<1>8. SomebodyStays'
  <2>1. \A j \in Workers : wk'[j].pc = wk[j].pc /\ wk'[j].res = wk[j].res
    BY <1>4 DEF Turn
  <2>2. \E j \in Workers : j # i /\ j \notin drains /\ wk[j].pc # "gone"
    BY DEF DrainWorker
  <2>3. \E j \in Workers : wk'[j].pc # "gone" /\ j \notin drains'
    BY <1>1, <2>1, <2>2
  <2> QED BY <1>1, <2>1, <2>3 DEF RangesInv, SomebodyStays
<1> QED BY <1>5, <1>6, <1>7, <1>8 DEF RangesInv

-----------------------------------------------------------------------------
(* A worker lets its task go. *)

\* The residual of a worker that is not being stolen from is what it holds.
LEMMA ResidualIs ==
  ASSUME RangesTypeOK, CellsAllocated, NEW i \in Workers, StopInTask(i), ~Pushing(i)
  PROVE  /\ Rest(i) = Task(CurrentOffset(i), wk[i].stop, wk[i].ptr)
         /\ \A t \in Residual(i) :
              t = Rest(i) /\ t \in Tasks /\ t.off = CurrentOffset(i)
              /\ t.end = wk[i].stop /\ t.ptr = wk[i].ptr
         /\ CurrentOffset(i) < wk[i].stop => Rest(i) \in Residual(i)
<1>1. /\ wk[i].stop \in Nat /\ wk[i].end \in Nat /\ wk[i].end \in Offsets /\ wk[i].ptr \in Nat
      /\ wk[i].stop <= wk[i].end
  BY WorkerTypes DEF StopInTask
<1>2. Lesser(wk[i].stop, wk[i].end) = wk[i].stop BY <1>1 DEF Lesser
<1>3. wk[i].stop \in Offsets BY <1>1, RangesAssumption DEF Offsets
<1>4. CurrentOffset(i) \in Nat /\ CurrentOffset(i) \in Offsets BY OffsetOfRace
<1>5. Rest(i) = [off |-> CurrentOffset(i), end |-> wk[i].stop, ptr |-> wk[i].ptr]
  BY <1>2 DEF Rest, Task
<1>6. /\ Rest(i).off = CurrentOffset(i) /\ Rest(i).end = wk[i].stop
      /\ Rest(i).ptr = wk[i].ptr
      /\ Rest(i) \in [off : Offsets, end : Offsets, ptr : Nat]
  BY <1>1, <1>3, <1>4, <1>5
<1>7. \A t \in Residual(i) : t = Rest(i) /\ t \in Tasks
  <2> SUFFICES ASSUME NEW t \in Residual(i) PROVE t = Rest(i) /\ t \in Tasks
    OBVIOUS
  <2>1. t = Rest(i) /\ t.off < t.end BY DEF Residual
  <2>2. t.off <= t.end BY <1>1, <1>4, <1>6, <2>1
  <2> QED BY <1>6, <2>1, <2>2 DEF Tasks
<1>8. CurrentOffset(i) < wk[i].stop => Rest(i) \in Residual(i) BY <1>6 DEF Residual
<1> QED BY <1>5, <1>6, <1>7, <1>8 DEF Task

\* The residual is put behind the queue.
LEMMA RequeueAdds ==
  ASSUME RangesTypeOK, CellsAllocated, NEW i \in Workers, StopInTask(i), ~Pushing(i)
  PROVE  /\ queue \o Requeue(i) \in Seq(Tasks)
         /\ ToSet(queue \o Requeue(i)) = ToSet(queue) \cup Residual(i)
<1>0. queue \in Seq(Tasks) BY DEF RangesTypeOK
<1>1. CASE Residual(i) = {}
  <2>1. Requeue(i) = <<>> BY <1>1 DEF Requeue
  <2>2. queue \o Requeue(i) = queue BY <1>0, <2>1, ConcatEmptySeq
  <2>3. ToSet(queue \o Requeue(i)) = ToSet(queue) BY <2>2
  <2>4. queue \o Requeue(i) \in Seq(Tasks) BY <1>0, <2>2
  <2> QED BY <1>1, <2>3, <2>4
<1>2. CASE Residual(i) # {}
  <2>1. Requeue(i) = <<Rest(i)>> BY <1>2 DEF Requeue
  <2>2. Residual(i) = {Rest(i)} BY <1>2 DEF Residual
  <2>3. Rest(i) \in Tasks BY <2>2, ResidualIs
  <2>4. /\ queue \o <<Rest(i)>> \in Seq(Tasks)
        /\ ToSet(queue \o <<Rest(i)>>) = ToSet(queue) \cup {Rest(i)}
    BY <2>3, QueueGrows, Zenon
  <2> QED BY <2>1, <2>2, <2>4, Zenon
<1> QED BY <1>1, <1>2

\* Worker i gives up its task: what it held is on disk or goes to the queue or
\* the stash, and nothing else does.
LetsGo(i) ==
  /\ Turn(i) /\ ~Holding(i)' /\ ~Pushing(i) /\ ~Shrinking(i)
  /\ wk'[i].ptr <= Len(shared) /\ (wk'[i].ptr # 0 => wk'[i].hedged)
  /\ \A t \in Queued' : t \in Queued \/ (Holding(i) /\ t \in Residual(i))
  /\ disk = File \/ /\ Queued \subseteq Queued'
                    /\ Holding(i) => Residual(i) \subseteq Queued' \/ wk[i].cur >= wk[i].stop

\* It leaves cells, victim, races and cover in order.
LEMMA LetsGoKeeps ==
  ASSUME RangesInv, NEW i \in Workers, LetsGo(i),
         UNCHANGED <<disk, shared, bal, phase, saved>>
  PROVE  CellsAllocated' /\ VictimOK' /\ RaceOK' /\ CoverOK'
<1>0. RangesTypeOK /\ CellsAllocated /\ VictimOK /\ RaceOK /\ CoverOK /\ Own(i)
  BY DEF RangesInv, OwnOK
<1>1. Turn(i) /\ ~Holding(i)' /\ ~Pushing(i) /\ ~Shrinking(i) BY DEF LetsGo
<1>2. StopInTask(i) BY <1>0 DEF Own
<1>3. \A j \in Workers : j # i => wk'[j] = wk[j] /\ (Holding(j)' <=> Holding(j))
  BY <1>1, OthersHold
<1>4. \A t \in Queued' : t \in Queued \/ (Holding(i) /\ t \in Residual(i)) BY DEF LetsGo
<1>5. CellsAllocated'
  <2>1. \A t \in Queued' : t.ptr <= Len(shared)
    BY <1>0, <1>1, <1>2, <1>4, ResidualIs DEF CellsAllocated
  <2>2. \A j \in Workers : wk'[j].ptr <= Len(shared) /\ (wk'[j].ptr # 0 => wk'[j].hedged)
    BY <1>0, <1>3 DEF CellsAllocated, LetsGo
  <2> QED BY <1>0, <2>1, <2>2 DEF CellsAllocated
<1>6. VictimOK'
  <2> SUFFICES ASSUME bal.pc \in {"shrink", "push"}
               PROVE  \E j \in Workers :
                        bal.victim = {j} /\ wk'[j].pc \in Mapped /\ ~wk'[j].hedged
    BY DEF VictimOK
  <2>1. PICK j \in Workers : bal.victim = {j} /\ wk[j].pc \in Mapped /\ ~wk[j].hedged
    BY <1>0 DEF VictimOK
  <2>2. j # i BY <1>1, <2>1 DEF Pushing, Shrinking
  <2> QED BY <1>3, <2>1, <2>2
<1>7. ASSUME NEW p \in 1 .. Len(shared) PROVE Positions(p)' \subseteq Positions(p)
  <2> SUFFICES ASSUME NEW a \in Positions(p)' PROVE a \in Positions(p)
    OBVIOUS
  <2>1. \/ a = shared[p]
        \/ \E t \in Queued' : t.ptr = p /\ a = t.off
        \/ \E j \in Workers : Holding(j)' /\ wk'[j].ptr = p /\ a = wk'[j].cur
    BY DEF Positions
  <2>2. CASE a = shared[p] BY <2>2 DEF Positions
  <2>3. CASE \E j \in Workers : Holding(j)' /\ wk'[j].ptr = p /\ a = wk'[j].cur
    BY <1>1, <1>3, <2>3 DEF Positions
  <2>4. CASE \E t \in Queued' : t.ptr = p /\ a = t.off
    <3>1. PICK t \in Queued' : t.ptr = p /\ a = t.off BY <2>4
    <3>2. CASE t \in Queued BY <3>1, <3>2 DEF Positions
    <3>3. CASE Holding(i) /\ t \in Residual(i)
      <4>1. a = CurrentOffset(i) /\ wk[i].ptr = p
        BY <1>0, <1>1, <1>2, <3>1, <3>3, ResidualIs
      <4>2. wk[i].ptr # 0 BY <4>1
      <4>3. a \in {wk[i].cur, shared[p]} BY <1>0, <4>1, <4>2, OffsetOfRace
      <4>4. wk[i].cur \in Positions(p) BY <3>3, <4>1 DEF Positions
      <4>5. shared[p] \in Positions(p) BY DEF Positions
      <4> QED BY <4>3, <4>4, <4>5
    <3> QED BY <1>4, <3>1, <3>2, <3>3
  <2> QED BY <2>1, <2>2, <2>3, <2>4
<1>8. ASSUME NEW p \in 1 .. Len(shared) PROVE Limits(p)' \subseteq Limits(p)
  <2> SUFFICES ASSUME NEW a \in Limits(p)' PROVE a \in Limits(p)
    OBVIOUS
  <2>1. \/ \E t \in Queued' : t.ptr = p /\ a = t.end
        \/ \E j \in Workers : Holding(j)' /\ wk'[j].ptr = p /\ a = wk'[j].stop
    BY DEF Limits
  <2>2. CASE \E j \in Workers : Holding(j)' /\ wk'[j].ptr = p /\ a = wk'[j].stop
    BY <1>1, <1>3, <2>2 DEF Limits
  <2>3. CASE \E t \in Queued' : t.ptr = p /\ a = t.end
    <3>1. PICK t \in Queued' : t.ptr = p /\ a = t.end BY <2>3
    <3>2. CASE t \in Queued BY <3>1, <3>2 DEF Limits
    <3>3. CASE Holding(i) /\ t \in Residual(i)
      <4>1. a = wk[i].stop /\ wk[i].ptr = p
        BY <1>0, <1>1, <1>2, <3>1, <3>3, ResidualIs
      <4> QED BY <3>3, <4>1 DEF Limits
    <3> QED BY <1>4, <3>1, <3>2, <3>3
  <2> QED BY <2>1, <2>2, <2>3
<1>9. RaceOK'
  <2>1. \A p \in 1 .. Len(shared) : \A a \in Positions(p)' :
           a \in Nat /\ \E b \in Positions(p) : Stored(a, b)' /\ Stored(b, a)'
    <3> SUFFICES ASSUME NEW p \in 1 .. Len(shared), NEW a \in Positions(p)'
                 PROVE  a \in Positions(p) /\ a \in Nat /\ Stored(a, a)'
      OBVIOUS
    <3>1. a \in Positions(p) /\ a \in Nat BY <1>0, <1>7, PositionsAreOffsets
    <3> QED BY <3>1 DEF Stored
  <2> QED BY <1>0, <1>8, <2>1, RaceKept
<1>10. CoverOK'
  <2>1. CASE disk = File BY <2>1 DEF CoverOK
  <2>2. CASE disk # File
    <3>1. Queued \subseteq Queued' BY <2>2 DEF LetsGo
    <3>2. Holding(i) => Residual(i) \subseteq Queued' \/ wk[i].cur >= wk[i].stop
      BY <2>2 DEF LetsGo
    <3> SUFFICES ASSUME phase = "live", NEW x \in File, Covered(x), x \notin disk
                 PROVE  Covered(x)'
      BY <1>0, CoverKept
    <3>3. CASE \E t \in Queued : t.off <= x /\ x < t.end BY <3>1, <3>3 DEF Covered
    <3>4. CASE \E j \in Workers : Answers(j, x)
      <4>1. PICK j \in Workers : Answers(j, x) BY <3>4
      <4>2. CASE j # i
        <5>1. Answers(j, x)' BY <1>3, <4>1, <4>2 DEF Answers, Limit, Pushing
        <5> QED BY <5>1 DEF Covered
      <4>3. CASE j = i
        <5>0. x \in Nat /\ wk[i].cur \in Nat /\ wk[i].stop \in Nat
          BY <1>0, WorkerTypes, RangesAssumption DEF File
        <5>1. Holding(i) /\ wk[i].cur <= x /\ x < wk[i].stop
          BY <1>1, <4>1, <4>3 DEF Answers, Limit
        <5>2. Residual(i) \subseteq Queued' BY <3>2, <5>0, <5>1
        <5>3. CurrentOffset(i) <= x
          <6>1. CASE wk[i].ptr = 0 BY <1>0, <5>1, <6>1, OffsetOfRace
          <6>2. CASE wk[i].ptr # 0
            <7> DEFINE p == wk[i].ptr
            <7>1. p \in 1 .. Len(shared) /\ shared[p] \in Nat
                  /\ CurrentOffset(i) \in {wk[i].cur, shared[p]}
              BY <1>0, <6>2, OffsetOfRace
            <7>2. wk[i].cur \in Positions(p) /\ shared[p] \in Positions(p)
              BY <5>1 DEF Positions
            <7>3. Stored(wk[i].cur, shared[p]) BY <1>0, <7>1, <7>2 DEF RaceOK
            <7>4. shared[p] <= x BY <5>0, <5>1, <7>1, <7>3 DEF Stored
            <7> QED BY <5>1, <7>1, <7>4
          <6> QED BY <6>1, <6>2
        <5>4. CurrentOffset(i) \in Nat BY <1>0, OffsetOfRace
        <5>5. Rest(i) \in Residual(i) BY <1>0, <1>1, <1>2, <5>0, <5>1, <5>3, <5>4, ResidualIs
        <5>6. Rest(i) \in Queued' /\ Rest(i).off <= x /\ x < Rest(i).end
          BY <1>0, <1>1, <1>2, <5>1, <5>2, <5>3, <5>5, ResidualIs
        <5> QED BY <5>6 DEF Covered
      <4> QED BY <4>2, <4>3
    <3>5. CASE Moving(x)
      <4>1. PICK j \in Workers : Pushing(j) /\ wk[j].stop <= x /\ x < bal.end
        BY <3>5 DEF Moving
      <4>2. j # i BY <1>1, <4>1
      <4>3. wk'[j] = wk[j] BY <1>3, <4>2
      <4> QED BY <4>1, <4>3 DEF Moving, Pushing, Covered
    <3> QED BY <3>3, <3>4, <3>5 DEF Covered
  <2> QED BY <2>1, <2>2
<1> QED BY <1>5, <1>6, <1>9, <1>10

\* A run that has been cancelled owes nobody.
LEMMA CancelledStays ==
  ASSUME SomebodyStays, ctx' = TRUE, why' # "run", phase' = phase, disk' = disk
  PROVE  SomebodyStays'
BY DEF SomebodyStays


\* What is left of the invariant once worker i has let its task go.
LEMMA LetsGoStep ==
  ASSUME RangesInv, NEW i \in Workers, LetsGo(i), Own(i)', SomebodyStays',
         UNCHANGED <<disk, shared, bal, phase, saved, drains>>,
         queue' \in Seq(Tasks), stash' \in SUBSET Tasks,
         closed' = closed, ctx' \in BOOLEAN, why' \in {"run", "pause", "error"}
  PROVE  RangesInv'
<1>1. Turn(i) BY DEF LetsGo
<1>2. RangesTypeOK'
  <2>1. wk' \in [Workers -> Entries] BY <1>1 DEF Turn
  <2> QED BY <2>1 DEF RangesInv, RangesTypeOK
<1>3. CellsAllocated' /\ VictimOK' /\ RaceOK' /\ CoverOK' BY LetsGoKeeps
<1>4. OwnOK' BY <1>1, OwnElse DEF RangesInv
<1> QED BY <1>2, <1>3, <1>4 DEF RangesInv

\* A worker that leaves lets its task go.
LEMMA LeaveLetsGo ==
  ASSUME RangesInv, NEW i \in Workers, NEW pc \in {"top", "gone"}, Leave(i, pc),
         wk[i].pc \notin Mapped \/ MuFree, UNCHANGED <<bal, shared>>,
         \A t \in Queued' : t \in Queued \/ (Holding(i) /\ t \in Residual(i)),
         disk = File \/ /\ Queued \subseteq Queued'
                        /\ Holding(i) => Residual(i) \subseteq Queued' \/ wk[i].cur >= wk[i].stop
  PROVE  LetsGo(i) /\ Own(i)' /\ wk'[i].pc = pc
<1>1. Turn(i) /\ wk'[i].pc = pc /\ wk'[i].ptr = 0 BY LeaveDoes DEF RangesInv
<1>2. ~Holding(i)' BY <1>1 DEF Holding, Mapped, Loop
<1>3. ~Shrinking(i) /\ ~Pushing(i) BY NotVictim DEF RangesInv
<1>4. Own(i)' BY <1>3, LeftOwn DEF RangesInv
<1>5. 0 <= Len(shared) BY DEF RangesInv, RangesTypeOK
<1> QED BY <1>1, <1>2, <1>3, <1>4, <1>5 DEF LetsGo

\* A range that is done.
LEMMA SucceededKeeps ==
  ASSUME RangesInv, NEW i \in Workers, Succeeded(i)
  PROVE  RangesInv'
<1>1. /\ wk[i].pc = "ended" /\ MuFree /\ wk[i].res = "ok" /\ Leave(i, "top")
      /\ UNCHANGED <<disk, queue, closed, shared, drains, bal, ctx, why, stash, phase, saved>>
  BY DEF Succeeded, Ended
<1>2. wk[i].cur >= wk[i].stop
  <2>1. ~Pushing(i) BY <1>1, NotVictim DEF RangesInv
  <2>2. EndedAtStop(i) BY DEF RangesInv, OwnOK, Own
  <2> QED BY <1>1, <2>1, <2>2 DEF EndedAtStop
<1>3. Queued' = Queued BY <1>1 DEF Queued
<1>4. LetsGo(i) /\ Own(i)' /\ wk'[i].pc = "top" BY <1>1, <1>2, <1>3, LeaveLetsGo
<1>5. Turn(i) BY <1>4 DEF LetsGo
<1>6. queue \in Seq(Tasks) /\ stash \in SUBSET Tasks /\ ctx \in BOOLEAN
      /\ why \in {"run", "pause", "error"} /\ disk \subseteq File
  BY DEF RangesInv, RangesTypeOK
<1>7. SomebodyStays' BY <1>1, <1>4, <1>5, <1>6, StaysKept DEF RangesInv
<1> QED BY <1>1, <1>4, <1>6, <1>7, LetsGoStep

\* A worker that has pushed its residual lets its task go.
LEMMA RequeuedLetsGo ==
  ASSUME RangesInv, NEW i \in Workers, wk[i].pc = "ended", MuFree, UNCHANGED <<disk, stash, shared, bal>>,
         Turn(i), Stands(i), wk'[i].pc = "requeued",
         queue' = queue \o Requeue(i) \/ (disk = File /\ queue' = queue)
  PROVE  LetsGo(i) /\ Own(i)' /\ queue' \in Seq(Tasks)
<1>1. ~Shrinking(i) /\ ~Pushing(i) BY NotVictim DEF RangesInv
<1>2. Own(i) /\ StopInTask(i) BY DEF RangesInv, OwnOK, Own
<1>3. Holding(i) BY DEF Holding, Mapped, Loop
<1>4. ~Holding(i)' BY DEF Holding, Mapped, Loop
<1>5. /\ queue \o Requeue(i) \in Seq(Tasks)
      /\ ToSet(queue \o Requeue(i)) = ToSet(queue) \cup Residual(i)
  BY <1>1, <1>2, RequeueAdds DEF RangesInv
<1>6. queue' \in Seq(Tasks) BY <1>5 DEF RangesInv, RangesTypeOK
<1>7. /\ \A t \in Queued' : t \in Queued \/ t \in Residual(i)
      /\ disk = File \/ (Queued \subseteq Queued' /\ Residual(i) \subseteq Queued')
  <2>1. CASE queue' = queue \o Requeue(i)
    <3>1. ToSet(queue') = ToSet(queue) \cup Residual(i) BY <1>5, <2>1
    <3> QED BY <3>1 DEF Queued
  <2>2. CASE disk = File /\ queue' = queue BY <2>2 DEF Queued
  <2> QED BY <2>1, <2>2
<1>8. wk[i].ptr <= Len(shared) /\ (wk[i].ptr # 0 => wk[i].hedged)
  BY DEF RangesInv, CellsAllocated
<1>9. LetsGo(i) BY <1>1, <1>3, <1>4, <1>7, <1>8 DEF LetsGo, Stands
<1>10. AtAgrees(i)' /\ EndedAtStop(i)' BY DEF AtAgrees, EndedAtStop
<1>11. Own(i)' BY <1>10, OwnStands DEF RangesInv
<1> QED BY <1>6, <1>9, <1>11

\* A worker of a cancelled run gives its residual back.
LEMMA ReleaseKeeps ==
  ASSUME RangesInv, NEW i \in Workers, Release(i)
  PROVE  RangesInv'
<1>1. /\ wk[i].pc = "ended" /\ MuFree /\ ctx /\ queue' = queue \o Requeue(i)
      /\ wk' = [wk EXCEPT ![i].pc = "requeued", ![i].res = "none"]
      /\ UNCHANGED <<disk, closed, shared, drains, bal, ctx, why, stash, phase, saved>>
  BY DEF Release, Ended
<1>2. Turn(i) /\ Stands(i) /\ wk'[i].pc = "requeued" BY <1>1, ReleasedDoes DEF RangesInv
<1>3. LetsGo(i) /\ Own(i)' /\ queue' \in Seq(Tasks) BY <1>1, <1>2, RequeuedLetsGo
<1>4. stash \in SUBSET Tasks /\ ctx \in BOOLEAN /\ why \in {"run", "pause", "error"}
      /\ disk \subseteq File
  BY DEF RangesInv, RangesTypeOK
<1>5. SomebodyStays' BY <1>1, <1>2, <1>4, StaysKept DEF RangesInv
<1> QED BY <1>1, <1>3, <1>4, <1>5, LetsGoStep

\* A cancelled attempt gives its residual back.
LEMMA HealthCancelledKeeps ==
  ASSUME RangesInv, VerifiedMeansWhole, NEW i \in Workers, HealthCancelled(i)
  PROVE  RangesInv'
<1>1. /\ wk[i].pc = "ended" /\ MuFree /\ wk[i].res = "error"
      /\ queue' = IF Whole THEN queue ELSE queue \o Requeue(i)
      /\ wk' = [wk EXCEPT ![i].pc = "requeued"]
      /\ UNCHANGED <<disk, closed, shared, drains, bal, ctx, why, stash, phase, saved>>
  BY DEF HealthCancelled, Ended
<1>2. Turn(i) /\ Stands(i) /\ wk'[i].pc = "requeued" /\ wk'[i].res = "error"
  BY <1>1, MovesDoes DEF RangesInv
<1>3. queue' = queue \o Requeue(i) \/ (disk = File /\ queue' = queue)
  BY <1>1 DEF VerifiedMeansWhole
<1>4. LetsGo(i) /\ Own(i)' /\ queue' \in Seq(Tasks) BY <1>1, <1>2, <1>3, RequeuedLetsGo
<1>5. stash \in SUBSET Tasks /\ ctx \in BOOLEAN /\ why \in {"run", "pause", "error"}
      /\ disk \subseteq File
  BY DEF RangesInv, RangesTypeOK
<1>6. SomebodyStays' BY <1>1, <1>2, <1>5, StaysKept DEF RangesInv
<1> QED BY <1>1, <1>4, <1>5, <1>6, LetsGoStep

\* A fatal error cancels the run, or a pause already has.
LEMMA CancelledDoes ==
  ASSUME RangesInv, Cancelled("error"), UNCHANGED <<phase, disk>>
  PROVE  /\ ctx' \in BOOLEAN /\ why' \in {"run", "pause", "error"}
         /\ SomebodyStays'
<1>1. ctx' = TRUE /\ why' = IF why = "pause" THEN why ELSE "error" BY DEF Cancelled
<1>2. why' # "run" BY <1>1
<1>3. SomebodyStays' BY <1>1, <1>2, CancelledStays DEF RangesInv
<1> QED BY <1>1, <1>3

\* The residual of a full disk goes to the stash.
LEMMA DiskFullKeeps ==
  ASSUME RangesInv, NEW i \in Workers, DiskFull(i)
  PROVE  RangesInv'
<1>1. /\ wk[i].pc = "ended" /\ MuFree /\ stash' = stash \cup Residual(i)
      /\ Leave(i, "gone") /\ Cancelled("error")
      /\ UNCHANGED <<disk, queue, closed, shared, drains, bal, phase, saved>>
  BY DEF DiskFull, Ended
<1>2. ~Pushing(i) BY <1>1, NotVictim DEF RangesInv
<1>3. StopInTask(i) BY DEF RangesInv, OwnOK, Own
<1>4. Residual(i) \subseteq Tasks BY <1>2, <1>3, ResidualIs DEF RangesInv
<1>5. stash' \in SUBSET Tasks /\ queue \in Seq(Tasks)
  BY <1>1, <1>4 DEF RangesInv, RangesTypeOK
<1>6. Queued' = Queued \cup Residual(i) BY <1>1 DEF Queued
<1>7. Holding(i) BY <1>1 DEF Holding, Mapped, Loop
<1>8. LetsGo(i) /\ Own(i)'
  <2> HIDE DEF Queued, Residual
  <2>1. "gone" \in {"top", "gone"} OBVIOUS
  <2>2. \A t \in Queued' : t \in Queued \/ (Holding(i) /\ t \in Residual(i)) BY <1>6, <1>7
  <2>3. Queued \subseteq Queued' /\ Residual(i) \subseteq Queued' BY <1>6
  <2> QED BY <1>1, <2>1, <2>2, <2>3, LeaveLetsGo
<1>9. ctx' \in BOOLEAN /\ why' \in {"run", "pause", "error"} /\ SomebodyStays'
  BY <1>1, CancelledDoes
<1> QED BY <1>1, <1>5, <1>8, <1>9, LetsGoStep

\* The residual of a worker that is already out of the map goes to the queue.
LEMMA PushResidualKeeps ==
  ASSUME RangesInv, NEW i \in Workers, PushResidual(i)
  PROVE  RangesInv'
<1>1. /\ wk[i].pc = "residual" /\ queue' = queue \o Requeue(i)
      /\ UNCHANGED <<disk, closed, shared, drains, bal, stash, phase, saved>>
  BY DEF PushResidual
<1>2. PICK pc \in {"top", "gone"} :
        /\ Leave(i, pc)
        /\ pc = "top" => UNCHANGED <<ctx, why>>
        /\ pc = "gone" => Cancelled("error")
  <2>1. CASE Leave(i, "top") /\ UNCHANGED <<ctx, why>> BY <2>1
  <2>2. CASE Leave(i, "gone") /\ Cancelled("error") BY <2>2
  <2> QED BY <2>1, <2>2 DEF PushResidual
<1>3. wk[i].pc \notin Mapped /\ Holding(i) BY <1>1 DEF Holding, Mapped, Loop
<1>4. ~Pushing(i) BY <1>3, NotVictim DEF RangesInv
<1>5. StopInTask(i) BY DEF RangesInv, OwnOK, Own
<1>6. queue' \in Seq(Tasks) /\ ToSet(queue') = ToSet(queue) \cup Residual(i)
  BY <1>1, <1>4, <1>5, RequeueAdds DEF RangesInv
<1>7. Queued' = Queued \cup Residual(i) BY <1>1, <1>6 DEF Queued
<1>8. LetsGo(i) /\ Own(i)' /\ wk'[i].pc = pc
  <2> HIDE DEF Queued, Residual
  <2>1. \A t \in Queued' : t \in Queued \/ (Holding(i) /\ t \in Residual(i)) BY <1>3, <1>7
  <2>2. Queued \subseteq Queued' /\ Residual(i) \subseteq Queued' BY <1>7
  <2> QED BY <1>1, <1>2, <1>3, <2>1, <2>2, LeaveLetsGo
<1>9. stash \in SUBSET Tasks /\ disk \subseteq File BY DEF RangesInv, RangesTypeOK
<1>10. ctx' \in BOOLEAN /\ why' \in {"run", "pause", "error"} /\ SomebodyStays'
  <2>1. CASE pc = "top"
    <3>1. UNCHANGED <<ctx, why>> /\ wk'[i].pc = "top" BY <1>2, <1>8, <2>1
    <3>2. Turn(i) BY <1>8 DEF LetsGo
    <3>3. SomebodyStays' BY <1>1, <1>9, <3>1, <3>2, StaysKept DEF RangesInv
    <3> QED BY <3>1, <3>3 DEF RangesInv, RangesTypeOK
  <2>2. CASE pc = "gone" BY <1>1, <1>2, <2>2, CancelledDoes
  <2> QED BY <2>1, <2>2
<1> QED BY <1>1, <1>6, <1>8, <1>9, <1>10, LetsGoStep

\* A worker that finds every byte verified leaves with the task it popped.
LEMMA PopWholeKeeps ==
  ASSUME RangesInv, VerifiedMeansWhole, Whole, NEW i \in Workers, Pop(i)
  PROVE  RangesInv'
<1>1. /\ wk[i].pc = "pop" /\ queue # <<>> /\ wk' = [wk EXCEPT ![i].pc = "gone"]
      /\ queue' = Tail(queue)
      /\ UNCHANGED <<disk, closed, shared, drains, bal, ctx, why, stash, phase, saved>>
  BY DEF Pop
<1>2. disk = File BY DEF VerifiedMeansWhole
<1>3. Turn(i) /\ Stands(i) /\ wk'[i].pc = "gone" BY <1>1, GoneDoes DEF RangesInv
<1>4. queue \in Seq(Tasks) /\ stash \in SUBSET Tasks /\ ctx \in BOOLEAN
      /\ why \in {"run", "pause", "error"} /\ disk \subseteq File
  BY DEF RangesInv, RangesTypeOK
<1>5. queue' \in Seq(Tasks) /\ ToSet(queue') \subseteq ToSet(queue)
  <2>1. ASSUME NEW q \in Seq(Tasks), q # <<>>
        PROVE  Tail(q) \in Seq(Tasks) /\ ToSet(Tail(q)) \subseteq ToSet(q)
    BY <2>1, HeadTaken
  <2> QED BY <1>1, <1>4, <2>1
<1>6. \A t \in Queued' : t \in Queued BY <1>1, <1>5 DEF Queued
<1>7. ~Holding(i)' /\ wk[i].pc \notin Mapped BY <1>1, <1>3 DEF Holding, Mapped, Loop
<1>8. ~Shrinking(i) /\ ~Pushing(i) BY <1>7, NotVictim DEF RangesInv
<1>9. wk[i].ptr <= Len(shared) /\ (wk[i].ptr # 0 => wk[i].hedged)
  BY DEF RangesInv, CellsAllocated
<1>10. LetsGo(i) BY <1>2, <1>3, <1>6, <1>7, <1>8, <1>9 DEF LetsGo, Stands
<1>11. AtAgrees(i)' /\ EndedAtStop(i)' BY <1>3 DEF AtAgrees, EndedAtStop
<1>12. Own(i)' BY <1>1, <1>3, <1>11, OwnStands DEF RangesInv
<1>13. SomebodyStays' BY <1>1, <1>2, <1>3, <1>4, StaysKept DEF RangesInv
<1> QED BY <1>1, <1>4, <1>5, <1>10, <1>12, <1>13, LetsGoStep

-----------------------------------------------------------------------------
(* A worker takes a task, counts its bytes and stores its offset. *)

\* A race nobody joins and nobody moves in stays in order.
LEMMA RaceShrinks ==
  ASSUME RangesTypeOK, RaceOK, disk \subseteq disk', Len(shared') = Len(shared),
         \A p \in 1 .. Len(shared) : Positions(p)' \subseteq Positions(p)
                                     /\ Limits(p)' \subseteq Limits(p)
  PROVE  RaceOK'
<1>1. \A p \in 1 .. Len(shared) : \A a \in Positions(p)' :
         a \in Nat /\ \E b \in Positions(p) : Stored(a, b)' /\ Stored(b, a)'
  <2> SUFFICES ASSUME NEW p \in 1 .. Len(shared), NEW a \in Positions(p)'
               PROVE  a \in Positions(p) /\ a \in Nat /\ Stored(a, a)'
    OBVIOUS
  <2>1. a \in Positions(p) /\ a \in Nat BY PositionsAreOffsets
  <2> QED BY <2>1 DEF Stored
<1> QED BY <1>1, RaceKept

\* The victim of a steal is somebody else.
LEMMA VictimElse ==
  ASSUME VictimOK, NEW i \in Workers, Turn(i), bal' = bal, wk[i].pc \notin Mapped \/ MuFree
  PROVE  VictimOK'
<1> SUFFICES ASSUME bal.pc \in {"shrink", "push"}
             PROVE  \E j \in Workers :
                      bal.victim = {j} /\ wk'[j].pc \in Mapped /\ ~wk'[j].hedged
  BY DEF VictimOK
<1>1. PICK j \in Workers : bal.victim = {j} /\ wk[j].pc \in Mapped /\ ~wk[j].hedged
  BY DEF VictimOK
<1>2. j # i BY <1>1 DEF MuFree
<1> QED BY <1>1, <1>2 DEF Turn

\* A worker takes the task it popped.
LEMMA PopTakesKeeps ==
  ASSUME RangesInv, ~Whole, NEW i \in Workers, Pop(i)
  PROVE  RangesInv'
<1> DEFINE t == Head(queue)
<1>1. /\ wk[i].pc = "pop" /\ queue # <<>> /\ queue' = Tail(queue)
      /\ wk' = [wk EXCEPT ![i].pc = "start", ![i].off = t.off, ![i].end = t.end,
                  ![i].cur = t.off, ![i].stop = t.end, ![i].ptr = t.ptr,
                  ![i].hedged = (t.ptr # 0), ![i].draining = FALSE, ![i].tries = 0]
      /\ UNCHANGED <<disk, closed, shared, drains, bal, ctx, why, stash, phase, saved>>
  BY DEF Pop
<1>2. /\ queue \in Seq(Tasks) /\ stash \in SUBSET Tasks /\ ctx \in BOOLEAN
      /\ why \in {"run", "pause", "error"} /\ disk \subseteq File
  BY DEF RangesInv, RangesTypeOK
<1>3. t \in Tasks /\ queue' \in Seq(Tasks) /\ ToSet(queue) = {t} \cup ToSet(queue')
  <2>1. ASSUME NEW q \in Seq(Tasks), q # <<>>
        PROVE  Head(q) \in Tasks /\ Tail(q) \in Seq(Tasks) /\ ToSet(q) = {Head(q)} \cup ToSet(Tail(q))
    BY <2>1, HeadTaken
  <2> QED BY <1>1, <1>2, <2>1
<1> HIDE DEF t
<1>4. Queued = {t} \cup Queued' BY <1>1, <1>3 DEF Queued
<1>5. /\ Turn(i) /\ wk'[i].pc = "start" /\ wk'[i].off = t.off /\ wk'[i].cur = t.off
      /\ wk'[i].stop = t.end /\ wk'[i].end = t.end /\ wk'[i].ptr = t.ptr
      /\ wk'[i].hedged = (t.ptr # 0)
  BY <1>1, <1>3, TakesDoes DEF RangesInv
<1>6. ~Holding(i) /\ Holding(i)' /\ wk[i].pc \notin Mapped BY <1>1, <1>5 DEF Holding, Mapped, Loop
<1>7. ~Shrinking(i) /\ ~Pushing(i) BY <1>6, NotVictim DEF RangesInv
<1>8. ~Shrinking(i)' /\ ~Pushing(i)' BY <1>1, <1>7 DEF Shrinking, Pushing
<1>9. \A j \in Workers : j # i => wk'[j] = wk[j] /\ (Holding(j)' <=> Holding(j))
  BY <1>5, OthersHold
<1>10. t \in Queued /\ \A s \in Queued' : s \in Queued
  <2> HIDE DEF Queued
  <2> QED BY <1>4
<1>11. CellsAllocated'
  <2>1. t.ptr <= Len(shared) /\ \A s \in Queued' : s.ptr <= Len(shared)
    BY <1>10 DEF RangesInv, CellsAllocated
  <2>2. \A j \in Workers : wk'[j].ptr <= Len(shared) /\ (wk'[j].ptr # 0 => wk'[j].hedged)
    BY <1>5, <1>9, <2>1 DEF RangesInv, CellsAllocated
  <2> QED BY <1>1, <2>1, <2>2 DEF RangesInv, CellsAllocated
<1>12. VictimOK' BY <1>1, <1>5, <1>6, VictimElse DEF RangesInv
<1>13. RaceOK'
  <2>1. ASSUME NEW p \in 1 .. Len(shared), NEW a \in Positions(p)' PROVE a \in Positions(p)
    <3>1. \/ a = shared[p]
          \/ \E s \in Queued' : s.ptr = p /\ a = s.off
          \/ \E j \in Workers : Holding(j)' /\ wk'[j].ptr = p /\ a = wk'[j].cur
      BY <1>1, <2>1 DEF Positions
    <3>2. CASE a = shared[p] BY <3>2 DEF Positions
    <3>3. CASE \E s \in Queued' : s.ptr = p /\ a = s.off BY <1>10, <3>3 DEF Positions
    <3>4. CASE \E j \in Workers : Holding(j)' /\ wk'[j].ptr = p /\ a = wk'[j].cur
      <4>1. PICK j \in Workers : Holding(j)' /\ wk'[j].ptr = p /\ a = wk'[j].cur BY <3>4
      <4>2. CASE j = i BY <1>5, <1>10, <4>1, <4>2 DEF Positions
      <4>3. CASE j # i BY <1>9, <4>1, <4>3 DEF Positions
      <4> QED BY <4>2, <4>3
    <3> QED BY <3>1, <3>2, <3>3, <3>4
  <2>2. ASSUME NEW p \in 1 .. Len(shared), NEW a \in Limits(p)' PROVE a \in Limits(p)
    <3>1. \/ \E s \in Queued' : s.ptr = p /\ a = s.end
          \/ \E j \in Workers : Holding(j)' /\ wk'[j].ptr = p /\ a = wk'[j].stop
      BY <2>2 DEF Limits
    <3>2. CASE \E s \in Queued' : s.ptr = p /\ a = s.end BY <1>10, <3>2 DEF Limits
    <3>3. CASE \E j \in Workers : Holding(j)' /\ wk'[j].ptr = p /\ a = wk'[j].stop
      <4>1. PICK j \in Workers : Holding(j)' /\ wk'[j].ptr = p /\ a = wk'[j].stop BY <3>3
      <4>2. CASE j = i BY <1>5, <1>10, <4>1, <4>2 DEF Limits
      <4>3. CASE j # i BY <1>9, <4>1, <4>3 DEF Limits
      <4> QED BY <4>2, <4>3
    <3> QED BY <3>1, <3>2, <3>3
  <2>3. Len(shared') = Len(shared) /\ disk \subseteq disk' BY <1>1
  <2> QED BY <2>1, <2>2, <2>3, RaceShrinks DEF RangesInv
<1>14. CoverOK'
  <2> SUFFICES ASSUME NEW x \in File, Covered(x) PROVE Covered(x)'
    BY <1>1, CoverKept DEF RangesInv
  <2>1. CASE \E s \in Queued : s.off <= x /\ x < s.end
    <3>1. PICK s \in Queued : s.off <= x /\ x < s.end BY <2>1
    <3>2. CASE s = t
      <4>1. Answers(i, x)' BY <1>5, <1>6, <1>8, <3>1, <3>2 DEF Answers, Limit
      <4> QED BY <4>1 DEF Covered
    <3>3. CASE s # t
      <4>1. s \in Queued' BY <1>4, <3>3
      <4> QED BY <3>1, <4>1 DEF Covered
    <3> QED BY <3>2, <3>3
  <2>2. CASE \E j \in Workers : Answers(j, x)
    <3>1. PICK j \in Workers : Answers(j, x) BY <2>2
    <3>2. j # i BY <1>6, <3>1 DEF Answers
    <3>3. Answers(j, x)' BY <1>1, <1>9, <3>1, <3>2 DEF Answers, Limit, Pushing
    <3> QED BY <3>3 DEF Covered
  <2>3. CASE Moving(x)
    <3>1. PICK j \in Workers : Pushing(j) /\ wk[j].stop <= x /\ x < bal.end
      BY <2>3 DEF Moving
    <3>2. wk'[j] = wk[j] BY <1>7, <1>9, <3>1
    <3> QED BY <1>1, <3>1, <3>2 DEF Moving, Pushing, Covered
  <2> QED BY <2>1, <2>2, <2>3 DEF Covered
<1>15. Own(i)'
  <2>0. t.off \in Nat /\ t.end \in Nat /\ t.off <= t.end
    BY <1>10, QueuedTasks DEF RangesInv
  <2>1. StopInTask(i)' BY <1>5, <1>8, <2>0 DEF StopInTask
  <2>2. AtAgrees(i)' BY <1>5 DEF AtAgrees
  <2>3. PassedIsStored(i)' BY <1>5, <1>8, <2>0 DEF PassedIsStored, Stored
  <2>4. EndedAtStop(i)' BY <1>5 DEF EndedAtStop
  <2> QED BY <2>1, <2>2, <2>3, <2>4 DEF Own
<1>16. OwnOK' BY <1>1, <1>5, <1>15, OwnElse DEF RangesInv
<1>17. SomebodyStays' BY <1>1, <1>2, <1>5, StaysKept DEF RangesInv
<1>18. RangesTypeOK'
  <2>1. wk' \in [Workers -> Entries] BY <1>5 DEF Turn
  <2> QED BY <1>1, <1>3, <2>1 DEF RangesInv, RangesTypeOK
<1> QED BY <1>11, <1>12, <1>13, <1>14, <1>16, <1>17, <1>18 DEF RangesInv

\* A step of worker i in a race, and of nobody else: the race stays in order.
LEMMA RaceMoves ==
  ASSUME RangesInv, NEW i \in Workers, Turn(i), Holding(i), Holding(i)',
         queue' = queue, stash' = stash, disk' = disk, Len(shared') = Len(shared),
         wk'[i].ptr = wk[i].ptr, wk'[i].stop = wk[i].stop, wk'[i].cur \in Nat,
         Stored(wk[i].cur, wk'[i].cur), Stored(wk'[i].cur, wk[i].cur),
         \A p \in 1 .. Len(shared) : shared'[p] = shared[p]
           \/ /\ p = wk[i].ptr /\ shared'[p] \in Nat
              /\ Stored(wk[i].cur, shared'[p]) /\ Stored(shared'[p], wk[i].cur)
  PROVE  RaceOK'
<1>1. Queued' = Queued BY DEF Queued
<1>2. \A j \in Workers : j # i => wk'[j] = wk[j] /\ (Holding(j)' <=> Holding(j))
  BY OthersHold
<1>3. ASSUME NEW p \in 1 .. Len(shared), NEW a \in Positions(p)'
      PROVE  a \in Nat /\ \E b \in Positions(p) : Stored(a, b)' /\ Stored(b, a)'
  <2>0. ASSUME NEW b \in Positions(p) PROVE b \in Nat /\ Stored(b, b)'
    <3>1. b \in Nat BY PositionsAreOffsets DEF RangesInv
    <3> QED BY <3>1 DEF Stored
  <2>1. \/ a = shared'[p]
        \/ \E s \in Queued : s.ptr = p /\ a = s.off
        \/ \E j \in Workers : Holding(j)' /\ wk'[j].ptr = p /\ a = wk'[j].cur
    BY <1>1, <1>3 DEF Positions
  <2>2. CASE a = shared'[p]
    <3>1. CASE shared'[p] = shared[p]
      <4>1. a \in Positions(p) BY <2>2, <3>1 DEF Positions
      <4> QED BY <2>0, <4>1
    <3>2. CASE /\ p = wk[i].ptr /\ shared'[p] \in Nat
               /\ Stored(wk[i].cur, shared'[p]) /\ Stored(shared'[p], wk[i].cur)
      <4>1. wk[i].cur \in Positions(p) BY <3>2 DEF Positions
      <4>2. /\ \A x \in Nat : a <= x /\ x < wk[i].cur => x \in disk'
            /\ \A x \in Nat : wk[i].cur <= x /\ x < a => x \in disk'
        BY <2>2, <3>2 DEF Stored
      <4> QED BY <2>2, <3>2, <4>1, <4>2 DEF Stored
    <3> QED BY <3>1, <3>2
  <2>3. CASE \E s \in Queued : s.ptr = p /\ a = s.off
    <3>1. a \in Positions(p) BY <2>3 DEF Positions
    <3> QED BY <2>0, <3>1
  <2>4. CASE \E j \in Workers : Holding(j)' /\ wk'[j].ptr = p /\ a = wk'[j].cur
    <3>1. PICK j \in Workers : Holding(j)' /\ wk'[j].ptr = p /\ a = wk'[j].cur BY <2>4
    <3>2. CASE j # i
      <4>1. a \in Positions(p) BY <1>2, <3>1, <3>2 DEF Positions
      <4> QED BY <2>0, <4>1
    <3>3. CASE j = i
      <4>1. wk[i].cur \in Positions(p) BY <3>1, <3>3 DEF Positions
      <4>2. /\ \A x \in Nat : a <= x /\ x < wk[i].cur => x \in disk'
            /\ \A x \in Nat : wk[i].cur <= x /\ x < a => x \in disk'
        BY <3>1, <3>3 DEF Stored
      <4> QED BY <3>1, <3>3, <4>1, <4>2 DEF Stored
    <3> QED BY <3>1, <3>2, <3>3
  <2> QED BY <2>1, <2>2, <2>3, <2>4
<1>4. ASSUME NEW p \in 1 .. Len(shared), NEW a \in Limits(p)' PROVE a \in Limits(p)
  <2>1. \/ \E s \in Queued : s.ptr = p /\ a = s.end
        \/ \E j \in Workers : Holding(j)' /\ wk'[j].ptr = p /\ a = wk'[j].stop
    BY <1>1, <1>4 DEF Limits
  <2>2. CASE \E s \in Queued : s.ptr = p /\ a = s.end BY <2>2 DEF Limits
  <2>3. CASE \E j \in Workers : Holding(j)' /\ wk'[j].ptr = p /\ a = wk'[j].stop
    BY <1>2, <2>3 DEF Limits
  <2> QED BY <2>1, <2>2, <2>3
<1> QED BY <1>3, <1>4, RaceKept DEF RangesInv

\* What a write adds is counted, and the race hears of it.
LEMMA CountKeeps ==
  ASSUME RangesInv, NEW i \in Workers, Count(i)
  PROVE  RangesInv'
<1> DEFINE to == wk[i].at + wk[i].n
           top == IF wk[i].ptr = 0 THEN wk[i].at ELSE shared[wk[i].ptr]
           fresh == IF to <= top THEN 0 ELSE to - Greater(wk[i].at, top)
<1>1. /\ wk[i].pc = "count"
      /\ wk' = [wk EXCEPT ![i].pc = "clamp", ![i].at = to, ![i].fresh = fresh]
      /\ shared' = IF wk[i].ptr = 0 \/ to <= top THEN shared
                   ELSE [shared EXCEPT ![wk[i].ptr] = to]
      /\ UNCHANGED <<disk, queue, closed, drains, bal, ctx, why, stash, phase, saved>>
  BY DEF Count
<1>2. /\ wk[i].at = wk[i].cur /\ to <= wk[i].end /\ Stored(wk[i].at, to)
  BY <1>1 DEF RangesInv, OwnOK, Own, AtAgrees
<1>3. /\ wk[i].at \in Nat /\ wk[i].n \in Nat /\ wk[i].end \in Nat /\ wk[i].end <= Size
      /\ wk[i].ptr \in Nat /\ Size \in Nat
  BY WorkerTypes, RangesAssumption DEF RangesInv
<1>4. to \in Nat /\ to \in Offsets /\ wk[i].at <= to BY <1>2, <1>3 DEF Offsets
<1>5. wk[i].ptr <= Len(shared) /\ shared \in Seq(Offsets) /\ Len(shared) \in Nat
  BY DEF RangesInv, CellsAllocated, RangesTypeOK
<1>6. wk[i].ptr # 0 => wk[i].ptr \in 1 .. Len(shared) /\ shared[wk[i].ptr] \in Nat
  <2>1. wk[i].ptr # 0 => wk[i].ptr \in 1 .. Len(shared) BY <1>3, <1>5
  <2>2. \A p \in 1 .. Len(shared) : shared[p] \in Offsets BY <1>5
  <2>3. Offsets \subseteq Nat BY <1>3 DEF Offsets
  <2> QED BY <2>1, <2>2, <2>3
<1>7. top \in Nat BY <1>3, <1>6
<1>8. fresh \in Nat
  <2> HIDE DEF to, top
  <2> QED BY <1>3, <1>4, <1>7 DEF Greater
<1> HIDE DEF to, top, fresh
<1>9. Turn(i) /\ Stands(i) /\ wk'[i].pc = "clamp" /\ wk'[i].at = to
  BY <1>1, <1>4, <1>8, CountsDoes DEF RangesInv
<1>10. Holding(i) /\ Holding(i)' /\ wk'[i].pc \in Mapped BY <1>1, <1>9 DEF Holding, Mapped, Loop
<1>11. /\ shared' \in Seq(Offsets) /\ Len(shared') = Len(shared)
       /\ \A p \in 1 .. Len(shared) : shared'[p] = shared[p] \/ (p = wk[i].ptr /\ shared'[p] = to)
  <2>1. CASE wk[i].ptr = 0 \/ to <= top BY <1>1, <1>5, <2>1
  <2>2. CASE ~(wk[i].ptr = 0 \/ to <= top)
    <3>1. shared' = [shared EXCEPT ![wk[i].ptr] = to] BY <1>1, <2>2
    <3> QED BY <1>4, <1>5, <1>6, <2>2, <3>1
  <2> QED BY <2>1, <2>2
<1>12. Quiet(i)
  <2>1. wk[i].ptr <= Len(shared) /\ (wk[i].ptr # 0 => wk[i].hedged)
    BY DEF RangesInv, CellsAllocated
  <2> QED BY <1>1, <1>9, <1>10, <1>11, <2>1 DEF Quiet, Stands
<1>13. CellsAllocated' /\ VictimOK' /\ CoverOK' BY <1>1, <1>12, QuietKeeps DEF RangesInv
<1>14. Stored(wk[i].cur, to) /\ Stored(to, wk[i].cur)
  <2>1. Stored(to, wk[i].at) BY <1>3, <1>4, StoredNone
  <2> QED BY <1>2, <2>1
<1>15. RaceOK'
  <2>1. wk'[i].ptr = wk[i].ptr /\ wk'[i].stop = wk[i].stop /\ wk'[i].cur = wk[i].cur
    BY <1>9 DEF Stands
  <2>2. wk[i].cur \in Nat BY WorkerTypes DEF RangesInv
  <2>3. Stored(wk[i].cur, wk'[i].cur) /\ Stored(wk'[i].cur, wk[i].cur)
    BY <2>1, <2>2, StoredNone
  <2>4. \A p \in 1 .. Len(shared) : shared'[p] = shared[p]
           \/ /\ p = wk[i].ptr /\ shared'[p] \in Nat
              /\ Stored(wk[i].cur, shared'[p]) /\ Stored(shared'[p], wk[i].cur)
    BY <1>4, <1>11, <1>14
  <2>5. wk'[i].cur \in Nat BY <2>1, <2>2
  <2> QED BY <1>1, <1>9, <1>10, <1>11, <2>1, <2>3, <2>4, <2>5, RaceMoves
<1>16. AtAgrees(i)' BY <1>1, <1>9, <1>14 DEF AtAgrees, Stands, Stored
<1>17. EndedAtStop(i)' BY <1>9 DEF EndedAtStop
<1>18. Own(i)' BY <1>1, <1>9, <1>16, <1>17, OwnStands DEF RangesInv
<1>19. OwnOK' BY <1>1, <1>9, <1>18, OwnElse DEF RangesInv
<1>20. SomebodyStays'
  <2>1. disk \subseteq File BY DEF RangesInv, RangesTypeOK
  <2> QED BY <1>1, <1>9, <2>1, StaysKept DEF RangesInv
<1>21. RangesTypeOK'
  <2>1. wk' \in [Workers -> Entries] BY <1>9 DEF Turn
  <2> QED BY <1>1, <1>11, <2>1 DEF RangesInv, RangesTypeOK
<1> QED BY <1>13, <1>15, <1>19, <1>20, <1>21 DEF RangesInv

\* The offset is stored.
LEMMA PublishKeeps ==
  ASSUME RangesInv, NEW i \in Workers, Publish(i)
  PROVE  RangesInv'
<1>1. /\ Turn(i) /\ wk[i].pc = "publish"
      /\ wk'[i].pc = "read" /\ wk'[i].cur = wk[i].at /\ wk'[i].at = wk[i].at
      /\ wk'[i].stop = wk[i].stop /\ wk'[i].end = wk[i].end
      /\ wk'[i].ptr = wk[i].ptr /\ wk'[i].hedged = wk[i].hedged
  BY PublishDoes DEF RangesInv
<1>2. UNCHANGED <<disk, queue, closed, shared, drains, bal, ctx, why, stash, phase, saved>>
  BY DEF Publish
<1>3. Holding(i) /\ Holding(i)' /\ wk'[i].pc \in Mapped BY <1>1 DEF Holding, Mapped, Loop
<1>4. Stored(wk[i].cur, wk[i].at) /\ Stored(wk[i].at, wk[i].cur)
  BY <1>1 DEF RangesInv, OwnOK, Own, AtAgrees
<1>5. wk[i].cur \in Nat /\ wk[i].at \in Nat /\ wk[i].stop \in Nat /\ bal.cur \in Nat /\ bal.end \in Nat
  BY WorkerTypes, BalancerTypes DEF RangesInv
<1>6. \A j \in Workers : j # i => wk'[j] = wk[j] /\ (Holding(j)' <=> Holding(j))
  BY <1>1, OthersHold
<1>7. (Shrinking(i)' <=> Shrinking(i)) /\ (Pushing(i)' <=> Pushing(i))
  BY <1>2 DEF Shrinking, Pushing
<1>8. CellsAllocated'
  <2>1. \A j \in Workers : wk'[j].ptr <= Len(shared) /\ (wk'[j].ptr # 0 => wk'[j].hedged)
    BY <1>1, <1>6 DEF RangesInv, CellsAllocated
  <2>2. Queued' = Queued BY <1>2 DEF Queued
  <2> QED BY <1>2, <2>1, <2>2 DEF RangesInv, CellsAllocated
<1>9. VictimOK'
  <2> SUFFICES ASSUME bal.pc \in {"shrink", "push"}
               PROVE  \E j \in Workers :
                        bal.victim = {j} /\ wk'[j].pc \in Mapped /\ ~wk'[j].hedged
    BY <1>2 DEF VictimOK
  <2>1. PICK j \in Workers : bal.victim = {j} /\ wk[j].pc \in Mapped /\ ~wk[j].hedged
    BY DEF RangesInv, VictimOK
  <2> QED BY <1>1, <1>3, <1>6, <2>1
<1>10. RaceOK' BY <1>1, <1>2, <1>3, <1>4, <1>5, RaceMoves
<1>11. CoverOK'
  <2> SUFFICES ASSUME NEW x \in File, Covered(x) PROVE x \in disk \/ Covered(x)'
    BY <1>2, CoverKept DEF RangesInv
  <2>1. CASE \E s \in Queued : s.off <= x /\ x < s.end
    <3>1. Queued' = Queued BY <1>2 DEF Queued
    <3> QED BY <2>1, <3>1 DEF Covered
  <2>2. CASE \E j \in Workers : Answers(j, x)
    <3>1. PICK j \in Workers : Answers(j, x) BY <2>2
    <3>2. CASE j # i
      <4>1. Answers(j, x)' BY <1>2, <1>6, <3>1, <3>2 DEF Answers, Limit, Pushing
      <4> QED BY <4>1 DEF Covered
    <3>3. CASE j = i
      <4>0. x \in Nat BY RangesAssumption DEF File
      <4>1. wk[i].cur <= x /\ x < Limit(i) BY <3>1, <3>3 DEF Answers
      <4>2. CASE x < wk[i].at BY <1>4, <4>0, <4>1, <4>2 DEF Stored
      <4>3. CASE wk[i].at <= x
        <5>1. Limit(i)' = Limit(i) BY <1>1, <1>2, <1>7 DEF Limit
        <5>2. Answers(i, x)' BY <1>1, <1>3, <4>1, <4>3, <5>1 DEF Answers
        <5> QED BY <5>2 DEF Covered
      <4> QED BY <1>5, <4>0, <4>2, <4>3
    <3> QED BY <3>2, <3>3
  <2>3. CASE Moving(x)
    <3>1. PICK j \in Workers : Pushing(j) /\ wk[j].stop <= x /\ x < bal.end
      BY <2>3 DEF Moving
    <3>2. wk'[j].stop = wk[j].stop BY <1>1, <1>6
    <3> QED BY <1>2, <3>1, <3>2 DEF Moving, Pushing, Covered
  <2> QED BY <2>1, <2>2, <2>3 DEF Covered
<1>12. Own(i)'
  <2>0. Own(i) BY DEF RangesInv, OwnOK
  <2>1. StopInTask(i)' BY <1>1, <1>2, <1>7, <2>0 DEF Own, StopInTask
  <2>2. AtAgrees(i)' BY <1>1 DEF AtAgrees
  <2>3. PassedIsStored(i)'
    <3>1. Stored(wk[i].stop, wk[i].cur) BY <2>0 DEF Own, PassedIsStored
    <3>2. Stored(wk[i].stop, wk[i].at) BY <1>4, <1>5, <3>1, StoredJoins
    <3>3. Shrinking(i) => Stored(bal.cur, wk[i].at)
      BY <1>4, <1>5, <2>0, StoredJoins DEF Own, PassedIsStored
    <3>4. Pushing(i) => Stored(bal.end, wk[i].at)
      BY <1>4, <1>5, <2>0, StoredJoins DEF Own, PassedIsStored
    <3> QED BY <1>1, <1>2, <1>7, <3>2, <3>3, <3>4 DEF PassedIsStored, Stored
  <2>4. EndedAtStop(i)' BY <1>1 DEF EndedAtStop
  <2> QED BY <2>1, <2>2, <2>3, <2>4 DEF Own
<1>13. OwnOK' BY <1>1, <1>2, <1>12, OwnElse DEF RangesInv
<1>14. SomebodyStays'
  <2>1. disk \subseteq File BY DEF RangesInv, RangesTypeOK
  <2> QED BY <1>1, <1>2, <2>1, StaysKept DEF RangesInv
<1>15. RangesTypeOK'
  <2>1. wk' \in [Workers -> Entries] BY <1>1 DEF Turn
  <2> QED BY <1>2, <2>1 DEF RangesInv, RangesTypeOK
<1> QED BY <1>8, <1>9, <1>10, <1>11, <1>13, <1>14, <1>15 DEF RangesInv

-----------------------------------------------------------------------------
(* Monitors, controllers and the balancer's looks. *)

\* A worker is where it was.
Same(j) ==
  /\ wk'[j].pc = wk[j].pc /\ wk'[j].off = wk[j].off /\ wk'[j].end = wk[j].end
  /\ wk'[j].cur = wk[j].cur /\ wk'[j].stop = wk[j].stop /\ wk'[j].ptr = wk[j].ptr
  /\ wk'[j].hedged = wk[j].hedged /\ wk'[j].at = wk[j].at /\ wk'[j].n = wk[j].n
  /\ wk'[j].res = wk[j].res

\* The balancer chooses a victim or none; it cuts nothing off.
Looks ==
  \/ bal' = bal
  \/ /\ bal.pc # "push" /\ bal'.pc # "push"
     /\ bal'.pc = "shrink" =>
          \E i \in Workers : /\ bal'.victim = {i} /\ bal'.cur = wk[i].cur
                             /\ wk[i].pc \in Mapped /\ ~wk[i].hedged

\* A step in which every worker stays where it is.
LEMMA NobodyMoves ==
  ASSUME RangesInv, \A j \in Workers : Same(j), Looks,
         UNCHANGED <<disk, shared, stash, phase, saved>>,
         queue' = queue \/ (disk = File /\ queue' = <<>>)
  PROVE  CellsAllocated' /\ VictimOK' /\ OwnOK' /\ RaceOK' /\ CoverOK'
<1>1. \A t \in Queued' : t \in Queued
  <2>1. CASE queue' = queue BY <2>1 DEF Queued
  <2>2. CASE queue' = <<>>
    <3>1. ToSet(<<>>) = {} BY DEF ToSet
    <3> QED BY <2>2, <3>1 DEF Queued
  <2> QED BY <2>1, <2>2
<1>2. disk = File \/ Queued' = Queued BY DEF Queued
<1>3. \A j \in Workers : Holding(j)' <=> Holding(j) BY DEF Same, Holding
<1>4. CellsAllocated' BY <1>1 DEF RangesInv, CellsAllocated, Same
<1>5. VictimOK'
  <2>1. CASE bal' = bal BY <2>1 DEF RangesInv, VictimOK, Same
  <2>2. CASE bal' # bal BY <2>2 DEF Looks, VictimOK, Same
  <2> QED BY <2>1, <2>2
<1>6. RaceOK'
  <2>1. \A p \in 1 .. Len(shared) : Positions(p)' \subseteq Positions(p)
    BY <1>1, <1>3 DEF Positions, Same
  <2>2. \A p \in 1 .. Len(shared) : Limits(p)' \subseteq Limits(p)
    BY <1>1, <1>3 DEF Limits, Same
  <2> QED BY <2>1, <2>2, RaceShrinks DEF RangesInv
<1>7. \A j \in Workers : Pushing(j)' <=> Pushing(j)
  BY DEF Looks, Pushing
<1>8. CoverOK'
  <2> SUFFICES ASSUME NEW x \in File, Covered(x), disk # File PROVE Covered(x)'
    BY CoverKept DEF RangesInv
  <2>1. CASE \E s \in Queued : s.off <= x /\ x < s.end
    BY <1>2, <2>1 DEF Covered
  <2>2. CASE \E j \in Workers : Answers(j, x)
    <3>1. PICK j \in Workers : Answers(j, x) BY <2>2
    <3>2. Pushing(j) => bal' = bal BY DEF Pushing, Looks
    <3>3. Limit(j)' = Limit(j) BY <1>7, <3>2 DEF Limit, Same
    <3>4. Answers(j, x)' BY <1>3, <3>1, <3>3 DEF Answers, Same
    <3> QED BY <3>4 DEF Covered
  <2>3. CASE Moving(x)
    <3>1. PICK j \in Workers : Pushing(j) /\ wk[j].stop <= x /\ x < bal.end
      BY <2>3 DEF Moving
    <3>2. bal' = bal BY <3>1 DEF Pushing, Looks
    <3> QED BY <3>1, <3>2 DEF Moving, Pushing, Covered, Same
  <2> QED BY <2>1, <2>2, <2>3 DEF Covered
<1>9. OwnOK'
  <2> SUFFICES ASSUME NEW j \in Workers PROVE Own(j)'
    BY DEF OwnOK
  <2>1. Own(j) BY DEF RangesInv, OwnOK
  <2>2. Pushing(j) => bal' = bal BY DEF Pushing, Looks
  <2>3. StopInTask(j)' BY <1>7, <2>1, <2>2 DEF Own, StopInTask, Same
  <2>4. AtAgrees(j)' BY <2>1 DEF Own, AtAgrees, Same, Stored
  <2>5. Shrinking(j)' => Stored(bal'.cur, wk[j].cur)
    <3>1. CASE bal' = bal BY <2>1, <3>1 DEF Own, PassedIsStored, Shrinking
    <3>2. CASE bal' # bal
      <4> SUFFICES ASSUME Shrinking(j)' PROVE Stored(bal'.cur, wk[j].cur)
        OBVIOUS
      <4>1. bal'.cur = wk[j].cur BY <3>2 DEF Looks, Shrinking
      <4>2. wk[j].cur \in Nat BY WorkerTypes DEF RangesInv
      <4> QED BY <4>1, <4>2, StoredNone
    <3> QED BY <3>1, <3>2
  <2>6. PassedIsStored(j)'
    BY <1>7, <2>1, <2>2, <2>5 DEF Own, PassedIsStored, Same, Stored
  <2>7. EndedAtStop(j)' BY <1>7, <2>1, <2>2 DEF Own, EndedAtStop, Same
  <2> QED BY <2>3, <2>4, <2>6, <2>7 DEF Own
<1> QED BY <1>4, <1>5, <1>6, <1>8, <1>9

\* Nobody leaves in such a step.
LEMMA NobodyLeaves ==
  ASSUME SomebodyStays, \A j \in Workers : Same(j),
         UNCHANGED <<disk, drains, ctx, why, phase>>,
         closed' = closed \/ disk = File \/ ctx
  PROVE  SomebodyStays'
BY DEF SomebodyStays, Same

\* The monitor ends a run in which every byte is verified.
LEMMA MonitorCompleteKeeps ==
  ASSUME RangesInv, VerifiedMeansWhole, MonitorComplete
  PROVE  RangesInv'
<1>1. /\ disk = File /\ queue' = <<>> /\ closed' = TRUE
      /\ wk' = [i \in Workers |->
                  IF wk[i].pc \in Loop THEN [wk[i] EXCEPT !.killed = TRUE] ELSE wk[i]]
      /\ UNCHANGED <<disk, shared, drains, bal, ctx, why, stash, phase, saved>>
  BY DEF MonitorComplete, VerifiedMeansWhole
<1>2. wk \in [Workers -> Entries] BY DEF RangesInv, RangesTypeOK
<1>3. ASSUME NEW w \in Entries PROVE [w EXCEPT !.killed = TRUE] \in Entries
  BY DEF Entries
<1>4. wk' \in [Workers -> Entries] BY <1>1, <1>2, <1>3
<1>5. \A j \in Workers : Same(j)
  <2> SUFFICES ASSUME NEW j \in Workers PROVE Same(j)
    OBVIOUS
  <2>1. wk[j] \in Entries BY <1>2
  <2>2. wk'[j] = wk[j] \/ wk'[j] = [wk[j] EXCEPT !.killed = TRUE] BY <1>1
  <2>3. CASE wk'[j] = wk[j] BY <2>3 DEF Same
  <2>4. CASE wk'[j] = [wk[j] EXCEPT !.killed = TRUE] BY <2>1, <2>4 DEF Same, Entries
  <2> QED BY <2>2, <2>3, <2>4
<1>6. CellsAllocated' /\ VictimOK' /\ OwnOK' /\ RaceOK' /\ CoverOK'
  BY <1>1, <1>5, NobodyMoves DEF Looks
<1>7. SomebodyStays' BY <1>1, <1>5, NobodyLeaves DEF RangesInv
<1>8. RangesTypeOK' BY <1>1, <1>4 DEF RangesInv, RangesTypeOK
<1> QED BY <1>6, <1>7, <1>8 DEF RangesInv

\* The queue of a cancelled run is closed.
LEMMA MonitorCancelledKeeps ==
  ASSUME RangesInv, MonitorCancelled
  PROVE  RangesInv'
<1>1. /\ ctx /\ closed' = TRUE
      /\ UNCHANGED <<disk, queue, shared, wk, drains, bal, ctx, why, stash, phase, saved>>
  BY DEF MonitorCancelled
<1>2. \A j \in Workers : Same(j) BY <1>1 DEF Same
<1>3. CellsAllocated' /\ VictimOK' /\ OwnOK' /\ RaceOK' /\ CoverOK'
  BY <1>1, <1>2, NobodyMoves DEF Looks
<1>4. SomebodyStays' BY <1>1, <1>2, NobodyLeaves DEF RangesInv
<1>5. RangesTypeOK' BY <1>1 DEF RangesInv, RangesTypeOK
<1> QED BY <1>3, <1>4, <1>5 DEF RangesInv

\* A pause.
LEMMA PauseKeeps ==
  ASSUME RangesInv, Pause
  PROVE  RangesInv'
<1>1. /\ ctx' = TRUE /\ why' = "pause"
      /\ UNCHANGED <<disk, queue, closed, shared, wk, drains, bal, stash, phase, saved>>
  BY DEF Pause
<1>2. \A j \in Workers : Same(j) BY <1>1 DEF Same
<1>3. CellsAllocated' /\ VictimOK' /\ OwnOK' /\ RaceOK' /\ CoverOK'
  BY <1>1, <1>2, NobodyMoves DEF Looks
<1>4. SomebodyStays' BY <1>1, CancelledStays DEF RangesInv
<1>5. RangesTypeOK' BY <1>1 DEF RangesInv, RangesTypeOK
<1> QED BY <1>3, <1>4, <1>5 DEF RangesInv

\* The balancer looks, and chooses a victim or goes on.
LEMMA LooksKeeps ==
  ASSUME RangesInv, Looks, bal' \in Balancer,
         UNCHANGED <<disk, queue, closed, shared, wk, drains, ctx, why, stash, phase, saved>>
  PROVE  RangesInv'
<1>1. \A j \in Workers : Same(j) BY DEF Same
<1>2. CellsAllocated' /\ VictimOK' /\ OwnOK' /\ RaceOK' /\ CoverOK' BY <1>1, NobodyMoves
<1>3. SomebodyStays' BY <1>1, NobodyLeaves DEF RangesInv
<1>4. RangesTypeOK' BY DEF RangesInv, RangesTypeOK
<1> QED BY <1>2, <1>3, <1>4 DEF RangesInv

\* A tick begins.
LEMMA TickKeeps ==
  ASSUME RangesInv, Tick
  PROVE  RangesInv'
<1> DEFINE sweep == ActiveRest \in 1 .. Cardinality(Active) * TailChunk - 1
<1>1. /\ bal.pc = "off" /\ bal' = [bal EXCEPT !.pc = "tick", !.sweep = sweep]
      /\ UNCHANGED <<disk, queue, closed, shared, wk, drains, ctx, why, stash, phase, saved>>
  BY DEF Tick
<1>2. sweep \in BOOLEAN OBVIOUS
<1> HIDE DEF sweep
<1>3. bal \in Balancer BY DEF RangesInv, RangesTypeOK
<1>4. bal' \in Balancer /\ bal'.pc = "tick" BY <1>1, <1>2, <1>3 DEF Balancer
<1>5. Looks BY <1>1, <1>4 DEF Looks
<1> QED BY <1>1, <1>4, <1>5, LooksKeeps

\* A victim is chosen.
LEMMA StealScanKeeps ==
  ASSUME RangesInv, StealScan
  PROVE  RangesInv'
<1>1. PICK i \in Stealable :
        bal' = [bal EXCEPT !.pc = "shrink", !.victim = {i},
                  !.split = RemainingBytes(i) \div 2, !.cur = wk[i].cur]
  BY DEF StealScan
<1>2. /\ bal.pc = "tick"
      /\ UNCHANGED <<disk, queue, closed, shared, wk, drains, ctx, why, stash, phase, saved>>
  BY DEF StealScan
<1>3. i \in Workers /\ wk[i].pc \in Mapped /\ ~wk[i].hedged BY DEF Stealable, Most, Active
<1>4. RemainingBytes(i) \div 2 \in Nat /\ wk[i].cur \in Nat
  <2>1. wk[i].cur \in Nat /\ wk[i].stop \in Nat BY <1>3, WorkerTypes DEF RangesInv
  <2>2. CurrentOffset(i) \in Nat BY <1>3, OffsetOfRace DEF RangesInv
  <2>3. RemainingBytes(i) \in Nat BY <2>1, <2>2 DEF RemainingBytes
  <2> QED BY <2>1, <2>3
<1> DEFINE split == RemainingBytes(i) \div 2
<1> HIDE DEF split
<1>5. bal' = [bal EXCEPT !.pc = "shrink", !.victim = {i}, !.split = split, !.cur = wk[i].cur]
      /\ split \in Nat
  BY <1>1, <1>4 DEF split
<1>6. bal \in Balancer BY DEF RangesInv, RangesTypeOK
<1>7. /\ bal' \in Balancer /\ bal'.pc = "shrink" /\ bal'.victim = {i} /\ bal'.cur = wk[i].cur
  BY <1>3, <1>4, <1>5, <1>6 DEF Balancer
<1>8. Looks BY <1>2, <1>3, <1>7 DEF Looks
<1> QED BY <1>2, <1>7, <1>8, LooksKeeps

\* The tick, or its sweep, is over.
LEMMA EndsKeeps ==
  ASSUME RangesInv, TickEnds \/ SweepEnds
  PROVE  RangesInv'
<1>0. bal \in Balancer BY DEF RangesInv, RangesTypeOK
<1>1. /\ bal.pc # "push" /\ bal' \in Balancer /\ bal'.pc \in {"off", "sweep"}
      /\ UNCHANGED <<disk, queue, closed, shared, wk, drains, ctx, why, stash, phase, saved>>
  <2>1. CASE TickEnds
    <3> DEFINE pc == IF bal.sweep THEN "sweep" ELSE "off"
    <3>1. pc \in {"off", "sweep"} OBVIOUS
    <3>2. bal' = [bal EXCEPT !.pc = pc] BY <2>1 DEF TickEnds
    <3> HIDE DEF pc
    <3>3. bal' \in Balancer /\ bal'.pc = pc BY <1>0, <3>1, <3>2 DEF Balancer
    <3> QED BY <2>1, <3>1, <3>3 DEF TickEnds
  <2>2. CASE SweepEnds BY <2>2 DEF SweepEnds, Resting, Balancer
  <2> QED BY <2>1, <2>2
<1>2. Looks BY <1>1 DEF Looks
<1> QED BY <1>1, <1>2, LooksKeeps

-----------------------------------------------------------------------------
(* The balancer's steps. *)

\* StopAt of the victim is moved, or the steal is given up.
LEMMA ShrinkDoes ==
  ASSUME StealShrink
  PROVE  \E i \in bal.victim : \E cur \in {bal.cur, wk[i].cur} :
           /\ Settled(i, {"publish"})
           /\ \/ /\ wk' = [wk EXCEPT ![i].stop = cur + bal.split]
                 /\ bal' = [bal EXCEPT !.pc = "push", !.end = wk[i].stop]
                 /\ Torn \/ (wk[i].cur <= cur + bal.split /\ cur + bal.split <= wk[i].stop)
              \/ wk' = wk /\ bal' = [bal EXCEPT !.pc = "unsplit"]
BY DEF StealShrink

\* StopAt of the victim is moved.
LEMMA StealShrinkMoves ==
  ASSUME RangesInv, StealShrink, bal'.pc = "push"
  PROVE  RangesInv'
<1>0. bal \in Balancer BY DEF RangesInv, RangesTypeOK
<1>a. PICK i \in bal.victim : \E cur \in {bal.cur, wk[i].cur} :
        /\ wk' = [wk EXCEPT ![i].stop = cur + bal.split]
        /\ bal' = [bal EXCEPT !.pc = "push", !.end = wk[i].stop]
  <2>1. bal' # [bal EXCEPT !.pc = "unsplit"] BY <1>0 DEF Balancer
  <2> QED BY <2>1, ShrinkDoes
<1>b. bal' = [bal EXCEPT !.pc = "push", !.end = wk[i].stop] BY <1>a
<1>1. PICK cur \in {bal.cur, wk[i].cur} : wk' = [wk EXCEPT ![i].stop = cur + bal.split]
  BY <1>a
<1>2. /\ bal.pc = "shrink"
      /\ UNCHANGED <<disk, queue, closed, shared, drains, ctx, why, stash, phase, saved>>
  BY DEF StealShrink
<1>3. bal \in Balancer BY DEF RangesInv, RangesTypeOK
<1>4. i \in Workers /\ bal.victim = {i} /\ wk[i].pc \in Mapped /\ ~wk[i].hedged
  BY <1>a, <1>2 DEF RangesInv, VictimOK
<1>5. /\ bal.cur \in Nat /\ bal.split \in Nat /\ wk[i].cur \in Nat /\ wk[i].stop \in Nat
      /\ cur \in Nat /\ wk[i].ptr \in Nat
  BY <1>1, <1>4, WorkerTypes, BalancerTypes DEF RangesInv
<1> DEFINE stop == cur + bal.split
<1>6. stop \in Nat /\ cur <= stop BY <1>5
<1>7. wk' = [wk EXCEPT ![i].stop = stop] BY <1>1
<1> HIDE DEF stop
<1>8. Turn(i) /\ wk'[i] = [wk[i] EXCEPT !.stop = stop]
  BY <1>4, <1>6, <1>7, StopMovesDoes DEF RangesInv
<1>9. wk[i] \in Entries BY <1>4 DEF RangesInv, RangesTypeOK
<1>10. /\ wk'[i].pc = wk[i].pc /\ wk'[i].off = wk[i].off /\ wk'[i].end = wk[i].end
       /\ wk'[i].cur = wk[i].cur /\ wk'[i].stop = stop /\ wk'[i].ptr = wk[i].ptr
       /\ wk'[i].hedged = wk[i].hedged /\ wk'[i].at = wk[i].at /\ wk'[i].n = wk[i].n
       /\ wk'[i].res = wk[i].res
  BY <1>8, <1>9 DEF Entries
<1>11. /\ bal' \in Balancer /\ bal'.pc = "push" /\ bal'.victim = {i} /\ bal'.end = wk[i].stop
  BY <1>b, <1>3, <1>4, <1>5 DEF Balancer
<1>12. wk[i].ptr = 0 BY <1>4 DEF RangesInv, CellsAllocated
<1>13. \A j \in Workers : j # i => wk'[j] = wk[j] BY <1>8 DEF Turn
<1>14. \A j \in Workers : /\ Holding(j)' <=> Holding(j)
                          /\ wk'[j].cur = wk[j].cur /\ wk'[j].ptr = wk[j].ptr
                          /\ j # i => wk'[j].stop = wk[j].stop
  BY <1>10, <1>13 DEF Holding
<1>15. Queued' = Queued BY <1>2 DEF Queued
<1>16. \A j \in Workers : ~Pushing(j) /\ (Shrinking(j) <=> j = i)
  BY <1>2, <1>4 DEF Pushing, Shrinking
<1>17. \A j \in Workers : ~Shrinking(j)' /\ (Pushing(j)' <=> j = i)
  BY <1>11 DEF Pushing, Shrinking
<1>18. CellsAllocated'
  <2>1. \A j \in Workers : wk'[j].ptr <= Len(shared) /\ (wk'[j].ptr # 0 => wk'[j].hedged)
    BY <1>10, <1>13 DEF RangesInv, CellsAllocated
  <2> QED BY <1>2, <1>15, <2>1 DEF RangesInv, CellsAllocated
<1>19. VictimOK' BY <1>4, <1>10, <1>11 DEF VictimOK
<1>20. RaceOK'
  <2>1. \A p \in 1 .. Len(shared) : Positions(p)' \subseteq Positions(p)
    BY <1>2, <1>14, <1>15 DEF Positions
  <2>2. \A p \in 1 .. Len(shared) : Limits(p)' \subseteq Limits(p)
    <3> SUFFICES ASSUME NEW p \in 1 .. Len(shared), NEW a \in Limits(p)'
                 PROVE  a \in Limits(p)
      OBVIOUS
    <3>1. \/ \E s \in Queued : s.ptr = p /\ a = s.end
          \/ \E j \in Workers : Holding(j)' /\ wk'[j].ptr = p /\ a = wk'[j].stop
      BY <1>15 DEF Limits
    <3>2. CASE \E s \in Queued : s.ptr = p /\ a = s.end BY <3>2 DEF Limits
    <3>3. CASE \E j \in Workers : Holding(j)' /\ wk'[j].ptr = p /\ a = wk'[j].stop
      <4>1. PICK j \in Workers : Holding(j)' /\ wk'[j].ptr = p /\ a = wk'[j].stop BY <3>3
      <4>2. j # i BY <1>12, <1>14, <4>1
      <4> QED BY <1>14, <4>1, <4>2 DEF Limits
    <3> QED BY <3>1, <3>2, <3>3
  <2> QED BY <1>2, <2>1, <2>2, RaceShrinks DEF RangesInv
<1>21. CoverOK'
  <2> SUFFICES ASSUME NEW x \in File, Covered(x) PROVE Covered(x)'
    BY <1>2, CoverKept DEF RangesInv
  <2>0. x \in Nat BY RangesAssumption DEF File
  <2>1. CASE \E s \in Queued : s.off <= x /\ x < s.end BY <1>15, <2>1 DEF Covered
  <2>2. CASE \E j \in Workers : Answers(j, x)
    <3>1. PICK j \in Workers : Answers(j, x) BY <2>2
    <3>2. Holding(j) /\ wk[j].cur <= x /\ x < wk[j].stop
      BY <1>16, <3>1 DEF Answers, Limit
    <3>3. CASE j # i
      <4>1. Answers(j, x)' BY <1>14, <1>17, <3>2, <3>3 DEF Answers, Limit
      <4> QED BY <4>1 DEF Covered
    <3>4. CASE j = i /\ x < stop
      <4>1. Limit(i)' = Lesser(stop, wk[i].stop) BY <1>4, <1>10, <1>11, <1>17 DEF Limit
      <4>2. x < Limit(i)' BY <3>2, <3>4, <4>1 DEF Lesser
      <4>3. Answers(i, x)' BY <1>14, <3>2, <3>4, <4>2 DEF Answers
      <4> QED BY <1>4, <4>3 DEF Covered
    <3>5. CASE j = i /\ stop <= x
      <4>1. Moving(x)' BY <1>4, <1>10, <1>11, <1>17, <3>2, <3>5 DEF Moving
      <4> QED BY <4>1 DEF Covered
    <3> QED BY <1>6, <2>0, <3>3, <3>4, <3>5
  <2>3. ~Moving(x) BY <1>16 DEF Moving
  <2> QED BY <2>1, <2>2, <2>3 DEF Covered
<1>22. OwnOK'
  <2> SUFFICES ASSUME NEW j \in Workers PROVE Own(j)'
    BY DEF OwnOK
  <2>1. Own(j) BY DEF RangesInv, OwnOK
  <2>2. CASE j # i
    <3>1. wk'[j] = wk[j] BY <1>13, <2>2
    <3>2. ~Pushing(j) /\ ~Pushing(j)' /\ ~Shrinking(j)' BY <1>16, <1>17, <2>2
    <3>3. StopInTask(j)' BY <2>1, <3>1, <3>2 DEF Own, StopInTask
    <3>4. AtAgrees(j)' BY <1>2, <2>1, <3>1 DEF Own, AtAgrees, Stored
    <3>5. PassedIsStored(j)' BY <1>2, <2>1, <3>1, <3>2 DEF Own, PassedIsStored, Stored
    <3>6. EndedAtStop(j)' BY <2>1, <3>1, <3>2 DEF Own, EndedAtStop
    <3> QED BY <3>3, <3>4, <3>5, <3>6 DEF Own
  <2>3. CASE j = i
    <3>1. Pushing(i)' /\ ~Shrinking(i)' /\ ~Pushing(i) /\ Shrinking(i)
      BY <1>4, <1>16, <1>17
    <3>2. Own(i) BY <2>1, <2>3
    <3>3. StopInTask(i)' BY <1>10, <1>11, <3>1, <3>2 DEF Own, StopInTask
    <3>4. AtAgrees(i)' BY <1>2, <1>10, <3>2 DEF Own, AtAgrees, Stored
    <3>5. PassedIsStored(i)'
      <4>1. Stored(wk[i].stop, wk[i].cur) /\ Stored(bal.cur, wk[i].cur)
        BY <3>1, <3>2 DEF Own, PassedIsStored
      <4>2. Stored(stop, wk[i].cur)
        <5>1. CASE cur = wk[i].cur BY <1>5, <1>6, <5>1, StoredNone
        <5>2. CASE cur = bal.cur
          <6>1. Stored(stop, bal.cur) BY <1>5, <1>6, <5>2, StoredNone
          <6> QED BY <1>5, <1>6, <4>1, <6>1, StoredJoins
        <5> QED BY <1>1, <5>1, <5>2
      <4> QED BY <1>2, <1>10, <1>11, <3>1, <4>1, <4>2 DEF PassedIsStored, Stored
    <3>6. EndedAtStop(i)' BY <1>10, <1>11, <3>1, <3>2 DEF Own, EndedAtStop
    <3> QED BY <2>3, <3>3, <3>4, <3>5, <3>6 DEF Own
  <2> QED BY <2>2, <2>3
<1>23. SomebodyStays'
  <2>1. \A j \in Workers : wk'[j].pc = wk[j].pc /\ wk'[j].res = wk[j].res
    BY <1>10, <1>13
  <2> QED BY <1>2, <2>1 DEF RangesInv, SomebodyStays
<1>24. RangesTypeOK'
  <2>1. wk' \in [Workers -> Entries] BY <1>8 DEF Turn
  <2> QED BY <1>2, <1>11, <2>1 DEF RangesInv, RangesTypeOK
<1> QED BY <1>18, <1>19, <1>20, <1>21, <1>22, <1>23, <1>24 DEF RangesInv

\* The victim's StopAt is moved, or stays.
LEMMA StealShrinkKeeps ==
  ASSUME RangesInv, StealShrink
  PROVE  RangesInv'
<1>1. bal \in Balancer BY DEF RangesInv, RangesTypeOK
<1>2. /\ bal.pc = "shrink"
      /\ UNCHANGED <<disk, queue, closed, shared, drains, ctx, why, stash, phase, saved>>
  BY DEF StealShrink
<1>3. CASE bal'.pc = "push" BY <1>3, StealShrinkMoves
<1>4. CASE bal'.pc # "push"
  <2>1. wk' = wk /\ bal' = [bal EXCEPT !.pc = "unsplit"]
    <3>1. \A i \in bal.victim : bal' # [bal EXCEPT !.pc = "push", !.end = wk[i].stop]
      BY <1>1, <1>4 DEF Balancer
    <3> QED BY <3>1, ShrinkDoes
  <2>2. bal' \in Balancer /\ bal'.pc = "unsplit" BY <1>1, <2>1 DEF Balancer
  <2>3. Looks BY <1>2, <2>2 DEF Looks
  <2> QED BY <1>2, <2>1, <2>2, <2>3, LooksKeeps
<1> QED BY <1>3, <1>4

\* What has been cut off is pushed, or the old StopAt comes back.
LEMMA StealPushKeeps ==
  ASSUME RangesInv, StealPush
  PROVE  RangesInv'
<1> DEFINE from(i) == Greater(wk[i].cur, wk[i].stop)
<1>1. PICK i \in bal.victim :
        IF from(i) >= bal.end
        THEN /\ wk' = [wk EXCEPT ![i].stop = bal.end]
             /\ bal' = [bal EXCEPT !.pc = "unsplit"]
             /\ UNCHANGED queue
        ELSE /\ queue' = Append(queue, Task(from(i), bal.end, 0))
             /\ bal' = [bal EXCEPT !.pc = "tick"]
             /\ UNCHANGED wk
  BY DEF StealPush
<1>2. /\ bal.pc = "push"
      /\ UNCHANGED <<disk, closed, shared, drains, ctx, why, stash, phase, saved>>
  BY DEF StealPush
<1>3. bal \in Balancer BY DEF RangesInv, RangesTypeOK
<1>4. i \in Workers /\ bal.victim = {i} /\ wk[i].pc \in Mapped /\ ~wk[i].hedged
  BY <1>1, <1>2 DEF RangesInv, VictimOK
<1>5. /\ bal.end \in Nat /\ wk[i].cur \in Nat /\ wk[i].stop \in Nat /\ wk[i].ptr \in Nat
      /\ wk[i].end \in Nat /\ wk[i].end <= Size /\ Size \in Nat
  BY <1>4, WorkerTypes, BalancerTypes, RangesAssumption DEF RangesInv
<1>6. wk[i].ptr = 0 BY <1>4 DEF RangesInv, CellsAllocated
<1>7. \A j \in Workers : ~Shrinking(j) /\ (Pushing(j) <=> j = i)
  BY <1>2, <1>4 DEF Pushing, Shrinking
<1>8. bal' \in Balancer /\ bal'.pc \in {"unsplit", "tick"} BY <1>1, <1>3 DEF Balancer
<1>9. \A j \in Workers : ~Shrinking(j)' /\ ~Pushing(j)' BY <1>8 DEF Pushing, Shrinking
<1>10. VictimOK' BY <1>8 DEF VictimOK
<1>11. Own(i) BY <1>4 DEF RangesInv, OwnOK
<1>12. /\ bal.end <= wk[i].end /\ Stored(bal.end, wk[i].cur) /\ Stored(wk[i].stop, wk[i].cur)
       /\ AtAgrees(i)
       /\ wk[i].pc = "ended" /\ wk[i].res = "ok" => wk[i].cur >= wk[i].stop \/ wk[i].cur >= bal.end
  BY <1>4, <1>7, <1>11 DEF Own, StopInTask, PassedIsStored, EndedAtStop
<1> DEFINE f == from(i)
<1>13. f \in Nat /\ wk[i].cur <= f /\ wk[i].stop <= f /\ f \in {wk[i].cur, wk[i].stop}
  BY <1>5 DEF Greater
<1> HIDE DEF f
<1>14. CASE f >= bal.end
  <2>1. /\ wk' = [wk EXCEPT ![i].stop = bal.end] /\ queue' = queue
    BY <1>1, <1>14 DEF f
  <2>2. Turn(i) /\ wk'[i] = [wk[i] EXCEPT !.stop = bal.end]
    BY <1>4, <1>5, <2>1, StopMovesDoes DEF RangesInv
  <2>3. wk[i] \in Entries BY <1>4 DEF RangesInv, RangesTypeOK
  <2>4. /\ wk'[i].pc = wk[i].pc /\ wk'[i].off = wk[i].off /\ wk'[i].end = wk[i].end
        /\ wk'[i].cur = wk[i].cur /\ wk'[i].stop = bal.end /\ wk'[i].ptr = wk[i].ptr
        /\ wk'[i].hedged = wk[i].hedged /\ wk'[i].at = wk[i].at /\ wk'[i].n = wk[i].n
        /\ wk'[i].res = wk[i].res
    BY <2>2, <2>3 DEF Entries
  <2>5. \A j \in Workers : j # i => wk'[j] = wk[j] BY <2>2 DEF Turn
  <2>6. \A j \in Workers : /\ Holding(j)' <=> Holding(j)
                           /\ wk'[j].cur = wk[j].cur /\ wk'[j].ptr = wk[j].ptr
                           /\ j # i => wk'[j].stop = wk[j].stop
    BY <2>4, <2>5 DEF Holding
  <2>7. Queued' = Queued BY <1>2, <2>1 DEF Queued
  <2>8. CellsAllocated'
    <3>1. \A j \in Workers : wk'[j].ptr <= Len(shared) /\ (wk'[j].ptr # 0 => wk'[j].hedged)
      BY <2>4, <2>5 DEF RangesInv, CellsAllocated
    <3> QED BY <1>2, <2>7, <3>1 DEF RangesInv, CellsAllocated
  <2>9. RaceOK'
    <3>1. \A p \in 1 .. Len(shared) : Positions(p)' \subseteq Positions(p)
      BY <1>2, <2>6, <2>7 DEF Positions
    <3>2. \A p \in 1 .. Len(shared) : Limits(p)' \subseteq Limits(p)
      <4> SUFFICES ASSUME NEW p \in 1 .. Len(shared), NEW a \in Limits(p)'
                   PROVE  a \in Limits(p)
        OBVIOUS
      <4>1. \/ \E s \in Queued : s.ptr = p /\ a = s.end
            \/ \E j \in Workers : Holding(j)' /\ wk'[j].ptr = p /\ a = wk'[j].stop
        BY <2>7 DEF Limits
      <4>2. CASE \E s \in Queued : s.ptr = p /\ a = s.end BY <4>2 DEF Limits
      <4>3. CASE \E j \in Workers : Holding(j)' /\ wk'[j].ptr = p /\ a = wk'[j].stop
        <5>1. PICK j \in Workers : Holding(j)' /\ wk'[j].ptr = p /\ a = wk'[j].stop BY <4>3
        <5>2. j # i BY <1>6, <2>6, <5>1
        <5> QED BY <2>6, <5>1, <5>2 DEF Limits
      <4> QED BY <4>1, <4>2, <4>3
    <3> QED BY <1>2, <3>1, <3>2, RaceShrinks DEF RangesInv
  <2>10. CoverOK'
    <3> SUFFICES ASSUME NEW x \in File, Covered(x) PROVE x \in disk \/ Covered(x)'
      BY <1>2, CoverKept DEF RangesInv
    <3>0. x \in Nat BY RangesAssumption DEF File
    <3>1. CASE \E s \in Queued : s.off <= x /\ x < s.end BY <2>7, <3>1 DEF Covered
    <3>2. CASE \E j \in Workers : Answers(j, x)
      <4>1. PICK j \in Workers : Answers(j, x) BY <3>2
      <4>2. Holding(j) /\ wk[j].cur <= x /\ x < Limit(j) BY <4>1 DEF Answers
      <4>3. x < wk'[j].stop
        <5>1. CASE j # i BY <1>7, <2>6, <4>2, <5>1 DEF Limit
        <5>2. CASE j = i
          <6>1. Limit(i) <= bal.end BY <1>4, <1>5, <1>7 DEF Limit, Lesser
          <6>2. Limit(i) \in Nat BY <1>5 DEF Limit, Lesser
          <6> QED BY <1>5, <2>4, <3>0, <4>2, <5>2, <6>1, <6>2
        <5> QED BY <5>1, <5>2
      <4>4. Answers(j, x)' BY <1>9, <2>6, <4>2, <4>3 DEF Answers, Limit
      <4> QED BY <4>4 DEF Covered
    <3>3. CASE Moving(x)
      <4>1. wk[i].stop <= x /\ x < bal.end BY <1>7, <3>3 DEF Moving
      <4>2. x < wk[i].cur BY <1>5, <1>13, <1>14, <3>0, <4>1
      <4> QED BY <1>12, <3>0, <4>1, <4>2 DEF Stored
    <3> QED BY <3>1, <3>2, <3>3 DEF Covered
  <2>11. OwnOK'
    <3> SUFFICES ASSUME NEW j \in Workers PROVE Own(j)'
      BY DEF OwnOK
    <3>1. CASE j # i
      <4>1. Own(j) BY DEF RangesInv, OwnOK
      <4>2. wk'[j] = wk[j] BY <2>5, <3>1
      <4>3. ~Pushing(j) /\ ~Pushing(j)' /\ ~Shrinking(j)' BY <1>7, <1>9, <3>1
      <4>4. StopInTask(j)' BY <4>1, <4>2, <4>3 DEF Own, StopInTask
      <4>5. AtAgrees(j)' BY <1>2, <4>1, <4>2 DEF Own, AtAgrees, Stored
      <4>6. PassedIsStored(j)' BY <1>2, <4>1, <4>2, <4>3 DEF Own, PassedIsStored, Stored
      <4>7. EndedAtStop(j)' BY <4>1, <4>2, <4>3 DEF Own, EndedAtStop
      <4> QED BY <4>4, <4>5, <4>6, <4>7 DEF Own
    <3>2. CASE j = i
      <4>1. ~Pushing(i)' /\ ~Shrinking(i)' BY <1>4, <1>9
      <4>2. StopInTask(i)' BY <1>12, <2>4, <4>1 DEF StopInTask
      <4>3. AtAgrees(i)' BY <1>2, <1>12, <2>4 DEF AtAgrees, Stored
      <4>4. PassedIsStored(i)' BY <1>2, <1>12, <2>4, <4>1 DEF PassedIsStored, Stored
      <4>5. wk[i].pc = "ended" /\ wk[i].res = "ok" => wk[i].cur >= bal.end
        BY <1>5, <1>12, <1>13, <1>14
      <4>6. EndedAtStop(i)' BY <2>4, <4>5 DEF EndedAtStop
      <4> QED BY <3>2, <4>2, <4>3, <4>4, <4>6 DEF Own
    <3> QED BY <3>1, <3>2
  <2>12. SomebodyStays'
    <3>1. \A j \in Workers : wk'[j].pc = wk[j].pc /\ wk'[j].res = wk[j].res
      BY <2>4, <2>5
    <3> QED BY <1>2, <3>1 DEF RangesInv, SomebodyStays
  <2>13. RangesTypeOK'
    <3>1. wk' \in [Workers -> Entries] BY <2>2 DEF Turn
    <3> QED BY <1>2, <1>8, <2>1, <3>1 DEF RangesInv, RangesTypeOK
  <2> QED BY <1>10, <2>8, <2>9, <2>10, <2>11, <2>12, <2>13 DEF RangesInv
<1>15. CASE ~(f >= bal.end)
  <2> DEFINE t == Task(f, bal.end, 0)
  <2>1. queue' = Append(queue, t) /\ wk' = wk BY <1>1, <1>15 DEF f
  <2>2. f < bal.end /\ bal.end \in Offsets /\ f \in Offsets
    BY <1>5, <1>12, <1>13, <1>15 DEF Offsets
  <2>3. t \in Tasks /\ t.off = f /\ t.end = bal.end /\ t.ptr = 0
    BY <1>5, <1>13, <2>2 DEF Task, Tasks
  <2> HIDE DEF t
  <2>4. queue' \in Seq(Tasks) /\ ToSet(queue') = ToSet(queue) \cup {t}
    BY <2>1, <2>3, QueueGrows DEF RangesInv
  <2>5. \A s : s \in Queued' <=> s \in Queued \/ s = t BY <1>2, <2>4 DEF Queued
  <2>6. CellsAllocated'
    <3>1. \A s \in Queued' : s.ptr <= Len(shared)
      <4>1. 0 <= Len(shared) BY DEF RangesInv, RangesTypeOK
      <4> QED BY <2>3, <2>5, <4>1 DEF RangesInv, CellsAllocated
    <3> QED BY <1>2, <2>1, <3>1 DEF RangesInv, CellsAllocated
  <2>7. RaceOK'
    <3>1. \A p \in 1 .. Len(shared) : \A s \in Queued' : s.ptr = p => s \in Queued
      BY <2>3, <2>5
    <3>2. \A j \in Workers : Holding(j)' <=> Holding(j) BY <2>1 DEF Holding
    <3>3. \A p \in 1 .. Len(shared) : Positions(p)' \subseteq Positions(p)
      BY <1>2, <2>1, <3>1, <3>2 DEF Positions
    <3>4. \A p \in 1 .. Len(shared) : Limits(p)' \subseteq Limits(p)
      BY <2>1, <3>1, <3>2 DEF Limits
    <3> QED BY <1>2, <3>3, <3>4, RaceShrinks DEF RangesInv
  <2>8. CoverOK'
    <3> SUFFICES ASSUME NEW x \in File, Covered(x) PROVE x \in disk \/ Covered(x)'
      BY <1>2, CoverKept DEF RangesInv
    <3>0. x \in Nat BY RangesAssumption DEF File
    <3>1. CASE \E s \in Queued : s.off <= x /\ x < s.end BY <2>5, <3>1 DEF Covered
    <3>2. CASE \E j \in Workers : Answers(j, x)
      <4>1. PICK j \in Workers : Answers(j, x) BY <3>2
      <4>2. Holding(j) /\ wk[j].cur <= x /\ x < Limit(j) BY <4>1 DEF Answers
      <4>3. x < wk[j].stop
        <5>1. CASE j # i BY <1>7, <4>2, <5>1 DEF Limit
        <5>2. CASE j = i
          <6>1. Limit(i) <= wk[i].stop BY <1>5, <1>7 DEF Limit, Lesser
          <6>2. Limit(i) \in Nat BY <1>5 DEF Limit, Lesser
          <6> QED BY <1>5, <3>0, <4>2, <5>2, <6>1, <6>2
        <5> QED BY <5>1, <5>2
      <4>4. Holding(j)' BY <2>1, <4>2 DEF Holding
      <4>5. Answers(j, x)' BY <1>9, <2>1, <4>2, <4>3, <4>4 DEF Answers, Limit
      <4> QED BY <4>5 DEF Covered
    <3>3. CASE Moving(x)
      <4>1. wk[i].stop <= x /\ x < bal.end BY <1>7, <3>3 DEF Moving
      <4>2. CASE f <= x
        <5>1. t \in Queued' /\ t.off <= x /\ x < t.end BY <2>3, <2>5, <4>1, <4>2
        <5> QED BY <5>1 DEF Covered
      <4>3. CASE ~(f <= x)
        <5>1. x < wk[i].cur BY <1>5, <1>13, <3>0, <4>1, <4>3
        <5> QED BY <1>12, <3>0, <4>1, <5>1 DEF Stored
      <4> QED BY <4>2, <4>3
    <3> QED BY <3>1, <3>2, <3>3 DEF Covered
  <2>9. OwnOK'
    <3> SUFFICES ASSUME NEW j \in Workers PROVE Own(j)'
      BY DEF OwnOK
    <3>1. Own(j) BY DEF RangesInv, OwnOK
    <3>2. ~Pushing(j)' /\ ~Shrinking(j)' BY <1>9
    <3>3. AtAgrees(j)' BY <1>2, <2>1, <3>1 DEF Own, AtAgrees, Stored
    <3>4. PassedIsStored(j)' BY <1>2, <2>1, <3>1, <3>2 DEF Own, PassedIsStored, Stored
    <3>5. StopInTask(j)'
      <4>1. CASE j = i BY <1>5, <1>12, <1>13, <2>1, <2>2, <3>2, <4>1 DEF StopInTask
      <4>2. CASE j # i BY <1>7, <2>1, <3>1, <3>2, <4>2 DEF Own, StopInTask
      <4> QED BY <4>1, <4>2
    <3>6. EndedAtStop(j)'
      <4>1. CASE j = i BY <1>5, <1>12, <1>13, <2>1, <2>2, <4>1 DEF EndedAtStop
      <4>2. CASE j # i BY <1>7, <2>1, <3>1, <3>2, <4>2 DEF Own, EndedAtStop
      <4> QED BY <4>1, <4>2
    <3> QED BY <3>3, <3>4, <3>5, <3>6 DEF Own
  <2>10. SomebodyStays' BY <1>2, <2>1 DEF RangesInv, SomebodyStays
  <2>11. RangesTypeOK' BY <1>2, <1>8, <2>1, <2>4 DEF RangesInv, RangesTypeOK
  <2> QED BY <1>10, <2>6, <2>7, <2>8, <2>9, <2>10, <2>11 DEF RangesInv
<1> QED BY <1>14, <1>15

\* A duplicate of a rest joins the queue, and both race.
LEMMA RaceKeeps ==
  ASSUME RangesInv, NEW i \in Hedgeable, NEW next \in {"tick", "sweep"}, Race(i, next),
         bal.pc \in {"tick", "unsplit", "sweep"},
         UNCHANGED <<disk, closed, drains, ctx, why, stash, phase, saved>>
  PROVE  RangesInv'
<1>1. i \in Workers /\ wk[i].pc \in Mapped /\ ~wk[i].hedged /\ RemainingBytes(i) \in 1 .. MaxHedge - 1
  BY DEF Hedgeable, Active
<1>2. wk[i].ptr = 0 BY <1>1 DEF RangesInv, CellsAllocated
<1>3. CurrentOffset(i) = wk[i].cur BY <1>2 DEF CurrentOffset
<1>4. /\ wk[i].cur \in Nat /\ wk[i].cur \in Offsets /\ wk[i].stop \in Nat /\ wk[i].end \in Nat
      /\ wk[i].end <= Size /\ Size \in Nat /\ MaxHedge \in Nat
  BY <1>1, WorkerTypes, RangesAssumption DEF RangesInv
<1>5. wk[i].cur < wk[i].stop
  <2>1. ~(wk[i].cur >= wk[i].stop)
    <3> SUFFICES ASSUME wk[i].cur >= wk[i].stop PROVE FALSE
      OBVIOUS
    <3>1. RemainingBytes(i) = 0 BY <1>3 DEF RemainingBytes
    <3> QED BY <1>1, <3>1
  <2> QED BY <1>4, <2>1
<1>6. \A j \in Workers : ~Shrinking(j) /\ ~Pushing(j) BY DEF Shrinking, Pushing
<1>7. wk[i].stop <= wk[i].end BY <1>1, <1>6 DEF RangesInv, OwnOK, Own, StopInTask
<1>a. Len(shared) \in Nat BY DEF RangesInv, RangesTypeOK
<1>b. PICK new \in Nat : new = Len(shared) + 1 BY <1>a
<1> DEFINE t == Task(wk[i].cur, wk[i].stop, new)
<1>8. /\ shared' = Append(shared, wk[i].cur)
      /\ wk' = [wk EXCEPT ![i].hedged = TRUE, ![i].ptr = new]
      /\ queue' = Append(queue, t)
      /\ bal' = [bal EXCEPT !.pc = next]
  BY <1>2, <1>3, <1>b DEF Race
<1>9. shared \in Seq(Offsets) /\ Len(shared) \in Nat /\ new \in Nat BY DEF RangesInv, RangesTypeOK
<1>10. /\ t \in Tasks /\ t.off = wk[i].cur /\ t.end = wk[i].stop /\ t.ptr = new
  <2>1. wk[i].stop \in Offsets BY <1>4, <1>7 DEF Offsets
  <2> QED BY <1>4, <1>5, <1>9, <2>1 DEF Task, Tasks
<1>11. new > Len(shared) BY <1>9, <1>b
<1> HIDE DEF t
<1>12. /\ shared' \in Seq(Offsets) /\ Len(shared') = new /\ shared'[new] = wk[i].cur
       /\ \A p \in 1 .. Len(shared) : shared'[p] = shared[p]
  BY <1>4, <1>8, <1>9, <1>b
<1>13. 1 .. Len(shared') = (1 .. Len(shared)) \cup {new} BY <1>9, <1>12, <1>b
<1>14. Turn(i) /\ wk'[i] = [wk[i] EXCEPT !.hedged = TRUE, !.ptr = new]
  BY <1>1, <1>8, <1>9, JoinsDoes DEF RangesInv
<1>15. wk[i] \in Entries BY <1>1 DEF RangesInv, RangesTypeOK
<1>16. /\ wk'[i].pc = wk[i].pc /\ wk'[i].off = wk[i].off /\ wk'[i].end = wk[i].end
       /\ wk'[i].cur = wk[i].cur /\ wk'[i].stop = wk[i].stop /\ wk'[i].ptr = new
       /\ wk'[i].hedged = TRUE /\ wk'[i].at = wk[i].at /\ wk'[i].n = wk[i].n
       /\ wk'[i].res = wk[i].res
  BY <1>14, <1>15 DEF Entries
<1>17. \A j \in Workers : j # i => wk'[j] = wk[j] BY <1>14 DEF Turn
<1>18. \A j \in Workers : /\ Holding(j)' <=> Holding(j)
                          /\ wk'[j].cur = wk[j].cur /\ wk'[j].stop = wk[j].stop
                          /\ j # i => wk'[j].ptr = wk[j].ptr
  BY <1>16, <1>17 DEF Holding
<1>19. queue' \in Seq(Tasks) /\ ToSet(queue') = ToSet(queue) \cup {t}
  BY <1>8, <1>10, QueueGrows DEF RangesInv
<1>20. \A s : s \in Queued' <=> s \in Queued \/ s = t BY <1>19 DEF Queued
<1>21. bal' \in Balancer /\ bal'.pc = next
  <2>1. bal \in Balancer BY DEF RangesInv, RangesTypeOK
  <2> QED BY <1>8, <2>1 DEF Balancer
<1>22. \A j \in Workers : ~Shrinking(j)' /\ ~Pushing(j)' BY <1>21 DEF Shrinking, Pushing
<1>23. /\ \A s \in Queued : s.ptr <= Len(shared) /\ s.ptr # new
       /\ \A j \in Workers : wk[j].ptr <= Len(shared) /\ wk[j].ptr # new
  <2>1. \A s \in Queued : s.ptr <= Len(shared) /\ s.ptr \in Nat
    BY QueuedTasks DEF RangesInv, CellsAllocated
  <2>2. \A j \in Workers : wk[j].ptr <= Len(shared) /\ wk[j].ptr \in Nat
    BY WorkerTypes DEF RangesInv, CellsAllocated
  <2> QED BY <1>9, <1>11, <2>1, <2>2
<1>24. CellsAllocated'
  <2>1. \A s \in Queued' : s.ptr <= Len(shared')
    <3>1. \A s \in Queued : s.ptr \in Nat BY QueuedTasks DEF RangesInv
    <3> QED BY <1>9, <1>10, <1>11, <1>12, <1>20, <1>23, <3>1
  <2>2. \A j \in Workers : wk'[j].ptr <= Len(shared') /\ (wk'[j].ptr # 0 => wk'[j].hedged)
    <3>1. \A j \in Workers : wk[j].ptr \in Nat BY WorkerTypes DEF RangesInv
    <3>2. \A j \in Workers : wk[j].ptr # 0 => wk[j].hedged BY DEF RangesInv, CellsAllocated
    <3> QED BY <1>9, <1>11, <1>12, <1>16, <1>17, <1>23, <3>1, <3>2
  <2> QED BY <2>1, <2>2 DEF RangesInv, CellsAllocated
<1>25. VictimOK' BY <1>21 DEF VictimOK
<1>26. RaceOK'
  <2>1. ASSUME NEW p \in 1 .. Len(shared)
        PROVE  Positions(p)' \subseteq Positions(p) /\ Limits(p)' \subseteq Limits(p)
    <3>0. p # new BY <1>9, <1>11
    <3>1. ASSUME NEW a \in Positions(p)' PROVE a \in Positions(p)
      <4>1. \/ a = shared'[p]
            \/ \E s \in Queued' : s.ptr = p /\ a = s.off
            \/ \E j \in Workers : Holding(j)' /\ wk'[j].ptr = p /\ a = wk'[j].cur
        BY <3>1 DEF Positions
      <4>2. CASE a = shared'[p] BY <1>12, <4>2 DEF Positions
      <4>3. CASE \E s \in Queued' : s.ptr = p /\ a = s.off
        BY <1>10, <1>20, <3>0, <4>3 DEF Positions
      <4>4. CASE \E j \in Workers : Holding(j)' /\ wk'[j].ptr = p /\ a = wk'[j].cur
        BY <1>16, <1>18, <3>0, <4>4 DEF Positions
      <4> QED BY <4>1, <4>2, <4>3, <4>4
    <3>2. ASSUME NEW a \in Limits(p)' PROVE a \in Limits(p)
      <4>1. \/ \E s \in Queued' : s.ptr = p /\ a = s.end
            \/ \E j \in Workers : Holding(j)' /\ wk'[j].ptr = p /\ a = wk'[j].stop
        BY <3>2 DEF Limits
      <4>2. CASE \E s \in Queued' : s.ptr = p /\ a = s.end
        BY <1>10, <1>20, <3>0, <4>2 DEF Limits
      <4>3. CASE \E j \in Workers : Holding(j)' /\ wk'[j].ptr = p /\ a = wk'[j].stop
        BY <1>16, <1>18, <3>0, <4>3 DEF Limits
      <4> QED BY <4>1, <4>2, <4>3
    <3> QED BY <3>1, <3>2
  <2>2. ASSUME NEW a \in Positions(new)' PROVE a = wk[i].cur
    <3>1. \/ a = shared'[new]
          \/ \E s \in Queued' : s.ptr = new /\ a = s.off
          \/ \E j \in Workers : Holding(j)' /\ wk'[j].ptr = new /\ a = wk'[j].cur
      BY <2>2 DEF Positions
    <3> QED BY <1>10, <1>12, <1>18, <1>20, <1>23, <3>1
  <2>3. ASSUME NEW a \in Limits(new)' PROVE a = wk[i].stop
    <3>1. \/ \E s \in Queued' : s.ptr = new /\ a = s.end
          \/ \E j \in Workers : Holding(j)' /\ wk'[j].ptr = new /\ a = wk'[j].stop
      BY <2>3 DEF Limits
    <3> QED BY <1>10, <1>18, <1>20, <1>23, <3>1
  <2>4. ASSUME NEW p \in 1 .. Len(shared'), NEW a \in Positions(p)', NEW b \in Positions(p)'
        PROVE  Stored(a, b)'
    <3>1. CASE p = new
      <4>1. a = b /\ a \in Nat BY <1>4, <2>2, <3>1
      <4> QED BY <4>1 DEF Stored
    <3>2. CASE p # new
      <4>1. p \in 1 .. Len(shared) BY <1>13, <3>2
      <4>2. a \in Positions(p) /\ b \in Positions(p) BY <2>1, <4>1
      <4>3. Stored(a, b) BY <4>1, <4>2 DEF RangesInv, RaceOK
      <4> QED BY <4>3 DEF Stored
    <3> QED BY <3>1, <3>2
  <2>5. ASSUME NEW p \in 1 .. Len(shared'), NEW a \in Limits(p)', NEW b \in Limits(p)'
        PROVE  a = b
    <3>1. CASE p = new BY <2>3, <3>1
    <3>2. CASE p # new
      <4>1. p \in 1 .. Len(shared) BY <1>13, <3>2
      <4>2. a \in Limits(p) /\ b \in Limits(p) BY <2>1, <4>1
      <4> QED BY <4>1, <4>2 DEF RangesInv, RaceOK
    <3> QED BY <3>1, <3>2
  <2> QED BY <2>4, <2>5 DEF RaceOK
<1>27. CoverOK'
  <2> SUFFICES ASSUME NEW x \in File, Covered(x) PROVE Covered(x)'
    BY CoverKept DEF RangesInv
  <2>1. CASE \E s \in Queued : s.off <= x /\ x < s.end BY <1>20, <2>1 DEF Covered
  <2>2. CASE \E j \in Workers : Answers(j, x)
    <3>1. PICK j \in Workers : Answers(j, x) BY <2>2
    <3>2. Answers(j, x)' BY <1>6, <1>18, <1>22, <3>1 DEF Answers, Limit
    <3> QED BY <3>2 DEF Covered
  <2>3. ~Moving(x) BY <1>6 DEF Moving
  <2> QED BY <2>1, <2>2, <2>3 DEF Covered
<1>28. OwnOK'
  <2> SUFFICES ASSUME NEW j \in Workers PROVE Own(j)'
    BY DEF OwnOK
  <2>0. Own(j) BY DEF RangesInv, OwnOK
  <2>1. ~Pushing(j)' /\ ~Shrinking(j)' /\ ~Pushing(j) BY <1>6, <1>22
  <2>2. /\ wk'[j].pc = wk[j].pc /\ wk'[j].off = wk[j].off /\ wk'[j].end = wk[j].end
        /\ wk'[j].cur = wk[j].cur /\ wk'[j].stop = wk[j].stop
        /\ wk'[j].at = wk[j].at /\ wk'[j].n = wk[j].n /\ wk'[j].res = wk[j].res
    BY <1>16, <1>17
  <2>3. StopInTask(j)' BY <2>0, <2>1, <2>2 DEF Own, StopInTask
  <2>4. AtAgrees(j)' BY <2>0, <2>2 DEF Own, AtAgrees, Stored
  <2>5. PassedIsStored(j)' BY <2>0, <2>1, <2>2 DEF Own, PassedIsStored, Stored
  <2>6. EndedAtStop(j)' BY <2>0, <2>1, <2>2 DEF Own, EndedAtStop
  <2> QED BY <2>3, <2>4, <2>5, <2>6 DEF Own
<1>29. SomebodyStays'
  <2>1. \A j \in Workers : wk'[j].pc = wk[j].pc /\ wk'[j].res = wk[j].res
    BY <1>16, <1>17
  <2> QED BY <2>1 DEF RangesInv, SomebodyStays
<1>30. RangesTypeOK'
  <2>1. wk' \in [Workers -> Entries] BY <1>14 DEF Turn
  <2> QED BY <1>12, <1>19, <1>21, <2>1 DEF RangesInv, RangesTypeOK
<1> QED BY <1>24, <1>25, <1>26, <1>27, <1>28, <1>29, <1>30 DEF RangesInv

\* HedgeWork and HedgeAll.
LEMMA HedgesKeep ==
  ASSUME RangesInv, HedgeWork \/ HedgeAll
  PROVE  RangesInv'
<1>1. CASE HedgeWork
  <2>1. PICK i \in Hedgeable : Race(i, "tick") BY <1>1 DEF HedgeWork, Most
  <2>2. /\ bal.pc \in {"tick", "unsplit", "sweep"}
        /\ UNCHANGED <<disk, closed, drains, ctx, why, stash, phase, saved>>
    BY <1>1 DEF HedgeWork
  <2> QED BY <2>1, <2>2, RaceKeeps
<1>2. CASE HedgeAll
  <2>1. PICK i \in Hedgeable : Race(i, "sweep") BY <1>2 DEF HedgeAll
  <2>2. /\ bal.pc \in {"tick", "unsplit", "sweep"}
        /\ UNCHANGED <<disk, closed, drains, ctx, why, stash, phase, saved>>
    BY <1>2 DEF HedgeAll
  <2> QED BY <2>1, <2>2, RaceKeeps
<1> QED BY <1>1, <1>2

-----------------------------------------------------------------------------
(* Runs of bytes. *)

\* A set of numbers has a least one.
LEMMA LeastOf ==
  ASSUME NEW S, S \subseteq Nat, S # {}
  PROVE  \E m \in S : \A n \in S : m <= n
<1>1. \A t, u \in Nat : <<u, t>> \in OpToRel(<, Nat) <=> u < t
  BY DEF OpToRel
<1>2. \E R : IsWellFoundedOn(R, Nat) /\ \A t, u \in Nat : <<u, t>> \in R <=> u < t
  BY <1>1, NatLessThanWellFounded, Zenon
<1>. PICK R : IsWellFoundedOn(R, Nat) /\ \A t, u \in Nat : <<u, t>> \in R <=> u < t
  BY <1>2
<1>. PICK m \in S : \A u \in S : ~(<<u, m>> \in R)
  BY WFMin
<1>3. \A u \in S : ~(u < m) OBVIOUS
<1> QED BY <1>3

\* A bounded set of numbers has a greatest one.
LEMMA GreatestOf ==
  ASSUME NEW S, NEW bound \in Nat, S \subseteq 0 .. bound, S # {}
  PROVE  \E m \in S : \A n \in S : n <= m
<1> DEFINE D == {bound - n : n \in S}
<1>0. \A n \in S : n \in Nat /\ n <= bound /\ bound - n \in Nat OBVIOUS
<1>1. D \subseteq Nat /\ D # {} BY <1>0
<1>2. PICK d \in D : \A e \in D : d <= e
  <2> HIDE DEF D
  <2> QED BY <1>1, LeastOf
<1>3. PICK m \in S : d = bound - m OBVIOUS
<1>4. \A n \in S : bound - n \in D OBVIOUS
<1>5. ASSUME NEW n \in S PROVE n <= m
  <2> HIDE DEF D
  <2>1. bound - m <= bound - n BY <1>2, <1>3, <1>4
  <2> QED BY <1>0, <2>1
<1> QED BY <1>5

\* The runs of a set of bytes are tasks without a race.
LEMMA RunsAreTasks ==
  ASSUME NEW bytes
  PROVE  \A t \in Runs(bytes) : t \in Tasks /\ t.ptr = 0
<1> SUFFICES ASSUME NEW t \in Runs(bytes) PROVE t \in Tasks /\ t.ptr = 0
  OBVIOUS
<1>1. t \in [off : File, end : Offsets, ptr : {0}] /\ t.off < t.end BY DEF Runs
<1>2. t.off \in Offsets /\ t.off \in Nat /\ t.end \in Nat
  BY <1>1, RangesAssumption DEF File, Offsets
<1>3. t \in [off : Offsets, end : Offsets, ptr : Nat] /\ t.off <= t.end BY <1>1, <1>2
<1> QED BY <1>1, <1>3 DEF Tasks

\* Each byte is in a run.
LEMMA RunsCover ==
  ASSUME NEW bytes, bytes \subseteq File, NEW x \in bytes
  PROVE  \E t \in Runs(bytes) : t.off <= x /\ x < t.end
<1>0. Size \in Nat /\ x \in Nat /\ x < Size /\ File = 0 .. Size - 1
  BY RangesAssumption DEF File
<1> DEFINE Lows == {a \in 0 .. x : a .. x \subseteq bytes}
           Highs == {e \in Nat : x < e /\ e \notin bytes}
<1>1. PICK a \in Lows : \A b \in Lows : a <= b
  <2>1. x \in Lows BY <1>0
  <2>2. Lows \subseteq Nat BY <1>0
  <2> HIDE DEF Lows
  <2> QED BY <2>1, <2>2, LeastOf
<1>2. Size \in Highs BY <1>0
<1>3. PICK e \in Highs : \A f \in Highs : e <= f
  <2>1. Highs \subseteq Nat OBVIOUS
  <2> HIDE DEF Highs
  <2> QED BY <1>2, <2>1, LeastOf
<1>4. a \in Nat /\ a <= x /\ a .. x \subseteq bytes BY <1>0
<1>5. e \in Nat /\ x < e /\ e \notin bytes /\ e <= Size BY <1>2, <1>3
<1>6. a = 0 \/ a - 1 \notin bytes
  <2> SUFFICES ASSUME a # 0, a - 1 \in bytes PROVE FALSE
    OBVIOUS
  <2>1. a - 1 \in 0 .. x BY <1>0, <1>4
  <2>2. (a - 1) .. x \subseteq bytes
    <3> SUFFICES ASSUME NEW y \in (a - 1) .. x PROVE y \in bytes
      OBVIOUS
    <3>1. y = a - 1 \/ y \in a .. x BY <1>0, <1>4
    <3> QED BY <1>4, <3>1
  <2>3. a - 1 \in Lows BY <2>1, <2>2
  <2>4. a <= a - 1 BY <1>1, <2>3
  <2> QED BY <1>4, <2>4
<1>7. a .. (e - 1) \subseteq bytes
  <2> SUFFICES ASSUME NEW y \in a .. (e - 1) PROVE y \in bytes
    OBVIOUS
  <2>1. CASE y <= x
    <3>1. y \in a .. x BY <1>0, <1>4, <1>5, <2>1
    <3> QED BY <1>4, <3>1
  <2>2. CASE ~(y <= x)
    <3>1. y \in Nat /\ x < y /\ y < e BY <1>0, <1>4, <1>5, <2>2
    <3>2. ~(e <= y) BY <1>5, <3>1
    <3>3. y \notin Highs BY <1>3, <3>2
    <3> QED BY <3>1, <3>3
  <2> QED BY <2>1, <2>2
<1> HIDE DEF Lows, Highs
<1> DEFINE t == [off |-> a, end |-> e, ptr |-> 0]
<1>8. t \in [off : File, end : Offsets, ptr : {0}]
  <2>1. a \in File /\ e \in Offsets BY <1>0, <1>4, <1>5 DEF Offsets
  <2> QED BY <2>1
<1>9. a < e BY <1>0, <1>4, <1>5
<1>10. t \in Runs(bytes) BY <1>5, <1>6, <1>7, <1>8, <1>9 DEF Runs
<1>11. t.off <= x /\ x < t.end BY <1>4, <1>5
<1> QED BY <1>10, <1>11

-----------------------------------------------------------------------------
(* The end of a run. *)

\* Once every worker is gone, what is not on disk is among the tasks left.
LEMMA RemainingCovers ==
  ASSUME RangesInv, AllGone, phase = "live", NEW x \in File, x \notin disk
  PROVE  \E t \in Remaining : t.off <= x /\ x < t.end
<1>0. x \in Nat /\ Size \in Nat BY RangesAssumption DEF File
<1>1. PICK t \in Queued : t.off <= x /\ x < t.end
  <2>1. \A j \in Workers : wk[j].pc = "gone" BY DEF AllGone
  <2>2. \A j \in Workers : ~Holding(j) /\ wk[j].pc \notin Mapped
    BY <2>1 DEF Holding, Mapped, Loop
  <2>3. \A j \in Workers : ~Answers(j, x) BY <2>2 DEF Answers
  <2>4. ~Moving(x) BY <2>2, NotVictim DEF Moving, RangesInv
  <2>5. Covered(x) BY DEF RangesInv, CoverOK
  <2> QED BY <2>3, <2>4, <2>5 DEF Covered
<1>2. \A s \in Queued : s.off \in Nat /\ s.end \in Nat /\ s.ptr \in Nat /\ s.off \in Offsets
  BY QueuedTasks DEF RangesInv
<1>3. \E s \in Prefer(Queued) : s.off <= x /\ x < s.end
  <2>1. CASE t.ptr = 0 BY <1>1, <2>1 DEF Prefer
  <2>2. CASE t.ptr # 0
    <3> DEFINE p == t.ptr
               Offs == {s.off : s \in {s \in Queued : s.ptr = p}}
    <3>1. p \in 1 .. Len(shared)
      <4>1. p <= Len(shared) /\ Len(shared) \in Nat
        BY DEF RangesInv, CellsAllocated, RangesTypeOK
      <4> QED BY <1>2, <2>2, <4>1
    <3>2. Offs \subseteq 0 .. Size /\ Offs # {} BY <1>1, <1>2 DEF Offsets
    <3>3. PICK m \in Offs : \A n \in Offs : n <= m
      <4> HIDE DEF Offs
      <4> QED BY <1>0, <3>2, GreatestOf
    <3>4. PICK s \in Queued : s.ptr = p /\ s.off = m BY <3>3
    <3>5. \A r \in Queued : r.ptr = p => r.off <= s.off /\ r.end = s.end
      <4> SUFFICES ASSUME NEW r \in Queued, r.ptr = p PROVE r.off <= s.off /\ r.end = s.end
        OBVIOUS
      <4>1. r.off \in Offs OBVIOUS
      <4>2. r.end \in Limits(p) /\ s.end \in Limits(p) BY <3>4 DEF Limits
      <4>3. r.end = s.end BY <3>1, <4>2 DEF RangesInv, RaceOK
      <4> QED BY <3>3, <3>4, <4>1, <4>3
    <3>6. s \in Prefer(Queued)
      <4>1. \A r \in Queued : r.ptr = s.ptr =>
              ~(r.off > s.off) /\ ~(r.off = s.off /\ r.end < s.end)
        BY <1>2, <3>4, <3>5
      <4> QED BY <4>1 DEF Prefer
    <3>7. s.off <= x
      <4>1. t.off \in Positions(p) /\ s.off \in Positions(p) BY <3>4 DEF Positions
      <4>2. Stored(t.off, s.off) BY <3>1, <4>1 DEF RangesInv, RaceOK
      <4> QED BY <1>0, <1>1, <1>2, <4>2 DEF Stored
    <3>8. x < s.end BY <1>1, <3>5
    <3> QED BY <3>6, <3>7, <3>8
  <2> QED BY <2>1, <2>2
<1> DEFINE bytes == BytesOfAll(Prefer(Queued))
<1>4. x \in bytes /\ bytes \subseteq File BY <1>3 DEF BytesOfAll, BytesOf
<1>5. Queued = stash \cup ToSet(queue) BY DEF Queued
<1>6. Remaining = Runs(bytes) BY <1>5 DEF Remaining
<1> HIDE DEF bytes
<1> QED BY <1>4, <1>6, RunsCover

\* A run ends well.
LEMMA FinishKeeps ==
  ASSUME RangesInv, Finish
  PROVE  RangesInv'
<1>1. /\ AllGone /\ why = "run" /\ phase' = "done"
      /\ UNCHANGED <<disk, queue, closed, shared, wk, drains, bal, ctx, why, stash, saved>>
  BY DEF Finish
<1>2. disk = File BY <1>1 DEF AllGone, RangesInv, SomebodyStays
<1>3. RangesTypeOK' BY <1>1 DEF RangesInv, RangesTypeOK
<1>4. SomebodyStays' BY <1>1, <1>2 DEF RangesInv, SomebodyStays
<1>5. CoverOK' BY <1>1 DEF CoverOK
<1>6. CellsAllocated' BY <1>1 DEF RangesInv, CellsAllocated, Queued
<1>7. VictimOK' BY <1>1 DEF RangesInv, VictimOK
<1>8. OwnOK'
  BY <1>1 DEF RangesInv, OwnOK, Own, StopInTask, AtAgrees, PassedIsStored, EndedAtStop,
              Pushing, Shrinking, Stored
<1>9. RaceOK'
  <2>1. Queued' = Queued /\ \A j \in Workers : Holding(j)' <=> Holding(j)
    BY <1>1 DEF Queued, Holding
  <2>2. \A p \in 1 .. Len(shared) : Positions(p)' \subseteq Positions(p)
    BY <1>1, <2>1 DEF Positions
  <2>3. \A p \in 1 .. Len(shared) : Limits(p)' \subseteq Limits(p)
    BY <1>1, <2>1 DEF Limits
  <2> QED BY <1>1, <2>2, <2>3, RaceShrinks DEF RangesInv
<1> QED BY <1>3, <1>4, <1>5, <1>6, <1>7, <1>8, <1>9 DEF RangesInv

\* What is left is saved, or nothing is.
LEMMA SaveSnapshotKeeps ==
  ASSUME RangesInv, VerifiedMeansWhole, SaveSnapshot
  PROVE  RangesInv'
<1> DEFINE tasks == IF Remaining = {} THEN Unverified ELSE Remaining
<1>1. /\ AllGone /\ why # "run" /\ phase = "live"
      /\ UNCHANGED <<disk, queue, closed, shared, wk, drains, bal, ctx, why, stash>>
  BY DEF SaveSnapshot, Live
<1>2. \/ /\ Remaining = {} /\ phase' \in {"done", "failed"} /\ saved' = saved
      \/ /\ phase' = "saved" /\ saved'.tasks = tasks
  BY DEF SaveSnapshot
<1>3. Remaining = {} => disk = File
  <2>1. Remaining = {} => \A x \in File : x \in disk BY <1>1, RemainingCovers
  <2> QED BY <2>1 DEF RangesInv, RangesTypeOK
<1>4. \A t \in tasks : t \in Tasks /\ t.ptr = 0
  BY RunsAreTasks DEF Remaining, Unverified
<1>5. \A x \in File : x \in disk \/ \E t \in tasks : t.off <= x /\ x < t.end
  BY <1>1, <1>3, RemainingCovers
<1> HIDE DEF tasks
<1>6. RangesTypeOK' BY <1>1, <1>2, <1>4 DEF RangesInv, RangesTypeOK
<1>7. SomebodyStays' BY <1>1, <1>2, <1>3 DEF RangesInv, SomebodyStays
<1>8. CoverOK' BY <1>1, <1>2, <1>5 DEF CoverOK
<1>9. CellsAllocated' BY <1>1, <1>2, <1>4 DEF RangesInv, CellsAllocated, Queued
<1>10. VictimOK' BY <1>1 DEF RangesInv, VictimOK
<1>11. OwnOK'
  BY <1>1 DEF RangesInv, OwnOK, Own, StopInTask, AtAgrees, PassedIsStored, EndedAtStop,
              Pushing, Shrinking, Stored
<1>12. RaceOK'
  <2>1. Queued' = Queued /\ \A j \in Workers : Holding(j)' <=> Holding(j)
    BY <1>1 DEF Queued, Holding
  <2>2. \A p \in 1 .. Len(shared) : Positions(p)' \subseteq Positions(p)
    BY <1>1, <2>1 DEF Positions
  <2>3. \A p \in 1 .. Len(shared) : Limits(p)' \subseteq Limits(p)
    BY <1>1, <2>1 DEF Limits
  <2> QED BY <1>1, <2>2, <2>3, RaceShrinks DEF RangesInv
<1> QED BY <1>6, <1>7, <1>8, <1>9, <1>10, <1>11, <1>12 DEF RangesInv

-----------------------------------------------------------------------------
(* A run begins. *)

\* There are finitely many tasks without a race.
LEMMA PlainTasksFinite ==
  ASSUME NEW ts, \A t \in ts : t \in Tasks /\ t.ptr = 0
  PROVE  IsFiniteSet(ts)
<1> DEFINE Pairs == Offsets \X Offsets
           f == [p \in Pairs |-> Task(p[1], p[2], 0)]
           Plain == {f[p] : p \in Pairs}
<1>1. IsFiniteSet(Offsets)
  <2>1. 0 \in Int /\ Size \in Int BY RangesAssumption
  <2> QED BY <2>1, FS_Interval DEF Offsets
<1>2. IsFiniteSet(Pairs) BY <1>1, FS_Product
<1>3. f \in Surjection(Pairs, Plain)
  <2> HIDE DEF Pairs
  <2> QED BY DEF Surjection
<1>4. IsFiniteSet(Plain)
  <2> HIDE DEF Pairs, f, Plain
  <2> QED BY <1>2, <1>3, FS_Surjection
<1>5. ts \subseteq Plain
  <2> SUFFICES ASSUME NEW t \in ts PROVE t \in Plain
    OBVIOUS
  <2>1. t \in Tasks /\ t.ptr = 0 OBVIOUS
  <2>2. t.off \in Offsets /\ t.end \in Offsets BY <2>1 DEF Tasks
  <2>3. t = [off |-> t.off, end |-> t.end, ptr |-> 0] BY <2>1 DEF Tasks
  <2>4. <<t.off, t.end>> \in Pairs /\ f[<<t.off, t.end>>] = t BY <2>2, <2>3 DEF Task
  <2> HIDE DEF f, Pairs
  <2> QED BY <2>4
<1> HIDE DEF Plain
<1> QED BY <1>4, <1>5, FS_Subset

\* A queue in order is a queue of its tasks.
LEMMA InOrderIs ==
  ASSUME NEW ts, \A t \in ts : t \in Tasks /\ t.ptr = 0, NEW q \in InOrder(ts)
  PROVE  q \in Seq(Tasks) /\ ToSet(q) = ts
<1>1. Cardinality(ts) \in Nat BY PlainTasksFinite, FS_CardinalityType
<1>2. q \in [1 .. Cardinality(ts) -> ts] /\ ToSet(q) = ts BY DEF InOrder
<1>3. q \in [1 .. Cardinality(ts) -> Tasks] BY <1>2
<1> QED BY <1>1, <1>2, <1>3

\* The state in which a run begins.
Fresh ==
  /\ disk \in SUBSET File
  /\ queue \in Seq(Tasks) /\ \A t \in ToSet(queue) : t.ptr = 0
  /\ closed = FALSE
  /\ shared = <<>>
  /\ wk = [i \in Workers |-> Parked]
  /\ drains = {}
  /\ bal = Resting
  /\ ctx = FALSE
  /\ why = "run"
  /\ stash = {}
  /\ phase = "live"
  /\ saved.tasks \in SUBSET Tasks /\ \A t \in saved.tasks : t.ptr = 0
  /\ \A x \in File : x \in disk \/ \E t \in ToSet(queue) : t.off <= x /\ x < t.end

\* It satisfies the invariant.
LEMMA FreshInv == Fresh => RangesInv
<1> SUFFICES ASSUME Fresh PROVE RangesInv
  OBVIOUS
<1>1. Parked \in Entries /\ Parked.pc = "top" /\ Parked.ptr = 0 /\ Parked.cur = 0 /\ Parked.stop = 0
      /\ Parked.end = 0 /\ Parked.res = "none"
  BY RangesAssumption DEF Parked, Entries, Pcs, Offsets
<1>2. \A i \in Workers : wk[i] = Parked BY DEF Fresh
<1>3. Resting \in Balancer /\ Resting.pc = "off" BY DEF Resting, Balancer
<1>4. RangesTypeOK
  <2>1. wk \in [Workers -> Entries] BY <1>1 DEF Fresh
  <2>2. shared \in Seq(Offsets) BY DEF Fresh
  <2> QED BY <1>3, <2>1, <2>2 DEF Fresh, RangesTypeOK
<1>5. Len(shared) = 0 BY DEF Fresh
<1>6. Queued = ToSet(queue) BY DEF Fresh, Queued
<1>7. CellsAllocated BY <1>1, <1>2, <1>5, <1>6 DEF Fresh, CellsAllocated
<1>8. \A i \in Workers : ~Pushing(i) /\ ~Shrinking(i) BY <1>3 DEF Fresh, Pushing, Shrinking
<1>9. VictimOK BY <1>3 DEF Fresh, VictimOK
<1>10. OwnOK
  <2> SUFFICES ASSUME NEW i \in Workers PROVE Own(i)
    BY DEF OwnOK
  <2>1. StopInTask(i) BY <1>1, <1>2, <1>8 DEF StopInTask
  <2>2. AtAgrees(i) BY <1>1, <1>2 DEF AtAgrees
  <2>3. PassedIsStored(i) BY <1>1, <1>2, <1>8 DEF PassedIsStored, Stored
  <2>4. EndedAtStop(i) BY <1>1, <1>2 DEF EndedAtStop
  <2> QED BY <2>1, <2>2, <2>3, <2>4 DEF Own
<1>11. RaceOK BY <1>5 DEF RaceOK
<1>12. CoverOK BY <1>6 DEF Fresh, CoverOK, Covered
<1>13. SomebodyStays
  <2>1. \E j \in Workers : wk[j].pc # "gone" /\ j \notin drains
    BY <1>1, <1>2, RangesAssumption DEF Fresh
  <2> QED BY <1>1, <1>2, <2>1 DEF Fresh, SomebodyStays
<1> QED BY <1>4, <1>7, <1>9, <1>10, <1>11, <1>12, <1>13 DEF RangesInv

\* A later run goes on from the record.
LEMMA ResumeKeeps ==
  ASSUME RangesInv, Resume
  PROVE  RangesInv'
<1>1. /\ phase = "saved" /\ queue' \in InOrder(saved.tasks) /\ closed' = FALSE
      /\ shared' = <<>> /\ wk' = [i \in Workers |-> Parked] /\ drains' = {}
      /\ bal' = Resting /\ ctx' = FALSE /\ why' = "run" /\ stash' = {} /\ phase' = "live"
      /\ UNCHANGED <<disk, saved>>
  BY DEF Resume, NewRun
<1>2. \A t \in saved.tasks : t \in Tasks /\ t.ptr = 0
  BY DEF RangesInv, RangesTypeOK, CellsAllocated
<1>3. queue' \in Seq(Tasks) /\ ToSet(queue') = saved.tasks
  <2>1. ASSUME NEW ts, \A t \in ts : t \in Tasks /\ t.ptr = 0, NEW q \in InOrder(ts)
        PROVE  q \in Seq(Tasks) /\ ToSet(q) = ts
    BY <2>1, InOrderIs
  <2> QED BY <1>1, <1>2, <2>1
<1>4. \A x \in File : x \in disk \/ \E t \in saved.tasks : t.off <= x /\ x < t.end
  BY <1>1 DEF RangesInv, CoverOK
<1>5. Fresh' BY <1>1, <1>2, <1>3, <1>4 DEF Fresh, RangesInv, RangesTypeOK
<1> QED BY <1>5, FreshInv, PTL

-----------------------------------------------------------------------------
(* The first run. *)

\* Each number lies between two multiples.
LEMMA Multiples ==
  ASSUME NEW s \in Nat \ {0}, NEW x \in Nat
  PROVE  /\ x \div s \in Nat /\ (x \div s) * s <= x /\ x < (x \div s + 1) * s
OBVIOUS

\* Multiples are in order.
LEMMA MultiplesInOrder ==
  ASSUME NEW s \in Nat, NEW j \in Nat, NEW k \in Nat, j <= k
  PROVE  j * s \in Nat /\ k * s \in Nat /\ j * s <= k * s
<1>1. k - j \in Nat /\ (k - j) * s \in Nat /\ j * s \in Nat /\ k * s \in Nat OBVIOUS
<1>2. k * s = j * s + (k - j) * s OBVIOUS
<1> QED BY <1>1, <1>2

\* The ranges of createInitialTasks lie in the file and leave nothing out.
LEMMA InitialTasksCover ==
  /\ \A t \in InitialTasks : t \in Tasks /\ t.ptr = 0
  /\ \A x \in File : \E t \in InitialTasks : t.off <= x /\ x < t.end
<1> DEFINE conns == Cardinality(Workers)
           share == Greater(1, Size \div conns)
           Start0 == {j \in 0 .. conns - 1 : j * share < Size}
           Stop0(k) == IF k = conns - 1 THEN Size ELSE (k + 1) * share
<1>1. InitialTasks = {Task(k * share, Stop0(k), 0) : k \in Start0} BY DEF InitialTasks
<1>2. conns \in Nat \ {0}
  <2>1. IsFiniteSet(Workers) /\ Workers # {} BY RangesAssumption
  <2>2. Cardinality(Workers) \in Nat /\ (Cardinality(Workers) = 0 <=> Workers = {})
    BY <2>1, FS_CardinalityType, FS_EmptySet
  <2> QED BY <2>1, <2>2
<1>3. Size \in Nat \ {0} BY RangesAssumption
<1> HIDE DEF conns
<1>4. /\ Size \div conns \in Nat /\ (Size \div conns) * conns <= Size
  BY <1>2, <1>3, Multiples
<1>5. share \in Nat \ {0} /\ (share = 1 \/ share = Size \div conns) BY <1>4 DEF Greater
<1> HIDE DEF share
<1>6. ASSUME NEW k \in Start0
      PROVE  /\ k \in Nat /\ k * share \in Nat /\ k * share < Size
             /\ Stop0(k) \in Nat /\ k * share <= Stop0(k) /\ Stop0(k) <= Size
  <2>1. k \in Nat /\ k <= conns - 1 /\ k * share < Size BY <1>2
  <2>2. k * share \in Nat BY <1>5, <2>1
  <2>3. CASE k = conns - 1 BY <1>3, <2>1, <2>2, <2>3
  <2>4. CASE k # conns - 1
    <3>1. k + 1 \in Nat /\ k + 1 <= conns - 1 BY <1>2, <2>1, <2>4
    <3>2. /\ (k + 1) * share \in Nat /\ k * share <= (k + 1) * share
      <4>1. k <= k + 1 BY <2>1
      <4> QED BY <1>5, <2>1, <3>1, <4>1, MultiplesInOrder
    <3>3. (k + 1) * share <= Size
      <4>1. CASE share = 1
        <5>1. k * share = k /\ (k + 1) * share = k + 1 BY <2>1, <4>1
        <5> QED BY <1>3, <2>1, <5>1
      <4>2. CASE share = Size \div conns
        <5>1. k + 1 <= conns /\ conns \in Nat BY <1>2, <3>1
        <5>2. (k + 1) * share <= conns * share BY <1>5, <3>1, <5>1, MultiplesInOrder
        <5>3. conns * share = share * conns BY <1>2, <1>5
        <5>4. share * conns <= Size BY <1>4, <4>2
        <5>5. conns * share \in Nat BY <1>2, <1>5
        <5> QED BY <1>3, <3>2, <5>2, <5>3, <5>4, <5>5
      <4> QED BY <1>5, <4>1, <4>2
    <3> QED BY <2>1, <2>2, <2>4, <3>2, <3>3
  <2> QED BY <2>3, <2>4
<1>7. ASSUME NEW t \in InitialTasks PROVE t \in Tasks /\ t.ptr = 0
  <2>1. PICK k \in Start0 : t = Task(k * share, Stop0(k), 0) BY <1>1
  <2>2. /\ k * share \in Nat /\ k * share < Size
        /\ Stop0(k) \in Nat /\ k * share <= Stop0(k) /\ Stop0(k) <= Size
    BY <1>6
  <2> DEFINE a == k * share
             b == Stop0(k)
  <2> HIDE DEF a, b, Stop0
  <2>3. t = [off |-> a, end |-> b, ptr |-> 0] BY <2>1 DEF Task, a, b
  <2>4. a \in Offsets /\ b \in Offsets /\ a <= b BY <1>3, <2>2 DEF Offsets, a, b
  <2> QED BY <2>3, <2>4 DEF Tasks
<1>8. ASSUME NEW x \in File PROVE \E t \in InitialTasks : t.off <= x /\ x < t.end
  <2>1. x \in Nat /\ x < Size BY <1>3 DEF File
  <2> DEFINE q == x \div share
  <2>2. q \in Nat /\ q * share <= x /\ x < (q + 1) * share BY <1>5, <2>1, Multiples
  <2> HIDE DEF q
  <2>3. \E k \in Start0 : k * share <= x /\ x < Stop0(k)
    <3>1. CASE q < conns - 1
      <4>1. q \in 0 .. conns - 1 /\ q # conns - 1 BY <1>2, <2>2, <3>1
      <4>2. q * share \in Nat BY <1>5, <2>2
      <4>3. q \in Start0 BY <1>3, <2>1, <2>2, <4>1, <4>2
      <4>4. x < Stop0(q) BY <2>2, <4>1
      <4> QED BY <2>2, <4>3, <4>4
    <3>2. CASE ~(q < conns - 1)
      <4> DEFINE l == conns - 1
      <4>1. l \in Nat /\ l <= q /\ l \in 0 .. conns - 1 BY <1>2, <2>2, <3>2
      <4>2. l * share \in Nat /\ q * share \in Nat /\ l * share <= q * share
        BY <1>5, <2>2, <4>1, MultiplesInOrder
      <4>3. l * share <= x /\ l * share < Size BY <1>3, <2>1, <2>2, <4>2
      <4>4. l \in Start0 BY <4>1, <4>3
      <4>5. Stop0(l) = Size OBVIOUS
      <4> QED BY <2>1, <4>3, <4>4, <4>5
    <3> QED BY <3>1, <3>2
  <2>4. PICK k \in Start0 : k * share <= x /\ x < Stop0(k) BY <2>3
  <2>5. Task(k * share, Stop0(k), 0) \in InitialTasks BY <1>1
  <2>6. /\ Task(k * share, Stop0(k), 0).off = k * share
        /\ Task(k * share, Stop0(k), 0).end = Stop0(k)
    BY DEF Task
  <2> QED BY <2>4, <2>5, <2>6
<1> QED BY <1>7, <1>8

\* A download begins well.
LEMMA RangesInit == Init => RangesInv
<1> SUFFICES ASSUME Init PROVE RangesInv
  OBVIOUS
<1>1. queue \in InOrder(InitialTasks) BY DEF Init
<1>2. queue \in Seq(Tasks) /\ ToSet(queue) = InitialTasks
  <2>1. ASSUME NEW ts, \A t \in ts : t \in Tasks /\ t.ptr = 0, NEW q \in InOrder(ts)
        PROVE  q \in Seq(Tasks) /\ ToSet(q) = ts
    BY <2>1, InOrderIs
  <2> QED BY <1>1, <2>1, InitialTasksCover
<1>3. /\ \A t \in ToSet(queue) : t.ptr = 0
      /\ \A x \in File : x \in disk \/ \E t \in ToSet(queue) : t.off <= x /\ x < t.end
  BY <1>2, InitialTasksCover
<1>4. Fresh BY <1>2, <1>3 DEF Init, Fresh
<1> QED BY <1>4, FreshInv

-----------------------------------------------------------------------------
(* The invariant is inductive, and says what it should. *)

\* No step breaks it.
LEMMA RangesStep ==
  RangesInv /\ VerifiedMeansWhole /\ LeaveOne /\ [Next]_vars => RangesInv'
<1> SUFFICES ASSUME RangesInv, VerifiedMeansWhole, LeaveOne, [Next]_vars PROVE RangesInv'
  OBVIOUS
<1>1. ASSUME NEW i \in Workers, WorkerStep(i) PROVE RangesInv'
  <2>1. CASE Top(i) BY <2>1, TopKeeps
  <2>2. CASE Pop(i) BY <2>2, PopWholeKeeps, PopTakesKeeps
  <2>3. CASE PopClosed(i) BY <2>3, PopClosedKeeps
  <2>4. CASE Start(i) BY <2>4, StartKeeps
  <2>5. CASE Read(i) BY <2>5, ReadKeeps
  <2>6. CASE ReadCancelled(i) BY <2>6, ReadEndsKeeps
  <2>7. CASE ReadFails(i) BY <2>7, ReadEndsKeeps
  <2>8. CASE Write(i) BY <2>8, WriteKeeps
  <2>9. CASE WriteFull(i) BY <2>9, WriteFullKeeps
  <2>10. CASE Count(i) BY <2>10, CountKeeps
  <2>11. CASE Clamp(i) BY <2>11, ClampKeeps
  <2>12. CASE Publish(i) BY <2>12, PublishKeeps
  <2>13. CASE Succeeded(i) BY <2>13, SucceededKeeps
  <2>14. CASE Release(i) BY <2>14, ReleaseKeeps
  <2>15. CASE DiskFull(i) BY <2>15, DiskFullKeeps
  <2>16. CASE HealthCancelled(i) BY <2>16, HealthCancelledKeeps
  <2>17. CASE Retry(i) BY <2>17, RetryKeeps
  <2>18. CASE Exhausted(i) BY <2>18, ExhaustedKeeps
  <2>19. CASE PushResidual(i) BY <2>19, PushResidualKeeps
  <2>20. CASE Unmap(i) BY <2>20, UnmapKeeps
  <2> QED BY <1>1, <2>1, <2>2, <2>3, <2>4, <2>5, <2>6, <2>7, <2>8, <2>9, <2>10, <2>11,
             <2>12, <2>13, <2>14, <2>15, <2>16, <2>17, <2>18, <2>19, <2>20
          DEF WorkerStep
<1>2. ASSUME NEW i \in Workers, Kill(i) PROVE RangesInv' BY <1>2, KillKeeps
<1>3. ASSUME NEW i \in Workers, DrainWorker(i) PROVE RangesInv' BY <1>3, DrainWorkerKeeps
<1>4. CASE Balance
  <2>1. CASE Tick BY <2>1, TickKeeps
  <2>2. CASE StealScan BY <2>2, StealScanKeeps
  <2>3. CASE StealShrink BY <2>3, StealShrinkKeeps
  <2>4. CASE StealPush BY <2>4, StealPushKeeps
  <2>5. CASE HedgeWork \/ HedgeAll BY <2>5, HedgesKeep
  <2>6. CASE TickEnds \/ SweepEnds BY <2>6, EndsKeeps
  <2> QED BY <1>4, <2>1, <2>2, <2>3, <2>4, <2>5, <2>6 DEF Balance
<1>5. CASE MonitorComplete BY <1>5, MonitorCompleteKeeps
<1>6. CASE MonitorCancelled BY <1>6, MonitorCancelledKeeps
<1>7. CASE Pause BY <1>7, PauseKeeps
<1>8. CASE Finish BY <1>8, FinishKeeps
<1>9. CASE SaveSnapshot BY <1>9, SaveSnapshotKeeps
<1>10. CASE Resume BY <1>10, ResumeKeeps
<1>11. CASE UNCHANGED vars
  <2>1. /\ \A j \in Workers : Same(j)
        /\ UNCHANGED <<disk, queue, closed, shared, wk, drains, bal, ctx, why, stash, phase, saved>>
    BY <1>11 DEF vars, Same
  <2>2. bal' \in Balancer /\ Looks BY <2>1 DEF Looks, RangesInv, RangesTypeOK
  <2> QED BY <2>1, <2>2, LooksKeeps
<1> QED BY <1>1, <1>2, <1>3, <1>4, <1>5, <1>6, <1>7, <1>8, <1>9, <1>10, <1>11 DEF Next

\* A byte that somebody answers for is some task's.
LEMMA CoveredInFlight ==
  ASSUME RangesInv, NEW x \in File, Covered(x)
  PROVE  x \in InFlight
<1>0. x \in Nat BY RangesAssumption DEF File
<1>1. CASE \E t \in Queued : t.off <= x /\ x < t.end
  <2>1. PICK t \in Queued : t.off <= x /\ x < t.end BY <1>1
  <2>2. t \in ToSet(queue) \cup stash BY <2>1 DEF Queued
  <2>3. x \in BytesOf(t) BY <1>0, <2>1 DEF BytesOf
  <2>4. x \in BytesOfAll(ToSet(queue) \cup stash) BY <2>2, <2>3 DEF BytesOfAll
  <2> QED BY ONLY <2>4, Zenon DEF InFlight
<1>2. CASE \E i \in Workers : Answers(i, x)
  <2>1. PICK i \in Workers : Answers(i, x) BY <1>2
  <2>2. Holding(i) /\ wk[i].cur <= x /\ x < Limit(i) BY <2>1 DEF Answers
  <2>3. wk[i].stop \in Nat /\ wk[i].end \in Nat /\ bal.end \in Nat
    BY WorkerTypes, BalancerTypes DEF RangesInv
  <2>4. StopInTask(i) BY DEF RangesInv, OwnOK, Own
  <2>5. x < Lesser(wk[i].stop, wk[i].end)
    <3>1. CASE Pushing(i)
      <4>1. x < Lesser(wk[i].stop, bal.end) /\ bal.end <= wk[i].end
        BY <2>2, <2>4, <3>1 DEF Limit, StopInTask
      <4> QED BY <1>0, <2>3, <4>1 DEF Lesser
    <3>2. CASE ~Pushing(i)
      <4>1. x < wk[i].stop /\ wk[i].stop <= wk[i].end
        BY <2>2, <2>4, <3>2 DEF Limit, StopInTask
      <4> QED BY <1>0, <2>3, <4>1 DEF Lesser
    <3> QED BY <3>1, <3>2
  <2>6. x \in Held(i) BY <2>2, <2>5 DEF Held, BytesOf, Task
  <2> QED BY <2>6 DEF InFlight
<1>3. CASE Moving(x)
  <2>1. PICK i \in Workers : Pushing(i) /\ wk[i].stop <= x /\ x < bal.end
    BY <1>3 DEF Moving
  <2>2. x \in BytesOf(Task(wk[i].stop, bal.end, 0)) BY <2>1 DEF BytesOf, Task
  <2>3. x \in InTransit BY <2>1, <2>2 DEF InTransit, Pushing
  <2> QED BY <2>3 DEF InFlight
<1> QED BY <1>1, <1>2, <1>3 DEF Covered

\* The invariant says that no byte is lost.
LEMMA InvLosesNothing == RangesInv => NoByteLost
<1> SUFFICES ASSUME RangesInv PROVE NoByteLost
  OBVIOUS
<1>1. Live => File \ disk \subseteq InFlight
  BY CoveredInFlight DEF Live, RangesInv, CoverOK
<1>2. phase = "saved" => File \ disk \subseteq BytesOfAll(saved.tasks)
  BY DEF RangesInv, CoverOK, BytesOfAll, BytesOf
<1> QED BY <1>1, <1>2 DEF NoByteLost
-----------------------------------------------------------------------------
(* Sums. *)

\* The element a fold takes from a set first, and the equation of a sum on a
\* family of sets that is closed under taking it.
First(s) == CHOOSE x \in s : TRUE
Adds(f, fun, SS) ==
  f = [s \in SS |-> IF s = {} THEN 0 ELSE fun[First(s)] + f[s \ {First(s)}]]
UpTo(n, S) == {s \in SUBSET S : IsFiniteSet(s) /\ Cardinality(s) <= n}

\* What is left after the first element is smaller by one.
LEMMA FirstLeaves ==
  ASSUME NEW S, NEW s \in SUBSET S, IsFiniteSet(s), s # {}
  PROVE  /\ First(s) \in s /\ s \ {First(s)} \in SUBSET S
         /\ IsFiniteSet(s \ {First(s)})
         /\ Cardinality(s) \in Nat \ {0}
         /\ Cardinality(s \ {First(s)}) = Cardinality(s) - 1
<1>1. First(s) \in s BY DEF First
<1>2. /\ IsFiniteSet(s \ {First(s)})
      /\ Cardinality(s \ {First(s)}) = Cardinality(s) - 1
  BY <1>1, FS_RemoveElement
<1>3. Cardinality(s) \in Nat /\ Cardinality(s) # 0 BY FS_CardinalityType, FS_EmptySet
<1> QED BY <1>1, <1>2, <1>3

\* Sums exist on the sets of at most n elements, for every n.
LEMMA SumsUpTo ==
  ASSUME NEW S, NEW fun
  PROVE  \A n \in Nat : \E f : Adds(f, fun, UpTo(n, S))
<1> DEFINE bad == {n \in Nat : ~ \E f : Adds(f, fun, UpTo(n, S))}
<1> SUFFICES ASSUME bad # {} PROVE FALSE
  OBVIOUS
<1>1. PICK n \in bad : \A m \in bad : n <= m
  <2>1. bad \subseteq Nat OBVIOUS
  <2> HIDE DEF bad
  <2> QED BY <2>1, LeastOf
<1>2. n \in Nat /\ ~ \E f : Adds(f, fun, UpTo(n, S)) BY <1>1
<1>3. n # 0
  <2> SUFFICES ASSUME n = 0 PROVE FALSE
    OBVIOUS
  <2> DEFINE f == [s \in UpTo(0, S) |-> 0]
  <2>1. \A s \in UpTo(0, S) : s = {}
    <3> SUFFICES ASSUME NEW s \in UpTo(0, S) PROVE s = {}
      OBVIOUS
    <3>1. IsFiniteSet(s) /\ Cardinality(s) <= 0 BY DEF UpTo
    <3>2. Cardinality(s) \in Nat BY <3>1, FS_CardinalityType
    <3>3. Cardinality(s) = 0 BY <3>1, <3>2
    <3> QED BY <3>1, <3>3, FS_EmptySet
  <2>2. f = [s \in UpTo(0, S) |-> IF s = {} THEN 0 ELSE fun[First(s)] + f[s \ {First(s)}]]
    BY <2>1
  <2>3. Adds(f, fun, UpTo(0, S)) BY <2>2 DEF Adds
  <2> QED BY <1>2, <2>3
<1>4. n - 1 \in Nat /\ n - 1 \notin bad
  <2>1. n - 1 \in Nat /\ ~(n <= n - 1) BY <1>2, <1>3
  <2> HIDE DEF bad
  <2> QED BY <1>1, <2>1
<1>5. PICK f : Adds(f, fun, UpTo(n - 1, S)) BY <1>4
<1> DEFINE g == [s \in UpTo(n, S) |->
                   IF s = {} THEN 0 ELSE fun[First(s)] + f[s \ {First(s)}]]
<1>6. ASSUME NEW s \in UpTo(n, S), s # {}
      PROVE  /\ s \ {First(s)} \in UpTo(n - 1, S)
             /\ s \ {First(s)} \in UpTo(n, S)
  <2>1. s \in SUBSET S /\ IsFiniteSet(s) /\ Cardinality(s) <= n BY DEF UpTo
  <2>2. /\ s \ {First(s)} \in SUBSET S /\ IsFiniteSet(s \ {First(s)})
        /\ Cardinality(s) \in Nat \ {0}
        /\ Cardinality(s \ {First(s)}) = Cardinality(s) - 1
    BY <1>6, <2>1, FirstLeaves
  <2>3. /\ Cardinality(s \ {First(s)}) <= n - 1
        /\ Cardinality(s \ {First(s)}) <= n
    BY <1>2, <2>1, <2>2
  <2> QED BY <2>2, <2>3 DEF UpTo
<1>7. ASSUME NEW s \in UpTo(n - 1, S) PROVE s \in UpTo(n, S) /\ g[s] = f[s]
  <2>1. s \in UpTo(n, S)
    <3>1. /\ s \in SUBSET S /\ IsFiniteSet(s) /\ Cardinality(s) <= n - 1 BY DEF UpTo
    <3>2. Cardinality(s) \in Nat BY <3>1, FS_CardinalityType
    <3>3. Cardinality(s) <= n BY <1>2, <3>1, <3>2
    <3> QED BY <3>1, <3>3 DEF UpTo
  <2>2. f[s] = IF s = {} THEN 0 ELSE fun[First(s)] + f[s \ {First(s)}]
    BY <1>5 DEF Adds
  <2> QED BY <2>1, <2>2
<1>8. ASSUME NEW s \in UpTo(n, S)
      PROVE  g[s] = IF s = {} THEN 0 ELSE fun[First(s)] + g[s \ {First(s)}]
  <2>1. CASE s = {} BY <2>1
  <2>2. CASE s # {}
    <3>1. g[s \ {First(s)}] = f[s \ {First(s)}] BY <1>6, <1>7, <2>2
    <3>2. g[s] = fun[First(s)] + f[s \ {First(s)}] BY <2>2
    <3> HIDE DEF g
    <3> QED BY <2>2, <3>1, <3>2
  <2> HIDE DEF g
  <2> QED BY <2>1, <2>2
<1>9. g = [s \in UpTo(n, S) |-> g[s]] OBVIOUS
<1> HIDE DEF g
<1>10. g = [s \in UpTo(n, S) |->
             IF s = {} THEN 0 ELSE fun[First(s)] + g[s \ {First(s)}]]
  BY <1>8, <1>9
<1>11. Adds(g, fun, UpTo(n, S)) BY <1>10 DEF Adds
<1> QED BY <1>2, <1>11

\* SumFunction of a function with a finite domain is the value of such a sum.
LEMMA SumAdds ==
  ASSUME NEW fun, IsFiniteSet(DOMAIN fun)
  PROVE  \E f : Adds(f, fun, SUBSET DOMAIN fun) /\ SumFunction(fun) = f[DOMAIN fun]
<1> DEFINE D == DOMAIN fun
<1>1. SumFunction(fun) =
        (CHOOSE g : g = [s \in SUBSET D |->
           IF s = {} THEN 0
           ELSE fun[CHOOSE x \in s : TRUE] + g[s \ {CHOOSE x \in s : TRUE}]])[D]
  BY DEF SumFunction, SumFunctionOnSet, FoldFunctionOnSet, MapThenFoldSet
<1>2. SumFunction(fun) = (CHOOSE g : Adds(g, fun, SUBSET D))[D]
  BY <1>1 DEF Adds, First
<1>3. \E g : Adds(g, fun, SUBSET D)
  <2>1. Cardinality(D) \in Nat BY FS_CardinalityType
  <2>2. UpTo(Cardinality(D), D) = SUBSET D BY FS_Subset DEF UpTo
  <2>3. \E g : Adds(g, fun, UpTo(Cardinality(D), D)) BY <2>1, SumsUpTo
  <2> QED BY <2>2, <2>3
<1>4. Adds(CHOOSE g : Adds(g, fun, SUBSET D), fun, SUBSET D) BY <1>3
<1> QED BY <1>2, <1>4

\* Sets of bytes are finite.
LEMMA BytesAreFinite ==
  ASSUME NEW S, S \subseteq File
  PROVE  IsFiniteSet(S) /\ Cardinality(S) \in Nat
<1>1. IsFiniteSet(File)
  <2>1. 0 \in Int /\ Size - 1 \in Int BY RangesAssumption
  <2> QED BY <2>1, FS_Interval DEF File
<1> QED BY <1>1, FS_Subset, FS_CardinalityType

\* The bytes of a set that lie in some chunks.
BytesIn(bytes, S) == {b \in bytes : b \div ChunkSize \in S}

\* Each byte lies in a chunk.
LEMMA ChunksCover == \A b \in File : b \div ChunkSize \in Chunks
<1> SUFFICES ASSUME NEW b \in File PROVE b \div ChunkSize \in Chunks
  OBVIOUS
<1>1. Size \in Nat \ {0} /\ ChunkSize \in Nat \ {0} BY RangesAssumption
<1>2. b \in Nat /\ b <= Size - 1 BY <1>1 DEF File
<1> DEFINE q == b \div ChunkSize
           n == (Size - 1) \div ChunkSize
<1>3. q \in Nat /\ n \in Nat BY <1>1, <1>2
<1>4. q * ChunkSize <= b /\ Size - 1 < (n + 1) * ChunkSize
  <2>1. Size - 1 \in Nat BY <1>1
  <2> QED BY <1>1, <1>2, <2>1, Multiples
<1> HIDE DEF q, n
<1>5. q <= n
  <2> SUFFICES ASSUME ~(q <= n) PROVE FALSE
    OBVIOUS
  <2>1. n + 1 \in Nat /\ n + 1 <= q BY <1>3
  <2>2. /\ (n + 1) * ChunkSize \in Nat /\ q * ChunkSize \in Nat
        /\ (n + 1) * ChunkSize <= q * ChunkSize
    BY <1>1, <1>3, <2>1, MultiplesInOrder
  <2> QED BY <1>1, <1>2, <1>4, <2>2
<1> QED BY <1>3, <1>5 DEF Chunks, q, n

\* The file is as large as it says, and what misses a byte of it is smaller.
LEMMA FileSize ==
  /\ IsFiniteSet(File) /\ Cardinality(File) = Size
  /\ \A S \in SUBSET File : /\ Cardinality(S) \in Nat /\ Cardinality(S) <= Size
                            /\ Cardinality(S) = Size => S = File
<1>1. Size \in Nat \ {0} BY RangesAssumption
<1>2. IsFiniteSet(File) /\ Cardinality(File) = Size
  BY <1>1, FS_Interval DEF File
<1>3. ASSUME NEW S \in SUBSET File
      PROVE  /\ Cardinality(S) \in Nat /\ Cardinality(S) <= Size
             /\ Cardinality(S) = Size => S = File
  BY <1>2, FS_Subset, FS_CardinalityType
<1> QED BY <1>2, <1>3

\* VerifiedProgress against a set of bytes: it is at most as large when each
\* chunk counts at most what the set has in it, and at least as large when each
\* chunk counts at least that.
LEMMA SumOfChunks ==
  ASSUME prog \in [Chunks -> Nat], NEW bytes, bytes \subseteq File
  PROVE  /\ VP \in Nat /\ Cardinality(bytes) \in Nat
         /\ (\A c \in Chunks : prog[c] <= Cardinality(ChunkBytes(c) \cap bytes))
              => VP <= Cardinality(bytes)
         /\ (\A c \in Chunks : Cardinality(ChunkBytes(c) \cap bytes) <= prog[c])
              => Cardinality(bytes) <= VP
<1> DEFINE Under == \A c \in Chunks : prog[c] <= Cardinality(ChunkBytes(c) \cap bytes)
           Over == \A c \in Chunks : Cardinality(ChunkBytes(c) \cap bytes) <= prog[c]
<1>1. Size \in Nat \ {0} /\ ChunkSize \in Nat \ {0} BY RangesAssumption
<1>2. IsFiniteSet(bytes) /\ Cardinality(bytes) \in Nat BY BytesAreFinite
<1>3. IsFiniteSet(Chunks) /\ DOMAIN prog = Chunks
  <2>1. (Size - 1) \div ChunkSize \in Int BY <1>1
  <2> QED BY <2>1, FS_Interval DEF Chunks
<1>4. PICK f : Adds(f, prog, SUBSET Chunks) /\ VP = f[Chunks]
  BY <1>3, SumAdds DEF VP
<1>5. \A s \in SUBSET Chunks : IsFiniteSet(s) /\ IsFiniteSet(BytesIn(bytes, s))
                               /\ Cardinality(BytesIn(bytes, s)) \in Nat
  <2> SUFFICES ASSUME NEW s \in SUBSET Chunks
               PROVE  /\ IsFiniteSet(s) /\ IsFiniteSet(BytesIn(bytes, s))
                      /\ Cardinality(BytesIn(bytes, s)) \in Nat
    OBVIOUS
  <2>1. BytesIn(bytes, s) \in SUBSET bytes BY DEF BytesIn
  <2> QED BY <1>2, <1>3, <2>1, FS_Subset, FS_CardinalityType
<1> DEFINE Bounded(s) == /\ f[s] \in Nat
                         /\ Under => f[s] <= Cardinality(BytesIn(bytes, s))
                         /\ Over => Cardinality(BytesIn(bytes, s)) <= f[s]
<1>6. ASSUME NEW s \in SUBSET Chunks, s # {}, Bounded(s \ {First(s)})
      PROVE  Bounded(s)
  <2> DEFINE x == First(s)
             r == s \ {x}
  <2>1. x \in s /\ x \in Chunks BY <1>6 DEF First
  <2>2. r \in SUBSET Chunks OBVIOUS
  <2>3. f[s] = prog[x] + f[r] BY <1>4, <1>6 DEF Adds
  <2>4. prog[x] \in Nat BY <2>1
  <2> HIDE DEF x
  <2>5. /\ Under => prog[x] <= Cardinality(ChunkBytes(x) \cap bytes)
        /\ Over => Cardinality(ChunkBytes(x) \cap bytes) <= prog[x]
    BY <2>1
  <2> HIDE DEF Under, Over
  <2>6. BytesIn(bytes, s) = BytesIn(bytes, r) \cup (ChunkBytes(x) \cap bytes)
    BY <2>1 DEF BytesIn, ChunkBytes
  <2>7. BytesIn(bytes, r) \cap (ChunkBytes(x) \cap bytes) = {} BY DEF BytesIn, ChunkBytes
  <2>8. IsFiniteSet(ChunkBytes(x) \cap bytes)
        /\ Cardinality(ChunkBytes(x) \cap bytes) \in Nat
    BY <1>2, FS_Intersection, FS_CardinalityType
  <2>9. IsFiniteSet(BytesIn(bytes, r)) /\ Cardinality(BytesIn(bytes, r)) \in Nat
    BY <1>5, <2>2
  <2>10. Cardinality(BytesIn(bytes, s))
           = Cardinality(BytesIn(bytes, r)) + Cardinality(ChunkBytes(x) \cap bytes)
    <3>1. Cardinality(BytesIn(bytes, r) \cap (ChunkBytes(x) \cap bytes)) = 0
      BY <2>7, FS_EmptySet
    <3>2. Cardinality(BytesIn(bytes, r) \cup (ChunkBytes(x) \cap bytes))
            = Cardinality(BytesIn(bytes, r)) + Cardinality(ChunkBytes(x) \cap bytes)
              - Cardinality(BytesIn(bytes, r) \cap (ChunkBytes(x) \cap bytes))
      BY <2>8, <2>9, FS_Union
    <3> QED BY <2>6, <2>8, <2>9, <3>1, <3>2
  <2>11. /\ f[r] \in Nat
         /\ Under => f[r] <= Cardinality(BytesIn(bytes, r))
         /\ Over => Cardinality(BytesIn(bytes, r)) <= f[r]
    BY <1>6 DEF x
  <2> QED BY <2>3, <2>4, <2>5, <2>8, <2>9, <2>10, <2>11
<1>7. Bounded({})
  <2>1. f[{}] = 0 BY <1>4 DEF Adds
  <2>2. BytesIn(bytes, {}) = {} BY DEF BytesIn
  <2>3. Cardinality(BytesIn(bytes, {})) = 0 BY <2>2, FS_EmptySet
  <2> QED BY <2>1, <2>3
<1> HIDE DEF Bounded
<1>8. \A s \in SUBSET Chunks : Bounded(s)
  <2> DEFINE sizes == {n \in Nat : \E s \in SUBSET Chunks : Cardinality(s) = n /\ ~Bounded(s)}
  <2>1. ASSUME NEW s \in SUBSET Chunks, ~Bounded(s) PROVE FALSE
    <3>1. Cardinality(s) \in sizes BY <1>5, <2>1, FS_CardinalityType
    <3>2. PICK n \in sizes : \A m \in sizes : n <= m
      <4>1. sizes \subseteq Nat OBVIOUS
      <4> HIDE DEF sizes
      <4> QED BY <3>1, <4>1, LeastOf
    <3>3. PICK t \in SUBSET Chunks : Cardinality(t) = n /\ ~Bounded(t) BY <3>2
    <3>4. t # {} BY <1>7, <3>3
    <3>5. /\ t \ {First(t)} \in SUBSET Chunks
          /\ Cardinality(t) \in Nat \ {0}
          /\ Cardinality(t \ {First(t)}) = Cardinality(t) - 1
      BY <1>5, <3>4, FirstLeaves
    <3>6. Bounded(t \ {First(t)})
      <4> SUFFICES ASSUME ~Bounded(t \ {First(t)}) PROVE FALSE
        OBVIOUS
      <4>1. n - 1 \in sizes BY <3>3, <3>5
      <4> HIDE DEF sizes
      <4> QED BY <3>2, <3>3, <3>5, <4>1
    <3> QED BY <1>6, <3>3, <3>4, <3>6
  <2> QED BY <2>1
<1>9. BytesIn(bytes, Chunks) = bytes BY ChunksCover DEF BytesIn
<1>10. Bounded(Chunks) BY <1>8
<1> HIDE DEF Under, Over
<1>11. /\ VP \in Nat
       /\ Under => VP <= Cardinality(bytes)
       /\ Over => Cardinality(bytes) <= VP
  BY <1>4, <1>9, <1>10 DEF Bounded
<1> QED BY <1>2, <1>11 DEF Under, Over

\* If no chunk counts more bytes than are on disk, VerifiedProgress reaches the
\* size of the file only when the whole file is there.
LEMMA VerifiedWhole ==
  ASSUME VerifiedIsOnDisk, prog \in [Chunks -> Nat], disk \subseteq File
  PROVE  Whole => disk = File
<1>1. VP \in Nat /\ VP <= Cardinality(disk) BY SumOfChunks DEF VerifiedIsOnDisk
<1>2. Cardinality(disk) \in Nat /\ Cardinality(disk) <= Size
      /\ (Cardinality(disk) = Size => disk = File)
  BY FileSize
<1> QED BY <1>1, <1>2, RangesAssumption DEF Whole

\* UpdateChunkStatus gives numbers.
LEMMA UpdateIsNumbers ==
  ASSUME NEW a, NEW b, prog \in [Chunks -> Nat]
  PROVE  UpdateChunkStatus(a, b) \in [Chunks -> Nat]
<1>1. ASSUME NEW c \in Chunks
      PROVE  Lesser(Cardinality(ChunkBytes(c)),
               prog[c] + Cardinality(ChunkBytes(c) \cap BytesOf(Task(a, b, 0)))) \in Nat
  <2>1. ChunkBytes(c) \subseteq File /\ ChunkBytes(c) \cap BytesOf(Task(a, b, 0)) \subseteq File
    BY DEF ChunkBytes
  <2>2. Cardinality(ChunkBytes(c)) \in Nat
        /\ Cardinality(ChunkBytes(c) \cap BytesOf(Task(a, b, 0))) \in Nat
    BY <2>1, BytesAreFinite
  <2>3. prog[c] \in Nat OBVIOUS
  <2> QED BY <2>2, <2>3 DEF Lesser
<1> QED BY <1>1 DEF UpdateChunkStatus

\* RecalculateProgress gives numbers.
LEMMA RecalculatedIsNumbers ==
  ASSUME NEW ts, NEW done
  PROVE  RecalculateProgress(ts, done) \in [Chunks -> Nat]
<1>1. ASSUME NEW c \in Chunks
      PROVE  Cardinality(IF c \in done THEN ChunkBytes(c)
                         ELSE ChunkBytes(c) \ BytesOfAll(ts)) \in Nat
  <2>1. ChunkBytes(c) \subseteq File /\ ChunkBytes(c) \ BytesOfAll(ts) \subseteq File
    BY DEF ChunkBytes
  <2> QED BY <2>1, BytesAreFinite
<1> QED BY <1>1 DEF RecalculateProgress

\* Each chunk counts a number of bytes.
ProgressOK == prog \in [Chunks -> Nat]

\* No step counts anything else.
LEMMA ProgressKept == ProgressOK /\ [Next]_vars => ProgressOK'
<1> SUFFICES ASSUME ProgressOK, [Next]_vars PROVE ProgressOK'
  OBVIOUS
<1>1. UNCHANGED prog
      \/ (\E i \in Workers : Publish(i))
      \/ Resume
  <2>1. ASSUME NEW i \in Workers, WorkerStep(i) PROVE UNCHANGED prog \/ Publish(i)
    BY <2>1 DEF WorkerStep, Top, Pop, PopClosed, Start, Read, ReadCancelled, ReadFails,
                Write, WriteFull, Count, Clamp, Succeeded, Release, DiskFull,
                HealthCancelled, Retry, Exhausted, PushResidual, Unmap
  <2>2. ASSUME NEW i \in Workers, Kill(i) \/ DrainWorker(i) PROVE UNCHANGED prog
    BY <2>2 DEF Kill, DrainWorker
  <2>3. ASSUME Balance PROVE UNCHANGED prog
    BY <2>3 DEF Balance, Tick, StealScan, StealShrink, StealPush, HedgeWork, TickEnds,
                HedgeAll, SweepEnds
  <2>4. ASSUME \/ MonitorComplete \/ MonitorCancelled \/ Pause \/ Finish \/ SaveSnapshot
               \/ UNCHANGED vars
        PROVE  UNCHANGED prog
    BY <2>4 DEF MonitorComplete, MonitorCancelled, Pause, Finish, SaveSnapshot, vars
  <2> QED BY <2>1, <2>2, <2>3, <2>4 DEF Next
<1>2. ASSUME NEW i \in Workers, Publish(i) PROVE ProgressOK'
  <2>1. PICK a, b : prog' = UpdateChunkStatus(a, b) BY <1>2 DEF Publish
  <2> QED BY <2>1, UpdateIsNumbers DEF ProgressOK
<1>3. CASE Resume
  <2>1. prog' = RecalculateProgress(saved.tasks, saved.complete)
    BY <1>3 DEF Resume, NewRun
  <2> QED BY <2>1, RecalculatedIsNumbers DEF ProgressOK
<1>4. CASE UNCHANGED prog BY <1>4 DEF ProgressOK
<1> QED BY <1>1, <1>2, <1>3, <1>4

-----------------------------------------------------------------------------
(* The theorems. *)

\* Together they are inductive, as long as no chunk counts bytes that are not
\* on disk.
LEMMA RangesInductive ==
  LeaveOne => (Spec /\ []VerifiedIsOnDisk => [](RangesInv /\ ProgressOK))
<1> SUFFICES ASSUME LeaveOne
             PROVE  Spec /\ []VerifiedIsOnDisk => [](RangesInv /\ ProgressOK)
  OBVIOUS
<1>1. Init => RangesInv /\ ProgressOK
  <2>1. Init => ProgressOK BY DEF Init, ProgressOK
  <2> QED BY <2>1, RangesInit
<1>2. RangesInv /\ ProgressOK /\ VerifiedIsOnDisk /\ [Next]_vars => (RangesInv /\ ProgressOK)'
  <2> SUFFICES ASSUME RangesInv, ProgressOK, VerifiedIsOnDisk, [Next]_vars
               PROVE  RangesInv' /\ ProgressOK'
    OBVIOUS
  <2>1. disk \subseteq File /\ prog \in [Chunks -> Nat]
    BY DEF RangesInv, RangesTypeOK, ProgressOK
  <2>2. VerifiedMeansWhole BY <2>1, VerifiedWhole DEF VerifiedMeansWhole
  <2> QED BY <2>2, RangesStep, ProgressKept
<1> QED BY <1>1, <1>2, PTL DEF Spec

\* However ranges are split, raced, cancelled, retried, drained and saved, a byte
\* that is not on disk is queued, held by a worker, stashed, cut off by a steal
\* in progress, or in the saved record: for a download whose VerifiedProgress
\* does not run ahead of the file and whose last worker is never drained.
THEOREM NoByteIsLost ==
  LeaveOne => (Spec /\ []VerifiedIsOnDisk => []NoByteLost)
<1>1. RangesInv => NoByteLost BY InvLosesNothing
<1> QED BY <1>1, RangesInductive, PTL

\* Under the same condition a download that reports success has the whole file
\* on disk: the worker that is left stays until it is.
THEOREM SuccessAlwaysWhole ==
  LeaveOne => (Spec /\ []VerifiedIsOnDisk => []SuccessIsWhole)
<1>1. RangesInv => SuccessIsWhole BY DEF RangesInv, SomebodyStays, SuccessIsWhole
<1> QED BY <1>1, RangesInductive, PTL

-----------------------------------------------------------------------------
(* Who counts what.  Claims are tasks: those in the queue and the stash, and *)
(* what a worker has in hand, the part a steal is about to cut off included. *)

Has(t, x) == t.off <= x /\ x < t.end
Reach(i) == IF Pushing(i) THEN bal.end ELSE wk[i].stop
Claim(i) ==
  IF Holding(i) THEN Task(wk[i].cur, Reach(i), wk[i].ptr) ELSE Task(0, 0, 0)

\* Two claims have no byte in common, or belong to one race.
Apart(t, u) ==
  \A x \in Nat : Has(t, x) /\ Has(u, x) => t.ptr = u.ptr /\ t.ptr # 0
Within(t, u) ==
  \A x \in Nat : Has(t, x) => Has(u, x) /\ (u.ptr = 0 \/ t.ptr = u.ptr)

\* No byte is claimed twice, but by the participants of a race.
AllApart(q, st, cl) ==
  /\ \A j, k \in 1 .. Len(q) : j # k => Apart(q[j], q[k])
  /\ \A t, u \in st : t # u => Apart(t, u)
  /\ \A j \in 1 .. Len(q), t \in st : Apart(q[j], t)
  /\ \A i, k \in Workers : i # k => Apart(cl[i], cl[k])
  /\ \A j \in 1 .. Len(q), i \in Workers : Apart(q[j], cl[i])
  /\ \A t \in st, i \in Workers : Apart(t, cl[i])
ClaimsApart == AllApart(queue, stash, [i \in Workers |-> Claim(i)])

\* The bytes a worker is about to report: it has counted them and not yet
\* added them to the bitmap.
Reporting(i) == wk[i].pc \in {"clamp", "publish"}
Reported(i, x) == Reporting(i) /\ wk[i].at <= x + wk[i].fresh /\ x < wk[i].at

\* Outside the windows CurrentOffset is never behind StopAt, and a batch lies
\* between the two and below the shared offset.
PlaceOK(i) ==
  /\ Holding(i) => wk[i].cur <= wk[i].stop /\ (Pushing(i) => wk[i].stop <= bal.end)
  /\ Shrinking(i) \/ Pushing(i) => Holding(i)
  /\ Reporting(i) =>
       /\ wk[i].cur + wk[i].fresh <= wk[i].at
       /\ wk[i].ptr # 0 => wk[i].at <= shared[wk[i].ptr]
       /\ wk[i].pc = "publish" => wk[i].at <= wk[i].stop
PlacesOK == \A i \in Workers : PlaceOK(i)

\* The participants of a race report different bytes.
ReportsApart ==
  \A i, k \in Workers : i # k /\ wk[i].ptr = wk[k].ptr /\ wk[i].ptr # 0 =>
    \A x \in Nat : ~(Reported(i, x) /\ Reported(k, x))

\* A byte is still to be counted as long as somebody claims it and, in a race,
\* the shared offset has not passed it or it is in a batch.
Open(p, x) == p = 0 \/ shared[p] <= x
DueTask(t, x) == Has(t, x) /\ Open(t.ptr, x)
DueWorker(i, x) == Has(Claim(i), x) /\ (Open(wk[i].ptr, x) \/ Reported(i, x))
Owed(x) == (\E t \in Queued : DueTask(t, x)) \/ (\E i \in Workers : DueWorker(i, x))

\* A chunk counts no byte that is still to be counted, or is on disk already.
Settles(c) == {x \in ChunkBytes(c) : ~Owed(x)}
CountedOK ==
  \A c \in Chunks : ChunkBytes(c) \subseteq disk \/ prog[c] <= Cardinality(Settles(c))

\* A chunk never counts more than it holds.
ChunksOK == \A c \in Chunks : prog[c] <= Cardinality(ChunkBytes(c))

\* The record: its tasks are apart, the chunks it calls completed are on disk.
RecordOK ==
  /\ \A c \in saved.complete : ChunkBytes(c) \subseteq disk
  /\ \A t, u \in saved.tasks : t # u => Apart(t, u)

\* A run has an end when all its workers have left.
EndedOK == phase # "live" => AllGone

LedgerInv ==
  /\ ProgressOK /\ PlacesOK /\ ReportsApart /\ ClaimsApart
  /\ CountedOK /\ ChunksOK /\ RecordOK /\ EndedOK /\ VerifiedIsOnDisk

-----------------------------------------------------------------------------
(* Claims only get smaller, change hands, or are split. *)

\* Apart is symmetric.
LEMMA ApartTurns == ASSUME NEW t, NEW u, Apart(t, u) PROVE Apart(u, t)
BY DEF Apart

\* Part of a claim is apart from what the claim is apart from.
LEMMA PartApart ==
  ASSUME NEW t, NEW u, NEW v, Within(t, u), Apart(u, v)
  PROVE  Apart(t, v) /\ Apart(v, t)
BY DEF Within, Apart

\* A claim that stays as it is.
LEMMA WithinItself == ASSUME NEW t PROVE Within(t, t)
BY DEF Within

\* Nothing meets when claims shrink and the queue loses its first d tasks.
LEMMA ShrinkApart ==
  ASSUME NEW q, NEW st, NEW cl, AllApart(q, st, cl),
         NEW q2, NEW cl2, NEW d \in Nat, Len(q) \in Nat, Len(q2) \in Nat,
         \A j \in 1 .. Len(q2) : j + d \in 1 .. Len(q) /\ q2[j] = q[j + d],
         \A i \in Workers : Within(cl2[i], cl[i])
  PROVE  AllApart(q2, st, cl2)
<1>1. ASSUME NEW j \in 1 .. Len(q2), NEW k \in 1 .. Len(q2), j # k
      PROVE  Apart(q2[j], q2[k])
  <2>1. j + d \in 1 .. Len(q) /\ k + d \in 1 .. Len(q) /\ j + d # k + d BY <1>1
  <2> QED BY <2>1 DEF AllApart
<1>2. ASSUME NEW j \in 1 .. Len(q2), NEW t \in st PROVE Apart(q2[j], t)
  BY DEF AllApart
<1>3. ASSUME NEW i \in Workers, NEW k \in Workers, i # k PROVE Apart(cl2[i], cl2[k])
  <2>1. Apart(cl[i], cl[k]) BY <1>3 DEF AllApart
  <2>2. Apart(cl2[i], cl[k]) BY <2>1, PartApart
  <2>3. Apart(cl[k], cl2[i]) BY <2>2, ApartTurns
  <2>4. Apart(cl2[k], cl2[i]) BY <2>3, PartApart
  <2> QED BY <2>4, ApartTurns
<1>4. ASSUME NEW j \in 1 .. Len(q2), NEW i \in Workers PROVE Apart(q2[j], cl2[i])
  <2>1. Apart(q2[j], cl[i]) BY DEF AllApart
  <2>2. Apart(cl[i], q2[j]) BY <2>1, ApartTurns
  <2> QED BY <2>2, PartApart
<1>5. ASSUME NEW t \in st, NEW i \in Workers PROVE Apart(t, cl2[i])
  <2>1. Apart(t, cl[i]) BY DEF AllApart
  <2>2. Apart(cl[i], t) BY <2>1, ApartTurns
  <2> QED BY <2>2, PartApart
<1>6. \A t, u \in st : t # u => Apart(t, u) BY DEF AllApart
<1> QED BY <1>1, <1>2, <1>3, <1>4, <1>5, <1>6 DEF AllApart

\* Nothing meets when a worker queues part of its claim and keeps at most the rest.
LEMMA AppendApart ==
  ASSUME NEW q \in Seq(Tasks), NEW st, NEW cl, AllApart(q, st, cl),
         NEW r \in Tasks, NEW cl2, NEW i \in Workers,
         Within(r, cl[i]), Apart(r, cl2[i]),
         \A k \in Workers : Within(cl2[k], cl[k])
  PROVE  AllApart(Append(q, r), st, cl2)
<1> DEFINE q2 == Append(q, r)
<1>1. /\ Len(q) \in Nat /\ Len(q2) = Len(q) + 1 /\ q2[Len(q) + 1] = r
      /\ \A j \in 1 .. Len(q) : q2[j] = q[j]
  OBVIOUS
<1> HIDE DEF q2
<1>2. AllApart(q, st, cl2)
  <2>1. \A j \in 1 .. Len(q) : j + 0 \in 1 .. Len(q) /\ q[j] = q[j + 0] BY <1>1
  <2> QED BY <1>1, <2>1, ShrinkApart
<1>3. ASSUME NEW j \in 1 .. Len(q2) PROVE j \in 1 .. Len(q) \/ j = Len(q) + 1 BY <1>1
<1>4. ASSUME NEW v, Apart(cl[i], v) PROVE Apart(r, v) /\ Apart(v, r) BY <1>4, PartApart
<1>5. ASSUME NEW j \in 1 .. Len(q) PROVE Apart(r, q[j]) /\ Apart(q[j], r)
  <2>1. Apart(q[j], cl[i]) BY DEF AllApart
  <2> QED BY <1>4, <2>1, ApartTurns
<1>6. ASSUME NEW t \in st PROVE Apart(r, t)
  <2>1. Apart(t, cl[i]) BY DEF AllApart
  <2> QED BY <1>4, <2>1, ApartTurns
<1>7. ASSUME NEW k \in Workers PROVE Apart(r, cl2[k])
  <2>1. CASE k = i BY <2>1
  <2>2. CASE k # i
    <3>1. Apart(cl[i], cl[k]) BY <2>2 DEF AllApart
    <3>2. Apart(r, cl[k]) BY <1>4, <3>1
    <3>3. Apart(cl2[k], r) BY <3>2, ApartTurns, PartApart
    <3> QED BY <3>3, ApartTurns
  <2> QED BY <2>1, <2>2
<1>8. ASSUME NEW j \in 1 .. Len(q2), NEW k \in 1 .. Len(q2), j # k
      PROVE  Apart(q2[j], q2[k])
  <2>1. CASE j \in 1 .. Len(q) /\ k \in 1 .. Len(q)
    BY <1>1, <1>2, <1>8, <2>1 DEF AllApart
  <2>2. CASE j = Len(q) + 1 /\ k \in 1 .. Len(q) BY <1>1, <1>5, <2>2
  <2>3. CASE j \in 1 .. Len(q) /\ k = Len(q) + 1 BY <1>1, <1>5, <2>3
  <2> QED BY <1>3, <1>8, <2>1, <2>2, <2>3
<1>9. ASSUME NEW j \in 1 .. Len(q2), NEW t \in st PROVE Apart(q2[j], t)
  BY <1>1, <1>2, <1>3, <1>6 DEF AllApart
<1>10. ASSUME NEW j \in 1 .. Len(q2), NEW k \in Workers PROVE Apart(q2[j], cl2[k])
  BY <1>1, <1>2, <1>3, <1>7 DEF AllApart
<1> QED BY <1>2, <1>8, <1>9, <1>10 DEF AllApart, q2

\* The same when it stashes it.
LEMMA StashApart ==
  ASSUME NEW q, Len(q) \in Nat, NEW st, NEW cl, AllApart(q, st, cl),
         NEW r, NEW cl2, NEW i \in Workers,
         Within(r, cl[i]), Apart(r, cl2[i]),
         \A k \in Workers : Within(cl2[k], cl[k])
  PROVE  AllApart(q, st \cup {r}, cl2)
<1>1. AllApart(q, st, cl2)
  <2>1. \A j \in 1 .. Len(q) : j + 0 \in 1 .. Len(q) /\ q[j] = q[j + 0] OBVIOUS
  <2> QED BY <2>1, ShrinkApart
<1>2. ASSUME NEW v, Apart(cl[i], v) PROVE Apart(r, v) /\ Apart(v, r) BY <1>2, PartApart
<1>3. ASSUME NEW j \in 1 .. Len(q) PROVE Apart(q[j], r)
  <2>1. Apart(q[j], cl[i]) BY DEF AllApart
  <2> QED BY <1>2, <2>1, ApartTurns
<1>4. ASSUME NEW t \in st PROVE Apart(r, t) /\ Apart(t, r)
  <2>1. Apart(t, cl[i]) BY DEF AllApart
  <2> QED BY <1>2, <2>1, ApartTurns
<1>5. ASSUME NEW k \in Workers PROVE Apart(r, cl2[k])
  <2>1. CASE k = i BY <2>1
  <2>2. CASE k # i
    <3>1. Apart(cl[i], cl[k]) BY <2>2 DEF AllApart
    <3>2. Apart(r, cl[k]) BY <1>2, <3>1
    <3>3. Apart(cl2[k], r) BY <3>2, ApartTurns, PartApart
    <3> QED BY <3>3, ApartTurns
  <2> QED BY <2>1, <2>2
<1>6. \A t, u \in st \cup {r} : t # u => Apart(t, u) BY <1>1, <1>4 DEF AllApart
<1>7. \A j \in 1 .. Len(q), t \in st \cup {r} : Apart(q[j], t) BY <1>1, <1>3 DEF AllApart
<1>8. \A t \in st \cup {r}, k \in Workers : Apart(t, cl2[k]) BY <1>1, <1>5 DEF AllApart
<1> QED BY <1>1, <1>6, <1>7, <1>8 DEF AllApart

\* Nothing meets when a worker with no claim takes the first task.
LEMMA TakeApart ==
  ASSUME NEW q \in Seq(Tasks), q # <<>>, NEW st, NEW cl, AllApart(q, st, cl),
         NEW cl2, NEW i \in Workers, Within(cl2[i], Head(q)),
         \A k \in Workers : k # i => cl2[k] = cl[k]
  PROVE  AllApart(Tail(q), st, cl2)
<1> DEFINE q2 == Tail(q)
<1>1. /\ Len(q) \in Nat \ {0} /\ Len(q2) = Len(q) - 1 /\ Head(q) = q[1]
      /\ \A j \in 1 .. Len(q2) : j + 1 \in 1 .. Len(q) /\ q2[j] = q[j + 1]
  OBVIOUS
<1> HIDE DEF q2
<1>2. ASSUME NEW j \in 1 .. Len(q2)
      PROVE  j + 1 \in 1 .. Len(q) /\ j + 1 # 1 /\ q2[j] = q[j + 1] /\ 1 \in 1 .. Len(q)
  BY <1>1
<1>3. ASSUME NEW j \in 1 .. Len(q2), NEW k \in 1 .. Len(q2), j # k
      PROVE  Apart(q2[j], q2[k])
  <2>1. j + 1 # k + 1 BY <1>3
  <2> QED BY <1>2, <2>1 DEF AllApart
<1>4. ASSUME NEW j \in 1 .. Len(q2), NEW t \in st PROVE Apart(q2[j], t)
  BY <1>2 DEF AllApart
<1>5. ASSUME NEW v, Apart(Head(q), v) PROVE Apart(cl2[i], v) /\ Apart(v, cl2[i])
  BY <1>5, PartApart
<1>6. 1 \in 1 .. Len(q) BY <1>1
<1>7. ASSUME NEW k \in Workers, k # i
      PROVE  Apart(cl2[i], cl2[k]) /\ Apart(cl2[k], cl2[i])
  <2>1. Apart(Head(q), cl[k]) BY <1>1, <1>6 DEF AllApart
  <2> QED BY <1>5, <1>7, <2>1
<1>8. ASSUME NEW k \in Workers, NEW l \in Workers, k # l PROVE Apart(cl2[k], cl2[l])
  <2>1. CASE k = i \/ l = i BY <1>7, <1>8, <2>1
  <2>2. CASE k # i /\ l # i BY <1>8, <2>2 DEF AllApart
  <2> QED BY <2>1, <2>2
<1>9. ASSUME NEW j \in 1 .. Len(q2), NEW k \in Workers PROVE Apart(q2[j], cl2[k])
  <2>1. CASE k = i
    <3>1. Apart(Head(q), q2[j]) BY <1>1, <1>2, <1>6 DEF AllApart
    <3> QED BY <1>5, <2>1, <3>1
  <2>2. CASE k # i BY <1>2, <2>2 DEF AllApart
  <2> QED BY <2>1, <2>2
<1>10. ASSUME NEW t \in st, NEW k \in Workers PROVE Apart(t, cl2[k])
  <2>1. CASE k = i
    <3>1. Apart(Head(q), t) BY <1>1, <1>6 DEF AllApart
    <3> QED BY <1>5, <2>1, <3>1
  <2>2. CASE k # i BY <2>2 DEF AllApart
  <2> QED BY <2>1, <2>2
<1>11. \A t, u \in st : t # u => Apart(t, u) BY DEF AllApart
<1> QED BY <1>3, <1>4, <1>8, <1>9, <1>10, <1>11 DEF AllApart, q2

-----------------------------------------------------------------------------
(* The ledger outside the step of one worker. *)

Ledger == PlacesOK /\ ReportsApart /\ ClaimsApart /\ CountedOK /\ ChunksOK

\* Shared offsets only grow.
CellsGrow ==
  /\ shared \in Seq(Offsets) /\ shared' \in Seq(Offsets) /\ Len(shared) <= Len(shared')
  /\ \A p \in 1 .. Len(shared) :
       shared[p] \in Nat /\ shared'[p] \in Nat /\ shared[p] <= shared'[p]

\* A worker that did not move is where it has to be.
LEMMA PlacesElse ==
  ASSUME RangesTypeOK, CellsAllocated, PlacesOK, NEW i \in Workers, Turn(i), bal' = bal,
         CellsGrow, PlaceOK(i)'
  PROVE  PlacesOK'
<1> SUFFICES ASSUME NEW j \in Workers, j # i PROVE PlaceOK(j)' BY DEF PlacesOK
<1>1. wk'[j] = wk[j] BY DEF Turn
<1>2. (Holding(j)' <=> Holding(j)) /\ (Shrinking(j)' <=> Shrinking(j))
      /\ (Pushing(j)' <=> Pushing(j)) /\ (Reporting(j)' <=> Reporting(j))
  BY <1>1 DEF Holding, Shrinking, Pushing, Reporting
<1>3. wk[j].ptr # 0 => wk[j].ptr \in 1 .. Len(shared)
  BY WorkerTypes DEF CellsAllocated, CellsGrow
<1>4. wk[j].at \in Nat BY WorkerTypes
<1>5. wk[j].ptr # 0 /\ wk[j].at <= shared[wk[j].ptr] => wk[j].at <= shared'[wk[j].ptr]
  <2>1. \A p \in 1 .. Len(shared) :
          shared[p] \in Nat /\ shared'[p] \in Nat /\ shared[p] <= shared'[p]
    BY DEF CellsGrow
  <2> QED BY <1>3, <1>4, <2>1
<1>6. PlaceOK(j) BY DEF PlacesOK
<1> QED BY <1>1, <1>2, <1>5, <1>6 DEF PlaceOK

\* Cells that stay as they are.
LEMMA CellsStay == ASSUME RangesTypeOK, shared' = shared PROVE CellsGrow
<1>1. shared \in Seq(Offsets) /\ Len(shared) \in Nat BY DEF RangesTypeOK
<1>2. Offsets \subseteq Nat BY DEF Offsets
<1>3. \A p \in 1 .. Len(shared) : shared[p] \in Offsets BY <1>1
<1>4. \A p \in 1 .. Len(shared) : shared[p] \in Nat BY <1>2, <1>3
<1> QED BY <1>1, <1>4 DEF CellsGrow

\* The count stands as long as no settled byte is owed again.
LEMMA CountedKept ==
  ASSUME RangesTypeOK, CountedOK, ProgressOK, disk \subseteq disk', prog' = prog,
         \A x \in Nat : Owed(x)' => Owed(x)
  PROVE  CountedOK'
<1> SUFFICES ASSUME NEW c \in Chunks
             PROVE  ChunkBytes(c) \subseteq disk' \/ prog[c] <= Cardinality(Settles(c)')
  BY DEF CountedOK
<1>1. ChunkBytes(c) \subseteq disk \/ prog[c] <= Cardinality(Settles(c)) BY DEF CountedOK
<1>2. ChunkBytes(c) \subseteq File /\ File \subseteq Nat
  BY RangesAssumption DEF ChunkBytes, File
<1>3. Settles(c) \subseteq Settles(c)'
  <2>1. \A x \in ChunkBytes(c) : x \in Nat BY <1>2
  <2> QED BY <2>1 DEF Settles
<1>4. Settles(c)' \subseteq File BY <1>2 DEF Settles
<1>5. /\ Cardinality(Settles(c)) \in Nat /\ Cardinality(Settles(c)') \in Nat
      /\ Cardinality(Settles(c)) <= Cardinality(Settles(c)')
  <2>1. IsFiniteSet(Settles(c)') /\ Cardinality(Settles(c)') \in Nat BY <1>4, BytesAreFinite
  <2>2. Settles(c) \subseteq File BY <1>3, <1>4
  <2>3. Cardinality(Settles(c)) \in Nat BY <2>2, BytesAreFinite
  <2> QED BY <1>3, <2>1, <2>3, FS_Subset
<1>6. prog[c] \in Nat BY DEF ProgressOK
<1> QED BY <1>1, <1>5, <1>6

\* Nothing in the bitmap moves.
LEMMA ChunksKept == ASSUME ChunksOK, prog' = prog PROVE ChunksOK'
BY DEF ChunksOK

\* The reports of a race stay apart when nobody reports more than it did.
LEMMA ReportsKept ==
  ASSUME ReportsApart, NEW i \in Workers, Turn(i), Reporting(i)' => wk'[i].ptr = wk[i].ptr,
         \A x \in Nat : Reported(i, x)' => Reported(i, x)
  PROVE  ReportsApart'
<1> SUFFICES ASSUME NEW j \in Workers, NEW k \in Workers, j # k,
                    wk'[j].ptr = wk'[k].ptr, wk'[j].ptr # 0, NEW x \in Nat,
                    Reported(j, x)', Reported(k, x)'
             PROVE  FALSE
  BY DEF ReportsApart
<1>1. ASSUME NEW l \in Workers, Reported(l, x)' PROVE Reported(l, x) /\ wk'[l].ptr = wk[l].ptr
  <2>1. CASE l = i BY <1>1, <2>1 DEF Reported
  <2>2. CASE l # i
    <3>1. wk'[l] = wk[l] BY <2>2 DEF Turn
    <3> QED BY <1>1, <3>1 DEF Reported, Reporting
  <2> QED BY <2>1, <2>2
<1> QED BY <1>1 DEF ReportsApart

\* A worker that did not move owes what it owed, as far as offsets only grow.
LEMMA DueElse ==
  ASSUME RangesTypeOK, CellsAllocated, CellsGrow, NEW i \in Workers, Turn(i), bal' = bal,
         NEW x \in Nat
  PROVE  /\ \A p \in 0 .. Len(shared) : Open(p, x)' => Open(p, x)
         /\ \A t \in Queued : DueTask(t, x)' => DueTask(t, x)
         /\ \A j \in Workers : j # i => Claim(j)' = Claim(j)
         /\ \A j \in Workers : j # i => (DueWorker(j, x)' => DueWorker(j, x))
<1>1. ASSUME NEW p \in 0 .. Len(shared), Open(p, x)' PROVE Open(p, x)
  <2>1. CASE p = 0 BY <2>1 DEF Open
  <2>2. CASE p # 0
    <3>1. p \in 1 .. Len(shared) BY <2>2 DEF CellsGrow
    <3>2. shared[p] \in Nat /\ shared'[p] \in Nat /\ shared[p] <= shared'[p]
      BY <3>1 DEF CellsGrow
    <3>3. shared'[p] <= x BY <1>1, <2>2 DEF Open
    <3>4. shared[p] <= x BY <3>2, <3>3
    <3> QED BY <3>4 DEF Open
  <2> QED BY <2>1, <2>2
<1>2. Len(shared) \in Nat BY DEF CellsGrow
<1>3. ASSUME NEW t \in Queued, DueTask(t, x)' PROVE DueTask(t, x)
  <2>1. t.ptr \in 0 .. Len(shared) BY <1>2, QueuedTasks DEF CellsAllocated
  <2> QED BY <1>1, <1>3, <2>1 DEF DueTask
<1>4. ASSUME NEW j \in Workers, j # i
      PROVE  Claim(j)' = Claim(j) /\ (DueWorker(j, x)' => DueWorker(j, x))
  <2>1. wk'[j] = wk[j] BY <1>4 DEF Turn
  <2>2. Claim(j)' = Claim(j) BY <2>1 DEF Claim, Holding, Reach, Pushing
  <2>3. Reported(j, x)' <=> Reported(j, x) BY <2>1 DEF Reported, Reporting
  <2>4. wk[j].ptr \in 0 .. Len(shared) BY <1>2, WorkerTypes DEF CellsAllocated
  <2> QED BY <1>1, <2>1, <2>2, <2>3, <2>4 DEF DueWorker
<1> QED BY <1>1, <1>3, <1>4

-----------------------------------------------------------------------------
(* Steps of a worker that claim nothing new and report nothing new. *)

\* Worker i moves on in its task, or lets go of it.
Calm(i) ==
  /\ Turn(i) /\ bal' = bal
  /\ Holding(i)' => /\ Holding(i) /\ wk'[i].cur = wk[i].cur
                    /\ wk'[i].stop = wk[i].stop /\ wk'[i].ptr = wk[i].ptr
  /\ Holding(i) /\ ~Holding(i)' => ~Shrinking(i) /\ ~Pushing(i)
  /\ \A x \in Nat : Reported(i, x)' => Reported(i, x)
  /\ Reporting(i)' =>
       /\ wk'[i].cur + wk'[i].fresh <= wk'[i].at
       /\ wk'[i].ptr # 0 => wk'[i].at <= shared'[wk'[i].ptr]
       /\ wk'[i].pc = "publish" => wk'[i].at <= wk'[i].stop

\* Who reports holds its task.
LEMMA ReporterHolds == ASSUME NEW i \in Workers, Reporting(i) PROVE Holding(i)
BY DEF Reporting, Holding, Mapped, Loop
\* The same after a step.
LEMMA ReporterWillHold == ASSUME NEW i \in Workers, Reporting(i)' PROVE Holding(i)'
BY DEF Reporting, Holding, Mapped, Loop

\* A claim is a pair of offsets.
LEMMA ClaimTypes ==
  ASSUME RangesTypeOK, NEW i \in Workers
  PROVE  /\ Claim(i).off \in Nat /\ Claim(i).end \in Nat /\ Claim(i).ptr \in Nat
         /\ Holding(i) => /\ Claim(i).off = wk[i].cur /\ Claim(i).end = Reach(i)
                          /\ Claim(i).ptr = wk[i].ptr
         /\ ~Holding(i) => \A x \in Nat : ~Has(Claim(i), x)
<1>1. wk[i].cur \in Nat /\ wk[i].stop \in Nat /\ wk[i].ptr \in Nat /\ bal.end \in Nat
  BY WorkerTypes, BalancerTypes
<1>2. Reach(i) \in Nat BY <1>1 DEF Reach
<1> HIDE DEF Reach
<1> QED BY <1>1, <1>2 DEF Claim, Task, Has

\* Where a calm worker stands.
LEMMA CalmPlace ==
  ASSUME RangesTypeOK, CellsAllocated, PlacesOK, NEW i \in Workers, Calm(i), CellsGrow
  PROVE  PlacesOK'
<1>1. PlaceOK(i) BY DEF PlacesOK
<1>2. (Shrinking(i)' <=> Shrinking(i)) /\ (Pushing(i)' <=> Pushing(i))
  BY DEF Calm, Shrinking, Pushing
<1>3. Holding(i)' => wk'[i].cur <= wk'[i].stop /\ (Pushing(i)' => wk'[i].stop <= bal'.end)
  BY <1>1, <1>2 DEF PlaceOK, Calm
<1>4. Shrinking(i)' \/ Pushing(i)' => Holding(i)'
  BY <1>1, <1>2 DEF PlaceOK, Calm
<1>5. PlaceOK(i)' BY <1>3, <1>4 DEF PlaceOK, Calm
<1> QED BY <1>5, PlacesElse DEF Calm

\* What a calm worker claims, and what it owes.
LEMMA CalmClaims ==
  ASSUME RangesTypeOK, CellsAllocated, NEW i \in Workers, Calm(i), CellsGrow
  PROVE  /\ \A k \in Workers : Within(Claim(k)', Claim(k))
         /\ ~Holding(i)' => Claim(i)' = Task(0, 0, 0)
         /\ \A x \in Nat, k \in Workers : DueWorker(k, x)' => DueWorker(k, x)
<1>1. Claim(i)' = Claim(i) \/ Claim(i)' = Task(0, 0, 0)
  <2>1. Pushing(i)' <=> Pushing(i) BY DEF Calm, Pushing
  <2>2. CASE Holding(i)'
    <3>1. Reach(i)' = Reach(i) BY <2>1, <2>2 DEF Calm, Reach
    <3> QED BY <2>2, <3>1 DEF Calm, Claim
  <2>3. CASE ~Holding(i)' BY <2>3 DEF Claim
  <2> QED BY <2>2, <2>3
<1>2. ~Holding(i)' => Claim(i)' = Task(0, 0, 0) BY DEF Claim
<1>3. \A t : Within(Task(0, 0, 0), t) BY DEF Within, Task, Has
<1>4. \A x \in Nat : ~Has(Task(0, 0, 0), x) BY DEF Task, Has
<1>5. Within(Claim(i)', Claim(i)) BY <1>1, <1>3, WithinItself
<1>6. ASSUME NEW x \in Nat, DueWorker(i, x)' PROVE DueWorker(i, x)
  <2>1. Has(Claim(i)', x) BY <1>6 DEF DueWorker
  <2>2. Claim(i)' = Claim(i) /\ Holding(i)' BY <1>1, <1>2, <1>4, <2>1
  <2>3. wk'[i].ptr = wk[i].ptr BY <2>2 DEF Calm
  <2>4. Reported(i, x)' => Reported(i, x) BY DEF Calm
  <2>5. wk[i].ptr \in 0 .. Len(shared) BY WorkerTypes DEF CellsAllocated, CellsGrow
  <2>6. Open(wk[i].ptr, x)' => Open(wk[i].ptr, x)
    <3>1. \A p \in 0 .. Len(shared) : Open(p, x)' => Open(p, x)
      BY DueElse DEF Calm
    <3>2. PICK p \in 0 .. Len(shared) : p = wk[i].ptr BY <2>5
    <3>3. Open(p, x)' => Open(p, x) BY <3>1
    <3> QED BY <2>3, <3>2, <3>3 DEF Open
  <2>7. Open(wk[i].ptr, x)' \/ Reported(i, x)' BY <1>6 DEF DueWorker
  <2> QED BY <2>1, <2>2, <2>4, <2>6, <2>7 DEF DueWorker
<1>7. ASSUME NEW k \in Workers, k # i
      PROVE  Within(Claim(k)', Claim(k)) /\ \A x \in Nat : DueWorker(k, x)' => DueWorker(k, x)
  <2>1. Claim(k)' = Claim(k)
    <3>1. 0 \in Nat OBVIOUS
    <3> QED BY <1>7, <3>1, DueElse DEF Calm
  <2>2. \A x \in Nat : DueWorker(k, x)' => DueWorker(k, x) BY <1>7, DueElse DEF Calm
  <2>3. Within(Claim(k), Claim(k)) BY WithinItself
  <2> QED BY <2>1, <2>2, <2>3
<1> QED BY <1>2, <1>5, <1>6, <1>7

\* A calm step that gives nothing back.
LEMMA CalmKeeps ==
  ASSUME RangesInv, Ledger, ProgressOK, NEW i \in Workers, Calm(i), disk \subseteq disk',
         UNCHANGED <<shared, prog>>, stash' = stash,
         queue' = queue \/ (queue # <<>> /\ queue' = Tail(queue))
  PROVE  Ledger'
<1>1. CellsGrow BY CellsStay DEF RangesInv
<1>2. PlacesOK' BY <1>1, CalmPlace DEF RangesInv, Ledger
<1>3. ReportsApart'
  <2>1. Reporting(i)' => wk'[i].ptr = wk[i].ptr BY ReporterWillHold DEF Calm
  <2> QED BY <2>1, ReportsKept DEF Calm, Ledger
<1>4. /\ \A k \in Workers : Within(Claim(k)', Claim(k))
      /\ \A x \in Nat, k \in Workers : DueWorker(k, x)' => DueWorker(k, x)
  BY <1>1, CalmClaims DEF RangesInv
<1>5. queue \in Seq(Tasks) BY DEF RangesInv, RangesTypeOK
<1>6. ClaimsApart'
  <2>1. PICK cl, cl2 : cl = [k \in Workers |-> Claim(k)] /\ cl2 = [k \in Workers |-> Claim(k)']
    OBVIOUS
  <2>2. AllApart(queue, stash, cl) BY <2>1 DEF Ledger, ClaimsApart
  <2>3. \A k \in Workers : Within(cl2[k], cl[k]) BY <1>4, <2>1
  <2>4. CASE queue' = queue
    <3>1. \A j \in 1 .. Len(queue') : j + 0 \in 1 .. Len(queue) /\ queue'[j] = queue[j + 0]
      BY <2>4
    <3>2. Len(queue) \in Nat /\ Len(queue') \in Nat BY <1>5, <2>4
    <3>3. AllApart(queue', stash, cl2) BY <2>2, <2>3, <3>1, <3>2, ShrinkApart
    <3> QED BY <2>1, <3>3 DEF ClaimsApart
  <2>5. CASE queue # <<>> /\ queue' = Tail(queue)
    <3>1. \A j \in 1 .. Len(queue') : j + 1 \in 1 .. Len(queue) /\ queue'[j] = queue[j + 1]
      BY <1>5, <2>5
    <3>2. Len(queue) \in Nat /\ Len(queue') \in Nat BY <1>5, <2>5
    <3>3. AllApart(queue', stash, cl2) BY <2>2, <2>3, <3>1, <3>2, ShrinkApart
    <3> QED BY <2>1, <3>3 DEF ClaimsApart
  <2> QED BY <2>4, <2>5
<1>7. \A x \in Nat : Owed(x)' => Owed(x)
  <2>1. Queued' \subseteq Queued
    <3>1. CASE queue' = queue BY <3>1 DEF Queued
    <3>2. CASE queue # <<>> /\ queue' = Tail(queue) BY <1>5, <3>2, HeadTaken DEF Queued
    <3> QED BY <3>1, <3>2
  <2>2. \A x \in Nat, t \in Queued : DueTask(t, x)' => DueTask(t, x)
    BY <1>1, DueElse DEF RangesInv, Calm
  <2>3. ASSUME NEW x \in Nat, NEW t \in Queued', DueTask(t, x)' PROVE Owed(x)
    BY <2>1, <2>2, <2>3 DEF Owed
  <2> QED BY <1>4, <2>3 DEF Owed
<1>8. CountedOK' BY <1>7, CountedKept DEF RangesInv, Ledger
<1>9. ChunksOK' BY ChunksKept DEF Ledger
<1> QED BY <1>2, <1>3, <1>6, <1>8, <1>9 DEF Ledger

\* A worker that lets go of its task and gives the rest back.
LEMMA GivesBack ==
  ASSUME RangesInv, Ledger, ProgressOK, NEW i \in Workers, Calm(i), disk \subseteq disk',
         UNCHANGED <<shared, prog>>, Holding(i), ~Holding(i)',
         \/ queue' = queue \o Requeue(i) /\ stash' = stash
         \/ queue' = queue /\ stash' = stash \cup Residual(i)
  PROVE  Ledger'
<1>1. CellsGrow BY CellsStay DEF RangesInv
<1>2. PlacesOK' BY <1>1, CalmPlace DEF RangesInv, Ledger
<1>3. ReportsApart'
  <2>1. Reporting(i)' => wk'[i].ptr = wk[i].ptr BY ReporterWillHold DEF Calm
  <2> QED BY <2>1, ReportsKept DEF Calm, Ledger
<1>4. /\ \A k \in Workers : Within(Claim(k)', Claim(k))
      /\ Claim(i)' = Task(0, 0, 0)
      /\ \A x \in Nat, k \in Workers : DueWorker(k, x)' => DueWorker(k, x)
  BY <1>1, CalmClaims DEF RangesInv
<1>5. queue \in Seq(Tasks) BY DEF RangesInv, RangesTypeOK
<1>6. ~Pushing(i) BY DEF Calm
<1>7. /\ \A t \in Residual(i) : /\ t = Rest(i) /\ t \in Tasks /\ t.off = CurrentOffset(i)
                                /\ t.end = wk[i].stop /\ t.ptr = wk[i].ptr
      /\ ToSet(queue \o Requeue(i)) = ToSet(queue) \cup Residual(i)
  BY <1>6, ResidualIs, RequeueAdds DEF RangesInv, OwnOK, Own
<1>8. wk[i].cur \in Nat /\ CurrentOffset(i) \in Nat /\ wk[i].cur <= CurrentOffset(i)
      /\ wk[i].stop \in Nat
  BY OffsetOfRace, WorkerTypes DEF RangesInv
<1>9. ASSUME NEW x \in Nat, NEW t \in Residual(i), Has(t, x)
      PROVE  Has(Claim(i), x) /\ t.ptr = Claim(i).ptr /\ t.ptr = wk[i].ptr
  <2>1. Claim(i).off = wk[i].cur /\ Claim(i).end = wk[i].stop /\ Claim(i).ptr = wk[i].ptr
    BY <1>6, ClaimTypes DEF RangesInv, Reach
  <2>2. CurrentOffset(i) <= x /\ x < wk[i].stop BY <1>7, <1>9 DEF Has
  <2> QED BY <1>7, <1>8, <2>1, <2>2 DEF Has
<1>10. \A t \in Residual(i) : Within(t, Claim(i)) /\ Apart(t, Claim(i)')
  <2>1. \A u : Apart(u, Task(0, 0, 0)) BY DEF Apart, Has, Task
  <2>2. \A t \in Residual(i) : Within(t, Claim(i)) BY <1>9 DEF Within
  <2> QED BY <1>4, <2>1, <2>2
<1>11. ClaimsApart'
  <2>1. PICK cl, cl2 : cl = [k \in Workers |-> Claim(k)] /\ cl2 = [k \in Workers |-> Claim(k)']
    OBVIOUS
  <2>2. AllApart(queue, stash, cl) BY <2>1 DEF Ledger, ClaimsApart
  <2>3. \A k \in Workers : Within(cl2[k], cl[k]) BY <1>4, <2>1
  <2>4. SUFFICES AllApart(queue', stash', cl2) BY <2>1 DEF ClaimsApart
  <2>5. Len(queue) \in Nat BY <1>5
  <2>6. CASE Residual(i) = {}
    <3>1. queue' = queue /\ stash' = stash
      <4>1. Requeue(i) = <<>> BY <2>6 DEF Requeue
      <4>2. queue \o <<>> = queue BY <1>5
      <4> QED BY <2>6, <4>1, <4>2
    <3>2. \A j \in 1 .. Len(queue') : j + 0 \in 1 .. Len(queue) /\ queue'[j] = queue[j + 0]
      BY <3>1
    <3> QED BY <2>2, <2>3, <2>5, <3>1, <3>2, ShrinkApart
  <2>7. CASE Residual(i) # {}
    <3>1. PICK r \in Residual(i) : TRUE BY <2>7
    <3>2. Residual(i) = {r} /\ r = Rest(i) /\ r \in Tasks BY <1>7, <3>1
    <3>3. Within(r, cl[i]) /\ Apart(r, cl2[i]) BY <1>10, <2>1, <3>1
    <3>4. CASE queue' = queue \o Requeue(i) /\ stash' = stash
      <4>1. Requeue(i) = <<r>> BY <2>7, <3>2 DEF Requeue
      <4>2. queue' = Append(queue, r) BY <1>5, <3>2, <3>4, <4>1, TaskAppended
      <4>3. AllApart(Append(queue, r), stash, cl2)
        BY <1>5, <2>2, <2>3, <3>2, <3>3, AppendApart
      <4> QED BY <3>4, <4>2, <4>3
    <3>5. CASE queue' = queue /\ stash' = stash \cup Residual(i)
      <4>1. AllApart(queue, stash \cup {r}, cl2)
        BY <2>2, <2>3, <2>5, <3>3, StashApart
      <4> QED BY <3>2, <3>5, <4>1
    <3> QED BY <3>4, <3>5
  <2> QED BY <2>6, <2>7
<1>12. \A x \in Nat : Owed(x)' => Owed(x)
  <2>1. Queued' \subseteq Queued \cup Residual(i) BY <1>7 DEF Queued
  <2>2. \A x \in Nat, t \in Queued : DueTask(t, x)' => DueTask(t, x)
    BY <1>1, DueElse DEF RangesInv, Calm
  <2>3. ASSUME NEW x \in Nat, NEW t \in Queued', DueTask(t, x)' PROVE Owed(x)
    <3>1. CASE t \in Queued BY <2>2, <2>3, <3>1 DEF Owed
    <3>2. CASE t \in Residual(i)
      <4>1. Has(t, x) /\ Open(t.ptr, x) BY <2>3 DEF DueTask, Open
      <4>2. DueWorker(i, x) BY <1>9, <3>2, <4>1 DEF DueWorker
      <4> QED BY <4>2 DEF Owed
    <3> QED BY <2>1, <3>1, <3>2
  <2> QED BY <1>4, <2>3 DEF Owed
<1>13. CountedOK' BY <1>12, CountedKept DEF RangesInv, Ledger
<1>14. ChunksOK' BY ChunksKept DEF Ledger
<1> QED BY <1>2, <1>3, <1>11, <1>13, <1>14 DEF Ledger

\* A worker that takes the first task.
LEMMA TakesKeeps ==
  ASSUME RangesInv, Ledger, ProgressOK, NEW i \in Workers, wk[i].pc = "pop", MuFree,
         queue # <<>>, Turn(i), wk'[i].pc = "start", wk'[i].cur = Head(queue).off,
         wk'[i].stop = Head(queue).end, wk'[i].ptr = Head(queue).ptr,
         UNCHANGED <<disk, bal, shared, prog, stash>>, queue' = Tail(queue)
  PROVE  Ledger'
<1>1. CellsGrow BY CellsStay DEF RangesInv
<1>2. queue \in Seq(Tasks) BY DEF RangesInv, RangesTypeOK
<1>3. /\ Head(queue) \in Tasks /\ Head(queue) \in Queued
      /\ ToSet(queue) = {Head(queue)} \cup ToSet(Tail(queue))
  BY <1>2, HeadTaken DEF Queued
<1>4. /\ Head(queue).off \in Nat /\ Head(queue).end \in Nat /\ Head(queue).ptr \in Nat
      /\ Head(queue).off <= Head(queue).end
  BY <1>3, QueuedTasks DEF RangesInv
<1>5. /\ ~Shrinking(i) /\ ~Pushing(i) /\ ~Shrinking(i)' /\ ~Pushing(i)'
      /\ Holding(i)' /\ ~Reporting(i)'
  BY DEF Shrinking, Pushing, MuFree, Holding, Mapped, Reporting
<1>6. PlacesOK'
  <2>1. PlaceOK(i)' BY <1>4, <1>5 DEF PlaceOK
  <2> QED BY <1>1, <2>1, PlacesElse DEF RangesInv, Ledger
<1>7. \A x \in Nat : Reported(i, x)' => Reported(i, x) BY <1>5 DEF Reported
<1>8. ReportsApart' BY <1>5, <1>7, ReportsKept DEF Ledger
<1>9. /\ Claim(i)'.off = Head(queue).off /\ Claim(i)'.end = Head(queue).end
      /\ Claim(i)'.ptr = Head(queue).ptr
  BY <1>5 DEF Claim, Task, Reach
<1>10. Within(Claim(i)', Head(queue)) BY <1>9 DEF Within, Has
<1>11. /\ \A k \in Workers : k # i => Claim(k)' = Claim(k)
       /\ \A x \in Nat, t \in Queued : DueTask(t, x)' => DueTask(t, x)
       /\ \A x \in Nat, k \in Workers : k # i => (DueWorker(k, x)' => DueWorker(k, x))
  <2>1. 0 \in Nat OBVIOUS
  <2> QED BY <1>1, <2>1, DueElse DEF RangesInv
<1>12. ClaimsApart'
  <2>1. PICK cl, cl2 : cl = [k \in Workers |-> Claim(k)] /\ cl2 = [k \in Workers |-> Claim(k)']
    OBVIOUS
  <2>2. AllApart(queue, stash, cl) BY <2>1 DEF Ledger, ClaimsApart
  <2>3. \A k \in Workers : k # i => cl2[k] = cl[k] BY <1>11, <2>1
  <2>4. Within(cl2[i], Head(queue)) BY <1>10, <2>1
  <2>5. AllApart(Tail(queue), stash, cl2) BY <1>2, <2>2, <2>3, <2>4, TakeApart
  <2> QED BY <2>1, <2>5 DEF ClaimsApart
<1>13. \A x \in Nat : Owed(x)' => Owed(x)
  <2>1. Queued' \subseteq Queued BY <1>3 DEF Queued
  <2>2. ASSUME NEW x \in Nat, NEW t \in Queued', DueTask(t, x)' PROVE Owed(x)
    BY <1>11, <2>1, <2>2 DEF Owed
  <2>3. ASSUME NEW x \in Nat, DueWorker(i, x)' PROVE Owed(x)
    <3>1. Has(Head(queue), x) BY <1>9, <2>3 DEF DueWorker, Has
    <3>2. Open(Head(queue).ptr, x)
      <4>1. ~Reported(i, x)' BY <1>5 DEF Reported
      <4> QED BY <2>3, <4>1 DEF DueWorker, Open
    <3> QED BY <1>3, <3>1, <3>2 DEF Owed, DueTask
  <2> QED BY <1>11, <2>2, <2>3 DEF Owed
<1>14. CountedOK' BY <1>13, CountedKept DEF RangesInv, Ledger
<1>15. ChunksOK' BY ChunksKept DEF Ledger
<1> QED BY <1>6, <1>8, <1>12, <1>14, <1>15 DEF Ledger

-----------------------------------------------------------------------------
(* Counting a batch and publishing it. *)

\* What Count does to the cell, the batch and the place.
LEMMA CountDoes ==
  ASSUME RangesInv, NEW i \in Workers, Count(i)
  PROVE  /\ Turn(i) /\ Stands(i) /\ wk[i].pc = "count" /\ wk'[i].pc = "clamp"
         /\ UNCHANGED <<disk, prog, queue, stash, bal, phase, saved>>
         /\ CellsGrow /\ Len(shared') = Len(shared)
         /\ wk'[i].at \in Nat /\ wk'[i].fresh \in Nat
         /\ wk[i].cur + wk'[i].fresh <= wk'[i].at
         /\ wk[i].ptr # 0 => /\ wk'[i].at <= shared'[wk[i].ptr]
                             /\ \A x \in Nat : Reported(i, x)' => shared[wk[i].ptr] <= x
         /\ \A p \in 1 .. Len(shared) :
              shared'[p] = shared[p] \/ (p = wk[i].ptr /\ shared'[p] = wk'[i].at)
         /\ wk[i].ptr = 0 => wk'[i].at <= wk'[i].cur + wk'[i].fresh
         /\ wk[i].ptr # 0 /\ wk[i].cur <= shared[wk[i].ptr] =>
              \A x \in Nat : shared[wk[i].ptr] <= x /\ x < wk'[i].at => Reported(i, x)'
<1> DEFINE to == wk[i].at + wk[i].n
           top == IF wk[i].ptr = 0 THEN wk[i].at ELSE shared[wk[i].ptr]
           fresh == IF to <= top THEN 0 ELSE to - Greater(wk[i].at, top)
<1>1. /\ wk[i].pc = "count"
      /\ wk' = [wk EXCEPT ![i].pc = "clamp", ![i].at = to, ![i].fresh = fresh]
      /\ shared' = IF wk[i].ptr = 0 \/ to <= top THEN shared
                   ELSE [shared EXCEPT ![wk[i].ptr] = to]
      /\ UNCHANGED <<disk, prog, queue, stash, bal, phase, saved>>
  BY DEF Count
<1>2. /\ wk[i].at = wk[i].cur /\ to <= wk[i].end
  BY <1>1 DEF RangesInv, OwnOK, Own, AtAgrees
<1>3. /\ wk[i].at \in Nat /\ wk[i].n \in Nat /\ wk[i].end \in Nat /\ wk[i].end <= Size
      /\ wk[i].ptr \in Nat /\ Size \in Nat
  BY WorkerTypes, RangesAssumption DEF RangesInv
<1>4. to \in Nat /\ to \in Offsets /\ wk[i].at <= to BY <1>2, <1>3 DEF Offsets
<1>5. shared \in Seq(Offsets) /\ Len(shared) \in Nat BY DEF RangesInv, RangesTypeOK
<1>6. /\ \A p \in 1 .. Len(shared) : shared[p] \in Nat
      /\ wk[i].ptr # 0 => wk[i].ptr \in 1 .. Len(shared)
  <2>1. CellsAllocated BY DEF RangesInv
  <2>2. \A p \in 1 .. Len(shared) : shared[p] \in Offsets BY <1>5
  <2>3. Offsets \subseteq Nat BY <1>3 DEF Offsets
  <2>4. \A p \in 1 .. Len(shared) : shared[p] \in Nat BY <2>2, <2>3
  <2>5. wk[i].ptr <= Len(shared) BY <2>1 DEF CellsAllocated
  <2>6. wk[i].ptr # 0 => wk[i].ptr \in 1 .. Len(shared) BY <1>3, <1>5, <2>5
  <2> QED BY <2>4, <2>6
<1>7. top \in Nat BY <1>3, <1>6
<1>8. /\ fresh \in Nat /\ wk[i].at + fresh <= to /\ (fresh # 0 => top <= to - fresh)
      /\ top <= wk[i].at => to <= wk[i].at + fresh
      /\ wk[i].at <= top /\ top < to => to = top + fresh
  <2> HIDE DEF to, top
  <2> QED BY <1>3, <1>4, <1>7 DEF Greater
<1>9. /\ wk[i].ptr # 0 => top = shared[wk[i].ptr]
      /\ wk[i].ptr = 0 => top = wk[i].at
  OBVIOUS
<1> HIDE DEF to, top, fresh
<1>10. Turn(i) /\ Stands(i) /\ wk'[i].pc = "clamp" /\ wk'[i].at = to
  BY <1>1, <1>4, <1>8, CountsDoes DEF RangesInv
<1>11. wk'[i].fresh = fresh
  <2>1. wk \in [Workers -> Entries] BY DEF RangesInv, RangesTypeOK
  <2> QED BY <1>1, <2>1 DEF Entries
<1>12. /\ CellsGrow /\ Len(shared') = Len(shared)
       /\ wk[i].ptr # 0 => to <= shared'[wk[i].ptr]
  <2>1. CASE wk[i].ptr = 0 \/ to <= top
    <3>1. shared' = shared BY <1>1, <2>1
    <3> QED BY <1>9, <2>1, <3>1, CellsStay DEF RangesInv
  <2>2. CASE ~(wk[i].ptr = 0 \/ to <= top)
    <3>1. shared' = [shared EXCEPT ![wk[i].ptr] = to] BY <1>1, <2>2
    <3>2. wk[i].ptr \in 1 .. Len(shared) BY <1>6, <2>2
    <3>3. /\ shared' \in Seq(Offsets) /\ Len(shared') = Len(shared) /\ shared'[wk[i].ptr] = to
          /\ \A p \in 1 .. Len(shared) : p # wk[i].ptr => shared'[p] = shared[p]
      BY <1>4, <1>5, <3>1, <3>2
    <3>4. shared[wk[i].ptr] <= to BY <1>4, <1>7, <1>9, <2>2
    <3>5. \A p \in 1 .. Len(shared) :
            shared[p] \in Nat /\ shared'[p] \in Nat /\ shared[p] <= shared'[p]
      BY <1>4, <1>6, <3>3, <3>4
    <3>6. Len(shared) <= Len(shared') BY <1>5, <3>3
    <3> QED BY <1>4, <1>5, <3>3, <3>5, <3>6 DEF CellsGrow
  <2> QED BY <2>1, <2>2
<1>13. ASSUME wk[i].ptr # 0, NEW x \in Nat, Reported(i, x)' PROVE shared[wk[i].ptr] <= x
  <2>1. to <= x + fresh /\ x < to BY <1>10, <1>11, <1>13 DEF Reported
  <2>2. top <= to - fresh BY <1>4, <1>8, <2>1
  <2> QED BY <1>4, <1>7, <1>8, <1>9, <1>13, <2>1, <2>2
<1>14. \A p \in 1 .. Len(shared) : shared'[p] = shared[p] \/ (p = wk[i].ptr /\ shared'[p] = to)
  <2>1. CASE wk[i].ptr = 0 \/ to <= top BY <1>1, <2>1
  <2>2. CASE ~(wk[i].ptr = 0 \/ to <= top)
    <3>1. shared' = [shared EXCEPT ![wk[i].ptr] = to] BY <1>1, <2>2
    <3> QED BY <1>5, <3>1
  <2> QED BY <2>1, <2>2
<1>15. wk[i].ptr = 0 => to <= wk'[i].cur + fresh
  <2>1. wk'[i].cur = wk[i].at BY <1>2, <1>10 DEF Stands
  <2> QED BY <1>3, <1>8, <1>9, <2>1
<1>16. Reporting(i)' BY <1>10 DEF Reporting
<1>17. ASSUME wk[i].ptr # 0, wk[i].cur <= shared[wk[i].ptr], NEW x \in Nat,
              shared[wk[i].ptr] <= x, x < to
       PROVE  Reported(i, x)'
  <2>1. wk[i].at <= top /\ top <= x BY <1>2, <1>9, <1>17
  <2>2. to = top + fresh BY <1>4, <1>7, <1>8, <1>17, <2>1
  <2>3. to <= x + fresh BY <1>4, <1>7, <1>8, <2>1, <2>2
  <2> QED BY <1>10, <1>11, <1>16, <1>17, <2>3 DEF Reported
<1> QED BY <1>1, <1>2, <1>4, <1>8, <1>10, <1>11, <1>12, <1>13, <1>14, <1>15, <1>17

\* Counted bytes were open until now.
LEMMA CountLedger ==
  ASSUME RangesInv, Ledger, ProgressOK, NEW i \in Workers, Count(i)
  PROVE  Ledger'
<1>1. /\ Turn(i) /\ Stands(i) /\ wk[i].pc = "count" /\ wk'[i].pc = "clamp"
      /\ UNCHANGED <<disk, prog, queue, stash, bal, phase, saved>>
      /\ CellsGrow /\ Len(shared') = Len(shared)
      /\ wk'[i].at \in Nat /\ wk'[i].fresh \in Nat
      /\ wk[i].cur + wk'[i].fresh <= wk'[i].at
      /\ wk[i].ptr # 0 => /\ wk'[i].at <= shared'[wk[i].ptr]
                          /\ \A x \in Nat : Reported(i, x)' => shared[wk[i].ptr] <= x
  BY CountDoes
<1>2. /\ Holding(i) /\ Holding(i)' /\ ~Reporting(i)
      /\ (Shrinking(i)' <=> Shrinking(i)) /\ (Pushing(i)' <=> Pushing(i))
  BY <1>1 DEF Holding, Mapped, Loop, Reporting, Shrinking, Pushing
<1>3. PlacesOK'
  <2>1. PlaceOK(i) BY DEF Ledger, PlacesOK
  <2>2. PlaceOK(i)' BY <1>1, <1>2, <2>1 DEF PlaceOK, Stands
  <2> QED BY <1>1, <2>2, PlacesElse DEF RangesInv, Ledger
<1>4. wk[i].ptr \in 0 .. Len(shared)
  <2>1. CellsAllocated BY DEF RangesInv
  <2>2. wk[i].ptr \in Nat /\ Len(shared) \in Nat BY <1>1, WorkerTypes DEF RangesInv, CellsGrow
  <2> QED BY <2>1, <2>2 DEF CellsAllocated
<1>5. /\ \A k \in Workers : k # i => Claim(k)' = Claim(k)
      /\ \A x \in Nat, p \in 0 .. Len(shared) : Open(p, x)' => Open(p, x)
      /\ \A x \in Nat, t \in Queued : DueTask(t, x)' => DueTask(t, x)
      /\ \A x \in Nat, k \in Workers : k # i => (DueWorker(k, x)' => DueWorker(k, x))
  <2>1. 0 \in Nat OBVIOUS
  <2> QED BY <1>1, <2>1, DueElse DEF RangesInv
<1>6. Claim(i)' = Claim(i) BY <1>1, <1>2 DEF Claim, Reach, Stands
<1>7. ReportsApart'
  <2>1. ASSUME NEW k \in Workers, k # i, wk[k].ptr = wk[i].ptr, wk[i].ptr # 0,
               NEW x \in Nat, Reported(i, x)', Reported(k, x)
        PROVE  FALSE
    <3>1. shared[wk[i].ptr] <= x /\ wk[i].ptr \in 1 .. Len(shared) BY <1>1, <1>4, <2>1
    <3>2. PlaceOK(k) BY DEF Ledger, PlacesOK
    <3>3. wk[k].at <= shared[wk[i].ptr] BY <2>1, <3>2 DEF PlaceOK, Reported
    <3>4. x < wk[k].at /\ wk[k].at \in Nat BY <2>1, WorkerTypes DEF Reported, RangesInv
    <3>5. shared[wk[i].ptr] \in Nat BY <1>1, <3>1 DEF CellsGrow
    <3> QED BY <3>1, <3>3, <3>4, <3>5
  <2> SUFFICES ASSUME NEW j \in Workers, NEW k \in Workers, j # k,
                      wk'[j].ptr = wk'[k].ptr, wk'[j].ptr # 0, NEW x \in Nat,
                      Reported(j, x)', Reported(k, x)'
               PROVE  FALSE
    BY DEF ReportsApart
  <2>2. \A l \in Workers : wk'[l].ptr = wk[l].ptr BY <1>1 DEF Turn, Stands
  <2>3. \A l \in Workers : l # i => (Reported(l, x)' => Reported(l, x))
    BY <1>1 DEF Turn, Reported, Reporting
  <2>4. CASE j = i BY <2>1, <2>2, <2>3, <2>4
  <2>5. CASE k = i BY <2>1, <2>2, <2>3, <2>5
  <2>6. CASE j # i /\ k # i BY <2>2, <2>3, <2>6 DEF Ledger, ReportsApart
  <2> QED BY <2>4, <2>5, <2>6
<1>8. ClaimsApart'
  <2>1. \A k \in Workers : Claim(k)' = Claim(k) BY <1>5, <1>6
  <2>2. [k \in Workers |-> Claim(k)]' = [k \in Workers |-> Claim(k)] BY <2>1
  <2> QED BY <1>1, <2>2 DEF Ledger, ClaimsApart
<1>9. \A x \in Nat : Owed(x)' => Owed(x)
  <2>1. Queued' = Queued BY <1>1 DEF Queued
  <2>2. ASSUME NEW x \in Nat, DueWorker(i, x)' PROVE DueWorker(i, x)
    <3>1. Has(Claim(i), x) BY <1>6, <2>2 DEF DueWorker
    <3>2. PICK p \in 0 .. Len(shared) : p = wk[i].ptr /\ p = wk'[i].ptr
      BY <1>1, <1>4 DEF Stands
    <3>3. Open(p, x)
      <4>1. CASE Reported(i, x)' BY <1>1, <3>2, <4>1 DEF Open
      <4>2. CASE ~Reported(i, x)'
        <5>1. Open(p, x)' BY <2>2, <3>2, <4>2 DEF DueWorker, Open
        <5> QED BY <1>5, <5>1
      <4> QED BY <4>1, <4>2
    <3> QED BY <3>1, <3>2, <3>3 DEF DueWorker
  <2> QED BY <1>5, <2>1, <2>2 DEF Owed
<1>10. CountedOK' BY <1>1, <1>9, CountedKept DEF RangesInv, Ledger
<1>11. ChunksOK' BY <1>1, ChunksKept DEF Ledger
<1> QED BY <1>3, <1>7, <1>8, <1>10, <1>11 DEF Ledger

\* What a worker reports is its own: nobody else owes it.
LEMMA ReportIsOwn ==
  ASSUME RangesInv, Ledger, NEW i \in Workers, wk[i].pc = "publish", NEW x \in Nat,
         Reported(i, x)
  PROVE  /\ DueWorker(i, x)
         /\ \A t \in Queued : ~DueTask(t, x)
         /\ \A k \in Workers : k # i => ~DueWorker(k, x)
<1>1. /\ wk[i].at \in Nat /\ wk[i].cur \in Nat /\ wk[i].fresh \in Nat /\ wk[i].stop \in Nat
      /\ wk[i].ptr \in Nat /\ bal.end \in Nat
  BY WorkerTypes, BalancerTypes DEF RangesInv
<1>2. Reporting(i) /\ Holding(i) BY DEF Reported, Holding, Mapped, Loop
<1>3. /\ wk[i].cur + wk[i].fresh <= wk[i].at /\ wk[i].at <= wk[i].stop
      /\ Pushing(i) => wk[i].stop <= bal.end
      /\ wk[i].ptr # 0 => wk[i].at <= shared[wk[i].ptr]
  BY <1>2 DEF Ledger, PlacesOK, PlaceOK
<1>4. wk[i].at <= x + wk[i].fresh /\ x < wk[i].at BY DEF Reported
<1>5. Has(Claim(i), x) /\ Claim(i).ptr = wk[i].ptr
  <2>1. wk[i].cur <= x /\ x < wk[i].stop BY <1>1, <1>3, <1>4
  <2>2. Reach(i) \in Nat /\ x < Reach(i) BY <1>1, <1>3, <2>1 DEF Reach
  <2>3. Claim(i).off = wk[i].cur /\ Claim(i).end = Reach(i) /\ Claim(i).ptr = wk[i].ptr
    BY <1>2, ClaimTypes DEF RangesInv
  <2> QED BY <2>1, <2>2, <2>3 DEF Has
<1>6. wk[i].ptr # 0 => ~Open(wk[i].ptr, x)
  <2>1. shared \in Seq(Offsets) /\ CellsAllocated BY DEF RangesInv, RangesTypeOK
  <2>2. wk[i].ptr # 0 => wk[i].ptr \in 1 .. Len(shared)
    <3>1. Len(shared) \in Nat /\ wk[i].ptr <= Len(shared) BY <2>1 DEF CellsAllocated
    <3> QED BY <1>1, <3>1
  <2>3. wk[i].ptr # 0 => shared[wk[i].ptr] \in Nat
    <3>1. Offsets \subseteq Nat BY DEF Offsets
    <3>2. \A p \in 1 .. Len(shared) : shared[p] \in Offsets BY <2>1
    <3> QED BY <2>2, <3>1, <3>2
  <2> QED BY <1>1, <1>3, <1>4, <2>3 DEF Open
<1>7. PICK cl : cl = [k \in Workers |-> Claim(k)] OBVIOUS
<1>8. AllApart(queue, stash, cl) BY <1>7 DEF Ledger, ClaimsApart
<1>9. queue \in Seq(Tasks) BY DEF RangesInv, RangesTypeOK
<1>10. ASSUME NEW t \in Queued, DueTask(t, x) PROVE FALSE
  <2>1. Apart(t, cl[i])
    <3>1. CASE t \in stash BY <1>8, <3>1 DEF AllApart
    <3>2. CASE t \in ToSet(queue)
      <4>1. PICK j \in 1 .. Len(queue) : t = queue[j] BY <1>9, <3>2 DEF ToSet
      <4> QED BY <1>8, <4>1 DEF AllApart
    <3> QED BY <3>1, <3>2 DEF Queued
  <2>2. Has(t, x) /\ Open(t.ptr, x) BY <1>10 DEF DueTask
  <2>3. t.ptr = wk[i].ptr /\ t.ptr # 0 BY <1>5, <1>7, <2>1, <2>2 DEF Apart
  <2> QED BY <1>6, <2>2, <2>3
<1>11. ASSUME NEW k \in Workers, k # i, DueWorker(k, x) PROVE FALSE
  <2>1. Apart(cl[i], cl[k]) BY <1>8, <1>11 DEF AllApart
  <2>2. Has(Claim(k), x) /\ (Open(wk[k].ptr, x) \/ Reported(k, x)) BY <1>11 DEF DueWorker
  <2>3. Claim(k).ptr = wk[k].ptr BY <2>2, ClaimTypes DEF RangesInv
  <2>4. wk[i].ptr = wk[k].ptr /\ wk[i].ptr # 0 BY <1>5, <1>7, <2>1, <2>2, <2>3 DEF Apart
  <2>5. Reported(k, x) BY <1>6, <2>2, <2>4
  <2> QED BY <1>11, <2>4, <2>5 DEF Ledger, ReportsApart
<1>12. DueWorker(i, x) BY <1>5 DEF DueWorker
<1> QED BY <1>10, <1>11, <1>12

\* The count of a chunk after a batch.
LEMMA UpdatedChunk ==
  ASSUME ProgressOK, NEW a \in Nat, NEW b \in Nat, NEW c \in Chunks,
         NEW S, S \subseteq ChunkBytes(c), NEW T, T \subseteq ChunkBytes(c),
         S \cap BytesOf(Task(a, b, 0)) = {},
         S \cup (ChunkBytes(c) \cap BytesOf(Task(a, b, 0))) \subseteq T
  PROVE  /\ UpdateChunkStatus(a, b)[c] <= Cardinality(ChunkBytes(c))
         /\ prog[c] <= Cardinality(S) => UpdateChunkStatus(a, b)[c] <= Cardinality(T)
<1> DEFINE R == ChunkBytes(c) \cap BytesOf(Task(a, b, 0))
           n == Cardinality(ChunkBytes(c))
<1>1. UpdateChunkStatus(a, b)[c] = Lesser(n, prog[c] + Cardinality(R))
  BY DEF UpdateChunkStatus
<1>2. prog[c] \in Nat BY DEF ProgressOK
<1>3. ChunkBytes(c) \subseteq File BY DEF ChunkBytes
<1>4. R \subseteq File /\ S \subseteq File /\ T \subseteq File /\ S \cap R = {}
      /\ S \cup R \subseteq T
  BY <1>3
<1> HIDE DEF R
<1>5. /\ n \in Nat /\ IsFiniteSet(R) /\ Cardinality(R) \in Nat /\ IsFiniteSet(S)
      /\ Cardinality(S) \in Nat /\ IsFiniteSet(T) /\ Cardinality(T) \in Nat
  BY <1>3, <1>4, BytesAreFinite
<1>6. Cardinality(S) + Cardinality(R) <= Cardinality(T)
  <2>1. Cardinality(S \cup R) = Cardinality(S) + Cardinality(R) - Cardinality(S \cap R)
    BY <1>5, FS_Union
  <2>2. Cardinality(S \cap R) = 0 BY <1>4, FS_EmptySet
  <2>3. Cardinality(S \cup R) <= Cardinality(T) BY <1>4, <1>5, FS_Subset
  <2> QED BY <1>5, <2>1, <2>2, <2>3
<1>7. /\ UpdateChunkStatus(a, b)[c] \in Nat /\ UpdateChunkStatus(a, b)[c] <= n
      /\ UpdateChunkStatus(a, b)[c] <= prog[c] + Cardinality(R)
  BY <1>1, <1>2, <1>5 DEF Lesser
<1> QED BY <1>2, <1>5, <1>6, <1>7

\* What a worker reports it owed until now, and nobody owes it any longer.
LEMMA PublishLedger ==
  ASSUME RangesInv, Ledger, ProgressOK, NEW i \in Workers, Publish(i)
  PROVE  Ledger'
<1>1. /\ Turn(i) /\ wk[i].pc = "publish"
      /\ wk'[i].pc = "read" /\ wk'[i].cur = wk[i].at /\ wk'[i].at = wk[i].at
      /\ wk'[i].stop = wk[i].stop /\ wk'[i].ptr = wk[i].ptr
  BY PublishDoes DEF RangesInv
<1>2. /\ UNCHANGED <<disk, queue, shared, bal, stash>>
      /\ prog' = UpdateChunkStatus(wk[i].at - wk[i].fresh, wk[i].at)
  BY DEF Publish
<1>3. CellsGrow BY <1>2, CellsStay DEF RangesInv
<1>4. /\ Holding(i) /\ Holding(i)' /\ Reporting(i) /\ ~Reporting(i)'
      /\ (Shrinking(i)' <=> Shrinking(i)) /\ (Pushing(i)' <=> Pushing(i))
  BY <1>1, <1>2 DEF Holding, Mapped, Loop, Reporting, Shrinking, Pushing
<1>5. /\ wk[i].cur \in Nat /\ wk[i].at \in Nat /\ wk[i].fresh \in Nat /\ wk[i].stop \in Nat
      /\ wk[i].ptr \in Nat /\ bal.end \in Nat
  BY WorkerTypes, BalancerTypes DEF RangesInv
<1>6. wk[i].cur + wk[i].fresh <= wk[i].at /\ wk[i].at <= wk[i].stop
  BY <1>1, <1>4 DEF Ledger, PlacesOK, PlaceOK
<1>7. PlacesOK'
  <2>1. PlaceOK(i) BY DEF Ledger, PlacesOK
  <2>2. PlaceOK(i)' BY <1>1, <1>2, <1>4, <1>6, <2>1 DEF PlaceOK
  <2> QED BY <1>1, <1>2, <1>3, <2>2, PlacesElse DEF RangesInv, Ledger
<1>8. ReportsApart'
  <2>1. \A x \in Nat : ~Reported(i, x)' BY <1>4 DEF Reported
  <2> QED BY <1>1, <2>1, ReportsKept DEF Ledger
<1>9. /\ Claim(i).off = wk[i].cur /\ Claim(i).end = Reach(i) /\ Claim(i).ptr = wk[i].ptr
      /\ Claim(i)'.off = wk[i].at /\ Claim(i)'.end = Reach(i) /\ Claim(i)'.ptr = wk[i].ptr
      /\ Reach(i) \in Nat
  <2>1. Reach(i)' = Reach(i) BY <1>1, <1>2, <1>4 DEF Reach
  <2>2. Reach(i) \in Nat BY <1>5 DEF Reach
  <2>3. Claim(i)' = Task(wk[i].at, Reach(i), wk[i].ptr) BY <1>1, <1>4, <2>1 DEF Claim
  <2>4. Claim(i) = Task(wk[i].cur, Reach(i), wk[i].ptr) BY <1>4 DEF Claim
  <2> HIDE DEF Reach
  <2> QED BY <2>2, <2>3, <2>4 DEF Task
<1>10. wk[i].cur <= wk[i].at BY <1>5, <1>6
<1>11. \A x \in Nat : Has(Claim(i)', x) => Has(Claim(i), x) /\ wk[i].at <= x
  BY <1>5, <1>9, <1>10 DEF Has
<1>12. /\ \A k \in Workers : k # i => Claim(k)' = Claim(k)
       /\ \A x \in Nat, p \in 0 .. Len(shared) : Open(p, x)' => Open(p, x)
       /\ \A x \in Nat, t \in Queued : DueTask(t, x)' => DueTask(t, x)
       /\ \A x \in Nat, k \in Workers : k # i => (DueWorker(k, x)' => DueWorker(k, x))
  <2>1. 0 \in Nat OBVIOUS
  <2> QED BY <1>1, <1>2, <1>3, <2>1, DueElse DEF RangesInv
<1>13. ClaimsApart'
  <2>1. PICK cl, cl2 : cl = [k \in Workers |-> Claim(k)] /\ cl2 = [k \in Workers |-> Claim(k)']
    OBVIOUS
  <2>2. AllApart(queue, stash, cl) BY <2>1 DEF Ledger, ClaimsApart
  <2>3. Within(Claim(i)', Claim(i)) BY <1>9, <1>11 DEF Within
  <2>4. \A k \in Workers : Within(cl2[k], cl[k]) BY <1>12, <2>1, <2>3, WithinItself
  <2>5. queue \in Seq(Tasks) BY DEF RangesInv, RangesTypeOK
  <2>6. \A j \in 1 .. Len(queue) : j + 0 \in 1 .. Len(queue) /\ queue[j] = queue[j + 0]
    BY <2>5
  <2>7. Len(queue) \in Nat BY <2>5
  <2>8. AllApart(queue, stash, cl2) BY <2>2, <2>4, <2>6, <2>7, ShrinkApart
  <2> QED BY <1>2, <2>1, <2>8 DEF ClaimsApart
<1>14. Queued' = Queued BY <1>2 DEF Queued
<1>15. ASSUME NEW x \in Nat, DueWorker(i, x)' PROVE DueWorker(i, x) /\ wk[i].at <= x
  <2>1. Has(Claim(i), x) /\ wk[i].at <= x BY <1>11, <1>15 DEF DueWorker
  <2>2. ~Reported(i, x)' BY <1>4 DEF Reported
  <2>3. Open(wk[i].ptr, x) BY <1>1, <1>2, <1>15, <2>2 DEF DueWorker, Open
  <2> QED BY <2>1, <2>3 DEF DueWorker
<1>16. \A x \in Nat : Owed(x)' => Owed(x) BY <1>12, <1>14, <1>15 DEF Owed
<1>17. \A x \in Nat : Reported(i, x) => Owed(x) /\ ~Owed(x)'
  <2> SUFFICES ASSUME NEW x \in Nat, Reported(i, x) PROVE Owed(x) /\ ~Owed(x)'
    OBVIOUS
  <2>1. /\ DueWorker(i, x) /\ (\A t \in Queued : ~DueTask(t, x))
        /\ \A k \in Workers : k # i => ~DueWorker(k, x)
    BY <1>1, ReportIsOwn
  <2>2. x < wk[i].at BY DEF Reported
  <2>3. ~DueWorker(i, x)' BY <1>5, <1>15, <2>2
  <2> QED BY <1>12, <1>14, <2>1, <2>3 DEF Owed
<1> DEFINE from == wk[i].at - wk[i].fresh
<1>18. from \in Nat /\ (\A x \in File : x \in BytesOf(Task(from, wk[i].at, 0)) => Reported(i, x))
  <2>1. from \in Nat BY <1>5, <1>6
  <2>2. ASSUME NEW x \in File, x \in BytesOf(Task(from, wk[i].at, 0)) PROVE Reported(i, x)
    <3>1. x \in Nat /\ from <= x /\ x < wk[i].at
      BY <2>2, RangesAssumption DEF BytesOf, Task, File
    <3> QED BY <1>4, <1>5, <2>1, <3>1 DEF Reported
  <2> QED BY <2>1, <2>2
<1> HIDE DEF from
<1>19. ASSUME NEW c \in Chunks
       PROVE  /\ prog'[c] <= Cardinality(ChunkBytes(c))
              /\ ChunkBytes(c) \subseteq disk' \/ prog'[c] <= Cardinality(Settles(c)')
  <2>1. ChunkBytes(c) \subseteq File /\ File \subseteq Nat
    BY RangesAssumption DEF ChunkBytes, File
  <2>2. PICK S, T : S = Settles(c) /\ T = Settles(c)' OBVIOUS
  <2>3. S \subseteq ChunkBytes(c) /\ T \subseteq ChunkBytes(c) BY <2>2 DEF Settles
  <2>4. S \cap BytesOf(Task(from, wk[i].at, 0)) = {}
    BY <1>17, <1>18, <2>1, <2>2 DEF Settles
  <2>5. S \cup (ChunkBytes(c) \cap BytesOf(Task(from, wk[i].at, 0))) \subseteq T
    BY <1>16, <1>17, <1>18, <2>1, <2>2 DEF Settles
  <2>6. prog'[c] = UpdateChunkStatus(from, wk[i].at)[c] BY <1>2 DEF from
  <2>7. /\ prog'[c] <= Cardinality(ChunkBytes(c))
        /\ prog[c] <= Cardinality(S) => prog'[c] <= Cardinality(T)
    BY <1>5, <1>18, <2>3, <2>4, <2>5, <2>6, UpdatedChunk
  <2>8. ChunkBytes(c) \subseteq disk \/ prog[c] <= Cardinality(S)
    BY <2>2 DEF Ledger, CountedOK
  <2> QED BY <1>2, <2>2, <2>7, <2>8
<1>20. CountedOK' /\ ChunksOK' BY <1>19 DEF CountedOK, ChunksOK
<1> QED BY <1>7, <1>8, <1>13, <1>20 DEF Ledger

-----------------------------------------------------------------------------
(* Monitors, controllers and the balancer. *)

\* Where a worker is, and what it reports.
Keeps(j) ==
  /\ wk'[j].pc = wk[j].pc /\ wk'[j].cur = wk[j].cur /\ wk'[j].ptr = wk[j].ptr
  /\ wk'[j].at = wk[j].at /\ wk'[j].fresh = wk[j].fresh

\* The claims are as they were.
LEMMA SameClaims ==
  ASSUME RangesInv, Ledger, ProgressOK, \A j \in Workers : Keeps(j) /\ Claim(j)' = Claim(j),
         PlacesOK', UNCHANGED <<shared, prog>>, stash' = stash, disk \subseteq disk',
         queue' = queue \/ queue' = <<>>
  PROVE  Ledger'
<1>1. ASSUME NEW j \in Workers, NEW x \in Nat
      PROVE  /\ Reported(j, x)' <=> Reported(j, x)
             /\ DueWorker(j, x)' <=> DueWorker(j, x)
  <2>1. Reported(j, x)' <=> Reported(j, x) BY DEF Keeps, Reported, Reporting
  <2>2. Open(wk[j].ptr, x)' <=> Open(wk[j].ptr, x) BY DEF Keeps, Open
  <2> QED BY <2>1, <2>2 DEF DueWorker
<1>2. ReportsApart' BY <1>1 DEF ReportsApart, Ledger, Keeps
<1>3. ClaimsApart'
  <2>1. PICK cl : cl = [k \in Workers |-> Claim(k)] OBVIOUS
  <2>2. cl = [k \in Workers |-> Claim(k)'] BY <2>1
  <2>3. AllApart(queue, stash, cl) BY <2>1 DEF Ledger, ClaimsApart
  <2>4. AllApart(queue', stash, cl)
    <3>1. CASE queue' = queue BY <2>3, <3>1
    <3>2. CASE queue' = <<>>
      <4>1. Len(queue') = 0 BY <3>2
      <4>2. ASSUME NEW j \in 1 .. Len(queue') PROVE FALSE BY <4>1
      <4> QED BY <2>3, <4>2 DEF AllApart
    <3> QED BY <3>1, <3>2
  <2> QED BY <2>2, <2>4 DEF ClaimsApart
<1>4. Queued' \subseteq Queued
  <2>1. CASE queue' = queue BY <2>1 DEF Queued
  <2>2. CASE queue' = <<>>
    <3>1. ToSet(queue') = {} BY <2>2 DEF ToSet
    <3> QED BY <3>1 DEF Queued
  <2> QED BY <2>1, <2>2
<1>5. \A x \in Nat : Owed(x)' => Owed(x)
  <2>1. \A x \in Nat, t \in Queued : DueTask(t, x)' => DueTask(t, x) BY DEF DueTask, Open
  <2> QED BY <1>1, <1>4, <2>1 DEF Owed
<1>6. CountedOK' BY <1>5, CountedKept DEF RangesInv, Ledger
<1>7. ChunksOK' BY ChunksKept DEF Ledger
<1> QED BY <1>2, <1>3, <1>6, <1>7 DEF Ledger

\* Nobody moves.
LEMMA StillLedger ==
  ASSUME RangesInv, Ledger, ProgressOK,
         \A j \in Workers : Keeps(j) /\ wk'[j].stop = wk[j].stop,
         \/ bal' = bal
         \/ /\ bal.pc # "push" /\ bal'.pc # "push"
            /\ bal'.pc = "shrink" => \A j \in bal'.victim \cap Workers : Holding(j),
         UNCHANGED <<shared, prog>>, stash' = stash, disk \subseteq disk',
         queue' = queue \/ queue' = <<>>
  PROVE  Ledger'
<1>1. ASSUME NEW j \in Workers
      PROVE  Claim(j)' = Claim(j) /\ PlaceOK(j)'
  <2>1. (Holding(j)' <=> Holding(j)) /\ (Reporting(j)' <=> Reporting(j))
    BY DEF Keeps, Holding, Reporting
  <2>2. /\ Pushing(j)' <=> Pushing(j)
        /\ Pushing(j) => bal' = bal
        /\ Shrinking(j)' => Shrinking(j) \/ Holding(j)
    BY DEF Pushing, Shrinking
  <2>3. Claim(j)' = Claim(j) BY <2>1, <2>2 DEF Claim, Reach, Keeps
  <2>4. PlaceOK(j) BY DEF Ledger, PlacesOK
  <2>5. PlaceOK(j)' BY <2>1, <2>2, <2>4 DEF PlaceOK, Keeps
  <2> QED BY <2>3, <2>5
<1>2. PlacesOK' BY <1>1 DEF PlacesOK
<1> QED BY <1>1, <1>2, SameClaims

\* The balancer's state changes alone.
LEMMA LooksLedger ==
  ASSUME RangesInv, Ledger, ProgressOK, UNCHANGED <<disk, prog, queue, shared, wk, stash>>,
         \/ bal' = bal
         \/ /\ bal.pc # "push" /\ bal'.pc # "push"
            /\ bal'.pc = "shrink" => \A j \in bal'.victim \cap Workers : Holding(j)
  PROVE  Ledger'
<1>1. \A j \in Workers : Keeps(j) /\ wk'[j].stop = wk[j].stop BY DEF Keeps
<1> QED BY <1>1, StillLedger

\* The monitor empties the queue, nobody moves.
LEMMA MonitorCompleteDoes ==
  ASSUME RangesInv, MonitorComplete
  PROVE  /\ \A j \in Workers : Keeps(j) /\ wk'[j].stop = wk[j].stop
         /\ Whole /\ queue' = <<>> /\ UNCHANGED <<disk, prog, shared, bal, stash>>
<1>1. /\ Whole /\ queue' = <<>>
      /\ wk' = [i \in Workers |->
                  IF wk[i].pc \in Loop THEN [wk[i] EXCEPT !.killed = TRUE] ELSE wk[i]]
      /\ UNCHANGED <<disk, prog, shared, bal, stash>>
  BY DEF MonitorComplete
<1>2. wk \in [Workers -> Entries] BY DEF RangesInv, RangesTypeOK
<1>3. \A j \in Workers : Keeps(j) /\ wk'[j].stop = wk[j].stop
  <2> SUFFICES ASSUME NEW j \in Workers PROVE Keeps(j) /\ wk'[j].stop = wk[j].stop
    OBVIOUS
  <2>1. wk[j] \in Entries BY <1>2
  <2>2. wk'[j] = wk[j] \/ wk'[j] = [wk[j] EXCEPT !.killed = TRUE] BY <1>1
  <2>3. CASE wk'[j] = wk[j] BY <2>3 DEF Keeps
  <2>4. CASE wk'[j] = [wk[j] EXCEPT !.killed = TRUE] BY <2>1, <2>4 DEF Keeps, Entries
  <2> QED BY <2>2, <2>3, <2>4
<1> QED BY <1>1, <1>3

\* The monitor's step.
LEMMA MonitorCompleteLedger ==
  ASSUME RangesInv, Ledger, ProgressOK, MonitorComplete
  PROVE  Ledger'
BY MonitorCompleteDoes, StillLedger

\* A victim is chosen: it holds its task.
LEMMA StealScanLedger ==
  ASSUME RangesInv, Ledger, ProgressOK, ~Torn, StealScan
  PROVE  Ledger'
<1>1. PICK i \in Stealable :
        /\ Settled(i, {"requeued"})
        /\ bal' = [bal EXCEPT !.pc = "shrink", !.victim = {i},
                     !.split = RemainingBytes(i) \div 2, !.cur = wk[i].cur]
  BY DEF StealScan
<1>2. bal.pc = "tick" /\ UNCHANGED <<disk, prog, queue, shared, wk, stash>>
  BY DEF StealScan
<1>3. i \in Workers /\ wk[i].pc \in Mapped BY DEF Stealable, Most, Active
<1>4. Holding(i) BY <1>1, <1>3 DEF Settled, Holding
<1>5. bal \in Balancer BY DEF RangesInv, RangesTypeOK
<1>6. bal'.pc = "shrink" /\ bal'.victim = {i} BY <1>1, <1>5 DEF Balancer
<1> QED BY <1>2, <1>4, <1>6, LooksLedger

\* The looks that end.
LEMMA TicksLook ==
  ASSUME RangesInv,
         Tick \/ TickEnds \/ SweepEnds \/ MonitorCancelled \/ Pause \/ Finish \/ SaveSnapshot
  PROVE  /\ UNCHANGED <<disk, prog, queue, shared, wk, stash>>
         /\ bal' = bal \/ (bal.pc # "push" /\ bal'.pc \notin {"push", "shrink"})
<1>1. bal \in Balancer BY DEF RangesInv, RangesTypeOK
<1>2. CASE Tick
  <2>1. /\ bal.pc = "off" /\ bal'.pc = "tick"
        /\ UNCHANGED <<disk, prog, queue, shared, wk, stash>>
    <3> DEFINE sweep == ActiveRest \in 1 .. Cardinality(Active) * TailChunk - 1
    <3>1. bal' = [bal EXCEPT !.pc = "tick", !.sweep = sweep] BY <1>2 DEF Tick
    <3> HIDE DEF sweep
    <3>2. bal'.pc = "tick" BY <1>1, <3>1 DEF Balancer
    <3> QED BY <1>2, <3>2 DEF Tick
  <2> QED BY <2>1
<1>3. CASE TickEnds
  <2>1. /\ bal.pc \in {"tick", "unsplit"} /\ bal'.pc \in {"sweep", "off"}
        /\ UNCHANGED <<disk, prog, queue, shared, wk, stash>>
    <3> DEFINE pc == IF bal.sweep THEN "sweep" ELSE "off"
    <3>1. bal' = [bal EXCEPT !.pc = pc] /\ pc \in {"sweep", "off"} BY <1>3 DEF TickEnds
    <3> HIDE DEF pc
    <3>2. bal'.pc \in {"sweep", "off"} BY <1>1, <3>1 DEF Balancer
    <3> QED BY <1>3, <3>2 DEF TickEnds
  <2> QED BY <2>1
<1>4. CASE SweepEnds
  <2>1. /\ bal.pc = "sweep" /\ bal'.pc = "off"
        /\ UNCHANGED <<disk, prog, queue, shared, wk, stash>>
    BY <1>4 DEF SweepEnds, Resting
  <2> QED BY <2>1
<1>5. CASE MonitorCancelled \/ Pause \/ Finish \/ SaveSnapshot
  <2>1. UNCHANGED <<disk, prog, queue, shared, wk, bal, stash>>
    BY <1>5 DEF MonitorCancelled, Pause, Finish, SaveSnapshot
  <2> QED BY <2>1
<1> QED BY <1>2, <1>3, <1>4, <1>5

\* Their steps.
LEMMA TicksLedger ==
  ASSUME RangesInv, Ledger, ProgressOK,
         Tick \/ TickEnds \/ SweepEnds \/ MonitorCancelled \/ Pause \/ Finish \/ SaveSnapshot
  PROVE  Ledger'
<1>1. /\ UNCHANGED <<disk, prog, queue, shared, wk, stash>>
      /\ bal' = bal \/ (bal.pc # "push" /\ bal'.pc \notin {"push", "shrink"})
  BY TicksLook
<1> QED BY <1>1, LooksLedger

\* The old StopAt is still the end of the victim's claim.
LEMMA StealShrinkClaims ==
  ASSUME RangesInv, Ledger, ~Torn, StealShrink
  PROVE  /\ \A j \in Workers : Keeps(j) /\ Claim(j)' = Claim(j)
         /\ PlacesOK' /\ UNCHANGED <<disk, prog, queue, shared, stash>>
<1>1. bal \in Balancer BY DEF RangesInv, RangesTypeOK
<1>2. bal.pc = "shrink" /\ UNCHANGED <<disk, prog, queue, shared, stash>> BY DEF StealShrink
<1>3. PICK i \in bal.victim : \E cur \in {bal.cur, wk[i].cur} :
           /\ Settled(i, {"publish"})
           /\ \/ /\ wk' = [wk EXCEPT ![i].stop = cur + bal.split]
                 /\ bal' = [bal EXCEPT !.pc = "push", !.end = wk[i].stop]
                 /\ Torn \/ (wk[i].cur <= cur + bal.split /\ cur + bal.split <= wk[i].stop)
              \/ wk' = wk /\ bal' = [bal EXCEPT !.pc = "unsplit"]
  BY ShrinkDoes
<1>4. i \in Workers /\ bal.victim = {i} BY <1>2, <1>3 DEF RangesInv, VictimOK
<1>5. CASE wk' = wk /\ bal' = [bal EXCEPT !.pc = "unsplit"]
  <2>1. bal'.pc = "unsplit" BY <1>1, <1>5 DEF Balancer
  <2>2. ASSUME NEW j \in Workers PROVE Keeps(j) /\ Claim(j)' = Claim(j) /\ PlaceOK(j)'
    <3>1. ~Pushing(j) /\ ~Pushing(j)' /\ ~Shrinking(j)' BY <1>2, <2>1 DEF Pushing, Shrinking
    <3>2. (Holding(j)' <=> Holding(j)) /\ (Reporting(j)' <=> Reporting(j))
      BY <1>5 DEF Holding, Reporting
    <3>3. Claim(j)' = Claim(j) BY <1>5, <3>1, <3>2 DEF Claim, Reach
    <3>4. PlaceOK(j) BY DEF Ledger, PlacesOK
    <3> QED BY <1>2, <1>5, <3>1, <3>2, <3>3, <3>4 DEF PlaceOK, Keeps
  <2> QED BY <1>2, <2>2 DEF PlacesOK
<1>6. CASE bal' = [bal EXCEPT !.pc = "push", !.end = wk[i].stop]
  <2>0. bal' # [bal EXCEPT !.pc = "unsplit"] BY <1>1, <1>6 DEF Balancer
  <2>1. PICK stop : /\ wk' = [wk EXCEPT ![i].stop = stop]
                    /\ wk[i].cur <= stop /\ stop <= wk[i].stop
                    /\ \E cur \in {bal.cur, wk[i].cur} : stop = cur + bal.split
                    /\ wk[i].pc # "publish"
    BY <1>3, <2>0 DEF Settled
  <2>2. wk[i].cur \in Nat /\ wk[i].stop \in Nat /\ bal.cur \in Nat /\ bal.split \in Nat
    BY <1>4, WorkerTypes, BalancerTypes DEF RangesInv
  <2>3. stop \in Nat BY <2>1, <2>2
  <2>4. Turn(i) /\ wk'[i] = [wk[i] EXCEPT !.stop = stop]
    BY <1>4, <2>1, <2>3, StopMovesDoes DEF RangesInv
  <2>5. wk[i] \in Entries BY <1>4 DEF RangesInv, RangesTypeOK
  <2>6. Keeps(i) /\ wk'[i].stop = stop BY <2>4, <2>5 DEF Keeps, Entries
  <2>7. \A j \in Workers : j # i => wk'[j] = wk[j] BY <2>4 DEF Turn
  <2>8. \A j \in Workers : Keeps(j) BY <2>6, <2>7 DEF Keeps
  <2>9. bal'.pc = "push" /\ bal'.victim = {i} /\ bal'.end = wk[i].stop
    BY <1>1, <1>4, <1>6 DEF Balancer
  <2>10. ASSUME NEW j \in Workers PROVE Claim(j)' = Claim(j) /\ PlaceOK(j)'
    <3>1. ~Pushing(j) /\ (Shrinking(j) <=> j = i) /\ ~Shrinking(j)' /\ (Pushing(j)' <=> j = i)
      BY <1>2, <1>4, <2>9 DEF Pushing, Shrinking
    <3>2. (Holding(j)' <=> Holding(j)) /\ (Reporting(j)' <=> Reporting(j))
      BY <2>8 DEF Keeps, Holding, Reporting
    <3>3. Reach(j)' = Reach(j) BY <2>7, <2>9, <3>1 DEF Reach
    <3>4. Claim(j)' = Claim(j) BY <2>8, <3>2, <3>3 DEF Claim, Keeps
    <3>5. PlaceOK(j) BY DEF Ledger, PlacesOK
    <3>6. CASE j = i
      <4>1. wk'[i].pc # "publish" BY <2>1, <2>6 DEF Keeps
      <4>2. Holding(i) BY <3>1, <3>5, <3>6 DEF PlaceOK
      <4>3. wk'[i].cur <= wk'[i].stop /\ wk'[i].stop <= bal'.end
        BY <2>1, <2>6, <2>9 DEF Keeps
      <4>4. Holding(i)' BY <3>2, <3>6, <4>2
      <4>5. Reporting(i)' => /\ wk'[i].cur + wk'[i].fresh <= wk'[i].at
                             /\ wk'[i].ptr # 0 => wk'[i].at <= shared'[wk'[i].ptr]
        BY <1>2, <2>6, <3>2, <3>5, <3>6 DEF PlaceOK, Keeps
      <4> QED BY <3>4, <3>6, <4>1, <4>3, <4>4, <4>5 DEF PlaceOK
    <3>7. CASE j # i
      <4>1. wk'[j] = wk[j] BY <2>7, <3>7
      <4> QED BY <1>2, <3>1, <3>2, <3>4, <3>5, <3>7, <4>1 DEF PlaceOK
    <3> QED BY <3>6, <3>7
  <2>11. PlacesOK' BY <2>10 DEF PlacesOK
  <2> QED BY <1>2, <2>8, <2>10, <2>11
<1> QED BY <1>3, <1>5, <1>6

\* So the ledger stands.
LEMMA StealShrinkLedger ==
  ASSUME RangesInv, Ledger, ProgressOK, ~Torn, StealShrink
  PROVE  Ledger'
BY StealShrinkClaims, SameClaims

\* Task t is cut off the claim of worker i and queued.
CutsOff(i, t) ==
  /\ queue' = Append(queue, t) /\ wk' = wk
  /\ t.ptr = 0 /\ wk[i].ptr = 0 /\ Claim(i).ptr = 0 /\ Claim(i)'.ptr = 0
  /\ \A j \in Workers : j # i => Claim(j)' = Claim(j)
  /\ \A x \in Nat :
       /\ Has(t, x) => Has(Claim(i), x) /\ ~Has(Claim(i)', x)
       /\ Has(Claim(i)', x) => Has(Claim(i), x)
       /\ Has(Claim(i), x) => Has(t, x) \/ Has(Claim(i)', x)

\* What the steal cut off goes from the victim's claim to the queue, or the
\* claims are as they were.
LEMMA StealPushDoes ==
  ASSUME RangesInv, Ledger, StealPush
  PROVE  /\ PlacesOK' /\ UNCHANGED <<disk, prog, shared, stash>>
         /\ \/ queue' = queue /\ \A j \in Workers : Keeps(j) /\ Claim(j)' = Claim(j)
            \/ \E i \in Workers, t \in Tasks : CutsOff(i, t)
<1> DEFINE from(i) == Greater(wk[i].cur, wk[i].stop)
<1>1. PICK i \in bal.victim :
        IF from(i) >= bal.end
        THEN /\ wk' = [wk EXCEPT ![i].stop = bal.end]
             /\ bal' = [bal EXCEPT !.pc = "unsplit"]
             /\ UNCHANGED queue
        ELSE /\ queue' = Append(queue, Task(from(i), bal.end, 0))
             /\ bal' = [bal EXCEPT !.pc = "tick"]
             /\ UNCHANGED wk
  BY DEF StealPush
<1>2. bal.pc = "push" /\ UNCHANGED <<disk, prog, shared, stash>> BY DEF StealPush
<1>3. bal \in Balancer BY DEF RangesInv, RangesTypeOK
<1>4. i \in Workers /\ bal.victim = {i} /\ wk[i].pc \in Mapped /\ ~wk[i].hedged
  BY <1>1, <1>2 DEF RangesInv, VictimOK
<1>5. /\ bal.end \in Nat /\ wk[i].cur \in Nat /\ wk[i].stop \in Nat /\ wk[i].ptr \in Nat
      /\ wk[i].end \in Nat /\ wk[i].end <= Size /\ Size \in Nat
  BY <1>4, WorkerTypes, BalancerTypes, RangesAssumption DEF RangesInv
<1>6. wk[i].ptr = 0 BY <1>4 DEF RangesInv, CellsAllocated
<1>7. \A j \in Workers : ~Shrinking(j) /\ (Pushing(j) <=> j = i)
  BY <1>2, <1>4 DEF Pushing, Shrinking
<1>8. bal'.pc \in {"unsplit", "tick"} BY <1>1, <1>3 DEF Balancer
<1>9. \A j \in Workers : ~Shrinking(j)' /\ ~Pushing(j)' BY <1>8 DEF Pushing, Shrinking
<1>10. Holding(i) /\ wk[i].cur <= wk[i].stop /\ wk[i].stop <= bal.end
  BY <1>4, <1>7 DEF Ledger, PlacesOK, PlaceOK
<1>11. from(i) = wk[i].stop BY <1>5, <1>10 DEF Greater
<1>12. bal.end <= wk[i].end BY <1>4, <1>7 DEF RangesInv, OwnOK, Own, StopInTask
<1> HIDE DEF from
<1>13. CASE wk[i].stop >= bal.end
  <2>1. wk[i].stop = bal.end BY <1>5, <1>10, <1>13
  <2>2. wk' = [wk EXCEPT ![i].stop = bal.end] /\ queue' = queue BY <1>1, <1>11, <1>13
  <2>3. Turn(i) /\ wk'[i] = [wk[i] EXCEPT !.stop = bal.end]
    BY <1>4, <1>5, <2>2, StopMovesDoes DEF RangesInv
  <2>4. wk[i] \in Entries BY <1>4 DEF RangesInv, RangesTypeOK
  <2>5. Keeps(i) /\ wk'[i].stop = bal.end BY <2>3, <2>4 DEF Keeps, Entries
  <2>6. \A j \in Workers : Keeps(j) /\ wk'[j].stop = wk[j].stop
    BY <2>1, <2>3, <2>5 DEF Turn, Keeps
  <2>7. ASSUME NEW j \in Workers PROVE Claim(j)' = Claim(j) /\ PlaceOK(j)'
    <3>1. (Holding(j)' <=> Holding(j)) /\ (Reporting(j)' <=> Reporting(j))
      BY <2>6 DEF Keeps, Holding, Reporting
    <3>2. Reach(j)' = Reach(j) BY <1>7, <1>9, <2>1, <2>6 DEF Reach
    <3>3. Claim(j)' = Claim(j) BY <2>6, <3>1, <3>2 DEF Claim, Keeps
    <3>4. PlaceOK(j) BY DEF Ledger, PlacesOK
    <3> QED BY <1>2, <1>9, <2>6, <3>1, <3>3, <3>4 DEF PlaceOK, Keeps
  <2>8. PlacesOK' BY <2>7 DEF PlacesOK
  <2> QED BY <1>2, <2>2, <2>6, <2>7, <2>8
<1>14. CASE ~(wk[i].stop >= bal.end)
  <2>1. PICK t : t = Task(wk[i].stop, bal.end, 0) OBVIOUS
  <2>2. queue' = Append(queue, t) /\ wk' = wk BY <1>1, <1>11, <1>14, <2>1
  <2>3. t \in Tasks /\ t.off = wk[i].stop /\ t.end = bal.end /\ t.ptr = 0
    <3>1. wk[i].stop < bal.end /\ wk[i].stop \in Offsets /\ bal.end \in Offsets
      BY <1>5, <1>12, <1>14 DEF Offsets
    <3> QED BY <1>5, <2>1, <3>1 DEF Tasks, Task
  <2>4. ASSUME NEW j \in Workers PROVE PlaceOK(j)' /\ (j # i => Claim(j)' = Claim(j))
    <3>1. (Holding(j)' <=> Holding(j)) /\ (Reporting(j)' <=> Reporting(j))
      BY <2>2 DEF Holding, Reporting
    <3>2. j # i => Claim(j)' = Claim(j) BY <1>7, <1>9, <2>2, <3>1 DEF Claim, Reach
    <3>3. PlaceOK(j) BY DEF Ledger, PlacesOK
    <3>4. PlaceOK(j)' BY <1>2, <1>9, <2>2, <3>1, <3>3 DEF PlaceOK
    <3> QED BY <3>2, <3>4
  <2>5. Holding(i)' BY <1>10, <2>2 DEF Holding
  <2>6. /\ Claim(i) = Task(wk[i].cur, bal.end, 0)
        /\ Claim(i)' = Task(wk[i].cur, wk[i].stop, 0)
    BY <1>4, <1>6, <1>7, <1>9, <1>10, <2>2, <2>5 DEF Claim, Reach
  <2>7. /\ Claim(i).off = wk[i].cur /\ Claim(i).end = bal.end /\ Claim(i).ptr = 0
        /\ Claim(i)'.off = wk[i].cur /\ Claim(i)'.end = wk[i].stop /\ Claim(i)'.ptr = 0
    BY <2>6 DEF Task
  <2>8. \A x \in Nat : /\ Has(t, x) => Has(Claim(i), x) /\ ~Has(Claim(i)', x)
                       /\ Has(Claim(i)', x) => Has(Claim(i), x)
                       /\ Has(Claim(i), x) => Has(t, x) \/ Has(Claim(i)', x)
    BY <1>5, <1>10, <2>3, <2>7 DEF Has
  <2>9. CutsOff(i, t) BY <1>6, <2>2, <2>3, <2>4, <2>7, <2>8 DEF CutsOff
  <2>10. PlacesOK' BY <2>4 DEF PlacesOK
  <2> QED BY <1>2, <1>4, <2>3, <2>9, <2>10
<1> QED BY <1>13, <1>14

\* So the ledger stands.
LEMMA StealPushLedger ==
  ASSUME RangesInv, Ledger, ProgressOK, StealPush
  PROVE  Ledger'
<1>1. PlacesOK' /\ UNCHANGED <<disk, prog, shared, stash>> BY StealPushDoes
<1>2. CASE queue' = queue /\ \A j \in Workers : Keeps(j) /\ Claim(j)' = Claim(j)
  BY <1>1, <1>2, SameClaims
<1>3. CASE \E i \in Workers, t \in Tasks : CutsOff(i, t)
  <2>1. PICK i \in Workers, t \in Tasks : CutsOff(i, t) BY <1>3
  <2>2. /\ queue' = Append(queue, t) /\ wk' = wk /\ wk[i].ptr = 0
        /\ \A j \in Workers : j # i => Claim(j)' = Claim(j)
        /\ \A x \in Nat : /\ Has(t, x) => Has(Claim(i), x) /\ ~Has(Claim(i)', x)
                          /\ Has(Claim(i)', x) => Has(Claim(i), x)
    BY <2>1 DEF CutsOff
  <2>3. Within(t, Claim(i)) /\ Within(Claim(i)', Claim(i)) /\ Apart(t, Claim(i)')
    BY <2>1, <2>2 DEF CutsOff, Within, Apart
  <2>4. queue \in Seq(Tasks) BY DEF RangesInv, RangesTypeOK
  <2>5. ClaimsApart'
    <3>1. PICK cl, cl2 : cl = [k \in Workers |-> Claim(k)] /\ cl2 = [k \in Workers |-> Claim(k)']
      OBVIOUS
    <3>2. AllApart(queue, stash, cl) BY <3>1 DEF Ledger, ClaimsApart
    <3>3. \A k \in Workers : Within(cl2[k], cl[k])
      BY <2>2, <2>3, <3>1, WithinItself
    <3>4. Within(t, cl[i]) /\ Apart(t, cl2[i]) BY <2>3, <3>1
    <3>5. AllApart(Append(queue, t), stash, cl2)
      BY <2>4, <3>2, <3>3, <3>4, AppendApart
    <3> QED BY <1>1, <2>2, <3>1, <3>5 DEF ClaimsApart
  <2>6. \A j \in Workers, x \in Nat : Reported(j, x)' <=> Reported(j, x)
    BY <2>2 DEF Reported, Reporting
  <2>7. ReportsApart' BY <2>2, <2>6 DEF ReportsApart, Ledger
  <2>8. \A x \in Nat : Owed(x)' => Owed(x)
    <3>1. Queued' \subseteq Queued \cup {t} BY <1>1, <2>2, <2>4, TaskAppended DEF Queued
    <3>2. ASSUME NEW x \in Nat, NEW s \in Queued', DueTask(s, x)' PROVE Owed(x)
      <4>1. DueTask(s, x) BY <1>1, <3>2 DEF DueTask, Open
      <4>2. CASE s \in Queued BY <4>1, <4>2 DEF Owed
      <4>3. CASE s = t
        <5>1. DueWorker(i, x) BY <2>2, <4>1, <4>3 DEF DueWorker, DueTask, Open
        <5> QED BY <5>1 DEF Owed
      <4> QED BY <3>1, <4>2, <4>3
    <3>3. ASSUME NEW x \in Nat, NEW j \in Workers, DueWorker(j, x)' PROVE DueWorker(j, x)
      <4>1. Has(Claim(j), x) BY <2>2, <3>3 DEF DueWorker
      <4>2. Open(wk[j].ptr, x) \/ Reported(j, x)
        BY <1>1, <2>2, <2>6, <3>3 DEF DueWorker, Open
      <4> QED BY <4>1, <4>2 DEF DueWorker
    <3> QED BY <3>2, <3>3 DEF Owed
  <2>9. CountedOK' BY <1>1, <2>8, CountedKept DEF RangesInv, Ledger
  <2>10. ChunksOK' BY <1>1, ChunksKept DEF Ledger
  <2> QED BY <1>1, <2>5, <2>7, <2>9, <2>10 DEF Ledger
<1> QED BY <1>2, <1>3, StealPushDoes

\* Nothing meets when a claim and a task that repeats it belong to a new race.
LEMMA JoinApart ==
  ASSUME NEW q \in Seq(Tasks), NEW st, NEW cl, AllApart(q, st, cl),
         NEW t \in Tasks, NEW cl2, NEW i \in Workers, t.ptr # 0, cl2[i].ptr = t.ptr,
         Within(t, cl[i]), \A k \in Workers : Within(cl2[k], cl[k])
  PROVE  AllApart(Append(q, t), st, cl2)
<1>1. Apart(t, cl2[i]) BY DEF Apart
<1> QED BY <1>1, AppendApart

\* The claim of worker i becomes a race with task t, over a new cell.
Joins(i, t) ==
  /\ t.ptr = Len(shared) + 1 /\ shared'[t.ptr] = wk[i].cur
  /\ \A p \in 1 .. Len(shared) : shared'[p] = shared[p]
  /\ queue' = Append(queue, t) /\ t.off = wk[i].cur
  /\ Holding(i) /\ ~Reporting(i) /\ wk[i].ptr = 0
  /\ Holding(i)' /\ ~Reporting(i)' /\ wk'[i].ptr = t.ptr /\ wk'[i].cur = wk[i].cur
  /\ Claim(i)'.ptr = t.ptr
  /\ \A x \in Nat : /\ Has(t, x) <=> Has(Claim(i), x)
                    /\ Has(Claim(i)', x) <=> Has(Claim(i), x)
                    /\ Has(Claim(i), x) => wk[i].cur <= x
  /\ \A j \in Workers : j # i => wk'[j] = wk[j] /\ Claim(j)' = Claim(j)

\* A race is one of the rest of a worker outside the windows.
LEMMA RaceDoes ==
  ASSUME RangesInv, Ledger, ~Torn, NEW i \in Hedgeable,
         NEW next \in {"tick", "sweep"}, Race(i, next),
         bal.pc \in {"tick", "unsplit", "sweep"}
  PROVE  i \in Workers /\ PlacesOK' /\ \E t \in Tasks : Joins(i, t)
<1>1. /\ i \in Workers /\ wk[i].pc \in Mapped /\ ~wk[i].hedged
      /\ RemainingBytes(i) \in 1 .. MaxHedge - 1
  BY DEF Hedgeable, Active
<1>2. wk[i].ptr = 0 BY <1>1 DEF RangesInv, CellsAllocated
<1>3. CurrentOffset(i) = wk[i].cur BY <1>2 DEF CurrentOffset
<1>4. /\ wk[i].cur \in Nat /\ wk[i].cur \in Offsets /\ wk[i].stop \in Nat /\ wk[i].end \in Nat
      /\ wk[i].end <= Size /\ Size \in Nat /\ MaxHedge \in Nat
  BY <1>1, WorkerTypes, RangesAssumption DEF RangesInv
<1>5. wk[i].pc \notin {"clamp", "publish", "requeued"} BY DEF Race, Settled
<1>6. Holding(i) /\ ~Reporting(i) BY <1>1, <1>5 DEF Holding, Reporting
<1>7. \A j \in Workers : ~Shrinking(j) /\ ~Pushing(j) BY DEF Shrinking, Pushing
<1>8. wk[i].cur <= wk[i].stop /\ wk[i].stop <= wk[i].end
  <2>1. PlaceOK(i) /\ StopInTask(i) BY <1>1 DEF Ledger, PlacesOK, RangesInv, OwnOK, Own
  <2> QED BY <1>1, <1>6, <1>7, <2>1 DEF PlaceOK, StopInTask
<1>9. Len(shared) \in Nat /\ shared \in Seq(Offsets) BY DEF RangesInv, RangesTypeOK
<1>10. PICK new \in Nat : new = Len(shared) + 1 BY <1>9
<1>11. PICK t : t = Task(wk[i].cur, wk[i].stop, new) OBVIOUS
<1>12. /\ shared' = Append(shared, wk[i].cur)
       /\ wk' = [wk EXCEPT ![i].hedged = TRUE, ![i].ptr = new]
       /\ queue' = Append(queue, t)
       /\ bal' = [bal EXCEPT !.pc = next]
  BY <1>2, <1>3, <1>10, <1>11 DEF Race
<1>13. t \in Tasks /\ t.off = wk[i].cur /\ t.end = wk[i].stop /\ t.ptr = new
  <2>1. wk[i].stop \in Offsets BY <1>4, <1>8 DEF Offsets
  <2> QED BY <1>4, <1>8, <1>10, <1>11, <2>1 DEF Task, Tasks
<1>14. \A p \in 1 .. Len(shared) : shared'[p] = shared[p] BY <1>4, <1>9, <1>12
<1>15. Turn(i) /\ wk'[i] = [wk[i] EXCEPT !.hedged = TRUE, !.ptr = new]
  BY <1>1, <1>10, <1>12, JoinsDoes DEF RangesInv
<1>16. wk[i] \in Entries BY <1>1 DEF RangesInv, RangesTypeOK
<1>17. /\ wk'[i].pc = wk[i].pc /\ wk'[i].cur = wk[i].cur /\ wk'[i].stop = wk[i].stop
       /\ wk'[i].ptr = new
  BY <1>15, <1>16 DEF Entries
<1>18. \A j \in Workers : j # i => wk'[j] = wk[j] BY <1>15 DEF Turn
<1>19. bal'.pc = next
  <2>1. bal \in Balancer BY DEF RangesInv, RangesTypeOK
  <2> QED BY <1>12, <2>1 DEF Balancer
<1>20. \A j \in Workers : ~Shrinking(j)' /\ ~Pushing(j)' BY <1>19 DEF Shrinking, Pushing
<1>21. Holding(i)' /\ ~Reporting(i)' BY <1>6, <1>17 DEF Holding, Reporting
<1>22. ASSUME NEW j \in Workers, j # i
       PROVE  /\ (Holding(j)' <=> Holding(j)) /\ (Reporting(j)' <=> Reporting(j))
              /\ wk'[j] = wk[j] /\ Claim(j)' = Claim(j)
  <2>1. wk'[j] = wk[j] BY <1>18, <1>22
  <2>2. (Holding(j)' <=> Holding(j)) /\ (Reporting(j)' <=> Reporting(j))
    BY <2>1 DEF Holding, Reporting
  <2>3. Claim(j)' = Claim(j) BY <1>7, <1>20, <2>1, <2>2 DEF Claim, Reach
  <2> QED BY <2>1, <2>2, <2>3
<1>23. \A j \in Workers : wk[j].ptr \in 0 .. Len(shared)
  <2>1. \A j \in Workers : wk[j].ptr \in Nat BY WorkerTypes DEF RangesInv
  <2> QED BY <1>9, <2>1 DEF RangesInv, CellsAllocated
<1>24. PlacesOK'
  <2> SUFFICES ASSUME NEW j \in Workers PROVE PlaceOK(j)' BY DEF PlacesOK
  <2>1. CASE j = i BY <1>8, <1>17, <1>20, <1>21, <2>1 DEF PlaceOK
  <2>2. CASE j # i
    <3>1. PlaceOK(j) BY DEF Ledger, PlacesOK
    <3>2. wk'[j] = wk[j] BY <1>18, <2>2
    <3>3. wk[j].ptr # 0 => shared'[wk[j].ptr] = shared[wk[j].ptr] BY <1>9, <1>14, <1>23
    <3> QED BY <1>20, <1>22, <2>2, <3>1, <3>2, <3>3 DEF PlaceOK
  <2> QED BY <2>1, <2>2
<1>25. /\ Claim(i).off = wk[i].cur /\ Claim(i).end = wk[i].stop /\ Claim(i).ptr = 0
       /\ Claim(i)'.off = wk[i].cur /\ Claim(i)'.end = wk[i].stop /\ Claim(i)'.ptr = new
  <2>1. /\ Claim(i) = Task(wk[i].cur, wk[i].stop, 0)
        /\ Claim(i)' = Task(wk[i].cur, wk[i].stop, new)
    BY <1>1, <1>2, <1>6, <1>7, <1>17, <1>20, <1>21 DEF Claim, Reach
  <2> QED BY <2>1 DEF Task
<1>26. \A x \in Nat : /\ Has(t, x) <=> Has(Claim(i), x)
                      /\ Has(Claim(i)', x) <=> Has(Claim(i), x)
                      /\ Has(Claim(i), x) => wk[i].cur <= x
  BY <1>13, <1>25 DEF Has
<1>27. t.ptr = Len(shared) + 1 /\ shared'[t.ptr] = wk[i].cur
  <2>1. PICK cur : cur \in Offsets /\ cur = wk[i].cur BY <1>4
  <2>2. Append(shared, cur)[Len(shared) + 1] = cur BY <1>9, <2>1
  <2> QED BY <1>10, <1>12, <1>13, <2>1, <2>2
<1>28. Joins(i, t)
  <2>1. queue' = Append(queue, t) /\ t.off = wk[i].cur BY <1>12, <1>13
  <2>2. wk'[i].ptr = t.ptr /\ wk'[i].cur = wk[i].cur /\ Claim(i)'.ptr = t.ptr
    BY <1>13, <1>17, <1>25
  <2>3. \A j \in Workers : j # i => wk'[j] = wk[j] /\ Claim(j)' = Claim(j) BY <1>22
  <2> QED BY <1>2, <1>6, <1>14, <1>21, <1>26, <1>27, <2>1, <2>2, <2>3 DEF Joins
<1> QED BY <1>1, <1>13, <1>24, <1>28

\* The cells there are refer to no new one, and stay as they are.
LEMMA OldCells ==
  ASSUME RangesInv, NEW i \in Workers, NEW t \in Tasks, Joins(i, t)
  PROVE  /\ \A s \in Queued, x \in Nat : Open(s.ptr, x)' <=> Open(s.ptr, x)
         /\ \A j \in Workers, x \in Nat :
              j # i => /\ DueWorker(j, x)' <=> DueWorker(j, x)
                       /\ Reported(j, x)' <=> Reported(j, x)
         /\ \A s \in Queued : s.ptr # 0 => shared'[s.ptr] = shared[s.ptr]
         /\ \A j \in Workers : wk[j].ptr # 0 => shared'[wk[j].ptr] = shared[wk[j].ptr]
<1>1. Len(shared) \in Nat BY DEF RangesInv, RangesTypeOK
<1>2. /\ \A s \in Queued : s.ptr \in 0 .. Len(shared)
      /\ \A j \in Workers : wk[j].ptr \in 0 .. Len(shared)
  <2>1. CellsAllocated BY DEF RangesInv
  <2>2. \A s \in Queued : s.ptr \in Nat BY QueuedTasks DEF RangesInv
  <2>3. \A j \in Workers : wk[j].ptr \in Nat BY WorkerTypes DEF RangesInv
  <2> QED BY <1>1, <2>1, <2>2, <2>3 DEF CellsAllocated
<1>3. \A p \in 1 .. Len(shared) : shared'[p] = shared[p] BY DEF Joins
<1>4. /\ \A s \in Queued : s.ptr # 0 => shared'[s.ptr] = shared[s.ptr]
      /\ \A j \in Workers : wk[j].ptr # 0 => shared'[wk[j].ptr] = shared[wk[j].ptr]
  BY <1>1, <1>2, <1>3
<1>5. \A s \in Queued, x \in Nat : Open(s.ptr, x)' <=> Open(s.ptr, x) BY <1>4 DEF Open
<1>6. ASSUME NEW j \in Workers, NEW x \in Nat, j # i
      PROVE  (DueWorker(j, x)' <=> DueWorker(j, x)) /\ (Reported(j, x)' <=> Reported(j, x))
  <2>1. wk'[j] = wk[j] /\ Claim(j)' = Claim(j) BY <1>6 DEF Joins
  <2>2. Reported(j, x)' <=> Reported(j, x) BY <2>1 DEF Reported, Reporting
  <2>3. Open(wk[j].ptr, x)' <=> Open(wk[j].ptr, x) BY <1>4, <2>1 DEF Open
  <2> QED BY <2>1, <2>2, <2>3 DEF DueWorker
<1> QED BY <1>4, <1>5, <1>6

\* A race: the claim is shared, and nothing new is owed.
LEMMA RaceLedger ==
  ASSUME RangesInv, Ledger, ProgressOK, ~Torn, NEW i \in Hedgeable,
         NEW next \in {"tick", "sweep"}, Race(i, next),
         bal.pc \in {"tick", "unsplit", "sweep"}, UNCHANGED <<disk, prog, stash>>
  PROVE  Ledger'
<1>1. i \in Workers /\ PlacesOK' BY RaceDoes
<1>2. PICK t \in Tasks : Joins(i, t) BY RaceDoes
<1>3. /\ queue' = Append(queue, t) /\ t.ptr = Len(shared) + 1 /\ Claim(i)'.ptr = t.ptr
      /\ wk[i].ptr = 0 /\ Holding(i) /\ ~Reporting(i)'
      /\ \A x \in Nat : /\ Has(t, x) <=> Has(Claim(i), x)
                        /\ Has(Claim(i)', x) <=> Has(Claim(i), x)
      /\ \A j \in Workers : j # i => wk'[j] = wk[j] /\ Claim(j)' = Claim(j)
  BY <1>2 DEF Joins
<1>4. /\ \A s \in Queued, x \in Nat : Open(s.ptr, x)' <=> Open(s.ptr, x)
      /\ \A j \in Workers, x \in Nat : j # i => /\ DueWorker(j, x)' <=> DueWorker(j, x)
                                                /\ Reported(j, x)' <=> Reported(j, x)
  BY <1>1, <1>2, OldCells
<1>5. ReportsApart'
  <2> SUFFICES ASSUME NEW j \in Workers, NEW k \in Workers, j # k, NEW x \in Nat,
                      wk'[j].ptr = wk'[k].ptr, wk'[j].ptr # 0,
                      Reported(j, x)', Reported(k, x)'
               PROVE  FALSE
    BY DEF ReportsApart
  <2>1. j # i /\ k # i BY <1>3 DEF Reported
  <2>2. wk'[j] = wk[j] /\ wk'[k] = wk[k] BY <1>3, <2>1
  <2>3. Reported(j, x) /\ Reported(k, x) BY <1>4, <2>1
  <2> QED BY <2>2, <2>3 DEF ReportsApart, Ledger
<1>6. queue \in Seq(Tasks) BY DEF RangesInv, RangesTypeOK
<1>7. Claim(i).ptr = 0 BY <1>3 DEF Claim, Task
<1>8. ClaimsApart'
  <2>1. PICK cl, cl2 : cl = [k \in Workers |-> Claim(k)] /\ cl2 = [k \in Workers |-> Claim(k)']
    OBVIOUS
  <2>2. AllApart(queue, stash, cl) BY <2>1 DEF Ledger, ClaimsApart
  <2>3. Within(t, cl[i]) /\ Within(cl2[i], cl[i]) BY <1>1, <1>3, <1>7, <2>1 DEF Within
  <2>4. \A k \in Workers : Within(cl2[k], cl[k]) BY <1>3, <2>1, <2>3, WithinItself
  <2>5. Len(shared) \in Nat BY DEF RangesInv, RangesTypeOK
  <2>6. t.ptr # 0 /\ cl2[i].ptr = t.ptr BY <1>1, <1>3, <2>1, <2>5
  <2>7. AllApart(Append(queue, t), stash, cl2)
    BY <1>1, <1>6, <2>2, <2>3, <2>4, <2>6, JoinApart
  <2> QED BY <1>3, <2>1, <2>7 DEF ClaimsApart
<1>9. \A x \in Nat : Owed(x)' => Owed(x)
  <2>1. Queued' \subseteq Queued \cup {t} BY <1>3, <1>6, TaskAppended DEF Queued
  <2>2. \A x \in Nat : Has(Claim(i), x) => Owed(x)
    <3>1. \A x \in Nat : Has(Claim(i), x) => DueWorker(i, x) BY <1>3 DEF DueWorker, Open
    <3> QED BY <1>1, <3>1 DEF Owed
  <2>3. ASSUME NEW x \in Nat, NEW s \in Queued', DueTask(s, x)' PROVE Owed(x)
    <3>1. Has(s, x) /\ Open(s.ptr, x)' BY <2>3 DEF DueTask, Open
    <3>2. CASE s \in Queued
      <4>1. DueTask(s, x) BY <1>4, <3>1, <3>2 DEF DueTask
      <4> QED BY <3>2, <4>1 DEF Owed
    <3>3. CASE s = t BY <1>3, <2>2, <3>1, <3>3
    <3> QED BY <2>1, <3>2, <3>3
  <2>4. ASSUME NEW x \in Nat, NEW j \in Workers, DueWorker(j, x)' PROVE Owed(x)
    <3>1. CASE j = i BY <1>3, <2>2, <2>4, <3>1 DEF DueWorker
    <3>2. CASE j # i
      <4>1. DueWorker(j, x) BY <1>4, <2>4, <3>2
      <4> QED BY <4>1 DEF Owed
    <3> QED BY <3>1, <3>2
  <2> QED BY <2>3, <2>4 DEF Owed
<1>10. CountedOK' BY <1>9, CountedKept DEF RangesInv, Ledger
<1>11. ChunksOK' BY ChunksKept DEF Ledger
<1> QED BY <1>1, <1>5, <1>8, <1>10, <1>11 DEF Ledger

\* Hedges, in a tick and in the end game.
LEMMA HedgesLedger ==
  ASSUME RangesInv, Ledger, ProgressOK, ~Torn, HedgeWork \/ HedgeAll
  PROVE  Ledger'
<1>1. CASE HedgeWork
  <2>1. PICK i \in Hedgeable : Race(i, "tick") BY <1>1 DEF HedgeWork, Most
  <2>2. bal.pc \in {"tick", "unsplit", "sweep"} /\ UNCHANGED <<disk, prog, stash>>
    BY <1>1 DEF HedgeWork
  <2> QED BY <2>1, <2>2, RaceLedger
<1>2. CASE HedgeAll
  <2>1. PICK i \in Hedgeable : Race(i, "sweep") BY <1>2 DEF HedgeAll
  <2>2. bal.pc \in {"tick", "unsplit", "sweep"} /\ UNCHANGED <<disk, prog, stash>>
    BY <1>2 DEF HedgeAll
  <2> QED BY <2>1, <2>2, RaceLedger
<1> QED BY <1>1, <1>2

-----------------------------------------------------------------------------
(* The steps of a worker. *)

\* A worker that keeps its place and reports nothing.
LEMMA StandsCalm ==
  ASSUME NEW i \in Workers, Turn(i), Stands(i), bal' = bal, Holding(i), Holding(i)',
         ~Reporting(i)'
  PROVE  Calm(i)
BY DEF Calm, Stands, Reported

\* A worker that has no task, or leaves it.
LEMMA LeavesCalm ==
  ASSUME VictimOK, NEW i \in Workers, Turn(i), bal' = bal, ~Holding(i)',
         wk[i].pc \notin Mapped \/ MuFree
  PROVE  Calm(i)
<1>1. ~Shrinking(i) /\ ~Pushing(i) BY NotVictim
<1>2. ~Reporting(i)' BY DEF Reporting, Holding, Mapped, Loop
<1> QED BY <1>1, <1>2 DEF Calm, Reported

\* An attempt begins, goes on or ends.
LEMMA AttemptLedger ==
  ASSUME RangesInv, Ledger, ProgressOK, NEW i \in Workers, Turn(i), Stands(i),
         wk[i].pc \in Mapped \ {"requeued"},
         wk'[i].pc \in {"read", "write", "count", "ended"},
         UNCHANGED <<prog, queue, shared, bal, stash>>, disk \subseteq disk'
  PROVE  Ledger'
<1>1. Holding(i) /\ Holding(i)' /\ ~Reporting(i)' BY DEF Holding, Mapped, Loop, Reporting
<1>2. Calm(i) BY <1>1, StandsCalm
<1> QED BY <1>2, CalmKeeps

\* The read loop up to the count.
LEMMA ReadingLedger ==
  ASSUME RangesInv, Ledger, ProgressOK, NEW i \in Workers,
         Start(i) \/ Read(i) \/ ReadCancelled(i) \/ ReadFails(i) \/ Write(i) \/ WriteFull(i)
  PROVE  Ledger'
<1>1. CASE Start(i)
  <2>1. Turn(i) /\ Stands(i) /\ wk[i].pc = "start" /\ wk'[i].pc = "read"
    BY <1>1, StartDoes DEF RangesInv
  <2>2. UNCHANGED <<disk, prog, queue, shared, bal, stash>> BY <1>1 DEF Start
  <2>3. wk[i].pc \in Mapped \ {"requeued"} BY <2>1 DEF Mapped
  <2> QED BY <2>1, <2>2, <2>3, AttemptLedger
<1>2. ASSUME NEW res \in {"ok", "error", "full"}, End(i, res),
             wk[i].pc \in {"read", "write"},
             UNCHANGED <<disk, prog, queue, shared, bal, stash>>
      PROVE  Ledger'
  <2>1. Turn(i) /\ Stands(i) /\ wk'[i].pc = "ended" BY <1>2, EndDoes DEF RangesInv
  <2>2. wk[i].pc \in Mapped \ {"requeued"} BY <1>2 DEF Mapped, Loop
  <2> QED BY <1>2, <2>1, <2>2, AttemptLedger
<1>3. CASE Read(i)
  <2>1. wk[i].pc = "read" /\ UNCHANGED <<disk, prog, queue, shared, bal, stash>>
    BY <1>3 DEF Read
  <2>2. CASE End(i, "ok") BY <1>2, <2>1, <2>2
  <2>3. CASE /\ wk[i].at < wk[i].stop /\ wk[i].at < wk[i].end
             /\ \E n \in 1 .. Lesser(Buffer, Lesser(wk[i].stop, wk[i].end) - wk[i].at) :
                  wk' = [wk EXCEPT ![i].pc = "write", ![i].n = n]
    <3>0. PICK n \in 1 .. Lesser(Buffer, Lesser(wk[i].stop, wk[i].end) - wk[i].at) :
                  wk' = [wk EXCEPT ![i].pc = "write", ![i].n = n]
      BY <2>3
    <3>1. wk' = [wk EXCEPT ![i].pc = "write", ![i].n = n] /\ n \in Nat BY <3>0
    <3>2. Turn(i) /\ Stands(i) /\ wk'[i].pc = "write" BY <3>1, ReadsDoes DEF RangesInv
    <3>3. wk[i].pc \in Mapped \ {"requeued"} BY <2>1 DEF Mapped, Loop
    <3> QED BY <2>1, <3>2, <3>3, AttemptLedger
  <2> QED BY <1>3, <2>2, <2>3 DEF Read
<1>4. CASE ReadCancelled(i) \/ ReadFails(i)
  <2>1. wk[i].pc = "read" /\ End(i, "error")
        /\ UNCHANGED <<disk, prog, queue, shared, bal, stash>>
    BY <1>4 DEF ReadCancelled, ReadFails
  <2> QED BY <1>2, <2>1
<1>5. CASE WriteFull(i)
  <2>1. wk[i].pc = "write" /\ End(i, "full")
        /\ UNCHANGED <<disk, prog, queue, shared, bal, stash>>
    BY <1>5 DEF WriteFull
  <2> QED BY <1>2, <2>1
<1>6. CASE Write(i)
  <2>1. wk[i].pc = "write" /\ UNCHANGED <<prog, queue, shared, bal, stash>>
    BY <1>6 DEF Write
  <2>2. CASE wk[i].stop <= wk[i].at
    <3>1. End(i, "ok") /\ disk' = disk BY <1>6, <2>2 DEF Write
    <3> QED BY <1>2, <2>1, <3>1
  <2>3. CASE ~(wk[i].stop <= wk[i].at)
    <3>0. wk[i].at \in Nat /\ wk[i].n \in Nat /\ wk[i].stop \in Nat
      BY WorkerTypes DEF RangesInv
    <3>1. PICK n : /\ n = Lesser(wk[i].n, wk[i].stop - wk[i].at)
                   /\ disk' = disk \cup (wk[i].at .. wk[i].at + n - 1)
                   /\ wk' = [wk EXCEPT ![i].pc = "count", ![i].n = n]
      BY <1>6, <2>3 DEF Write
    <3>2. n \in Nat BY <2>3, <3>0, <3>1 DEF Lesser
    <3>3. Turn(i) /\ Stands(i) /\ wk'[i].pc = "count"
      BY <3>1, <3>2, WritesDoes DEF RangesInv
    <3>4. wk[i].pc \in Mapped \ {"requeued"} BY <2>1 DEF Mapped, Loop
    <3> QED BY <2>1, <3>1, <3>3, <3>4, AttemptLedger
  <2> QED BY <2>2, <2>3
<1> QED BY <1>1, <1>3, <1>4, <1>5, <1>6

\* A worker that holds no task, or leaves one it has read to the end.
LEMMA LeavesLedger ==
  ASSUME RangesInv, Ledger, ProgressOK, NEW i \in Workers,
         Top(i) \/ PopClosed(i) \/ (Whole /\ Pop(i)) \/ Succeeded(i) \/ Unmap(i)
  PROVE  Ledger'
<1> SUFFICES ASSUME Turn(i), ~Holding(i)', wk[i].pc \notin Mapped \/ MuFree,
                    UNCHANGED <<disk, prog, shared, bal, stash>>,
                    queue' = queue \/ (queue # <<>> /\ queue' = Tail(queue))
             PROVE  Ledger'
  <2>1. CASE Top(i)
    <3>1. Turn(i) /\ wk[i].pc = "top" /\ wk'[i].pc \in {"gone", "pop"}
      BY <2>1, TopDoes DEF RangesInv
    <3>2. ~Holding(i)' /\ wk[i].pc \notin Mapped BY <3>1 DEF Holding, Mapped, Loop
    <3>3. UNCHANGED <<disk, prog, queue, shared, bal, stash>> BY <2>1 DEF Top
    <3> QED BY <3>1, <3>2, <3>3
  <2>2. CASE PopClosed(i)
    <3>1. /\ wk[i].pc = "pop" /\ Leave(i, "gone")
          /\ UNCHANGED <<disk, prog, queue, shared, bal, stash>>
      BY <2>2 DEF PopClosed
    <3>2. Turn(i) /\ wk'[i].pc = "gone" BY <3>1, LeaveDoes DEF RangesInv
    <3>3. ~Holding(i)' /\ wk[i].pc \notin Mapped BY <3>1, <3>2 DEF Holding, Mapped, Loop
    <3> QED BY <3>1, <3>2, <3>3
  <2>3. CASE Whole /\ Pop(i)
    <3>1. /\ wk[i].pc = "pop" /\ queue # <<>> /\ wk' = [wk EXCEPT ![i].pc = "gone"]
          /\ queue' = Tail(queue) /\ UNCHANGED <<disk, prog, shared, bal, stash>>
      BY <2>3 DEF Pop
    <3>2. Turn(i) /\ wk'[i].pc = "gone" BY <3>1, GoneDoes DEF RangesInv
    <3>3. ~Holding(i)' /\ wk[i].pc \notin Mapped BY <3>1, <3>2 DEF Holding, Mapped, Loop
    <3> QED BY <3>1, <3>2, <3>3
  <2>4. CASE Succeeded(i)
    <3>1. /\ MuFree /\ Leave(i, "top")
          /\ UNCHANGED <<disk, prog, queue, shared, bal, stash>>
      BY <2>4 DEF Succeeded, Ended
    <3>2. Turn(i) /\ wk'[i].pc = "top" BY <3>1, LeaveDoes DEF RangesInv
    <3>3. ~Holding(i)' BY <3>2 DEF Holding, Mapped, Loop
    <3> QED BY <3>1, <3>2, <3>3
  <2>5. CASE Unmap(i)
    <3>1. PICK pc \in {"top", "gone"} : Leave(i, pc) BY <2>5 DEF Unmap
    <3>2. MuFree /\ UNCHANGED <<disk, prog, queue, shared, bal, stash>> BY <2>5 DEF Unmap
    <3>3. Turn(i) /\ wk'[i].pc = pc BY <3>1, LeaveDoes DEF RangesInv
    <3>4. ~Holding(i)' BY <3>3 DEF Holding, Mapped, Loop
    <3> QED BY <3>2, <3>3, <3>4
  <2> QED BY <2>1, <2>2, <2>3, <2>4, <2>5
<1>1. Calm(i) BY LeavesCalm DEF RangesInv
<1> QED BY <1>1, CalmKeeps

\* A retry, and the end of the retries: the claim stays.
LEMMA RetryLedger ==
  ASSUME RangesInv, Ledger, ProgressOK, NEW i \in Workers, Retry(i) \/ Exhausted(i)
  PROVE  Ledger'
<1>1. wk[i].pc = "ended" /\ UNCHANGED <<disk, prog, queue, shared, bal, stash>>
  BY DEF Retry, Exhausted, Ended
<1>2. Holding(i) BY <1>1 DEF Holding, Mapped
<1>3. /\ Turn(i) /\ wk'[i].pc \in {"start", "residual"}
      /\ wk'[i].cur = wk[i].cur /\ wk'[i].stop = wk[i].stop /\ wk'[i].ptr = wk[i].ptr
  <2>1. CASE Retry(i)
    <3>1. PICK end : /\ end = Greater(wk[i].cur, Lesser(wk[i].stop, wk[i].end))
                     /\ wk' = [wk EXCEPT ![i].pc = "start", ![i].tries = @ + 1,
                                 ![i].off = wk[i].cur, ![i].end = end]
      BY <2>1 DEF Retry
    <3>2. end \in Offsets
      <4>1. wk[i].cur \in Offsets /\ wk[i].end \in Offsets /\ wk[i].stop \in Nat /\ Size \in Nat
        BY WorkerTypes, RangesAssumption DEF RangesInv
      <4> QED BY <3>1, <4>1 DEF Greater, Lesser, Offsets
    <3> QED BY <3>1, <3>2, RetriesDoes DEF RangesInv
  <2>2. CASE Exhausted(i)
    <3>1. wk' = [wk EXCEPT ![i].pc = "residual"] BY <2>2 DEF Exhausted
    <3>2. Turn(i) /\ Stands(i) /\ wk'[i].pc = "residual" BY <3>1, MovesDoes DEF RangesInv
    <3> QED BY <3>2 DEF Stands
  <2> QED BY <2>1, <2>2
<1>4. Holding(i)' /\ ~Reporting(i)' BY <1>3 DEF Holding, Mapped, Loop, Reporting
<1>5. Calm(i) BY <1>1, <1>2, <1>3, <1>4 DEF Calm, Reported
<1> QED BY <1>1, <1>5, CalmKeeps

\* A worker gives back what it holds.
LEMMA BackLedger ==
  ASSUME RangesInv, Ledger, ProgressOK, NEW i \in Workers,
         Release(i) \/ HealthCancelled(i) \/ DiskFull(i) \/ PushResidual(i)
  PROVE  Ledger'
<1>1. CASE Release(i)
  <2>1. /\ wk[i].pc = "ended" /\ MuFree /\ queue' = queue \o Requeue(i)
        /\ wk' = [wk EXCEPT ![i].pc = "requeued", ![i].res = "none"]
        /\ UNCHANGED <<disk, prog, shared, bal, stash>>
    BY <1>1 DEF Release, Ended
  <2>2. Turn(i) /\ wk'[i].pc = "requeued" BY <2>1, ReleasedDoes DEF RangesInv
  <2>3. Holding(i) /\ ~Holding(i)' BY <2>1, <2>2 DEF Holding, Mapped
  <2>4. Calm(i) BY <2>1, <2>2, <2>3, LeavesCalm DEF RangesInv
  <2> QED BY <2>1, <2>3, <2>4, GivesBack
<1>2. CASE HealthCancelled(i)
  <2>1. /\ wk[i].pc = "ended" /\ MuFree
        /\ queue' = queue \/ queue' = queue \o Requeue(i)
        /\ wk' = [wk EXCEPT ![i].pc = "requeued"]
        /\ UNCHANGED <<disk, prog, shared, bal, stash>>
    BY <1>2 DEF HealthCancelled, Ended
  <2>2. Turn(i) /\ wk'[i].pc = "requeued" BY <2>1, MovesDoes DEF RangesInv
  <2>3. Holding(i) /\ ~Holding(i)' BY <2>1, <2>2 DEF Holding, Mapped
  <2>4. Calm(i) BY <2>1, <2>2, <2>3, LeavesCalm DEF RangesInv
  <2>5. CASE queue' = queue BY <2>1, <2>4, <2>5, CalmKeeps
  <2>6. CASE queue' = queue \o Requeue(i) BY <2>1, <2>3, <2>4, <2>6, GivesBack
  <2> QED BY <2>1, <2>5, <2>6
<1>3. CASE DiskFull(i)
  <2>1. /\ wk[i].pc = "ended" /\ MuFree /\ stash' = stash \cup Residual(i) /\ Leave(i, "gone")
        /\ UNCHANGED <<disk, prog, queue, shared, bal>>
    BY <1>3 DEF DiskFull, Ended
  <2>2. Turn(i) /\ wk'[i].pc = "gone" BY <2>1, LeaveDoes DEF RangesInv
  <2>3. Holding(i) /\ ~Holding(i)' BY <2>1, <2>2 DEF Holding, Mapped, Loop
  <2>4. Calm(i) BY <2>1, <2>2, <2>3, LeavesCalm DEF RangesInv
  <2> QED BY <2>1, <2>3, <2>4, GivesBack
<1>4. CASE PushResidual(i)
  <2>1. /\ wk[i].pc = "residual" /\ queue' = queue \o Requeue(i)
        /\ UNCHANGED <<disk, prog, shared, bal, stash>>
    BY <1>4 DEF PushResidual
  <2>2. PICK pc \in {"top", "gone"} : Leave(i, pc) BY <1>4 DEF PushResidual
  <2>3. Turn(i) /\ wk'[i].pc = pc BY <2>2, LeaveDoes DEF RangesInv
  <2>4. Holding(i) /\ ~Holding(i)' /\ wk[i].pc \notin Mapped
    BY <2>1, <2>3 DEF Holding, Mapped, Loop
  <2>5. Calm(i) BY <2>1, <2>3, <2>4, LeavesCalm DEF RangesInv
  <2> QED BY <2>1, <2>4, <2>5, GivesBack
<1> QED BY <1>1, <1>2, <1>3, <1>4

\* A task is taken.
LEMMA PopLedger ==
  ASSUME RangesInv, Ledger, ProgressOK, NEW i \in Workers, ~Whole, Pop(i)
  PROVE  Ledger'
<1>1. PICK t : t = Head(queue) OBVIOUS
<1>2. /\ wk[i].pc = "pop" /\ queue # <<>> /\ MuFree /\ queue' = Tail(queue)
      /\ wk' = [wk EXCEPT ![i].pc = "start", ![i].off = t.off, ![i].end = t.end,
                  ![i].cur = t.off, ![i].stop = t.end, ![i].ptr = t.ptr,
                  ![i].hedged = (t.ptr # 0), ![i].draining = FALSE, ![i].tries = 0]
      /\ UNCHANGED <<disk, prog, shared, bal, stash>>
  BY <1>1 DEF Pop
<1>3. t \in Tasks
  <2>1. queue \in Seq(Tasks) BY DEF RangesInv, RangesTypeOK
  <2>2. ASSUME NEW q \in Seq(Tasks), q # <<>> PROVE Head(q) \in Tasks BY <2>2, HeadTaken
  <2> QED BY <1>1, <1>2, <2>1, <2>2
<1>4. /\ Turn(i) /\ wk'[i].pc = "start" /\ wk'[i].cur = t.off
      /\ wk'[i].stop = t.end /\ wk'[i].ptr = t.ptr
  BY <1>2, <1>3, TakesDoes DEF RangesInv
<1> QED BY <1>1, <1>2, <1>4, TakesKeeps

\* Beyond StopAt nothing is reported.
LEMMA ClampLedger ==
  ASSUME RangesInv, Ledger, ProgressOK, NEW i \in Workers, Clamp(i)
  PROVE  Ledger'
<1>1. wk[i].pc = "clamp" /\ UNCHANGED <<disk, prog, queue, shared, bal, stash>>
  BY DEF Clamp
<1>2. /\ wk[i].at \in Nat /\ wk[i].at \in Offsets /\ wk[i].stop \in Nat
      /\ wk[i].fresh \in Nat /\ wk[i].cur \in Nat /\ wk[i].ptr \in Nat
  BY WorkerTypes DEF RangesInv
<1>3. Holding(i) /\ Reporting(i) BY <1>1 DEF Holding, Mapped, Loop, Reporting
<1>4. /\ wk[i].cur <= wk[i].stop /\ wk[i].cur + wk[i].fresh <= wk[i].at
      /\ wk[i].ptr # 0 => wk[i].at <= shared[wk[i].ptr]
  BY <1>3 DEF Ledger, PlacesOK, PlaceOK
<1> DEFINE excess == IF wk[i].at > wk[i].stop THEN wk[i].at - wk[i].stop ELSE 0
           to == wk[i].at - excess
           fresh == IF wk[i].fresh > excess THEN wk[i].fresh - excess ELSE 0
<1>5. wk' = [wk EXCEPT ![i].pc = "publish", ![i].at = to, ![i].fresh = fresh]
  BY DEF Clamp
<1>6. /\ to \in Nat /\ to <= wk[i].at /\ to <= wk[i].stop /\ fresh \in Nat
      /\ wk[i].cur + fresh <= to
      /\ fresh # 0 => to + wk[i].fresh = wk[i].at + fresh
  BY <1>2, <1>4
<1>7. to \in Offsets
  <2> HIDE DEF to
  <2> QED BY <1>2, <1>6, RangesAssumption DEF Offsets
<1> HIDE DEF to, fresh
<1>8. Turn(i) /\ Stands(i) /\ wk'[i].pc = "publish" /\ wk'[i].at = to
  BY <1>5, <1>6, <1>7, ClampsDoes DEF RangesInv
<1>9. wk'[i].fresh = fresh
  <2>1. wk \in [Workers -> Entries] BY DEF RangesInv, RangesTypeOK
  <2> QED BY <1>5, <2>1 DEF Entries
<1>10. Holding(i)' /\ Reporting(i)' BY <1>8 DEF Holding, Mapped, Loop, Reporting
<1>11. ASSUME NEW x \in Nat, Reported(i, x)' PROVE Reported(i, x)
  <2>1. to <= x + fresh /\ x < to BY <1>8, <1>9, <1>11 DEF Reported
  <2>2. fresh # 0 BY <1>6, <2>1
  <2>3. wk[i].at <= x + wk[i].fresh /\ x < wk[i].at BY <1>2, <1>6, <2>1, <2>2
  <2> QED BY <1>3, <2>3 DEF Reported
<1>12. wk[i].ptr # 0 => to <= shared[wk[i].ptr]
  <2>1. CellsGrow /\ CellsAllocated BY <1>1, CellsStay DEF RangesInv
  <2>2. wk[i].ptr # 0 => wk[i].ptr \in 1 .. Len(shared)
    <3>1. Len(shared) \in Nat /\ wk[i].ptr <= Len(shared) BY <2>1 DEF CellsGrow, CellsAllocated
    <3> QED BY <1>2, <3>1
  <2>3. \A p \in 1 .. Len(shared) : shared[p] \in Nat BY <2>1 DEF CellsGrow
  <2> QED BY <1>2, <1>4, <1>6, <2>2, <2>3
<1>13. Calm(i)
  <2>1. /\ wk'[i].cur = wk[i].cur /\ wk'[i].stop = wk[i].stop /\ wk'[i].ptr = wk[i].ptr
    BY <1>8 DEF Stands
  <2> QED BY <1>1, <1>3, <1>6, <1>8, <1>9, <1>10, <1>11, <1>12, <2>1 DEF Calm
<1> QED BY <1>1, <1>13, CalmKeeps

\* A worker is cancelled or drained where it stands.
LEMMA FlagsKeep ==
  ASSUME RangesInv, NEW i \in Workers, Kill(i) \/ DrainWorker(i)
  PROVE  /\ UNCHANGED <<disk, prog, queue, shared, bal, stash>>
         /\ \A j \in Workers : Keeps(j) /\ wk'[j].stop = wk[j].stop
<1>1. UNCHANGED <<disk, prog, queue, shared, bal, stash>> BY DEF Kill, DrainWorker
<1>2. wk \in [Workers -> Entries] /\ wk[i] \in Entries BY DEF RangesInv, RangesTypeOK
<1>3. \A j \in Workers : Keeps(j) /\ wk'[j].stop = wk[j].stop
  <2>1. CASE Kill(i)
    <3>1. wk' = [wk EXCEPT ![i].killed = TRUE] BY <2>1 DEF Kill
    <3>2. wk'[i] = [wk[i] EXCEPT !.killed = TRUE] BY <1>2, <3>1
    <3>3. \A j \in Workers : j # i => wk'[j] = wk[j] BY <1>2, <3>1
    <3>4. Keeps(i) /\ wk'[i].stop = wk[i].stop BY <1>2, <3>2 DEF Keeps, Entries
    <3> QED BY <3>3, <3>4 DEF Keeps
  <2>2. CASE DrainWorker(i)
    <3> DEFINE draining == wk[i].draining \/ wk[i].pc \in Mapped
               killed == wk[i].killed \/ wk[i].pc \in Loop
    <3>1. wk' = [wk EXCEPT ![i].draining = draining, ![i].killed = killed]
      BY <1>2, <2>2 DEF DrainWorker
    <3> HIDE DEF draining, killed
    <3>2. wk'[i] = [wk[i] EXCEPT !.draining = draining, !.killed = killed]
      BY <1>2, <3>1
    <3>3. \A j \in Workers : j # i => wk'[j] = wk[j] BY <1>2, <3>1
    <3>4. Keeps(i) /\ wk'[i].stop = wk[i].stop BY <1>2, <3>2 DEF Keeps, Entries
    <3> QED BY <3>3, <3>4 DEF Keeps
  <2> QED BY <2>1, <2>2
<1> QED BY <1>1, <1>3

\* So the ledger stands.
LEMMA FlagsLedger ==
  ASSUME RangesInv, Ledger, ProgressOK, NEW i \in Workers, Kill(i) \/ DrainWorker(i)
  PROVE  Ledger'
BY FlagsKeep, StillLedger

\* Every step of a worker.
LEMMA WorkerLedger ==
  ASSUME RangesInv, Ledger, ProgressOK, NEW i \in Workers, WorkerStep(i)
  PROVE  Ledger'
<1>1. CASE Pop(i)
  <2>1. CASE Whole BY <1>1, <2>1, LeavesLedger
  <2>2. CASE ~Whole BY <1>1, <2>2, PopLedger
  <2> QED BY <2>1, <2>2
<1> QED BY <1>1, LeavesLedger, ReadingLedger, CountLedger, ClampLedger, PublishLedger,
           RetryLedger, BackLedger DEF WorkerStep

-----------------------------------------------------------------------------
(* The beginning of a run. *)

\* Tasks that are apart are apart in the queue.
LEMMA InOrderApart ==
  ASSUME NEW ts, \A t \in ts : t \in Tasks /\ t.ptr = 0,
         \A t, u \in ts : t # u => Apart(t, u), NEW q \in InOrder(ts)
  PROVE  \A j, k \in 1 .. Len(q) : j # k => Apart(q[j], q[k])
<1> DEFINE n == Cardinality(ts)
<1>1. n \in Nat BY PlainTasksFinite, FS_CardinalityType
<1>2. q \in [1 .. n -> ts] /\ ToSet(q) = ts BY DEF InOrder
<1> HIDE DEF n
<1>3. IsFiniteSet(1 .. n) /\ Cardinality(1 .. n) = n
  <2>1. 1 \in Int /\ n \in Int BY <1>1
  <2> QED BY <1>1, <2>1, FS_Interval
<1>4. q \in Surjection(1 .. n, ts)
  <2>1. \A t \in ts : \E j \in 1 .. n : q[j] = t BY <1>2 DEF ToSet
  <2> QED BY <1>2, <2>1 DEF Surjection
<1>5. q \in Injection(1 .. n, ts)
  BY <1>3, <1>4, FS_SurjSameCardinalityImpliesInj DEF n
<1>6. Len(q) = n BY <1>1, <1>2
<1> SUFFICES ASSUME NEW j \in 1 .. n, NEW k \in 1 .. n, j # k PROVE Apart(q[j], q[k])
  BY <1>6
<1>7. q[j] # q[k] BY <1>2, <1>5 DEF Injection, IsInjective
<1> QED BY <1>2, <1>7

\* A run begins with nothing owed but what is queued.
BeginsApart == \A j, k \in 1 .. Len(queue) : j # k => Apart(queue[j], queue[k])
BeginsCounted ==
  \A c \in Chunks : ChunkBytes(c) \subseteq disk
                    \/ prog[c] <= Cardinality(ChunkBytes(c) \ BytesOfAll(ToSet(queue)))

\* Its ledger is right.
LEMMA FreshLedger ==
  Fresh /\ ProgressOK /\ BeginsApart /\ BeginsCounted /\ ChunksOK => Ledger
<1> SUFFICES ASSUME Fresh, ProgressOK, BeginsApart, BeginsCounted, ChunksOK PROVE Ledger
  OBVIOUS
<1>1. \A i \in Workers : wk[i] = Parked BY DEF Fresh
<1>2. \A i \in Workers : ~Holding(i) /\ ~Reporting(i)
  BY <1>1 DEF Parked, Holding, Mapped, Loop, Reporting
<1>3. \A i \in Workers : ~Shrinking(i) /\ ~Pushing(i)
  BY DEF Fresh, Resting, Shrinking, Pushing
<1>4. PlacesOK BY <1>2, <1>3 DEF PlacesOK, PlaceOK
<1>5. ReportsApart BY <1>2 DEF ReportsApart, Reported
<1>6. \A i \in Workers : Claim(i) = Task(0, 0, 0) BY <1>2 DEF Claim
<1>7. \A x \in Nat : ~Has(Task(0, 0, 0), x) BY DEF Has, Task
<1>8. \A t : Apart(Task(0, 0, 0), t) /\ Apart(t, Task(0, 0, 0)) BY <1>7 DEF Apart
<1>9. ClaimsApart
  <2>1. stash = {} BY DEF Fresh
  <2>2. PICK cl : cl = [i \in Workers |-> Claim(i)] OBVIOUS
  <2>3. \A i \in Workers : cl[i] = Task(0, 0, 0) BY <1>6, <2>2
  <2>4. AllApart(queue, stash, cl) BY <1>8, <2>1, <2>3 DEF AllApart, BeginsApart
  <2> QED BY <2>2, <2>4 DEF ClaimsApart
<1>10. CountedOK
  <2> SUFFICES ASSUME NEW c \in Chunks, ~(ChunkBytes(c) \subseteq disk)
               PROVE  prog[c] <= Cardinality(Settles(c))
    BY DEF CountedOK
  <2> DEFINE rest == ChunkBytes(c) \ BytesOfAll(ToSet(queue))
  <2>1. prog[c] <= Cardinality(rest) BY DEF BeginsCounted
  <2>2. ChunkBytes(c) \subseteq File /\ File \subseteq Nat
    BY RangesAssumption DEF ChunkBytes, File
  <2>3. ASSUME NEW x \in rest PROVE x \in Settles(c)
    <3>1. x \in ChunkBytes(c) /\ x \in File /\ x \in Nat BY <2>2
    <3>2. \A t \in ToSet(queue) : ~Has(t, x)
      BY <2>3, <3>1 DEF BytesOfAll, BytesOf, Has
    <3>3. Queued = ToSet(queue) BY DEF Fresh, Queued
    <3>4. ~Owed(x) BY <1>6, <1>7, <3>1, <3>2, <3>3 DEF Owed, DueTask, DueWorker
    <3> QED BY <3>1, <3>4 DEF Settles
  <2>4. Settles(c) \subseteq File BY <2>2 DEF Settles
  <2>5. rest \in SUBSET Settles(c) BY <2>3
  <2>6. prog[c] \in Nat BY DEF ProgressOK
  <2> HIDE DEF rest
  <2>7. IsFiniteSet(Settles(c)) /\ Cardinality(Settles(c)) \in Nat BY <2>4, BytesAreFinite
  <2>8. Cardinality(rest) <= Cardinality(Settles(c)) /\ IsFiniteSet(rest)
    BY <2>5, <2>7, FS_Subset
  <2>9. Cardinality(rest) \in Nat BY <2>8, FS_CardinalityType
  <2> QED BY <2>1, <2>6, <2>7, <2>8, <2>9
<1> QED BY <1>4, <1>5, <1>9, <1>10 DEF Ledger

\* The ranges of createInitialTasks have no byte in common.
LEMMA InitialTasksApart == \A t, u \in InitialTasks : t # u => Apart(t, u)
<1> DEFINE conns == Cardinality(Workers)
           share == Greater(1, Size \div conns)
           Start0 == {j \in 0 .. conns - 1 : j * share < Size}
           Stop0(k) == IF k = conns - 1 THEN Size ELSE (k + 1) * share
<1>1. InitialTasks = {Task(k * share, Stop0(k), 0) : k \in Start0} BY DEF InitialTasks
<1>2. conns \in Nat \ {0}
  <2>1. IsFiniteSet(Workers) /\ Workers # {} BY RangesAssumption
  <2>2. Cardinality(Workers) \in Nat /\ (Cardinality(Workers) = 0 <=> Workers = {})
    BY <2>1, FS_CardinalityType, FS_EmptySet
  <2> QED BY <2>1, <2>2
<1> HIDE DEF conns
<1>3. Size \div conns \in Nat BY <1>2, RangesAssumption
<1>4. share \in Nat BY <1>3 DEF Greater
<1> HIDE DEF share
<1>5. ASSUME NEW k \in Start0, NEW l \in Start0, k < l PROVE Stop0(k) <= l * share
  <2>1. k \in Nat /\ l \in Nat /\ k <= conns - 1 /\ l <= conns - 1 BY <1>2
  <2>2. k # conns - 1 /\ k + 1 \in Nat /\ k + 1 <= l BY <1>2, <1>5, <2>1
  <2>3. (k + 1) * share <= l * share BY <1>4, <2>1, <2>2, MultiplesInOrder
  <2> QED BY <2>2, <2>3
<1>6. ASSUME NEW k \in Start0
      PROVE  k \in Nat /\ k * share \in Nat /\ Stop0(k) \in Nat
  <2>1. k \in Nat /\ k + 1 \in Nat BY <1>2
  <2> QED BY <1>4, <2>1, RangesAssumption
<1>7. ASSUME NEW k \in Start0, NEW l \in Start0, k < l, NEW x \in Nat
      PROVE  ~(Has(Task(k * share, Stop0(k), 0), x) /\ Has(Task(l * share, Stop0(l), 0), x))
  <2> DEFINE a == l * share
             b == Stop0(k)
  <2>1. a \in Nat /\ b \in Nat /\ b <= a BY <1>5, <1>6, <1>7
  <2> HIDE DEF a, b
  <2>2. ~(x < b /\ a <= x) BY <2>1
  <2> QED BY <2>2 DEF a, b, Has, Task
<1>8. ASSUME NEW k \in Start0, NEW l \in Start0, k < l
      PROVE  /\ Apart(Task(k * share, Stop0(k), 0), Task(l * share, Stop0(l), 0))
             /\ Apart(Task(l * share, Stop0(l), 0), Task(k * share, Stop0(k), 0))
  BY <1>7, <1>8 DEF Apart
<1> SUFFICES ASSUME NEW t \in InitialTasks, NEW u \in InitialTasks, t # u PROVE Apart(t, u)
  OBVIOUS
<1>9. PICK k \in Start0 : t = Task(k * share, Stop0(k), 0) BY <1>1
<1>10. PICK l \in Start0 : u = Task(l * share, Stop0(l), 0) BY <1>1
<1>11. k # l BY <1>9, <1>10
<1>12. k < l \/ l < k BY <1>6, <1>11
<1> QED BY <1>8, <1>9, <1>10, <1>12

\* A download begins with a right ledger.
LEMMA LedgerInit == Init => LedgerInv
<1> SUFFICES ASSUME Init PROVE LedgerInv
  OBVIOUS
<1>1. queue \in InOrder(InitialTasks) BY DEF Init
<1>2. queue \in Seq(Tasks) /\ ToSet(queue) = InitialTasks
  <2>1. ASSUME NEW ts, \A t \in ts : t \in Tasks /\ t.ptr = 0, NEW q \in InOrder(ts)
        PROVE  q \in Seq(Tasks) /\ ToSet(q) = ts
    BY <2>1, InOrderIs
  <2> QED BY <1>1, <2>1, InitialTasksCover
<1>3. /\ \A t \in ToSet(queue) : t.ptr = 0
      /\ \A x \in File : x \in disk \/ \E t \in ToSet(queue) : t.off <= x /\ x < t.end
  BY <1>2, InitialTasksCover
<1>4. Fresh BY <1>2, <1>3 DEF Init, Fresh
<1>5. BeginsApart
  <2>1. ASSUME NEW ts, \A t \in ts : t \in Tasks /\ t.ptr = 0,
               \A t, u \in ts : t # u => Apart(t, u), NEW q \in InOrder(ts)
        PROVE  \A j, k \in 1 .. Len(q) : j # k => Apart(q[j], q[k])
    BY <2>1, InOrderApart
  <2> QED BY <1>1, <2>1, InitialTasksCover, InitialTasksApart DEF BeginsApart
<1>6. ProgressOK /\ \A c \in Chunks : prog[c] = 0 BY DEF Init, ProgressOK
<1>7. ASSUME NEW c \in Chunks, NEW S \in SUBSET ChunkBytes(c) PROVE prog[c] <= Cardinality(S)
  <2>1. S \subseteq File BY DEF ChunkBytes
  <2> QED BY <1>6, <2>1, BytesAreFinite
<1>8. BeginsCounted
  <2>1. \A c \in Chunks : ChunkBytes(c) \ BytesOfAll(ToSet(queue)) \in SUBSET ChunkBytes(c)
    OBVIOUS
  <2> QED BY <1>7, <2>1 DEF BeginsCounted
<1>9. ChunksOK
  <2>1. \A c \in Chunks : ChunkBytes(c) \in SUBSET ChunkBytes(c) OBVIOUS
  <2> QED BY <1>7, <2>1 DEF ChunksOK
<1>10. VerifiedIsOnDisk
  <2>1. \A c \in Chunks : ChunkBytes(c) \cap disk \in SUBSET ChunkBytes(c) OBVIOUS
  <2> QED BY <1>7, <2>1 DEF VerifiedIsOnDisk
<1>11. Ledger BY <1>4, <1>5, <1>6, <1>8, <1>9, FreshLedger
<1>12. RecordOK BY DEF Init, RecordOK
<1>13. EndedOK BY DEF Init, EndedOK
<1> QED BY <1>6, <1>10, <1>11, <1>12, <1>13 DEF Ledger, LedgerInv

\* Two runs of a set of bytes have no byte in common.
LEMMA RunsApart ==
  ASSUME NEW bytes
  PROVE  \A t, u \in Runs(bytes) : t # u => Apart(t, u)
<1>1. ASSUME NEW t \in Runs(bytes)
      PROVE  /\ t \in [off : File, end : Offsets, ptr : {0}]
             /\ t.off \in Nat /\ t.end \in Nat
             /\ \A y \in Nat : t.off <= y /\ y < t.end => y \in bytes
             /\ t.off = 0 \/ t.off - 1 \notin bytes
             /\ t.end \notin bytes
  <2>1. /\ t \in [off : File, end : Offsets, ptr : {0}]
        /\ t.off .. (t.end - 1) \subseteq bytes
        /\ t.off = 0 \/ t.off - 1 \notin bytes
        /\ t.end \notin bytes
    BY DEF Runs
  <2>2. t.off \in Nat /\ t.end \in Nat BY <2>1, RangesAssumption DEF File, Offsets
  <2>3. \A y \in Nat : t.off <= y /\ y < t.end => y \in t.off .. (t.end - 1) BY <2>2
  <2> QED BY <2>1, <2>2, <2>3
<1>2. ASSUME NEW t \in Runs(bytes), NEW u \in Runs(bytes), NEW x \in Nat,
             Has(t, x), Has(u, x)
      PROVE  ~(t.off < u.off) /\ ~(t.end < u.end)
  <2>1. /\ t.off <= x /\ x < t.end /\ u.off <= x /\ x < u.end
        /\ t.off \in Nat /\ t.end \in Nat /\ u.off \in Nat /\ u.end \in Nat
    BY <1>1, <1>2 DEF Has
  <2>2. ASSUME t.off < u.off PROVE FALSE
    <3>1. u.off - 1 \in Nat /\ t.off <= u.off - 1 /\ u.off - 1 < t.end BY <2>1, <2>2
    <3>2. u.off - 1 \in bytes BY <1>1, <3>1
    <3>3. u.off # 0 BY <2>1, <2>2
    <3> QED BY <1>1, <3>2, <3>3
  <2>3. ASSUME t.end < u.end PROVE FALSE
    <3>1. u.off <= t.end BY <2>1
    <3>2. t.end \in bytes BY <1>1, <2>1, <2>3, <3>1
    <3> QED BY <1>1, <3>2
  <2> QED BY <2>2, <2>3
<1> SUFFICES ASSUME NEW t \in Runs(bytes), NEW u \in Runs(bytes), NEW x \in Nat,
                    Has(t, x), Has(u, x)
             PROVE  t = u
  BY DEF Apart
<1>3. t.off = u.off /\ t.end = u.end
  <2>1. ~(t.off < u.off) /\ ~(t.end < u.end) /\ ~(u.off < t.off) /\ ~(u.end < t.end) BY <1>2
  <2>2. t.off \in Nat /\ t.end \in Nat /\ u.off \in Nat /\ u.end \in Nat BY <1>1
  <2> QED BY <2>1, <2>2
<1>4. t.ptr = 0 /\ u.ptr = 0 BY <1>1
<1> QED BY <1>1, <1>3, <1>4

\* A later run begins with a right ledger.
LEMMA ResumeLedger ==
  ASSUME RangesInv, LedgerInv, ProgressOK', Resume
  PROVE  Ledger'
<1>1. /\ phase = "saved" /\ queue' \in InOrder(saved.tasks) /\ closed' = FALSE
      /\ shared' = <<>> /\ wk' = [i \in Workers |-> Parked] /\ drains' = {}
      /\ bal' = Resting /\ ctx' = FALSE /\ why' = "run" /\ stash' = {} /\ phase' = "live"
      /\ prog' = RecalculateProgress(saved.tasks, saved.complete)
      /\ UNCHANGED <<disk, saved>>
  BY DEF Resume, NewRun
<1>2. \A t \in saved.tasks : t \in Tasks /\ t.ptr = 0
  BY DEF RangesInv, RangesTypeOK, CellsAllocated
<1>3. queue' \in Seq(Tasks) /\ ToSet(queue') = saved.tasks
  <2>1. ASSUME NEW ts, \A t \in ts : t \in Tasks /\ t.ptr = 0, NEW q \in InOrder(ts)
        PROVE  q \in Seq(Tasks) /\ ToSet(q) = ts
    BY <2>1, InOrderIs
  <2> QED BY <1>1, <1>2, <2>1
<1>4. \A x \in File : x \in disk \/ \E t \in saved.tasks : t.off <= x /\ x < t.end
  BY <1>1 DEF RangesInv, CoverOK
<1>5. Fresh' BY <1>1, <1>2, <1>3, <1>4 DEF Fresh, RangesInv, RangesTypeOK
<1>6. \A t, u \in saved.tasks : t # u => Apart(t, u) BY DEF LedgerInv, RecordOK
<1>7. BeginsApart'
  <2>1. ASSUME NEW ts, \A t \in ts : t \in Tasks /\ t.ptr = 0,
               \A t, u \in ts : t # u => Apart(t, u), NEW q \in InOrder(ts)
        PROVE  \A j, k \in 1 .. Len(q) : j # k => Apart(q[j], q[k])
    BY <2>1, InOrderApart
  <2>2. \A j, k \in 1 .. Len(queue') : j # k => Apart(queue'[j], queue'[k])
    BY <1>1, <1>2, <1>6, <2>1
  <2> QED BY <2>2 DEF BeginsApart, Apart, Has
<1>8. \A c \in saved.complete : ChunkBytes(c) \subseteq disk BY DEF LedgerInv, RecordOK
<1>9. \A c \in Chunks :
        prog'[c] = Cardinality(IF c \in saved.complete THEN ChunkBytes(c)
                               ELSE ChunkBytes(c) \ BytesOfAll(saved.tasks))
  BY <1>1 DEF RecalculateProgress
<1>10. \A c \in Chunks :
         /\ Cardinality(ChunkBytes(c)) \in Nat
         /\ Cardinality(ChunkBytes(c) \ BytesOfAll(saved.tasks)) \in Nat
         /\ Cardinality(ChunkBytes(c) \ BytesOfAll(saved.tasks)) <= Cardinality(ChunkBytes(c))
  <2> SUFFICES ASSUME NEW c \in Chunks, NEW S \in SUBSET ChunkBytes(c)
               PROVE  /\ Cardinality(ChunkBytes(c)) \in Nat /\ Cardinality(S) \in Nat
                      /\ Cardinality(S) <= Cardinality(ChunkBytes(c))
    <3>1. \A c \in Chunks : ChunkBytes(c) \ BytesOfAll(saved.tasks) \in SUBSET ChunkBytes(c)
      OBVIOUS
    <3> QED BY <3>1
  <2>1. ChunkBytes(c) \subseteq File /\ S \subseteq File BY DEF ChunkBytes
  <2> QED BY <2>1, BytesAreFinite, FS_Subset
<1>11. BeginsCounted'
  <2> SUFFICES ASSUME NEW c \in Chunks, c \notin saved.complete
               PROVE  prog'[c] <= Cardinality(ChunkBytes(c) \ BytesOfAll(saved.tasks))
    BY <1>1, <1>3, <1>8 DEF BeginsCounted
  <2> QED BY <1>9, <1>10
<1>12. ChunksOK'
  <2> SUFFICES ASSUME NEW c \in Chunks PROVE prog'[c] <= Cardinality(ChunkBytes(c))
    BY DEF ChunksOK
  <2>1. CASE c \in saved.complete
    <3>1. prog'[c] = Cardinality(ChunkBytes(c)) BY <1>9, <2>1
    <3>2. Cardinality(ChunkBytes(c)) \in Nat BY <1>10
    <3> QED BY <3>1, <3>2
  <2>2. CASE c \notin saved.complete
    <3>1. prog'[c] = Cardinality(ChunkBytes(c) \ BytesOfAll(saved.tasks)) BY <1>9, <2>2
    <3> QED BY <1>10, <3>1
  <2> QED BY <2>1, <2>2
<1> QED BY <1>5, <1>7, <1>11, <1>12, FreshLedger, PTL

-----------------------------------------------------------------------------
(* What the ledger says of the bytes on disk. *)

\* A byte somebody answers for is still to be counted.
LEMMA CoveredIsOwed ==
  ASSUME RangesInv, Ledger, NEW x \in File, x \notin disk, Covered(x)
  PROVE  Owed(x)
<1>0. x \in Nat BY RangesAssumption DEF File
<1>1. shared \in Seq(Offsets) /\ Len(shared) \in Nat BY DEF RangesInv, RangesTypeOK
<1>2. \A p \in 1 .. Len(shared) : shared[p] \in Nat
  <2>1. \A p \in 1 .. Len(shared) : shared[p] \in Offsets BY <1>1
  <2> QED BY <2>1 DEF Offsets
<1>3. ASSUME NEW p \in Nat, p <= Len(shared), NEW a \in Nat, a <= x,
             p # 0 => a \in Positions(p)
      PROVE  Open(p, x)
  <2> SUFFICES ASSUME p # 0, x < shared[p] PROVE FALSE
    <3>1. p # 0 => shared[p] \in Nat BY <1>1, <1>2, <1>3
    <3> QED BY <1>0, <3>1 DEF Open
  <2>1. p \in 1 .. Len(shared) BY <1>1, <1>3
  <2>2. Stored(a, shared[p]) BY <1>3, <2>1 DEF RangesInv, RaceOK, Positions
  <2> QED BY <1>0, <1>3, <2>2 DEF Stored
<1>4. CASE \E t \in Queued : t.off <= x /\ x < t.end
  <2>1. PICK t \in Queued : t.off <= x /\ x < t.end BY <1>4
  <2>2. t.off \in Nat /\ t.ptr \in Nat BY QueuedTasks DEF RangesInv
  <2>3. t.ptr <= Len(shared) BY DEF RangesInv, CellsAllocated
  <2>4. t.off \in Positions(t.ptr) BY DEF Positions
  <2>5. Open(t.ptr, x) BY <1>3, <2>1, <2>2, <2>3, <2>4
  <2> QED BY <2>1, <2>5 DEF Owed, DueTask, Has
<1>5. ASSUME NEW i \in Workers, Holding(i), wk[i].cur <= x, x < Reach(i)
      PROVE  Owed(x)
  <2>1. wk[i].cur \in Nat /\ wk[i].ptr \in Nat BY WorkerTypes DEF RangesInv
  <2>2. wk[i].ptr <= Len(shared) BY DEF RangesInv, CellsAllocated
  <2>3. wk[i].cur \in Positions(wk[i].ptr) BY <1>5 DEF Positions
  <2>4. Open(wk[i].ptr, x) BY <1>3, <1>5, <2>1, <2>2, <2>3
  <2>5. Has(Claim(i), x) BY <1>5 DEF Has, Claim, Task
  <2> QED BY <2>4, <2>5 DEF Owed, DueWorker
<1>6. ASSUME NEW i \in Workers
      PROVE  wk[i].stop \in Nat /\ bal.end \in Nat /\ wk[i].cur \in Nat
  BY WorkerTypes, BalancerTypes DEF RangesInv
<1>7. CASE \E i \in Workers : Answers(i, x)
  <2>1. PICK i \in Workers : Holding(i) /\ wk[i].cur <= x /\ x < Limit(i)
    BY <1>7 DEF Answers
  <2>2. x < Reach(i) BY <1>0, <1>6, <2>1 DEF Limit, Reach, Lesser
  <2> QED BY <1>5, <2>1, <2>2
<1>8. CASE Moving(x)
  <2>1. PICK i \in Workers : Pushing(i) /\ wk[i].stop <= x /\ x < bal.end
    BY <1>8 DEF Moving
  <2>2. Holding(i) /\ wk[i].cur <= wk[i].stop BY <2>1 DEF Ledger, PlacesOK, PlaceOK
  <2>3. wk[i].cur <= x BY <1>0, <1>6, <2>1, <2>2
  <2>4. x < Reach(i) BY <2>1 DEF Reach
  <2> QED BY <1>5, <2>2, <2>3, <2>4
<1> QED BY <1>4, <1>7, <1>8 DEF Covered

\* In a run no chunk counts a byte that is not on disk.
LEMMA LedgerTellsDisk ==
  RangesInv /\ Ledger /\ ProgressOK /\ phase = "live" => VerifiedIsOnDisk
<1> SUFFICES ASSUME RangesInv, Ledger, ProgressOK, phase = "live", NEW c \in Chunks
             PROVE  prog[c] <= Cardinality(ChunkBytes(c) \cap disk)
  BY DEF VerifiedIsOnDisk
<1>1. prog[c] \in Nat BY DEF ProgressOK
<1>2. ChunkBytes(c) \cap disk \subseteq File /\ ChunkBytes(c) \subseteq File BY DEF ChunkBytes
<1>3. IsFiniteSet(ChunkBytes(c) \cap disk) /\ Cardinality(ChunkBytes(c) \cap disk) \in Nat
  BY <1>2, BytesAreFinite
<1>4. CASE ChunkBytes(c) \subseteq disk
  <2>1. ChunkBytes(c) \cap disk = ChunkBytes(c) BY <1>4
  <2>2. prog[c] <= Cardinality(ChunkBytes(c)) BY DEF Ledger, ChunksOK
  <2> QED BY <2>1, <2>2
<1>5. CASE prog[c] <= Cardinality(Settles(c))
  <2>1. ASSUME NEW x \in Settles(c) PROVE x \in ChunkBytes(c) \cap disk
    <3>1. x \in ChunkBytes(c) /\ ~Owed(x) /\ x \in File BY <1>2 DEF Settles
    <3>2. x \in disk \/ Covered(x) BY <3>1 DEF RangesInv, CoverOK
    <3> QED BY <3>1, <3>2, CoveredIsOwed
  <2>2. Settles(c) \in SUBSET (ChunkBytes(c) \cap disk) BY <2>1
  <2>3. Cardinality(Settles(c)) <= Cardinality(ChunkBytes(c) \cap disk)
        /\ IsFiniteSet(Settles(c))
    BY <1>3, <2>2, FS_Subset
  <2>4. Cardinality(Settles(c)) \in Nat BY <2>3, FS_CardinalityType
  <2> QED BY <1>1, <1>3, <1>5, <2>3, <2>4
<1> QED BY <1>4, <1>5 DEF Ledger, CountedOK

\* A chunk that counts as many bytes as it has is on disk.
LEMMA CompleteIsOnDisk ==
  ASSUME VerifiedIsOnDisk, ProgressOK
  PROVE  \A c \in Complete : ChunkBytes(c) \subseteq disk
<1> SUFFICES ASSUME NEW c \in Complete PROVE ChunkBytes(c) \subseteq disk
  OBVIOUS
<1>1. c \in Chunks /\ prog[c] >= Cardinality(ChunkBytes(c)) BY DEF Complete
<1>2. prog[c] <= Cardinality(ChunkBytes(c) \cap disk) /\ prog[c] \in Nat
  BY <1>1 DEF VerifiedIsOnDisk, ProgressOK
<1>3. ChunkBytes(c) \subseteq File BY DEF ChunkBytes
<1>4. IsFiniteSet(ChunkBytes(c)) /\ Cardinality(ChunkBytes(c)) \in Nat
  BY <1>3, BytesAreFinite
<1>5. ChunkBytes(c) \cap disk \in SUBSET ChunkBytes(c) OBVIOUS
<1>6. /\ Cardinality(ChunkBytes(c) \cap disk) <= Cardinality(ChunkBytes(c))
      /\ IsFiniteSet(ChunkBytes(c) \cap disk)
      /\ Cardinality(ChunkBytes(c)) = Cardinality(ChunkBytes(c) \cap disk)
           => ChunkBytes(c) = ChunkBytes(c) \cap disk
  BY <1>4, <1>5, FS_Subset
<1>7. Cardinality(ChunkBytes(c) \cap disk) \in Nat BY <1>6, FS_CardinalityType
<1>8. Cardinality(ChunkBytes(c)) = Cardinality(ChunkBytes(c) \cap disk)
  BY <1>1, <1>2, <1>4, <1>6, <1>7
<1> QED BY <1>6, <1>8

-----------------------------------------------------------------------------
(* The ledger is inductive, if the balancer meets no worker between two     *)
(* accesses to its offsets.                                                 *)

\* Every step keeps it.
LEMMA LedgerKept ==
  ASSUME RangesInv, LedgerInv, ProgressOK', ~Torn, [Next]_vars
  PROVE  Ledger'
<1>1. Ledger /\ ProgressOK BY DEF LedgerInv, Ledger
<1>2. ASSUME NEW i \in Workers, WorkerStep(i) \/ Kill(i) \/ DrainWorker(i) PROVE Ledger'
  BY <1>1, <1>2, WorkerLedger, FlagsLedger
<1>3. CASE Balance
  BY <1>1, <1>3, TicksLedger, StealScanLedger, StealShrinkLedger, StealPushLedger,
     HedgesLedger DEF Balance
<1>4. CASE MonitorComplete BY <1>1, <1>4, MonitorCompleteLedger
<1>5. CASE MonitorCancelled \/ Pause \/ Finish \/ SaveSnapshot BY <1>1, <1>5, TicksLedger
<1>6. CASE Resume BY <1>6, ResumeLedger
<1>7. CASE UNCHANGED vars
  <2>1. UNCHANGED <<disk, prog, queue, shared, wk, bal, stash>> BY <1>7 DEF vars
  <2> QED BY <1>1, <2>1, LooksLedger
<1> QED BY <1>2, <1>3, <1>4, <1>5, <1>6, <1>7 DEF Next

\* Bytes stay on disk, and only a snapshot touches the record.
LEMMA DiskGrows ==
  ASSUME [Next]_vars
  PROVE  disk \subseteq disk' /\ (saved' = saved \/ SaveSnapshot)
<1>1. ASSUME NEW i \in Workers, WorkerStep(i) PROVE disk \subseteq disk' /\ saved' = saved
  BY <1>1 DEF WorkerStep, Top, Pop, PopClosed, Start, Read, ReadCancelled, ReadFails,
              Write, WriteFull, Count, Clamp, Publish, Succeeded, Release, DiskFull,
              HealthCancelled, Retry, Exhausted, PushResidual, Unmap
<1>2. ASSUME NEW i \in Workers, Kill(i) \/ DrainWorker(i) PROVE UNCHANGED <<disk, saved>>
  BY <1>2 DEF Kill, DrainWorker
<1>3. CASE Balance
  <2>1. UNCHANGED <<disk, saved>>
    BY <1>3 DEF Balance, Tick, StealScan, StealShrink, StealPush, HedgeWork, TickEnds,
                HedgeAll, SweepEnds
  <2> QED BY <2>1
<1>4. CASE MonitorComplete \/ MonitorCancelled \/ Pause \/ Finish \/ Resume \/ UNCHANGED vars
  <2>1. UNCHANGED <<disk, saved>>
    BY <1>4 DEF MonitorComplete, MonitorCancelled, Pause, Finish, Resume, vars
  <2> QED BY <2>1
<1>5. CASE SaveSnapshot BY <1>5 DEF SaveSnapshot
<1> QED BY <1>1, <1>2, <1>3, <1>4, <1>5 DEF Next

\* What the record says stays true.
LEMMA RecordKept ==
  ASSUME LedgerInv, [Next]_vars
  PROVE  RecordOK'
<1>1. RecordOK /\ VerifiedIsOnDisk /\ ProgressOK BY DEF LedgerInv
<1>2. disk \subseteq disk' /\ (saved' = saved \/ SaveSnapshot) BY DiskGrows
<1>3. CASE saved' = saved
  <2>1. \A c \in saved'.complete : ChunkBytes(c) \subseteq disk'
    BY <1>1, <1>2, <1>3 DEF RecordOK
  <2>2. \A t, u \in saved'.tasks : t # u => Apart(t, u) BY <1>1, <1>3 DEF RecordOK
  <2> QED BY <2>1, <2>2 DEF RecordOK, Apart, Has
<1>4. CASE SaveSnapshot /\ saved' # saved
  <2>1. PICK bytes : saved' = [tasks |-> Runs(bytes), complete |-> Complete]
    BY <1>4 DEF SaveSnapshot, Remaining, Unverified
  <2>2. saved'.tasks = Runs(bytes) /\ saved'.complete = Complete BY <2>1
  <2>3. \A c \in saved'.complete : ChunkBytes(c) \subseteq disk'
    BY <1>1, <1>2, <2>2, CompleteIsOnDisk
  <2>4. \A t, u \in saved'.tasks : t # u => Apart(t, u) BY <2>2, RunsApart
  <2> QED BY <2>3, <2>4 DEF RecordOK, Apart, Has
<1> QED BY <1>2, <1>3, <1>4

\* A worker that is gone takes no step.
LEMMA WorkersStepAlive ==
  ASSUME NEW i \in Workers, WorkerStep(i)
  PROVE  wk[i].pc # "gone" /\ phase' = phase
<1>1. Loop = {"read", "write", "count", "clamp", "publish"} BY DEF Loop
<1> QED
  BY DEF WorkerStep, Top, Pop, PopClosed, Start, Read, ReadCancelled, ReadFails,
         Write, WriteFull, Count, Clamp, Publish, Succeeded, Release, DiskFull,
         HealthCancelled, Retry, Exhausted, PushResidual, Unmap, Ended

\* Before a run ends all its workers leave, and none of them counts anything
\* afterwards.
LEMMA EndedKept ==
  ASSUME RangesInv, LedgerInv, [Next]_vars, phase' # "live"
  PROVE  AllGone' /\ disk' = disk /\ prog' = prog
<1>1. phase # "live" => AllGone BY DEF LedgerInv, EndedOK
<1>2. ASSUME NEW i \in Workers, WorkerStep(i) PROVE FALSE
  <2>1. wk[i].pc # "gone" /\ phase' = phase BY <1>2, WorkersStepAlive
  <2> QED BY <1>1, <2>1 DEF AllGone
<1>3. ASSUME NEW i \in Workers, Kill(i) \/ DrainWorker(i) PROVE FALSE
  BY <1>3 DEF Kill, DrainWorker, Live
<1>4. CASE MonitorComplete \/ MonitorCancelled \/ Pause \/ Tick \/ Resume
  BY <1>4 DEF MonitorComplete, MonitorCancelled, Pause, Tick, Resume, NewRun, Live
<1>5. CASE Finish \/ SaveSnapshot
  <2>1. AllGone /\ UNCHANGED <<disk, prog, wk>> BY <1>5 DEF Finish, SaveSnapshot
  <2> QED BY <2>1 DEF AllGone
<1>6. CASE TickEnds \/ SweepEnds \/ StealScan \/ UNCHANGED vars
  <2>1. UNCHANGED <<disk, prog, wk, phase>>
    BY <1>6 DEF TickEnds, SweepEnds, StealScan, vars
  <2> QED BY <1>1, <2>1 DEF AllGone
<1>7. CASE StealShrink \/ StealPush
  <2>1. phase' = phase /\ bal.pc \in {"shrink", "push"} BY <1>7 DEF StealShrink, StealPush
  <2>2. PICK i \in Workers : wk[i].pc \in Mapped BY <2>1 DEF RangesInv, VictimOK
  <2>3. wk[i].pc # "gone" BY <2>2 DEF Mapped, Loop
  <2> QED BY <1>1, <2>1, <2>3 DEF AllGone
<1>8. CASE HedgeWork \/ HedgeAll
  <2>1. phase' = phase BY <1>8 DEF HedgeWork, HedgeAll
  <2>2. \E i \in Hedgeable : TRUE BY <1>8 DEF HedgeWork, HedgeAll, Most
  <2>3. PICK i \in Workers : wk[i].pc \in Mapped BY <2>2 DEF Hedgeable, Active
  <2>4. wk[i].pc # "gone" BY <2>3 DEF Mapped, Loop
  <2> QED BY <1>1, <2>1, <2>4 DEF AllGone
<1> QED BY <1>2, <1>3, <1>4, <1>5, <1>6, <1>7, <1>8 DEF Next, Balance

\* Both invariants together are inductive.
LEMMA LedgerStep ==
  ~Torn /\ LeaveOne /\ RangesInv /\ LedgerInv /\ [Next]_vars => (RangesInv /\ LedgerInv)'
<1> SUFFICES ASSUME ~Torn, LeaveOne, RangesInv, LedgerInv, [Next]_vars
             PROVE  RangesInv' /\ LedgerInv'
  OBVIOUS
<1>1. ProgressOK /\ VerifiedIsOnDisk BY DEF LedgerInv
<1>2. RangesInv'
  <2>1. disk \subseteq File /\ prog \in [Chunks -> Nat]
    BY <1>1 DEF RangesInv, RangesTypeOK, ProgressOK
  <2>2. VerifiedMeansWhole BY <1>1, <2>1, VerifiedWhole DEF VerifiedMeansWhole
  <2> QED BY <2>2, RangesStep
<1>3. ProgressOK' BY <1>1, ProgressKept
<1>4. Ledger' BY <1>3, LedgerKept
<1>5. RecordOK' BY RecordKept
<1>6. EndedOK' BY EndedKept DEF EndedOK
<1>7. VerifiedIsOnDisk'
  <2>1. CASE phase' = "live"
    <3>1. (RangesInv /\ Ledger /\ ProgressOK /\ phase = "live" => VerifiedIsOnDisk)'
      BY LedgerTellsDisk, PTL
    <3> QED BY <1>2, <1>3, <1>4, <2>1, <3>1
  <2>2. CASE phase' # "live"
    <3>1. disk' = disk /\ prog' = prog BY <2>2, EndedKept
    <3> QED BY <1>1, <3>1 DEF VerifiedIsOnDisk
  <2> QED BY <2>1, <2>2
<1> QED BY <1>2, <1>3, <1>4, <1>5, <1>6, <1>7 DEF LedgerInv, Ledger

-----------------------------------------------------------------------------
(* The theorems about a balancer that meets settled workers only. *)

\* Every state of such a download satisfies both invariants.
LEMMA LedgerInductive ==
  ~Torn /\ LeaveOne => (Spec => [](RangesInv /\ LedgerInv))
<1> SUFFICES ASSUME ~Torn, LeaveOne PROVE Spec => [](RangesInv /\ LedgerInv)
  OBVIOUS
<1>1. Init => RangesInv /\ LedgerInv BY RangesInit, LedgerInit
<1>2. RangesInv /\ LedgerInv /\ [Next]_vars => (RangesInv /\ LedgerInv)'
  BY LedgerStep
<1> QED BY <1>1, <1>2, PTL DEF Spec

\* A chunk of the bitmap never counts more bytes than are on disk, however the
\* ranges are split, raced, cancelled, retried, saved and resumed: workers and
\* racers claim disjoint bytes, and a byte is counted once at most, after it
\* was written.
THEOREM VerifiedAlwaysOnDisk ==
  ~Torn /\ LeaveOne => (Spec => []VerifiedIsOnDisk)
<1>1. LedgerInv => VerifiedIsOnDisk BY DEF LedgerInv
<1> QED BY <1>1, LedgerInductive, PTL

\* So no byte is lost, and success means the whole file, without a condition on
\* the bitmap.
THEOREM SettledLosesNothing ==
  ~Torn /\ LeaveOne => (Spec => []NoByteLost /\ []SuccessIsWhole)
<1> QED BY VerifiedAlwaysOnDisk, NoByteIsLost, SuccessAlwaysWhole, PTL
-----------------------------------------------------------------------------
(* Nobody waits in vain.  The third part: what has been counted is all that  *)
(* nobody owes, so that workers with nothing to do and nothing queued mean   *)
(* a VerifiedProgress of the whole file.                                     *)

\* A chunk counts each byte that is no longer to be counted.
AllCounted == \A c \in Chunks : Cardinality(Settles(c)) <= prog[c]

\* A batch outside a race leaves nothing out below the offset that is stored
\* after it.
BatchesOK ==
  \A i \in Workers : Reporting(i) /\ wk[i].ptr = 0 => wk[i].at <= wk[i].cur + wk[i].fresh

\* The shared offset of a race is not behind any participant.
Behind(t) == t.ptr # 0 => t.off <= shared[t.ptr]
BehindOK ==
  /\ \A t \in Queued : Behind(t)
  /\ \A i \in Workers : Holding(i) /\ wk[i].ptr # 0 => wk[i].cur <= shared[wk[i].ptr]

\* What is stashed off the queue is stashed by a run that is cancelled.
StashOK == stash # {} => ctx

Waits == AllCounted /\ BatchesOK /\ BehindOK

\* Each chunk counts as many bytes as it holds.
Full == \A c \in Chunks : Cardinality(ChunkBytes(c)) <= prog[c]

\* VerifiedProgress is that of the whole file when each chunk is full, and only
\* then.
LEMMA WholeIsFull ==
  ASSUME ProgressOK, ChunksOK
  PROVE  Whole <=> Full
<1>1. /\ prog \in [Chunks -> Nat] /\ Size \in Nat BY RangesAssumption DEF ProgressOK
<1>2. \A c \in Chunks : ChunkBytes(c) \cap File = ChunkBytes(c) BY DEF ChunkBytes
<1>3. ASSUME Full PROVE Whole
  <2>1. \A c \in Chunks : Cardinality(ChunkBytes(c) \cap File) <= prog[c]
    BY <1>2, <1>3 DEF Full
  <2>2. VP \in Nat /\ Cardinality(File) <= VP BY <1>1, <2>1, SumOfChunks
  <2> QED BY <1>1, <2>2, FileSize DEF Whole
<1>4. ASSUME Whole, NEW c \in Chunks PROVE Cardinality(ChunkBytes(c)) <= prog[c]
  <2> SUFFICES ASSUME ~(Cardinality(ChunkBytes(c)) <= prog[c]) PROVE FALSE
    OBVIOUS
  <2>1. ChunkBytes(c) \subseteq File BY DEF ChunkBytes
  <2>2. IsFiniteSet(ChunkBytes(c)) /\ Cardinality(ChunkBytes(c)) \in Nat
    BY <2>1, BytesAreFinite
  <2>3. prog[c] \in Nat BY <1>1
  <2>4. ChunkBytes(c) # {} BY <2>2, <2>3, FS_EmptySet
  <2>5. PICK b : b \in ChunkBytes(c) BY <2>4
  <2> DEFINE bytes == File \ {b}
  <2>6. bytes \subseteq File /\ b \in File BY <2>1, <2>5
  <2>7. ChunkBytes(c) \cap bytes = ChunkBytes(c) \ {b} BY <2>1
  <2>8. Cardinality(ChunkBytes(c) \cap bytes) = Cardinality(ChunkBytes(c)) - 1
    BY <2>2, <2>5, <2>7, FS_RemoveElement
  <2>9. ASSUME NEW d \in Chunks PROVE prog[d] <= Cardinality(ChunkBytes(d) \cap bytes)
    <3>1. CASE d = c BY <2>2, <2>3, <2>8, <3>1
    <3>2. CASE d # c
      <4>1. b \notin ChunkBytes(d) BY <2>5, <3>2 DEF ChunkBytes
      <4>2. ChunkBytes(d) \cap bytes = ChunkBytes(d) BY <4>1 DEF ChunkBytes
      <4>3. prog[d] <= Cardinality(ChunkBytes(d)) BY DEF ChunksOK
      <4> HIDE DEF bytes
      <4> QED BY <4>2, <4>3
    <3> QED BY <3>1, <3>2
  <2>10. bytes # File BY <2>6
  <2> HIDE DEF bytes
  <2>11. VP \in Nat /\ VP <= Cardinality(bytes) BY <1>1, <2>6, <2>9, SumOfChunks
  <2>12. Cardinality(bytes) \in Nat /\ Cardinality(bytes) <= Size /\ Cardinality(bytes) # Size
    BY <2>6, <2>10, FileSize
  <2> QED BY <1>1, <1>4, <2>11, <2>12 DEF Whole
<1> QED BY <1>3, <1>4 DEF Full

\* The bytes a chunk settles are a part of it.
LEMMA SettlesPart ==
  ASSUME NEW c \in Chunks
  PROVE  /\ Settles(c) \subseteq ChunkBytes(c) /\ ChunkBytes(c) \subseteq File
         /\ IsFiniteSet(ChunkBytes(c)) /\ Cardinality(ChunkBytes(c)) \in Nat
         /\ \A S \in SUBSET ChunkBytes(c) :
              /\ IsFiniteSet(S) /\ Cardinality(S) \in Nat
              /\ Cardinality(S) <= Cardinality(ChunkBytes(c))
<1>1. Settles(c) \subseteq ChunkBytes(c) /\ ChunkBytes(c) \subseteq File
  BY DEF Settles, ChunkBytes
<1>2. IsFiniteSet(ChunkBytes(c)) /\ Cardinality(ChunkBytes(c)) \in Nat
  BY <1>1, BytesAreFinite
<1>3. ASSUME NEW S \in SUBSET ChunkBytes(c)
      PROVE  /\ IsFiniteSet(S) /\ Cardinality(S) \in Nat
             /\ Cardinality(S) <= Cardinality(ChunkBytes(c))
  BY <1>2, FS_Subset, FS_CardinalityType
<1> QED BY <1>1, <1>2, <1>3

\* What was owed is owed, or there is nothing left to count.
LEMMA CountedOn ==
  ASSUME AllCounted, ProgressOK, ChunksOK, prog' = prog,
         Whole \/ \A x \in File : Owed(x) => Owed(x)'
  PROVE  AllCounted'
<1> SUFFICES ASSUME NEW c \in Chunks PROVE Cardinality(Settles(c)') <= prog[c]
  BY DEF AllCounted
<1>1. /\ Settles(c) \subseteq ChunkBytes(c) /\ ChunkBytes(c) \subseteq File
      /\ IsFiniteSet(ChunkBytes(c)) /\ Cardinality(ChunkBytes(c)) \in Nat
      /\ \A S \in SUBSET ChunkBytes(c) :
           /\ IsFiniteSet(S) /\ Cardinality(S) \in Nat
           /\ Cardinality(S) <= Cardinality(ChunkBytes(c))
  BY SettlesPart
<1>2. Settles(c)' \subseteq ChunkBytes(c) BY DEF Settles
<1>3. prog[c] \in Nat BY DEF ProgressOK
<1>4. PICK S, T : S = Settles(c) /\ T = Settles(c)' OBVIOUS
<1>5. /\ IsFiniteSet(S) /\ Cardinality(S) \in Nat
      /\ Cardinality(T) \in Nat /\ Cardinality(T) <= Cardinality(ChunkBytes(c))
  BY <1>1, <1>2, <1>4
<1>6. CASE Whole
  <2>1. Cardinality(ChunkBytes(c)) <= prog[c] BY <1>6, WholeIsFull DEF Full
  <2> QED BY <1>1, <1>3, <1>4, <1>5, <2>1
<1>7. CASE \A x \in File : Owed(x) => Owed(x)'
  <2>1. T \subseteq S BY <1>1, <1>4, <1>7 DEF Settles
  <2>2. Cardinality(T) <= Cardinality(S) BY <1>5, <2>1, FS_Subset
  <2>3. Cardinality(S) <= prog[c] BY <1>4 DEF AllCounted
  <2> QED BY <1>3, <1>4, <1>5, <2>2, <2>3
<1> QED BY <1>6, <1>7

\* When nobody owes a byte all are counted.
LEMMA NothingOwed ==
  ASSUME AllCounted, ProgressOK, ChunksOK, \A x \in File : ~Owed(x)
  PROVE  Whole
<1>1. ASSUME NEW c \in Chunks PROVE Cardinality(ChunkBytes(c)) <= prog[c]
  <2>1. ChunkBytes(c) \subseteq File BY DEF ChunkBytes
  <2>2. Settles(c) = ChunkBytes(c) BY <2>1 DEF Settles
  <2>3. Cardinality(Settles(c)) <= prog[c] BY DEF AllCounted
  <2> QED BY <2>2, <2>3
<1> QED BY <1>1, WholeIsFull DEF Full

-----------------------------------------------------------------------------
(* What the step of one worker leaves to be counted. *)

\* The others owe what they owed.
LEMMA OthersOwe ==
  ASSUME NEW i \in Workers, Turn(i), UNCHANGED <<bal, shared>>,
         NEW j \in Workers, j # i, NEW x, DueWorker(j, x)
  PROVE  DueWorker(j, x)'
<1>1. wk'[j] = wk[j] BY DEF Turn
<1>2. Claim(j)' = Claim(j) BY <1>1 DEF Claim, Holding, Reach, Pushing
<1>3. Reported(j, x)' <=> Reported(j, x) BY <1>1 DEF Reported, Reporting
<1> QED BY <1>1, <1>2, <1>3 DEF DueWorker, Open

\* A task that stays in the queue or the stash is owed.
LEMMA TasksOwe ==
  ASSUME shared' = shared, NEW x, NEW t \in Queued', DueTask(t, x)
  PROVE  Owed(x)'
BY DEF Owed, DueTask, Open

\* A step of worker i after which what it owed, and the tasks, are still owed.
LEMMA TurnWaits ==
  ASSUME Waits, ProgressOK, ChunksOK, NEW i \in Workers, Turn(i),
         UNCHANGED <<bal, shared, prog>>,
         \A t \in Queued' : t \in Queued \/ Behind(t),
         Holding(i)' /\ wk'[i].ptr # 0 => wk'[i].cur <= shared[wk'[i].ptr],
         Reporting(i)' /\ wk'[i].ptr = 0 => wk'[i].at <= wk'[i].cur + wk'[i].fresh,
         Whole \/ \A x \in File : /\ \A t \in Queued : DueTask(t, x) => Owed(x)'
                                  /\ DueWorker(i, x) => Owed(x)'
  PROVE  Waits'
<1>1. \A j \in Workers : j # i => wk'[j] = wk[j] BY DEF Turn
<1>2. BatchesOK'
  <2> SUFFICES ASSUME NEW j \in Workers, Reporting(j)', wk'[j].ptr = 0
               PROVE  wk'[j].at <= wk'[j].cur + wk'[j].fresh
    BY DEF BatchesOK
  <2>1. CASE j = i BY <2>1
  <2>2. CASE j # i
    <3>1. wk'[j] = wk[j] /\ Reporting(j) BY <1>1, <2>2 DEF Reporting
    <3> QED BY <3>1 DEF Waits, BatchesOK
  <2> QED BY <2>1, <2>2
<1>3. BehindOK'
  <2>1. ASSUME NEW t \in Queued' PROVE Behind(t)'
    BY DEF Behind, Waits, BehindOK
  <2>2. ASSUME NEW j \in Workers, Holding(j)', wk'[j].ptr # 0
        PROVE  wk'[j].cur <= shared'[wk'[j].ptr]
    <3>1. CASE j = i BY <2>2, <3>1
    <3>2. CASE j # i
      <4>1. wk'[j] = wk[j] /\ Holding(j) BY <1>1, <2>2, <3>2 DEF Holding
      <4> QED BY <2>2, <4>1 DEF Waits, BehindOK
    <3> QED BY <3>1, <3>2
  <2> QED BY <2>1, <2>2 DEF BehindOK
<1>4. ASSUME NEW x \in File, Owed(x), ~Whole PROVE Owed(x)'
  <2>1. CASE \E t \in Queued : DueTask(t, x) BY <1>4, <2>1
  <2>2. CASE \E j \in Workers : DueWorker(j, x)
    <3>1. PICK j \in Workers : DueWorker(j, x) BY <2>2
    <3>2. CASE j = i BY <1>4, <3>1, <3>2
    <3>3. CASE j # i BY <3>1, <3>3, OthersOwe DEF Owed
    <3> QED BY <3>2, <3>3
  <2> QED BY <1>4, <2>1, <2>2 DEF Owed
<1>5. AllCounted' BY <1>4, CountedOn DEF Waits
<1> QED BY <1>2, <1>3, <1>5 DEF Waits

\* A worker that keeps its claim and its batch, or has no batch.
LEMMA HoldsWaits ==
  ASSUME Waits, ProgressOK, ChunksOK, NEW i \in Workers, Turn(i),
         UNCHANGED <<bal, shared, prog>>, Queued' = Queued,
         Holding(i), Holding(i)', wk'[i].cur = wk[i].cur, wk'[i].stop = wk[i].stop,
         wk'[i].ptr = wk[i].ptr, ~Reporting(i), ~Reporting(i)'
  PROVE  Waits'
<1>1. wk[i].ptr # 0 => wk[i].cur <= shared[wk[i].ptr] BY DEF Waits, BehindOK
<1>2. Claim(i)' = Claim(i) BY DEF Claim, Reach, Pushing
<1>3. ASSUME NEW x \in File
      PROVE  /\ \A t \in Queued : DueTask(t, x) => Owed(x)'
             /\ DueWorker(i, x) => Owed(x)'
  <2>1. \A t \in Queued : DueTask(t, x) => Owed(x)' BY TasksOwe
  <2>2. ASSUME DueWorker(i, x) PROVE DueWorker(i, x)'
    <3>1. ~Reported(i, x) BY DEF Reported
    <3> QED BY <1>2, <2>2, <3>1 DEF DueWorker, Open
  <2> QED BY <2>1, <2>2 DEF Owed
<1> QED BY <1>1, <1>3, TurnWaits

\* A worker that owes nothing and takes nothing.
LEMMA LeavesWaits ==
  ASSUME Waits, ProgressOK, ChunksOK, NEW i \in Workers, Turn(i),
         UNCHANGED <<bal, shared, prog>>, ~Holding(i)', 
         Whole \/ (Queued' = Queued /\ \A x \in File : ~DueWorker(i, x)),
         Queued' \subseteq Queued
  PROVE  Waits'
<1>1. ~Reporting(i)' BY ReporterWillHold
<1>2. Whole \/ \A x \in File : /\ \A t \in Queued : DueTask(t, x) => Owed(x)'
                               /\ DueWorker(i, x) => Owed(x)'
  BY TasksOwe
<1> QED BY <1>1, <1>2, TurnWaits

\* A worker without a task owes nothing.
LEMMA IdleOwesNothing ==
  ASSUME NEW i \in Workers, ~Holding(i), NEW x \in Nat
  PROVE  ~DueWorker(i, x)
BY DEF DueWorker, Claim, Has, Task

\* The read loop up to the count.
LEMMA ReadingWaits ==
  ASSUME RangesInv, Waits, ProgressOK, ChunksOK, NEW i \in Workers,
         Start(i) \/ Read(i) \/ ReadCancelled(i) \/ ReadFails(i) \/ Write(i) \/ WriteFull(i)
  PROVE  Waits'
<1> SUFFICES ASSUME Turn(i), Stands(i), wk[i].pc \in {"start", "read", "write"},
                    wk'[i].pc \in {"read", "write", "count", "ended"},
                    UNCHANGED <<prog, queue, shared, bal, stash>>
             PROVE  Waits'
  <2>1. CASE Start(i)
    <3>1. Turn(i) /\ Stands(i) /\ wk[i].pc = "start" /\ wk'[i].pc = "read"
      BY <2>1, StartDoes DEF RangesInv
    <3>2. UNCHANGED <<prog, queue, shared, bal, stash>> BY <2>1 DEF Start
    <3> QED BY <3>1, <3>2
  <2>2. ASSUME NEW res \in {"ok", "error", "full"}, End(i, res),
               wk[i].pc \in {"read", "write"},
               UNCHANGED <<prog, queue, shared, bal, stash>>
        PROVE  Waits'
    <3>1. Turn(i) /\ Stands(i) /\ wk'[i].pc = "ended" BY <2>2, EndDoes DEF RangesInv
    <3> QED BY <2>2, <3>1
  <2>3. CASE Read(i)
    <3>1. wk[i].pc = "read" /\ UNCHANGED <<prog, queue, shared, bal, stash>>
      BY <2>3 DEF Read
    <3>2. CASE End(i, "ok") BY <2>2, <3>1, <3>2
    <3>3. CASE \E n \in 1 .. Lesser(Buffer, Lesser(wk[i].stop, wk[i].end) - wk[i].at) :
                 wk' = [wk EXCEPT ![i].pc = "write", ![i].n = n]
      <4>1. PICK n \in 1 .. Lesser(Buffer, Lesser(wk[i].stop, wk[i].end) - wk[i].at) :
                   wk' = [wk EXCEPT ![i].pc = "write", ![i].n = n]
        BY <3>3
      <4>2. wk' = [wk EXCEPT ![i].pc = "write", ![i].n = n] /\ n \in Nat BY <4>1
      <4>3. Turn(i) /\ Stands(i) /\ wk'[i].pc = "write" BY <4>2, ReadsDoes DEF RangesInv
      <4> QED BY <3>1, <4>3
    <3> QED BY <2>3, <3>2, <3>3 DEF Read
  <2>4. CASE ReadCancelled(i) \/ ReadFails(i)
    <3>1. wk[i].pc = "read" /\ End(i, "error")
          /\ UNCHANGED <<prog, queue, shared, bal, stash>>
      BY <2>4 DEF ReadCancelled, ReadFails
    <3> QED BY <2>2, <3>1
  <2>5. CASE WriteFull(i)
    <3>1. wk[i].pc = "write" /\ End(i, "full")
          /\ UNCHANGED <<prog, queue, shared, bal, stash>>
      BY <2>5 DEF WriteFull
    <3> QED BY <2>2, <3>1
  <2>6. CASE Write(i)
    <3>1. wk[i].pc = "write" /\ UNCHANGED <<prog, queue, shared, bal, stash>>
      BY <2>6 DEF Write
    <3>2. CASE wk[i].stop <= wk[i].at
      <4>1. End(i, "ok") BY <2>6, <3>2 DEF Write
      <4> QED BY <2>2, <3>1, <4>1
    <3>3. CASE ~(wk[i].stop <= wk[i].at)
      <4>1. wk[i].at \in Nat /\ wk[i].n \in Nat /\ wk[i].stop \in Nat
        BY WorkerTypes DEF RangesInv
      <4>2. PICK n : /\ n = Lesser(wk[i].n, wk[i].stop - wk[i].at)
                     /\ wk' = [wk EXCEPT ![i].pc = "count", ![i].n = n]
        BY <2>6, <3>3 DEF Write
      <4>3. n \in Nat BY <3>3, <4>1, <4>2 DEF Lesser
      <4>4. Turn(i) /\ Stands(i) /\ wk'[i].pc = "count"
        BY <4>2, <4>3, WritesDoes DEF RangesInv
      <4> QED BY <3>1, <4>4
    <3> QED BY <3>2, <3>3
  <2> QED BY <2>1, <2>3, <2>4, <2>5, <2>6
<1>1. Holding(i) /\ Holding(i)' /\ ~Reporting(i) /\ ~Reporting(i)'
  BY DEF Holding, Mapped, Loop, Reporting
<1>2. Queued' = Queued BY DEF Queued
<1> QED BY <1>1, <1>2, HoldsWaits DEF Stands

\* A retry, and the end of the retries: the claim stays.
LEMMA RetryWaits ==
  ASSUME RangesInv, Waits, ProgressOK, ChunksOK, NEW i \in Workers, Retry(i) \/ Exhausted(i)
  PROVE  Waits'
<1>1. wk[i].pc = "ended" /\ UNCHANGED <<disk, prog, queue, shared, bal, stash>>
  BY DEF Retry, Exhausted, Ended
<1>2. Holding(i) /\ ~Reporting(i) BY <1>1 DEF Holding, Mapped, Reporting
<1>3. /\ Turn(i) /\ wk'[i].pc \in {"start", "residual"}
      /\ wk'[i].cur = wk[i].cur /\ wk'[i].stop = wk[i].stop /\ wk'[i].ptr = wk[i].ptr
  <2>1. CASE Retry(i)
    <3>1. PICK end : /\ end = Greater(wk[i].cur, Lesser(wk[i].stop, wk[i].end))
                     /\ wk' = [wk EXCEPT ![i].pc = "start", ![i].tries = @ + 1,
                                 ![i].off = wk[i].cur, ![i].end = end]
      BY <2>1 DEF Retry
    <3>2. end \in Offsets
      <4>1. wk[i].cur \in Offsets /\ wk[i].end \in Offsets /\ wk[i].stop \in Nat /\ Size \in Nat
        BY WorkerTypes, RangesAssumption DEF RangesInv
      <4> QED BY <3>1, <4>1 DEF Greater, Lesser, Offsets
    <3> QED BY <3>1, <3>2, RetriesDoes DEF RangesInv
  <2>2. CASE Exhausted(i)
    <3>1. wk' = [wk EXCEPT ![i].pc = "residual"] BY <2>2 DEF Exhausted
    <3>2. Turn(i) /\ Stands(i) /\ wk'[i].pc = "residual" BY <3>1, MovesDoes DEF RangesInv
    <3> QED BY <3>2 DEF Stands
  <2> QED BY <2>1, <2>2
<1>4. Holding(i)' /\ ~Reporting(i)' BY <1>3 DEF Holding, Mapped, Loop, Reporting
<1>5. Queued' = Queued BY <1>1 DEF Queued
<1> QED BY <1>1, <1>2, <1>3, <1>4, <1>5, HoldsWaits

\* A worker that holds no task, or leaves one it has read to the end, or leaves
\* with one when every byte is counted.
LEMMA GoesWaits ==
  ASSUME RangesInv, Waits, ProgressOK, ChunksOK, NEW i \in Workers,
         Top(i) \/ PopClosed(i) \/ (Whole /\ Pop(i)) \/ Succeeded(i) \/ Unmap(i)
  PROVE  Waits'
<1>0. \A x \in File : x \in Nat BY RangesAssumption DEF File
<1> SUFFICES ASSUME Turn(i), ~Holding(i)', UNCHANGED <<prog, shared, bal>>,
                    Whole \/ (Queued' = Queued /\ \A x \in File : ~DueWorker(i, x)),
                    Queued' \subseteq Queued
             PROVE  Waits'
  <2>0. ASSUME ~Holding(i) PROVE \A x \in File : ~DueWorker(i, x)
    BY <1>0, <2>0, IdleOwesNothing
  <2>1. CASE Top(i)
    <3>1. Turn(i) /\ wk[i].pc = "top" /\ wk'[i].pc \in {"gone", "pop"}
      BY <2>1, TopDoes DEF RangesInv
    <3>2. ~Holding(i)' /\ ~Holding(i) BY <3>1 DEF Holding, Mapped, Loop
    <3>3. UNCHANGED <<prog, shared, bal>> /\ Queued' = Queued BY <2>1 DEF Top, Queued
    <3> QED BY <2>0, <3>1, <3>2, <3>3
  <2>2. CASE PopClosed(i)
    <3>1. /\ wk[i].pc = "pop" /\ Leave(i, "gone")
          /\ UNCHANGED <<prog, shared, bal>> /\ Queued' = Queued
      BY <2>2 DEF PopClosed, Queued
    <3>2. Turn(i) /\ wk'[i].pc = "gone" BY <3>1, LeaveDoes DEF RangesInv
    <3>3. ~Holding(i)' /\ ~Holding(i) BY <3>1, <3>2 DEF Holding, Mapped, Loop
    <3> QED BY <2>0, <3>1, <3>2, <3>3
  <2>3. CASE Whole /\ Pop(i)
    <3>1. /\ queue # <<>> /\ wk' = [wk EXCEPT ![i].pc = "gone"]
          /\ queue' = Tail(queue) /\ UNCHANGED <<prog, shared, bal, stash>>
      BY <2>3 DEF Pop
    <3>2. Turn(i) /\ wk'[i].pc = "gone" BY <3>1, GoneDoes DEF RangesInv
    <3>3. ~Holding(i)' BY <3>2 DEF Holding, Mapped, Loop
    <3>4. queue \in Seq(Tasks) BY DEF RangesInv, RangesTypeOK
    <3>5. Queued' \subseteq Queued BY <3>1, <3>4, HeadTaken DEF Queued
    <3> QED BY <2>3, <3>1, <3>2, <3>3, <3>5
  <2>4. CASE Succeeded(i)
    <3>1. /\ wk[i].pc = "ended" /\ wk[i].res = "ok" /\ MuFree /\ Leave(i, "top")
          /\ UNCHANGED <<prog, shared, bal>> /\ Queued' = Queued
      BY <2>4 DEF Succeeded, Ended, Queued
    <3>2. Turn(i) /\ wk'[i].pc = "top" BY <3>1, LeaveDoes DEF RangesInv
    <3>3. ~Holding(i)' /\ Holding(i) BY <3>1, <3>2 DEF Holding, Mapped, Loop
    <3>4. ~Pushing(i) BY <3>1 DEF MuFree, Pushing
    <3>5. wk[i].cur >= wk[i].stop BY <3>1, <3>4 DEF RangesInv, OwnOK, Own, EndedAtStop
    <3>6. wk[i].cur \in Nat /\ wk[i].stop \in Nat BY WorkerTypes DEF RangesInv
    <3>7. Claim(i).off = wk[i].cur /\ Claim(i).end = wk[i].stop
      BY <3>3, <3>4, ClaimTypes DEF RangesInv, Reach
    <3>8. \A x \in File : ~DueWorker(i, x) BY <1>0, <3>5, <3>6, <3>7 DEF DueWorker, Has
    <3> QED BY <3>1, <3>2, <3>3, <3>8
  <2>5. CASE Unmap(i)
    <3>1. PICK pc \in {"top", "gone"} : Leave(i, pc) BY <2>5 DEF Unmap
    <3>2. wk[i].pc = "requeued" /\ UNCHANGED <<prog, shared, bal>> /\ Queued' = Queued
      BY <2>5 DEF Unmap, Queued
    <3>3. Turn(i) /\ wk'[i].pc = pc BY <3>1, LeaveDoes DEF RangesInv
    <3>4. ~Holding(i)' /\ ~Holding(i) BY <3>2, <3>3 DEF Holding, Mapped, Loop
    <3> QED BY <2>0, <3>2, <3>3, <3>4
  <2> QED BY <2>1, <2>2, <2>3, <2>4, <2>5
<1> QED BY LeavesWaits

\* A worker that gives back the rest of its task: whatever it owed the rest owes.
LEMMA GivenBackWaits ==
  ASSUME RangesInv, Waits, ProgressOK, ChunksOK, NEW i \in Workers, Turn(i),
         Holding(i), ~Holding(i)', ~Reporting(i), ~Pushing(i),
         UNCHANGED <<bal, shared, prog>>, Queued' = Queued \cup Residual(i)
  PROVE  Waits'
<1>1. /\ Rest(i) = Task(CurrentOffset(i), wk[i].stop, wk[i].ptr)
      /\ \A t \in Residual(i) : t = Rest(i)
      /\ CurrentOffset(i) < wk[i].stop => Rest(i) \in Residual(i)
  BY ResidualIs DEF RangesInv, OwnOK, Own
<1>2. /\ wk[i].cur \in Nat /\ wk[i].stop \in Nat /\ wk[i].ptr \in Nat
      /\ CurrentOffset(i) \in Nat
      /\ wk[i].ptr = 0 => CurrentOffset(i) = wk[i].cur
      /\ wk[i].ptr # 0 => shared[wk[i].ptr] \in Nat
  BY WorkerTypes, OffsetOfRace DEF RangesInv
<1>3. wk[i].ptr # 0 => CurrentOffset(i) = shared[wk[i].ptr]
  <2>1. wk[i].ptr # 0 => wk[i].cur <= shared[wk[i].ptr] BY DEF Waits, BehindOK
  <2> QED BY <1>2, <2>1 DEF CurrentOffset, Greater
<1>4. Behind(Rest(i))
  <2>1. Rest(i).ptr = wk[i].ptr /\ Rest(i).off = CurrentOffset(i) BY <1>1 DEF Task
  <2> QED BY <1>2, <1>3, <2>1 DEF Behind
<1>5. ASSUME NEW x \in File
      PROVE  /\ \A t \in Queued : DueTask(t, x) => Owed(x)'
             /\ DueWorker(i, x) => Owed(x)'
  <2>1. \A t \in Queued : DueTask(t, x) => Owed(x)' BY TasksOwe
  <2>2. ASSUME DueWorker(i, x) PROVE Owed(x)'
    <3>1. x \in Nat BY RangesAssumption DEF File
    <3>2. Claim(i).off = wk[i].cur /\ Claim(i).end = wk[i].stop
      BY ClaimTypes DEF RangesInv, Reach
    <3>3. wk[i].cur <= x /\ x < wk[i].stop BY <2>2, <3>2 DEF DueWorker, Has
    <3>4. Open(wk[i].ptr, x) BY <2>2 DEF DueWorker, Reported
    <3>5. CurrentOffset(i) <= x BY <1>2, <1>3, <3>3, <3>4 DEF Open
    <3>6. Rest(i) \in Residual(i) BY <1>1, <1>2, <3>1, <3>3, <3>5
    <3>7. DueTask(Rest(i), x) BY <1>1, <3>3, <3>4, <3>5 DEF DueTask, Has, Task
    <3> QED BY <3>6, <3>7, TasksOwe
  <2> QED BY <2>1, <2>2
<1>6. \A t \in Queued' : t \in Queued \/ Behind(t) BY <1>1, <1>4
<1>7. ~Reporting(i)' BY ReporterWillHold
<1> QED BY <1>5, <1>6, <1>7, TurnWaits

\* A worker gives back what it holds.
LEMMA BackWaits ==
  ASSUME RangesInv, Waits, ProgressOK, ChunksOK, NEW i \in Workers,
         Release(i) \/ HealthCancelled(i) \/ DiskFull(i) \/ PushResidual(i)
  PROVE  Waits'
<1>1. VictimOK /\ queue \in Seq(Tasks) BY DEF RangesInv, RangesTypeOK
<1>2. ASSUME wk[i].pc \notin Mapped \/ MuFree
      PROVE  /\ ~Pushing(i)
             /\ ToSet(queue \o Requeue(i)) = ToSet(queue) \cup Residual(i)
  <2>1. ~Pushing(i) BY <1>1, <1>2, NotVictim
  <2> QED BY <2>1, RequeueAdds DEF RangesInv, OwnOK, Own
<1>3. CASE Release(i)
  <2>1. /\ wk[i].pc = "ended" /\ MuFree /\ queue' = queue \o Requeue(i)
        /\ wk' = [wk EXCEPT ![i].pc = "requeued", ![i].res = "none"]
        /\ UNCHANGED <<prog, shared, bal, stash>>
    BY <1>3 DEF Release, Ended
  <2>2. Turn(i) /\ wk'[i].pc = "requeued" BY <2>1, ReleasedDoes DEF RangesInv
  <2>3. Holding(i) /\ ~Holding(i)' /\ ~Reporting(i)
    BY <2>1, <2>2 DEF Holding, Mapped, Reporting
  <2>4. Queued' = Queued \cup Residual(i) BY <1>2, <2>1 DEF Queued
  <2> QED BY <1>2, <2>1, <2>2, <2>3, <2>4, GivenBackWaits
<1>4. CASE HealthCancelled(i)
  <2>1. /\ wk[i].pc = "ended" /\ MuFree
        /\ queue' = IF Whole THEN queue ELSE queue \o Requeue(i)
        /\ wk' = [wk EXCEPT ![i].pc = "requeued"]
        /\ UNCHANGED <<prog, shared, bal, stash>>
    BY <1>4 DEF HealthCancelled, Ended
  <2>2. Turn(i) /\ wk'[i].pc = "requeued" BY <2>1, MovesDoes DEF RangesInv
  <2>3. Holding(i) /\ ~Holding(i)' /\ ~Reporting(i)
    BY <2>1, <2>2 DEF Holding, Mapped, Reporting
  <2>4. CASE Whole
    <3>1. Queued' = Queued BY <2>1, <2>4 DEF Queued
    <3> QED BY <2>1, <2>2, <2>3, <2>4, <3>1, LeavesWaits
  <2>5. CASE ~Whole
    <3>1. Queued' = Queued \cup Residual(i) BY <1>2, <2>1, <2>5 DEF Queued
    <3> QED BY <1>2, <2>1, <2>2, <2>3, <3>1, GivenBackWaits
  <2> QED BY <2>4, <2>5
<1>5. CASE DiskFull(i)
  <2>1. /\ wk[i].pc = "ended" /\ MuFree /\ stash' = stash \cup Residual(i) /\ Leave(i, "gone")
        /\ UNCHANGED <<prog, queue, shared, bal>>
    BY <1>5 DEF DiskFull, Ended
  <2>2. Turn(i) /\ wk'[i].pc = "gone" BY <2>1, LeaveDoes DEF RangesInv
  <2>3. Holding(i) /\ ~Holding(i)' /\ ~Reporting(i)
    BY <2>1, <2>2 DEF Holding, Mapped, Loop, Reporting
  <2>4. Queued' = Queued \cup Residual(i) BY <2>1 DEF Queued
  <2> QED BY <1>2, <2>1, <2>2, <2>3, <2>4, GivenBackWaits
<1>6. CASE PushResidual(i)
  <2>1. /\ wk[i].pc = "residual" /\ queue' = queue \o Requeue(i)
        /\ UNCHANGED <<prog, shared, bal, stash>>
    BY <1>6 DEF PushResidual
  <2>2. PICK pc \in {"top", "gone"} : Leave(i, pc) BY <1>6 DEF PushResidual
  <2>3. Turn(i) /\ wk'[i].pc = pc BY <2>2, LeaveDoes DEF RangesInv
  <2>4. Holding(i) /\ ~Holding(i)' /\ wk[i].pc \notin Mapped /\ ~Reporting(i)
    BY <2>1, <2>3 DEF Holding, Mapped, Loop, Reporting
  <2>5. Queued' = Queued \cup Residual(i) BY <1>2, <2>1, <2>4 DEF Queued
  <2> QED BY <1>2, <2>1, <2>3, <2>4, <2>5, GivenBackWaits
<1> QED BY <1>3, <1>4, <1>5, <1>6

\* A task is taken: the worker owes what the task owed.
LEMMA PopWaits ==
  ASSUME RangesInv, Waits, ProgressOK, ChunksOK, NEW i \in Workers, ~Whole, Pop(i)
  PROVE  Waits'
<1>1. PICK t : t = Head(queue) OBVIOUS
<1>2. /\ wk[i].pc = "pop" /\ queue # <<>> /\ MuFree /\ queue' = Tail(queue)
      /\ wk' = [wk EXCEPT ![i].pc = "start", ![i].off = t.off, ![i].end = t.end,
                  ![i].cur = t.off, ![i].stop = t.end, ![i].ptr = t.ptr,
                  ![i].hedged = (t.ptr # 0), ![i].draining = FALSE, ![i].tries = 0]
      /\ UNCHANGED <<prog, shared, bal, stash>>
  BY <1>1 DEF Pop
<1>3. t \in Tasks /\ ToSet(queue) = {t} \cup ToSet(queue')
  <2>1. queue \in Seq(Tasks) BY DEF RangesInv, RangesTypeOK
  <2>2. ASSUME NEW q \in Seq(Tasks), q # <<>>
        PROVE  Head(q) \in Tasks /\ ToSet(q) = {Head(q)} \cup ToSet(Tail(q))
    BY <2>2, HeadTaken
  <2> QED BY <1>1, <1>2, <2>1, <2>2
<1>4. /\ Turn(i) /\ wk'[i].pc = "start" /\ wk'[i].cur = t.off
      /\ wk'[i].stop = t.end /\ wk'[i].ptr = t.ptr
  BY <1>2, <1>3, TakesDoes DEF RangesInv
<1>5. Queued = {t} \cup Queued' BY <1>2, <1>3 DEF Queued
<1>6. ~Holding(i) /\ Holding(i)' /\ ~Reporting(i)' /\ ~Pushing(i)'
  BY <1>2, <1>4 DEF Holding, Mapped, Loop, Reporting, Pushing, MuFree
<1>7. Claim(i)' = Task(t.off, t.end, t.ptr) BY <1>4, <1>6 DEF Claim, Reach
<1>8. ASSUME NEW x \in File
      PROVE  /\ \A u \in Queued : DueTask(u, x) => Owed(x)'
             /\ DueWorker(i, x) => Owed(x)'
  <2>1. x \in Nat BY RangesAssumption DEF File
  <2>2. ~DueWorker(i, x) BY <1>6, <2>1, IdleOwesNothing
  <2>3. ASSUME DueTask(t, x) PROVE DueWorker(i, x)'
    <3>1. t.off <= x /\ x < t.end /\ Open(t.ptr, x) BY <2>3 DEF DueTask, Has
    <3>2. Claim(i)'.off = t.off /\ Claim(i)'.end = t.end BY <1>7 DEF Task
    <3>3. Has(Claim(i)', x) BY <3>1, <3>2 DEF Has
    <3>4. Open(wk[i].ptr, x)' BY <1>2, <1>4, <3>1 DEF Open
    <3> QED BY <3>3, <3>4 DEF DueWorker
  <2>4. ASSUME NEW u \in Queued, DueTask(u, x) PROVE Owed(x)'
    <3>1. CASE u = t BY <2>3, <2>4, <3>1 DEF Owed
    <3>2. CASE u # t BY <1>2, <1>5, <2>4, <3>2, TasksOwe
    <3> QED BY <3>1, <3>2
  <2> QED BY <2>2, <2>4
<1>9. wk'[i].ptr # 0 => wk'[i].cur <= shared[wk'[i].ptr]
  <2>1. Behind(t) BY <1>5 DEF Waits, BehindOK
  <2> QED BY <1>4, <2>1 DEF Behind
<1> QED BY <1>2, <1>4, <1>5, <1>6, <1>8, <1>9, TurnWaits

\* A worker in a race is no victim: what it owes ends at its StopAt.
LEMMA RacerReach ==
  ASSUME RangesInv, NEW i \in Workers, wk[i].ptr # 0
  PROVE  ~Pushing(i) /\ ~Shrinking(i) /\ Reach(i) = wk[i].stop /\ wk[i].hedged
<1>1. wk[i].hedged BY DEF RangesInv, CellsAllocated
<1>2. ~Pushing(i) /\ ~Shrinking(i) BY <1>1 DEF RangesInv, VictimOK, Pushing, Shrinking
<1> QED BY <1>1, <1>2 DEF Reach

\* What the clamp takes out of a batch of a race lies beyond the claim.
LEMMA ClampWaits ==
  ASSUME RangesInv, Ledger, Waits, ProgressOK, NEW i \in Workers, Clamp(i)
  PROVE  Waits'
<1>1. wk[i].pc = "clamp" /\ UNCHANGED <<disk, prog, queue, shared, bal, stash>>
  BY DEF Clamp
<1>2. /\ wk[i].at \in Nat /\ wk[i].at \in Offsets /\ wk[i].stop \in Nat
      /\ wk[i].fresh \in Nat /\ wk[i].cur \in Nat /\ wk[i].ptr \in Nat
  BY WorkerTypes DEF RangesInv
<1>3. Holding(i) /\ Reporting(i) BY <1>1 DEF Holding, Mapped, Loop, Reporting
<1>4. /\ wk[i].cur <= wk[i].stop /\ wk[i].cur + wk[i].fresh <= wk[i].at
      /\ wk[i].ptr = 0 => wk[i].at <= wk[i].cur + wk[i].fresh
      /\ wk[i].ptr # 0 => wk[i].cur <= shared[wk[i].ptr]
  BY <1>3 DEF Ledger, PlacesOK, PlaceOK, Waits, BatchesOK, BehindOK
<1> DEFINE excess == IF wk[i].at > wk[i].stop THEN wk[i].at - wk[i].stop ELSE 0
           to == wk[i].at - excess
           fresh == IF wk[i].fresh > excess THEN wk[i].fresh - excess ELSE 0
<1>5. wk' = [wk EXCEPT ![i].pc = "publish", ![i].at = to, ![i].fresh = fresh]
  BY DEF Clamp
<1>6. /\ to \in Nat /\ to <= wk[i].at /\ to <= wk[i].stop /\ fresh \in Nat
      /\ wk[i].ptr = 0 => to <= wk[i].cur + fresh
      /\ \A x \in Nat : x < wk[i].stop /\ x < wk[i].at /\ wk[i].at <= x + wk[i].fresh
           => x < to /\ to <= x + fresh
  BY <1>2, <1>4
<1>7. to \in Offsets
  <2> HIDE DEF to
  <2> QED BY <1>2, <1>6, RangesAssumption DEF Offsets
<1> HIDE DEF to, fresh
<1>8. Turn(i) /\ Stands(i) /\ wk'[i].pc = "publish" /\ wk'[i].at = to
  BY <1>5, <1>6, <1>7, ClampsDoes DEF RangesInv
<1>9. wk'[i].fresh = fresh
  <2>1. wk \in [Workers -> Entries] BY DEF RangesInv, RangesTypeOK
  <2> QED BY <1>5, <2>1 DEF Entries
<1>10. Holding(i)' /\ Reporting(i)' BY <1>8 DEF Holding, Mapped, Loop, Reporting
<1>11. Queued' = Queued BY <1>1 DEF Queued
<1>12. Claim(i)' = Claim(i) /\ wk'[i].ptr = wk[i].ptr /\ wk'[i].cur = wk[i].cur
  BY <1>1, <1>3, <1>8, <1>10 DEF Claim, Reach, Pushing, Stands
<1>13. ASSUME NEW x \in File
       PROVE  /\ \A t \in Queued : DueTask(t, x) => Owed(x)'
              /\ DueWorker(i, x) => Owed(x)'
  <2>1. \A t \in Queued : DueTask(t, x) => Owed(x)' BY <1>1, <1>11, TasksOwe
  <2>2. ASSUME DueWorker(i, x) PROVE DueWorker(i, x)'
    <3>1. Has(Claim(i)', x) BY <1>12, <2>2 DEF DueWorker
    <3>2. CASE Open(wk[i].ptr, x)
      <4>1. Open(wk[i].ptr, x)' BY <1>1, <1>12, <3>2 DEF Open
      <4> QED BY <3>1, <4>1 DEF DueWorker
    <3>3. CASE ~Open(wk[i].ptr, x)
      <4>1. wk[i].ptr # 0 /\ Reported(i, x) BY <2>2, <3>3 DEF DueWorker, Open
      <4>2. Claim(i).end = wk[i].stop BY <1>3, <4>1, ClaimTypes, RacerReach DEF RangesInv
      <4>3. x \in Nat /\ x < wk[i].stop
        BY <2>2, <4>2, RangesAssumption DEF DueWorker, Has, File
      <4>4. wk[i].at <= x + wk[i].fresh /\ x < wk[i].at BY <4>1 DEF Reported
      <4>5. to <= x + fresh /\ x < to BY <1>6, <4>3, <4>4
      <4>6. Reported(i, x)' BY <1>8, <1>9, <1>10, <4>5 DEF Reported
      <4> QED BY <3>1, <4>6 DEF DueWorker
    <3> QED BY <3>2, <3>3
  <2> QED BY <2>1, <2>2 DEF Owed
<1>14. ChunksOK BY DEF Ledger
<1> QED BY <1>1, <1>4, <1>6, <1>8, <1>9, <1>11, <1>12, <1>13, <1>14, TurnWaits

\* Who races with worker i races for the same end.
LEMMA SameEnd ==
  ASSUME RangesInv, NEW i \in Workers, Holding(i), wk[i].ptr # 0
  PROVE  /\ wk[i].ptr \in 1 .. Len(shared)
         /\ \A t \in Queued : t.ptr = wk[i].ptr => t.end = wk[i].stop
         /\ \A j \in Workers : Holding(j) /\ wk[j].ptr = wk[i].ptr => Reach(j) = wk[i].stop
<1>1. wk[i].ptr \in 1 .. Len(shared) BY OffsetOfRace DEF RangesInv
<1>2. \A a, b \in Limits(wk[i].ptr) : a = b BY <1>1 DEF RangesInv, RaceOK
<1>3. wk[i].stop \in Limits(wk[i].ptr) BY DEF Limits
<1>4. ASSUME NEW t \in Queued, t.ptr = wk[i].ptr PROVE t.end = wk[i].stop
  <2>1. t.end \in Limits(wk[i].ptr) BY <1>4 DEF Limits
  <2> QED BY <1>2, <1>3, <2>1
<1>5. ASSUME NEW j \in Workers, Holding(j), wk[j].ptr = wk[i].ptr PROVE Reach(j) = wk[i].stop
  <2>1. wk[j].stop \in Limits(wk[i].ptr) BY <1>5 DEF Limits
  <2>2. Reach(j) = wk[j].stop BY <1>5, RacerReach
  <2> QED BY <1>2, <1>3, <2>1, <2>2
<1> QED BY <1>1, <1>4, <1>5

\* The bytes the shared offset passes come into the batch of the worker that
\* moves it.
LEMMA CountWaits ==
  ASSUME RangesInv, Ledger, Waits, ProgressOK, NEW i \in Workers, Count(i)
  PROVE  Waits'
<1>1. /\ Turn(i) /\ Stands(i) /\ wk[i].pc = "count" /\ wk'[i].pc = "clamp"
      /\ UNCHANGED <<disk, prog, queue, stash, bal, phase, saved>>
      /\ CellsGrow /\ Len(shared') = Len(shared)
      /\ \A p \in 1 .. Len(shared) :
           shared'[p] = shared[p] \/ (p = wk[i].ptr /\ shared'[p] = wk'[i].at)
      /\ wk[i].ptr = 0 => wk'[i].at <= wk'[i].cur + wk'[i].fresh
      /\ wk[i].ptr # 0 /\ wk[i].cur <= shared[wk[i].ptr] =>
           \A x \in Nat : shared[wk[i].ptr] <= x /\ x < wk'[i].at => Reported(i, x)'
  BY CountDoes
<1>2. Holding(i) /\ Holding(i)' /\ ~Reporting(i)
  BY <1>1 DEF Holding, Mapped, Loop, Reporting
<1>3. Queued' = Queued BY <1>1 DEF Queued
<1>4. \A j \in Workers : /\ wk'[j].ptr = wk[j].ptr /\ wk'[j].cur = wk[j].cur
                         /\ Holding(j)' = Holding(j) /\ Claim(j)' = Claim(j)
  <2> SUFFICES ASSUME NEW j \in Workers
               PROVE  /\ wk'[j].ptr = wk[j].ptr /\ wk'[j].cur = wk[j].cur
                      /\ Holding(j)' = Holding(j) /\ Claim(j)' = Claim(j)
    OBVIOUS
  <2>1. CASE j = i
    BY <1>1, <1>2, <2>1 DEF Stands, Claim, Reach, Pushing, Holding
  <2>2. CASE j # i
    <3>1. wk'[j] = wk[j] BY <1>1, <2>2 DEF Turn
    <3> QED BY <1>1, <3>1 DEF Claim, Reach, Pushing, Holding
  <2> QED BY <2>1, <2>2
<1>5. /\ \A t \in Queued : t.ptr \in Nat /\ t.off \in Nat /\ (t.ptr # 0 => t.ptr \in 1 .. Len(shared))
      /\ \A j \in Workers : wk[j].ptr \in Nat /\ wk[j].cur \in Nat
                            /\ (wk[j].ptr # 0 => wk[j].ptr \in 1 .. Len(shared))
  <2>1. CellsAllocated /\ Len(shared) \in Nat BY <1>1 DEF RangesInv, CellsGrow
  <2>2. ASSUME NEW t \in Queued
        PROVE  t.ptr \in Nat /\ t.off \in Nat /\ (t.ptr # 0 => t.ptr \in 1 .. Len(shared))
    <3>1. t.ptr \in Nat /\ t.off \in Nat /\ t.ptr <= Len(shared)
      BY <2>1, QueuedTasks DEF CellsAllocated, RangesInv
    <3> QED BY <2>1, <3>1
  <2>3. ASSUME NEW j \in Workers
        PROVE  wk[j].ptr \in Nat /\ wk[j].cur \in Nat
               /\ (wk[j].ptr # 0 => wk[j].ptr \in 1 .. Len(shared))
    <3>1. wk[j].ptr \in Nat /\ wk[j].cur \in Nat /\ wk[j].ptr <= Len(shared)
      BY <2>1, WorkerTypes DEF CellsAllocated, RangesInv
    <3> QED BY <2>1, <3>1
  <2> QED BY <2>2, <2>3
<1>6. \A p \in 1 .. Len(shared) :
        shared[p] \in Nat /\ shared'[p] \in Nat /\ shared[p] <= shared'[p]
  BY <1>1 DEF CellsGrow
<1>7. BatchesOK'
  <2> SUFFICES ASSUME NEW j \in Workers, Reporting(j)', wk'[j].ptr = 0
               PROVE  wk'[j].at <= wk'[j].cur + wk'[j].fresh
    BY DEF BatchesOK
  <2>1. CASE j = i BY <1>1, <1>4, <2>1
  <2>2. CASE j # i
    <3>1. wk'[j] = wk[j] /\ Reporting(j) BY <1>1, <2>2 DEF Turn, Reporting
    <3> QED BY <3>1 DEF Waits, BatchesOK
  <2> QED BY <2>1, <2>2
<1>8. BehindOK'
  <2>1. ASSUME NEW t \in Queued, t.ptr # 0 PROVE t.off <= shared'[t.ptr]
    <3>1. t.off <= shared[t.ptr] BY <2>1 DEF Waits, BehindOK, Behind
    <3> QED BY <1>5, <1>6, <2>1, <3>1
  <2>2. ASSUME NEW j \in Workers, Holding(j), wk[j].ptr # 0
        PROVE  wk[j].cur <= shared'[wk[j].ptr]
    <3>1. wk[j].cur <= shared[wk[j].ptr] BY <2>2 DEF Waits, BehindOK
    <3> QED BY <1>5, <1>6, <2>2, <3>1
  <2> QED BY <1>3, <1>4, <2>1, <2>2 DEF BehindOK, Behind
<1>9. ASSUME NEW x \in Nat, NEW p \in Nat, p # 0 => p \in 1 .. Len(shared),
             Open(p, x), ~Open(p, x)', p = wk[i].ptr => x < wk[i].stop
      PROVE  DueWorker(i, x)'
  <2>1. p \in 1 .. Len(shared) /\ shared[p] <= x /\ ~(shared'[p] <= x) BY <1>9 DEF Open
  <2>2. p = wk[i].ptr /\ shared'[p] = wk'[i].at BY <1>1, <2>1
  <2>3. x < wk'[i].at BY <1>6, <2>1, <2>2
  <2>4. wk[i].ptr # 0 BY <1>9, <2>1, <2>2
  <2>5. wk[i].cur <= shared[wk[i].ptr] BY <1>2, <2>4 DEF Waits, BehindOK
  <2>6. Reported(i, x)' BY <1>1, <2>1, <2>2, <2>3, <2>4, <2>5
  <2>7. wk[i].cur <= x BY <1>5, <1>6, <2>1, <2>2, <2>5
  <2>8. Claim(i).off = wk[i].cur /\ Claim(i).end = wk[i].stop
    BY <1>2, <2>4, ClaimTypes, RacerReach DEF RangesInv
  <2>9. Has(Claim(i)', x) BY <1>4, <1>9, <2>2, <2>7, <2>8 DEF Has
  <2> QED BY <2>6, <2>9 DEF DueWorker
<1>10. ASSUME NEW x \in File, Owed(x) PROVE Owed(x)'
  <2>1. x \in Nat BY RangesAssumption DEF File
  <2>2. ASSUME NEW t \in Queued, DueTask(t, x) PROVE Owed(x)'
    <3>1. x < t.end /\ Open(t.ptr, x) BY <2>2 DEF DueTask, Has
    <3>2. CASE Open(t.ptr, x)'
      <4>1. DueTask(t, x)' BY <2>2, <3>2 DEF DueTask
      <4> QED BY <1>3, <4>1 DEF Owed
    <3>3. CASE ~Open(t.ptr, x)'
      <4>1. t.ptr # 0 BY <3>3 DEF Open
      <4>2. t.ptr = wk[i].ptr => x < wk[i].stop BY <1>2, <3>1, <4>1, SameEnd
      <4>3. PICK p \in Nat : p = t.ptr BY <1>5
      <4>4. ~Open(p, x)' BY <3>3, <4>3 DEF Open
      <4>5. DueWorker(i, x)' BY <1>5, <1>9, <2>1, <3>1, <4>2, <4>3, <4>4
      <4> QED BY <4>5 DEF Owed
    <3> QED BY <3>2, <3>3
  <2>3. ASSUME NEW j \in Workers, DueWorker(j, x) PROVE Owed(x)'
    <3>1. Has(Claim(j)', x) BY <1>4, <2>3 DEF DueWorker
    <3>2. CASE Reported(j, x)
      <4>1. j # i BY <1>2, <3>2 DEF Reported
      <4>2. wk'[j] = wk[j] BY <1>1, <4>1 DEF Turn
      <4>3. Reported(j, x)' BY <3>2, <4>2 DEF Reported, Reporting
      <4> QED BY <3>1, <4>3 DEF DueWorker, Owed
    <3>3. CASE ~Reported(j, x)
      <4>1. Open(wk[j].ptr, x) BY <2>3, <3>3 DEF DueWorker
      <4>2. CASE Open(wk[j].ptr, x)'
        BY <3>1, <4>2 DEF DueWorker, Owed
      <4>3. CASE ~Open(wk[j].ptr, x)'
        <5>1. PICK p \in Nat : p = wk[j].ptr BY <1>5
        <5>2. wk'[j].ptr = p BY <1>4, <5>1
        <5>3. p # 0 /\ ~Open(p, x)' BY <4>3, <5>2 DEF Open
        <5>4. Holding(j) /\ x < Reach(j)
          <6>1. Has(Claim(j), x) BY <2>3 DEF DueWorker
          <6> QED BY <2>1, <6>1, ClaimTypes DEF RangesInv, Has
        <5>5. p = wk[i].ptr => x < wk[i].stop BY <1>2, <5>1, <5>3, <5>4, SameEnd
        <5>6. DueWorker(i, x)' BY <1>5, <1>9, <2>1, <4>1, <5>1, <5>3, <5>5
        <5> QED BY <5>6 DEF Owed
      <4> QED BY <4>2, <4>3
    <3> QED BY <3>2, <3>3
  <2> QED BY <1>10, <2>2, <2>3 DEF Owed
<1>11. AllCounted' BY <1>1, <1>10, CountedOn DEF Waits, Ledger
<1> QED BY <1>7, <1>8, <1>11 DEF Waits

\* The count of a chunk grows by its part of the batch, or to its size.
LEMMA UpdatedCovers ==
  ASSUME ProgressOK, NEW a \in Nat, NEW b \in Nat, NEW c \in Chunks,
         NEW S, S \subseteq ChunkBytes(c), Cardinality(S) <= prog[c],
         NEW T, T \subseteq ChunkBytes(c),
         T \subseteq S \cup (ChunkBytes(c) \cap BytesOf(Task(a, b, 0)))
  PROVE  Cardinality(T) <= UpdateChunkStatus(a, b)[c]
<1> DEFINE R == ChunkBytes(c) \cap BytesOf(Task(a, b, 0))
           n == Cardinality(ChunkBytes(c))
<1>1. UpdateChunkStatus(a, b)[c] = Lesser(n, prog[c] + Cardinality(R))
  BY DEF UpdateChunkStatus
<1>2. prog[c] \in Nat BY DEF ProgressOK
<1>3. ChunkBytes(c) \subseteq File BY DEF ChunkBytes
<1>4. R \subseteq File /\ S \subseteq File /\ T \subseteq File /\ T \subseteq S \cup R
  BY <1>3
<1> HIDE DEF R
<1>5. /\ n \in Nat /\ IsFiniteSet(ChunkBytes(c)) /\ IsFiniteSet(R) /\ Cardinality(R) \in Nat
      /\ IsFiniteSet(S) /\ Cardinality(S) \in Nat /\ Cardinality(T) \in Nat
  BY <1>3, <1>4, BytesAreFinite
<1>6. Cardinality(T) <= n BY <1>5, FS_Subset
<1>7. Cardinality(T) <= Cardinality(S) + Cardinality(R)
  <2>1. IsFiniteSet(S \cup R) /\ Cardinality(S \cup R) \in Nat
        /\ Cardinality(S \cup R) = Cardinality(S) + Cardinality(R) - Cardinality(S \cap R)
    BY <1>5, FS_Union, FS_CardinalityType
  <2>2. Cardinality(S \cap R) \in Nat
    <3>1. S \cap R \subseteq File BY <1>4
    <3> QED BY <3>1, BytesAreFinite
  <2>3. Cardinality(T) <= Cardinality(S \cup R) BY <1>4, <2>1, FS_Subset
  <2> QED BY <1>5, <2>1, <2>2, <2>3
<1> HIDE DEF n
<1>8. prog[c] + Cardinality(R) \in Nat /\ Cardinality(T) <= prog[c] + Cardinality(R)
  BY <1>2, <1>5, <1>7
<1> QED BY <1>1, <1>5, <1>6, <1>8 DEF Lesser

\* What drops out with the new offset is what the batch adds to the bitmap.
LEMMA PublishWaits ==
  ASSUME RangesInv, Ledger, Waits, ProgressOK, NEW i \in Workers, Publish(i)
  PROVE  Waits'
<1>1. /\ Turn(i) /\ wk[i].pc = "publish"
      /\ wk'[i].pc = "read" /\ wk'[i].cur = wk[i].at /\ wk'[i].at = wk[i].at
      /\ wk'[i].stop = wk[i].stop /\ wk'[i].ptr = wk[i].ptr
  BY PublishDoes DEF RangesInv
<1>2. /\ UNCHANGED <<disk, queue, shared, bal, stash>>
      /\ prog' = UpdateChunkStatus(wk[i].at - wk[i].fresh, wk[i].at)
  BY DEF Publish
<1>3. /\ Holding(i) /\ Holding(i)' /\ Reporting(i) /\ ~Reporting(i)'
      /\ (Pushing(i)' <=> Pushing(i))
  BY <1>1, <1>2 DEF Holding, Mapped, Loop, Reporting, Pushing
<1>4. /\ wk[i].cur \in Nat /\ wk[i].at \in Nat /\ wk[i].fresh \in Nat /\ wk[i].stop \in Nat
      /\ wk[i].ptr \in Nat /\ bal.end \in Nat
      /\ wk[i].ptr # 0 => shared[wk[i].ptr] \in Nat
  BY WorkerTypes, BalancerTypes, OffsetOfRace DEF RangesInv
<1>5. /\ wk[i].cur + wk[i].fresh <= wk[i].at
      /\ wk[i].ptr = 0 => wk[i].at <= wk[i].cur + wk[i].fresh
      /\ wk[i].ptr # 0 => wk[i].at <= shared[wk[i].ptr]
  BY <1>3 DEF Ledger, PlacesOK, PlaceOK, Waits, BatchesOK
<1>6. Queued' = Queued BY <1>2 DEF Queued
<1>7. BatchesOK'
  <2> SUFFICES ASSUME NEW j \in Workers, Reporting(j)', wk'[j].ptr = 0
               PROVE  wk'[j].at <= wk'[j].cur + wk'[j].fresh
    BY DEF BatchesOK
  <2>1. j # i BY <1>3
  <2>2. wk'[j] = wk[j] /\ Reporting(j) BY <1>1, <2>1 DEF Turn, Reporting
  <2> QED BY <2>2 DEF Waits, BatchesOK
<1>8. BehindOK'
  <2>1. \A t \in Queued' : Behind(t)' BY <1>2, <1>6 DEF Behind, Waits, BehindOK
  <2>2. ASSUME NEW j \in Workers, Holding(j)', wk'[j].ptr # 0
        PROVE  wk'[j].cur <= shared'[wk'[j].ptr]
    <3>1. CASE j = i BY <1>1, <1>2, <1>5, <2>2, <3>1
    <3>2. CASE j # i
      <4>1. wk'[j] = wk[j] /\ Holding(j) BY <1>1, <2>2, <3>2 DEF Holding, Turn
      <4> QED BY <1>2, <2>2, <4>1 DEF Waits, BehindOK
    <3> QED BY <3>1, <3>2
  <2> QED BY <2>1, <2>2 DEF BehindOK
<1>9. ASSUME NEW x \in Nat, DueWorker(i, x), ~Reported(i, x) PROVE DueWorker(i, x)'
  <2>1. /\ Claim(i) = Task(wk[i].cur, Reach(i), wk[i].ptr)
        /\ Claim(i)' = Task(wk[i].at, Reach(i), wk[i].ptr)
    BY <1>1, <1>2, <1>3 DEF Claim, Reach
  <2>2. Open(wk[i].ptr, x) BY <1>9 DEF DueWorker
  <2>3. wk[i].cur <= x /\ x < Reach(i) BY <1>9, <2>1 DEF DueWorker, Has, Task
  <2>4. wk[i].at <= x
    <3>1. CASE wk[i].ptr = 0
      <4>1. ~(wk[i].at <= x + wk[i].fresh /\ x < wk[i].at) BY <1>3, <1>9 DEF Reported
      <4> QED BY <1>4, <1>5, <2>3, <3>1, <4>1
    <3>2. CASE wk[i].ptr # 0 BY <1>4, <1>5, <2>2, <3>2 DEF Open
    <3> QED BY <3>1, <3>2
  <2>5. Has(Claim(i)', x) BY <2>1, <2>3, <2>4 DEF Has, Task
  <2>6. Open(wk[i].ptr, x)' BY <1>1, <1>2, <2>2 DEF Open
  <2> QED BY <2>5, <2>6 DEF DueWorker
<1>10. ASSUME NEW x \in File, Owed(x), ~Reported(i, x) PROVE Owed(x)'
  <2>1. CASE \E t \in Queued : DueTask(t, x) BY <1>2, <1>6, <2>1, TasksOwe
  <2>2. CASE \E j \in Workers : DueWorker(j, x)
    <3>1. PICK j \in Workers : DueWorker(j, x) BY <2>2
    <3>2. CASE j = i
      <4>1. x \in Nat BY RangesAssumption DEF File
      <4> QED BY <1>9, <1>10, <3>1, <3>2, <4>1 DEF Owed
    <3>3. CASE j # i BY <1>1, <1>2, <3>1, <3>3, OthersOwe DEF Owed
    <3> QED BY <3>2, <3>3
  <2> QED BY <1>10, <2>1, <2>2 DEF Owed
<1> DEFINE from == wk[i].at - wk[i].fresh
<1>11. from \in Nat /\ (\A x \in File : Reported(i, x) => x \in BytesOf(Task(from, wk[i].at, 0)))
  <2>1. from \in Nat BY <1>4, <1>5
  <2>2. ASSUME NEW x \in File, Reported(i, x) PROVE x \in BytesOf(Task(from, wk[i].at, 0))
    <3>1. x \in Nat BY RangesAssumption DEF File
    <3>2. wk[i].at <= x + wk[i].fresh /\ x < wk[i].at BY <2>2 DEF Reported
    <3>3. from <= x BY <1>4, <3>1, <3>2
    <3> HIDE DEF from
    <3> QED BY <3>2, <3>3 DEF BytesOf, Task
  <2> QED BY <2>1, <2>2
<1> HIDE DEF from
<1>12. ASSUME NEW c \in Chunks PROVE Cardinality(Settles(c)') <= prog'[c]
  <2>1. ChunkBytes(c) \subseteq File BY DEF ChunkBytes
  <2>2. PICK S, T : S = Settles(c) /\ T = Settles(c)' OBVIOUS
  <2>3. S \subseteq ChunkBytes(c) /\ T \subseteq ChunkBytes(c) BY <2>2 DEF Settles
  <2>4. T \subseteq S \cup (ChunkBytes(c) \cap BytesOf(Task(from, wk[i].at, 0)))
    BY <1>10, <1>11, <2>1, <2>2 DEF Settles
  <2>5. Cardinality(S) <= prog[c] BY <2>2 DEF Waits, AllCounted
  <2>6. prog' = UpdateChunkStatus(from, wk[i].at) BY <1>2 DEF from
  <2>7. Cardinality(T) <= UpdateChunkStatus(from, wk[i].at)[c]
    BY <1>4, <1>11, <2>3, <2>4, <2>5, UpdatedCovers
  <2> QED BY <2>2, <2>6, <2>7
<1>13. AllCounted' BY <1>12 DEF AllCounted
<1> QED BY <1>7, <1>8, <1>13 DEF Waits


-----------------------------------------------------------------------------
(* What monitors, controllers and the balancer leave to be counted. *)

\* The claims are as they were.
LEMMA SameClaimsWait ==
  ASSUME Waits, ProgressOK, ChunksOK, \A j \in Workers : Keeps(j) /\ Claim(j)' = Claim(j),
         UNCHANGED <<prog, shared, stash>>, queue' = queue \/ (Whole /\ queue' = <<>>)
  PROVE  Waits'
<1>1. /\ Queued' \subseteq Queued
      /\ Whole \/ Queued' = Queued
  <2>1. CASE queue' = queue BY <2>1 DEF Queued
  <2>2. CASE Whole /\ queue' = <<>>
    <3>1. ToSet(queue') = {} BY <2>2 DEF ToSet
    <3> QED BY <2>2, <3>1 DEF Queued
  <2> QED BY <2>1, <2>2
<1>2. ASSUME NEW j \in Workers
      PROVE  /\ (Holding(j)' <=> Holding(j)) /\ (Reporting(j)' <=> Reporting(j))
             /\ \A x : DueWorker(j, x)' <=> DueWorker(j, x)
  <2>1. (Holding(j)' <=> Holding(j)) /\ (Reporting(j)' <=> Reporting(j))
    BY DEF Keeps, Holding, Reporting
  <2>2. ASSUME NEW x PROVE DueWorker(j, x)' <=> DueWorker(j, x)
    <3>1. Reported(j, x)' <=> Reported(j, x) BY <2>1 DEF Keeps, Reported
    <3>2. Open(wk[j].ptr, x)' <=> Open(wk[j].ptr, x) BY DEF Keeps, Open
    <3> QED BY <3>1, <3>2 DEF DueWorker
  <2> QED BY <2>1, <2>2
<1>3. BatchesOK'
  <2> SUFFICES ASSUME NEW j \in Workers, Reporting(j)', wk'[j].ptr = 0
               PROVE  wk'[j].at <= wk'[j].cur + wk'[j].fresh
    BY DEF BatchesOK
  <2> QED BY <1>2 DEF Keeps, Waits, BatchesOK
<1>4. BehindOK'
  <2>1. \A t \in Queued' : Behind(t)' BY <1>1 DEF Behind, Waits, BehindOK
  <2>2. ASSUME NEW j \in Workers, Holding(j)', wk'[j].ptr # 0
        PROVE  wk'[j].cur <= shared'[wk'[j].ptr]
    BY <1>2, <2>2 DEF Keeps, Waits, BehindOK
  <2> QED BY <2>1, <2>2 DEF BehindOK
<1>5. Whole \/ \A x \in File : Owed(x) => Owed(x)'
  <2> SUFFICES ASSUME ~Whole, NEW x \in File, Owed(x) PROVE Owed(x)' OBVIOUS
  <2>1. CASE \E t \in Queued : DueTask(t, x) BY <1>1, <2>1, TasksOwe
  <2>2. CASE \E j \in Workers : DueWorker(j, x) BY <1>2, <2>2 DEF Owed
  <2> QED BY <2>1, <2>2 DEF Owed
<1>6. AllCounted' BY <1>5, CountedOn DEF Waits
<1> QED BY <1>3, <1>4, <1>6 DEF Waits

\* Nobody moves, and nothing is being cut off.
LEMMA StillWaits ==
  ASSUME Waits, ProgressOK, ChunksOK,
         \A j \in Workers : Keeps(j) /\ wk'[j].stop = wk[j].stop,
         bal' = bal \/ (bal.pc # "push" /\ bal'.pc # "push"),
         UNCHANGED <<prog, shared, stash>>, queue' = queue \/ (Whole /\ queue' = <<>>)
  PROVE  Waits'
<1>1. ASSUME NEW j \in Workers PROVE Claim(j)' = Claim(j)
  <2>1. Holding(j)' <=> Holding(j) BY DEF Keeps, Holding
  <2>2. (Pushing(j)' <=> Pushing(j)) /\ (Pushing(j) => bal' = bal) BY DEF Pushing
  <2> QED BY <2>1, <2>2 DEF Claim, Reach, Keeps
<1> QED BY <1>1, SameClaimsWait

\* The steps in which nobody moves.
LEMMA LooksWait ==
  ASSUME RangesInv, Waits, ProgressOK, ChunksOK,
         \/ Tick \/ TickEnds \/ SweepEnds \/ MonitorCancelled \/ Pause \/ Finish \/ SaveSnapshot
         \/ MonitorComplete \/ StealScan
         \/ \E i \in Workers : Kill(i) \/ DrainWorker(i)
  PROVE  Waits'
<1>1. CASE Tick \/ TickEnds \/ SweepEnds \/ MonitorCancelled \/ Pause \/ Finish \/ SaveSnapshot
  <2>1. /\ UNCHANGED <<disk, prog, queue, shared, wk, stash>>
        /\ bal' = bal \/ (bal.pc # "push" /\ bal'.pc \notin {"push", "shrink"})
    BY <1>1, TicksLook
  <2>2. \A j \in Workers : Keeps(j) /\ wk'[j].stop = wk[j].stop BY <2>1 DEF Keeps
  <2> QED BY <2>1, <2>2, StillWaits
<1>2. CASE MonitorComplete BY <1>2, MonitorCompleteDoes, StillWaits
<1>3. CASE StealScan
  <2>1. bal \in Balancer BY DEF RangesInv, RangesTypeOK
  <2>2. bal'.pc = "shrink"
    <3>1. PICK victim, split, cur :
            bal' = [bal EXCEPT !.pc = "shrink", !.victim = victim, !.split = split, !.cur = cur]
      BY <1>3 DEF StealScan
    <3> QED BY <2>1, <3>1 DEF Balancer
  <2>3. bal.pc = "tick" /\ UNCHANGED <<prog, queue, shared, wk, stash>> BY <1>3 DEF StealScan
  <2>4. \A j \in Workers : Keeps(j) /\ wk'[j].stop = wk[j].stop BY <2>3 DEF Keeps
  <2> QED BY <2>2, <2>3, <2>4, StillWaits
<1>4. CASE \E i \in Workers : Kill(i) \/ DrainWorker(i) BY <1>4, FlagsKeep, StillWaits
<1> QED BY <1>1, <1>2, <1>3, <1>4

\* The old StopAt is still the end of the victim's claim.
LEMMA StealShrinkWaits ==
  ASSUME RangesInv, Ledger, Waits, ProgressOK, ~Torn, StealShrink
  PROVE  Waits'
BY StealShrinkClaims, SameClaimsWait DEF Ledger

\* What is cut off a claim and queued is owed by the queue.
LEMMA StealPushWaits ==
  ASSUME RangesInv, Ledger, Waits, ProgressOK, StealPush
  PROVE  Waits'
<1>1. UNCHANGED <<disk, prog, shared, stash>> BY StealPushDoes
<1>2. CASE queue' = queue /\ \A j \in Workers : Keeps(j) /\ Claim(j)' = Claim(j)
  BY <1>1, <1>2, SameClaimsWait DEF Ledger
<1>3. CASE \E i \in Workers, t \in Tasks : CutsOff(i, t)
  <2>1. PICK i \in Workers, t \in Tasks : CutsOff(i, t) BY <1>3
  <2>2. /\ queue' = Append(queue, t) /\ wk' = wk
        /\ t.ptr = 0 /\ wk[i].ptr = 0
        /\ \A j \in Workers : j # i => Claim(j)' = Claim(j)
        /\ \A x \in Nat : Has(Claim(i), x) => Has(t, x) \/ Has(Claim(i)', x)
    BY <2>1 DEF CutsOff
  <2>3. queue \in Seq(Tasks) BY DEF RangesInv, RangesTypeOK
  <2>4. Queued' = Queued \cup {t} BY <1>1, <2>2, <2>3, TaskAppended DEF Queued
  <2>5. ASSUME NEW j \in Workers
        PROVE  /\ (Holding(j)' <=> Holding(j)) /\ (Reporting(j)' <=> Reporting(j))
               /\ \A x \in Nat : Reported(j, x)' <=> Reported(j, x)
    BY <2>2 DEF Holding, Reporting, Reported
  <2>6. BatchesOK' BY <2>2, <2>5 DEF BatchesOK, Waits
  <2>7. BehindOK' BY <1>1, <2>2, <2>4, <2>5 DEF BehindOK, Behind, Waits
  <2>8. ASSUME NEW x \in File, Owed(x) PROVE Owed(x)'
    <3>1. x \in Nat BY RangesAssumption DEF File
    <3>2. CASE \E s \in Queued : DueTask(s, x) BY <1>1, <2>4, <3>2, TasksOwe
    <3>3. CASE \E j \in Workers : DueWorker(j, x)
      <4>1. PICK j \in Workers : DueWorker(j, x) BY <3>3
      <4>2. CASE Has(Claim(j)', x)
        <5>1. Open(wk[j].ptr, x)' \/ Reported(j, x)'
          BY <1>1, <2>2, <2>5, <3>1, <4>1 DEF DueWorker, Open
        <5>2. DueWorker(j, x)' BY <2>2, <4>2, <5>1 DEF DueWorker, Open
        <5> QED BY <5>2 DEF Owed
      <4>3. CASE ~Has(Claim(j)', x)
        <5>1. Has(Claim(j), x) BY <4>1 DEF DueWorker
        <5>2. j = i BY <2>2, <4>3, <5>1
        <5>3. Has(t, x) BY <2>2, <3>1, <4>3, <5>1, <5>2
        <5>4. DueTask(t, x)' BY <2>2, <5>3 DEF DueTask, Open
        <5> QED BY <2>4, <5>4 DEF Owed
      <4> QED BY <4>2, <4>3
    <3> QED BY <2>8, <3>2, <3>3 DEF Owed
  <2>9. AllCounted' BY <1>1, <2>8, CountedOn DEF Waits, Ledger
  <2> QED BY <2>6, <2>7, <2>9 DEF Waits
<1> QED BY <1>2, <1>3, StealPushDoes

\* The shared offset of a new race is where the worker is.
LEMMA RaceWaits ==
  ASSUME RangesInv, Ledger, Waits, ProgressOK, ~Torn, NEW i \in Hedgeable,
         NEW next \in {"tick", "sweep"}, Race(i, next),
         bal.pc \in {"tick", "unsplit", "sweep"}, UNCHANGED <<disk, prog, stash>>
  PROVE  Waits'
<1>1. i \in Workers BY RaceDoes
<1>2. PICK t \in Tasks : Joins(i, t) BY RaceDoes
<1>3. /\ queue' = Append(queue, t) /\ t.off = wk[i].cur /\ shared'[t.ptr] = wk[i].cur
      /\ ~Reporting(i) /\ ~Reporting(i)' /\ wk'[i].ptr = t.ptr /\ wk'[i].cur = wk[i].cur
      /\ \A x \in Nat : (Has(Claim(i), x) => Has(Claim(i)', x) /\ wk[i].cur <= x)
  BY <1>2 DEF Joins
<1>4. \A j \in Workers : j # i => wk'[j] = wk[j] /\ Claim(j)' = Claim(j) BY <1>2 DEF Joins
<1>5. /\ \A s \in Queued, x \in Nat : Open(s.ptr, x)' <=> Open(s.ptr, x)
      /\ \A j \in Workers, x \in Nat : j # i => (DueWorker(j, x)' <=> DueWorker(j, x))
      /\ \A s \in Queued : s.ptr # 0 => shared'[s.ptr] = shared[s.ptr]
      /\ \A j \in Workers : wk[j].ptr # 0 => shared'[wk[j].ptr] = shared[wk[j].ptr]
  BY <1>1, <1>2, OldCells
<1>6. queue \in Seq(Tasks) BY DEF RangesInv, RangesTypeOK
<1>7. Queued' = Queued \cup {t} BY <1>3, <1>6, TaskAppended DEF Queued
<1>8. wk[i].cur \in Nat BY <1>1, WorkerTypes DEF RangesInv
<1>9. BatchesOK'
  <2> SUFFICES ASSUME NEW j \in Workers, Reporting(j)', wk'[j].ptr = 0
               PROVE  wk'[j].at <= wk'[j].cur + wk'[j].fresh
    BY DEF BatchesOK
  <2>1. j # i BY <1>3
  <2>2. wk'[j] = wk[j] BY <1>4, <2>1
  <2>3. Reporting(j) BY <2>2 DEF Reporting
  <2> QED BY <2>2, <2>3 DEF Waits, BatchesOK
<1>10. BehindOK'
  <2>1. ASSUME NEW s \in Queued' PROVE Behind(s)'
    <3>1. CASE s = t BY <1>3, <1>8, <3>1 DEF Behind
    <3>2. CASE s \in Queued BY <1>5, <3>2 DEF Behind, Waits, BehindOK
    <3> QED BY <1>7, <3>1, <3>2
  <2>2. ASSUME NEW j \in Workers, Holding(j)', wk'[j].ptr # 0
        PROVE  wk'[j].cur <= shared'[wk'[j].ptr]
    <3>1. CASE j = i BY <1>3, <1>8, <3>1
    <3>2. CASE j # i
      <4>1. wk'[j] = wk[j] BY <1>4, <3>2
      <4>2. Holding(j) BY <2>2, <4>1 DEF Holding
      <4>3. wk[j].cur <= shared[wk[j].ptr] BY <2>2, <4>1, <4>2 DEF Waits, BehindOK
      <4> QED BY <1>5, <2>2, <4>1, <4>3
    <3> QED BY <3>1, <3>2
  <2> QED BY <2>1, <2>2 DEF BehindOK
<1>11. ASSUME NEW x \in File, Owed(x) PROVE Owed(x)'
  <2>1. x \in Nat BY RangesAssumption DEF File
  <2>2. CASE \E s \in Queued : DueTask(s, x)
    <3>1. PICK s \in Queued : DueTask(s, x) BY <2>2
    <3>2. Open(s.ptr, x) /\ Has(s, x) BY <3>1 DEF DueTask
    <3>3. Open(s.ptr, x)' BY <1>5, <2>1, <3>2
    <3>4. DueTask(s, x)' BY <3>2, <3>3 DEF DueTask, Open
    <3> QED BY <1>7, <3>4 DEF Owed
  <2>3. CASE \E j \in Workers : DueWorker(j, x)
    <3>1. PICK j \in Workers : DueWorker(j, x) BY <2>3
    <3>2. CASE j = i
      <4>1. Has(Claim(i), x) BY <3>1, <3>2 DEF DueWorker
      <4>2. Has(Claim(i)', x) /\ wk[i].cur <= x BY <1>3, <2>1, <4>1
      <4>3. Open(wk[i].ptr, x)' BY <1>3, <4>2 DEF Open
      <4>4. DueWorker(i, x)' BY <4>2, <4>3 DEF DueWorker, Open
      <4> QED BY <1>1, <4>4 DEF Owed
    <3>3. CASE j # i
      <4>1. DueWorker(j, x)' BY <1>5, <2>1, <3>1, <3>3
      <4> QED BY <4>1 DEF Owed
    <3> QED BY <3>2, <3>3
  <2> QED BY <1>11, <2>2, <2>3 DEF Owed
<1>12. AllCounted' BY <1>11, CountedOn DEF Waits, Ledger
<1> QED BY <1>9, <1>10, <1>12 DEF Waits

\* Hedges, in a tick and in the end game.
LEMMA HedgesWait ==
  ASSUME RangesInv, Ledger, Waits, ProgressOK, ~Torn, HedgeWork \/ HedgeAll
  PROVE  Waits'
<1>1. CASE HedgeWork
  <2>1. PICK i \in Hedgeable : Race(i, "tick") BY <1>1 DEF HedgeWork, Most
  <2>2. bal.pc \in {"tick", "unsplit", "sweep"} /\ UNCHANGED <<disk, prog, stash>>
    BY <1>1 DEF HedgeWork
  <2> QED BY <2>1, <2>2, RaceWaits
<1>2. CASE HedgeAll
  <2>1. PICK i \in Hedgeable : Race(i, "sweep") BY <1>2 DEF HedgeAll
  <2>2. bal.pc \in {"tick", "unsplit", "sweep"} /\ UNCHANGED <<disk, prog, stash>>
    BY <1>2 DEF HedgeAll
  <2> QED BY <2>1, <2>2, RaceWaits
<1> QED BY <1>1, <1>2

\* Every step of a worker.
LEMMA WorkerWaits ==
  ASSUME RangesInv, Ledger, Waits, ProgressOK, NEW i \in Workers, WorkerStep(i)
  PROVE  Waits'
<1>1. ChunksOK BY DEF Ledger
<1>2. CASE Pop(i)
  <2>1. CASE Whole BY <1>1, <1>2, <2>1, GoesWaits
  <2>2. CASE ~Whole BY <1>1, <1>2, <2>2, PopWaits
  <2> QED BY <2>1, <2>2
<1>3. CASE \/ Start(i) \/ Read(i) \/ ReadCancelled(i) \/ ReadFails(i)
           \/ Write(i) \/ WriteFull(i)
  BY <1>1, <1>3, ReadingWaits
<1>4. CASE Count(i) \/ Clamp(i) \/ Publish(i)
  BY <1>4, CountWaits, ClampWaits, PublishWaits
<1>5. CASE Top(i) \/ PopClosed(i) \/ Succeeded(i) \/ Unmap(i) BY <1>1, <1>5, GoesWaits
<1>6. CASE Release(i) \/ HealthCancelled(i) \/ DiskFull(i) \/ PushResidual(i)
  BY <1>1, <1>6, BackWaits
<1>7. CASE Retry(i) \/ Exhausted(i) BY <1>1, <1>7, RetryWaits
<1> QED BY <1>2, <1>3, <1>4, <1>5, <1>6, <1>7 DEF WorkerStep

-----------------------------------------------------------------------------
(* The beginning of a run, again. *)

\* A run begins with a bitmap that counts all but what is queued.
BeginsFull ==
  \A c \in Chunks : Cardinality(ChunkBytes(c) \ BytesOfAll(ToSet(queue))) <= prog[c]

\* Then nobody waits in vain at its beginning.
LEMMA FreshWaits == Fresh /\ ProgressOK /\ BeginsFull => Waits /\ StashOK
<1> SUFFICES ASSUME Fresh, ProgressOK, BeginsFull PROVE Waits /\ StashOK
  OBVIOUS
<1>1. \A i \in Workers : wk[i] = Parked BY DEF Fresh
<1>2. \A i \in Workers : ~Holding(i) /\ ~Reporting(i)
  BY <1>1 DEF Parked, Holding, Mapped, Loop, Reporting
<1>3. Queued = ToSet(queue) /\ stash = {} /\ \A t \in ToSet(queue) : t.ptr = 0
  BY DEF Fresh, Queued
<1>4. BatchesOK BY <1>2 DEF BatchesOK
<1>5. BehindOK BY <1>2, <1>3 DEF BehindOK, Behind
<1>6. StashOK BY <1>3 DEF StashOK
<1>7. AllCounted
  <2> SUFFICES ASSUME NEW c \in Chunks PROVE Cardinality(Settles(c)) <= prog[c]
    BY DEF AllCounted
  <2> DEFINE rest == ChunkBytes(c) \ BytesOfAll(ToSet(queue))
  <2>1. Cardinality(rest) <= prog[c] BY DEF BeginsFull
  <2>2. ASSUME NEW x \in Settles(c) PROVE x \in rest
    <3>1. x \in ChunkBytes(c) /\ ~Owed(x) BY DEF Settles
    <3>2. ASSUME NEW t \in ToSet(queue) PROVE x \notin BytesOf(t)
      <4>1. ~DueTask(t, x) BY <1>3, <3>1 DEF Owed
      <4> QED BY <1>3, <4>1 DEF DueTask, Open, Has, BytesOf
    <3> QED BY <3>1, <3>2 DEF BytesOfAll
  <2>3. rest \subseteq File BY DEF ChunkBytes
  <2>4. prog[c] \in Nat BY DEF ProgressOK
  <2> HIDE DEF rest
  <2>5. IsFiniteSet(rest) /\ Cardinality(rest) \in Nat BY <2>3, BytesAreFinite
  <2>6. Settles(c) \subseteq rest BY <2>2
  <2>7. Settles(c) \subseteq File BY <2>3, <2>6
  <2>8. Cardinality(Settles(c)) \in Nat BY <2>7, BytesAreFinite
  <2>9. Cardinality(Settles(c)) <= Cardinality(rest) BY <2>5, <2>6, FS_Subset
  <2> QED BY <2>1, <2>4, <2>5, <2>8, <2>9
<1> QED BY <1>4, <1>5, <1>6, <1>7 DEF Waits

\* The first run: every byte is queued.
LEMMA WaitsInit == Init => Waits /\ StashOK
<1> SUFFICES ASSUME Init PROVE Waits /\ StashOK
  OBVIOUS
<1>1. queue \in InOrder(InitialTasks) BY DEF Init
<1>2. queue \in Seq(Tasks) /\ ToSet(queue) = InitialTasks
  <2>1. ASSUME NEW ts, \A t \in ts : t \in Tasks /\ t.ptr = 0, NEW q \in InOrder(ts)
        PROVE  q \in Seq(Tasks) /\ ToSet(q) = ts
    BY <2>1, InOrderIs
  <2> QED BY <1>1, <2>1, InitialTasksCover
<1>3. /\ \A t \in ToSet(queue) : t.ptr = 0
      /\ \A x \in File : \E t \in ToSet(queue) : t.off <= x /\ x < t.end
  BY <1>2, InitialTasksCover
<1>4. Fresh BY <1>2, <1>3 DEF Init, Fresh
<1>5. ProgressOK /\ \A c \in Chunks : prog[c] = 0 BY DEF Init, ProgressOK
<1>6. BeginsFull
  <2> SUFFICES ASSUME NEW c \in Chunks
               PROVE  Cardinality(ChunkBytes(c) \ BytesOfAll(ToSet(queue))) <= prog[c]
    BY DEF BeginsFull
  <2>1. ChunkBytes(c) \subseteq File BY DEF ChunkBytes
  <2>2. ChunkBytes(c) \ BytesOfAll(ToSet(queue)) = {}
    BY <1>3, <2>1 DEF BytesOfAll, BytesOf
  <2>3. Cardinality({}) = 0 BY FS_EmptySet
  <2> QED BY <1>5, <2>2, <2>3
<1> QED BY <1>4, <1>5, <1>6, FreshWaits

\* A later run: the record's tasks are queued, and the bitmap is all but them.
LEMMA ResumeWaits ==
  ASSUME RangesInv, ProgressOK', Resume
  PROVE  Waits' /\ StashOK'
<1>1. /\ phase = "saved" /\ queue' \in InOrder(saved.tasks) /\ closed' = FALSE
      /\ shared' = <<>> /\ wk' = [i \in Workers |-> Parked] /\ drains' = {}
      /\ bal' = Resting /\ ctx' = FALSE /\ why' = "run" /\ stash' = {} /\ phase' = "live"
      /\ prog' = RecalculateProgress(saved.tasks, saved.complete)
      /\ UNCHANGED <<disk, saved>>
  BY DEF Resume, NewRun
<1>2. \A t \in saved.tasks : t \in Tasks /\ t.ptr = 0
  BY DEF RangesInv, RangesTypeOK, CellsAllocated
<1>3. queue' \in Seq(Tasks) /\ ToSet(queue') = saved.tasks
  <2>1. ASSUME NEW ts, \A t \in ts : t \in Tasks /\ t.ptr = 0, NEW q \in InOrder(ts)
        PROVE  q \in Seq(Tasks) /\ ToSet(q) = ts
    BY <2>1, InOrderIs
  <2> QED BY <1>1, <1>2, <2>1
<1>4. \A x \in File : x \in disk \/ \E t \in saved.tasks : t.off <= x /\ x < t.end
  BY <1>1 DEF RangesInv, CoverOK
<1>5. Fresh' BY <1>1, <1>2, <1>3, <1>4 DEF Fresh, RangesInv, RangesTypeOK
<1>6. \A c \in Chunks :
        prog'[c] = Cardinality(IF c \in saved.complete THEN ChunkBytes(c)
                               ELSE ChunkBytes(c) \ BytesOfAll(saved.tasks))
  BY <1>1 DEF RecalculateProgress
<1>7. BeginsFull'
  <2> SUFFICES ASSUME NEW c \in Chunks
               PROVE  Cardinality(ChunkBytes(c) \ BytesOfAll(saved.tasks)) <= prog'[c]
    BY <1>3 DEF BeginsFull
  <2> DEFINE rest == ChunkBytes(c) \ BytesOfAll(saved.tasks)
  <2>1. ChunkBytes(c) \subseteq File /\ rest \subseteq ChunkBytes(c) /\ rest \subseteq File
    BY DEF ChunkBytes
  <2>2. prog'[c] = IF c \in saved.complete THEN Cardinality(ChunkBytes(c))
                   ELSE Cardinality(rest)
    BY <1>6
  <2> HIDE DEF rest
  <2>3. /\ IsFiniteSet(ChunkBytes(c)) /\ Cardinality(ChunkBytes(c)) \in Nat
        /\ Cardinality(rest) \in Nat
    BY <2>1, BytesAreFinite
  <2>4. Cardinality(rest) <= Cardinality(ChunkBytes(c)) BY <2>1, <2>3, FS_Subset
  <2>5. Cardinality(rest) <= prog'[c] BY <2>2, <2>3, <2>4
  <2> QED BY <2>5 DEF rest
<1> QED BY <1>5, <1>7, FreshWaits, PTL

-----------------------------------------------------------------------------
(* The theorem about a queue that is empty. *)

\* The third invariant is kept.
LEMMA WaitsKept ==
  ASSUME RangesInv, LedgerInv, ProgressOK', Waits, ~Torn, [Next]_vars
  PROVE  Waits'
<1>1. Ledger /\ ProgressOK /\ ChunksOK BY DEF LedgerInv, Ledger
<1>2. ASSUME NEW i \in Workers, WorkerStep(i) \/ Kill(i) \/ DrainWorker(i) PROVE Waits'
  BY <1>1, <1>2, WorkerWaits, LooksWait
<1>3. CASE Balance
  BY <1>1, <1>3, LooksWait, StealShrinkWaits, StealPushWaits, HedgesWait DEF Balance
<1>4. CASE MonitorComplete \/ MonitorCancelled \/ Pause \/ Finish \/ SaveSnapshot
  BY <1>1, <1>4, LooksWait
<1>5. CASE Resume BY <1>5, ResumeWaits
<1>6. CASE UNCHANGED vars
  <2>1. UNCHANGED <<disk, prog, queue, shared, wk, bal, stash>> BY <1>6 DEF vars
  <2>2. \A j \in Workers : Keeps(j) /\ wk'[j].stop = wk[j].stop BY <2>1 DEF Keeps
  <2> QED BY <1>1, <2>1, <2>2, StillWaits
<1> QED BY <1>2, <1>3, <1>4, <1>5, <1>6 DEF Next

\* A residual is stashed by a step that cancels the run, and the next run begins
\* without a stash.
LEMMA StashKept == StashOK /\ [Next]_vars => StashOK'
<1> SUFFICES ASSUME StashOK, [Next]_vars PROVE StashOK'
  OBVIOUS
<1>1. \/ stash' = stash /\ (ctx' = ctx \/ ctx')
      \/ ctx'
      \/ stash' = {}
  <2>1. ASSUME NEW i \in Workers, WorkerStep(i) PROVE (stash' = stash /\ ctx' = ctx) \/ ctx'
    BY <2>1 DEF WorkerStep, Top, Pop, PopClosed, Start, Read, ReadCancelled, ReadFails,
        Write, WriteFull, Count, Clamp, Publish, Succeeded, Release, DiskFull,
        HealthCancelled, Retry, Exhausted, PushResidual, Unmap, Cancelled
  <2>2. ASSUME NEW i \in Workers, Kill(i) \/ DrainWorker(i)
        PROVE  stash' = stash /\ ctx' = ctx
    BY <2>2 DEF Kill, DrainWorker
  <2>3. CASE Balance
    BY <2>3 DEF Balance, Tick, StealScan, StealShrink, StealPush, HedgeWork, TickEnds,
        HedgeAll, SweepEnds
  <2>4. CASE MonitorComplete \/ MonitorCancelled \/ Pause \/ Finish \/ SaveSnapshot
    BY <2>4 DEF MonitorComplete, MonitorCancelled, Pause, Finish, SaveSnapshot
  <2>5. CASE Resume BY <2>5 DEF Resume, NewRun
  <2>6. CASE UNCHANGED vars BY <2>6 DEF vars
  <2> QED BY <2>1, <2>2, <2>3, <2>4, <2>5, <2>6 DEF Next
<1> QED BY <1>1 DEF StashOK

\* So is all of it.
LEMMA WaitsInductive ==
  ~Torn /\ LeaveOne => (Spec => [](RangesInv /\ LedgerInv /\ Waits /\ StashOK))
<1> SUFFICES ASSUME ~Torn, LeaveOne
             PROVE  Spec => [](RangesInv /\ LedgerInv /\ Waits /\ StashOK)
  OBVIOUS
<1>1. Init => RangesInv /\ LedgerInv /\ Waits /\ StashOK
  BY RangesInit, LedgerInit, WaitsInit
<1>2. RangesInv /\ LedgerInv /\ Waits /\ StashOK /\ [Next]_vars
      => (RangesInv /\ LedgerInv /\ Waits /\ StashOK)'
  <2> SUFFICES ASSUME RangesInv, LedgerInv, Waits, StashOK, [Next]_vars
               PROVE  RangesInv' /\ LedgerInv' /\ Waits' /\ StashOK'
    OBVIOUS
  <2>1. RangesInv' /\ LedgerInv' BY LedgerStep
  <2>2. ProgressOK' BY <2>1 DEF LedgerInv
  <2>3. Waits' BY <2>2, WaitsKept
  <2>4. StashOK' BY StashKept
  <2> QED BY <2>1, <2>3, <2>4
<1> QED BY <1>1, <1>2, PTL DEF Spec

\* When all who have not left wait in Pop on an empty queue, nobody owes a byte.
LEMMA WaitersOweNothing ==
  RangesInv /\ LedgerInv /\ Waits /\ StashOK => NoSilentHang
<1> SUFFICES ASSUME RangesInv, LedgerInv, Waits, StashOK, ~ctx, Blocked # {},
                    \A i \in Workers : i \in Blocked \/ wk[i].pc = "gone"
             PROVE  Whole
  BY DEF NoSilentHang
<1>1. queue = <<>> BY DEF Blocked
<1>2. stash = {} BY DEF StashOK
<1>3. Queued = {}
  <2>1. ToSet(queue) = {} BY <1>1 DEF ToSet
  <2> QED BY <1>2, <2>1 DEF Queued
<1>4. \A i \in Workers : ~Holding(i)
  <2>1. \A i \in Workers : wk[i].pc \in {"pop", "gone"} BY DEF Blocked
  <2> QED BY <2>1 DEF Holding, Mapped, Loop
<1>5. \A x \in File : ~Owed(x)
  <2>1. \A x \in File : x \in Nat BY RangesAssumption DEF File
  <2> QED BY <1>3, <1>4, <2>1, IdleOwesNothing DEF Owed
<1> QED BY <1>5, NothingOwed DEF LedgerInv, Waits

\* A run never ends up with every worker waiting for work while bytes are missing
\* from VerifiedProgress, however many workers share a range, race, give it back
\* or leave: what is not counted is still owed by a queued task or by a worker
\* that holds one, so whoever waits on an empty queue waits beside one that does.
THEOREM NeverHangsSilently ==
  ~Torn /\ LeaveOne => (Spec => []NoSilentHang)
<1> QED BY WaitsInductive, WaitersOweNothing, PTL
=============================================================================
