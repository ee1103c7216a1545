---------------------- MODULE AdmissionControllerProofs ----------------------
(***************************************************************************)
(* The safety of the admission rounds, for any number of downloads and     *)
(* opportunities, any capacity, caps, budget and record sets.  A round     *)
(* works on a snapshot; the invariant says which of the things it has read *)
(* stay true while the pool, the monitor and the leases move on:           *)
(*                                                                         *)
(*   HandOK       a candidate in hand is unadmitted, or has left its place *)
(*   Vouched      an admitted opportunity has its own reservation          *)
(*   SnapLive     a reservation of a current opportunity is in the snapshot *)
(*   CountOK      the count of the snapshot is an upper bound              *)
(*   MeasuredOK   whoever measures was frozen, or accepted in this round   *)
(***************************************************************************)
EXTENDS AdmissionController, FiniteSetTheorems, TLAPS

-----------------------------------------------------------------------------
(***************************************************************************)
(* First the places and the capacity of AdmittedPool, for any number of    *)
(* IDs and opportunities.  An opportunity takes one slot from its admission *)
(* to the end of its claim.  Admit is the only step that asks for a slot,  *)
(* and it counts; the invariant rules out the one step that could take a   *)
(* slot without counting: a retry that ripens and still carries an         *)
(* admission.                                                              *)
(***************************************************************************)

EntryType == [at: Places, tok: 0..MaxToken, admitted: BOOLEAN]

PoolType ==
  /\ last \in 0..MaxToken
  /\ busy \subseteq 1..last
  /\ of \in [1..last -> Ids]
  /\ entry \in [Ids -> EntryType]

\* An ID in a place holds the last token that was minted for it.
TokensNamed ==
  \A i \in Ids :
    /\ entry[i].at = "out" => entry[i].tok = 0 /\ ~entry[i].admitted
    /\ entry[i].at # "out" => entry[i].tok \in 1..last /\ of[entry[i].tok] = i

LatestHeld ==
  \A i \in Ids, t \in 1..last : entry[i].at # "out" /\ of[t] = i => t <= entry[i].tok

\* What is in flight on an admission, or runs, is a claim that has not been
\* settled, and every such claim of a current token was admitted.
ClaimsFly ==
  \A i \in Ids :
    /\ entry[i].at = "running" => entry[i].tok \in busy
    /\ entry[i].at = "flying" /\ entry[i].admitted => entry[i].tok \in busy
    /\ entry[i].tok \in busy => entry[i].admitted /\ entry[i].at \in {"flying", "running"}

\* The inductive invariant of the places.
PlacesOK == PoolType /\ TokensNamed /\ LatestHeld /\ ClaimsFly

\* Claims and promises together stay within the capacity (committedSlotsLocked
\* and the guard of Admit, scheduler.go:278-289, 377-445).
WithinCapacity == Committed <= Capacity

Promised == {i \in Ids : Waits(i)}

\* What a step that is no Admit does to one ID: the place is left, or taken
\* with a new token, or the opportunity keeps token and admission and moves on.
Moved(i) ==
  \/ entry'[i].tok \notin 1..last /\ ~entry'[i].admitted
  \/ /\ entry'[i].tok = entry[i].tok /\ entry'[i].admitted = entry[i].admitted
     /\ entry[i].at = "out" <=> entry'[i].at = "out"
     /\ entry[i].at = "queued" /\ ~entry[i].admitted => entry'[i].at = "queued"
     /\ entry[i].at = "running" => entry'[i].at = "running"

\* The tokens minted so far keep their IDs.
TokensKept ==
  /\ last <= last'
  /\ \A t \in 1..last : t \in 1..last' /\ of'[t] = of[t]

\* What every step but Admit comes to: the places stay in order, no further slot
\* is committed, and no opportunity moves but onwards.
Onwards ==
  /\ PlacesOK' /\ Committed' <= Committed
  /\ TokensKept
  /\ \A j \in Ids : Moved(j)

\* The latest token stays the latest when no token is minted.
LEMMA LatestStays ==
  ASSUME PlacesOK, last' = last, of' = of,
         \A j \in Ids : entry'[j].at # "out" => entry[j].at # "out" /\ entry'[j].tok = entry[j].tok
  PROVE  LatestHeld' /\ TokensKept
  BY DEF PlacesOK, PoolType, LatestHeld, TokensKept

-----------------------------------------------------------------------------
(* Counting. *)

\* Only finitely many tokens have been minted.
LEMMA FiniteTokens ==
  ASSUME NEW n \in Nat, NEW T \in SUBSET (1..n)
  PROVE  IsFiniteSet(T)
<1>1. IsFiniteSet(1..n)
  BY FS_Interval
<1>. QED
  BY <1>1, FS_Subset

\* The count of a finite pool is a sum of two numbers.
LEMMA Counts ==
  ASSUME PoolType
  PROVE  /\ IsFiniteSet(busy) /\ IsFiniteSet(Promised)
         /\ Cardinality(busy) \in Nat /\ Cardinality(Promised) \in Nat
         /\ Committed = Cardinality(busy) + Cardinality(Promised)
<1>1. IsFiniteSet(busy)
  <2>1. last \in Nat /\ busy \in SUBSET (1..last)
    BY CapacityAssumption DEF PoolType
  <2>. QED
    BY <2>1, FiniteTokens
<1>2. IsFiniteSet(Promised)
  BY CapacityAssumption, FS_Subset DEF Promised
<1>. QED
  BY <1>1, <1>2, FS_CardinalityType DEF Committed, Promised

\* The count after a step is a number too.
LEMMA CountNext ==
  ASSUME PoolType'
  PROVE  Committed' \in Nat
<1>1. IsFiniteSet(busy')
  <2>1. last' \in Nat /\ busy' \in SUBSET (1..last')
    BY CapacityAssumption DEF PoolType
  <2>. QED
    BY <2>1, FiniteTokens
<1>2. IsFiniteSet({i \in Ids : Waits(i)'})
  BY CapacityAssumption, FS_Subset
<1>. QED
  BY <1>1, <1>2, FS_CardinalityType DEF Committed

\* A step that admits nobody and claims nothing does not raise the count.
LEMMA NoneTaken ==
  ASSUME PoolType, busy' \subseteq busy, Promised' \subseteq Promised
  PROVE  Committed' <= Committed
<1>1. /\ IsFiniteSet(busy') /\ Cardinality(busy') <= Cardinality(busy)
      /\ IsFiniteSet(Promised') /\ Cardinality(Promised') <= Cardinality(Promised)
  BY Counts, FS_Subset
<1>2. /\ Cardinality(busy') \in Nat /\ Cardinality(Promised') \in Nat
      /\ Committed' = Cardinality(busy') + Cardinality(Promised')
  BY <1>1, FS_CardinalityType DEF Committed, Promised
<1>. QED
  BY <1>1, <1>2, Counts

-----------------------------------------------------------------------------
(* One lemma for each kind of step.                                        *)

\* A new opportunity is not admitted, and its token is new.
LEMMA MintStep ==
  ASSUME PlacesOK, NEW i \in Ids, NEW at \in {"queued", "flying"}, Mint(i, at),
         ~Waits(i)
  PROVE  Onwards
<1>1. /\ last < MaxToken /\ last \in Nat /\ last' = last + 1 /\ busy' = busy
      /\ of' = [t \in 1..(last + 1) |-> IF t > last THEN i ELSE of[t]]
  BY CapacityAssumption DEF Mint, PlacesOK, PoolType
<1>2. /\ entry'[i] = [at |-> at, tok |-> last + 1, admitted |-> FALSE]
      /\ \A j \in Ids \ {i} : entry'[j] = entry[j]
      /\ entry' \in [Ids -> EntryType]
  BY <1>1, CapacityAssumption DEF Mint, PlacesOK, PoolType, EntryType, Places
<1>3. PoolType'
  BY <1>1, <1>2, CapacityAssumption DEF PlacesOK, PoolType
<1>4. TokensNamed'
  BY <1>1, <1>2 DEF PlacesOK, PoolType, TokensNamed
<1>5. ClaimsFly'
  BY <1>1, <1>2 DEF PlacesOK, PoolType, ClaimsFly
<1>6. Promised' \subseteq Promised
  BY <1>2 DEF Promised, Waits
<1>7. Committed' <= Committed
  BY <1>1, <1>3, <1>6, NoneTaken DEF PlacesOK
<1>8. \A j \in Ids : Moved(j)
  BY <1>1, <1>2 DEF Moved
<1>9. LatestHeld'
  BY <1>1, <1>2 DEF PlacesOK, PoolType, LatestHeld
<1>10. TokensKept
  BY <1>1 DEF TokensKept
<1>. QED
  BY <1>3, <1>4, <1>5, <1>7, <1>8, <1>9, <1>10 DEF PlacesOK, Onwards

\* Admit is the only step that takes a slot that was free.
LEMMA AdmitStep ==
  ASSUME PlacesOK, NEW i \in Ids, Admit(i)
  PROVE  /\ PlacesOK' /\ Committed' = Committed + 1 /\ Committed < Capacity
         /\ entry[i].at = "queued" /\ entry'[i].admitted
         /\ entry'[i].tok = entry[i].tok /\ entry'[i].at = entry[i].at
         /\ \A j \in Ids \ {i} : entry'[j] = entry[j]
<1>1. entry[i].at = "queued" /\ ~entry[i].admitted /\ Committed < Capacity
      /\ busy' = busy /\ last' = last /\ of' = of
  BY DEF Admit
<1>2. /\ entry'[i] = [entry[i] EXCEPT !.admitted = TRUE]
      /\ \A j \in Ids \ {i} : entry'[j] = entry[j]
      /\ entry' \in [Ids -> EntryType]
  BY DEF Admit, PlacesOK, PoolType, EntryType
<1>3. entry'[i].at = "queued" /\ entry'[i].admitted /\ entry'[i].tok = entry[i].tok
  BY <1>1, <1>2 DEF PlacesOK, PoolType, EntryType
<1>4. PoolType'
  BY <1>1, <1>2 DEF PlacesOK, PoolType
<1>5. TokensNamed'
  <2>. SUFFICES ASSUME NEW j \in Ids
                PROVE  /\ entry'[j].at = "out" => entry'[j].tok = 0 /\ ~entry'[j].admitted
                       /\ entry'[j].at # "out" => entry'[j].tok \in 1..last /\ of[entry'[j].tok] = j
    BY <1>1 DEF TokensNamed
  <2>1. CASE j = i
    BY <1>1, <1>2, <1>3, <2>1 DEF PlacesOK, TokensNamed
  <2>2. CASE j # i
    BY <1>2, <2>2 DEF PlacesOK, TokensNamed
  <2>. QED
    BY <2>1, <2>2
<1>6. ClaimsFly'
  BY <1>1, <1>2, <1>3 DEF PlacesOK, ClaimsFly
<1>7. Promised' = Promised \cup {i}
  BY <1>2, <1>3 DEF Promised, Waits, PlacesOK, PoolType, EntryType
<1>8. i \notin Promised
  BY <1>1 DEF Promised, Waits
<1>9. Cardinality(Promised') = Cardinality(Promised) + 1
  BY <1>7, <1>8, Counts, FS_AddElement DEF PlacesOK
<1>10. Committed' = Cardinality(busy) + Cardinality(Promised')
  BY <1>1 DEF Committed, Promised
<1>11. Committed' = Committed + 1
  BY <1>9, <1>10, Counts DEF PlacesOK
<1>12. LatestHeld'
  <2>1. \A j \in Ids : entry'[j].at # "out" => entry[j].at # "out" /\ entry'[j].tok = entry[j].tok
    BY <1>1, <1>2, <1>3
  <2>. QED
    BY <1>1, <2>1, LatestStays
<1>. QED
  BY <1>1, <1>2, <1>3, <1>4, <1>5, <1>6, <1>11, <1>12 DEF PlacesOK

\* A claim takes the slot that was promised.
LEMMA ClaimStep ==
  ASSUME PlacesOK, NEW i \in Ids, Claim(i)
  PROVE  Onwards
<1>1. /\ Waits(i) /\ busy' = busy \cup {entry[i].tok} /\ last' = last /\ of' = of
      /\ entry[i].tok \in 1..last /\ of[entry[i].tok] = i
  BY DEF Claim, Waits, PlacesOK, TokensNamed
<1>2. /\ entry'[i] = [entry[i] EXCEPT !.at = "flying"]
      /\ \A j \in Ids \ {i} : entry'[j] = entry[j]
      /\ entry' \in [Ids -> EntryType]
  BY DEF Claim, PlacesOK, PoolType, EntryType, Places
<1>3. /\ entry'[i].at = "flying" /\ entry'[i].tok = entry[i].tok
      /\ entry'[i].admitted = entry[i].admitted
  BY <1>1, <1>2 DEF PlacesOK, PoolType, EntryType
<1>13. entry[i].at = "queued" /\ entry[i].admitted
  BY <1>1 DEF Waits
<1>4. PoolType'
  BY <1>1, <1>2 DEF PlacesOK, PoolType
<1>5. TokensNamed'
  <2>. SUFFICES ASSUME NEW j \in Ids
                PROVE  /\ entry'[j].at = "out" => entry'[j].tok = 0 /\ ~entry'[j].admitted
                       /\ entry'[j].at # "out" => entry'[j].tok \in 1..last /\ of[entry'[j].tok] = j
    BY <1>1 DEF TokensNamed
  <2>1. CASE j = i
    BY <1>1, <1>2, <1>3, <1>13, <2>1 DEF PlacesOK, TokensNamed
  <2>2. CASE j # i
    BY <1>2, <2>2 DEF PlacesOK, TokensNamed
  <2>. QED
    BY <2>1, <2>2
<1>6. ClaimsFly'
  <2>1. \A j \in Ids \ {i} : entry[j].tok # entry[i].tok
    BY <1>1 DEF PlacesOK, PoolType, TokensNamed
  <2>2. \A j \in Ids \ {i} : entry[j].tok \in busy' <=> entry[j].tok \in busy
    BY <1>1, <2>1
  <2>3. entry'[i].tok \in busy' /\ entry'[i].admitted
    BY <1>1, <1>3, <1>13
  <2>. SUFFICES ASSUME NEW j \in Ids
                PROVE  /\ entry'[j].at = "running" => entry'[j].tok \in busy'
                       /\ entry'[j].at = "flying" /\ entry'[j].admitted => entry'[j].tok \in busy'
                       /\ entry'[j].tok \in busy'
                            => entry'[j].admitted /\ entry'[j].at \in {"flying", "running"}
    BY DEF ClaimsFly
  <2>4. CASE j = i
    BY <1>3, <2>3, <2>4
  <2>5. CASE j # i
    BY <1>2, <2>2, <2>5 DEF PlacesOK, ClaimsFly
  <2>. QED
    BY <2>4, <2>5
<1>7. i \in Promised /\ Promised' = Promised \ {i}
  <2>1. ~Waits(i)' /\ \A j \in Ids \ {i} : Waits(j)' <=> Waits(j)
    BY <1>2, <1>3 DEF Waits
  <2>. QED
    BY <1>1, <2>1 DEF Promised
<1>8. Cardinality(Promised') = Cardinality(Promised) - 1
  BY <1>7, Counts, FS_RemoveElement DEF PlacesOK
<1>9. Cardinality(busy') \in Nat /\ Cardinality(busy') <= Cardinality(busy) + 1
  <2>. PICK t : t = entry[i].tok
    OBVIOUS
  <2>1. busy' = busy \cup {t} /\ IsFiniteSet(busy) /\ Cardinality(busy) \in Nat
    BY <1>1, Counts DEF PlacesOK
  <2>2. /\ IsFiniteSet(busy \cup {t})
        /\ Cardinality(busy \cup {t})
             = IF t \in busy THEN Cardinality(busy) ELSE Cardinality(busy) + 1
    BY <2>1, FS_AddElement
  <2>. QED
    BY <2>1, <2>2
<1>10. Committed' = Cardinality(busy') + Cardinality(Promised')
  BY DEF Committed, Promised
<1>11. Committed' <= Committed
  BY <1>8, <1>9, <1>10, Counts DEF PlacesOK
<1>12. \A j \in Ids : Moved(j)
  BY <1>2, <1>3, <1>13 DEF Moved
<1>14. \A j \in Ids : entry'[j].at # "out" => entry[j].at # "out" /\ entry'[j].tok = entry[j].tok
  BY <1>1, <1>2, <1>3, <1>13
<1>. QED
  BY <1>14, <1>4, <1>5, <1>6, <1>11, <1>12, <1>1, LatestStays DEF PlacesOK, Onwards

\* A claimed entry becomes a run.
LEMMA RegisterStep ==
  ASSUME PlacesOK, NEW i \in Ids, Register(i)
  PROVE  Onwards
<1>1. /\ entry[i].at = "flying" /\ entry[i].tok \in busy
      /\ busy' = busy /\ last' = last /\ of' = of
  BY DEF Register
<1>2. /\ entry'[i] = [entry[i] EXCEPT !.at = "running"]
      /\ \A j \in Ids \ {i} : entry'[j] = entry[j]
      /\ entry' \in [Ids -> EntryType]
  BY DEF Register, PlacesOK, PoolType, EntryType, Places
<1>3. /\ entry'[i].at = "running" /\ entry'[i].tok = entry[i].tok
      /\ entry'[i].admitted = entry[i].admitted
  BY <1>1, <1>2 DEF PlacesOK, PoolType, EntryType
<1>4. PoolType'
  BY <1>1, <1>2 DEF PlacesOK, PoolType
<1>9. TokensNamed'
  <2>. SUFFICES ASSUME NEW j \in Ids
                PROVE  /\ entry'[j].at = "out" => entry'[j].tok = 0 /\ ~entry'[j].admitted
                       /\ entry'[j].at # "out" => entry'[j].tok \in 1..last /\ of[entry'[j].tok] = j
    BY <1>1 DEF TokensNamed
  <2>1. CASE j = i
    BY <1>1, <1>2, <1>3, <2>1 DEF PlacesOK, TokensNamed
  <2>2. CASE j # i
    BY <1>2, <2>2 DEF PlacesOK, TokensNamed
  <2>. QED
    BY <2>1, <2>2
<1>5. ClaimsFly'
  BY <1>1, <1>2, <1>3 DEF PlacesOK, ClaimsFly
<1>6. Promised' \subseteq Promised
  BY <1>2, <1>3 DEF Promised, Waits
<1>7. Committed' <= Committed
  BY <1>1, <1>4, <1>6, NoneTaken DEF PlacesOK
<1>8. \A j \in Ids : Moved(j)
  BY <1>1, <1>2, <1>3 DEF Moved
<1>14. \A j \in Ids : entry'[j].at # "out" => entry[j].at # "out" /\ entry'[j].tok = entry[j].tok
  BY <1>1, <1>2, <1>3
<1>. QED
  BY <1>14, <1>4, <1>9, <1>5, <1>7, <1>8, <1>1, LatestStays DEF PlacesOK, Onwards

\* IDs leave, their claims stay.
LEMMA DepartStep ==
  ASSUME PlacesOK, NEW S \in SUBSET Ids, Depart(S)
  PROVE  Onwards
<1>1. /\ busy' = busy /\ last' = last /\ of' = of
      /\ \A j \in Ids : entry'[j] = IF j \in S THEN Gone ELSE entry[j]
  BY DEF Depart
<1>2. Gone \in EntryType /\ Gone.at = "out" /\ Gone.tok = 0 /\ ~Gone.admitted
  BY CapacityAssumption DEF Gone, EntryType, Places
<1>3. PoolType'
  BY <1>1, <1>2 DEF Depart, PlacesOK, PoolType
<1>4. TokensNamed'
  BY <1>1, <1>2 DEF PlacesOK, TokensNamed
<1>5. 0 \notin busy
  BY DEF PlacesOK, PoolType
<1>6. ClaimsFly'
  BY <1>1, <1>2, <1>5 DEF PlacesOK, ClaimsFly
<1>7. Promised' \subseteq Promised
  BY <1>1, <1>2 DEF Promised, Waits
<1>8. Committed' <= Committed
  BY <1>1, <1>3, <1>7, NoneTaken DEF PlacesOK
<1>9. 0 \notin 1..last
  OBVIOUS
<1>10. \A j \in Ids : Moved(j)
  BY <1>1, <1>2, <1>9 DEF Moved
<1>14. \A j \in Ids : entry'[j].at # "out" => entry[j].at # "out" /\ entry'[j].tok = entry[j].tok
  BY <1>1, <1>2
<1>. QED
  BY <1>14, <1>3, <1>4, <1>6, <1>8, <1>10, <1>1, LatestStays DEF PlacesOK, Onwards

\* Settled claims are of entries that have gone; a retry comes due.
LEMMA SettleStep ==
  ASSUME PlacesOK, NEW settled \in SUBSET Settleable, busy' = busy \ settled,
         last' = last, of' = of,
         \/ entry' = entry
         \/ \E i \in Ids : /\ entry[i].at = "flying" /\ entry[i].tok \notin busy
                           /\ entry' = [entry EXCEPT ![i].at = "queued"]
  PROVE  Onwards
<1>1. entry' \in [Ids -> EntryType]
  BY DEF PlacesOK, PoolType, EntryType, Places
<1>2. PoolType'
  BY <1>1 DEF PlacesOK, PoolType
<1>3. ASSUME NEW j \in Ids
      PROVE  /\ entry'[j].tok = entry[j].tok /\ entry'[j].admitted = entry[j].admitted
             /\ \/ entry'[j].at = entry[j].at
                \/ /\ entry[j].at = "flying" /\ entry'[j].at = "queued"
                   /\ ~entry[j].admitted /\ entry[j].tok \notin busy
  BY DEF PlacesOK, PoolType, EntryType, ClaimsFly
<1>4. TokensNamed'
  BY <1>3 DEF PlacesOK, TokensNamed
<1>5. ClaimsFly'
  BY <1>3 DEF PlacesOK, ClaimsFly, Settleable
<1>6. Promised' \subseteq Promised
  BY <1>3 DEF Promised, Waits
<1>7. Committed' <= Committed
  BY <1>2, <1>6, NoneTaken DEF PlacesOK
<1>8. \A j \in Ids : Moved(j)
  BY <1>3 DEF Moved
<1>14. \A j \in Ids : entry'[j].at # "out" => entry[j].at # "out" /\ entry'[j].tok = entry[j].tok
  BY <1>3
<1>. QED
  BY <1>14, <1>2, <1>4, <1>5, <1>7, <1>8, LatestStays DEF PlacesOK, Onwards

\* Every step but Admit is one of these.
StepButAdmit ==
  \/ \E i \in Ids : \/ Enter(i) \/ Claim(i) \/ Register(i) \/ Retry(i)
                    \/ \E t \in busy : Ripen(i, {t})
                    \/ Ripen(i, {})
  \/ \E S \in SUBSET Ids : Depart(S)
  \/ \E t \in Tokens : Settle(t)

\* Every step that is no Admit goes onwards.
LEMMA OtherSteps ==
  ASSUME PlacesOK, StepButAdmit
  PROVE  Onwards
<1>1. ASSUME NEW i \in Ids, Enter(i) \/ Retry(i)
      PROVE  Onwards
  BY <1>1, MintStep DEF Enter, Retry, Waits
<1>2. ASSUME NEW i \in Ids, NEW settled, Ripen(i, settled)
      PROVE  Onwards
  <2>1. settled \in SUBSET Settleable
    BY <1>2 DEF Ripen
  <2>. QED
    BY <1>2, <2>1, SettleStep DEF Ripen
<1>3. ASSUME NEW t, Settle(t)
      PROVE  Onwards
  <2>1. {t} \in SUBSET Settleable
    BY <1>3 DEF Settle
  <2>. QED
    BY <1>3, <2>1, SettleStep DEF Settle
<1>. QED
  BY <1>1, <1>2, <1>3, ClaimStep, RegisterStep, DepartStep DEF StepButAdmit

\* The places are in order in an empty pool, which has committed nothing.
LEMMA EmptyPoolOK ==
  ASSUME EmptyPool
  PROVE  PlacesOK /\ Committed = 0
<1>1. PoolType /\ TokensNamed /\ LatestHeld /\ ClaimsFly
  BY CapacityAssumption
  DEF EmptyPool, PoolType, EntryType, Places, Gone, TokensNamed, LatestHeld, ClaimsFly
<1>2. busy = {} /\ Promised = {}
  BY DEF EmptyPool, Promised, Waits, Gone
<1>3. Committed = 0
  BY <1>2, FS_EmptySet DEF Committed, Promised
<1>. QED
  BY <1>1, <1>3 DEF PlacesOK

\* The pool never commits more slots than it has, whatever is admitted,
\* claimed, retried, removed and settled in whatever order.
THEOREM CapacityKept == PoolSpec => []WithinCapacity
<1>. DEFINE Inv == PlacesOK /\ WithinCapacity
<1>1. EmptyPool => Inv
  BY EmptyPoolOK, CapacityAssumption DEF WithinCapacity
<1>2. Inv /\ [Step]_opportunities => Inv'
  <2>. SUFFICES ASSUME Inv, [Step]_opportunities PROVE Inv'
    OBVIOUS
  <2>1. Committed \in Nat /\ (PlacesOK' => Committed' \in Nat)
    BY Counts, CountNext DEF PlacesOK
  <2>2. ASSUME NEW i \in Ids, Admit(i) PROVE Inv'
    BY <2>1, <2>2, AdmitStep, CapacityAssumption DEF WithinCapacity
  <2>3. ASSUME StepButAdmit PROVE Inv'
    BY <2>1, <2>3, OtherSteps, CapacityAssumption DEF WithinCapacity, Onwards
  <2>4. CASE UNCHANGED opportunities
    BY <2>4 DEF opportunities, PlacesOK, PoolType, TokensNamed, LatestHeld, ClaimsFly,
                WithinCapacity, Committed, Waits
  <2>. QED
    BY <2>2, <2>3, <2>4 DEF Step, StepButAdmit
<1>3. Inv => WithinCapacity
  OBVIOUS
<1>. QED
  BY <1>1, <1>2, <1>3, PTL DEF PoolSpec

-----------------------------------------------------------------------------
(* The rounds. *)

RowType == [st: {"none", "waiting", "active", "paused", "done"}, tok: 0..MaxToken,
            pending: BOOLEAN, claim: {"none", "live", "lapsed"}]

SnapType == [cands: SUBSET Tokens, open: SUBSET Tokens, busy: SUBSET Tokens,
             work: SUBSET Tokens, committed: Nat]

Phases == {"idle", "snapped", "clean", "frozen", "scan", "admit", "stale"}

RowsTyped ==
  /\ row \in [Ids -> RowType]
  /\ out \in [Ids -> {"in", "paused", "removed", "done"}]
  /\ \A i \in Ids : entry[i].at = "out" => out[i] # "in"

RoundTyped ==
  /\ smart \in BOOLEAN
  /\ pc \in Phases
  /\ snap \in SnapType
  /\ todo \subseteq Tokens /\ occ \subseteq Ids
  /\ cur.tok \in 0..MaxToken
  /\ round \in [accepted: Nat, measuring: Nat]

\* A reservation has its ticket, and was made for the row's own download.
RowsOK ==
  \A i \in Ids :
    /\ row[i].tok <= last
    /\ row[i].pending => /\ row[i].tok \in 1..last /\ of[row[i].tok] = i
                         /\ row[i].tok \in ticketed
                         /\ row[i].st = "waiting" /\ row[i].claim # "none"

TicketsOK == ticketed \subseteq known

\* The candidates the round still has to deal with.
Hand ==
  IF pc \in {"snapped", "clean", "frozen"} THEN snap.open
  ELSE IF pc = "scan" THEN todo
  ELSE IF pc \in {"admit", "stale"} THEN todo \cup {cur.tok} ELSE {}

HandOK ==
  /\ Hand \subseteq 1..last
  /\ pc \in {"scan", "admit", "stale"} => Hand \subseteq known
  /\ \A i \in Ids : entry[i].tok \in Hand => entry[i].at = "queued" /\ ~entry[i].admitted
  /\ pc \in {"admit", "stale"} => cur.tok \notin todo
  /\ pc = "stale" => \A i \in Ids : entry[i].tok # cur.tok

\* The row i is reserved for, or runs on, its current opportunity.
Backed(i) ==
  /\ row[i].tok = entry[i].tok /\ row[i].claim # "none"
  /\ row[i].pending \/ (entry[i].at = "running" /\ row[i].st = "active")

Vouched ==
  /\ \A i \in Ids : entry[i].admitted => Backed(i)
  /\ pc = "admit" =>
       \A i \in Ids : entry[i].tok = cur.tok => row[i].pending /\ row[i].tok = cur.tok

SnapLive ==
  /\ pc = "snapped" =>
       \A i \in Ids : row[i].pending /\ entry[i].tok = row[i].tok => Live(row[i].tok)
  /\ DeadReservesNothing

CountOK ==
  /\ pc # "idle" => Committed <= snap.committed + round.accepted
  /\ pc = "admit" => snap.committed + round.accepted < SlotCap
  /\ SlotCapHolds

MeasuredOK ==
  /\ OneMeasurement
  /\ smart => \A i \in Ids : Measures(i) =>
       /\ pc \in {"snapped", "clean"} => entry[i].tok \in snap.work
       /\ pc \in {"frozen", "scan", "admit", "stale"} =>
            (entry[i].tok \in snap.work /\ i \in occ) \/ round.measuring >= 1
  /\ smart /\ pc = "admit" /\ of[cur.tok] \in Record => Measuring = 0

\* The work of the snapshot is of tokens that were minted.
WorkMinted == snap.work \subseteq 1..last

RoundsInv ==
  /\ PlacesOK /\ RowsTyped /\ RoundTyped /\ WorkMinted
  /\ RowsOK /\ TicketsOK /\ HandOK /\ Vouched /\ SnapLive /\ CountOK /\ MeasuredOK

-----------------------------------------------------------------------------
(* What the kinds of steps come to.                                        *)

\* An admitted opportunity is one that waits for its claim or is claimed.
LEMMA Holding ==
  ASSUME PlacesOK, NEW i \in Ids
  PROVE  Measures(i) <=> i \in Record /\ Occupied(i) /\ entry[i].admitted
<1>1. entry[i].admitted => Waits(i) \/ entry[i].tok \in busy
  <2>1. entry[i].at \in Places
    BY DEF PlacesOK, PoolType, EntryType
  <2>. QED
    BY <2>1 DEF PlacesOK, TokensNamed, ClaimsFly, Waits, Places
<1>2. Waits(i) \/ entry[i].tok \in busy => entry[i].admitted
  BY DEF PlacesOK, ClaimsFly, Waits
<1>. QED
  BY <1>1, <1>2 DEF Measures

\* The same of the state after a step.
LEMMA HoldingNext ==
  ASSUME PlacesOK', NEW i \in Ids
  PROVE  Measures(i)' <=> i \in Record /\ Occupied(i)' /\ entry'[i].admitted
<1>1. entry'[i].admitted => Waits(i)' \/ entry'[i].tok \in busy'
  <2>1. entry'[i].at \in Places
    BY DEF PlacesOK, PoolType, EntryType
  <2>. QED
    BY <2>1 DEF PlacesOK, TokensNamed, ClaimsFly, Waits, Places
<1>2. Waits(i)' \/ entry'[i].tok \in busy' => entry'[i].admitted
  BY DEF PlacesOK, ClaimsFly, Waits
<1>. QED
  BY <1>1, <1>2 DEF Measures

\* Two IDs never hold one token.
LEMMA OneHolder ==
  ASSUME PlacesOK, NEW i \in Ids, NEW t \in 1..last, entry[i].tok = t
  PROVE  of[t] = i
  BY DEF PlacesOK, PoolType, TokensNamed, EntryType

\* Steps of workers, retry timers and users: the pool goes onwards and the
\* tracker and the controller do not move.
Around == \/ \E i \in Ids : Add(i) \/ Finish(i) \/ Leave(i)
          \/ PoolStep

\* A step of the surroundings is a step of the pool that admits nobody, and
\* who is out of the pool has a reason to be.
LEMMA AroundStep ==
  ASSUME PlacesOK, RowsTyped, Around
  PROVE  Onwards /\ UNCHANGED Elsewhere /\ RowsTyped'
<1>1. UNCHANGED Elsewhere
  BY DEF Around, Add, Finish, Leave, PoolStep
<1>2. ASSUME NEW i \in Ids, Add(i)
      PROVE  Onwards /\ RowsTyped'
  <2>1. Enter(i) /\ out' = [out EXCEPT ![i] = "in"]
    BY <1>2 DEF Add
  <2>2. Onwards
    BY <2>1, OtherSteps DEF StepButAdmit
  <2>3. entry'[i].at = "queued" /\ \A j \in Ids \ {i} : entry'[j] = entry[j]
    BY <2>1 DEF Enter, Mint, PlacesOK, PoolType
  <2>. QED
    BY <1>1, <2>1, <2>2, <2>3 DEF RowsTyped, Elsewhere
<1>3. ASSUME PoolStep
      PROVE  Onwards /\ RowsTyped'
  <2>1. StepButAdmit /\ out' = out
    BY <1>3 DEF PoolStep, StepButAdmit
  <2>2. Onwards
    BY <2>1, OtherSteps
  <2>3. \A j \in Ids : entry'[j].at = "out" => entry[j].at = "out"
    BY <1>3 DEF PoolStep, Claim, Register, Retry, Ripen, Settle, Mint, PlacesOK,
                PoolType, EntryType
  <2>. QED
    BY <1>1, <2>1, <2>2, <2>3 DEF RowsTyped, Elsewhere
<1>4. ASSUME NEW i \in Ids, Depart({i}), NEW end \in {"done", "paused", "removed"},
             out' = [out EXCEPT ![i] = end]
      PROVE  Onwards /\ RowsTyped'
  <2>1. Onwards
    <3>1. {i} \in SUBSET Ids
      OBVIOUS
    <3>. QED
      BY <1>4, <3>1, OtherSteps DEF StepButAdmit
  <2>2. \A j \in Ids \ {i} : entry'[j] = entry[j]
    BY <1>4 DEF Depart
  <2>. QED
    BY <1>1, <1>4, <2>1, <2>2 DEF RowsTyped, Elsewhere
<1>5. ASSUME NEW i \in Ids, Leave(i), UNCHANGED opportunities,
             out' = [out EXCEPT ![i] = "removed"]
      PROVE  Onwards /\ RowsTyped'
  <2>1. PlacesOK' /\ Committed' = Committed
    BY <1>5 DEF opportunities, PlacesOK, PoolType, TokensNamed, LatestHeld, ClaimsFly,
                Committed, Waits
  <2>2. Committed \in Nat
    BY Counts DEF PlacesOK
  <2>3. TokensKept /\ \A j \in Ids : Moved(j)
    BY <1>5 DEF opportunities, TokensKept, Moved, PlacesOK, PoolType
  <2>. QED
    BY <1>1, <1>5, <2>1, <2>2, <2>3 DEF Onwards, RowsTyped, Elsewhere, opportunities
<1>6. ASSUME NEW i \in Ids, Finish(i)
      PROVE  Onwards /\ RowsTyped'
  BY <1>4, <1>6 DEF Finish
<1>7. ASSUME NEW i \in Ids, Leave(i)
      PROVE  Onwards /\ RowsTyped'
  BY <1>4, <1>5, <1>7 DEF Leave
<1>. QED
  BY <1>1, <1>2, <1>3, <1>6, <1>7 DEF Around

\* What the monitor and the clock may do to a row: end a reservation whose
\* opportunity is not queued, and nothing but let the lease of an admitted
\* opportunity run out.
Aged(i) ==
  /\ row'[i].tok = row[i].tok \/ row'[i].tok = 0
  /\ row'[i].pending => /\ row[i].pending /\ row'[i].tok = row[i].tok
                        /\ row'[i].st = "waiting" /\ row'[i].claim # "none"
  /\ row[i].pending /\ Queued(i) => row'[i].pending
  /\ entry[i].admitted => Backed(i)' /\ (row'[i].claim = "live" => row[i].claim = "live")

\* What releasing a reservation leaves of a row.
LEMMA UnreservedRow ==
  ASSUME NEW r \in RowType
  PROVE  /\ Unreserved(r) \in RowType /\ Unreserved(r).tok = r.tok
         /\ ~Unreserved(r).pending /\ Unreserved(r).claim = "none"
         /\ Unreserved(r).st = r.st
  BY DEF Unreserved, RowType

\* What folding a status into a row keeps of it.
LEMMA FoldedRow ==
  ASSUME NEW r \in RowType, NEW status \in {"waiting", "active", "paused", "done"}
  PROVE  LET f == Folded(r, status) IN
         /\ f \in RowType /\ f.tok = r.tok /\ f.st = status
         /\ f.pending => r.pending /\ status = "waiting" /\ f.claim = r.claim
         /\ status = "waiting" /\ r.pending => f.pending
         /\ status = "active" /\ r.claim # "none" => f.claim = r.claim
<1>1. CASE status = "waiting" /\ r.pending
  BY <1>1 DEF Folded, RowType
<1>2. CASE status = "waiting" /\ ~r.pending
  <2>. PICK u \in RowType : u = Unreserved(r) /\ u.tok = r.tok /\ ~u.pending
    BY UnreservedRow
  <2>1. Folded(r, status) = [u EXCEPT !.st = "waiting"]
    BY <1>2 DEF Folded
  <2>. QED
    BY <1>2, <2>1 DEF RowType
<1>3. CASE status = "active"
  <2>. PICK no \in BOOLEAN : no = FALSE
    OBVIOUS
  <2>. PICK c \in {"none", "live", "lapsed"} : c = IF r.claim = "none" THEN "live" ELSE r.claim
    BY DEF RowType
  <2>1. Folded(r, status) = [r EXCEPT !.st = "active", !.pending = no, !.claim = c]
    BY <1>3 DEF Folded
  <2>2. /\ Folded(r, status) \in RowType /\ Folded(r, status).tok = r.tok
        /\ Folded(r, status).st = "active" /\ Folded(r, status).pending = no
        /\ Folded(r, status).claim = c
    BY <2>1 DEF RowType
  <2>. QED
    BY <1>3, <2>2
<1>4. CASE status \in {"paused", "done"}
  <2>. PICK u \in RowType : u = Unreserved(r) /\ u.tok = r.tok /\ ~u.pending
    BY UnreservedRow
  <2>1. Folded(r, status) = [u EXCEPT !.st = status]
    BY <1>4 DEF Folded
  <2>. QED
    BY <1>4, <2>1 DEF RowType
<1>. QED
  BY <1>1, <1>2, <1>3, <1>4

\* A fold of the pool's status, or a lapse, ages one row.
LEMMA RowStep ==
  ASSUME RoundsInv, NEW i \in Ids, Observe(i) \/ Lapse(i)
  PROVE  /\ RowsTyped' /\ UNCHANGED <<smart, poolVars, pc, roundVars, entries>>
         /\ \A j \in Ids : Aged(j)
<1>. DEFINE r == row[i]
<1>1. UNCHANGED <<smart, poolVars, pc, roundVars, entries>>
  BY DEF Observe, Lapse
<1>2. /\ r \in RowType /\ (r.pending => r.st = "waiting" /\ r.claim # "none")
      /\ entry[i].admitted => Backed(i)
      /\ entry[i].at \in Places
  BY DEF RoundsInv, RowsTyped, RowsOK, Vouched, PlacesOK, PoolType, EntryType
<1>3. ASSUME Lapse(i) PROVE row'[i] \in RowType /\ row' = [row EXCEPT ![i] = row'[i]] /\ Aged(i)
  <2>1. r.claim = "live" /\ row'[i] = [r EXCEPT !.claim = "lapsed"]
        /\ row' = [row EXCEPT ![i] = row'[i]]
    BY <1>3 DEF Lapse, RoundsInv, RowsTyped
  <2>2. /\ row'[i].tok = r.tok /\ row'[i].st = r.st /\ row'[i].pending = r.pending
        /\ row'[i].claim = "lapsed" /\ row'[i] \in RowType
    BY <1>2, <2>1 DEF RowType
  <2>. QED
    BY <1>1, <1>2, <2>1, <2>2 DEF Aged, Backed, poolVars, opportunities
<1>4. ASSUME Observe(i) PROVE row'[i] \in RowType /\ row' = [row EXCEPT ![i] = row'[i]] /\ Aged(i)
  <2>1. row'[i] = Seen(i) /\ row' = [row EXCEPT ![i] = row'[i]]
    BY <1>4 DEF Observe, RoundsInv, RowsTyped
  <2>2. /\ out[i] \in {"in", "paused", "removed", "done"}
        /\ entry[i].at = "out" => out[i] # "in" /\ ~entry[i].admitted
    BY DEF RoundsInv, RowsTyped, PlacesOK, TokensNamed
  <2>3. CASE row'[i] = r
    BY <1>1, <1>2, <2>1, <2>3 DEF Aged, Backed, poolVars, opportunities
  <2>4. CASE Queued(i) /\ row'[i] # r
    <3>1. Status(i) = "waiting" /\ row'[i] = Folded(r, "waiting")
      <4>1. Status(i) = "waiting"
        BY <2>4 DEF Status, Queued
      <4>. QED
        BY <2>1, <4>1 DEF Seen
    <3>2. /\ row'[i] \in RowType /\ row'[i].tok = r.tok /\ row'[i].st = "waiting"
          /\ row'[i].pending => r.pending /\ row'[i].claim = r.claim
          /\ r.pending => row'[i].pending
      BY <1>2, <3>1, FoldedRow
    <3>3. entry[i].admitted => r.pending
      BY <1>2, <2>4 DEF Backed, Queued
    <3>. QED
      BY <1>1, <1>2, <2>1, <3>2, <3>3 DEF Aged, Backed, poolVars, opportunities
  <2>5. CASE entry[i].at = "running" /\ row'[i] # r
    <3>1. Status(i) = "active" /\ row'[i] = Folded(r, "active")
      BY <2>1, <2>5 DEF Status, Seen, Queued
    <3>2. /\ row'[i] \in RowType /\ row'[i].tok = r.tok /\ row'[i].st = "active"
          /\ ~row'[i].pending
          /\ r.claim # "none" => row'[i].claim = r.claim
      BY <1>2, <3>1, FoldedRow
    <3>. QED
      BY <1>1, <1>2, <2>1, <2>5, <3>2 DEF Aged, Backed, Queued, poolVars, opportunities
  <2>6. CASE entry[i].at = "out" /\ out[i] \in {"paused", "done"} /\ row'[i] # r
    <3>1. Status(i) = out[i] /\ row'[i] = Folded(r, out[i])
      BY <2>1, <2>6 DEF Status, Seen, Queued
    <3>2. row'[i] \in RowType /\ row'[i].tok = r.tok /\ ~row'[i].pending
      BY <1>2, <2>6, <3>1, FoldedRow
    <3>. QED
      BY <2>1, <2>2, <2>6, <3>2 DEF Aged, Queued
  <2>7. CASE entry[i].at = "out" /\ out[i] = "removed"
    <3>1. row'[i] = NoRow
      BY <2>1, <2>7 DEF Status, Seen, Queued
    <3>2. NoRow \in RowType /\ NoRow.tok = 0 /\ ~NoRow.pending
      BY CapacityAssumption DEF NoRow, RowType
    <3>. QED
      BY <2>1, <2>2, <2>7, <3>1, <3>2 DEF Aged, Queued
  <2>. QED
    BY <1>2, <2>2, <2>3, <2>4, <2>5, <2>6, <2>7 DEF Places, Queued
<1>5. row'[i] \in RowType /\ row' = [row EXCEPT ![i] = row'[i]] /\ Aged(i)
  BY <1>3, <1>4
<1>6. \A j \in Ids \ {i} : row'[j] = row[j]
  BY <1>5 DEF RoundsInv, RowsTyped
<1>7. ASSUME NEW j \in Ids \ {i} PROVE Aged(j)
  <2>1. /\ row[j].pending => row[j].st = "waiting" /\ row[j].claim # "none"
        /\ entry[j].admitted => Backed(j)
    BY DEF RoundsInv, RowsOK, Vouched
  <2>. QED
    BY <1>1, <1>6, <2>1 DEF Aged, Backed, poolVars, opportunities
<1>8. RowsTyped'
  BY <1>1, <1>5 DEF RoundsInv, RowsTyped, poolVars, opportunities
<1>. QED
  BY <1>1, <1>5, <1>7, <1>8

\* The round looks at the candidates in the order of their tokens.
LEMMA CandidateIs ==
  ASSUME todo \subseteq Nat, todo # {}
  PROVE  Candidate \in todo
<1>1. \A t, u \in Nat : <<u, t>> \in OpToRel(<, Nat) <=> u < t
  BY DEF OpToRel
<1>2. \E R : IsWellFoundedOn(R, Nat) /\ \A t, u \in Nat : <<u, t>> \in R <=> u < t
  BY <1>1, NatLessThanWellFounded, Zenon
<1>. PICK R : IsWellFoundedOn(R, Nat) /\ \A t, u \in Nat : <<u, t>> \in R <=> u < t
  BY <1>2
<1>. PICK t \in todo : \A u \in todo : ~(<<u, t>> \in R)
  BY WFMin
<1>3. \A u \in todo : ~(u < t)
  OBVIOUS
<1>4. \A u \in todo : t <= u
  BY <1>3
<1>. QED
  BY <1>4 DEF Candidate

\* The rows before and after ReserveAdmission, and what it was given.
LEMMA ReserveStep ==
  ASSUME RoundsInv, Reserve
  PROVE  \E t \in todo :
           /\ t = Candidate /\ t \in 1..last /\ of[t] \in Ids /\ Allowed(t)
           /\ row[of[t]].tok < t /\ ~entry[of[t]].admitted
           /\ row'[of[t]] \in RowType /\ row'[of[t]].tok = t /\ row'[of[t]].pending
           /\ row'[of[t]].claim = "live" /\ row'[of[t]].st = "waiting"
           /\ row' = [row EXCEPT ![of[t]] = row'[of[t]]]
           /\ \A j \in Ids \ {of[t]} : row'[j] = row[j]
           /\ cur'.tok = t /\ todo' = todo \ {t} /\ ticketed' = ticketed \cup {t}
<1>. PICK t : t = Candidate
  OBVIOUS
<1>1. /\ pc = "scan" /\ todo # {} /\ Allowed(t) /\ Reservable(t)
      /\ row' = [row EXCEPT ![of[t]] = [@ EXCEPT !.tok = t, !.pending = TRUE, !.claim = "live"]]
      /\ cur'.tok = t /\ todo' = todo \ {t} /\ ticketed' = ticketed \cup {t}
  BY DEF Reserve
<1>2. t \in todo /\ t \in 1..last /\ t \in Hand
  <2>1. todo \subseteq Nat
    BY CapacityAssumption DEF RoundsInv, RoundTyped, Tokens
  <2>. QED
    BY <1>1, <2>1, CandidateIs DEF RoundsInv, HandOK, Hand
<1>3. of[t] \in Ids
  BY <1>2 DEF RoundsInv, PlacesOK, PoolType
<1>4. row[of[t]].tok < t /\ row[of[t]].st = "waiting"
  BY <1>1 DEF Reservable
<1>5. ~entry[of[t]].admitted
  <2>1. SUFFICES ASSUME entry[of[t]].admitted PROVE FALSE
    OBVIOUS
  <2>2. entry[of[t]].tok = row[of[t]].tok /\ entry[of[t]].at # "out"
    BY <1>3, <2>1 DEF RoundsInv, Vouched, Backed, PlacesOK, TokensNamed
  <2>3. t <= entry[of[t]].tok
    BY <1>2, <1>3, <2>2 DEF RoundsInv, PlacesOK, LatestHeld
  <2>. QED
    BY <1>2, <1>3, <1>4, <2>2, <2>3, CapacityAssumption
    DEF RoundsInv, PlacesOK, PoolType, RowsTyped, RowType
<1>6. /\ row'[of[t]] \in RowType /\ row'[of[t]].tok = t /\ row'[of[t]].pending
      /\ row'[of[t]].claim = "live" /\ row'[of[t]].st = "waiting"
      /\ row' = [row EXCEPT ![of[t]] = row'[of[t]]]
      /\ \A j \in Ids \ {of[t]} : row'[j] = row[j]
  <2>. PICK yes \in BOOLEAN : yes = TRUE
    OBVIOUS
  <2>. PICK s \in RowType : s = row[of[t]] /\ s.st = "waiting"
    BY <1>3, <1>4 DEF RoundsInv, RowsTyped
  <2>1. row'[of[t]] = [s EXCEPT !.tok = t, !.pending = yes, !.claim = "live"]
    BY <1>1, <1>3 DEF RoundsInv, RowsTyped
  <2>2. t \in 0..MaxToken
    BY <1>2, CapacityAssumption DEF RoundsInv, PlacesOK, PoolType
  <2>3. /\ row'[of[t]] \in RowType /\ row'[of[t]].tok = t /\ row'[of[t]].pending = yes
        /\ row'[of[t]].claim = "live" /\ row'[of[t]].st = "waiting"
    BY <2>1, <2>2 DEF RowType
  <2>4. /\ row' = [row EXCEPT ![of[t]] = row'[of[t]]]
        /\ \A j \in Ids \ {of[t]} : row'[j] = row[j]
    BY <1>1, <1>3 DEF RoundsInv, RowsTyped
  <2>. QED
    BY <2>3, <2>4
<1>. QED
  BY <1>1, <1>2, <1>3, <1>4, <1>5, <1>6

\* What reconcileTickets does to the rows: exactly the reservations of dead
\* opportunities end.
LEMMA ReconcileStep ==
  ASSUME RoundsInv, Reconcile, NEW i \in Ids
  PROVE  /\ row' \in [Ids -> RowType]
         /\ \/ row'[i] = row[i] /\ (row[i].pending => Live(row[i].tok))
            \/ /\ row[i].pending /\ ~Live(row[i].tok)
               /\ row'[i] = Unreserved(row[i])
<1>. DEFINE dead == {t \in known : ~Live(t)}
            hit(j) == \E t \in dead \cap ticketed : of[t] = j /\ Released(t)[j] # row[j]
<1>1. row' = [j \in Ids |-> IF hit(j) THEN Unreserved(row[j]) ELSE row[j]]
  BY DEF Reconcile
<1>2. \A j \in Ids : row[j] \in RowType /\ Unreserved(row[j]) \in RowType
                   /\ ~Unreserved(row[j]).pending
  BY UnreservedRow DEF RoundsInv, RowsTyped
<1>3. row' \in [Ids -> RowType]
  BY <1>1, <1>2
<1>4. ASSUME NEW t, of[t] = i
      PROVE  Released(t)[i] = IF Pending(t) THEN Unreserved(row[i]) ELSE row[i]
  BY <1>4 DEF Released, RoundsInv, RowsTyped
<1>5. CASE hit(i)
  <2>. PICK t \in dead \cap ticketed : of[t] = i /\ Released(t)[i] # row[i]
    BY <1>5
  <2>1. Pending(t)
    BY <1>4
  <2>2. row[i].pending /\ row[i].tok = t /\ ~Live(t)
    BY <2>1 DEF Pending
  <2>. QED
    BY <1>1, <1>3, <1>5, <2>2
<1>6. CASE ~hit(i)
  <2>1. row'[i] = row[i]
    BY <1>1, <1>6
  <2>2. ASSUME row[i].pending, ~Live(row[i].tok) PROVE FALSE
    <3>. PICK t : t = row[i].tok
      OBVIOUS
    <3>1. t \in dead \cap ticketed /\ of[t] = i
      BY <2>2 DEF RoundsInv, RowsOK, TicketsOK
    <3>2. Pending(t)
      BY <2>2, <3>1 DEF Pending
    <3>3. Released(t)[i] # row[i]
      BY <1>2, <1>4, <2>2, <3>1, <3>2
    <3>. QED
      BY <1>6, <3>1, <3>3
  <2>. QED
    BY <1>3, <2>1, <2>2
<1>. QED
  BY <1>5, <1>6

\* A rollback releases the reservation it was called for and no other.
LEMMA RollbackStep ==
  ASSUME RoundsInv, Rollback, NEW i \in Ids
  PROVE  /\ row' \in [Ids -> RowType]
         /\ \/ row'[i] = row[i] /\ (row[i].pending => row[i].tok # cur.tok)
            \/ /\ row[i].pending /\ row[i].tok = cur.tok
               /\ row'[i] = Unreserved(row[i])
<1>1. /\ pc = "stale"
      /\ row' = [row EXCEPT ![of[cur.tok]] = IF Pending(cur.tok) THEN Unreserved(@) ELSE @]
  BY DEF Rollback, Released
<1>2. cur.tok \in 1..last /\ of[cur.tok] \in Ids
  BY <1>1 DEF RoundsInv, HandOK, Hand, PlacesOK, PoolType
<1>3. row[of[cur.tok]] \in RowType /\ Unreserved(row[of[cur.tok]]) \in RowType
  BY <1>2, UnreservedRow DEF RoundsInv, RowsTyped
<1>4. row' \in [Ids -> RowType]
  BY <1>1, <1>2, <1>3 DEF RoundsInv, RowsTyped
<1>5. row[i].pending => of[row[i].tok] = i
  BY DEF RoundsInv, RowsOK
<1>6. CASE i = of[cur.tok]
  BY <1>1, <1>2, <1>4, <1>6 DEF Pending, RoundsInv, RowsTyped
<1>7. CASE i # of[cur.tok]
  BY <1>1, <1>2, <1>4, <1>5, <1>7 DEF RoundsInv, RowsTyped
<1>. QED
  BY <1>6, <1>7

\* Accept admits the opportunity in hand, which is still queued.
LEMMA AcceptStep ==
  ASSUME RoundsInv, Accept
  PROVE  LET i == of[cur.tok] IN
         /\ i \in Ids /\ PlacesOK' /\ Committed' = Committed + 1
         /\ entry[i].tok = cur.tok /\ entry'[i].tok = cur.tok /\ entry'[i].at = entry[i].at
         /\ entry'[i].admitted /\ Backed(i)
         /\ \A j \in Ids \ {i} : entry'[j] = entry[j]
<1>1. pc = "admit" /\ Current(cur.tok) /\ Admit(of[cur.tok])
  BY DEF Accept
<1>2. PICK j \in Ids : entry[j].tok = cur.tok
  BY <1>1 DEF Current
<1>3. cur.tok \in 1..last
  BY <1>1 DEF RoundsInv, HandOK, Hand
<1>4. of[cur.tok] = j
  BY <1>2, <1>3, OneHolder DEF RoundsInv
<1>5. Backed(j)
  BY <1>1, <1>2 DEF RoundsInv, Vouched, RowsOK, Backed
<1>. QED
  BY <1>1, <1>2, <1>4, <1>5, AdmitStep DEF RoundsInv

\* A controller step that does not accept leaves the pool alone.
LEMMA PoolStays ==
  ASSUME PlacesOK, UNCHANGED opportunities
  PROVE  PlacesOK' /\ Committed' = Committed
  BY DEF opportunities, PlacesOK, PoolType, TokensNamed, LatestHeld, ClaimsFly,
         Committed, Waits

\* The controller touches the pool with Admit only.
LEMMA ControllerPool ==
  ASSUME Controller
  PROVE  \/ Accept
         \/ /\ UNCHANGED <<smart, poolVars>>
            /\ \/ Snapshot \/ Reconcile \/ Freeze \/ Prepare \/ RoundOver \/ PassOver
               \/ Reserve \/ Stale \/ Rollback
  BY DEF Controller, Snapshot, Reconcile, Freeze, Prepare, RoundOver, PassOver,
         Reserve, Stale, Rollback

-----------------------------------------------------------------------------
(* The parts of the invariant, one by one.                                 *)

\* The snapshot of a pool in order is typed.
LEMMA SnapshotTyped ==
  ASSUME RoundsInv, Snapshot
  PROVE  /\ snap' \in SnapType /\ snap'.committed = Committed
         /\ snap'.busy = busy
         /\ snap'.cands = {entry[i].tok : i \in {j \in Ids : Queued(j)}}
         /\ snap'.open = {entry[i].tok : i \in {j \in Ids : entry[j].at = "queued" /\ ~entry[j].admitted}}
         /\ smart => snap'.work = busy \cup {entry[i].tok : i \in {j \in Ids : Waits(j)}}
<1>. PICK C, O, W :
       /\ C = {entry[i].tok : i \in {j \in Ids : Queued(j)}}
       /\ O = {entry[i].tok : i \in {j \in Ids : entry[j].at = "queued" /\ ~entry[j].admitted}}
       /\ W = {entry[i].tok : i \in {j \in Ids : Waits(j)}}
  OBVIOUS
<1>1. \A i \in Ids : entry[i].at # "out" => entry[i].tok \in Tokens
  BY CapacityAssumption DEF RoundsInv, PlacesOK, PoolType, TokensNamed, Tokens
<1>2. C \subseteq Tokens
  BY <1>1 DEF Queued
<1>3. O \subseteq Tokens /\ W \subseteq Tokens
  BY <1>1 DEF Waits
<1>4. busy \subseteq Tokens
  BY CapacityAssumption DEF RoundsInv, PlacesOK, PoolType, Tokens
<1>5. Committed \in Nat
  BY Counts DEF RoundsInv, PlacesOK
<1>. PICK V, n : V = (IF smart THEN busy \cup W ELSE {}) /\ n = Committed
  OBVIOUS
<1>6. snap' = [cands |-> C, open |-> O, busy |-> busy, work |-> V, committed |-> n]
  BY DEF Snapshot
<1>7. V \subseteq Tokens /\ n \in Nat
  BY <1>3, <1>4, <1>5
<1>. QED
  BY <1>2, <1>3, <1>4, <1>6, <1>7 DEF SnapType

\* Every step keeps the types and the order of the places.
LEMMA TypesKept ==
  ASSUME RoundsInv, [Next]_vars
  PROVE  PlacesOK' /\ RowsTyped' /\ RoundTyped'
<1>. USE DEF RoundsInv
<1>1. ASSUME Around PROVE PlacesOK' /\ RowsTyped' /\ RoundTyped'
  BY <1>1, AroundStep DEF Onwards, Elsewhere, roundVars, RoundTyped
<1>2. ASSUME NEW i \in Ids, Observe(i) \/ Lapse(i) PROVE PlacesOK' /\ RowsTyped' /\ RoundTyped'
  BY <1>2, RowStep, PoolStays DEF poolVars, roundVars, RoundTyped
<1>3. ASSUME UNCHANGED vars PROVE PlacesOK' /\ RowsTyped' /\ RoundTyped'
  BY <1>3, PoolStays DEF vars, poolVars, opportunities, roundVars, RowsTyped, RoundTyped
<1>4. NoSnap \in SnapType /\ Nobody.tok = 0 /\ NewRound \in [accepted: Nat, measuring: Nat]
  BY DEF NoSnap, SnapType, Nobody, NewRound
<1>5. EndRound /\ UNCHANGED smart => RoundTyped'
  BY <1>4, CapacityAssumption DEF EndRound, RoundTyped, Phases
<1>6. ASSUME Accept PROVE PlacesOK' /\ RowsTyped' /\ RoundTyped'
  <2>1. round' \in [accepted: Nat, measuring: Nat]
    BY <1>6 DEF Accept, Accounted, RoundTyped
  <2>2. \A j \in Ids : entry'[j].at = entry[j].at
    BY <1>6, AcceptStep
  <2>. QED
    BY <1>4, <1>6, <2>1, <2>2, AcceptStep, CapacityAssumption
    DEF Accept, RowsTyped, RoundTyped, Phases
<1>7. ASSUME UNCHANGED <<smart, poolVars>>,
             \/ Snapshot \/ Reconcile \/ Freeze \/ Prepare \/ RoundOver \/ PassOver
             \/ Reserve \/ Stale \/ Rollback
      PROVE  PlacesOK' /\ RowsTyped' /\ RoundTyped'
  <2>1. PlacesOK' /\ out' = out /\ entry' = entry
    BY <1>7, PoolStays DEF poolVars, opportunities
  <2>2. row' \in [Ids -> RowType]
    <3>1. ASSUME row' = row PROVE row' \in [Ids -> RowType]
      BY <3>1 DEF RowsTyped
    <3>2. CASE Reserve
      BY <3>2, ReserveStep DEF RowsTyped
    <3>3. CASE Reconcile
      <4>1. CASE Ids = {}
        BY <3>3, <4>1 DEF Reconcile
      <4>. QED
        BY <3>3, <4>1, ReconcileStep
    <3>4. CASE Rollback
      <4>1. CASE Ids = {}
        BY <3>4, <4>1 DEF Rollback, Released, RowsTyped
      <4>. QED
        BY <3>4, <4>1, RollbackStep
    <3>. QED
      BY <1>7, <3>1, <3>2, <3>3, <3>4 DEF Snapshot, Freeze, Prepare, RoundOver, PassOver, Stale
  <2>3. RoundTyped'
    <3>1. CASE Snapshot
      BY <1>7, <3>1, SnapshotTyped DEF Snapshot, RoundTyped, Phases
    <3>2. CASE Reconcile
      BY <3>2 DEF Reconcile, RoundTyped, Phases, roundVars
    <3>3. CASE Freeze
      BY <3>3 DEF Freeze, RoundTyped, Phases
    <3>4. CASE Prepare
      <4>1. [snap EXCEPT !.cands = {}, !.open = {}, !.busy = {}] \in SnapType
        BY DEF RoundTyped, SnapType
      <4>2. snap' \in SnapType /\ occ' \subseteq Ids /\ pc' \in Phases
        BY <1>4, <3>4, <4>1 DEF Prepare, RoundTyped, Phases
      <4>3. todo' \subseteq Tokens
        BY <3>4 DEF Prepare, RoundTyped, SnapType
      <4>. QED
        BY <3>4, <4>2, <4>3 DEF Prepare, RoundTyped
    <3>5. CASE RoundOver \/ Rollback
      BY <1>5, <3>5 DEF RoundOver, Rollback
    <3>6. CASE PassOver \/ Stale
      BY <3>6 DEF PassOver, Stale, RoundTyped, Phases, roundVars
    <3>7. CASE Reserve
      <4>1. PICK t \in todo : cur'.tok = t /\ todo' = todo \ {t}
        BY <3>7, ReserveStep
      <4>. QED
        BY <3>7, <4>1, CapacityAssumption DEF Reserve, RoundTyped, Phases, Tokens
    <3>. QED
      BY <1>7, <3>1, <3>2, <3>3, <3>4, <3>5, <3>6, <3>7
  <2>. QED
    BY <2>1, <2>2, <2>3 DEF RowsTyped
<1>8. ASSUME Controller PROVE PlacesOK' /\ RowsTyped' /\ RoundTyped'
  BY <1>6, <1>7, <1>8, ControllerPool
<1>. QED
  BY <1>1, <1>2, <1>3, <1>8 DEF Next, Around, Work, Monitor, Expiry, User

\* A reservation keeps its ticket for as long as it is pending.
LEMMA RowsKept ==
  ASSUME RoundsInv, [Next]_vars
  PROVE  RowsOK' /\ TicketsOK'
<1>. USE DEF RoundsInv
<1>1. ASSUME Around PROVE RowsOK' /\ TicketsOK'
  <2>1. /\ UNCHANGED <<row, known, ticketed>> /\ TokensKept /\ last \in Nat /\ last' \in Nat
        /\ \A i \in Ids : row[i].tok \in Nat
    BY <1>1, AroundStep, CapacityAssumption
    DEF Elsewhere, entries, Onwards, PlacesOK, PoolType, RowsTyped, RowType
  <2>. QED
    BY <2>1 DEF RowsOK, TicketsOK, TokensKept
<1>2. ASSUME NEW i \in Ids, Observe(i) \/ Lapse(i) PROVE RowsOK' /\ TicketsOK'
  <2>1. /\ UNCHANGED <<last, of, known, ticketed>> /\ last \in Nat
        /\ \A j \in Ids : Aged(j)
    BY <1>2, RowStep, CapacityAssumption
    DEF poolVars, opportunities, entries, PlacesOK, PoolType
  <2>2. \A j \in Ids : row'[j].tok <= last
    BY <2>1 DEF Aged, RowsOK
  <2>. QED
    BY <2>1, <2>2 DEF RowsOK, TicketsOK, Aged
<1>3. ASSUME UNCHANGED <<row, ticketed, known, last, of>> PROVE RowsOK' /\ TicketsOK'
  BY <1>3 DEF RowsOK, TicketsOK
<1>4. ASSUME Snapshot \/ Freeze \/ RoundOver \/ PassOver \/ Stale \/ UNCHANGED vars
      PROVE  UNCHANGED <<row, ticketed, known, last, of>>
  BY <1>4 DEF Snapshot, Freeze, RoundOver, PassOver, Stale, vars, entries, poolVars,
              opportunities
<1>5. ASSUME Accept PROVE UNCHANGED <<row, ticketed, known, last, of>>
  BY <1>5 DEF Accept, Admit
<1>6. ASSUME Reconcile PROVE RowsOK' /\ TicketsOK'
  <2>1. /\ UNCHANGED <<last, of>> /\ known' = {t \in known : Live(t)}
        /\ ticketed' = {t \in ticketed : t \in known => Live(t)}
    BY <1>6 DEF Reconcile, poolVars, opportunities
  <2>2. ASSUME NEW i \in Ids
        PROVE  \/ row'[i] = row[i] /\ (row[i].pending => Live(row[i].tok))
               \/ ~row'[i].pending /\ row'[i].tok = row[i].tok
    BY <1>6, ReconcileStep, UnreservedRow DEF RowsTyped
  <2>. QED
    BY <2>1, <2>2 DEF RowsOK, TicketsOK
<1>7. ASSUME Prepare PROVE RowsOK' /\ TicketsOK'
  <2>1. /\ UNCHANGED <<row, last, of>> /\ known \subseteq known'
        /\ \A t \in ticketed : Pending(t) => t \in ticketed'
        /\ ticketed' \subseteq ticketed
    BY <1>7 DEF Prepare, poolVars, opportunities
  <2>2. \A i \in Ids : row[i].pending => Pending(row[i].tok)
    BY DEF RowsOK, Pending
  <2>. QED
    BY <2>1, <2>2 DEF RowsOK, TicketsOK
<1>8. ASSUME Reserve PROVE RowsOK' /\ TicketsOK'
  <2>1. PICK t \in todo :
           /\ t \in 1..last /\ of[t] \in Ids
           /\ row'[of[t]].tok = t /\ row'[of[t]].pending
           /\ row'[of[t]].claim = "live" /\ row'[of[t]].st = "waiting"
           /\ \A j \in Ids \ {of[t]} : row'[j] = row[j]
           /\ ticketed' = ticketed \cup {t}
    BY <1>8, ReserveStep
  <2>2. UNCHANGED <<known, last, of>> /\ t \in known
    BY <1>8 DEF Reserve, poolVars, opportunities, HandOK, Hand
  <2>3. last \in Nat
    BY CapacityAssumption DEF PlacesOK, PoolType
  <2>. QED
    BY <2>1, <2>2, <2>3 DEF RowsOK, TicketsOK
<1>9. ASSUME Rollback PROVE RowsOK' /\ TicketsOK'
  <2>1. UNCHANGED <<known, last, of>> /\ ticketed' = ticketed \ {cur.tok}
    BY <1>9 DEF Rollback, poolVars, opportunities
  <2>2. ASSUME NEW i \in Ids
        PROVE  \/ row'[i] = row[i] /\ (row[i].pending => row[i].tok # cur.tok)
               \/ ~row'[i].pending /\ row'[i].tok = row[i].tok
    BY <1>9, RollbackStep, UnreservedRow DEF RowsTyped
  <2>. QED
    BY <2>1, <2>2 DEF RowsOK, TicketsOK
<1>. QED
  BY <1>1, <1>2, <1>3, <1>4, <1>5, <1>6, <1>7, <1>8, <1>9
  DEF Next, Controller, Around, Work, Monitor, Expiry, User

\* A candidate of the snapshot stays unadmitted for as long as it is in hand,
\* or its opportunity is gone for good.
LEMMA HandKept ==
  ASSUME RoundsInv, [Next]_vars
  PROVE  HandOK'
<1>. USE DEF RoundsInv
<1>1. ASSUME Around PROVE HandOK'
  <2>1. /\ UNCHANGED <<pc, snap, todo, cur, known>> /\ TokensKept
        /\ \A j \in Ids : Moved(j)
    BY <1>1, AroundStep DEF Elsewhere, roundVars, entries, Onwards
  <2>2. Hand' = Hand
    BY <2>1 DEF Hand
  <2>3. Hand \subseteq 1..last'
    BY <2>1 DEF HandOK, TokensKept
  <2>4. ASSUME NEW i \in Ids, entry'[i].tok \in Hand
        PROVE  entry'[i].tok = entry[i].tok /\ entry'[i].at = "queued" /\ ~entry'[i].admitted
    <3>1. entry'[i].tok = entry[i].tok /\ entry'[i].admitted = entry[i].admitted
          /\ (entry[i].at = "queued" /\ ~entry[i].admitted => entry'[i].at = "queued")
      BY <2>1, <2>4 DEF Moved, HandOK
    <3>. QED
      BY <2>4, <3>1 DEF HandOK
  <2>5. pc = "stale" => cur.tok \in Hand
    BY DEF Hand
  <2>. QED
    BY <2>1, <2>2, <2>3, <2>4, <2>5 DEF HandOK
<1>2. ASSUME UNCHANGED <<entry, last, pc, snap, todo, cur, known>> PROVE HandOK'
  BY <1>2 DEF HandOK, Hand
<1>3. ASSUME NEW i \in Ids, Observe(i) \/ Lapse(i)
      PROVE  UNCHANGED <<entry, last, pc, snap, todo, cur, known>>
  BY <1>3 DEF Observe, Lapse, poolVars, opportunities, roundVars, entries
<1>4. ASSUME UNCHANGED vars PROVE UNCHANGED <<entry, last, pc, snap, todo, cur, known>>
  BY <1>4 DEF vars, poolVars, opportunities, roundVars, entries
<1>5. ASSUME pc' = "idle" PROVE HandOK'
  BY <1>5 DEF HandOK, Hand
<1>6. ASSUME Snapshot PROVE HandOK'
  <2>1. /\ pc' = "snapped" /\ UNCHANGED <<entry, last>>
        /\ snap'.open = {entry[i].tok : i \in {j \in Ids : entry[j].at = "queued" /\ ~entry[j].admitted}}
    BY <1>6, SnapshotTyped DEF Snapshot, poolVars, opportunities
  <2>2. Hand' = snap'.open
    BY <2>1 DEF Hand
  <2>3. Hand' \subseteq 1..last
    BY <2>1, <2>2 DEF PlacesOK, TokensNamed
  <2>4. ASSUME NEW i \in Ids, entry[i].tok \in Hand'
        PROVE  entry[i].at = "queued" /\ ~entry[i].admitted
    <3>. PICK j \in Ids : entry[j].at = "queued" /\ ~entry[j].admitted /\ entry[i].tok = entry[j].tok
      BY <2>1, <2>2, <2>4
    <3>. DEFINE t == entry[i].tok
    <3>1. t \in 1..last /\ PlacesOK
      BY <2>3, <2>4
    <3>2. of[t] = i /\ of[t] = j
      BY <3>1, OneHolder
    <3>. QED
      BY <3>2
  <2>. QED
    BY <2>1, <2>3, <2>4 DEF HandOK
<1>7. ASSUME Reconcile \/ Freeze PROVE HandOK'
  <2>1. /\ pc \in {"snapped", "clean", "frozen"} /\ pc' \in {"snapped", "clean", "frozen"}
        /\ UNCHANGED <<entry, last, snap>>
    BY <1>7 DEF Reconcile, Freeze, roundVars, poolVars, opportunities
  <2>2. Hand' = Hand
    BY <2>1 DEF Hand
  <2>. QED
    BY <2>1, <2>2 DEF HandOK
<1>8. ASSUME Prepare, pc' # "idle" PROVE HandOK'
  <2>1. /\ pc = "frozen" /\ pc' = "scan" /\ UNCHANGED <<entry, last>>
        /\ todo' \subseteq snap.open /\ todo' \subseteq known'
    BY <1>8 DEF Prepare, poolVars, opportunities
  <2>2. Hand' = todo' /\ Hand = snap.open
    BY <2>1 DEF Hand
  <2>. QED
    BY <2>1, <2>2 DEF HandOK
<1>9. ASSUME PassOver PROVE HandOK'
  <2>1. /\ pc = "scan" /\ pc' = "scan" /\ UNCHANGED <<entry, last, known>>
        /\ todo' \subseteq todo
    BY <1>9 DEF PassOver, poolVars, opportunities, entries
  <2>2. Hand' = todo' /\ Hand = todo
    BY <2>1 DEF Hand
  <2>. QED
    BY <2>1, <2>2 DEF HandOK
<1>10. ASSUME Reserve PROVE HandOK'
  <2>1. PICK t \in todo : cur'.tok = t /\ todo' = todo \ {t}
    BY <1>10, ReserveStep
  <2>2. pc = "scan" /\ pc' = "admit" /\ UNCHANGED <<entry, last, known>>
    BY <1>10 DEF Reserve, poolVars, opportunities
  <2>3. Hand = todo /\ Hand' = todo' \cup {cur'.tok}
    BY <2>2 DEF Hand
  <2>4. Hand' = Hand
    BY <2>1, <2>3
  <2>. QED
    BY <2>1, <2>2, <2>4 DEF HandOK
<1>11. ASSUME Accept PROVE HandOK'
  <2>1. /\ pc = "admit" /\ pc' = "scan" /\ UNCHANGED <<last, known, todo>>
    BY <1>11 DEF Accept, Admit
  <2>2. Hand = todo \cup {cur.tok} /\ Hand' = todo /\ cur.tok \notin todo
    BY <2>1 DEF Hand, HandOK
  <2>3. /\ entry'[of[cur.tok]].tok = cur.tok
        /\ \A j \in Ids \ {of[cur.tok]} : entry'[j] = entry[j]
    BY <1>11, AcceptStep
  <2>4. ASSUME NEW i \in Ids, entry'[i].tok \in todo
        PROVE  entry'[i] = entry[i]
    BY <2>2, <2>3, <2>4
  <2>. QED
    BY <2>1, <2>2, <2>4 DEF HandOK
<1>12. ASSUME Stale PROVE HandOK'
  <2>1. pc = "admit" /\ pc' = "stale" /\ UNCHANGED <<entry, last, todo, cur, known>>
    BY <1>12 DEF Stale, poolVars, opportunities, roundVars, entries
  <2>2. Hand' = Hand /\ cur.tok \in Hand
    BY <2>1 DEF Hand
  <2>3. \A i \in Ids : entry[i].tok # cur.tok
    BY <1>12, <2>2 DEF Stale, Current, Queued, HandOK
  <2>. QED
    BY <2>1, <2>2, <2>3 DEF HandOK
<1>13. ASSUME RoundOver \/ Rollback PROVE HandOK'
  BY <1>5, <1>13 DEF RoundOver, Rollback, EndRound
<1>. QED
  BY <1>1, <1>2, <1>3, <1>4, <1>5, <1>6, <1>7, <1>8, <1>9, <1>10, <1>11, <1>12, <1>13
  DEF Next, Controller, Around, Work, Monitor, Expiry, User

\* An admitted opportunity keeps its own reservation until it runs, and its
\* row says so then.
LEMMA VouchedKept ==
  ASSUME RoundsInv, [Next]_vars
  PROVE  Vouched'
<1>. USE DEF RoundsInv
<1>1. ASSUME Around PROVE Vouched'
  <2>1. UNCHANGED <<row, pc, cur>> /\ \A j \in Ids : Moved(j)
    BY <1>1, AroundStep DEF Elsewhere, roundVars, Onwards
  <2>2. ASSUME NEW i \in Ids, entry'[i].admitted PROVE Backed(i)'
    <3>1. /\ entry'[i].tok = entry[i].tok /\ entry[i].admitted
          /\ entry[i].at = "running" => entry'[i].at = "running"
      BY <2>1, <2>2 DEF Moved
    <3>. QED
      BY <2>1, <3>1 DEF Vouched, Backed
  <2>3. ASSUME NEW i \in Ids, pc = "admit", entry'[i].tok = cur.tok
        PROVE  entry[i].tok = cur.tok
    <3>1. cur.tok \in 1..last
      BY <2>3 DEF HandOK, Hand
    <3>. QED
      BY <2>1, <2>3, <3>1 DEF Moved
  <2>. QED
    BY <2>1, <2>2, <2>3 DEF Vouched
<1>2. ASSUME NEW i \in Ids, Observe(i) \/ Lapse(i) PROVE Vouched'
  <2>1. UNCHANGED <<entry, pc, cur>> /\ \A j \in Ids : Aged(j)
    BY <1>2, RowStep DEF poolVars, opportunities, roundVars
  <2>2. \A j \in Ids : entry'[j].admitted => Backed(j)'
    BY <2>1 DEF Aged
  <2>3. ASSUME NEW j \in Ids, pc = "admit", entry[j].tok = cur.tok
        PROVE  row'[j].pending /\ row'[j].tok = cur.tok
    <3>1. Queued(j)
      BY <2>3 DEF HandOK, Hand, Queued
    <3>. QED
      BY <2>1, <2>3, <3>1 DEF Aged, Vouched
  <2>. QED
    BY <2>1, <2>2, <2>3 DEF Vouched
<1>3. ASSUME UNCHANGED <<row, entry>>, pc' # "admit" PROVE Vouched'
  BY <1>3 DEF Vouched, Backed
<1>4. ASSUME Snapshot \/ Freeze \/ Prepare \/ RoundOver \/ PassOver \/ Stale PROVE Vouched'
  <2>1. UNCHANGED <<row, entry>> /\ pc' # "admit"
    BY <1>4 DEF Snapshot, Freeze, Prepare, RoundOver, PassOver, Stale, EndRound, poolVars,
                opportunities
  <2>. QED
    BY <1>3, <2>1
<1>5. ASSUME UNCHANGED vars PROVE Vouched'
  BY <1>5 DEF Vouched, Backed, vars, poolVars, opportunities, roundVars
<1>6. ASSUME Accept PROVE Vouched'
  <2>1. UNCHANGED row /\ pc' = "scan"
    BY <1>6 DEF Accept
  <2>2. ASSUME NEW i \in Ids, entry'[i].admitted PROVE Backed(i)'
    <3>1. CASE i = of[cur.tok]
      BY <1>6, <2>1, <3>1, AcceptStep DEF Backed
    <3>2. CASE i # of[cur.tok]
      <4>1. entry'[i] = entry[i]
        BY <1>6, <3>2, AcceptStep
      <4>. QED
        BY <2>1, <2>2, <4>1 DEF Vouched, Backed
    <3>. QED
      BY <3>1, <3>2
  <2>. QED
    BY <2>1, <2>2 DEF Vouched
<1>7. ASSUME Reconcile PROVE Vouched'
  <2>1. UNCHANGED entry /\ pc = "snapped" /\ pc' = "clean"
    BY <1>7 DEF Reconcile, poolVars, opportunities
  <2>2. ASSUME NEW i \in Ids, entry[i].admitted PROVE row'[i] = row[i]
    <3>1. row[i].pending => Live(row[i].tok)
      BY <2>1, <2>2 DEF Vouched, Backed, SnapLive
    <3>. QED
      BY <1>7, <3>1, ReconcileStep
  <2>. QED
    BY <2>1, <2>2 DEF Vouched, Backed
<1>8. ASSUME Rollback PROVE Vouched'
  <2>1. UNCHANGED entry /\ pc = "stale" /\ pc' = "idle"
    BY <1>8 DEF Rollback, EndRound, poolVars, opportunities
  <2>2. ASSUME NEW i \in Ids, entry[i].admitted PROVE row'[i] = row[i]
    <3>1. row[i].tok # cur.tok
      BY <2>1, <2>2 DEF Vouched, Backed, HandOK
    <3>. QED
      BY <1>8, <3>1, RollbackStep
  <2>. QED
    BY <2>1, <2>2 DEF Vouched, Backed
<1>9. ASSUME Reserve PROVE Vouched'
  <2>1. PICK t \in todo :
           /\ t \in 1..last /\ ~entry[of[t]].admitted
           /\ row'[of[t]].tok = t /\ row'[of[t]].pending
           /\ \A j \in Ids \ {of[t]} : row'[j] = row[j]
           /\ cur'.tok = t
    BY <1>9, ReserveStep
  <2>2. UNCHANGED entry
    BY <1>9 DEF Reserve, poolVars, opportunities
  <2>3. ASSUME NEW i \in Ids, entry[i].admitted PROVE Backed(i)'
    BY <2>1, <2>2, <2>3 DEF Vouched, Backed
  <2>4. ASSUME NEW i \in Ids, entry[i].tok = t PROVE row'[i].pending /\ row'[i].tok = t
    BY <2>1, <2>4, OneHolder
  <2>. QED
    BY <2>1, <2>2, <2>3, <2>4 DEF Vouched
<1>. QED
  BY <1>1, <1>2, <1>4, <1>5, <1>6, <1>7, <1>8, <1>9
  DEF Next, Controller, Around, Work, Monitor, Expiry, User

\* The snapshot has every reservation of a current opportunity, and after
\* reconcileTickets there are no others.
LEMMA SnapLiveKept ==
  ASSUME RoundsInv, [Next]_vars
  PROVE  SnapLive'
<1>. USE DEF RoundsInv
<1>1. ASSUME Around PROVE SnapLive'
  <2>1. UNCHANGED <<row, pc, snap>> /\ \A j \in Ids : Moved(j)
    BY <1>1, AroundStep DEF Elsewhere, roundVars, Onwards
  <2>2. ASSUME NEW i \in Ids, row[i].pending, entry'[i].tok = row[i].tok
        PROVE  entry[i].tok = row[i].tok
    BY <2>1, <2>2 DEF Moved, RowsOK
  <2>. QED
    BY <2>1, <2>2 DEF SnapLive, DeadReservesNothing, Live
<1>2. ASSUME NEW i \in Ids, Observe(i) \/ Lapse(i) PROVE SnapLive'
  <2>1. UNCHANGED <<entry, pc, snap>> /\ \A j \in Ids : Aged(j)
    BY <1>2, RowStep DEF poolVars, opportunities, roundVars
  <2>. QED
    BY <2>1 DEF SnapLive, DeadReservesNothing, Live, Aged
<1>3. ASSUME UNCHANGED vars PROVE SnapLive'
  BY <1>3 DEF SnapLive, DeadReservesNothing, Live, vars, poolVars, opportunities, roundVars
<1>4. ASSUME Freeze \/ Prepare \/ RoundOver \/ PassOver \/ Reserve \/ Accept \/ Stale \/ Rollback
      PROVE  SnapLive'
  <2>1. pc' \notin {"snapped", "clean"}
    BY <1>4 DEF Freeze, Prepare, RoundOver, PassOver, Reserve, Accept, Stale, Rollback, EndRound
  <2>. QED
    BY <2>1 DEF SnapLive, DeadReservesNothing
<1>5. ASSUME Snapshot PROVE SnapLive'
  <2>1. /\ pc' = "snapped" /\ UNCHANGED <<row, entry>>
        /\ snap'.busy = busy
        /\ snap'.cands = {entry[i].tok : i \in {j \in Ids : Queued(j)}}
    BY <1>5, SnapshotTyped DEF Snapshot, poolVars, opportunities
  <2>2. ASSUME NEW i \in Ids, row[i].pending, entry[i].tok = row[i].tok
        PROVE  row[i].tok \in snap'.cands \cup snap'.busy
    <3>1. entry[i].at # "out" /\ entry[i].at \in Places
      BY <2>2 DEF RowsOK, PlacesOK, PoolType, EntryType, TokensNamed
    <3>2. Queued(i) \/ entry[i].tok \in busy
      BY <3>1 DEF PlacesOK, ClaimsFly, Queued, Places
    <3>. QED
      BY <2>1, <2>2, <3>2
  <2>. QED
    BY <2>1, <2>2 DEF SnapLive, DeadReservesNothing, Live
<1>6. ASSUME Reconcile PROVE SnapLive'
  <2>1. pc' = "clean" /\ snap' = snap
    BY <1>6 DEF Reconcile, roundVars
  <2>2. ASSUME NEW i \in Ids, row'[i].pending PROVE Live(row'[i].tok)
    BY <1>6, <2>2, ReconcileStep, UnreservedRow DEF RowsTyped
  <2>. QED
    BY <2>1, <2>2 DEF SnapLive, DeadReservesNothing, Live
<1>. QED
  BY <1>1, <1>2, <1>3, <1>4, <1>5, <1>6
  DEF Next, Controller, Around, Work, Monitor, Expiry, User

\* The count of the snapshot and of the round bounds what is committed now.
LEMMA CountKept ==
  ASSUME RoundsInv, [Next]_vars
  PROVE  CountOK'
<1>. USE DEF RoundsInv
<1>1. /\ Committed \in Nat /\ Committed' \in Nat /\ snap.committed \in Nat
      /\ round.accepted \in Nat /\ SlotCap \in Nat
  <2>1. PoolType /\ PoolType'
    BY TypesKept DEF PlacesOK
  <2>2. Committed \in Nat /\ Committed' \in Nat
    BY <2>1, Counts, CountNext
  <2>. QED
    BY <2>2, CapacityAssumption, AdmissionAssumption DEF RoundTyped, SnapType, SlotCap
<1>2. ASSUME Committed' <= Committed, UNCHANGED <<smart, pc, snap, round>> PROVE CountOK'
  BY <1>1, <1>2 DEF CountOK, SlotCapHolds, SlotCap
<1>3. ASSUME Around PROVE CountOK'
  BY <1>2, <1>3, AroundStep DEF Onwards, Elsewhere, roundVars
<1>4. ASSUME (\E i \in Ids : Observe(i) \/ Lapse(i)) \/ Reconcile \/ Freeze \/ PassOver \/ Stale
             \/ UNCHANGED vars
      PROVE  CountOK'
  <2>1. UNCHANGED <<smart, opportunities, snap, round>> /\ (pc' = pc \/ (pc' # "admit" /\ pc # "idle"))
    BY <1>4 DEF Observe, Lapse, Reconcile, Freeze, PassOver, Stale, vars, poolVars, roundVars
  <2>2. Committed' = Committed
    BY <2>1, PoolStays
  <2>. QED
    BY <1>1, <2>1, <2>2 DEF CountOK, SlotCapHolds, SlotCap
<1>5. ASSUME Prepare \/ RoundOver \/ Rollback PROVE CountOK'
  <2>1. UNCHANGED <<smart, opportunities>>
    BY <1>5 DEF Prepare, RoundOver, Rollback, poolVars
  <2>2. Committed' = Committed
    BY <2>1, PoolStays
  <2>3. CASE pc' = "idle"
    BY <2>1, <2>2, <2>3 DEF CountOK, SlotCapHolds, SlotCap
  <2>4. CASE pc' # "idle"
    <3>1. Prepare /\ pc = "frozen" /\ pc' = "scan" /\ round' = round
          /\ snap' = [snap EXCEPT !.cands = {}, !.open = {}, !.busy = {}]
      BY <1>5, <2>4 DEF Prepare, RoundOver, Rollback, EndRound
    <3>2. snap'.committed = snap.committed
      BY <3>1 DEF RoundTyped, SnapType
    <3>. QED
      BY <2>1, <2>2, <3>1, <3>2 DEF CountOK, SlotCapHolds, SlotCap
  <2>. QED
    BY <2>3, <2>4
<1>6. ASSUME Snapshot PROVE CountOK'
  <2>1. UNCHANGED <<smart, opportunities, round>> /\ pc' = "snapped" /\ snap'.committed = Committed
    BY <1>6, SnapshotTyped DEF Snapshot, poolVars
  <2>2. Committed' = Committed
    BY <2>1, PoolStays
  <2>. QED
    BY <1>1, <2>1, <2>2 DEF CountOK, SlotCapHolds, SlotCap
<1>7. ASSUME Reserve PROVE CountOK'
  <2>1. /\ UNCHANGED <<smart, opportunities, snap, round>> /\ pc = "scan" /\ pc' = "admit"
        /\ Headroom > 0
    BY <1>7 DEF Reserve, poolVars
  <2>2. Committed' = Committed
    BY <2>1, PoolStays
  <2>. QED
    BY <1>1, <2>1, <2>2 DEF CountOK, SlotCapHolds, SlotCap, Headroom
<1>8. ASSUME Accept PROVE CountOK'
  <2>1. UNCHANGED <<smart, snap>> /\ pc = "admit" /\ pc' = "scan"
    BY <1>8 DEF Accept
  <2>2. round'.accepted = round.accepted + 1
    BY <1>8 DEF Accept, Accounted
  <2>3. Committed' = Committed + 1
    BY <1>8, AcceptStep
  <2>. QED
    BY <1>1, <2>1, <2>2, <2>3 DEF CountOK, SlotCapHolds, SlotCap
<1>. QED
  BY <1>3, <1>4, <1>5, <1>6, <1>7, <1>8
  DEF Next, Controller, Around, Work, Monitor, Expiry, User

\* The work of a snapshot does not change and its tokens stay minted.
LEMMA WorkKept ==
  ASSUME RoundsInv, [Next]_vars
  PROVE  WorkMinted'
<1>. USE DEF RoundsInv
<1>1. ASSUME Around PROVE WorkMinted'
  BY <1>1, AroundStep DEF Elsewhere, roundVars, Onwards, TokensKept, WorkMinted
<1>2. ASSUME UNCHANGED <<snap, last>> PROVE WorkMinted'
  BY <1>2 DEF WorkMinted
<1>3. ASSUME (\E i \in Ids : Observe(i) \/ Lapse(i)) \/ Reconcile \/ Freeze \/ PassOver
             \/ Reserve \/ Stale \/ UNCHANGED vars
      PROVE  UNCHANGED <<snap, last>>
  BY <1>3 DEF Observe, Lapse, Reconcile, Freeze, PassOver, Reserve, Stale, vars, poolVars,
              opportunities, roundVars
<1>4. ASSUME Accept PROVE UNCHANGED <<snap, last>>
  BY <1>4 DEF Accept, Admit
<1>5. ASSUME snap' = NoSnap PROVE WorkMinted'
  BY <1>5 DEF WorkMinted, NoSnap
<1>6. ASSUME RoundOver \/ Rollback PROVE WorkMinted'
  BY <1>5, <1>6 DEF RoundOver, Rollback, EndRound
<1>7. ASSUME Prepare PROVE WorkMinted'
  <2>1. CASE snap' = [snap EXCEPT !.cands = {}, !.open = {}, !.busy = {}]
    <3>1. snap'.work = snap.work
      BY <2>1 DEF RoundTyped, SnapType
    <3>. QED
      BY <1>7, <3>1 DEF Prepare, poolVars, opportunities, WorkMinted
  <2>. QED
    BY <1>5, <1>7, <2>1 DEF Prepare
<1>8. ASSUME Snapshot PROVE WorkMinted'
  <2>. PICK W : W = {entry[i].tok : i \in {j \in Ids : Waits(j)}}
    OBVIOUS
  <2>1. W \subseteq 1..last /\ busy \subseteq 1..last
    BY DEF PlacesOK, PoolType, TokensNamed, Waits
  <2>2. last' = last /\ (smart => snap'.work = busy \cup W)
    BY <1>8, SnapshotTyped DEF Snapshot, poolVars, opportunities
  <2>3. ~smart => snap'.work = {}
    BY <1>8 DEF Snapshot
  <2>. QED
    BY <2>1, <2>2, <2>3 DEF WorkMinted
<1>. QED
  BY <1>1, <1>2, <1>3, <1>4, <1>6, <1>7, <1>8
  DEF Next, Controller, Around, Work, Monitor, Expiry, User

\* A step after which nobody measures who did not before keeps the measurement
\* to one.
LEMMA NoneMeasures ==
  ASSUME RoundsInv, smart' = smart, \A i \in Ids : Measures(i)' => Measures(i)
  PROVE  OneMeasurement'
  BY DEF RoundsInv, MeasuredOK, OneMeasurement

\* At most one committed download measures, and who measures is known to the
\* round that is under way.
LEMMA MeasuredKept ==
  ASSUME RoundsInv, [Next]_vars
  PROVE  MeasuredOK'
<1>. USE DEF RoundsInv
<1>1. ASSUME Around PROVE MeasuredOK'
  <2>1. /\ UNCHANGED <<smart, row, pc, snap, occ, cur, round>> /\ PlacesOK' /\ TokensKept
        /\ \A j \in Ids : Moved(j)
    BY <1>1, AroundStep DEF Elsewhere, roundVars, Onwards
  <2>2. ASSUME NEW i \in Ids, Measures(i)' PROVE Measures(i) /\ entry'[i].tok = entry[i].tok
    <3>1. i \in Record /\ Occupied(i)' /\ entry'[i].admitted
      BY <2>1, <2>2, HoldingNext
    <3>2. entry'[i].tok = entry[i].tok /\ entry[i].admitted
      BY <2>1, <3>1 DEF Moved
    <3>3. Occupied(i)
      BY <2>1, <3>1 DEF Occupied
    <3>. QED
      BY <3>1, <3>2, <3>3, Holding
  <2>3. OneMeasurement'
    BY <2>1, <2>2, NoneMeasures
  <2>4. (of[cur.tok])' = of[cur.tok] \/ pc # "admit"
    BY <2>1 DEF TokensKept, HandOK, Hand
  <2>6. Measuring' = Measuring
    <3>1. \A t \in snap.work : of'[t] = of[t]
      BY <2>1 DEF TokensKept, WorkMinted
    <3>2. {t \in snap.work : of'[t] \in Record \cap occ} = {t \in snap.work : of[t] \in Record \cap occ}
      BY <3>1
    <3>. QED
      BY <2>1, <3>2 DEF Measuring
  <2>. QED
    BY <2>1, <2>2, <2>3, <2>4, <2>6 DEF MeasuredOK
<1>2. ASSUME NEW i \in Ids, Observe(i) \/ Lapse(i) PROVE MeasuredOK'
  <2>1. /\ UNCHANGED <<smart, entry, busy, of, pc, snap, occ, cur, round>> /\ PlacesOK'
        /\ \A j \in Ids : Aged(j)
    BY <1>2, RowStep, TypesKept DEF poolVars, opportunities, roundVars
  <2>2. ASSUME NEW j \in Ids, Measures(j)' PROVE Measures(j)
    <3>1. j \in Record /\ Occupied(j)' /\ entry[j].admitted
      BY <2>1, <2>2, HoldingNext
    <3>2. Occupied(j)
      BY <2>1, <3>1 DEF Occupied, Aged, Vouched, Backed
    <3>. QED
      BY <3>1, <3>2, Holding
  <2>3. OneMeasurement'
    BY <2>1, <2>2, NoneMeasures
  <2>. QED
    BY <2>1, <2>2, <2>3 DEF MeasuredOK, Measuring
<1>3. ASSUME UNCHANGED <<smart, row, entry, busy>> PROVE \A j \in Ids : Measures(j)' <=> Measures(j)
  BY <1>3 DEF Measures, Occupied, Waits
<1>4. ASSUME UNCHANGED vars PROVE MeasuredOK'
  BY <1>3, <1>4 DEF MeasuredOK, OneMeasurement, Measuring, vars, poolVars, opportunities, roundVars
<1>5. ASSUME Snapshot PROVE MeasuredOK'
  <2>1. /\ pc' = "snapped" /\ UNCHANGED <<smart, row, entry, busy>>
        /\ smart => snap'.work = busy \cup {entry[i].tok : i \in {j \in Ids : Waits(j)}}
    BY <1>5, SnapshotTyped DEF Snapshot, poolVars, opportunities
  <2>2. \A i \in Ids : Measures(i)' <=> Measures(i)
    BY <1>3, <2>1
  <2>3. \A i \in Ids : smart /\ Measures(i) => entry[i].tok \in snap'.work
    BY <2>1 DEF Measures
  <2>4. OneMeasurement'
    BY <2>1, <2>2, NoneMeasures
  <2>. QED
    BY <2>1, <2>2, <2>3, <2>4 DEF MeasuredOK
<1>6. ASSUME Reconcile PROVE MeasuredOK'
  <2>1. pc = "snapped" /\ pc' = "clean" /\ UNCHANGED <<smart, entry, busy, snap>>
    BY <1>6 DEF Reconcile, poolVars, opportunities, roundVars
  <2>2. ASSUME NEW i \in Ids, Measures(i)' PROVE Measures(i)
    <3>1. row'[i].claim = "live"
      BY <2>2 DEF Measures, Occupied
    <3>2. row'[i] = row[i]
      BY <1>6, <3>1, ReconcileStep, UnreservedRow DEF RowsTyped
    <3>. QED
      BY <2>1, <2>2, <3>2 DEF Measures, Occupied, Waits
  <2>3. OneMeasurement'
    BY <2>1, <2>2, NoneMeasures
  <2>. QED
    BY <2>1, <2>2, <2>3 DEF MeasuredOK
<1>7. ASSUME Freeze PROVE MeasuredOK'
  <2>1. /\ pc = "clean" /\ pc' = "frozen" /\ UNCHANGED <<smart, row, entry, busy, snap>>
        /\ occ' = {i \in Ids : smart /\ Occupied(i)}
    BY <1>7 DEF Freeze, poolVars, opportunities
  <2>2. \A i \in Ids : Measures(i)' <=> Measures(i)
    BY <1>3, <2>1
  <2>3. \A i \in Ids : smart /\ Measures(i) => i \in occ'
    BY <2>1 DEF Measures
  <2>4. OneMeasurement'
    BY <2>1, <2>2, NoneMeasures
  <2>. QED
    BY <2>1, <2>2, <2>3, <2>4 DEF MeasuredOK
<1>8. ASSUME Prepare PROVE MeasuredOK'
  <2>1. UNCHANGED <<smart, row, entry, busy, round>>
    BY <1>8 DEF Prepare, poolVars, opportunities
  <2>2. \A i \in Ids : Measures(i)' <=> Measures(i)
    BY <1>3, <2>1
  <2>3. OneMeasurement'
    BY <2>1, <2>2, NoneMeasures
  <2>4. CASE pc' = "idle"
    BY <2>3, <2>4 DEF MeasuredOK
  <2>5. CASE pc' # "idle"
    <3>1. /\ pc = "frozen" /\ pc' = "scan" /\ occ' = occ
          /\ snap' = [snap EXCEPT !.cands = {}, !.open = {}, !.busy = {}]
      BY <1>8, <2>5 DEF Prepare
    <3>2. snap'.work = snap.work
      BY <3>1 DEF RoundTyped, SnapType
    <3>. QED
      BY <2>1, <2>2, <2>3, <3>1, <3>2 DEF MeasuredOK
  <2>. QED
    BY <2>4, <2>5
<1>9. ASSUME RoundOver PROVE MeasuredOK'
  <2>1. UNCHANGED <<smart, row, entry, busy>> /\ pc' = "idle"
    BY <1>9 DEF RoundOver, EndRound, poolVars, opportunities
  <2>. QED
    BY <1>3, <2>1, NoneMeasures DEF MeasuredOK
<1>10. ASSUME PassOver \/ Stale PROVE MeasuredOK'
  <2>1. /\ UNCHANGED <<smart, row, entry, busy, snap, occ, round>>
        /\ pc \in {"scan", "admit"} /\ pc' \in {"scan", "stale"}
    BY <1>10 DEF PassOver, Stale, poolVars, opportunities, roundVars
  <2>2. \A i \in Ids : Measures(i)' <=> Measures(i)
    BY <1>3, <2>1
  <2>3. OneMeasurement'
    BY <2>1, <2>2, NoneMeasures
  <2>. QED
    BY <2>1, <2>2, <2>3 DEF MeasuredOK
<1>11. ASSUME Reserve PROVE MeasuredOK'
  <2>1. PICK t \in todo :
           /\ of[t] \in Ids /\ Allowed(t) /\ ~entry[of[t]].admitted
           /\ \A j \in Ids \ {of[t]} : row'[j] = row[j]
           /\ cur'.tok = t
    BY <1>11, ReserveStep
  <2>2. /\ UNCHANGED <<smart, entry, busy, of, snap, occ, round>> /\ PlacesOK'
        /\ pc = "scan" /\ pc' = "admit"
    BY <1>11, TypesKept DEF Reserve, poolVars, opportunities
  <2>3. ASSUME NEW i \in Ids, Measures(i)' PROVE Measures(i)
    <3>1. entry[i].admitted
      BY <2>2, <2>3, HoldingNext
    <3>2. row'[i] = row[i]
      BY <2>1, <3>1
    <3>. QED
      BY <2>2, <2>3, <3>2 DEF Measures, Occupied, Waits
  <2>4. OneMeasurement'
    BY <2>2, <2>3, NoneMeasures
  <2>5. smart /\ of[t] \in Record => Measuring = 0
    BY <2>1 DEF Allowed
  <2>6. Measuring' = Measuring
    BY <2>2 DEF Measuring
  <2>. QED
    BY <2>1, <2>2, <2>3, <2>4, <2>5, <2>6 DEF MeasuredOK
<1>12. ASSUME Rollback PROVE MeasuredOK'
  <2>1. UNCHANGED <<smart, entry, busy>> /\ pc' = "idle"
    BY <1>12 DEF Rollback, EndRound, poolVars, opportunities
  <2>2. ASSUME NEW i \in Ids, Measures(i)' PROVE Measures(i)
    <3>1. row'[i].claim = "live"
      BY <2>2 DEF Measures, Occupied
    <3>2. row'[i] = row[i]
      BY <1>12, <3>1, RollbackStep, UnreservedRow DEF RowsTyped
    <3>. QED
      BY <2>1, <2>2, <3>2 DEF Measures, Occupied, Waits
  <2>. QED
    BY <2>1, <2>2, NoneMeasures DEF MeasuredOK
<1>13. ASSUME Accept PROVE MeasuredOK'
  <2>. PICK me : me = of[cur.tok]
    OBVIOUS
  <2>1. /\ pc = "admit" /\ pc' = "scan" /\ UNCHANGED <<smart, row, busy, of, snap, occ>>
        /\ round' = Accounted(cur.tok)
    BY <1>13 DEF Accept, Admit
  <2>2. me \in Ids /\ \A j \in Ids \ {me} : entry'[j] = entry[j]
    BY <1>13, AcceptStep
  <2>3. \A j \in Ids \ {me} : Measures(j)' <=> Measures(j)
    BY <2>1, <2>2 DEF Measures, Occupied, Waits
  <2>4. CASE ~smart \/ me \notin Record
    <3>1. ~smart \/ ~Measures(me)'
      BY <2>4 DEF Measures
    <3>2. OneMeasurement'
      BY <2>1, <2>2, <2>3, <3>1 DEF OneMeasurement, MeasuredOK
    <3>3. round'.measuring = round.measuring
      BY <2>1, <2>4 DEF Accounted, RoundTyped
    <3>. QED
      BY <2>1, <2>2, <2>3, <3>1, <3>2, <3>3 DEF MeasuredOK
  <2>5. CASE smart /\ me \in Record
    <3>1. Measuring = 0
      BY <2>1, <2>5 DEF MeasuredOK
    <3>. PICK S : S = {t \in snap.work : of[t] \in Record \cap occ}
      OBVIOUS
    <3>2. IsFiniteSet(S)
      <4>1. S \in SUBSET (1..MaxToken) /\ MaxToken \in Nat
        BY CapacityAssumption DEF RoundTyped, SnapType, Tokens
      <4>. QED
        BY <4>1, FiniteTokens
    <3>3. Cardinality(S) = 0 /\ round.measuring = 0
      <4>1. Cardinality(S) \in Nat /\ round.measuring \in Nat
        BY <3>2, FS_CardinalityType DEF RoundTyped
      <4>. QED
        BY <3>1, <4>1 DEF Measuring
    <3>4. S = {}
      BY <3>2, <3>3, FS_EmptySet
    <3>5. ASSUME NEW j \in Ids, Measures(j) PROVE FALSE
      <4>1. entry[j].tok \in snap.work /\ j \in occ
        BY <2>1, <2>5, <3>3, <3>5 DEF MeasuredOK
      <4>2. entry[j].tok \in 1..last
        BY <3>5, Holding DEF PlacesOK, TokensNamed
      <4>3. of[entry[j].tok] = j
        BY <4>2, OneHolder
      <4>. QED
        BY <3>4, <3>5, <4>1, <4>3 DEF Measures
    <3>6. OneMeasurement'
      BY <2>2, <2>3, <3>5 DEF OneMeasurement
    <3>7. round'.measuring = 1
      BY <2>1, <2>5, <3>3 DEF Accounted
    <3>. QED
      BY <2>1, <3>6, <3>7 DEF MeasuredOK
  <2>. QED
    BY <2>4, <2>5
<1>. QED
  BY <1>1, <1>2, <1>4, <1>5, <1>6, <1>7, <1>8, <1>9, <1>10, <1>11, <1>12, <1>13
  DEF Next, Controller, Around, Work, Monitor, Expiry, User

-----------------------------------------------------------------------------
(* The theorems.                                                           *)

\* RoundsInv holds of every reachable state: it is true at the start and no
\* step of the controller, the pool, the monitor, the leases or the users
\* breaks it.
THEOREM RoundsInductive == Spec => []RoundsInv
<1>1. Init => RoundsInv
  <2>. SUFFICES ASSUME Init PROVE RoundsInv
    OBVIOUS
  <2>1. PlacesOK /\ Committed = 0
    BY EmptyPoolOK DEF Init
  <2>2. NoRow \in RowType /\ NoRow.tok = 0 /\ ~NoRow.pending /\ NoRow.claim = "none"
    BY CapacityAssumption DEF NoRow, RowType
  <2>3. NoSnap \in SnapType /\ NoSnap.work = {}
    BY DEF NoSnap, SnapType
  <2>4. NewRound \in [accepted: Nat, measuring: Nat] /\ Nobody.tok = 0
    BY DEF NewRound, Nobody
  <2>5. \A i \in Ids : row[i] = NoRow /\ ~entry[i].admitted
    BY DEF Init, EmptyPool, Gone
  <2>6. RowsTyped
    BY <2>2 DEF Init, RowsTyped
  <2>7. RoundTyped /\ WorkMinted
    BY <2>3, <2>4, AdmissionAssumption, CapacityAssumption DEF Init, RoundTyped, Phases, WorkMinted
  <2>8. RowsOK /\ TicketsOK
    BY <2>2, <2>5 DEF Init, EmptyPool, RowsOK, TicketsOK
  <2>9. HandOK /\ Vouched /\ SnapLive
    BY <2>5 DEF Init, HandOK, Hand, Vouched, SnapLive, DeadReservesNothing
  <2>10. SlotCap \in Nat
    BY AdmissionAssumption, CapacityAssumption DEF SlotCap
  <2>11. CountOK
    BY <2>1, <2>10 DEF Init, CountOK, SlotCapHolds
  <2>12. \A i \in Ids : ~Measures(i)
    BY <2>2, <2>5 DEF Measures, Occupied
  <2>13. MeasuredOK
    BY <2>12 DEF Init, MeasuredOK, OneMeasurement
  <2>. QED
    BY <2>1, <2>6, <2>7, <2>8, <2>9, <2>11, <2>13 DEF RoundsInv
<1>2. RoundsInv /\ [Next]_vars => RoundsInv'
  BY TypesKept, WorkKept, RowsKept, HandKept, VouchedKept, SnapLiveKept, CountKept, MeasuredKept
  DEF RoundsInv
<1>. QED
  BY <1>1, <1>2, PTL DEF Spec

\* The pool never commits more slots than the mode allows, though every round
\* admits against a count that is as old as its snapshot.
THEOREM SlotCapKept == Spec => []SlotCapHolds
<1>1. RoundsInv => SlotCapHolds
  BY DEF RoundsInv, CountOK
<1>. QED
  BY <1>1, RoundsInductive, PTL

\* Two committed downloads never measure one domain at the same time.
THEOREM MeasurementAlone == Spec => []OneMeasurement
<1>1. RoundsInv => OneMeasurement
  BY DEF RoundsInv, MeasuredOK
<1>. QED
  BY <1>1, RoundsInductive, PTL

\* When a round freezes the occupancy, no orphaned reservation counts.
THEOREM OrphansReleased == Spec => []DeadReservesNothing
<1>1. RoundsInv => DeadReservesNothing
  BY DEF RoundsInv, SnapLive
<1>. QED
  BY <1>1, RoundsInductive, PTL

\* No release of the controller, however late, hits the reservation of an
\* opportunity that is still to run.
THEOREM LiveTicketNeverReleased == Spec => LiveTicketKept
<1>1. ASSUME RoundsInv, Next, NEW i \in Ids, Controller, row[i].pending,
             entry[i].tok = row[i].tok
      PROVE  row'[i].pending
  <2>1. ASSUME row' = row PROVE row'[i].pending
    BY <1>1, <2>1
  <2>2. CASE Reserve
    BY <1>1, <2>2, ReserveStep
  <2>3. CASE Reconcile
    <3>1. Live(row[i].tok)
      BY <1>1, <2>3 DEF Reconcile, RoundsInv, SnapLive
    <3>. QED
      BY <1>1, <2>3, <3>1, ReconcileStep
  <2>4. CASE Rollback
    <3>1. row[i].tok # cur.tok
      BY <1>1, <2>4 DEF Rollback, RoundsInv, HandOK
    <3>. QED
      BY <1>1, <2>4, <3>1, RollbackStep
  <2>. QED
    BY <1>1, <2>1, <2>2, <2>3, <2>4
    DEF Controller, Snapshot, Freeze, Prepare, RoundOver, PassOver, Accept, Stale
<1>2. RoundsInv /\ [Next]_vars
        => [\A i \in Ids :
              Controller /\ row[i].pending /\ entry[i].tok = row[i].tok
                => row'[i].pending]_vars
  BY <1>1
<1>. QED
  BY <1>2, RoundsInductive, PTL DEF Spec, LiveTicketKept
=============================================================================
