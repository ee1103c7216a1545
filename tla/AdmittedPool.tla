---------------------------- MODULE AdmittedPool ----------------------------
(***************************************************************************)
(* What a managed pool promises of its opportunities, to the one who       *)
(* admits them: an ID holds one place at a time; each opportunity has a    *)
(* token of its own, is admitted within the capacity, claimed once, run,   *)
(* and its claim is settled after it has left its place.  Scheduler        *)
(* implements this (SchedulerAdmits); AdmissionController lives on it.     *)
(***************************************************************************)
EXTENDS Integers, FiniteSets

CONSTANTS Ids,
          Capacity, \* p.maxDownloads
          MaxToken  \* the last opportunity

ASSUME CapacityAssumption == Capacity \in Nat \ {0} /\ MaxToken \in Nat /\ IsFiniteSet(Ids)

Tokens == 1..MaxToken

VARIABLES
  entry, \* per ID: its place in the pool, and the current token
  busy,  \* tokens of unsettled claims
  last,  \* the last token minted
  of     \* the ID each token was minted for

opportunities == <<entry, busy, last, of>>

\* "flying" is a queued entry with inFlight set: claimed, or waiting for its
\* retryAt
Places == {"out", "queued", "flying", "running"}
Gone == [at |-> "out", tok |-> 0, admitted |-> FALSE]

EmptyPool ==
  entry = [i \in Ids |-> Gone] /\ busy = {} /\ last = 0 /\ of = [t \in {} |-> t]

Queued(i) == entry[i].at \in {"queued", "flying"}
Waits(i) == entry[i].at = "queued" /\ entry[i].admitted
Committed == Cardinality(busy) + Cardinality({i \in Ids : Waits(i)})

\* a new opportunity of i
Mint(i, at) ==
  /\ last < MaxToken
  /\ last' = last + 1
  /\ of' = [t \in 1..(last + 1) |-> IF t > last THEN i ELSE of[t]]
  /\ entry' = [entry EXCEPT ![i] = [at |-> at, tok |-> last + 1, admitted |-> FALSE]]
  /\ UNCHANGED busy

Enter(i) == entry[i].at = "out" /\ Mint(i, "queued")

Admit(i) ==
  /\ entry[i].at = "queued" /\ ~entry[i].admitted
  /\ Committed < Capacity
  /\ entry' = [entry EXCEPT ![i].admitted = TRUE]
  /\ UNCHANGED <<busy, last, of>>

Claim(i) ==
  /\ Waits(i)
  /\ entry' = [entry EXCEPT ![i].at = "flying"]
  /\ busy' = busy \cup {entry[i].tok}
  /\ UNCHANGED <<last, of>>

Register(i) ==
  /\ entry[i].at = "flying" /\ entry[i].tok \in busy
  /\ entry' = [entry EXCEPT ![i].at = "running"]
  /\ UNCHANGED <<busy, last, of>>

\* the run is queued again, under a token of its own
Retry(i) == entry[i].at = "running" /\ Mint(i, "flying")

\* the run is over, or someone takes the ID out
Depart(S) ==
  /\ \A i \in S : entry[i].at # "out"
  /\ entry' = [i \in Ids |-> IF i \in S THEN Gone ELSE entry[i]]
  /\ UNCHANGED <<busy, last, of>>

\* claims that can be settled: the opportunity has left its place
Settleable == {t \in busy : \A i \in Ids : entry[i].tok # t}

\* a retry can be claimed once it is due, and its last run may settle with it
Ripen(i, settled) ==
  /\ entry[i].at = "flying" /\ entry[i].tok \notin busy
  /\ settled \subseteq Settleable
  /\ entry' = [entry EXCEPT ![i].at = "queued"]
  /\ busy' = busy \ settled
  /\ UNCHANGED <<last, of>>

Settle(t) ==
  /\ t \in Settleable
  /\ busy' = busy \ {t}
  /\ UNCHANGED <<entry, last, of>>

Step ==
  \/ \E i \in Ids : \/ Enter(i) \/ Admit(i) \/ Claim(i) \/ Register(i) \/ Retry(i)
                    \/ \E t \in busy : Ripen(i, {t})
                    \/ Ripen(i, {})
  \/ \E S \in SUBSET Ids : S # {} /\ Depart(S)
  \/ \E t \in Tokens : Settle(t)

PoolSpec == EmptyPool /\ [][Step]_opportunities
=============================================================================
