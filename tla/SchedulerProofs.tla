--------------------------- MODULE SchedulerProofs ---------------------------
(***************************************************************************)
(* Safety of the download pool for any number of IDs, workers, callers,    *)
(* retries and tokens.  IInv says which worker answers for each queued     *)
(* entry and each busy slot; one lemma per conjunct shows that every       *)
(* action preserves it.  In each lemma the actions that write one of the   *)
(* conjunct's variables have a step of their own, and the others share     *)
(* one.  Four more results rest on it.                                     *)
(*                                                                         *)
(* GracefulShutdown: the wait group counts every entry once, the queued    *)
(* ones that nobody has in flight and the claims of the workers; so        *)
(* wg.Wait neither panics nor blocks on a count nobody gives back, and     *)
(* when it has returned nothing is queued, run or unsettled.               *)
(*                                                                         *)
(* Cancel: once it has returned, no claim of an HLS download it could have *)
(* known of publishes an event; and while nobody resumes, the run of an ID *)
(* is live only as long as it is its active entry, so that there is never  *)
(* a second one.                                                           *)
(*                                                                         *)
(* The refinement: the pool implements AdmittedPool.  Beside IInv only     *)
(* Vouched is needed: what a worker has claimed was admitted.              *)
(***************************************************************************)
EXTENDS SchedulerAdmits, FiniteSetTheorems, TLAPS

-----------------------------------------------------------------------------
(* Who answers for an entry. *)

\* What Add and a retry do to the queue and to the token table
LEMMA MintEffect ==
  ASSUME PoolType, NEW id \in Ids, NEW root \in Tokens, NEW tries \in 0..MaxRetries,
         Mint(id, root, tries)
  PROVE  /\ last + 1 \in Tokens /\ last' = last + 1 /\ last' \in 0..MaxToken
         /\ info' \in [1..last' -> Info]
         /\ \A t \in 1..last : info'[t] = info[t]
         /\ info'[last + 1].id = id
         /\ queued' \in [Ids -> Entry]
         /\ queued'[id].tok = last + 1
         /\ tries = 0 => ~queued'[id].inFlight
         /\ tries > 0 => queued'[id].inFlight
         /\ \A x \in Ids \ {id} : queued'[x] = queued[x]
<1>. USE PoolAssumption DEF PoolType, Mint, Tokens, Info, Entry, Task, None
<1>1. last + 1 \in Tokens /\ last' = last + 1 /\ last' \in 0..MaxToken
  OBVIOUS
<1>2. info' \in [1..last' -> Info]
  BY <1>1
<1>3. \A t \in 1..last : info'[t] = info[t]
  OBVIOUS
<1>4. info'[last + 1].id = id
  OBVIOUS
<1>5. queued'[id] = Task(last + 1, tries > 0, tries = 0, FALSE)
  OBVIOUS
<1>6. queued'[id].tok = last + 1 /\ queued'[id].inFlight = (tries > 0)
  BY <1>5
<1>7. tries = 0 => ~(tries > 0)
  OBVIOUS
<1>8. /\ tries = 0 => ~queued'[id].inFlight
      /\ tries > 0 => queued'[id].inFlight
  BY ONLY <1>6, <1>7, Zenon
<1>. QED
  BY <1>1, <1>2, <1>3, <1>4, <1>6, <1>8

\* The end of a claim
LEMMA ReleaseType ==
  ASSUME PoolType, NEW w
  PROVE  /\ Release(w) => busy' \subseteq Tokens /\ wg' \in Int
         /\ EndRequeue(w) => busy' \subseteq Tokens /\ UNCHANGED <<downloads, last, info>>
<1>1. busy \ {wtok[w]} \subseteq Tokens /\ wg - 1 \in Int
  BY DEF PoolType
<1>. QED
  BY <1>1 DEF Release, EndRequeue

\* A token that was minted names an ID and a root.
LEMMA Minted ==
  ASSUME PoolType, NEW t \in 1..last
  PROVE  /\ t \in Tokens /\ t # None
         /\ IdOf(t) \in Ids /\ RootOf(t) \in Tokens
         /\ info[t].tries \in 0..MaxRetries
  BY PoolAssumption DEF PoolType, Info, IdOf, RootOf, Tokens, None

\* A worker with a claim holds a minted token; after the claim, a registered one.
LEMMA WorkerHolds ==
  ASSUME IInv, NEW w \in Workers, wpc[w] # "idle"
  PROVE  wtok[w] \in 1..last
  BY PoolAssumption DEF IInv, TypeOK, PoolType, WorkerType, WorkersOK, Tokens, None

\* A caller that has found an active entry holds a minted token.
LEMMA CallerHolds ==
  ASSUME IInv, NEW c \in Callers, cpc[c] \in {"pcheck", "pmark", "pset", "readd"}
  PROVE  ctok[c] \in 1..last
  BY DEF IInv, CallersOK, EntriesOK

\* The token of an active entry was minted and registered.
LEMMA ActiveMinted ==
  ASSUME IInv, NEW id \in Ids, downloads[id] # None
  PROVE  downloads[id] \in 1..last /\ downloads[id] \in registered
  BY DEF IInv, EntriesOK

\* What the three actions that mint a token share
LEMMA Mints ==
  ASSUME IInv, NEW id, NEW root, NEW tries,
         Mint(id, root, tries),
         id \in Ids, root \in Tokens, tries \in 0..MaxRetries,
         registered' = registered,
         \A x \in Ids : downloads'[x] \in {downloads[x], None}
  PROVE  EntriesOK'
<1>. USE PoolAssumption
<1>1. PoolType /\ AdType /\ EntriesOK
  BY DEF IInv, TypeOK
<1>2. /\ last' = last + 1 /\ last + 1 \in Tokens
      /\ \A t \in 1..last : info'[t] = info[t]
      /\ info'[last + 1].id = id
      /\ queued'[id].tok = last + 1
      /\ \A x \in Ids \ {id} : queued'[x] = queued[x]
  BY <1>1, MintEffect
<1>3. registered' \subseteq 1..last'
  BY <1>1, <1>2 DEF EntriesOK, PoolType
<1>4. ASSUME NEW x \in Ids
      PROVE  /\ IsQueued(x)' => /\ queued'[x].tok <= last'
                                /\ IdOf(queued[x].tok)' = x
                                /\ queued'[x].tok \notin registered'
             /\ ~IsQueued(x)' => queued'[x] = NotQueued
  <2>1. CASE x = id
    BY <1>1, <1>2, <2>1 DEF EntriesOK, IsQueued, IdOf, Task, PoolType, Tokens, None
  <2>2. CASE x # id
    <3>1. queued'[x] = queued[x] /\ queued[x] \in Entry
      BY <1>1, <1>2, <2>2 DEF PoolType
    <3>2. IsQueued(x) => queued[x].tok \in 1..last
      BY <1>1, <3>1 DEF EntriesOK, IsQueued, Entry, Tokens, None, PoolType
    <3>. QED
      BY <1>1, <1>2, <3>1, <3>2 DEF EntriesOK, IsQueued, IdOf, PoolType
  <2>. QED
    BY <2>1, <2>2
<1>5. ASSUME NEW x \in Ids, downloads'[x] # None
      PROVE  downloads'[x] \in registered' /\ IdOf(downloads[x])' = x
  <2>1. downloads'[x] = downloads[x] /\ downloads[x] \in registered
    BY <1>1, <1>5 DEF EntriesOK
  <2>2. downloads[x] \in 1..last
    BY <1>1, <2>1 DEF EntriesOK
  <2>. QED
    BY <1>1, <1>2, <1>5, <2>1, <2>2 DEF EntriesOK, IdOf
<1>. QED
  BY <1>3, <1>4, <1>5 DEF EntriesOK

\* A claim takes the token of an eligible entry.
LEMMA Claims ==
  ASSUME IInv, NEW w \in Workers, Claim(w)
  PROVE  \E id \in Ids :
           /\ IsQueued(id) /\ ~queued[id].inFlight
           /\ queued[id].tok \in 1..last
           /\ queued[id].tok \notin registered
           /\ queued[id].admitted \in BOOLEAN
           /\ queued' = [queued EXCEPT ![id] = Task(queued[id].tok, TRUE, TRUE,
                                                   queued[id].admitted)]
           /\ busy' = busy \cup {queued[id].tok}
           /\ wtok' = [wtok EXCEPT ![w] = queued[id].tok]
<1>1. PICK id \in Ids :
        /\ Eligible(id)
        /\ queued' = [queued EXCEPT ![id] = Task(@.tok, TRUE, TRUE, @.admitted)]
        /\ busy' = busy \cup {queued[id].tok}
        /\ wtok' = [wtok EXCEPT ![w] = queued[id].tok]
  BY DEF Claim
<1>2. /\ IsQueued(id) /\ ~queued[id].inFlight
      /\ queued[id].tok \in 1..last /\ queued[id].tok \notin registered
      /\ queued[id].admitted \in BOOLEAN
  BY <1>1 DEF Eligible, IInv, TypeOK, PoolType, EntriesOK, IsQueued, Entry, Tokens, None
<1>3. queued' = [queued EXCEPT ![id] = Task(queued[id].tok, TRUE, TRUE, queued[id].admitted)]
  BY <1>1
<1>. QED
  BY <1>1, <1>2, <1>3

\* A retry is minted for the ID of the run, which has no other owner.
LEMMA Requeues ==
  ASSUME IInv, NEW w \in Workers, Requeue(w)
  PROVE  /\ wtok[w] \in 1..last /\ IdOf(wtok[w]) \in Ids
         /\ RootOf(wtok[w]) \in Tokens
         /\ info[wtok[w]].tries + 1 \in 0..MaxRetries
         /\ Mint(IdOf(wtok[w]), RootOf(wtok[w]), info[wtok[w]].tries + 1)
         /\ ~IsQueued(IdOf(wtok[w]))
         /\ downloads[IdOf(wtok[w])] \in {None, wtok[w]}
         /\ downloads' \in [Ids -> Tokens \cup {None}]
         /\ \A x \in Ids : downloads'[x] \in {downloads[x], None}
         /\ downloads'[IdOf(wtok[w])] = None
<1>. USE PoolAssumption
<1>1. PoolType
  BY DEF IInv, TypeOK
<1>2. wtok[w] \in 1..last
  BY WorkerHolds DEF Requeue
<1>3. /\ IdOf(wtok[w]) \in Ids /\ RootOf(wtok[w]) \in Tokens
      /\ info[wtok[w]].tries \in 0..MaxRetries
  BY <1>1, <1>2, Minted
<1>4. info[wtok[w]].tries + 1 \in 0..MaxRetries
  BY <1>3 DEF Requeue, Retryable
<1>5. ~Taken(w)
  BY DEF Requeue, Retryable
<1>. QED
  BY <1>1, <1>2, <1>3, <1>4, <1>5 DEF Requeue, Taken, DropSlot, OwnsSlot, PoolType

\* So is a resume, for the ID of the entry it took out.
LEMMA ReAdds ==
  ASSUME IInv, NEW c \in Callers, ReAdd(c)
  PROVE  /\ IdOf(ctok[c]) \in Ids /\ RootOf(ctok[c]) \in Tokens
         /\ Mint(IdOf(ctok[c]), RootOf(ctok[c]), 0)
         /\ downloads[IdOf(ctok[c])] = None /\ UNCHANGED downloads
         /\ 0 \in 0..MaxRetries
<1>. USE PoolAssumption
<1>1. PoolType
  BY DEF IInv, TypeOK
<1>2. ctok[c] \in 1..last
  BY CallerHolds DEF ReAdd
<1>. QED
  BY <1>1, <1>2, Minted DEF ReAdd, AddEntry, Addable

\* A fresh entry is nobody's yet.
LEMMA FreshInFlight ==
  ASSUME IInv, NEW id \in Ids, NEW root \in Tokens, Mint(id, root, 0),
         0 \in 0..MaxRetries, UNCHANGED <<wpc, wtok, wnew>>
  PROVE  InFlightOK'
<1>. PoolType /\ WorkerType /\ WorkersOK /\ InFlightOK
  BY DEF IInv, TypeOK
<1>1. /\ queued'[id].tok = last + 1 /\ ~queued'[id].inFlight
      /\ \A x \in Ids \ {id} : queued'[x] = queued[x]
  BY MintEffect
<1>2. ASSUME NEW v \in Workers PROVE wtok[v] # last + 1 /\ wnew[v] # last + 1
  BY DEF WorkersOK, WorkerType, PoolType, Tokens, None
<1>. QED
  BY <1>1, <1>2 DEF InFlightOK, IsQueued, WorkerType

\* A worker that gives its token back leaves the other claims alone.
LEMMA Released ==
  ASSUME ClaimsSettledOnce, WorkerType, NEW w \in Workers,
         busy' = busy \ {wtok[w]}, wtok' = [wtok EXCEPT ![w] = None]
  PROVE  ClaimsSettledOnce'
<1>1. wtok'[w] = None /\ \A v \in Workers \ {w} : wtok'[v] = wtok[v]
  BY DEF WorkerType
<1>2. {wtok'[v] : v \in Workers} \ {None} = ({wtok[v] : v \in Workers} \ {None}) \ {wtok[w]}
  BY <1>1 DEF ClaimsSettledOnce
<1>. QED
  BY <1>1, <1>2 DEF ClaimsSettledOnce

\* The queue, the active map, the busy slots and the tokens keep their shape.
LEMMA PoolTypeStep ==
  ASSUME IInv, [Next]_vars
  PROVE  PoolType'
<1>. USE PoolAssumption DEF PoolType, Entry, Task, NotQueued, Tokens, None, pool
<1>. PoolType
  BY DEF IInv, TypeOK
<1>1. ASSUME NEW id \in Ids, AddNew(id) PROVE PoolType'
  <2>1. Mint(id, last + 1, 0) /\ wg' = wg + 1 /\ UNCHANGED <<downloads, busy>>
    BY <1>1 DEF AddNew, AddEntry
  <2>2. last + 1 \in Tokens /\ 0 \in 0..MaxRetries
    BY <2>1 DEF Mint
  <2>3. queued' \in [Ids -> Entry] /\ last' \in 0..MaxToken /\ info' \in [1..last' -> Info]
    BY <2>1, <2>2, MintEffect
  <2>. QED
    BY <2>1, <2>3
<1>2. ASSUME NEW id \in Ids, Admit(id) PROVE PoolType'
  BY <1>2 DEF Admit
<1>3. ASSUME NEW id \in Ids, Ripen(id) PROVE PoolType'
  BY <1>3 DEF Ripen
<1>4. ASSUME NEW w \in Workers, Claim(w) PROVE PoolType'
  <2>1. PICK id \in Ids :
          /\ Eligible(id)
          /\ queued' = [queued EXCEPT ![id] = Task(@.tok, TRUE, TRUE, @.admitted)]
          /\ busy' = busy \cup {queued[id].tok}
    BY <1>4 DEF Claim
  <2>2. queued[id].tok \in Tokens /\ queued[id].admitted \in BOOLEAN
    BY <2>1 DEF Eligible, IsQueued
  <2>3. busy' \subseteq Tokens /\ queued' \in [Ids -> Entry]
    BY <2>1, <2>2
  <2>. QED
    BY <1>4, <2>3 DEF Claim
<1>5. ASSUME NEW w \in Workers, Void(w) PROVE PoolType'
  BY <1>5, ReleaseType DEF Void
<1>6. ASSUME NEW w \in Workers, Register(w) PROVE PoolType'
  BY <1>6, WorkerHolds, Minted DEF Register
<1>7. ASSUME NEW w \in Workers, Success(w) PROVE PoolType'
  BY <1>7 DEF Success, DropSlot
<1>8. ASSUME NEW w \in Workers, Requeue(w) PROVE PoolType'
  <2>1. wtok[w] \in 1..last
    BY <1>8, WorkerHolds DEF Requeue
  <2>2. info[wtok[w]].tries + 1 \in 0..MaxRetries
    BY <1>8, <2>1, Minted DEF Requeue, Retryable
  <2>. QED
    BY <1>8, <2>1, <2>2, Minted, MintEffect DEF Requeue, DropSlot
<1>9. ASSUME NEW w \in Workers, RequeueDone(w) PROVE PoolType'
  BY <1>9, ReleaseType DEF RequeueDone
<1>10. ASSUME NEW w \in Workers, RequeueLost(w) PROVE PoolType'
  BY <1>10, ReleaseType DEF RequeueLost
<1>11. ASSUME NEW w \in Workers, SettleStale(w) PROVE PoolType'
  BY <1>11, ReleaseType DEF SettleStale, DropSlot
<1>12. ASSUME NEW w \in Workers, Terminal(w) PROVE PoolType'
  BY <1>12 DEF Terminal, DropSlot
<1>13. ASSUME NEW w \in Workers, Settle(w) PROVE PoolType'
  BY <1>13, ReleaseType DEF Settle
<1>14. ASSUME NEW c \in Callers, NEW id \in Ids, PauseQueued(c, id)
      PROVE PoolType'
  BY <1>14 DEF PauseQueued, Dequeue
<1>15. ASSUME NEW c \in Callers, NEW id \in Ids, CancelLock(c, id)
      PROVE PoolType'
  BY <1>15 DEF CancelLock, Dequeue
<1>16. ASSUME NEW c \in Callers, NEW id \in Ids, Extract(c, id) PROVE PoolType'
  BY <1>16 DEF Extract
<1>17. ASSUME NEW c \in Callers, ReAdd(c) PROVE PoolType'
  <2>1. ctok[c] \in 1..last
    BY <1>17, CallerHolds DEF ReAdd
  <2>2. /\ Mint(IdOf(ctok[c]), RootOf(ctok[c]), 0)
        /\ wg' = wg + 1 /\ UNCHANGED <<downloads, busy>>
    BY <1>17 DEF ReAdd, AddEntry
  <2>3. IdOf(ctok[c]) \in Ids /\ RootOf(ctok[c]) \in Tokens /\ 0 \in 0..MaxRetries
    BY <2>1, Minted
  <2>4. queued' \in [Ids -> Entry] /\ last' \in 0..MaxToken /\ info' \in [1..last' -> Info]
    BY <2>2, <2>3, MintEffect
  <2>. QED
    BY <2>2, <2>4
<1>18. CASE ShutSweep
  BY <1>18 DEF ShutSweep
<1>19. CASE \E w \in Workers : 
         Fill(w) \/ Classify(w) \/ PauseSend(w) \/ PauseFence(w)
      \/ PausePublish(w) \/ RequeueCheck(w) \/ RequeueSend(w)
      \/ TerminalSend(w)
  <2>1. PICK w \in Workers :
       Fill(w) \/ Classify(w) \/ PauseSend(w) \/ PauseFence(w) \/
       PausePublish(w) \/ RequeueCheck(w) \/ RequeueSend(w) \/
       TerminalSend(w)
    BY <1>19
  <2>2. CASE Fill(w) \/ Classify(w) \/ PauseSend(w) \/ PauseFence(w) \/ PausePublish(w)
    BY <2>2 DEF Fill, Classify, PauseSend, PauseFence, PausePublish,
       Release, EndRequeue, Leave
  <2>3. CASE RequeueCheck(w) \/ RequeueSend(w) \/ TerminalSend(w)
    BY <2>3 DEF RequeueCheck, RequeueSend, TerminalSend, Release,
       EndRequeue, Leave
  <2>. QED
    BY <2>1, <2>2, <2>3
<1>20. CASE \E w \in Workers : \E res \in Outcomes : 
         RunReturns(w, res)
  BY <1>20 DEF
     RunReturns, Release, EndRequeue, Leave
<1>21. CASE \E c \in Callers : \E id \in Ids : 
         PauseFind(c, id)
  BY <1>21 DEF
     PauseFind, Release, EndRequeue, Leave
<1>22. CASE \E c \in Callers : 
         PauseSkips(c) \/ PauseJoins(c) \/ PauseMark(c) \/ PauseGate(c)
      \/ PauseSet(c) \/ CancelStop(c) \/ CancelWait(c) \/ CancelReturn(c)
      \/ ReAddRefused(c)
  BY <1>22 DEF
     PauseSkips, PauseJoins, PauseMark, PauseGate, PauseSet, CancelStop,
     CancelWait, CancelReturn, ReAddRefused, Release, EndRequeue, Leave
<1>23. CASE \E c \in Callers : \E t \in Tokens : 
         CancelCross(c, t)
  BY <1>23 DEF
     CancelCross, Release, EndRequeue, Leave
<1>24. CASE \E id \in Ids : 
         PauseNothing(id) \/ ShutNormalise(id)
  BY <1>24 DEF
     PauseNothing, ShutNormalise, Release, EndRequeue, Leave
<1>25. CASE ShutStart \/ ShutPolled \/ ShutForced \/ ShutWaited \/ ShutDrained
  BY <1>25 DEF
     ShutStart, ShutPolled, ShutForced, ShutWaited, ShutDrained, Release,
     EndRequeue, Leave
<1>26. CASE UNCHANGED vars
  BY <1>26 DEF vars
<1>. QED
  BY
     <1>1, <1>2, <1>3, <1>4, <1>5, <1>6, <1>7, <1>8, <1>9, <1>10, <1>11,
     <1>12, <1>13, <1>14, <1>15, <1>16, <1>17, <1>18, <1>19, <1>20, <1>21,
     <1>22, <1>23, <1>24, <1>25, <1>26
  DEF Next, WorkerStep, CallerStep, ShutStep

\* Facts about a run are about one that was registered.
LEMMA AdTypeStep ==
  ASSUME IInv, [Next]_vars
  PROVE  AdType'
<1>. USE PoolAssumption DEF AdType, ads
<1>. AdType /\ PoolType
  BY DEF IInv, TypeOK
<1>1. ASSUME NEW w \in Workers, Register(w) PROVE AdType'
  BY <1>1, WorkerHolds, Minted DEF Register
<1>2. ASSUME NEW w \in Workers, NEW res \in Outcomes, RunReturns(w, res)
      PROVE AdType'
  BY <1>2 DEF RunReturns, IInv, WorkersOK
<1>3. ASSUME NEW c \in Callers, PauseJoins(c) PROVE AdType'
  BY <1>3 DEF PauseJoins, IInv, CallersOK
<1>4. ASSUME NEW c \in Callers, PauseSet(c) PROVE AdType'
  BY <1>4 DEF PauseSet, IInv, CallersOK, LatestRun
<1>5. ASSUME NEW c \in Callers, NEW id \in Ids, CancelLock(c, id) PROVE AdType'
  BY <1>5 DEF CancelLock, HlsClaims
<1>6. ASSUME NEW c \in Callers, CancelStop(c) PROVE AdType'
  BY <1>6 DEF CancelStop, IInv, CallersOK
<1>7. CASE \E id \in Ids : 
         AddNew(id) \/ Admit(id) \/ Ripen(id) \/ PauseNothing(id)
      \/ ShutNormalise(id)
  BY <1>7 DEF
     AddNew, Admit, Ripen, PauseNothing, ShutNormalise, Release, EndRequeue,
     Leave
<1>8. CASE \E w \in Workers : 
         Claim(w) \/ Void(w) \/ Fill(w) \/ Classify(w) \/ Success(w)
      \/ PauseSend(w) \/ PauseFence(w) \/ PausePublish(w) \/ Requeue(w)
      \/ RequeueCheck(w) \/ RequeueSend(w) \/ RequeueDone(w)
      \/ RequeueLost(w) \/ SettleStale(w) \/ Terminal(w) \/ TerminalSend(w)
      \/ Settle(w)
  <2>1. PICK w \in Workers :
       Claim(w) \/ Void(w) \/ Fill(w) \/ Classify(w) \/ Success(w)
       \/ PauseSend(w) \/ PauseFence(w) \/ PausePublish(w) \/
       Requeue(w) \/ RequeueCheck(w) \/ RequeueSend(w) \/
       RequeueDone(w) \/ RequeueLost(w) \/ SettleStale(w) \/
       Terminal(w) \/ TerminalSend(w) \/ Settle(w)
    BY <1>8
  <2>2. CASE Claim(w) \/ Void(w) \/ Fill(w) \/ Classify(w) \/ Success(w)
    BY <2>2 DEF Claim, Void, Fill, Classify, Success, Release,
       EndRequeue, Leave
  <2>3. CASE PauseSend(w) \/ PauseFence(w) \/ PausePublish(w) \/ Requeue(w) \/ RequeueCheck(w)
    BY <2>3 DEF PauseSend, PauseFence, PausePublish, Requeue,
       RequeueCheck, Release, EndRequeue, Leave
  <2>4. CASE RequeueSend(w) \/ RequeueDone(w) \/ RequeueLost(w) \/ SettleStale(w) \/ Terminal(w)
    BY <2>4 DEF RequeueSend, RequeueDone, RequeueLost, SettleStale,
       Terminal, Release, EndRequeue, Leave
  <2>5. CASE TerminalSend(w) \/ Settle(w)
    BY <2>5 DEF TerminalSend, Settle, Release, EndRequeue, Leave
  <2>. QED
    BY <2>1, <2>2, <2>3, <2>4, <2>5
<1>9. CASE \E c \in Callers : \E id \in Ids : 
         PauseQueued(c, id) \/ PauseFind(c, id) \/ Extract(c, id)
  BY <1>9 DEF
     PauseQueued, PauseFind, Extract, Release, EndRequeue, Leave
<1>10. CASE \E c \in Callers : 
         PauseSkips(c) \/ PauseMark(c) \/ PauseGate(c) \/ CancelWait(c)
      \/ CancelReturn(c) \/ ReAdd(c) \/ ReAddRefused(c)
  BY <1>10 DEF
     PauseSkips, PauseMark, PauseGate, CancelWait, CancelReturn, ReAdd,
     ReAddRefused, Release, EndRequeue, Leave
<1>11. CASE \E c \in Callers : \E t \in Tokens : 
         CancelCross(c, t)
  BY <1>11 DEF
     CancelCross, Release, EndRequeue, Leave
<1>12. CASE ShutStart \/ ShutSweep \/ ShutPolled \/ ShutForced \/ ShutWaited \/ ShutDrained
  BY <1>12 DEF
     ShutStart, ShutSweep, ShutPolled, ShutForced, ShutWaited, ShutDrained,
     Release, EndRequeue, Leave
<1>13. CASE UNCHANGED vars
  BY <1>13 DEF vars
<1>. QED
  BY
     <1>1, <1>2, <1>3, <1>4, <1>5, <1>6, <1>7, <1>8, <1>9, <1>10, <1>11,
     <1>12, <1>13
  DEF Next, WorkerStep, CallerStep, ShutStep

\* Flags are raised for roots.
LEMMA FlagTypeStep ==
  ASSUME IInv, [Next]_vars
  PROVE  FlagType'
<1>. USE PoolAssumption DEF FlagType, flags
<1>. FlagType /\ PoolType
  BY DEF IInv, TypeOK
<1>1. ASSUME NEW w \in Workers, Fill(w) PROVE FlagType'
  BY <1>1, WorkerHolds, Minted DEF Fill
<1>2. ASSUME NEW w \in Workers, Classify(w) PROVE FlagType'
  BY <1>2 DEF Classify
<1>3. ASSUME NEW w \in Workers, Success(w) PROVE FlagType'
  BY <1>3, WorkerHolds, Minted DEF Success
<1>4. ASSUME NEW w \in Workers, PausePublish(w) PROVE FlagType'
  BY <1>4 DEF PausePublish
<1>5. ASSUME NEW c \in Callers, PauseGate(c) PROVE FlagType'
  BY <1>5, CallerHolds, Minted DEF PauseGate
<1>6. ASSUME NEW c \in Callers, PauseSet(c) PROVE FlagType'
  BY <1>6, CallerHolds, Minted DEF PauseSet
<1>7. ASSUME NEW c \in Callers, NEW id \in Ids, Extract(c, id) PROVE FlagType'
  BY <1>7 DEF Extract
<1>8. ASSUME NEW id \in Ids, ShutNormalise(id) PROVE FlagType'
  BY <1>8 DEF ShutNormalise
<1>9. CASE \E id \in Ids : 
         AddNew(id) \/ Admit(id) \/ Ripen(id) \/ PauseNothing(id)
  BY <1>9 DEF
     AddNew, Admit, Ripen, PauseNothing, Release, EndRequeue, Leave
<1>10. CASE \E w \in Workers : 
         Claim(w) \/ Void(w) \/ Register(w) \/ PauseSend(w) \/ PauseFence(w)
      \/ Requeue(w) \/ RequeueCheck(w) \/ RequeueSend(w) \/ RequeueDone(w)
      \/ RequeueLost(w) \/ SettleStale(w) \/ Terminal(w) \/ TerminalSend(w)
      \/ Settle(w)
  <2>1. PICK w \in Workers :
       Claim(w) \/ Void(w) \/ Register(w) \/ PauseSend(w) \/
       PauseFence(w) \/ Requeue(w) \/ RequeueCheck(w) \/
       RequeueSend(w) \/ RequeueDone(w) \/ RequeueLost(w) \/
       SettleStale(w) \/ Terminal(w) \/ TerminalSend(w) \/
       Settle(w)
    BY <1>10
  <2>2. CASE Claim(w) \/ Void(w) \/ Register(w) \/ PauseSend(w) \/ PauseFence(w)
    BY <2>2 DEF Claim, Void, Register, PauseSend, PauseFence, Release,
       EndRequeue, Leave
  <2>3. CASE Requeue(w) \/ RequeueCheck(w) \/ RequeueSend(w) \/ RequeueDone(w) \/ RequeueLost(w)
    BY <2>3 DEF Requeue, RequeueCheck, RequeueSend, RequeueDone,
       RequeueLost, Release, EndRequeue, Leave
  <2>4. CASE SettleStale(w) \/ Terminal(w) \/ TerminalSend(w) \/ Settle(w)
    BY <2>4 DEF SettleStale, Terminal, TerminalSend, Settle, Release,
       EndRequeue, Leave
  <2>. QED
    BY <2>1, <2>2, <2>3, <2>4
<1>11. CASE \E w \in Workers : \E res \in Outcomes : 
         RunReturns(w, res)
  BY <1>11 DEF
     RunReturns, Release, EndRequeue, Leave
<1>12. CASE \E c \in Callers : \E id \in Ids : 
         PauseQueued(c, id) \/ PauseFind(c, id) \/ CancelLock(c, id)
  BY <1>12 DEF
     PauseQueued, PauseFind, CancelLock, Release, EndRequeue, Leave
<1>13. CASE \E c \in Callers : 
         PauseSkips(c) \/ PauseJoins(c) \/ PauseMark(c) \/ CancelStop(c)
      \/ CancelWait(c) \/ CancelReturn(c) \/ ReAdd(c) \/ ReAddRefused(c)
  BY <1>13 DEF
     PauseSkips, PauseJoins, PauseMark, CancelStop, CancelWait, CancelReturn,
     ReAdd, ReAddRefused, Release, EndRequeue, Leave
<1>14. CASE \E c \in Callers : \E t \in Tokens : 
         CancelCross(c, t)
  BY <1>14 DEF
     CancelCross, Release, EndRequeue, Leave
<1>15. CASE ShutStart \/ ShutSweep \/ ShutPolled \/ ShutForced \/ ShutWaited \/ ShutDrained
  BY <1>15 DEF
     ShutStart, ShutSweep, ShutPolled, ShutForced, ShutWaited, ShutDrained,
     Release, EndRequeue, Leave
<1>16. CASE UNCHANGED vars
  BY <1>16 DEF vars
<1>. QED
  BY
     <1>1, <1>2, <1>3, <1>4, <1>5, <1>6, <1>7, <1>8, <1>9, <1>10, <1>11,
     <1>12, <1>13, <1>14, <1>15, <1>16
  DEF Next, WorkerStep, CallerStep, ShutStep

\* A worker moves between its states.
LEMMA WorkerTypeStep ==
  ASSUME IInv, [Next]_vars
  PROVE  WorkerType'
<1>. USE PoolAssumption DEF WorkerType, WorkerPCs, Outcomes, Tokens, None, workers
<1>. WorkerType /\ PoolType
  BY DEF IInv, TypeOK
<1>1. ASSUME NEW w \in Workers, Claim(w) PROVE WorkerType'
  <2>1. PICK id \in Ids : Eligible(id) /\ wtok' = [wtok EXCEPT ![w] = queued[id].tok]
    BY <1>1 DEF Claim
  <2>. QED
    BY <1>1, <2>1 DEF Claim, PoolType, Entry
<1>2. ASSUME NEW w \in Workers, Void(w) PROVE WorkerType'
  BY <1>2 DEF Void, Release
<1>3. ASSUME NEW w \in Workers, Register(w) PROVE WorkerType'
  BY <1>3 DEF Register
<1>4. ASSUME NEW w \in Workers, NEW res \in Outcomes, RunReturns(w, res)
      PROVE WorkerType'
  BY <1>4 DEF RunReturns
<1>5. ASSUME NEW w \in Workers, Classify(w) PROVE WorkerType'
  BY <1>5 DEF Classify, Branch, Identity, IsPauseResult
<1>6. ASSUME NEW w \in Workers, Success(w) PROVE WorkerType'
  BY <1>6 DEF Success
<1>7. ASSUME NEW w \in Workers, PauseSend(w) PROVE WorkerType'
  BY <1>7 DEF PauseSend
<1>8. ASSUME NEW w \in Workers, PauseFence(w) PROVE WorkerType'
  BY <1>8 DEF PauseFence
<1>9. ASSUME NEW w \in Workers, PausePublish(w) PROVE WorkerType'
  BY <1>9 DEF PausePublish
<1>10. ASSUME NEW w \in Workers, Requeue(w) PROVE WorkerType'
  BY <1>10 DEF Requeue, Mint, PoolType
<1>11. ASSUME NEW w \in Workers, RequeueCheck(w) PROVE WorkerType'
  BY <1>11 DEF RequeueCheck
<1>12. ASSUME NEW w \in Workers, RequeueSend(w) PROVE WorkerType'
  BY <1>12 DEF RequeueSend
<1>13. ASSUME NEW w \in Workers, RequeueDone(w) PROVE WorkerType'
  BY <1>13 DEF RequeueDone, EndRequeue
<1>14. ASSUME NEW w \in Workers, RequeueLost(w) PROVE WorkerType'
  BY <1>14 DEF RequeueLost, EndRequeue
<1>15. ASSUME NEW w \in Workers, SettleStale(w) PROVE WorkerType'
  BY <1>15 DEF SettleStale, Release
<1>16. ASSUME NEW w \in Workers, Terminal(w) PROVE WorkerType'
  BY <1>16 DEF Terminal, Ends
<1>17. ASSUME NEW w \in Workers, TerminalSend(w) PROVE WorkerType'
  BY <1>17 DEF TerminalSend
<1>18. ASSUME NEW w \in Workers, Settle(w) PROVE WorkerType'
  BY <1>18 DEF Settle, Release
<1>19. CASE \E id \in Ids : 
         AddNew(id) \/ Admit(id) \/ Ripen(id) \/ PauseNothing(id)
      \/ ShutNormalise(id)
  BY <1>19 DEF
     AddNew, Admit, Ripen, PauseNothing, ShutNormalise, Release, EndRequeue,
     Leave
<1>20. CASE \E w \in Workers : 
         Fill(w)
  BY <1>20 DEF
     Fill, Release, EndRequeue, Leave
<1>21. CASE \E c \in Callers : \E id \in Ids : 
         PauseQueued(c, id) \/ PauseFind(c, id) \/ CancelLock(c, id)
      \/ Extract(c, id)
  BY <1>21 DEF
     PauseQueued, PauseFind, CancelLock, Extract, Release, EndRequeue, Leave
<1>22. CASE \E c \in Callers : 
         PauseSkips(c) \/ PauseJoins(c) \/ PauseMark(c) \/ PauseGate(c)
      \/ PauseSet(c) \/ CancelStop(c) \/ CancelWait(c) \/ CancelReturn(c)
      \/ ReAdd(c) \/ ReAddRefused(c)
  BY <1>22 DEF
     PauseSkips, PauseJoins, PauseMark, PauseGate, PauseSet, CancelStop,
     CancelWait, CancelReturn, ReAdd, ReAddRefused, Release, EndRequeue,
     Leave
<1>23. CASE \E c \in Callers : \E t \in Tokens : 
         CancelCross(c, t)
  BY <1>23 DEF
     CancelCross, Release, EndRequeue, Leave
<1>24. CASE ShutStart \/ ShutSweep \/ ShutPolled \/ ShutForced \/ ShutWaited \/ ShutDrained
  BY <1>24 DEF
     ShutStart, ShutSweep, ShutPolled, ShutForced, ShutWaited, ShutDrained,
     Release, EndRequeue, Leave
<1>25. CASE UNCHANGED vars
  BY <1>25 DEF vars
<1>. QED
  BY
     <1>1, <1>2, <1>3, <1>4, <1>5, <1>6, <1>7, <1>8, <1>9, <1>10, <1>11,
     <1>12, <1>13, <1>14, <1>15, <1>16, <1>17, <1>18, <1>19, <1>20, <1>21,
     <1>22, <1>23, <1>24, <1>25
  DEF Next, WorkerStep, CallerStep, ShutStep

\* A caller moves between its states.
LEMMA CallerTypeStep ==
  ASSUME IInv, [Next]_vars
  PROVE  CallerType'
<1>. USE PoolAssumption DEF CallerType, CallerPCs, Tokens, None, callers
<1>. CallerType /\ PoolType /\ AdType
  BY DEF IInv, TypeOK
<1>1. ASSUME NEW c \in Callers, NEW id \in Ids, PauseFind(c, id)
      PROVE CallerType'
  BY <1>1 DEF PauseFind, PoolType
<1>2. ASSUME NEW c \in Callers, PauseSkips(c) PROVE CallerType'
  BY <1>2 DEF PauseSkips, Leave
<1>3. ASSUME NEW c \in Callers, PauseJoins(c) PROVE CallerType'
  BY <1>3 DEF PauseJoins, Leave
<1>4. ASSUME NEW c \in Callers, PauseMark(c) PROVE CallerType'
  BY <1>4 DEF PauseMark
<1>5. ASSUME NEW c \in Callers, PauseGate(c) PROVE CallerType'
  BY <1>5 DEF PauseGate
<1>6. ASSUME NEW c \in Callers, PauseSet(c) PROVE CallerType'
  BY <1>6 DEF PauseSet, Leave
<1>7. ASSUME NEW c \in Callers, NEW id \in Ids, CancelLock(c, id)
      PROVE CallerType'
  <2>1. HlsClaims(id) \cup ({downloads[id]} \ {None}) \in SUBSET Tokens
    BY DEF HlsClaims, PoolType, AdType
  <2>2. TokensOf(id) \in SUBSET Tokens
    BY DEF TokensOf, PoolType
  <2>. QED
    BY <1>7, <2>1, <2>2 DEF CancelLock
<1>8. ASSUME NEW c \in Callers, CancelStop(c) PROVE CallerType'
  BY <1>8 DEF CancelStop
<1>9. ASSUME NEW c \in Callers, CancelWait(c) PROVE CallerType'
  BY <1>9 DEF CancelWait
<1>10. ASSUME NEW c \in Callers, NEW t \in Tokens, CancelCross(c, t)
      PROVE CallerType'
  BY <1>10 DEF CancelCross
<1>11. ASSUME NEW c \in Callers, CancelReturn(c) PROVE CallerType'
  BY <1>11 DEF CancelReturn
<1>12. ASSUME NEW c \in Callers, NEW id \in Ids, Extract(c, id)
      PROVE CallerType'
  BY <1>12 DEF Extract, PoolType
<1>13. ASSUME NEW c \in Callers, ReAdd(c) PROVE CallerType'
  BY <1>13 DEF ReAdd, Leave
<1>14. ASSUME NEW c \in Callers, ReAddRefused(c) PROVE CallerType'
  BY <1>14 DEF ReAddRefused, Leave
<1>15. CASE \E id \in Ids : 
         AddNew(id) \/ Admit(id) \/ Ripen(id) \/ PauseNothing(id)
      \/ ShutNormalise(id)
  BY <1>15 DEF
     AddNew, Admit, Ripen, PauseNothing, ShutNormalise, Release, EndRequeue,
     Leave
<1>16. CASE \E w \in Workers : 
         Claim(w) \/ Void(w) \/ Register(w) \/ Fill(w) \/ Classify(w)
      \/ Success(w) \/ PauseSend(w) \/ PauseFence(w) \/ PausePublish(w)
      \/ Requeue(w) \/ RequeueCheck(w) \/ RequeueSend(w) \/ RequeueDone(w)
      \/ RequeueLost(w) \/ SettleStale(w) \/ Terminal(w) \/ TerminalSend(w)
      \/ Settle(w)
  <2>1. PICK w \in Workers :
       Claim(w) \/ Void(w) \/ Register(w) \/ Fill(w) \/
       Classify(w) \/ Success(w) \/ PauseSend(w) \/ PauseFence(w)
       \/ PausePublish(w) \/ Requeue(w) \/ RequeueCheck(w) \/
       RequeueSend(w) \/ RequeueDone(w) \/ RequeueLost(w) \/
       SettleStale(w) \/ Terminal(w) \/ TerminalSend(w) \/
       Settle(w)
    BY <1>16
  <2>2. CASE Claim(w) \/ Void(w) \/ Register(w) \/ Fill(w) \/ Classify(w)
    BY <2>2 DEF Claim, Void, Register, Fill, Classify, Release,
       EndRequeue, Leave
  <2>3. CASE Success(w) \/ PauseSend(w) \/ PauseFence(w) \/ PausePublish(w) \/ Requeue(w)
    BY <2>3 DEF Success, PauseSend, PauseFence, PausePublish, Requeue,
       Release, EndRequeue, Leave
  <2>4. CASE RequeueCheck(w) \/ RequeueSend(w) \/ RequeueDone(w) \/ RequeueLost(w) \/ SettleStale(w)
    BY <2>4 DEF RequeueCheck, RequeueSend, RequeueDone, RequeueLost,
       SettleStale, Release, EndRequeue, Leave
  <2>5. CASE Terminal(w) \/ TerminalSend(w) \/ Settle(w)
    BY <2>5 DEF Terminal, TerminalSend, Settle, Release, EndRequeue,
       Leave
  <2>. QED
    BY <2>1, <2>2, <2>3, <2>4, <2>5
<1>17. CASE \E w \in Workers : \E res \in Outcomes : 
         RunReturns(w, res)
  BY <1>17 DEF
     RunReturns, Release, EndRequeue, Leave
<1>18. CASE \E c \in Callers : \E id \in Ids : 
         PauseQueued(c, id)
  BY <1>18 DEF
     PauseQueued, Release, EndRequeue, Leave
<1>19. CASE ShutStart \/ ShutSweep \/ ShutPolled \/ ShutForced \/ ShutWaited \/ ShutDrained
  BY <1>19 DEF
     ShutStart, ShutSweep, ShutPolled, ShutForced, ShutWaited, ShutDrained,
     Release, EndRequeue, Leave
<1>20. CASE UNCHANGED vars
  BY <1>20 DEF vars
<1>. QED
  BY
     <1>1, <1>2, <1>3, <1>4, <1>5, <1>6, <1>7, <1>8, <1>9, <1>10, <1>11,
     <1>12, <1>13, <1>14, <1>15, <1>16, <1>17, <1>18, <1>19, <1>20
  DEF Next, WorkerStep, CallerStep, ShutStep

\* Shutdown phases and histories keep their shape.
LEMMA OtherTypeStep ==
  ASSUME IInv, [Next]_vars
  PROVE  OtherType'
<1>. USE PoolAssumption DEF OtherType, Phases, shutdown, history
<1>. OtherType /\ CallerType
  BY DEF IInv, TypeOK
<1>1. ASSUME NEW w \in Workers, NEW res \in Outcomes, RunReturns(w, res)
      PROVE OtherType'
  BY <1>1 DEF RunReturns, Publish, shutdown
<1>2. ASSUME NEW w \in Workers, PauseSend(w) PROVE OtherType'
  BY <1>2 DEF PauseSend, Publish
<1>3. ASSUME NEW w \in Workers, PausePublish(w) PROVE OtherType'
  BY <1>3 DEF PausePublish, Publish
<1>4. ASSUME NEW w \in Workers, RequeueSend(w) PROVE OtherType'
  BY <1>4 DEF RequeueSend, Publish
<1>5. ASSUME NEW w \in Workers, TerminalSend(w) PROVE OtherType'
  BY <1>5 DEF TerminalSend, Publish
<1>6. ASSUME NEW c \in Callers, CancelReturn(c) PROVE OtherType'
  BY <1>6 DEF CancelReturn, CallerType
<1>7. ASSUME NEW c \in Callers, NEW id \in Ids, PauseQueued(c, id)
      PROVE OtherType'
  BY <1>7 DEF PauseQueued
<1>8. ASSUME NEW c \in Callers, NEW id \in Ids, PauseFind(c, id)
      PROVE OtherType'
  BY <1>8 DEF PauseFind
<1>9. ASSUME NEW id \in Ids, PauseNothing(id) PROVE OtherType'
  BY <1>9 DEF PauseNothing
<1>10. CASE ShutStart
  BY <1>10 DEF ShutStart
<1>11. CASE ShutSweep
  BY <1>11 DEF ShutSweep
<1>12. CASE ShutPolled
  BY <1>12 DEF ShutPolled
<1>13. CASE ShutForced
  BY <1>13 DEF ShutForced
<1>14. CASE ShutWaited
  BY <1>14 DEF ShutWaited
<1>15. CASE ShutDrained
  BY <1>15 DEF ShutDrained
<1>16. CASE \E id \in Ids : 
         AddNew(id) \/ Admit(id) \/ Ripen(id) \/ ShutNormalise(id)
  BY <1>16 DEF
     AddNew, Admit, Ripen, ShutNormalise, Release, EndRequeue, Leave
<1>17. CASE \E w \in Workers : 
         Claim(w) \/ Void(w) \/ Register(w) \/ Fill(w) \/ Classify(w)
      \/ Success(w) \/ PauseFence(w) \/ Requeue(w) \/ RequeueCheck(w)
      \/ RequeueDone(w) \/ RequeueLost(w) \/ SettleStale(w) \/ Terminal(w)
      \/ Settle(w)
  <2>1. PICK w \in Workers :
       Claim(w) \/ Void(w) \/ Register(w) \/ Fill(w) \/
       Classify(w) \/ Success(w) \/ PauseFence(w) \/ Requeue(w) \/
       RequeueCheck(w) \/ RequeueDone(w) \/ RequeueLost(w) \/
       SettleStale(w) \/ Terminal(w) \/ Settle(w)
    BY <1>17
  <2>2. CASE Claim(w) \/ Void(w) \/ Register(w) \/ Fill(w) \/ Classify(w)
    BY <2>2 DEF Claim, Void, Register, Fill, Classify, Release,
       EndRequeue, Leave
  <2>3. CASE Success(w) \/ PauseFence(w) \/ Requeue(w) \/ RequeueCheck(w) \/ RequeueDone(w)
    BY <2>3 DEF Success, PauseFence, Requeue, RequeueCheck, RequeueDone,
       Release, EndRequeue, Leave
  <2>4. CASE RequeueLost(w) \/ SettleStale(w) \/ Terminal(w) \/ Settle(w)
    BY <2>4 DEF RequeueLost, SettleStale, Terminal, Settle, Release,
       EndRequeue, Leave
  <2>. QED
    BY <2>1, <2>2, <2>3, <2>4
<1>18. CASE \E c \in Callers : \E id \in Ids : 
         CancelLock(c, id) \/ Extract(c, id)
  BY <1>18 DEF
     CancelLock, Extract, Release, EndRequeue, Leave
<1>19. CASE \E c \in Callers : 
         PauseSkips(c) \/ PauseJoins(c) \/ PauseMark(c) \/ PauseGate(c)
      \/ PauseSet(c) \/ CancelStop(c) \/ CancelWait(c) \/ ReAdd(c)
      \/ ReAddRefused(c)
  BY <1>19 DEF
     PauseSkips, PauseJoins, PauseMark, PauseGate, PauseSet, CancelStop,
     CancelWait, ReAdd, ReAddRefused, Release, EndRequeue, Leave
<1>20. CASE \E c \in Callers : \E t \in Tokens : 
         CancelCross(c, t)
  BY <1>20 DEF
     CancelCross, Release, EndRequeue, Leave
<1>21. CASE UNCHANGED vars
  BY <1>21 DEF vars
<1>. QED
  BY
     <1>1, <1>2, <1>3, <1>4, <1>5, <1>6, <1>7, <1>8, <1>9, <1>10, <1>11,
     <1>12, <1>13, <1>14, <1>15, <1>16, <1>17, <1>18, <1>19, <1>20, <1>21
  DEF Next, WorkerStep, CallerStep, ShutStep

\* What the queue and the active map say of an ID stays true of its tokens.
LEMMA EntriesOKStep ==
  ASSUME IInv, [Next]_vars
  PROVE  EntriesOK'
<1>. USE PoolAssumption DEF EntriesOK, IsQueued, IdOf, NotQueued, Task, None, pool, ads
<1>. EntriesOK /\ PoolType /\ AdType
  BY DEF IInv, TypeOK
<1>1. ASSUME NEW id \in Ids, AddNew(id) PROVE EntriesOK'
  <2>1. Mint(id, last + 1, 0) /\ UNCHANGED <<downloads, registered>>
    BY <1>1 DEF AddNew, AddEntry
  <2>2. last + 1 \in Tokens /\ 0 \in 0..MaxRetries
    BY <2>1 DEF Mint, Tokens, PoolType
  <2>. QED
    BY <2>1, <2>2, Mints
<1>2. ASSUME NEW id \in Ids, Admit(id) PROVE EntriesOK'
  <2>1. /\ IsQueued(id)
        /\ queued' = [queued EXCEPT ![id] = Task(queued[id].tok, FALSE, TRUE, TRUE)]
    BY <1>2 DEF Admit
  <2>2. UNCHANGED <<downloads, last, info, registered>>
    BY <1>2 DEF Admit
  <2>3. queued \in [Ids -> Entry]
    BY DEF PoolType
  <2>. QED
    BY <2>1, <2>2, <2>3 DEF Entry
<1>3. ASSUME NEW id \in Ids, Ripen(id) PROVE EntriesOK'
  BY <1>3 DEF Ripen, PoolType, Entry
<1>4. ASSUME NEW w \in Workers, Claim(w) PROVE EntriesOK'
  <2>1. PICK id \in Ids :
          /\ IsQueued(id)
          /\ queued' = [queued EXCEPT ![id] = Task(queued[id].tok, TRUE, TRUE,
                                                  queued[id].admitted)]
    BY <1>4, Claims
  <2>2. UNCHANGED <<downloads, last, info, registered>>
    BY <1>4 DEF Claim
  <2>. QED
    BY <2>1, <2>2 DEF PoolType, Entry
<1>5. ASSUME NEW w \in Workers, Register(w) PROVE EntriesOK'
  <2>1. wtok[w] \in 1..last
    BY <1>5, WorkerHolds DEF Register
  <2>2. IdOf(wtok[w]) \in Ids
    BY <2>1, Minted
  <2>3. ASSUME NEW x \in Ids, queued'[x].tok # None
        PROVE  x # IdOf(wtok[w]) /\ queued'[x] = queued[x]
    BY <1>5, <2>2, <2>3 DEF Register, PoolType
  <2>4. /\ downloads' = [downloads EXCEPT ![IdOf(wtok[w])] = wtok[w]]
        /\ registered' = registered \cup {wtok[w]}
        /\ UNCHANGED <<info, last>>
        /\ queued[IdOf(wtok[w])].tok = wtok[w]
        /\ queued' = [queued EXCEPT ![IdOf(wtok[w])] = NotQueued]
    BY <1>5 DEF Register
  <2>5. ASSUME NEW x \in Ids, x # IdOf(wtok[w]), queued[x].tok # None
        PROVE queued[x].tok # wtok[w]
    BY <2>5
  <2>6. ASSUME NEW x \in Ids, downloads'[x] # None
        PROVE  downloads'[x] \in registered' /\ info'[downloads'[x]].id = x
    BY <2>2, <2>4, <2>6 DEF PoolType
  <2>7. ASSUME NEW x \in Ids
        PROVE  /\ queued'[x].tok # None =>
                    /\ queued'[x].tok <= last' /\ info'[queued'[x].tok].id = x
                    /\ queued'[x].tok \notin registered'
               /\ queued'[x].tok = None => queued'[x] = NotQueued
    BY <2>2, <2>3, <2>4, <2>5, <2>7 DEF PoolType
  <2>. QED
    BY <2>1, <2>4, <2>6, <2>7
<1>6. ASSUME NEW w \in Workers, Success(w) PROVE EntriesOK'
  BY <1>6 DEF Success, DropSlot, OwnsSlot, PoolType
<1>7. ASSUME NEW w \in Workers, Requeue(w) PROVE EntriesOK'
  <2>1. registered' = registered
    BY <1>7 DEF Requeue
  <2>2. /\ IdOf(wtok[w]) \in Ids /\ RootOf(wtok[w]) \in Tokens
        /\ info[wtok[w]].tries + 1 \in 0..MaxRetries
        /\ Mint(IdOf(wtok[w]), RootOf(wtok[w]), info[wtok[w]].tries + 1)
        /\ \A x \in Ids : downloads'[x] \in {downloads[x], None}
    BY <1>7, Requeues
  <2>. QED
    BY <2>1, <2>2, Mints
<1>8. ASSUME NEW w \in Workers, RequeueDone(w) PROVE EntriesOK'
  <2>1. PICK id \in Ids :
          /\ queued[id].tok = wnew[w]
          /\ queued' = [queued EXCEPT ![id] = Task(queued[id].tok, FALSE, queued[id].due,
                                                  queued[id].admitted)]
    BY <1>8 DEF RequeueDone
  <2>2. wnew[w] # None
    BY <1>8 DEF RequeueDone, EndRequeue, IInv, WorkersOK, Requeueing
  <2>3. UNCHANGED <<downloads, last, info, registered>>
    BY <1>8 DEF RequeueDone, EndRequeue
  <2>. QED
    BY <2>1, <2>2, <2>3 DEF PoolType, Entry
<1>9. ASSUME NEW w \in Workers, SettleStale(w) PROVE EntriesOK'
  BY <1>9 DEF SettleStale, DropSlot, OwnsSlot, PoolType
<1>10. ASSUME NEW w \in Workers, Terminal(w) PROVE EntriesOK'
  BY <1>10 DEF Terminal, DropSlot, OwnsSlot, PoolType
<1>11. ASSUME NEW c \in Callers, NEW id \in Ids, PauseQueued(c, id)
      PROVE EntriesOK'
  BY <1>11 DEF PauseQueued, Dequeue, PoolType
<1>12. ASSUME NEW c \in Callers, NEW id \in Ids, CancelLock(c, id)
      PROVE EntriesOK'
  BY <1>12 DEF CancelLock, Dequeue, PoolType
<1>13. ASSUME NEW c \in Callers, NEW id \in Ids, Extract(c, id) PROVE EntriesOK'
  BY <1>13 DEF Extract, PoolType
<1>14. ASSUME NEW c \in Callers, ReAdd(c) PROVE EntriesOK'
  <2>1. registered' = registered /\ 0 \in 0..MaxRetries
    BY <1>14 DEF ReAdd
  <2>. QED
    BY <1>14, <2>1, ReAdds, Mints
<1>15. CASE ShutSweep
  BY <1>15 DEF ShutSweep, PoolType
<1>16. CASE \E w \in Workers : 
         Void(w) \/ Fill(w) \/ Classify(w) \/ PauseSend(w) \/ PauseFence(w)
      \/ PausePublish(w) \/ RequeueCheck(w) \/ RequeueSend(w)
      \/ RequeueLost(w) \/ TerminalSend(w) \/ Settle(w)
  <2>1. UNCHANGED <<queued, downloads, last, info, registered>>
    <3>1. PICK w \in Workers :
         Void(w) \/ Fill(w) \/ Classify(w) \/ PauseSend(w) \/
         PauseFence(w) \/ PausePublish(w) \/ RequeueCheck(w) \/
         RequeueSend(w) \/ RequeueLost(w) \/ TerminalSend(w) \/
         Settle(w)
      BY <1>16
    <3>2. CASE Void(w) \/ Fill(w) \/ Classify(w) \/ PauseSend(w) \/ PauseFence(w)
      BY <3>2 DEF Void, Fill, Classify, PauseSend, PauseFence, Release,
         EndRequeue, Leave
    <3>3. CASE PausePublish(w) \/ RequeueCheck(w) \/ RequeueSend(w) \/ RequeueLost(w) \/ TerminalSend(w)
      BY <3>3 DEF PausePublish, RequeueCheck, RequeueSend, RequeueLost,
         TerminalSend, Release, EndRequeue, Leave
    <3>4. CASE Settle(w)
      BY <3>4 DEF Settle, Release, EndRequeue, Leave
    <3>. QED
      BY <3>1, <3>2, <3>3, <3>4
  <2>. QED
    BY <2>1
<1>17. CASE \E w \in Workers : \E res \in Outcomes : 
         RunReturns(w, res)
  <2>1. UNCHANGED <<queued, downloads, last, info, registered>>
    BY <1>17 DEF
       RunReturns, Release, EndRequeue, Leave
  <2>. QED
    BY <2>1
<1>18. CASE \E c \in Callers : \E id \in Ids : 
         PauseFind(c, id)
  <2>1. UNCHANGED <<queued, downloads, last, info, registered>>
    BY <1>18 DEF
       PauseFind, Release, EndRequeue, Leave
  <2>. QED
    BY <2>1
<1>19. CASE \E c \in Callers : 
         PauseSkips(c) \/ PauseJoins(c) \/ PauseMark(c) \/ PauseGate(c)
      \/ PauseSet(c) \/ CancelStop(c) \/ CancelWait(c) \/ CancelReturn(c)
      \/ ReAddRefused(c)
  <2>1. UNCHANGED <<queued, downloads, last, info, registered>>
    BY <1>19 DEF
       PauseSkips, PauseJoins, PauseMark, PauseGate, PauseSet, CancelStop,
       CancelWait, CancelReturn, ReAddRefused, Release, EndRequeue, Leave
  <2>. QED
    BY <2>1
<1>20. CASE \E c \in Callers : \E t \in Tokens : 
         CancelCross(c, t)
  <2>1. UNCHANGED <<queued, downloads, last, info, registered>>
    BY <1>20 DEF
       CancelCross, Release, EndRequeue, Leave
  <2>. QED
    BY <2>1
<1>21. CASE \E id \in Ids : 
         PauseNothing(id) \/ ShutNormalise(id)
  <2>1. UNCHANGED <<queued, downloads, last, info, registered>>
    BY <1>21 DEF
       PauseNothing, ShutNormalise, Release, EndRequeue, Leave
  <2>. QED
    BY <2>1
<1>22. CASE ShutStart \/ ShutPolled \/ ShutForced \/ ShutWaited \/ ShutDrained
  <2>1. UNCHANGED <<queued, downloads, last, info, registered>>
    BY <1>22 DEF
       ShutStart, ShutPolled, ShutForced, ShutWaited, ShutDrained, Release,
       EndRequeue, Leave
  <2>. QED
    BY <2>1
<1>23. CASE UNCHANGED vars
  BY <1>23 DEF vars
<1>. QED
  BY
     <1>1, <1>2, <1>3, <1>4, <1>5, <1>6, <1>7, <1>8, <1>9, <1>10, <1>11,
     <1>12, <1>13, <1>14, <1>15, <1>16, <1>17, <1>18, <1>19, <1>20, <1>21,
     <1>22, <1>23
  DEF Next, WorkerStep, CallerStep, ShutStep

\* Pause and Cancel hold entries that were registered.
LEMMA CallersOKStep ==
  ASSUME IInv, [Next]_vars
  PROVE  CallersOK'
<1>. USE PoolAssumption DEF CallersOK, CallerType, None, callers, ads
<1>. CallersOK /\ CallerType /\ EntriesOK
  BY DEF IInv, TypeOK
<1>1. ASSUME NEW w \in Workers, Register(w) PROVE CallersOK'
  BY <1>1 DEF Register
<1>2. ASSUME NEW c \in Callers, NEW id \in Ids, PauseQueued(c, id)
      PROVE CallersOK'
  BY <1>2 DEF PauseQueued
<1>3. ASSUME NEW c \in Callers, NEW id \in Ids, PauseFind(c, id)
      PROVE CallersOK'
  BY <1>3, ActiveMinted DEF PauseFind
<1>4. ASSUME NEW c \in Callers, PauseSkips(c) PROVE CallersOK'
  BY <1>4 DEF PauseSkips, Leave
<1>5. ASSUME NEW c \in Callers, PauseJoins(c) PROVE CallersOK'
  BY <1>5 DEF PauseJoins, Leave
<1>6. ASSUME NEW c \in Callers, PauseMark(c) PROVE CallersOK'
  BY <1>6 DEF PauseMark
<1>7. ASSUME NEW c \in Callers, PauseGate(c) PROVE CallersOK'
  BY <1>7 DEF PauseGate
<1>8. ASSUME NEW c \in Callers, PauseSet(c) PROVE CallersOK'
  BY <1>8 DEF PauseSet, Leave
<1>9. ASSUME NEW c \in Callers, NEW id \in Ids, CancelLock(c, id)
      PROVE CallersOK'
  BY <1>9, ActiveMinted DEF CancelLock, HlsClaims
<1>10. ASSUME NEW c \in Callers, CancelStop(c) PROVE CallersOK'
  BY <1>10 DEF CancelStop
<1>11. ASSUME NEW c \in Callers, CancelWait(c) PROVE CallersOK'
  BY <1>11 DEF CancelWait
<1>12. ASSUME NEW c \in Callers, NEW t \in Tokens, CancelCross(c, t)
      PROVE CallersOK'
  BY <1>12 DEF CancelCross
<1>13. ASSUME NEW c \in Callers, CancelReturn(c) PROVE CallersOK'
  BY <1>13 DEF CancelReturn
<1>14. ASSUME NEW c \in Callers, NEW id \in Ids, Extract(c, id) PROVE CallersOK'
  BY <1>14, ActiveMinted DEF Extract
<1>15. ASSUME NEW c \in Callers, ReAdd(c) PROVE CallersOK'
  BY <1>15 DEF ReAdd, Leave
<1>16. ASSUME NEW c \in Callers, ReAddRefused(c) PROVE CallersOK'
  BY <1>16 DEF ReAddRefused, Leave
<1>17. CASE \E id \in Ids : 
         AddNew(id) \/ Admit(id) \/ Ripen(id) \/ PauseNothing(id)
      \/ ShutNormalise(id)
  <2>1. UNCHANGED <<registered, cpc, ctok, cclaims>>
    BY <1>17 DEF
       AddNew, Admit, Ripen, PauseNothing, ShutNormalise, Release,
       EndRequeue, Leave
  <2>. QED
    BY <2>1
<1>18. CASE \E w \in Workers : 
         Claim(w) \/ Void(w) \/ Fill(w) \/ Classify(w) \/ Success(w)
      \/ PauseSend(w) \/ PauseFence(w) \/ PausePublish(w) \/ Requeue(w)
      \/ RequeueCheck(w) \/ RequeueSend(w) \/ RequeueDone(w)
      \/ RequeueLost(w) \/ SettleStale(w) \/ Terminal(w) \/ TerminalSend(w)
      \/ Settle(w)
  <2>1. UNCHANGED <<registered, cpc, ctok, cclaims>>
    <3>1. PICK w \in Workers :
         Claim(w) \/ Void(w) \/ Fill(w) \/ Classify(w) \/
         Success(w) \/ PauseSend(w) \/ PauseFence(w) \/
         PausePublish(w) \/ Requeue(w) \/ RequeueCheck(w) \/
         RequeueSend(w) \/ RequeueDone(w) \/ RequeueLost(w) \/
         SettleStale(w) \/ Terminal(w) \/ TerminalSend(w) \/
         Settle(w)
      BY <1>18
    <3>2. CASE Claim(w) \/ Void(w) \/ Fill(w) \/ Classify(w) \/ Success(w)
      BY <3>2 DEF Claim, Void, Fill, Classify, Success, Release,
         EndRequeue, Leave
    <3>3. CASE PauseSend(w) \/ PauseFence(w) \/ PausePublish(w) \/ Requeue(w) \/ RequeueCheck(w)
      BY <3>3 DEF PauseSend, PauseFence, PausePublish, Requeue,
         RequeueCheck, Release, EndRequeue, Leave
    <3>4. CASE RequeueSend(w) \/ RequeueDone(w) \/ RequeueLost(w) \/ SettleStale(w) \/ Terminal(w)
      BY <3>4 DEF RequeueSend, RequeueDone, RequeueLost, SettleStale,
         Terminal, Release, EndRequeue, Leave
    <3>5. CASE TerminalSend(w) \/ Settle(w)
      BY <3>5 DEF TerminalSend, Settle, Release, EndRequeue, Leave
    <3>. QED
      BY <3>1, <3>2, <3>3, <3>4, <3>5
  <2>. QED
    BY <2>1
<1>19. CASE \E w \in Workers : \E res \in Outcomes : 
         RunReturns(w, res)
  <2>1. UNCHANGED <<registered, cpc, ctok, cclaims>>
    BY <1>19 DEF
       RunReturns, Release, EndRequeue, Leave
  <2>. QED
    BY <2>1
<1>20. CASE ShutStart \/ ShutSweep \/ ShutPolled \/ ShutForced \/ ShutWaited \/ ShutDrained
  <2>1. UNCHANGED <<registered, cpc, ctok, cclaims>>
    BY <1>20 DEF
       ShutStart, ShutSweep, ShutPolled, ShutForced, ShutWaited, ShutDrained,
       Release, EndRequeue, Leave
  <2>. QED
    BY <2>1
<1>21. CASE UNCHANGED vars
  BY <1>21 DEF vars
<1>. QED
  BY
     <1>1, <1>2, <1>3, <1>4, <1>5, <1>6, <1>7, <1>8, <1>9, <1>10, <1>11,
     <1>12, <1>13, <1>14, <1>15, <1>16, <1>17, <1>18, <1>19, <1>20, <1>21
  DEF Next, WorkerStep, CallerStep, ShutStep

\* An ID enters the queue only when nobody has it active, and becomes active
\* only from the queue.
LEMMA SoleOwnerStep ==
  ASSUME IInv, [Next]_vars
  PROVE  SoleOwner'
<1>. USE PoolAssumption DEF SoleOwner, IsQueued, NotQueued, Task, None, pool
<1>. SoleOwner /\ PoolType
  BY DEF IInv, TypeOK
<1>1. ASSUME NEW id \in Ids, AddNew(id) PROVE SoleOwner'
  <2>1. Mint(id, last + 1, 0) /\ downloads[id] = None /\ UNCHANGED downloads
    BY <1>1 DEF AddNew, AddEntry, Addable
  <2>2. last + 1 \in Tokens /\ 0 \in 0..MaxRetries
    BY <2>1 DEF Mint, Tokens, PoolType
  <2>3. \A x \in Ids \ {id} : queued'[x] = queued[x]
    BY <2>1, <2>2, MintEffect
  <2>. QED
    BY <2>1, <2>3
<1>2. ASSUME NEW id \in Ids, Admit(id) PROVE SoleOwner'
  BY <1>2 DEF Admit, PoolType, Entry
<1>3. ASSUME NEW id \in Ids, Ripen(id) PROVE SoleOwner'
  BY <1>3 DEF Ripen, PoolType, Entry
<1>4. ASSUME NEW w \in Workers, Claim(w) PROVE SoleOwner'
  <2>1. PICK id \in Ids :
          /\ IsQueued(id)
          /\ queued' = [queued EXCEPT ![id] = Task(queued[id].tok, TRUE, TRUE,
                                                  queued[id].admitted)]
    BY <1>4, Claims
  <2>2. UNCHANGED downloads
    BY <1>4 DEF Claim
  <2>. QED
    BY <2>1, <2>2 DEF PoolType, Entry
<1>5. ASSUME NEW w \in Workers, Register(w) PROVE SoleOwner'
  BY <1>5 DEF Register, PoolType
<1>6. ASSUME NEW w \in Workers, Success(w) PROVE SoleOwner'
  BY <1>6 DEF Success, DropSlot, PoolType
<1>7. ASSUME NEW w \in Workers, Requeue(w) PROVE SoleOwner'
  <2>1. \A x \in Ids \ {IdOf(wtok[w])} : queued'[x] = queued[x]
    BY <1>7, Requeues, MintEffect
  <2>. QED
    BY <1>7, <2>1, Requeues
<1>8. ASSUME NEW w \in Workers, RequeueDone(w) PROVE SoleOwner'
  BY <1>8 DEF RequeueDone, EndRequeue, PoolType
<1>9. ASSUME NEW w \in Workers, SettleStale(w) PROVE SoleOwner'
  BY <1>9 DEF SettleStale, DropSlot, PoolType
<1>10. ASSUME NEW w \in Workers, Terminal(w) PROVE SoleOwner'
  BY <1>10 DEF Terminal, DropSlot, PoolType
<1>11. ASSUME NEW c \in Callers, NEW id \in Ids, PauseQueued(c, id)
      PROVE SoleOwner'
  BY <1>11 DEF PauseQueued, Dequeue, PoolType
<1>12. ASSUME NEW c \in Callers, NEW id \in Ids, CancelLock(c, id)
      PROVE SoleOwner'
  BY <1>12 DEF CancelLock, Dequeue, PoolType
<1>13. ASSUME NEW c \in Callers, NEW id \in Ids, Extract(c, id) PROVE SoleOwner'
  BY <1>13 DEF Extract, PoolType
<1>14. ASSUME NEW c \in Callers, ReAdd(c) PROVE SoleOwner'
  <2>1. \A x \in Ids \ {IdOf(ctok[c])} : queued'[x] = queued[x]
    BY <1>14, ReAdds, MintEffect
  <2>. QED
    BY <1>14, <2>1, ReAdds
<1>15. CASE ShutSweep
  BY <1>15 DEF ShutSweep, PoolType
<1>16. CASE \E w \in Workers : 
         Void(w) \/ Fill(w) \/ Classify(w) \/ PauseSend(w) \/ PauseFence(w)
      \/ PausePublish(w) \/ RequeueCheck(w) \/ RequeueSend(w)
      \/ RequeueLost(w) \/ TerminalSend(w) \/ Settle(w)
  <2>1. UNCHANGED <<queued, downloads>>
    <3>1. PICK w \in Workers :
         Void(w) \/ Fill(w) \/ Classify(w) \/ PauseSend(w) \/
         PauseFence(w) \/ PausePublish(w) \/ RequeueCheck(w) \/
         RequeueSend(w) \/ RequeueLost(w) \/ TerminalSend(w) \/
         Settle(w)
      BY <1>16
    <3>2. CASE Void(w) \/ Fill(w) \/ Classify(w) \/ PauseSend(w) \/ PauseFence(w)
      BY <3>2 DEF Void, Fill, Classify, PauseSend, PauseFence, Release,
         EndRequeue, Leave
    <3>3. CASE PausePublish(w) \/ RequeueCheck(w) \/ RequeueSend(w) \/ RequeueLost(w) \/ TerminalSend(w)
      BY <3>3 DEF PausePublish, RequeueCheck, RequeueSend, RequeueLost,
         TerminalSend, Release, EndRequeue, Leave
    <3>4. CASE Settle(w)
      BY <3>4 DEF Settle, Release, EndRequeue, Leave
    <3>. QED
      BY <3>1, <3>2, <3>3, <3>4
  <2>. QED
    BY <2>1
<1>17. CASE \E w \in Workers : \E res \in Outcomes : 
         RunReturns(w, res)
  <2>1. UNCHANGED <<queued, downloads>>
    BY <1>17 DEF
       RunReturns, Release, EndRequeue, Leave
  <2>. QED
    BY <2>1
<1>18. CASE \E c \in Callers : \E id \in Ids : 
         PauseFind(c, id)
  <2>1. UNCHANGED <<queued, downloads>>
    BY <1>18 DEF
       PauseFind, Release, EndRequeue, Leave
  <2>. QED
    BY <2>1
<1>19. CASE \E c \in Callers : 
         PauseSkips(c) \/ PauseJoins(c) \/ PauseMark(c) \/ PauseGate(c)
      \/ PauseSet(c) \/ CancelStop(c) \/ CancelWait(c) \/ CancelReturn(c)
      \/ ReAddRefused(c)
  <2>1. UNCHANGED <<queued, downloads>>
    BY <1>19 DEF
       PauseSkips, PauseJoins, PauseMark, PauseGate, PauseSet, CancelStop,
       CancelWait, CancelReturn, ReAddRefused, Release, EndRequeue, Leave
  <2>. QED
    BY <2>1
<1>20. CASE \E c \in Callers : \E t \in Tokens : 
         CancelCross(c, t)
  <2>1. UNCHANGED <<queued, downloads>>
    BY <1>20 DEF
       CancelCross, Release, EndRequeue, Leave
  <2>. QED
    BY <2>1
<1>21. CASE \E id \in Ids : 
         PauseNothing(id) \/ ShutNormalise(id)
  <2>1. UNCHANGED <<queued, downloads>>
    BY <1>21 DEF
       PauseNothing, ShutNormalise, Release, EndRequeue, Leave
  <2>. QED
    BY <2>1
<1>22. CASE ShutStart \/ ShutPolled \/ ShutForced \/ ShutWaited \/ ShutDrained
  <2>1. UNCHANGED <<queued, downloads>>
    BY <1>22 DEF
       ShutStart, ShutPolled, ShutForced, ShutWaited, ShutDrained, Release,
       EndRequeue, Leave
  <2>. QED
    BY <2>1
<1>23. CASE UNCHANGED vars
  BY <1>23 DEF vars
<1>. QED
  BY
     <1>1, <1>2, <1>3, <1>4, <1>5, <1>6, <1>7, <1>8, <1>9, <1>10, <1>11,
     <1>12, <1>13, <1>14, <1>15, <1>16, <1>17, <1>18, <1>19, <1>20, <1>21,
     <1>22, <1>23
  DEF Next, WorkerStep, CallerStep, ShutStep

\* A worker holds a token from its claim to its release, and a second one
\* while it settles a retry.
LEMMA WorkersOKStep ==
  ASSUME IInv, [Next]_vars
  PROVE  WorkersOK'
<1>. USE PoolAssumption DEF WorkersOK, Requeueing, None, workers, ads, pool
<1>. WorkersOK /\ WorkerType /\ EntriesOK /\ InFlightOK /\ ClaimsSettledOnce /\ PoolType
  BY DEF IInv, TypeOK
<1>1. ASSUME NEW id \in Ids, AddNew(id) PROVE WorkersOK'
  <2>1. last' = last + 1 /\ UNCHANGED <<registered, wpc, wtok, wnew>>
    BY <1>1 DEF AddNew, AddEntry, Mint, ads, workers
  <2>. QED
    BY <2>1 DEF PoolType, WorkerType, Tokens
<1>2. ASSUME NEW c \in Callers, ReAdd(c) PROVE WorkersOK'
  <2>1. last' = last + 1 /\ UNCHANGED <<registered, wpc, wtok, wnew>>
    BY <1>2 DEF ReAdd, AddEntry, Mint, ads, workers
  <2>. QED
    BY <2>1 DEF PoolType, WorkerType, Tokens
<1>3. ASSUME NEW w \in Workers, Claim(w) PROVE WorkersOK'
  <2>1. PICK id \in Ids :
          /\ IsQueued(id) /\ ~queued[id].inFlight
          /\ queued[id].tok \in 1..last /\ queued[id].tok \notin registered
          /\ wtok' = [wtok EXCEPT ![w] = queued[id].tok]
    BY <1>3, Claims
  <2>2. ASSUME NEW v \in Workers PROVE wnew[v] # queued[id].tok
    BY <2>1 DEF InFlightOK
  <2>3. /\ wpc[w] = "idle" /\ wpc' = [wpc EXCEPT ![w] = "claimed"]
        /\ UNCHANGED <<last, registered, wnew>>
    BY <1>3 DEF Claim, ads
  <2>. QED
    BY <2>1, <2>2, <2>3 DEF WorkerType
<1>4. ASSUME NEW w \in Workers, Void(w) PROVE WorkersOK'
  BY <1>4 DEF Void, Release, ads, WorkerType
<1>5. ASSUME NEW w \in Workers, Register(w) PROVE WorkersOK'
  <2>1. ASSUME NEW v \in Workers, v # w PROVE wtok[v] # wtok[w]
    BY <1>5, <2>1 DEF Register, ClaimsSettledOnce
  <2>2. /\ wpc[w] = "claimed" /\ wpc' = [wpc EXCEPT ![w] = "running"]
        /\ registered' = registered \cup {wtok[w]}
        /\ UNCHANGED <<last, wtok, wnew>>
    BY <1>5 DEF Register
  <2>. QED
    BY <2>1, <2>2 DEF WorkerType
<1>6. ASSUME NEW w \in Workers, NEW res \in Outcomes, RunReturns(w, res)
      PROVE WorkersOK'
  BY <1>6 DEF RunReturns, WorkerType, ads
<1>7. ASSUME NEW w \in Workers, Classify(w) PROVE WorkersOK'
  BY <1>7 DEF Classify, Branch, WorkerType, ads
<1>8. ASSUME NEW w \in Workers, Success(w) PROVE WorkersOK'
  BY <1>8 DEF Success, WorkerType, ads
<1>9. ASSUME NEW w \in Workers, PauseSend(w) PROVE WorkersOK'
  BY <1>9 DEF PauseSend, WorkerType, ads
<1>10. ASSUME NEW w \in Workers, PauseFence(w) PROVE WorkersOK'
  BY <1>10 DEF PauseFence, WorkerType, ads
<1>11. ASSUME NEW w \in Workers, PausePublish(w) PROVE WorkersOK'
  BY <1>11 DEF PausePublish, WorkerType, ads
<1>12. ASSUME NEW w \in Workers, RequeueCheck(w) PROVE WorkersOK'
  BY <1>12 DEF RequeueCheck, WorkerType, ads
<1>13. ASSUME NEW w \in Workers, RequeueSend(w) PROVE WorkersOK'
  BY <1>13 DEF RequeueSend, WorkerType, ads
<1>14. ASSUME NEW w \in Workers, Terminal(w) PROVE WorkersOK'
  BY <1>14 DEF Terminal, Ends, WorkerType, ads
<1>15. ASSUME NEW w \in Workers, TerminalSend(w) PROVE WorkersOK'
  BY <1>15 DEF TerminalSend, WorkerType, ads
<1>16. ASSUME NEW w \in Workers, Requeue(w) PROVE WorkersOK'
  <2>1. /\ last' = last + 1 /\ wpc[w] = "error" /\ wpc' = [wpc EXCEPT ![w] = "requeued"]
        /\ wnew' = [wnew EXCEPT ![w] = last + 1]
        /\ UNCHANGED <<registered, wtok>>
    BY <1>16 DEF Requeue, Mint, ads
  <2>2. last + 1 \notin registered /\ last \in Nat
    BY DEF EntriesOK, PoolType
  <2>3. ASSUME NEW v \in Workers
        PROVE wtok[v] # last + 1 /\ wnew[v] # last + 1 /\ wtok[v] <= last' /\ wnew[v] <= last'
    BY <2>1, <2>2 DEF WorkerType, Tokens
  <2>. QED
    BY <2>1, <2>2, <2>3 DEF WorkerType
<1>17. ASSUME NEW w \in Workers, RequeueDone(w) PROVE WorkersOK'
  <2>1. /\ wpc' = [wpc EXCEPT ![w] = "idle"] /\ wtok' = [wtok EXCEPT ![w] = None]
        /\ wnew' = [wnew EXCEPT ![w] = None] /\ UNCHANGED <<last, registered>>
    BY <1>17 DEF RequeueDone, EndRequeue, ads
  <2>2. wtok'[w] = None /\ wnew'[w] = None /\ wpc'[w] = "idle"
    BY <2>1 DEF WorkerType
  <2>3. \A v \in Workers \ {w} : wtok'[v] = wtok[v] /\ wnew'[v] = wnew[v] /\ wpc'[v] = wpc[v]
    BY <2>1 DEF WorkerType
  <2>4. ASSUME NEW x \in Workers, NEW y \in Workers, wnew'[x] # None
        PROVE  wtok'[y] # wnew'[x] /\ (wnew'[y] = wnew'[x] => y = x)
    BY <2>2, <2>3, <2>4
  <2>5. ASSUME NEW x \in Workers, x # w
        PROVE  /\ wtok'[x] = None <=> wpc'[x] = "idle"
               /\ wtok'[x] <= last'
               /\ wpc'[x] \notin {"idle", "claimed"} => wtok'[x] \in registered'
               /\ wpc'[x] = "claimed" => wtok'[x] \notin registered'
               /\ wnew'[x] # None <=> wpc'[x] \in Requeueing
               /\ wnew'[x] <= last' /\ wnew'[x] \notin registered'
    BY <2>1, <2>3, <2>5
  <2>6. 0 <= last' /\ 0 \notin registered'
    BY <2>1 DEF PoolType, EntriesOK
  <2>. QED
    BY <2>1, <2>2, <2>4, <2>5, <2>6
<1>18. ASSUME NEW w \in Workers, RequeueLost(w) PROVE WorkersOK'
  <2>1. /\ wpc' = [wpc EXCEPT ![w] = "idle"] /\ wtok' = [wtok EXCEPT ![w] = None]
        /\ wnew' = [wnew EXCEPT ![w] = None] /\ UNCHANGED <<last, registered>>
    BY <1>18 DEF RequeueLost, EndRequeue, ads
  <2>2. wtok'[w] = None /\ wnew'[w] = None /\ wpc'[w] = "idle"
    BY <2>1 DEF WorkerType
  <2>3. \A v \in Workers \ {w} : wtok'[v] = wtok[v] /\ wnew'[v] = wnew[v] /\ wpc'[v] = wpc[v]
    BY <2>1 DEF WorkerType
  <2>4. ASSUME NEW x \in Workers, NEW y \in Workers, wnew'[x] # None
        PROVE  wtok'[y] # wnew'[x] /\ (wnew'[y] = wnew'[x] => y = x)
    BY <2>2, <2>3, <2>4
  <2>5. ASSUME NEW x \in Workers, x # w
        PROVE  /\ wtok'[x] = None <=> wpc'[x] = "idle"
               /\ wtok'[x] <= last'
               /\ wpc'[x] \notin {"idle", "claimed"} => wtok'[x] \in registered'
               /\ wpc'[x] = "claimed" => wtok'[x] \notin registered'
               /\ wnew'[x] # None <=> wpc'[x] \in Requeueing
               /\ wnew'[x] <= last' /\ wnew'[x] \notin registered'
    BY <2>1, <2>3, <2>5
  <2>6. 0 <= last' /\ 0 \notin registered'
    BY <2>1 DEF PoolType, EntriesOK
  <2>. QED
    BY <2>1, <2>2, <2>4, <2>5, <2>6
<1>19. ASSUME NEW w \in Workers, SettleStale(w) PROVE WorkersOK'
  BY <1>19 DEF SettleStale, Release, WorkerType, ads
<1>20. ASSUME NEW w \in Workers, Settle(w) PROVE WorkersOK'
  BY <1>20 DEF Settle, Release, WorkerType, ads
<1>21. CASE \E id \in Ids : 
         Admit(id) \/ Ripen(id) \/ PauseNothing(id) \/ ShutNormalise(id)
  <2>1. UNCHANGED <<last, registered, wpc, wtok, wnew>>
    BY <1>21 DEF
       Admit, Ripen, PauseNothing, ShutNormalise, Release, EndRequeue, Leave
  <2>. QED
    BY <2>1
<1>22. CASE \E w \in Workers : 
         Fill(w)
  <2>1. UNCHANGED <<last, registered, wpc, wtok, wnew>>
    BY <1>22 DEF
       Fill, Release, EndRequeue, Leave
  <2>. QED
    BY <2>1
<1>23. CASE \E c \in Callers : \E id \in Ids : 
         PauseQueued(c, id) \/ PauseFind(c, id) \/ CancelLock(c, id)
      \/ Extract(c, id)
  <2>1. UNCHANGED <<last, registered, wpc, wtok, wnew>>
    BY <1>23 DEF
       PauseQueued, PauseFind, CancelLock, Extract, Release, EndRequeue,
       Leave
  <2>. QED
    BY <2>1
<1>24. CASE \E c \in Callers : 
         PauseSkips(c) \/ PauseJoins(c) \/ PauseMark(c) \/ PauseGate(c)
      \/ PauseSet(c) \/ CancelStop(c) \/ CancelWait(c) \/ CancelReturn(c)
      \/ ReAddRefused(c)
  <2>1. UNCHANGED <<last, registered, wpc, wtok, wnew>>
    BY <1>24 DEF
       PauseSkips, PauseJoins, PauseMark, PauseGate, PauseSet, CancelStop,
       CancelWait, CancelReturn, ReAddRefused, Release, EndRequeue, Leave
  <2>. QED
    BY <2>1
<1>25. CASE \E c \in Callers : \E t \in Tokens : 
         CancelCross(c, t)
  <2>1. UNCHANGED <<last, registered, wpc, wtok, wnew>>
    BY <1>25 DEF
       CancelCross, Release, EndRequeue, Leave
  <2>. QED
    BY <2>1
<1>26. CASE ShutStart \/ ShutSweep \/ ShutPolled \/ ShutForced \/ ShutWaited \/ ShutDrained
  <2>1. UNCHANGED <<last, registered, wpc, wtok, wnew>>
    BY <1>26 DEF
       ShutStart, ShutSweep, ShutPolled, ShutForced, ShutWaited, ShutDrained,
       Release, EndRequeue, Leave
  <2>. QED
    BY <2>1
<1>27. CASE UNCHANGED vars
  BY <1>27 DEF vars
<1>. QED
  BY
     <1>1, <1>2, <1>3, <1>4, <1>5, <1>6, <1>7, <1>8, <1>9, <1>10, <1>11,
     <1>12, <1>13, <1>14, <1>15, <1>16, <1>17, <1>18, <1>19, <1>20, <1>21,
     <1>22, <1>23, <1>24, <1>25, <1>26, <1>27
  DEF Next, WorkerStep, CallerStep, ShutStep

\* inFlight names the one worker that will settle the entry.
LEMMA InFlightOKStep ==
  ASSUME IInv, [Next]_vars
  PROVE  InFlightOK'
<1>. USE PoolAssumption DEF InFlightOK, IsQueued, None, workers, pool
<1>. InFlightOK /\ WorkersOK /\ WorkerType /\ EntriesOK /\ PoolType
  BY DEF IInv, TypeOK
<1>1. ASSUME NEW id \in Ids, AddNew(id) PROVE InFlightOK'
  <2>1. Mint(id, last + 1, 0) /\ UNCHANGED <<wpc, wtok, wnew>>
    BY <1>1 DEF AddNew, AddEntry, workers
  <2>2. last + 1 \in Tokens /\ 0 \in 0..MaxRetries
    BY <2>1 DEF Mint, Tokens, PoolType
  <2>. QED
    BY <2>1, <2>2, FreshInFlight
<1>2. ASSUME NEW c \in Callers, ReAdd(c) PROVE InFlightOK'
  <2>1. UNCHANGED <<wpc, wtok, wnew>>
    BY <1>2 DEF ReAdd, workers
  <2>. QED
    BY <1>2, <2>1, ReAdds, FreshInFlight
<1>3. ASSUME NEW id \in Ids, Admit(id) PROVE InFlightOK'
  BY <1>3 DEF Admit, PoolType, Task, workers
<1>4. ASSUME NEW id \in Ids, Ripen(id) PROVE InFlightOK'
  BY <1>4 DEF Ripen, PoolType, Task, workers
<1>5. ASSUME NEW w \in Workers, Claim(w) PROVE InFlightOK'
  <2>1. PICK id \in Ids :
          /\ IsQueued(id) /\ ~queued[id].inFlight
          /\ queued[id].tok \in 1..last
          /\ queued' = [queued EXCEPT ![id] = Task(queued[id].tok, TRUE, TRUE,
                                                  queued[id].admitted)]
          /\ wtok' = [wtok EXCEPT ![w] = queued[id].tok]
    BY <1>5, Claims
  <2>2. wpc[w] = "idle" /\ wpc' = [wpc EXCEPT ![w] = "claimed"] /\ UNCHANGED wnew
    BY <1>5 DEF Claim
  <2>3. ASSUME NEW x \in Ids, x # id, IsQueued(x) PROVE queued[x].tok # queued[id].tok
    BY <2>1, <2>3 DEF EntriesOK
  <2>4. ASSUME NEW v \in Workers, wtok[v] = queued[id].tok PROVE FALSE
    BY <2>1, <2>4
  <2>. QED
    BY <2>1, <2>2, <2>3, <2>4 DEF PoolType, WorkerType, WorkersOK, Task
<1>6. ASSUME NEW w \in Workers, Void(w) PROVE InFlightOK'
  <2>1. ASSUME NEW x \in Ids, IsQueued(x) PROVE queued[x].tok # wtok[w]
    BY <1>6, <2>1 DEF Void, EntriesOK
  <2>2. /\ wpc[w] = "claimed" /\ wpc' = [wpc EXCEPT ![w] = "idle"]
        /\ wtok' = [wtok EXCEPT ![w] = None] /\ UNCHANGED <<queued, wnew>>
    BY <1>6 DEF Void, Release
  <2>. QED
    BY <2>1, <2>2 DEF WorkerType
<1>7. ASSUME NEW w \in Workers, Register(w) PROVE InFlightOK'
  <2>1. ASSUME NEW x \in Ids, IsQueued(x)' PROVE queued'[x] = queued[x] /\ queued[x].tok # wtok[w]
    BY <1>7, <2>1 DEF Register, PoolType, EntriesOK, NotQueued, Task
  <2>2. /\ wpc[w] = "claimed" /\ wpc' = [wpc EXCEPT ![w] = "running"]
        /\ UNCHANGED <<wtok, wnew>>
    BY <1>7 DEF Register
  <2>. QED
    BY <2>1, <2>2 DEF WorkerType
<1>8. ASSUME NEW w \in Workers, NEW res \in Outcomes, RunReturns(w, res)
      PROVE InFlightOK'
  BY <1>8 DEF RunReturns, WorkerType, pool
<1>9. ASSUME NEW w \in Workers, Classify(w) PROVE InFlightOK'
  BY <1>9 DEF Classify, Branch, WorkerType, pool
<1>10. ASSUME NEW w \in Workers, Success(w) PROVE InFlightOK'
  BY <1>10 DEF Success, WorkerType, pool
<1>11. ASSUME NEW w \in Workers, PauseSend(w) PROVE InFlightOK'
  BY <1>11 DEF PauseSend, WorkerType, pool
<1>12. ASSUME NEW w \in Workers, PauseFence(w) PROVE InFlightOK'
  BY <1>12 DEF PauseFence, WorkerType, pool
<1>13. ASSUME NEW w \in Workers, PausePublish(w) PROVE InFlightOK'
  BY <1>13 DEF PausePublish, WorkerType, pool
<1>14. ASSUME NEW w \in Workers, RequeueCheck(w) PROVE InFlightOK'
  BY <1>14 DEF RequeueCheck, WorkerType, pool
<1>15. ASSUME NEW w \in Workers, RequeueSend(w) PROVE InFlightOK'
  BY <1>15 DEF RequeueSend, WorkerType, pool
<1>16. ASSUME NEW w \in Workers, Terminal(w) PROVE InFlightOK'
  BY <1>16 DEF Terminal, Ends, WorkerType, pool
<1>17. ASSUME NEW w \in Workers, TerminalSend(w) PROVE InFlightOK'
  BY <1>17 DEF TerminalSend, WorkerType, pool
<1>18. ASSUME NEW w \in Workers, Requeue(w) PROVE InFlightOK'
  <2>1. /\ last' = last + 1 /\ wpc[w] = "error" /\ wpc' = [wpc EXCEPT ![w] = "requeued"]
        /\ wnew' = [wnew EXCEPT ![w] = last + 1] /\ UNCHANGED wtok
    BY <1>18 DEF Requeue, Mint
  <2>2. /\ wtok[w] \in 1..last /\ IdOf(wtok[w]) \in Ids
        /\ RootOf(wtok[w]) \in Tokens
        /\ info[wtok[w]].tries + 1 \in 0..MaxRetries
        /\ Mint(IdOf(wtok[w]), RootOf(wtok[w]), info[wtok[w]].tries + 1)
    BY <1>18, Requeues
  <2>6. info[wtok[w]].tries + 1 > 0
    BY <2>2, Minted
  <2>8. /\ queued'[IdOf(wtok[w])].tok = last + 1 /\ queued'[IdOf(wtok[w])].inFlight
        /\ \A x \in Ids \ {IdOf(wtok[w])} : queued'[x] = queued[x]
    BY <2>2, <2>6, MintEffect
  <2>3. ASSUME NEW v \in Workers PROVE wtok[v] # last + 1 /\ wnew[v] # last + 1
    BY DEF WorkersOK, WorkerType, PoolType, Tokens
  <2>4. wnew[w] = None
    BY <2>1 DEF WorkersOK, Requeueing
  <2>5. ASSUME NEW x \in Ids, IsQueued(x) PROVE queued[x].tok # last + 1
    BY <2>5 DEF EntriesOK, PoolType, Entry, Tokens
  <2>9. wnew'[w] = last + 1 /\ \A v \in Workers \ {w} : wnew'[v] = wnew[v] /\ wpc'[v] = wpc[v]
    BY <2>1 DEF WorkerType
  <2>10. ASSUME NEW x \in Ids, IsQueued(x)', x # IdOf(wtok[w])
         PROVE  /\ queued'[x].inFlight <=>
                     \E v \in Workers : \/ wpc'[v] = "claimed" /\ wtok'[v] = queued'[x].tok
                                        \/ wnew'[v] = queued'[x].tok
                /\ \A v \in Workers : wtok'[v] = queued'[x].tok => wpc'[v] = "claimed"
    BY <2>1, <2>4, <2>5, <2>8, <2>9, <2>10
  <2>11. \A v \in Workers : wtok'[v] # last + 1
    BY <2>1, <2>3
  <2>. QED
    BY <2>2, <2>8, <2>9, <2>10, <2>11
<1>19. ASSUME NEW w \in Workers, RequeueDone(w) PROVE InFlightOK'
  <2>1. PICK id \in Ids :
          /\ queued[id].tok = wnew[w]
          /\ queued' = [queued EXCEPT ![id] = Task(queued[id].tok, FALSE, queued[id].due,
                                                  queued[id].admitted)]
    BY <1>19 DEF RequeueDone
  <2>2. /\ wpc[w] = "rqdone" /\ wpc' = [wpc EXCEPT ![w] = "idle"]
        /\ wtok' = [wtok EXCEPT ![w] = None] /\ wnew' = [wnew EXCEPT ![w] = None]
    BY <1>19 DEF RequeueDone, EndRequeue
  <2>3. wnew[w] # None /\ IsQueued(id)
    BY <2>1, <2>2 DEF WorkersOK, Requeueing
  <2>4. ASSUME NEW x \in Ids, x # id, IsQueued(x) PROVE queued[x].tok # wnew[w]
    BY <2>1, <2>3, <2>4 DEF EntriesOK
  <2>5. ASSUME NEW v \in Workers PROVE wtok[v] # wnew[w] /\ (wnew[v] = wnew[w] => v = w)
    BY <2>3 DEF WorkersOK
  <2>. QED
    BY <2>1, <2>2, <2>3, <2>4, <2>5 DEF PoolType, WorkerType, Task
<1>20. ASSUME NEW w \in Workers, RequeueLost(w) PROVE InFlightOK'
  BY <1>20 DEF RequeueLost, EndRequeue, WorkerType
<1>21. ASSUME NEW w \in Workers, SettleStale(w) PROVE InFlightOK'
  BY <1>21 DEF SettleStale, Release, WorkerType
<1>22. ASSUME NEW w \in Workers, Settle(w) PROVE InFlightOK'
  BY <1>22 DEF Settle, Release, WorkerType
<1>23. ASSUME NEW c \in Callers, NEW id \in Ids, PauseQueued(c, id)
      PROVE InFlightOK'
  BY <1>23 DEF PauseQueued, Dequeue, PoolType, NotQueued, Task, workers
<1>24. ASSUME NEW c \in Callers, NEW id \in Ids, CancelLock(c, id)
      PROVE InFlightOK'
  BY <1>24 DEF CancelLock, Dequeue, PoolType, NotQueued, Task, workers
<1>25. CASE ShutSweep
  BY <1>25 DEF ShutSweep, NotQueued, Task, workers
<1>26. CASE \E w \in Workers : 
         Fill(w)
  <2>1. UNCHANGED <<queued, wpc, wtok, wnew>>
    BY <1>26 DEF
       Fill, Release, EndRequeue, Leave
  <2>. QED
    BY <2>1
<1>27. CASE \E c \in Callers : \E id \in Ids : 
         PauseFind(c, id) \/ Extract(c, id)
  <2>1. UNCHANGED <<queued, wpc, wtok, wnew>>
    BY <1>27 DEF
       PauseFind, Extract, Release, EndRequeue, Leave
  <2>. QED
    BY <2>1
<1>28. CASE \E c \in Callers : 
         PauseSkips(c) \/ PauseJoins(c) \/ PauseMark(c) \/ PauseGate(c)
      \/ PauseSet(c) \/ CancelStop(c) \/ CancelWait(c) \/ CancelReturn(c)
      \/ ReAddRefused(c)
  <2>1. UNCHANGED <<queued, wpc, wtok, wnew>>
    BY <1>28 DEF
       PauseSkips, PauseJoins, PauseMark, PauseGate, PauseSet, CancelStop,
       CancelWait, CancelReturn, ReAddRefused, Release, EndRequeue, Leave
  <2>. QED
    BY <2>1
<1>29. CASE \E c \in Callers : \E t \in Tokens : 
         CancelCross(c, t)
  <2>1. UNCHANGED <<queued, wpc, wtok, wnew>>
    BY <1>29 DEF
       CancelCross, Release, EndRequeue, Leave
  <2>. QED
    BY <2>1
<1>30. CASE \E id \in Ids : 
         PauseNothing(id) \/ ShutNormalise(id)
  <2>1. UNCHANGED <<queued, wpc, wtok, wnew>>
    BY <1>30 DEF
       PauseNothing, ShutNormalise, Release, EndRequeue, Leave
  <2>. QED
    BY <2>1
<1>31. CASE ShutStart \/ ShutPolled \/ ShutForced \/ ShutWaited \/ ShutDrained
  <2>1. UNCHANGED <<queued, wpc, wtok, wnew>>
    BY <1>31 DEF
       ShutStart, ShutPolled, ShutForced, ShutWaited, ShutDrained, Release,
       EndRequeue, Leave
  <2>. QED
    BY <2>1
<1>32. CASE UNCHANGED vars
  BY <1>32 DEF vars
<1>. QED
  BY
     <1>1, <1>2, <1>3, <1>4, <1>5, <1>6, <1>7, <1>8, <1>9, <1>10, <1>11,
     <1>12, <1>13, <1>14, <1>15, <1>16, <1>17, <1>18, <1>19, <1>20, <1>21,
     <1>22, <1>23, <1>24, <1>25, <1>26, <1>27, <1>28, <1>29, <1>30, <1>31,
     <1>32
  DEF Next, WorkerStep, CallerStep, ShutStep

\* A claim takes a token nobody holds, and gives it back once.
LEMMA ClaimsSettledOnceStep ==
  ASSUME IInv, [Next]_vars
  PROVE  ClaimsSettledOnce'
<1>. USE PoolAssumption DEF ClaimsSettledOnce, None, workers, pool
<1>. ClaimsSettledOnce /\ WorkerType /\ InFlightOK
  BY DEF IInv, TypeOK
<1>1. ASSUME NEW w \in Workers, Claim(w) PROVE ClaimsSettledOnce'
  <2>1. PICK id \in Ids :
          /\ IsQueued(id) /\ ~queued[id].inFlight
          /\ queued[id].tok \in 1..last
          /\ busy' = busy \cup {queued[id].tok}
          /\ wtok' = [wtok EXCEPT ![w] = queued[id].tok]
    BY <1>1, Claims
  <2>2. ASSUME NEW v \in Workers PROVE wtok[v] # queued[id].tok
    BY <2>1 DEF InFlightOK
  <2>3. wtok[w] = 0
    BY <1>1 DEF Claim, IInv, WorkersOK
  <2>. DEFINE tok == queued[id].tok
  <2>4. tok # 0
    BY <2>1
  <2>5. wtok'[w] = tok /\ \A v \in Workers \ {w} : wtok'[v] = wtok[v]
    BY <2>1 DEF WorkerType
  <2>6. {wtok'[v] : v \in Workers} \ {0} = ({wtok[v] : v \in Workers} \ {0}) \cup {tok}
    BY <2>3, <2>4, <2>5
  <2>. QED
    BY <2>1, <2>2, <2>3, <2>5, <2>6 DEF ClaimsSettledOnce
<1>2. ASSUME NEW w \in Workers, Void(w) PROVE ClaimsSettledOnce'
  <2>1. busy' = busy \ {wtok[w]} /\ wtok' = [wtok EXCEPT ![w] = None]
    BY <1>2 DEF Void, Release
  <2>. QED
    BY <2>1, Released
<1>3. ASSUME NEW w \in Workers, RequeueDone(w) PROVE ClaimsSettledOnce'
  <2>1. busy' = busy \ {wtok[w]} /\ wtok' = [wtok EXCEPT ![w] = None]
    BY <1>3 DEF RequeueDone, EndRequeue
  <2>. QED
    BY <2>1, Released
<1>4. ASSUME NEW w \in Workers, RequeueLost(w) PROVE ClaimsSettledOnce'
  <2>1. busy' = busy \ {wtok[w]} /\ wtok' = [wtok EXCEPT ![w] = None]
    BY <1>4 DEF RequeueLost, EndRequeue
  <2>. QED
    BY <2>1, Released
<1>5. ASSUME NEW w \in Workers, SettleStale(w) PROVE ClaimsSettledOnce'
  <2>1. busy' = busy \ {wtok[w]} /\ wtok' = [wtok EXCEPT ![w] = None]
    BY <1>5 DEF SettleStale, Release
  <2>. QED
    BY <2>1, Released
<1>6. ASSUME NEW w \in Workers, Settle(w) PROVE ClaimsSettledOnce'
  <2>1. busy' = busy \ {wtok[w]} /\ wtok' = [wtok EXCEPT ![w] = None]
    BY <1>6 DEF Settle, Release
  <2>. QED
    BY <2>1, Released
<1>7. CASE \E id \in Ids : 
         AddNew(id) \/ Admit(id) \/ Ripen(id) \/ PauseNothing(id)
      \/ ShutNormalise(id)
  <2>1. UNCHANGED <<busy, wtok>>
    BY <1>7 DEF
       AddNew, Admit, Ripen, PauseNothing, ShutNormalise, Release,
       EndRequeue, Leave, AddEntry, Mint
  <2>. QED
    BY <2>1
<1>8. CASE \E w \in Workers : 
         Register(w) \/ Fill(w) \/ Classify(w) \/ Success(w) \/ PauseSend(w)
      \/ PauseFence(w) \/ PausePublish(w) \/ Requeue(w) \/ RequeueCheck(w)
      \/ RequeueSend(w) \/ Terminal(w) \/ TerminalSend(w)
  <2>1. UNCHANGED <<busy, wtok>>
    <3>1. PICK w \in Workers :
         Register(w) \/ Fill(w) \/ Classify(w) \/ Success(w) \/
         PauseSend(w) \/ PauseFence(w) \/ PausePublish(w) \/
         Requeue(w) \/ RequeueCheck(w) \/ RequeueSend(w) \/
         Terminal(w) \/ TerminalSend(w)
      BY <1>8
    <3>2. CASE Register(w) \/ Fill(w) \/ Classify(w) \/ Success(w) \/ PauseSend(w)
      BY <3>2 DEF Register, Fill, Classify, Success, PauseSend, Release,
         EndRequeue, Leave, AddEntry, Mint
    <3>3. CASE PauseFence(w) \/ PausePublish(w) \/ Requeue(w) \/ RequeueCheck(w) \/ RequeueSend(w)
      BY <3>3 DEF PauseFence, PausePublish, Requeue, RequeueCheck,
         RequeueSend, Release, EndRequeue, Leave, AddEntry, Mint
    <3>4. CASE Terminal(w) \/ TerminalSend(w)
      BY <3>4 DEF Terminal, TerminalSend, Release, EndRequeue, Leave,
         AddEntry, Mint
    <3>. QED
      BY <3>1, <3>2, <3>3, <3>4
  <2>. QED
    BY <2>1
<1>9. CASE \E w \in Workers : \E res \in Outcomes : 
         RunReturns(w, res)
  <2>1. UNCHANGED <<busy, wtok>>
    BY <1>9 DEF
       RunReturns, Release, EndRequeue, Leave, AddEntry, Mint
  <2>. QED
    BY <2>1
<1>10. CASE \E c \in Callers : \E id \in Ids : 
         PauseQueued(c, id) \/ PauseFind(c, id) \/ CancelLock(c, id)
      \/ Extract(c, id)
  <2>1. UNCHANGED <<busy, wtok>>
    BY <1>10 DEF
       PauseQueued, PauseFind, CancelLock, Extract, Release, EndRequeue,
       Leave, AddEntry, Mint
  <2>. QED
    BY <2>1
<1>11. CASE \E c \in Callers : 
         PauseSkips(c) \/ PauseJoins(c) \/ PauseMark(c) \/ PauseGate(c)
      \/ PauseSet(c) \/ CancelStop(c) \/ CancelWait(c) \/ CancelReturn(c)
      \/ ReAdd(c) \/ ReAddRefused(c)
  <2>1. UNCHANGED <<busy, wtok>>
    BY <1>11 DEF
       PauseSkips, PauseJoins, PauseMark, PauseGate, PauseSet, CancelStop,
       CancelWait, CancelReturn, ReAdd, ReAddRefused, Release, EndRequeue,
       Leave, AddEntry, Mint
  <2>. QED
    BY <2>1
<1>12. CASE \E c \in Callers : \E t \in Tokens : 
         CancelCross(c, t)
  <2>1. UNCHANGED <<busy, wtok>>
    BY <1>12 DEF
       CancelCross, Release, EndRequeue, Leave, AddEntry, Mint
  <2>. QED
    BY <2>1
<1>13. CASE ShutStart \/ ShutSweep \/ ShutPolled \/ ShutForced \/ ShutWaited \/ ShutDrained
  <2>1. UNCHANGED <<busy, wtok>>
    BY <1>13 DEF
       ShutStart, ShutSweep, ShutPolled, ShutForced, ShutWaited, ShutDrained,
       Release, EndRequeue, Leave, AddEntry, Mint
  <2>. QED
    BY <2>1
<1>14. CASE UNCHANGED vars
  BY <1>14 DEF vars
<1>. QED
  BY
     <1>1, <1>2, <1>3, <1>4, <1>5, <1>6, <1>7, <1>8, <1>9, <1>10, <1>11,
     <1>12, <1>13, <1>14
  DEF Next, WorkerStep, CallerStep, ShutStep

\* The inductive invariant holds in every reachable state.
THEOREM Inductive == Spec => []IInv
<1>1. Init => IInv
  <2>. SUFFICES ASSUME Init PROVE IInv
    OBVIOUS
  <2>1. TypeOK
    BY PoolAssumption DEF Init, TypeOK, PoolType, AdType, FlagType, WorkerType, CallerType,
       OtherType, Task, NotQueued, Entry, Info, Tokens, None, WorkerPCs, CallerPCs,
       Phases, Outcomes
  <2>2. EntriesOK /\ WorkersOK /\ CallersOK /\ InFlightOK /\ SoleOwner /\ ClaimsSettledOnce
    BY DEF Init, EntriesOK, WorkersOK, CallersOK, InFlightOK, SoleOwner, ClaimsSettledOnce,
       Task, NotQueued, IsQueued, None, Requeueing
  <2>. QED
    BY <2>1, <2>2 DEF IInv
<1>2. IInv /\ [Next]_vars => IInv'
  BY PoolTypeStep, AdTypeStep, FlagTypeStep, WorkerTypeStep, CallerTypeStep, OtherTypeStep,
     EntriesOKStep, WorkersOKStep, CallersOKStep, InFlightOKStep, SoleOwnerStep,
     ClaimsSettledOnceStep DEF IInv, TypeOK
<1>. QED
  BY <1>1, <1>2, PTL DEF Spec

\* The pool never has one ID queued and active at once (worker loop,
\* scheduler.go:1336-1353: the occupied branch is dead).
THEOREM OneOwnerPerId == Spec => []SoleOwner
<1>1. IInv => SoleOwner
  BY DEF IInv
<1>. QED
  BY <1>1, Inductive, PTL

\* Each busy slot belongs to exactly one worker, from waitForTask to
\* releaseBusyLocked (scheduler.go:291-305).
THEOREM EveryClaimSettledOnce == Spec => []ClaimsSettledOnce
<1>1. IInv => ClaimsSettledOnce
  BY DEF IInv
<1>. QED
  BY <1>1, Inductive, PTL

-----------------------------------------------------------------------------
(* The wait group. *)

Idle == {id \in Ids : IsQueued(id) /\ ~queued[id].inFlight}
Claimants == {w \in Workers : wtok[w] # None}

\* Both counts are numbers, and the wait group is their sum.
LEMMA Sums ==
  /\ IsFiniteSet(Idle) /\ IsFiniteSet(Claimants)
  /\ Cardinality(Idle) \in Nat /\ Cardinality(Claimants) \in Nat
  /\ WgBalance <=> wg = Cardinality(Idle) + Cardinality(Claimants)
<1>1. IsFiniteSet(Idle) /\ IsFiniteSet(Claimants)
  BY PoolAssumption, FS_Subset DEF Idle, Claimants
<1>. QED
  BY <1>1, FS_CardinalityType DEF WgBalance, Idle, Claimants

\* The same after a step
LEMMA SumsNext ==
  WgBalance' <=> wg' = Cardinality(Idle') + Cardinality(Claimants')
BY DEF WgBalance, Idle, Claimants

\* A step that changes neither set leaves the balance.
LEMMA Even ==
  ASSUME WgBalance, Idle' = Idle, Claimants' = Claimants, wg' = wg
  PROVE  WgBalance'
BY Sums, SumsNext

\* The entry of one ID changes.
LEMMA IdleOf ==
  ASSUME NEW id \in Ids, \A x \in Ids \ {id} : queued'[x] = queued[x]
  PROVE  /\ (IsQueued(id) /\ ~queued[id].inFlight)' => Idle' = Idle \cup {id}
         /\ ~(IsQueued(id) /\ ~queued[id].inFlight)' => Idle' = Idle \ {id}
<1>1. \A x \in Ids \ {id} : (IsQueued(x) /\ ~queued[x].inFlight)'
                              <=> IsQueued(x) /\ ~queued[x].inFlight
  BY DEF IsQueued
<1>. QED
  BY <1>1 DEF Idle

\* A worker takes a token, or gives it back.
LEMMA ClaimantsOf ==
  ASSUME WorkerType, NEW w \in Workers, NEW t, wtok' = [wtok EXCEPT ![w] = t]
  PROVE  /\ t # None => Claimants' = Claimants \cup {w}
         /\ t = None => Claimants' = Claimants \ {w}
<1>1. wtok'[w] = t /\ \A v \in Workers \ {w} : wtok'[v] = wtok[v]
  BY DEF WorkerType
<1>. QED
  BY <1>1 DEF Claimants

\* A claim ends and its count with it.
LEMMA GivenBack ==
  ASSUME IInv, WgBalance, NEW w \in Workers, wpc[w] # "idle",
         wtok' = [wtok EXCEPT ![w] = None], wg' = wg - 1, queued' = queued
  PROVE  WgBalance'
<1>1. w \in Claimants
  BY DEF Claimants, IInv, WorkersOK
<1>2. Claimants' = Claimants \ {w}
  BY ClaimantsOf DEF IInv, TypeOK
<1>3. Cardinality(Claimants') = Cardinality(Claimants) - 1
  BY <1>1, <1>2, Sums, FS_RemoveElement
<1>4. Idle' = Idle
  BY DEF Idle, IsQueued
<1>. QED
  BY <1>3, <1>4, Sums, SumsNext

\* Add counts the new entry.
LEMMA AddCounts ==
  ASSUME IInv, WgBalance, NEW id \in Ids, NEW root \in Tokens, AddEntry(id, root),
         UNCHANGED wtok
  PROVE  WgBalance'
<1>1. Mint(id, root, 0) /\ ~IsQueued(id) /\ wg' = wg + 1 /\ PoolType
  BY DEF AddEntry, Addable, IInv, TypeOK
<1>2. 0 \in 0..MaxRetries
  BY PoolAssumption
<1>3. /\ queued'[id].tok = last + 1 /\ ~queued'[id].inFlight /\ last + 1 \in Tokens
      /\ \A x \in Ids \ {id} : queued'[x] = queued[x]
  BY <1>1, <1>2, MintEffect
<1>4. Idle' = Idle \cup {id} /\ id \notin Idle
  BY <1>1, <1>3, IdleOf DEF Idle, IsQueued, Tokens, None
<1>5. Cardinality(Idle') = Cardinality(Idle) + 1
  BY <1>4, Sums, FS_AddElement
<1>6. Claimants' = Claimants
  BY DEF Claimants
<1>. QED
  BY <1>1, <1>5, <1>6, Sums, SumsNext

\* Whoever takes an entry out settles its count unless a worker will.
LEMMA DequeueCounts ==
  ASSUME IInv, WgBalance, NEW id \in Ids, Dequeue(id), UNCHANGED wtok
  PROVE  WgBalance'
<1>1. queued'[id] = NotQueued /\ \A x \in Ids \ {id} : queued'[x] = queued[x]
  BY DEF Dequeue, IInv, TypeOK, PoolType
<1>2. Idle' = Idle \ {id}
  BY <1>1, IdleOf DEF IsQueued, NotQueued, Task
<1>3. Cardinality(Idle') = IF id \in Idle THEN Cardinality(Idle) - 1 ELSE Cardinality(Idle)
  BY <1>2, Sums, FS_RemoveElement
<1>4. Claimants' = Claimants
  BY DEF Claimants
<1>5. wg' = IF id \in Idle THEN wg - 1 ELSE wg
  BY DEF Dequeue, Idle
<1>. QED
  BY <1>3, <1>4, <1>5, Sums, SumsNext

\* A claim moves the count of an entry from the queue to the worker.
LEMMA ClaimCounts ==
  ASSUME IInv, WgBalance, NEW w \in Workers, Claim(w)
  PROVE  WgBalance'
<1>1. PICK id \in Ids :
        /\ IsQueued(id) /\ ~queued[id].inFlight
        /\ queued' = [queued EXCEPT ![id] = Task(@.tok, TRUE, TRUE, @.admitted)]
        /\ wtok' = [wtok EXCEPT ![w] = queued[id].tok]
  BY DEF Claim, Eligible
<1>2. /\ queued'[id].inFlight /\ \A x \in Ids \ {id} : queued'[x] = queued[x]
  BY <1>1 DEF IInv, TypeOK, PoolType, Task
<1>3. Idle' = Idle \ {id} /\ id \in Idle
  BY <1>1, <1>2, IdleOf DEF Idle
<1>4. Claimants' = Claimants \cup {w}
  BY <1>1, ClaimantsOf DEF IsQueued, IInv, TypeOK
<1>5. w \notin Claimants /\ wg' = wg
  BY DEF Claim, Claimants, IInv, WorkersOK
<1>6. /\ Cardinality(Idle') = Cardinality(Idle) - 1
      /\ Cardinality(Claimants') = Cardinality(Claimants) + 1
  BY <1>3, <1>4, <1>5, Sums, FS_AddElement, FS_RemoveElement
<1>. QED
  BY <1>5, <1>6, Sums, SumsNext

\* A registration takes out an entry that was in flight.
LEMMA RegisterCounts ==
  ASSUME IInv, WgBalance, NEW w \in Workers, Register(w)
  PROVE  WgBalance'
<1>1. wpc[w] = "claimed" /\ wtok' = wtok /\ wg' = wg
  BY DEF Register
<1>2. wtok[w] \in 1..last
  BY <1>1, WorkerHolds
<1>3. IdOf(wtok[w]) \in Ids /\ wtok[w] # None
  BY <1>2, Minted DEF IInv, TypeOK
<1>. PICK id \in Ids : id = IdOf(wtok[w])
  BY <1>3
<1>4. queued[id].tok = wtok[w] /\ queued' = [queued EXCEPT ![id] = NotQueued]
  BY DEF Register
<1>5. IsQueued(id) /\ queued[id].inFlight
  BY <1>1, <1>3, <1>4 DEF IsQueued, IInv, InFlightOK
<1>6. queued'[id] = NotQueued /\ \A x \in Ids \ {id} : queued'[x] = queued[x]
  BY <1>4 DEF IInv, TypeOK, PoolType
<1>7. Idle' = Idle \ {id} /\ id \notin Idle
  BY <1>5, <1>6, IdleOf DEF Idle, IsQueued, NotQueued, Task
<1>8. Idle' = Idle /\ Claimants' = Claimants
  BY <1>1, <1>7 DEF Claimants
<1>. QED
  BY <1>1, <1>8, Even

\* A retry is in flight: its count is the one of the run it follows.
LEMMA RequeueCounts ==
  ASSUME IInv, WgBalance, NEW w \in Workers, Requeue(w)
  PROVE  WgBalance'
<1>1. /\ IdOf(wtok[w]) \in Ids /\ RootOf(wtok[w]) \in Tokens
      /\ info[wtok[w]].tries + 1 \in 0..MaxRetries
      /\ Mint(IdOf(wtok[w]), RootOf(wtok[w]), info[wtok[w]].tries + 1)
      /\ ~IsQueued(IdOf(wtok[w])) /\ wtok[w] \in 1..last
  BY Requeues
<1>. PICK id \in Ids : id = IdOf(wtok[w])
  BY <1>1
<1>2. PoolType /\ info[wtok[w]].tries + 1 > 0
  BY <1>1, Minted DEF IInv, TypeOK
<1>3. queued'[id].inFlight /\ \A x \in Ids \ {id} : queued'[x] = queued[x]
  BY <1>1, <1>2, MintEffect
<1>4. Idle' = Idle \ {id} /\ id \notin Idle
  BY <1>1, <1>3, IdleOf DEF Idle
<1>5. Claimants' = Claimants /\ wg' = wg
  BY DEF Requeue, Claimants
<1>. QED
  BY <1>4, <1>5, Even

\* The retry is let go: the worker's count becomes the entry's.
LEMMA RequeueDoneCounts ==
  ASSUME IInv, WgBalance, NEW w \in Workers, RequeueDone(w)
  PROVE  WgBalance'
<1>1. /\ wpc[w] = "rqdone" /\ wtok' = [wtok EXCEPT ![w] = None] /\ wg' = wg
  BY DEF RequeueDone, EndRequeue
<1>2. PICK id \in Ids :
        /\ queued[id].tok = wnew[w]
        /\ queued' = [queued EXCEPT ![id] = Task(@.tok, FALSE, @.due, @.admitted)]
  BY DEF RequeueDone
<1>3. /\ queued'[id] = Task(queued[id].tok, FALSE, queued[id].due, queued[id].admitted)
      /\ \A x \in Ids \ {id} : queued'[x] = queued[x]
  BY <1>2 DEF IInv, TypeOK, PoolType
<1>4. wnew[w] # None
  BY <1>1 DEF IInv, WorkersOK, Requeueing
<1>5. IsQueued(id) /\ queued[id].inFlight
  BY <1>2, <1>4 DEF IsQueued, IInv, InFlightOK
<1>6. Idle' = Idle \cup {id} /\ id \notin Idle
  BY <1>3, <1>5, IdleOf DEF Idle, IsQueued, Task
<1>7. w \in Claimants /\ Claimants' = Claimants \ {w}
  BY <1>1, ClaimantsOf DEF Claimants, IInv, TypeOK, WorkersOK
<1>8. /\ Cardinality(Idle') = Cardinality(Idle) + 1
      /\ Cardinality(Claimants') = Cardinality(Claimants) - 1
  BY <1>6, <1>7, Sums, FS_AddElement, FS_RemoveElement
<1>. QED
  BY <1>1, <1>8, Sums, SumsNext

\* The sweep of GracefulShutdown settles the counts of all idle entries.
LEMMA SweepCounts ==
  ASSUME WgBalance, ShutSweep
  PROVE  WgBalance'
<1>1. wg' = wg - Cardinality(Idle)
  BY DEF ShutSweep, Idle
<1>2. Idle' = {} /\ Claimants' = Claimants
  BY DEF ShutSweep, Idle, IsQueued, NotQueued, Task, Claimants, workers
<1>3. Cardinality(Idle') = 0
  BY <1>2, FS_EmptySet
<1>. QED
  BY <1>1, <1>2, <1>3, Sums, SumsNext

\* An Admit or a ripening retry stays in flight or not.
LEMMA MarksOnly ==
  ASSUME IInv, WgBalance, NEW id \in Ids, Admit(id) \/ Ripen(id)
  PROVE  WgBalance'
<1>1. UNCHANGED <<wg, wtok>>
  BY DEF Admit, Ripen, workers
<1>2. \A x \in Ids : /\ queued'[x].tok = queued[x].tok
                     /\ queued'[x].inFlight <=> queued[x].inFlight
  <2>. PoolType
    BY DEF IInv, TypeOK
  <2>1. CASE Admit(id)
    BY <2>1 DEF Admit, PoolType, Entry, Task
  <2>2. CASE Ripen(id)
    BY <2>2 DEF Ripen, PoolType, Entry, Task
  <2>. QED
    BY <2>1, <2>2
<1>3. Idle' = Idle /\ Claimants' = Claimants
  BY <1>1, <1>2 DEF Idle, IsQueued, Claimants
<1>. QED
  BY <1>1, <1>3, Even

\* The balance is inductive, given who answers for what.
LEMMA WgStep ==
  ASSUME IInv, WgBalance, [Next]_vars
  PROVE  WgBalance'
<1>1. ASSUME UNCHANGED <<queued, wtok, wg>> PROVE WgBalance'
  <2>1. Idle' = Idle /\ Claimants' = Claimants
    BY <1>1 DEF Idle, IsQueued, Claimants
  <2>. QED
    BY <1>1, <2>1, Even
<1>2. ASSUME NEW id \in Ids, AddNew(id) PROVE WgBalance'
  <2>1. last + 1 \in Tokens
    BY <1>2, PoolAssumption DEF AddNew, AddEntry, Mint, IInv, TypeOK, PoolType, Tokens
  <2>. QED
    BY <1>2, <2>1, AddCounts DEF AddNew, workers
<1>3. ASSUME NEW w \in Workers, Void(w) \/ RequeueLost(w) \/ SettleStale(w) \/ Settle(w)
      PROVE  WgBalance'
  <2>1. /\ wpc[w] \in {"claimed", "rqdone", "error", "tail"}
        /\ wtok' = [wtok EXCEPT ![w] = None] /\ wg' = wg - 1 /\ queued' = queued
    BY <1>3 DEF Void, RequeueLost, SettleStale, Settle, Release, EndRequeue
  <2>. QED
    BY <2>1, GivenBack
<1>4. ASSUME NEW w \in Workers,
             \/ Fill(w) \/ (\E res \in Outcomes : RunReturns(w, res)) \/ Classify(w)
             \/ Success(w) \/ PauseSend(w) \/ PauseFence(w) \/ PausePublish(w)
             \/ RequeueCheck(w) \/ RequeueSend(w) \/ Terminal(w) \/ TerminalSend(w)
      PROVE  WgBalance'
  <2>1. UNCHANGED <<queued, wtok, wg>>
    <3>1. CASE \/ Fill(w) \/ (\E res \in Outcomes : RunReturns(w, res)) \/ Classify(w)
               \/ Success(w) \/ PauseSend(w) \/ PauseFence(w)
      BY <3>1 DEF Fill, RunReturns, Classify, Success, PauseSend, PauseFence, pool, workers
    <3>2. CASE \/ PausePublish(w) \/ RequeueCheck(w) \/ RequeueSend(w)
               \/ Terminal(w) \/ TerminalSend(w)
      BY <3>2 DEF PausePublish, RequeueCheck, RequeueSend, Terminal, TerminalSend, pool
    <3>. QED
      BY <1>4, <3>1, <3>2
  <2>. QED
    BY <1>1, <2>1
<1>5. ASSUME NEW w \in Workers, WorkerStep(w) PROVE WgBalance'
  BY <1>3, <1>4, <1>5, ClaimCounts, RegisterCounts, RequeueCounts, RequeueDoneCounts
  DEF WorkerStep
<1>6. ASSUME NEW c \in Callers, CallerStep(c) PROVE WgBalance'
  <2>1. ASSUME NEW id \in Ids, PauseQueued(c, id) \/ CancelLock(c, id) PROVE WgBalance'
    BY <2>1, DequeueCounts DEF PauseQueued, CancelLock, workers
  <2>2. CASE ReAdd(c)
    <3>1. ctok[c] \in 1..last /\ PoolType
      BY <2>2, CallerHolds DEF ReAdd, IInv, TypeOK
    <3>2. IdOf(ctok[c]) \in Ids /\ RootOf(ctok[c]) \in Tokens
      BY <3>1, Minted
    <3>. QED
      BY <2>2, <3>2, AddCounts DEF ReAdd, workers
  <2>3. CASE \/ \E id \in Ids : PauseFind(c, id) \/ Extract(c, id)
             \/ PauseSkips(c) \/ PauseJoins(c) \/ PauseMark(c) \/ PauseGate(c)
             \/ PauseSet(c)
    <3>1. UNCHANGED <<queued, wtok, wg>>
      BY <2>3 DEF PauseFind, Extract, PauseSkips, PauseJoins, PauseMark, PauseGate, PauseSet,
         pool, workers
    <3>. QED
      BY <1>1, <3>1
  <2>4. CASE \/ CancelStop(c) \/ CancelWait(c) \/ CancelReturn(c) \/ ReAddRefused(c)
             \/ \E t \in Tokens : CancelCross(c, t)
    <3>1. UNCHANGED <<queued, wtok, wg>>
      BY <2>4 DEF CancelStop, CancelWait, CancelReturn, ReAddRefused, CancelCross, pool, workers
    <3>. QED
      BY <1>1, <3>1
  <2>. QED
    BY <1>6, <2>1, <2>2, <2>3, <2>4 DEF CallerStep
<1>7. ASSUME ShutStep PROVE WgBalance'
  <2>1. CASE \/ \E id \in Ids : PauseNothing(id) \/ ShutNormalise(id)
             \/ ShutStart \/ ShutPolled \/ ShutForced \/ ShutWaited \/ ShutDrained
    <3>1. UNCHANGED <<queued, wtok, wg>>
      BY <2>1 DEF PauseNothing, ShutNormalise, ShutStart, ShutPolled, ShutForced, ShutWaited,
         ShutDrained, pool, workers
    <3>. QED
      BY <1>1, <3>1
  <2>. QED
    BY <1>7, <2>1, SweepCounts DEF ShutStep
<1>8. CASE UNCHANGED vars
  BY <1>1, <1>8 DEF vars, pool, workers
<1>. QED
  BY <1>2, <1>5, <1>6, <1>7, <1>8, MarksOnly DEF Next

\* The wait group is exact in every reachable state: it is zero when, and only
\* when, no entry waits in the queue and no worker holds a claim (Add, Pause, Cancel, the worker loop and the sweep, scheduler.go:559-2071).
THEOREM WaitGroupExact == Spec => []WgBalance
<1>1. Init => WgBalance
  <2>. SUFFICES ASSUME Init PROVE WgBalance
    OBVIOUS
  <2>1. Idle = {} /\ Claimants = {} /\ wg = 0
    BY DEF Init, Idle, IsQueued, NotQueued, Task, Claimants
  <2>. QED
    BY <2>1, Sums, FS_EmptySet
<1>2. IInv /\ WgBalance /\ [Next]_vars => WgBalance'
  BY WgStep
<1>. QED
  BY <1>1, <1>2, Inductive, PTL DEF Spec

-----------------------------------------------------------------------------
(* After the sweep. *)

\* Nothing is queued once the pool has stopped, a run that has not ended has a
\* worker, and after wg.Wait no worker holds a claim.
StopInv ==
  /\ Stopping => \A id \in Ids : ~IsQueued(id)
  /\ \A t \in Running : \E w \in Workers : wtok[w] = t /\ wpc[w] = "running"
  /\ sd \in {"draining", "done"} => \A w \in Workers : wtok[w] = None

\* The phases go forward: only the sweep stops the pool, and only wg.Wait
\* leads to the drain.
LEMMA PhasesAdvance ==
  ASSUME [Next]_vars
  PROVE  /\ Stopping' => Stopping \/ ShutSweep
         /\ sd' \in {"draining", "done"} => sd \in {"draining", "done"} \/ ShutWaited
<1>1. CASE UNCHANGED sd
  BY <1>1 DEF Stopping
<1>2. CASE ShutStep
  BY <1>2 DEF ShutStep, PauseNothing, ShutNormalise, ShutStart, ShutSweep, ShutPolled,
     ShutForced, ShutWaited, ShutDrained, Stopping, shutdown
<1>3. ASSUME NEW w \in Workers, WorkerStep(w) PROVE UNCHANGED sd
  <2>1. CASE \/ Claim(w) \/ Void(w) \/ Register(w) \/ Fill(w)
             \/ (\E res \in Outcomes : RunReturns(w, res)) \/ Classify(w)
             \/ Success(w) \/ PauseSend(w) \/ PauseFence(w) \/ PausePublish(w)
    BY <2>1 DEF Claim, Void, Register, Fill, RunReturns, Classify, Success, PauseSend,
       PauseFence, PausePublish, shutdown
  <2>2. CASE \/ Requeue(w) \/ RequeueCheck(w) \/ RequeueSend(w) \/ RequeueDone(w)
             \/ RequeueLost(w) \/ SettleStale(w) \/ Terminal(w) \/ TerminalSend(w) \/ Settle(w)
    BY <2>2 DEF Requeue, RequeueCheck, RequeueSend, RequeueDone, RequeueLost, EndRequeue,
       SettleStale, Terminal, TerminalSend, Settle, shutdown
  <2>. QED
    BY <1>3, <2>1, <2>2 DEF WorkerStep
<1>4. ASSUME NEW c \in Callers, CallerStep(c) PROVE UNCHANGED sd
  <2>1. CASE \E id \in Ids : PauseQueued(c, id) \/ PauseFind(c, id)
                             \/ CancelLock(c, id) \/ Extract(c, id)
    BY <2>1 DEF PauseQueued, PauseFind, CancelLock, Extract, shutdown
  <2>2. CASE \/ PauseSkips(c) \/ PauseJoins(c) \/ PauseMark(c) \/ PauseGate(c) \/ PauseSet(c)
             \/ CancelStop(c) \/ CancelWait(c) \/ CancelReturn(c)
             \/ (\E t \in Tokens : CancelCross(c, t)) \/ ReAdd(c) \/ ReAddRefused(c)
    BY <2>2 DEF PauseSkips, PauseJoins, PauseMark, PauseGate, PauseSet, CancelStop,
       CancelWait, CancelReturn, CancelCross, ReAdd, ReAddRefused, shutdown
  <2>. QED
    BY <1>4, <2>1, <2>2 DEF CallerStep
<1>5. ASSUME NEW id \in Ids, AddNew(id) \/ Admit(id) \/ Ripen(id) PROVE UNCHANGED sd
  BY <1>5 DEF AddNew, Admit, Ripen, shutdown
<1>6. ASSUME UNCHANGED vars PROVE UNCHANGED sd
  BY <1>6 DEF vars, shutdown
<1>. QED
  BY <1>1, <1>2, <1>3, <1>4, <1>5, <1>6 DEF Next

\* A stopped pool with an empty queue takes no entry in and makes no claim.
LEMMA NothingNew ==
  ASSUME IInv, Stopping, \A id \in Ids : ~IsQueued(id), [Next]_vars
  PROVE  /\ \A id \in Ids : ~IsQueued(id)'
         /\ \A w \in Workers : wtok'[w] \in {wtok[w], None}
<1>. PoolType /\ WorkerType
  BY DEF IInv, TypeOK
<1>1. ASSUME UNCHANGED <<queued, wtok>>
      PROVE  /\ \A id \in Ids : ~IsQueued(id)'
             /\ \A w \in Workers : wtok'[w] \in {wtok[w], None}
  BY <1>1 DEF IsQueued
<1>2. ASSUME NEW id \in Ids, AddNew(id) \/ Admit(id) \/ Ripen(id) PROVE FALSE
  BY <1>2 DEF AddNew, AddEntry, Addable, Admit, Ripen
<1>3. ASSUME NEW w \in Workers, Claim(w) \/ Register(w) \/ Requeue(w) \/ RequeueDone(w)
      PROVE  FALSE
  <2>1. CASE Claim(w) \/ Requeue(w)
    BY <2>1 DEF Claim, Requeue, Retryable
  <2>2. CASE Register(w)
    <3>1. wpc[w] = "claimed" /\ queued[IdOf(wtok[w])].tok = wtok[w]
      BY <2>2 DEF Register
    <3>2. wtok[w] \in 1..last
      BY <3>1, WorkerHolds
    <3>3. IdOf(wtok[w]) \in Ids /\ wtok[w] # None
      BY <3>2, Minted
    <3>. QED
      BY <3>1, <3>3 DEF IsQueued
  <2>3. CASE RequeueDone(w)
    <3>1. wpc[w] = "rqdone" /\ \E id \in Ids : queued[id].tok = wnew[w]
      BY <2>3 DEF RequeueDone, EndRequeue
    <3>2. wnew[w] # None
      BY <3>1 DEF IInv, WorkersOK, Requeueing
    <3>. QED
      BY <3>1, <3>2 DEF IsQueued
  <2>. QED
    BY <1>3, <2>1, <2>2, <2>3
<1>4. ASSUME NEW w \in Workers, Void(w) \/ RequeueLost(w) \/ SettleStale(w) \/ Settle(w)
      PROVE  /\ \A id \in Ids : ~IsQueued(id)'
             /\ \A v \in Workers : wtok'[v] \in {wtok[v], None}
  <2>1. wtok' = [wtok EXCEPT ![w] = None] /\ queued' = queued
    BY <1>4 DEF Void, RequeueLost, SettleStale, Settle, Release, EndRequeue
  <2>. QED
    BY <2>1 DEF IsQueued, WorkerType
<1>5. ASSUME NEW w \in Workers,
             \/ Fill(w) \/ (\E res \in Outcomes : RunReturns(w, res)) \/ Classify(w)
             \/ Success(w) \/ PauseSend(w) \/ PauseFence(w) \/ PausePublish(w)
             \/ RequeueCheck(w) \/ RequeueSend(w) \/ Terminal(w) \/ TerminalSend(w)
      PROVE  UNCHANGED <<queued, wtok>>
  <2>1. CASE \/ Fill(w) \/ (\E res \in Outcomes : RunReturns(w, res)) \/ Classify(w)
             \/ Success(w) \/ PauseSend(w) \/ PauseFence(w)
    BY <2>1 DEF Fill, RunReturns, Classify, Success, PauseSend, PauseFence, pool, workers
  <2>2. CASE \/ PausePublish(w) \/ RequeueCheck(w) \/ RequeueSend(w)
             \/ Terminal(w) \/ TerminalSend(w)
    BY <2>2 DEF PausePublish, RequeueCheck, RequeueSend, Terminal, TerminalSend, pool
  <2>. QED
    BY <1>5, <2>1, <2>2
<1>6. ASSUME NEW c \in Callers, CallerStep(c)
      PROVE  /\ \A id \in Ids : ~IsQueued(id)'
             /\ \A w \in Workers : wtok'[w] \in {wtok[w], None}
  <2>1. ASSUME NEW id \in Ids, PauseQueued(c, id) PROVE FALSE
    BY <2>1 DEF PauseQueued
  <2>2. ASSUME NEW id \in Ids, CancelLock(c, id)
        PROVE  UNCHANGED wtok /\ \A x \in Ids : ~IsQueued(x)'
    BY <2>2 DEF CancelLock, Dequeue, IsQueued, NotQueued, Task, PoolType, workers
  <2>3. CASE ReAdd(c)
    BY <2>3 DEF ReAdd, AddEntry, Addable
  <2>4. CASE \/ \E id \in Ids : PauseFind(c, id) \/ Extract(c, id)
             \/ PauseSkips(c) \/ PauseJoins(c) \/ PauseMark(c) \/ PauseGate(c)
             \/ PauseSet(c)
    <3>1. UNCHANGED <<queued, wtok>>
      BY <2>4 DEF PauseFind, Extract, PauseSkips, PauseJoins, PauseMark, PauseGate, PauseSet,
         pool, workers
    <3>. QED
      BY <1>1, <3>1
  <2>5. CASE \/ CancelStop(c) \/ CancelWait(c) \/ CancelReturn(c) \/ ReAddRefused(c)
             \/ \E t \in Tokens : CancelCross(c, t)
    <3>1. UNCHANGED <<queued, wtok>>
      BY <2>5 DEF CancelStop, CancelWait, CancelReturn, ReAddRefused, CancelCross, pool, workers
    <3>. QED
      BY <1>1, <3>1
  <2>. QED
    BY <1>6, <2>1, <2>2, <2>3, <2>4, <2>5 DEF CallerStep
<1>7. ASSUME ShutStep
      PROVE  /\ \A id \in Ids : ~IsQueued(id)'
             /\ \A w \in Workers : wtok'[w] \in {wtok[w], None}
  <2>1. CASE \/ \E id \in Ids : PauseNothing(id) \/ ShutNormalise(id)
             \/ ShutStart \/ ShutPolled \/ ShutForced \/ ShutWaited \/ ShutDrained
    <3>1. UNCHANGED <<queued, wtok>>
      BY <2>1 DEF PauseNothing, ShutNormalise, ShutStart, ShutPolled, ShutForced, ShutWaited,
         ShutDrained, pool, workers
    <3>. QED
      BY <1>1, <3>1
  <2>2. CASE ShutSweep
    BY <2>2 DEF ShutSweep, Stopping
  <2>. QED
    BY <1>7, <2>1, <2>2 DEF ShutStep
<1>8. CASE UNCHANGED vars
  BY <1>1, <1>8 DEF vars, pool, workers
<1>. QED
  BY <1>1, <1>2, <1>3, <1>4, <1>5, <1>6, <1>7, <1>8 DEF Next, WorkerStep

\* A run that has not ended stays with its worker.
LEMMA RunHeld ==
  ASSUME IInv, [Next]_vars,
         \A t \in Running : \E w \in Workers : wtok[w] = t /\ wpc[w] = "running"
  PROVE  \A t \in Running' : \E w \in Workers : wtok'[w] = t /\ wpc'[w] = "running"
<1> DEFINE Held == \A t \in Running' : \E w \in Workers : wtok'[w] = t /\ wpc'[w] = "running"
<1>. WorkerType
  BY DEF IInv, TypeOK
<1>1. ASSUME UNCHANGED <<registered, ended>>,
             \A w \in Workers : wpc[w] = "running"
                                  => wpc'[w] = "running" /\ wtok'[w] = wtok[w]
      PROVE  Held
  BY <1>1 DEF Running
<1>2. ASSUME NEW w \in Workers, NEW pc, wpc[w] # "running",
             wpc' = [wpc EXCEPT ![w] = pc],
             wtok' = wtok \/ (\E t : wtok' = [wtok EXCEPT ![w] = t]),
             UNCHANGED <<registered, ended>>
      PROVE  Held
  <2>1. \A v \in Workers \ {w} : wpc'[v] = wpc[v] /\ wtok'[v] = wtok[v]
    BY <1>2 DEF WorkerType
  <2>. QED
    BY <1>1, <1>2, <2>1
<1>3. ASSUME UNCHANGED <<registered, ended, wpc, wtok>> PROVE Held
  BY <1>1, <1>3
<1>4. ASSUME NEW w \in Workers, Register(w) PROVE Held
  <2>1. /\ wpc[w] = "claimed" /\ wpc' = [wpc EXCEPT ![w] = "running"] /\ wtok' = wtok
        /\ registered' = registered \cup {wtok[w]} /\ ended' = ended
    BY <1>4 DEF Register
  <2>2. wpc'[w] = "running" /\ \A v \in Workers : wpc[v] = "running" => wpc'[v] = "running"
    BY <2>1 DEF WorkerType
  <2>. QED
    BY <2>1, <2>2 DEF Running
<1>5. ASSUME NEW w \in Workers, NEW res \in Outcomes, RunReturns(w, res) PROVE Held
  <2>1. /\ wpc[w] = "running" /\ wpc' = [wpc EXCEPT ![w] = "returned"] /\ wtok' = wtok
        /\ registered' = registered /\ ended' = ended \cup {wtok[w]}
    BY <1>5 DEF RunReturns
  <2>2. \A v \in Workers \ {w} : wpc'[v] = wpc[v]
    BY <2>1 DEF WorkerType
  <2>. QED
    BY <2>1, <2>2 DEF Running
<1>6. ASSUME NEW w \in Workers, Fill(w) PROVE Held
  BY <1>3, <1>6 DEF Fill, ads, workers
<1>7. ASSUME NEW w \in Workers,
             \/ Claim(w) \/ Void(w) \/ Classify(w) \/ Success(w) \/ PauseSend(w)
             \/ PauseFence(w) \/ PausePublish(w) \/ Requeue(w)
      PROVE  Held
  <2>1. /\ wpc[w] # "running" /\ UNCHANGED <<registered, ended>>
        /\ \E pc : wpc' = [wpc EXCEPT ![w] = pc]
        /\ wtok' = wtok \/ (\E t : wtok' = [wtok EXCEPT ![w] = t])
    BY <1>7 DEF Claim, Void, Release, Classify, Success, PauseSend, PauseFence, PausePublish,
       Requeue, ads
  <2>. QED
    BY <1>2, <2>1
<1>8. ASSUME NEW w \in Workers,
             \/ RequeueCheck(w) \/ RequeueSend(w) \/ RequeueDone(w) \/ RequeueLost(w)
             \/ SettleStale(w) \/ Terminal(w) \/ TerminalSend(w) \/ Settle(w)
      PROVE  Held
  <2>1. /\ wpc[w] # "running" /\ UNCHANGED <<registered, ended>>
        /\ \E pc : wpc' = [wpc EXCEPT ![w] = pc]
        /\ wtok' = wtok \/ (\E t : wtok' = [wtok EXCEPT ![w] = t])
    BY <1>8 DEF RequeueCheck, RequeueSend, RequeueDone, RequeueLost, EndRequeue, SettleStale,
       Release, Terminal, Ends, TerminalSend, Settle, ads
  <2>. QED
    BY <1>2, <2>1
<1>9. ASSUME NEW c \in Callers, CallerStep(c) PROVE UNCHANGED <<registered, ended, wpc, wtok>>
  <2>1. CASE \E id \in Ids : PauseQueued(c, id) \/ PauseFind(c, id)
                             \/ CancelLock(c, id) \/ Extract(c, id)
    BY <2>1 DEF PauseQueued, PauseFind, CancelLock, Extract, ads, workers
  <2>2. CASE PauseSkips(c) \/ PauseJoins(c) \/ PauseMark(c) \/ PauseGate(c) \/ PauseSet(c)
    BY <2>2 DEF PauseSkips, PauseJoins, PauseMark, PauseGate, PauseSet, ads, workers
  <2>3. CASE \/ CancelStop(c) \/ CancelWait(c) \/ CancelReturn(c)
             \/ (\E t \in Tokens : CancelCross(c, t)) \/ ReAdd(c) \/ ReAddRefused(c)
    BY <2>3 DEF CancelStop, CancelWait, CancelReturn, CancelCross, ReAdd, ReAddRefused, ads,
       workers
  <2>. QED
    BY <1>9, <2>1, <2>2, <2>3 DEF CallerStep
<1>10. ASSUME ShutStep PROVE UNCHANGED <<registered, ended, wpc, wtok>>
  BY <1>10 DEF ShutStep, PauseNothing, ShutNormalise, ShutStart, ShutSweep, ShutPolled,
     ShutForced, ShutWaited, ShutDrained, ads, workers
<1>11. ASSUME NEW id \in Ids, AddNew(id) \/ Admit(id) \/ Ripen(id)
       PROVE  UNCHANGED <<registered, ended, wpc, wtok>>
  BY <1>11 DEF AddNew, Admit, Ripen, ads, workers
<1>12. ASSUME UNCHANGED vars PROVE UNCHANGED <<registered, ended, wpc, wtok>>
  BY <1>12 DEF vars, ads, workers
<1>13. Held
  BY <1>3, <1>4, <1>5, <1>6, <1>7, <1>8, <1>9, <1>10, <1>11, <1>12 DEF Next, WorkerStep
<1>. QED
  BY <1>13

\* What the sweep and wg.Wait establish stays.
LEMMA StopStep ==
  ASSUME IInv, WgBalance, StopInv, [Next]_vars
  PROVE  StopInv'
<1>1. ASSUME Stopping' PROVE \A id \in Ids : ~IsQueued(id)'
  <2>1. CASE Stopping
    BY <2>1, NothingNew DEF StopInv
  <2>2. CASE ShutSweep
    BY <2>2 DEF ShutSweep, IsQueued, NotQueued, Task
  <2>. QED
    BY <1>1, <2>1, <2>2, PhasesAdvance
<1>2. ASSUME sd' \in {"draining", "done"}, NEW w \in Workers PROVE wtok'[w] = None
  <2>1. CASE sd \in {"draining", "done"}
    BY <2>1, NothingNew DEF StopInv, Stopping
  <2>2. CASE ShutWaited
    <3>1. wg = 0 /\ wtok' = wtok
      BY <2>2 DEF ShutWaited, workers
    <3>2. Cardinality(Claimants) = 0
      BY <3>1, Sums
    <3>3. Claimants = {}
      BY <3>2, Sums, FS_EmptySet
    <3>. QED
      BY <3>1, <3>3 DEF Claimants
  <2>. QED
    BY <1>2, <2>1, <2>2, PhasesAdvance
<1>3. \A t \in Running' : \E w \in Workers : wtok'[w] = t /\ wpc'[w] = "running"
  BY RunHeld DEF StopInv
<1>. QED
  BY <1>1, <1>2, <1>3 DEF StopInv

\* When GracefulShutdown has returned nothing is queued, no run goes on, every
\* claim is settled and every worker is at rest (GracefulShutdown,
\* scheduler.go:2005-2084).
THEOREM ShutdownLeavesNothing == Spec => []ShutdownQuiescent
<1>1. Init => StopInv
  BY DEF Init, StopInv, Stopping, Running
<1>2. IInv /\ WgBalance /\ StopInv /\ [Next]_vars => StopInv'
  BY StopStep
<1>3. IInv /\ WgBalance /\ StopInv => ShutdownQuiescent
  <2>. SUFFICES ASSUME IInv, WgBalance, StopInv, sd = "done"
                PROVE  /\ busy = {} /\ wg = 0 /\ Running = {}
                       /\ \A id \in Ids : ~IsQueued(id)
                       /\ \A w \in Workers : wpc[w] = "idle"
    BY DEF ShutdownQuiescent
  <2>1. \A id \in Ids : ~IsQueued(id)
    BY DEF StopInv, Stopping
  <2>2. \A w \in Workers : wtok[w] = None
    BY DEF StopInv
  <2>3. \A w \in Workers : wpc[w] = "idle"
    BY <2>2 DEF IInv, WorkersOK
  <2>4. busy = {}
    BY <2>2 DEF IInv, ClaimsSettledOnce
  <2>5. Running = {}
    BY <2>3 DEF StopInv
  <2>6. Idle = {} /\ Claimants = {}
    BY <2>1, <2>2 DEF Idle, Claimants
  <2>7. wg = 0
    BY <2>6, Sums, FS_EmptySet
  <2>. QED
    BY <2>1, <2>3, <2>4, <2>5, <2>7
<1>. QED
  BY <1>1, <1>2, <1>3, Inductive, WaitGroupExact, PTL DEF Spec

-----------------------------------------------------------------------------
(* Cancel: what a step does to each worker, caller and queue entry. *)

PastRun == WorkerPCs \ {"idle", "claimed", "running"}
Cancelling == {"cstop", "cwait", "ccross"}
Announced == gone \cup UNION {cgone[c] : c \in Callers}

\* A worker changes its own place only.
LEMMA OneWorker ==
  ASSUME WorkerType, NEW u \in Workers, NEW w \in Workers, NEW pc,
         wpc' = [wpc EXCEPT ![u] = pc],
         wtok' = wtok \/ (\E t : wtok' = [wtok EXCEPT ![u] = t])
  PROVE  /\ w # u => wpc'[w] = wpc[w] /\ wtok'[w] = wtok[w]
         /\ wpc'[u] = pc
BY DEF WorkerType

\* A worker stays, comes to rest, claims, registers, returns from its run, or
\* goes on after the run; from there it enters a fence only for a claim that
\* nobody has cancelled or removed.
LEMMA WorkerMoves ==
  ASSUME IInv, [Next]_vars, NEW w \in Workers
  PROVE  \/ wpc'[w] = wpc[w] /\ wtok'[w] = wtok[w]
         \/ wpc'[w] = "idle" /\ wtok'[w] = None
         \/ wpc'[w] = "claimed" /\ wpc[w] = "idle" /\ Claim(w)
         \/ Register(w)
         \/ \E res \in Outcomes : RunReturns(w, res)
         \/ /\ wtok'[w] = wtok[w] /\ wpc[w] \in PastRun /\ wpc'[w] \in PastRun
            /\ wpc'[w] \in {"rqsend", "terminal"} => ~HlsClaimed(w)
<1> DEFINE Moved ==
      \/ wpc'[w] = wpc[w] /\ wtok'[w] = wtok[w]
      \/ wpc'[w] = "idle" /\ wtok'[w] = None
      \/ wpc'[w] = "claimed" /\ wpc[w] = "idle" /\ Claim(w)
      \/ Register(w)
      \/ \E res \in Outcomes : RunReturns(w, res)
      \/ /\ wtok'[w] = wtok[w] /\ wpc[w] \in PastRun /\ wpc'[w] \in PastRun
         /\ wpc'[w] \in {"rqsend", "terminal"} => ~HlsClaimed(w)
<1>. WorkerType
  BY DEF IInv, TypeOK
<1>1. ASSUME UNCHANGED <<wpc, wtok>> PROVE Moved
  BY <1>1
<1>2. ASSUME NEW u \in Workers, Register(u) \/ (\E res \in Outcomes : RunReturns(u, res))
      PROVE  Moved
  <2>1. wtok' = wtok /\ \E pc : wpc' = [wpc EXCEPT ![u] = pc]
    BY <1>2 DEF Register, RunReturns
  <2>. QED
    BY <1>2, <2>1, OneWorker
<1>3. ASSUME NEW u \in Workers, Claim(u) PROVE Moved
  <2>1. /\ wpc[u] = "idle" /\ wpc' = [wpc EXCEPT ![u] = "claimed"]
        /\ \E t : wtok' = [wtok EXCEPT ![u] = t]
    BY <1>3 DEF Claim
  <2>. QED
    BY <1>3, <2>1, OneWorker
<1>4. ASSUME NEW u \in Workers,
             Void(u) \/ SettleStale(u) \/ Settle(u) \/ RequeueDone(u) \/ RequeueLost(u)
      PROVE  Moved
  <2>1. wpc' = [wpc EXCEPT ![u] = "idle"] /\ wtok' = [wtok EXCEPT ![u] = None]
    BY <1>4 DEF Void, SettleStale, Settle, RequeueDone, RequeueLost, Release, EndRequeue
  <2>2. wtok'[u] = None
    BY <2>1 DEF WorkerType
  <2>. QED
    BY <2>1, <2>2, OneWorker
<1>5. ASSUME NEW u \in Workers,
             \/ Classify(u) \/ Success(u) \/ PauseSend(u) \/ PauseFence(u)
             \/ PausePublish(u) \/ Requeue(u) \/ RequeueSend(u) \/ TerminalSend(u)
      PROVE  Moved
  <2>1. /\ wtok' = wtok /\ wpc[u] \in PastRun
        /\ \E pc \in PastRun \ {"rqsend", "terminal"} : wpc' = [wpc EXCEPT ![u] = pc]
    <3>1. CASE Classify(u)
      <4>1. Branch(u) \in PastRun \ {"rqsend", "terminal"}
        BY DEF Branch, PastRun, WorkerPCs
      <4>. QED
        BY <3>1, <4>1 DEF Classify, PastRun, WorkerPCs
    <3>2. CASE Success(u) \/ PauseSend(u) \/ PauseFence(u) \/ PausePublish(u)
      BY <3>2 DEF Success, PauseSend, PauseFence, PausePublish, PastRun, WorkerPCs
    <3>3. CASE Requeue(u) \/ RequeueSend(u) \/ TerminalSend(u)
      BY <3>3 DEF Requeue, RequeueSend, TerminalSend, PastRun, WorkerPCs
    <3>. QED
      BY <1>5, <3>1, <3>2, <3>3
  <2>. PICK pc \in PastRun \ {"rqsend", "terminal"} : wpc' = [wpc EXCEPT ![u] = pc]
    BY <2>1
  <2>. QED
    BY <2>1, OneWorker
<1>6. ASSUME NEW u \in Workers, RequeueCheck(u) \/ Terminal(u) PROVE Moved
  <2>0. {"requeued", "rqsend", "rqdone", "error", "terminal", "tail"} \subseteq PastRun
    BY DEF PastRun, WorkerPCs
  <2>1. /\ wtok' = wtok /\ wpc[u] \in PastRun
        /\ \E pc \in PastRun : /\ wpc' = [wpc EXCEPT ![u] = pc]
                               /\ pc \in {"rqsend", "terminal"} => ~HlsClaimed(u)
    <3>1. CASE RequeueCheck(u)
      <4>1. wpc[u] = "requeued" /\ wtok' = wtok
        BY <3>1 DEF RequeueCheck
      <4>2. CASE HlsClaimed(u)
        <5>1. wpc' = [wpc EXCEPT ![u] = "rqdone"]
          BY <3>1, <4>2 DEF RequeueCheck
        <5>. QED
          BY <2>0, <4>1, <5>1
      <4>3. CASE ~HlsClaimed(u)
        <5>1. wpc' = [wpc EXCEPT ![u] = "rqsend"]
          BY <3>1, <4>3 DEF RequeueCheck
        <5>. QED
          BY <2>0, <4>1, <4>3, <5>1
      <4>. QED
        BY <4>2, <4>3
    <3>2. CASE Terminal(u)
      <4>1. wpc[u] = "error" /\ wtok' = wtok
        BY <3>2 DEF Terminal, Ends
      <4>2. CASE Silent(u)
        <5>1. wpc' = [wpc EXCEPT ![u] = "tail"]
          BY <3>2, <4>2 DEF Terminal
        <5>. QED
          BY <2>0, <4>1, <5>1
      <4>3. CASE ~Silent(u)
        <5>1. wpc' = [wpc EXCEPT ![u] = "terminal"]
          BY <3>2, <4>3 DEF Terminal
        <5>. QED
          BY <2>0, <4>1, <4>3, <5>1 DEF Silent
      <4>. QED
        BY <4>2, <4>3
    <3>. QED
      BY <1>6, <3>1, <3>2
  <2>. PICK pc \in PastRun : /\ wpc' = [wpc EXCEPT ![u] = pc]
                             /\ pc \in {"rqsend", "terminal"} => ~HlsClaimed(u)
    BY <2>1
  <2>. QED
    BY <2>1, OneWorker
<1>7. ASSUME NEW u \in Workers, Fill(u) PROVE UNCHANGED <<wpc, wtok>>
  BY <1>7 DEF Fill, workers
<1>8. ASSUME NEW c \in Callers, CallerStep(c) PROVE UNCHANGED <<wpc, wtok>>
  <2>1. CASE \E id \in Ids : PauseQueued(c, id) \/ PauseFind(c, id)
                             \/ CancelLock(c, id) \/ Extract(c, id)
    BY <2>1 DEF PauseQueued, PauseFind, CancelLock, Extract, workers
  <2>2. CASE PauseSkips(c) \/ PauseJoins(c) \/ PauseMark(c) \/ PauseGate(c) \/ PauseSet(c)
    BY <2>2 DEF PauseSkips, PauseJoins, PauseMark, PauseGate, PauseSet, workers
  <2>3. CASE \/ CancelStop(c) \/ CancelWait(c) \/ CancelReturn(c)
             \/ (\E t \in Tokens : CancelCross(c, t)) \/ ReAdd(c) \/ ReAddRefused(c)
    BY <2>3 DEF CancelStop, CancelWait, CancelReturn, CancelCross, ReAdd, ReAddRefused, workers
  <2>. QED
    BY <1>8, <2>1, <2>2, <2>3 DEF CallerStep
<1>9. ASSUME ShutStep PROVE UNCHANGED <<wpc, wtok>>
  BY <1>9 DEF ShutStep, PauseNothing, ShutNormalise, ShutStart, ShutSweep, ShutPolled,
     ShutForced, ShutWaited, ShutDrained, workers
<1>10. ASSUME NEW id \in Ids, AddNew(id) \/ Admit(id) \/ Ripen(id) PROVE UNCHANGED <<wpc, wtok>>
  BY <1>10 DEF AddNew, Admit, Ripen, workers
<1>11. ASSUME UNCHANGED vars PROVE UNCHANGED <<wpc, wtok>>
  BY <1>11 DEF vars, workers
<1>12. Moved
  <2>. HIDE DEF Moved
  <2>. QED
    BY <1>1, <1>2, <1>3, <1>4, <1>5, <1>6, <1>7, <1>8, <1>9, <1>10, <1>11 DEF Next, WorkerStep
<1>. QED
  BY <1>12

\* A caller stays, goes through a pause or a resume, or takes a step of Cancel.
LEMMA CallerMoves ==
  ASSUME IInv, [Next]_vars, NEW c \in Callers
  PROVE  \/ UNCHANGED <<cpc[c], cclaims[c], cgone[c]>>
         \/ /\ cpc[c] \notin Cancelling /\ cpc'[c] \notin Cancelling
            /\ cgone'[c] = cgone[c]
         \/ \E id \in Ids : CancelLock(c, id)
         \/ CancelStop(c) \/ CancelWait(c) \/ CancelReturn(c)
         \/ \E t \in Tokens : CancelCross(c, t)
<1> DEFINE Moved ==
      \/ UNCHANGED <<cpc[c], cclaims[c], cgone[c]>>
      \/ /\ cpc[c] \notin Cancelling /\ cpc'[c] \notin Cancelling
         /\ cgone'[c] = cgone[c]
      \/ \E id \in Ids : CancelLock(c, id)
      \/ CancelStop(c) \/ CancelWait(c) \/ CancelReturn(c)
      \/ \E t \in Tokens : CancelCross(c, t)
<1>. CallerType
  BY DEF IInv, TypeOK
<1>1. ASSUME UNCHANGED <<cpc, cclaims, cgone>> PROVE Moved
  BY <1>1
<1>2. ASSUME NEW d \in Callers, NEW pc, cpc[d] \notin Cancelling, pc \notin Cancelling,
             cpc' = [cpc EXCEPT ![d] = pc], UNCHANGED <<cclaims, cgone>>
      PROVE  Moved
  BY <1>2 DEF CallerType
<1>3. ASSUME NEW d \in Callers,
             \/ (\E id \in Ids : CancelLock(d, id))
             \/ CancelStop(d) \/ CancelWait(d) \/ CancelReturn(d)
             \/ (\E t \in Tokens : CancelCross(d, t))
      PROVE  Moved
  <2>1. d # c => UNCHANGED <<cpc[c], cclaims[c], cgone[c]>>
    BY <1>3 DEF CancelLock, CancelStop, CancelWait, CancelReturn, CancelCross, CallerType
  <2>. QED
    BY <1>3, <2>1
<1>4. ASSUME NEW d \in Callers,
             \/ \E id \in Ids : PauseFind(d, id) \/ Extract(d, id)
             \/ PauseSkips(d) \/ PauseJoins(d) \/ PauseMark(d) \/ PauseGate(d)
             \/ PauseSet(d) \/ ReAdd(d) \/ ReAddRefused(d)
      PROVE  Moved
  <2>1. /\ cpc[d] \notin Cancelling /\ UNCHANGED <<cclaims, cgone>>
        /\ \E pc : pc \notin Cancelling /\ cpc' = [cpc EXCEPT ![d] = pc]
    <3>1. CASE \E id \in Ids : PauseFind(d, id) \/ Extract(d, id)
      BY <3>1 DEF PauseFind, MayPause, Extract, Cancelling
    <3>2. CASE PauseSkips(d) \/ PauseJoins(d) \/ PauseSet(d) \/ ReAdd(d) \/ ReAddRefused(d)
      BY <3>2 DEF PauseSkips, PauseJoins, PauseSet, ReAdd, ReAddRefused, Leave, Cancelling
    <3>3. CASE PauseMark(d) \/ PauseGate(d)
      BY <3>3 DEF PauseMark, PauseGate, Cancelling
    <3>. QED
      BY <1>4, <3>1, <3>2, <3>3
  <2>. QED
    BY <1>2, <2>1
<1>5. ASSUME NEW d \in Callers, NEW id \in Ids, PauseQueued(d, id)
      PROVE  UNCHANGED <<cpc, cclaims, cgone>>
  BY <1>5 DEF PauseQueued, callers
<1>6. ASSUME NEW w \in Workers, WorkerStep(w) PROVE UNCHANGED <<cpc, cclaims, cgone>>
  <2>1. CASE \/ Claim(w) \/ Void(w) \/ Register(w) \/ Fill(w)
             \/ (\E res \in Outcomes : RunReturns(w, res)) \/ Classify(w)
             \/ Success(w) \/ PauseSend(w) \/ PauseFence(w) \/ PausePublish(w)
    BY <2>1 DEF Claim, Void, Register, Fill, RunReturns, Classify, Success, PauseSend,
       PauseFence, PausePublish, callers
  <2>2. CASE \/ Requeue(w) \/ RequeueCheck(w) \/ RequeueSend(w) \/ RequeueDone(w)
             \/ RequeueLost(w) \/ SettleStale(w) \/ Terminal(w) \/ TerminalSend(w) \/ Settle(w)
    BY <2>2 DEF Requeue, RequeueCheck, RequeueSend, RequeueDone, RequeueLost, EndRequeue,
       SettleStale, Terminal, TerminalSend, Settle, callers
  <2>. QED
    BY <1>6, <2>1, <2>2 DEF WorkerStep
<1>7. ASSUME ShutStep PROVE UNCHANGED <<cpc, cclaims, cgone>>
  BY <1>7 DEF ShutStep, PauseNothing, ShutNormalise, ShutStart, ShutSweep, ShutPolled,
     ShutForced, ShutWaited, ShutDrained, callers
<1>8. ASSUME NEW id \in Ids, AddNew(id) \/ Admit(id) \/ Ripen(id)
      PROVE  UNCHANGED <<cpc, cclaims, cgone>>
  BY <1>8 DEF AddNew, Admit, Ripen, callers
<1>9. ASSUME UNCHANGED vars PROVE UNCHANGED <<cpc, cclaims, cgone>>
  BY <1>9 DEF vars, callers
<1>10. Moved
  <2>. HIDE DEF Moved
  <2>. QED
    BY <1>1, <1>3, <1>4, <1>5, <1>6, <1>7, <1>8, <1>9 DEF Next, CallerStep
<1>. QED
  BY <1>10

\* A token keeps the ID it was minted for.
LEMMA TokensKept ==
  ASSUME IInv, [Next]_vars
  PROVE  /\ last <= last'
         /\ \A t \in 1..last : t \in 1..last' /\ IdOf(t)' = IdOf(t) /\ (IsHls(t)' <=> IsHls(t))
<1>. last \in Nat /\ PoolType
  BY PoolAssumption DEF IInv, TypeOK, PoolType
<1>1. ASSUME UNCHANGED <<last, info>>
      PROVE  last <= last' /\ \A t \in 1..last : t \in 1..last' /\ IdOf(t)' = IdOf(t)
  BY <1>1 DEF IdOf
<1>2. ASSUME NEW id \in Ids, NEW root \in Tokens, NEW tries \in 0..MaxRetries,
             Mint(id, root, tries)
      PROVE  last <= last' /\ \A t \in 1..last : t \in 1..last' /\ IdOf(t)' = IdOf(t)
  BY <1>2, MintEffect DEF IdOf
<1>3. ASSUME NEW id \in Ids, AddNew(id)
      PROVE  last <= last' /\ \A t \in 1..last : t \in 1..last' /\ IdOf(t)' = IdOf(t)
  <2>1. last + 1 \in Tokens /\ Mint(id, last + 1, 0) /\ 0 \in 0..MaxRetries
    BY <1>3, PoolAssumption DEF AddNew, AddEntry, Mint, Tokens, PoolType
  <2>. QED
    BY <1>2, <2>1
<1>4. ASSUME NEW id \in Ids, Admit(id) \/ Ripen(id) PROVE UNCHANGED <<last, info>>
  BY <1>4 DEF Admit, Ripen
<1>5. ASSUME NEW w \in Workers, WorkerStep(w), ~Requeue(w) PROVE UNCHANGED <<last, info>>
  <2>1. CASE \/ Claim(w) \/ Void(w) \/ Register(w) \/ Fill(w)
             \/ (\E res \in Outcomes : RunReturns(w, res)) \/ Classify(w)
             \/ Success(w) \/ PauseSend(w) \/ PauseFence(w) \/ PausePublish(w)
    BY <2>1 DEF Claim, Void, Register, Fill, RunReturns, Classify, Success, PauseSend,
       PauseFence, PausePublish, pool
  <2>2. CASE \/ RequeueCheck(w) \/ RequeueSend(w) \/ RequeueDone(w)
             \/ RequeueLost(w) \/ SettleStale(w) \/ Terminal(w) \/ TerminalSend(w) \/ Settle(w)
    BY <2>2 DEF RequeueCheck, RequeueSend, RequeueDone, RequeueLost, EndRequeue,
       SettleStale, Terminal, TerminalSend, Settle, pool
  <2>. QED
    BY <1>5, <2>1, <2>2 DEF WorkerStep
<1>6. ASSUME NEW c \in Callers, CallerStep(c), ~ReAdd(c) PROVE UNCHANGED <<last, info>>
  <2>1. CASE \E id \in Ids : PauseQueued(c, id) \/ PauseFind(c, id)
                             \/ CancelLock(c, id) \/ Extract(c, id)
    BY <2>1 DEF PauseQueued, PauseFind, CancelLock, Extract, pool
  <2>2. CASE PauseSkips(c) \/ PauseJoins(c) \/ PauseMark(c) \/ PauseGate(c) \/ PauseSet(c)
    BY <2>2 DEF PauseSkips, PauseJoins, PauseMark, PauseGate, PauseSet, pool
  <2>3. CASE \/ CancelStop(c) \/ CancelWait(c) \/ CancelReturn(c)
             \/ (\E t \in Tokens : CancelCross(c, t)) \/ ReAddRefused(c)
    BY <2>3 DEF CancelStop, CancelWait, CancelReturn, CancelCross, ReAddRefused, pool
  <2>. QED
    BY <1>6, <2>1, <2>2, <2>3 DEF CallerStep
<1>7. ASSUME ShutStep PROVE UNCHANGED <<last, info>>
  BY <1>7 DEF ShutStep, PauseNothing, ShutNormalise, ShutStart, ShutSweep, ShutPolled,
     ShutForced, ShutWaited, ShutDrained, pool
<1>8. ASSUME UNCHANGED vars PROVE UNCHANGED <<last, info>>
  BY <1>8 DEF vars, pool
<1>9. last <= last' /\ \A t \in 1..last : t \in 1..last' /\ IdOf(t)' = IdOf(t)
  BY <1>1, <1>2, <1>3, <1>4, <1>5, <1>6, <1>7, <1>8, Requeues, ReAdds DEF Next
<1>. QED
  BY <1>9 DEF IsHls

\* An entry of the queue keeps its token, leaves, or is a new opportunity.
LEMMA QueueMoves ==
  ASSUME IInv, [Next]_vars, NEW id \in Ids
  PROVE  queued'[id].tok \in {queued[id].tok, None, last + 1}
<1> DEFINE Moved == queued'[id].tok \in {queued[id].tok, None, last + 1}
<1>. PoolType
  BY DEF IInv, TypeOK
<1>1. ASSUME UNCHANGED queued PROVE Moved
  BY <1>1
<1>2. ASSUME NEW x \in Ids, NEW e, queued' = [queued EXCEPT ![x] = e],
             e.tok \in {queued[x].tok, None, last + 1}
      PROVE  Moved
  BY <1>2 DEF PoolType
<1>3. ASSUME NEW x \in Ids, NEW root, NEW tries, Mint(x, root, tries) PROVE Moved
  BY <1>2, <1>3 DEF Mint, Task
<1>4. ASSUME NEW x \in Ids, Dequeue(x) PROVE Moved
  BY <1>2, <1>4 DEF Dequeue, NotQueued, Task
<1>5. ASSUME NEW x \in Ids, AddNew(x) \/ Admit(x) \/ Ripen(x) PROVE Moved
  BY <1>2, <1>3, <1>5 DEF AddNew, AddEntry, Admit, Ripen, Task
<1>6. ASSUME NEW w \in Workers, Claim(w) \/ Register(w) \/ Requeue(w) \/ RequeueDone(w)
      PROVE  Moved
  <2>1. CASE Claim(w)
    BY <1>2, <2>1, Claims DEF Task
  <2>2. CASE Register(w)
    <3>1. wtok[w] \in 1..last
      BY <2>2, WorkerHolds DEF Register
    <3>2. IdOf(wtok[w]) \in Ids
      BY <3>1, Minted
    <3>. QED
      BY <1>2, <2>2, <3>2 DEF Register, NotQueued, Task
  <2>3. CASE Requeue(w)
    BY <1>3, <2>3, Requeues
  <2>4. CASE RequeueDone(w)
    BY <1>2, <2>4 DEF RequeueDone, Task
  <2>. QED
    BY <1>6, <2>1, <2>2, <2>3, <2>4
<1>7. ASSUME NEW w \in Workers, WorkerStep(w),
             ~(Claim(w) \/ Register(w) \/ Requeue(w) \/ RequeueDone(w))
      PROVE  UNCHANGED queued
  <2>1. CASE \/ Void(w) \/ Fill(w)
             \/ (\E res \in Outcomes : RunReturns(w, res)) \/ Classify(w)
             \/ Success(w) \/ PauseSend(w) \/ PauseFence(w) \/ PausePublish(w)
    BY <2>1 DEF Void, Fill, RunReturns, Classify, Success, PauseSend, PauseFence,
       PausePublish, pool
  <2>2. CASE \/ RequeueCheck(w) \/ RequeueSend(w)
             \/ RequeueLost(w) \/ SettleStale(w) \/ Terminal(w) \/ TerminalSend(w) \/ Settle(w)
    BY <2>2 DEF RequeueCheck, RequeueSend, RequeueLost, SettleStale, Terminal, TerminalSend,
       Settle, pool
  <2>. QED
    BY <1>7, <2>1, <2>2 DEF WorkerStep
<1>8. ASSUME NEW c \in Callers, CallerStep(c) PROVE Moved
  <2>1. ASSUME NEW x \in Ids, PauseQueued(c, x) \/ CancelLock(c, x) PROVE Moved
    BY <1>4, <2>1 DEF PauseQueued, CancelLock
  <2>2. CASE ReAdd(c)
    BY <1>3, <2>2, ReAdds
  <2>3. CASE \/ \E x \in Ids : PauseFind(c, x) \/ Extract(c, x)
             \/ PauseSkips(c) \/ PauseJoins(c) \/ PauseMark(c) \/ PauseGate(c)
             \/ PauseSet(c)
    BY <1>1, <2>3 DEF PauseFind, Extract, PauseSkips, PauseJoins, PauseMark, PauseGate,
       PauseSet, pool
  <2>4. CASE \/ CancelStop(c) \/ CancelWait(c) \/ CancelReturn(c) \/ ReAddRefused(c)
             \/ \E t \in Tokens : CancelCross(c, t)
    BY <1>1, <2>4 DEF CancelStop, CancelWait, CancelReturn, ReAddRefused, CancelCross, pool
  <2>. QED
    BY <1>8, <2>1, <2>2, <2>3, <2>4 DEF CallerStep
<1>9. ASSUME ShutStep PROVE Moved
  <2>1. CASE ShutSweep
    BY <2>1 DEF ShutSweep, NotQueued, Task
  <2>2. CASE \/ \E x \in Ids : PauseNothing(x) \/ ShutNormalise(x)
             \/ ShutStart \/ ShutPolled \/ ShutForced \/ ShutWaited \/ ShutDrained
    BY <1>1, <2>2 DEF PauseNothing, ShutNormalise, ShutStart, ShutPolled, ShutForced,
       ShutWaited, ShutDrained, pool
  <2>. QED
    BY <1>9, <2>1, <2>2 DEF ShutStep
<1>10. ASSUME UNCHANGED vars PROVE Moved
  BY <1>1, <1>10 DEF vars, pool
<1>11. Moved
  <2>. HIDE DEF Moved
  <2>1. ASSUME NEW w \in Workers, WorkerStep(w) PROVE Moved
    BY <1>1, <1>6, <1>7, <2>1
  <2>2. ASSUME NEW x \in Ids, AddNew(x) \/ Admit(x) \/ Ripen(x) PROVE Moved
    BY <1>5, <2>2
  <2>. QED
    BY <1>8, <1>9, <1>10, <2>1, <2>2 DEF Next
<1>. QED
  BY <1>11

\* What has been cancelled or removed stays so, a run begins with its
\* registration, and only its return ends it.
LEMMA RunsMove ==
  ASSUME [Next]_vars
  PROVE  /\ ctx \subseteq ctx' /\ removed \subseteq removed'
         /\ \/ UNCHANGED ended
            \/ \E w \in Workers, res \in Outcomes : RunReturns(w, res)
         /\ UNCHANGED registered \/ \E w \in Workers : Register(w)
<1> DEFINE Moved == /\ ctx \subseteq ctx' /\ removed \subseteq removed'
                    /\ \/ UNCHANGED ended
                       \/ \E w \in Workers, res \in Outcomes : RunReturns(w, res)
                    /\ UNCHANGED registered \/ \E w \in Workers : Register(w)
<1>1. ASSUME UNCHANGED ads PROVE Moved
  BY <1>1 DEF ads
<1>2. ASSUME NEW w \in Workers, Register(w) PROVE Moved
  BY <1>2 DEF Register
<1>3. ASSUME NEW w \in Workers, NEW res \in Outcomes, RunReturns(w, res) PROVE Moved
  BY <1>3 DEF RunReturns
<1>4. ASSUME NEW w \in Workers, WorkerStep(w), ~Register(w),
             ~(\E res \in Outcomes : RunReturns(w, res))
      PROVE  UNCHANGED ads
  <2>1. CASE \/ Claim(w) \/ Void(w) \/ Fill(w) \/ Classify(w)
             \/ Success(w) \/ PauseSend(w) \/ PauseFence(w) \/ PausePublish(w)
    BY <2>1 DEF Claim, Void, Fill, Classify, Success, PauseSend, PauseFence, PausePublish
  <2>2. CASE \/ Requeue(w) \/ RequeueCheck(w) \/ RequeueSend(w) \/ RequeueDone(w)
             \/ RequeueLost(w) \/ SettleStale(w) \/ Terminal(w) \/ TerminalSend(w) \/ Settle(w)
    BY <2>2 DEF Requeue, RequeueCheck, RequeueSend, RequeueDone, RequeueLost, EndRequeue,
       SettleStale, Terminal, TerminalSend, Settle
  <2>. QED
    BY <1>4, <2>1, <2>2 DEF WorkerStep
<1>5. ASSUME NEW c \in Callers,
             \/ \E id \in Ids : CancelLock(c, id)
             \/ PauseJoins(c) \/ PauseSet(c) \/ CancelStop(c)
      PROVE  Moved
  BY <1>5 DEF CancelLock, PauseJoins, PauseSet, CancelStop
<1>6. ASSUME NEW c \in Callers,
             \/ \E id \in Ids : PauseQueued(c, id) \/ PauseFind(c, id) \/ Extract(c, id)
             \/ PauseSkips(c) \/ PauseMark(c) \/ PauseGate(c) \/ CancelWait(c)
             \/ CancelReturn(c) \/ (\E t \in Tokens : CancelCross(c, t))
             \/ ReAdd(c) \/ ReAddRefused(c)
      PROVE  UNCHANGED ads
  BY <1>6 DEF PauseQueued, PauseFind, Extract, PauseSkips, PauseMark, PauseGate, CancelWait,
     CancelReturn, CancelCross, ReAdd, ReAddRefused
<1>7. ASSUME ShutStep PROVE UNCHANGED ads
  BY <1>7 DEF ShutStep, PauseNothing, ShutNormalise, ShutStart, ShutSweep, ShutPolled,
     ShutForced, ShutWaited, ShutDrained
<1>8. ASSUME NEW id \in Ids, AddNew(id) \/ Admit(id) \/ Ripen(id) PROVE UNCHANGED ads
  BY <1>8 DEF AddNew, Admit, Ripen
<1>9. ASSUME UNCHANGED vars PROVE UNCHANGED ads
  BY <1>9 DEF vars
<1>10. Moved
  <2>. HIDE DEF Moved
  <2>. QED
    BY <1>1, <1>2, <1>3, <1>4, <1>5, <1>6, <1>7, <1>8, <1>9 DEF Next, CallerStep
<1>. QED
  BY <1>10

\* Only the return of a Cancel announces a removal, and an event is published
\* from a run, from inside a fence, or after a look at the removal marker.
LEMMA HistoryMoves ==
  ASSUME [Next]_vars
  PROVE  /\ gone' = gone \/ \E c \in Callers : CancelReturn(c)
         /\ \A t \in late' \ late : \E w \in Workers :
              /\ wtok[w] = t /\ t \in gone /\ wpc[w] # "claimed"
              /\ \/ ~IsHls(t) \/ t \notin removed
                 \/ wpc[w] \in {"running", "rqsend", "terminal"}
<1> DEFINE Moved ==
      /\ gone' = gone \/ \E c \in Callers : CancelReturn(c)
      /\ \A t \in late' \ late : \E w \in Workers :
           /\ wtok[w] = t /\ t \in gone /\ wpc[w] # "claimed"
           /\ \/ ~IsHls(t) \/ t \notin removed
              \/ wpc[w] \in {"running", "rqsend", "terminal"}
<1>1. ASSUME UNCHANGED history PROVE Moved
  BY <1>1 DEF history
<1>2. ASSUME NEW w \in Workers, Publish(wtok[w]), wpc[w] # "claimed",
             \/ ~IsHls(wtok[w]) \/ wtok[w] \notin removed
             \/ wpc[w] \in {"running", "rqsend", "terminal"}
      PROVE  Moved
  BY <1>2 DEF Publish
<1>3. ASSUME NEW w \in Workers,
             \/ \E res \in Outcomes : RunReturns(w, res)
             \/ PauseSend(w) \/ PausePublish(w) \/ RequeueSend(w) \/ TerminalSend(w)
      PROVE  Moved
  <2>1. \/ UNCHANGED history
        \/ /\ Publish(wtok[w]) /\ wpc[w] # "claimed"
           /\ \/ ~IsHls(wtok[w]) \/ wtok[w] \notin removed
              \/ wpc[w] \in {"running", "rqsend", "terminal"}
    <3>1. CASE (\E res \in Outcomes : RunReturns(w, res)) \/ RequeueSend(w) \/ TerminalSend(w)
      BY <3>1 DEF RunReturns, RequeueSend, TerminalSend
    <3>2. CASE PauseSend(w) \/ PausePublish(w)
      BY <3>2 DEF PauseSend, PausePublish
    <3>. QED
      BY <1>3, <3>1, <3>2
  <2>. QED
    BY <1>1, <1>2, <2>1
<1>4. ASSUME NEW w \in Workers,
             \/ Claim(w) \/ Void(w) \/ Register(w) \/ Fill(w) \/ Classify(w)
             \/ Success(w) \/ PauseFence(w) \/ Requeue(w) \/ RequeueCheck(w)
             \/ RequeueDone(w) \/ RequeueLost(w) \/ SettleStale(w) \/ Terminal(w) \/ Settle(w)
      PROVE  UNCHANGED history
  BY <1>4 DEF Claim, Void, Register, Fill, Classify, Success, PauseFence, Requeue,
     RequeueCheck, RequeueDone, RequeueLost, EndRequeue, SettleStale, Terminal, Settle
<1>5. ASSUME NEW c \in Callers, CancelReturn(c) PROVE Moved
  BY <1>5 DEF CancelReturn
<1>6. ASSUME NEW c \in Callers, CallerStep(c), ~CancelReturn(c) PROVE UNCHANGED history
  <2>1. CASE \E id \in Ids : PauseQueued(c, id) \/ PauseFind(c, id)
                             \/ CancelLock(c, id) \/ Extract(c, id)
    BY <2>1 DEF PauseQueued, PauseFind, CancelLock, Extract
  <2>2. CASE PauseSkips(c) \/ PauseJoins(c) \/ PauseMark(c) \/ PauseGate(c) \/ PauseSet(c)
    BY <2>2 DEF PauseSkips, PauseJoins, PauseMark, PauseGate, PauseSet
  <2>3. CASE \/ CancelStop(c) \/ CancelWait(c)
             \/ (\E t \in Tokens : CancelCross(c, t)) \/ ReAdd(c) \/ ReAddRefused(c)
    BY <2>3 DEF CancelStop, CancelWait, CancelCross, ReAdd, ReAddRefused
  <2>. QED
    BY <1>6, <2>1, <2>2, <2>3 DEF CallerStep
<1>7. ASSUME ShutStep PROVE UNCHANGED history
  BY <1>7 DEF ShutStep, PauseNothing, ShutNormalise, ShutStart, ShutSweep, ShutPolled,
     ShutForced, ShutWaited, ShutDrained
<1>8. ASSUME NEW id \in Ids, AddNew(id) \/ Admit(id) \/ Ripen(id) PROVE UNCHANGED history
  BY <1>8 DEF AddNew, Admit, Ripen
<1>9. ASSUME UNCHANGED vars PROVE UNCHANGED history
  BY <1>9 DEF vars
<1>10. Moved
  <2>. HIDE DEF Moved
  <2>1. ASSUME NEW w \in Workers, WorkerStep(w) PROVE Moved
    BY <1>1, <1>3, <1>4, <2>1 DEF WorkerStep
  <2>2. ASSUME NEW c \in Callers, CallerStep(c) PROVE Moved
    BY <1>1, <1>5, <1>6, <2>2
  <2>. QED
    BY <1>1, <1>7, <1>8, <1>9, <2>1, <2>2 DEF Next
<1>. QED
  BY <1>10

-----------------------------------------------------------------------------
(* The fence of Cancel. *)

\* done of a run is closed from its return on, and no earlier.
RunsEnd ==
  \A w \in Workers : /\ wpc[w] = "running" => wtok[w] \notin ended
                     /\ wpc[w] \in PastRun => wtok[w] \in ended

\* A Cancel names tokens from its critical section until it returns.
GoneOK ==
  /\ gone \subseteq 1..last
  /\ \A c \in Callers : /\ cgone[c] \subseteq 1..last
                        /\ cpc[c] \notin Cancelling => cgone[c] = {}

\* What has been removed is not queued, and so cannot be registered.
Dequeued == \A id \in Ids : queued[id].tok \notin Announced

\* A Cancel under way has marked each HLS claim it named, waits for its end,
\* and crosses its fence before it returns.
CancelSees ==
  \A c \in Callers, w \in Workers :
    wtok[w] \in cgone[c] /\ IsHls(wtok[w]) /\ wpc[w] # "claimed" =>
      /\ wtok[w] \in removed
      /\ cpc[c] \in {"cstop", "cwait"} => wtok[w] \in cclaims[c]
      /\ cpc[c] = "ccross" =>
           /\ wpc[w] # "running"
           /\ wtok[w] \in cclaims[c] \/ wpc[w] \notin {"rqsend", "terminal"}

\* A claim whose removal has been announced is past its run and its fences.
GoneSilent ==
  \A w \in Workers :
    wtok[w] \in gone /\ IsHls(wtok[w]) /\ wpc[w] # "claimed" =>
      wtok[w] \in removed /\ wpc[w] \notin {"running", "rqsend", "terminal"}

FenceInv == RunsEnd /\ GoneOK /\ Dequeued /\ CancelSees /\ GoneSilent /\ HlsFence

\* The end of a run is the end of one worker's run.
LEMMA RunsEndStep ==
  ASSUME IInv, RunsEnd, [Next]_vars
  PROVE  RunsEnd'
<1>. SUFFICES ASSUME NEW w \in Workers
              PROVE  /\ wpc'[w] = "running" => wtok'[w] \notin ended'
                     /\ wpc'[w] \in PastRun => wtok'[w] \in ended'
  BY DEF RunsEnd
<1>. WorkerType /\ AdType /\ WorkersOK /\ ClaimsSettledOnce
  BY DEF IInv, TypeOK
<1>1. ended \subseteq ended'
  BY RunsMove DEF RunReturns
<1>2. CASE wpc'[w] = wpc[w] /\ wtok'[w] = wtok[w]
  <2>1. ASSUME NEW u \in Workers, NEW res \in Outcomes, RunReturns(u, res), wpc[w] = "running"
        PROVE  wtok[w] \notin ended'
    <3>1. wpc[u] = "running" /\ wpc'[u] = "returned" /\ ended' = ended \cup {wtok[u]}
      BY <2>1 DEF RunReturns, WorkerType
    <3>2. wtok[u] # wtok[w]
      BY <1>2, <2>1, <3>1 DEF WorkersOK, ClaimsSettledOnce
    <3>. QED
      BY <2>1, <3>1, <3>2 DEF RunsEnd
  <2>. QED
    BY <1>1, <1>2, <2>1, RunsMove DEF RunsEnd
<1>3. CASE (wpc'[w] = "idle" /\ wtok'[w] = None) \/ (wpc'[w] = "claimed" /\ wpc[w] = "idle")
  BY <1>3 DEF PastRun
<1>4. CASE Register(w)
  <2>1. wpc'[w] = "running" /\ wtok'[w] = wtok[w] /\ ended' = ended /\ wtok[w] \notin registered
    BY <1>4 DEF Register, WorkerType, WorkersOK
  <2>. QED
    BY <2>1 DEF AdType, PastRun
<1>5. ASSUME NEW res \in Outcomes, RunReturns(w, res)
      PROVE  wpc'[w] = "returned" /\ wtok'[w] \in ended'
  BY <1>5 DEF RunReturns, WorkerType
<1>6. CASE wtok'[w] = wtok[w] /\ wpc[w] \in PastRun /\ wpc'[w] \in PastRun
  BY <1>1, <1>6 DEF RunsEnd, PastRun
<1>. QED
  BY <1>2, <1>3, <1>4, <1>5, <1>6, WorkerMoves

\* A Cancel that detaches an ID names its tokens.
LEMMA Detaches ==
  ASSUME IInv, NEW c \in Callers, NEW id \in Ids, CancelLock(c, id)
  PROVE  /\ cpc[c] = "idle" /\ cpc'[c] = "cstop" /\ cgone'[c] = TokensOf(id)
         /\ cclaims'[c] = HlsClaims(id) \cup ({downloads[id]} \ {None})
         /\ queued'[id].tok = None
         /\ removed' = removed \cup HlsClaims(id)
         /\ gone' = gone /\ last' = last /\ wpc' = wpc /\ wtok' = wtok
         /\ \A d \in Callers \ {c} : UNCHANGED <<cpc[d], cclaims[d], cgone[d]>>
BY DEF CancelLock, Dequeue, NotQueued, Task, IInv, TypeOK, CallerType, PoolType, history, workers

\* What the sets of announced and named tokens become
LEMMA NamedMoves ==
  ASSUME IInv, [Next]_vars, NEW c \in Callers
  PROVE  /\ \/ cgone'[c] = cgone[c]
            \/ cgone'[c] = {}
            \/ \E id \in Ids : CancelLock(c, id) /\ cgone'[c] = TokensOf(id)
         /\ gone' \subseteq Announced
<1>. CallerType
  BY DEF IInv, TypeOK
<1>1. ASSUME UNCHANGED <<cpc[c], cclaims[c], cgone[c]>> PROVE cgone'[c] = cgone[c]
  BY <1>1
<1>2. ASSUME CancelStop(c) \/ CancelWait(c) \/ (\E t \in Tokens : CancelCross(c, t))
      PROVE  cgone'[c] = cgone[c]
  BY <1>2 DEF CancelStop, CancelWait, CancelCross
<1>3. ASSUME CancelReturn(c) PROVE cgone'[c] = {}
  BY <1>3 DEF CancelReturn, CallerType
<1>4. ASSUME NEW id \in Ids, CancelLock(c, id) PROVE cgone'[c] = TokensOf(id)
  BY <1>4, Detaches
<1>5. ASSUME NEW d \in Callers, CancelReturn(d) PROVE gone' \subseteq Announced
  BY <1>5 DEF CancelReturn, Announced
<1>6. gone' \subseteq Announced
  BY <1>5, HistoryMoves DEF Announced
<1>. QED
  BY <1>1, <1>2, <1>3, <1>4, <1>6, CallerMoves

\* The names are tokens of the pool, and leave with the Cancel.
LEMMA GoneOKStep ==
  ASSUME IInv, GoneOK, [Next]_vars
  PROVE  GoneOK'
<1>1. 1..last \subseteq 1..last'
  BY TokensKept
<1>2. Announced \subseteq 1..last
  BY DEF Announced, GoneOK
<1>3. gone' \subseteq 1..last'
  <2>1. CASE Callers # {}
    BY <1>1, <1>2, <2>1, NamedMoves
  <2>2. CASE Callers = {}
    BY <2>2, PoolAssumption
  <2>. QED
    BY <2>1, <2>2
<1>4. ASSUME NEW c \in Callers PROVE cgone'[c] \subseteq 1..last'
  <2>1. \A id \in Ids : TokensOf(id) \subseteq 1..last
    BY DEF TokensOf
  <2>. QED
    BY <1>1, <2>1, NamedMoves DEF GoneOK
<1>5. ASSUME NEW c \in Callers, cpc'[c] \notin Cancelling PROVE cgone'[c] = {}
  <2>. CallerType
    BY DEF IInv, TypeOK
  <2>1. CASE UNCHANGED <<cpc[c], cclaims[c], cgone[c]>>
    BY <1>5, <2>1 DEF GoneOK
  <2>2. CASE cpc[c] \notin Cancelling /\ cgone'[c] = cgone[c]
    BY <2>2 DEF GoneOK
  <2>3. ASSUME NEW id \in Ids, CancelLock(c, id) PROVE FALSE
    BY <1>5, <2>3, Detaches DEF Cancelling
  <2>4. CASE CancelStop(c) \/ CancelWait(c) \/ (\E t \in Tokens : CancelCross(c, t))
    BY <1>5, <2>4 DEF CancelStop, CancelWait, CancelCross, Cancelling, CallerType
  <2>5. CASE CancelReturn(c)
    BY <2>5 DEF CancelReturn, CallerType
  <2>. QED
    BY <2>1, <2>2, <2>3, <2>4, <2>5, CallerMoves
<1>. QED
  BY <1>3, <1>4, <1>5 DEF GoneOK

\* A Cancel dequeues what it names, and whoever adds the ID again mints a token.
LEMMA DequeuedStep ==
  ASSUME IInv, GoneOK, Dequeued, [Next]_vars
  PROVE  Dequeued'
<1>. SUFFICES ASSUME NEW id \in Ids, queued'[id].tok \in Announced' PROVE FALSE
  BY DEF Dequeued
<1>. PICK tok : tok = queued'[id].tok
  OBVIOUS
<1>. last \in Nat /\ EntriesOK
  BY PoolAssumption DEF IInv, TypeOK, PoolType
<1>1. Announced \subseteq 1..last
  BY DEF Announced, GoneOK
<1>2. tok \in Announced \/ \E c \in Callers, x \in Ids : CancelLock(c, x) /\ tok \in TokensOf(x)
  <2>1. tok \in gone' \/ \E c \in Callers : tok \in cgone'[c]
    BY DEF Announced
  <2>2. ASSUME NEW c \in Callers, tok \in cgone'[c]
        PROVE  tok \in Announced \/ \E x \in Ids : CancelLock(c, x) /\ tok \in TokensOf(x)
    BY <2>2, NamedMoves DEF Announced
  <2>3. ASSUME tok \in gone' PROVE tok \in Announced
    BY <2>3, HistoryMoves DEF CancelReturn, Announced
  <2>. QED
    BY <2>1, <2>2, <2>3
<1>3. tok \in 1..last
  BY <1>1, <1>2 DEF TokensOf
<1>4. tok = queued[id].tok
  BY <1>3, QueueMoves DEF None
<1>5. tok \notin Announced
  BY <1>4 DEF Dequeued
<1>. PICK c \in Callers, x \in Ids : CancelLock(c, x) /\ tok \in TokensOf(x)
  BY <1>2, <1>5
<1>6. queued'[x].tok = None
  BY Detaches
<1>7. x # id
  BY <1>3, <1>6 DEF None
<1>8. IdOf(tok) = id
  BY <1>3, <1>4 DEF EntriesOK, IsQueued, None
<1>. QED
  BY <1>7, <1>8 DEF TokensOf

\* A claim that has been named is not registered any more, and enters a fence
\* only while it is unmarked.
LEMMA NamedStays ==
  ASSUME IInv, GoneOK, Dequeued, [Next]_vars, NEW w \in Workers,
         wtok'[w] \in Announced, wpc'[w] # "claimed"
  PROVE  /\ wtok'[w] = wtok[w] /\ wtok[w] \in 1..last /\ wpc[w] # "claimed"
         /\ IsHls(wtok[w])' <=> IsHls(wtok[w])
         /\ wpc'[w] = "running" => wpc[w] = "running"
         /\ wpc'[w] \in {"rqsend", "terminal"} => wpc'[w] = wpc[w] \/ ~HlsClaimed(w)
<1>1. wtok'[w] \in 1..last
  BY DEF Announced, GoneOK
<1>2. wtok'[w] # None
  BY <1>1 DEF None
<1>. WorkerType
  BY DEF IInv, TypeOK
<1>3. ~Register(w)
  <2>. SUFFICES ASSUME Register(w) PROVE FALSE
    OBVIOUS
  <2>1. wtok'[w] = wtok[w] /\ queued[IdOf(wtok[w])].tok = wtok[w]
    BY DEF Register
  <2>2. IdOf(wtok[w]) \in Ids
    BY <1>1, <2>1, Minted DEF IInv, TypeOK
  <2>. QED
    BY <2>1, <2>2 DEF Dequeued
<1>4. ASSUME NEW res \in Outcomes, RunReturns(w, res)
      PROVE  wtok'[w] = wtok[w] /\ wpc[w] = "running" /\ wpc'[w] = "returned"
  BY <1>4 DEF RunReturns, WorkerType
<1>5. /\ wtok'[w] = wtok[w] /\ wpc[w] # "claimed"
      /\ wpc'[w] = "running" => wpc[w] = "running"
      /\ wpc'[w] \in {"rqsend", "terminal"} => wpc'[w] = wpc[w] \/ ~HlsClaimed(w)
  BY <1>2, <1>3, <1>4, WorkerMoves DEF PastRun
<1>6. IsHls(wtok[w])' <=> IsHls(wtok[w])
  <2>. PICK t \in 1..last : t = wtok[w] /\ t = wtok'[w]
    BY <1>1, <1>5
  <2>1. IsHls(wtok[w])' <=> IsHls(t)'
    BY DEF IsHls, IdOf
  <2>. QED
    BY <2>1, TokensKept
<1>. QED
  BY <1>1, <1>5, <1>6

\* From the critical section on, a Cancel sees every HLS claim it named.
LEMMA CancelSeesStep ==
  ASSUME IInv, RunsEnd, GoneOK, Dequeued, CancelSees, [Next]_vars
  PROVE  CancelSees'
<1>. SUFFICES ASSUME NEW c \in Callers, NEW w \in Workers,
                     wtok'[w] \in cgone'[c], IsHls(wtok[w])', wpc'[w] # "claimed"
              PROVE  /\ wtok'[w] \in removed'
                     /\ cpc'[c] \in {"cstop", "cwait"} => wtok'[w] \in cclaims'[c]
                     /\ cpc'[c] = "ccross" =>
                          /\ wpc'[w] # "running"
                          /\ wtok'[w] \in cclaims'[c] \/ wpc'[w] \notin {"rqsend", "terminal"}
  BY DEF CancelSees
<1>. CallerType /\ WorkerType
  BY DEF IInv, TypeOK
<1>1. ASSUME cgone'[c] = cgone[c]
      PROVE  /\ wtok'[w] = wtok[w] /\ wtok[w] \in cgone[c] /\ wtok[w] \in removed
             /\ IsHls(wtok[w]) /\ wpc[w] # "claimed"
             /\ wpc'[w] = "running" => wpc[w] = "running"
             /\ wpc'[w] \in {"rqsend", "terminal"} => wpc'[w] = wpc[w]
             /\ wtok'[w] \in removed'
             /\ cpc[c] \in {"cstop", "cwait"} => wtok[w] \in cclaims[c]
             /\ cpc[c] = "ccross" =>
                  /\ wpc[w] # "running"
                  /\ wtok[w] \in cclaims[c] \/ wpc[w] \notin {"rqsend", "terminal"}
  <2>1. wtok'[w] \in Announced
    BY <1>1 DEF Announced
  <2>2. /\ wtok'[w] = wtok[w] /\ wtok[w] \in cgone[c] /\ IsHls(wtok[w]) /\ wpc[w] # "claimed"
        /\ wpc'[w] = "running" => wpc[w] = "running"
        /\ wpc'[w] \in {"rqsend", "terminal"} => wpc'[w] = wpc[w] \/ ~HlsClaimed(w)
    BY <1>1, <2>1, NamedStays
  <2>3. /\ wtok[w] \in removed
        /\ cpc[c] \in {"cstop", "cwait"} => wtok[w] \in cclaims[c]
        /\ cpc[c] = "ccross" =>
             /\ wpc[w] # "running"
             /\ wtok[w] \in cclaims[c] \/ wpc[w] \notin {"rqsend", "terminal"}
    BY <2>2 DEF CancelSees
  <2>4. HlsClaimed(w)
    BY <2>2, <2>3 DEF HlsClaimed
  <2>5. wtok'[w] \in removed'
    BY <2>2, <2>3, RunsMove
  <2>. QED
    BY <2>2, <2>3, <2>4, <2>5
<1>2. CASE UNCHANGED <<cpc[c], cclaims[c], cgone[c]>>
  BY <1>1, <1>2
<1>3. CASE cpc[c] \notin Cancelling /\ cgone'[c] = cgone[c]
  BY <1>3 DEF GoneOK
<1>4. ASSUME NEW id \in Ids, CancelLock(c, id)
      PROVE  wtok'[w] \in removed' /\ wtok'[w] \in cclaims'[c] /\ cpc'[c] = "cstop"
  <2>1. /\ cpc'[c] = "cstop" /\ wtok' = wtok /\ wpc' = wpc /\ cgone'[c] = TokensOf(id)
        /\ HlsClaims(id) \subseteq removed' /\ HlsClaims(id) \subseteq cclaims'[c]
    BY <1>4, Detaches
  <2>2. wtok[w] \in 1..last /\ IdOf(wtok[w]) = id /\ wtok[w] # None
    BY <2>1 DEF TokensOf, None
  <2>3. wtok[w] \in registered /\ wtok[w] \in busy
    BY <2>1, <2>2 DEF IInv, WorkersOK, ClaimsSettledOnce
  <2>4. IsHls(wtok[w])
    BY <1>4 DEF CancelLock, IsHls, IdOf, workers
  <2>5. wtok[w] \in HlsClaims(id)
    BY <2>2, <2>3, <2>4 DEF HlsClaims
  <2>. QED
    BY <2>1, <2>5
<1>5. CASE CancelStop(c)
  <2>1. /\ cpc[c] = "cstop" /\ cpc'[c] = "cwait" /\ cgone'[c] = cgone[c]
        /\ cclaims'[c] = {t \in cclaims[c] : IsHls(t)}
    BY <1>5 DEF CancelStop, CallerType
  <2>. QED
    BY <1>1, <2>1
<1>6. CASE CancelWait(c)
  <2>1. /\ cpc[c] = "cwait" /\ cpc'[c] = "ccross" /\ cgone'[c] = cgone[c]
        /\ cclaims'[c] = cclaims[c] /\ cclaims[c] \subseteq ended
    BY <1>6 DEF CancelWait, CallerType
  <2>2. wtok[w] \in cclaims[c] /\ wtok[w] \in ended
    BY <1>1, <2>1
  <2>3. wpc[w] # "running"
    BY <2>2 DEF RunsEnd
  <2>. QED
    BY <1>1, <2>1, <2>2, <2>3
<1>7. ASSUME NEW t \in Tokens, CancelCross(c, t)
      PROVE  /\ wtok'[w] \in removed' /\ cpc'[c] = "ccross" /\ wpc'[w] # "running"
             /\ wtok'[w] \in cclaims'[c] \/ wpc'[w] \notin {"rqsend", "terminal"}
  <2>1. /\ cpc[c] = "ccross" /\ cpc'[c] = "ccross" /\ cgone'[c] = cgone[c]
        /\ cclaims'[c] = cclaims[c] \ {t} /\ ~HoldsFence(w, t) /\ wpc' = wpc
    BY <1>7 DEF CancelCross, CallerType, workers
  <2>2. wtok[w] = t => wpc[w] \notin {"rqsend", "terminal"}
    BY <1>1, <2>1 DEF HoldsFence
  <2>. QED
    BY <1>1, <2>1, <2>2
<1>8. CASE CancelReturn(c)
  BY <1>8 DEF CancelReturn, CallerType
<1>. QED
  BY <1>2, <1>3, <1>4, <1>5, <1>6, <1>7, <1>8, CallerMoves

\* When a Cancel returns every claim it named is silent, and stays so.
LEMMA GoneSilentStep ==
  ASSUME IInv, GoneOK, Dequeued, CancelSees, GoneSilent, [Next]_vars
  PROVE  GoneSilent'
<1>. SUFFICES ASSUME NEW w \in Workers,
                     wtok'[w] \in gone', IsHls(wtok[w])', wpc'[w] # "claimed"
              PROVE  /\ wtok'[w] \in removed'
                     /\ wpc'[w] \notin {"running", "rqsend", "terminal"}
  BY DEF GoneSilent
<1>1. wtok'[w] \in Announced
  BY HistoryMoves DEF CancelReturn, Announced
<1>2. /\ wtok'[w] = wtok[w] /\ IsHls(wtok[w]) /\ wpc[w] # "claimed"
      /\ wpc'[w] = "running" => wpc[w] = "running"
      /\ wpc'[w] \in {"rqsend", "terminal"} => wpc'[w] = wpc[w] \/ ~HlsClaimed(w)
  BY <1>1, NamedStays
<1>3. wtok[w] \in removed /\ wpc[w] \notin {"running", "rqsend", "terminal"}
  <2>1. CASE wtok[w] \in gone
    BY <1>2, <2>1 DEF GoneSilent
  <2>2. ASSUME NEW c \in Callers, CancelReturn(c), wtok[w] \notin gone
        PROVE  wtok[w] \in removed /\ wpc[w] \notin {"running", "rqsend", "terminal"}
    <3>1. /\ cpc[c] = "ccross" /\ cclaims[c] = {} /\ wtok[w] \in cgone[c]
      BY <1>2, <2>2 DEF CancelReturn
    <3>. QED
      BY <1>2, <3>1 DEF CancelSees
  <2>. QED
    BY <1>2, <2>1, <2>2, HistoryMoves
<1>4. HlsClaimed(w)
  BY <1>2, <1>3 DEF HlsClaimed
<1>5. wtok'[w] \in removed'
  BY <1>2, <1>3, RunsMove
<1>. QED
  BY <1>2, <1>3, <1>4, <1>5

\* A silent claim publishes nothing.
LEMMA HlsFenceStep ==
  ASSUME IInv, GoneOK, GoneSilent, HlsFence, [Next]_vars
  PROVE  HlsFence'
<1>. SUFFICES ASSUME NEW t \in late' PROVE ~IsHls(t)'
  BY DEF HlsFence
<1>1. t \in 1..last
  BY HistoryMoves DEF IInv, TypeOK, OtherType, GoneOK
<1>2. ~IsHls(t)
  BY HistoryMoves DEF HlsFence, GoneSilent
<1>. QED
  BY <1>1, <1>2, TokensKept

\* After EventRemoved of an HLS download no claim that its Cancel could have
\* known of publishes an event: the marker, the wait on done and the crossing of
\* each fence leave no gap (Cancel and the worker loop, scheduler.go:976-1103).
THEOREM RemovedIsSilent == Spec => []HlsFence
<1>1. Init => FenceInv
  <2>. SUFFICES ASSUME Init PROVE FenceInv
    OBVIOUS
  <2>1. RunsEnd /\ CancelSees /\ GoneSilent
    BY DEF Init, RunsEnd, CancelSees, GoneSilent, PastRun
  <2>2. GoneOK
    BY DEF Init, GoneOK
  <2>3. Announced = {}
    BY DEF Init, Announced
  <2>. QED
    BY <2>1, <2>2, <2>3 DEF Init, FenceInv, Dequeued, HlsFence
<1>2. IInv /\ FenceInv /\ [Next]_vars => FenceInv'
  BY RunsEndStep, GoneOKStep, DequeuedStep, CancelSeesStep, GoneSilentStep, HlsFenceStep
  DEF FenceInv
<1>3. FenceInv => HlsFence
  BY DEF FenceInv
<1>. QED
  BY <1>1, <1>2, <1>3, Inductive, PTL DEF Spec

-----------------------------------------------------------------------------
(* Two runs of one ID. *)

\* The live run of an ID is its active entry.
LiveOwns == \A t \in Running : Live(t) => downloads[IdOf(t)] = t

\* The active entry of an ID changes by a registration, a Cancel, a resume, or
\* the worker of its own run once that is over.
LEMMA ActiveMoves ==
  ASSUME IInv, [Next]_vars, NEW id \in Ids
  PROVE  \/ downloads'[id] = downloads[id]
         \/ \E w \in Workers : Register(w) /\ IdOf(wtok[w]) = id
         \/ \E c \in Callers : CancelLock(c, id) \/ Extract(c, id)
         \/ \E w \in Workers : wtok[w] = downloads[id] /\ wpc[w] \in PastRun
<1> DEFINE Moved ==
      \/ downloads'[id] = downloads[id]
      \/ \E w \in Workers : Register(w) /\ IdOf(wtok[w]) = id
      \/ \E c \in Callers : CancelLock(c, id) \/ Extract(c, id)
      \/ \E w \in Workers : wtok[w] = downloads[id] /\ wpc[w] \in PastRun
<1>. PoolType
  BY DEF IInv, TypeOK
<1>1. ASSUME UNCHANGED downloads PROVE Moved
  BY <1>1
<1>2. ASSUME NEW w \in Workers, Register(w) PROVE Moved
  BY <1>2 DEF Register, PoolType
<1>3. ASSUME NEW w \in Workers, Success(w) \/ Requeue(w) \/ SettleStale(w) \/ Terminal(w)
      PROVE  Moved
  <2>1. wpc[w] \in PastRun /\ DropSlot(w)
    BY <1>3 DEF Success, Requeue, SettleStale, Terminal, Ends, PastRun, WorkerPCs
  <2>2. downloads'[id] = downloads[id] \/ wtok[w] = downloads[id]
    <3>1. CASE OwnsSlot(w)
      BY <2>1, <3>1 DEF DropSlot, OwnsSlot, PoolType
    <3>2. CASE ~OwnsSlot(w)
      BY <2>1, <3>2 DEF DropSlot
    <3>. QED
      BY <3>1, <3>2
  <2>. QED
    BY <2>1, <2>2
<1>4. ASSUME NEW w \in Workers,
             \/ Claim(w) \/ Void(w) \/ Fill(w) \/ (\E res \in Outcomes : RunReturns(w, res))
             \/ Classify(w) \/ PauseSend(w) \/ PauseFence(w) \/ PausePublish(w)
             \/ RequeueCheck(w) \/ RequeueSend(w) \/ RequeueDone(w) \/ RequeueLost(w)
             \/ TerminalSend(w) \/ Settle(w)
      PROVE  UNCHANGED downloads
  <2>1. CASE \/ Claim(w) \/ Void(w) \/ Fill(w) \/ (\E res \in Outcomes : RunReturns(w, res))
             \/ Classify(w) \/ PauseSend(w) \/ PauseFence(w) \/ PausePublish(w)
    BY <2>1 DEF Claim, Void, Fill, RunReturns, Classify, PauseSend, PauseFence, PausePublish,
       pool
  <2>2. CASE \/ RequeueCheck(w) \/ RequeueSend(w) \/ RequeueDone(w) \/ RequeueLost(w)
             \/ TerminalSend(w) \/ Settle(w)
    BY <2>2 DEF RequeueCheck, RequeueSend, RequeueDone, RequeueLost, EndRequeue, TerminalSend,
       Settle, pool
  <2>. QED
    BY <1>4, <2>1, <2>2
<1>5. ASSUME NEW c \in Callers, NEW x \in Ids, CancelLock(c, x) \/ Extract(c, x) PROVE Moved
  <2>1. CASE x = id
    BY <1>5, <2>1
  <2>2. CASE x # id
    BY <1>5, <2>2 DEF CancelLock, Extract, PoolType
  <2>. QED
    BY <2>1, <2>2
<1>6. ASSUME NEW c \in Callers,
             \/ \E x \in Ids : PauseQueued(c, x) \/ PauseFind(c, x)
             \/ PauseSkips(c) \/ PauseJoins(c) \/ PauseMark(c) \/ PauseGate(c) \/ PauseSet(c)
             \/ CancelStop(c) \/ CancelWait(c) \/ CancelReturn(c)
             \/ (\E t \in Tokens : CancelCross(c, t)) \/ ReAdd(c) \/ ReAddRefused(c)
      PROVE  UNCHANGED downloads
  <2>1. CASE \/ \E x \in Ids : PauseQueued(c, x) \/ PauseFind(c, x)
             \/ PauseSkips(c) \/ PauseJoins(c) \/ PauseMark(c) \/ PauseGate(c) \/ PauseSet(c)
    BY <2>1 DEF PauseQueued, PauseFind, PauseSkips, PauseJoins, PauseMark, PauseGate,
       PauseSet, pool
  <2>2. CASE \/ CancelStop(c) \/ CancelWait(c) \/ CancelReturn(c)
             \/ (\E t \in Tokens : CancelCross(c, t)) \/ ReAdd(c) \/ ReAddRefused(c)
    BY <2>2 DEF CancelStop, CancelWait, CancelReturn, CancelCross, ReAdd, AddEntry,
       ReAddRefused, pool
  <2>. QED
    BY <1>6, <2>1, <2>2
<1>7. ASSUME ShutStep PROVE UNCHANGED downloads
  BY <1>7 DEF ShutStep, PauseNothing, ShutNormalise, ShutStart, ShutSweep, ShutPolled,
     ShutForced, ShutWaited, ShutDrained, pool
<1>8. ASSUME NEW x \in Ids, AddNew(x) \/ Admit(x) \/ Ripen(x) PROVE UNCHANGED downloads
  BY <1>8 DEF AddNew, AddEntry, Admit, Ripen
<1>9. ASSUME UNCHANGED vars PROVE UNCHANGED downloads
  BY <1>9 DEF vars, pool
<1>10. Moved
  <2>. HIDE DEF Moved
  <2>1. ASSUME NEW w \in Workers, WorkerStep(w) PROVE Moved
    BY <1>1, <1>2, <1>3, <1>4, <2>1 DEF WorkerStep
  <2>2. ASSUME NEW c \in Callers, CallerStep(c) PROVE Moved
    BY <1>1, <1>5, <1>6, <2>2 DEF CallerStep
  <2>3. ASSUME NEW x \in Ids, AddNew(x) \/ Admit(x) \/ Ripen(x) PROVE Moved
    BY <1>1, <1>8, <2>3
  <2>. QED
    BY <1>1, <1>7, <1>9, <2>1, <2>2, <2>3 DEF Next
<1>. QED
  BY <1>10

\* While nobody resumes a live run keeps its place in the active map.
LEMMA LiveOwnsStep ==
  ASSUME "resume" \notin Ops, IInv, RunsEnd, LiveOwns, [Next]_vars
  PROVE  LiveOwns'
<1>. SUFFICES ASSUME NEW t \in Running', Live(t)' PROVE downloads'[IdOf(t)'] = t
  BY DEF LiveOwns
<1>. PoolType /\ AdType /\ EntriesOK /\ SoleOwner
  BY DEF IInv, TypeOK
<1>1. CASE t \in Running
  <2>1. t \in 1..last /\ t \notin ended
    BY <1>1 DEF Running, EntriesOK
  <2>2. IdOf(t) \in Ids /\ IdOf(t)' = IdOf(t) /\ t # None
    BY <2>1, Minted, TokensKept
  <2>3. t \notin ctx
    BY RunsMove DEF Live
  <2>4. ~BeingCancelled(t)
    <3>. SUFFICES ASSUME NEW c \in Callers, cpc[c] = "cstop", t \in cclaims[c] PROVE FALSE
      BY DEF BeingCancelled
    <3>1. ~(cpc'[c] = "cstop" /\ t \in cclaims'[c]) /\ t \notin ctx'
      BY DEF Live, BeingCancelled
    <3>2. ~CancelStop(c)
      BY <3>1 DEF CancelStop
    <3>3. ~UNCHANGED <<cpc[c], cclaims[c], cgone[c]>> /\ cpc[c] \in Cancelling
      BY <3>1 DEF Cancelling
    <3>. QED
      BY <3>2, <3>3, CallerMoves DEF CancelLock, CancelWait, CancelReturn, CancelCross
  <2>5. downloads[IdOf(t)] = t
    BY <1>1, <2>3, <2>4 DEF LiveOwns, Live
  <2>. PICK id \in Ids : id = IdOf(t) /\ id = IdOf(t)'
    BY <2>2
  <2>6. ASSUME NEW w \in Workers, Register(w), IdOf(wtok[w]) = id PROVE FALSE
    <3>1. wpc[w] = "claimed" /\ queued[id].tok = wtok[w]
      BY <2>6 DEF Register
    <3>2. wtok[w] # None
      BY <3>1 DEF IInv, WorkersOK
    <3>. QED
      BY <2>2, <2>5, <3>1, <3>2 DEF SoleOwner, IsQueued
  <2>7. ASSUME NEW c \in Callers, CancelLock(c, id) PROVE FALSE
    <3>1. cpc'[c] = "cstop" /\ t \in cclaims'[c]
      BY <2>2, <2>5, <2>7, Detaches
    <3>. QED
      BY <3>1 DEF Live, BeingCancelled
  <2>8. ASSUME NEW c \in Callers, Extract(c, id) PROVE FALSE
    BY <2>8 DEF Extract
  <2>9. ASSUME NEW w \in Workers, wtok[w] = t, wpc[w] \in PastRun PROVE FALSE
    BY <2>1, <2>9 DEF RunsEnd
  <2>. QED
    BY <2>5, <2>6, <2>7, <2>8, <2>9, ActiveMoves
<1>2. CASE t \notin Running
  <2>. PICK w \in Workers : Register(w) /\ t = wtok[w]
    BY <1>2, RunsMove DEF Running, Register, RunReturns
  <2>1. t \in 1..last
    BY WorkerHolds DEF Register
  <2>2. IdOf(t) \in Ids /\ IdOf(t)' = IdOf(t)
    BY <2>1, Minted, TokensKept
  <2>. PICK id \in Ids : id = IdOf(t) /\ id = IdOf(t)'
    BY <2>2
  <2>3. downloads' = [downloads EXCEPT ![id] = t]
    BY DEF Register
  <2>. QED
    BY <2>3 DEF PoolType
<1>. QED
  BY <1>1, <1>2

\* Two runs of one ID are never live at once as long as nobody resumes: whoever
\* detaches a live run cancels it before anyone else can register (Add, Cancel and
\* the worker loop, scheduler.go:1309-1388).  pool_resume shows why a resume is
\* excluded.
THEOREM OneRunWithoutResume == "resume" \notin Ops => (Spec => []OneLiveRun)
<1>. SUFFICES ASSUME "resume" \notin Ops PROVE Spec => []OneLiveRun
  OBVIOUS
<1>1. Init => RunsEnd /\ LiveOwns
  BY DEF Init, RunsEnd, LiveOwns, PastRun, Running
<1>2. IInv /\ RunsEnd /\ LiveOwns /\ [Next]_vars => RunsEnd' /\ LiveOwns'
  BY RunsEndStep, LiveOwnsStep
<1>3. LiveOwns => OneLiveRun
  BY DEF LiveOwns, OneLiveRun
<1>. QED
  BY <1>1, <1>2, <1>3, Inductive, PTL DEF Spec

-----------------------------------------------------------------------------
(* The refinement. *)

\* The entry a worker has claimed and not registered yet was admitted.
Vouched ==
  \A w \in Workers :
    wpc[w] = "claimed" /\ queued[IdOf(wtok[w])].tok = wtok[w]
      => queued[IdOf(wtok[w])].admitted

Gone == [at |-> "out", tok |-> None, admitted |-> FALSE]
InQueue(e) ==
  [at |-> IF e.inFlight \/ ~e.due THEN "flying" ELSE "queued",
   tok |-> e.tok, admitted |-> e.admitted]
InExecution(t) == [at |-> "running", tok |-> t, admitted |-> TRUE]

-----------------------------------------------------------------------------
(* Places. *)

\* Where an ID is
LEMMA PlaceNow ==
  ASSUME NEW id \in Ids
  PROVE  /\ Positions[id] = PlaceOf(id)
         /\ IsQueued(id) => PlaceOf(id) = InQueue(queued[id])
         /\ ~IsQueued(id) /\ downloads[id] # None /\ Executing(downloads[id])
              => PlaceOf(id) = InExecution(downloads[id])
         /\ ~IsQueued(id) /\ (downloads[id] # None => ~Executing(downloads[id]))
              => PlaceOf(id) = Gone
BY DEF Positions, PlaceOf, InQueue, InExecution, Gone

\* Where an ID is after a step
LEMMA PlaceNext ==
  ASSUME NEW id \in Ids
  PROVE  /\ IsQueued(id)' => PlaceOf(id)' = InQueue(queued'[id])
         /\ ~IsQueued(id)' /\ downloads'[id] # None
              /\ (\E w \in Workers : wtok'[w] = downloads'[id] /\ wpc'[w] \in InRun)
              => PlaceOf(id)' = InExecution(downloads'[id])
         /\ ~IsQueued(id)' /\ (downloads'[id] # None =>
              ~\E w \in Workers : wtok'[w] = downloads'[id] /\ wpc'[w] \in InRun)
              => PlaceOf(id)' = Gone
BY DEF PlaceOf, InQueue, InExecution, Gone, Executing, InRun

\* An ID stays where it is if its entry, and whether its run goes on, do.
LEMMA Stays ==
  ASSUME NEW id \in Ids,
         queued'[id] = queued[id], downloads'[id] = downloads[id],
         ~IsQueued(id) /\ downloads[id] # None =>
           ((\E w \in Workers : wtok'[w] = downloads[id] /\ wpc'[w] \in InRun)
              <=> Executing(downloads[id]))
  PROVE  PlaceOf(id)' = PlaceOf(id)
BY DEF PlaceOf, IsQueued, Executing, InRun

\* One worker moves on with its token: the runs of other tokens do not notice.
LEMMA OtherRuns ==
  ASSUME NEW w \in Workers, NEW t,
         \A v \in Workers \ {w} : wtok'[v] = wtok[v] /\ wpc'[v] = wpc[v],
         wtok[w] = t /\ wpc[w] \in InRun <=> wtok'[w] = t /\ wpc'[w] \in InRun
  PROVE  (\E v \in Workers : wtok'[v] = t /\ wpc'[v] \in InRun) <=> Executing(t)
BY DEF Executing

\* If every ID keeps its place, the pool looks the same.
LEMMA AllStay ==
  ASSUME \A id \in Ids : PlaceOf(id)' = PlaceOf(id)
  PROVE  Positions' = Positions
BY DEF Positions

\* One ID gets a new place and the others keep theirs.
LEMMA OneMoves ==
  ASSUME NEW id \in Ids, NEW p, PlaceOf(id)' = p,
         \A x \in Ids \ {id} : PlaceOf(x)' = PlaceOf(x)
  PROVE  Positions' = [Positions EXCEPT ![id] = p]
BY DEF Positions

\* An ID keeps its token and goes from one place to another.
LEMMA AtMoves ==
  ASSUME NEW id \in Ids, NEW a, NEW b, NEW t0, NEW adm,
         PlaceOf(id) = [at |-> a, tok |-> t0, admitted |-> adm],
         PlaceOf(id)' = [at |-> b, tok |-> t0, admitted |-> adm],
         \A x \in Ids \ {id} : PlaceOf(x)' = PlaceOf(x)
  PROVE  Positions' = [Positions EXCEPT ![id].at = b]
<1>1. Positions' = [Positions EXCEPT ![id] = [at |-> b, tok |-> t0, admitted |-> adm]]
  BY OneMoves
<1>2. Positions[id] = [at |-> a, tok |-> t0, admitted |-> adm]
  BY PlaceNow
<1>3. [Positions[id] EXCEPT !.at = b] = [at |-> b, tok |-> t0, admitted |-> adm]
  BY <1>2
<1>4. [Positions EXCEPT ![id].at = b]
        = [Positions EXCEPT ![id] = [Positions[id] EXCEPT !.at = b]]
  OBVIOUS
<1>. QED
  BY <1>1, <1>3, <1>4

\* The holders of the tokens change with the token table only.
LEMMA HoldersStay ==
  ASSUME UNCHANGED <<last, info>>
  PROVE  Holders' = Holders
BY DEF Holders, IdOf

-----------------------------------------------------------------------------
(* The steps of AdmittedPool, in terms of the places. *)

Allowed == [Opportunities!Step]_(Opportunities!opportunities)

\* A step that moves nobody is a stutter.
LEMMA Nothing ==
  ASSUME \A id \in Ids : PlaceOf(id)' = PlaceOf(id), UNCHANGED <<busy, last, info>>
  PROVE  Allowed
BY AllStay, HoldersStay DEF Allowed, Opportunities!opportunities

\* Some IDs leave their places, or had none.
LEMMA Departs ==
  ASSUME NEW S \in SUBSET Ids,
         \A id \in S : PlaceOf(id)' = Gone,
         \A id \in Ids \ S : PlaceOf(id)' = PlaceOf(id),
         UNCHANGED <<busy, last, info>>
  PROVE  Allowed
<1> DEFINE D == {id \in S : PlaceOf(id) # Gone}
<1>1. CASE D = {}
  <2>1. \A id \in Ids : PlaceOf(id)' = PlaceOf(id)
    BY <1>1
  <2>. QED
    BY <2>1, Nothing
<1>2. CASE D # {}
  <2>1. \A id \in D : PlaceOf(id).at # "out"
    BY DEF PlaceOf, Gone
  <2>2. \A id \in D : Positions[id].at # "out"
    BY <2>1 DEF Positions
  <2>3. Positions' = [id \in Ids |-> IF id \in D THEN Gone ELSE Positions[id]]
    BY DEF Positions
  <2>4. Opportunities!Gone = Gone
    BY DEF Opportunities!Gone, Gone, None
  <2>5. Opportunities!Depart(D)
    BY <2>2, <2>3, <2>4, HoldersStay DEF Opportunities!Depart
  <2>6. D \in SUBSET Ids
    OBVIOUS
  <2>. QED
    BY <1>2, <2>5, <2>6 DEF Allowed, Opportunities!Step
<1>. QED
  BY <1>1, <1>2

\* A claim ends whose token no place holds any more.
LEMMA Settles ==
  ASSUME NEW t \in Tokens, t \in busy, busy' = busy \ {t},
         \A id \in Ids : PlaceOf(id)' = PlaceOf(id) /\ PlaceOf(id).tok # t,
         UNCHANGED <<last, info>>
  PROVE  Allowed
<1>1. \A id \in Ids : Positions[id].tok # t
  BY DEF Positions
<1>2. Opportunities!Settle(t)
  BY <1>1, AllStay, HoldersStay DEF Opportunities!Settle, Opportunities!Settleable
<1>3. t \in Opportunities!Tokens
  BY DEF Opportunities!Tokens, Tokens
<1>. QED
  BY <1>2, <1>3 DEF Allowed, Opportunities!Step

\* A retry becomes claimable, alone or with the end of the claim before it.
LEMMA Ripens ==
  ASSUME NEW id \in Ids, NEW t0, NEW adm, t0 \notin busy,
         PlaceOf(id) = [at |-> "flying", tok |-> t0, admitted |-> adm],
         PlaceOf(id)' = [at |-> "queued", tok |-> t0, admitted |-> adm],
         \A x \in Ids \ {id} : PlaceOf(x)' = PlaceOf(x),
         UNCHANGED <<last, info>>,
         \/ busy' = busy
         \/ \E t \in busy : busy' = busy \ {t} /\ \A x \in Ids : PlaceOf(x).tok # t
  PROVE  Allowed
<1>1. Positions' = [Positions EXCEPT ![id].at = "queued"]
  BY AtMoves
<1>2. \A x \in Ids : Positions[x] = PlaceOf(x)
  BY PlaceNow
<1>3. CASE busy' = busy
  <2>1. Opportunities!Ripen(id, {})
    BY <1>1, <1>2, <1>3, HoldersStay DEF Opportunities!Ripen
  <2>. QED
    BY <2>1 DEF Allowed, Opportunities!Step
<1>4. CASE \E t \in busy : busy' = busy \ {t} /\ \A x \in Ids : PlaceOf(x).tok # t
  <2>1. PICK t \in busy : busy' = busy \ {t} /\ \A x \in Ids : PlaceOf(x).tok # t
    BY <1>4
  <2>2. Opportunities!Ripen(id, {t})
    BY <1>1, <1>2, <2>1, HoldersStay DEF Opportunities!Ripen, Opportunities!Settleable
  <2>. QED
    BY <2>1, <2>2 DEF Allowed, Opportunities!Step
<1>. QED
  BY <1>3, <1>4

\* What Add, a resume and a retry do to the table of tokens
LEMMA HoldersMint ==
  ASSUME PoolType, NEW id \in Ids, NEW root, NEW tries, Mint(id, root, tries)
  PROVE  Holders' = [t \in 1..(last + 1) |-> IF t > last THEN id ELSE Holders[t]]
BY PoolAssumption DEF Mint, Holders, IdOf, PoolType

\* Add: the ID had no place.
LEMMA Enters ==
  ASSUME PoolType, NEW id \in Ids, NEW root, Mint(id, root, 0),
         PlaceOf(id) = Gone,
         PlaceOf(id)' = [at |-> "queued", tok |-> last + 1, admitted |-> FALSE],
         \A x \in Ids \ {id} : PlaceOf(x)' = PlaceOf(x),
         busy' = busy
  PROVE  Allowed
<1>1. Positions' = [Positions EXCEPT ![id] =
                      [at |-> "queued", tok |-> last + 1, admitted |-> FALSE]]
  BY OneMoves
<1>2. Positions[id].at = "out"
  BY PlaceNow DEF Gone
<1>3. last < MaxToken /\ last' = last + 1
  BY DEF Mint
<1>4. Opportunities!Enter(id)
  BY <1>1, <1>2, <1>3, HoldersMint DEF Opportunities!Enter, Opportunities!Mint
<1>. QED
  BY <1>4 DEF Allowed, Opportunities!Step

-----------------------------------------------------------------------------
(* What the actions do to the places. *)

\* The steps that change neither entries nor who runs what
LEMMA Quiet ==
  ASSUME UNCHANGED <<queued, downloads, busy, last, info, wtok>>,
         \A v \in Workers : wpc'[v] \in InRun <=> wpc[v] \in InRun
  PROVE  Allowed
<1>1. ASSUME NEW id \in Ids PROVE PlaceOf(id)' = PlaceOf(id)
  BY Stays DEF Executing
<1>. QED
  BY <1>1, Nothing

\* A token is held by one worker, and an active one belongs to its ID.
LEMMA OneRunner ==
  ASSUME IInv, NEW w \in Workers, wpc[w] # "idle"
  PROVE  /\ wtok[w] \in Tokens /\ wtok[w] # None /\ wtok[w] \in busy
         /\ IdOf(wtok[w]) \in Ids
         /\ \A v \in Workers : wtok[v] = wtok[w] => v = w
         /\ Executing(wtok[w]) => wpc[w] \in InRun
         /\ \A id \in Ids : downloads[id] = wtok[w] => id = IdOf(wtok[w]) /\ OwnsSlot(w)
<1>1. wtok[w] \in 1..last
  BY WorkerHolds
<1>2. wtok[w] \in Tokens /\ wtok[w] # None /\ IdOf(wtok[w]) \in Ids
  BY <1>1, Minted DEF IInv, TypeOK
<1>3. wtok[w] \in busy /\ \A v \in Workers : wtok[v] = wtok[w] => v = w
  BY <1>2 DEF IInv, ClaimsSettledOnce
<1>4. Executing(wtok[w]) => wpc[w] \in InRun
  BY <1>3 DEF Executing
<1>5. \A id \in Ids : downloads[id] = wtok[w] => id = IdOf(wtok[w]) /\ OwnsSlot(w)
  BY <1>2 DEF IInv, EntriesOK, OwnsSlot
<1>. QED
  BY <1>2, <1>3, <1>4, <1>5

\* A worker has dealt with the result of its run.
LEMMA RunOver ==
  ASSUME IInv, NEW w \in Workers, wpc[w] \in InRun, NEW pc, pc \notin InRun,
         wpc' = [wpc EXCEPT ![w] = pc],
         UNCHANGED <<queued, busy, last, info, wtok>>,
         downloads' = downloads \/ DropSlot(w)
  PROVE  Allowed
<1>1. wpc[w] # "idle"
  BY DEF InRun
<1>2. wpc'[w] = pc /\ \A v \in Workers \ {w} : wpc'[v] = wpc[v]
  BY DEF IInv, TypeOK, WorkerType
<1>3. downloads \in [Ids -> Tokens \cup {None}]
  BY DEF IInv, TypeOK, PoolType
<1>4. ASSUME NEW x \in Ids, downloads[x] # wtok[w]
      PROVE  PlaceOf(x)' = PlaceOf(x)
  <2>1. downloads'[x] = downloads[x]
    BY <1>3, <1>4 DEF DropSlot, OwnsSlot
  <2>2. (\E v \in Workers : wtok'[v] = downloads[x] /\ wpc'[v] \in InRun)
          <=> Executing(downloads[x])
    BY <1>2, <1>4, OtherRuns
  <2>. QED
    BY <2>1, <2>2, Stays
<1>5. CASE OwnsSlot(w)
  <2>1. PICK i \in Ids : /\ i = IdOf(wtok[w])
                        /\ downloads[i] = wtok[w] /\ wtok[w] # None
    BY <1>1, <1>5, OneRunner DEF OwnsSlot
  <2>2. ~IsQueued(i)'
    BY <2>1 DEF IInv, SoleOwner, IsQueued
  <2>3. downloads'[i] \in {None, wtok[w]}
    BY <1>3, <2>1 DEF DropSlot
  <2>4. ~\E v \in Workers : wtok'[v] = wtok[w] /\ wpc'[v] \in InRun
    BY <1>1, <1>2, OneRunner
  <2>5. PlaceOf(i)' = Gone
    BY <2>1, <2>2, <2>3, <2>4, PlaceNext
  <2>6. \A x \in Ids \ {i} : PlaceOf(x)' = PlaceOf(x)
    BY <1>1, <1>4, <2>1, OneRunner
  <2>7. {i} \in SUBSET Ids
    BY <2>1
  <2>. QED
    BY <2>5, <2>6, <2>7, Departs
<1>6. CASE ~OwnsSlot(w)
  <2>1. \A x \in Ids : downloads[x] # wtok[w]
    BY <1>1, <1>6, OneRunner
  <2>2. \A x \in Ids : PlaceOf(x)' = PlaceOf(x)
    BY <1>4, <2>1
  <2>. QED
    BY <2>2, Nothing
<1>. QED
  BY <1>5, <1>6

\* Nobody holds the place of a claim that is being settled.
LEMMA Unplaced ==
  ASSUME IInv, NEW w \in Workers, wpc[w] # "idle",
         wpc[w] \in InRun => ~OwnsSlot(w),
         \A id \in Ids : queued[id].tok # wtok[w],
         NEW x \in Ids
  PROVE  /\ PlaceOf(x).tok # wtok[w]
         /\ downloads[x] # None /\ ~IsQueued(x)
              => ~(wtok[w] = downloads[x] /\ wpc[w] \in InRun)
<1>1. ~(wtok[w] = downloads[x] /\ wpc[w] \in InRun)
  BY OneRunner
<1>2. CASE IsQueued(x)
  BY <1>2, PlaceNow DEF InQueue
<1>3. CASE ~IsQueued(x) /\ downloads[x] # None /\ Executing(downloads[x])
  <2>1. downloads[x] # wtok[w]
    BY <1>1, <1>3, OneRunner
  <2>. QED
    BY <1>1, <1>3, <2>1, PlaceNow DEF InExecution
<1>4. CASE ~IsQueued(x) /\ ~(downloads[x] # None /\ Executing(downloads[x]))
  BY <1>1, <1>4, OneRunner, PlaceNow DEF Gone
<1>. QED
  BY <1>2, <1>3, <1>4

\* A claim ends and the entries stay.
LEMMA ClaimOver ==
  ASSUME IInv, NEW w \in Workers, wpc[w] # "idle",
         wpc[w] \in InRun => ~OwnsSlot(w),
         \A id \in Ids : queued[id].tok # wtok[w],
         UNCHANGED <<queued, downloads, last, info>>,
         busy' = busy \ {wtok[w]},
         wpc' = [wpc EXCEPT ![w] = "idle"], wtok' = [wtok EXCEPT ![w] = None]
  PROVE  Allowed
<1>1. /\ wpc'[w] = "idle" /\ \A v \in Workers \ {w} : wpc'[v] = wpc[v]
      /\ wtok'[w] = None /\ \A v \in Workers \ {w} : wtok'[v] = wtok[v]
  BY DEF IInv, TypeOK, WorkerType
<1>2. ASSUME NEW x \in Ids PROVE PlaceOf(x)' = PlaceOf(x) /\ PlaceOf(x).tok # wtok[w]
  <2>1. ~IsQueued(x) /\ downloads[x] # None =>
          ((\E v \in Workers : wtok'[v] = downloads[x] /\ wpc'[v] \in InRun)
             <=> Executing(downloads[x]))
    BY <1>1, Unplaced, OtherRuns
  <2>. QED
    BY <2>1, Stays, Unplaced
<1>3. wtok[w] \in Tokens /\ wtok[w] \in busy
  BY OneRunner
<1>. QED
  BY <1>2, <1>3, Settles

-----------------------------------------------------------------------------
(* The actions that move an ID. *)

\* waitForTask claims an entry that was admitted.
LEMMA ClaimStep ==
  ASSUME Managed, IInv, NEW w \in Workers, Claim(w)
  PROVE  Allowed
<1>1. PICK id \in Ids :
        /\ Eligible(id)
        /\ queued' = [queued EXCEPT ![id] = Task(@.tok, TRUE, TRUE, @.admitted)]
        /\ busy' = busy \cup {queued[id].tok}
        /\ wtok' = [wtok EXCEPT ![w] = queued[id].tok]
  BY DEF Claim
<1>2. /\ queued[id] \in Entry /\ queued'[id] = Task(queued[id].tok, TRUE, TRUE, queued[id].admitted)
      /\ \A x \in Ids \ {id} : queued'[x] = queued[x]
  BY <1>1 DEF IInv, TypeOK, PoolType
<1>3. /\ wpc[w] = "idle" /\ wpc'[w] = "claimed"
      /\ \A v \in Workers \ {w} : wpc'[v] = wpc[v] /\ wtok'[v] = wtok[v]
  BY <1>1 DEF Claim, IInv, TypeOK, WorkerType
<1>4. ASSUME NEW x \in Ids \ {id} PROVE PlaceOf(x)' = PlaceOf(x)
  <2>1. (\E v \in Workers : wtok'[v] = downloads[x] /\ wpc'[v] \in InRun)
          <=> Executing(downloads[x])
    BY <1>3, OtherRuns DEF InRun
  <2>. QED
    BY <1>2, <2>1, Stays DEF Claim
<1>. PICK tok, adm : tok = queued[id].tok /\ adm = queued[id].admitted
  OBVIOUS
<1>5. PlaceOf(id) = [at |-> "queued", tok |-> tok, admitted |-> adm]
  BY <1>1, PlaceNow DEF Eligible, InQueue
<1>6. IsQueued(id)'
  BY <1>1, <1>2 DEF Eligible, IsQueued, Task
<1>7. PlaceOf(id)' = [at |-> "flying", tok |-> tok, admitted |-> adm]
  BY <1>2, <1>6, PlaceNext DEF InQueue, Task
<1>8. Positions' = [Positions EXCEPT ![id].at = "flying"]
  BY <1>4, <1>5, <1>7, AtMoves
<1>9. Opportunities!Claim(id)
  BY <1>1, <1>5, <1>8, PlaceNow, HoldersStay
  DEF Claim, Eligible, Opportunities!Claim, Opportunities!Waits
<1>. QED
  BY <1>9 DEF Allowed, Opportunities!Step

\* The claim becomes a run; Vouched says that it was admitted.
LEMMA RegisterStep ==
  ASSUME Managed, IInv, Vouched, NEW w \in Workers, Register(w)
  PROVE  Allowed
<1>1. wpc[w] = "claimed" /\ wpc[w] # "idle" /\ wtok' = wtok
  BY DEF Register
<1>2. PICK id \in Ids : id = IdOf(wtok[w])
  BY <1>1, OneRunner
<1>3. /\ queued[id].tok = wtok[w] /\ wtok[w] # None /\ wtok[w] \in busy
      /\ IsQueued(id)
  BY <1>1, <1>2, OneRunner DEF Register, IsQueued
<1>4. queued[id].admitted /\ queued[id] \in Entry
  BY <1>1, <1>2, <1>3 DEF Vouched, IInv, TypeOK, PoolType
<1>5. queued[id].inFlight
  BY <1>1, <1>3 DEF IInv, InFlightOK
<1>6. /\ queued'[id] = NotQueued /\ \A x \in Ids \ {id} : queued'[x] = queued[x]
      /\ downloads'[id] = wtok[w] /\ \A x \in Ids \ {id} : downloads'[x] = downloads[x]
      /\ wpc'[w] = "running" /\ \A v \in Workers \ {w} : wpc'[v] = wpc[v]
  BY <1>2 DEF Register, IInv, TypeOK, PoolType, WorkerType
<1>7. ASSUME NEW x \in Ids \ {id} PROVE PlaceOf(x)' = PlaceOf(x)
  <2>1. downloads[x] # wtok[w]
    BY <1>1, <1>2, OneRunner
  <2>2. (\E v \in Workers : wtok'[v] = downloads[x] /\ wpc'[v] \in InRun)
          <=> Executing(downloads[x])
    BY <1>1, <1>6, <2>1, OtherRuns
  <2>. QED
    BY <1>6, <2>2, Stays
<1>. PICK tok, adm : tok = wtok[w] /\ adm = queued[id].admitted
  OBVIOUS
<1>8. PlaceOf(id) = [at |-> "flying", tok |-> tok, admitted |-> adm]
  BY <1>3, <1>5, PlaceNow DEF InQueue
<1>9. ~IsQueued(id)'
  BY <1>6 DEF IsQueued, NotQueued, Task, None
<1>10. PlaceOf(id)' = [at |-> "running", tok |-> tok, admitted |-> adm]
  <2>1. adm = TRUE
    BY <1>4 DEF Entry
  <2>. QED
    BY <1>1, <1>3, <1>6, <1>9, <2>1, PlaceNext DEF InExecution, InRun
<1>11. Positions' = [Positions EXCEPT ![id].at = "running"]
  BY <1>7, <1>8, <1>10, AtMoves
<1>12. Opportunities!Register(id)
  BY <1>3, <1>8, <1>11, PlaceNow, HoldersStay DEF Register, Opportunities!Register
<1>. QED
  BY <1>12 DEF Allowed, Opportunities!Step

\* A new entry is not admitted; Add's can be claimed at once.
LEMMA MintEntry ==
  ASSUME PoolType, NEW id \in Ids, NEW root, NEW tries, Mint(id, root, tries)
  PROVE  /\ queued'[id].admitted = FALSE
         /\ tries = 0 => queued'[id].due
<1>1. queued'[id] = Task(last + 1, tries > 0, tries = 0, FALSE)
  BY DEF Mint, PoolType
<1>2. queued'[id].admitted = FALSE /\ queued'[id].due = (tries = 0)
  BY <1>1 DEF Task
<1>. QED
  BY ONLY <1>2, Zenon

\* A failed run is queued again, in flight, under a token of its own.
LEMMA RequeueStep ==
  ASSUME IInv, NEW w \in Workers, Requeue(w)
  PROVE  Allowed
<1>1. wpc[w] = "error" /\ wpc[w] # "idle" /\ wpc[w] \in InRun /\ wtok' = wtok
  BY DEF Requeue, InRun
<1>2. wtok[w] \in 1..last /\ wtok[w] # None
  BY <1>1, WorkerHolds, OneRunner
<1>3. PICK id \in Ids : id = IdOf(wtok[w])
  BY <1>1, OneRunner
<1>4. ~IsQueued(id) /\ downloads[id] = wtok[w]
  BY <1>3 DEF Requeue, Retryable, Detached, Taken, OwnsSlot
<1>5. PICK tries : tries = info[wtok[w]].tries + 1
  OBVIOUS
<1>6. tries \in 0..MaxRetries /\ tries > 0 /\ RootOf(wtok[w]) \in Tokens /\ PoolType
  BY <1>2, <1>5, Minted, PoolAssumption DEF IInv, TypeOK, Requeue, Retryable
<1>7. Mint(id, RootOf(wtok[w]), tries)
  BY <1>3, <1>5 DEF Requeue
<1>8. /\ queued'[id].tok = last + 1 /\ queued'[id].inFlight
      /\ last + 1 \in Tokens
      /\ \A x \in Ids \ {id} : queued'[x] = queued[x]
  BY <1>6, <1>7, MintEffect
<1>9. queued'[id].admitted = FALSE
  BY <1>6, <1>7, MintEntry
<1>10. IsQueued(id)'
  BY <1>8 DEF IsQueued, Tokens, None
<1>11. PlaceOf(id)' = [at |-> "flying", tok |-> last + 1, admitted |-> FALSE]
  BY <1>8, <1>9, <1>10, PlaceNext DEF InQueue
<1>12. PlaceOf(id) = InExecution(wtok[w])
  BY <1>1, <1>2, <1>4, PlaceNow DEF Executing
<1>13. /\ wpc'[w] = "requeued" /\ \A v \in Workers \ {w} : wpc'[v] = wpc[v]
       /\ \A x \in Ids \ {id} : downloads'[x] = downloads[x]
  BY <1>3 DEF Requeue, DropSlot, IInv, TypeOK, WorkerType, PoolType
<1>14. ASSUME NEW x \in Ids \ {id} PROVE PlaceOf(x)' = PlaceOf(x)
  <2>1. downloads[x] # wtok[w]
    BY <1>1, <1>3, OneRunner
  <2>2. (\E v \in Workers : wtok'[v] = downloads[x] /\ wpc'[v] \in InRun)
          <=> Executing(downloads[x])
    BY <1>1, <1>13, <2>1, OtherRuns
  <2>. QED
    BY <1>8, <1>13, <2>2, Stays
<1>15. Positions' = [Positions EXCEPT ![id] =
                       [at |-> "flying", tok |-> last + 1, admitted |-> FALSE]]
  BY <1>11, <1>14, OneMoves
<1>16. Positions[id].at = "running"
  BY <1>12, PlaceNow DEF InExecution
<1>17. last < MaxToken /\ last' = last + 1 /\ busy' = busy
  BY DEF Requeue, Mint
<1>18. Opportunities!Retry(id)
  BY <1>6, <1>7, <1>15, <1>16, <1>17, HoldersMint DEF Opportunities!Retry, Opportunities!Mint
<1>. QED
  BY <1>18 DEF Allowed, Opportunities!Step

\* An Add, whose ID is in neither place
LEMMA AddStep ==
  ASSUME IInv, NEW id \in Ids, NEW root \in Tokens, AddEntry(id, root),
         UNCHANGED <<wpc, wtok>>
  PROVE  Allowed
<1>1. Mint(id, root, 0) /\ ~IsQueued(id) /\ downloads[id] = None /\ PoolType
      /\ downloads' = downloads /\ busy' = busy
  BY DEF AddEntry, Addable, IInv, TypeOK
<1>2. 0 \in 0..MaxRetries
  BY PoolAssumption
<1>3. /\ queued'[id].tok = last + 1 /\ ~queued'[id].inFlight /\ last + 1 \in Tokens
      /\ \A x \in Ids \ {id} : queued'[x] = queued[x]
  BY <1>1, <1>2, MintEffect
<1>4. queued'[id].admitted = FALSE /\ queued'[id].due
  BY <1>1, MintEntry
<1>5. IsQueued(id)'
  BY <1>3 DEF IsQueued, Tokens, None
<1>6. PlaceOf(id)' = [at |-> "queued", tok |-> last + 1, admitted |-> FALSE]
  BY <1>3, <1>4, <1>5, PlaceNext DEF InQueue
<1>7. PlaceOf(id) = Gone
  BY <1>1, PlaceNow
<1>8. \A x \in Ids \ {id} : PlaceOf(x)' = PlaceOf(x)
  BY <1>1, <1>3, Stays DEF Executing
<1>. QED
  BY <1>1, <1>6, <1>7, <1>8, Enters

\* What is promised in the places is promised in the queue.
LEMMA CommittedFits ==
  ASSUME PoolType, Committed < Cardinality(Workers)
  PROVE  Opportunities!Committed < Cardinality(Workers)
<1> DEFINE W == {id \in Ids : Opportunities!Waits(id)}
<1>1. W \subseteq Waiting
  BY DEF Waiting, Opportunities!Waits, Positions, PlaceOf
<1>2. IsFiniteSet(Waiting)
  BY PoolAssumption, FS_Subset DEF Waiting
<1>3. /\ Cardinality(W) \in Nat /\ Cardinality(Waiting) \in Nat
      /\ Cardinality(W) <= Cardinality(Waiting)
  BY <1>1, <1>2, FS_Subset, FS_CardinalityType
<1>4. IsFiniteSet(Tokens)
  BY PoolAssumption, FS_Interval DEF Tokens
<1>5. Cardinality(busy) \in Nat
  BY <1>4, FS_Subset, FS_CardinalityType DEF PoolType
<1>6. Cardinality(Workers) \in Nat
  BY PoolAssumption, FS_CardinalityType
<1>7. Opportunities!Committed = Cardinality(busy) + Cardinality(W)
  <2>1. \A S : Opportunities!Cardinality(S) = Cardinality(S)
    BY DEF Opportunities!Cardinality, Cardinality
  <2>. QED
    BY <2>1 DEF Opportunities!Committed
<1>8. Cardinality(busy) + Cardinality(Waiting) < Cardinality(Workers)
  BY DEF Committed
<1>. QED
  BY <1>3, <1>5, <1>6, <1>7, <1>8

\* Admit puts its mark on an entry that waits.
LEMMA AdmitStep ==
  ASSUME IInv, NEW id \in Ids, Admit(id)
  PROVE  Allowed
<1>1. /\ IsQueued(id) /\ ~queued[id].inFlight /\ queued[id].due
      /\ ~queued[id].admitted /\ Committed < Cardinality(Workers)
      /\ UNCHANGED <<downloads, busy, last, info, wpc, wtok>>
  BY DEF Admit, pool, workers
<1>2. PoolType
  BY DEF IInv, TypeOK
<1>3. /\ queued'[id] = Task(queued[id].tok, FALSE, TRUE, TRUE)
      /\ \A x \in Ids \ {id} : queued'[x] = queued[x]
  BY <1>2 DEF Admit, PoolType
<1>. PICK tok, adm : tok = queued[id].tok /\ adm = queued[id].admitted
  OBVIOUS
<1>4. PlaceOf(id) = [at |-> "queued", tok |-> tok, admitted |-> adm]
  BY <1>1, PlaceNow DEF InQueue
<1>5. PlaceOf(id)' = [at |-> "queued", tok |-> tok, admitted |-> TRUE]
  <2>1. IsQueued(id)'
    BY <1>1, <1>3 DEF IsQueued, Task
  <2>. QED
    BY <1>3, <2>1, PlaceNext DEF InQueue, Task
<1>6. \A x \in Ids \ {id} : PlaceOf(x)' = PlaceOf(x)
  BY <1>1, <1>3, Stays DEF Executing
<1>7. Positions' = [Positions EXCEPT ![id] = [at |-> "queued", tok |-> tok, admitted |-> TRUE]]
  BY <1>5, <1>6, OneMoves
<1>8. Positions[id] = [at |-> "queued", tok |-> tok, admitted |-> adm]
  BY <1>4, PlaceNow
<1>9. Positions' = [Positions EXCEPT ![id].admitted = TRUE]
  <2>1. ASSUME NEW yes
        PROVE  [Positions EXCEPT ![id].admitted = yes]
                 = [Positions EXCEPT ![id] = [at |-> "queued", tok |-> tok, admitted |-> yes]]
    <3>1. [Positions[id] EXCEPT !.admitted = yes]
            = [at |-> "queued", tok |-> tok, admitted |-> yes]
      BY <1>8
    <3>2. [Positions EXCEPT ![id].admitted = yes]
            = [Positions EXCEPT ![id] = [Positions[id] EXCEPT !.admitted = yes]]
      OBVIOUS
    <3>. QED
      BY <3>1, <3>2
  <2>. QED
    BY <1>7, <2>1, Zenon
<1>10. Positions[id].at = "queued" /\ ~Positions[id].admitted
  BY <1>1, <1>8
<1>11. Opportunities!Admit(id)
  BY <1>1, <1>2, <1>9, <1>10, CommittedFits, HoldersStay DEF Opportunities!Admit
<1>. QED
  BY <1>11 DEF Allowed, Opportunities!Step

\* A retry's time comes: while its last run is being settled, nothing shows.
LEMMA RipenStep ==
  ASSUME IInv, NEW id \in Ids, Ripen(id)
  PROVE  Allowed
<1>1. /\ IsQueued(id) /\ ~queued[id].due
      /\ UNCHANGED <<downloads, busy, last, info, wpc, wtok>>
  BY DEF Ripen, workers
<1>2. /\ queued'[id] = Task(queued[id].tok, queued[id].inFlight, TRUE, queued[id].admitted)
      /\ \A x \in Ids \ {id} : queued'[x] = queued[x]
  BY DEF Ripen, IInv, TypeOK, PoolType
<1>. PICK tok, adm : tok = queued[id].tok /\ adm = queued[id].admitted
  OBVIOUS
<1>3. PlaceOf(id) = [at |-> "flying", tok |-> tok, admitted |-> adm]
  BY <1>1, PlaceNow DEF InQueue
<1>4. IsQueued(id)'
  BY <1>1, <1>2 DEF IsQueued, Task
<1>5. PlaceOf(id)' = InQueue(queued'[id])
  BY <1>4, PlaceNext
<1>6. \A x \in Ids \ {id} : PlaceOf(x)' = PlaceOf(x)
  BY <1>1, <1>2, Stays DEF Executing
<1>7. CASE queued[id].inFlight
  <2>1. PlaceOf(id)' = [at |-> "flying", tok |-> tok, admitted |-> adm]
    BY <1>2, <1>5, <1>7 DEF InQueue, Task
  <2>. QED
    BY <1>1, <1>3, <1>6, <2>1, Nothing
<1>8. CASE ~queued[id].inFlight
  <2>1. PlaceOf(id)' = [at |-> "queued", tok |-> tok, admitted |-> adm]
    BY <1>2, <1>5, <1>8 DEF InQueue, Task
  <2>2. tok \notin busy
    BY <1>1, <1>8 DEF IInv, InFlightOK, ClaimsSettledOnce
  <2>. QED
    BY <1>1, <1>3, <1>6, <2>1, <2>2, Ripens
<1>. QED
  BY <1>7, <1>8

\* A token that is no longer a claim's waits in no queue.
LEMMA NotWaiting ==
  ASSUME IInv, NEW w \in Workers, wpc[w] \notin {"idle", "claimed"}, NEW id \in Ids
  PROVE  queued[id].tok # wtok[w]
<1>1. wtok[w] # None
  BY OneRunner
<1>. QED
  BY <1>1 DEF IInv, InFlightOK, IsQueued

\* The retry of a failed run is let go, and the claim of the run ends.
LEMMA RequeueDoneStep ==
  ASSUME IInv, NEW w \in Workers, RequeueDone(w)
  PROVE  Allowed
<1>1. /\ wpc[w] = "rqdone" /\ wpc[w] # "idle" /\ wpc[w] \notin InRun
      /\ wpc[w] \notin {"idle", "claimed"}
      /\ busy' = busy \ {wtok[w]}
      /\ wpc' = [wpc EXCEPT ![w] = "idle"] /\ wtok' = [wtok EXCEPT ![w] = None]
      /\ UNCHANGED <<downloads, last, info>>
  BY DEF RequeueDone, EndRequeue, InRun
<1>2. PICK id \in Ids :
        /\ queued[id].tok = wnew[w]
        /\ queued' = [queued EXCEPT ![id] = Task(@.tok, FALSE, @.due, @.admitted)]
  BY DEF RequeueDone
<1>3. /\ queued'[id] = Task(queued[id].tok, FALSE, queued[id].due, queued[id].admitted)
      /\ \A x \in Ids \ {id} : queued'[x] = queued[x]
  BY <1>2 DEF IInv, TypeOK, PoolType
<1>4. /\ wpc'[w] = "idle" /\ \A v \in Workers \ {w} : wpc'[v] = wpc[v]
      /\ wtok'[w] = None /\ \A v \in Workers \ {w} : wtok'[v] = wtok[v]
  BY <1>1 DEF IInv, TypeOK, WorkerType
<1>5. wnew[w] # None /\ \A v \in Workers : wtok[v] # wnew[w]
  BY <1>1 DEF IInv, WorkersOK, Requeueing
<1>6. IsQueued(id) /\ queued[id].inFlight
  BY <1>2, <1>5 DEF IsQueued, IInv, InFlightOK
<1>7. IsQueued(id)'
  BY <1>3, <1>6 DEF IsQueued, Task
<1>8. wtok[w] \in busy /\ wtok[w] \in Tokens /\ \A x \in Ids : PlaceOf(x).tok # wtok[w]
  BY <1>1, OneRunner, NotWaiting, Unplaced
<1>9. wnew[w] \notin busy
  BY <1>5 DEF IInv, ClaimsSettledOnce
<1>10. ASSUME NEW x \in Ids \ {id} PROVE PlaceOf(x)' = PlaceOf(x)
  <2>1. downloads[x] # None =>
          ((\E v \in Workers : wtok'[v] = downloads[x] /\ wpc'[v] \in InRun)
             <=> Executing(downloads[x]))
    BY <1>1, <1>4, OtherRuns
  <2>. QED
    BY <1>1, <1>3, <2>1, Stays
<1>. PICK tok, adm : tok = queued[id].tok /\ adm = queued[id].admitted
  OBVIOUS
<1>11. PlaceOf(id) = [at |-> "flying", tok |-> tok, admitted |-> adm]
  BY <1>6, PlaceNow DEF InQueue
<1>12. PlaceOf(id)' = InQueue(queued'[id])
  BY <1>7, PlaceNext
<1>13. CASE queued[id].due
  <2>1. PlaceOf(id)' = [at |-> "queued", tok |-> tok, admitted |-> adm]
    BY <1>3, <1>12, <1>13 DEF InQueue, Task
  <2>2. tok \notin busy
    BY <1>2, <1>9
  <2>. QED
    BY <1>1, <1>8, <1>10, <1>11, <2>1, <2>2, Ripens
<1>14. CASE ~queued[id].due
  <2>1. PlaceOf(id)' = [at |-> "flying", tok |-> tok, admitted |-> adm]
    BY <1>3, <1>12, <1>14 DEF InQueue, Task
  <2>. QED
    BY <1>1, <1>8, <1>10, <1>11, <2>1, Settles
<1>. QED
  BY <1>13, <1>14

\* The ways a claim ends that leave the entries alone
LEMMA ClaimEnds ==
  ASSUME IInv, NEW w \in Workers,
         RequeueLost(w) \/ Void(w) \/ Settle(w) \/ SettleStale(w)
  PROVE  Allowed
<1>1. CASE RequeueLost(w)
  <2>1. /\ wpc[w] = "rqdone" /\ busy' = busy \ {wtok[w]}
        /\ wpc' = [wpc EXCEPT ![w] = "idle"] /\ wtok' = [wtok EXCEPT ![w] = None]
        /\ UNCHANGED <<queued, downloads, last, info>>
    BY <1>1 DEF RequeueLost, EndRequeue
  <2>. QED
    BY <2>1, NotWaiting, ClaimOver DEF InRun
<1>2. CASE Void(w)
  <2>1. /\ wpc[w] = "claimed" /\ busy' = busy \ {wtok[w]}
        /\ wpc' = [wpc EXCEPT ![w] = "idle"] /\ wtok' = [wtok EXCEPT ![w] = None]
        /\ UNCHANGED <<queued, downloads, last, info>>
        /\ queued[IdOf(wtok[w])].tok # wtok[w]
    BY <1>2 DEF Void, Release
  <2>2. \A id \in Ids : queued[id].tok # wtok[w]
    BY <2>1, OneRunner DEF IInv, EntriesOK, IsQueued
  <2>. QED
    BY <2>1, <2>2, ClaimOver DEF InRun
<1>3. CASE Settle(w)
  <2>1. /\ wpc[w] = "tail" /\ busy' = busy \ {wtok[w]}
        /\ wpc' = [wpc EXCEPT ![w] = "idle"] /\ wtok' = [wtok EXCEPT ![w] = None]
        /\ UNCHANGED <<queued, downloads, last, info>>
    BY <1>3 DEF Settle, Release
  <2>. QED
    BY <2>1, NotWaiting, ClaimOver DEF InRun
<1>4. CASE SettleStale(w)
  <2>1. /\ wpc[w] = "error" /\ busy' = busy \ {wtok[w]}
        /\ wpc' = [wpc EXCEPT ![w] = "idle"] /\ wtok' = [wtok EXCEPT ![w] = None]
        /\ UNCHANGED <<queued, last, info>> /\ Taken(w) /\ DropSlot(w)
    BY <1>4 DEF SettleStale, Release
  <2>2. IdOf(wtok[w]) \in Ids /\ wtok[w] # None
    BY <2>1, OneRunner
  <2>3. ~OwnsSlot(w)
    BY <2>1, <2>2 DEF Taken, OwnsSlot, IInv, SoleOwner
  <2>4. downloads' = downloads
    BY <2>1, <2>3 DEF DropSlot
  <2>. QED
    BY <2>1, <2>3, <2>4, NotWaiting, ClaimOver DEF InRun
<1>. QED
  BY <1>1, <1>2, <1>3, <1>4

\* The ways a run ends
LEMMA RunEnds ==
  ASSUME IInv, NEW w \in Workers,
         Success(w) \/ PauseSend(w) \/ PausePublish(w) \/ Terminal(w)
  PROVE  Allowed
<1>1. PICK pc \in {"tail", "terminal"} : wpc' = [wpc EXCEPT ![w] = pc]
  BY DEF Success, PauseSend, PausePublish, Terminal
<1>2. wpc[w] \in {"success", "pause", "pfence", "error"}
  BY DEF Success, PauseSend, PausePublish, Terminal, Ends
<1>3. UNCHANGED <<queued, busy, last, info, wtok>>
  BY DEF Success, PauseSend, PausePublish, Terminal, pool
<1>4. downloads' = downloads \/ DropSlot(w)
  BY DEF Success, PauseSend, PausePublish, Terminal, pool
<1>. QED
  BY <1>1, <1>2, <1>3, <1>4, RunOver DEF InRun

\* The ways an ID is taken out
LEMMA Leaves ==
  ASSUME IInv, NEW c \in Callers, NEW id \in Ids,
         PauseQueued(c, id) \/ CancelLock(c, id) \/ Extract(c, id)
  PROVE  Allowed
<1>1. UNCHANGED <<busy, last, info, wpc, wtok>>
  BY DEF PauseQueued, CancelLock, Extract, workers
<1>2. /\ queued'[id] \in {queued[id], NotQueued} /\ downloads'[id] \in {downloads[id], None}
      /\ \A x \in Ids \ {id} : queued'[x] = queued[x] /\ downloads'[x] = downloads[x]
  BY DEF PauseQueued, CancelLock, Extract, Dequeue, IInv, TypeOK, PoolType
<1>3. ~IsQueued(id)' /\ downloads'[id] = None
  <2>. PoolType /\ SoleOwner
    BY DEF IInv, TypeOK
  <2>1. CASE PauseQueued(c, id)
    BY <2>1 DEF PauseQueued, Dequeue, SoleOwner, IsQueued, NotQueued, Task, None, PoolType
  <2>2. CASE CancelLock(c, id)
    BY <2>2 DEF CancelLock, Dequeue, IsQueued, NotQueued, Task, None, PoolType
  <2>3. CASE Extract(c, id)
    BY <2>3 DEF Extract, SoleOwner, IsQueued, PoolType
  <2>. QED
    BY <2>1, <2>2, <2>3
<1>4. PlaceOf(id)' = Gone
  BY <1>3, PlaceNext
<1>5. \A x \in Ids \ {id} : PlaceOf(x)' = PlaceOf(x)
  BY <1>1, <1>2, Stays DEF Executing
<1>6. {id} \in SUBSET Ids
  OBVIOUS
<1>. QED
  BY <1>1, <1>4, <1>5, <1>6, Departs

\* GracefulShutdown empties the queue.
LEMMA SweepStep ==
  ASSUME IInv, ShutSweep
  PROVE  Allowed
<1> DEFINE S == {id \in Ids : IsQueued(id)}
<1>1. /\ \A id \in Ids : queued'[id] = NotQueued
      /\ UNCHANGED <<downloads, busy, last, info, wpc, wtok>>
  BY DEF ShutSweep, workers
<1>2. ASSUME NEW id \in S PROVE PlaceOf(id)' = Gone
  <2>1. ~IsQueued(id)' /\ downloads'[id] = None
    BY <1>1 DEF IsQueued, NotQueued, Task, None, IInv, SoleOwner
  <2>. QED
    BY <2>1, PlaceNext
<1>3. ASSUME NEW id \in Ids \ S PROVE PlaceOf(id)' = PlaceOf(id)
  <2>1. queued'[id] = queued[id]
    BY <1>1 DEF IInv, EntriesOK
  <2>. QED
    BY <1>1, <2>1, Stays DEF Executing
<1>4. S \in SUBSET Ids
  OBVIOUS
<1>. QED
  BY <1>1, <1>2, <1>3, <1>4, Departs

\* The steps of a worker that only its own program counter shows
LEMMA QuietWorker ==
  ASSUME IInv, NEW w \in Workers,
         \/ Fill(w) \/ (\E res \in Outcomes : RunReturns(w, res)) \/ Classify(w)
         \/ PauseFence(w) \/ RequeueCheck(w) \/ RequeueSend(w) \/ TerminalSend(w)
  PROVE  Allowed
<1>1. UNCHANGED <<queued, downloads, busy, last, info, wtok>>
  BY DEF Fill, RunReturns, Classify, PauseFence, RequeueCheck, RequeueSend, TerminalSend,
     pool, workers
<1>2. WorkerType
  BY DEF IInv, TypeOK
<1>3. ASSUME NEW v \in Workers PROVE wpc'[v] \in InRun <=> wpc[v] \in InRun
  <2>1. CASE Fill(w)
    BY <2>1 DEF Fill, workers
  <2>2. CASE \E res \in Outcomes : RunReturns(w, res)
    BY <1>2, <2>2 DEF RunReturns, InRun, WorkerType
  <2>3. CASE Classify(w)
    BY <1>2, <2>3 DEF Classify, Branch, InRun, WorkerType
  <2>4. CASE PauseFence(w) \/ RequeueCheck(w) \/ RequeueSend(w) \/ TerminalSend(w)
    BY <1>2, <2>4 DEF PauseFence, RequeueCheck, RequeueSend, TerminalSend, InRun, WorkerType
  <2>. QED
    BY <2>1, <2>2, <2>3, <2>4
<1>. QED
  BY <1>1, <1>3, Quiet

\* The steps that touch neither the pool nor its workers
LEMMA Elsewhere ==
  ASSUME UNCHANGED <<pool, workers>>
  PROVE  Allowed
<1>1. UNCHANGED <<queued, downloads, busy, last, info, wtok>>
      /\ \A v \in Workers : wpc'[v] \in InRun <=> wpc[v] \in InRun
  BY DEF pool, workers
<1>. QED
  BY <1>1, Quiet

\* Most of what callers and the shutdown do leaves pool and workers alone.
LEMMA CallersElsewhere ==
  ASSUME \/ \E c \in Callers :
              \/ \E id \in Ids : PauseFind(c, id)
              \/ PauseSkips(c) \/ PauseJoins(c) \/ PauseMark(c) \/ PauseGate(c)
              \/ PauseSet(c) \/ CancelStop(c) \/ CancelWait(c) \/ CancelReturn(c)
              \/ (\E t \in Tokens : CancelCross(c, t))
              \/ ReAddRefused(c)
         \/ \E id \in Ids : PauseNothing(id) \/ ShutNormalise(id)
         \/ ShutStart \/ ShutPolled \/ ShutForced \/ ShutWaited \/ ShutDrained
  PROVE  UNCHANGED <<pool, workers>>
<1>1. CASE \E c \in Callers :
             \/ \E id \in Ids : PauseFind(c, id)
             \/ PauseSkips(c) \/ PauseJoins(c) \/ PauseMark(c) \/ PauseGate(c)
             \/ PauseSet(c)
  BY <1>1 DEF PauseFind, PauseSkips, PauseJoins, PauseMark, PauseGate, PauseSet
<1>2. CASE \E c \in Callers :
             \/ CancelStop(c) \/ CancelWait(c) \/ CancelReturn(c)
             \/ (\E t \in Tokens : CancelCross(c, t))
             \/ ReAddRefused(c)
  BY <1>2 DEF CancelStop, CancelWait, CancelReturn, CancelCross, ReAddRefused
<1>3. CASE \/ \E id \in Ids : PauseNothing(id) \/ ShutNormalise(id)
           \/ ShutStart \/ ShutPolled \/ ShutForced \/ ShutWaited \/ ShutDrained
  BY <1>3 DEF PauseNothing, ShutNormalise, ShutStart, ShutPolled, ShutForced, ShutWaited,
     ShutDrained
<1>. QED
  BY <1>1, <1>2, <1>3

\* Every step of the pool is one AdmittedPool allows.
LEMMA StepAllowed ==
  ASSUME Managed, IInv, Vouched, [Next]_vars
  PROVE  Allowed
<1>1. ASSUME NEW id \in Ids, AddNew(id) PROVE Allowed
  <2>1. last + 1 \in Tokens
    BY <1>1, PoolAssumption DEF AddNew, AddEntry, Mint, IInv, TypeOK, PoolType, Tokens
  <2>. QED
    BY <1>1, <2>1, AddStep DEF AddNew, workers
<1>2. ASSUME NEW id \in Ids, Admit(id) \/ Ripen(id) PROVE Allowed
  BY <1>2, AdmitStep, RipenStep
<1>3. ASSUME NEW w \in Workers, WorkerStep(w) PROVE Allowed
  BY <1>3, ClaimStep, RegisterStep, RequeueStep, RequeueDoneStep, ClaimEnds, RunEnds,
     QuietWorker DEF WorkerStep
<1>4. ASSUME NEW c \in Callers, CallerStep(c) PROVE Allowed
  <2>1. CASE \E id \in Ids : PauseQueued(c, id) \/ CancelLock(c, id) \/ Extract(c, id)
    BY <2>1, Leaves
  <2>2. CASE ReAdd(c)
    <3>1. ctok[c] \in 1..last /\ PoolType
      BY <2>2, CallerHolds DEF ReAdd, IInv, TypeOK
    <3>2. IdOf(ctok[c]) \in Ids /\ RootOf(ctok[c]) \in Tokens
      BY <3>1, Minted
    <3>. QED
      BY <2>2, <3>2, AddStep DEF ReAdd, workers
  <2>. QED
    BY <1>4, <2>1, <2>2, CallersElsewhere, Elsewhere DEF CallerStep
<1>5. ASSUME ShutStep PROVE Allowed
  BY <1>5, SweepStep, CallersElsewhere, Elsewhere DEF ShutStep
<1>6. CASE UNCHANGED vars
  BY <1>6, Elsewhere DEF vars
<1>. QED
  BY <1>1, <1>2, <1>3, <1>4, <1>5, <1>6 DEF Next

-----------------------------------------------------------------------------
(* Vouched is preserved. *)

\* A step that makes no claim and takes no promise back
LEMMA StillVouched ==
  ASSUME IInv, Vouched,
         \A w \in Workers : wpc'[w] = "claimed" => wpc[w] = "claimed" /\ wtok'[w] = wtok[w],
         \A t \in 1..last : info'[t] = info[t],
         \A id \in Ids : \/ queued'[id].tok \notin {queued[id].tok} \cap (1..last)
                         \/ queued[id].admitted => queued'[id].admitted,
         \A id \in Ids : queued'[id].tok \in {queued[id].tok, None, last + 1}
  PROVE  Vouched'
<1>. SUFFICES ASSUME NEW w \in Workers, wpc'[w] = "claimed",
                     queued'[info'[wtok'[w]].id].tok = wtok'[w]
              PROVE  queued'[info'[wtok'[w]].id].admitted
  BY DEF Vouched, IdOf
<1>1. wpc[w] = "claimed" /\ wtok'[w] = wtok[w]
  OBVIOUS
<1>2. wtok[w] \in 1..last /\ IdOf(wtok[w]) \in Ids
  BY <1>1, WorkerHolds, OneRunner
<1>3. info'[wtok'[w]].id = IdOf(wtok[w])
  BY <1>1, <1>2 DEF IdOf
<1>. PICK id \in Ids : id = IdOf(wtok[w])
  BY <1>2
<1>4. queued'[id].tok = wtok[w]
  BY <1>1, <1>3
<1>5. queued[id].tok = wtok[w]
  BY <1>2, <1>4, PoolAssumption DEF None, IInv, TypeOK, PoolType
<1>6. queued[id].admitted
  BY <1>1, <1>5 DEF Vouched
<1>. QED
  BY <1>2, <1>3, <1>4, <1>5, <1>6

\* Nothing that Vouched reads has changed.
LEMMA VouchedKept ==
  ASSUME IInv, Vouched, UNCHANGED <<last, info>>,
         \A id \in Ids : queued'[id] \in {queued[id], NotQueued},
         \A w \in Workers : wpc'[w] = "claimed" => wpc[w] = "claimed" /\ wtok'[w] = wtok[w]
  PROVE  Vouched'
<1>1. \A id \in Ids : queued'[id].tok \in {queued[id].tok, None, last + 1}
  BY DEF NotQueued, Task
<1>2. \A id \in Ids : \/ queued'[id].tok \notin {queued[id].tok} \cap (1..last)
                      \/ queued[id].admitted => queued'[id].admitted
  BY DEF NotQueued, Task, None
<1>. QED
  BY <1>1, <1>2, StillVouched

\* An Add or a retry gives a token no worker has claimed.
LEMMA VouchedMint ==
  ASSUME IInv, Vouched, NEW id \in Ids, NEW root \in Tokens, NEW tries \in 0..MaxRetries,
         Mint(id, root, tries),
         \A w \in Workers : wpc'[w] = "claimed" => wpc[w] = "claimed" /\ wtok'[w] = wtok[w]
  PROVE  Vouched'
<1>1. PoolType /\ last \in Nat
  BY PoolAssumption DEF IInv, TypeOK, PoolType
<1>2. /\ queued'[id].tok = last + 1 /\ \A x \in Ids \ {id} : queued'[x] = queued[x]
      /\ \A t \in 1..last : info'[t] = info[t]
  BY <1>1, MintEffect
<1>3. \A x \in Ids : queued'[x].tok \in {queued[x].tok, None, last + 1}
  BY <1>2
<1>4. \A x \in Ids : \/ queued'[x].tok \notin {queued[x].tok} \cap (1..last)
                     \/ queued[x].admitted => queued'[x].admitted
  BY <1>1, <1>2
<1>. QED
  BY <1>2, <1>3, <1>4, StillVouched

\* One entry changes its marks, and keeps or gains its promise.
LEMMA VouchedMark ==
  ASSUME IInv, Vouched, NEW id \in Ids, NEW inFlight, NEW due, NEW admitted,
         queued' = [queued EXCEPT ![id] = Task(@.tok, inFlight, due, admitted)],
         queued[id].admitted => admitted,
         UNCHANGED <<last, info>>,
         \A w \in Workers : wpc'[w] = "claimed" => wpc[w] = "claimed" /\ wtok'[w] = wtok[w]
  PROVE  Vouched'
<1>1. /\ queued'[id] = Task(queued[id].tok, inFlight, due, admitted)
      /\ \A x \in Ids \ {id} : queued'[x] = queued[x]
  BY DEF IInv, TypeOK, PoolType
<1>2. \A x \in Ids : queued'[x].tok \in {queued[x].tok, None, last + 1}
  BY <1>1 DEF Task
<1>3. \A x \in Ids : queued[x].admitted => queued'[x].admitted
  BY <1>1 DEF Task
<1>. QED
  BY <1>2, <1>3, StillVouched

\* What a worker has claimed stays admitted until it registers it.
LEMMA VouchedStep ==
  ASSUME Managed, IInv, Vouched, [Next]_vars
  PROVE  Vouched'
<1>. PoolType /\ WorkerType
  BY DEF IInv, TypeOK
<1>1. ASSUME NEW id \in Ids, AddNew(id) PROVE Vouched'
  <2>1. Mint(id, last + 1, 0) /\ UNCHANGED <<wpc, wtok>>
    BY <1>1 DEF AddNew, AddEntry, workers
  <2>2. last + 1 \in Tokens /\ 0 \in 0..MaxRetries
    BY <2>1, PoolAssumption DEF Mint, PoolType, Tokens
  <2>. QED
    BY <2>1, <2>2, VouchedMint
<1>2. ASSUME NEW id \in Ids, Admit(id) PROVE Vouched'
  <2>1. queued' = [queued EXCEPT ![id] = Task(@.tok, FALSE, TRUE, TRUE)]
        /\ UNCHANGED <<last, info, wpc, wtok>>
    BY <1>2 DEF Admit, workers
  <2>. QED
    BY <2>1, VouchedMark
<1>3. ASSUME NEW id \in Ids, Ripen(id) PROVE Vouched'
  <2>1. queued' = [queued EXCEPT ![id] =
                     Task(@.tok, queued[id].inFlight, TRUE, queued[id].admitted)]
        /\ UNCHANGED <<last, info, wpc, wtok>>
    BY <1>3 DEF Ripen, workers
  <2>. QED
    BY <2>1, VouchedMark
<1>4. ASSUME NEW w \in Workers, Claim(w) PROVE Vouched'
  <2>1. PICK id \in Ids :
          /\ Eligible(id)
          /\ queued' = [queued EXCEPT ![id] = Task(@.tok, TRUE, TRUE, @.admitted)]
          /\ wtok' = [wtok EXCEPT ![w] = queued[id].tok]
    BY <1>4 DEF Claim
  <2>2. /\ wpc' = [wpc EXCEPT ![w] = "claimed"] /\ UNCHANGED <<last, info>>
    BY <1>4 DEF Claim
  <2>3. /\ queued'[id] = Task(queued[id].tok, TRUE, TRUE, queued[id].admitted)
        /\ \A x \in Ids \ {id} : queued'[x] = queued[x]
        /\ wtok'[w] = queued[id].tok
        /\ \A v \in Workers \ {w} : wpc'[v] = wpc[v] /\ wtok'[v] = wtok[v]
    BY <2>1, <2>2 DEF PoolType, WorkerType
  <2>4. queued[id].admitted /\ IdOf(queued[id].tok) = id
    BY <2>1 DEF Eligible, IInv, EntriesOK
  <2>5. queued'[id].admitted /\ \A x \in Ids : queued[x].admitted => queued'[x].admitted
    BY <2>3, <2>4 DEF Task
  <2>6. \A x \in Ids : queued'[x].tok = queued[x].tok
    BY <2>3 DEF Task
  <2>7. ASSUME NEW v \in Workers, wpc'[v] = "claimed",
               queued'[info'[wtok'[v]].id].tok = wtok'[v]
        PROVE  queued'[info'[wtok'[v]].id].admitted
    <3>1. CASE v = w
      BY <2>2, <2>3, <2>4, <2>5, <3>1 DEF IdOf
    <3>2. CASE v # w
      <4>1. wpc[v] = "claimed" /\ wtok'[v] = wtok[v] /\ info' = info
        BY <2>2, <2>3, <2>7, <3>2
      <4>2. IdOf(wtok[v]) \in Ids
        BY <4>1, OneRunner
      <4>3. queued[IdOf(wtok[v])].tok = wtok[v]
        BY <2>6, <2>7, <4>1, <4>2 DEF IdOf
      <4>. QED
        BY <2>5, <4>1, <4>2, <4>3 DEF Vouched, IdOf
    <3>. QED
      BY <3>1, <3>2
  <2>. QED
    BY <2>7 DEF Vouched, IdOf
<1>5. ASSUME NEW w \in Workers, Requeue(w) PROVE Vouched'
  <2>1. Mint(IdOf(wtok[w]), RootOf(wtok[w]), info[wtok[w]].tries + 1)
        /\ wpc' = [wpc EXCEPT ![w] = "requeued"] /\ wtok' = wtok
    BY <1>5 DEF Requeue
  <2>2. /\ IdOf(wtok[w]) \in Ids /\ RootOf(wtok[w]) \in Tokens
        /\ info[wtok[w]].tries + 1 \in 0..MaxRetries
    BY <1>5, Requeues
  <2>3. \A v \in Workers : wpc'[v] = "claimed" => wpc[v] = "claimed" /\ wtok'[v] = wtok[v]
    BY <2>1 DEF WorkerType
  <2>. QED
    BY <2>1, <2>2, <2>3, VouchedMint
<1>6. ASSUME NEW w \in Workers, RequeueDone(w) PROVE Vouched'
  <2>1. PICK id \in Ids :
          queued' = [queued EXCEPT ![id] = Task(@.tok, FALSE, queued[id].due, queued[id].admitted)]
    BY <1>6 DEF RequeueDone
  <2>2. wpc' = [wpc EXCEPT ![w] = "idle"] /\ wtok' = [wtok EXCEPT ![w] = None]
        /\ UNCHANGED <<last, info>>
    BY <1>6 DEF RequeueDone, EndRequeue
  <2>3. \A v \in Workers : wpc'[v] = "claimed" => wpc[v] = "claimed" /\ wtok'[v] = wtok[v]
    BY <2>2 DEF WorkerType
  <2>. QED
    BY <2>1, <2>2, <2>3, VouchedMark
<1>7. ASSUME NEW w \in Workers,
             RequeueLost(w) \/ Void(w) \/ Settle(w) \/ SettleStale(w)
      PROVE Vouched'
  <2>1. wpc' = [wpc EXCEPT ![w] = "idle"] /\ wtok' = [wtok EXCEPT ![w] = None]
        /\ UNCHANGED <<queued, last, info>>
    BY <1>7 DEF RequeueLost, EndRequeue, Void, Settle, SettleStale, Release
  <2>2. \A v \in Workers : wpc'[v] = "claimed" => wpc[v] = "claimed" /\ wtok'[v] = wtok[v]
    BY <2>1 DEF WorkerType
  <2>. QED
    BY <2>1, <2>2, VouchedKept
<1>8. ASSUME NEW w \in Workers, Register(w) PROVE Vouched'
  <2>1. wpc' = [wpc EXCEPT ![w] = "running"] /\ UNCHANGED <<last, info, wtok>>
        /\ queued' = [queued EXCEPT ![IdOf(wtok[w])] = NotQueued]
    BY <1>8 DEF Register
  <2>2. \A v \in Workers : wpc'[v] = "claimed" => wpc[v] = "claimed" /\ wtok'[v] = wtok[v]
    BY <2>1 DEF WorkerType
  <2>3. \A x \in Ids : queued'[x] \in {queued[x], NotQueued}
    BY <2>1 DEF PoolType
  <2>. QED
    BY <2>1, <2>2, <2>3, VouchedKept
<1>9. ASSUME NEW w \in Workers,
             Success(w) \/ PauseSend(w) \/ PausePublish(w) \/ Terminal(w)
      PROVE Vouched'
  <2>1. PICK pc \in {"tail", "terminal"} : wpc' = [wpc EXCEPT ![w] = pc]
    BY <1>9 DEF Success, PauseSend, PausePublish, Terminal
  <2>2. UNCHANGED <<queued, last, info, wtok>>
    BY <1>9 DEF Success, PauseSend, PausePublish, Terminal, pool
  <2>3. \A v \in Workers : wpc'[v] = "claimed" => wpc[v] = "claimed" /\ wtok'[v] = wtok[v]
    BY <2>1, <2>2 DEF WorkerType
  <2>. QED
    BY <2>2, <2>3, VouchedKept
<1>10. ASSUME NEW w \in Workers,
              \/ Fill(w) \/ (\E res \in Outcomes : RunReturns(w, res)) \/ Classify(w)
              \/ PauseFence(w) \/ RequeueCheck(w) \/ RequeueSend(w) \/ TerminalSend(w)
       PROVE Vouched'
  <2>1. UNCHANGED <<queued, last, info, wtok>>
    BY <1>10 DEF Fill, RunReturns, Classify, PauseFence, RequeueCheck, RequeueSend,
       TerminalSend, pool, workers
  <2>2. PICK pc \in WorkerPCs \ {"claimed"} : wpc' = wpc \/ wpc' = [wpc EXCEPT ![w] = pc]
    BY <1>10 DEF Fill, RunReturns, Classify, Branch, PauseFence, RequeueCheck, RequeueSend,
       TerminalSend, workers, WorkerPCs
  <2>3. \A v \in Workers : wpc'[v] = "claimed" => wpc[v] = "claimed" /\ wtok'[v] = wtok[v]
    BY <2>1, <2>2 DEF WorkerType
  <2>. QED
    BY <2>1, <2>3, VouchedKept
<1>11. ASSUME NEW c \in Callers, NEW id \in Ids,
              PauseQueued(c, id) \/ CancelLock(c, id) \/ Extract(c, id)
       PROVE Vouched'
  <2>1. UNCHANGED <<last, info, wpc, wtok>>
        /\ \A x \in Ids : queued'[x] \in {queued[x], NotQueued}
    BY <1>11 DEF PauseQueued, CancelLock, Extract, Dequeue, workers, PoolType
  <2>. QED
    BY <2>1, VouchedKept
<1>12. ASSUME NEW c \in Callers, ReAdd(c) PROVE Vouched'
  <2>1. UNCHANGED <<wpc, wtok>>
    BY <1>12 DEF ReAdd, workers
  <2>. QED
    BY <1>12, <2>1, ReAdds, VouchedMint
<1>13. ASSUME ShutSweep PROVE Vouched'
  <2>1. UNCHANGED <<last, info, wpc, wtok>> /\ \A x \in Ids : queued'[x] = NotQueued
    BY <1>13 DEF ShutSweep, workers
  <2>. QED
    BY <2>1, VouchedKept
<1>14. ASSUME UNCHANGED <<pool, workers>> PROVE Vouched'
  BY <1>14, VouchedKept DEF pool, workers
<1>15. ASSUME NEW w \in Workers, WorkerStep(w) PROVE Vouched'
  BY <1>4, <1>5, <1>6, <1>7, <1>8, <1>9, <1>10, <1>15 DEF WorkerStep
<1>16. ASSUME NEW c \in Callers, CallerStep(c) PROVE Vouched'
  BY <1>11, <1>12, <1>14, <1>16, CallersElsewhere DEF CallerStep
<1>17. ASSUME ShutStep PROVE Vouched'
  BY <1>13, <1>14, <1>17, CallersElsewhere DEF ShutStep
<1>. QED
  BY <1>1, <1>2, <1>3, <1>14, <1>15, <1>16, <1>17 DEF Next, vars

-----------------------------------------------------------------------------
\* The pool the program builds when admission is managed is AdmittedPool: no
\* interleaving of Add, Admit, the workers, retries, pauses, cancels, resumes
\* and the shutdown does anything with an opportunity that AdmittedPool does
\* not (Add, Admit, waitForTask and the worker loop, scheduler.go:262-1700).
THEOREM ManagedPoolIsAdmitted ==
  ASSUME Managed
  PROVE  Spec => ImplementsAdmittedPool
<1>1. Init => Vouched
  BY DEF Init, Vouched
<1>2. IInv /\ Vouched /\ [Next]_vars => Vouched'
  BY VouchedStep
<1>3. Init => Opportunities!EmptyPool
  <2>. SUFFICES ASSUME Init PROVE Opportunities!EmptyPool
    OBVIOUS
  <2>1. Positions = [i \in Ids |-> Opportunities!Gone]
    BY DEF Init, Positions, PlaceOf, IsQueued, NotQueued, Task, None, Opportunities!Gone
  <2>2. Holders = [t \in {} |-> t]
    BY DEF Init, Holders
  <2>. QED
    BY <2>1, <2>2 DEF Init, Opportunities!EmptyPool
<1>4. IInv /\ Vouched /\ [Next]_vars
        => [Opportunities!Step]_(Opportunities!opportunities)
  BY StepAllowed DEF Allowed
<1>. QED
  BY <1>1, <1>2, <1>3, <1>4, Inductive, PTL
  DEF Spec, ImplementsAdmittedPool, Opportunities!PoolSpec
=============================================================================
