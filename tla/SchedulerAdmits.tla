--------------------------- MODULE SchedulerAdmits ---------------------------
(* The scheduler as the admission controller sees it: the managed pool of  *)
(* Scheduler implements AdmittedPool.                                      *)
EXTENDS Scheduler

\* t is run: a worker has registered it and not yet dealt with its result.
InRun == {"running", "returned", "success", "pause", "pfence", "error"}
Executing(t) == \E w \in Workers : wtok[w] = t /\ wpc[w] \in InRun

\* A paused entry that stays in downloads has no place any more.
PlaceOf(id) ==
  IF IsQueued(id)
  THEN [at |-> IF queued[id].inFlight \/ ~queued[id].due THEN "flying" ELSE "queued",
        tok |-> queued[id].tok, admitted |-> queued[id].admitted]
  ELSE IF downloads[id] # None /\ Executing(downloads[id])
  THEN [at |-> "running", tok |-> downloads[id], admitted |-> TRUE]
  ELSE [at |-> "out", tok |-> None, admitted |-> FALSE]

Positions == [id \in Ids |-> PlaceOf(id)]
Holders == [t \in 1..last |-> IdOf(t)]

Opportunities == INSTANCE AdmittedPool
  WITH entry <- Positions, of <- Holders, Capacity <- Cardinality(Workers)

\* Whatever interleaving of workers, retries and removals, the pool never does
\* anything with an opportunity that AdmittedPool does not allow: an entry that
\* is in flight is not admitted or claimed, a settled or replaced one is not
\* run, a retry is not claimed before it is due, and a token never comes back
\* (AdmissionSnapshot, Admit, waitForTask and the worker, scheduler.go:325-1700).
ImplementsAdmittedPool == Opportunities!PoolSpec
=============================================================================
