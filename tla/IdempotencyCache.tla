-------------------------- MODULE IdempotencyCache --------------------------
(***************************************************************************)
(* The idempotency cache of internal/extension (idempotency.go) with what  *)
(* drives it: the read loop of each connection and dispatchAsync           *)
(* (server_dispatch.go), the handler goroutine it starts, and the server's *)
(* ReplaceExtractorLinkage and NotifyUnpaired / Stop (server.go).          *)
(*                                                                         *)
(* A frame is one request read from a connection.  The read loop inspects  *)
(* the cache, takes the two in-flight gates, inspects it again and starts  *)
(* the handler; every other frame of the system moves between those steps. *)
(* One message type is modelled: extractor.resolve and download.batch run  *)
(* the same code with a gate each.                                         *)
(***************************************************************************)
EXTENDS Naturals, Sequences, FiniteSets, Functions

CONSTANTS Conns, Frames, RequestIds,
          Digests,     \* payload digests (canonicalDigest)
          MaxEntries,  \* idempotencyMax
          MaxWaiters,  \* idempMaxWaiters
          GateLimit,   \* resolveConcurrency / batchConcurrency
          PerConn,     \* perConnInFlightMax
          MaxChanges,  \* bound: linkage replacements and unpairs together
          NoReply,     \* nothing answered yet
          Refusal,     \* an error ack: busy, conflict or unavailable
          Silence      \* the waiter's channel was closed without an ack

ASSUME LimitsAssumption ==
  /\ MaxEntries \in Nat /\ MaxWaiters \in Nat /\ PerConn \in Nat
  /\ GateLimit \in 1..MaxEntries
  /\ MaxChanges \in Nat
ASSUME RepliesAssumption ==
  /\ {NoReply, Refusal, Silence} \cap Frames = {}
  /\ NoReply # Refusal /\ NoReply # Silence /\ Refusal # Silence

VARIABLES
  gen,        \* Server.extractorGen
  op,         \* the current Server.opCtx; every earlier one is cancelled
  loop,       \* the read loop of each connection
  closed,     \* safeConn.closed
  active,     \* Server.activeConns
  connGen,    \* safeConn.extractorGen
  connOp,     \* the operation context handleConn read
  entries,    \* idempotencyCache.entries
  completed,  \* idempotencyCache.completed
  gate,       \* Server.resolveInFlight
  inFlight,   \* safeConn.inFlight
  pc,         \* where each frame stands
  asked,      \* the frames read so far: connection, cache key and digest
  reply,      \* its ack: the frame whose handler computed it, or an outcome
  replacing,  \* ReplaceExtractorLinkage calls before their retire
  closing,    \* connections some goroutine is about to close
  unpairing   \* NotifyUnpaired: "idle", "closing" or "clearing"

conns == <<loop, closed, active, connGen, connOp>>
cache == <<entries, completed>>
gates == <<gate, inFlight>>
frames == <<pc, asked, reply>>
server == <<gen, op, replacing, closing, unpairing>>
vars == <<gen, op, loop, closed, active, connGen, connOp, entries, completed,
          gate, inFlight, pc, asked, reply, replacing, closing, unpairing>>

\* Linkage generations and operation contexts are counted from one.
Gens == 1..(MaxChanges + 1)
Ops == 1..(MaxChanges + 1)
MayChange ==
  gen + op + (IF unpairing = "closing" THEN 1 ELSE 0) < MaxChanges + 2
Keys == Gens \X RequestIds
Replies == Frames \cup {NoReply, Refusal, Silence}
Entry == [digest: Digests, completed: BOOLEAN, expired: BOOLEAN,
          ack: Replies, waiters: SUBSET Frames]
Request == [conn: Conns, key: Keys, digest: Digests]
Handling == {"running", "computed", "settling"}
Places == {"new", "missed", "gated", "waiting", "replying", "done"} \cup Handling

\* Shape of the state; a frame that has been read has a serving connection's
\* key (dispatchAsync, server_dispatch.go:60-61).
TypeOK ==
  /\ gen \in Gens /\ op \in Ops
  /\ loop \in [Conns -> {"down", "accepted", "authed", "serving", "gone"}]
  /\ closed \subseteq Conns /\ active \subseteq Conns /\ closing \subseteq Conns
  /\ connGen \in [Conns -> Gens] /\ connOp \in [Conns -> Ops]
  /\ DOMAIN entries \subseteq Keys
  /\ \A k \in DOMAIN entries : entries[k] \in Entry
  /\ completed \in Seq(Keys)
  /\ gate \in 0..GateLimit /\ inFlight \in [Conns -> 0..PerConn]
  /\ pc \in [Frames -> Places] /\ reply \in [Frames -> Replies]
  /\ DOMAIN asked = {f \in Frames : pc[f] # "new"}
  /\ \A f \in DOMAIN asked : asked[f] \in Request
  /\ replacing \subseteq [gen: Gens, conns: SUBSET Conns]
  /\ unpairing \in {"idle", "closing", "clearing"}

Init ==
  /\ gen = 1 /\ op = 1
  /\ loop = [c \in Conns |-> "down"]
  /\ closed = {} /\ active = {} /\ closing = {}
  /\ connGen = [c \in Conns |-> 1] /\ connOp = [c \in Conns |-> 1]
  /\ entries = << >> /\ completed = << >>
  /\ gate = 0 /\ inFlight = [c \in Conns |-> 0]
  /\ pc = [f \in Frames |-> "new"]
  /\ asked = << >>
  /\ reply = [f \in Frames |-> NoReply]
  /\ replacing = {} /\ unpairing = "idle"

-----------------------------------------------------------------------------
(* Connections. *)

\* handleConn registers the connection before it reads the secret.
Accept(c) ==
  /\ loop[c] = "down"
  /\ loop' = [loop EXCEPT ![c] = "accepted"]
  /\ active' = active \cup {c}
  /\ UNCHANGED <<closed, connGen, connOp, cache, gates, frames, server>>

\* The first frame carried the secret; linkage and generation are copied
\* under one lock.
Authenticate(c) ==
  /\ loop[c] = "accepted"
  /\ loop' = [loop EXCEPT ![c] = "authed"]
  /\ connGen' = [connGen EXCEPT ![c] = gen]
  /\ UNCHANGED <<closed, active, connOp, cache, gates, frames, server>>

\* The operation context is read later, under another lock.
ReadContext(c) ==
  /\ loop[c] = "authed"
  /\ loop' = [loop EXCEPT ![c] = "serving"]
  /\ connOp' = [connOp EXCEPT ![c] = op]
  /\ UNCHANGED <<closed, active, connGen, cache, gates, frames, server>>

\* dispatchAsync runs in the read loop up to the start of the handler.
Dispatching(c) ==
  \E f \in DOMAIN asked : asked[f].conn = c /\ pc[f] \in {"missed", "gated"}

\* A read fails (the peer left, the connection was closed, the secret was
\* wrong) and handleConn's defers run.
Leave(c) ==
  /\ loop[c] \in {"accepted", "authed", "serving"}
  /\ ~Dispatching(c)
  /\ loop' = [loop EXCEPT ![c] = "gone"]
  /\ closed' = closed \cup {c}
  /\ active' = active \ {c}
  /\ UNCHANGED <<connGen, connOp, cache, gates, frames, server>>

\* A goroutine of ReplaceExtractorLinkage, or NotifyUnpaired's loop, closes it.
Close(c) ==
  /\ c \in closing
  /\ closing' = closing \ {c}
  /\ closed' = closed \cup {c}
  /\ UNCHANGED <<gen, op, loop, active, connGen, connOp, cache, gates, frames,
                 replacing, unpairing>>

-----------------------------------------------------------------------------
(* The cache, entered under idempotencyCache.mu. *)

\* inspectLocked finds an entry that is not an expired record.
Found(k) ==
  /\ k \in DOMAIN entries
  /\ ~(entries[k].completed /\ entries[k].expired)

\* inspectLocked has dropped an expired record, and its place in the order.
PurgedEntries(k) == Restrict(entries, DOMAIN entries \ {k})

PurgedOrder(k) ==
  IF k \in DOMAIN entries THEN SelectSeq(completed, LAMBDA x : x # k)
                          ELSE completed

Settled(f, ack) ==
  /\ reply' = [reply EXCEPT ![f] = ack]
  /\ pc' = [pc EXCEPT ![f] = "done"]

\* inspectLocked found an entry: conflict, hit, busy, or one more waiter.
Inspect(f, k, d) ==
  /\ Found(k)
  /\ \/ /\ entries[k].digest # d
        /\ Settled(f, Refusal)
        /\ UNCHANGED cache
     \/ /\ entries[k].digest = d /\ entries[k].completed
        /\ Settled(f, entries[k].ack)
        /\ UNCHANGED cache
     \/ /\ entries[k].digest = d /\ ~entries[k].completed
        /\ Cardinality(entries[k].waiters) >= MaxWaiters
        /\ Settled(f, Refusal)
        /\ UNCHANGED cache
     \/ /\ entries[k].digest = d /\ ~entries[k].completed
        /\ Cardinality(entries[k].waiters) < MaxWaiters
        /\ entries' = [entries EXCEPT ![k].waiters = @ \cup {f}]
        /\ pc' = [pc EXCEPT ![f] = "waiting"]
        /\ UNCHANGED <<completed, reply>>

\* evictIfNeededLocked drops the n oldest places of the order.
Popped(es, order, n) ==
  {k \in DOMAIN es : es[k].completed /\ \E i \in 1..n : order[i] = k}

Evictions(es, order) ==
  CHOOSE n \in 0..Len(order) :
    /\ \/ n = Len(order)
       \/ Cardinality(DOMAIN es \ Popped(es, order, n)) < MaxEntries
    /\ \A m \in 0..(n - 1) :
         Cardinality(DOMAIN es \ Popped(es, order, m)) >= MaxEntries

\* begin registers an in-flight owner, after evicting what exceeds the cache.
Register(k, d) ==
  LET es == PurgedEntries(k)
      order == PurgedOrder(k)
      n == Evictions(es, order)
      kept == DOMAIN es \ Popped(es, order, n)
  IN  /\ entries' = [x \in kept \cup {k} |->
                       IF x = k THEN [digest |-> d, completed |-> FALSE,
                                      expired |-> FALSE, ack |-> NoReply,
                                      waiters |-> {}]
                                ELSE es[x]]
      /\ completed' = SubSeq(order, n + 1, Len(order))

\* abandon and complete act only on an open entry of their digest.
Open(k, d) ==
  /\ k \in DOMAIN entries
  /\ ~entries[k].completed
  /\ entries[k].digest = d

WaitersOf(k, d) == IF Open(k, d) THEN entries[k].waiters ELSE {}

\* The waiters' channels get the ack after the unlock.  Nothing else can
\* reach those channels by then, so delivery belongs to the same step.
FanOut(f, ws, ack) ==
  /\ reply' = [x \in Frames |-> IF x \in ws \cup {f} THEN ack ELSE reply[x]]
  /\ pc' = [x \in Frames |-> IF x = f THEN "replying"
                             ELSE IF x \in ws THEN "done" ELSE pc[x]]

\* Channels closed without an ack: writeCoalescedAck gives up silently.
Silenced(ws) ==
  /\ reply' = [x \in Frames |-> IF x \in ws THEN Silence ELSE reply[x]]
  /\ pc' = [x \in Frames |-> IF x \in ws THEN "done" ELSE pc[x]]

\* idempotencyTTL passes for a completed entry.
Expire(k) ==
  /\ k \in DOMAIN entries
  /\ entries[k].completed /\ ~entries[k].expired
  /\ entries' = [entries EXCEPT ![k].expired = TRUE]
  /\ UNCHANGED <<conns, completed, gates, frames, server>>

-----------------------------------------------------------------------------
(* dispatchAsync, in the read loop. *)

\* Defect: the key takes the server's generation, not the connection's.
Read_CurrentGen(f, c, r, d) ==
  LET k == <<gen, r>>
  IN  /\ pc[f] = "new" /\ loop[c] = "serving" /\ ~Dispatching(c)
      /\ asked' = [x \in DOMAIN asked \cup {f} |->
                     IF x = f THEN [conn |-> c, key |-> k, digest |-> d]
                              ELSE asked[x]]
      /\ \/ Inspect(f, k, d)
         \/ /\ ~Found(k)
            /\ entries' = PurgedEntries(k)
            /\ completed' = PurgedOrder(k)
            /\ pc' = [pc EXCEPT ![f] = "missed"]
            /\ UNCHANGED reply
      /\ UNCHANGED <<conns, gates, server>>

\* A frame is read; lookup finds an entry, or misses.
Read(f, c, r, d) ==
  LET k == <<connGen[c], r>>
  IN  /\ pc[f] = "new" /\ loop[c] = "serving" /\ ~Dispatching(c)
      /\ asked' = [x \in DOMAIN asked \cup {f} |->
                     IF x = f THEN [conn |-> c, key |-> k, digest |-> d]
                              ELSE asked[x]]
      /\ \/ Inspect(f, k, d)
         \/ /\ ~Found(k)
            /\ entries' = PurgedEntries(k)
            /\ completed' = PurgedOrder(k)
            /\ pc' = [pc EXCEPT ![f] = "missed"]
            /\ UNCHANGED reply
      /\ UNCHANGED <<conns, gates, server>>

\* tryAcquireInFlight and tryAcquireGate; a full gate answers busy.
Admit(f) ==
  /\ pc[f] = "missed"
  /\ LET c == asked[f].conn
     IN  \/ /\ inFlight[c] < PerConn /\ gate < GateLimit
            /\ inFlight' = [inFlight EXCEPT ![c] = @ + 1]
            /\ gate' = gate + 1
            /\ pc' = [pc EXCEPT ![f] = "gated"]
            /\ UNCHANGED reply
         \/ /\ inFlight[c] >= PerConn \/ gate >= GateLimit
            /\ Settled(f, Refusal)
            /\ UNCHANGED gates
  /\ UNCHANGED <<conns, cache, asked, server>>

\* releaseGate and releaseInFlight.
Release(f) ==
  /\ gate' = gate - 1
  /\ inFlight' = [inFlight EXCEPT ![asked[f].conn] = @ - 1]

\* Defect: begin trusts the earlier lookup.
Begin_Unchecked(f) ==
  /\ pc[f] = "gated"
  /\ Register(asked[f].key, asked[f].digest)
  /\ pc' = [pc EXCEPT ![f] = "running"]
  /\ UNCHANGED <<reply, gates, conns, asked, server>>

\* begin: a duplicate that came in between is answered as by lookup, else the
\* frame owns the key and its handler starts.
Begin(f) ==
  /\ pc[f] = "gated"
  /\ LET k == asked[f].key
         d == asked[f].digest
     IN  \/ Inspect(f, k, d) /\ Release(f)
         \/ /\ ~Found(k)
            /\ Register(k, d)
            /\ pc' = [pc EXCEPT ![f] = "running"]
            /\ UNCHANGED <<reply, gates>>
  /\ UNCHANGED <<conns, asked, server>>

-----------------------------------------------------------------------------
(* The handler goroutine. *)

\* opCtx.Err() of the context the connection read.
Cancelled(f) == connOp[asked[f].conn] # op

\* abandon: the open entry goes, its waiters get the ack.
Abandon(f, ack) ==
  LET k == asked[f].key
      d == asked[f].digest
  IN  /\ FanOut(f, WaitersOf(k, d), ack)
      /\ entries' = IF Open(k, d) THEN PurgedEntries(k) ELSE entries
      /\ UNCHANGED completed

\* The handler failed, panicked, was not ready, or its context was cancelled
\* when HandleResolve / HandleCommit returned.
Fail(f) ==
  /\ pc[f] = "running"
  /\ Abandon(f, Refusal)
  /\ UNCHANGED <<conns, gates, asked, server>>

\* It returned with the context alive.
Return(f) ==
  /\ pc[f] = "running" /\ ~Cancelled(f)
  /\ pc' = [pc EXCEPT ![f] = "computed"]
  /\ UNCHANGED <<conns, cache, gates, asked, reply, server>>

\* The result asks for no caching (SkipIdempotency), or the context was
\* cancelled while the ack was built: it is sent but not kept.
Skip(f) ==
  /\ pc[f] = "computed"
  /\ Abandon(f, f)
  /\ UNCHANGED <<conns, gates, asked, server>>

\* The last look at the context before complete.
Keep(f) ==
  /\ pc[f] = "computed" /\ ~Cancelled(f)
  /\ pc' = [pc EXCEPT ![f] = "settling"]
  /\ UNCHANGED <<conns, cache, gates, asked, reply, server>>

\* Defect: the record keeps the channels it has answered.
Complete_KeepsWaiters(f) ==
  LET k == asked[f].key
      d == asked[f].digest
  IN  /\ pc[f] = "settling"
      /\ FanOut(f, WaitersOf(k, d), f)
      /\ \/ /\ Open(k, d)
            /\ entries' = [entries EXCEPT ![k].completed = TRUE, ![k].ack = f]
            /\ completed' = Append(completed, k)
         \/ ~Open(k, d) /\ UNCHANGED cache
      /\ UNCHANGED <<conns, gates, asked, server>>

\* complete: the open entry becomes a record, its waiters get the ack.
Complete(f) ==
  LET k == asked[f].key
      d == asked[f].digest
  IN  /\ pc[f] = "settling"
      /\ FanOut(f, WaitersOf(k, d), f)
      /\ \/ /\ Open(k, d)
            /\ entries' = [entries EXCEPT ![k].completed = TRUE,
                                          ![k].ack = f, ![k].waiters = {}]
            /\ completed' = Append(completed, k)
         \/ ~Open(k, d) /\ UNCHANGED cache
      /\ UNCHANGED <<conns, gates, asked, server>>

\* The ack is written (to nobody when the connection is closed), the gates
\* are released.
Reply(f) ==
  /\ pc[f] = "replying"
  /\ pc' = [pc EXCEPT ![f] = "done"]
  /\ Release(f)
  /\ UNCHANGED <<conns, cache, asked, reply, server>>

-----------------------------------------------------------------------------
(* The server. *)

\* ReplaceExtractorLinkage under Server.mu: a new generation, and the
\* connections to drop.
Replace ==
  /\ MayChange
  /\ gen' = gen + 1
  /\ replacing' = replacing \cup {[gen |-> gen, conns |-> active]}
  /\ UNCHANGED <<op, closing, unpairing, conns, cache, gates, frames>>

\* retireExtractorGeneration, then the goroutines that close.
Retire(r) ==
  LET old == {k \in DOMAIN entries : k[1] = r.gen}
  IN  /\ r \in replacing
      /\ replacing' = replacing \ {r}
      /\ closing' = closing \cup r.conns
      /\ Silenced(UNION {entries[k].waiters : k \in old})
      /\ entries' = Restrict(entries, DOMAIN entries \ old)
      /\ completed' = SelectSeq(completed, LAMBDA k : k[1] # r.gen)
      /\ UNCHANGED <<gen, op, unpairing, conns, gates, asked>>

\* NotifyUnpaired (and Stop) under Server.mu: every connection is taken out
\* of activeConns, to be closed.
Unpair ==
  /\ unpairing = "idle" /\ MayChange
  /\ unpairing' = "closing"
  /\ closing' = closing \cup active
  /\ active' = {}
  /\ UNCHANGED <<gen, op, replacing, loop, closed, connGen, connOp, cache, gates,
                 frames>>

\* replaceOpContext, once they are closed: the new context is installed and
\* the old one cancelled.
ReplaceOpContext ==
  /\ unpairing = "closing" /\ closing = {}
  /\ unpairing' = "clearing"
  /\ op' = op + 1
  /\ UNCHANGED <<gen, replacing, closing, conns, cache, gates, frames>>

\* clear, after the secret was rotated.
Clear ==
  /\ unpairing = "clearing"
  /\ unpairing' = "idle"
  /\ Silenced(UNION {entries[k].waiters : k \in DOMAIN entries})
  /\ entries' = << >> /\ completed' = << >>
  /\ UNCHANGED <<gen, op, replacing, closing, conns, gates, asked>>

-----------------------------------------------------------------------------
Handle(f) == \/ Admit(f) \/ Begin(f) \/ Fail(f) \/ Return(f) \/ Skip(f)
             \/ Keep(f) \/ Complete(f) \/ Reply(f)

Next ==
  \/ \E c \in Conns : \/ Accept(c) \/ Authenticate(c) \/ ReadContext(c)
                      \/ Leave(c) \/ Close(c)
  \/ \E f \in Frames, c \in Conns, r \in RequestIds, d \in Digests :
       Read(f, c, r, d)
  \/ \E f \in Frames : Handle(f)
  \/ \E k \in Keys : Expire(k)
  \/ Replace \/ Unpair \/ ReplaceOpContext \/ Clear
  \/ \E r \in replacing : Retire(r)

Spec == Init /\ [][Next]_vars

-----------------------------------------------------------------------------
(* Properties. *)

OpenKeys == {k \in DOMAIN entries : ~entries[k].completed}

\* A waiter's channel sits in exactly one open entry, and an entry holds only
\* frames that still wait: otherwise the waiter is never answered, or its
\* channel is closed twice, which panics (idempotency.go:113-161).
WaitersParked ==
  /\ \A k \in DOMAIN entries : \A f \in entries[k].waiters :
       pc[f] = "waiting" /\ k \in OpenKeys
  /\ \A f \in Frames : pc[f] = "waiting" =>
       \E k \in OpenKeys : {x \in OpenKeys : f \in entries[x].waiters} = {k}

\* A raced duplicate coalesces instead of starting a second handler
\* (idempotency.go:75-76): no two handlers of the current linkage generation
\* whose operation context is alive work for one key, as long as nobody
\* unpaired.
OneLiveHandler ==
  \A f, g \in DOMAIN asked :
    /\ pc[f] \in Handling /\ pc[g] \in Handling
    /\ ~Cancelled(f) /\ ~Cancelled(g)
    /\ asked[f].key = asked[g].key /\ asked[f].key[1] = gen
    /\ op = 1
    => f = g

\* A request is answered with a result computed for its own payload by the
\* linkage generation its connection negotiated (server_dispatch.go:60-62).
OwnAnswer ==
  \A f \in DOMAIN asked : reply[f] \in Frames =>
    /\ reply[f] \in DOMAIN asked
    /\ connGen[asked[reply[f]].conn] = connGen[asked[f].conn]
    /\ asked[reply[f]].key[2] = asked[f].key[2]
    /\ asked[reply[f]].digest = asked[f].digest

=============================================================================
