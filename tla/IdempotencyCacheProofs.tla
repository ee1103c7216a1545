----------------------- MODULE IdempotencyCacheProofs -----------------------
(***************************************************************************)
(* WaitersParked, OneLiveHandler and OwnAnswer of IdempotencyCache, for    *)
(* any number of connections, frames, requests, payloads, linkage changes  *)
(* and any of the limits.                                                  *)
(*                                                                         *)
(* The argument goes through the key.  What an entry knows of the frames   *)
(* (its waiters, the frame whose ack it recorded) is of its own key and    *)
(* payload, a waiting frame is in the entry of its key, and a handler of   *)
(* the current generation finds its entry still open until somebody        *)
(* unpairs: eviction and expiry take completed entries only, and a retire  *)
(* takes an older generation.                                              *)
(***************************************************************************)
EXTENDS IdempotencyCache, SequenceTheorems, TLAPS

\* Generations are not bounded by MaxChanges here.
CacheKey == Nat \X RequestIds

CacheType ==
  /\ gen \in Nat /\ op \in Nat \ {0}
  /\ loop \in [Conns -> {"down", "accepted", "authed", "serving", "gone"}]
  /\ connGen \in [Conns -> Nat]
  /\ pc \in [Frames -> Places]
  /\ reply \in [Frames -> Replies]

AskedType ==
  /\ DOMAIN asked = {f \in Frames : pc[f] # "new"}
  /\ \A f \in DOMAIN asked :
       asked[f] \in [conn: Conns, key: CacheKey, digest: Digests]

EntriesType == \A k \in DOMAIN entries : k \in CacheKey /\ entries[k] \in Entry

\* A frame keeps the generation its connection negotiated, and no connection
\* is ahead of the server.
KeysOK ==
  /\ \A c \in Conns : connGen[c] <= gen
  /\ \A f \in DOMAIN asked :
       /\ loop[asked[f].conn] \in {"serving", "gone"}
       /\ asked[f].key[1] = connGen[asked[f].conn]

\* A frame asks for a key with a payload.
Asks(f, k, d) ==
  f \in DOMAIN asked /\ asked[f].key = k /\ asked[f].digest = d

\* What an entry refers to is of its key and payload.
Fits(k, e) ==
  /\ e.completed => e.waiters = {} /\ Asks(e.ack, k, e.digest)
  /\ \A f \in e.waiters : pc[f] = "waiting" /\ Asks(f, k, e.digest)

EntriesOK == \A k \in DOMAIN entries : Fits(k, entries[k])

\* A waiting frame is in the open entry of its key.
Parked(f, k) ==
  /\ k \in DOMAIN entries
  /\ ~entries[k].completed
  /\ f \in entries[k].waiters

ParkedOK == \A f \in DOMAIN asked : pc[f] = "waiting" => Parked(f, asked[f].key)

\* A result was computed for the key and payload of the frame it answers.
RepliesOK ==
  \A f \in Frames : reply[f] \in Frames =>
    f \in DOMAIN asked /\ Asks(reply[f], asked[f].key, asked[f].digest)

\* The frames whose handler works for the current linkage.
Current(f) == f \in DOMAIN asked /\ pc[f] \in Handling /\ asked[f].key[1] = gen

\* Until somebody unpairs, such a frame owns the open entry of its key.
LiveOK == op = 1 => \A f \in Frames : Current(f) => Open(asked[f].key, asked[f].digest)

\* Nobody shares the ownership.
AloneOK ==
  op = 1 => \A f, g \in Frames :
    Current(f) /\ Current(g) /\ asked[f].key = asked[g].key => f = g

\* A retire is of an older generation, and the cache is cleared only after the
\* first operation context was replaced.
ServerOK ==
  /\ \A r \in replacing : r.gen \in Nat /\ r.gen < gen
  /\ unpairing = "clearing" => op # 1

CacheInv ==
  /\ CacheType /\ AskedType /\ EntriesType
  /\ KeysOK /\ EntriesOK /\ ParkedOK /\ RepliesOK
  /\ LiveOK /\ AloneOK /\ ServerOK

-----------------------------------------------------------------------------
(* What the steps do to the entries. *)

\* Some entries go, the others stay as they were.
Drop(S) ==
  /\ DOMAIN entries' = DOMAIN entries \ S
  /\ \A k \in DOMAIN entries \ S : entries'[k] = entries[k]

\* Restricting the entries drops the rest.
LEMMA RestrictDrops ==
  ASSUME NEW S, entries' = Restrict(entries, DOMAIN entries \ S)
  PROVE  Drop(S)
BY DEF Restrict, Drop

\* inspectLocked's purge drops one entry, a completed one or none.
LEMMA PurgeDrops ==
  ASSUME NEW k, ~Found(k), entries' = PurgedEntries(k)
  PROVE  /\ Drop({k})
         /\ k \in DOMAIN entries => entries[k].completed
BY RestrictDrops DEF PurgedEntries, Found

\* One more waiter: nothing but the waiters of one entry changes.
LEMMA JoinEffect ==
  ASSUME NEW k \in DOMAIN entries, NEW f, EntriesType,
         entries' = [entries EXCEPT ![k].waiters = @ \cup {f}]
  PROVE  /\ DOMAIN entries' = DOMAIN entries
         /\ \A x \in DOMAIN entries \ {k} : entries'[x] = entries[x]
         /\ entries'[k] = [digest |-> entries[k].digest,
                           completed |-> entries[k].completed,
                           expired |-> entries[k].expired,
                           ack |-> entries[k].ack,
                           waiters |-> entries[k].waiters \cup {f}]
<1>1. PICK e \in Entry : e = entries[k]
  BY DEF EntriesType
<1>2. DOMAIN entries' = DOMAIN entries
      /\ \A x \in DOMAIN entries \ {k} : entries'[x] = entries[x]
  OBVIOUS
<1>3. entries'[k] = [e EXCEPT !.waiters = e.waiters \cup {f}]
  BY <1>1
<1>4. [e EXCEPT !.waiters = e.waiters \cup {f}]
        = [digest |-> e.digest, completed |-> e.completed, expired |-> e.expired,
           ack |-> e.ack, waiters |-> e.waiters \cup {f}]
  BY DEF Entry
<1>. QED
  BY <1>1, <1>2, <1>3, <1>4

\* The TTL of a completed entry passes: no other field changes.
LEMMA ExpireEffect ==
  ASSUME NEW k \in DOMAIN entries, EntriesType,
         entries' = [entries EXCEPT ![k].expired = TRUE]
  PROVE  /\ DOMAIN entries' = DOMAIN entries
         /\ \A x \in DOMAIN entries \ {k} : entries'[x] = entries[x]
         /\ \E yes \in BOOLEAN :
              entries'[k] = [digest |-> entries[k].digest,
                             completed |-> entries[k].completed,
                             expired |-> yes,
                             ack |-> entries[k].ack,
                             waiters |-> entries[k].waiters]
<1>1. PICK e \in Entry : e = entries[k]
  BY DEF EntriesType
<1>2. PICK yes \in BOOLEAN : yes = TRUE
  OBVIOUS
<1>3. DOMAIN entries' = DOMAIN entries
      /\ \A x \in DOMAIN entries \ {k} : entries'[x] = entries[x]
  OBVIOUS
<1>4. entries'[k] = [e EXCEPT !.expired = yes]
  BY <1>1, <1>2
<1>5. [e EXCEPT !.expired = yes]
        = [digest |-> e.digest, completed |-> e.completed, expired |-> yes,
           ack |-> e.ack, waiters |-> e.waiters]
  BY DEF Entry
<1>. QED
  BY <1>1, <1>3, <1>4, <1>5

\* complete: the entry becomes the record of one ack and has no waiters.
LEMMA CompleteEffect ==
  ASSUME NEW k \in DOMAIN entries, NEW f \in Frames, EntriesType,
         entries' = [entries EXCEPT ![k].completed = TRUE,
                                    ![k].ack = f, ![k].waiters = {}]
  PROVE  /\ DOMAIN entries' = DOMAIN entries
         /\ \A x \in DOMAIN entries \ {k} : entries'[x] = entries[x]
         /\ \E yes \in BOOLEAN :
              /\ yes = TRUE
              /\ entries'[k] = [digest |-> entries[k].digest,
                                completed |-> yes,
                                expired |-> entries[k].expired,
                                ack |-> f, waiters |-> {}]
<1>1. PICK e \in Entry : e = entries[k]
  BY DEF EntriesType
<1>2. PICK yes \in BOOLEAN : yes = TRUE
  OBVIOUS
<1>3. DOMAIN entries' = DOMAIN entries
      /\ \A x \in DOMAIN entries \ {k} : entries'[x] = entries[x]
  OBVIOUS
<1>4. PICK nobody \in SUBSET Frames : nobody = {}
  OBVIOUS
<1>5. entries'[k] = [e EXCEPT !.completed = yes, !.ack = f, !.waiters = nobody]
  BY <1>1, <1>2, <1>4
<1>6. PICK done : done = [e EXCEPT !.completed = yes]
  OBVIOUS
<1>7. done = [digest |-> e.digest, completed |-> yes, expired |-> e.expired,
              ack |-> e.ack, waiters |-> e.waiters]
  BY <1>6 DEF Entry
<1>8. done \in Entry
  BY <1>7 DEF Entry
<1>9. PICK sent : sent = [done EXCEPT !.ack = f]
  OBVIOUS
<1>10. sent \in Entry
       /\ sent.digest = e.digest /\ sent.completed = yes
       /\ sent.expired = e.expired /\ sent.ack = f
  BY <1>7, <1>8, <1>9 DEF Entry, Replies
<1>11. entries'[k] = [sent EXCEPT !.waiters = nobody]
  BY <1>5, <1>6, <1>9
<1>12. [sent EXCEPT !.waiters = nobody]
         = [digest |-> e.digest, completed |-> yes, expired |-> e.expired,
            ack |-> f, waiters |-> nobody]
  BY <1>10 DEF Entry
<1>. QED
  BY <1>1, <1>2, <1>3, <1>4, <1>11, <1>12

\* begin opens an entry for the key; beside it only completed entries go.
LEMMA RegisterEffect ==
  ASSUME NEW k, NEW d, Register(k, d)
  PROVE  \E S : /\ \A x \in S \cap DOMAIN entries : x = k \/ entries[x].completed
                /\ DOMAIN entries' = (DOMAIN entries \ S) \cup {k}
                /\ k \in S
                /\ \A x \in DOMAIN entries \ S : entries'[x] = entries[x]
                /\ entries'[k] = [digest |-> d, completed |-> FALSE,
                                  expired |-> FALSE, ack |-> NoReply,
                                  waiters |-> {}]
<1> DEFINE es == PurgedEntries(k)
           P == Popped(es, PurgedOrder(k), Evictions(es, PurgedOrder(k)))
<1>1. DOMAIN es = DOMAIN entries \ {k}
      /\ \A x \in DOMAIN es : es[x] = entries[x]
  BY DEF PurgedEntries, Restrict
<1>2. \A x \in P : x \in DOMAIN es /\ es[x].completed
  BY DEF Popped
<1>3. entries' = [x \in (DOMAIN es \ P) \cup {k} |->
                    IF x = k THEN [digest |-> d, completed |-> FALSE,
                                   expired |-> FALSE, ack |-> NoReply,
                                   waiters |-> {}]
                             ELSE es[x]]
  BY DEF Register
<1> HIDE DEF es, P
<1>4. /\ DOMAIN entries' = (DOMAIN entries \ (P \cup {k})) \cup {k}
      /\ \A x \in DOMAIN entries \ (P \cup {k}) : entries'[x] = entries[x]
      /\ entries'[k] = [digest |-> d, completed |-> FALSE,
                        expired |-> FALSE, ack |-> NoReply,
                        waiters |-> {}]
  BY <1>1, <1>3
<1>5. \A x \in (P \cup {k}) \cap DOMAIN entries : x = k \/ entries[x].completed
  BY <1>1, <1>2
<1>. QED
  BY <1>4, <1>5

-----------------------------------------------------------------------------
(* What the steps do to the frames. *)

\* The server and the connections stay.
Rest == UNCHANGED <<gen, op, loop, connGen, replacing, unpairing>>

\* One frame's request is known after the step, by a serving connection's key.
Learned(f) ==
  /\ DOMAIN asked' = DOMAIN asked \cup {f}
  /\ \A g \in DOMAIN asked : asked'[g] = asked[g]
  /\ asked'[f] \in [conn: Conns, key: CacheKey, digest: Digests]
  /\ loop[asked'[f].conn] \in {"serving", "gone"}
  /\ asked'[f].key[1] = connGen[asked'[f].conn]

\* A frame in the read loop: it has no handler and does not wait.
Dispatched(f) == pc[f] \in {"new", "missed", "gated"}

\* One frame goes to another place.
Goes(f, p) ==
  /\ pc' \in [Frames -> Places]
  /\ pc'[f] = p
  /\ \A g \in Frames \ {f} : pc'[g] = pc[g]

\* One frame goes to another place, as written in the actions.
LEMMA GoesTo ==
  ASSUME CacheType, NEW f \in Frames, NEW p \in Places,
         pc' = [pc EXCEPT ![f] = p]
  PROVE  Goes(f, p)
BY DEF CacheType, Goes

\* A frame that was read before keeps its request.
LEMMA KnownStays ==
  ASSUME CacheInv, NEW f \in Frames, pc[f] # "new", UNCHANGED asked
  PROVE  Learned(f)
BY DEF CacheInv, AskedType, KeysOK, Learned

\* What was asked stays asked.
LEMMA AsksStays ==
  ASSUME NEW f, Learned(f), NEW g, NEW k, NEW d, Asks(g, k, d)
  PROVE  Asks(g, k, d)'
BY DEF Learned, Asks

\* The parts that a frame's step keeps in any case.
LEMMA FrameKeeps ==
  ASSUME CacheInv, Rest, NEW f \in Frames, NEW p \in Places \ {"new"},
         Learned(f), Goes(f, p), reply' \in [Frames -> Replies]
  PROVE  CacheType' /\ AskedType' /\ KeysOK' /\ ServerOK'
<1>1. CacheType'
  BY DEF CacheInv, CacheType, Rest, Goes
<1>2. AskedType'
  <2>1. DOMAIN asked' = {g \in Frames : pc'[g] # "new"}
    BY DEF CacheInv, AskedType, Learned, Goes
  <2>2. \A g \in DOMAIN asked' :
          asked'[g] \in [conn: Conns, key: CacheKey, digest: Digests]
    BY DEF CacheInv, AskedType, Learned
  <2>. QED
    BY <2>1, <2>2 DEF AskedType
<1>3. KeysOK'
  BY DEF CacheInv, KeysOK, Rest, Learned
<1>4. ServerOK'
  BY DEF CacheInv, ServerOK, Rest
<1>. QED
  BY <1>1, <1>2, <1>3, <1>4

\* A handler of the current linkage is the same after a step of another frame.
LEMMA CurrentBefore ==
  ASSUME CacheInv, Rest, NEW f \in Frames, NEW p, Learned(f), Goes(f, p),
         p \in Handling => pc[f] \in Handling,
         NEW g \in Frames, Current(g)'
  PROVE  Current(g) /\ asked'[g] = asked[g]
<1>1. g \in DOMAIN asked' /\ pc'[g] \in Handling /\ asked'[g].key[1] = gen
  BY DEF Current, Rest
<1>2. pc[g] \in Handling
  BY <1>1 DEF Goes
<1>3. g \in DOMAIN asked
  BY <1>2 DEF CacheInv, AskedType, Handling
<1>4. asked'[g] = asked[g]
  BY <1>3 DEF Learned
<1>. QED
  BY <1>1, <1>2, <1>3, <1>4 DEF Current

\* Ownership stays undivided when nobody becomes a handler.
LEMMA AloneKeeps ==
  ASSUME CacheInv, Rest, NEW f \in Frames, NEW p, Learned(f), Goes(f, p),
         p \in Handling => pc[f] \in Handling
  PROVE  AloneOK'
<1> SUFFICES ASSUME op = 1, NEW g \in Frames, NEW h \in Frames, Current(g)',
                    Current(h)', asked'[g].key = asked'[h].key
             PROVE  g = h
  BY DEF AloneOK, Rest
<1>1. Current(g) /\ asked'[g] = asked[g]
  BY CurrentBefore
<1>2. Current(h) /\ asked'[h] = asked[h]
  BY CurrentBefore
<1>. QED
  BY <1>1, <1>2 DEF CacheInv, AloneOK

\* A handler keeps its open entry when that entry stays open.
StillOpen(k, d) ==
  k \in DOMAIN entries' /\ ~entries'[k].completed /\ entries'[k].digest = d

\* Ownership of the open entries lasts as long as the entries stay open.
LEMMA LiveKeeps ==
  ASSUME CacheInv, Rest, NEW f \in Frames, NEW p, Learned(f), Goes(f, p),
         p \in Handling => pc[f] \in Handling,
         \A g \in Frames : /\ op = 1 /\ Current(g) /\ Current(g)'
                           /\ Open(asked[g].key, asked[g].digest)
                           => StillOpen(asked[g].key, asked[g].digest)
  PROVE  LiveOK'
<1> SUFFICES ASSUME op = 1, NEW g \in Frames, Current(g)'
             PROVE  Open(asked[g].key, asked[g].digest)'
  BY DEF LiveOK, Rest
<1>1. Current(g) /\ asked'[g] = asked[g]
  BY CurrentBefore
<1>2. Open(asked[g].key, asked[g].digest)
  BY <1>1 DEF CacheInv, LiveOK
<1>3. StillOpen(asked[g].key, asked[g].digest)
  BY <1>1, <1>2
<1>. QED
  BY <1>1, <1>3 DEF StillOpen, Open

\* An entry whose waiters do not move still fits its key.
LEMMA FitsStays ==
  ASSUME CacheInv, NEW f, Learned(f), NEW k \in DOMAIN entries, NEW e,
         e = entries[k], \A g \in entries[k].waiters : pc'[g] = pc[g]
  PROVE  Fits(k, e)'
<1>1. Fits(k, entries[k])
  BY DEF CacheInv, EntriesOK
<1>2. e.completed => e.waiters = {} /\ Asks(e.ack, k, e.digest)'
  BY <1>1, AsksStays DEF Fits
<1>3. \A g \in e.waiters : pc'[g] = "waiting" /\ Asks(g, k, e.digest)'
  BY <1>1, AsksStays DEF Fits
<1>. QED
  BY <1>2, <1>3 DEF Fits

\* A waiter of an entry is a frame that waits.
LEMMA WaiterWaits ==
  ASSUME CacheInv, NEW k \in DOMAIN entries, NEW g \in entries[k].waiters
  PROVE  /\ g \in Frames /\ pc[g] = "waiting" /\ g \in DOMAIN asked
         /\ asked[g].key = k /\ asked[g].digest = entries[k].digest
BY DEF CacheInv, EntriesOK, Fits, Asks, EntriesType, Entry

\* The other waiting frames stay parked when their entries keep them.
LEMMA ParkedKeeps ==
  ASSUME CacheInv, NEW f \in Frames, NEW p, Learned(f), Goes(f, p),
         p # "waiting",
         \A g \in Frames \ {f}, k \in CacheKey :
           pc[g] = "waiting" /\ Parked(g, k) => Parked(g, k)'
  PROVE  ParkedOK'
<1> SUFFICES ASSUME NEW g \in DOMAIN asked', pc'[g] = "waiting"
             PROVE  Parked(g, asked[g].key)'
  BY DEF ParkedOK
<1>1. g # f
  BY DEF Goes
<1>2. g \in DOMAIN asked /\ asked'[g] = asked[g] /\ g \in Frames
  BY <1>1 DEF Learned, CacheInv, AskedType
<1>3. pc[g] = "waiting"
  BY <1>1, <1>2 DEF Goes
<1>4. Parked(g, asked[g].key) /\ asked[g].key \in CacheKey
  BY <1>2, <1>3 DEF CacheInv, ParkedOK, AskedType
<1>5. Parked(g, asked[g].key)'
  BY <1>1, <1>2, <1>3, <1>4 DEF Parked
<1>. QED
  BY <1>2, <1>5

\* A new answer is of the frame's own key and payload.
LEMMA RepliesKeep ==
  ASSUME CacheInv, NEW f, Learned(f),
         \A g \in Frames :
           \/ reply'[g] = reply[g] \/ reply'[g] \notin Frames
           \/ g \in DOMAIN asked' /\ Asks(reply[g], asked[g].key, asked[g].digest)'
  PROVE  RepliesOK'
<1> SUFFICES ASSUME NEW g \in Frames, reply'[g] \in Frames
             PROVE  g \in DOMAIN asked' /\ Asks(reply[g], asked[g].key, asked[g].digest)'
  BY DEF RepliesOK
<1>1. CASE reply'[g] = reply[g]
  <2>1. g \in DOMAIN asked /\ Asks(reply[g], asked[g].key, asked[g].digest)
    BY <1>1 DEF CacheInv, RepliesOK
  <2>. QED
    BY <1>1, <2>1 DEF Learned, Asks
<1>2. CASE g \in DOMAIN asked' /\ Asks(reply[g], asked[g].key, asked[g].digest)'
  BY <1>2 DEF Asks
<1>. QED
  BY <1>1, <1>2

-----------------------------------------------------------------------------
(* The steps of dispatchAsync. *)

\* The frame is answered at once: a refusal, or the record of its key.
LEMMA AnswerStep ==
  ASSUME CacheInv, Rest, NEW f \in Frames, Learned(f), Dispatched(f),
         NEW v \in Replies,
         pc' = [pc EXCEPT ![f] = "done"], reply' = [reply EXCEPT ![f] = v],
         UNCHANGED entries,
         v \notin Frames \/ Asks(v, asked'[f].key, asked'[f].digest)
  PROVE  CacheInv'
<1>0. Goes(f, "done")
  BY GoesTo DEF CacheInv, Places
<1>1. reply' \in [Frames -> Replies]
  BY DEF CacheInv, CacheType
<1>2. CacheType' /\ AskedType' /\ KeysOK' /\ ServerOK'
  BY <1>0, <1>1, FrameKeeps DEF Places
<1>3. EntriesType'
  BY DEF CacheInv, EntriesType
<1>4. EntriesOK'
  <2> SUFFICES ASSUME NEW k \in DOMAIN entries
               PROVE  Fits(k, entries[k])'
    BY DEF EntriesOK
  <2>1. \A g \in entries[k].waiters : pc'[g] = pc[g]
    BY <1>0, WaiterWaits DEF Goes, Dispatched
  <2>2. PICK e : e = entries[k]
    OBVIOUS
  <2>3. Fits(k, e)'
    BY <2>1, <2>2, FitsStays
  <2>. QED
    BY <2>2, <2>3
<1>5. ParkedOK'
  <2>1. \A g \in Frames, k \in CacheKey : Parked(g, k) => Parked(g, k)'
    BY DEF Parked
  <2>. QED
    BY <1>0, <2>1, ParkedKeeps
<1>6. RepliesOK'
  <2> SUFFICES ASSUME NEW g \in Frames
               PROVE  \/ reply'[g] = reply[g] \/ reply'[g] \notin Frames
                      \/ g \in DOMAIN asked' /\ Asks(reply[g], asked[g].key, asked[g].digest)'
    BY RepliesKeep
  <2>1. g # f => reply'[g] = reply[g]
    BY DEF CacheInv, CacheType
  <2>2. g = f => reply'[g] = v
    BY DEF CacheInv, CacheType
  <2>. QED
    BY <2>1, <2>2 DEF Learned, Asks
<1>7. LiveOK' /\ AloneOK'
  <2>1. "done" \notin Handling
    BY DEF Handling
  <2>2. LiveOK'
    BY <1>0, <2>1, LiveKeeps DEF Open, StillOpen
  <2>3. AloneOK'
    BY <1>0, <2>1, AloneKeeps
  <2>. QED
    BY <2>2, <2>3
<1>. QED
  BY <1>2, <1>3, <1>4, <1>5, <1>6, <1>7 DEF CacheInv

\* The frame missed: at most an expired record of its key goes.
LEMMA MissStep ==
  ASSUME CacheInv, Rest, NEW f \in Frames, Learned(f), Dispatched(f), NEW k,
         Drop({k}), k \in DOMAIN entries => entries[k].completed,
         pc' = [pc EXCEPT ![f] = "missed"], UNCHANGED reply
  PROVE  CacheInv'
<1>0. Goes(f, "missed")
  BY GoesTo DEF CacheInv, Places
<1>1. reply' \in [Frames -> Replies]
  BY DEF CacheInv, CacheType
<1>2. CacheType' /\ AskedType' /\ KeysOK' /\ ServerOK'
  BY <1>0, <1>1, FrameKeeps DEF Places
<1>3. EntriesType'
  BY DEF CacheInv, EntriesType, Drop
<1>4. EntriesOK'
  <2> SUFFICES ASSUME NEW x \in DOMAIN entries'
               PROVE  Fits(x, entries[x])'
    BY DEF EntriesOK
  <2>1. x \in DOMAIN entries /\ entries'[x] = entries[x]
    BY DEF Drop
  <2>2. \A g \in entries[x].waiters : pc'[g] = pc[g]
    BY <1>0, <2>1, WaiterWaits DEF Goes, Dispatched
  <2>3. PICK e : e = entries[x]
    OBVIOUS
  <2>4. Fits(x, e)'
    BY <2>1, <2>2, <2>3, FitsStays
  <2>. QED
    BY <2>1, <2>3, <2>4
<1>5. ParkedOK'
  <2>1. \A g \in Frames, x \in CacheKey : Parked(g, x) => Parked(g, x)'
    BY DEF Parked, Drop
  <2>. QED
    BY <1>0, <2>1, ParkedKeeps
<1>6. RepliesOK'
  BY RepliesKeep
<1>7. LiveOK' /\ AloneOK'
  <2>1. "missed" \notin Handling
    BY DEF Handling
  <2>2. LiveOK'
    BY <1>0, <2>1, LiveKeeps DEF Open, StillOpen, Drop
  <2>3. AloneOK'
    BY <1>0, <2>1, AloneKeeps
  <2>. QED
    BY <2>2, <2>3
<1>. QED
  BY <1>2, <1>3, <1>4, <1>5, <1>6, <1>7 DEF CacheInv

\* The frame becomes a waiter of the open entry of its key and payload.
LEMMA JoinStep ==
  ASSUME CacheInv, Rest, NEW f \in Frames, Learned(f), Dispatched(f), NEW k,
         k = asked'[f].key, Open(k, asked'[f].digest),
         entries' = [entries EXCEPT ![k].waiters = @ \cup {f}],
         pc' = [pc EXCEPT ![f] = "waiting"], UNCHANGED reply
  PROVE  CacheInv'
<1>0. Goes(f, "waiting")
  BY GoesTo DEF CacheInv, Places
<1>1. reply' \in [Frames -> Replies]
  BY DEF CacheInv, CacheType
<1>2. CacheType' /\ AskedType' /\ KeysOK' /\ ServerOK'
  BY <1>0, <1>1, FrameKeeps DEF Places
<1>3. k \in DOMAIN entries
  BY DEF Open
<1>4. /\ DOMAIN entries' = DOMAIN entries
      /\ \A x \in DOMAIN entries \ {k} : entries'[x] = entries[x]
      /\ entries'[k] = [digest |-> entries[k].digest,
                        completed |-> entries[k].completed,
                        expired |-> entries[k].expired,
                        ack |-> entries[k].ack,
                        waiters |-> entries[k].waiters \cup {f}]
  BY <1>3, JoinEffect DEF CacheInv
<1>5. /\ entries'[k].digest = entries[k].digest
      /\ entries'[k].completed = entries[k].completed
      /\ entries'[k].waiters = entries[k].waiters \cup {f}
  BY <1>4
<1>6. EntriesType'
  <2>1. entries'[k] \in Entry
    BY <1>3, <1>4 DEF CacheInv, EntriesType, Entry
  <2>. QED
    BY <1>4, <2>1 DEF CacheInv, EntriesType
<1>7. EntriesOK'
  <2> SUFFICES ASSUME NEW x \in DOMAIN entries'
               PROVE  Fits(x, entries[x])'
    BY DEF EntriesOK
  <2>0. x \in DOMAIN entries /\ \A g \in entries[x].waiters : pc'[g] = pc[g]
    BY <1>0, <1>4, WaiterWaits DEF Goes, Dispatched
  <2>1. PICK e : e = entries[x]
    OBVIOUS
  <2>2. Fits(x, e)'
    BY <2>0, <2>1, FitsStays
  <2>3. CASE x # k
    BY <1>4, <2>0, <2>1, <2>2, <2>3
  <2>4. CASE x = k
    <3>1. ~entries'[k].completed
      BY <1>5 DEF Open
    <3>2. Asks(f, k, entries[k].digest)'
      BY <1>5 DEF Open, Learned, Asks
    <3>3. pc'[f] = "waiting"
      BY <1>0 DEF Goes
    <3>4. \A g \in entries[k].waiters :
            pc'[g] = "waiting" /\ Asks(g, k, entries[k].digest)'
      BY <1>5, <2>1, <2>2, <2>4 DEF Fits, Asks
    <3>. QED
      BY <1>5, <2>4, <3>1, <3>2, <3>3, <3>4 DEF Fits, Asks
  <2>. QED
    BY <2>3, <2>4
<1>8. ParkedOK'
  <2> SUFFICES ASSUME NEW g \in DOMAIN asked', pc'[g] = "waiting"
               PROVE  Parked(g, asked[g].key)'
    BY DEF ParkedOK
  <2>1. CASE g = f
    BY <1>4, <1>5, <2>1 DEF Parked, Open
  <2>2. CASE g # f
    <3>1. g \in DOMAIN asked /\ asked'[g] = asked[g] /\ g \in Frames
      BY <2>2 DEF Learned, CacheInv, AskedType
    <3>2. pc[g] = "waiting"
      BY <1>0, <2>2, <3>1 DEF Goes
    <3>3. Parked(g, asked[g].key)
      BY <3>1, <3>2 DEF CacheInv, ParkedOK
    <3>4. CASE asked[g].key = k
      BY <1>4, <1>5, <3>1, <3>3, <3>4 DEF Parked
    <3>5. CASE asked[g].key # k
      BY <1>4, <3>1, <3>3, <3>5 DEF Parked
    <3>. QED
      BY <3>4, <3>5
  <2>. QED
    BY <2>1, <2>2
<1>9. RepliesOK'
  BY RepliesKeep
<1>10. LiveOK' /\ AloneOK'
  <2>1. "waiting" \notin Handling
    BY DEF Handling
  <2>2. \A x \in CacheKey : \A d : Open(x, d) => StillOpen(x, d)
    BY <1>4, <1>5 DEF Open, StillOpen
  <2>3. \A g \in Frames : Current(g) => asked[g].key \in CacheKey
    BY DEF Current, CacheInv, AskedType
  <2>4. LiveOK'
    BY <1>0, <2>1, <2>2, <2>3, LiveKeeps
  <2>5. AloneOK'
    BY <1>0, <2>1, AloneKeeps
  <2>. QED
    BY <2>4, <2>5
<1>. QED
  BY <1>2, <1>6, <1>7, <1>8, <1>9, <1>10 DEF CacheInv

\* The frame moves on with its handler, or to and from the gates.
LEMMA MoveStep ==
  ASSUME CacheInv, Rest, NEW f \in Frames, UNCHANGED <<asked, entries, reply>>,
         pc[f] # "new", pc[f] # "waiting", NEW p \in Places,
         pc' = [pc EXCEPT ![f] = p], p # "new", p # "waiting",
         p \in Handling => pc[f] \in Handling
  PROVE  CacheInv'
<1>0. Goes(f, p) /\ Learned(f)
  BY GoesTo, KnownStays DEF CacheInv
<1>1. reply' \in [Frames -> Replies]
  BY DEF CacheInv, CacheType
<1>2. CacheType' /\ AskedType' /\ KeysOK' /\ ServerOK'
  BY <1>0, <1>1, FrameKeeps
<1>3. EntriesType'
  BY DEF CacheInv, EntriesType
<1>4. EntriesOK'
  <2> SUFFICES ASSUME NEW x \in DOMAIN entries
               PROVE  Fits(x, entries[x])'
    BY DEF EntriesOK
  <2>1. \A g \in entries[x].waiters : pc'[g] = pc[g]
    BY <1>0, WaiterWaits DEF Goes
  <2>2. PICK e : e = entries[x]
    OBVIOUS
  <2>3. Fits(x, e)'
    BY <1>0, <2>1, <2>2, FitsStays
  <2>. QED
    BY <2>2, <2>3
<1>5. ParkedOK'
  <2>1. \A g \in Frames, x \in CacheKey : Parked(g, x) => Parked(g, x)'
    BY DEF Parked
  <2>. QED
    BY <1>0, <2>1, ParkedKeeps
<1>6. RepliesOK'
  BY <1>0, RepliesKeep
<1>7. LiveOK' /\ AloneOK'
  <2>1. LiveOK'
    BY <1>0, LiveKeeps DEF Open, StillOpen
  <2>2. AloneOK'
    BY <1>0, AloneKeeps
  <2>. QED
    BY <2>1, <2>2
<1>. QED
  BY <1>2, <1>3, <1>4, <1>5, <1>6, <1>7 DEF CacheInv

\* The frame becomes the owner of its key, of which no entry was found.
LEMMA OwnStep ==
  ASSUME CacheInv, Rest, NEW f \in Frames, UNCHANGED <<asked, reply>>,
         pc[f] = "gated", pc' = [pc EXCEPT ![f] = "running"], NEW k, NEW d,
         k = asked[f].key, d = asked[f].digest, ~Found(k), Register(k, d)
  PROVE  CacheInv'
<1>0. Goes(f, "running") /\ Learned(f)
  BY GoesTo, KnownStays DEF CacheInv, Places, Handling
<1>1. reply' \in [Frames -> Replies]
  BY DEF CacheInv, CacheType
<1>2. CacheType' /\ AskedType' /\ KeysOK' /\ ServerOK'
  BY <1>0, <1>1, FrameKeeps DEF Places, Handling
<1>3. PICK S : /\ \A x \in S \cap DOMAIN entries : x = k \/ entries[x].completed
               /\ DOMAIN entries' = (DOMAIN entries \ S) \cup {k}
               /\ k \in S
               /\ \A x \in DOMAIN entries \ S : entries'[x] = entries[x]
               /\ entries'[k] = [digest |-> d, completed |-> FALSE,
                                 expired |-> FALSE, ack |-> NoReply,
                                 waiters |-> {}]
  BY RegisterEffect
<1>4. k \in DOMAIN entries => entries[k].completed
  BY DEF Found
<1>5. /\ entries'[k].digest = d /\ ~entries'[k].completed
      /\ entries'[k].waiters = {}
  BY <1>3
<1>6. f \in DOMAIN asked /\ k \in CacheKey /\ d \in Digests
  BY DEF CacheInv, AskedType
<1>7. EntriesType'
  <2>1. entries'[k] \in Entry
    BY <1>3, <1>6 DEF Entry, Replies
  <2>. QED
    BY <1>3, <1>6, <2>1 DEF CacheInv, EntriesType
<1>8. EntriesOK'
  <2> SUFFICES ASSUME NEW x \in DOMAIN entries'
               PROVE  Fits(x, entries[x])'
    BY DEF EntriesOK
  <2>1. CASE x = k
    BY <1>5, <2>1 DEF Fits
  <2>2. CASE x # k
    <3>1. x \in DOMAIN entries /\ entries'[x] = entries[x]
      BY <1>3, <2>2
    <3>2. \A g \in entries[x].waiters : pc'[g] = pc[g]
      BY <1>0, <3>1, WaiterWaits DEF Goes
    <3>3. PICK e : e = entries[x]
      OBVIOUS
    <3>4. Fits(x, e)'
      BY <1>0, <3>1, <3>2, <3>3, FitsStays
    <3>. QED
      BY <3>1, <3>3, <3>4
  <2>. QED
    BY <2>1, <2>2
<1>9. ParkedOK'
  <2>1. \A g \in Frames, x \in CacheKey : Parked(g, x) => Parked(g, x)'
    BY <1>3, <1>4 DEF Parked
  <2>. QED
    BY <1>0, <2>1, ParkedKeeps
<1>10. RepliesOK'
  BY <1>0, RepliesKeep
<1>11. ASSUME NEW g \in Frames, g # f, Current(g)'
       PROVE  Current(g) /\ asked'[g] = asked[g]
  BY <1>0, <1>11 DEF Current, Goes, Rest
<1>12. ASSUME op = 1, NEW g \in Frames, g # f, Current(g)'
       PROVE  asked[g].key # k /\ StillOpen(asked[g].key, asked[g].digest)
  <2>1. Current(g)
    BY <1>11, <1>12
  <2>2. Open(asked[g].key, asked[g].digest)
    BY <1>12, <2>1 DEF CacheInv, LiveOK
  <2>. QED
    BY <1>3, <1>4, <2>2 DEF Open, StillOpen
<1>13. LiveOK'
  <2> SUFFICES ASSUME op = 1, NEW g \in Frames, Current(g)'
               PROVE  StillOpen(asked[g].key, asked[g].digest)
    BY DEF LiveOK, Rest, Open, StillOpen
  <2>1. CASE g = f
    BY <1>3, <1>5, <2>1 DEF StillOpen
  <2>2. CASE g # f
    BY <1>12, <2>2
  <2>. QED
    BY <2>1, <2>2
<1>14. AloneOK'
  <2> SUFFICES ASSUME op = 1, NEW g \in Frames, NEW h \in Frames, Current(g)',
                      Current(h)', asked[g].key = asked[h].key
               PROVE  g = h
    BY DEF AloneOK, Rest
  <2>1. CASE g = f \/ h = f
    BY <1>12, <2>1
  <2>2. CASE g # f /\ h # f
    BY <1>11, <2>2 DEF CacheInv, AloneOK
  <2>. QED
    BY <2>1, <2>2
<1>. QED
  BY <1>2, <1>7, <1>8, <1>9, <1>10, <1>13, <1>14 DEF CacheInv

-----------------------------------------------------------------------------
(* The steps that answer waiters. *)

\* Some frames stop waiting; another may hand in its handler's result.
Ends(ws, f) ==
  /\ pc' \in [Frames -> Places]
  /\ \A g \in Frames : pc'[g] = pc[g] \/ (pc[g] # "new" /\ pc'[g] \in {"done", "replying"})
  /\ \A g \in Frames \ (ws \cup {f}) : pc'[g] = pc[g]
  /\ \A g \in ws \cap Frames : pc'[g] = "done"

\* Types, keys and replies survive such a step.
LEMMA EndsKeeps ==
  ASSUME CacheInv, UNCHANGED <<gen, op, loop, connGen, asked>>, NEW ws, NEW f, Ends(ws, f),
         reply' \in [Frames -> Replies],
         \A g \in Frames : \/ reply'[g] = reply[g] \/ reply'[g] \notin Frames
                           \/ /\ g \in DOMAIN asked
                              /\ Asks(reply'[g], asked[g].key, asked[g].digest)
  PROVE  CacheType' /\ AskedType' /\ KeysOK' /\ RepliesOK'
<1>1. CacheType'
  BY DEF CacheInv, CacheType, Ends
<1>2. AskedType'
  BY DEF CacheInv, AskedType, Ends
<1>3. KeysOK'
  BY DEF CacheInv, KeysOK
<1>4. RepliesOK'
  BY DEF CacheInv, RepliesOK, Asks
<1>. QED
  BY <1>1, <1>2, <1>3, <1>4

\* Entries that stay, without their waiters moving, still fit.
LEMMA EndsFits ==
  ASSUME CacheInv, UNCHANGED asked, NEW ws, NEW f, Ends(ws, f),
         f \in Frames => pc[f] # "waiting",
         NEW x \in DOMAIN entries, entries[x].waiters \cap ws = {}, NEW e,
         e = entries[x]
  PROVE  Fits(x, e)'
<1>1. Fits(x, e)
  BY DEF CacheInv, EntriesOK
<1>2. \A g \in e.waiters : pc'[g] = pc[g]
  <2> SUFFICES ASSUME NEW g \in e.waiters PROVE pc'[g] = pc[g]
    OBVIOUS
  <2>1. g \in Frames /\ pc[g] = "waiting"
    BY WaiterWaits
  <2>2. g \notin ws /\ g # f
    BY <2>1
  <2>. QED
    BY <2>1, <2>2 DEF Ends
<1>. QED
  BY <1>1, <1>2 DEF Fits, Asks

\* A handler hands in its result: what was open for it is gone or is the
\* record of this result, and who waited there is answered.
LEMMA FanStep ==
  ASSUME CacheInv, Rest, NEW f \in Frames, UNCHANGED asked, pc[f] \in Handling,
         NEW k, NEW d, k = asked[f].key, d = asked[f].digest,
         NEW ack \in {Refusal, f}, FanOut(f, WaitersOf(k, d), ack),
         ~Open(k, d) => UNCHANGED entries,
         Open(k, d) =>
           \/ Drop({k})
           \/ entries' = [entries EXCEPT ![k].completed = TRUE,
                                         ![k].ack = f, ![k].waiters = {}]
  PROVE  CacheInv'
<1> DEFINE ws == WaitersOf(k, d)
<1>0. f \in DOMAIN asked /\ k \in CacheKey
  BY DEF CacheInv, AskedType, Handling
<1>1. /\ Open(k, d) => ws = entries[k].waiters
      /\ ~Open(k, d) => ws = {}
  BY DEF WaitersOf
<1> HIDE DEF ws
<1>2. \A g \in ws : /\ g \in Frames /\ pc[g] = "waiting" /\ g \in DOMAIN asked
                    /\ asked[g].key = k /\ asked[g].digest = d
  <2> SUFFICES ASSUME NEW g \in ws
               PROVE  /\ g \in Frames /\ pc[g] = "waiting" /\ g \in DOMAIN asked
                      /\ asked[g].key = k /\ asked[g].digest = d
    OBVIOUS
  <2>1. k \in DOMAIN entries /\ entries[k].digest = d /\ g \in entries[k].waiters
    BY <1>1 DEF Open
  <2>. QED
    BY <2>1, WaiterWaits
<1>3. /\ reply' = [x \in Frames |-> IF x \in ws \cup {f} THEN ack ELSE reply[x]]
      /\ pc' = [x \in Frames |-> IF x = f THEN "replying"
                                 ELSE IF x \in ws THEN "done" ELSE pc[x]]
  BY DEF FanOut, ws
<1>4. f \notin ws /\ pc[f] # "waiting" /\ pc[f] # "new"
  BY <1>2 DEF Handling
<1>5. Ends(ws, f)
  <2>1. pc' \in [Frames -> Places]
    BY <1>3 DEF CacheInv, CacheType, Places
  <2>. QED
    BY <1>2, <1>3, <1>4, <2>1 DEF Ends
<1>6. /\ Open(k, d) => k \in DOMAIN entries
      /\ DOMAIN entries' \subseteq DOMAIN entries
      /\ \A x \in DOMAIN entries : x # k => x \in DOMAIN entries' /\ entries'[x] = entries[x]
  <2>1. CASE ~Open(k, d)
    BY <2>1
  <2>2. CASE Open(k, d) /\ Drop({k})
    BY <2>2 DEF Drop, Open
  <2>3. CASE Open(k, d) /\ entries' = [entries EXCEPT ![k].completed = TRUE,
                                            ![k].ack = f, ![k].waiters = {}]
    BY <2>3, CompleteEffect DEF Open, CacheInv
  <2>. QED
    BY <2>1, <2>2, <2>3
<1>7. Open(k, d) /\ k \in DOMAIN entries' =>
        /\ entries'[k].completed /\ entries'[k].ack = f
        /\ entries'[k].waiters = {} /\ entries'[k].digest = d
        /\ entries'[k] \in Entry
  <2> SUFFICES ASSUME Open(k, d), k \in DOMAIN entries'
               PROVE  /\ entries'[k].completed /\ entries'[k].ack = f
                      /\ entries'[k].waiters = {} /\ entries'[k].digest = d
                      /\ entries'[k] \in Entry
    OBVIOUS
  <2>0. k \in DOMAIN entries /\ EntriesType
    BY <1>6 DEF CacheInv
  <2>1. entries' = [entries EXCEPT ![k].completed = TRUE,
                                   ![k].ack = f, ![k].waiters = {}]
    BY DEF Drop
  <2>2. PICK yes \in BOOLEAN :
          /\ yes = TRUE
          /\ entries'[k] = [digest |-> entries[k].digest, completed |-> yes,
                            expired |-> entries[k].expired,
                            ack |-> f, waiters |-> {}]
    BY ONLY <2>0, <2>1, f \in Frames, CompleteEffect, Zenon
  <2>3. entries[k].digest = d /\ entries[k] \in Entry
    BY <1>6 DEF Open, CacheInv, EntriesType
  <2>4. entries'[k] \in Entry
    BY <2>2, <2>3 DEF Entry, Replies
  <2>. QED
    BY <2>2, <2>3, <2>4
<1>8. CacheType' /\ AskedType' /\ KeysOK' /\ RepliesOK'
  <2>1. reply' \in [Frames -> Replies]
    BY <1>3 DEF CacheInv, CacheType, Replies
  <2>2. ASSUME NEW g \in Frames
        PROVE  \/ reply'[g] = reply[g] \/ reply'[g] \notin Frames
               \/ /\ g \in DOMAIN asked
                  /\ Asks(reply'[g], asked[g].key, asked[g].digest)
    <3>1. CASE g \notin ws \cup {f}
      BY <1>3, <3>1
    <3>2. CASE g \in ws \cup {f}
      <4>1. reply'[g] = ack
        BY <1>3, <3>2
      <4>2. Refusal \notin Frames
        BY RepliesAssumption
      <4>3. /\ g \in DOMAIN asked /\ asked[g].key = k /\ asked[g].digest = d
        BY <1>0, <1>2, <3>2
      <4>. QED
        BY <1>0, <4>1, <4>2, <4>3 DEF Asks
    <3>. QED
      BY <3>1, <3>2
  <2>. QED
    BY <1>5, <2>1, <2>2, EndsKeeps DEF Rest
<1>9. EntriesType'
  <2> SUFFICES ASSUME NEW x \in DOMAIN entries'
               PROVE  x \in CacheKey /\ entries'[x] \in Entry
    BY DEF EntriesType
  <2>1. x \in CacheKey /\ entries[x] \in Entry
    BY <1>6 DEF CacheInv, EntriesType
  <2>2. CASE x = k /\ Open(k, d)
    BY <1>7, <2>1, <2>2
  <2>3. CASE x # k \/ ~Open(k, d)
    BY <1>6, <2>1, <2>3
  <2>. QED
    BY <2>2, <2>3
<1>10. EntriesOK'
  <2> SUFFICES ASSUME NEW x \in DOMAIN entries'
               PROVE  Fits(x, entries[x])'
    BY DEF EntriesOK
  <2>1. x \in DOMAIN entries
    BY <1>6
  <2>2. CASE x = k /\ Open(k, d)
    BY <1>0, <1>7, <2>2 DEF Fits, Asks
  <2>3. CASE x # k \/ ~Open(k, d)
    <3>1. entries[x].waiters \cap ws = {}
      BY <1>1, <1>2, <2>1, <2>3, WaiterWaits
    <3>2. PICK e : e = entries[x]
      OBVIOUS
    <3>3. Fits(x, e)'
      BY <1>4, <1>5, <2>1, <3>1, <3>2, EndsFits
    <3>4. entries'[x] = entries[x]
      BY <1>6, <2>1, <2>3
    <3>. QED
      BY <3>2, <3>3, <3>4
  <2>. QED
    BY <2>2, <2>3
<1>11. ParkedOK'
  <2> SUFFICES ASSUME NEW g \in DOMAIN asked, pc'[g] = "waiting"
               PROVE  Parked(g, asked[g].key)'
    BY DEF ParkedOK
  <2>1. g \in Frames
    BY DEF CacheInv, AskedType
  <2>2. g \notin ws /\ g # f /\ pc[g] = "waiting"
    BY <1>3, <2>1
  <2>3. Parked(g, asked[g].key)
    BY <2>2 DEF CacheInv, ParkedOK
  <2>4. asked[g].key = k => ~Open(k, d)
    BY <1>1, <2>2, <2>3 DEF Parked
  <2>5. CASE ~Open(k, d)
    BY <2>3, <2>5 DEF Parked
  <2>6. CASE asked[g].key # k
    BY <1>6, <2>3, <2>6 DEF Parked
  <2>. QED
    BY <2>4, <2>5, <2>6
<1>12. ASSUME NEW g \in Frames, Current(g)'
       PROVE  g # f /\ Current(g)
  BY <1>3, <1>12 DEF Current, Rest, Handling
<1>13. LiveOK'
  <2> SUFFICES ASSUME op = 1, NEW g \in Frames, Current(g)'
               PROVE  StillOpen(asked[g].key, asked[g].digest)
    BY DEF LiveOK, Rest, Open, StillOpen
  <2>1. g # f /\ Current(g)
    BY <1>12
  <2>2. Open(asked[g].key, asked[g].digest)
    BY <2>1 DEF CacheInv, LiveOK
  <2>3. asked[g].key # k
    <3> SUFFICES ASSUME asked[g].key = k PROVE FALSE
      OBVIOUS
    <3>1. Current(f)
      BY <1>0, <2>1 DEF Current
    <3>. QED
      BY <2>1, <3>1 DEF CacheInv, AloneOK
  <2>. QED
    BY <1>6, <2>2, <2>3 DEF Open, StillOpen
<1>14. AloneOK'
  BY <1>12 DEF CacheInv, AloneOK, Rest
<1>15. ServerOK'
  BY DEF CacheInv, ServerOK, Rest
<1>. QED
  BY <1>8, <1>9, <1>10, <1>11, <1>13, <1>14, <1>15 DEF CacheInv

\* Entries are dropped without an answer and their waiters give up; as long as
\* nobody unpaired, none of them is of the current linkage.
LEMMA SilenceStep ==
  ASSUME CacheInv, UNCHANGED <<gen, op, loop, connGen, asked>>,
         NEW S \in SUBSET DOMAIN entries, Drop(S),
         Silenced(UNION {entries[k].waiters : k \in S}),
         op = 1 => \A k \in S : k[1] # gen,
         ServerOK'
  PROVE  CacheInv'
<1> DEFINE ws == UNION {entries[k].waiters : k \in S}
<1>1. \A g \in ws : g \in Frames /\ pc[g] = "waiting" /\ asked[g].key \in S
  BY WaiterWaits
<1>2. \A k \in S : entries[k].waiters \subseteq ws
  OBVIOUS
<1> HIDE DEF ws
<1>3. /\ reply' = [x \in Frames |-> IF x \in ws THEN Silence ELSE reply[x]]
      /\ pc' = [x \in Frames |-> IF x \in ws THEN "done" ELSE pc[x]]
  BY DEF Silenced, ws
<1>4. Ends(ws, NoReply)
  <2>1. pc' \in [Frames -> Places]
    BY <1>3 DEF CacheInv, CacheType, Places
  <2>. QED
    BY <1>1, <1>3, <2>1 DEF Ends
<1>5. CacheType' /\ AskedType' /\ KeysOK' /\ RepliesOK'
  <2>1. reply' \in [Frames -> Replies]
    BY <1>3 DEF CacheInv, CacheType, Replies
  <2>2. \A g \in Frames : reply'[g] = reply[g] \/ reply'[g] \notin Frames
    BY <1>3, RepliesAssumption
  <2>. QED
    BY <1>4, <2>1, <2>2, EndsKeeps
<1>6. EntriesType'
  BY DEF CacheInv, EntriesType, Drop
<1>7. EntriesOK'
  <2> SUFFICES ASSUME NEW x \in DOMAIN entries'
               PROVE  Fits(x, entries[x])'
    BY DEF EntriesOK
  <2>1. x \in DOMAIN entries \ S /\ entries'[x] = entries[x]
    BY DEF Drop
  <2>2. entries[x].waiters \cap ws = {}
    BY <1>1, <2>1, WaiterWaits
  <2>3. PICK e : e = entries[x]
    OBVIOUS
  <2>4. NoReply \notin Frames
    BY RepliesAssumption
  <2>5. Fits(x, e)'
    BY <1>4, <2>1, <2>2, <2>3, <2>4, EndsFits
  <2>. QED
    BY <2>1, <2>3, <2>5
<1>8. ParkedOK'
  <2> SUFFICES ASSUME NEW g \in DOMAIN asked, pc'[g] = "waiting"
               PROVE  Parked(g, asked[g].key)'
    BY DEF ParkedOK
  <2>1. g \in Frames
    BY DEF CacheInv, AskedType
  <2>2. g \notin ws /\ pc[g] = "waiting"
    BY <1>3, <2>1
  <2>3. Parked(g, asked[g].key)
    BY <2>2 DEF CacheInv, ParkedOK
  <2>4. asked[g].key \notin S
    BY <1>2, <2>2, <2>3 DEF Parked
  <2>. QED
    BY <2>3, <2>4 DEF Parked, Drop
<1>9. ASSUME NEW g \in Frames, Current(g)'
      PROVE  Current(g)
  BY <1>3, <1>9 DEF Current, Handling
<1>10. LiveOK'
  <2> SUFFICES ASSUME op = 1, NEW g \in Frames, Current(g)'
               PROVE  StillOpen(asked[g].key, asked[g].digest)
    BY DEF LiveOK, Open, StillOpen
  <2>1. Current(g)
    BY <1>9
  <2>2. Open(asked[g].key, asked[g].digest)
    BY <2>1 DEF CacheInv, LiveOK
  <2>3. asked[g].key \notin S
    BY <2>1 DEF Current
  <2>. QED
    BY <2>2, <2>3 DEF Open, StillOpen, Drop
<1>11. AloneOK'
  BY <1>9 DEF CacheInv, AloneOK
<1>. QED
  BY <1>5, <1>6, <1>7, <1>8, <1>10, <1>11 DEF CacheInv

-----------------------------------------------------------------------------
(* The steps of the clock, the connections and the server. *)

\* A completed entry expires: it has no waiters and stays completed.
LEMMA ExpireStep ==
  ASSUME CacheInv, Rest, UNCHANGED frames, NEW k \in DOMAIN entries,
         entries[k].completed, entries' = [entries EXCEPT ![k].expired = TRUE]
  PROVE  CacheInv'
<1>1. /\ DOMAIN entries' = DOMAIN entries
      /\ \A x \in DOMAIN entries \ {k} : entries'[x] = entries[x]
  BY ExpireEffect DEF CacheInv
<1>2. PICK yes \in BOOLEAN :
        entries'[k] = [digest |-> entries[k].digest,
                       completed |-> entries[k].completed,
                       expired |-> yes,
                       ack |-> entries[k].ack,
                       waiters |-> entries[k].waiters]
  <2>1. EntriesType
    BY DEF CacheInv
  <2>. QED
    BY <2>1, ExpireEffect, Zenon
<1>3. /\ entries'[k].digest = entries[k].digest
      /\ entries'[k].completed = entries[k].completed
      /\ entries'[k].ack = entries[k].ack
      /\ entries'[k].waiters = entries[k].waiters
  BY <1>2
<1>4. CacheType' /\ AskedType' /\ KeysOK' /\ RepliesOK' /\ ServerOK'
  <2>1. CacheType' /\ AskedType'
    BY DEF CacheInv, CacheType, AskedType, Rest, frames
  <2>2. KeysOK' /\ ServerOK'
    BY DEF CacheInv, KeysOK, ServerOK, Rest, frames
  <2>3. RepliesOK'
    BY DEF CacheInv, RepliesOK, Asks, frames
  <2>. QED
    BY <2>1, <2>2, <2>3
<1>5. EntriesType'
  <2>1. entries'[k] \in Entry
    BY <1>2 DEF CacheInv, EntriesType, Entry
  <2>. QED
    BY <1>1, <2>1 DEF CacheInv, EntriesType
<1>6. EntriesOK'
  <2> SUFFICES ASSUME NEW x \in DOMAIN entries
               PROVE  Fits(x, entries[x])'
    BY <1>1 DEF EntriesOK
  <2>1. Fits(x, entries[x])
    BY DEF CacheInv, EntriesOK
  <2>2. CASE x = k
    BY <1>3, <2>1, <2>2 DEF Fits, Asks, frames
  <2>3. CASE x # k
    BY <1>1, <2>1, <2>3 DEF Fits, Asks, frames
  <2>. QED
    BY <2>2, <2>3
<1>7. ParkedOK'
  BY <1>1, <1>3 DEF CacheInv, ParkedOK, Parked, frames
<1>8. LiveOK'
  <2>1. \A x, d : Open(x, d) => Open(x, d)'
    BY <1>1, <1>3 DEF Open
  <2>. QED
    BY <2>1 DEF CacheInv, LiveOK, Current, Rest, frames
<1>9. AloneOK'
  BY DEF CacheInv, AloneOK, Current, Rest, frames
<1>. QED
  BY <1>4, <1>5, <1>6, <1>7, <1>8, <1>9 DEF CacheInv

\* The parts that look at frames and cache only.
CacheParts == AskedType /\ EntriesType /\ EntriesOK /\ ParkedOK /\ RepliesOK

\* They stay when frames and cache stay.
LEMMA PartsStay ==
  ASSUME CacheInv, UNCHANGED <<entries, frames>>
  PROVE  CacheParts'
<1>1. AskedType' /\ EntriesType'
  BY DEF CacheInv, AskedType, EntriesType, frames
<1>2. EntriesOK'
  BY DEF CacheInv, EntriesOK, Fits, Asks, frames
<1>3. ParkedOK'
  BY DEF CacheInv, ParkedOK, Parked, frames
<1>4. RepliesOK'
  BY DEF CacheInv, RepliesOK, Asks, frames
<1>. QED
  BY <1>1, <1>2, <1>3, <1>4 DEF CacheParts

\* A connection moves on; one that was serving keeps its generation.
LEMMA ConnStep ==
  ASSUME CacheInv, UNCHANGED <<gen, op, replacing, entries, frames>>,
         loop' \in [Conns -> {"down", "accepted", "authed", "serving", "gone"}],
         connGen' \in [Conns -> Nat],
         \A c \in Conns : connGen'[c] <= gen,
         \A c \in Conns : loop[c] \in {"serving", "gone"} =>
           loop'[c] \in {"serving", "gone"} /\ connGen'[c] = connGen[c],
         unpairing' = "clearing" => unpairing = "clearing"
  PROVE  CacheInv'
<1>1. CacheParts'
  BY PartsStay
<1>2. CacheType'
  BY DEF CacheInv, CacheType, frames
<1>3. KeysOK'
  <2> SUFFICES ASSUME NEW f \in DOMAIN asked
               PROVE  /\ loop'[asked[f].conn] \in {"serving", "gone"}
                      /\ asked[f].key[1] = connGen'[asked[f].conn]
    BY DEF KeysOK, frames
  <2>1. asked[f].conn \in Conns
    BY DEF CacheInv, AskedType
  <2>. QED
    BY <2>1 DEF CacheInv, KeysOK
<1>4. LiveOK' /\ AloneOK'
  BY DEF CacheInv, LiveOK, AloneOK, Current, Open, frames
<1>5. ServerOK'
  BY DEF CacheInv, ServerOK
<1>. QED
  BY <1>1, <1>2, <1>3, <1>4, <1>5 DEF CacheInv, CacheParts

\* A new linkage: no handler is of its generation yet.
LEMMA ReplaceStep ==
  ASSUME CacheInv, Replace
  PROVE  CacheInv'
<1> USE DEF Replace, conns, cache, frames
<1>1. CacheParts'
  BY PartsStay
<1>2. CacheType'
  BY DEF CacheInv, CacheType
<1>3. KeysOK'
  BY DEF CacheInv, KeysOK, CacheType
<1>4. \A f \in Frames : ~Current(f)'
  <2> SUFFICES ASSUME NEW f \in DOMAIN asked PROVE asked[f].key[1] # gen + 1
    BY DEF Current
  <2>1. asked[f].conn \in Conns
    BY DEF CacheInv, AskedType
  <2>2. asked[f].key[1] <= gen /\ asked[f].key[1] \in Nat /\ gen \in Nat
    BY <2>1 DEF CacheInv, KeysOK, CacheType
  <2>. QED
    BY <2>2
<1>5. LiveOK' /\ AloneOK'
  BY <1>4 DEF LiveOK, AloneOK
<1>6. ServerOK'
  <2>1. ASSUME NEW r \in replacing' PROVE r.gen \in Nat /\ r.gen < gen'
    <3>1. CASE r \in replacing
      BY <3>1 DEF CacheInv, ServerOK, CacheType
    <3>2. CASE r = [gen |-> gen, conns |-> active]
      BY <3>2 DEF CacheInv, CacheType
    <3>. QED
      BY <3>1, <3>2
  <2>. QED
    BY <2>1 DEF CacheInv, ServerOK
<1>. QED
  BY <1>1, <1>2, <1>3, <1>5, <1>6 DEF CacheInv, CacheParts

\* A new operation context: the first one is gone.
LEMMA OpStep ==
  ASSUME CacheInv, ReplaceOpContext
  PROVE  CacheInv'
<1> USE DEF ReplaceOpContext, conns, cache, frames
<1>1. CacheParts'
  BY PartsStay
<1>2. CacheType'
  BY DEF CacheInv, CacheType
<1>3. KeysOK'
  BY DEF CacheInv, KeysOK
<1>4. op' # 1
  BY DEF CacheInv, CacheType
<1>5. LiveOK' /\ AloneOK' /\ ServerOK'
  BY <1>4 DEF CacheInv, LiveOK, AloneOK, ServerOK
<1>. QED
  BY <1>1, <1>2, <1>3, <1>5 DEF CacheInv, CacheParts

-----------------------------------------------------------------------------
(* The actions. *)

\* A lookup, or begin's second look, found an entry of the frame's key.
LEMMA InspectStep ==
  ASSUME CacheInv, Rest, NEW f \in Frames, Learned(f), Dispatched(f), NEW k, NEW d,
         k = asked'[f].key, d = asked'[f].digest, Inspect(f, k, d)
  PROVE  CacheInv'
<1>1. k \in DOMAIN entries
  BY DEF Inspect, Found
<1>2. Fits(k, entries[k]) /\ entries[k] \in Entry
  BY <1>1 DEF CacheInv, EntriesOK, EntriesType
<1>3. CASE Settled(f, Refusal) /\ UNCHANGED cache
  <2>1. Refusal \in Replies /\ Refusal \notin Frames
    BY RepliesAssumption DEF Replies
  <2>. QED
    BY <1>3, <2>1, AnswerStep DEF Settled, cache
<1>4. CASE /\ entries[k].digest = d /\ entries[k].completed
           /\ Settled(f, entries[k].ack) /\ UNCHANGED cache
  <2>1. entries[k].ack \in Replies /\ Asks(entries[k].ack, k, d)
    BY <1>2, <1>4 DEF Fits, Entry
  <2>. QED
    BY <1>4, <2>1, AnswerStep DEF Settled, cache
<1>5. CASE /\ entries[k].digest = d /\ ~entries[k].completed
           /\ entries' = [entries EXCEPT ![k].waiters = @ \cup {f}]
           /\ pc' = [pc EXCEPT ![f] = "waiting"]
           /\ UNCHANGED <<completed, reply>>
  <2>1. Open(k, d)
    BY <1>1, <1>5 DEF Open
  <2>. QED
    BY <1>5, <2>1, JoinStep
<1>. QED
  BY <1>3, <1>4, <1>5 DEF Inspect

\* A frame is read with the generation of its connection in the key.
LEMMA ReadKeeps ==
  ASSUME CacheInv, NEW f \in Frames, NEW c \in Conns, NEW r \in RequestIds,
         NEW d \in Digests, Read(f, c, r, d)
  PROVE  CacheInv'
<1>1. PICK k : k = <<connGen[c], r>>
  OBVIOUS
<1>2. /\ pc[f] = "new" /\ loop[c] = "serving"
      /\ asked' = [x \in DOMAIN asked \cup {f} |->
                     IF x = f THEN [conn |-> c, key |-> k, digest |-> d]
                              ELSE asked[x]]
      /\ \/ Inspect(f, k, d)
         \/ /\ ~Found(k)
            /\ entries' = PurgedEntries(k)
            /\ pc' = [pc EXCEPT ![f] = "missed"]
            /\ UNCHANGED reply
      /\ UNCHANGED <<conns, gates, server>>
  BY <1>1 DEF Read
<1>3. Rest
  BY <1>2 DEF Rest, conns, server
<1>4. f \notin DOMAIN asked
  BY <1>2 DEF CacheInv, AskedType
<1>5. asked'[f] = [conn |-> c, key |-> k, digest |-> d]
  BY <1>2
<1>6. k \in CacheKey /\ k[1] = connGen[c]
  BY <1>1 DEF CacheInv, CacheType, CacheKey
<1>7. Learned(f) /\ Dispatched(f)
  BY <1>2, <1>4, <1>5, <1>6 DEF Learned, Dispatched
<1>8. CASE Inspect(f, k, d)
  BY <1>3, <1>5, <1>7, <1>8, InspectStep
<1>9. CASE /\ ~Found(k)
           /\ entries' = PurgedEntries(k)
           /\ pc' = [pc EXCEPT ![f] = "missed"]
           /\ UNCHANGED reply
  <2>1. Drop({k}) /\ (k \in DOMAIN entries => entries[k].completed)
    BY <1>9, PurgeDrops
  <2>. QED
    BY <1>3, <1>7, <1>9, <2>1, MissStep
<1>. QED
  BY <1>2, <1>8, <1>9

\* A frame's own steps after the read.
LEMMA HandleKeeps ==
  ASSUME CacheInv, NEW f \in Frames, Handle(f)
  PROVE  CacheInv'
<1> USE DEF Places, Handling
<1>1. CASE Admit(f)
  <2>0. Rest /\ UNCHANGED <<asked, entries>> /\ pc[f] = "missed"
    BY <1>1 DEF Admit, Rest, conns, server, cache
  <2>1. CASE pc' = [pc EXCEPT ![f] = "gated"] /\ UNCHANGED reply
    BY <2>0, <2>1, MoveStep
  <2>2. CASE Settled(f, Refusal)
    <3>1. Learned(f) /\ Dispatched(f)
      BY <2>0, KnownStays DEF Dispatched
    <3>2. Refusal \in Replies /\ Refusal \notin Frames
      BY RepliesAssumption DEF Replies
    <3>. QED
      BY <2>0, <2>2, <3>1, <3>2, AnswerStep DEF Settled
  <2>. QED
    BY <1>1, <2>1, <2>2 DEF Admit
<1>2. CASE Begin(f)
  <2>0. Rest /\ UNCHANGED asked /\ pc[f] = "gated"
    BY <1>2 DEF Begin, Rest, conns, server
  <2>1. Learned(f) /\ Dispatched(f)
    BY <2>0, KnownStays DEF Dispatched
  <2>2. CASE Inspect(f, asked[f].key, asked[f].digest)
    BY <2>0, <2>1, <2>2, InspectStep
  <2>3. CASE /\ ~Found(asked[f].key)
             /\ Register(asked[f].key, asked[f].digest)
             /\ pc' = [pc EXCEPT ![f] = "running"]
             /\ UNCHANGED <<reply, gates>>
    BY <2>0, <2>3, OwnStep
  <2>. QED
    BY <1>2, <2>2, <2>3 DEF Begin
<1>3. ASSUME NEW ack \in {Refusal, f}, Abandon(f, ack), pc[f] \in {"running", "computed"},
             UNCHANGED <<conns, gates, asked, server>>
      PROVE  CacheInv'
  <2>1. PICK k, d : k = asked[f].key /\ d = asked[f].digest
    OBVIOUS
  <2>2. /\ FanOut(f, WaitersOf(k, d), ack)
        /\ entries' = IF Open(k, d) THEN PurgedEntries(k) ELSE entries
    BY <1>3, <2>1 DEF Abandon
  <2>3. ~Open(k, d) => UNCHANGED entries
    BY <2>2
  <2>4. Open(k, d) => Drop({k})
    BY <2>2, RestrictDrops DEF PurgedEntries
  <2>5. Rest /\ UNCHANGED asked
    BY <1>3 DEF Rest, conns, server
  <2>. QED
    BY <1>3, <2>1, <2>2, <2>3, <2>4, <2>5, FanStep
<1>4. CASE Fail(f)
  BY <1>3, <1>4 DEF Fail
<1>5. CASE Return(f)
  BY <1>5, MoveStep DEF Return, Rest, conns, server, cache
<1>6. CASE Skip(f)
  BY <1>3, <1>6 DEF Skip
<1>7. CASE Keep(f)
  BY <1>7, MoveStep DEF Keep, Rest, conns, server, cache
<1>8. CASE Complete(f)
  <2>1. PICK k, d : k = asked[f].key /\ d = asked[f].digest
    OBVIOUS
  <2>2. /\ pc[f] = "settling"
        /\ FanOut(f, WaitersOf(k, d), f)
        /\ \/ /\ Open(k, d)
              /\ entries' = [entries EXCEPT ![k].completed = TRUE,
                                            ![k].ack = f, ![k].waiters = {}]
           \/ ~Open(k, d) /\ UNCHANGED cache
        /\ UNCHANGED <<conns, gates, asked, server>>
    BY <1>8, <2>1 DEF Complete
  <2>3. ~Open(k, d) => UNCHANGED entries
    BY <2>2 DEF cache
  <2>4. Open(k, d) => entries' = [entries EXCEPT ![k].completed = TRUE,
                                                 ![k].ack = f, ![k].waiters = {}]
    BY <2>2
  <2>5. Rest /\ UNCHANGED asked
    BY <2>2 DEF Rest, conns, server
  <2>. QED
    BY <2>1, <2>2, <2>3, <2>4, <2>5, FanStep
<1>9. CASE Reply(f)
  BY <1>9, MoveStep DEF Reply, Rest, conns, server, cache
<1>. QED
  BY <1>1, <1>2, <1>4, <1>5, <1>6, <1>7, <1>8, <1>9 DEF Handle

\* The read loops and the goroutines that close connections.
LEMMA ConnKeeps ==
  ASSUME CacheInv, NEW c \in Conns,
         Accept(c) \/ Authenticate(c) \/ ReadContext(c) \/ Leave(c) \/ Close(c)
  PROVE  CacheInv'
<1> USE DEF conns, cache, server
<1>0. CacheType /\ \A x \in Conns : connGen[x] <= gen
  BY DEF CacheInv, KeysOK
<1>1. CASE Accept(c)
  BY <1>0, <1>1, ConnStep DEF Accept, CacheType
<1>2. CASE Authenticate(c)
  BY <1>0, <1>2, ConnStep DEF Authenticate, CacheType
<1>3. CASE ReadContext(c)
  BY <1>0, <1>3, ConnStep DEF ReadContext, CacheType
<1>4. CASE Leave(c)
  BY <1>0, <1>4, ConnStep DEF Leave, CacheType
<1>5. CASE Close(c)
  BY <1>0, <1>5, ConnStep DEF Close, CacheType
<1>. QED
  BY <1>1, <1>2, <1>3, <1>4, <1>5

\* Unpairing, and what drops entries.
LEMMA ServerKeeps ==
  ASSUME CacheInv,
         Unpair \/ Clear \/ (\E r \in replacing : Retire(r))
  PROVE  CacheInv'
<1> USE DEF conns, cache, frames
<1>1. CASE Unpair
  <2>1. CacheType /\ \A x \in Conns : connGen[x] <= gen
    BY DEF CacheInv, KeysOK
  <2>. QED
    BY <1>1, <2>1, ConnStep DEF Unpair, CacheType
<1>2. CASE Clear
  <2>1. Drop(DOMAIN entries)
    BY <1>2, EmptySeq DEF Clear, Drop
  <2>2. op # 1 /\ ServerOK'
    BY <1>2 DEF Clear, CacheInv, ServerOK
  <2>. QED
    BY <1>2, <2>1, <2>2, SilenceStep DEF Clear
<1>3. ASSUME NEW r \in replacing, Retire(r) PROVE CacheInv'
  <2>1. PICK S \in SUBSET DOMAIN entries : S = {k \in DOMAIN entries : k[1] = r.gen}
    OBVIOUS
  <2>2. /\ replacing' = replacing \ {r}
        /\ Silenced(UNION {entries[k].waiters : k \in S})
        /\ entries' = Restrict(entries, DOMAIN entries \ S)
        /\ UNCHANGED <<gen, op, unpairing, conns, gates, asked>>
    BY <1>3, <2>1 DEF Retire
  <2>3. Drop(S)
    BY <2>2, RestrictDrops
  <2>4. \A k \in S : k[1] # gen
    BY <2>1 DEF CacheInv, ServerOK, CacheType
  <2>5. ServerOK'
    BY <2>2 DEF CacheInv, ServerOK
  <2>. QED
    BY <2>2, <2>3, <2>4, <2>5, SilenceStep
<1>. QED
  BY <1>1, <1>2, <1>3

\* Nobody has connected.
LEMMA CacheInit == Init => CacheInv
<1> SUFFICES ASSUME Init PROVE CacheInv
  OBVIOUS
<1> USE DEF Init
<1>1. DOMAIN entries = {} /\ DOMAIN asked = {}
  BY EmptySeq
<1>2. CacheType
  BY DEF CacheType, Places, Replies
<1>3. AskedType /\ EntriesType /\ EntriesOK /\ ParkedOK
  BY <1>1 DEF AskedType, EntriesType, EntriesOK, ParkedOK
<1>4. KeysOK
  BY <1>1 DEF KeysOK
<1>5. RepliesOK
  BY RepliesAssumption DEF RepliesOK
<1>6. LiveOK /\ AloneOK /\ ServerOK
  BY <1>1 DEF LiveOK, AloneOK, Current, ServerOK
<1>. QED
  BY <1>2, <1>3, <1>4, <1>5, <1>6 DEF CacheInv

\* Every step keeps the invariant.
LEMMA CacheNext == CacheInv /\ [Next]_vars => CacheInv'
<1> SUFFICES ASSUME CacheInv, [Next]_vars PROVE CacheInv'
  OBVIOUS
<1>1. ASSUME NEW c \in Conns,
             Accept(c) \/ Authenticate(c) \/ ReadContext(c) \/ Leave(c) \/ Close(c)
      PROVE  CacheInv'
  BY <1>1, ConnKeeps
<1>2. ASSUME NEW f \in Frames, NEW c \in Conns, NEW r \in RequestIds,
             NEW d \in Digests, Read(f, c, r, d)
      PROVE  CacheInv'
  BY <1>2, ReadKeeps
<1>3. ASSUME NEW f \in Frames, Handle(f) PROVE CacheInv'
  BY <1>3, HandleKeeps
<1>4. ASSUME NEW k \in Keys, Expire(k) PROVE CacheInv'
  BY <1>4, ExpireStep DEF Expire, Rest, conns, server
<1>5. CASE Replace
  BY <1>5, ReplaceStep
<1>6. CASE ReplaceOpContext
  BY <1>6, OpStep
<1>7. CASE Unpair \/ Clear \/ (\E r \in replacing : Retire(r))
  BY <1>7, ServerKeeps
<1>8. CASE UNCHANGED vars
  <2>1. CacheType /\ \A x \in Conns : connGen[x] <= gen
    BY DEF CacheInv, KeysOK
  <2>. QED
    BY <1>8, <2>1, ConnStep DEF vars, frames, CacheType
<1>. QED
  BY <1>1, <1>2, <1>3, <1>4, <1>5, <1>6, <1>7, <1>8 DEF Next

-----------------------------------------------------------------------------
(* The theorems. *)

\* The invariant of the cache, its frames and the server's generations holds
\* for any number of them (idempotency.go, server_dispatch.go).
THEOREM CacheInductive == Spec => []CacheInv
BY CacheInit, CacheNext, PTL DEF Spec

\* Every waiter sits in exactly one open entry, and entries hold only frames
\* that wait: nobody is forgotten, no channel is answered twice
\* (idempotency.go:113-161).
THEOREM NobodyForgotten == Spec => []WaitersParked
<1>1. CacheInv => WaitersParked
  <2> SUFFICES ASSUME CacheInv PROVE WaitersParked
    OBVIOUS
  <2>1. ASSUME NEW k \in DOMAIN entries, NEW f \in entries[k].waiters
        PROVE  pc[f] = "waiting" /\ k \in OpenKeys
    <3>1. pc[f] = "waiting" /\ Fits(k, entries[k])
      BY WaiterWaits DEF CacheInv, EntriesOK
    <3>2. ~entries[k].completed
      BY <3>1 DEF Fits
    <3>. QED
      BY <3>1, <3>2 DEF OpenKeys
  <2>2. ASSUME NEW f \in Frames, pc[f] = "waiting"
        PROVE  \E k \in OpenKeys : {x \in OpenKeys : f \in entries[x].waiters} = {k}
    <3>1. f \in DOMAIN asked
      BY <2>2 DEF CacheInv, AskedType
    <3>2. Parked(f, asked[f].key)
      BY <2>2, <3>1 DEF CacheInv, ParkedOK
    <3>3. asked[f].key \in OpenKeys /\ f \in entries[asked[f].key].waiters
      BY <3>2 DEF Parked, OpenKeys
    <3>4. \A x \in OpenKeys : f \in entries[x].waiters => x = asked[f].key
      BY WaiterWaits DEF OpenKeys
    <3>. QED
      BY <3>3, <3>4
  <2>. QED
    BY <2>1, <2>2 DEF WaitersParked
<1>. QED
  BY <1>1, CacheInductive, PTL

\* A raced duplicate never starts a second handler of the current linkage for
\* its key, as long as nobody unpaired (idempotency.go:75-76).
THEOREM DuplicatesCoalesce == Spec => []OneLiveHandler
<1>1. CacheInv => OneLiveHandler
  <2> SUFFICES ASSUME CacheInv, NEW f \in DOMAIN asked, NEW g \in DOMAIN asked,
                      pc[f] \in Handling, pc[g] \in Handling,
                      asked[f].key = asked[g].key, asked[f].key[1] = gen, op = 1
               PROVE  f = g
    BY DEF OneLiveHandler
  <2>1. f \in Frames /\ g \in Frames
    BY DEF CacheInv, AskedType
  <2>2. Current(f) /\ Current(g)
    BY DEF Current
  <2>. QED
    BY <2>1, <2>2 DEF CacheInv, AloneOK
<1>. QED
  BY <1>1, CacheInductive, PTL

\* A request is answered only with a result of its own payload, request ID and
\* linkage generation, whatever was replaced or retired in between
\* (server_dispatch.go:60-62).
THEOREM AnswersAreOwn == Spec => []OwnAnswer
<1>1. CacheInv => OwnAnswer
  <2> SUFFICES ASSUME CacheInv, NEW f \in DOMAIN asked, reply[f] \in Frames
               PROVE  /\ reply[f] \in DOMAIN asked
                      /\ connGen[asked[reply[f]].conn] = connGen[asked[f].conn]
                      /\ asked[reply[f]].key[2] = asked[f].key[2]
                      /\ asked[reply[f]].digest = asked[f].digest
    BY DEF OwnAnswer
  <2>1. f \in Frames
    BY DEF CacheInv, AskedType
  <2>2. Asks(reply[f], asked[f].key, asked[f].digest)
    BY <2>1 DEF CacheInv, RepliesOK
  <2>. QED
    BY <2>2 DEF Asks, CacheInv, KeysOK
<1>. QED
  BY <1>1, CacheInductive, PTL
=============================================================================
