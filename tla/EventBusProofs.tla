--------------------------- MODULE EventBusProofs ---------------------------
(***************************************************************************)
(* The order of Shutdown and Publish, and what the subscriptions hand out, *)
(* for any senders, subscriptions and capacities.                          *)
(***************************************************************************)
EXTENDS EventBus, SequenceTheorems, TLAPS

\* Senders have a state and no sender is in a send once the channel is closed:
\* what Shutdown's two waits establish and the check of Publish keeps.
SendInv ==
  /\ sending \in [Senders -> Kinds \cup {"no"}]
  /\ NoSendOnClosed

\* Nobody is sending and the bus is open at first.
LEMMA SendInit == Init => SendInv
  BY DEF Init, SendInv, NoSendOnClosed

\* Only these actions change who is sending or how far Shutdown is.
LEMMA SendSteps ==
  ASSUME [Next]_vars
  PROVE  \/ \E p \in Publishers, k \in Kinds : PubEnter(p, k)
         \/ \E p \in Workers, k \in Kinds : WorkerEnter(p, k)
         \/ \E p \in Senders : Accept(p) \/ GiveUp(p)
         \/ ShutCancel \/ ShutClose \/ ShutReturn
         \/ UNCHANGED <<sending, shut>>
  <1>1. CASE LoopStep
    BY <1>1 DEF LoopStep, LoopTake, LoopEnd, Enqueue, EnqueueDone, EnqueueStore,
       EnqueueProgress, EnqueueLifecycle, Enqueued, ingress
  <1>2. ASSUME NEW s \in Subs,
               Subscribe(s) \/ Cleanup(s) \/ RunStep(s) \/ Deliver(s)
        PROVE  UNCHANGED <<sending, shut>>
    BY <1>2 DEF Subscribe, Cleanup, RunStep, RunDone, RunClosed, RunCritical,
       RunIdle, RunProgress, Deliver, Elsewhere, ingress
  <1>3. CASE UNCHANGED vars
    BY <1>3 DEF vars
  <1>4. QED BY <1>1, <1>2, <1>3 DEF Next, SendStep

\* Every step keeps it so that nobody sends on a closed channel.
LEMMA SendStepInv == SendInv /\ [Next]_vars => SendInv'
  <1> SUFFICES ASSUME SendInv, [Next]_vars PROVE SendInv'
    OBVIOUS
  <1> USE DEF SendInv, NoSendOnClosed, InSend
  <1>1. ASSUME NEW p \in Publishers, NEW k \in Kinds, PubEnter(p, k)
        PROVE  SendInv'
    BY <1>1 DEF PubEnter, Senders
  <1>2. ASSUME NEW p \in Workers, NEW k \in Kinds, WorkerEnter(p, k)
        PROVE  SendInv'
    BY <1>2 DEF WorkerEnter, Senders
  <1>3. ASSUME NEW p \in Senders, Accept(p) \/ GiveUp(p)
        PROVE  SendInv'
    BY <1>3 DEF Accept, GiveUp
  <1>4. CASE ShutCancel \/ ShutClose \/ ShutReturn
    BY <1>4 DEF ShutCancel, ShutClose, ShutReturn, ingress
  <1>5. CASE UNCHANGED <<sending, shut>>
    BY <1>5
  <1>6. QED BY <1>1, <1>2, <1>3, <1>4, <1>5, SendSteps

\* The channel Shutdown closes has no sender left: a Publish that passed the
\* check is waited for, a later one is refused, and the pool's workers are done
\* (event_bus.go:75-80, 146-153).
THEOREM NoSenderOnClosedChannel == Spec => []NoSendOnClosed
  <1>1. SendInv => NoSendOnClosed
    BY DEF SendInv
  <1>2. QED BY <1>1, SendInit, SendStepInv, PTL DEF Spec
-----------------------------------------------------------------------------
(* What the subscriptions hand out.  Of a subscription s:                  *)
(*                                                                         *)
(*   Given     it has only what the loop handed it since it was made       *)
(*   Placed    which places can be empty, and who is on the listeners      *)
(*   Sorted    which kinds of events are in which place                    *)
(*   Ordered   a lifecycle event is before all that comes later            *)
(*   Whole     nothing owed is missing, or after s stopped only at the end *)

\* What s has handed out or has in hand, with what is queued for it, and what
\* of that it will have handed out in the end.
Out(s)  == Range(delivered[s]) \cup ({held[s]} \ {Nothing})
Have(s) == Out(s) \cup Range(critical[s])
Got(s)  == Out(s) \cup IF pc[s] = "ended" THEN {} ELSE Range(critical[s])

\* What the loop owes s.
Wanted(s) == IF s = Store THEN {"persist"} ELSE {"persist", "other"}
Due(s)    == Owed(s, Wanted(s))

BusType ==
  /\ log \in Seq(Kinds) /\ read \in 0..Len(log)
  /\ todo \subseteq Subs /\ listeners \subseteq Subs /\ stopped \subseteq Subs
  /\ drained \in BOOLEAN
  /\ pc \in [Subs -> {"off", "top", "second", "hold", "ended"}]
  /\ critical \in [Subs -> Seq(Nat)] /\ delivered \in [Subs -> Seq(Nat)]
  /\ progress \in [Subs -> Nat] /\ held \in [Subs -> Nat] /\ since \in [Subs -> Nat]

Given(s) ==
  /\ since[s] <= read /\ (s \in todo => since[s] < read)
  /\ \A i \in Have(s) \cup ({progress[s]} \ {Nothing}) :
       since[s] < i /\ i <= read /\ (s \in todo => i < read)

Placed(s) ==
  /\ pc[s] = "off" => /\ s # Store /\ s \notin listeners \cup todo \cup stopped
                      /\ critical[s] = <<>> /\ delivered[s] = <<>>
                      /\ progress[s] = Nothing
  /\ held[s] # Nothing <=> pc[s] = "hold"
  /\ pc[s] # "off" /\ s \notin stopped => s \in listeners \/ drained
  /\ pc[s] = "ended" /\ s \notin stopped => drained /\ critical[s] = <<>>

Sorted(s) ==
  /\ \A i \in Range(critical[s]) : log[i] # "progress"
  /\ progress[s] # Nothing => s # Store /\ log[progress[s]] = "progress"
  /\ s = Store => \A i \in Have(s) : log[i] = "persist"

Ordered(s) ==
  /\ InOrder(delivered[s]) /\ InOrder(critical[s])
  /\ held[s] # Nothing => \A i \in Range(delivered[s]) : log[i] # "progress" => i < held[s]
  /\ \A i \in Out(s), j \in Range(critical[s]) : log[i] # "progress" => i < j
  /\ progress[s] # Nothing => \A i \in Have(s) : log[i] # "progress" => i < progress[s]

Whole(s) ==
  pc[s] # "off" =>
    /\ s \notin stopped => Due(s) \subseteq Got(s)
    /\ \A i \in Due(s), j \in Got(s) : log[j] # "progress" /\ i < j => i \in Got(s)

Good(s) == Given(s) /\ Placed(s) /\ Sorted(s) /\ Ordered(s) /\ Whole(s)

\* When the loop has returned the channel is closed and empty.
DrainOK ==
  drained => /\ shut \in {"closed", "returned"} /\ todo = {} /\ listeners = {}
             /\ read = Len(log)

BusInv == SendInv /\ BusType /\ DrainOK /\ \A s \in Subs : Good(s)

-----------------------------------------------------------------------------
(* Sequences of events.                                                    *)

\* What an event that is appended adds.
LEMMA Appended ==
  ASSUME NEW q \in Seq(Nat), NEW x \in Nat
  PROVE  /\ Append(q, x) \in Seq(Nat)
         /\ Range(Append(q, x)) = Range(q) \cup {x}
         /\ InOrder(q) /\ (\A i \in Range(q) : log[i] # "progress" => i < x)
              => InOrder(Append(q, x))
<1>. DEFINE r == Append(q, x)
<1>0. \A j \in 1..Len(q) + 1 : j \in 1..Len(q) \/ j = Len(q) + 1
  <2>1. \A n \in Nat : \A j \in 1..n + 1 : j \in 1..n \/ j = n + 1
    OBVIOUS
  <2>2. Len(q) \in Nat
    OBVIOUS
  <2>. QED
    BY <2>1, <2>2
<1>1. /\ r \in Seq(Nat) /\ DOMAIN q = 1..Len(q) /\ DOMAIN r = 1..Len(q) + 1
      /\ Len(q) \in Nat /\ r[Len(q) + 1] = x
      /\ \A i \in 1..Len(q) : r[i] = q[i]
  OBVIOUS
<1>. HIDE DEF r
<1>2. Range(r) = Range(q) \cup {x}
  <2>1. \A y \in Range(r) : y \in Range(q) \cup {x}
    <3>. SUFFICES ASSUME NEW i \in 1..Len(q) + 1 PROVE r[i] \in Range(q) \cup {x}
      BY <1>1 DEF Range
    <3>1. CASE i = Len(q) + 1
      BY <1>1, <3>1
    <3>2. CASE i \in 1..Len(q)
      BY <1>1, <3>2 DEF Range
    <3>3. i = Len(q) + 1 \/ i \in 1..Len(q)
      BY <1>0
    <3>. QED
      BY <3>1, <3>2, <3>3
  <2>2. \A y \in Range(q) \cup {x} : y \in Range(r)
    BY <1>1 DEF Range
  <2>. QED
    BY <2>1, <2>2
<1>3. ASSUME InOrder(q), \A i \in Range(q) : log[i] # "progress" => i < x
      PROVE  InOrder(r)
  <2>. SUFFICES ASSUME NEW i \in 1..Len(q) + 1, NEW j \in 1..Len(q) + 1, i < j,
                       log[r[i]] # "progress"
                PROVE  r[i] < r[j]
    BY <1>1 DEF InOrder
  <2>1. i \in 1..Len(q) /\ r[i] = q[i]
    BY <1>1
  <2>2. CASE j \in 1..Len(q)
    BY <1>1, <1>3, <2>1, <2>2 DEF InOrder
  <2>3. CASE j = Len(q) + 1
    BY <1>1, <1>3, <2>1, <2>3 DEF Range
  <2>4. j \in 1..Len(q) \/ j = Len(q) + 1
    BY <1>0
  <2>. QED
    BY <2>2, <2>3, <2>4
<1>. QED
  BY <1>1, <1>2, <1>3 DEF r

\* What taking the first event leaves.
LEMMA Taken ==
  ASSUME NEW q \in Seq(Nat), q # <<>>
  PROVE  /\ Head(q) \in Range(q) /\ Tail(q) \in Seq(Nat)
         /\ Range(q) = {Head(q)} \cup Range(Tail(q))
         /\ InOrder(q) => InOrder(Tail(q))
         /\ InOrder(q) /\ log[Head(q)] # "progress" =>
              \A i \in Range(Tail(q)) : Head(q) < i
<1>. DEFINE r == Tail(q)
<1>1. /\ r \in Seq(Nat) /\ DOMAIN q = 1..Len(q) /\ DOMAIN r = 1..Len(q) - 1
      /\ Len(q) \in Nat \ {0} /\ Head(q) = q[1]
      /\ \A i \in 1..Len(q) - 1 : r[i] = q[i + 1]
  BY HeadTailProperties, EmptySeq
<1>. HIDE DEF r
<1>2. \A y \in Range(r) : \E i \in 2..Len(q) : y = q[i]
  <2>. TAKE y \in Range(r)
  <2>1. PICK i \in 1..Len(q) - 1 : y = r[i]
    BY <1>1 DEF Range
  <2>2. i + 1 \in 2..Len(q) /\ y = q[i + 1]
    BY <1>1, <2>1
  <2>. QED
    BY <2>2
<1>3. Range(q) = {Head(q)} \cup Range(r)
  <2>1. \A y \in Range(q) : y \in {Head(q)} \cup Range(r)
    <3>. SUFFICES ASSUME NEW i \in 1..Len(q) PROVE q[i] \in {q[1]} \cup Range(r)
      BY <1>1 DEF Range
    <3>1. CASE i = 1
      BY <3>1
    <3>2. CASE i # 1
      <4>1. i - 1 \in 1..Len(q) - 1 /\ r[i - 1] = q[i]
        BY <1>1, <3>2
      <4>. QED
        BY <1>1, <4>1 DEF Range
    <3>. QED
      BY <3>1, <3>2
  <2>2. \A y \in {Head(q)} \cup Range(r) : y \in Range(q)
    <3>1. \A j \in 1..Len(q) : q[j] \in Range(q)
      BY <1>1 DEF Range
    <3>. QED
      BY <1>1, <1>2, <3>1
  <2>. QED
    BY <2>1, <2>2
<1>4. InOrder(q) => InOrder(r)
  <2>. SUFFICES ASSUME InOrder(q), NEW i \in 1..Len(q) - 1, NEW j \in 1..Len(q) - 1, i < j,
                       log[r[i]] # "progress"
                PROVE  r[i] < r[j]
    BY <1>1 DEF InOrder
  <2>1. i + 1 \in 1..Len(q) /\ j + 1 \in 1..Len(q) /\ i + 1 < j + 1
    BY <1>1
  <2>. QED
    BY <1>1, <2>1 DEF InOrder
<1>5. ASSUME InOrder(q), log[Head(q)] # "progress", NEW i \in Range(r)
      PROVE  Head(q) < i
  <2>1. PICK j \in 2..Len(q) : i = q[j]
    BY <1>2
  <2>2. 1 \in DOMAIN q /\ j \in DOMAIN q /\ 1 < j
    BY <1>1
  <2>. QED
    BY <1>1, <1>5, <2>1, <2>2 DEF InOrder
<1>. QED
  BY <1>1, <1>3, <1>4, <1>5 DEF r, Range

\* An empty sequence has no events.
LEMMA Empty == Range(<<>>) = {} /\ InOrder(<<>>)
BY EmptySeq DEF Range, InOrder

-----------------------------------------------------------------------------
(* What a step does.                                                       *)

\* Whether the loop still has to hand the event it read to s, and who is in
\* the way of it.
Mine(s)  == <<pc[s], critical[s], progress[s], held[s], delivered[s], since[s]>>
Place(s) == <<s \in todo, s \in listeners, s \in stopped>>

\* The log only grows, so what an event is does not change.
LogGrows == \A i \in 1..Len(log) : log'[i] = log[i]

\* The steps of senders and of Shutdown, which leave the subscriptions alone.
Outside == UNCHANGED <<read, todo, drained, listeners, stopped, sub>>

\* They keep the log and whether the channel is closed, once it is.
LEMMA OutsideStep ==
  ASSUME BusInv,
         \/ \E p \in Publishers, k \in Kinds : PubEnter(p, k)
         \/ \E p \in Workers, k \in Kinds : WorkerEnter(p, k)
         \/ \E p \in Senders : SendStep(p)
         \/ ShutCancel \/ ShutClose \/ ShutReturn
         \/ UNCHANGED vars
  PROVE  /\ Outside /\ LogGrows /\ log' \in Seq(Kinds) /\ Len(log) <= Len(log')
         /\ drained => log' = log /\ shut' \in {"closed", "returned"}
<1>. log \in Seq(Kinds) /\ sending \in [Senders -> Kinds \cup {"no"}]
  BY DEF BusInv, BusType, SendInv
<1>. drained => shut \in {"closed", "returned"} /\ InSend = {}
  BY DEF BusInv, DrainOK, SendInv, NoSendOnClosed
<1>1. CASE \E p \in Senders : Accept(p)
  <2>. PICK p \in Senders : Accept(p)
    BY <1>1
  <2>1. sending[p] \in Kinds /\ log' = Append(log, sending[p])
    BY DEF Accept
  <2>2. ~drained
    BY DEF Accept, InSend
  <2>3. log' \in Seq(Kinds) /\ Len(log') = Len(log) + 1 /\ LogGrows
    BY <2>1 DEF LogGrows
  <2>4. Outside
    BY DEF Accept, Outside
  <2>. QED
    BY <2>2, <2>3, <2>4
<1>2. CASE ~\E p \in Senders : Accept(p)
  <2>1. Outside /\ log' = log
    BY <1>2 DEF PubEnter, WorkerEnter, SendStep, GiveUp, ShutCancel, ShutClose, ShutReturn,
       vars, ingress, sub, Outside
  <2>2. drained => shut' \in {"closed", "returned"}
    BY <1>2 DEF PubEnter, WorkerEnter, SendStep, GiveUp, ShutCancel, ShutClose, ShutReturn, vars
  <2>. QED
    BY <2>1, <2>2 DEF LogGrows
<1>. QED
  BY <1>1, <1>2

\* The steps of the loop and of subscriptions leave senders and Shutdown alone.
Inside == UNCHANGED <<log, sending, shut>>

\* What a subscription has is in the log.
LEMMA InLog ==
  ASSUME BusType, NEW s \in Subs, Given(s)
  PROVE  /\ \A i \in Have(s) : i \in 1..Len(log)
         /\ progress[s] # Nothing => progress[s] \in 1..Len(log)
         /\ Have(s) \subseteq Nat /\ read \in Nat /\ Len(log) \in Nat /\ since[s] \in Nat
<1>1. Range(delivered[s]) \subseteq Nat /\ Range(critical[s]) \subseteq Nat
  BY RangeOfSeq DEF BusType
<1>2. read \in Nat /\ Len(log) \in Nat /\ read <= Len(log) /\ since[s] \in Nat
      /\ held[s] \in Nat /\ progress[s] \in Nat
  BY DEF BusType
<1>3. Have(s) \subseteq Nat
  BY <1>1, <1>2 DEF Have, Out
<1>4. \A i \in Have(s) \cup ({progress[s]} \ {Nothing}) : since[s] < i /\ i <= read
  BY DEF Given
<1>5. \A i \in Have(s) : i \in 1..Len(log)
  <2>. TAKE i \in Have(s)
  <2>1. i \in Nat /\ since[s] < i /\ i <= read
    BY <1>3, <1>4
  <2>. QED
    BY <1>2, <2>1
<1>6. progress[s] # Nothing => progress[s] \in 1..Len(log)
  <2>1. progress[s] # Nothing => since[s] < progress[s] /\ progress[s] <= read
    BY <1>4
  <2>. QED
    BY <1>2, <2>1
<1>. QED
  BY <1>2, <1>3, <1>5, <1>6

\* A subscription that a step does not touch stays as good as it was.
LEMMA Untouched ==
  ASSUME BusType, NEW s \in Subs, Good(s), LogGrows,
         UNCHANGED <<read, drained>>, UNCHANGED Mine(s), UNCHANGED Place(s)
  PROVE  Good(s)'
<1>. Given(s) /\ Placed(s) /\ Sorted(s) /\ Ordered(s) /\ Whole(s)
  BY DEF Good
<1>. UNCHANGED <<pc[s], critical[s], progress[s], held[s], delivered[s], since[s]>>
  BY DEF Mine
<1>. /\ s \in todo' <=> s \in todo
     /\ s \in listeners' <=> s \in listeners
     /\ s \in stopped' <=> s \in stopped
  BY DEF Place
<1>1. Out(s)' = Out(s) /\ Have(s)' = Have(s) /\ Got(s)' = Got(s)
  BY DEF Out, Have, Got
<1>2. \A i \in Have(s) : log'[i] = log[i]
  BY InLog DEF LogGrows
<1>3. progress[s] # Nothing => log'[progress[s]] = log[progress[s]]
  BY InLog DEF LogGrows
<1>4. Range(critical[s]) \subseteq Have(s) /\ Range(delivered[s]) \subseteq Have(s)
      /\ Out(s) \subseteq Have(s) /\ Got(s) \subseteq Have(s)
  BY DEF Have, Out, Got
<1>5. Given(s)'
  BY <1>1 DEF Given
<1>6. Placed(s)'
  BY DEF Placed
<1>7. Sorted(s)'
  BY <1>1, <1>2, <1>3, <1>4 DEF Sorted
<1>8. Ordered(s)'
  <2>2. InOrder(delivered[s])' /\ InOrder(critical[s])'
    <3>1. InOrder(delivered[s])'
      BY <1>2, <1>4 DEF Ordered, InOrder, Range
    <3>2. InOrder(critical[s])'
      BY <1>2, <1>4 DEF Ordered, InOrder, Range
    <3>. QED
      BY <3>1, <3>2
  <2>. QED
    BY <1>1, <1>2, <1>4, <2>2 DEF Ordered
<1>9. Whole(s)'
  <2>1. Due(s)' = Due(s)
    <3>1. \A i \in since[s] + 1 .. read : log'[i] = log[i]
      BY DEF LogGrows, BusType
    <3>. QED
      BY <3>1 DEF Due, Owed, Wanted
  <2>. QED
    BY <1>1, <1>2, <1>4, <2>1 DEF Whole
<1>. QED
  BY <1>5, <1>6, <1>7, <1>8, <1>9 DEF Good

-----------------------------------------------------------------------------
(* The steps of the loop.                                                  *)

\* The parts of Good that speak of what s has, when neither that nor the log
\* changes.
Keeps(s) == UNCHANGED <<log, critical[s], progress[s], held[s], delivered[s], since[s]>>

\* They are kept by a step that moves only the other things about.
LEMMA KeepsParts ==
  ASSUME NEW s, Keeps(s), Sorted(s), Ordered(s)
  PROVE  /\ Sorted(s)' /\ Ordered(s)'
         /\ Out(s)' = Out(s) /\ Have(s)' = Have(s) /\ (pc'[s] = pc[s] => Got(s)' = Got(s))
BY DEF Keeps, Sorted, Ordered, InOrder, Out, Have, Got

\* The loop takes an event: what it hands out next is newer than all there is.
LEMMA TakeStep ==
  ASSUME BusInv, LoopTake
  PROVE  Inside /\ BusType' /\ DrainOK' /\ \A s \in Subs : Good(s)'
<1>. BusType /\ DrainOK
  BY DEF BusInv
<1>1. Inside /\ BusType' /\ ~drained /\ DrainOK'
  BY DEF LoopTake, ingress, sub, Inside, BusType, DrainOK
<1>2. ASSUME NEW s \in Subs PROVE Good(s)'
  <2>. Given(s) /\ Placed(s) /\ Sorted(s) /\ Ordered(s) /\ Whole(s)
    BY DEF BusInv, Good
  <2>1. /\ Keeps(s) /\ UNCHANGED <<drained, listeners, stopped, pc>>
        /\ read' = read + 1 /\ todo = {} /\ todo' = listeners
    BY DEF LoopTake, ingress, sub, Keeps
  <2>. /\ Sorted(s)' /\ Ordered(s)'
       /\ Out(s)' = Out(s) /\ Have(s)' = Have(s) /\ Got(s)' = Got(s)
    BY <2>1, KeepsParts
  <2>2. Given(s)'
    <3>1. since[s] < read + 1
      BY InLog DEF Given
    <3>2. \A i \in Have(s) \cup ({progress[s]} \ {Nothing}) :
            since[s] < i /\ i <= read + 1 /\ i < read + 1
      <4>. TAKE i \in Have(s) \cup ({progress[s]} \ {Nothing})
      <4>1. since[s] < i /\ i <= read /\ i \in Nat
        BY InLog DEF Given, BusType
      <4>. QED
        BY <4>1, InLog
    <3>. QED
      BY <2>1, <3>1, <3>2, InLog DEF Given, Keeps
  <2>3. Placed(s)'
    BY <2>1 DEF Placed, Keeps
  <2>4. Whole(s)'
    <3>. SUFFICES ASSUME pc[s] # "off" PROVE Whole(s)'
      BY <2>1 DEF Whole
    <3>1. \A i \in Due(s)' : i \in Due(s) \/ (i = read + 1 /\ s \notin listeners)
      BY <2>1, InLog DEF Due, Owed, Wanted, Keeps
    <3>2. s \notin stopped => s \in listeners
      BY <1>1 DEF Placed
    <3>3. \A i \in Due(s)', j \in Got(s) : i < j => i \in Due(s)
      <4>. TAKE i \in Due(s)', j \in Got(s)
      <4>1. j \in Nat /\ j <= read
        BY InLog DEF Got, Have, Given
      <4>. QED
        BY <3>1, <4>1, InLog
    <3>. QED
      BY <2>1, <3>1, <3>2, <3>3 DEF Whole, Keeps
  <2>. QED
    BY <2>2, <2>3, <2>4 DEF Good
<1>. QED
  BY <1>1, <1>2

\* The loop ends: observers are stopped, and the persistence worker has all.
LEMMA EndStep ==
  ASSUME BusInv, LoopEnd
  PROVE  Inside /\ BusType' /\ DrainOK' /\ \A s \in Subs : Good(s)'
<1>. BusType /\ DrainOK
  BY DEF BusInv
<1>1. Inside /\ BusType' /\ DrainOK'
  BY DEF LoopEnd, ingress, sub, Inside, BusType, DrainOK, Subs
<1>2. ASSUME NEW s \in Subs PROVE Good(s)'
  <2>. Given(s) /\ Placed(s) /\ Sorted(s) /\ Ordered(s) /\ Whole(s)
    BY DEF BusInv, Good
  <2>1. /\ Keeps(s) /\ UNCHANGED <<read, todo, pc>>
        /\ todo = {} /\ listeners' = {} /\ drained' = TRUE
        /\ stopped \subseteq stopped' /\ stopped' \subseteq stopped \cup listeners
    BY DEF LoopEnd, ingress, sub, Keeps
  <2>. /\ Sorted(s)' /\ Ordered(s)'
       /\ Out(s)' = Out(s) /\ Have(s)' = Have(s) /\ Got(s)' = Got(s)
    BY <2>1, KeepsParts
  <2>2. Given(s)'
    BY <2>1 DEF Given, Keeps
  <2>3. Placed(s)'
    BY <2>1 DEF Placed, Keeps
  <2>4. Due(s)' = Due(s)
    BY <2>1 DEF Due, Owed, Wanted, Keeps
  <2>5. Whole(s)'
    BY <2>1, <2>4 DEF Whole, Keeps
  <2>. QED
    BY <2>2, <2>3, <2>5 DEF Good
<1>. QED
  BY <1>1, <1>2

\* Handing the event on to s does nothing to the others, and to the places of
\* s only that it has been served, if it has not been refused.
LEMMA Hands ==
  ASSUME BusInv, NEW s \in Subs, Enqueue(s)
  PROVE  /\ Inside /\ BusType' /\ DrainOK' /\ UNCHANGED <<read, drained, pc, held, delivered, since>>
         /\ s \in todo /\ s \notin todo' /\ pc[s] # "off" /\ ~drained
         /\ \A x \in Subs \ {s} : UNCHANGED Mine(x) /\ UNCHANGED Place(x)
<1>. BusType /\ DrainOK /\ Placed(s)
  BY DEF BusInv, Good
<1>1. s \in todo /\ Enqueued(s)
  BY DEF Enqueue, EnqueueDone, EnqueueStore, EnqueueProgress, EnqueueLifecycle
<1>2. /\ UNCHANGED <<critical, progress>>
      \/ /\ critical' = [critical EXCEPT ![s] = Append(@, read)] /\ progress' = progress
      \/ /\ progress' = [progress EXCEPT ![s] = read] /\ critical' = critical
      \/ /\ progress' = [progress EXCEPT ![s] = Nothing]
         /\ critical' = critical \/ critical' = [critical EXCEPT ![s] = Append(@, read)]
  BY DEF Enqueue, EnqueueDone, EnqueueStore, EnqueueProgress, EnqueueLifecycle
<1>3. UNCHANGED <<listeners, stopped>> \/ Refused(s)
  BY DEF Enqueue, EnqueueDone, EnqueueStore, EnqueueProgress, EnqueueLifecycle
<1>4. Inside /\ UNCHANGED <<read, drained, pc, held, delivered, since>> /\ todo' = todo \ {s}
  BY <1>1 DEF Enqueued, Inside, ingress
<1>5. critical' \in [Subs -> Seq(Nat)] /\ progress' \in [Subs -> Nat]
  <2>1. Append(critical[s], read) \in Seq(Nat) /\ read \in Nat
    BY DEF BusType
  <2>2. critical' = critical \/ critical' = [critical EXCEPT ![s] = Append(critical[s], read)]
    BY <1>2
  <2>3. progress' = progress \/ progress' = [progress EXCEPT ![s] = read]
        \/ progress' = [progress EXCEPT ![s] = 0]
    BY <1>2 DEF Nothing
  <2>4. critical \in [Subs -> Seq(Nat)] /\ progress \in [Subs -> Nat]
    BY DEF BusType
  <2>5. critical' \in [Subs -> Seq(Nat)]
    BY ONLY <2>1, <2>2, <2>4
  <2>6. progress' \in [Subs -> Nat]
    BY ONLY <2>1, <2>3, <2>4
  <2>. QED
    BY <2>5, <2>6
<1>6. listeners' \subseteq listeners /\ stopped' \subseteq stopped \cup {s}
      /\ (\A x \in Subs \ {s} : (x \in listeners' <=> x \in listeners)
                                /\ (x \in stopped' <=> x \in stopped))
  BY <1>3 DEF Refused
<1>7. \A x \in Subs \ {s} : critical'[x] = critical[x] /\ progress'[x] = progress[x]
  BY <1>2 DEF BusType
<1>8. BusType'
  BY <1>4, <1>5, <1>6 DEF BusType, Inside
<1>9. pc[s] # "off" /\ ~drained /\ DrainOK'
  BY <1>1, <1>4 DEF Placed, DrainOK
<1>. QED
  BY <1>1, <1>4, <1>6, <1>7, <1>8, <1>9 DEF Mine, Place

\* The event is news to s, and s has been served.
LEMMA Fresh ==
  ASSUME BusType, NEW s \in Subs, Given(s), s \in todo
  PROVE  /\ \A i \in Have(s) \cup ({progress[s]} \ {Nothing}) : i < read
         /\ read \in Nat /\ since[s] < read /\ read # Nothing /\ log[read] \in Kinds
<1>1. since[s] \in Nat /\ read \in Nat /\ read <= Len(log) /\ Len(log) \in Nat
  BY DEF BusType
<1>2. since[s] < read
  BY DEF Given
<1>3. read \in 1..Len(log)
  BY <1>1, <1>2
<1>. QED
  BY <1>1, <1>2, <1>3 DEF Given, BusType, Nothing

\* Due after the event has been handed to s.
LEMMA Served ==
  ASSUME BusType, NEW s \in Subs, Given(s), s \in todo, s \notin todo',
         UNCHANGED <<log, read, since>>
  PROVE  /\ log[read] \in Wanted(s) => Due(s)' = Due(s) \cup {read}
         /\ log[read] \notin Wanted(s) => Due(s)' = Due(s)
<1>. read \in Nat /\ since[s] \in Nat /\ since[s] < read
  BY Fresh DEF BusType
<1>1. \A i : i \in Due(s)' <=> i \in since[s] + 1 .. read /\ log[i] \in Wanted(s)
  BY DEF Due, Owed, Wanted
<1>2. \A i : i \in Due(s) <=> i \in since[s] + 1 .. read /\ log[i] \in Wanted(s) /\ i # read
  BY DEF Due, Owed
<1>3. read \in since[s] + 1 .. read
  OBVIOUS
<1>. QED
  BY <1>1, <1>2, <1>3

\* A subscription that is done is passed over.
LEMMA DoneGood ==
  ASSUME BusInv, NEW s \in Subs, EnqueueDone(s)
  PROVE  Good(s)'
<1>. BusType /\ Given(s) /\ Placed(s) /\ Sorted(s) /\ Ordered(s) /\ Whole(s)
  BY DEF BusInv, Good
<1>1. /\ Keeps(s) /\ UNCHANGED <<read, pc, drained>>
      /\ s \in todo /\ s \notin todo' /\ s \in stopped /\ s \in stopped'
  BY DEF EnqueueDone, Enqueued, Refused, ingress, Keeps
<1>. /\ Sorted(s)' /\ Ordered(s)'
     /\ Out(s)' = Out(s) /\ Have(s)' = Have(s) /\ Got(s)' = Got(s)
  BY <1>1, KeepsParts
<1>2. Given(s)'
  BY <1>1 DEF Given, Keeps
<1>3. Placed(s)'
  BY <1>1 DEF Placed, Keeps
<1>4. Whole(s)'
  <2>1. UNCHANGED <<log, read, since>>
    BY DEF EnqueueDone, Enqueued, ingress
  <2>2. \A i \in Due(s)' : i \in Due(s) \/ i = read
    BY <1>1, <2>1, Served
  <2>3. \A j \in Got(s) : j < read
    BY <1>1, Fresh DEF Got, Have
  <2>4. \A i \in Due(s)', j \in Got(s) : i < j => i \in Due(s)
    <3>. TAKE i \in Due(s)', j \in Got(s)
    <3>1. j \in Nat /\ read \in Nat /\ j < read
      BY <2>3, InLog DEF Got, Have
    <3>. QED
      BY <2>2, <3>1
  <2>. QED
    BY <1>1, <2>1, <2>4 DEF Whole
<1>. QED
  BY <1>2, <1>3, <1>4 DEF Good

\* What becomes of s when the event is queued for it.
Queues(s) ==
  /\ UNCHANGED <<log, read, since, pc, drained, held, delivered, listeners, stopped>>
  /\ s \in todo /\ s \notin todo' /\ s \notin stopped
  /\ critical'[s] = Append(critical[s], read)
  /\ progress'[s] = Nothing

\* An event that is queued is the last of all there are.
LEMMA QueuesGood ==
  ASSUME BusInv, NEW s \in Subs, Queues(s), log[read] \in Wanted(s)
  PROVE  Good(s)'
<1>. BusType /\ DrainOK /\ Given(s) /\ Placed(s) /\ Sorted(s) /\ Ordered(s) /\ Whole(s)
  BY DEF BusInv, Good
<1>1. s \in todo /\ s \notin todo' /\ pc[s] # "off" /\ pc[s] # "ended"
  BY DEF Queues, Placed, DrainOK
<1>2. /\ read \in Nat /\ since[s] < read /\ read # Nothing
      /\ \A i \in Have(s) : i < read
  BY <1>1, Fresh
<1>3. log[read] # "progress" /\ (s = Store => log[read] = "persist")
  BY DEF Wanted
<1>4. critical[s] \in Seq(Nat) /\ Range(critical[s]) \subseteq Have(s)
      /\ Range(delivered[s]) \subseteq Have(s) /\ Out(s) \subseteq Have(s)
  BY DEF BusType, Have, Out
<1>5. Range(critical'[s]) = Range(critical[s]) \cup {read}
  BY <1>2, <1>4, Appended DEF Queues
<1>6. InOrder(critical'[s])
  BY <1>2, <1>4, Appended DEF Queues, Ordered
<1>7. Out(s)' = Out(s) /\ Have(s)' = Have(s) \cup {read} /\ Got(s)' = Got(s) \cup {read}
  BY <1>1, <1>5 DEF Queues, Out, Have, Got
<1>8. Given(s)'
  BY <1>1, <1>2, <1>7 DEF Given, Queues
<1>9. Placed(s)'
  BY <1>1 DEF Placed, Queues
<1>10. Sorted(s)'
  BY <1>3, <1>5, <1>7 DEF Sorted, Queues
<1>11. Ordered(s)'
  <2>1. InOrder(delivered[s])' /\ InOrder(critical[s])'
    BY <1>6 DEF Ordered, Queues, InOrder
  <2>2. \A i \in Out(s), j \in Range(critical[s]) \cup {read} : log[i] # "progress" => i < j
    BY <1>2, <1>4 DEF Ordered
  <2>. QED
    BY <1>5, <1>7, <2>1, <2>2 DEF Ordered, Queues
<1>12. Whole(s)'
  <2>1. Due(s)' = Due(s) \cup {read}
    BY <1>1, Served DEF Queues
  <2>2. s \notin stopped /\ Due(s) \subseteq Got(s)
    BY <1>1 DEF Whole, Queues
  <2>. QED
    BY <1>7, <2>1, <2>2 DEF Whole
<1>. QED
  BY <1>8, <1>9, <1>10, <1>11, <1>12 DEF Good

\* What becomes of s when nothing is queued: progress replaces what was
\* pending, or is cleared, or an event is not for s.
Skips(s) ==
  /\ UNCHANGED <<log, read, since, pc, drained, held, delivered>>
  /\ s \in todo /\ s \notin todo'
  /\ critical'[s] = critical[s]
  /\ \/ progress'[s] = progress[s]
     \/ progress'[s] = Nothing
     \/ progress'[s] = read /\ log[read] = "progress" /\ s # Store
  /\ \/ UNCHANGED <<listeners, stopped>> /\ log[read] \notin Wanted(s)
     \/ s \in stopped'

\* An event that is not queued is not owed, or s is told to stop.
LEMMA SkipsGood ==
  ASSUME BusInv, NEW s \in Subs, Skips(s)
  PROVE  Good(s)'
<1>. BusType /\ Given(s) /\ Placed(s) /\ Sorted(s) /\ Ordered(s) /\ Whole(s)
  BY DEF BusInv, Good
<1>1. s \in todo /\ s \notin todo' /\ pc[s] # "off"
  BY DEF Skips, Placed
<1>2. /\ read \in Nat /\ since[s] < read /\ read # Nothing
      /\ \A i \in Have(s) \cup ({progress[s]} \ {Nothing}) : i < read
  BY <1>1, Fresh
<1>3. Out(s)' = Out(s) /\ Have(s)' = Have(s) /\ Got(s)' = Got(s)
      /\ Range(critical[s])' = Range(critical[s])
  BY DEF Skips, Out, Have, Got
<1>4. Given(s)'
  BY <1>1, <1>2, <1>3 DEF Given, Skips
<1>5. Placed(s)'
  BY <1>1 DEF Placed, Skips
<1>6. Sorted(s)'
  BY <1>3 DEF Sorted, Skips
<1>7. Ordered(s)'
  <2>1. InOrder(delivered[s])' /\ InOrder(critical[s])'
    BY DEF Ordered, Skips, InOrder
  <2>2. progress'[s] # Nothing => \A i \in Have(s) : log[i] # "progress" => i < progress'[s]
    BY <1>2 DEF Ordered, Skips
  <2>. QED
    BY <1>3, <2>1, <2>2 DEF Ordered, Skips
<1>8. Whole(s)'
  <2>1. \A i \in Due(s)' : i \in Due(s) \/ (i = read /\ s \in stopped')
    BY <1>1, Served DEF Skips
  <2>2. \A i \in Due(s)', j \in Got(s) : i < j => i \in Due(s)
    <3>. TAKE i \in Due(s)', j \in Got(s)
    <3>1. j \in Nat /\ read \in Nat /\ j < read
      BY <1>2, InLog DEF Got, Have
    <3>. QED
      BY <2>1, <3>1
  <2>3. s \notin stopped' => s \notin stopped
    BY DEF Skips
  <2>. QED
    BY <1>3, <2>1, <2>2, <2>3 DEF Whole, Skips
<1>. QED
  BY <1>4, <1>5, <1>6, <1>7, <1>8 DEF Good

\* Handing on an event keeps the subscription good.
LEMMA EnqueueGood ==
  ASSUME BusInv, NEW s \in Subs, Enqueue(s)
  PROVE  Good(s)'
<1>. BusType /\ Given(s) /\ Sorted(s) /\ critical \in [Subs -> Seq(Nat)]
     /\ progress \in [Subs -> Nat]
  BY DEF BusInv, Good, BusType
<1>1. CASE EnqueueDone(s)
  BY <1>1, DoneGood
<1>2. ASSUME ~EnqueueDone(s) PROVE Good(s)'
  <2>1. /\ UNCHANGED <<log, read, since, pc, drained, held, delivered>>
        /\ s \in todo /\ s \notin todo' /\ s \notin stopped /\ log[read] \in Kinds
    <3>1. s \in todo /\ s \notin stopped
      BY <1>2 DEF Enqueue, EnqueueStore, EnqueueProgress, EnqueueLifecycle
    <3>. QED
      BY <3>1, Hands, Fresh DEF Inside
  <2>2. CASE s = Store /\ EnqueueStore
    <3>1. progress'[s] = Nothing /\ progress' = progress /\ UNCHANGED <<listeners, stopped>>
      BY <2>2 DEF EnqueueStore, Sorted
    <3>2. CASE log[read] = "persist"
      <4>1. critical'[s] = Append(critical[s], read)
        BY <2>2, <3>2 DEF EnqueueStore
      <4>. QED
        BY <2>1, <2>2, <3>1, <3>2, <4>1, QueuesGood DEF Queues, Wanted
    <3>3. CASE log[read] # "persist"
      <4>1. critical'[s] = critical[s]
        BY <2>2, <3>3 DEF EnqueueStore
      <4>. QED
        BY <2>1, <2>2, <3>1, <3>3, <4>1, SkipsGood DEF Skips, Wanted
    <3>. QED
      BY <3>2, <3>3
  <2>3. CASE EnqueueProgress(s)
    <3>1. s # Store /\ log[read] = "progress"
      BY <2>3, BusAssumption DEF EnqueueProgress
    <3>2. progress'[s] = read /\ critical'[s] = critical[s] /\ UNCHANGED <<listeners, stopped>>
      BY <2>3 DEF EnqueueProgress
    <3>. QED
      BY <2>1, <3>1, <3>2, SkipsGood DEF Skips, Wanted
  <2>4. CASE EnqueueLifecycle(s)
    <3>1. s # Store /\ log[read] # "progress" /\ progress'[s] = Nothing
      BY <2>4, BusAssumption DEF EnqueueLifecycle
    <3>2. log[read] \in Wanted(s)
      BY <2>1, <3>1 DEF Kinds, Wanted
    <3>3. CASE Refused(s) /\ UNCHANGED critical
      <4>1. s \in stopped' /\ critical'[s] = critical[s]
        BY <3>3 DEF Refused
      <4>. QED
        BY <2>1, <3>1, <4>1, SkipsGood DEF Skips
    <3>4. CASE critical' = [critical EXCEPT ![s] = Append(@, read)] /\ UNCHANGED <<listeners, stopped>>
      <4>1. critical'[s] = Append(critical[s], read)
        BY <3>4
      <4>. QED
        BY <2>1, <3>1, <3>2, <3>4, <4>1, QueuesGood DEF Queues
    <3>. QED
      BY <2>4, <3>3, <3>4 DEF EnqueueLifecycle
  <2>. QED
    BY <1>2, <2>2, <2>3, <2>4 DEF Enqueue
<1>. QED
  BY <1>1, <1>2

-----------------------------------------------------------------------------
(* The steps of the subscriptions.                                         *)

\* Of the step of one subscription the others notice nothing, the loop goes on
\* as before, and no event moves back to it.
LEMMA Alone ==
  ASSUME BusInv, NEW s \in Subs, Subscribe(s) \/ Cleanup(s) \/ RunStep(s) \/ Deliver(s)
  PROVE  /\ Inside /\ BusType' /\ DrainOK' /\ UNCHANGED <<read, todo, drained>>
         /\ \A x \in Subs \ {s} : UNCHANGED Mine(x) /\ UNCHANGED Place(x)
<1>. BusType /\ DrainOK /\ SendInv
  BY DEF BusInv
<1>t. critical \in [Subs -> Seq(Nat)] /\ delivered \in [Subs -> Seq(Nat)]
     /\ progress \in [Subs -> Nat] /\ held \in [Subs -> Nat] /\ since \in [Subs -> Nat]
     /\ read \in Nat /\ pc \in [Subs -> {"off", "top", "second", "hold", "ended"}]
     /\ listeners \subseteq Subs /\ stopped \subseteq Subs
  BY DEF BusType
<1>. USE <1>t DEF Elsewhere, ingress, sub, Inside, Mine, Place, Nothing
<1>0. (/\ Inside /\ UNCHANGED <<read, todo, drained>>
       /\ listeners' \subseteq Subs /\ stopped' \subseteq Subs
       /\ pc' \in [Subs -> {"off", "top", "second", "hold", "ended"}]
       /\ critical' \in [Subs -> Seq(Nat)] /\ delivered' \in [Subs -> Seq(Nat)]
       /\ progress' \in [Subs -> Nat] /\ held' \in [Subs -> Nat] /\ since' \in [Subs -> Nat])
      => BusType'
  BY DEF BusType
<1>00. Inside /\ UNCHANGED <<read, todo, drained>> /\ (drained => listeners' = {}) => DrainOK'
  BY DEF DrainOK
<1>000. (drained => listeners = {} /\ shut # "no")
  BY DEF DrainOK
<1>1. CASE Subscribe(s)
  <2>1. since' \in [Subs -> Nat] /\ pc' \in [Subs -> {"off", "top", "second", "hold", "ended"}]
    BY <1>1 DEF Subscribe
  <2>2. listeners' = listeners \cup {s} /\ UNCHANGED <<stopped, critical, progress, held, delivered>>
        /\ Inside /\ UNCHANGED <<read, todo, drained>> /\ shut = "no"
        /\ (\A x \in Subs \ {s} : pc'[x] = pc[x] /\ since'[x] = since[x])
    BY <1>1 DEF Subscribe
  <2>. QED
    BY <2>1, <2>2, <1>0, <1>00, <1>000
<1>2. CASE Cleanup(s)
  <2>1. /\ listeners' = listeners \ {s} /\ stopped' = stopped \cup {s}
        /\ UNCHANGED <<pc, critical, progress, held, delivered, since>>
        /\ Inside /\ UNCHANGED <<read, todo, drained>>
    BY <1>2 DEF Cleanup
  <2>. QED
    BY <2>1, <1>0, <1>00, <1>000
<1>3. CASE RunStep(s) \/ Deliver(s)
  <2>1. UNCHANGED <<listeners, stopped, since, log, sending, shut, read, todo, drained>>
    BY <1>3, Zenon DEF RunStep, RunDone, RunClosed, RunCritical, RunIdle, RunProgress, Deliver
  <2>2. \/ critical' = critical
        \/ critical[s] # <<>> /\ critical' = [critical EXCEPT ![s] = Tail(critical[s])]
    <3>1. CASE RunCritical(s)
      BY <3>1 DEF RunCritical
    <3>2. CASE ~RunCritical(s)
      BY <1>3, <3>2, Zenon DEF RunStep, RunDone, RunClosed, RunIdle, RunProgress, Deliver
    <3>. QED
      BY <3>1, <3>2
  <2>3. progress' = progress \/ progress' = [progress EXCEPT ![s] = 0]
    BY <1>3 DEF RunStep, RunDone, RunClosed, RunCritical, RunIdle, RunProgress, Deliver
  <2>4. \/ held' = held \/ held' = [held EXCEPT ![s] = 0]
        \/ critical[s] # <<>> /\ held' = [held EXCEPT ![s] = Head(critical[s])]
        \/ held' = [held EXCEPT ![s] = progress[s]]
    BY <1>3 DEF RunStep, RunDone, RunClosed, RunCritical, RunIdle, RunProgress, Deliver
  <2>5. delivered' = delivered
        \/ delivered' = [delivered EXCEPT ![s] = Append(delivered[s], held[s])]
    BY <1>3 DEF RunStep, RunDone, RunClosed, RunCritical, RunIdle, RunProgress, Deliver
  <2>6. \/ pc' = [pc EXCEPT ![s] = "ended"] \/ pc' = [pc EXCEPT ![s] = "hold"]
        \/ pc' = [pc EXCEPT ![s] = "second"] \/ pc' = [pc EXCEPT ![s] = "top"]
    BY <1>3 DEF RunStep, RunDone, RunClosed, RunCritical, RunIdle, RunProgress, Deliver
  <2>7. critical[s] # <<>> => Head(critical[s]) \in Nat /\ Tail(critical[s]) \in Seq(Nat)
    BY HeadTailProperties
  <2>8. pc' \in [Subs -> {"off", "top", "second", "hold", "ended"}]
        /\ \A x \in Subs \ {s} : pc'[x] = pc[x]
    BY ONLY <2>6, <1>t
  <2>9. critical' \in [Subs -> Seq(Nat)] /\ \A x \in Subs \ {s} : critical'[x] = critical[x]
    BY ONLY <2>2, <2>7, <1>t
  <2>10. progress' \in [Subs -> Nat] /\ \A x \in Subs \ {s} : progress'[x] = progress[x]
    <3>1. PICK v \in Nat : progress' = progress \/ progress' = [progress EXCEPT ![s] = v]
      BY <2>3
    <3>. QED
      BY ONLY <3>1, <1>t
  <2>11. held' \in [Subs -> Nat] /\ \A x \in Subs \ {s} : held'[x] = held[x]
    <3>1. progress[s] \in Nat
      OBVIOUS
    <3>2. PICK v \in Nat : held' = held \/ held' = [held EXCEPT ![s] = v]
      BY <2>4, <2>7, <3>1
    <3>. QED
      BY ONLY <3>2, <1>t
  <2>12. delivered' \in [Subs -> Seq(Nat)] /\ \A x \in Subs \ {s} : delivered'[x] = delivered[x]
    <3>1. Append(delivered[s], held[s]) \in Seq(Nat)
      OBVIOUS
    <3>. QED
      BY ONLY <2>5, <3>1, <1>t
  <2>13. BusType'
    BY <2>1, <2>8, <2>9, <2>10, <2>11, <2>12, <1>0
  <2>14. DrainOK'
    BY <2>1, <1>00, <1>000
  <2>. QED
    BY <2>1, <2>8, <2>9, <2>10, <2>11, <2>12, <2>13, <2>14
<1>. QED
  BY <1>1, <1>2, <1>3

\* A new subscription has nothing and is owed nothing.
LEMMA SubscribeGood ==
  ASSUME BusInv, NEW s \in Subs, Subscribe(s)
  PROVE  Good(s)'
<1>. BusType /\ Given(s) /\ Placed(s) /\ Sorted(s) /\ Ordered(s) /\ Whole(s)
  BY DEF BusInv, Good
<1>1. /\ pc[s] = "off" /\ pc'[s] = "top" /\ since'[s] = read /\ s \in listeners'
      /\ UNCHANGED <<log, critical[s], progress[s], held[s], delivered[s]>>
      /\ UNCHANGED <<read, todo, drained, stopped>>
  BY DEF Subscribe, Elsewhere, ingress, BusType
<1>2. critical'[s] = <<>> /\ delivered'[s] = <<>> /\ progress'[s] = Nothing
      /\ held'[s] = Nothing /\ s \notin todo' /\ s \notin stopped'
  BY <1>1 DEF Placed
<1>3. Have(s)' = {} /\ Out(s)' = {} /\ Got(s)' = {}
  BY <1>2, Empty DEF Have, Out, Got
<1>4. Given(s)'
  BY <1>1, <1>2, <1>3 DEF Given, BusType
<1>5. Placed(s)'
  BY <1>1, <1>2 DEF Placed
<1>6. Sorted(s)'
  BY <1>2, <1>3, Empty DEF Sorted
<1>7. Ordered(s)'
  BY <1>2, <1>3, Empty DEF Ordered, InOrder
<1>8. Whole(s)'
  <2>1. Due(s)' = {}
    BY <1>1 DEF Due, Owed, BusType
  <2>. QED
    BY <1>3, <2>1 DEF Whole
<1>. QED
  BY <1>4, <1>5, <1>6, <1>7, <1>8 DEF Good

\* A subscription that leaves keeps what it has.
LEMMA CleanupGood ==
  ASSUME BusInv, NEW s \in Subs, Cleanup(s)
  PROVE  Good(s)'
<1>. BusType /\ Given(s) /\ Placed(s) /\ Sorted(s) /\ Ordered(s) /\ Whole(s)
  BY DEF BusInv, Good
<1>1. /\ Keeps(s) /\ UNCHANGED <<read, todo, drained, pc>>
      /\ pc[s] # "off" /\ s \in stopped'
  BY DEF Cleanup, Elsewhere, ingress, sub, Keeps
<1>. /\ Sorted(s)' /\ Ordered(s)'
     /\ Out(s)' = Out(s) /\ Have(s)' = Have(s) /\ Got(s)' = Got(s)
  BY <1>1, KeepsParts
<1>2. Given(s)' /\ Placed(s)'
  BY <1>1 DEF Given, Placed, Keeps
<1>3. Due(s)' = Due(s)
  BY <1>1 DEF Due, Owed, Keeps
<1>4. Whole(s)'
  BY <1>1, <1>3 DEF Whole, Keeps
<1>. QED
  BY <1>2, <1>4 DEF Good

\* What the steps of a run leave as it is.
Runs(s) == UNCHANGED <<log, read, since, todo, drained, listeners, stopped>>

\* Then the same is owed.
LEMMA RunsOwe ==
  ASSUME NEW s, Runs(s)
  PROVE  Due(s)' = Due(s)
BY DEF Runs, Due, Owed

\* A run that ends on done closed loses the newest it has.
LEMMA RunDoneGood ==
  ASSUME BusInv, NEW s \in Subs, RunDone(s)
  PROVE  Good(s)'
<1>. BusType /\ Given(s) /\ Placed(s) /\ Sorted(s) /\ Ordered(s) /\ Whole(s)
  BY DEF BusInv, Good
<1>1. /\ Runs(s) /\ UNCHANGED <<critical[s], progress[s], delivered[s]>>
      /\ held'[s] = Nothing /\ pc'[s] = "ended" /\ pc[s] \in {"top", "second", "hold"}
      /\ s \in stopped
  BY DEF RunDone, Elsewhere, ingress, Runs, BusType
<1>2. /\ Out(s)' = Range(delivered[s]) /\ Got(s)' = Range(delivered[s])
      /\ Have(s)' = Range(delivered[s]) \cup Range(critical[s])
      /\ Have(s)' \subseteq Have(s) /\ Out(s)' \subseteq Out(s)
  BY <1>1 DEF Out, Have, Got
<1>3. Given(s)' /\ Placed(s)'
  BY <1>1, <1>2 DEF Given, Placed, Runs
<1>4. Sorted(s)'
  BY <1>1, <1>2 DEF Sorted, Runs
<1>5. Ordered(s)'
  <2>1. InOrder(delivered[s])' /\ InOrder(critical[s])'
    BY <1>1 DEF Ordered, Runs, InOrder
  <2>. QED
    BY <1>1, <1>2, <2>1 DEF Ordered, Runs
<1>6. Whole(s)'
  <2>. SUFFICES ASSUME NEW i \in Due(s), NEW j \in Range(delivered[s]),
                       log[j] # "progress", i < j
                PROVE  i \in Range(delivered[s])
    BY <1>1, <1>2, RunsOwe DEF Whole, Runs
  <2>1. i \in Got(s) /\ j \in Out(s)
    BY <1>1 DEF Whole, Got, Out
  <2>2. i \in Nat /\ j \in Nat
    BY <2>1, InLog DEF Got, Have
  <2>3. i # held[s] \/ held[s] = Nothing
    BY <2>2 DEF Ordered
  <2>4. i \notin Range(critical[s])
    BY <2>1, <2>2 DEF Ordered
  <2>. QED
    BY <1>1, <2>1, <2>3, <2>4 DEF Got, Out
<1>. QED
  BY <1>3, <1>4, <1>5, <1>6 DEF Good

\* The persistence worker's run ends when everything has been handed out, and
\* a run that finds no lifecycle event goes on to the second select.
LEMMA RunWaitsGood ==
  ASSUME BusInv, NEW s \in Subs, RunClosed(s) \/ RunIdle(s)
  PROVE  Good(s)'
<1>. BusType /\ Given(s) /\ Placed(s) /\ Sorted(s) /\ Ordered(s) /\ Whole(s)
  BY DEF BusInv, Good
<1>1. /\ Runs(s) /\ Keeps(s) /\ pc[s] \in {"top", "second"}
      /\ critical[s] = <<>> /\ pc'[s] \in {"second", "ended"}
      /\ pc'[s] = "ended" => drained
  BY DEF RunClosed, RunIdle, Elsewhere, ingress, Runs, Keeps, BusType
<1>. Sorted(s)' /\ Ordered(s)' /\ Out(s)' = Out(s) /\ Have(s)' = Have(s)
  BY <1>1, KeepsParts
<1>2. Got(s)' = Got(s)
  BY <1>1, Empty DEF Got, Keeps
<1>3. Given(s)' /\ Placed(s)'
  BY <1>1 DEF Given, Placed, Runs, Keeps
<1>4. Whole(s)'
  BY <1>1, <1>2, RunsOwe DEF Whole, Runs
<1>. QED
  BY <1>3, <1>4 DEF Good

\* The first of the queue comes into hand.
LEMMA RunCriticalGood ==
  ASSUME BusInv, NEW s \in Subs, RunCritical(s)
  PROVE  Good(s)'
<1>. BusType /\ Given(s) /\ Placed(s) /\ Sorted(s) /\ Ordered(s) /\ Whole(s)
  BY DEF BusInv, Good
<1>. DEFINE h == Head(critical[s])
<1>1. /\ Runs(s) /\ UNCHANGED <<progress[s], delivered[s]>>
      /\ pc[s] \in {"top", "second"} /\ critical[s] # <<>> /\ pc'[s] = "hold"
      /\ held'[s] = h /\ critical'[s] = Tail(critical[s])
  BY DEF RunCritical, Elsewhere, ingress, Runs, BusType
<1>2. critical[s] \in Seq(Nat) /\ held[s] = Nothing
  BY <1>1 DEF BusType, Placed
<1>3. /\ h \in Range(critical[s]) /\ Range(critical[s]) = {h} \cup Range(critical'[s])
      /\ InOrder(critical'[s]) /\ \A i \in Range(critical'[s]) : h < i
  <2>1. h \in Range(critical[s])
    BY <1>1, <1>2, Taken
  <2>2. log[h] # "progress" /\ InOrder(critical[s])
    BY <2>1 DEF Sorted, Ordered
  <2>. QED
    BY <1>1, <1>2, <2>2, Taken
<1>4. h \in Have(s) /\ h # Nothing
  BY <1>3, InLog DEF Have, Nothing
<1>. HIDE DEF h
<1>5. /\ Out(s) = Range(delivered[s]) /\ Out(s)' = Range(delivered[s]) \cup {h}
      /\ Have(s)' = Have(s) /\ Got(s)' = Got(s)
  BY <1>1, <1>2, <1>3, <1>4 DEF Out, Have, Got
<1>6. Given(s)' /\ Placed(s)'
  BY <1>1, <1>4, <1>5 DEF Given, Placed, Runs
<1>7. Sorted(s)'
  BY <1>1, <1>3, <1>5 DEF Sorted, Runs
<1>8. Ordered(s)'
  <2>1. InOrder(delivered[s])' /\ InOrder(critical[s])'
    BY <1>1, <1>3 DEF Ordered, Runs, InOrder
  <2>2. \A i \in Range(delivered[s]) : log[i] # "progress" => i < h
    BY <1>3, <1>5 DEF Ordered
  <2>3. \A i \in Range(delivered[s]) \cup {h}, j \in Range(critical'[s]) :
          log[i] # "progress" => i < j
    BY <1>3, <1>5 DEF Ordered
  <2>. QED
    BY <1>1, <1>5, <2>1, <2>2, <2>3 DEF Ordered, Runs
<1>9. Whole(s)'
  BY <1>1, <1>5, RunsOwe DEF Whole, Runs
<1>. QED
  BY <1>6, <1>7, <1>8, <1>9 DEF Good

\* The pending progress comes into hand: it is newer than every lifecycle event
\* that was handed out.
LEMMA RunProgressGood ==
  ASSUME BusInv, NEW s \in Subs, RunProgress(s)
  PROVE  Good(s)'
<1>. BusType /\ Given(s) /\ Placed(s) /\ Sorted(s) /\ Ordered(s) /\ Whole(s)
  BY DEF BusInv, Good
<1>. DEFINE h == progress[s]
<1>1. /\ Runs(s) /\ UNCHANGED <<critical[s], delivered[s]>>
      /\ pc[s] = "second" /\ h # Nothing /\ pc'[s] = "hold"
      /\ held'[s] = h /\ progress'[s] = Nothing
  BY DEF RunProgress, Elsewhere, ingress, Runs, BusType
<1>2. held[s] = Nothing /\ s # Store /\ log[h] = "progress"
  BY <1>1 DEF Placed, Sorted
<1>3. /\ Out(s) = Range(delivered[s]) /\ Out(s)' = Range(delivered[s]) \cup {h}
      /\ Have(s)' = Have(s) \cup {h} /\ Got(s)' = Got(s) \cup {h}
  BY <1>1, <1>2 DEF Out, Have, Got
<1>4. Given(s)' /\ Placed(s)'
  BY <1>1, <1>3 DEF Given, Placed, Runs
<1>5. Sorted(s)'
  BY <1>1, <1>2 DEF Sorted, Runs
<1>6. Ordered(s)'
  <2>1. InOrder(delivered[s])' /\ InOrder(critical[s])'
    BY <1>1 DEF Ordered, Runs, InOrder
  <2>2. \A i \in Range(delivered[s]) : log[i] # "progress" => i < h
    BY <1>1, <1>3 DEF Ordered, Have
  <2>. QED
    BY <1>1, <1>2, <1>3, <2>1, <2>2 DEF Ordered, Runs
<1>7. Whole(s)'
  BY <1>1, <1>2, <1>3, RunsOwe DEF Whole, Runs
<1>. QED
  BY <1>4, <1>5, <1>6, <1>7 DEF Good

\* The consumer takes what is in hand.
LEMMA DeliverGood ==
  ASSUME BusInv, NEW s \in Subs, Deliver(s)
  PROVE  Good(s)'
<1>. BusType /\ Given(s) /\ Placed(s) /\ Sorted(s) /\ Ordered(s) /\ Whole(s)
  BY DEF BusInv, Good
<1>1. /\ Runs(s) /\ UNCHANGED <<critical[s], progress[s]>>
      /\ pc[s] = "hold" /\ pc'[s] = "top" /\ held'[s] = Nothing
      /\ delivered'[s] = Append(delivered[s], held[s])
  BY DEF Deliver, Elsewhere, ingress, Runs, BusType
<1>2. held[s] # Nothing /\ held[s] \in Nat /\ delivered[s] \in Seq(Nat)
  BY <1>1 DEF Placed, BusType
<1>3. /\ Range(delivered'[s]) = Range(delivered[s]) \cup {held[s]}
      /\ InOrder(delivered'[s])
  BY <1>1, <1>2, Appended DEF Ordered
<1>4. Out(s)' = Out(s) /\ Have(s)' = Have(s) /\ Got(s)' = Got(s)
  BY <1>1, <1>2, <1>3 DEF Out, Have, Got
<1>5. Given(s)' /\ Placed(s)'
  BY <1>1, <1>4 DEF Given, Placed, Runs
<1>6. Sorted(s)'
  BY <1>1, <1>4 DEF Sorted, Runs
<1>7. Ordered(s)'
  <2>1. InOrder(delivered[s])' /\ InOrder(critical[s])'
    BY <1>1, <1>3 DEF Ordered, Runs, InOrder
  <2>. QED
    BY <1>1, <1>4, <2>1 DEF Ordered, Runs
<1>8. Whole(s)'
  BY <1>1, <1>4, RunsOwe DEF Whole, Runs
<1>. QED
  BY <1>5, <1>6, <1>7, <1>8 DEF Good

-----------------------------------------------------------------------------
(* The invariant and what follows from it.                                 *)

\* At first there is nothing.
LEMMA BusInit == Init => BusInv
<1>. SUFFICES ASSUME Init PROVE BusInv
  OBVIOUS
<1>1. SendInv
  BY SendInit
<1>2. BusType
  <2>1. <<>> \in Seq(Nat) /\ <<>> \in Seq(Kinds) /\ Len(<<>>) = 0
    BY EmptySeq
  <2>2. critical \in [Subs -> Seq(Nat)] /\ delivered \in [Subs -> Seq(Nat)]
    BY <2>1 DEF Init
  <2>3. progress \in [Subs -> Nat] /\ held \in [Subs -> Nat] /\ since \in [Subs -> Nat]
    BY DEF Init, Nothing
  <2>4. log \in Seq(Kinds) /\ read \in 0..Len(log)
    BY <2>1 DEF Init
  <2>5. pc \in [Subs -> {"off", "top", "second", "hold", "ended"}]
    BY DEF Init
  <2>. QED
    BY <2>2, <2>3, <2>4, <2>5 DEF Init, BusType, Subs
<1>3. DrainOK
  BY DEF Init, DrainOK
<1>4. ASSUME NEW s \in Subs PROVE Good(s)
  <2>1. /\ critical[s] = <<>> /\ delivered[s] = <<>> /\ held[s] = Nothing /\ progress[s] = Nothing
        /\ since[s] = 0 /\ read = 0 /\ todo = {} /\ listeners = {Store} /\ stopped = {}
        /\ pc[s] = IF s = Store THEN "top" ELSE "off"
    BY DEF Init
  <2>2. Have(s) = {} /\ Out(s) = {}
    BY <2>1, Empty DEF Have, Out
  <2>3. Due(s) = {}
    BY <2>1 DEF Due, Owed
  <2>. QED
    BY <2>1, <2>2, <2>3, Empty DEF Good, Given, Placed, Sorted, Ordered, Whole
<1>. QED
  BY <1>1, <1>2, <1>3, <1>4 DEF BusInv

\* Every step keeps it.
LEMMA BusNext == BusInv /\ [Next]_vars => BusInv'
<1>. SUFFICES ASSUME BusInv, [Next]_vars PROVE BusInv'
  OBVIOUS
<1>. BusType /\ DrainOK /\ SendInv' /\ \A x \in Subs : Good(x)
  BY SendStepInv DEF BusInv
<1>1. ASSUME NEW s \in Subs, Good(s)', Inside, BusType', DrainOK', UNCHANGED <<read, drained>>,
             \A x \in Subs \ {s} : UNCHANGED Mine(x) /\ UNCHANGED Place(x)
      PROVE  BusInv'
  <2>1. ASSUME NEW x \in Subs \ {s} PROVE Good(x)'
    BY <1>1, Untouched DEF Inside, LogGrows
  <2>. QED
    BY <1>1, <2>1 DEF BusInv
<1>2. ASSUME NEW s \in Subs, Enqueue(s) PROVE BusInv'
  BY <1>1, <1>2, Hands, EnqueueGood
<1>3. ASSUME NEW s \in Subs, Subscribe(s) \/ Cleanup(s) \/ RunStep(s) \/ Deliver(s) PROVE BusInv'
  <2>1. Good(s)'
    BY <1>3, SubscribeGood, CleanupGood, RunDoneGood, RunWaitsGood, RunCriticalGood,
       RunProgressGood, DeliverGood DEF RunStep
  <2>. QED
    BY <1>1, <1>3, <2>1, Alone
<1>4. CASE LoopTake
  BY <1>4, TakeStep DEF BusInv
<1>5. CASE LoopEnd
  BY <1>5, EndStep DEF BusInv
<1>6. CASE \/ \E p \in Publishers, k \in Kinds : PubEnter(p, k)
           \/ \E p \in Workers, k \in Kinds : WorkerEnter(p, k)
           \/ \E p \in Senders : SendStep(p)
           \/ ShutCancel \/ ShutClose \/ ShutReturn
           \/ UNCHANGED vars
  <2>1. /\ Outside /\ LogGrows /\ log' \in Seq(Kinds) /\ Len(log) <= Len(log')
        /\ drained => log' = log /\ shut' \in {"closed", "returned"}
    BY <1>6, OutsideStep
  <2>2. BusType'
    <3>1. read \in 0..Len(log')
      BY <2>1 DEF BusType
    <3>. QED
      BY <2>1, <3>1 DEF BusType, Outside, sub
  <2>3. DrainOK'
    BY <2>1 DEF DrainOK, Outside
  <2>4. ASSUME NEW s \in Subs PROVE Good(s)'
    <3>1. UNCHANGED Mine(s) /\ UNCHANGED Place(s) /\ UNCHANGED <<read, drained>>
      BY <2>1 DEF Outside, sub, Mine, Place
    <3>. QED
      BY <2>1, <3>1, Untouched
  <2>. QED
    BY <2>2, <2>3, <2>4 DEF BusInv
<1>. QED
  BY <1>2, <1>3, <1>4, <1>5, <1>6 DEF Next, LoopStep

\* The invariant of the subscriptions: what each of them has, is owed and may
\* still be handed (broadcastLoop and eventSubscription.run).
THEOREM BusInductive == Spec => []BusInv
BY BusInit, BusNext, PTL DEF Spec

\* Sequences one after the other.
LEMMA Joined ==
  ASSUME NEW p \in Seq(Nat), NEW q \in Seq(Nat)
  PROVE  /\ p \o q \in Seq(Nat) /\ Range(p \o q) = Range(p) \cup Range(q)
         /\ InOrder(p) /\ InOrder(q)
            /\ (\A i \in Range(p), j \in Range(q) : log[i] # "progress" => i < j)
            => InOrder(p \o q)
<1>. DEFINE r == p \o q
<1>1. /\ r \in Seq(Nat) /\ DOMAIN p = 1..Len(p) /\ DOMAIN q = 1..Len(q)
      /\ Len(p) \in Nat /\ Len(q) \in Nat /\ DOMAIN r = 1..Len(p) + Len(q)
      /\ \A i \in 1..Len(p) : r[i] = p[i]
      /\ \A k \in 1..Len(q) : r[Len(p) + k] = q[k]
  BY ConcatProperties, LenProperties
<1>2. Range(r) = Range(p) \cup Range(q)
  BY RangeConcatenation
<1>. HIDE DEF r
<1>3. ASSUME InOrder(p), InOrder(q),
             \A i \in Range(p), j \in Range(q) : log[i] # "progress" => i < j
      PROVE  InOrder(r)
  <2>. SUFFICES ASSUME NEW i \in DOMAIN r, NEW j \in DOMAIN r, i < j, log[r[i]] # "progress"
                PROVE  r[i] < r[j]
    BY DEF InOrder
  <2>. i \in Nat /\ j \in Nat
    BY <1>1
  <2>1. CASE j <= Len(p)
    <3>1. i \in DOMAIN p /\ j \in DOMAIN p /\ r[i] = p[i] /\ r[j] = p[j]
      BY <1>1, <2>1
    <3>. QED
      BY <1>3, <3>1 DEF InOrder
  <2>2. CASE i <= Len(p) /\ Len(p) < j
    <3>1. i \in 1..Len(p) /\ j - Len(p) \in 1..Len(q)
      BY <1>1, <2>2
    <3>2. PICK k \in 1..Len(q) : j = Len(p) + k
      BY <1>1, <3>1
    <3>3. r[i] \in Range(p) /\ r[j] \in Range(q)
      BY <1>1, <3>1, <3>2 DEF Range
    <3>. QED
      BY <1>3, <3>3
  <2>3. CASE Len(p) < i
    <3>1. i - Len(p) \in 1..Len(q) /\ j - Len(p) \in 1..Len(q)
      BY <1>1, <2>3
    <3>2. PICK k \in 1..Len(q), m \in 1..Len(q) : i = Len(p) + k /\ j = Len(p) + m
      BY <1>1, <3>1
    <3>3. k < m /\ r[i] = q[k] /\ r[j] = q[m]
      BY <1>1, <3>2
    <3>4. log[q[k]] # "progress" => q[k] < q[m]
      BY <1>1, <1>3, <3>3 DEF InOrder
    <3>. QED
      BY <3>3, <3>4
  <2>. QED
    BY <1>1, <2>1, <2>2, <2>3
<1>. QED
  BY <1>1, <1>2, <1>3 DEF r

\* What has been handed out or is in hand, as a sequence.
LEMMA OutSequence ==
  ASSUME BusInv, NEW s \in Subs
  PROVE  /\ delivered[s] \o InHand(s) \in Seq(Nat)
         /\ Range(delivered[s] \o InHand(s)) = Out(s)
         /\ InOrder(delivered[s] \o InHand(s))
<1>. delivered[s] \in Seq(Nat) /\ held[s] \in Nat /\ Ordered(s)
  BY DEF BusInv, BusType, Good
<1>1. CASE held[s] = Nothing
  BY <1>1, ConcatEmptySeq DEF InHand, Out, Ordered
<1>2. CASE held[s] # Nothing
  <2>1. InHand(s) = <<held[s]>> /\ InHand(s) \in Seq(Nat)
    BY <1>2 DEF InHand
  <2>2. DOMAIN InHand(s) = {1} /\ InHand(s)[1] = held[s]
    BY <2>1
  <2>3. Range(InHand(s)) = {held[s]} /\ InOrder(InHand(s))
    BY <2>2 DEF Range, InOrder
  <2>4. InOrder(delivered[s])
        /\ \A i \in Range(delivered[s]), j \in Range(InHand(s)) : log[i] # "progress" => i < j
    BY <1>2, <2>3 DEF Ordered
  <2>5. Out(s) = Range(delivered[s]) \cup Range(InHand(s))
    BY <1>2, <2>3 DEF Out
  <2>. QED
    BY <2>1, <2>3, <2>4, <2>5, Joined
<1>. QED
  BY <1>1, <1>2

\* The stream of a subscription is what it will have handed out, in order.
LEMMA StreamIs ==
  ASSUME BusInv, NEW s \in Subs
  PROVE  Range(Stream(s)) = Got(s) /\ InOrder(Stream(s))
<1>. DEFINE out == delivered[s] \o InHand(s)
            rest == IF pc[s] = "ended" THEN <<>> ELSE critical[s]
<1>1. out \in Seq(Nat) /\ Range(out) = Out(s) /\ InOrder(out)
  BY OutSequence
<1>2. /\ rest \in Seq(Nat) /\ InOrder(rest) /\ Got(s) = Out(s) \cup Range(rest)
      /\ \A i \in Out(s), j \in Range(rest) : log[i] # "progress" => i < j
  <2>. critical[s] \in Seq(Nat) /\ Ordered(s)
    BY DEF BusInv, BusType, Good
  <2>. QED
    BY Empty, EmptySeq DEF Ordered, Got
<1>3. Stream(s) = out \o rest
  BY DEF Stream
<1>. HIDE DEF out, rest
<1>. QED
  BY <1>1, <1>2, <1>3, Joined

\* The persistence worker loses no event of the store, however long it lets
\* the bus wait and whatever observers do (broadcastLoop's reliable branch).
THEOREM StoreIsComplete == Spec => []StoreMissesNothing
<1>1. BusInv => StoreMissesNothing
  <2>. SUFFICES ASSUME BusInv, Store \notin stopped
                PROVE  InOrder(Stream(Store)) /\ Range(Stream(Store)) = Owed(Store, {"persist"})
    BY DEF StoreMissesNothing
  <2>. Store \in Subs
    BY DEF Subs
  <2>. BusType /\ Given(Store) /\ Placed(Store) /\ Sorted(Store) /\ Whole(Store)
    BY DEF BusInv, Good
  <2>1. Due(Store) = Owed(Store, {"persist"})
    BY DEF Due, Wanted
  <2>2. Got(Store) \subseteq Due(Store)
    <3>. SUFFICES ASSUME NEW i \in Got(Store) PROVE i \in Due(Store)
      OBVIOUS
    <3>1. i \in Have(Store)
      BY DEF Got, Have
    <3>2. log[i] = "persist"
      BY <3>1 DEF Sorted
    <3>3. i \in since[Store] + 1 .. read /\ ~(i = read /\ Store \in todo)
      <4>1. i \in Nat /\ since[Store] \in Nat /\ read \in Nat
        BY <3>1, InLog
      <4>2. since[Store] < i /\ i <= read /\ (Store \in todo => i < read)
        BY <3>1 DEF Given
      <4>. QED
        BY <4>1, <4>2
    <3>. QED
      BY <2>1, <3>2, <3>3 DEF Owed
  <2>3. Due(Store) \subseteq Got(Store)
    <3>1. pc[Store] # "off"
      BY DEF Placed
    <3>. QED
      BY <3>1 DEF Whole
  <2>. QED
    BY <2>1, <2>2, <2>3, StreamIs
<1>. QED
  BY <1>1, BusInductive, PTL

\* An observer sees the lifecycle events in order and without a gap up to the
\* end of its stream (enqueue closes a stream it cannot serve).
THEOREM StreamHasNoGap == Spec => []ObserverSeesNoGap
<1>1. ASSUME BusInv, NEW s \in Observers, pc[s] # "off"
      PROVE  LET Lifecycle == {i \in Range(Stream(s)) : log[i] # "progress"}
                 owed == Owed(s, Kinds \ {"progress"})
             IN /\ \A i, j \in DOMAIN Stream(s) :
                     i < j /\ Stream(s)[i] \in Lifecycle /\ Stream(s)[j] \in Lifecycle
                       => Stream(s)[i] < Stream(s)[j]
                /\ Lifecycle \subseteq owed
                /\ \A i \in owed, j \in Lifecycle : i < j => i \in Lifecycle
                /\ s \notin stopped => Lifecycle = owed
  <2>. s \in Subs /\ s # Store
    BY BusAssumption DEF Subs
  <2>. BusType /\ Given(s) /\ Whole(s)
    BY <1>1 DEF BusInv, Good
  <2>1. Due(s) = Owed(s, Kinds \ {"progress"})
    BY DEF Due, Wanted, Kinds
  <2>2. \A i \in Got(s) : log[i] # "progress" => i \in Due(s)
    <3>. SUFFICES ASSUME NEW i \in Got(s), log[i] # "progress" PROVE i \in Due(s)
      OBVIOUS
    <3>1. i \in Have(s)
      BY DEF Got, Have
    <3>2. i \in 1..Len(log) /\ log[i] \in Kinds \ {"progress"}
      BY <3>1, InLog DEF BusType
    <3>3. i \in since[s] + 1 .. read /\ ~(i = read /\ s \in todo)
      <4>1. i \in Nat /\ since[s] \in Nat /\ read \in Nat
        BY <3>1, InLog
      <4>2. since[s] < i /\ i <= read /\ (s \in todo => i < read)
        BY <3>1 DEF Given
      <4>. QED
        BY <4>1, <4>2
    <3>. QED
      BY <2>1, <3>2, <3>3 DEF Owed
  <2>3. \A i \in Due(s) : log[i] # "progress"
    BY <2>1 DEF Owed
  <2>. DEFINE Lifecycle == {i \in Range(Stream(s)) : log[i] # "progress"}
  <2>4. Lifecycle \subseteq Due(s)
    BY <1>1, <2>2, StreamIs
  <2>5. \A i \in Due(s), j \in Lifecycle : i < j => i \in Lifecycle
    BY <1>1, <2>3, StreamIs DEF Whole
  <2>6. s \notin stopped => Lifecycle = Due(s)
    BY <1>1, <2>3, <2>4, StreamIs DEF Whole
  <2>7. \A i, j \in DOMAIN Stream(s) :
          i < j /\ Stream(s)[i] \in Lifecycle => Stream(s)[i] < Stream(s)[j]
    BY <1>1, StreamIs DEF InOrder
  <2>. QED
    BY <2>1, <2>4, <2>5, <2>6, <2>7
<1>2. BusInv => ObserverSeesNoGap
  BY <1>1 DEF ObserverSeesNoGap
<1>. QED
  BY <1>2, BusInductive, PTL

\* No progress that a lifecycle event has overtaken reaches an observer after
\* it (enqueue's reset of the pending frame, event_subscription.go:74).
THEOREM NoProgressAfterItsEnd == Spec => []NoStaleProgress
<1>1. BusInv => NoStaleProgress
  BY OutSequence DEF NoStaleProgress, InOrder, Subs
<1>. QED
  BY <1>1, BusInductive, PTL
=============================================================================
