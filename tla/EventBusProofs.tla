--------------------------- MODULE EventBusProofs ---------------------------
(***************************************************************************)
(* Proofs about EventBus.tla, for every pool size, queue depth, set of     *)
(* events and bound on what callbacks do.                                  *)
(*                                                                         *)
(* None of the invariants is inductive alone.  The count stays in range    *)
(* only because it is exact; an activation of a drain carries a proper     *)
(* event only because the ring is consistent; and the owed slots stay      *)
(* ahead of the loop only because subscribe() takes inactive slots.        *)
(***************************************************************************)
EXTENDS EventBus, FiniteSetTheorems, SequenceTheorems, TLAPS

IInv ==
  /\ TypeOK
  /\ CountExact
  /\ RingConsistent
  /\ NobodyPassedOver

-----------------------------------------------------------------------------
(* Index arithmetic of the ring without the modulus. *)
LEMMA RingWrap ==
  ASSUME NEW a \in Ring, NEW c \in 0 .. kEventQueueDepth
  PROVE  /\ RingAt(a, c)
              = IF a + c < kEventQueueDepth THEN a + c ELSE a + c - kEventQueueDepth
         /\ RingAt(a, c) \in Ring
  <1>1. CASE a + c < kEventQueueDepth
    BY <1>1, BusAssumption DEF Ring, RingAt
  <1>2. CASE a + c >= kEventQueueDepth
    BY <1>2, BusAssumption DEF Ring, RingAt
  <1> QED BY <1>1, <1>2, BusAssumption DEF Ring

(* Succ steps from one ring index to the next and wraps at the end. *)
LEMMA SuccWrap ==
  ASSUME NEW a \in Ring
  PROVE  /\ Succ(a) = IF a = kEventQueueDepth - 1 THEN 0 ELSE a + 1
         /\ Succ(a) \in Ring
  <1>1. 1 \in 0 .. kEventQueueDepth
    BY BusAssumption
  <1>2. Succ(a) = RingAt(a, 1)
    BY DEF Succ, RingAt
  <1>3. /\ RingAt(a, 1) = IF a + 1 < kEventQueueDepth THEN a + 1 ELSE a + 1 - kEventQueueDepth
        /\ RingAt(a, 1) \in Ring
    BY <1>1, RingWrap
  <1> QED BY <1>2, <1>3, BusAssumption DEF Ring

(* Waiting events lie in different cells. *)
LEMMA RingApart ==
  ASSUME NEW a \in Ring, NEW c \in 0 .. kEventQueueDepth - 1, NEW i \in 0 .. c - 1
  PROVE  RingAt(a, i) # RingAt(a, c) /\ RingAt(a, i) \in Ring /\ RingAt(a, c) \in Ring
  <1> DEFINE D == kEventQueueDepth
  <1>1. c \in 0 .. D /\ i \in 0 .. D
    BY BusAssumption
  <1>2. /\ RingAt(a, c) = IF a + c < D THEN a + c ELSE a + c - D
        /\ RingAt(a, c) \in Ring
    BY <1>1, RingWrap
  <1>3. /\ RingAt(a, i) = IF a + i < D THEN a + i ELSE a + i - D
        /\ RingAt(a, i) \in Ring
    BY <1>1, RingWrap
  <1> QED BY <1>2, <1>3, BusAssumption DEF Ring

(* Counting from the next cell on is counting one further. *)
LEMMA RingShift ==
  ASSUME NEW a \in Ring, NEW i \in 0 .. kEventQueueDepth - 1
  PROVE  RingAt(Succ(a), i) = RingAt(a, i + 1)
  <1> DEFINE D == kEventQueueDepth
  <1>1. i \in 0 .. D /\ i + 1 \in 0 .. D /\ Succ(a) \in Ring
    BY BusAssumption, SuccWrap
  <1>2. RingAt(Succ(a), i) = IF Succ(a) + i < D THEN Succ(a) + i ELSE Succ(a) + i - D
    BY <1>1, RingWrap
  <1>3. RingAt(a, i + 1) = IF a + (i + 1) < D THEN a + (i + 1) ELSE a + (i + 1) - D
    BY <1>1, RingWrap
  <1>4. Succ(a) = IF a = D - 1 THEN 0 ELSE a + 1
    BY SuccWrap
  <1> QED BY <1>2, <1>3, <1>4, BusAssumption DEF Ring

(* The slots are a finite set, and so is every part of it. *)
LEMMA SlotsFinite ==
  /\ IsFiniteSet(Slot)
  /\ Cardinality(Slot) = kMaxEventSubscribers
  /\ \A S \in SUBSET Slot : IsFiniteSet(S) /\ Cardinality(S) \in 0 .. kMaxEventSubscribers
  <1>1. IsFiniteSet(Slot) /\ Cardinality(Slot) = kMaxEventSubscribers
    BY FS_Interval, BusAssumption DEF Slot
  <1>2. ASSUME NEW S \in SUBSET Slot
        PROVE  IsFiniteSet(S) /\ Cardinality(S) \in 0 .. kMaxEventSubscribers
    BY <1>1, FS_Subset, FS_CardinalityType, BusAssumption
  <1> QED BY <1>1, <1>2

(* Initially the pool and the ring are empty. *)
LEMMA InitInv == Init => IInv
  <1> SUFFICES ASSUME Init PROVE IInv
    OBVIOUS
  <1>1. TypeOK
    <2>1. subscriptions \in [Slot -> Subscription]
      BY DEF Init, Subscription
    <2>2. queue \in [Ring -> Cell]
      BY DEF Init, Cell
    <2>3. /\ subscriberCount \in 0 .. kMaxEventSubscribers
          /\ queueHead \in Ring /\ queueTail \in Ring
          /\ queueCount \in 0 .. kEventQueueDepth
          /\ calls \in 0 .. MaxCalls
      BY BusAssumption DEF Init, Ring
    <2>4. frames \in Seq(Frame)
      BY DEF Init
    <2>5. draining \in BOOLEAN
      BY DEF Init
    <2> QED BY <2>1, <2>2, <2>3, <2>4, <2>5 DEF TypeOK
  <1>2. CountExact
    <2>1. ActiveSlots = {}
      BY DEF Init, ActiveSlots
    <2> QED BY <2>1, FS_EmptySet DEF Init, CountExact
  <1>3. RingConsistent
    BY RingWrap, BusAssumption DEF Init, RingConsistent, Ring
  <1>4. NobodyPassedOver
    BY DEF Init, NobodyPassedOver
  <1> QED BY <1>1, <1>2, <1>3, <1>4 DEF IInv

(* A call from the main program or from a callback keeps the allowance in range. *)
LEMMA UserCallType == TypeOK /\ UserCall => calls' \in 0 .. MaxCalls
  BY BusAssumption DEF TypeOK, UserCall

(* subscribe() occupies an inactive slot, which nobody is owed. *)
LEMMA SubscribeInv ==
  ASSUME IInv, NEW e \in Events, NEW c \in BOOLEAN, Subscribe(e, c)
  PROVE  IInv'
  <1> USE DEF IInv
  <1>1. PICK s \in Slot :
          /\ ~subscriptions[s].active
          /\ subscriptions' = [subscriptions EXCEPT
               ![s] = [event |-> e, callback |-> c, active |-> TRUE]]
    BY DEF Subscribe, IsFirstFree
  <1>2. TypeOK'
    BY <1>1, UserCallType, BusAssumption DEF TypeOK, Subscribe, Subscription, ringVars
  <1>3. CountExact'
    <2>1. ActiveSlots' = ActiveSlots \cup {s} /\ s \notin ActiveSlots
      BY <1>1 DEF ActiveSlots, TypeOK, Subscription
    <2>2. Cardinality(ActiveSlots \cup {s}) = Cardinality(ActiveSlots) + 1
      BY <2>1, SlotsFinite, FS_AddElement DEF ActiveSlots
    <2> QED BY <2>1, <2>2 DEF CountExact, Subscribe
  <1>4. RingConsistent'
    BY DEF RingConsistent, Subscribe, ringVars
  <1>5. NobodyPassedOver'
    <2>1. \A t \in Slot : subscriptions[t].active => subscriptions'[t] = subscriptions[t]
      BY <1>1 DEF TypeOK, Subscription
    <2> QED BY <2>1 DEF NobodyPassedOver, Listens, Subscribe, TypeOK, Frame
  <1> QED BY <1>2, <1>3, <1>4, <1>5

(* unsubscribe() frees an active slot and cancels what its holder was owed. *)
LEMMA UnsubscribeInv ==
  ASSUME IInv, NEW h \in -1 .. kMaxEventSubscribers, Unsubscribe(h)
  PROVE  IInv'
  <1> USE DEF IInv
  <1>1. CASE h \in Slot /\ subscriptions[h].active
    <2>1. /\ subscriptions' = [subscriptions EXCEPT ![h].active = FALSE]
          /\ subscriberCount' = subscriberCount - 1
          /\ frames' = [k \in DOMAIN frames |-> [frames[k] EXCEPT !.owed = @ \ {h}]]
      BY <1>1 DEF Unsubscribe
    <2>2. CountExact' /\ subscriberCount' \in 0 .. kMaxEventSubscribers
      <3>1. ActiveSlots' = ActiveSlots \ {h} /\ h \in ActiveSlots
        BY <1>1, <2>1 DEF ActiveSlots, TypeOK, Subscription
      <3>2. Cardinality(ActiveSlots \ {h}) = Cardinality(ActiveSlots) - 1
        BY <3>1, SlotsFinite, FS_RemoveElement DEF ActiveSlots
      <3>3. Cardinality(ActiveSlots \ {h}) \in 0 .. kMaxEventSubscribers
        BY SlotsFinite DEF ActiveSlots
      <3> QED BY <2>1, <3>1, <3>2, <3>3 DEF CountExact
    <2>3. frames' \in Seq(Frame) /\ Len(frames') = Len(frames)
      <3>1. DOMAIN frames = 1 .. Len(frames) /\ Len(frames) \in Nat
        BY DEF TypeOK
      <3>2. ASSUME NEW k \in 1 .. Len(frames)
            PROVE  frames'[k] \in Frame
        <4>1. frames[k] \in Frame
          BY DEF TypeOK
        <4>2. frames'[k] = [frames[k] EXCEPT !.owed = @ \ {h}]
          BY <2>1, <3>1
        <4> QED BY <4>1, <4>2 DEF Frame
      <3> QED BY <2>1, <3>1, <3>2
    <2>4. TypeOK'
      <3>1. subscriptions' \in [Slot -> Subscription]
        BY <1>1, <2>1 DEF TypeOK, Subscription
      <3> QED BY <2>2, <2>3, <3>1, UserCallType DEF TypeOK, Unsubscribe, ringVars
    <2>5. RingConsistent'
      BY DEF RingConsistent, Unsubscribe, ringVars
    <2>6. NobodyPassedOver'
      <3> SUFFICES ASSUME NEW k \in 1 .. Len(frames'), NEW s \in frames'[k].owed
                   PROVE  /\ Listens(s, frames[k].data)'
                          /\ s >= frames'[k].next
                          /\ frames'[k].running => s > frames'[k].next
        BY DEF NobodyPassedOver
      <3>1. /\ frames[k] \in Frame /\ k \in DOMAIN frames
            /\ frames'[k] = [frames[k] EXCEPT !.owed = @ \ {h}]
        <4>1. k \in 1 .. Len(frames) /\ DOMAIN frames = 1 .. Len(frames)
          BY <2>3 DEF TypeOK
        <4>2. frames[k] \in Frame
          BY <4>1 DEF TypeOK
        <4> QED BY <2>1, <4>1, <4>2
      <3>2. s \in frames[k].owed /\ s # h /\ s \in Slot
        BY <3>1 DEF Frame
      <3>3. subscriptions'[s] = subscriptions[s]
        BY <2>1, <3>2 DEF TypeOK
      <3> QED BY <2>3, <3>1, <3>2, <3>3 DEF NobodyPassedOver, Listens, Frame
    <2> QED BY <2>2, <2>4, <2>5, <2>6
  <1>2. CASE ~(h \in Slot /\ subscriptions[h].active)
    <2>1. UNCHANGED <<subscriptions, subscriberCount, frames>>
      BY <1>2 DEF Unsubscribe, poolVars
    <2>2. TypeOK'
      BY <2>1, UserCallType DEF TypeOK, Unsubscribe, ringVars
    <2> QED BY <2>1, <2>2 DEF Unsubscribe, ringVars, CountExact, ActiveSlots,
                           RingConsistent, NobodyPassedOver, Listens
  <1> QED BY <1>1, <1>2

(* A fresh activation owes the event to exactly the slots that listen. *)
LEMMA ActivationOwes ==
  ASSUME NEW d \in EventData
  PROVE  /\ Activation(d) \in Frame
         /\ ~Activation(d).running
         /\ \A s \in Activation(d).owed :
              Listens(s, Activation(d).data) /\ s >= Activation(d).next
  <1>1. Activation(d) \in Frame
    BY DEF Activation, Frame
  <1>2. \A s \in Slot : s >= 0
    BY BusAssumption DEF Slot
  <1> QED BY <1>1, <1>2 DEF Activation

(* publish() pushes an activation. *)
LEMMA PublishInv ==
  ASSUME IInv, NEW d \in EventData, Publish(d)
  PROVE  IInv'
  <1> USE DEF IInv
  <1>1. /\ frames \in Seq(Frame) /\ Activation(d) \in Frame
        /\ frames' = Append(frames, Activation(d))
        /\ UNCHANGED <<subscriptions, subscriberCount, queue, queueHead, queueTail,
                       queueCount, draining>>
    BY ActivationOwes DEF TypeOK, Publish, poolVars, ringVars
  <1>2. TypeOK'
    BY <1>1, UserCallType DEF TypeOK, Publish
  <1>3. NobodyPassedOver'
    <2>1. /\ Len(frames') = Len(frames) + 1
          /\ frames'[Len(frames) + 1] = Activation(d)
          /\ \A k \in 1 .. Len(frames) : frames'[k] = frames[k]
      BY <1>1
    <2>2. \A s, e : Listens(s, e)' <=> Listens(s, e)
      BY <1>1 DEF Listens
    <2> QED BY <1>1, <2>1, <2>2, ActivationOwes DEF NobodyPassedOver
  <1> QED BY <1>1, <1>2, <1>3 DEF CountExact, ActiveSlots, RingConsistent

(* enqueue() writes the cell behind the waiting events. *)
LEMMA EnqueueInv ==
  ASSUME IInv, NEW d \in EventData, Enqueue(d)
  PROVE  IInv'
  <1> USE DEF IInv
  <1> DEFINE D == kEventQueueDepth
  <1>1. /\ D \in Nat \ {0} /\ queueHead \in Ring /\ queueTail \in Ring
        /\ queueCount \in 0 .. D - 1
        /\ queueTail = RingAt(queueHead, queueCount)
        /\ queue' = [queue EXCEPT ![queueTail] = d]
        /\ queueTail' = Succ(queueTail) /\ queueHead' = queueHead
        /\ queueCount' = queueCount + 1
    BY BusAssumption DEF TypeOK, RingConsistent, Enqueue
  <1>2. TypeOK'
    <2>1. queue' \in [Ring -> Cell]
      BY <1>1 DEF TypeOK, Cell
    <2>2. queueTail' \in Ring /\ queueCount' \in 0 .. D
      BY <1>1, SuccWrap
    <2> QED BY <1>1, <2>1, <2>2, UserCallType DEF TypeOK, Enqueue, poolVars
  <1>3. RingConsistent'
    <2>1. queueTail' = RingAt(queueHead, queueCount + 1)
      <3>1. queueCount \in 0 .. D /\ queueCount + 1 \in 0 .. D
        BY <1>1
      <3>2. RingAt(queueHead, queueCount) =
              IF queueHead + queueCount < D THEN queueHead + queueCount
                                            ELSE queueHead + queueCount - D
        BY <1>1, <3>1, RingWrap
      <3>3. RingAt(queueHead, queueCount + 1) =
              IF queueHead + (queueCount + 1) < D THEN queueHead + (queueCount + 1)
                                                  ELSE queueHead + (queueCount + 1) - D
        BY <1>1, <3>1, RingWrap
      <3>4. Succ(queueTail) = IF queueTail = D - 1 THEN 0 ELSE queueTail + 1
        BY <1>1, SuccWrap
      <3> QED BY <1>1, <3>2, <3>3, <3>4 DEF Ring
    <2>2. ASSUME NEW i \in 0 .. queueCount - 1
          PROVE  RingAt(queueHead, i) # queueTail /\ RingAt(queueHead, i) \in Ring
      BY <1>1, RingApart
    <2>3. ASSUME NEW i \in 0 .. queueCount' - 1
          PROVE  queue'[RingAt(queueHead, i)] \in EventData
      <3>1. CASE i = queueCount
        BY <1>1, <3>1 DEF TypeOK
      <3>2. CASE i \in 0 .. queueCount - 1
        BY <1>1, <2>2, <3>2 DEF TypeOK, RingConsistent
      <3> QED BY <1>1, <3>1, <3>2
    <2> QED BY <1>1, <2>1, <2>3 DEF RingConsistent, RingAt
  <1>4. CountExact' /\ NobodyPassedOver'
    BY DEF Enqueue, poolVars, CountExact, ActiveSlots, NobodyPassedOver, Listens
  <1> QED BY <1>2, <1>3, <1>4

(* dispatchQueued() advances the head and activates a proper event. *)
LEMMA DequeueInv ==
  ASSUME IInv, Dequeue
  PROVE  IInv'
  <1> USE DEF IInv
  <1> DEFINE D == kEventQueueDepth
             d == queue[queueHead]
  <1>1. /\ D \in Nat \ {0} /\ queueHead \in Ring /\ queueTail \in Ring
        /\ queueCount \in 1 .. D
        /\ queueTail = RingAt(queueHead, queueCount)
        /\ queueHead' = Succ(queueHead) /\ queueTail' = queueTail
        /\ queueCount' = queueCount - 1 /\ queue' = queue
        /\ frames' = <<Activation(d)>>
    BY BusAssumption DEF TypeOK, RingConsistent, Dequeue
  <1>2. ASSUME NEW i \in 0 .. queueCount - 1
        PROVE  RingAt(Succ(queueHead), i) = RingAt(queueHead, i + 1)
    <2>1. i \in 0 .. kEventQueueDepth - 1
      BY <1>1
    <2> QED BY <1>1, <2>1, RingShift
  <1>3. d \in EventData
    <2>1. 0 \in 0 .. D /\ 0 \in 0 .. queueCount - 1
      BY <1>1
    <2>2. RingAt(queueHead, 0) = queueHead
      BY <1>1, <2>1, RingWrap DEF Ring
    <2> QED BY <1>1, <2>1, <2>2 DEF RingConsistent
  <1>4. TypeOK'
    BY <1>1, <1>3, SuccWrap, ActivationOwes DEF TypeOK, Dequeue, poolVars
  <1>5. RingConsistent'
    <2>1. queueTail = RingAt(Succ(queueHead), queueCount - 1)
      <3>1. queueCount - 1 \in 0 .. queueCount - 1 /\ queueCount - 1 + 1 = queueCount
        BY <1>1
      <3> QED BY <1>1, <1>2, <3>1
    <2>2. ASSUME NEW i \in 0 .. queueCount - 2
          PROVE  queue[RingAt(Succ(queueHead), i)] \in EventData
      <3>1. i \in 0 .. queueCount - 1 /\ i + 1 \in 0 .. queueCount - 1
        BY <1>1
      <3> QED BY <1>2, <3>1 DEF RingConsistent
    <2>3. queueCount' - 1 = queueCount - 2
      BY <1>1
    <2> QED BY <1>1, <2>1, <2>2, <2>3 DEF RingConsistent, RingAt
  <1>6. NobodyPassedOver'
    <2>1. \A s, e : Listens(s, e)' <=> Listens(s, e)
      BY DEF Listens, Dequeue, poolVars
    <2>2. Len(frames') = 1 /\ frames'[1] = Activation(d)
      BY <1>1
    <2> QED BY <1>3, <2>1, <2>2, ActivationOwes DEF NobodyPassedOver
  <1>7. CountExact'
    BY DEF Dequeue, poolVars, CountExact, ActiveSlots
  <1> QED BY <1>4, <1>5, <1>6, <1>7

(* dispatch() invokes the first slot that remains, so it passes over none. *)
LEMMA InvokeInv ==
  ASSUME IInv, Invoke
  PROVE  IInv'
  <1> USE DEF IInv
  <1> DEFINE n == Len(frames)
             f == frames[n]
  <1>1. /\ frames \in Seq(Frame) /\ n \in Nat \ {0} /\ n \in 1 .. Len(frames)
        /\ f \in Frame /\ ~f.running
    BY DEF TypeOK, Invoke, Top
  <1>2. PICK s \in Remaining(f) :
          /\ \A t \in Remaining(f) : s <= t
          /\ ReplaceTop([f EXCEPT !.next = s, !.running = TRUE, !.owed = f.owed \ {s}])
    BY DEF Invoke, Top
  <1> DEFINE g == [f EXCEPT !.next = s, !.running = TRUE, !.owed = f.owed \ {s}]
  <1>3. s \in Slot /\ s \in Nat
    BY <1>2, BusAssumption DEF Remaining, Slot
  <1>4. /\ g \in Frame /\ g.data = f.data /\ g.next = s /\ g.owed = f.owed \ {s}
    BY <1>1, <1>3 DEF Frame
  <1>5. /\ frames' \in Seq(Frame) /\ Len(frames') = n
        /\ frames'[n] = g
        /\ \A k \in 1 .. n : k # n => frames'[k] = frames[k]
    <2>1. frames' = [frames EXCEPT ![n] = g]
      BY <1>2 DEF ReplaceTop
    <2> HIDE DEF g
    <2> QED BY <1>1, <1>4, <2>1, ExceptSeq
  <1>6. TypeOK'
    BY <1>5 DEF TypeOK, Invoke, poolVars, ringVars
  <1>7. \A x, e : Listens(x, e)' <=> Listens(x, e)
    BY DEF Invoke, poolVars, Listens
  <1>8. ASSUME NEW t \in g.owed
        PROVE  Listens(t, g.data) /\ t > s
    <2>1. t \in f.owed /\ t # s /\ t \in Slot
      BY <1>1, <1>4 DEF Frame
    <2>2. Listens(t, f.data) /\ t >= f.next
      BY <1>1, <2>1 DEF NobodyPassedOver
    <2>3. s <= t
      BY <1>2, <2>1, <2>2 DEF Remaining
    <2> QED BY <1>3, <1>4, <2>1, <2>2, <2>3 DEF Slot
  <1>9. NobodyPassedOver'
    <2> HIDE DEF g
    <2> SUFFICES ASSUME NEW k \in 1 .. n, NEW t \in frames'[k].owed
                 PROVE  /\ Listens(t, frames'[k].data)
                        /\ t >= frames'[k].next
                        /\ frames'[k].running => t > frames'[k].next
      BY <1>5, <1>7 DEF NobodyPassedOver
    <2>1. CASE k = n
      <3>1. t \in g.owed /\ frames'[k] = g /\ t \in Slot
        BY <1>4, <1>5, <2>1 DEF Frame
      <3>2. Listens(t, g.data) /\ t > s
        BY <1>8, <3>1
      <3> QED BY <1>3, <1>4, <3>1, <3>2 DEF Slot
    <2>2. CASE k # n
      BY <1>5, <2>2 DEF NobodyPassedOver
    <2> QED BY <2>1, <2>2
  <1>10. CountExact' /\ RingConsistent'
    BY DEF Invoke, poolVars, ringVars, CountExact, ActiveSlots, RingConsistent
  <1> QED BY <1>6, <1>9, <1>10

(* After a callback the loop moves on to the next slot. *)
LEMMA CallbackReturnInv ==
  ASSUME IInv, CallbackReturn
  PROVE  IInv'
  <1> USE DEF IInv
  <1> DEFINE n == Len(frames)
             f == frames[n]
             g == [f EXCEPT !.next = f.next + 1, !.running = FALSE]
  <1>1. /\ frames \in Seq(Frame) /\ n \in Nat \ {0} /\ n \in 1 .. Len(frames)
        /\ f \in Frame /\ f.running
        /\ ReplaceTop(g)
    BY DEF TypeOK, CallbackReturn, InCallback, Top
  <1>2. /\ g \in Frame /\ g.data = f.data /\ g.next = f.next + 1
        /\ g.owed = f.owed /\ ~g.running
    <2>1. f.next + 1 \in Nat
      BY <1>1 DEF Frame
    <2> HIDE DEF f
    <2> QED BY <1>1, <2>1 DEF Frame
  <1>3. /\ frames' \in Seq(Frame) /\ Len(frames') = n
        /\ frames'[n] = g
        /\ \A k \in 1 .. n : k # n => frames'[k] = frames[k]
    <2>1. frames' = [frames EXCEPT ![n] = g]
      BY <1>1 DEF ReplaceTop
    <2> HIDE DEF g
    <2> QED BY <1>1, <1>2, <2>1, ExceptSeq
  <1>4. TypeOK'
    BY <1>3 DEF TypeOK, CallbackReturn, poolVars, ringVars
  <1>5. \A x, e : Listens(x, e)' <=> Listens(x, e)
    BY DEF CallbackReturn, poolVars, Listens
  <1>6. NobodyPassedOver'
    <2> HIDE DEF g
    <2> SUFFICES ASSUME NEW k \in 1 .. n, NEW t \in frames'[k].owed
                 PROVE  /\ Listens(t, frames'[k].data)
                        /\ t >= frames'[k].next
                        /\ frames'[k].running => t > frames'[k].next
      BY <1>3, <1>5 DEF NobodyPassedOver
    <2>1. CASE k = n
      <3>1. /\ t \in f.owed /\ frames'[k] = g /\ t \in Slot
            /\ f.next \in Nat
        BY <1>1, <1>2, <1>3, <2>1 DEF Frame
      <3>2. Listens(t, f.data) /\ t > f.next
        BY <1>1, <3>1 DEF NobodyPassedOver
      <3> QED BY <1>2, <3>1, <3>2 DEF Slot
    <2>2. CASE k # n
      BY <1>3, <2>2 DEF NobodyPassedOver
    <2> QED BY <2>1, <2>2
  <1>7. CountExact' /\ RingConsistent'
    BY DEF CallbackReturn, poolVars, ringVars, CountExact, ActiveSlots, RingConsistent
  <1> QED BY <1>4, <1>6, <1>7

(* The return of dispatch() pops its activation and leaves the others alone. *)
LEMMA DispatchReturnInv ==
  ASSUME IInv, DispatchReturn
  PROVE  IInv'
  <1> USE DEF IInv
  <1>1. /\ frames \in Seq(Frame) /\ Len(frames) \in Nat \ {0}
        /\ frames' = SubSeq(frames, 1, Len(frames) - 1)
    BY DEF TypeOK, DispatchReturn
  <1>2. /\ frames' \in Seq(Frame) /\ Len(frames') = Len(frames) - 1
        /\ \A k \in 1 .. Len(frames) - 1 : frames'[k] = frames[k]
    <2>1. \A k \in 1 .. Len(frames) - 1 : frames[k] \in Frame
      BY <1>1
    <2>2. /\ SubSeq(frames, 1, Len(frames) - 1) \in Seq(Frame)
          /\ Len(SubSeq(frames, 1, Len(frames) - 1))
               = IF 1 <= Len(frames) - 1 THEN Len(frames) - 1 - 1 + 1 ELSE 0
          /\ \A k \in 1 .. Len(frames) - 1 - 1 + 1 :
               SubSeq(frames, 1, Len(frames) - 1)[k] = frames[1 + k - 1]
      BY <1>1, <2>1, SubSeqProperties
    <2>3. \A n \in Nat \ {0} : /\ (IF 1 <= n - 1 THEN n - 1 - 1 + 1 ELSE 0) = n - 1
                               /\ n - 1 - 1 + 1 = n - 1
                               /\ \A k \in 1 .. n - 1 : 1 + k - 1 = k
      OBVIOUS
    <2> QED BY <1>1, <2>2, <2>3
  <1>3. calls' \in 0 .. MaxCalls
    BY BusAssumption DEF TypeOK, DispatchReturn
  <1>4. TypeOK'
    BY <1>2, <1>3 DEF TypeOK, DispatchReturn, poolVars, ringVars
  <1>5. NobodyPassedOver'
    BY <1>1, <1>2 DEF NobodyPassedOver, Listens, DispatchReturn, poolVars
  <1>6. CountExact' /\ RingConsistent'
    BY DEF DispatchReturn, poolVars, ringVars, CountExact, ActiveSlots, RingConsistent
  <1> QED BY <1>4, <1>5, <1>6

(* Steps that leave the pool, the ring and the activations as they are. *)
LEMMA QuietInv ==
  ASSUME IInv, UNCHANGED <<poolVars, ringVars, frames>>,
         draining' \in BOOLEAN, calls' \in 0 .. MaxCalls
  PROVE  IInv'
  BY DEF IInv, poolVars, ringVars, TypeOK, CountExact, ActiveSlots, RingConsistent,
         NobodyPassedOver, Listens

(* Every step preserves the inductive invariant. *)
LEMMA StepInv == IInv /\ [Next]_busVars => IInv'
  <1> SUFFICES ASSUME IInv, [Next]_busVars PROVE IInv'
    OBVIOUS
  <1>1. ASSUME NEW e \in Events, NEW c \in BOOLEAN, Subscribe(e, c) PROVE IInv'
    BY <1>1, SubscribeInv
  <1>2. ASSUME SubscribeRefused \/ EnqueueRefused PROVE IInv'
    <2>1. draining' \in BOOLEAN /\ calls' \in 0 .. MaxCalls
      BY <1>2, UserCallType DEF IInv, TypeOK, SubscribeRefused, EnqueueRefused
    <2> QED BY <1>2, <2>1, QuietInv DEF SubscribeRefused, EnqueueRefused
  <1>3. ASSUME NEW h \in -1 .. kMaxEventSubscribers, Unsubscribe(h) PROVE IInv'
    BY <1>3, UnsubscribeInv
  <1>4. ASSUME NEW d \in EventData, Publish(d) PROVE IInv'
    BY <1>4, PublishInv
  <1>5. ASSUME NEW d \in EventData, Enqueue(d) PROVE IInv'
    BY <1>5, EnqueueInv
  <1>6. ASSUME DispatchQueued \/ DrainEnd PROVE IInv'
    <2>1. draining' \in BOOLEAN
      BY <1>6 DEF DispatchQueued, DrainEnd
    <2>2. calls' \in 0 .. MaxCalls
      BY <1>6, BusAssumption DEF IInv, TypeOK, DispatchQueued, DrainEnd
    <2> QED BY <1>6, <2>1, <2>2, QuietInv DEF DispatchQueued, DrainEnd
  <1>7. CASE UNCHANGED busVars
    BY <1>7, QuietInv DEF busVars, poolVars, ringVars, IInv, TypeOK
  <1> QED BY <1>1, <1>2, <1>3, <1>4, <1>5, <1>6, <1>7, DequeueInv, InvokeInv,
             CallbackReturnInv, DispatchReturnInv DEF Next, BusStep

-----------------------------------------------------------------------------
(* The inductive invariant holds in every reachable state. *)
THEOREM Invariance == Spec => []IInv
  <1> QED BY InitInv, StepInv, PTL DEF Spec

(* The bus is type correct: the indices of the ring stay inside queue_ and *)
(* the count of subscribers inside the pool.                               *)
THEOREM TypeCorrect == Spec => []TypeOK
  BY Invariance, PTL DEF IInv

(* subscriberCount_ counts the active slots, under any sequence of         *)
(* subscribe() and unsubscribe() calls with valid and stale handles.       *)
THEOREM CountIsExact == Spec => []CountExact
  BY Invariance, PTL DEF IInv

(* head, tail and count agree and no cell of the waiting range is unset.   *)
THEOREM RingIsConsistent == Spec => []RingConsistent
  BY Invariance, PTL DEF IInv

(* No dispatch() loop, at any depth of re-entrancy, has passed a slot that *)
(* it still owes the event.                                                *)
THEOREM NobodyIsPassedOver == Spec => []NobodyPassedOver
  BY Invariance, PTL DEF IInv

(* A dispatch() returns only after it has invoked every subscriber that    *)
(* was subscribed from its start to its end.                               *)
THEOREM StandingSubscribersServed == Spec => ServedBeforeReturn
  <1>1. ASSUME IInv, [Next]_busVars
        PROVE  [Len(frames') < Len(frames) => Top.owed = {}]_busVars
    <2> SUFFICES ASSUME Next, Len(frames') < Len(frames)
                 PROVE  Top.owed = {}
      BY <1>1
    <2> USE DEF IInv
    <2>1. frames \in Seq(Frame) /\ Len(frames) \in Nat
      BY <1>1 DEF TypeOK
    <2>2. CASE DispatchReturn
      <3>1. /\ frames # <<>> /\ ~Top.running /\ Remaining(Top) = {}
        BY <2>2 DEF DispatchReturn
      <3>2. Top \in Frame /\ Len(frames) \in 1 .. Len(frames)
        BY <2>1, <3>1 DEF Top
      <3>3. \A s \in Top.owed : s \in Remaining(Top)
        BY <1>1, <3>2 DEF NobodyPassedOver, Remaining, Top, Frame
      <3> QED BY <3>1, <3>3
    <2>3. CASE Invoke \/ CallbackReturn
      <3>1. DOMAIN frames' = DOMAIN frames
        BY <2>3 DEF Invoke, CallbackReturn, ReplaceTop
      <3>2. IInv'
        BY <1>1, StepInv
      <3>3. Len(frames') = Len(frames)
        BY <2>1, <3>1, <3>2 DEF TypeOK
      <3> QED BY <2>1, <3>3
    <2>4. CASE Dequeue
      <3>1. Len(frames) = 0 /\ Len(frames') = 1
        BY <2>4 DEF Dequeue
      <3> QED BY <3>1
    <2>5. ASSUME NEW h \in -1 .. kMaxEventSubscribers, Unsubscribe(h)
          PROVE  Top.owed = {}
      <3>1. Len(frames') = Len(frames)
        BY <2>1, <2>5 DEF Unsubscribe
      <3> QED BY <2>1, <3>1
    <2>6. ASSUME NEW d \in EventData, Publish(d)
          PROVE  Top.owed = {}
      <3>1. Len(frames') = Len(frames) + 1
        BY <2>1, <2>6 DEF Publish
      <3> QED BY <2>1, <3>1
    <2>7. CASE UNCHANGED frames
      BY <2>1, <2>7
    <2> QED BY <2>2, <2>3, <2>4, <2>5, <2>6, <2>7 DEF Next, BusStep, Subscribe,
               SubscribeRefused, Enqueue, EnqueueRefused, DispatchQueued, DrainEnd
  <1> QED BY <1>1, Invariance, PTL DEF Spec, ServedBeforeReturn

-----------------------------------------------------------------------------
(* The ring implements the queue. *)

PendingIsSeq ==
  /\ Pending \in Seq(EventData)
  /\ Len(Pending) = queueCount /\ queueCount \in Nat
  /\ \A i \in 1 .. queueCount : Pending[i] = queue[RingAt(queueHead, i - 1)]

(* The waiting events are a sequence. *)
LEMMA PendingSeq == IInv => PendingIsSeq
  <1> SUFFICES ASSUME IInv PROVE PendingIsSeq
    OBVIOUS
  <1>1. queueCount \in Nat
    BY BusAssumption DEF IInv, TypeOK
  <1>2. \A i \in 1 .. queueCount : queue[RingAt(queueHead, i - 1)] \in EventData
    <2>1. \A i \in 1 .. queueCount : i - 1 \in 0 .. queueCount - 1
      BY <1>1
    <2> QED BY <2>1 DEF IInv, RingConsistent
  <1> QED BY <1>1, <1>2 DEF PendingIsSeq, Pending

(* enqueue() appends to the waiting events. *)
LEMMA EnqueueAppends ==
  ASSUME IInv, NEW d \in EventData, Enqueue(d)
  PROVE  Pending' = Append(Pending, d) /\ Len(Pending) < kEventQueueDepth
  <1> DEFINE c == queueCount
             h == queueHead
  <1>1. /\ h \in Ring /\ c \in 0 .. kEventQueueDepth - 1 /\ c \in Nat
        /\ queueTail = RingAt(h, c)
        /\ queue' = [queue EXCEPT ![queueTail] = d] /\ queue \in [Ring -> Cell]
        /\ queueHead' = h /\ queueCount' = c + 1
    BY BusAssumption DEF IInv, TypeOK, RingConsistent, Enqueue
  <1>2. IInv'
    BY EnqueueInv
  <1>3. /\ Pending \in Seq(EventData) /\ Len(Pending) = c
        /\ \A i \in 1 .. c : Pending[i] = queue[RingAt(h, i - 1)]
    BY PendingSeq DEF PendingIsSeq
  <1>4. /\ Pending' \in Seq(EventData) /\ Len(Pending') = c + 1
        /\ \A i \in 1 .. c + 1 : Pending'[i] = queue'[RingAt(h, i - 1)]
    <2>1. /\ Pending' \in Seq(EventData)
          /\ Len(Pending') = queueCount' /\ queueCount' \in Nat
          /\ \A i \in 1 .. queueCount' : Pending'[i] = queue'[RingAt(queueHead', i - 1)]
      <3>1. PendingIsSeq'
        BY <1>2, PendingSeq, PTL
      <3> QED BY <3>1 DEF PendingIsSeq, RingAt
    <2> QED BY <1>1, <2>1
  <1> HIDE DEF c, h
  <1>5. Append(Pending, d) \in Seq(EventData) /\ Len(Append(Pending, d)) = c + 1
        /\ \A i \in 1 .. c + 1 : Append(Pending, d)[i] = IF i <= c THEN Pending[i] ELSE d
    BY <1>1, <1>3
  <1>6. ASSUME NEW i \in 1 .. c + 1 PROVE Pending'[i] = Append(Pending, d)[i]
    <2>1. CASE i <= c
      <3>1. i \in 1 .. c /\ i - 1 \in 0 .. c - 1
        BY <1>1, <2>1
      <3>2. RingAt(h, i - 1) # queueTail /\ RingAt(h, i - 1) \in Ring
        BY <1>1, <3>1, RingApart
      <3>3. queue'[RingAt(h, i - 1)] = queue[RingAt(h, i - 1)]
        BY <1>1, <3>2
      <3> QED BY <1>3, <1>4, <1>5, <2>1, <3>1, <3>3
    <2>2. CASE ~(i <= c)
      <3>1. i = c + 1 /\ i - 1 = c
        BY <1>1, <2>2
      <3>2. queueTail \in Ring
        BY DEF IInv, TypeOK
      <3>3. queue'[RingAt(h, i - 1)] = d
        BY <1>1, <3>1, <3>2
      <3> QED BY <1>4, <1>5, <2>2, <3>3
    <2> QED BY <2>1, <2>2
  <1>7. Pending' = Append(Pending, d)
    BY <1>4, <1>5, <1>6, SeqEqual
  <1> QED BY <1>1, <1>3, <1>7, BusAssumption

(* dispatchQueued() takes the oldest of the waiting events. *)
LEMMA DequeueTakes ==
  ASSUME IInv, Dequeue
  PROVE  /\ Pending # <<>>
         /\ queue[queueHead] = Head(Pending)
         /\ Pending' = Tail(Pending)
  <1> DEFINE c == queueCount
             h == queueHead
  <1>1. /\ h \in Ring /\ c \in 1 .. kEventQueueDepth /\ c \in Nat
        /\ queue' = queue /\ queueHead' = Succ(h) /\ queueCount' = c - 1
    BY BusAssumption DEF IInv, TypeOK, Dequeue
  <1>2. IInv'
    BY DequeueInv
  <1>3. /\ Pending \in Seq(EventData) /\ Len(Pending) = c
        /\ \A i \in 1 .. c : Pending[i] = queue[RingAt(h, i - 1)]
    BY PendingSeq DEF PendingIsSeq
  <1>4. /\ Pending' \in Seq(EventData) /\ Len(Pending') = c - 1
        /\ \A i \in 1 .. c - 1 : Pending'[i] = queue[RingAt(Succ(h), i - 1)]
    <2>1. /\ Pending' \in Seq(EventData)
          /\ Len(Pending') = queueCount' /\ queueCount' \in Nat
          /\ \A i \in 1 .. queueCount' : Pending'[i] = queue'[RingAt(queueHead', i - 1)]
      <3>1. PendingIsSeq'
        BY <1>2, PendingSeq, PTL
      <3> QED BY <3>1 DEF PendingIsSeq, RingAt
    <2> QED BY <1>1, <2>1
  <1> HIDE DEF c, h
  <1>5. Pending # <<>>
    BY <1>1, <1>3
  <1>6. Head(Pending) = queue[RingAt(h, 0)]
    BY <1>1, <1>3, <1>5
  <1>7. RingAt(h, 0) = h
    BY <1>1, RingWrap, BusAssumption DEF Ring
  <1>8. Tail(Pending) \in Seq(EventData) /\ Len(Tail(Pending)) = c - 1
        /\ \A i \in 1 .. c - 1 : Tail(Pending)[i] = Pending[i + 1]
    BY <1>1, <1>3, <1>5
  <1>9. ASSUME NEW i \in 1 .. c - 1 PROVE Pending'[i] = Tail(Pending)[i]
    <2>1. i - 1 \in 0 .. kEventQueueDepth - 1 /\ i + 1 \in 1 .. c /\ (i + 1) - 1 = (i - 1) + 1
      BY <1>1, BusAssumption
    <2>2. RingAt(Succ(h), i - 1) = RingAt(h, (i - 1) + 1)
      BY <1>1, <2>1, RingShift
    <2> QED BY <1>3, <1>4, <1>8, <2>1, <2>2
  <1>10. Pending' = Tail(Pending)
    BY <1>4, <1>8, <1>9, SeqEqual
  <1> QED BY <1>5, <1>6, <1>7, <1>10 DEF h

(* A step that leaves the ring alone leaves the waiting events alone. *)
LEMMA PendingSame ==
  ASSUME UNCHANGED ringVars PROVE Pending' = Pending
  BY DEF ringVars, Pending, RingAt

(* The event under delivery is that of the outermost activation. *)
LEMMA DeliveringSame ==
  ASSUME draining' = draining,
         \/ frames = <<>> /\ frames' = <<>>
         \/ frames # <<>> /\ frames' # <<>> /\ frames'[1].data = frames[1].data
         \/ ~draining
  PROVE  Delivering' = Delivering
  BY DEF Delivering

(* Every step of the bus is a step of the queue, or leaves it unchanged.   *)
LEMMA QueueStep ==
  ASSUME IInv, [Next]_busVars PROVE [Queue!Next]_(Queue!queueVars)
  <1> USE DEF IInv
  <1>1. frames \in Seq(Frame) /\ Len(frames) \in Nat /\ draining \in BOOLEAN
    BY DEF TypeOK
  <1>2. frames # <<>> => frames[1] \in Frame /\ Len(frames) >= 1
    BY <1>1
  <1>3. \A d \in EventData : d # [id |-> NoEvent]
    BY BusAssumption DEF EventData
  <1>4. CASE UNCHANGED ringVars /\ Delivering' = Delivering
    BY <1>4, PendingSame DEF Queue!queueVars
  <1>5. ASSUME NEW d \in EventData, Enqueue(d) PROVE Queue!Put(d)
    <2>1. UNCHANGED <<draining, frames>>
      BY <1>5 DEF Enqueue
    <2>2. Delivering' = Delivering
      BY <2>1 DEF Delivering
    <2> QED BY <1>5, <2>2, EnqueueAppends DEF Queue!Put
  <1>6. CASE Dequeue
    <2>1. draining /\ frames = <<>> /\ draining' = draining
          /\ frames' = <<Activation(queue[queueHead])>>
      BY <1>6 DEF Dequeue
    <2>2. Delivering = [id |-> NoEvent]
      BY <2>1 DEF Delivering
    <2>3. frames' # <<>> /\ frames'[1].data = queue[queueHead]
      BY <2>1 DEF Activation
    <2>4. Delivering' = queue[queueHead]
      BY <2>1, <2>3 DEF Delivering
    <2> QED BY <1>6, <2>2, <2>4, DequeueTakes DEF Queue!Next, Queue!Take
  <1>7. CASE DispatchReturn
    <2>1. /\ frames # <<>> /\ frames' = SubSeq(frames, 1, Len(frames) - 1)
          /\ draining' = draining /\ UNCHANGED ringVars
      BY <1>7 DEF DispatchReturn
    <2>2. CASE Len(frames) = 1 /\ draining
      <3>1. frames' = <<>>
        BY <1>1, <2>1, <2>2
      <3>2. Delivering = frames[1].data /\ Delivering' = [id |-> NoEvent]
        BY <2>1, <2>2, <3>1 DEF Delivering
      <3>3. frames[1].data \in EventData
        BY <1>2, <2>1 DEF Frame
      <3> QED BY <1>3, <2>1, <3>2, <3>3, PendingSame DEF Queue!Next, Queue!Finish
    <2>3. CASE Len(frames) # 1
      <3>1. Len(frames) - 1 \in Nat /\ Len(frames) - 1 >= 1
        <4> DEFINE n == Len(frames)
        <4>1. n \in Nat /\ n >= 1 /\ n # 1
          BY <1>1, <1>2, <2>1, <2>3
        <4> HIDE DEF n
        <4>2. n - 1 \in Nat /\ n - 1 >= 1
          BY <4>1
        <4> QED BY <4>2 DEF n
      <3>2. Len(frames') = Len(frames) - 1 /\ frames'[1] = frames[1]
        BY <1>1, <2>1, <3>1
      <3>3. frames' # <<>>
        BY <3>1, <3>2
      <3> QED BY <1>4, <2>1, <3>2, <3>3, DeliveringSame
    <2>4. CASE ~draining
      BY <1>4, <2>1, <2>4, DeliveringSame
    <2> QED BY <1>1, <2>2, <2>3, <2>4
  <1>8. CASE Invoke \/ CallbackReturn
    <2>1. PICK f : /\ frames # <<>> /\ f.data = Top.data
                   /\ frames' = [frames EXCEPT ![Len(frames)] = f]
                   /\ draining' = draining /\ UNCHANGED ringVars
      <3>1. frames # <<>>
        BY <1>8 DEF Invoke, CallbackReturn, InCallback
      <3>2. Top \in Frame
        BY <1>1, <1>2, <3>1 DEF Top
      <3> QED BY <1>8, <3>1, <3>2 DEF Invoke, CallbackReturn, ReplaceTop, Frame
    <2>2. frames' # <<>> /\ frames'[1].data = frames[1].data
      BY <1>1, <1>2, <2>1 DEF Top
    <2> QED BY <1>4, <2>1, <2>2, DeliveringSame
  <1>9. ASSUME NEW d \in EventData, Publish(d)
        PROVE  UNCHANGED ringVars /\ Delivering' = Delivering
    <2>1. frames' = Append(frames, Activation(d)) /\ draining' = draining /\ UNCHANGED ringVars
          /\ Activation(d) \in Frame
      BY <1>9, ActivationOwes DEF Publish
    <2>2. CASE frames = <<>>
      <3>1. ~draining
        BY <1>9, <2>2 DEF Publish, UserCall, InMain, InCallback
      <3> QED BY <2>1, <3>1, DeliveringSame
    <2>3. CASE frames # <<>>
      <3>1. frames' # <<>> /\ frames'[1] = frames[1]
        BY <1>1, <1>2, <2>1, <2>3
      <3> QED BY <2>1, <2>3, <3>1, DeliveringSame
    <2> QED BY <2>2, <2>3
  <1>10. ASSUME NEW h \in -1 .. kMaxEventSubscribers, Unsubscribe(h)
         PROVE  UNCHANGED ringVars /\ Delivering' = Delivering
    <2>1. draining' = draining /\ UNCHANGED ringVars
      BY <1>10 DEF Unsubscribe
    <2>2. CASE frames' = frames
      BY <2>1, <2>2 DEF Delivering
    <2>3. CASE frames' = [k \in DOMAIN frames |-> [frames[k] EXCEPT !.owed = @ \ {h}]]
      <3>1. frames = <<>> => frames' = <<>>
        BY <2>3
      <3>2. frames # <<>> => frames' # <<>> /\ frames'[1].data = frames[1].data
        BY <1>1, <1>2, <2>3 DEF Frame
      <3> QED BY <2>1, <3>1, <3>2, DeliveringSame
    <2> QED BY <1>10, <2>2, <2>3 DEF Unsubscribe
  <1>11. CASE DispatchQueued \/ DrainEnd
    <2>1. frames = <<>> /\ frames' = <<>> /\ UNCHANGED ringVars
      BY <1>11 DEF DispatchQueued, DrainEnd, InMain
    <2>2. Delivering' = Delivering
      BY <2>1 DEF Delivering
    <2> QED BY <1>4, <2>1, <2>2
  <1>12. CASE UNCHANGED <<ringVars, draining, frames>>
    <2>1. Delivering' = Delivering
      BY <1>12 DEF Delivering
    <2> QED BY <1>4, <1>12, <2>1
  <1>13. CASE UNCHANGED busVars
    BY <1>12, <1>13 DEF busVars, ringVars
  <1> QED BY <1>4, <1>5, <1>6, <1>7, <1>8, <1>9, <1>10, <1>11, <1>12, <1>13
          DEF Next, BusStep, Subscribe, SubscribeRefused, EnqueueRefused, Queue!Next

(* The ring buffer, and the dispatch() that callbacks re-enter, implement  *)
(* a bounded first-in first-out queue whose events are delivered one at a  *)
(* time, in the order in which enqueue() accepted them.                    *)
THEOREM QueueIsImplemented == Spec => ImplementsQueue
  <1>1. Init => Queue!Init
    <2> SUFFICES ASSUME Init PROVE Queue!Init
      OBVIOUS
    <2>1. Delivering = [id |-> NoEvent]
      BY DEF Init, Delivering
    <2>2. Pending = <<>>
      <3>1. Pending \in Seq(EventData) /\ Len(Pending) = 0
        BY InitInv, PendingSeq DEF Init, PendingIsSeq
      <3> QED BY <3>1, EmptySeq
    <2> QED BY <2>1, <2>2 DEF Queue!Init
  <1>2. IInv /\ [Next]_busVars => [Queue!Next]_(Queue!queueVars)
    BY QueueStep
  <1> QED BY <1>1, <1>2, Invariance, PTL DEF Spec, ImplementsQueue, Queue!Spec

=============================================================================
