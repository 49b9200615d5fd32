------------------------------ MODULE EventBus ------------------------------
(***************************************************************************)
(* The publish/subscribe bus of the kernel, kernel/src/event_bus.cpp: a    *)
(* pool of subscription slots, synchronous publish(), and a ring buffer of *)
(* deferred events that the scheduler drains once per takt.                *)
(*                                                                         *)
(* The bus takes no lock and is meant for the takt loop alone: publishing  *)
(* from other tasks, as Connectivity shows, is not covered.  Yet           *)
(* everything is re-entrant: a subscriber's callback may subscribe,        *)
(* unsubscribe, publish and enqueue while the dispatch() loop that invoked *)
(* it is in the middle of the live slot array.  The call stack of          *)
(* dispatch() activations is therefore part of the state.                  *)
(***************************************************************************)
EXTENDS Integers, Sequences, FiniteSets

CONSTANTS
  Events,                 \* the identifiers a subscription can ask for
  NoEvent,                \* Event::None, the id of a slot never used
  Params,                 \* values of EventData::param1
  kMaxEventSubscribers,   \* size of subscriptions_
  kEventQueueDepth,       \* size of queue_
  MaxCalls                \* bound: bus calls that callbacks make during one
                          \* call of publish() or dispatchQueued() by the
                          \* main program ("bounded work" of a callback)

ASSUME BusAssumption ==
  /\ kMaxEventSubscribers \in Nat \ {0}
  /\ kEventQueueDepth \in Nat \ {0}
  /\ MaxCalls \in Nat
  /\ NoEvent \notin Events

VARIABLES
  subscriptions,     \* Slot -> [event, callback (non-null?), active]
  subscriberCount,
  queue,             \* 0 .. kEventQueueDepth-1 -> EventData
  queueHead,
  queueTail,
  queueCount,
  draining,          \* control is inside dispatchQueued()
  frames,            \* the dispatch() activations, outermost first
  calls              \* bus calls made by callbacks, see MaxCalls

poolVars == <<subscriptions, subscriberCount>>
ringVars == <<queue, queueHead, queueTail, queueCount>>
busVars  == <<subscriptions, subscriberCount, queue, queueHead, queueTail,
              queueCount, draining, frames, calls>>

Slot == 0 .. kMaxEventSubscribers - 1
Ring == 0 .. kEventQueueDepth - 1

EventData == [id : Events, param1 : Params]

(* queue_ is value-initialised: every cell holds an event with id None.    *)
Cell == EventData \cup {[id |-> NoEvent]}

Subscription == [event : Events \cup {NoEvent}, callback : BOOLEAN, active : BOOLEAN]

(***************************************************************************)
(* One activation of dispatch(data): next is the loop variable i, running  *)
(* says that control is inside the callback of slot next.  owed is not in  *)
(* the code: the slots that were subscribed to the event when dispatch()   *)
(* was called, have not been unsubscribed since and have not been invoked. *)
(***************************************************************************)
Frame == [data : EventData, next : Nat, running : BOOLEAN, owed : SUBSET Slot]

Top == frames[Len(frames)]

ActiveSlots == {s \in Slot : subscriptions[s].active}

Listens(s, d) ==
  /\ subscriptions[s].active
  /\ subscriptions[s].event = d.id
  /\ subscriptions[s].callback

-----------------------------------------------------------------------------
Init ==
  /\ subscriptions = [s \in Slot |-> [event |-> NoEvent, callback |-> FALSE, active |-> FALSE]]
  /\ subscriberCount = 0
  /\ queue = [i \in Ring |-> [id |-> NoEvent]]
  /\ queueHead = 0
  /\ queueTail = 0
  /\ queueCount = 0
  /\ draining = FALSE
  /\ frames = <<>>
  /\ calls = 0

(***************************************************************************)
(* Calls that code outside the bus makes.  The main program (a module's    *)
(* init(), tick() or shutdown(), a timer) calls when no dispatch is under  *)
(* way; a callback calls from within the innermost dispatch().             *)
(***************************************************************************)
InMain     == frames = <<>> /\ ~draining
InCallback == frames # <<>> /\ Top.running

UserCall ==
  \/ InMain /\ UNCHANGED calls
  \/ InCallback /\ calls < MaxCalls /\ calls' = calls + 1

IsSlotAtCount(s) == s = subscriberCount

(* The scan of subscribe() stops at the first slot that is not active. *)
IsFirstFree(s) ==
  /\ ~subscriptions[s].active
  /\ \A t \in Slot : t < s => subscriptions[t].active

Subscribe(event, callback) ==
  /\ UserCall
  /\ subscriberCount < kMaxEventSubscribers
  /\ \E s \in Slot :
       /\ IsFirstFree(s)
       /\ subscriptions' = [subscriptions EXCEPT
            ![s] = [event |-> event, callback |-> callback, active |-> TRUE]]
  /\ subscriberCount' = subscriberCount + 1
  /\ UNCHANGED <<ringVars, draining, frames>>

(* subscribe() returns -1: the pool is full, by its count or by the scan. *)
SubscribeRefused ==
  /\ UserCall
  /\ subscriberCount >= kMaxEventSubscribers \/ ActiveSlots = Slot
  /\ UNCHANGED <<poolVars, ringVars, draining, frames>>

(* A stale or invalid handle is ignored, so that a double unsubscribe does *)
(* not count the same slot twice.                                          *)
UnsubscribeUnchecked(handle) ==
  /\ UserCall
  /\ handle \in Slot
  /\ subscriptions' = [subscriptions EXCEPT ![handle].active = FALSE]
  /\ subscriberCount' = subscriberCount - 1
  /\ frames' = [k \in DOMAIN frames |-> [frames[k] EXCEPT !.owed = @ \ {handle}]]
  /\ UNCHANGED <<ringVars, draining>>

Unsubscribe(handle) ==
  /\ UserCall
  /\ IF handle \in Slot /\ subscriptions[handle].active
       THEN /\ subscriptions' = [subscriptions EXCEPT ![handle].active = FALSE]
            /\ subscriberCount' = subscriberCount - 1
            /\ frames' = [k \in DOMAIN frames |->
                            [frames[k] EXCEPT !.owed = @ \ {handle}]]
       ELSE UNCHANGED <<poolVars, frames>>
  /\ UNCHANGED <<ringVars, draining>>

(* The start of dispatch(d): the loop variable is 0. *)
Activation(d) ==
  [data |-> d, next |-> 0, running |-> FALSE, owed |-> {s \in Slot : Listens(s, d)}]

Publish(d) ==
  /\ UserCall
  /\ frames' = Append(frames, Activation(d))
  /\ UNCHANGED <<poolVars, ringVars, draining>>

Succ(i) == (i + 1) % kEventQueueDepth

(* The ring index c cells after index a. *)
RingAt(a, c) == (a + c) % kEventQueueDepth

EnqueueOverwriting(d) ==
  /\ UserCall
  /\ queueCount <= kEventQueueDepth
  /\ queue' = [queue EXCEPT ![queueTail] = d]
  /\ queueTail' = Succ(queueTail)
  /\ queueCount' = queueCount + 1
  /\ UNCHANGED <<poolVars, queueHead, draining, frames>>

Enqueue(d) ==
  /\ UserCall
  /\ queueCount < kEventQueueDepth
  /\ queue' = [queue EXCEPT ![queueTail] = d]
  /\ queueTail' = Succ(queueTail)
  /\ queueCount' = queueCount + 1
  /\ UNCHANGED <<poolVars, queueHead, draining, frames>>

(* enqueue() returns false: "Event queue full, dropping event". *)
EnqueueRefused ==
  /\ UserCall
  /\ queueCount >= kEventQueueDepth
  /\ UNCHANGED <<poolVars, ringVars, draining, frames>>

(* Scheduler::runTakt() enters dispatchQueued(). *)
DispatchQueued ==
  /\ InMain
  /\ draining' = TRUE
  /\ UNCHANGED <<poolVars, ringVars, frames, calls>>

-----------------------------------------------------------------------------
(* The steps of dispatchQueued() and dispatch() themselves. *)

(* The loop of dispatchQueued() takes the oldest event off the ring before *)
(* it dispatches it.                                                       *)
DequeueKeepingCount ==
  /\ draining /\ frames = <<>>
  /\ queueCount > 0
  /\ queueHead' = Succ(queueHead)
  /\ frames' = <<Activation(queue[queueHead])>>
  /\ UNCHANGED <<poolVars, queue, queueTail, queueCount, draining, calls>>

Dequeue ==
  /\ draining /\ frames = <<>>
  /\ queueCount > 0
  /\ queueHead' = Succ(queueHead)
  /\ queueCount' = queueCount - 1
  /\ frames' = <<Activation(queue[queueHead])>>
  /\ UNCHANGED <<poolVars, queue, queueTail, draining, calls>>

DrainEnd ==
  /\ draining /\ frames = <<>>
  /\ queueCount = 0
  /\ draining' = FALSE
  /\ calls' = 0
  /\ UNCHANGED <<poolVars, ringVars, frames>>

(* The slots from next on that the loop of dispatch() would invoke if      *)
(* nothing changed: it reads the live array, so a callback can add to them *)
(* and take from them.                                                     *)
Remaining(f) == {s \in Slot : s >= f.next /\ Listens(s, f.data)}

ReplaceTop(f) == frames' = [frames EXCEPT ![Len(frames)] = f]

(* dispatch() passes over the slots that do not match and invokes the next *)
(* one that does.                                                          *)
Invoke ==
  /\ frames # <<>> /\ ~Top.running
  /\ \E s \in Remaining(Top) :
       /\ \A t \in Remaining(Top) : s <= t
       /\ ReplaceTop([Top EXCEPT !.next = s, !.running = TRUE, !.owed = @ \ {s}])
  /\ UNCHANGED <<poolVars, ringVars, draining, calls>>

CallbackReturnSkipping ==
  /\ InCallback
  /\ ReplaceTop([Top EXCEPT !.next = @ + 2, !.running = FALSE])
  /\ UNCHANGED <<poolVars, ringVars, draining, calls>>

CallbackReturn ==
  /\ InCallback
  /\ ReplaceTop([Top EXCEPT !.next = @ + 1, !.running = FALSE])
  /\ UNCHANGED <<poolVars, ringVars, draining, calls>>

(* dispatch() returns when no slot is left.  When control is back in the   *)
(* main program the callbacks' allowance of calls is restored.             *)
DispatchReturn ==
  /\ frames # <<>> /\ ~Top.running
  /\ Remaining(Top) = {}
  /\ frames' = SubSeq(frames, 1, Len(frames) - 1)
  /\ calls' = IF Len(frames) = 1 /\ ~draining THEN 0 ELSE calls
  /\ UNCHANGED <<poolVars, ringVars, draining>>

BusStep == Dequeue \/ DrainEnd \/ Invoke \/ CallbackReturn \/ DispatchReturn

Next ==
  \/ \E e \in Events, c \in BOOLEAN : Subscribe(e, c)
  \/ SubscribeRefused
  \/ \E h \in -1 .. kMaxEventSubscribers : Unsubscribe(h)
  \/ \E d \in EventData : Publish(d) \/ Enqueue(d)
  \/ EnqueueRefused
  \/ DispatchQueued
  \/ BusStep

Spec == Init /\ [][Next]_busVars

(* The loops of the bus run on, and a callback, whose calls are bounded,   *)
(* returns: both are the same thread's next instruction.                   *)
FairSpec == Spec /\ WF_busVars(BusStep)

-----------------------------------------------------------------------------
(* The types; the counters stay within the arrays they index. *)
TypeOK ==
  /\ subscriptions \in [Slot -> Subscription]
  /\ subscriberCount \in 0 .. kMaxEventSubscribers
  /\ queue \in [Ring -> Cell]
  /\ queueHead \in Ring
  /\ queueTail \in Ring
  /\ queueCount \in 0 .. kEventQueueDepth
  /\ draining \in BOOLEAN
  /\ frames \in Seq(Frame)
  /\ calls \in 0 .. MaxCalls

(* subscriberCount_ is the number of active slots, whatever handles are    *)
(* passed to unsubscribe() and from wherever: otherwise subscribe() would  *)
(* refuse while slots are free, or never find one.                         *)
CountExact == subscriberCount = Cardinality(ActiveSlots)

(* head, tail and count of the ring agree, and the cells between head and  *)
(* tail hold accepted events, never the zero event the array starts with.  *)
RingConsistent ==
  /\ queueTail = RingAt(queueHead, queueCount)
  /\ \A i \in 0 .. queueCount - 1 : queue[RingAt(queueHead, i)] \in EventData

(* No subscriber is passed over: a slot that has been subscribed to the    *)
(* event since dispatch() was called is still ahead of its loop variable,  *)
(* in every activation on the stack, whatever the callbacks did to the     *)
(* slot array in between.                                                  *)
NobodyPassedOver ==
  \A k \in 1 .. Len(frames) : \A s \in frames[k].owed :
    /\ Listens(s, frames[k].data)
    /\ s >= frames[k].next
    /\ frames[k].running => s > frames[k].next

(* dispatch() returns only when every subscriber that was there from the   *)
(* start, and still is, has been invoked.                                  *)
ServedBeforeReturn == [][Len(frames') < Len(frames) => Top.owed = {}]_busVars

(* dispatchQueued() returns to the scheduler although callbacks enqueue    *)
(* further events that the same loop delivers, as long as what they do is  *)
(* bounded.                                                                *)
DrainEnds == draining ~> ~draining

-----------------------------------------------------------------------------
(* The waiting events in the order in which the ring delivers them. *)
Pending == [i \in 1 .. queueCount |-> queue[RingAt(queueHead, i - 1)]]

(* The queued event under delivery: the outermost activation of a drain. *)
Delivering == IF draining /\ frames # <<>> THEN frames[1].data ELSE [id |-> NoEvent]

Queue == INSTANCE EventQueue WITH
  Data <- EventData, Capacity <- kEventQueueDepth, Nothing <- [id |-> NoEvent],
  pending <- Pending, current <- Delivering

(* The ring buffer and the re-entrant dispatch implement a bounded FIFO    *)
(* queue with one delivery at a time.                                      *)
ImplementsQueue == Queue!Spec

=============================================================================
