------------------------- MODULE TimerManagerProofs -------------------------
(***************************************************************************)
(* Proofs about TimerManager.tla, for every number of timers, pool size,   *)
(* interval, takt period, word size and kind of program.                   *)
(*                                                                         *)
(* The invariant comes in two parts.  One holds whatever the program does  *)
(* with its timers: the count of the pool is exact, and a timer that was   *)
(* there when the walk began was ticked or is still ahead of it.  The      *)
(* other is that of a disciplined program: every entry is alive, known to  *)
(* its timer and has a callback (which is what keeps onTimeout() from      *)
(* being called again), and the counters of a timer agree with the         *)
(* position of the walk.                                                   *)
(***************************************************************************)
EXTENDS TimerManager, FiniteSetTheorems, TLAPS

(* The walk has dealt with the entry s. *)
Done(s) == s < cursor \/ (s = cursor /\ firing # nullptr)

(* A callback belongs to the entry at the cursor, inside a walk. *)
FiringSound ==
  firing # nullptr =>
    /\ walking /\ cursor \in Slot
    /\ timers[cursor] = firing /\ obj[firing].alive

(* Nobody who was in the pool is passed over by the walk. *)
NotPassedOver ==
  walking => \A t \in present :
    \/ obj[t].alive /\ ticks[t] >= 1
    \/ \E s \in Slot : timers[s] = t /\ ~Done(s)

(* The entries of a disciplined program. *)
EntriesOwned ==
  Disciplined => \A s \in Pooled :
    obj[timers[s]].alive /\ obj[timers[s]].handle = s /\ obj[timers[s]].callback

(* ... which the walk has ticked once, or not yet. *)
TickedSoFar ==
  Disciplined /\ walking => \A t \in present :
    /\ OwnsSlot(t)
    /\ ticks[t] = IF Done(obj[t].handle) THEN 1 ELSE 0

(* ... and whose counters are not ahead of the takts they have seen: the   *)
(* takt that is under way counts for those the walk has dealt with.        *)
NotAhead ==
  Disciplined => \A t \in Timers : obj[t].active =>
    \/ age[t] = MaxAge
    \/ obj[t].elapsed <= TaktPeriod * age[t]
    \/ /\ obj[t].elapsed <= TaktPeriod * (age[t] + 1)
       /\ walking => OwnsSlot(t) /\ Done(obj[t].handle)

IInv ==
  /\ TypeOK
  /\ CountExact
  /\ FiringSound
  /\ NotPassedOver
  /\ EntriesOwned
  /\ TickedSoFar
  /\ NotAhead

-----------------------------------------------------------------------------
(* Takts and the time they take. *)
LEMMA TaktTime ==
  ASSUME NEW a \in Nat
  PROVE  /\ TaktPeriod * a \in Nat
         /\ TaktPeriod * (a + 1) = TaktPeriod * a + TaktPeriod
  BY TimerAssumption

(* The counter of a timer wraps, and so only falls behind. *)
LEMMA CounterWraps ==
  ASSUME NEW x \in Nat
  PROVE  x % WordSize \in 0 .. WordSize - 1 /\ x % WordSize <= x
  BY TimerAssumption

(* The pool is finite, and so is every part of it. *)
LEMMA SlotsFinite ==
  /\ IsFiniteSet(Slot)
  /\ Cardinality(Slot) = kMaxTimers
  /\ \A S \in SUBSET Slot : IsFiniteSet(S) /\ Cardinality(S) \in 0 .. kMaxTimers
  <1>1. IsFiniteSet(Slot) /\ Cardinality(Slot) = kMaxTimers
    BY FS_Interval, TimerAssumption DEF Slot
  <1>2. ASSUME NEW S \in SUBSET Slot
        PROVE  IsFiniteSet(S) /\ Cardinality(S) \in 0 .. kMaxTimers
    BY <1>1, FS_Subset, FS_CardinalityType, TimerAssumption
  <1> QED BY <1>1, <1>2

(* Storage that holds no object is a record like any other. *)
LEMMA StorageType == Storage \in Timer /\ NoHandle \notin Slot
  BY TimerAssumption DEF Storage, Timer, NoHandle, Slot

(* Initially no object exists and the pool is empty. *)
LEMMA InitInv == Init => IInv
  <1> SUFFICES ASSUME Init PROVE IInv
    OBVIOUS
  <1>1. TypeOK
    <2>1. obj \in [Timers -> Timer]
      BY StorageType DEF Init
    <2>2. age \in [Timers -> 0 .. MaxAge] /\ ticks \in [Timers -> 0 .. 2]
      BY TimerAssumption DEF Init
    <2>3. activeCount \in 0 .. kMaxTimers /\ cursor \in 0 .. kMaxTimers
      BY TimerAssumption DEF Init
    <2> QED BY <2>1, <2>2, <2>3 DEF Init, TypeOK
  <1>2. Pooled = {}
    BY DEF Init, Pooled
  <1>3. CountExact
    BY <1>2, FS_EmptySet DEF Init, CountExact
  <1>4. FiringSound /\ NotPassedOver /\ EntriesOwned /\ TickedSoFar
    BY <1>2 DEF Init, FiringSound, NotPassedOver, EntriesOwned, TickedSoFar
  <1>5. NotAhead
    BY DEF Init, NotAhead, Storage
  <1> QED BY <1>1, <1>3, <1>4, <1>5 DEF IInv

(* A pool that does not change keeps its count. *)
LEMMA CountKept == CountExact /\ UNCHANGED <<timers, activeCount>> => CountExact'
  BY DEF CountExact, Pooled

(* Timer(): a dead object is in nobody's way. *)
LEMMA ConstructInv ==
  ASSUME IInv, UNCHANGED usage, NEW t \in Timers, NEW i \in Intervals, NEW r \in BOOLEAN,
         Construct(t, i, r)
  PROVE  IInv'
  <1> USE DEF IInv
  <1> DEFINE o == [Storage EXCEPT !.alive = TRUE, !.interval = i, !.repeat = r]
  <1>1. o \in Timer /\ o.alive /\ ~o.active
    BY StorageType DEF Storage, Timer
  <1>2. /\ ~obj[t].alive
        /\ obj' = [obj EXCEPT ![t] = o]
        /\ age' = [age EXCEPT ![t] = 0] /\ ticks' = [ticks EXCEPT ![t] = 0]
        /\ UNCHANGED <<timers, activeCount, walking, cursor, firing, present>>
    BY DEF Construct, walkVars
  <1>3. TypeOK'
    BY <1>1, <1>2, TimerAssumption DEF TypeOK
  <1>4. FiringSound' /\ CountExact'
    BY <1>2, CountKept DEF FiringSound, TypeOK
  <1>5. NotPassedOver'
    BY <1>2 DEF NotPassedOver, TypeOK, Done
  <1>6. Disciplined => \A s \in Pooled : timers[s] # t
    BY <1>2 DEF EntriesOwned
  <1>7. EntriesOwned'
    BY <1>2, <1>6 DEF EntriesOwned, Pooled, TypeOK, Disciplined
  <1>8. TickedSoFar'
    <2>1. Disciplined /\ walking => t \notin present
      BY <1>6, TimerAssumption DEF TickedSoFar, OwnsSlot, Pooled
    <2> QED BY <1>2, <2>1 DEF TickedSoFar, OwnsSlot, Done, TypeOK, Disciplined
  <1>9. NotAhead'
    BY <1>1, <1>2 DEF NotAhead, OwnsSlot, Done, TypeOK, Disciplined
  <1> QED BY <1>3, <1>4, <1>5, <1>7, <1>8, <1>9

(* setInterval(), setRepeat(), start(), stop() and reset() leave the       *)
(* handle and the callback of an object alone, and its counter unless it   *)
(* is set to 0 together with its age.                                      *)
LEMMA OperateInv ==
  ASSUME IInv, UNCHANGED usage, NEW t \in Timers, NEW o \in Timer, NEW a \in 0 .. MaxAge,
         obj[t].alive, o.alive,
         o.handle = obj[t].handle, o.callback = obj[t].callback,
         o.active => \/ obj[t].active /\ o.elapsed = obj[t].elapsed /\ a = age[t]
                     \/ o.elapsed = 0,
         obj' = [obj EXCEPT ![t] = o], age' = [age EXCEPT ![t] = a],
         UNCHANGED <<timers, activeCount, walking, cursor, firing, present, ticks>>
  PROVE  IInv'
  <1> USE DEF IInv
  <1>1. TypeOK'
    BY DEF TypeOK
  <1>2. FiringSound' /\ CountExact'
    BY CountKept DEF FiringSound, TypeOK
  <1>3. NotPassedOver'
    BY DEF NotPassedOver, TypeOK, Done
  <1>4. EntriesOwned'
    BY DEF EntriesOwned, Pooled, TypeOK, Disciplined
  <1>5. \A v \in Timers : OwnsSlot(v)' <=> OwnsSlot(v)
    BY DEF OwnsSlot, TypeOK
  <1>6. \A v \in Timers : obj'[v].handle = obj[v].handle
    BY DEF TypeOK
  <1>7. TickedSoFar'
    BY <1>5, <1>6 DEF TickedSoFar, Done, TypeOK, Disciplined
  <1>8. NotAhead'
    <2>1. TaktPeriod * a \in Nat
      BY TaktTime, TimerAssumption
    <2>2. ASSUME NEW v \in Timers, v # t, Disciplined, obj[v].active
          PROVE  obj'[v] = obj[v] /\ age'[v] = age[v]
      BY <2>2 DEF TypeOK
    <2>3. obj'[t] = o /\ age'[t] = a
      BY DEF TypeOK
    <2> QED BY <1>5, <1>6, <2>1, <2>2, <2>3 DEF NotAhead, Done, TypeOK, Disciplined
  <1> QED BY <1>1, <1>2, <1>3, <1>4, <1>7, <1>8

(* The operations that OperateInv is about. *)
LEMMA OperationsInv ==
  ASSUME IInv, UNCHANGED usage, NEW t \in Timers,
         \/ \E i \in Intervals : SetInterval(t, i)
         \/ \E r \in BOOLEAN : SetRepeat(t, r)
         \/ Start(t) \/ Stop(t) \/ Reset(t)
  PROVE  IInv'
  <1> USE DEF IInv
  <1>1. obj[t] \in Timer /\ age[t] \in 0 .. MaxAge /\ age = [age EXCEPT ![t] = age[t]]
    BY DEF TypeOK
  <1>2. 0 \in 0 .. WordSize - 1 /\ 0 \in 0 .. MaxAge
    BY TimerAssumption
  <1>3. ASSUME NEW i \in Intervals, SetInterval(t, i) PROVE IInv'
    <2> DEFINE o == [obj[t] EXCEPT !.interval = i]
    <2>1. o \in Timer /\ o.alive = obj[t].alive /\ o.handle = obj[t].handle
          /\ o.callback = obj[t].callback /\ o.active = obj[t].active
          /\ o.elapsed = obj[t].elapsed
      BY <1>1 DEF Timer
    <2>2. /\ obj[t].alive /\ obj' = [obj EXCEPT ![t] = o] /\ age' = [age EXCEPT ![t] = age[t]]
          /\ UNCHANGED <<timers, activeCount, walking, cursor, firing, present, ticks>>
      BY <1>1, <1>3 DEF SetInterval, walkVars, histVars
    <2> QED BY <1>1, <2>1, <2>2, OperateInv
  <1>4. ASSUME NEW r \in BOOLEAN, SetRepeat(t, r) PROVE IInv'
    <2> DEFINE o == [obj[t] EXCEPT !.repeat = r]
    <2>1. o \in Timer /\ o.alive = obj[t].alive /\ o.handle = obj[t].handle
          /\ o.callback = obj[t].callback /\ o.active = obj[t].active
          /\ o.elapsed = obj[t].elapsed
      BY <1>1 DEF Timer
    <2>2. /\ obj[t].alive /\ obj' = [obj EXCEPT ![t] = o] /\ age' = [age EXCEPT ![t] = age[t]]
          /\ UNCHANGED <<timers, activeCount, walking, cursor, firing, present, ticks>>
      BY <1>1, <1>4 DEF SetRepeat, walkVars, histVars
    <2> QED BY <1>1, <2>1, <2>2, OperateInv
  <1>5. CASE Start(t)
    <2> DEFINE o == [obj[t] EXCEPT !.elapsed = 0, !.active = TRUE]
    <2>1. o \in Timer /\ o.alive = obj[t].alive /\ o.handle = obj[t].handle
          /\ o.callback = obj[t].callback /\ o.elapsed = 0
      BY <1>1, <1>2 DEF Timer
    <2>2. /\ obj[t].alive /\ obj' = [obj EXCEPT ![t] = o] /\ age' = [age EXCEPT ![t] = 0]
          /\ UNCHANGED <<timers, activeCount, walking, cursor, firing, present, ticks>>
      BY <1>5 DEF Start, walkVars
    <2> QED BY <1>2, <2>1, <2>2, OperateInv
  <1>6. CASE Stop(t)
    <2> DEFINE o == [obj[t] EXCEPT !.active = FALSE]
    <2>1. o \in Timer /\ o.alive = obj[t].alive /\ o.handle = obj[t].handle
          /\ o.callback = obj[t].callback /\ ~o.active
      BY <1>1 DEF Timer
    <2>2. /\ obj[t].alive /\ obj' = [obj EXCEPT ![t] = o] /\ age' = [age EXCEPT ![t] = age[t]]
          /\ UNCHANGED <<timers, activeCount, walking, cursor, firing, present, ticks>>
      BY <1>1, <1>6 DEF Stop, walkVars
    <2> QED BY <1>1, <2>1, <2>2, OperateInv
  <1>7. CASE Reset(t)
    <2> DEFINE o == [obj[t] EXCEPT !.elapsed = 0]
    <2>1. o \in Timer /\ o.alive = obj[t].alive /\ o.handle = obj[t].handle
          /\ o.callback = obj[t].callback /\ o.elapsed = 0
      BY <1>1, <1>2 DEF Timer
    <2>2. /\ obj[t].alive /\ obj' = [obj EXCEPT ![t] = o] /\ age' = [age EXCEPT ![t] = 0]
          /\ UNCHANGED <<timers, activeCount, walking, cursor, firing, present, ticks>>
      BY <1>7 DEF Reset, walkVars, histVars
    <2> QED BY <1>2, <2>1, <2>2, OperateInv
  <1> QED BY <1>3, <1>4, <1>5, <1>6, <1>7

(* onTimeout() takes a free slot, or is refused.  A disciplined program    *)
(* calls it for a timer without callback, which is not in the pool.        *)
LEMMA OnTimeoutInv ==
  ASSUME IInv, UNCHANGED usage, NEW t \in Timers, OnTimeout(t)
  PROVE  IInv'
  <1> USE DEF IInv
  <1>1. /\ obj[t] \in Timer /\ obj[t].alive /\ t # firing
        /\ Disciplined => ~obj[t].callback
        /\ UNCHANGED <<walking, cursor, firing, age, present, ticks>>
    BY DEF OnTimeout, Usable, TypeOK, walkVars, histVars, Disciplined
  <1>2. Disciplined => \A s \in Pooled : timers[s] # t
    BY <1>1 DEF EntriesOwned
  <1>3. Disciplined /\ walking => t \notin present
    BY <1>2, TimerAssumption DEF TickedSoFar, OwnsSlot, Pooled
  <1>4. ASSUME NEW s \in Slot, timers[s] = nullptr,
               timers' = [timers EXCEPT ![s] = t],
               obj' = [obj EXCEPT ![t].callback = TRUE, ![t].handle = s],
               activeCount < kMaxTimers, activeCount' = activeCount + 1
        PROVE  IInv'
    <2> DEFINE o == [obj[t] EXCEPT !.callback = TRUE, !.handle = s]
    <2>1. /\ o \in Timer /\ o.handle = s /\ o.callback
          /\ o.alive = obj[t].alive /\ o.active = obj[t].active /\ o.elapsed = obj[t].elapsed
      <3>1. s \in 0 .. NoHandle
        BY TimerAssumption DEF Slot, NoHandle
      <3> QED BY <1>1, <3>1 DEF Timer
    <2>2. obj' = [obj EXCEPT ![t] = o]
      BY <1>4
    <2>3. TypeOK'
      BY <1>1, <1>4, <2>1, <2>2, TimerAssumption DEF TypeOK
    <2>4. CountExact'
      <3>1. Pooled' = Pooled \cup {s} /\ s \notin Pooled
        BY <1>4, TimerAssumption DEF Pooled, TypeOK
      <3>2. Cardinality(Pooled \cup {s}) = Cardinality(Pooled) + 1
        BY <3>1, SlotsFinite, FS_AddElement DEF Pooled
      <3> QED BY <1>4, <3>1, <3>2 DEF CountExact
    <2>5. FiringSound'
      BY <1>1, <1>4, <2>2 DEF FiringSound, TypeOK
    <2>6. NotPassedOver'
      <3>1. \A v \in Timers, x \in Slot : timers[x] = v => timers'[x] = v
        BY <1>4, TimerAssumption DEF TypeOK
      <3>2. \A v \in Timers : obj[v].alive => obj'[v].alive
        BY <1>1, <2>1, <2>2 DEF TypeOK
      <3> QED BY <1>1, <3>1, <3>2 DEF NotPassedOver, Done, TypeOK
    <2>7. EntriesOwned'
      BY <1>1, <1>2, <1>4, <2>1, <2>2 DEF EntriesOwned, Pooled, TypeOK, Disciplined
    <2>8. \A v \in Timers : v # t /\ OwnsSlot(v) =>
            OwnsSlot(v)' /\ obj'[v].handle = obj[v].handle
      BY <1>4, <2>2, TimerAssumption DEF OwnsSlot, TypeOK
    <2>9. TickedSoFar'
      BY <1>1, <1>3, <2>8 DEF TickedSoFar, Done, TypeOK, Disciplined
    <2>10. NotAhead'
      <3>1. ASSUME NEW v \in Timers, v # t
            PROVE  obj'[v] = obj[v]
        BY <2>2, <3>1 DEF TypeOK
      <3>2. obj'[t] = o
        BY <2>2 DEF TypeOK
      <3>3. Disciplined => ~OwnsSlot(t)
        BY <1>2, TimerAssumption DEF OwnsSlot, Pooled
      <3> SUFFICES ASSUME Disciplined, NEW v \in Timers, obj'[v].active
                   PROVE  \/ age[v] = MaxAge
                          \/ obj'[v].elapsed <= TaktPeriod * age[v]
                          \/ /\ obj'[v].elapsed <= TaktPeriod * (age[v] + 1)
                             /\ walking => OwnsSlot(v)' /\ Done(obj'[v].handle)
        BY <1>1 DEF NotAhead, Done, Disciplined
      <3>4. CASE v = t
        BY <2>1, <3>2, <3>3, <3>4 DEF NotAhead
      <3>5. CASE v # t
        BY <2>8, <3>1, <3>5 DEF NotAhead
      <3> QED BY <3>4, <3>5
    <2> QED BY <2>3, <2>4, <2>5, <2>6, <2>7, <2>9, <2>10
  <1>5. ASSUME obj' = [obj EXCEPT ![t].callback = TRUE], UNCHANGED <<timers, activeCount>>
        PROVE  IInv'
    <2> DEFINE o == [obj[t] EXCEPT !.callback = TRUE]
    <2>1. /\ o \in Timer /\ o.handle = obj[t].handle /\ o.callback
          /\ o.alive = obj[t].alive /\ o.active = obj[t].active /\ o.elapsed = obj[t].elapsed
      BY <1>1 DEF Timer
    <2>2. obj' = [obj EXCEPT ![t] = o]
      BY <1>5
    <2>3. TypeOK'
      BY <1>1, <1>5, <2>1, <2>2 DEF TypeOK
    <2>4. \A v \in Timers :
            /\ obj'[v].alive = obj[v].alive /\ obj'[v].handle = obj[v].handle
            /\ obj'[v].active = obj[v].active /\ obj'[v].elapsed = obj[v].elapsed
            /\ obj[v].callback => obj'[v].callback
      BY <2>1, <2>2 DEF TypeOK
    <2>5. CountExact' /\ FiringSound' /\ NotPassedOver'
      BY <1>1, <1>5, <2>4, CountKept DEF FiringSound, NotPassedOver, Done, TypeOK
    <2>6. EntriesOwned'
      BY <1>5, <2>4 DEF EntriesOwned, Pooled, TypeOK, Disciplined
    <2>7. \A v \in Timers : OwnsSlot(v)' <=> OwnsSlot(v)
      BY <1>5, <2>4 DEF OwnsSlot
    <2>8. TickedSoFar' /\ NotAhead'
      BY <1>1, <2>4, <2>7 DEF TickedSoFar, NotAhead, Done, TypeOK, Disciplined
    <2> QED BY <2>3, <2>5, <2>6, <2>8
  <1> QED BY <1>4, <1>5 DEF OnTimeout, RegisterTimer, IsFirstFree

(* unregisterTimer() leaves the count exact and the other entries alone.   *)
LEMMA ReleaseKeepsPool ==
  ASSUME TypeOK, CountExact, NEW t \in Timers, ReleaseSlot(t)
  PROVE  /\ timers' \in [Slot -> Timers \cup {nullptr}]
         /\ activeCount' \in 0 .. kMaxTimers
         /\ CountExact'
         /\ \A s \in Slot : timers[s] # t => timers'[s] = timers[s]
         /\ \A s \in Slot : timers'[s] = timers[s] \/ (timers'[s] = nullptr /\ OwnsSlot(t))
         /\ OwnsSlot(t) => timers'[obj[t].handle] = nullptr
  <1>1. CASE OwnsSlot(t)
    <2> DEFINE h == obj[t].handle
    <2>1. /\ h \in Slot /\ timers[h] = t
          /\ timers' = [timers EXCEPT ![h] = nullptr] /\ activeCount' = activeCount - 1
      BY <1>1 DEF ReleaseSlot, OwnsSlot
    <2>2. Pooled' = Pooled \ {h} /\ h \in Pooled
      BY <2>1, TimerAssumption DEF Pooled, TypeOK
    <2>3. /\ Cardinality(Pooled \ {h}) = Cardinality(Pooled) - 1
          /\ Cardinality(Pooled \ {h}) \in 0 .. kMaxTimers
      BY <2>2, SlotsFinite, FS_RemoveElement DEF Pooled
    <2> QED BY <1>1, <2>1, <2>2, <2>3 DEF CountExact, TypeOK
  <1>2. CASE ~OwnsSlot(t)
    BY <1>2, CountKept DEF ReleaseSlot, TypeOK
  <1> QED BY <1>1, <1>2

(* ~Timer(): in a disciplined program no entry is left that points to it.  *)
LEMMA DestroyInv ==
  ASSUME IInv, UNCHANGED usage, NEW t \in Timers, Destroy(t)
  PROVE  IInv'
  <1> USE DEF IInv
  <1>1. /\ t # firing
        /\ ReleaseSlot(t)
        /\ obj' = [obj EXCEPT ![t] = Storage]
        /\ present' = present \ {t}
        /\ UNCHANGED <<walking, cursor, firing, age, ticks>>
    BY DEF Destroy, Usable, walkVars
  <1>2. TypeOK' /\ CountExact'
    BY <1>1, ReleaseKeepsPool, StorageType DEF TypeOK
  <1>3. FiringSound'
    BY <1>1, ReleaseKeepsPool DEF FiringSound, TypeOK
  <1>4. NotPassedOver'
    BY <1>1, ReleaseKeepsPool DEF NotPassedOver, Done, TypeOK
  <1>5. Disciplined => \A s \in Slot : timers'[s] # t
    <2> SUFFICES ASSUME Disciplined, NEW s \in Slot, timers[s] = t
                 PROVE  timers'[s] # t
      BY <1>1, ReleaseKeepsPool, TimerAssumption
    <2>1. s \in Pooled /\ obj[t].handle = s
      BY TimerAssumption DEF Pooled, EntriesOwned
    <2>2. OwnsSlot(t)
      BY <2>1 DEF OwnsSlot
    <2> QED BY <1>1, <2>1, <2>2, ReleaseKeepsPool, TimerAssumption
  <1>6. EntriesOwned'
    BY <1>1, <1>5, ReleaseKeepsPool DEF EntriesOwned, Pooled, TypeOK, Disciplined
  <1>7. \A v \in Timers : v # t =>
          obj'[v] = obj[v] /\ (OwnsSlot(v) => OwnsSlot(v)')
    BY <1>1, ReleaseKeepsPool DEF OwnsSlot, TypeOK
  <1>8. TickedSoFar'
    BY <1>1, <1>7 DEF TickedSoFar, Done, TypeOK, Disciplined
  <1>9. NotAhead'
    <2>1. ~obj'[t].active
      BY <1>1 DEF TypeOK, Storage
    <2> QED BY <1>1, <1>7, <2>1 DEF NotAhead, Done, TypeOK, Disciplined
  <1> QED BY <1>2, <1>3, <1>4, <1>6, <1>8, <1>9

(* Moves, which a disciplined program does not make: only the count and    *)
(* the progress of the walk are at stake.                                  *)
LEMMA MoveInv ==
  ASSUME IInv, UNCHANGED usage, NEW u \in Timers, NEW t \in Timers,
         MoveConstruct(u, t) \/ MoveAssign(u, t)
  PROVE  IInv'
  <1> USE DEF IInv
  <1>1. /\ obj[t].alive /\ u # t /\ t # firing /\ u # firing
        /\ obj' = [obj EXCEPT ![u] = obj[t], ![t] = MovedFrom(t)]
        /\ age' = [age EXCEPT ![u] = age[t]]
        /\ UNCHANGED <<walking, cursor, firing, ticks>>
    BY TimerAssumption DEF MoveConstruct, MoveAssign, Usable, walkVars, histVars, FiringSound
  <1>2. ~Disciplined /\ ~Disciplined'
    BY DEF MoveConstruct, MoveAssign, Disciplined
  <1>3. obj[t] \in Timer /\ MovedFrom(t) \in Timer /\ MovedFrom(t).alive
    <2>1. obj[t] \in Timer /\ NoHandle \in 0 .. NoHandle
      BY TimerAssumption DEF TypeOK, NoHandle
    <2> QED BY <1>1, <2>1 DEF MovedFrom, Timer
  <1>4. /\ obj' \in [Timers -> Timer]
        /\ obj'[u].alive /\ obj'[t].alive
        /\ \A v \in Timers : v # u /\ v # t => obj'[v] = obj[v]
    BY <1>1, <1>3 DEF TypeOK
  <1>5. age' \in [Timers -> 0 .. MaxAge]
    BY <1>1 DEF TypeOK
  <1>6. CASE MoveConstruct(u, t)
    <2>1. UNCHANGED <<timers, activeCount, present>>
      BY <1>6 DEF MoveConstruct, histVars
    <2>2. TypeOK' /\ CountExact' /\ FiringSound'
      BY <1>1, <1>4, <1>5, <2>1, CountKept DEF TypeOK, FiringSound
    <2>3. NotPassedOver'
      BY <1>1, <1>4, <2>1 DEF NotPassedOver, Done, TypeOK
    <2> QED BY <1>2, <2>2, <2>3 DEF EntriesOwned, TickedSoFar, NotAhead
  <1>7. CASE MoveAssign(u, t)
    <2>1. ReleaseSlot(u) /\ present' = IF OwnsSlot(u) THEN present \ {u} ELSE present
      BY <1>7 DEF MoveAssign
    <2>2. TypeOK' /\ CountExact' /\ FiringSound'
      BY <1>1, <1>4, <1>5, <2>1, ReleaseKeepsPool DEF TypeOK, FiringSound
    <2>3. \A v \in present' : \A s \in Slot : timers[s] = v => timers'[s] = v
      BY <2>1, ReleaseKeepsPool
    <2>4. NotPassedOver'
      BY <1>1, <1>4, <2>1, <2>3 DEF NotPassedOver, Done, TypeOK
    <2> QED BY <1>2, <2>2, <2>4 DEF EntriesOwned, TickedSoFar, NotAhead
  <1> QED BY <1>6, <1>7

-----------------------------------------------------------------------------
(* A walk begins: everybody in the pool is ahead of it. *)
LEMMA TickBeginInv ==
  ASSUME IInv, UNCHANGED usage, TickBegin
  PROVE  IInv'
  <1> USE DEF IInv
  <1>1. /\ ~walking /\ walking' /\ cursor' = 0
        /\ firing = nullptr /\ firing' = nullptr
        /\ present' = {timers[s] : s \in Pooled}
        /\ ticks' = [t \in Timers |-> 0]
        /\ UNCHANGED <<timers, activeCount, obj>>
    BY DEF TickBegin, FiringSound, TypeOK
  <1>2. \A t \in Timers : age'[t] = IF obj[t].active /\ age[t] < MaxAge
                                     THEN age[t] + 1 ELSE age[t]
    BY DEF TickBegin
  <1>3. age' \in [Timers -> 0 .. MaxAge]
    <2>1. \A t \in Timers : age[t] \in 0 .. MaxAge
      BY DEF TypeOK
    <2> QED BY <2>1, TimerAssumption DEF TickBegin
  <1>4. present' \subseteq Timers
    BY <1>1 DEF Pooled, TypeOK
  <1>5. TypeOK'
    BY <1>1, <1>3, <1>4, TimerAssumption DEF TypeOK, TickBegin
  <1>6. \A s \in Slot : ~Done(s)'
    BY <1>1, TimerAssumption DEF Done, Slot
  <1>7. NotPassedOver'
    BY <1>1, <1>6 DEF NotPassedOver, Pooled
  <1>8. CountExact' /\ FiringSound'
    BY <1>1, CountKept DEF FiringSound
  <1>9. EntriesOwned'
    BY <1>1 DEF EntriesOwned, Pooled, Disciplined
  <1>10. TickedSoFar'
    <2>1. Disciplined => \A t \in present' : OwnsSlot(t)' /\ obj'[t].handle \in Slot
      BY <1>1 DEF EntriesOwned, OwnsSlot, Pooled
    <2> QED BY <1>1, <1>4, <1>6, <2>1 DEF TickedSoFar, Disciplined
  <1>11. NotAhead'
    <2> SUFFICES ASSUME Disciplined, NEW t \in Timers, obj[t].active
                 PROVE  age'[t] = MaxAge \/ obj[t].elapsed <= TaktPeriod * age'[t]
      BY <1>1 DEF NotAhead, Disciplined
    <2>1. CASE age[t] = MaxAge
      BY <1>2, <2>1, TimerAssumption
    <2>2. CASE age[t] # MaxAge
      <3>1. age[t] \in Nat /\ age'[t] = age[t] + 1 /\ obj[t].elapsed \in Nat
        <4>1. age[t] \in 0 .. MaxAge /\ obj[t] \in Timer /\ MaxAge \in Nat /\ WordSize \in Nat
          BY TimerAssumption DEF TypeOK
        <4>2. age[t] < MaxAge
          BY <2>2, <4>1
        <4>3. age'[t] = age[t] + 1
          BY <1>2, <4>2
        <4> QED BY <4>1, <4>3 DEF Timer
      <3>2. TaktPeriod * age[t] \in Nat /\ TaktPeriod * (age[t] + 1) = TaktPeriod * age[t] + TaktPeriod
        BY <3>1, TaktTime
      <3>3. \/ obj[t].elapsed <= TaktPeriod * age[t]
            \/ obj[t].elapsed <= TaktPeriod * (age[t] + 1)
        BY <2>2 DEF NotAhead
      <3> QED BY <3>1, <3>2, <3>3, TimerAssumption
    <2> QED BY <2>1, <2>2
  <1> QED BY <1>5, <1>7, <1>8, <1>9, <1>10, <1>11

(* The walk passes an empty entry. *)
LEMMA SkipSlotInv ==
  ASSUME IInv, UNCHANGED usage, SkipSlot
  PROVE  IInv'
  <1> USE DEF IInv
  <1>1. /\ walking /\ firing = nullptr /\ cursor \in Slot /\ timers[cursor] = nullptr
        /\ cursor' = cursor + 1
        /\ UNCHANGED <<timers, activeCount, obj, walking, firing, age, present, ticks>>
    BY TimerAssumption DEF SkipSlot, histVars, TypeOK, Slot
  <1>2. \A s \in Slot : Done(s)' <=> Done(s) \/ s = cursor
    BY <1>1 DEF Done, Slot
  <1>3. \A t \in Timers : OwnsSlot(t) => obj[t].handle # cursor
    BY <1>1, TimerAssumption DEF OwnsSlot
  <1>4. \A t \in Timers : OwnsSlot(t) => OwnsSlot(t)' /\ obj[t].handle \in Slot
    BY <1>1 DEF OwnsSlot
  <1>5. TypeOK'
    BY <1>1, TimerAssumption DEF TypeOK, Slot
  <1>6. CountExact' /\ FiringSound' /\ EntriesOwned'
    BY <1>1, CountKept DEF FiringSound, EntriesOwned, Pooled, Disciplined
  <1>7. NotPassedOver'
    BY <1>1, <1>2, TimerAssumption DEF NotPassedOver, TypeOK
  <1>8. TickedSoFar'
    BY <1>1, <1>2, <1>3, <1>4 DEF TickedSoFar, TypeOK, Disciplined
  <1>9. NotAhead'
    BY <1>1, <1>2, <1>4 DEF NotAhead, Disciplined
  <1> QED BY <1>5, <1>6, <1>7, <1>8, <1>9

(* The walk is over. *)
LEMMA TickEndInv ==
  ASSUME IInv, UNCHANGED usage, TickEnd
  PROVE  IInv'
  <1> USE DEF IInv
  <1>1. /\ firing = nullptr /\ ~walking'
        /\ UNCHANGED <<timers, activeCount, obj, cursor, firing, age, present, ticks>>
    BY DEF TickEnd, histVars
  <1>2. TypeOK'
    BY <1>1 DEF TypeOK, TickEnd
  <1>3. CountExact' /\ FiringSound' /\ EntriesOwned' /\ NotPassedOver' /\ TickedSoFar'
    BY <1>1, CountKept DEF FiringSound, EntriesOwned, Pooled, Disciplined, NotPassedOver, TickedSoFar
  <1>4. NotAhead'
    BY <1>1 DEF NotAhead, Disciplined
  <1> QED BY <1>2, <1>3, <1>4

(* Timer::tick() of the entry at the cursor, up to the call of a callback  *)
(* or to its end: o is the object afterwards, a its age.                   *)
LEMMA TickedInv ==
  ASSUME IInv, UNCHANGED usage, NEW t \in Timers, NEW o \in Timer, NEW a \in 0 .. MaxAge,
         walking, firing = nullptr, cursor \in Slot, timers[cursor] = t, obj[t].alive,
         o.alive, o.handle = obj[t].handle, o.callback = obj[t].callback,
         o.active => \/ obj[t].active /\ o.elapsed <= obj[t].elapsed + TaktPeriod /\ a = age[t]
                     \/ o.elapsed = 0,
         obj' = [obj EXCEPT ![t] = o], age' = [age EXCEPT ![t] = a],
         ticks' = [ticks EXCEPT ![t] = IF @ = 2 THEN 2 ELSE @ + 1],
         \/ cursor' = cursor + 1 /\ UNCHANGED firing
         \/ firing' = t /\ UNCHANGED cursor,
         UNCHANGED <<timers, activeCount, walking, present>>
  PROVE  IInv'
  <1> USE DEF IInv
  <1>1. \A s \in Slot : Done(s)' <=> Done(s) \/ s = cursor
    BY TimerAssumption DEF Done, Slot
  <1>2. ~Done(cursor)
    BY DEF Done, Slot
  <1>3. \A v \in Timers :
          /\ v # t => obj'[v] = obj[v] /\ age'[v] = age[v] /\ ticks'[v] = ticks[v]
          /\ obj'[v].handle = obj[v].handle
          /\ OwnsSlot(v)' <=> OwnsSlot(v)
    BY DEF OwnsSlot, TypeOK
  <1>4. obj'[t] = o /\ age'[t] = a /\ ticks'[t] = IF ticks[t] = 2 THEN 2 ELSE ticks[t] + 1
    BY DEF TypeOK
  <1>5. TypeOK'
    <2>1. ticks' \in [Timers -> 0 .. 2]
      BY DEF TypeOK
    <2>2. cursor' \in 0 .. kMaxTimers /\ firing' \in Timers \cup {nullptr}
      BY TimerAssumption DEF Slot, TypeOK
    <2> QED BY <2>1, <2>2 DEF TypeOK
  <1>6. CountExact' /\ FiringSound'
    BY <1>4, CountKept, TimerAssumption DEF FiringSound
  <1>7. NotPassedOver'
    <2> SUFFICES ASSUME NEW v \in present
                 PROVE  \/ obj'[v].alive /\ ticks'[v] >= 1
                        \/ \E s \in Slot : timers[s] = v /\ ~Done(s)'
      BY DEF NotPassedOver, Done
    <2>1. CASE v = t
      BY <1>4, <2>1 DEF TypeOK
    <2>2. CASE v # t
      BY <1>1, <1>3, <2>2 DEF NotPassedOver, TypeOK
    <2> QED BY <2>1, <2>2
  <1>8. EntriesOwned'
    BY <1>3, <1>4 DEF EntriesOwned, Pooled, TypeOK, Disciplined
  <1>9. Disciplined => obj[t].handle = cursor /\ OwnsSlot(t)
    BY TimerAssumption DEF EntriesOwned, Pooled, OwnsSlot
  <1>10. TickedSoFar'
    <2> SUFFICES ASSUME Disciplined, NEW v \in present
                 PROVE  OwnsSlot(v)' /\ ticks'[v] = IF Done(obj[v].handle)' THEN 1 ELSE 0
      BY <1>3 DEF TickedSoFar, Done, Disciplined, TypeOK
    <2>1. v \in Timers /\ OwnsSlot(v) /\ obj[v].handle \in Slot
          /\ ticks[v] = IF Done(obj[v].handle) THEN 1 ELSE 0
      BY DEF TickedSoFar, OwnsSlot, TypeOK
    <2>2. CASE v = t
      BY <1>1, <1>2, <1>3, <1>4, <1>9, <2>1, <2>2
    <2>3. CASE v # t
      <3>1. obj[v].handle # cursor
        BY <2>1, <2>3 DEF OwnsSlot
      <3> QED BY <1>1, <1>3, <2>1, <2>3, <3>1
    <2> QED BY <2>2, <2>3
  <1>11. NotAhead'
    <2> SUFFICES ASSUME Disciplined, NEW v \in Timers, obj'[v].active
                 PROVE  \/ age'[v] = MaxAge
                        \/ obj'[v].elapsed <= TaktPeriod * age'[v]
                        \/ /\ obj'[v].elapsed <= TaktPeriod * (age'[v] + 1)
                           /\ OwnsSlot(v)' /\ Done(obj[v].handle)'
      BY <1>3 DEF NotAhead, Done, Disciplined
    <2>1. CASE v # t
      BY <1>1, <1>3, <2>1 DEF NotAhead, OwnsSlot
    <2>2. CASE v = t
      <3>1. /\ TaktPeriod * a \in Nat /\ TaktPeriod \in Nat
            /\ TaktPeriod * (a + 1) = TaktPeriod * a + TaktPeriod
        BY TaktTime, TimerAssumption
      <3>2. /\ OwnsSlot(t)' /\ Done(obj[t].handle)' /\ ~Done(obj[t].handle)
        BY <1>1, <1>2, <1>3, <1>9
      <3>3. o.elapsed \in Nat /\ obj[t].elapsed \in Nat
        BY TimerAssumption DEF TypeOK, Timer
      <3>4. CASE o.elapsed = 0
        BY <1>4, <2>2, <3>1, <3>4
      <3>5. CASE obj[t].active /\ o.elapsed <= obj[t].elapsed + TaktPeriod /\ a = age[t]
        <4>1. age[t] = MaxAge \/ obj[t].elapsed <= TaktPeriod * age[t]
          BY <3>2, <3>5 DEF NotAhead
        <4> QED BY <1>4, <2>2, <3>1, <3>2, <3>3, <3>5, <4>1
      <3> QED BY <1>4, <2>2, <3>4, <3>5
    <2> QED BY <2>1, <2>2
  <1> QED BY <1>5, <1>6, <1>7, <1>8, <1>10, <1>11

(* The end of Timer::tick() keeps the identity of the object, and leaves   *)
(* nothing on the counter of a timer that goes on.                         *)
LEMMA AfterTimeoutType ==
  ASSUME NEW o \in Timer
  PROVE  /\ AfterTimeout(o) \in Timer
         /\ AfterTimeout(o).alive = o.alive
         /\ AfterTimeout(o).handle = o.handle
         /\ AfterTimeout(o).callback = o.callback
         /\ AfterTimeout(o).active => AfterTimeout(o).elapsed = 0
  <1>1. 0 \in 0 .. WordSize - 1
    BY TimerAssumption
  <1>2. CASE o.repeat
    BY <1>1, <1>2 DEF AfterTimeout, Timer
  <1>3. CASE ~o.repeat
    BY <1>3 DEF AfterTimeout, Timer
  <1> QED BY <1>2, <1>3

(* Timer::tick() keeps the identity of the object. *)
LEMMA TickSlotInv ==
  ASSUME IInv, UNCHANGED usage, TickSlot
  PROVE  IInv'
  <1> USE DEF IInv
  <1> DEFINE t == timers[cursor]
             o == obj[t]
  <1>1. /\ walking /\ firing = nullptr /\ cursor \in Slot
        /\ t \in Timers /\ o \in Timer /\ o.alive
        /\ age[t] \in 0 .. MaxAge /\ 0 \in 0 .. MaxAge
        /\ age = [age EXCEPT ![t] = age[t]] /\ obj = [obj EXCEPT ![t] = o]
        /\ ticks' = [ticks EXCEPT ![t] = IF @ = 2 THEN 2 ELSE @ + 1]
        /\ UNCHANGED <<timers, activeCount, walking, present>>
    BY TimerAssumption DEF TickSlot, TypeOK, Slot
  <1>2. /\ Elapsed(t) \in 0 .. WordSize - 1
        /\ Elapsed(t) <= o.elapsed + TaktPeriod
    <2>1. o.elapsed + TaktPeriod \in Nat
      BY <1>1, TimerAssumption DEF Timer
    <2> QED BY <2>1, CounterWraps DEF Elapsed
  <1>3. /\ Advanced(t) \in Timer
        /\ Advanced(t).alive = o.alive /\ Advanced(t).handle = o.handle
        /\ Advanced(t).callback = o.callback /\ Advanced(t).active = o.active
        /\ Advanced(t).elapsed = Elapsed(t) /\ Advanced(t).repeat = o.repeat
    BY <1>1, <1>2 DEF Advanced, Timer
  <1>4. CASE ~o.active /\ cursor' = cursor + 1 /\ UNCHANGED <<obj, firing, age>>
    BY <1>1, <1>4, TickedInv
  <1>5. CASE o.active /\ obj' = [obj EXCEPT ![t] = Advanced(t)] /\ age' = age
             /\ ((cursor' = cursor + 1 /\ UNCHANGED firing) \/ (firing' = t /\ UNCHANGED cursor))
    BY <1>1, <1>2, <1>3, <1>5, TickedInv
  <1>6. CASE o.active /\ obj' = [obj EXCEPT ![t] = AfterTimeout(Advanced(t))]
             /\ age' = [age EXCEPT ![t] = 0] /\ cursor' = cursor + 1 /\ UNCHANGED firing
    <2> DEFINE p == AfterTimeout(Advanced(t))
    <2>1. /\ p \in Timer /\ p.alive = o.alive /\ p.handle = o.handle
          /\ p.callback = o.callback
          /\ p.active => p.elapsed = 0
      BY <1>3, AfterTimeoutType
    <2>2. PICK q \in Timer : q = p
      BY <2>1
    <2>3. /\ q.alive /\ q.handle = o.handle /\ q.callback = o.callback
          /\ q.active => q.elapsed = 0
          /\ obj' = [obj EXCEPT ![t] = q]
      BY <1>1, <1>6, <2>1, <2>2
    <2> HIDE DEF p
    <2> QED BY <1>1, <1>6, <2>3, TickedInv
  <1>7. \/ ~o.active /\ cursor' = cursor + 1 /\ UNCHANGED <<obj, firing, age>>
        \/ /\ o.active /\ obj' = [obj EXCEPT ![t] = Advanced(t)] /\ age' = age
           /\ ((cursor' = cursor + 1 /\ UNCHANGED firing) \/ (firing' = t /\ UNCHANGED cursor))
        \/ /\ o.active /\ obj' = [obj EXCEPT ![t] = AfterTimeout(Advanced(t))]
           /\ age' = [age EXCEPT ![t] = 0] /\ cursor' = cursor + 1 /\ UNCHANGED firing
    <2> HIDE DEF IInv
    <2>1. \/ ~o.active /\ cursor' = cursor + 1 /\ UNCHANGED <<obj, firing, age>>
          \/ /\ o.active /\ ~IsDue(t) /\ obj' = [obj EXCEPT ![t] = Advanced(t)]
             /\ cursor' = cursor + 1 /\ UNCHANGED <<firing, age>>
          \/ /\ o.active /\ IsDue(t) /\ o.callback /\ obj' = [obj EXCEPT ![t] = Advanced(t)]
             /\ firing' = t /\ UNCHANGED <<cursor, age>>
          \/ /\ o.active /\ IsDue(t) /\ ~o.callback
             /\ obj' = [obj EXCEPT ![t] = AfterTimeout(Advanced(t))]
             /\ age' = [age EXCEPT ![t] = 0] /\ cursor' = cursor + 1 /\ UNCHANGED firing
      BY DEF TickSlot
    <2> HIDE DEF t, o
    <2> QED BY <2>1
  <1> HIDE DEF IInv, t, o
  <1> QED BY <1>4, <1>5, <1>6, <1>7

(* The callback returns to Timer::tick(), which resets or stops the timer. *)
LEMMA CallbackReturnInv ==
  ASSUME IInv, UNCHANGED usage, CallbackReturn
  PROVE  IInv'
  <1> USE DEF IInv
  <1>1. PICK t \in Timers : t = firing
    BY DEF CallbackReturn, TypeOK
  <1> DEFINE o == obj[t]
             p == AfterTimeout(o)
  <1>2. /\ t # nullptr /\ walking /\ cursor \in Slot /\ timers[cursor] = t
        /\ o \in Timer /\ o.alive
        /\ firing' = nullptr /\ cursor' = cursor + 1
        /\ obj' = [obj EXCEPT ![t] = p] /\ age' = [age EXCEPT ![t] = 0]
        /\ UNCHANGED <<timers, activeCount, walking, present, ticks>>
    BY <1>1 DEF CallbackReturn, FiringSound, TypeOK, histVars
  <1>3. /\ p \in Timer /\ p.alive = o.alive /\ p.handle = o.handle
        /\ p.callback = o.callback
        /\ p.active => p.elapsed = 0
    BY <1>2, AfterTimeoutType
  <1> HIDE DEF p
  <1>4. \A s \in Slot : Done(s)' <=> Done(s)
    BY <1>1, <1>2 DEF Done, Slot
  <1>5. \A v \in Timers :
          /\ v # t => obj'[v] = obj[v] /\ age'[v] = age[v]
          /\ obj'[v].handle = obj[v].handle /\ obj'[v].alive = obj[v].alive
          /\ obj'[v].callback = obj[v].callback
          /\ OwnsSlot(v)' <=> OwnsSlot(v)
    BY <1>2, <1>3 DEF OwnsSlot, TypeOK
  <1>6. obj'[t] = p /\ age'[t] = 0
    BY <1>2 DEF TypeOK
  <1>7. TypeOK'
    BY <1>2, <1>3, TimerAssumption DEF TypeOK, Slot
  <1>8. CountExact' /\ FiringSound'
    BY <1>2, CountKept DEF FiringSound
  <1>9. NotPassedOver'
    BY <1>2, <1>4, <1>5 DEF NotPassedOver, TypeOK
  <1>10. EntriesOwned'
    BY <1>2, <1>5 DEF EntriesOwned, Pooled, TypeOK, Disciplined
  <1>11. TickedSoFar'
    <2> SUFFICES ASSUME Disciplined, NEW v \in present
                 PROVE  OwnsSlot(v)' /\ ticks[v] = IF Done(obj[v].handle)' THEN 1 ELSE 0
      BY <1>2 DEF TickedSoFar, Disciplined
    <2>1. v \in Timers
      BY DEF TypeOK
    <2>2. OwnsSlot(v) /\ ticks[v] = IF Done(obj[v].handle) THEN 1 ELSE 0
      BY <1>2 DEF TickedSoFar
    <2>3. obj[v].handle \in Slot /\ obj'[v].handle = obj[v].handle
      BY <1>5, <2>1, <2>2 DEF OwnsSlot
    <2>4. Done(obj[v].handle)' <=> Done(obj[v].handle)
      BY <1>1, <1>2, <2>3 DEF Done, Slot
    <2> QED BY <1>5, <2>1, <2>2, <2>4
  <1>12. NotAhead'
    <2> SUFFICES ASSUME Disciplined, NEW v \in Timers, obj'[v].active
                 PROVE  \/ age'[v] = MaxAge
                        \/ obj'[v].elapsed <= TaktPeriod * age'[v]
                        \/ /\ obj'[v].elapsed <= TaktPeriod * (age'[v] + 1)
                           /\ OwnsSlot(v)' /\ Done(obj[v].handle)'
      BY <1>5 DEF NotAhead, Done, Disciplined
    <2>1. CASE v # t
      BY <1>2, <1>4, <1>5, <2>1 DEF NotAhead, OwnsSlot
    <2>2. CASE v = t
      BY <1>3, <1>6, <2>2, TaktTime
    <2> QED BY <2>1, <2>2
  <1> QED BY <1>7, <1>8, <1>9, <1>10, <1>11, <1>12

(* Every step preserves the inductive invariant. *)
LEMMA StepInv == IInv /\ [Next]_<<usage, timerVars>> => IInv'
  <1> SUFFICES ASSUME IInv, [Next]_<<usage, timerVars>> PROVE IInv'
    OBVIOUS
  <1>1. CASE UNCHANGED <<usage, timerVars>>
    BY <1>1 DEF timerVars, IInv, TypeOK, CountExact, Pooled, FiringSound, NotPassedOver, Done,
                EntriesOwned, TickedSoFar, NotAhead, OwnsSlot, Disciplined
  <1>2. CASE Next
    <2>1. UNCHANGED usage
      BY <1>2 DEF Next
    <2>2. ASSUME NEW t \in Timers, NEW i \in Intervals, NEW r \in BOOLEAN, Construct(t, i, r)
          PROVE  IInv'
      BY <2>1, <2>2, ConstructInv
    <2>3. ASSUME NEW t \in Timers,
                 \/ \E i \in Intervals : SetInterval(t, i)
                 \/ \E r \in BOOLEAN : SetRepeat(t, r)
                 \/ Start(t) \/ Stop(t) \/ Reset(t)
          PROVE  IInv'
      BY <2>1, <2>3, OperationsInv
    <2>4. ASSUME NEW t \in Timers, OnTimeout(t) PROVE IInv'
      BY <2>1, <2>4, OnTimeoutInv
    <2>5. ASSUME NEW t \in Timers, Destroy(t) PROVE IInv'
      BY <2>1, <2>5, DestroyInv
    <2>6. ASSUME NEW u \in Timers, NEW t \in Timers, MoveConstruct(u, t) \/ MoveAssign(u, t)
          PROVE  IInv'
      BY <2>1, <2>6, MoveInv
    <2>7. CASE TickBegin
      BY <2>1, <2>7, TickBeginInv
    <2>8. CASE WalkStep
      BY <2>1, <2>8, SkipSlotInv, TickSlotInv, CallbackReturnInv, TickEndInv DEF WalkStep
    <2> QED BY <1>2, <2>2, <2>3, <2>4, <2>5, <2>6, <2>7, <2>8 DEF Next
  <1> QED BY <1>1, <1>2

-----------------------------------------------------------------------------
(* The inductive invariant holds in every reachable state. *)
THEOREM Invariance == Spec => []IInv
  BY InitInv, StepInv, PTL DEF Spec

(* activeCount_ is exact for every program, and the entries of a           *)
(* disciplined one are known to their timers.                              *)
THEOREM PoolIsConsistent == Spec => []PoolConsistent
  <1>1. IInv => PoolConsistent
    BY DEF IInv, PoolConsistent, EntriesOwned, HandlesMatch
  <1> QED BY <1>1, Invariance, PTL

(* No disciplined program leaves a dangling pointer in the pool, not even  *)
(* when callbacks destroy timers in the middle of the walk.                *)
THEOREM PoolNeverDangles == Spec => []NoDangling
  <1>1. IInv => NoDangling
    BY DEF IInv, NoDangling, EntriesOwned
  <1> QED BY <1>1, Invariance, PTL

(* A walk ticks every timer that was in the pool all the time, and those   *)
(* of a disciplined program exactly once.                                  *)
THEOREM WalkTicksOnce == Spec => TickedOnce
  <1>1. ASSUME IInv, [Next]_<<usage, timerVars>>
        PROVE  [walking /\ ~walking' =>
                  \A t \in present : ticks[t] >= 1 /\ (Disciplined => ticks[t] = 1)]_timerVars
    <2> SUFFICES ASSUME Next, walking, ~walking', NEW t \in present
                 PROVE  ticks[t] >= 1 /\ (Disciplined => ticks[t] = 1)
      BY <1>1
    <2>1. TickEnd
      BY DEF Next, WalkStep, Construct, SetInterval, SetRepeat, Start, Stop, Reset, OnTimeout,
             Destroy, MoveConstruct, MoveAssign, TickBegin, SkipSlot, TickSlot, CallbackReturn,
             walkVars
    <2>2. \A s \in Slot : Done(s)
      BY <2>1, TimerAssumption DEF TickEnd, Done, Slot
    <2>3. ticks[t] >= 1
      BY <1>1, <2>2 DEF IInv, NotPassedOver
    <2>4. Disciplined => ticks[t] = 1
      BY <1>1, <2>2 DEF IInv, TickedSoFar, OwnsSlot
    <2> QED BY <2>3, <2>4
  <1> QED BY <1>1, Invariance, PTL DEF Spec, TickedOnce

(* A timeout is at most one takt early, for every interval and every       *)
(* order of start(), reset() and registration.                             *)
THEOREM TimeoutNotEarly == Spec => NeverEarly
  <1>1. ASSUME IInv, [Next]_<<usage, timerVars>>
        PROVE  [Disciplined /\ firing = nullptr /\ firing' # nullptr =>
                  TaktPeriod * (age[firing'] + 1) >= obj[firing'].interval]_timerVars
    <2> SUFFICES ASSUME Next, Disciplined, firing = nullptr, firing' # nullptr
                 PROVE  TaktPeriod * (age[firing'] + 1) >= obj[firing'].interval
      BY <1>1
    <2>1. TickSlot
      BY DEF Next, WalkStep, Construct, SetInterval, SetRepeat, Start, Stop, Reset, OnTimeout,
             Destroy, MoveConstruct, MoveAssign, TickBegin, SkipSlot, TickEnd, CallbackReturn,
             walkVars
    <2> DEFINE t == timers[cursor]
    <2>2. /\ firing' = t /\ obj[t].active /\ IsDue(t) /\ walking
          /\ cursor \in Slot /\ t # nullptr
      BY <1>1, <2>1, TimerAssumption DEF TickSlot, IInv, TypeOK, Slot
    <2>3. t \in Timers /\ obj[t] \in Timer /\ age[t] \in 0 .. MaxAge /\ age[t] \in Nat
      BY <1>1, <2>2, TimerAssumption DEF IInv, TypeOK
    <2>4. obj[t].handle = cursor /\ ~Done(obj[t].handle)
      BY <1>1, <2>2, TimerAssumption DEF IInv, EntriesOwned, Pooled, Done, Slot
    <2>5. age[t] = MaxAge \/ obj[t].elapsed <= TaktPeriod * age[t]
      BY <1>1, <2>2, <2>3, <2>4 DEF IInv, NotAhead
    <2>6. /\ TaktPeriod * age[t] \in Nat
          /\ TaktPeriod * (age[t] + 1) = TaktPeriod * age[t] + TaktPeriod
      BY <2>3, TaktTime
    <2>7. obj[t].elapsed \in Nat /\ obj[t].interval \in Nat /\ TaktPeriod \in Nat
      <3>1. WordSize \in Nat /\ Intervals \subseteq Nat /\ TaktPeriod \in Nat
        BY TimerAssumption
      <3>2. obj[t].elapsed \in 0 .. WordSize - 1 /\ obj[t].interval \in Intervals \cup {0}
        BY <2>3 DEF Timer
      <3>3. obj[t].elapsed \in Nat
        BY <3>1, <3>2
      <3>4. obj[t].interval \in Nat
        <4>1. \A i \in Intervals \cup {0} : i \in Nat
          BY <3>1
        <4> QED BY <3>2, <4>1, Zenon
      <3> QED BY <3>1, <3>3, <3>4
    <2>8. CASE age[t] = MaxAge
      <3>1. obj[t].interval = 0 \/ obj[t].interval \in Intervals
        BY <2>3 DEF Timer
      <3>2. \A i \in Intervals : i <= TaktPeriod * MaxAge
        BY TimerAssumption
      <3>3. obj[t].interval <= TaktPeriod * age[t]
        BY <2>6, <2>8, <3>1, <3>2
      <3> QED BY <2>2, <2>6, <2>7, <3>3
    <2>9. CASE obj[t].elapsed <= TaktPeriod * age[t]
      <3>1. Elapsed(t) <= obj[t].elapsed + TaktPeriod /\ Elapsed(t) \in Nat
        <4>1. obj[t].elapsed + TaktPeriod \in Nat /\ WordSize \in Nat
          BY <2>7, TimerAssumption
        <4> QED BY <4>1, CounterWraps DEF Elapsed
      <3>2. TaktPeriod \in Nat
        BY TimerAssumption
      <3> QED BY <2>2, <2>6, <2>7, <2>9, <3>1, <3>2 DEF IsDue
    <2> QED BY <2>5, <2>8, <2>9
  <1> QED BY <1>1, Invariance, PTL DEF Spec, NeverEarly

=============================================================================
