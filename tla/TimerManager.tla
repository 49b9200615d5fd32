---------------------------- MODULE TimerManager ----------------------------
(***************************************************************************)
(* The software timers of the kernel, kernel/src/timer.cpp: Timer objects  *)
(* owned by their users and the TimerManager, a pool of pointers to them   *)
(* that Scheduler::runTakt() walks once per takt.                          *)
(*                                                                         *)
(* The pool holds raw pointers, so what it promises depends on how its     *)
(* users treat their Timer objects; usage says which of the hazardous      *)
(* operations of the interface the program makes use of.  Callbacks run in *)
(* the middle of the walk and may operate on every timer but their own     *)
(* storage (destroying or re-targeting the callback that is executing is   *)
(* undefined in C++ and left out).                                         *)
(***************************************************************************)
EXTENDS Integers, FiniteSets

CONSTANTS
  Timers,          \* the storage in which Timer objects can live
  nullptr,         \* the null pointer
  kMaxTimers,      \* size of timers_
  Intervals,       \* values of intervalMs_
  TaktPeriod,      \* deltaMs of every walk: Scheduler::taktPeriodMs_
  WordSize,        \* the counters are unsigned modulo WordSize (2^32 in C++)
  Usages,          \* programs: sets of "destroy", "rearm" and "move"
  MaxAge           \* bound: the history variable age stops counting here

ASSUME TimerAssumption ==
  /\ nullptr \notin Timers
  /\ kMaxTimers \in Nat \ {0}
  /\ TaktPeriod \in Nat \ {0}
  /\ WordSize \in Nat \ {0}
  /\ Intervals \subseteq 0 .. WordSize - 1
  /\ Usages \subseteq SUBSET {"destroy", "rearm", "move"}
  /\ MaxAge \in Nat
  /\ \A i \in Intervals : i <= TaktPeriod * MaxAge

VARIABLES
  usage,         \* the program at hand, fixed from the beginning
  timers,        \* Slot -> a pointer
  activeCount,
  obj,           \* the Timer objects, by their storage
  walking,       \* control is inside TimerManager::tick()
  cursor,        \* its loop variable
  firing,        \* the timer whose callback is executing, or nullptr
  age,           \* history: takts begun since start(), reset() or the last
                 \* timeout of an active timer
  present,       \* history: the timers in the pool since this walk began
  ticks          \* history: the calls of Timer::tick() in this walk

timerVars == <<timers, activeCount, obj, walking, cursor, firing, age, present, ticks>>
walkVars  == <<walking, cursor, firing>>
histVars  == <<present, ticks>>

Slot == 0 .. kMaxTimers - 1

NoHandle == kMaxTimers     \* 0xFFFF: any number that is not a slot

(* handle_, intervalMs_, elapsedMs_, active_, repeat_ and "has a callback_";
   alive says that the object exists. *)
Timer == [alive : BOOLEAN, handle : 0 .. NoHandle, interval : Intervals \cup {0},
          elapsed : 0 .. WordSize - 1, active : BOOLEAN, repeat : BOOLEAN,
          callback : BOOLEAN]

Storage == [alive |-> FALSE, handle |-> NoHandle, interval |-> 0, elapsed |-> 0,
            active |-> FALSE, repeat |-> FALSE, callback |-> FALSE]

Pooled == {s \in Slot : timers[s] # nullptr}

-----------------------------------------------------------------------------
Init ==
  /\ usage \in Usages
  /\ timers = [s \in Slot |-> nullptr]
  /\ activeCount = 0
  /\ obj = [t \in Timers |-> Storage]
  /\ walking = FALSE
  /\ cursor = 0
  /\ firing = nullptr
  /\ age = [t \in Timers |-> 0]
  /\ present = {}
  /\ ticks = [t \in Timers |-> 0]

(* Code outside the manager runs between walks and inside callbacks; it    *)
(* never touches the storage of the timer whose callback it is.            *)
UserCode == walking => firing # nullptr

Usable(t) == UserCode /\ t # firing /\ obj[t].alive

(* Timer(intervalMs, repeat): a new object in free storage. *)
Construct(t, interval, repeat) ==
  /\ UserCode
  /\ ~obj[t].alive
  /\ obj' = [obj EXCEPT ![t] = [Storage EXCEPT !.alive = TRUE, !.interval = interval,
                                               !.repeat = repeat]]
  /\ age' = [age EXCEPT ![t] = 0]
  /\ ticks' = [ticks EXCEPT ![t] = 0]
  /\ UNCHANGED <<timers, activeCount, walkVars, present>>

(* setInterval(), setRepeat(), start(), stop() and reset() touch only the  *)
(* object; a callback may call them on its own timer too.                  *)
SetInterval(t, interval) ==
  /\ UserCode /\ obj[t].alive
  /\ obj' = [obj EXCEPT ![t].interval = interval]
  /\ UNCHANGED <<timers, activeCount, walkVars, age, histVars>>

SetRepeat(t, repeat) ==
  /\ UserCode /\ obj[t].alive
  /\ obj' = [obj EXCEPT ![t].repeat = repeat]
  /\ UNCHANGED <<timers, activeCount, walkVars, age, histVars>>

Start(t) ==
  /\ UserCode /\ obj[t].alive
  /\ obj' = [obj EXCEPT ![t].elapsed = 0, ![t].active = TRUE]
  /\ age' = [age EXCEPT ![t] = 0]
  /\ UNCHANGED <<timers, activeCount, walkVars, present, ticks>>

Stop(t) ==
  /\ UserCode /\ obj[t].alive
  /\ obj' = [obj EXCEPT ![t].active = FALSE]
  /\ UNCHANGED <<timers, activeCount, walkVars, age, present, ticks>>

Reset(t) ==
  /\ UserCode /\ obj[t].alive
  /\ obj' = [obj EXCEPT ![t].elapsed = 0]
  /\ age' = [age EXCEPT ![t] = 0]
  /\ UNCHANGED <<timers, activeCount, walkVars, histVars>>

IsSlotAtCount(s) == s = activeCount

(* The scan of registerTimer() stops at the first null entry. *)
IsFirstFree(s) ==
  /\ timers[s] = nullptr
  /\ \A u \in Slot : u < s => timers[u] # nullptr

(* registerTimer() refuses when the pool is full, by its count or by the   *)
(* scan; the callback has been stored before.                              *)
RegisterTimer(t) ==
  \/ /\ activeCount < kMaxTimers
     /\ \E s \in Slot :
          /\ IsFirstFree(s)
          /\ timers' = [timers EXCEPT ![s] = t]
          /\ obj' = [obj EXCEPT ![t].callback = TRUE, ![t].handle = s]
     /\ activeCount' = activeCount + 1
  \/ /\ activeCount >= kMaxTimers \/ Pooled = Slot
     /\ obj' = [obj EXCEPT ![t].callback = TRUE]
     /\ UNCHANGED <<timers, activeCount>>

(* onTimeout(): stores the callback and registers the timer, every time it *)
(* is called, and ignores a refusal.                                       *)
OnTimeout(t) ==
  /\ Usable(t)
  /\ obj[t].callback => "rearm" \in usage
  /\ RegisterTimer(t)
  /\ UNCHANGED <<walkVars, age, histVars>>

(* unregisterTimer() forgets a timer only if its handle leads back to it.  *)
OwnsSlot(t) == obj[t].handle \in Slot /\ timers[obj[t].handle] = t

ReleaseNothing(t) == UNCHANGED <<timers, activeCount>>

ReleaseSlot(t) ==
  IF OwnsSlot(t)
    THEN /\ timers' = [timers EXCEPT ![obj[t].handle] = nullptr]
         /\ activeCount' = activeCount - 1
    ELSE UNCHANGED <<timers, activeCount>>

(* ~Timer() *)
Destroy(t) ==
  /\ "destroy" \in usage
  /\ Usable(t)
  /\ ReleaseSlot(t)
  /\ obj' = [obj EXCEPT ![t] = Storage]
  /\ present' = present \ {t}
  /\ UNCHANGED <<walkVars, age, ticks>>

(* What a move leaves behind: the handle is invalidated and the callback   *)
(* is empty, everything else stays.                                        *)
MovedFrom(t) == [obj[t] EXCEPT !.handle = NoHandle, !.callback = FALSE]

(* Timer(Timer&&): the new object takes the handle over, but the pool      *)
(* still points to the old one.                                            *)
MoveConstruct(u, t) ==
  /\ "move" \in usage
  /\ Usable(t) /\ ~obj[u].alive
  /\ obj' = [obj EXCEPT ![u] = obj[t], ![t] = MovedFrom(t)]
  /\ age' = [age EXCEPT ![u] = age[t]]
  /\ UNCHANGED <<timers, activeCount, walkVars, histVars>>

(* operator=(Timer&&): the target gives its own slot up first. *)
MoveAssign(u, t) ==
  /\ "move" \in usage
  /\ u # t /\ Usable(u) /\ Usable(t)
  /\ ReleaseSlot(u)
  /\ obj' = [obj EXCEPT ![u] = obj[t], ![t] = MovedFrom(t)]
  /\ age' = [age EXCEPT ![u] = age[t]]
  /\ present' = IF OwnsSlot(u) THEN present \ {u} ELSE present
  /\ UNCHANGED <<walkVars, ticks>>

-----------------------------------------------------------------------------
(* TimerManager::tick(), one pool entry per step. *)

TickBegin ==
  /\ ~walking
  /\ walking' = TRUE
  /\ cursor' = 0
  /\ age' = [t \in Timers |-> IF obj[t].active /\ age[t] < MaxAge
                                THEN age[t] + 1 ELSE age[t]]
  /\ present' = {timers[s] : s \in Pooled}
  /\ ticks' = [t \in Timers |-> 0]
  /\ UNCHANGED <<timers, activeCount, obj, firing>>

(* The end of Timer::tick() after a timeout: a repeating timer starts over *)
(* and a one-shot timer stops, whatever the callback did to it before.     *)
AfterTimeout(o) ==
  IF o.repeat THEN [o EXCEPT !.elapsed = 0] ELSE [o EXCEPT !.active = FALSE]

Elapsed(t) == (obj[t].elapsed + TaktPeriod) % WordSize

Advanced(t) == [obj[t] EXCEPT !.elapsed = Elapsed(t)]

IsDueEarly(t) == Elapsed(t) + 2 * TaktPeriod >= obj[t].interval

IsDueExactly(t) == Elapsed(t) = obj[t].interval

IsDue(t) == Elapsed(t) >= obj[t].interval

SkipSlot ==
  /\ walking /\ firing = nullptr /\ cursor < kMaxTimers
  /\ timers[cursor] = nullptr
  /\ cursor' = cursor + 1
  /\ UNCHANGED <<timers, activeCount, obj, walking, firing, age, histVars>>

(* Timer::tick() of the timer at the cursor.  Through a dangling pointer   *)
(* its behaviour is undefined: the model takes no such step.               *)
TickSlot ==
  /\ walking /\ firing = nullptr /\ cursor < kMaxTimers
  /\ timers[cursor] # nullptr
  /\ obj[timers[cursor]].alive
  /\ LET t == timers[cursor] IN
     /\ ticks' = [ticks EXCEPT ![t] = IF @ = 2 THEN 2 ELSE @ + 1]
     /\ \/ /\ ~obj[t].active
           /\ cursor' = cursor + 1
           /\ UNCHANGED <<obj, firing, age>>
        \/ /\ obj[t].active /\ ~IsDue(t)
           /\ obj' = [obj EXCEPT ![t] = Advanced(t)]
           /\ cursor' = cursor + 1
           /\ UNCHANGED <<firing, age>>
        \/ /\ obj[t].active /\ IsDue(t) /\ obj[t].callback
           /\ obj' = [obj EXCEPT ![t] = Advanced(t)]
           /\ firing' = t
           /\ UNCHANGED <<cursor, age>>
        \/ /\ obj[t].active /\ IsDue(t) /\ ~obj[t].callback
           /\ obj' = [obj EXCEPT ![t] = AfterTimeout(Advanced(t))]
           /\ age' = [age EXCEPT ![t] = 0]
           /\ cursor' = cursor + 1
           /\ UNCHANGED firing
  /\ UNCHANGED <<timers, activeCount, walking, present>>

CallbackReturnSkipping ==
  /\ walking /\ firing # nullptr
  /\ obj' = [obj EXCEPT ![firing] = AfterTimeout(@)]
  /\ age' = [age EXCEPT ![firing] = 0]
  /\ firing' = nullptr
  /\ cursor' = IF cursor + 2 <= kMaxTimers THEN cursor + 2 ELSE kMaxTimers
  /\ UNCHANGED <<timers, activeCount, walking, histVars>>

CallbackReturn ==
  /\ walking /\ firing # nullptr
  /\ obj' = [obj EXCEPT ![firing] = AfterTimeout(@)]
  /\ age' = [age EXCEPT ![firing] = 0]
  /\ firing' = nullptr
  /\ cursor' = cursor + 1
  /\ UNCHANGED <<timers, activeCount, walking, histVars>>

TickEnd ==
  /\ walking /\ firing = nullptr /\ cursor = kMaxTimers
  /\ walking' = FALSE
  /\ UNCHANGED <<timers, activeCount, obj, cursor, firing, age, histVars>>

WalkStep == SkipSlot \/ TickSlot \/ CallbackReturn \/ TickEnd

Next ==
  /\ UNCHANGED usage
  /\ \/ \E t \in Timers :
          \/ \E i \in Intervals, r \in BOOLEAN : Construct(t, i, r)
          \/ \E i \in Intervals : SetInterval(t, i)
          \/ \E r \in BOOLEAN : SetRepeat(t, r)
          \/ Start(t) \/ Stop(t) \/ Reset(t)
          \/ OnTimeout(t)
          \/ Destroy(t)
          \/ \E u \in Timers : MoveConstruct(u, t) \/ MoveAssign(u, t)
     \/ TickBegin
     \/ WalkStep

Spec == Init /\ [][Next]_<<usage, timerVars>>

(* The takt loop never ends, and callbacks return. *)
FairSpec == Spec /\ WF_timerVars(TickBegin) /\ WF_timerVars(WalkStep)

-----------------------------------------------------------------------------
(* The types; the cursor and the count stay within the pool. *)
TypeOK ==
  /\ usage \in Usages
  /\ timers \in [Slot -> Timers \cup {nullptr}]
  /\ activeCount \in 0 .. kMaxTimers
  /\ obj \in [Timers -> Timer]
  /\ walking \in BOOLEAN
  /\ cursor \in 0 .. kMaxTimers
  /\ firing \in Timers \cup {nullptr}
  /\ age \in [Timers -> 0 .. MaxAge]
  /\ present \in SUBSET Timers
  /\ ticks \in [Timers -> 0 .. 2]

(* A program that calls onTimeout() once per timer and never moves one. *)
Disciplined == usage \cap {"rearm", "move"} = {}

(* activeCount_ is the number of occupied pool entries, whatever mixture   *)
(* of registrations, destructions and moves led there: registerTimer()     *)
(* trusts it before it scans.                                              *)
CountExact == activeCount = Cardinality(Pooled)

(* Every entry is known to the timer it points to, so that ~Timer() can    *)
(* find it; in particular no timer sits in the pool twice.                 *)
HandlesMatch == Disciplined => \A s \in Pooled : obj[timers[s]].handle = s

(* What registerTimer() and unregisterTimer() rely on, with the types.     *)
PoolConsistent == TypeOK /\ CountExact /\ HandlesMatch

(* The pool points only to objects that exist, although callbacks destroy  *)
(* timers in the middle of the walk.                                       *)
NoDangling == Disciplined => \A s \in Pooled : obj[timers[s]].alive

(* Every timer that stays in the pool during a whole walk is advanced by   *)
(* it, although callbacks add and remove entries of the array that is      *)
(* being walked; and exactly once, unless some have been registered twice  *)
(* or moved.                                                               *)
TickedOnce ==
  [][walking /\ ~walking' =>
       \A t \in present : ticks[t] >= 1 /\ (Disciplined => ticks[t] = 1)]_timerVars

(* A timeout never comes more than one takt too soon: since the last       *)
(* start(), reset() or timeout at least the interval has passed, counting  *)
(* the takt in which the timer was started as a whole one.                 *)
NeverEarly ==
  [][Disciplined /\ firing = nullptr /\ firing' # nullptr =>
       TaktPeriod * (age[firing'] + 1) >= obj[firing'].interval]_timerVars

(* A running timer that is in the pool times out, unless it is stopped,    *)
(* started afresh, reset or taken out of the pool first: the counter       *)
(* reaches the interval before it wraps.  It holds for intervals that      *)
(* leave room for one takt below WordSize.                                 *)
TimerFires ==
  \A t \in Timers :
    (Disciplined /\ obj[t].active /\ age[t] > 0 /\ \E s \in Slot : timers[s] = t)
      ~> (~obj[t].active \/ age[t] = 0 \/ \A s \in Slot : timers[s] # t)

=============================================================================
