----------------------------- MODULE Scheduler -----------------------------
(***************************************************************************)
(* The takt scheduler and the kernel life cycle around it:                 *)
(* kernel/src/scheduler.cpp and kernel/src/kernel.cpp.                     *)
(*                                                                         *)
(* Everything runs in one thread, but control passes to code outside the   *)
(* kernel all the time: to the program before boot() and run(), to event   *)
(* callbacks, and to the init() and tick() of every module.  All of it may *)
(* register and deregister modules and request the shutdown while the      *)
(* loops of initAll() and runTakt() are in the middle of the module table. *)
(* A step of such code is one call of the kernel's interface; shutdown()   *)
(* of a module and the callbacks of SystemShutdown make no such calls.     *)
(***************************************************************************)
EXTENDS Naturals, Sequences

CONSTANTS
  Modules,         \* the IModule objects of the program
  Background,      \* those whose type() is ModuleType::Background
  kMaxModules      \* size of modules_

ASSUME SchedulerAssumption ==
  /\ Background \subseteq Modules
  /\ kMaxModules \in Nat \ {0}

VARIABLES
  modules,         \* the used part of modules_, in registration order
  running,         \* Kernel::running_
  shutdown,        \* Kernel::shutdown_
  booted,          \* boot() has been called; programs call it once
  loc,             \* where control is, see Loc
  cursor,          \* the loop variable of initAll() and runTakt()
  initOk,          \* the local variable ok of initAll()
  down,            \* history: ids whose shutdown() ran after their last init()
  downInOwn,       \* history: those of them whose own init() or tick()
                   \* had requested the shutdown
  initDone,        \* history: ids whose init() has returned true
  due,             \* history: ids that this takt has to tick
  ticks            \* history: calls of tick() in this takt, by id

histVars  == <<down, downInOwn, initDone, due, ticks>>
schedVars == <<modules, running, shutdown, booted, loc, cursor, initOk, histVars>>

(* A ModuleId is the position of the module in the table. *)
Id == 1 .. kMaxModules

ModuleState == {"Registered", "Initializing", "Ready", "Running", "Error", "Shutdown"}

Entry == [module : Modules, active : BOOLEAN, state : ModuleState]

(***************************************************************************)
(* "app": in the program, outside boot() and run().                        *)
(* "boot": in the callbacks of SystemBoot.  "ready": in those of           *)
(* SystemReady.  "initAll", "loop": in the loops of initAll() and          *)
(* runTakt(), at modules_[cursor].  "init", "tick": inside that module.    *)
(* "prelude": in a timer or event callback at the start of runTakt(), or   *)
(* in the callbacks of TaktOverrun at the end of the one before.           *)
(***************************************************************************)
Loc == {"app", "boot", "initAll", "init", "ready", "prelude", "loop", "tick"}

UserCode == loc \in {"app", "boot", "init", "ready", "prelude", "tick"}
InLoop   == loc \in {"prelude", "loop", "tick"}

Init ==
  /\ modules = <<>>
  /\ running = FALSE
  /\ shutdown = FALSE
  /\ booted = FALSE
  /\ loc = "app"
  /\ cursor = 1
  /\ initOk = TRUE
  /\ down = {}
  /\ downInOwn = {}
  /\ initDone = {}
  /\ due = {}
  /\ ticks = [id \in Id |-> 0]

-----------------------------------------------------------------------------
(* Calls of the kernel's interface by code outside it. *)

RegisteredEntry(m)  == [module |-> m, active |-> TRUE, state |-> "Registered"]

HasRoomOffByOne == Len(modules) <= kMaxModules

HasRoom == Len(modules) < kMaxModules

RegisterModule(m) ==
  /\ UserCode
  /\ HasRoom
  /\ modules' = Append(modules, RegisteredEntry(m))
  /\ UNCHANGED <<running, shutdown, booted, loc, cursor, initOk, histVars>>

(* registerModule() returns kInvalidModuleId.  Entries are never reused,   *)
(* so from here on every registration is refused.                          *)
RegisterRefused ==
  /\ UserCode
  /\ ~HasRoom
  /\ UNCHANGED schedVars

(* The history of shutdown() calls on the ids S; those in own are excused  *)
(* by OthersStayDown.                                                      *)
ShutDown(S, own) ==
  /\ down' = down \cup S
  /\ downInOwn' = (downInOwn \ S) \cup own
  /\ due' = due \ S
  /\ UNCHANGED <<initDone, ticks>>

(* unregisterModule() runs shutdown() again on an entry that is already    *)
(* out; an id that was never assigned is ignored.                          *)
UnregisterModule(id) ==
  /\ UserCode
  /\ IF id \in DOMAIN modules
       THEN /\ modules' = [modules EXCEPT ![id].active = FALSE, ![id].state = "Shutdown"]
            /\ ShutDown({id}, {})
       ELSE UNCHANGED <<modules, histVars>>
  /\ UNCHANGED <<running, shutdown, booted, loc, cursor, initOk>>

ActiveIds == {id \in DOMAIN modules : modules[id].active}

(* The id of the module that is executing its init() or tick(), if any. *)
Executing == IF loc \in {"init", "tick"} THEN {cursor} ELSE {}

(* What shutdownAll() makes of the table. *)
ShutdownAll ==
  [id \in DOMAIN modules |->
     IF id \in ActiveIds THEN [modules[id] EXCEPT !.state = "Shutdown"] ELSE modules[id]]

(* requestShutdown(): the takt loop is not left. *)
RequestShutdown ==
  /\ UserCode
  /\ shutdown' = TRUE
  /\ modules' = ShutdownAll
  /\ ShutDown(ActiveIds, ActiveIds \cap Executing)
  /\ running' = FALSE
  /\ UNCHANGED <<booted, loc, cursor, initOk>>

Boot ==
  /\ loc = "app" /\ ~booted
  /\ booted' = TRUE
  /\ loc' = "boot"
  /\ UNCHANGED <<modules, running, shutdown, cursor, initOk, histVars>>

(* run() refuses unless boot() has succeeded. *)
RunUnbooted ==
  /\ loc = "app"
  /\ loc' = "prelude"
  /\ UNCHANGED <<modules, running, shutdown, booted, cursor, initOk, histVars>>

Run ==
  /\ loc = "app" /\ running
  /\ loc' = "prelude"
  /\ UNCHANGED <<modules, running, shutdown, booted, cursor, initOk, histVars>>

-----------------------------------------------------------------------------
(* Kernel::boot() and Scheduler::initAll(). *)

InitAllBegin ==
  /\ loc = "boot"
  /\ loc' = "initAll"
  /\ cursor' = 1
  /\ initOk' = TRUE
  /\ UNCHANGED <<modules, running, shutdown, booted, histVars>>

(* The loops re-read moduleCount_, so a module that is registered by       *)
(* another one's init() is initialised by the same call of initAll().      *)
InitSkip ==
  /\ loc = "initAll" /\ cursor <= Len(modules)
  /\ ~modules[cursor].active
  /\ cursor' = cursor + 1
  /\ UNCHANGED <<modules, running, shutdown, booted, loc, initOk, histVars>>

InitCall ==
  /\ loc = "initAll" /\ cursor <= Len(modules)
  /\ modules[cursor].active
  /\ modules' = [modules EXCEPT ![cursor].state = "Initializing"]
  /\ loc' = "init"
  /\ down' = down \ {cursor}
  /\ downInOwn' = downInOwn \ {cursor}
  /\ UNCHANGED <<running, shutdown, booted, cursor, initOk, initDone, due, ticks>>

StateAfterInit(ok) == IF ok THEN "Ready" ELSE "Error"

InitReturn(ok) ==
  /\ loc = "init"
  /\ modules' = [modules EXCEPT ![cursor].state = StateAfterInit(ok)]
  /\ initOk' = (initOk /\ ok)
  /\ initDone' = IF ok THEN initDone \cup {cursor} ELSE initDone
  /\ loc' = "initAll"
  /\ cursor' = cursor + 1
  /\ UNCHANGED <<running, shutdown, booted, down, downInOwn, due, ticks>>

(* boot() returns false and leaves running_ as it was, or announces        *)
(* SystemReady.                                                            *)
InitAllEnd ==
  /\ loc = "initAll" /\ cursor > Len(modules)
  /\ loc' = IF initOk THEN "ready" ELSE "app"
  /\ UNCHANGED <<modules, running, shutdown, booted, cursor, initOk, histVars>>

BootReturn ==
  /\ loc = "ready"
  /\ running' = TRUE
  /\ loc' = "app"
  /\ UNCHANGED <<modules, shutdown, booted, cursor, initOk, histVars>>

-----------------------------------------------------------------------------
(* Scheduler::runTakt(). *)

IsBackground(id) == modules[id].module \in Background

ReadyWhateverActive(id) == modules[id].state \in {"Ready", "Running"}

(* shouldRunModule(), but for the answer of hasWork(). *)
Runnable(id) == modules[id].active /\ modules[id].state \in {"Ready", "Running"}

FirstNotReset == cursor

First == 1

PreludeEnd ==
  /\ loc = "prelude"
  /\ loc' = "loop"
  /\ cursor' = First
  /\ due' = {id \in DOMAIN modules : Runnable(id) /\ ~IsBackground(id)}
  /\ ticks' = [id \in Id |-> 0]
  /\ UNCHANGED <<modules, running, shutdown, booted, initOk, down, downInOwn, initDone>>

(* Skipped: not runnable, or a background module without work. *)
TickSkip ==
  /\ loc = "loop" /\ cursor <= Len(modules)
  /\ ~Runnable(cursor) \/ IsBackground(cursor)
  /\ cursor' = cursor + 1
  /\ UNCHANGED <<modules, running, shutdown, booted, loc, initOk, histVars>>

TickCall ==
  /\ loc = "loop" /\ cursor <= Len(modules)
  /\ Runnable(cursor)
  /\ modules' = [modules EXCEPT ![cursor].state = "Running"]
  /\ loc' = "tick"
  /\ ticks' = [ticks EXCEPT ![cursor] = IF @ = 2 THEN 2 ELSE @ + 1]
  /\ UNCHANGED <<running, shutdown, booted, cursor, initOk, down, downInOwn, initDone, due>>

TickReturnSkipping ==
  /\ loc = "tick"
  /\ modules' = [modules EXCEPT ![cursor].state = "Ready"]
  /\ loc' = "loop"
  /\ cursor' = cursor + 2
  /\ UNCHANGED <<running, shutdown, booted, initOk, histVars>>

(* After tick() the state is Ready again, whatever happened inside it. *)
TickReturn ==
  /\ loc = "tick"
  /\ modules' = [modules EXCEPT ![cursor].state = "Ready"]
  /\ loc' = "loop"
  /\ cursor' = cursor + 1
  /\ UNCHANGED <<running, shutdown, booted, initOk, histVars>>

(* The end of runTakt(); run() calls it again, for ever. *)
TaktEnd ==
  /\ loc = "loop" /\ cursor > Len(modules)
  /\ loc' = "prelude"
  /\ UNCHANGED <<modules, running, shutdown, booted, cursor, initOk, histVars>>

KernelStep ==
  \/ InitAllBegin \/ InitSkip \/ InitCall
  \/ \E ok \in BOOLEAN : InitReturn(ok)
  \/ InitAllEnd \/ BootReturn
  \/ PreludeEnd \/ TickSkip \/ TickCall \/ TickReturn \/ TaktEnd

Next ==
  \/ \E m \in Modules : RegisterModule(m)
  \/ RegisterRefused
  \/ \E id \in Id : UnregisterModule(id)
  \/ RequestShutdown
  \/ Boot
  \/ Run
  \/ KernelStep

Spec == Init /\ [][Next]_schedVars

(* The thread goes on, and init(), tick() and the callbacks return.        *)
FairSpec == Spec /\ WF_schedVars(KernelStep)

-----------------------------------------------------------------------------
(* The types; the table never grows beyond kMaxModules, and init() and      *)
(* tick() are only called for entries that exist.                          *)
TypeOK ==
  /\ modules \in Seq(Entry)
  /\ Len(modules) <= kMaxModules
  /\ running \in BOOLEAN
  /\ shutdown \in BOOLEAN
  /\ booted \in BOOLEAN
  /\ loc \in Loc
  /\ cursor \in 1 .. kMaxModules + 1
  /\ loc \in {"init", "tick"} => cursor \in DOMAIN modules
  /\ initOk \in BOOLEAN
  /\ down \in SUBSET Id
  /\ downInOwn \in SUBSET Id
  /\ initDone \in SUBSET Id
  /\ due \in SUBSET Id
  /\ ticks \in [Id -> 0 .. 2]

(* A module is inside tick() only after its own init() has succeeded, no   *)
(* matter when it was registered.                                          *)
TickedOnlyInitialised == loc = "tick" => cursor \in initDone

(* The takt loop is entered only after a boot() in which the init() of     *)
(* every module then in the table succeeded: no active module is in Error. *)
NoErrorInLoop ==
  InLoop => \A id \in DOMAIN modules : modules[id].active => modules[id].state # "Error"

(* The takt loop deals with modules that are fit to run only. *)
LoopSound == TickedOnlyInitialised /\ NoErrorInLoop

(* After a shutdown request or a deregistration no module is ticked again  *)
(* without a new init(), except possibly the one that requested the        *)
(* shutdown in its own init() or tick(); a module that deregisters itself  *)
(* there is out for good, although the loop sets its state to Ready.       *)
OthersStayDown ==
  [][loc # "tick" /\ loc' = "tick" => cursor \notin down \ downInOwn]_schedVars

(* Every takt ticks each static or dynamic module that was ready at its    *)
(* start, and has not been shut down during it, exactly once.              *)
TickedOncePerTakt ==
  [][loc = "loop" /\ loc' = "prelude" => \A id \in due : ticks[id] = 1]_schedVars

(* A ready static or dynamic module is ticked again and again, as long as  *)
(* nobody shuts it down.                                                   *)
ReadyModuleTicks ==
  \A id \in Id :
    (InLoop /\ id \in DOMAIN modules /\ Runnable(id) /\ ~IsBackground(id))
      ~> ((loc = "tick" /\ cursor = id) \/ id \in down)

=============================================================================
