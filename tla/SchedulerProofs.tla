--------------------------- MODULE SchedulerProofs ---------------------------
(***************************************************************************)
(* Proofs about Scheduler.tla, for every set of modules and every size of  *)
(* the module table.                                                       *)
(*                                                                         *)
(* The properties of the takt loop are not inductive.  What they rest on   *)
(* is how the states of the table entries come about: Ready is reached     *)
(* only through a successful init(), Error only in an initAll() that will  *)
(* then fail, and an entry that was shut down from outside is inactive or  *)
(* in Shutdown until its next init().                                      *)
(***************************************************************************)
EXTENDS Scheduler, SequenceTheorems, TLAPS

(* A module that is Ready or Running has been initialised with success. *)
ReadyInitialised ==
  /\ \A id \in DOMAIN modules : modules[id].state \in {"Ready", "Running"} => id \in initDone
  /\ loc = "tick" => cursor \in initDone

NoErrors == \A id \in DOMAIN modules : modules[id].active => modules[id].state # "Error"

(* boot() happens once; an active entry in Error exists only while an      *)
(* initAll() that will fail is under way, and after a boot() that failed.  *)
BootSound ==
  /\ ~booted => loc = "app" /\ ~running
  /\ running => loc \in {"app", "prelude", "loop", "tick"}
  /\ \/ NoErrors
     \/ loc \in {"initAll", "init"} /\ ~initOk
     \/ loc = "app" /\ booted /\ ~running

(* An entry that was shut down, and not by its own init() or tick(), is    *)
(* out for good, or in Shutdown and not about to be set to another state.  *)
DownIsDown ==
  /\ down \subseteq DOMAIN modules
  /\ \A id \in down \ downInOwn :
       \/ ~modules[id].active
       \/ modules[id].state = "Shutdown" /\ (loc \in {"init", "tick"} => id # cursor)

(* In the loop of runTakt(), the entries that are due and still ahead have *)
(* not been ticked, and those behind the loop variable have been, once.    *)
DueTicked ==
  loc \in {"loop", "tick"} =>
    \A id \in due :
      /\ id \in DOMAIN modules
      /\ Runnable(id) /\ ~IsBackground(id)
      /\ id < cursor => ticks[id] = 1
      /\ id > cursor => ticks[id] = 0
      /\ id = cursor => ticks[id] = IF loc = "tick" THEN 1 ELSE 0

IInv ==
  /\ TypeOK
  /\ ReadyInitialised
  /\ BootSound
  /\ DownIsDown
  /\ DueTicked

-----------------------------------------------------------------------------
(* The table is a sequence: its ids are 1 to its length. *)
LEMMA TableShape ==
  ASSUME TypeOK
  PROVE  /\ Len(modules) \in 0 .. kMaxModules
         /\ DOMAIN modules = 1 .. Len(modules)
         /\ DOMAIN modules \subseteq Id
         /\ \A id \in DOMAIN modules : modules[id] \in Entry
  <1>1. Len(modules) \in Nat /\ DOMAIN modules = 1 .. Len(modules)
    BY LenProperties DEF TypeOK
  <1>2. \A id \in DOMAIN modules : modules[id] \in Entry
    BY <1>1, ElementOfSeq DEF TypeOK
  <1> QED BY <1>1, <1>2, SchedulerAssumption DEF TypeOK, Id

(* Changing an entry keeps the table a table. *)
LEMMA EntryChanged ==
  ASSUME TypeOK, NEW id \in DOMAIN modules, NEW e \in Entry,
         modules' = [modules EXCEPT ![id] = e]
  PROVE  /\ modules' \in Seq(Entry) /\ Len(modules') = Len(modules)
         /\ DOMAIN modules' = DOMAIN modules
         /\ modules'[id] = e
         /\ \A j \in DOMAIN modules : j # id => modules'[j] = modules[j]
  <1>1. id \in 1 .. Len(modules) /\ modules \in Seq(Entry)
    BY TableShape DEF TypeOK
  <1>2. modules' \in Seq(Entry) /\ Len(modules') = Len(modules)
    BY <1>1, ExceptSeq
  <1> QED BY <1>2

(* Initially the table is empty. *)
LEMMA InitInv == Init => IInv
  <1> SUFFICES ASSUME Init PROVE IInv
    OBVIOUS
  <1>1. TypeOK
    <2>1. modules \in Seq(Entry) /\ Len(modules) <= kMaxModules
      BY SchedulerAssumption DEF Init
    <2>2. cursor \in 1 .. kMaxModules + 1
      BY SchedulerAssumption DEF Init
    <2>3. ticks \in [Id -> 0 .. 2]
      BY DEF Init
    <2> QED BY <2>1, <2>2, <2>3 DEF Init, TypeOK, Loc
  <1>2. ReadyInitialised /\ BootSound /\ DownIsDown /\ DueTicked
    <2>1. DOMAIN modules = {}
      BY DEF Init
    <2> QED BY <2>1 DEF Init, ReadyInitialised, BootSound, NoErrors, DownIsDown, DueTicked
  <1> QED BY <1>1, <1>2 DEF IInv

(* registerModule() adds an entry that is neither Ready nor in Error, and  *)
(* whose id was never shut down nor due.                                   *)
LEMMA RegisterInv ==
  ASSUME IInv, NEW m \in Modules, RegisterModule(m)
  PROVE  IInv'
  <1> USE DEF IInv
  <1> DEFINE n == Len(modules)
             e == RegisteredEntry(m)
  <1>1. /\ n \in 0 .. kMaxModules - 1 /\ n \in Nat
        /\ DOMAIN modules = 1 .. n
        /\ e \in Entry /\ e.active /\ e.state = "Registered"
    BY TableShape, SchedulerAssumption
       DEF RegisterModule, HasRoom, RegisteredEntry, Entry, ModuleState
  <1>2. /\ modules' \in Seq(Entry) /\ Len(modules') = n + 1
        /\ DOMAIN modules' = 1 .. n + 1
        /\ modules'[n + 1] = e
        /\ \A id \in DOMAIN modules : modules'[id] = modules[id]
    <2>1. modules \in Seq(Entry) /\ modules' = Append(modules, e)
      BY DEF TypeOK, RegisterModule
    <2> QED BY <1>1, <2>1
  <1>3. UNCHANGED <<running, shutdown, booted, loc, cursor, initOk, down, downInOwn,
                    initDone, due, ticks>>
    BY DEF RegisterModule, histVars
  <1>4. TypeOK'
    BY <1>1, <1>2, <1>3, SchedulerAssumption DEF TypeOK
  <1>5. ReadyInitialised'
    BY <1>1, <1>2, <1>3 DEF ReadyInitialised
  <1>6. BootSound'
    <2>1. NoErrors => NoErrors'
      BY <1>1, <1>2 DEF NoErrors
    <2> QED BY <1>3, <2>1 DEF BootSound
  <1>7. DownIsDown'
    BY <1>1, <1>2, <1>3 DEF DownIsDown
  <1>8. DueTicked'
    BY <1>1, <1>2, <1>3 DEF DueTicked, Runnable, IsBackground
  <1> QED BY <1>4, <1>5, <1>6, <1>7, <1>8

(* unregisterModule() takes an entry out for good. *)
LEMMA UnregisterInv ==
  ASSUME IInv, NEW id \in Id, UnregisterModule(id)
  PROVE  IInv'
  <1> USE DEF IInv
  <1>1. CASE id \in DOMAIN modules
    <2> DEFINE e == [modules[id] EXCEPT !.active = FALSE, !.state = "Shutdown"]
    <2>1. modules[id] \in Entry /\ e \in Entry /\ ~e.active /\ e.state = "Shutdown"
      BY <1>1, TableShape DEF Entry, ModuleState
    <2>2. modules' = [modules EXCEPT ![id] = e]
      BY <1>1 DEF UnregisterModule
    <2>3. /\ modules' \in Seq(Entry) /\ Len(modules') = Len(modules)
          /\ DOMAIN modules' = DOMAIN modules
          /\ modules'[id] = e
          /\ \A j \in DOMAIN modules : j # id => modules'[j] = modules[j]
      BY <1>1, <2>1, <2>2, EntryChanged
    <2>4. /\ down' = down \cup {id} /\ downInOwn' = downInOwn \ {id}
          /\ due' = due \ {id}
          /\ UNCHANGED <<running, shutdown, booted, loc, cursor, initOk, initDone, ticks>>
      BY <1>1 DEF UnregisterModule, ShutDown
    <2>5. TypeOK'
      BY <2>3, <2>4 DEF TypeOK
    <2>6. ReadyInitialised'
      BY <2>1, <2>3, <2>4 DEF ReadyInitialised
    <2>7. BootSound'
      <3>1. NoErrors => NoErrors'
        BY <2>1, <2>3 DEF NoErrors
      <3> QED BY <2>4, <3>1 DEF BootSound
    <2>8. DownIsDown'
      BY <1>1, <2>1, <2>3, <2>4 DEF DownIsDown
    <2>9. DueTicked'
      BY <2>3, <2>4 DEF DueTicked, Runnable, IsBackground
    <2> QED BY <2>5, <2>6, <2>7, <2>8, <2>9
  <1>2. CASE id \notin DOMAIN modules
    <2>1. UNCHANGED schedVars
      BY <1>2 DEF UnregisterModule, schedVars, histVars
    <2> QED BY <2>1 DEF schedVars, histVars, TypeOK, ReadyInitialised, BootSound, NoErrors,
                     DownIsDown, DueTicked, Runnable, IsBackground
  <1> QED BY <1>1, <1>2

(* requestShutdown() puts every active entry into Shutdown.  Only the one  *)
(* that is executing can leave it again without an init().                 *)
LEMMA RequestShutdownInv ==
  ASSUME IInv, RequestShutdown
  PROVE  IInv'
  <1> USE DEF IInv
  <1>1. /\ Len(modules) \in Nat /\ DOMAIN modules = 1 .. Len(modules)
        /\ DOMAIN modules \subseteq Id
        /\ \A id \in DOMAIN modules : modules[id] \in Entry
    BY TableShape
  <1>2. /\ DOMAIN modules' = DOMAIN modules
        /\ \A id \in DOMAIN modules :
             modules'[id] = IF modules[id].active
                              THEN [modules[id] EXCEPT !.state = "Shutdown"] ELSE modules[id]
    BY DEF RequestShutdown, ShutdownAll, ActiveIds
  <1>3. modules' \in Seq(Entry) /\ Len(modules') = Len(modules)
    <2>1. \A id \in 1 .. Len(modules) : ShutdownAll[id] \in Entry
      BY <1>1 DEF ShutdownAll, Entry, ModuleState
    <2>2. ShutdownAll = [id \in 1 .. Len(modules) |-> ShutdownAll[id]]
      BY <1>1 DEF ShutdownAll
    <2>3. modules' = ShutdownAll
      BY DEF RequestShutdown
    <2> QED BY <1>1, <2>1, <2>2, <2>3
  <1>4. /\ \A id \in DOMAIN modules :
             /\ modules'[id].active = modules[id].active
             /\ modules'[id].module = modules[id].module
             /\ modules[id].active => modules'[id].state = "Shutdown"
             /\ ~modules[id].active => modules'[id].state = modules[id].state
    BY <1>1, <1>2 DEF Entry
  <1>5. /\ down' = down \cup ActiveIds
        /\ downInOwn' = (downInOwn \ ActiveIds) \cup (ActiveIds \cap Executing)
        /\ due' = due \ ActiveIds
        /\ shutdown' = TRUE /\ running' = FALSE
        /\ UNCHANGED <<booted, loc, cursor, initOk, initDone, ticks>>
    BY DEF RequestShutdown, ShutDown
  <1>6. ActiveIds \subseteq DOMAIN modules
    BY DEF ActiveIds
  <1>7. TypeOK'
    BY <1>1, <1>2, <1>3, <1>5, <1>6 DEF TypeOK
  <1>8. ReadyInitialised'
    BY <1>2, <1>4, <1>5 DEF ReadyInitialised
  <1>9. BootSound'
    <2>1. NoErrors'
      BY <1>2, <1>4 DEF NoErrors
    <2> QED BY <1>5, <2>1 DEF BootSound
  <1>10. DownIsDown'
    BY <1>2, <1>4, <1>5, <1>6 DEF DownIsDown, Executing, ActiveIds
  <1>11. DueTicked'
    <2>1. loc' \in {"loop", "tick"} => due' = {}
      BY <1>5 DEF DueTicked, Runnable, ActiveIds
    <2> QED BY <2>1 DEF DueTicked
  <1> QED BY <1>7, <1>8, <1>9, <1>10, <1>11

(***************************************************************************)
(* Steps that leave the table and its history alone.                       *)
(***************************************************************************)
LEMMA QuietInv ==
  ASSUME IInv, UNCHANGED <<modules, shutdown, down, downInOwn, initDone>>,
         RegisterRefused \/ Boot \/ Run \/ InitAllBegin \/ InitSkip \/ InitAllEnd
           \/ BootReturn \/ PreludeEnd \/ TickSkip \/ TaktEnd \/ UNCHANGED schedVars
  PROVE  IInv'
  <1> USE DEF IInv, TypeOK, Loc, ReadyInitialised, BootSound, NoErrors, DownIsDown
  <1>1. /\ Len(modules) \in 0 .. kMaxModules
        /\ DOMAIN modules = 1 .. Len(modules)
        /\ DOMAIN modules \subseteq Id
    BY TableShape
  <1>2. CASE RegisterRefused \/ UNCHANGED schedVars
    BY <1>2 DEF RegisterRefused, schedVars, histVars, DueTicked, Runnable, IsBackground
  <1>3. CASE Boot
    BY <1>3 DEF Boot, histVars, DueTicked
  <1>4. CASE Run
    BY <1>4 DEF Run, histVars, DueTicked
  <1>5. CASE InitAllBegin
    BY <1>5, SchedulerAssumption DEF InitAllBegin, histVars, DueTicked
  <1>6. CASE InitSkip
    BY <1>1, <1>6, SchedulerAssumption DEF InitSkip, histVars, DueTicked
  <1>7. CASE InitAllEnd
    BY <1>7 DEF InitAllEnd, histVars, DueTicked
  <1>8. CASE BootReturn
    BY <1>8 DEF BootReturn, histVars, DueTicked
  <1>9. CASE PreludeEnd
    <2>1. TypeOK'
      BY <1>1, <1>9, SchedulerAssumption DEF PreludeEnd, First
    <2>2. DueTicked'
      BY <1>1, <1>9 DEF PreludeEnd, First, DueTicked, Runnable, IsBackground, Id
    <2> QED BY <1>9, <2>1, <2>2 DEF PreludeEnd
  <1>10. CASE TickSkip
    <2>1. TypeOK'
      BY <1>1, <1>10, SchedulerAssumption DEF TickSkip, histVars
    <2>2. DueTicked'
      BY <1>1, <1>10 DEF TickSkip, histVars, DueTicked, Runnable, IsBackground, Id
    <2> QED BY <1>10, <2>1, <2>2 DEF TickSkip, histVars
  <1>11. CASE TaktEnd
    BY <1>11 DEF TaktEnd, histVars, DueTicked
  <1> QED BY <1>2, <1>3, <1>4, <1>5, <1>6, <1>7, <1>8, <1>9, <1>10, <1>11

(* initAll() calls init(): the entry comes out of Shutdown, and its past   *)
(* with it.                                                                *)
LEMMA InitCallInv ==
  ASSUME IInv, InitCall
  PROVE  IInv'
  <1> USE DEF IInv
  <1> DEFINE e == [modules[cursor] EXCEPT !.state = "Initializing"]
  <1>1. /\ cursor \in DOMAIN modules /\ modules[cursor] \in Entry
        /\ DOMAIN modules \subseteq Id
        /\ e \in Entry /\ e.state = "Initializing"
    BY TableShape DEF InitCall, TypeOK, Entry, ModuleState
  <1>2. /\ modules' \in Seq(Entry) /\ Len(modules') = Len(modules)
        /\ DOMAIN modules' = DOMAIN modules
        /\ modules'[cursor] = e
        /\ \A j \in DOMAIN modules : j # cursor => modules'[j] = modules[j]
    BY <1>1, EntryChanged DEF InitCall
  <1>3. /\ loc = "initAll" /\ loc' = "init"
        /\ down' = down \ {cursor} /\ downInOwn' = downInOwn \ {cursor}
        /\ UNCHANGED <<running, shutdown, booted, cursor, initOk, initDone, due, ticks>>
    BY DEF InitCall
  <1>4. TypeOK'
    BY <1>1, <1>2, <1>3 DEF TypeOK, Loc
  <1>5. ReadyInitialised'
    BY <1>1, <1>2, <1>3 DEF ReadyInitialised
  <1>6. BootSound'
    <2>1. NoErrors => NoErrors'
      BY <1>1, <1>2 DEF NoErrors
    <2> QED BY <1>3, <2>1 DEF BootSound
  <1>7. DownIsDown'
    BY <1>2, <1>3 DEF DownIsDown
  <1>8. DueTicked'
    BY <1>3 DEF DueTicked
  <1> QED BY <1>4, <1>5, <1>6, <1>7, <1>8

(* init() returns.  If it failed, so will initAll(). *)
LEMMA InitReturnInv ==
  ASSUME IInv, NEW ok \in BOOLEAN, InitReturn(ok)
  PROVE  IInv'
  <1> USE DEF IInv
  <1> DEFINE e == [modules[cursor] EXCEPT !.state = StateAfterInit(ok)]
  <1>1. /\ cursor \in DOMAIN modules /\ modules[cursor] \in Entry
        /\ DOMAIN modules \subseteq Id
        /\ e \in Entry /\ e.state = StateAfterInit(ok)
        /\ e.active = modules[cursor].active
    BY TableShape DEF InitReturn, TypeOK, Entry, ModuleState, StateAfterInit
  <1>2. /\ modules' \in Seq(Entry) /\ Len(modules') = Len(modules)
        /\ DOMAIN modules' = DOMAIN modules
        /\ modules'[cursor] = e
        /\ \A j \in DOMAIN modules : j # cursor => modules'[j] = modules[j]
    BY <1>1, EntryChanged DEF InitReturn
  <1>3. /\ loc = "init" /\ loc' = "initAll" /\ cursor' = cursor + 1
        /\ initOk' = (initOk /\ ok)
        /\ initDone' = IF ok THEN initDone \cup {cursor} ELSE initDone
        /\ UNCHANGED <<running, shutdown, booted, down, downInOwn, due, ticks>>
    BY DEF InitReturn
  <1>4. TypeOK'
    BY <1>1, <1>2, <1>3, SchedulerAssumption DEF TypeOK, Loc, Id
  <1>5. ReadyInitialised'
    <2>1. CASE ok
      <3>1. initDone' = initDone \cup {cursor}
        BY <1>3, <2>1
      <3> QED BY <1>2, <1>3, <3>1 DEF ReadyInitialised
    <2>2. CASE ~ok
      <3>1. initDone' = initDone /\ modules'[cursor].state = "Error"
        BY <1>1, <1>2, <1>3, <2>2 DEF StateAfterInit
      <3> QED BY <1>2, <1>3, <3>1 DEF ReadyInitialised
    <2> QED BY <2>1, <2>2
  <1>6. BootSound'
    <2>1. ASSUME NoErrors, ok PROVE NoErrors'
      <3>1. modules'[cursor].state = "Ready"
        BY <1>1, <1>2, <2>1 DEF StateAfterInit
      <3> QED BY <1>2, <2>1, <3>1 DEF NoErrors
    <2> QED BY <1>3, <2>1 DEF BootSound
  <1>7. DownIsDown'
    BY <1>1, <1>2, <1>3 DEF DownIsDown
  <1>8. DueTicked'
    BY <1>3 DEF DueTicked
  <1> QED BY <1>4, <1>5, <1>6, <1>7, <1>8

(* runTakt() calls tick(): the entry was Ready, so it was initialised and  *)
(* nobody else has shut it down since.                                     *)
LEMMA TickCallInv ==
  ASSUME IInv, TickCall
  PROVE  IInv'
  <1> USE DEF IInv
  <1> DEFINE e == [modules[cursor] EXCEPT !.state = "Running"]
  <1>1. /\ cursor \in DOMAIN modules /\ modules[cursor] \in Entry
        /\ DOMAIN modules \subseteq Id
        /\ e \in Entry /\ e.state = "Running"
        /\ e.active = modules[cursor].active /\ e.module = modules[cursor].module
    BY TableShape DEF TickCall, TypeOK, Entry, ModuleState
  <1>2. /\ modules' \in Seq(Entry) /\ Len(modules') = Len(modules)
        /\ DOMAIN modules' = DOMAIN modules
        /\ modules'[cursor] = e
        /\ \A j \in DOMAIN modules : j # cursor => modules'[j] = modules[j]
    BY <1>1, EntryChanged DEF TickCall
  <1>3. /\ loc = "loop" /\ loc' = "tick" /\ Runnable(cursor)
        /\ ticks' = [ticks EXCEPT ![cursor] = IF @ = 2 THEN 2 ELSE @ + 1]
        /\ UNCHANGED <<running, shutdown, booted, cursor, initOk, down, downInOwn,
                       initDone, due>>
    BY DEF TickCall
  <1>4. TypeOK'
    BY <1>1, <1>2, <1>3 DEF TypeOK, Loc
  <1>5. ReadyInitialised'
    BY <1>1, <1>2, <1>3 DEF ReadyInitialised, Runnable
  <1>6. BootSound'
    <2>1. NoErrors => NoErrors'
      BY <1>1, <1>2 DEF NoErrors
    <2> QED BY <1>3, <2>1 DEF BootSound
  <1>7. DownIsDown'
    BY <1>1, <1>2, <1>3 DEF DownIsDown, Runnable
  <1>8. DueTicked'
    <2>1. \A id \in Id : ticks'[id] = IF id = cursor THEN IF ticks[id] = 2 THEN 2 ELSE ticks[id] + 1
                                      ELSE ticks[id]
      BY <1>1, <1>3 DEF TypeOK
    <2>2. \A id \in DOMAIN modules : id # cursor =>
            (Runnable(id)' <=> Runnable(id)) /\ (IsBackground(id)' <=> IsBackground(id))
      BY <1>2 DEF Runnable, IsBackground
    <2>3. Runnable(cursor)' /\ (IsBackground(cursor)' <=> IsBackground(cursor))
      BY <1>1, <1>2, <1>3 DEF Runnable, IsBackground
    <2> QED BY <1>1, <1>2, <1>3, <2>1, <2>2, <2>3 DEF DueTicked, TypeOK
  <1> QED BY <1>4, <1>5, <1>6, <1>7, <1>8

(* tick() returns and the entry is Ready again: it is initialised, and if  *)
(* it was shut down meanwhile, then by itself or for good.                 *)
LEMMA TickReturnInv ==
  ASSUME IInv, TickReturn
  PROVE  IInv'
  <1> USE DEF IInv
  <1> DEFINE e == [modules[cursor] EXCEPT !.state = "Ready"]
  <1>1. /\ cursor \in DOMAIN modules /\ modules[cursor] \in Entry
        /\ DOMAIN modules \subseteq Id
        /\ e \in Entry /\ e.state = "Ready"
        /\ e.active = modules[cursor].active /\ e.module = modules[cursor].module
    BY TableShape DEF TickReturn, TypeOK, Entry, ModuleState
  <1>2. /\ modules' \in Seq(Entry) /\ Len(modules') = Len(modules)
        /\ DOMAIN modules' = DOMAIN modules
        /\ modules'[cursor] = e
        /\ \A j \in DOMAIN modules : j # cursor => modules'[j] = modules[j]
    BY <1>1, EntryChanged DEF TickReturn
  <1>3. /\ loc = "tick" /\ loc' = "loop" /\ cursor' = cursor + 1
        /\ UNCHANGED <<running, shutdown, booted, initOk, down, downInOwn, initDone, due,
                       ticks>>
    BY DEF TickReturn, histVars
  <1>4. TypeOK'
    BY <1>1, <1>2, <1>3, SchedulerAssumption DEF TypeOK, Loc, Id
  <1>5. ReadyInitialised'
    BY <1>1, <1>2, <1>3 DEF ReadyInitialised
  <1>6. BootSound'
    <2>1. NoErrors => NoErrors'
      BY <1>1, <1>2 DEF NoErrors
    <2> QED BY <1>3, <2>1 DEF BootSound
  <1>7. DownIsDown'
    BY <1>1, <1>2, <1>3 DEF DownIsDown
  <1>8. DueTicked'
    <2>1. \A id \in DOMAIN modules : Runnable(id) => Runnable(id)'
      BY <1>1, <1>2 DEF Runnable
    <2>2. \A id \in DOMAIN modules : IsBackground(id)' <=> IsBackground(id)
      BY <1>1, <1>2 DEF IsBackground
    <2>3. cursor \in Nat /\ DOMAIN modules \subseteq Nat
      BY <1>1 DEF TypeOK, Id
    <2> QED BY <1>2, <1>3, <2>1, <2>2, <2>3 DEF DueTicked
  <1> QED BY <1>4, <1>5, <1>6, <1>7, <1>8

(* Every step preserves the inductive invariant. *)
LEMMA StepInv == IInv /\ [Next]_schedVars => IInv'
  <1> SUFFICES ASSUME IInv, [Next]_schedVars PROVE IInv'
    OBVIOUS
  <1>1. ASSUME NEW m \in Modules, RegisterModule(m) PROVE IInv'
    BY <1>1, RegisterInv
  <1>2. ASSUME NEW id \in Id, UnregisterModule(id) PROVE IInv'
    BY <1>2, UnregisterInv
  <1>3. CASE RequestShutdown
    BY <1>3, RequestShutdownInv
  <1>4. CASE InitCall
    BY <1>4, InitCallInv
  <1>5. ASSUME NEW ok \in BOOLEAN, InitReturn(ok) PROVE IInv'
    BY <1>5, InitReturnInv
  <1>6. CASE TickCall
    BY <1>6, TickCallInv
  <1>7. CASE TickReturn
    BY <1>7, TickReturnInv
  <1>8. CASE RegisterRefused \/ Boot \/ Run \/ InitAllBegin \/ InitSkip \/ InitAllEnd
               \/ BootReturn \/ PreludeEnd \/ TickSkip \/ TaktEnd \/ UNCHANGED schedVars
    <2>1. UNCHANGED <<modules, shutdown, down, downInOwn, initDone>>
      BY <1>8 DEF RegisterRefused, Boot, Run, InitAllBegin, InitSkip, InitAllEnd, BootReturn,
                  PreludeEnd, TickSkip, TaktEnd, schedVars, histVars
    <2> QED BY <1>8, <2>1, QuietInv
  <1> QED BY <1>1, <1>2, <1>3, <1>4, <1>5, <1>6, <1>7, <1>8 DEF Next, KernelStep

-----------------------------------------------------------------------------
(* The inductive invariant holds in every reachable state. *)
THEOREM Invariance == Spec => []IInv
  BY InitInv, StepInv, PTL DEF Spec

(* The table never outgrows kMaxModules and the loops stay inside it,      *)
(* whatever is registered from wherever.                                   *)
THEOREM TypeCorrect == Spec => []TypeOK
  BY Invariance, PTL DEF IInv

(* The takt loop ticks only modules whose init() has succeeded, and is     *)
(* never entered while an active module is in Error.                       *)
THEOREM LoopIsSound == Spec => []LoopSound
  <1>1. IInv => LoopSound
    <2> SUFFICES ASSUME IInv PROVE LoopSound
      OBVIOUS
    <2>1. TickedOnlyInitialised
      BY DEF IInv, ReadyInitialised, TickedOnlyInitialised
    <2>2. NoErrorInLoop
      BY DEF IInv, BootSound, NoErrors, NoErrorInLoop, InLoop
    <2> QED BY <2>1, <2>2 DEF LoopSound
  <1> QED BY <1>1, Invariance, PTL

(* A module that was shut down by somebody else is not ticked again        *)
(* without a new init().                                                   *)
THEOREM OthersRemainDown == Spec => OthersStayDown
  <1>1. ASSUME IInv, [Next]_schedVars
        PROVE  [loc # "tick" /\ loc' = "tick" => cursor \notin down \ downInOwn]_schedVars
    <2> SUFFICES ASSUME Next, loc # "tick", loc' = "tick"
                 PROVE  cursor \notin down \ downInOwn
      BY <1>1
    <2>1. TickCall
      BY DEF Next, KernelStep, RegisterModule, RegisterRefused, UnregisterModule,
             RequestShutdown, Boot, Run, InitAllBegin, InitSkip, InitCall, InitReturn,
             InitAllEnd, BootReturn, PreludeEnd, TickSkip, TickReturn, TaktEnd, schedVars
    <2> QED BY <1>1, <2>1 DEF TickCall, Runnable, IInv, DownIsDown
  <1> QED BY <1>1, Invariance, PTL DEF Spec, OthersStayDown

(* At the end of a takt, every module that was due, and was not shut down  *)
(* in the course of it, has been ticked exactly once.                      *)
THEOREM DueTickedOnce == Spec => TickedOncePerTakt
  <1>1. ASSUME IInv, [Next]_schedVars
        PROVE  [loc = "loop" /\ loc' = "prelude" => \A id \in due : ticks[id] = 1]_schedVars
    <2> SUFFICES ASSUME Next, loc = "loop", loc' = "prelude", NEW id \in due
                 PROVE  ticks[id] = 1
      BY <1>1
    <2>1. TaktEnd
      BY DEF Next, KernelStep, RegisterModule, RegisterRefused, UnregisterModule,
             RequestShutdown, Boot, Run, InitAllBegin, InitSkip, InitCall, InitReturn,
             InitAllEnd, BootReturn, PreludeEnd, TickSkip, TickCall, TickReturn, schedVars,
             UserCode
    <2>2. /\ id \in DOMAIN modules
          /\ id < cursor => ticks[id] = 1
      BY <1>1 DEF IInv, DueTicked
    <2>3. /\ Len(modules) \in Nat /\ DOMAIN modules = 1 .. Len(modules)
          /\ cursor \in Nat
      BY <1>1, TableShape DEF IInv, TypeOK
    <2> QED BY <2>1, <2>2, <2>3 DEF TaktEnd
  <1> QED BY <1>1, Invariance, PTL DEF Spec, TickedOncePerTakt

=============================================================================
