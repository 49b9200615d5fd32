------------------------------- MODULE Update -------------------------------
(***************************************************************************)
(* A device through its firmware updates: OtaService                       *)
(* (services/src/ota_service.cpp) in the application, RecoveryManager      *)
(* (recovery/src/recovery_manager.cpp) and its transports under it and in  *)
(* the recovery program, the Bootloader between them, and the slots of     *)
(* FirmwareCache as SlotStore describes them.  TAKT_ESP32 throughout:      *)
(* esp_restart() ends a program.                                           *)
(*                                                                         *)
(* Left out: the progress counters and their callbacks, and the events     *)
(* published.  The transports do not pass their data to the handler yet;   *)
(* ReceiveChunk is that handler being called.                              *)
(***************************************************************************)
EXTENDS Bootloader

CONSTANT MaxCuts        \* power losses in a behaviour

ASSUME UpdateAssumption == MaxCuts \in Nat

VARIABLES
  valid, activeSlot, writing,   \* FirmwareCache, as in SlotStore
  dfu,          \* RecoveryManager::state_
  active,       \* OtaService::active_
  server,       \* the HTTP server of WiFiOta is up
  abandoned,    \* history: a refused rollback() has ended the update
  held,         \* history: whose chunks the write under way has accepted
  entries,      \* history: starts since the last confirmed one or power loss
  cuts          \* power losses so far

store  == <<valid, activeSlot, writing>>
uVars  == <<bootVars, store, dfu, active, server, abandoned, held, entries, cuts>>

(* The boot loader decides which program runs, see PlatformInit. *)
Store == INSTANCE SlotStore WITH marked <- valid, boot <- 0, up <- phase # "reset"

DfuStates == {"Idle", "AwaitingImage", "Receiving", "Complete", "Failed"}

Init ==
  /\ rtc = Lost
  /\ phase = "reset"
  /\ recovery \in RecoveryStates
  /\ valid \in SUBSET Store!Slots
  /\ activeSlot = 0
  /\ writing = FALSE
  /\ dfu = "Idle"
  /\ active = FALSE
  /\ server = FALSE
  /\ abandoned = FALSE
  /\ held = "none"
  /\ entries = 0
  /\ cuts = 0

-----------------------------------------------------------------------------
(* Starts and stops.  What the programs keep in RAM is lost. *)

RamLost ==
  /\ writing' = FALSE
  /\ dfu' = "Idle"
  /\ active' = FALSE
  /\ server' = FALSE
  /\ abandoned' = FALSE
  /\ held' = "none"

(* A flash operation that is interrupted leaves the inactive slot in any   *)
(* state; it can only be under way during an update.                       *)
Interrupted ==
  \/ valid' = valid
  \/ writing /\ valid' \in {valid \cup {Store!InactiveSlot}, valid \ {Store!InactiveSlot}}

(* Platform::init() calls init() of FirmwareCache, for which the active    *)
(* slot is A if the program runs from ota_0, and B otherwise.              *)
PlatformInit == activeSlot' = IF phase' = "app" THEN 0 ELSE 1

Start ==
  /\ \E button, descriptor \in BOOLEAN : Entry(button, descriptor)
  /\ PlatformInit
  /\ entries' = IF entries = CountMod THEN entries ELSE entries + 1
  /\ UNCHANGED <<valid, writing, dfu, active, server, abandoned, held, cuts>>

Confirm ==
  /\ MarkBootSuccessful
  /\ entries' = 0
  /\ UNCHANGED <<store, dfu, active, server, abandoned, held, cuts>>

Crash ==
  /\ Reset
  /\ RamLost
  /\ Interrupted
  /\ UNCHANGED <<activeSlot, entries, cuts>>

PowerCut ==
  /\ cuts < MaxCuts
  /\ cuts' = cuts + 1
  /\ PowerLoss
  /\ RamLost
  /\ Interrupted
  /\ entries' = 0
  /\ UNCHANGED activeSlot

ForceRestart ==
  /\ \E mode \in Modes \ {"OtaPending"} : ForceMode(mode)
  /\ RamLost
  /\ UNCHANGED <<valid, activeSlot, entries, cuts>>

-----------------------------------------------------------------------------
(* RecoveryManager. *)

(* WiFiOta::start() fails if its port is taken, by a server that an        *)
(* earlier init() has forgotten, or for another reason.                    *)
WifiOtaStart == server' \in {TRUE, server}

(* WiFiOta::stop() stops whatever server there is. *)
WifiOtaStop == server' = FALSE

(* startDfuListener() does not look whether the transport has started. *)
StartDfuListener(wifi) ==
  /\ dfu' = "AwaitingImage"
  /\ IF wifi THEN WifiOtaStart ELSE UNCHANGED server

AbortServing ==
  /\ dfu' = "Idle"
  /\ UNCHANGED server

(* abort(): FirmwareCache is not told. *)
Abort ==
  /\ dfu' = "Idle"
  /\ WifiOtaStop

Listening == dfu \in {"AwaitingImage", "Receiving"}

(* writeChunk(): accepted, or refused by the cache or the flash. *)
ReceiveChunk ==
  /\ Listening
  /\ dfu' = "Receiving"
  /\ \/ /\ writing
        /\ Store!Alter
        /\ held' = IF held = "old" THEN "old" ELSE "this"
     \/ /\ UNCHANGED <<store, held>>

(* finalizeDfu(): finalizeWrite() refuses, when no write was begun, or     *)
(* finds the image damaged; or the image is activated and the device       *)
(* restarts.                                                               *)
FinalizeDfu ==
  \/ /\ \/ ~writing /\ UNCHANGED valid
        \/ writing /\ valid' = valid \ {Store!InactiveSlot}
     /\ writing' = FALSE
     /\ dfu' = "Failed"
     /\ active' = FALSE
     /\ UNCHANGED <<bootVars, activeSlot, server, abandoned, held>>
  \/ /\ writing
     /\ valid' = valid \cup {Store!InactiveSlot}
     /\ activeSlot' = Store!InactiveSlot
     /\ RequestOtaBoot(Store!InactiveSlot)
     /\ phase' = "reset"
     /\ UNCHANGED recovery
     /\ RamLost

(* FirmwareCache::rollback() *)
Rollback ==
  /\ Store!InactiveSlot \in valid
  /\ activeSlot' = Store!InactiveSlot
  /\ UNCHANGED valid

-----------------------------------------------------------------------------
(* OtaService in the running application. *)

StartUpdateOnce(wifi) ==
  /\ phase = "running"
  /\ UNCHANGED <<bootVars, entries, cuts>>
  /\ IF writing THEN UNCHANGED <<store, held>> ELSE Store!BeginWrite /\ held' = "none"
  /\ StartDfuListener(wifi)
  /\ active' = TRUE
  /\ abandoned' = FALSE

(* startUpdate(), over WiFi or BLE. *)
StartUpdate(wifi) ==
  /\ phase = "running"
  /\ UNCHANGED <<bootVars, entries, cuts>>
  /\ Store!BeginWrite
  /\ held' = "none"
  /\ StartDfuListener(wifi)
  /\ active' = TRUE
  /\ abandoned' = FALSE

(* beginWrite() refuses the size: an update under way goes on. *)
StartUpdateRefused ==
  /\ phase = "running"
  /\ UNCHANGED uVars

FeedChunk ==
  /\ phase = "running"
  /\ active
  /\ UNCHANGED <<bootVars, active, server, abandoned, entries, cuts>>
  /\ ReceiveChunk

CompleteUpdate ==
  /\ phase = "running"
  /\ active
  /\ FinalizeDfu
  /\ UNCHANGED <<entries, cuts>>

(* rollback().  One that is refused does not tell RecoveryManager that the *)
(* update has ended.                                                       *)
OtaRollback ==
  /\ phase = "running"
  /\ \/ /\ Rollback
        /\ phase' = "reset"
        /\ RamLost
     \/ /\ Store!InactiveSlot \notin valid
        /\ active' = FALSE
        /\ abandoned' = (abandoned \/ active)
        /\ UNCHANGED <<phase, store, dfu, server, held>>
  /\ UNCHANGED <<rtc, recovery, entries, cuts>>

(* What the write under way holds is then of an aborted update. *)
OtaShutdown ==
  /\ phase = "running"
  /\ active' = FALSE
  /\ Abort
  /\ abandoned' = FALSE
  /\ held' = IF held = "this" THEN "old" ELSE held
  /\ UNCHANGED <<bootVars, store, entries, cuts>>

-----------------------------------------------------------------------------
(* The recovery program: run() listens until the DFU has ended.  It never  *)
(* calls beginWrite(), so that FirmwareCache refuses every chunk.          *)

RecoveryRun ==
  /\ phase = "recovery"
  /\ dfu = "Idle"
  /\ StartDfuListener(TRUE)
  /\ UNCHANGED <<bootVars, store, active, abandoned, held, entries, cuts>>

RecoveryChunk ==
  /\ phase = "recovery"
  /\ UNCHANGED <<bootVars, active, server, abandoned, entries, cuts>>
  /\ ReceiveChunk

RecoveryFinalize ==
  /\ phase = "recovery"
  /\ dfu = "Receiving"
  /\ FinalizeDfu
  /\ UNCHANGED <<entries, cuts>>

RecoveryRollback ==
  /\ phase = "recovery"
  /\ dfu = "Failed"
  /\ \/ Rollback /\ dfu' = "Complete"
     \/ Store!InactiveSlot \notin valid /\ dfu' = "Failed" /\ UNCHANGED <<valid, activeSlot>>
  /\ UNCHANGED <<bootVars, writing, active, server, abandoned, held, entries, cuts>>

Next ==
  \/ Start
  \/ Confirm
  \/ Crash
  \/ PowerCut
  \/ ForceRestart
  \/ \E wifi \in BOOLEAN : StartUpdate(wifi)
  \/ StartUpdateRefused
  \/ FeedChunk
  \/ CompleteUpdate
  \/ OtaRollback
  \/ OtaShutdown
  \/ RecoveryRun
  \/ RecoveryChunk
  \/ RecoveryFinalize
  \/ RecoveryRollback

(* The boot loader gets on, and an application confirms its start or       *)
(* crashes.                                                                *)
Fairness ==
  /\ WF_uVars(Start)
  /\ WF_uVars(phase = "app" /\ (Confirm \/ Crash))

Spec == Init /\ [][Next]_uVars /\ Fairness

-----------------------------------------------------------------------------
TypeOK ==
  /\ BootTypeOK
  /\ valid \subseteq Store!Slots
  /\ activeSlot \in Store!Slots
  /\ dfu \in DfuStates
  /\ {writing, active, server, abandoned} \subseteq BOOLEAN
  /\ held \in {"none", "this", "old"}
  /\ entries \in 0 .. CountMod
  /\ cuts \in 0 .. MaxCuts

(* Boot loop protection: of the starts that nothing confirms, not more     *)
(* than three give control to the application, whatever updates, mode      *)
(* changes and button presses come in between, until bootCount wraps.      *)
BootLoopBounded == phase = "app" => entries \in 1 .. 3 \cup {CountMod}

(* A device whose recovery image ESP-IDF accepts ends up, when it          *)
(* restarts, in an application that confirms its start, in recovery, or in *)
(* emergency mode: it does not restart for ever.  (Without such an image   *)
(* enterRecovery() may restart the boot loader for ever.)                  *)
BootLoopBroken ==
  (recovery = "usable" /\ phase = "reset") ~> phase \in {"running", "recovery", "emergency"}

(* In the application RecoveryManager takes chunks while OtaService has an *)
(* update, so that feedChunk() is never refused for the state it is in,    *)
(* and otherwise only after a refused rollback() has ended one.            *)
ListensForUpdate == phase = "running" => (Listening <=> active \/ abandoned)

(* When finalizeDfu() has failed, FirmwareCache is not left in the middle  *)
(* of a write.                                                             *)
EndedNotWriting == dfu \in {"Failed", "Complete"} => ~writing

(* abort() and restarts stop the HTTP server: there is none in state Idle. *)
(* Nothing else stops it: it outlives a failed update and a refused        *)
(* rollback().                                                             *)
AbortStopsServer == server => dfu # "Idle"

(* The services agree on how far an update is; with the types.             *)
ServicesAgree == TypeOK /\ ListensForUpdate /\ EndedNotWriting /\ AbortStopsServer

(* abort() leaves FirmwareCache in the middle of the write; still, nothing *)
(* of an aborted update is in the image that requestOtaBoot() announces.   *)
AbortedNotInstalled ==
  [][phase = "running" /\ rtc' # Lost /\ rtc'.mode = "OtaPending" => held # "old"]_uVars

=============================================================================
