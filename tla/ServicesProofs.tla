--------------------------- MODULE ServicesProofs ---------------------------
(***************************************************************************)
(* Proofs about the services of a device: Update.tla (OtaService and       *)
(* RecoveryManager, with Bootloader.tla), for every width of bootCount and *)
(* every number of power losses; and CacheManager.tla (with                *)
(* TelemetryService), for every number and size of lines, size of the      *)
(* flash, batch and upload interval.                                       *)
(*                                                                         *)
(* For Update the heart of the invariant ties the RTC memory to the        *)
(* history: until the counter wraps, bootCount is the number of starts     *)
(* that nothing has confirmed, across resets, updates, forced modes and    *)
(* power losses.  The rest says what a program that has control may have   *)
(* in RAM.                                                                 *)
(*                                                                         *)
(* For CacheManager it says that a line is allocated only for what no      *)
(* other line caches, and that TelemetryService uses one line only: that   *)
(* is what makes up for a flush() that stops at the first dirty line.      *)
(***************************************************************************)
EXTENDS Update, CacheManager, FiniteSetTheorems, SequenceTheorems, WellFoundedInduction, TLAPS

-----------------------------------------------------------------------------
(*                       Update and the boot loader                        *)
-----------------------------------------------------------------------------
(* bootCount counts the unconfirmed starts. *)
CountIsEntries ==
  /\ rtc = Lost => phase = "reset" /\ entries = 0
  /\ rtc # Lost /\ entries < CountMod => rtc.bootCount = entries

(* An update of OtaService lives in the running application only, and      *)
(* holds nothing of an update before it; other programs than that one and  *)
(* recovery leave RecoveryManager alone.                                   *)
UpdateLives ==
  /\ active \/ abandoned => phase = "running"
  /\ active => ~abandoned /\ held # "old"
  /\ phase \notin {"running", "recovery"} => dfu = "Idle"

(* markBootSuccessful() leaves the mode Normal for as long as the          *)
(* application runs.                                                       *)
RunningIsNormal == phase = "running" => rtc.mode = "Normal"

Agree == ListensForUpdate /\ EndedNotWriting /\ AbortStopsServer

IInv ==
  /\ TypeOK
  /\ CountIsEntries
  /\ BootLoopBounded
  /\ UpdateLives
  /\ Agree
  /\ RunningIsNormal

-----------------------------------------------------------------------------
(* The configuration that loadBootConfig() returns is one of the type, and *)
(* counts the unconfirmed starts.                                          *)
LEMMA LoadType ==
  ASSUME TypeOK, CountIsEntries
  PROVE  /\ LoadBootConfig \in BootConfig
         /\ entries < CountMod => LoadBootConfig.bootCount = entries
  <1>1. CASE rtc = Lost
    BY <1>1, BootAssumption
    DEF LoadBootConfig, BootConfig, Modes, BootSlots, CountIsEntries
  <1>2. CASE rtc # Lost
    BY <1>2 DEF LoadBootConfig, CountIsEntries, TypeOK, BootTypeOK
  <1> QED BY <1>1, <1>2

(* The two slots of the store. *)
LEMMA SlotsType ==
  ASSUME activeSlot \in Store!Slots
  PROVE  Store!InactiveSlot \in Store!Slots
  BY DEF Store!Slots, Store!InactiveSlot

(* Power is applied for the first time. *)
LEMMA InitInv == Init => IInv
  <1> SUFFICES ASSUME Init PROVE IInv
    OBVIOUS
  <1>1. BootTypeOK /\ entries \in 0 .. CountMod /\ cuts \in 0 .. MaxCuts
    BY BootAssumption, UpdateAssumption DEF Init, BootTypeOK, Phases, RecoveryStates
  <1>2. TypeOK
    BY <1>1 DEF Init, TypeOK, DfuStates, Store!Slots
  <1> QED BY <1>2 DEF Init, IInv, CountIsEntries, BootLoopBounded, UpdateLives, Agree,
             ListensForUpdate, EndedNotWriting, AbortStopsServer, Listening,
                      RunningIsNormal

(* entry() of the boot loader: the count goes up, and decides. *)
LEMMA StartInv ==
  ASSUME IInv, Start
  PROVE  IInv'
  <1>1. PICK button \in BOOLEAN, descriptor \in BOOLEAN : Entry(button, descriptor)
    BY DEF Start
  <1> DEFINE c == LoadBootConfig
             mode == DetermineBootMode(rtc', button, descriptor)
  <1>2. c \in BootConfig /\ (entries < CountMod => c.bootCount = entries)
    BY LoadType DEF IInv
  <1>3. rtc' = Counted(c) /\ phase = "reset" /\ Enter(mode) /\ UNCHANGED recovery
    BY <1>1 DEF Entry
  <1> HIDE DEF c, mode
  <1>4. c.bootCount \in 0 .. CountMod - 1 /\ CountMod \in Nat /\ CountMod > 4
    BY <1>2, BootAssumption DEF BootConfig
  <1>5. (c.bootCount + 1) % CountMod \in 0 .. CountMod - 1
    BY <1>4
  <1>6. rtc' \in BootConfig /\ rtc'.bootCount = (c.bootCount + 1) % CountMod
    BY <1>2, <1>3, <1>5 DEF BootConfig, Counted
  <1>7. rtc' # Lost
    BY <1>6, LostAssumption
  <1>8. /\ entries \in 0 .. CountMod /\ entries' \in 1 .. CountMod
        /\ entries' < CountMod => entries < CountMod /\ entries' = entries + 1
    BY <1>4 DEF Start, IInv, TypeOK
  <1>9. entries' < CountMod => rtc'.bootCount = entries'
    BY <1>2, <1>4, <1>6, <1>8
  <1>10. phase' \in Phases \ {"running"} /\ (phase' = "app" => mode \in {"Normal", "OtaPending"})
    BY <1>3 DEF Enter, EnterRecovery, JumpToFirmware, Phases
  <1>11. mode \in {"Normal", "OtaPending"} => ~(rtc'.bootCount > 3)
    BY DEF mode, DetermineBootMode
  <1>12. BootLoopBounded'
    BY <1>4, <1>6, <1>8, <1>9, <1>10, <1>11 DEF BootLoopBounded
  <1>13. ~active' /\ ~abandoned' /\ dfu' = "Idle" /\ ~server'
    BY <1>3 DEF Start, IInv, UpdateLives, Agree, AbortStopsServer
  <1>14. TypeOK'
    BY <1>3, <1>6, <1>8, <1>10 DEF Start, PlatformInit, IInv, TypeOK, BootTypeOK, Store!Slots
  <1>15. CountIsEntries' /\ UpdateLives' /\ Agree' /\ RunningIsNormal'
    BY <1>7, <1>9, <1>10, <1>13
    DEF CountIsEntries, UpdateLives, Agree,
             ListensForUpdate, EndedNotWriting,
        AbortStopsServer, Listening, RunningIsNormal
  <1> QED BY <1>12, <1>14, <1>15 DEF IInv

(* markBootSuccessful() *)
LEMMA ConfirmInv ==
  ASSUME IInv, Confirm
  PROVE  IInv'
  <1> DEFINE c == LoadBootConfig
  <1>1. c \in BootConfig
    BY LoadType DEF IInv
  <1>2. /\ phase = "app" /\ phase' = "running" /\ entries' = 0
        /\ rtc' = [c EXCEPT !.bootCount = 0, !.mode = "Normal"] /\ UNCHANGED recovery
        /\ UNCHANGED <<store, dfu, active, server, abandoned, held, cuts>>
    BY DEF Confirm, MarkBootSuccessful
  <1> HIDE DEF c
  <1>3. 0 \in 0 .. CountMod - 1 /\ CountMod \in Nat
    BY BootAssumption
  <1>4. /\ rtc' \in BootConfig /\ rtc' # Lost
        /\ rtc'.bootCount = 0 /\ rtc'.mode = "Normal"
    BY <1>1, <1>2, <1>3, LostAssumption DEF BootConfig, Modes
  <1>5. ~active
    BY <1>2 DEF IInv, UpdateLives
  <1>6. TypeOK'
    BY <1>2, <1>3, <1>4 DEF IInv, TypeOK, BootTypeOK, Phases, store
  <1> QED BY <1>2, <1>4, <1>5, <1>6
          DEF IInv, CountIsEntries, BootLoopBounded, UpdateLives, Agree,
             ListensForUpdate, EndedNotWriting, AbortStopsServer, Listening, RunningIsNormal

(* A program ends, by a crash, by losing power or by esp_restart(); RTC    *)
(* memory is as the program left it or lost.                               *)
LEMMA RestartInv ==
  ASSUME IInv, RamLost, phase' = "reset", UNCHANGED recovery,
         \/ UNCHANGED rtc /\ phase # "reset" /\ entries' = entries
         \/ rtc' \in BootConfig /\ rtc # Lost /\ rtc'.bootCount = rtc.bootCount
              /\ entries' = entries
         \/ rtc' = Lost /\ entries' = 0,
         valid' \subseteq Store!Slots, activeSlot' \in Store!Slots, cuts' \in 0 .. MaxCuts
  PROVE  IInv'
  <1>1. rtc' \in BootConfig \cup {Lost} /\ entries' \in 0 .. CountMod
    BY BootAssumption DEF IInv, TypeOK, BootTypeOK
  <1>2. TypeOK'
    BY <1>1 DEF IInv, RamLost, TypeOK, BootTypeOK, Phases, DfuStates
  <1>3. CountIsEntries'
    BY LostAssumption DEF IInv, CountIsEntries
  <1> QED BY <1>2, <1>3 DEF RamLost, IInv, BootLoopBounded, UpdateLives, Agree,
             ListensForUpdate, EndedNotWriting, AbortStopsServer, Listening,
                            RunningIsNormal

(* A flash operation that is interrupted concerns slots of the store. *)
LEMMA InterruptedType ==
  ASSUME TypeOK, Interrupted
  PROVE  valid' \subseteq Store!Slots
  BY SlotsType DEF Interrupted, TypeOK

(* Crashes, power losses and forced modes. *)
LEMMA EndsInv ==
  ASSUME IInv, Crash \/ PowerCut \/ ForceRestart
  PROVE  IInv'
  <1> USE DEF IInv
  <1>1. CASE Crash
    <2>1. /\ RamLost /\ phase' = "reset" /\ UNCHANGED <<rtc, recovery>> /\ phase # "reset"
          /\ UNCHANGED <<activeSlot, entries, cuts>>
      BY <1>1 DEF Crash, Reset
    <2>2. valid' \subseteq Store!Slots
      BY <1>1, InterruptedType DEF Crash
    <2> QED BY <2>1, <2>2, RestartInv DEF TypeOK
  <1>2. CASE PowerCut
    <2>1. /\ RamLost /\ phase' = "reset" /\ rtc' = Lost /\ entries' = 0
          /\ UNCHANGED <<activeSlot, recovery>>
      BY <1>2 DEF PowerCut, PowerLoss
    <2>2. valid' \subseteq Store!Slots
      BY <1>2, InterruptedType DEF PowerCut
    <2>3. cuts' \in 0 .. MaxCuts
      BY <1>2, UpdateAssumption DEF PowerCut, TypeOK
    <2> QED BY <2>1, <2>2, <2>3, RestartInv DEF TypeOK
  <1>3. CASE ForceRestart
    <2>1. PICK mode \in Modes : ForceMode(mode)
      BY <1>3 DEF ForceRestart
    <2>2. rtc # Lost /\ LoadBootConfig = rtc /\ rtc \in BootConfig
      BY <2>1 DEF ForceMode, CountIsEntries, LoadBootConfig, TypeOK, BootTypeOK
    <2>3. rtc' \in BootConfig /\ rtc'.bootCount = rtc.bootCount
      BY <2>1, <2>2 DEF ForceMode, BootConfig
    <2>4. RamLost /\ phase' = "reset" /\ UNCHANGED <<valid, activeSlot, entries, cuts, recovery>>
      BY <1>3, <2>1 DEF ForceRestart, ForceMode
    <2> QED BY <2>2, <2>3, <2>4, RestartInv DEF TypeOK
  <1> QED BY <1>1, <1>2, <1>3

(* RecoveryManager under OtaService, in the running application. *)
LEMMA OtaInv ==
  ASSUME IInv, \/ \E wifi \in BOOLEAN : StartUpdate(wifi)
               \/ StartUpdateRefused \/ FeedChunk \/ OtaShutdown
  PROVE  IInv'
  <1> USE DEF IInv
  <1>1. /\ phase = "running" /\ UNCHANGED <<rtc, phase, recovery, entries, cuts>>
    BY DEF StartUpdate, StartUpdateRefused, FeedChunk, OtaShutdown, uVars, bootVars
  <1>2. CountIsEntries' /\ BootLoopBounded' /\ RunningIsNormal'
    BY <1>1 DEF CountIsEntries, BootLoopBounded, RunningIsNormal
  <1>3. BootTypeOK' /\ entries' \in 0 .. CountMod /\ cuts' \in 0 .. MaxCuts
    BY <1>1 DEF BootTypeOK, TypeOK
  <1>4. ASSUME NEW wifi \in BOOLEAN, StartUpdate(wifi)
        PROVE  IInv'
    <2>1. /\ UNCHANGED <<valid, activeSlot>> /\ writing' = TRUE /\ held' = "none"
          /\ dfu' = "AwaitingImage" /\ active' = TRUE /\ server' \in {TRUE, server}
          /\ abandoned' = FALSE
      BY <1>4 DEF StartUpdate, Store!BeginWrite, StartDfuListener, WifiOtaStart
    <2>2. TypeOK'
      BY <1>3, <2>1 DEF TypeOK, DfuStates
    <2> QED BY <1>1, <1>2, <2>1, <2>2 DEF UpdateLives, Agree,
             ListensForUpdate, EndedNotWriting, AbortStopsServer, Listening
  <1>5. CASE StartUpdateRefused
    BY <1>2, <1>3, <1>5
    DEF StartUpdateRefused, uVars, bootVars, store, TypeOK, UpdateLives, Agree,
        ListensForUpdate, EndedNotWriting, AbortStopsServer, Listening
  <1>6. CASE FeedChunk
    <2>1. /\ active /\ Listening /\ dfu' = "Receiving" /\ UNCHANGED <<activeSlot, writing>>
          /\ held # "old" /\ held' \in {"this", held}
          /\ UNCHANGED <<active, server, abandoned>>
      BY <1>6 DEF FeedChunk, ReceiveChunk, Store!Alter, store, UpdateLives
    <2>2. valid' \subseteq Store!Slots
      BY <1>6, SlotsType DEF FeedChunk, ReceiveChunk, Store!Alter, store, TypeOK
    <2>3. TypeOK'
      BY <1>3, <2>1, <2>2 DEF TypeOK, DfuStates
    <2> QED BY <1>1, <1>2, <2>1, <2>3 DEF UpdateLives, Agree,
             ListensForUpdate, EndedNotWriting, AbortStopsServer, Listening
  <1>7. CASE OtaShutdown
    <2>1. /\ UNCHANGED store /\ dfu' = "Idle" /\ active' = FALSE /\ server' = FALSE
          /\ abandoned' = FALSE /\ held' \in {"none", "this", "old"}
      BY <1>7 DEF OtaShutdown, Abort, WifiOtaStop, TypeOK
    <2>2. TypeOK'
      BY <1>3, <2>1 DEF TypeOK, DfuStates, store
    <2> QED BY <1>2, <2>1, <2>2 DEF UpdateLives, Agree,
             ListensForUpdate, EndedNotWriting, AbortStopsServer, Listening
  <1> QED BY <1>4, <1>5, <1>6, <1>7

(* finalizeDfu(): the update has failed, or the device restarts. *)
LEMMA FinalizeInv ==
  ASSUME IInv, FinalizeDfu, phase = "recovery" \/ (phase = "running" /\ active),
         UNCHANGED <<entries, cuts>>
  PROVE  IInv'
  <1> USE DEF IInv
  <1>1. CASE /\ valid' \in {valid, valid \ {Store!InactiveSlot}}
             /\ writing' = FALSE /\ dfu' = "Failed" /\ active' = FALSE
             /\ UNCHANGED <<bootVars, activeSlot, server, abandoned, held>>
    <2>1. TypeOK'
      BY <1>1 DEF TypeOK, BootTypeOK, DfuStates, bootVars
    <2>2. ~abandoned' /\ UNCHANGED <<rtc, phase>>
      BY <1>1 DEF UpdateLives, bootVars
    <2> QED BY <1>1, <2>1, <2>2
            DEF CountIsEntries, BootLoopBounded, UpdateLives, Agree, ListensForUpdate,
                EndedNotWriting, AbortStopsServer, Listening, RunningIsNormal
  <1>2. CASE /\ valid' = valid \cup {Store!InactiveSlot}
             /\ activeSlot' = Store!InactiveSlot
             /\ RequestOtaBoot(Store!InactiveSlot)
             /\ phase' = "reset" /\ RamLost /\ UNCHANGED recovery
    <2>1. rtc # Lost /\ LoadBootConfig = rtc /\ rtc \in BootConfig
      BY DEF CountIsEntries, LoadBootConfig, TypeOK, BootTypeOK
    <2>2. Store!InactiveSlot \in Store!Slots /\ Store!Slots = BootSlots
      BY SlotsType DEF TypeOK, Store!Slots, BootSlots
    <2>3. rtc' \in BootConfig /\ rtc'.bootCount = rtc.bootCount
      BY <1>2, <2>1, <2>2 DEF RequestOtaBoot, BootConfig, Modes
    <2>4. valid' \subseteq Store!Slots /\ activeSlot' \in Store!Slots
      BY <1>2, <2>2 DEF TypeOK
    <2> QED BY <1>2, <2>1, <2>3, <2>4, RestartInv DEF TypeOK
  <1> QED BY <1>1, <1>2 DEF FinalizeDfu

(* rollback() of OtaService. *)
LEMMA OtaRollbackInv ==
  ASSUME IInv, OtaRollback
  PROVE  IInv'
  <1> USE DEF IInv
  <1>1. phase = "running" /\ UNCHANGED <<rtc, recovery, entries, cuts>>
    BY DEF OtaRollback
  <1>2. CASE Rollback /\ phase' = "reset" /\ RamLost
    <2>1. valid' \subseteq Store!Slots /\ activeSlot' \in Store!Slots
      BY <1>2, SlotsType DEF Rollback, TypeOK
    <2> QED BY <1>1, <1>2, <2>1, RestartInv DEF TypeOK
  <1>3. CASE /\ active' = FALSE /\ abandoned' = (abandoned \/ active)
             /\ UNCHANGED <<phase, store, dfu, server, held>>
    <2>1. TypeOK'
      BY <1>1, <1>3 DEF TypeOK, BootTypeOK, store
    <2>2. CountIsEntries' /\ BootLoopBounded' /\ RunningIsNormal'
      BY <1>1, <1>3 DEF CountIsEntries, BootLoopBounded, RunningIsNormal
    <2>3. UpdateLives' /\ EndedNotWriting' /\ AbortStopsServer'
      BY <1>1, <1>3 DEF store, UpdateLives, Agree, EndedNotWriting, AbortStopsServer
    <2>4. ListensForUpdate'
      <3> HIDE DEF IInv
      <3>0. active' = FALSE /\ (abandoned' <=> (abandoned \/ active))
        BY <1>3
      <3>1. (active' \/ abandoned') <=> (active \/ abandoned)
        BY <3>0
      <3>2. Listening' <=> Listening
        BY <1>3 DEF Listening
      <3> QED BY <1>1, <3>1, <3>2 DEF IInv, Agree, ListensForUpdate
    <2> QED BY <2>1, <2>2, <2>3, <2>4 DEF Agree
  <1> QED BY <1>2, <1>3 DEF OtaRollback

(* The recovery program. *)
LEMMA RecoveryInv ==
  ASSUME IInv, RecoveryRun \/ RecoveryChunk \/ RecoveryRollback
  PROVE  IInv'
  <1> USE DEF IInv
  <1>1. /\ phase = "recovery" /\ ~active /\ ~abandoned
        /\ UNCHANGED <<rtc, phase, recovery, entries, cuts, active, abandoned>>
    BY DEF RecoveryRun, RecoveryChunk, RecoveryRollback, UpdateLives, bootVars
  <1>2. CountIsEntries' /\ BootLoopBounded' /\ RunningIsNormal' /\ UpdateLives'
    BY <1>1 DEF CountIsEntries, BootLoopBounded, RunningIsNormal, UpdateLives
  <1>3. BootTypeOK' /\ entries' \in 0 .. CountMod /\ cuts' \in 0 .. MaxCuts
    BY <1>1 DEF BootTypeOK, TypeOK
  <1>4. /\ valid' \subseteq Store!Slots /\ activeSlot' \in Store!Slots
    BY SlotsType DEF RecoveryRun, RecoveryChunk, RecoveryRollback, ReceiveChunk, Store!Alter,
                     Rollback, store, TypeOK
  <1>5. /\ dfu' \in DfuStates \ {"Idle"} /\ {writing', server'} \subseteq BOOLEAN
        /\ held' \in {"none", "this", "old"}
    BY DEF RecoveryRun, RecoveryChunk, RecoveryRollback, ReceiveChunk, Store!Alter,
           StartDfuListener, WifiOtaStart, DfuStates, store, TypeOK
  <1>6. TypeOK'
    BY <1>1, <1>3, <1>4, <1>5 DEF TypeOK
  <1>7. EndedNotWriting'
    BY DEF RecoveryRun, RecoveryChunk, RecoveryRollback, ReceiveChunk, StartDfuListener,
           Agree, EndedNotWriting
  <1> QED BY <1>1, <1>2, <1>5, <1>6, <1>7 DEF Agree, ListensForUpdate, AbortStopsServer

(* Every step preserves the inductive invariant. *)
LEMMA StepInv == IInv /\ [Next]_uVars => IInv'
  <1> SUFFICES ASSUME IInv, [Next]_uVars PROVE IInv'
    OBVIOUS
  <1>1. CASE UNCHANGED uVars
    BY <1>1 DEF uVars, bootVars, store, IInv, TypeOK, BootTypeOK, CountIsEntries,
                BootLoopBounded, UpdateLives, Agree,
             ListensForUpdate, EndedNotWriting,
                AbortStopsServer, Listening, RunningIsNormal
  <1>2. CASE CompleteUpdate \/ RecoveryFinalize
    BY <1>2, FinalizeInv DEF CompleteUpdate, RecoveryFinalize
  <1> QED BY <1>1, <1>2, StartInv, ConfirmInv, EndsInv, OtaInv, OtaRollbackInv, RecoveryInv
          DEF Next

-----------------------------------------------------------------------------
(* The inductive invariant holds in every reachable state. *)
THEOREM Invariance == Spec => []IInv
  BY InitInv, StepInv, PTL DEF Spec

(* Of the starts that nothing confirms not more than three reach the       *)
(* application, whatever updates, forced modes and resets come in between. *)
THEOREM BootLoopIsBounded == Spec => []BootLoopBounded
  <1>1. IInv => BootLoopBounded
    BY DEF IInv
  <1> QED BY <1>1, Invariance, PTL

(* In the application RecoveryManager listens exactly while OtaService has *)
(* an update or a refused rollback() has dropped one, a failed update      *)
(* leaves no write open, and no HTTP server is up in state Idle.           *)
THEOREM ServicesDoAgree == Spec => []ServicesAgree
  <1>1. IInv => ServicesAgree
    BY DEF IInv, ServicesAgree, Agree
  <1> QED BY <1>1, Invariance, PTL

(* completeUpdate() announces no image with chunks of an aborted update,   *)
(* although abort() leaves FirmwareCache in the middle of the write.       *)
THEOREM AbortedStaysOut == Spec => AbortedNotInstalled
  <1>1. ASSUME IInv, [Next]_uVars
        PROVE  [phase = "running" /\ rtc' # Lost /\ rtc'.mode = "OtaPending"
                  => held # "old"]_uVars
    <2> SUFFICES ASSUME Next, phase = "running", rtc' # Lost, rtc'.mode = "OtaPending"
                 PROVE  held # "old"
      BY <1>1
    <2>1. rtc # Lost /\ rtc.mode = "Normal" /\ rtc \in BootConfig
      BY <1>1 DEF IInv, CountIsEntries, RunningIsNormal, TypeOK, BootTypeOK
    <2>2. ~(UNCHANGED rtc)
      BY <2>1
    <2>3. ~ForceRestart
      <3> SUFFICES ASSUME ForceRestart PROVE FALSE
        OBVIOUS
      <3>1. PICK mode \in Modes \ {"OtaPending"} : ForceMode(mode)
        BY DEF ForceRestart
      <3>2. rtc' = [rtc EXCEPT !.mode = mode]
        BY <2>1, <3>1 DEF ForceMode, LoadBootConfig
      <3> QED BY <2>1, <3>1, <3>2 DEF BootConfig
    <2>4. CompleteUpdate
      BY <2>2, <2>3 DEF Next, Start, Entry, Confirm, MarkBootSuccessful, Crash, Reset, PowerCut,
             PowerLoss, StartUpdate, StartUpdateRefused, FeedChunk, OtaRollback, OtaShutdown,
             RecoveryRun, RecoveryChunk, RecoveryFinalize, RecoveryRollback, uVars, bootVars
    <2> QED BY <1>1, <2>4 DEF CompleteUpdate, IInv, UpdateLives
  <1> QED BY <1>1, Invariance, PTL DEF Spec, AbortedNotInstalled

-----------------------------------------------------------------------------
(*                   CacheManager and TelemetryService                     *)
-----------------------------------------------------------------------------
(* No piece of flash is in two lines of c. *)
KeysApart(c) ==
  \A i, j \in InUse(c) :
    c.entries[i].valid /\ c.entries[j].valid /\ c.entries[i].key = c.entries[j].key => i = j

(* Every batch of TelemetryService goes to the first line of the flash. *)
OnlyFirstLine(c) ==
  owner = "telemetry" => \A i \in InUse(c) : c.entries[i].valid => c.entries[i].key = 0

(* What m says was written is in c, in a line that is marked for flush(). *)
Holds(c, m) ==
  \A b \in Address : m[b] # Free =>
    \E i \in Cached(c, Key(b)) : c.entries[i].dirty /\ c.pool[i][b % lineSize] = m[b]

CacheInv ==
  /\ CacheTypeOK
  /\ KeysApart(cache)
  /\ OnlyFirstLine(cache)
  /\ Holds(cache, mine)

-----------------------------------------------------------------------------
(* The numbers of the configuration. *)
LEMMA CacheSizes ==
  /\ kMaxLines \in Nat /\ kMaxLines > 0
  /\ lineSize \in Nat /\ lineSize > 0
  /\ TotalSize \in Nat /\ TotalSize > 0 /\ TotalSize % lineSize = 0
  /\ uploadInterval \in Nat /\ WordSize \in Nat /\ WordSize > 0
  /\ kMaxRecords \in Nat
  /\ Data \subseteq Seq(Values) /\ Offsets \subseteq Address
  <1>1. /\ {kMaxLines, lineSize, TotalSize, kMaxRecords} \subseteq Nat \ {0}
        /\ {uploadInterval, WordSize} \subseteq Nat
        /\ uploadInterval < WordSize
    BY CacheAssumption
  <1>2. TotalSize % lineSize = 0 /\ Data \subseteq Seq(Values) /\ Offsets \subseteq Address
    BY CacheAssumption DEF Address
  <1> QED BY <1>1, <1>2

(* Division and remainder. *)
LEMMA DivMod ==
  ASSUME NEW d \in Nat, d > 0, NEW b \in Nat
  PROVE  b \div d \in Nat /\ b % d \in 0 .. d - 1 /\ b = (b \div d) * d + (b % d)
  OBVIOUS

(* Multiples of d that differ are at least d apart. *)
LEMMA Multiples ==
  ASSUME NEW d \in Nat, d > 0, NEW p \in Nat, NEW q \in Nat, p < q
  PROVE  p * d + d <= q * d
  <1>1. (q - p - 1) * d >= 0
    OBVIOUS
  <1> QED BY <1>1

(* An address is a line and a cell in it. *)
LEMMA CellOf ==
  ASSUME NEW b \in Nat
  PROVE  Key(b) \in Nat /\ b % lineSize \in Cell /\ b = Key(b) * lineSize + (b % lineSize)
  BY DivMod, CacheSizes DEF Key, Cell

(* ... and a line and a cell in it are an address. *)
LEMMA CellAt ==
  ASSUME NEW k \in Nat, NEW n \in Cell
  PROVE  /\ k * lineSize + n \in Nat
         /\ Key(k * lineSize + n) = k
         /\ (k * lineSize + n) % lineSize = n
  <1> DEFINE b == k * lineSize + n
             p == Key(b)
             r == b % lineSize
  <1>1. k * lineSize \in Nat /\ b \in Nat
    BY CacheSizes DEF Cell
  <1>2. p \in Nat /\ r \in Cell /\ b = p * lineSize + r
    BY <1>1, CellOf
  <1>3. p = k
    <2>1. p * lineSize \in Nat /\ k * lineSize + n = p * lineSize + r
      BY <1>2, CacheSizes
    <2> HIDE DEF b, p, r
    <2>2. p > k => k * lineSize + lineSize <= p * lineSize
      BY <1>2, Multiples, CacheSizes
    <2>3. p < k => p * lineSize + lineSize <= k * lineSize
      BY <1>2, Multiples, CacheSizes
    <2>4. n < lineSize /\ r < lineSize /\ n \in Nat /\ r \in Nat
      BY <1>2, CacheSizes DEF Cell
    <2>5. ~(p > k) /\ ~(p < k)
      BY <1>1, <2>1, <2>2, <2>3, <2>4, CacheSizes
    <2> QED BY <1>2, <2>5
  <1>4. r = n
    BY <1>1, <1>2, <1>3, CacheSizes DEF Cell
  <1> QED BY <1>1, <1>3, <1>4

(* The flash is a whole number of lines. *)
LEMMA LineInFlash ==
  ASSUME NEW b \in Address, NEW n \in Cell
  PROVE  LineAddress(b, n) \in Address
  <1> DEFINE q == TotalSize \div lineSize
  <1>1. q \in Nat /\ TotalSize = q * lineSize
    BY DivMod, CacheSizes
  <1>2. b \in Nat /\ b < TotalSize /\ Key(b) \in Nat /\ Key(b) * lineSize <= b
    <2>1. b \in Nat /\ b < TotalSize
      BY CacheSizes DEF Address
    <2>2. Key(b) \in Nat /\ b % lineSize \in Cell /\ b = Key(b) * lineSize + (b % lineSize)
      BY <2>1, CellOf
    <2>3. Key(b) * lineSize \in Nat
      BY <2>2, CacheSizes
    <2> QED BY <2>1, <2>2, <2>3 DEF Cell
  <1>3. Key(b) < q
    <2>1. CASE q <= Key(b)
      <3>1. (Key(b) - q) * lineSize >= 0
        BY <2>1, <1>1, <1>2, CacheSizes
      <3> QED BY <3>1, <1>1, <1>2, CacheSizes
    <2> QED BY <2>1, <1>1, <1>2
  <1>4. (q - Key(b) - 1) * lineSize >= 0
    BY <1>1, <1>2, <1>3, CacheSizes
  <1>5. Key(b) * lineSize + lineSize <= TotalSize
    BY <1>1, <1>2, <1>4, CacheSizes
  <1>6. Key(b) * lineSize \in Nat
    BY <1>2, CacheSizes
  <1> QED BY <1>2, <1>5, <1>6, CacheSizes DEF Address, Cell, LineAddress

(* Where the cells of two addresses of one line are. *)
LEMMA SameLine ==
  ASSUME NEW a, NEW b \in Address, Key(b) = Key(a)
  PROVE  b % lineSize \in Cell /\ LineAddress(a, b % lineSize) = b
  <1>1. b \in Nat
    BY CacheSizes DEF Address
  <1> QED BY <1>1, CellOf DEF LineAddress

(* A set of natural numbers has a smallest one. *)
LEMMA Smallest ==
  ASSUME NEW S \in SUBSET Nat, S # {}
  PROVE  \E i \in S : \A j \in S : i <= j
  <1>1. PICK x \in S : \A y \in S : ~(<<y, x>> \in OpToRel(<, Nat))
    BY NatLessThanWellFounded, WFMin
  <1>2. ASSUME NEW y \in S PROVE x <= y
    <2>1. ~(y < x)
      BY <1>1 DEF OpToRel
    <2> QED BY <2>1
  <1> HIDE <1>1
  <1> QED BY <1>2

(* First() picks an element. *)
LEMMA FirstOf ==
  ASSUME NEW S \in SUBSET Nat, S # {}
  PROVE  First(S) \in S
  BY Smallest DEF First

(* What is left of recent when an entry is taken out. *)
LEMMA RecentType ==
  ASSUME NEW s \in Seq(Index), NEW e
  PROVE  RemoveFirst(s, e) \in Seq(Index)
  <1>1. CASE \E i \in 1 .. Len(s) : s[i] = e
    <2> DEFINE I == {i \in 1 .. Len(s) : s[i] = e}
    <2>1. I \in SUBSET Nat /\ I # {}
      BY <1>1
    <2>2. PICK p \in I : p = Min(I)
      BY <2>1, Smallest DEF Min
    <2>3. RemoveFirst(s, e) = SubSeq(s, 1, p - 1) \o SubSeq(s, p + 1, Len(s))
      BY <1>1, <2>1, <2>2 DEF RemoveFirst, RemoveAt, SelectInSeq
    <2>4. p \in 1 .. Len(s) /\ Len(s) \in Nat /\ \A n \in 1 .. Len(s) : s[n] \in Index
      BY <2>2, LenProperties, ElementOfSeq
    <2>5. /\ \A n \in 1 .. p - 1 : s[n] \in Index
          /\ \A n \in p + 1 .. Len(s) : s[n] \in Index
      BY <2>4
    <2>6. SubSeq(s, 1, p - 1) \in Seq(Index)
      BY <2>4, <2>5, SubSeqProperties
    <2>7. SubSeq(s, p + 1, Len(s)) \in Seq(Index)
      BY <2>4, <2>5, SubSeqProperties
    <2> QED BY <2>3, <2>6, <2>7, ConcatProperties
  <1>2. CASE ~\E i \in 1 .. Len(s) : s[i] = e
    BY <1>2 DEF RemoveFirst
  <1> QED BY <1>1, <1>2

-----------------------------------------------------------------------------
(* findLine() returns an entry that caches the address. *)
LEMMA FoundIs ==
  ASSUME NEW c \in CacheState, NEW b, Hit(c, b)
  PROVE  /\ Found(c, b) \in InUse(c) /\ Found(c, b) \in Index
         /\ c.entries[Found(c, b)].valid /\ c.entries[Found(c, b)].key = Key(b)
  <1>1. InUse(c) \subseteq Index /\ Index \subseteq Nat
    BY CacheSizes DEF CacheState, InUse, Index
  <1>2. Cached(c, Key(b)) \in SUBSET Nat /\ Cached(c, Key(b)) # {}
    BY <1>1 DEF Hit, Cached
  <1>3. Found(c, b) \in Cached(c, Key(b))
    BY <1>2, FirstOf DEF Found
  <1> QED BY <1>1, <1>3 DEF Cached

(* allocateLine() returns an entry of the table. *)
LEMMA VictimIs ==
  ASSUME NEW c \in CacheState
  PROVE  /\ Victim(c) \in Index
         /\ c.entryCount < kMaxLines => Victim(c) = c.entryCount + 1
  <1> DEFINE unused == {i \in Index : ~Contains(c.recent, i)}
  <1>1. CASE c.entryCount < kMaxLines
    BY <1>1, CacheSizes DEF CacheState, Victim, Index
  <1>2. CASE ~(c.entryCount < kMaxLines) /\ unused # {}
    <2>1. unused \in SUBSET Nat
      BY DEF Index
    <2>2. First(unused) \in unused
      BY <1>2, <2>1, FirstOf
    <2> QED BY <1>2, <2>2 DEF Victim
  <1>3. CASE ~(c.entryCount < kMaxLines) /\ unused = {}
    <2>1. c.recent \in Seq(Index) /\ 1 \in Index
      BY CacheSizes DEF CacheState, Index
    <2>2. Contains(c.recent, 1)
      BY <1>3, <2>1
    <2>3. c.recent # <<>>
      BY <2>1, <2>2, EmptySeq DEF Contains
    <2>4. Head(c.recent) \in Index
      BY <2>1, <2>3, HeadTailProperties
    <2> QED BY <1>3, <2>4 DEF Victim
  <1> QED BY <1>1, <1>2, <1>3

(* StorageManager::write() leaves a flash wherever it stops. *)
LEMMA StoredType ==
  ASSUME NEW c \in CacheState, NEW fl \in [Address -> Values \cup {Erased}], Dirty(c) # {},
         NEW n
  PROVE  Stored(c, First(Dirty(c)), fl, n) \in [Address -> Values \cup {Erased}]
  <1> DEFINE i == First(Dirty(c))
  <1>1. Dirty(c) \in SUBSET Nat /\ Dirty(c) \subseteq Index
    BY CacheSizes DEF CacheState, Dirty, InUse, Index
  <1>2. i \in Index
    BY <1>1, FirstOf
  <1> HIDE DEF i
  <1>3. c.pool[i] \in [Cell -> Values \cup {Erased}]
    BY <1>2 DEF CacheState
  <1>4. ASSUME NEW b \in Address
        PROVE  b % lineSize \in Cell
    <2>1. b \in Nat
      BY CacheSizes DEF Address
    <2> QED BY <2>1, CellOf
  <1>5. ASSUME NEW k
        PROVE  SectorErased(fl, k) \in [Address -> Values \cup {Erased}]
    BY DEF SectorErased
  <1>6. Stored(c, i, fl, n) \in [Address -> Values \cup {Erased}]
    BY <1>3, <1>4, <1>5 DEF Stored, Programmed
  <1> QED BY <1>6 DEF i

(* So does flush(), however it goes, *)
LEMMA FlushedType ==
  ASSUME NEW c \in CacheState, NEW fl \in [Address -> Values \cup {Erased}]
  PROVE  /\ Flushed(c, fl) \in [Address -> Values \cup {Erased}]
         /\ Spoiled(c, fl) \subseteq [Address -> Values \cup {Erased}]
         /\ Attempted(c, fl) \subseteq [Address -> Values \cup {Erased}]
  <1>1. Flushed(c, fl) \in [Address -> Values \cup {Erased}]
    BY StoredType DEF Flushed
  <1>2. Spoiled(c, fl) \subseteq [Address -> Values \cup {Erased}]
    BY StoredType DEF Spoiled
  <1> QED BY <1>1, <1>2 DEF Attempted

(* and making room for a line. *)
LEMMA FlashAfterType ==
  ASSUME NEW c \in CacheState, NEW b, NEW fl \in [Address -> Values \cup {Erased}]
  PROVE  FlashAfter(c, b, fl) \subseteq [Address -> Values \cup {Erased}]
  BY FlushedType DEF FlashAfter, Evicted

-----------------------------------------------------------------------------
(* The cache when the line for an address has been found or allocated. *)
Prepared(c, a) == IF Hit(c, a) THEN Touched(c, a) ELSE Allocated(c, a)

(* A line that is found is only marked as used. *)
LEMMA PreparedHit ==
  ASSUME NEW c \in CacheState, NEW a \in Address, Hit(c, a)
  PROVE  /\ Prepared(c, a) \in CacheState
         /\ Prepared(c, a).entries = c.entries
         /\ Prepared(c, a).entryCount = c.entryCount
         /\ Prepared(c, a).pool = c.pool
  <1>1. Found(c, a) \in Index
    BY FoundIs
  <1>2. RemoveFirst(c.recent, Found(c, a)) \in Seq(Index)
    BY RecentType DEF CacheState
  <1>3. Append(RemoveFirst(c.recent, Found(c, a)), Found(c, a)) \in Seq(Index)
    BY <1>1, <1>2, AppendProperties
  <1> QED BY <1>3 DEF Prepared, Touched, CacheState

(* A line that is allocated takes over one entry, and leaves the pool to   *)
(* the caller.                                                             *)
LEMMA PreparedMiss ==
  ASSUME NEW c \in CacheState, NEW a \in Address, ~Hit(c, a)
  PROVE  /\ Prepared(c, a) \in CacheState
         /\ Prepared(c, a).pool = c.pool
         /\ InUse(Prepared(c, a)) = InUse(c) \cup {Victim(c)}
         /\ Prepared(c, a).entries[Victim(c)] = [key |-> Key(a), dirty |-> FALSE, valid |-> TRUE]
         /\ \A i \in Index \ {Victim(c)} : Prepared(c, a).entries[i] = c.entries[i]
  <1> DEFINE d == Prepared(c, a)
             v == Victim(c)
             e == [key |-> Key(a), dirty |-> FALSE, valid |-> TRUE]
             n == IF c.entryCount < kMaxLines THEN c.entryCount + 1 ELSE c.entryCount
             s == RemoveFirst(c.recent, v)
  <1>1. v \in Index /\ (c.entryCount < kMaxLines => v = c.entryCount + 1)
    BY VictimIs
  <1>2. e \in CacheEntry
    BY CellOf, CacheSizes DEF Address, CacheEntry
  <1>3. s \in Seq(Index)
    BY RecentType DEF CacheState
  <1>4. n \in 0 .. kMaxLines
    BY CacheSizes DEF CacheState
  <1>5. d = [c EXCEPT !.entryCount = n, !.recent = s, !.entries = [@ EXCEPT ![v] = e]]
    BY DEF Prepared, Allocated
  <1> HIDE DEF d, e, n, s, v
  <1>6. /\ d.entryCount = n /\ d.recent = s /\ d.pool = c.pool
        /\ d.entries = [c.entries EXCEPT ![v] = e]
    BY <1>5 DEF CacheState
  <1>7. d \in CacheState
    BY <1>1, <1>2, <1>3, <1>4, <1>5 DEF CacheState
  <1>8. InUse(d) = InUse(c) \cup {v}
    BY <1>1, <1>6, CacheSizes DEF n, InUse, Index, CacheState
  <1>9. d.entries[v] = e /\ \A i \in Index \ {v} : d.entries[i] = c.entries[i]
    BY <1>1, <1>6 DEF CacheState
  <1> QED BY <1>6, <1>7, <1>8, <1>9 DEF d, v, e

(* In both cases the line that was prepared is in use, caches the address, *)
(* and no other entry has changed or joined.                               *)
LEMMA PreparedLine ==
  ASSUME NEW c \in CacheState, NEW a \in Address
  PROVE  LET d == Prepared(c, a)
             l == LineFor(c, a)
         IN /\ d \in CacheState /\ d.pool = c.pool
            /\ l \in Index /\ l \in InUse(d)
            /\ d.entries[l].valid /\ d.entries[l].key = Key(a)
            /\ InUse(d) \subseteq Index /\ InUse(c) \subseteq InUse(d)
            /\ \A i \in InUse(d) \ {l} : i \in InUse(c) /\ d.entries[i] = c.entries[i]
            /\ Hit(c, a) => d.entries = c.entries
  <1> DEFINE d == Prepared(c, a)
             l == LineFor(c, a)
  <1>1. CASE Hit(c, a)
    <2>1. l = Found(c, a)
      BY <1>1 DEF LineFor
    <2>2. /\ l \in InUse(c) /\ l \in Index
          /\ c.entries[l].valid /\ c.entries[l].key = Key(a)
      BY <1>1, <2>1, FoundIs
    <2>3. /\ d \in CacheState /\ d.entries = c.entries
          /\ d.entryCount = c.entryCount /\ d.pool = c.pool
      BY <1>1, PreparedHit
    <2>4. InUse(d) = InUse(c)
      BY <2>3 DEF InUse
    <2>5. InUse(d) \subseteq Index
      BY <2>3, CacheSizes DEF InUse, Index, CacheState
    <2> HIDE DEF d, l
    <2> QED BY <2>2, <2>3, <2>4, <2>5 DEF d, l
  <1>2. CASE ~Hit(c, a)
    <2>1. l = Victim(c) /\ l \in Index
      BY <1>2, VictimIs DEF LineFor
    <2>2. /\ d \in CacheState /\ d.pool = c.pool
          /\ InUse(d) = InUse(c) \cup {l}
          /\ d.entries[l] = [key |-> Key(a), dirty |-> FALSE, valid |-> TRUE]
          /\ \A i \in Index \ {l} : d.entries[i] = c.entries[i]
      BY <1>2, <2>1, PreparedMiss
    <2>3. InUse(d) \subseteq Index
      BY <2>2, CacheSizes DEF InUse, Index, CacheState
    <2> HIDE DEF d, l
    <2> QED BY <1>2, <2>1, <2>2, <2>3 DEF d, l
  <1> QED BY <1>1, <1>2

(* A line for an address is allocated only if there is none.               *)
LEMMA PreparedApart ==
  ASSUME NEW c \in CacheState, NEW a \in Address, KeysApart(c)
  PROVE  KeysApart(Prepared(c, a))
  <1> DEFINE d == Prepared(c, a)
             l == LineFor(c, a)
  <1>1. /\ l \in InUse(d) /\ d.entries[l].valid /\ d.entries[l].key = Key(a)
        /\ InUse(c) \subseteq InUse(d)
        /\ \A i \in InUse(d) \ {l} : i \in InUse(c) /\ d.entries[i] = c.entries[i]
        /\ Hit(c, a) => d.entries = c.entries
    BY PreparedLine
  <1>2. Hit(c, a) => l \in InUse(c)
    BY FoundIs DEF LineFor
  <1>3. ~Hit(c, a) => \A i \in InUse(c) : ~(c.entries[i].valid /\ c.entries[i].key = Key(a))
    BY DEF Hit, Cached
  <1> HIDE DEF d, l
  <1>4. KeysApart(d)
    BY <1>1, <1>2, <1>3 DEF KeysApart
  <1> QED BY <1>4 DEF d

(* What Kept() leaves is in a line that is not given to another address.   *)
LEMMA PreparedHolds ==
  ASSUME cache \in CacheState, mine \in [Address -> Values \cup {Free}],
         Holds(cache, mine), NEW a \in Address, NEW b \in Address,
         Kept(cache, a)[b] # Free
  PROVE  LET d == Prepared(cache, a)
         IN /\ Kept(cache, a)[b] = mine[b]
            /\ \E i \in Cached(d, Key(b)) :
                 /\ d.entries[i].dirty /\ d.pool[i][b % lineSize] = mine[b]
                 /\ Hit(cache, a) \/ i # LineFor(cache, a)
  <1> DEFINE d == Prepared(cache, a)
             l == LineFor(cache, a)
  <1>1. Kept(cache, a)[b] = mine[b] /\ mine[b] # Free
    BY DEF Kept
  <1>2. PICK i \in Cached(cache, Key(b)) :
          cache.entries[i].dirty /\ cache.pool[i][b % lineSize] = mine[b]
    BY <1>1 DEF Holds
  <1>3. i \in InUse(cache) /\ cache.entries[i].valid /\ cache.entries[i].key = Key(b)
    BY <1>2 DEF Cached
  <1>4. ~Hit(cache, a) => i # l
    <2> SUFFICES ASSUME ~Hit(cache, a), i = l
                 PROVE  FALSE
      OBVIOUS
    <2>1. i = Victim(cache)
      BY DEF LineFor
    <2> QED BY <1>3, <2>1 DEF Kept
  <1>5. /\ d.pool = cache.pool /\ InUse(cache) \subseteq InUse(d)
        /\ \A j \in InUse(d) \ {l} : d.entries[j] = cache.entries[j]
        /\ Hit(cache, a) => d.entries = cache.entries
    BY PreparedLine
  <1> HIDE DEF d, l
  <1>6. i \in InUse(d) /\ d.entries[i] = cache.entries[i]
    BY <1>3, <1>4, <1>5
  <1>7. i \in Cached(d, Key(b))
    BY <1>3, <1>6 DEF Cached
  <1> QED BY <1>1, <1>2, <1>4, <1>5, <1>6, <1>7 DEF d, l

-----------------------------------------------------------------------------
(* memcpy() stays inside the line and inside the data. *)
LEMMA CoveredIs ==
  ASSUME NEW a \in Address, NEW len \in Nat, NEW b \in Covered(a, len)
  PROVE  b \in Address /\ Key(b) = Key(a) /\ b - a + 1 \in 1 .. len
  BY CacheSizes DEF Covered, LineCells, Address

(* The copy has the type of a line and holds the data. *)
LEMMA OverlaidIs ==
  ASSUME NEW line \in [Cell -> Values \cup {Erased}], NEW a \in Address, NEW data \in Seq(Values)
  PROVE  /\ Overlaid(line, a, data) \in [Cell -> Values \cup {Erased}]
         /\ \A b \in Covered(a, Len(data)) :
              Overlaid(line, a, data)[b % lineSize] = data[b - a + 1]
         /\ \A b \in Address : Key(b) = Key(a) /\ b \notin Covered(a, Len(data)) =>
              Overlaid(line, a, data)[b % lineSize] = line[b % lineSize]
  <1>1. Len(data) \in Nat
    BY LenProperties
  <1>2. ASSUME NEW b \in Covered(a, Len(data))
        PROVE  b \in Address /\ Key(b) = Key(a) /\ data[b - a + 1] \in Values
    <2>1. b \in Address /\ Key(b) = Key(a) /\ b - a + 1 \in 1 .. Len(data)
      BY <1>1, CoveredIs
    <2> QED BY <2>1, ElementOfSeq
  <1>3. Overlaid(line, a, data) \in [Cell -> Values \cup {Erased}]
    BY <1>2 DEF Overlaid
  <1>4. ASSUME NEW b \in Covered(a, Len(data))
        PROVE  Overlaid(line, a, data)[b % lineSize] = data[b - a + 1]
    <2>1. b % lineSize \in Cell /\ LineAddress(a, b % lineSize) = b
      BY <1>2, SameLine
    <2> QED BY <2>1 DEF Overlaid
  <1>5. ASSUME NEW b \in Address, Key(b) = Key(a), b \notin Covered(a, Len(data))
        PROVE  Overlaid(line, a, data)[b % lineSize] = line[b % lineSize]
    <2>1. b % lineSize \in Cell /\ LineAddress(a, b % lineSize) = b
      BY <1>5, SameLine
    <2> QED BY <1>5, <2>1 DEF Overlaid
  <1> QED BY <1>3, <1>4, <1>5

(* write() changes the prepared line and nothing else. *)
LEMMA PutLine ==
  ASSUME NEW d \in CacheState, NEW l \in Index, NEW a \in Address, NEW data \in Seq(Values)
  PROVE  LET w == Put(d, l, a, data)
         IN /\ w \in CacheState /\ w.entryCount = d.entryCount
            /\ w.entries[l] = [d.entries[l] EXCEPT !.dirty = TRUE]
            /\ w.pool[l] = Overlaid(d.pool[l], a, data)
            /\ \A i \in Index \ {l} : w.entries[i] = d.entries[i] /\ w.pool[i] = d.pool[i]
  <1> DEFINE w == Put(d, l, a, data)
             e == [d.entries[l] EXCEPT !.dirty = TRUE]
             p == Overlaid(d.pool[l], a, data)
  <1>1. w = [d EXCEPT !.entries = [@ EXCEPT ![l] = e], !.pool = [@ EXCEPT ![l] = p]]
    BY DEF Put, CacheState
  <1>2. d.entries \in [Index -> CacheEntry] /\ d.pool \in [Index -> [Cell -> Values \cup {Erased}]]
    BY DEF CacheState
  <1>3. e \in CacheEntry
    BY <1>2 DEF CacheEntry
  <1>4. p \in [Cell -> Values \cup {Erased}]
    BY <1>2, OverlaidIs
  <1> HIDE DEF w, e, p
  <1>6. w.entries = [d.entries EXCEPT ![l] = e] /\ w.pool = [d.pool EXCEPT ![l] = p]
    BY <1>1 DEF CacheState
  <1>7. w \in CacheState /\ w.entryCount = d.entryCount
    BY <1>1, <1>2, <1>3, <1>4 DEF CacheState
  <1>8. /\ w.entries[l] = e /\ w.pool[l] = p
        /\ \A i \in Index \ {l} : w.entries[i] = d.entries[i] /\ w.pool[i] = d.pool[i]
    BY <1>2, <1>6
  <1> QED BY <1>7, <1>8 DEF w, e, p

(* The history after a write. *)
LEMMA RememberedIs ==
  ASSUME mine \in [Address -> Values \cup {Free}], NEW a \in Address, NEW data \in Seq(Values)
  PROVE  /\ Kept(cache, a) \in [Address -> Values \cup {Free}]
         /\ Remembered(cache, a, data) \in [Address -> Values \cup {Free}]
  <1>1. Kept(cache, a) \in [Address -> Values \cup {Free}]
    BY DEF Kept
  <1>2. ASSUME NEW b \in Covered(a, Len(data))
        PROVE  data[b - a + 1] \in Values
    <2>1. Len(data) \in Nat
      BY LenProperties
    <2>2. b - a + 1 \in 1 .. Len(data)
      BY <2>1, CoveredIs
    <2> QED BY <2>2, ElementOfSeq
  <1> QED BY <1>1, <1>2 DEF Remembered

(* write() keeps the promises of the cache and stores the data in a dirty line. *)
LEMMA WrittenInv ==
  ASSUME CacheInv, NEW a \in Address, NEW data \in Seq(Values),
         owner = "telemetry" => a = 0
  PROVE  LET w == Written(cache, a, data)
             l == LineFor(cache, a)
         IN /\ w \in CacheState /\ KeysApart(w) /\ OnlyFirstLine(w)
            /\ Holds(w, Remembered(cache, a, data))
            /\ l \in Dirty(w) /\ w.entries[l].key = Key(a)
            /\ \A b \in Covered(a, Len(data)) : w.pool[l][b % lineSize] = data[b - a + 1]
  <1> DEFINE d == Prepared(cache, a)
             l == LineFor(cache, a)
             w == Written(cache, a, data)
             m == Remembered(cache, a, data)
  <1>1. cache \in CacheState /\ mine \in [Address -> Values \cup {Free}]
    BY DEF CacheInv, CacheTypeOK
  <1>2. /\ d \in CacheState /\ l \in Index /\ l \in InUse(d)
        /\ d.entries[l].valid /\ d.entries[l].key = Key(a)
        /\ InUse(d) \subseteq Index
        /\ \A i \in InUse(d) \ {l} : i \in InUse(cache) /\ d.entries[i] = cache.entries[i]
    BY <1>1, PreparedLine
  <1>3. w = Put(d, l, a, data)
    BY DEF Written, Prepared
  <1>4. KeysApart(d)
    BY <1>1, PreparedApart DEF CacheInv
  <1>5. ASSUME NEW b \in Address, Kept(cache, a)[b] # Free
        PROVE  \E i \in Cached(d, Key(b)) :
                 d.entries[i].dirty /\ d.pool[i][b % lineSize] = Kept(cache, a)[b]
    BY <1>1, <1>5, PreparedHolds DEF CacheInv
  <1>6. OnlyFirstLine(cache)
    BY DEF CacheInv
  <1>7. \A b \in Address : m[b] = IF b \in Covered(a, Len(data)) THEN data[b - a + 1]
                                   ELSE Kept(cache, a)[b]
    BY DEF Remembered
  <1>8. Len(data) \in Nat
    BY LenProperties
  <1>9. ASSUME NEW b \in Covered(a, Len(data))
        PROVE  b \in Address /\ Key(b) = Key(a)
    BY <1>8, CoveredIs
  <1>10. d.pool[l] \in [Cell -> Values \cup {Erased}]
    BY <1>2 DEF CacheState
  <1> HIDE DEF d, l, w, m
  <1>11. /\ w \in CacheState /\ w.entryCount = d.entryCount
         /\ w.entries[l] = [d.entries[l] EXCEPT !.dirty = TRUE]
         /\ \A i \in Index \ {l} : w.entries[i] = d.entries[i] /\ w.pool[i] = d.pool[i]
         /\ w.pool[l] = Overlaid(d.pool[l], a, data)
    BY <1>2, <1>3, PutLine
  <1>12. InUse(w) = InUse(d)
    BY <1>11 DEF InUse
  <1>13. /\ w.entries[l].dirty /\ w.entries[l].valid /\ w.entries[l].key = Key(a)
    BY <1>2, <1>11 DEF CacheState, CacheEntry
  <1>14. KeysApart(w)
    <2>1. ASSUME NEW i \in InUse(d)
          PROVE  w.entries[i].valid = d.entries[i].valid /\ w.entries[i].key = d.entries[i].key
      <3>1. CASE i = l
        BY <3>1, <1>2, <1>11 DEF CacheState, CacheEntry
      <3>2. CASE i # l
        BY <3>2, <1>2, <1>11
      <3> QED BY <3>1, <3>2
    <2> QED BY <2>1, <1>4, <1>12 DEF KeysApart
  <1>15. OnlyFirstLine(w)
    <2> SUFFICES ASSUME owner = "telemetry", NEW i \in InUse(w), w.entries[i].valid
                 PROVE  w.entries[i].key = 0
      BY DEF OnlyFirstLine
    <2>1. CASE i = l
      <3>1. Key(0) = 0
        BY CellAt, CacheSizes DEF Cell, Key
      <3> QED BY <2>1, <3>1, <1>13
    <2>2. CASE i # l
      BY <2>2, <1>2, <1>6, <1>11, <1>12 DEF OnlyFirstLine
    <2> QED BY <2>1, <2>2
  <1>16. ASSUME NEW b \in Covered(a, Len(data))
         PROVE  w.pool[l][b % lineSize] = data[b - a + 1]
    BY <1>10, <1>11, OverlaidIs
  <1>17. Holds(w, m)
    <2> SUFFICES ASSUME NEW b \in Address, m[b] # Free
                 PROVE  \E i \in Cached(w, Key(b)) :
                          w.entries[i].dirty /\ w.pool[i][b % lineSize] = m[b]
      BY DEF Holds
    <2>1. CASE b \in Covered(a, Len(data))
      <3>1. l \in Cached(w, Key(b))
        BY <2>1, <1>2, <1>9, <1>12, <1>13 DEF Cached
      <3>2. w.pool[l][b % lineSize] = m[b]
        BY <2>1, <1>7, <1>16
      <3> QED BY <3>1, <3>2, <1>13
    <2>2. CASE b \notin Covered(a, Len(data))
      <3>1. m[b] = Kept(cache, a)[b]
        BY <2>2, <1>7
      <3>2. PICK i \in Cached(d, Key(b)) : d.entries[i].dirty /\ d.pool[i][b % lineSize] = m[b]
        BY <3>1, <1>5
      <3>3. i \in InUse(d) /\ d.entries[i].valid /\ d.entries[i].key = Key(b)
        BY <3>2 DEF Cached
      <3>4. CASE i = l
        <4>1. Key(b) = Key(a)
          BY <3>3, <3>4, <1>2
        <4>2. w.pool[l][b % lineSize] = d.pool[l][b % lineSize]
          BY <2>2, <4>1, <1>10, <1>11, OverlaidIs
        <4>3. l \in Cached(w, Key(b))
          BY <4>1, <1>2, <1>12, <1>13 DEF Cached
        <4> QED BY <3>2, <3>4, <4>2, <4>3, <1>13
      <3>5. CASE i # l
        <4>1. w.entries[i] = d.entries[i] /\ w.pool[i] = d.pool[i]
          BY <3>3, <3>5, <1>2, <1>11
        <4>2. i \in Cached(w, Key(b))
          BY <3>3, <4>1, <1>12 DEF Cached
        <4> QED BY <3>2, <4>1, <4>2
      <3> QED BY <3>4, <3>5
    <2> QED BY <2>1, <2>2
  <1>18. l \in Dirty(w)
    BY <1>2, <1>12, <1>13 DEF Dirty
  <1> QED BY <1>11, <1>13, <1>14, <1>15, <1>16, <1>17, <1>18 DEF w, l, m

-----------------------------------------------------------------------------
(* A fresh cache over an erased flash. *)
LEMMA CacheInitInv == CacheInit => CacheInv
  <1> SUFFICES ASSUME CacheInit PROVE CacheInv
    OBVIOUS
  <1>1. cache \in CacheState
    <2>1. EmptyEntry \in CacheEntry
      BY DEF EmptyEntry, CacheEntry
    <2>2. <<>> \in Seq(Index)
      BY EmptySeq
    <2> QED BY <2>1, <2>2, CacheSizes DEF CacheInit, EmptyCache, CacheState
  <1>2. CacheTypeOK
    <2>1. buffer \in Seq(Values) /\ Len(buffer) <= kMaxRecords
      BY EmptySeq, CacheSizes DEF CacheInit
    <2>2. lastUpload \in 0 .. WordSize - 1 /\ now \in 0 .. WordSize - 1
      BY CacheSizes DEF CacheInit
    <2>3. /\ flash \in [Address -> Values \cup {Erased}]
          /\ mine \in [Address -> Values \cup {Free}]
          /\ owner \in Owners /\ {flushPending, down, failed} \subseteq BOOLEAN
      BY DEF CacheInit
    <2> QED BY <1>1, <2>1, <2>2, <2>3 DEF CacheTypeOK
  <1>3. InUse(cache) = {}
    BY DEF CacheInit, EmptyCache, InUse
  <1>4. Holds(cache, mine)
    BY DEF CacheInit, Holds
  <1> QED BY <1>2, <1>3, <1>4 DEF CacheInv, KeysApart, OnlyFirstLine

(* read(), which may load a line. *)
LEMMA ReadInv ==
  ASSUME CacheInv, NEW a \in Offsets, Read(a)
  PROVE  CacheInv'
  <1> DEFINE d == Prepared(cache, a)
             l == LineFor(cache, a)
  <1>1. /\ cache \in CacheState /\ mine \in [Address -> Values \cup {Free}]
        /\ flash \in [Address -> Values \cup {Erased}] /\ a \in Address
    BY CacheSizes DEF CacheInv, CacheTypeOK
  <1>2. /\ d \in CacheState /\ l \in Index /\ l \in InUse(d)
        /\ d.entries[l].valid /\ d.entries[l].key = Key(a)
        /\ InUse(d) \subseteq Index
        /\ \A i \in InUse(d) \ {l} : i \in InUse(cache) /\ d.entries[i] = cache.entries[i]
    BY <1>1, PreparedLine
  <1>3. KeysApart(d)
    BY <1>1, PreparedApart DEF CacheInv
  <1>4. ASSUME NEW b \in Address, Kept(cache, a)[b] # Free
        PROVE  \E i \in Cached(d, Key(b)) :
                 /\ d.entries[i].dirty /\ d.pool[i][b % lineSize] = Kept(cache, a)[b]
                 /\ Hit(cache, a) \/ i # l
    BY <1>1, <1>4, PreparedHolds DEF CacheInv
  <1>5. flash' \in [Address -> Values \cup {Erased}]
    BY <1>1, FlashAfterType DEF Read
  <1>6. owner = "app" /\ owner' = owner
    BY DEF Read, App
  <1>7. mine' = Kept(cache, a)
    BY DEF Read
  <1>8. CASE Hit(cache, a)
    <2>1. cache' = d
      BY <1>8 DEF Read, Prepared
    <2> HIDE DEF d, l
    <2>2. Holds(cache, mine)'
      BY <1>4, <1>7, <2>1 DEF Holds, Cached, InUse
    <2>3. CacheTypeOK'
      <3>1. mine' \in [Address -> Values \cup {Free}]
        BY <1>1, <1>7, RememberedIs DEF Kept
      <3> QED BY <3>1, <1>2, <1>5, <2>1 DEF CacheInv, CacheTypeOK, Read, App
    <2>4. KeysApart(cache)' /\ OnlyFirstLine(cache)'
      BY <1>3, <1>6, <2>1 DEF KeysApart, OnlyFirstLine, InUse
    <2> QED BY <2>2, <2>3, <2>4 DEF CacheInv
  <1>9. CASE ~Hit(cache, a)
    <2> DEFINE p == [n \in Cell |-> flash'[LineAddress(a, n)]]
    <2>1. cache' = [d EXCEPT !.pool = [@ EXCEPT ![l] = p]]
      BY <1>9 DEF Read, Prepared, LineFor, Load
    <2>2. p \in [Cell -> Values \cup {Erased}]
      BY <1>1, <1>5, LineInFlash
    <2> HIDE DEF d, l, p
    <2>3. /\ cache' \in CacheState /\ cache'.entries = d.entries
          /\ cache'.entryCount = d.entryCount
          /\ \A i \in Index \ {l} : cache'.pool[i] = d.pool[i]
      BY <1>2, <2>1, <2>2 DEF CacheState
    <2>4. InUse(cache)' = InUse(d)
      BY <2>3 DEF InUse
    <2>5. Holds(cache, mine)'
      <3> SUFFICES ASSUME NEW b \in Address, mine'[b] # Free
                   PROVE  \E i \in Cached(cache, Key(b))' :
                            /\ cache'.entries[i].dirty
                            /\ cache'.pool[i][b % lineSize] = mine'[b]
        BY DEF Holds
      <3>1. PICK i \in Cached(d, Key(b)) :
              /\ d.entries[i].dirty /\ d.pool[i][b % lineSize] = mine'[b]
              /\ i # l
        BY <1>4, <1>7, <1>9
      <3>2. i \in InUse(d) /\ i \in Index
        BY <3>1, <1>2 DEF Cached
      <3>3. i \in Cached(cache, Key(b))'
        BY <3>1, <2>3, <2>4 DEF Cached
      <3> QED BY <3>1, <3>2, <3>3, <2>3
    <2>6. CacheTypeOK'
      <3>1. mine' \in [Address -> Values \cup {Free}]
        BY <1>1, <1>7, RememberedIs DEF Kept
      <3> QED BY <3>1, <1>5, <2>3 DEF CacheInv, CacheTypeOK, Read, App
    <2>7. KeysApart(cache)'
      BY <1>3, <2>3, <2>4 DEF KeysApart
    <2>8. OnlyFirstLine(cache)'
      BY <1>6 DEF OnlyFirstLine
    <2> QED BY <2>5, <2>6, <2>7, <2>8 DEF CacheInv
  <1> QED BY <1>8, <1>9

(* write() of the application. *)
LEMMA WriteInv ==
  ASSUME CacheInv, NEW a \in Offsets, NEW data \in Data, Write(a, data)
  PROVE  CacheInv'
  <1> DEFINE w == Written(cache, a, data)
  <1>1. /\ cache \in CacheState /\ mine \in [Address -> Values \cup {Free}]
        /\ flash \in [Address -> Values \cup {Erased}]
        /\ a \in Address /\ data \in Seq(Values)
    BY CacheSizes DEF CacheInv, CacheTypeOK
  <1>2. owner = "app" /\ owner' = owner
    BY DEF Write, App
  <1>3. w \in CacheState /\ KeysApart(w) /\ Holds(w, Remembered(cache, a, data))
    BY <1>1, <1>2, WrittenInv
  <1>4. mine' \in [Address -> Values \cup {Free}]
    BY <1>1, RememberedIs DEF Write
  <1>5. flash' \in [Address -> Values \cup {Erased}]
    BY <1>1, FlashAfterType DEF Write
  <1>6. cache' = w /\ mine' = Remembered(cache, a, data)
    BY DEF Write
  <1> HIDE DEF w
  <1>7. CacheTypeOK'
    BY <1>3, <1>4, <1>5, <1>6 DEF CacheInv, CacheTypeOK, Write, App
  <1>8. KeysApart(cache)' /\ OnlyFirstLine(cache)'
    BY <1>2, <1>3, <1>6 DEF KeysApart, OnlyFirstLine, InUse
  <1>9. Holds(cache, mine)'
    BY <1>3, <1>6 DEF Holds, Cached, InUse
  <1> QED BY <1>7, <1>8, <1>9 DEF CacheInv

(* flush() and invalidate() of the application. *)
LEMMA FlushInv ==
  ASSUME CacheInv, Flush \/ Invalidate
  PROVE  CacheInv'
  <1>1. CASE Flush
    <2>1. flash' \in [Address -> Values \cup {Erased}]
      BY <1>1, FlushedType DEF CacheInv, CacheTypeOK, Flush
    <2>2. CacheTypeOK'
      BY <1>1, <2>1 DEF CacheInv, CacheTypeOK, Flush, App
    <2> QED BY <1>1, <2>2 DEF CacheInv, Flush, App, KeysApart, OnlyFirstLine, Holds, Cached, InUse
  <1>2. CASE Invalidate
    <2> DEFINE f == [i \in Index |-> IF i \in InUse(cache)
                                     THEN [cache.entries[i] EXCEPT !.valid = FALSE, !.dirty = FALSE]
                                     ELSE cache.entries[i]]
    <2>1. cache' = [cache EXCEPT !.entryCount = 0, !.recent = <<>>, !.entries = f]
      BY <1>2 DEF Invalidate
    <2>2. f \in [Index -> CacheEntry]
      BY DEF CacheInv, CacheTypeOK, CacheState, CacheEntry
    <2>3. <<>> \in Seq(Index)
      BY EmptySeq
    <2> HIDE DEF f
    <2>4. cache' \in CacheState /\ cache'.entryCount = 0
      <3>1. cache \in CacheState /\ 0 \in 0 .. kMaxLines
        BY CacheSizes DEF CacheInv, CacheTypeOK
      <3> QED BY <2>1, <2>2, <2>3, <3>1 DEF CacheState
    <2>5. CacheTypeOK'
      BY <1>2, <2>4 DEF CacheInv, CacheTypeOK, Invalidate, App
    <2>6. InUse(cache)' = {}
      BY <2>4 DEF InUse
    <2>7. Holds(cache, mine)'
      BY <1>2 DEF Invalidate, Holds
    <2> QED BY <2>5, <2>6, <2>7 DEF CacheInv, KeysApart, OnlyFirstLine
  <1> QED BY <1>1, <1>2

-----------------------------------------------------------------------------
(* record() appends while there is room. *)
LEMMA RecordInv ==
  ASSUME CacheInv, NEW v \in Values, Record(v)
  PROVE  CacheInv'
  <1>1. buffer \in Seq(Values) /\ Len(buffer) \in Nat /\ Len(buffer) <= kMaxRecords
    BY LenProperties DEF CacheInv, CacheTypeOK
  <1>2. Append(buffer, v) \in Seq(Values) /\ Len(Append(buffer, v)) = Len(buffer) + 1
    BY <1>1, AppendProperties
  <1>3. buffer' \in Seq(Values) /\ Len(buffer') <= kMaxRecords
    BY <1>1, <1>2, CacheSizes DEF Record
  <1>4. CacheTypeOK'
    BY <1>3 DEF CacheInv, CacheTypeOK, Record, Telemetry
  <1> QED BY <1>4 DEF CacheInv, Record, Telemetry, KeysApart, OnlyFirstLine, Holds, Cached, InUse

(* What BatchStored promises for a batch s. *)
Batch(s) ==
  \A n \in 1 .. Len(s) : n <= lineSize =>
    /\ \E i \in Cached(cache', 0) : cache'.entries[i].dirty /\ cache'.pool[i][n - 1] = s[n]
    /\ ~failed' => flash'[n - 1] = s[n]

(* flushToFlash(): the batch is the one dirty line, and reaches the flash  *)
(* unless that fails.                                                      *)
LEMMA FlushToFlashInv ==
  ASSUME CacheInv, owner = "telemetry", owner' = owner, FlushToFlash
  PROVE  /\ cache' \in CacheState /\ KeysApart(cache)' /\ OnlyFirstLine(cache)'
         /\ Holds(cache, mine)'
         /\ flash' \in [Address -> Values \cup {Erased}]
         /\ mine' \in [Address -> Values \cup {Free}]
         /\ buffer' = <<>> /\ failed' \in BOOLEAN
         /\ Batch(buffer)
  <1>1. /\ cache \in CacheState /\ mine \in [Address -> Values \cup {Free}]
        /\ flash \in [Address -> Values \cup {Erased}] /\ buffer \in Seq(Values)
    BY DEF CacheInv, CacheTypeOK
  <1>2. buffer' = <<>> /\ failed' \in BOOLEAN
    BY DEF FlushToFlash, CacheInv, CacheTypeOK
  <1>3. CASE buffer = <<>>
    <2>1. UNCHANGED <<cache, flash, mine>>
      BY <1>3 DEF FlushToFlash
    <2>2. Len(buffer) = 0
      BY <1>3, EmptySeq
    <2>3. Batch(buffer)
      BY <2>2 DEF Batch
    <2> QED BY <1>1, <1>2, <2>1, <2>3
            DEF CacheInv, KeysApart, OnlyFirstLine, Holds, Cached, InUse
  <1>4. CASE buffer # <<>>
    <2> DEFINE w == Written(cache, 0, buffer)
               l == LineFor(cache, 0)
    <2>1. 0 \in Address /\ 0 \in Cell
      BY CacheSizes DEF Address, Cell
    <2>2. Key(0) = 0
      BY CacheSizes DEF Key
    <2>3. /\ w \in CacheState /\ KeysApart(w) /\ OnlyFirstLine(w)
          /\ Holds(w, Remembered(cache, 0, buffer))
          /\ l \in Dirty(w) /\ w.entries[l].key = 0
          /\ \A b \in Covered(0, Len(buffer)) : w.pool[l][b % lineSize] = buffer[b - 0 + 1]
      BY <1>1, <2>1, <2>2, WrittenInv
    <2>4. /\ cache' = w /\ mine' = Remembered(cache, 0, buffer)
          /\ \E fl \in FlashAfter(cache, 0, flash) :
               \/ flash' = Flushed(w, fl)
               \/ flash' \in Spoiled(w, fl) /\ failed' = TRUE
      BY <1>4 DEF FlushToFlash
    <2>5. PICK fl \in [Address -> Values \cup {Erased}] :
            \/ flash' = Flushed(w, fl)
            \/ flash' \in Spoiled(w, fl) /\ failed' = TRUE
      BY <1>1, <2>4, FlashAfterType
    <2>6. mine' \in [Address -> Values \cup {Free}]
      BY <1>1, <2>1, <2>4, RememberedIs
    <2> HIDE DEF w, l
    <2>7. flash' \in [Address -> Values \cup {Erased}]
      BY <2>3, <2>4, <2>5, FlushedType
    <2>8. /\ cache' \in CacheState /\ KeysApart(cache)' /\ OnlyFirstLine(cache)'
          /\ Holds(cache, mine)'
      BY <2>3, <2>4 DEF KeysApart, OnlyFirstLine, Holds, Cached, InUse
    <2>9. Dirty(w) = {l}
      BY <2>3 DEF Dirty, KeysApart, OnlyFirstLine
    <2>10. First(Dirty(w)) = l
      <3>1. Dirty(w) \in SUBSET Nat
        BY DEF Dirty, InUse
      <3> QED BY <2>9, <3>1, FirstOf
    <2>11. ~failed' => flash' = Stored(w, l, fl, lineSize)
      BY <2>5, <2>9, <2>10 DEF Flushed
    <2>12. ASSUME NEW n \in 1 .. Len(buffer), n <= lineSize
           PROVE  /\ w.entries[l].dirty /\ w.pool[l][n - 1] = buffer[n] /\ l \in Cached(w, 0)
                  /\ ~failed' => flash'[n - 1] = buffer[n]
      <3>1. Len(buffer) \in Nat /\ n \in Nat /\ n - 1 \in Cell /\ n - 1 < Len(buffer)
        BY <1>1, <2>12, LenProperties, CacheSizes DEF Cell
      <3>2. LineAddress(0, n - 1) = n - 1
        BY <2>2, <3>1, CacheSizes DEF LineAddress, Cell
      <3>3. n - 1 \in Address
        BY <2>1, <3>1, <3>2, LineInFlash
      <3>4. Key(n - 1) = 0 /\ (n - 1) % lineSize = n - 1
        <4>1. Key(0 * lineSize + (n - 1)) = 0 /\ (0 * lineSize + (n - 1)) % lineSize = n - 1
          BY <3>1, CellAt
        <4>2. 0 * lineSize + (n - 1) = n - 1
          BY <3>1, CacheSizes DEF Cell
        <4> QED BY <4>1, <4>2
      <3>5. n - 1 \in Covered(0, Len(buffer))
        BY <2>2, <3>1, <3>3, <3>4 DEF Covered, LineCells
      <3>6. w.pool[l][n - 1] = buffer[n]
        <4>1. w.pool[l][n - 1] = buffer[(n - 1) - 0 + 1]
          BY <2>3, <3>4, <3>5
        <4> QED BY <3>1, <4>1
      <3>7. w.entries[l].dirty /\ l \in Cached(w, 0)
        BY <2>3 DEF Dirty, Cached
      <3>8. (n - 1) % lineSize < lineSize
        BY <3>1, <3>4, CacheSizes DEF Cell
      <3> QED BY <2>3, <2>11, <3>3, <3>4, <3>6, <3>7, <3>8 DEF Stored, Programmed
    <2>13. Batch(buffer)
      BY <2>4, <2>12 DEF Batch
    <2> QED BY <1>2, <2>6, <2>7, <2>8, <2>13
  <1> QED BY <1>3, <1>4

(* tick() and shutdown() of TelemetryService, and the clock. *)
LEMMA TelemetryInv ==
  ASSUME CacheInv, TelemetryTick \/ TelemetryShutdown \/ Clock
  PROVE  CacheInv'
  <1>1. <<>> \in Seq(Values) /\ Len(<<>>) <= kMaxRecords
    BY EmptySeq, CacheSizes
  <1>2. CASE TelemetryTick \/ TelemetryShutdown
    <2>1. /\ owner = "telemetry" /\ owner' = owner /\ FlushToFlash
          /\ {flushPending', down'} \subseteq BOOLEAN
          /\ now' = now /\ lastUpload' \in {lastUpload, now}
      BY <1>2 DEF TelemetryTick, TelemetryShutdown, Telemetry, CacheInv, CacheTypeOK
    <2>2. /\ cache' \in CacheState /\ KeysApart(cache)' /\ OnlyFirstLine(cache)'
          /\ Holds(cache, mine)'
          /\ flash' \in [Address -> Values \cup {Erased}]
          /\ mine' \in [Address -> Values \cup {Free}]
          /\ buffer' = <<>> /\ failed' \in BOOLEAN
      BY <2>1, FlushToFlashInv
    <2>3. CacheTypeOK'
      BY <1>1, <2>1, <2>2 DEF CacheInv, CacheTypeOK
    <2> QED BY <2>2, <2>3 DEF CacheInv
  <1>3. CASE Clock
    <2>1. now' \in 0 .. WordSize - 1
      <3>1. now + 1 \in Nat
        BY CacheSizes DEF CacheInv, CacheTypeOK
      <3> QED BY <1>3, <3>1, DivMod, CacheSizes DEF Clock
    <2>2. CacheTypeOK'
      BY <1>3, <2>1 DEF CacheInv, CacheTypeOK, Clock, Telemetry
    <2> QED BY <1>3, <2>2
            DEF CacheInv, Clock, Telemetry, KeysApart, OnlyFirstLine, Holds, Cached, InUse
  <1> QED BY <1>2, <1>3

(* Every step keeps the invariant of the cache. *)
LEMMA CacheStepInv == CacheInv /\ [CacheNext]_cacheVars => CacheInv'
  <1> SUFFICES ASSUME CacheInv, [CacheNext]_cacheVars PROVE CacheInv'
    OBVIOUS
  <1>1. CASE UNCHANGED cacheVars
    BY <1>1 DEF cacheVars, CacheInv, CacheTypeOK, KeysApart, OnlyFirstLine, Holds, Cached, InUse
  <1> QED BY <1>1, ReadInv, WriteInv, FlushInv, RecordInv, TelemetryInv DEF CacheNext

-----------------------------------------------------------------------------
(* The inductive invariant of the cache holds in every reachable state. *)
THEOREM CacheInvariance == CacheSpec => []CacheInv
  BY CacheInitInv, CacheStepInv, PTL DEF CacheSpec

(* A piece of flash is in one line at most, and what was written through a *)
(* line stays there, marked for flush(), until that line is given up.      *)
THEOREM CacheIsConsistent == CacheSpec => []CacheConsistent
  <1>1. CacheInv => CacheConsistent
    <2> SUFFICES ASSUME CacheInv PROVE CacheConsistent
      OBVIOUS
    <2>1. ASSUME NEW k
          PROVE  Cardinality(Cached(cache, k)) <= 1
      <3>1. CASE Cached(cache, k) = {}
        BY <3>1, FS_EmptySet
      <3>2. CASE Cached(cache, k) # {}
        <4>1. PICK i : i \in Cached(cache, k)
          BY <3>2
        <4>2. Cached(cache, k) = {i}
          BY <4>1 DEF CacheInv, KeysApart, Cached
        <4> QED BY <4>2, FS_Singleton
      <3> QED BY <3>1, <3>2
    <2>2. OneLinePerKey
      BY <2>1 DEF OneLinePerKey
    <2>3. WritesStay
      BY DEF CacheInv, Holds, WritesStay
    <2> QED BY <2>2, <2>3 DEF CacheInv, CacheConsistent
  <1> QED BY <1>1, CacheInvariance, PTL

(* When flushToFlash() empties the buffer, the records, as many as a line  *)
(* holds, are in a dirty line, and in flash unless the flash has failed,   *)
(* in spite of the flush() that stops at the first dirty line.             *)
THEOREM BatchIsStored == CacheSpec => BatchStored
  <1>1. ASSUME CacheInv, [CacheNext]_cacheVars
        PROVE  [buffer # <<>> /\ buffer' = <<>> => Batch(buffer)]_cacheVars
    <2> SUFFICES ASSUME CacheNext, buffer # <<>>, buffer' = <<>>
                 PROVE  Batch(buffer)
      BY <1>1
    <2>1. ASSUME NEW v \in Values, Record(v)
          PROVE  FALSE
      <3>1. buffer \in Seq(Values)
        BY <1>1 DEF CacheInv, CacheTypeOK
      <3>2. Append(buffer, v) # <<>>
        BY <3>1, AppendProperties, EmptySeq
      <3> QED BY <2>1, <3>2 DEF Record
    <2>2. TelemetryTick \/ TelemetryShutdown
      BY <2>1 DEF CacheNext, Read, Write, Flush, Invalidate, App, Clock
    <2>3. owner = "telemetry" /\ owner' = owner /\ FlushToFlash
      BY <2>2 DEF TelemetryTick, TelemetryShutdown, Telemetry
    <2> QED BY <1>1, <2>3, FlushToFlashInv
  <1> QED BY <1>1, CacheInvariance, PTL DEF CacheSpec, BatchStored, Batch

=============================================================================
