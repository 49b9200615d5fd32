------------------------------ MODULE Bootloader ------------------------------
(***************************************************************************)
(* takt_boot/src/bootloader.cpp as the device runs it (TAKT_ESP32): the    *)
(* boot decision kept in RTC memory, and what entry() starts.              *)
(*                                                                         *)
(* The CRC of the configuration is left out: every caller of               *)
(* loadBootConfig() ignores whether it matched.  RTC memory survives a     *)
(* reset; after a power loss its magic number does not match.              *)
(***************************************************************************)
EXTENDS Naturals

CONSTANTS
  Lost,         \* the contents of RTC memory after a power loss
  CountMod      \* bootCount is a uint8_t: 256

ASSUME BootAssumption == CountMod \in Nat /\ CountMod > 4

VARIABLES
  rtc,          \* RTC memory
  phase,        \* the program that has control
  recovery      \* of the recovery partition, for good: one of RecoveryStates

bootVars == <<rtc, phase, recovery>>

(* "refused": esp_ota_set_boot_partition() does not accept its image. *)
RecoveryStates == {"usable", "refused", "missing"}

BootSlots == {0, 1}

Modes == {"Normal", "Recovery", "OtaPending", "FactoryReset"}

(* "app" has not confirmed its start yet, "running" has; in "stopped"      *)
(* entry() has returned.                                                   *)
Phases == {"reset", "app", "running", "recovery", "emergency", "stopped"}

BootConfig == [mode : Modes, bootCount : 0 .. CountMod - 1, otaSlot : BootSlots]

(* The magic number tells whether RTC memory holds a configuration. *)
ASSUME LostAssumption == Lost \notin BootConfig

LoadBootConfig ==
  IF rtc = Lost THEN [mode |-> "Normal", bootCount |-> 0, otaSlot |-> 0] ELSE rtc

(* esp_partition_find_first(APP, APP_OTA_MIN, label) finds only ota_0,     *)
(* which has an ESP-IDF application descriptor or not: that is not the     *)
(* header that FirmwareCache writes.                                       *)
ValidateFirmware(slot, descriptor) == slot = 0 /\ descriptor

ModeBeforeCount(config, button, descriptor) ==
  IF button THEN "Recovery"
  ELSE IF config.mode \in {"FactoryReset", "OtaPending"} THEN config.mode
  ELSE IF config.bootCount > 3 THEN "Recovery"
  ELSE IF \A s \in BootSlots : ~ValidateFirmware(s, descriptor) THEN "Emergency"
  ELSE "Normal"

(* determineBootMode() with the boot button (GPIO0) held or not. *)
DetermineBootMode(config, button, descriptor) ==
  IF button \/ config.bootCount > 3 THEN "Recovery"
  ELSE IF config.mode \in {"FactoryReset", "OtaPending"} THEN config.mode
  ELSE IF \A s \in BootSlots : ~ValidateFirmware(s, descriptor) THEN "Emergency"
  ELSE "Normal"

(* jumpToFirmware() restarts whether or not ESP-IDF accepts the partition  *)
(* (the one after the running one, so ota_0, whatever slot was asked for). *)
JumpToFirmware == phase' \in {"app", "reset"}

(* enterRecovery() restarts whether or not ESP-IDF accepts the partition,  *)
(* and then the boot loader runs again.  Without a partition it returns,   *)
(* although it is declared [[noreturn]]: the program ends, runs into       *)
(* enterEmergency(), which follows it, or crashes.                         *)
EnterRecovery ==
  \/ recovery = "usable" /\ phase' = "recovery"
  \/ recovery = "refused" /\ phase' = "reset"
  \/ recovery = "missing" /\ phase' \in {"stopped", "emergency", "reset"}

(* eraseAll() of NvsManager precedes enterRecovery() in FactoryReset. *)
Enter(mode) ==
  \/ mode \in {"Normal", "OtaPending"} /\ JumpToFirmware
  \/ mode \in {"Recovery", "FactoryReset"} /\ EnterRecovery
  \/ mode = "Emergency" /\ phase' = "emergency"

CountedNotAtAll(config) == config

(* bootCount++ at every start *)
Counted(config) == [config EXCEPT !.bootCount = (@ + 1) % CountMod]

Entry(button, descriptor) ==
  /\ phase = "reset"
  /\ rtc' = Counted(LoadBootConfig)
  /\ Enter(DetermineBootMode(rtc', button, descriptor))
  /\ UNCHANGED recovery

(* main() calls markBootSuccessful() when Kernel::boot() has succeeded. *)
MarkBootSuccessful ==
  /\ phase = "app"
  /\ rtc' = [LoadBootConfig EXCEPT !.bootCount = 0, !.mode = "Normal"]
  /\ phase' = "running"
  /\ UNCHANGED recovery

(* requestOtaBoot(), called by RecoveryManager::finalizeDfu(). *)
RequestOtaBoot(slot) ==
  rtc' = [LoadBootConfig EXCEPT !.mode = "OtaPending", !.otaSlot = slot]

(* A program changes the mode with loadBootConfig() and saveBootConfig()   *)
(* and restarts.                                                           *)
ForceMode(mode) ==
  /\ phase = "running"
  /\ rtc' = [LoadBootConfig EXCEPT !.mode = mode]
  /\ phase' = "reset"
  /\ UNCHANGED recovery

(* A crash, a watchdog or the reset button.  Emergency mode only waits. *)
Reset ==
  /\ phase # "reset"
  /\ phase' = "reset"
  /\ UNCHANGED <<rtc, recovery>>

PowerLoss ==
  /\ phase' = "reset"
  /\ rtc' = Lost
  /\ UNCHANGED recovery

BootTypeOK ==
  /\ rtc \in BootConfig \cup {Lost}
  /\ phase \in Phases
  /\ recovery \in RecoveryStates

=============================================================================
