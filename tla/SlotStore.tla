------------------------------ MODULE SlotStore ------------------------------
(***************************************************************************)
(* What FirmwareCache promises its callers (OtaService, RecoveryManager,   *)
(* the bootloader): a pair of slots of which only the inactive one ever    *)
(* changes; while the device is up, only a slot that passes verify()       *)
(* becomes active; and after a restart the active slot is the one that     *)
(* ESP-IDF was told to start or, where nobody tells it, the first one      *)
(* whose header is marked valid.                                           *)
(***************************************************************************)
EXTENDS Naturals

VARIABLES
  valid,        \* the slots that verify() accepts
  marked,       \* the slots whose header is marked valid
  boot,         \* the slot that ESP-IDF starts; no slot: init() chooses
  activeSlot,
  writing,
  up            \* init() has run since the last power-up

ssVars == <<valid, marked, boot, activeSlot, writing, up>>

Slots == {0, 1}

InactiveSlot == 1 - activeSlot

SSInit ==
  /\ valid = {}
  /\ marked = {}
  /\ boot # 0
  /\ activeSlot = 0
  /\ writing = FALSE
  /\ up = FALSE

(* The old contents of the slot stay valid until the first chunk. *)
BeginWrite ==
  /\ up
  /\ writing' = TRUE
  /\ UNCHANGED <<valid, marked, boot, activeSlot, up>>

(* Flash operations of an update or an activation. *)
Alter ==
  /\ up
  /\ valid' \in {valid \cup {InactiveSlot}, valid \ {InactiveSlot}}
  /\ marked' \in {marked \cup {InactiveSlot}, marked \ {InactiveSlot}}
  /\ UNCHANGED <<boot, activeSlot, writing, up>>

(* finalizeWrite() returns what verify() says. *)
EndWrite ==
  /\ up /\ writing
  /\ writing' = FALSE
  /\ UNCHANGED <<valid, marked, boot, activeSlot, up>>

(* ESP-IDF may not know the slot that the program activates. *)
ActivateSlot(s) ==
  /\ up
  /\ s \in valid
  /\ activeSlot' = s
  /\ boot' = boot \/ (boot \in Slots /\ boot' = s)
  /\ UNCHANGED <<valid, marked, writing, up>>

PowerCut ==
  /\ up
  /\ up' = FALSE
  /\ writing' = FALSE
  /\ activeSlot' = 0
  /\ UNCHANGED <<valid, marked, boot>>

StartSlot ==
  IF boot \in Slots THEN boot ELSE IF marked = {1} THEN 1 ELSE 0

(* init() decides which slot is active. *)
Restart ==
  /\ ~up
  /\ up' = TRUE
  /\ activeSlot' = StartSlot
  /\ UNCHANGED <<valid, marked, boot, writing>>

SSNext ==
  \/ BeginWrite
  \/ Alter
  \/ EndWrite
  \/ \E s \in Slots : ActivateSlot(s)
  \/ PowerCut
  \/ Restart

SSSpec == SSInit /\ [][SSNext]_ssVars

=============================================================================
