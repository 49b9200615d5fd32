----------------------------- MODULE NvsManager -----------------------------
(***************************************************************************)
(* The key-value store of the kernel, kernel/src/nvs_manager.cpp, in its   *)
(* ESP32 build, with the use that Kernel::boot() makes of it: init(), which *)
(* restores the backup if an entry is damaged, and then backup().          *)
(*                                                                         *)
(* Every entry is two blobs, the data and a record with its CRC, and both  *)
(* exist in the main and in the backup namespace.  One nvs_set_blob() or   *)
(* nvs_erase_key() of ESP-IDF is atomic and durable; the power can go      *)
(* between any two of them.  NVS may refuse a blob, when it is full or the *)
(* name is too long: NvsManager ignores that everywhere.  A CRC is         *)
(* represented by the value it was computed for.  A bit flip is one that   *)
(* ESP-IDF's own checks let pass: the case that the CRC of NvsManager is   *)
(* there for.                                                              *)
(***************************************************************************)
EXTENDS Naturals, FiniteSets

CONSTANTS
  Keys,          \* the keys that programs use
  LongKeys,      \* those that may be so long that "<key>_meta" exceeds the 15
                 \* characters of ESP-IDF
  Values,
  Absent,        \* no such blob
  Garbage,       \* what a bit flip makes of a value
  FlipPhases,    \* the phases in which a bit can flip
  MaxFaults,     \* bound: interrupted operations and bit flips in a behaviour
  MaxRefused     \* bound: blobs refused because NVS is full

(* "off": no power.  "up": control is with the program.  "meta", "data":   *)
(* writeEntry() is about to store that blob.  "remove": remove() has       *)
(* erased the data.  "restore", "backup": in these loops.  "closed": the   *)
(* program runs, but NVS is not initialised and every call fails.          *)
Phase == {"off", "up", "meta", "data", "remove", "restore", "backup", "closed"}

ASSUME NvsAssumption ==
  /\ LongKeys \subseteq Keys
  /\ Absent \notin Values /\ Garbage \notin Values /\ Absent # Garbage
  /\ FlipPhases \subseteq Phase
  /\ MaxFaults \in Nat /\ MaxRefused \in Nat

VARIABLES
  data, meta,      \* the main namespace: Keys -> a blob, or Absent
  bakData, bakMeta, \* the backup namespace
  bakMagic,        \* "_bak_magic" is in the backup namespace
  phase,           \* what is under way, see Phase
  key, val,        \* the arguments of the operation under way
  todo,            \* the blobs that the loop of backup() or restore still has
                   \* to copy
  tooLong,         \* the keys whose records NVS refuses for their names
  missed,          \* history: keys of which the operation under way had a blob
                   \* refused
  faults, refused, \* see MaxFaults and MaxRefused
  damaged,         \* history: keys hit by a bit flip, or by a write of which a
                   \* blob was refused, since the last start
  stored,          \* history: what the last completed operation left there;
                   \* Absent if it is nothing, or a blob was refused
  saved,           \* history: the same for the backup
  backed           \* history: keys whose intact entry a completed backup holds

mainVars == <<data, meta>>
bakVars  == <<bakData, bakMeta, bakMagic>>
argVars  == <<key, val, tooLong>>
tallies  == <<faults, refused>>
histVars == <<damaged, stored, saved, backed>>
nvsVars  == <<mainVars, bakVars, phase, argVars, todo, missed, tallies, histVars>>

Blob == Keys \X {"data", "meta"}

(* readEntry() succeeds. *)
Readable(k) == data[k] # Absent /\ data[k] = meta[k]

-----------------------------------------------------------------------------
Init ==
  /\ data = [k \in Keys |-> Absent]
  /\ meta = [k \in Keys |-> Absent]
  /\ bakData = [k \in Keys |-> Absent]
  /\ bakMeta = [k \in Keys |-> Absent]
  /\ bakMagic = FALSE
  /\ phase = "off"
  /\ key \in Keys
  /\ val \in Values
  /\ todo = {}
  /\ tooLong \in SUBSET LongKeys
  /\ missed = {}
  /\ faults = 0 /\ refused = 0
  /\ damaged = {}
  /\ stored = [k \in Keys |-> Absent]
  /\ saved = [k \in Keys |-> Absent]
  /\ backed = {}

(* A blob of k is accepted, or is refused for want of space. *)
Accept    == UNCHANGED <<missed, refused>>
Refuse(k) ==
  /\ refused < MaxRefused
  /\ refused' = refused + 1
  /\ missed' = missed \cup {k}

(* verifyIntegrity() looks only at keys that have data. *)
VerifyIntegrity == \A k \in Keys : data[k] # Absent => Readable(k)

(* backup() copies every entry that has data, in the order of ESP-IDF's    *)
(* iterator, which is any.  Without an entry it gives up.                  *)
StartBackup ==
  /\ missed' = {}
  /\ IF \A k \in Keys : data[k] = Absent /\ meta[k] = Absent
       THEN /\ phase' = "up"
            /\ todo' = {}
       ELSE /\ phase' = "backup"
            /\ todo' = {b \in Blob : data[b[1]] # Absent /\ (b[2] = "meta" => meta[b[1]] # Absent)}

(* init() and backup() in Kernel::boot(). *)
BootOk ==
  /\ phase = "off"
  /\ VerifyIntegrity \/ ~bakMagic
  /\ StartBackup
  /\ damaged' = {}
  /\ UNCHANGED <<mainVars, bakVars, argVars, tallies, stored, saved, backed>>

RestoreDataOnly ==
  /\ phase = "off"
  /\ ~VerifyIntegrity /\ bakMagic
  /\ phase' = "restore"
  /\ todo' = {b \in Blob : b[2] = "data" /\ bakData[b[1]] # Absent}
  /\ missed' = {}
  /\ damaged' = {}
  /\ UNCHANGED <<mainVars, bakVars, argVars, tallies, stored, saved, backed>>

BootRestore ==
  /\ phase = "off"
  /\ ~VerifyIntegrity /\ bakMagic
  /\ phase' = "restore"
  /\ todo' = {b \in Blob : IF b[2] = "data" THEN bakData[b[1]] # Absent
                                            ELSE bakMeta[b[1]] # Absent}
  /\ missed' = {}
  /\ damaged' = {}
  /\ UNCHANGED <<mainVars, bakVars, argVars, tallies, stored, saved, backed>>

(* nvs_flash_erase() takes both namespaces. *)
EraseFlash ==
  /\ data' = [k \in Keys |-> Absent]
  /\ meta' = [k \in Keys |-> Absent]
  /\ bakData' = [k \in Keys |-> Absent]
  /\ bakMeta' = [k \in Keys |-> Absent]
  /\ bakMagic' = FALSE
  /\ damaged' = {}
  /\ stored' = [k \in Keys |-> Absent]
  /\ saved' = [k \in Keys |-> Absent]
  /\ backed' = {}

(* init() finds no free page, or a newer format, and erases everything:    *)
(* there is nothing to verify or to back up.                               *)
BootErase ==
  /\ phase = "off"
  /\ EraseFlash
  /\ phase' = "up"
  /\ UNCHANGED <<argVars, todo, missed, tallies>>

(* nvs_flash_init() fails, and boot() goes on without NVS. *)
BootWithout ==
  /\ phase = "off"
  /\ phase' = "closed"
  /\ damaged' = {}
  /\ UNCHANGED <<mainVars, bakVars, argVars, todo, missed, tallies, stored, saved, backed>>

(* restoreFromBackup() overwrites one blob after the other; what the       *)
(* backup does not have stays.                                             *)
RestoreBlob(b) ==
  /\ phase = "restore" /\ b \in todo
  /\ todo' = todo \ {b}
  /\ \/ /\ Accept
        /\ IF b[2] = "data" THEN /\ data' = [data EXCEPT ![b[1]] = bakData[b[1]]]
                                 /\ UNCHANGED meta
                            ELSE /\ meta' = [meta EXCEPT ![b[1]] = bakMeta[b[1]]]
                                 /\ UNCHANGED data
     \/ Refuse(b[1]) /\ UNCHANGED mainVars
  /\ UNCHANGED <<bakVars, phase, argVars, faults, histVars>>

RestoreEnd ==
  /\ phase = "restore" /\ todo = {}
  /\ StartBackup
  /\ stored' = [k \in Keys |->
       IF k \in missed THEN Absent
       ELSE IF bakData[k] = Absent /\ bakMeta[k] = Absent THEN stored[k] ELSE saved[k]]
  /\ UNCHANGED <<mainVars, bakVars, argVars, tallies, damaged, saved, backed>>

(* The data of a key is copied right before its record. *)
BackupOrder(b) == b[2] = "meta" => <<b[1], "data">> \notin todo
NoKeyHalfDone(b) ==
  \A k \in Keys : <<k, "meta">> \in todo /\ <<k, "data">> \notin todo => b[1] = k

BackupRecomputing(b) ==
  /\ phase = "backup" /\ b \in todo
  /\ BackupOrder(b) /\ NoKeyHalfDone(b)
  /\ todo' = todo \ {b}
  /\ Accept
  /\ IF b[2] = "data" THEN /\ bakData' = [bakData EXCEPT ![b[1]] = data[b[1]]]
                           /\ UNCHANGED bakMeta
                      ELSE /\ bakMeta' = [bakMeta EXCEPT ![b[1]] = data[b[1]]]
                           /\ UNCHANGED bakData
  /\ UNCHANGED <<mainVars, bakMagic, phase, argVars, faults, histVars>>

BackupBlob(b) ==
  /\ phase = "backup" /\ b \in todo
  /\ BackupOrder(b) /\ NoKeyHalfDone(b)
  /\ todo' = todo \ {b}
  /\ \/ /\ Accept
        /\ IF b[2] = "data" THEN /\ bakData' = [bakData EXCEPT ![b[1]] = data[b[1]]]
                                 /\ UNCHANGED bakMeta
                            ELSE /\ bakMeta' = [bakMeta EXCEPT ![b[1]] = meta[b[1]]]
                                 /\ UNCHANGED bakData
     \/ Refuse(b[1]) /\ UNCHANGED <<bakData, bakMeta>>
  /\ UNCHANGED <<mainVars, bakMagic, phase, argVars, faults, histVars>>

BackupEnd ==
  /\ phase = "backup" /\ todo = {}
  /\ phase' = "up"
  /\ missed' = {}
  /\ \/ bakMagic' = TRUE /\ UNCHANGED refused
     \/ bakMagic' = bakMagic /\ refused < MaxRefused /\ refused' = refused + 1
  /\ saved' = [k \in Keys |-> IF k \in missed THEN Absent
                              ELSE IF data[k] = Absent THEN saved[k] ELSE stored[k]]
  /\ backed' = {k \in Keys : /\ bakMagic' /\ k \notin damaged \cup missed
                             /\ k \in backed \/ Readable(k)}
  /\ UNCHANGED <<mainVars, bakData, bakMeta, argVars, todo, faults, damaged, stored>>

-----------------------------------------------------------------------------
(* Calls by the program. *)

(* requestShutdown(), ConfigManager::shutdown() *)
Backup ==
  /\ phase = "up"
  /\ StartBackup
  /\ UNCHANGED <<mainVars, bakVars, argVars, tallies, histVars>>

(* writeEntry() stores the record first, then the data, and returns true   *)
(* whether or not they were refused.                                       *)
SetEntry(k, v) ==
  /\ phase = "up"
  /\ phase' = "meta"
  /\ key' = k
  /\ val' = v
  /\ missed' = {}
  /\ UNCHANGED <<mainVars, bakVars, tooLong, todo, tallies, histVars>>

WriteMeta ==
  /\ phase = "meta"
  /\ phase' = "data"
  /\ \/ key \notin tooLong /\ meta' = [meta EXCEPT ![key] = val] /\ Accept
     \/ key \notin tooLong /\ Refuse(key) /\ UNCHANGED meta
     \/ key \in tooLong /\ missed' = missed \cup {key} /\ UNCHANGED <<meta, refused>>
  /\ UNCHANGED <<data, bakVars, argVars, todo, faults, histVars>>

WriteData ==
  /\ phase = "data"
  /\ phase' = "up"
  /\ \/ data' = [data EXCEPT ![key] = val] /\ Accept
     \/ Refuse(key) /\ UNCHANGED data
  /\ IF key \in missed' THEN /\ stored' = [stored EXCEPT ![key] = Absent]
                             /\ damaged' = damaged \cup {key}
                        ELSE /\ stored' = [stored EXCEPT ![key] = val]
                             /\ damaged' = damaged \ {key}
  /\ UNCHANGED <<meta, bakVars, argVars, todo, faults, saved, backed>>

(* remove() erases the data first.  The backup keeps its copy. *)
Remove(k) ==
  /\ phase = "up"
  /\ data' = [data EXCEPT ![k] = Absent]
  /\ phase' = "remove"
  /\ key' = k
  /\ backed' = backed \ {k}
  /\ UNCHANGED <<meta, bakVars, val, tooLong, todo, missed, tallies, damaged, stored, saved>>

RemoveMeta ==
  /\ phase = "remove"
  /\ meta' = [meta EXCEPT ![key] = Absent]
  /\ stored' = [stored EXCEPT ![key] = Absent]
  /\ phase' = "up"
  /\ UNCHANGED <<data, bakVars, argVars, todo, missed, tallies, damaged, saved, backed>>

(* nvs_flash_erase() leaves NVS without initialisation. *)
EraseAll ==
  /\ phase = "up"
  /\ EraseFlash
  /\ phase' = "closed"
  /\ UNCHANGED <<argVars, todo, missed, tallies>>

-----------------------------------------------------------------------------
(* The environment. *)

(* The power is switched off while nothing is under way. *)
PowerOff ==
  /\ phase \in {"up", "closed"}
  /\ phase' = "off"
  /\ UNCHANGED <<mainVars, bakVars, argVars, todo, missed, tallies, histVars>>

PowerCut ==
  /\ phase \notin {"off", "up", "closed"}
  /\ faults < MaxFaults
  /\ faults' = faults + 1
  /\ phase' = "off"
  /\ todo' = {}
  /\ missed' = {}
  /\ UNCHANGED <<mainVars, bakVars, argVars, refused, histVars>>

BitFlip(k) ==
  /\ phase \in FlipPhases
  /\ data[k] # Absent
  /\ faults < MaxFaults
  /\ faults' = faults + 1
  /\ data' = [data EXCEPT ![k] = Garbage]
  /\ damaged' = damaged \cup {k}
  /\ UNCHANGED <<meta, bakVars, phase, argVars, todo, missed, refused, stored, saved, backed>>

Next ==
  \/ BootOk \/ BootRestore \/ BootErase \/ BootWithout
  \/ \E b \in Blob : RestoreBlob(b) \/ BackupBlob(b)
  \/ RestoreEnd \/ BackupEnd
  \/ Backup
  \/ \E k \in Keys, v \in Values : SetEntry(k, v)
  \/ WriteMeta \/ WriteData
  \/ \E k \in Keys : Remove(k) \/ BitFlip(k)
  \/ RemoveMeta
  \/ EraseAll
  \/ PowerOff \/ PowerCut

Spec == Init /\ [][Next]_nvsVars

-----------------------------------------------------------------------------
(* The types; a record is only ever that of a proper value. *)
TypeOK ==
  /\ data \in [Keys -> Values \cup {Absent, Garbage}]
  /\ meta \in [Keys -> Values \cup {Absent}]
  /\ bakData \in [Keys -> Values \cup {Absent, Garbage}]
  /\ bakMeta \in [Keys -> Values \cup {Absent}]
  /\ bakMagic \in BOOLEAN
  /\ phase \in Phase
  /\ key \in Keys
  /\ val \in Values
  /\ todo \subseteq Blob
  /\ tooLong \subseteq LongKeys
  /\ missed \subseteq Keys /\ damaged \subseteq Keys /\ backed \subseteq Keys
  /\ faults \in 0 .. MaxFaults
  /\ refused \in 0 .. MaxRefused
  /\ stored \in [Keys -> Values \cup {Absent}]
  /\ saved \in [Keys -> Values \cup {Absent}]

(* An entry that a completed backup holds survives one fault: after the    *)
(* next start it can be read, whatever operation the power cut interrupted *)
(* or the refused blob belonged to, and whichever entry a bit flip hit.    *)
(* (A key too long is a fault that stays: it is left out.)                 *)
BackedUpSurvives ==
  phase = "up" /\ tooLong = {} /\ faults + refused <= 1 =>
    \A k \in backed \ damaged : Readable(k)

(* As long as there are no power cuts and no bit flips, an entry both of   *)
(* whose blobs were accepted can be read back, across restarts too, until  *)
(* init() reverts it; and then to exactly what the last backup() saved.    *)
(* Refused blobs and keys too long, which make init() do that, cost no     *)
(* other entry more than what it was given since then.                     *)
DurableWrites ==
  phase = "up" /\ faults = 0 =>
    \A k \in Keys : stored[k] # Absent => Readable(k) /\ data[k] = stored[k]

=============================================================================
