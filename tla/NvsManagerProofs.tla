-------------------------- MODULE NvsManagerProofs --------------------------
(***************************************************************************)
(* Proofs about NvsManager.tla, for every set of keys and values, and any  *)
(* number of refused blobs and of keys that are too long.                  *)
(*                                                                         *)
(* The types and DurableWrites hold for every environment.  The promise    *)
(* about backups needs what the backup was made for: bits that flip while  *)
(* the device is off (FlipsInStorage).                                     *)
(***************************************************************************)
EXTENDS NvsManager, TLAPS

FlipsInStorage == FlipPhases \subseteq {"off"}

(* Nothing changes under the hands of a loop. *)
Quiet == faults = 0 \/ FlipsInStorage

OneFault == FlipsInStorage /\ tooLong = {} /\ faults + refused <= 1

(* writeEntry() and remove() have changed one blob of key, not the other. *)
HalfDone(k) == phase \in {"data", "remove"} /\ k = key

(* The blob that the operation under way has dealt with. *)
HalfWritten ==
  /\ phase = "data" => meta[key] = val \/ key \in missed
  /\ phase = "remove" => data[key] = Absent /\ key \notin backed

(* What the loop of backup() has behind it. *)
CopiedSoFar ==
  phase = "backup" =>
    /\ \A k \in Keys : <<k, "data">> \in todo \/ <<k, "meta">> \in todo => data[k] # Absent
    /\ \A k \in Keys \ missed : data[k] # Absent =>
         /\ <<k, "data">> \in todo \/ bakData[k] = data[k]
         /\ <<k, "meta">> \in todo \/ bakMeta[k] = meta[k] \/ meta[k] = Absent

(* What the loop of restoreFromBackup() has behind it. *)
RestoredSoFar ==
  phase = "restore" =>
    /\ \A k \in Keys : <<k, "data">> \in todo => bakData[k] # Absent
    /\ \A k \in Keys : <<k, "meta">> \in todo => bakMeta[k] # Absent
    /\ \A k \in Keys \ missed :
         /\ <<k, "data">> \in todo \/ bakData[k] = Absent \/ data[k] = bakData[k]
         /\ <<k, "meta">> \in todo \/ bakMeta[k] = Absent \/ meta[k] = bakMeta[k]

(* The entries are those that the completed operations have left, but for  *)
(* the one under way and those that a restore is about to replace.         *)
StoredThere ==
  \A k \in Keys :
    /\ stored[k] # Absent /\ ~HalfDone(k)
    /\ phase = "restore" => bakData[k] = Absent /\ bakMeta[k] = Absent
    => data[k] = stored[k] /\ meta[k] = stored[k]

(* The same for the copies, but for those that backup() is replacing. *)
SavedThere ==
  \A k \in Keys :
    saved[k] # Absent /\ (phase = "backup" => data[k] = Absent)
    => bakData[k] = saved[k] /\ bakMeta[k] = saved[k]

(* While nothing has gone wrong, the two blobs of an entry agree. *)
Clean ==
  tooLong = {} /\ faults + refused = 0 =>
    /\ phase # "restore" /\ missed = {}
    /\ \A k \in Keys : ~HalfDone(k) => data[k] = meta[k]

(* The backup holds an entry that readEntry() would accept. *)
BackupReadable(k) == bakData[k] # Absent /\ bakData[k] = bakMeta[k]

(* An entry in a completed backup is never without data, and at every      *)
(* point there is a way back to it: itself, or its copy and the certainty  *)
(* that init() will use it.                                                *)
WayBack ==
  /\ phase = "restore" => missed = {}
  /\ backed # {} => bakMagic
  /\ \A k \in backed :
       /\ data[k] # Absent
       /\ phase \in {"up", "meta", "backup", "remove"} => Readable(k) \/ k \in damaged
       /\ phase = "data" => k = key \/ Readable(k) \/ k \in damaged
       /\ phase # "backup" =>
            BackupReadable(k) \/ (phase \in {"off", "closed"} /\ faults > 0 /\ VerifyIntegrity)

IInv ==
  /\ TypeOK
  /\ HalfWritten
  /\ Quiet => CopiedSoFar /\ RestoredSoFar
  /\ faults = 0 => StoredThere /\ SavedThere
  /\ Clean
  /\ OneFault => WayBack

-----------------------------------------------------------------------------
(* Two numbers of which neither becomes smaller. *)
LEMMA Sums ==
  ASSUME NEW f \in Nat, NEW r \in Nat, NEW g \in Nat, NEW s \in Nat, f <= g, r <= s
  PROVE  /\ g = 0 => f = 0
         /\ g + s = 0 => f + r = 0 /\ g = f /\ s = r
         /\ g + s <= 1 => f + r <= 1
  OBVIOUS

(* Faults are only ever added. *)
LEMMA Monotone ==
  ASSUME TypeOK, UNCHANGED tooLong, faults' \in {faults, faults + 1},
         refused' \in {refused, refused + 1}
  PROVE  /\ faults \in Nat /\ refused \in Nat
         /\ Quiet' => Quiet
         /\ faults' = 0 => faults = 0
         /\ faults' + refused' = 0 => faults + refused = 0 /\ faults' = faults /\ refused' = refused
         /\ OneFault' => OneFault
  <1>1. faults \in Nat /\ refused \in Nat
    BY NvsAssumption DEF TypeOK
  <1>2. faults' \in Nat /\ refused' \in Nat /\ faults <= faults' /\ refused <= refused'
    BY <1>1
  <1>3. /\ faults' = 0 => faults = 0
        /\ faults' + refused' = 0 => faults + refused = 0 /\ faults' = faults /\ refused' = refused
        /\ faults' + refused' <= 1 => faults + refused <= 1
    BY <1>1, <1>2, Sums
  <1> QED BY <1>1, <1>3 DEF Quiet, OneFault

(* The namespaces are empty and nothing is under way. *)
LEMMA InitInv == Init => IInv
  <1> SUFFICES ASSUME Init PROVE IInv
    OBVIOUS
  <1>1. TypeOK
    <2>1. faults \in 0 .. MaxFaults /\ refused \in 0 .. MaxRefused
      BY NvsAssumption DEF Init
    <2>2. /\ data \in [Keys -> Values \cup {Absent, Garbage}]
          /\ bakData \in [Keys -> Values \cup {Absent, Garbage}]
          /\ meta \in [Keys -> Values \cup {Absent}]
          /\ bakMeta \in [Keys -> Values \cup {Absent}]
          /\ stored \in [Keys -> Values \cup {Absent}]
          /\ saved \in [Keys -> Values \cup {Absent}]
      BY DEF Init
    <2> QED BY <2>1, <2>2 DEF Init, TypeOK, Phase
  <1> QED BY <1>1 DEF Init, IInv, HalfWritten, CopiedSoFar, RestoredSoFar, StoredThere,
                     SavedThere, Clean, WayBack

(* The two blobs of an entry. *)
LEMMA BlobType ==
  /\ \A k \in Keys : <<k, "data">> \in Blob /\ <<k, "meta">> \in Blob
  /\ \A b \in Blob : \E k \in Keys : b = <<k, "data">> \/ b = <<k, "meta">>
  BY DEF Blob

(* backup() begins while every entry that it must not lose can be read,    *)
(* and those that were stored are there.                                   *)
LEMMA StartBackupInv ==
  ASSUME IInv, StartBackup, phase \in {"off", "up", "restore"},
         UNCHANGED <<mainVars, bakVars, argVars, tallies, saved, backed>>,
         damaged' \subseteq Keys,
         stored' \in [Keys -> Values \cup {Absent}],
         faults = 0 => \A k \in Keys : stored'[k] # Absent =>
                         data[k] = stored'[k] /\ meta[k] = stored'[k],
         OneFault => \A k \in backed : Readable(k) \/ k \in damaged'
  PROVE  IInv'
  <1> USE DEF IInv
  <1>1. /\ phase' \in {"up", "backup"} /\ todo' \subseteq Blob /\ missed' = {}
        /\ UNCHANGED <<data, meta, bakData, bakMeta, bakMagic, key, val, tooLong, faults, refused>>
    BY DEF StartBackup, mainVars, bakVars, argVars, tallies
  <1>2. TypeOK'
    BY <1>1 DEF TypeOK, Phase
  <1>3. HalfWritten'
    BY <1>1 DEF HalfWritten
  <1>4. RestoredSoFar'
    BY <1>1 DEF RestoredSoFar
  <1>5. CopiedSoFar'
    <2> SUFFICES ASSUME phase' = "backup", NEW k \in Keys
                 PROVE  /\ <<k, "data">> \in todo' \/ <<k, "meta">> \in todo' => data[k] # Absent
                        /\ data[k] # Absent => /\ <<k, "data">> \in todo'
                                               /\ <<k, "meta">> \in todo' \/ meta[k] = Absent
      BY <1>1 DEF CopiedSoFar
    <2>1. todo' = {b \in Blob : data[b[1]] # Absent /\ (b[2] = "meta" => meta[b[1]] # Absent)}
      BY DEF StartBackup
    <2> QED BY <2>1, BlobType
  <1>6. faults' = 0 => StoredThere' /\ SavedThere'
    BY <1>1 DEF StoredThere, SavedThere, HalfDone
  <1>7. Clean'
    BY <1>1 DEF Clean, HalfDone
  <1>8. OneFault' => WayBack'
    <2> SUFFICES ASSUME OneFault PROVE WayBack'
      BY <1>1 DEF OneFault
    <2>1. phase' = "up" => backed = {}
      BY DEF StartBackup, WayBack, TypeOK
    <2> QED BY <1>1, <2>1 DEF WayBack, Readable
  <1> QED BY <1>2, <1>3, <1>4, <1>5, <1>6, <1>7, <1>8

(* init() finds nothing damaged, or has no backup. *)
LEMMA BootOkInv ==
  ASSUME IInv, BootOk
  PROVE  IInv'
  <1> USE DEF IInv
  <1>1. ASSUME OneFault, NEW k \in backed PROVE Readable(k)
    BY <1>1 DEF BootOk, WayBack, VerifyIntegrity, TypeOK
  <1>2. ASSUME faults = 0, NEW k \in Keys, stored[k] # Absent
        PROVE  data[k] = stored[k] /\ meta[k] = stored[k]
    BY <1>2 DEF BootOk, StoredThere, HalfDone
  <1>3. stored \in [Keys -> Values \cup {Absent}]
    BY DEF TypeOK
  <1> QED BY <1>1, <1>2, <1>3, StartBackupInv DEF BootOk

(* backup() is called by the program. *)
LEMMA BackupInv ==
  ASSUME IInv, Backup
  PROVE  IInv'
  <1> USE DEF IInv
  <1>1. ASSUME OneFault, NEW k \in backed PROVE Readable(k) \/ k \in damaged
    BY <1>1 DEF Backup, WayBack
  <1>2. ASSUME faults = 0, NEW k \in Keys, stored[k] # Absent
        PROVE  data[k] = stored[k] /\ meta[k] = stored[k]
    BY <1>2 DEF Backup, StoredThere, HalfDone
  <1>3. stored \in [Keys -> Values \cup {Absent}] /\ damaged \subseteq Keys
    BY DEF TypeOK
  <1> QED BY <1>1, <1>2, <1>3, StartBackupInv DEF Backup, histVars

(* restoreFromBackup() ends, and boot() goes on with backup(). *)
LEMMA RestoreEndInv ==
  ASSUME IInv, RestoreEnd
  PROVE  IInv'
  <1> USE DEF IInv
  <1>1. /\ phase = "restore" /\ todo = {}
        /\ UNCHANGED <<mainVars, bakVars, argVars, tallies, saved, backed>> /\ damaged' = damaged
    BY DEF RestoreEnd
  <1>2. ASSUME OneFault, NEW k \in backed PROVE Readable(k)
    <2>1. BackupReadable(k) /\ k \in Keys \ missed
      BY <1>1, <1>2 DEF WayBack, TypeOK
    <2> QED BY <1>1, <1>2, <2>1 DEF RestoredSoFar, BackupReadable, Readable, Quiet, OneFault
  <1>3. ASSUME faults = 0, NEW k \in Keys, stored'[k] # Absent
        PROVE  data[k] = stored'[k] /\ meta[k] = stored'[k]
    <2>1. k \notin missed
      BY <1>3 DEF RestoreEnd
    <2>2. CASE bakData[k] = Absent /\ bakMeta[k] = Absent
      BY <1>1, <1>3, <2>1, <2>2 DEF RestoreEnd, StoredThere, HalfDone
    <2>3. CASE ~(bakData[k] = Absent /\ bakMeta[k] = Absent)
      <3>1. stored'[k] = saved[k]
        BY <2>1, <2>3 DEF RestoreEnd
      <3>2. bakData[k] = saved[k] /\ bakMeta[k] = saved[k]
        BY <1>1, <1>3, <3>1 DEF SavedThere
      <3> QED BY <1>1, <1>3, <2>1, <3>1, <3>2 DEF RestoredSoFar, Quiet
    <2> QED BY <2>2, <2>3
  <1>4. stored' \in [Keys -> Values \cup {Absent}] /\ damaged' \subseteq Keys
    BY <1>1 DEF RestoreEnd, TypeOK
  <1> QED BY <1>1, <1>2, <1>3, <1>4, StartBackupInv DEF RestoreEnd

(* init() finds damage and has a backup. *)
LEMMA BootRestoreInv ==
  ASSUME IInv, BootRestore
  PROVE  IInv'
  <1> USE DEF IInv
  <1>1. /\ phase = "off" /\ phase' = "restore" /\ damaged' = {} /\ missed' = {} /\ ~VerifyIntegrity
        /\ UNCHANGED <<data, meta, bakData, bakMeta, bakMagic, key, val, tooLong, faults, refused,
                       stored, saved, backed>>
    BY DEF BootRestore, mainVars, bakVars, argVars, tallies
  <1>2. todo' = {b \in Blob : IF b[2] = "data" THEN bakData[b[1]] # Absent
                                               ELSE bakMeta[b[1]] # Absent}
    BY DEF BootRestore
  <1>3. TypeOK'
    BY <1>1, <1>2 DEF TypeOK, Phase
  <1>4. HalfWritten' /\ CopiedSoFar'
    BY <1>1 DEF HalfWritten, CopiedSoFar
  <1>5. RestoredSoFar'
    <2> SUFFICES ASSUME NEW k \in Keys
                 PROVE  /\ <<k, "data">> \in todo' <=> bakData[k] # Absent
                        /\ <<k, "meta">> \in todo' <=> bakMeta[k] # Absent
      BY <1>1 DEF RestoredSoFar
    <2> QED BY <1>2, BlobType
  <1>6. faults' = 0 => StoredThere' /\ SavedThere'
    BY <1>1 DEF StoredThere, SavedThere, HalfDone
  <1>7. Clean'
    BY <1>1 DEF Clean, HalfDone, VerifyIntegrity, Readable
  <1>8. OneFault' => WayBack'
    <2> SUFFICES ASSUME OneFault PROVE WayBack'
      BY <1>1 DEF OneFault
    <2> QED BY <1>1 DEF WayBack, BackupReadable
  <1> QED BY <1>3, <1>4, <1>5, <1>6, <1>7, <1>8

(* One blob is restored, or refused. *)
LEMMA RestoreBlobInv ==
  ASSUME IInv, NEW b \in Blob, RestoreBlob(b)
  PROVE  IInv'
  <1> USE DEF IInv
  <1>1. PICK k \in Keys : b = <<k, "data">> \/ b = <<k, "meta">>
    BY BlobType
  <1>2. /\ phase = "restore" /\ phase' = "restore" /\ b \in todo /\ todo' = todo \ {b}
        /\ UNCHANGED <<bakData, bakMeta, bakMagic, key, val, tooLong, faults,
                       damaged, stored, saved, backed>>
    BY DEF RestoreBlob, bakVars, argVars, histVars
  <1>3. \/ /\ b = <<k, "data">> /\ data' = [data EXCEPT ![k] = bakData[k]] /\ meta' = meta
           /\ missed' = missed /\ refused' = refused
        \/ /\ b = <<k, "meta">> /\ meta' = [meta EXCEPT ![k] = bakMeta[k]] /\ data' = data
           /\ missed' = missed /\ refused' = refused
        \/ /\ data' = data /\ meta' = meta /\ missed' = missed \cup {k}
           /\ refused' = refused + 1 /\ refused' \in 0 .. MaxRefused
    <2>1. refused \in Nat /\ MaxRefused \in Nat
      BY NvsAssumption DEF TypeOK
    <2> QED BY <1>1, <2>1 DEF RestoreBlob, Accept, Refuse, mainVars
  <1>4. TypeOK'
    BY <1>1, <1>2, <1>3 DEF TypeOK
  <1>5. /\ faults \in Nat /\ refused \in Nat
        /\ Quiet' => Quiet
        /\ faults' = 0 => faults = 0
        /\ faults' + refused' = 0 => faults + refused = 0
        /\ OneFault' => OneFault
    BY <1>2, <1>3, Monotone
  <1>6. HalfWritten' /\ CopiedSoFar'
    BY <1>2 DEF HalfWritten, CopiedSoFar
  <1>7. Quiet' => RestoredSoFar'
    <2> SUFFICES ASSUME Quiet, NEW j \in Keys
                 PROVE  /\ <<j, "data">> \in todo' => bakData[j] # Absent
                        /\ <<j, "meta">> \in todo' => bakMeta[j] # Absent
                        /\ j \notin missed' =>
                             /\ <<j, "data">> \in todo' \/ bakData[j] = Absent \/ data'[j] = bakData[j]
                             /\ <<j, "meta">> \in todo' \/ bakMeta[j] = Absent \/ meta'[j] = bakMeta[j]
      BY <1>2, <1>5 DEF RestoredSoFar
    <2>1. /\ <<j, "data">> \in todo => bakData[j] # Absent
          /\ <<j, "meta">> \in todo => bakMeta[j] # Absent
          /\ j \notin missed =>
               /\ <<j, "data">> \in todo \/ bakData[j] = Absent \/ data[j] = bakData[j]
               /\ <<j, "meta">> \in todo \/ bakMeta[j] = Absent \/ meta[j] = bakMeta[j]
      BY <1>2 DEF RestoredSoFar
    <2> QED BY <1>1, <1>2, <1>3, <2>1 DEF TypeOK
  <1>8. faults' = 0 => StoredThere' /\ SavedThere'
    <2> SUFFICES ASSUME faults = 0 PROVE StoredThere' /\ SavedThere'
      BY <1>5
    <2>1. SavedThere'
      BY <1>2 DEF SavedThere
    <2>2. /\ b = <<k, "data">> => bakData[k] # Absent
          /\ b = <<k, "meta">> => bakMeta[k] # Absent
      BY <1>2 DEF RestoredSoFar, Quiet
    <2>3. StoredThere'
      BY <1>1, <1>2, <1>3, <2>2 DEF StoredThere, HalfDone, TypeOK
    <2> QED BY <2>1, <2>3
  <1>9. tooLong = {} => faults + refused # 0
    BY <1>2 DEF Clean
  <1>10. Clean'
    BY <1>2, <1>5, <1>9 DEF Clean
  <1>11. OneFault' => WayBack'
    <2> SUFFICES ASSUME OneFault' PROVE WayBack'
      OBVIOUS
    <2>1. OneFault /\ refused' = refused
      BY <1>2, <1>3, <1>5, <1>9 DEF OneFault
    <2>2. missed' = missed /\ \A j \in backed : data'[j] # Absent
      BY <1>1, <1>2, <1>3, <1>5, <2>1 DEF WayBack, BackupReadable, TypeOK
    <2> QED BY <1>2, <2>1, <2>2 DEF WayBack, BackupReadable
  <1> QED BY <1>4, <1>6, <1>7, <1>8, <1>10, <1>11

(* One blob is copied to the backup, or refused. *)
LEMMA BackupBlobInv ==
  ASSUME IInv, NEW b \in Blob, BackupBlob(b)
  PROVE  IInv'
  <1> USE DEF IInv
  <1>1. PICK k \in Keys : b = <<k, "data">> \/ b = <<k, "meta">>
    BY BlobType
  <1>2. /\ phase = "backup" /\ phase' = "backup" /\ b \in todo /\ todo' = todo \ {b}
        /\ UNCHANGED <<data, meta, bakMagic, key, val, tooLong, faults,
                       damaged, stored, saved, backed>>
    BY DEF BackupBlob, mainVars, argVars, histVars
  <1>3. \/ /\ b = <<k, "data">> /\ bakData' = [bakData EXCEPT ![k] = data[k]] /\ bakMeta' = bakMeta
           /\ missed' = missed /\ refused' = refused
        \/ /\ b = <<k, "meta">> /\ bakMeta' = [bakMeta EXCEPT ![k] = meta[k]] /\ bakData' = bakData
           /\ missed' = missed /\ refused' = refused
        \/ /\ bakData' = bakData /\ bakMeta' = bakMeta /\ missed' = missed \cup {k}
           /\ refused' = refused + 1 /\ refused' \in 0 .. MaxRefused
    <2>1. refused \in Nat /\ MaxRefused \in Nat
      BY NvsAssumption DEF TypeOK
    <2> QED BY <1>1, <2>1 DEF BackupBlob, Accept, Refuse
  <1>4. TypeOK'
    BY <1>1, <1>2, <1>3 DEF TypeOK
  <1>5. /\ faults \in Nat /\ refused \in Nat
        /\ Quiet' => Quiet
        /\ faults' = 0 => faults = 0
        /\ faults' + refused' = 0 => faults + refused = 0
        /\ OneFault' => OneFault
    BY <1>2, <1>3, Monotone
  <1>6. HalfWritten' /\ RestoredSoFar'
    BY <1>2 DEF HalfWritten, RestoredSoFar
  <1>7. Quiet' => CopiedSoFar'
    <2> SUFFICES ASSUME Quiet PROVE CopiedSoFar'
      BY <1>5
    <2> QED BY <1>1, <1>2, <1>3 DEF CopiedSoFar, TypeOK
  <1>8. faults' = 0 => StoredThere' /\ SavedThere'
    <2> SUFFICES ASSUME faults = 0 PROVE StoredThere' /\ SavedThere'
      BY <1>5
    <2>1. StoredThere'
      BY <1>2 DEF StoredThere, HalfDone
    <2>2. data[k] # Absent
      BY <1>1, <1>2 DEF CopiedSoFar, Quiet
    <2>3. SavedThere'
      BY <1>1, <1>2, <1>3, <2>2 DEF SavedThere, TypeOK
    <2> QED BY <2>1, <2>3
  <1>9. Clean'
    <2>1. faults' + refused' = 0 => missed' = missed
      BY <1>2, <1>3, <1>5
    <2> QED BY <1>2, <1>5, <2>1 DEF Clean, HalfDone
  <1>10. OneFault' => WayBack'
    BY <1>2, <1>5 DEF WayBack, Readable
  <1> QED BY <1>4, <1>6, <1>7, <1>8, <1>9, <1>10

(* The backup is complete. *)
LEMMA BackupEndInv ==
  ASSUME IInv, BackupEnd
  PROVE  IInv'
  <1> USE DEF IInv
  <1>1. /\ phase = "backup" /\ phase' = "up" /\ todo = {} /\ missed' = {}
        /\ UNCHANGED <<data, meta, bakData, bakMeta, key, val, tooLong, todo, faults, damaged, stored>>
    BY DEF BackupEnd, mainVars, argVars
  <1>2. /\ bakMagic' \in BOOLEAN
        /\ refused' = refused \/ (refused' = refused + 1 /\ refused' \in 0 .. MaxRefused)
    <2>1. refused \in Nat /\ MaxRefused \in Nat
      BY NvsAssumption DEF TypeOK
    <2>2. bakMagic' \in BOOLEAN
      BY Zenon DEF BackupEnd, TypeOK
    <2>3. refused' = refused \/ (refused' = refused + 1 /\ refused < MaxRefused)
      BY DEF BackupEnd
    <2> QED BY <2>1, <2>2, <2>3
  <1>3. /\ backed' = {k \in Keys : bakMagic' /\ k \notin damaged \cup missed
                                   /\ (k \in backed \/ Readable(k))}
        /\ saved' = [k \in Keys |-> IF k \in missed THEN Absent
                                    ELSE IF data[k] = Absent THEN saved[k] ELSE stored[k]]
    BY DEF BackupEnd
  <1>4. TypeOK'
    BY <1>1, <1>2, <1>3 DEF TypeOK, Phase
  <1>5. /\ faults \in Nat /\ refused \in Nat
        /\ Quiet' => Quiet
        /\ faults' = 0 => faults = 0
        /\ faults' + refused' = 0 => faults + refused = 0
        /\ OneFault' => OneFault
    BY <1>1, <1>2, Monotone
  <1>6. HalfWritten' /\ CopiedSoFar' /\ RestoredSoFar'
    BY <1>1 DEF HalfWritten, CopiedSoFar, RestoredSoFar
  <1>7. faults' = 0 => StoredThere' /\ SavedThere'
    <2> SUFFICES ASSUME faults = 0 PROVE StoredThere' /\ SavedThere'
      BY <1>5
    <2>1. StoredThere'
      BY <1>1 DEF StoredThere, HalfDone
    <2>2. ASSUME NEW k \in Keys, saved'[k] # Absent
          PROVE  bakData[k] = saved'[k] /\ bakMeta[k] = saved'[k]
      <3>1. k \notin missed
        BY <1>3, <2>2
      <3>2. CASE data[k] = Absent
        BY <1>1, <1>3, <2>2, <3>1, <3>2 DEF SavedThere
      <3>3. CASE data[k] # Absent
        <4>1. saved'[k] = stored[k] /\ data[k] = stored[k] /\ meta[k] = stored[k]
          BY <1>1, <1>3, <2>2, <3>1, <3>3 DEF StoredThere, HalfDone
        <4> QED BY <1>1, <2>2, <3>1, <3>3, <4>1 DEF CopiedSoFar, Quiet
      <3> QED BY <3>2, <3>3
    <2> QED BY <1>1, <2>1, <2>2 DEF SavedThere
  <1>8. Clean'
    BY <1>1, <1>5 DEF Clean, HalfDone
  <1>9. OneFault' => WayBack'
    <2> SUFFICES ASSUME OneFault, NEW k \in backed'
                 PROVE  Readable(k) /\ BackupReadable(k) /\ bakMagic'
      BY <1>1, <1>5 DEF WayBack, Readable, BackupReadable
    <2>1. k \in Keys \ missed /\ Readable(k) /\ bakMagic'
      BY <1>1, <1>3 DEF WayBack
    <2> QED BY <1>1, <2>1 DEF CopiedSoFar, Readable, BackupReadable, Quiet, OneFault
  <1> QED BY <1>4, <1>6, <1>7, <1>8, <1>9

(* A call of setBlob() and the like. *)
LEMMA SetEntryInv ==
  ASSUME IInv, NEW k \in Keys, NEW v \in Values, SetEntry(k, v)
  PROVE  IInv'
  <1> USE DEF IInv
  <1>1. /\ phase = "up" /\ phase' = "meta" /\ key' = k /\ val' = v /\ missed' = {}
        /\ UNCHANGED <<data, meta, bakData, bakMeta, bakMagic, tooLong, todo, faults, refused,
                       damaged, stored, saved, backed>>
    BY DEF SetEntry, mainVars, bakVars, tallies, histVars
  <1>2. TypeOK'
    BY <1>1 DEF TypeOK, Phase
  <1>3. HalfWritten' /\ CopiedSoFar' /\ RestoredSoFar'
    BY <1>1 DEF HalfWritten, CopiedSoFar, RestoredSoFar
  <1>4. faults' = 0 => StoredThere' /\ SavedThere'
    BY <1>1 DEF StoredThere, SavedThere, HalfDone
  <1>5. Clean'
    BY <1>1 DEF Clean, HalfDone
  <1>6. OneFault' => WayBack'
    BY <1>1 DEF WayBack, OneFault, Readable, BackupReadable
  <1> QED BY <1>2, <1>3, <1>4, <1>5, <1>6

(* writeEntry() stores the record, or it is refused. *)
LEMMA WriteMetaInv ==
  ASSUME IInv, WriteMeta
  PROVE  IInv'
  <1> USE DEF IInv
  <1>1. /\ phase = "meta" /\ phase' = "data"
        /\ UNCHANGED <<data, bakData, bakMeta, bakMagic, key, val, tooLong, todo, faults,
                       damaged, stored, saved, backed>>
    BY DEF WriteMeta, bakVars, argVars, histVars
  <1>2. /\ meta' = [meta EXCEPT ![key] = val] \/ (meta' = meta /\ key \in missed')
        /\ \/ missed' = missed
           \/ missed' = missed \cup {key} /\ (tooLong # {} \/ refused' = refused + 1)
        /\ refused' = refused \/ (refused' = refused + 1 /\ refused' \in 0 .. MaxRefused)
    <2>1. refused \in Nat /\ MaxRefused \in Nat
      BY NvsAssumption DEF TypeOK
    <2> QED BY <2>1 DEF WriteMeta, Accept, Refuse
  <1>3. TypeOK'
    BY <1>1, <1>2 DEF TypeOK, Phase
  <1>4. /\ faults \in Nat /\ refused \in Nat
        /\ faults' = 0 => faults = 0
        /\ faults' + refused' = 0 => faults + refused = 0
        /\ OneFault' => OneFault
    BY <1>1, <1>2, Monotone
  <1>5. HalfWritten' /\ CopiedSoFar' /\ RestoredSoFar'
    BY <1>1, <1>2 DEF HalfWritten, CopiedSoFar, RestoredSoFar, TypeOK
  <1>6. faults' = 0 => StoredThere' /\ SavedThere'
    BY <1>1, <1>2, <1>4 DEF StoredThere, SavedThere, HalfDone, TypeOK
  <1>7. Clean'
    BY <1>1, <1>2, <1>4 DEF Clean, HalfDone, TypeOK
  <1>8. OneFault' => WayBack'
    BY <1>1, <1>2, <1>4 DEF WayBack, Readable, BackupReadable, TypeOK
  <1> QED BY <1>3, <1>5, <1>6, <1>7, <1>8

(* writeEntry() stores the data, or it is refused. *)
LEMMA WriteDataInv ==
  ASSUME IInv, WriteData
  PROVE  IInv'
  <1> USE DEF IInv
  <1>1. /\ phase = "data" /\ phase' = "up"
        /\ UNCHANGED <<meta, bakData, bakMeta, bakMagic, key, val, tooLong, todo, faults,
                       saved, backed>>
    BY DEF WriteData, bakVars, argVars
  <1>2. /\ \/ data' = [data EXCEPT ![key] = val] /\ missed' = missed /\ refused' = refused
           \/ /\ data' = data /\ missed' = missed \cup {key}
              /\ refused' = refused + 1 /\ refused' \in 0 .. MaxRefused
        /\ key \in missed' => /\ stored' = [stored EXCEPT ![key] = Absent]
                              /\ damaged' = damaged \cup {key}
        /\ key \notin missed' => /\ stored' = [stored EXCEPT ![key] = val]
                                 /\ damaged' = damaged \ {key}
    <2>1. refused \in Nat /\ MaxRefused \in Nat
      BY NvsAssumption DEF TypeOK
    <2> QED BY <2>1 DEF WriteData, Accept, Refuse
  <1>3. TypeOK'
    BY <1>1, <1>2 DEF TypeOK, Phase
  <1>4. /\ faults \in Nat /\ refused \in Nat
        /\ faults' = 0 => faults = 0
        /\ faults' + refused' = 0 => faults + refused = 0
        /\ OneFault' => OneFault
    BY <1>1, <1>2, Monotone
  <1>5. HalfWritten' /\ CopiedSoFar' /\ RestoredSoFar'
    BY <1>1 DEF HalfWritten, CopiedSoFar, RestoredSoFar
  <1>6. key \notin missed' => data' = [data EXCEPT ![key] = val] /\ meta[key] = val
    BY <1>1, <1>2 DEF HalfWritten
  <1>7. faults' = 0 => StoredThere' /\ SavedThere'
    <2> SUFFICES ASSUME faults = 0 PROVE StoredThere' /\ SavedThere'
      BY <1>4
    <2>1. SavedThere'
      BY <1>1 DEF SavedThere
    <2>2. ASSUME NEW k \in Keys, stored'[k] # Absent
          PROVE  data'[k] = stored'[k] /\ meta[k] = stored'[k]
      <3>1. CASE k = key
        BY <1>1, <1>2, <1>6, <2>2, <3>1 DEF TypeOK
      <3>2. CASE k # key
        <4>1. stored'[k] = stored[k] /\ data'[k] = data[k]
          BY <1>1, <1>2, <3>2 DEF TypeOK
        <4> QED BY <1>1, <2>2, <3>2, <4>1 DEF StoredThere, HalfDone
      <3> QED BY <3>1, <3>2
    <2> QED BY <1>1, <2>1, <2>2 DEF StoredThere
  <1>8. Clean'
    <2> SUFFICES ASSUME tooLong = {}, faults + refused = 0, refused' = refused, NEW k \in Keys
                 PROVE  data'[k] = meta[k]
      BY <1>1, <1>2, <1>4 DEF Clean
    <2>1. CASE k = key
      BY <1>2, <1>6, <2>1 DEF Clean, TypeOK
    <2>2. CASE k # key
      BY <1>1, <1>2, <2>2 DEF Clean, HalfDone, TypeOK
    <2> QED BY <2>1, <2>2
  <1>9. OneFault' => WayBack'
    <2> SUFFICES ASSUME OneFault PROVE WayBack'
      BY <1>4
    <2>1. ASSUME NEW k \in backed
          PROVE  data'[k] # Absent /\ (Readable(k)' \/ k \in damaged')
      <3>1. k \in Keys /\ data[k] # Absent /\ (k = key \/ Readable(k) \/ k \in damaged)
        BY <1>1 DEF WayBack, TypeOK
      <3>2. CASE k = key
        BY <1>1, <1>2, <1>6, <3>1, <3>2, NvsAssumption DEF Readable, TypeOK
      <3>3. CASE k # key
        BY <1>1, <1>2, <3>1, <3>3 DEF Readable, TypeOK
      <3> QED BY <3>2, <3>3
    <2> QED BY <1>1, <2>1 DEF WayBack, BackupReadable
  <1> QED BY <1>3, <1>5, <1>7, <1>8, <1>9

(* remove() *)
LEMMA RemoveInv ==
  ASSUME IInv, (\E k \in Keys : Remove(k)) \/ RemoveMeta
  PROVE  IInv'
  <1> USE DEF IInv
  <1>1. ASSUME NEW k \in Keys, Remove(k) PROVE IInv'
    <2>1. /\ phase = "up" /\ phase' = "remove" /\ key' = k /\ backed' = backed \ {k}
          /\ data' = [data EXCEPT ![k] = Absent]
          /\ UNCHANGED <<meta, bakData, bakMeta, bakMagic, val, tooLong, todo, missed,
                         faults, refused, damaged, stored, saved>>
      BY <1>1 DEF Remove, bakVars, tallies
    <2>2. TypeOK'
      BY <2>1 DEF TypeOK, Phase
    <2>3. HalfWritten' /\ CopiedSoFar' /\ RestoredSoFar'
      BY <2>1 DEF HalfWritten, CopiedSoFar, RestoredSoFar, TypeOK
    <2>4. faults' = 0 => StoredThere' /\ SavedThere'
      BY <2>1 DEF StoredThere, SavedThere, HalfDone, TypeOK
    <2>5. Clean'
      BY <2>1 DEF Clean, HalfDone, TypeOK
    <2>6. OneFault' => WayBack'
      BY <2>1 DEF WayBack, OneFault, Readable, BackupReadable, TypeOK
    <2> QED BY <2>2, <2>3, <2>4, <2>5, <2>6
  <1>2. CASE RemoveMeta
    <2>1. /\ phase = "remove" /\ phase' = "up"
          /\ meta' = [meta EXCEPT ![key] = Absent] /\ stored' = [stored EXCEPT ![key] = Absent]
          /\ UNCHANGED <<data, bakData, bakMeta, bakMagic, key, val, tooLong, todo, missed,
                         faults, refused, damaged, saved, backed>>
      BY <1>2 DEF RemoveMeta, bakVars, argVars, tallies
    <2>2. TypeOK'
      BY <2>1 DEF TypeOK, Phase
    <2>3. HalfWritten' /\ CopiedSoFar' /\ RestoredSoFar'
      BY <2>1 DEF HalfWritten, CopiedSoFar, RestoredSoFar
    <2>4. faults' = 0 => StoredThere' /\ SavedThere'
      BY <2>1 DEF StoredThere, SavedThere, HalfDone, TypeOK
    <2>5. Clean'
      BY <2>1 DEF Clean, HalfDone, HalfWritten, TypeOK
    <2>6. OneFault' => WayBack'
      BY <2>1 DEF WayBack, HalfWritten, OneFault, Readable, BackupReadable, TypeOK
    <2> QED BY <2>2, <2>3, <2>4, <2>5, <2>6
  <1> QED BY <1>1, <1>2

(* eraseAll(), or init() on a partition it cannot use. *)
LEMMA EraseInv ==
  ASSUME IInv, EraseAll \/ BootErase
  PROVE  IInv'
  <1> USE DEF IInv
  <1>1. /\ EraseFlash /\ phase' \in {"closed", "up"}
        /\ UNCHANGED <<key, val, tooLong, todo, missed, faults, refused>>
    BY DEF EraseAll, BootErase, argVars, tallies
  <1>2. TypeOK'
    BY <1>1 DEF EraseFlash, TypeOK, Phase
  <1>3. HalfWritten' /\ CopiedSoFar' /\ RestoredSoFar'
    BY <1>1 DEF HalfWritten, CopiedSoFar, RestoredSoFar
  <1> QED BY <1>1, <1>2, <1>3 DEF EraseFlash, StoredThere, SavedThere, Clean, WayBack

(* The power goes, between operations or in the middle of one; or it comes *)
(* and nvs_flash_init() fails.                                             *)
LEMMA PowerInv ==
  ASSUME IInv, PowerOff \/ PowerCut \/ BootWithout
  PROVE  IInv'
  <1> USE DEF IInv
  <1>1. /\ phase' \in {"off", "closed"} /\ todo' \in {todo, {}} /\ missed' \in {missed, {}}
        /\ damaged' \in {damaged, {}}
        /\ UNCHANGED <<data, meta, bakData, bakMeta, bakMagic, key, val, tooLong, refused,
                       stored, saved, backed>>
    BY DEF PowerOff, PowerCut, BootWithout, mainVars, bakVars, argVars, tallies, histVars
  <1>2. \/ phase \in {"up", "closed", "off"} /\ faults' = faults
        \/ phase \notin {"off", "up", "closed"} /\ faults < MaxFaults /\ faults' = faults + 1
    BY DEF PowerOff, PowerCut, BootWithout, tallies
  <1>3. faults \in Nat /\ refused \in Nat /\ faults' \in 0 .. MaxFaults
    BY <1>2, NvsAssumption DEF TypeOK
  <1>4. TypeOK'
    BY <1>1, <1>3 DEF TypeOK, Phase
  <1>5. HalfWritten' /\ CopiedSoFar' /\ RestoredSoFar'
    BY <1>1 DEF HalfWritten, CopiedSoFar, RestoredSoFar
  <1>6. faults' = 0 => StoredThere' /\ SavedThere'
    BY <1>1, <1>2, <1>3 DEF StoredThere, SavedThere, HalfDone
  <1>7. Clean'
    <2>1. faults' + refused' = 0 => faults' = faults /\ faults + refused = 0
      BY <1>1, <1>2, Monotone
    <2>2. faults' = faults => phase \in {"up", "closed", "off"}
      BY <1>2, <1>3
    <2> QED BY <1>1, <2>1, <2>2 DEF Clean, HalfDone
  <1>8. OneFault' => WayBack'
    <2> SUFFICES ASSUME OneFault' PROVE WayBack'
      OBVIOUS
    <2>1. OneFault
      BY <1>1, <1>2, Monotone
    <2>2. CASE phase # "backup"
      BY <1>1, <1>2, <1>3, <2>1, <2>2 DEF WayBack, BackupReadable, VerifyIntegrity, Readable
    <2>3. CASE phase = "backup"
      <3>1. faults + refused = 0 /\ faults' > 0
        BY <1>1, <1>2, <1>3, <2>3 DEF OneFault
      <3>2. VerifyIntegrity'
        BY <1>1, <2>1, <2>3, <3>1 DEF Clean, HalfDone, VerifyIntegrity, Readable, OneFault
      <3> QED BY <1>1, <2>1, <3>1, <3>2 DEF WayBack
    <2> QED BY <2>2, <2>3
  <1> QED BY <1>4, <1>5, <1>6, <1>7, <1>8

(* A bit flips. *)
LEMMA BitFlipInv ==
  ASSUME IInv, NEW k \in Keys, BitFlip(k)
  PROVE  IInv'
  <1> USE DEF IInv
  <1>1. /\ phase \in FlipPhases /\ data[k] # Absent
        /\ faults < MaxFaults /\ faults' = faults + 1
        /\ data' = [data EXCEPT ![k] = Garbage] /\ damaged' = damaged \cup {k}
        /\ UNCHANGED <<meta, bakData, bakMeta, bakMagic, phase, key, val, tooLong, todo, missed,
                       refused, stored, saved, backed>>
    BY DEF BitFlip, bakVars, argVars
  <1>2. faults \in Nat /\ refused \in Nat /\ faults' \in 0 .. MaxFaults /\ faults' # 0
    BY <1>1, NvsAssumption DEF TypeOK
  <1>3. TypeOK'
    BY <1>1, <1>2 DEF TypeOK
  <1>4. HalfWritten' /\ Clean'
    BY <1>1, <1>2 DEF HalfWritten, Clean, TypeOK
  <1>5. Quiet' => phase = "off"
    BY <1>1, <1>2 DEF Quiet, FlipsInStorage
  <1>6. Quiet' => CopiedSoFar' /\ RestoredSoFar'
    BY <1>1, <1>5 DEF CopiedSoFar, RestoredSoFar
  <1>7. OneFault' => WayBack'
    <2> SUFFICES ASSUME OneFault' PROVE WayBack'
      OBVIOUS
    <2>1. OneFault /\ ~(faults > 0) /\ phase = "off"
      BY <1>1, <1>2 DEF OneFault, FlipsInStorage
    <2> QED BY <1>1, <2>1, NvsAssumption DEF WayBack, BackupReadable, TypeOK
  <1> QED BY <1>2, <1>3, <1>4, <1>6, <1>7

(* Every step preserves the inductive invariant. *)
LEMMA StepInv == IInv /\ [Next]_nvsVars => IInv'
  <1> SUFFICES ASSUME IInv, [Next]_nvsVars PROVE IInv'
    OBVIOUS
  <1>1. CASE UNCHANGED nvsVars
    BY <1>1 DEF nvsVars, mainVars, bakVars, argVars, tallies, histVars, IInv, TypeOK,
                HalfWritten, HalfDone, CopiedSoFar, RestoredSoFar, StoredThere, SavedThere,
                Clean, WayBack, Readable, BackupReadable, VerifyIntegrity, OneFault, Quiet
  <1> QED BY <1>1, BootOkInv, BootRestoreInv, RestoreBlobInv, BackupBlobInv, RestoreEndInv,
             BackupEndInv, BackupInv, SetEntryInv, WriteMetaInv, WriteDataInv, RemoveInv,
             EraseInv, PowerInv, BitFlipInv DEF Next

-----------------------------------------------------------------------------
(* The inductive invariant holds in every reachable state. *)
THEOREM Invariance == Spec => []IInv
  BY InitInv, StepInv, PTL DEF Spec

(* The types, for every environment: a record is that of a proper value,   *)
(* even when garbage is backed up and restored.                            *)
THEOREM TypeCorrect == Spec => []TypeOK
  <1>1. IInv => TypeOK
    BY DEF IInv
  <1> QED BY <1>1, Invariance, PTL

(* What a completed backup holds survives a power cut in any operation, a  *)
(* refused blob, or a bit flip in any entry while the device is off.       *)
THEOREM BackupSurvivesOneFault ==
  ASSUME FlipsInStorage
  PROVE  Spec => []BackedUpSurvives
  <1>1. IInv => BackedUpSurvives
    BY DEF IInv, WayBack, BackedUpSurvives, OneFault
  <1> QED BY <1>1, Invariance, PTL

(* Without power cuts and bit flips an entry that NVS accepted is read     *)
(* back, across restarts, and after a revert what backup() saved is; for   *)
(* keys of any length and any number of refused blobs.                     *)
THEOREM WritesAreDurable == Spec => []DurableWrites
  <1>1. IInv => DurableWrites
    BY DEF IInv, StoredThere, HalfDone, DurableWrites, Readable
  <1> QED BY <1>1, Invariance, PTL

=============================================================================
