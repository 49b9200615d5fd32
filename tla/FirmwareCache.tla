---------------------------- MODULE FirmwareCache ----------------------------
(***************************************************************************)
(* The dual-bank firmware store, kernel/src/firmware_cache.cpp, on top of  *)
(* the flash access of kernel/src/storage_manager.cpp.                     *)
(*                                                                         *)
(* Flash is an array of cells.  StorageManager::write() erases every       *)
(* sector it touches and then programs cell by cell; the power can go, or  *)
(* the flash can fail, between any two of these steps.  Everything else is *)
(* RAM and is lost with the power.                                         *)
(*                                                                         *)
(* A CRC is represented by the sequence of the cells it was computed over: *)
(* collisions are left out.  What a program may do with the interface      *)
(* beyond the documented flow is named by Usage.                           *)
(***************************************************************************)
EXTENDS Naturals, Sequences, FiniteSets

CONSTANTS
  Images,         \* the contents of the cells of firmware images
  Erased,         \* the contents of an erased cell (all bits set)
  NoSlot,         \* no slot: the factory partition, or nothing activated yet
  Targets,        \* builds: a set of Booleans, TRUE for TAKT_ESP32
  SectorSize,     \* in cells; kHeaderReserved is one sector
  SlotOffset,     \* a function from Slots: where the slots begin
  SlotSize,       \* in cells
  TotalSize,      \* of the flash backend, in cells
  Sizes,          \* image sizes passed to beginWrite()
  Chunks,         \* what is passed to writeChunk()
  Usage           \* a subset of Uses

Slots == {0, 1}

(* "unaligned": a chunk may follow one that did not fill its last sector.  *)
(* "overrun": more is written than beginWrite() was told.  "midwrite":     *)
(* a slot is activated while an update is being written, or the active one *)
(* once more.                                                              *)
(* "powercut", "iofail": the power or a flash operation fails.             *)
Uses == {"unaligned", "overrun", "midwrite", "powercut", "iofail"}

ASSUME FirmwareAssumption ==
  /\ Targets \subseteq BOOLEAN
  /\ SectorSize \in Nat /\ SectorSize >= 2
  /\ SlotOffset \in [Slots -> Nat]
  /\ \A s \in Slots : SlotOffset[s] % SectorSize = 0
  /\ SlotSize \in Nat /\ SlotSize > SectorSize
  /\ TotalSize \in Nat /\ SectorSize <= TotalSize /\ TotalSize % SectorSize = 0
  /\ Sizes \subseteq Nat
  /\ Chunks \subseteq Seq(Images) \ {<<>>}
  /\ Usage \subseteq Uses
  /\ Erased \notin Images
  /\ NoSlot \notin Slots

(* The slots consist of whole sectors and do not overlap: ota_0 and ota_1  *)
(* of the partition table.                                                 *)
ASSUME LayoutAssumption ==
  /\ SlotSize % SectorSize = 0
  /\ \/ SlotOffset[0] + SlotSize <= SlotOffset[1]
     \/ SlotOffset[1] + SlotSize <= SlotOffset[0]

VARIABLES
  flash,            \* Address -> contents
  bootPart,         \* ESP-IDF: the partition selected for the next start
  esp,              \* the build
  up,               \* init() has run since the last power-up
  activeSlot,
  writing,
  writeOffset,
  fed,              \* writeCrc_: the cells it covers
  writeImageSize,
  job,              \* the StorageManager::write() under way, or NoJob
  activated,        \* history: the slot of the last successful activateSlot()
  session,          \* history: the chunks accepted since the last beginWrite()
  delivered         \* history: the session that a slot last got a header for

ramVars == <<activeSlot, writing, writeOffset, fed, writeImageSize>>
fwVars  == <<flash, bootPart, esp, up, ramVars, job, activated, session, delivered>>

Address == 0 .. TotalSize - 1

kHeaderReserved == SectorSize

(* A header is programmed front to back and takes two cells here, so that  *)
(* a torn one exists: magic and size first, CRC and flags last.            *)
HeaderFront == [size : Nat]
HeaderBack  == [crc : Seq(Images), flags : SUBSET {"valid", "bootable"}]

(* The cells of an image and erased cells are no header. *)
ASSUME CellAssumption ==
  \A c \in Images \cup {Erased} : c \notin HeaderFront \cup HeaderBack

NoJob == [op |-> "none"]

InactiveIsActive == activeSlot

InactiveSlot == IF activeSlot = 0 THEN 1 ELSE 0

-----------------------------------------------------------------------------
(* Reading: getHeader() and verify(). *)

Readable(at, len) == at + len <= TotalSize

HasHeader(s) ==
  /\ Readable(SlotOffset[s], 2)
  /\ flash[SlotOffset[s]] \in HeaderFront

Front(s) == flash[SlotOffset[s]]
Back(s)  == flash[SlotOffset[s] + 1]

(* In an erased byte every flag is set. *)
Flags(s) == IF Back(s) = Erased THEN {"valid", "bootable"} ELSE Back(s).flags

MarkedValid(s) == HasHeader(s) /\ "valid" \in Flags(s)

BodyAt(s) == SlotOffset[s] + kHeaderReserved

Body(s) == [i \in 1 .. Front(s).size |-> flash[BodyAt(s) + i - 1]]

MarkedAndReadable(s) ==
  /\ MarkedValid(s)
  /\ Readable(BodyAt(s), Front(s).size)

(* verify(s).  Bytes that no header left match no CRC. *)
Verified(s) ==
  /\ MarkedValid(s)
  /\ Readable(BodyAt(s), Front(s).size)
  /\ Back(s) \in HeaderBack
  /\ Back(s).crc = Body(s)

(* The slot that init() takes for the running one: what ESP-IDF started    *)
(* (everything that is not ota_0 counts as slot B), or, in other builds,   *)
(* the first slot whose header is marked valid.                            *)
BootSlot ==
  IF esp THEN IF bootPart = 0 THEN 0 ELSE 1
         ELSE IF ~MarkedValid(0) /\ MarkedValid(1) THEN 1 ELSE 0

-----------------------------------------------------------------------------
(* A new device runs its factory image; both slots are empty. *)
Init ==
  /\ flash = [a \in Address |-> Erased]
  /\ bootPart = NoSlot
  /\ esp \in Targets
  /\ up = FALSE
  /\ activeSlot = 0
  /\ writing = FALSE
  /\ writeOffset = 0
  /\ fed = <<>>
  /\ writeImageSize = 0
  /\ job = NoJob
  /\ activated = NoSlot
  /\ session = <<>>
  /\ delivered = [s \in Slots |-> <<>>]

(* FirmwareCache::init(), once per power-up. *)
InitCall ==
  /\ ~up
  /\ up' = TRUE
  /\ activeSlot' = BootSlot
  /\ UNCHANGED <<flash, bootPart, esp, writing, writeOffset, fed, writeImageSize,
                 job, activated, session, delivered>>

PowerCut ==
  /\ "powercut" \in Usage
  /\ up
  /\ up' = FALSE
  /\ activeSlot' = 0
  /\ writing' = FALSE
  /\ writeOffset' = 0
  /\ fed' = <<>>
  /\ writeImageSize' = 0
  /\ job' = NoJob
  /\ session' = <<>>
  /\ UNCHANGED <<flash, bootPart, esp, activated, delivered>>

-----------------------------------------------------------------------------
(* Calls by the program.  It makes one at a time. *)

Idle == up /\ job = NoJob

BeginWriteKeepingCrc(size) ==
  /\ Idle
  /\ size <= SlotSize - kHeaderReserved
  /\ writeOffset' = kHeaderReserved
  /\ writeImageSize' = size
  /\ session' = <<>>
  /\ writing' = TRUE
  /\ UNCHANGED <<flash, bootPart, esp, up, activeSlot, fed, job, activated, delivered>>

BeginWriteUnchecked(size) ==
  /\ Idle
  /\ writeOffset' = kHeaderReserved
  /\ fed' = <<>>
  /\ writeImageSize' = size
  /\ session' = <<>>
  /\ writing' = TRUE
  /\ UNCHANGED <<flash, bootPart, esp, up, activeSlot, job, activated, delivered>>

(* Nothing is written yet: the old header of the slot stays valid. *)
BeginWrite(size) ==
  /\ Idle
  /\ size <= SlotSize - kHeaderReserved
  /\ writeOffset' = kHeaderReserved
  /\ fed' = <<>>
  /\ writeImageSize' = size
  /\ session' = <<>>
  /\ writing' = TRUE
  /\ UNCHANGED <<flash, bootPart, esp, up, activeSlot, job, activated, delivered>>

BeginWriteRefused(size) ==
  /\ Idle
  /\ size > SlotSize - kHeaderReserved
  /\ UNCHANGED fwVars

(* StorageManager::write() starts: the sectors from that of the first cell *)
(* to that of the last one are to be erased.                               *)
StartWrite(op, slot, at, data) ==
  job' = [op |-> op, slot |-> slot, at |-> at, data |-> data, done |-> 0,
          sectors |-> at \div SectorSize .. (at + Len(data) - 1) \div SectorSize]

WriteAt == SlotOffset[InactiveSlot] + writeOffset

Documented(len) ==
  /\ "unaligned" \in Usage \/ writeOffset % SectorSize = 0
  /\ "overrun" \in Usage \/ Len(fed) + len <= writeImageSize

(* A chunk is whatever the caller passes. *)
WriteChunk(data) ==
  /\ Idle /\ writing
  /\ Documented(Len(data))
  /\ Readable(WriteAt, Len(data))
  /\ StartWrite("chunk", InactiveSlot, WriteAt, data)
  /\ UNCHANGED <<flash, bootPart, esp, up, ramVars, activated, session, delivered>>

(* writeChunk() returns -1: no update is under way, or the flash ends. *)
WriteChunkRefused(len) ==
  /\ Idle
  /\ ~writing \/ ~Readable(WriteAt, len)
  /\ UNCHANGED fwVars

HeaderCells(size, crc, flags) == <<[size |-> size], [crc |-> crc, flags |-> flags]>>

FinalizeWrite ==
  /\ Idle /\ writing
  /\ IF Readable(SlotOffset[InactiveSlot], 2)
       THEN /\ StartWrite("finalize", InactiveSlot, SlotOffset[InactiveSlot],
                          HeaderCells(writeImageSize, fed, {"valid"}))
            /\ UNCHANGED writing
       ELSE /\ writing' = FALSE
            /\ UNCHANGED job
  /\ UNCHANGED <<flash, bootPart, esp, up, activeSlot, writeOffset, fed,
                 writeImageSize, activated, session, delivered>>

(* esp_partition_find_first(APP, APP_OTA_MIN, label) finds only ota_0: the *)
(* subtype is that of ota_0, and the label has to match as well.           *)
(* esp_ota_set_boot_partition() may fail.                                  *)
MaySetBootPartition(slot) == esp /\ slot = 0

(* activateSlot(), and rollback() with the inactive slot.                  *)
ActivateSlot(slot) ==
  /\ Idle
  /\ "midwrite" \in Usage \/ (~writing /\ slot = InactiveSlot)
  /\ Verified(slot)
  /\ \/ /\ MaySetBootPartition(slot)
        /\ bootPart' = slot
        /\ activeSlot' = slot
        /\ activated' = slot
        /\ UNCHANGED job
     \/ /\ MaySetBootPartition(slot) => "iofail" \in Usage
        /\ StartWrite("activate", slot, SlotOffset[slot],
                      HeaderCells(Front(slot).size, Back(slot).crc,
                                  Back(slot).flags \cup {"bootable"}))
        /\ UNCHANGED <<bootPart, activeSlot, activated>>
  /\ UNCHANGED <<flash, esp, up, writing, writeOffset, fed, writeImageSize, session, delivered>>

ActivateRefused(slot) ==
  /\ Idle
  /\ ~Verified(slot)
  /\ UNCHANGED fwVars

-----------------------------------------------------------------------------
(* The steps of StorageManager::write(). *)

SectorCells(n) == {a \in Address : a \div SectorSize = n}

EraseStep ==
  /\ job # NoJob /\ job.sectors # {}
  /\ \E n \in job.sectors :
       /\ \A m \in job.sectors : n <= m
       /\ flash' = [a \in Address |-> IF a \in SectorCells(n) THEN Erased ELSE flash[a]]
       /\ job' = [job EXCEPT !.sectors = @ \ {n}]
  /\ UNCHANGED <<bootPart, esp, up, ramVars, activated, session, delivered>>

ProgramStep ==
  /\ job # NoJob /\ job.sectors = {} /\ job.done < Len(job.data)
  /\ flash' = [flash EXCEPT ![job.at + job.done] = job.data[job.done + 1]]
  /\ job' = [job EXCEPT !.done = @ + 1]
  /\ delivered' = IF job.op = "finalize" /\ job.done = 1
                     THEN [delivered EXCEPT ![job.slot] = session]
                     ELSE delivered
  /\ UNCHANGED <<bootPart, esp, up, ramVars, activated, session>>

(* The caller goes on when write() has returned.  writeChunk() gives up if *)
(* it failed; finalizeWrite() and activateSlot() do not look.              *)
Resume(ok) ==
  /\ job' = NoJob
  /\ IF job.op = "chunk" /\ ok
       THEN /\ fed' = fed \o job.data
            /\ writeOffset' = writeOffset + Len(job.data)
            /\ session' = session \o job.data
       ELSE UNCHANGED <<fed, writeOffset, session>>
  /\ writing' = (writing /\ job.op # "finalize")
  /\ IF job.op = "activate"
       THEN activeSlot' = job.slot /\ activated' = job.slot
       ELSE UNCHANGED <<activeSlot, activated>>
  /\ UNCHANGED <<flash, bootPart, esp, up, writeImageSize, delivered>>

WriteReturn ==
  /\ job # NoJob /\ job.sectors = {} /\ job.done = Len(job.data)
  /\ Resume(TRUE)

(* An erase or a program operation reports an error. *)
WriteFails ==
  /\ "iofail" \in Usage
  /\ job # NoJob
  /\ Resume(FALSE)

Next ==
  \/ InitCall
  \/ PowerCut
  \/ \E n \in Sizes : BeginWrite(n) \/ BeginWriteRefused(n)
  \/ \E d \in Chunks : WriteChunk(d) \/ WriteChunkRefused(Len(d))
  \/ FinalizeWrite
  \/ \E s \in Slots : ActivateSlot(s) \/ ActivateRefused(s)
  \/ EraseStep
  \/ ProgramStep
  \/ WriteReturn
  \/ WriteFails

Spec == Init /\ [][Next]_fwVars

-----------------------------------------------------------------------------
Job == [op : {"chunk", "finalize", "activate"}, slot : Slots, at : Address,
        data : Seq(Images \cup HeaderFront \cup HeaderBack), done : Nat,
        sectors : SUBSET Nat]

(* The types; an accepted image is never larger than the body of a slot. *)
TypeOK ==
  /\ flash \in [Address -> Images \cup {Erased} \cup HeaderFront \cup HeaderBack]
  /\ bootPart \in {0, NoSlot}
  /\ esp \in Targets
  /\ up \in BOOLEAN
  /\ activeSlot \in Slots
  /\ writing \in BOOLEAN
  /\ writeOffset \in 0 .. TotalSize
  /\ fed \in Seq(Images)
  /\ writeImageSize \in 0 .. SlotSize - kHeaderReserved
  /\ job = NoJob \/ job \in Job
  /\ activated \in Slots \cup {NoSlot}
  /\ session \in Seq(Images)
  /\ delivered \in [Slots -> Seq(Images)]

(* What passes verify() in a slot is, cell for cell and in their order, the *)
(* chunks accepted between the beginWrite() and the finalizeWrite() that    *)
(* gave the slot its header: never pieces of two updates, of an update and  *)
(* what was there before, of a header and a body that belong to different   *)
(* updates, or what a power cut or a failing flash left behind, however the *)
(* interface is used.  Which chunks a caller passes within one update,      *)
(* verify() cannot tell.                                                    *)
VerifiedIsDelivered == \A s \in Slots : Verified(s) => Body(s) = delivered[s]

(* An update writes only to the inactive slot: the slot that was activated *)
(* and is running stays intact, whenever control is with the program.      *)
ActiveSlotIntact == Idle /\ activated = activeSlot => Verified(activeSlot)

(* When all the bytes announced to beginWrite() have been accepted,        *)
(* finalizeWrite() finds the image intact.                                 *)
CompleteImageVerifies ==
  [][job # NoJob /\ job.op = "finalize" /\ job' = NoJob /\ up'
       /\ Len(fed) = writeImageSize => Verified(job.slot)]_fwVars

(* The promise that the callers of FirmwareCache build on. *)
Store == INSTANCE SlotStore WITH
           valid <- {s \in Slots : Verified(s)},
           marked <- {s \in Slots : MarkedValid(s)},
           boot <- IF esp THEN IF bootPart = 0 THEN 0 ELSE 1 ELSE NoSlot

(* However an update goes, and wherever the power is cut, only the slot    *)
(* that is not active changes its contents, only a slot that verify()      *)
(* accepts becomes active, and a restart finds the slot that the headers   *)
(* or ESP-IDF name.                                                        *)
ImplementsStore == Store!SSSpec

=============================================================================
