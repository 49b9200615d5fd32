------------------------ MODULE FirmwareCacheProofs ------------------------
(***************************************************************************)
(* Proofs about FirmwareCache for every geometry of the flash, every set   *)
(* of sizes and chunks and every sequence of calls.                        *)
(*                                                                         *)
(* VerifiedIsDelivered and the types hold for every use of the interface.  *)
(* That the active slot stays intact, and that the cache implements the    *)
(* slot store, holds for a cautious program: one that keeps to the size it *)
(* announced and activates only the inactive slot, when no update is under *)
(* way, on a flash that reports no error; the power may be cut anywhere.   *)
(* That a completely delivered image verifies holds if, in addition, every *)
(* chunk begins on a sector.                                               *)
(***************************************************************************)
EXTENDS FirmwareCache, TLAPS

Cautious  == Usage \subseteq {"unaligned", "powercut"}
ByTheBook == Usage \subseteq {"powercut"}

-----------------------------------------------------------------------------
(* Sectors: division by the sector size. *)

(* Quotient and remainder. *)
LEMMA DivMod ==
  ASSUME NEW d \in Nat, d > 0, NEW a \in Nat
  PROVE  /\ a \div d \in Nat
         /\ a % d \in 0 .. d - 1
         /\ a = d * (a \div d) + (a % d)
OBVIOUS

(* Multiples of d that differ are at least d apart. *)
LEMMA Cancel == 
  ASSUME NEW d \in Nat, d > 0, NEW p \in Nat, NEW q \in Nat, p < q
  PROVE d * p + d <= d * q
<1>1. d * (q - p - 1) >= 0
  OBVIOUS
<1>2. QED
  BY <1>1

(* An address below the start of a sector lies in an earlier sector. *)
LEMMA DivStrict ==
  ASSUME NEW d \in Nat, d > 0, NEW a \in Nat, NEW b \in Nat, a < b, b % d = 0
  PROVE  a \div d < b \div d
<1> DEFINE p == a \div d
           q == b \div d
<1>1. p \in Nat /\ q \in Nat /\ a >= d * p /\ b = d * q
  BY DivMod
<1>2. CASE q <= p
  <2>1. d * (p - q) >= 0
    BY <1>1, <1>2
  <2>2. d * p >= d * q
    BY <2>1, <1>1
  <2>3. QED
    BY <1>1, <2>2
<1>3. QED
  BY <1>1, <1>2

(* Sectors are numbered in the order of their addresses. *)
LEMMA DivMono ==
  ASSUME NEW d \in Nat, d > 0, NEW a \in Nat, NEW b \in Nat, a <= b
  PROVE  a \div d <= b \div d
<1> DEFINE p == a \div d
           q == b \div d
<1>1. p \in Nat /\ q \in Nat /\ a >= d * p /\ b < d * q + d
  BY DivMod
<1>2. CASE q < p
  <2>1. d * q + d <= d * p
    BY <1>1, <1>2, Cancel
  <2>3. QED
    BY <1>1, <2>1
<1>3. QED
  BY <1>1, <1>2

(* What follows whole sectors by whole sectors begins on a sector. *)
LEMMA ModSum ==
  ASSUME NEW d \in Nat, d > 0, NEW a \in Nat, NEW b \in Nat, a % d = 0, b % d = 0
  PROVE  (a + b) % d = 0
<1> DEFINE k == (a \div d) + (b \div d)
<1>1. k \in Nat /\ a + b = d * k
  BY DivMod
<1>2. (d * k) % d = 0
  BY <1>1
<1> QED
  BY <1>1, <1>2

(* One sector is a whole number of sectors. *)
LEMMA ModSelf ==
  ASSUME NEW d \in Nat, d > 0
  PROVE  d % d = 0
OBVIOUS

(* Between two different sector starts there is a whole sector. *)
LEMMA AlignedGap ==
  ASSUME NEW d \in Nat, d > 0, NEW a \in Nat, NEW b \in Nat, a < b, a % d = 0, b % d = 0
  PROVE a + d <= b
<1>1. a \div d < b \div d
  BY DivStrict
<1>2. a \div d \in Nat /\ b \div d \in Nat /\ a = d * (a \div d) /\ b = d * (b \div d)
  BY DivMod
<1>3. d * (a \div d) + d <= d * (b \div d)
  BY <1>1, <1>2, Cancel
<1>4. QED
  BY <1>2, <1>3

(* The cells of data that is written at a, within a flash of t cells. *)
LEMMA CellsWithin ==
  ASSUME NEW a \in Nat, NEW l \in Nat, NEW t \in Nat, a + l <= t
  PROVE  /\ \A d \in Nat : d < l => d + 1 \in 1 .. l /\ a + d \in 0 .. t - 1
         /\ \A k \in 1 .. l : a + k - 1 \in 0 .. t - 1
OBVIOUS

-----------------------------------------------------------------------------
(* The invariant, first what holds for every use of the interface. *)

MaxImage == SlotSize - kHeaderReserved

SoundCell(c) == c \in HeaderFront => c.size <= MaxImage

(* The sizes in headers are small enough, and the CRC in the header of a   *)
(* slot is that of the session the slot got it for.                        *)
BackAt(s) == SlotOffset[s] + 1

CellsSound ==
  /\ \A a \in Address : SoundCell(flash[a])
  /\ \A s \in Slots : BackAt(s) \in Address /\ flash[BackAt(s)] \in HeaderBack
                       => flash[BackAt(s)].crc = delivered[s]

(* What writeCrc_ covers is what was accepted since beginWrite(), and      *)
(* writeOffset_ follows; an update does not survive a power cut.           *)
FeedSound ==
  /\ fed = session
  /\ writing => up /\ writeOffset = kHeaderReserved + Len(fed)

(* The flash operations that write() still has to do, and has done. *)
WriteSound ==
  /\ up
  /\ Len(job.data) > 0
  /\ job.at + Len(job.data) <= TotalSize
  /\ job.done <= Len(job.data)
  /\ job.sectors # {} => job.done = 0
  /\ \A n \in job.sectors :
       job.at \div SectorSize <= n /\ n <= (job.at + Len(job.data) - 1) \div SectorSize
  /\ \A k \in 1 .. Len(job.data) : SoundCell(job.data[k])
  /\ job.sectors = {} => \A k \in 1 .. job.done : flash[job.at + k - 1] = job.data[k]

(* What the caller of write() passed to it. *)
ChunkSound ==
  /\ writing
  /\ job.slot = InactiveSlot
  /\ job.at = WriteAt
  /\ job.data \in Seq(Images)

HeaderSound ==
  /\ job.at = SlotOffset[job.slot]
  /\ Len(job.data) = 2
  /\ job.data[1] \in HeaderFront
  /\ job.data[2] \in HeaderBack
  /\ job.op = "activate" => job.data[2].crc = delivered[job.slot]

FinalizeSound ==
  /\ writing
  /\ job.slot = InactiveSlot
  /\ job.data[1].size = writeImageSize
  /\ job.data[2].crc = fed
  /\ job.data[2].flags = {"valid"}

JobSound ==
  job # NoJob =>
    /\ WriteSound
    /\ job.op = "chunk" => ChunkSound
    /\ job.op # "chunk" => HeaderSound
    /\ job.op = "finalize" => FinalizeSound

AnyUseInv == TypeOK /\ CellsSound /\ FeedSound /\ JobSound

(* What holds in addition for a cautious program: the jobs stay within the *)
(* inactive slot, ...                                                      *)
RoomLeft ==
  /\ writing => Len(fed) <= writeImageSize
  /\ job # NoJob => job.slot = InactiveSlot
  /\ job # NoJob /\ job.op = "chunk" => Len(fed) + Len(job.data) <= writeImageSize

(* ... an activation rewrites the header of a body that matches it, ...    *)
ActivationSound ==
  job # NoJob /\ job.op = "activate" =>
    /\ ~writing
    /\ job.slot = 0 => ~esp
    /\ "valid" \in job.data[2].flags
    /\ Readable(BodyAt(job.slot), job.data[1].size)
    /\ job.data[2].crc = [k \in 1 .. job.data[1].size |-> flash[BodyAt(job.slot) + k - 1]]

(* ... and the slot activated last is intact, or not the one that runs, or *)
(* would run after a restart: slot A runs as long as it is there.          *)
StartsWithA == IF esp THEN bootPart = 0 ELSE MarkedValid(0)

RunningIntact ==
  /\ activated = 0 => /\ up => activeSlot = 0
                      /\ esp => bootPart = 0
                      /\ Verified(0)
  /\ activated = 1 => \/ Verified(1) /\ (up => activeSlot = 1)
                      \/ StartsWithA /\ (up => activeSlot = 0)

CautiousInv == RoomLeft /\ ActivationSound /\ RunningIntact

(* What holds if every chunk begins on a sector: what was accepted is in   *)
(* the slot.                                                               *)
Delivered ==
  /\ writing =>
       /\ fed = <<>> \/ WriteAt <= TotalSize
       /\ \A k \in 1 .. Len(fed) : flash[BodyAt(InactiveSlot) + k - 1] = fed[k]
  /\ job # NoJob /\ job.op = "chunk" => writeOffset % SectorSize = 0

IInv ==
  /\ AnyUseInv
  /\ Cautious => CautiousInv
  /\ ByTheBook => Delivered

-----------------------------------------------------------------------------
(* What the assumptions say of the numbers. *)
LEMMA Geometry ==
  /\ SectorSize \in Nat /\ SectorSize >= 2 /\ SectorSize > 0
  /\ SlotSize \in Nat /\ SlotSize > SectorSize
  /\ TotalSize \in Nat /\ SectorSize <= TotalSize
  /\ SlotOffset[0] \in Nat /\ SlotOffset[1] \in Nat
  /\ Sizes \subseteq Nat
BY FirmwareAssumption DEF Slots

(* A chunk is not empty. *)
LEMMA ChunkFacts ==
  ASSUME NEW d \in Chunks
  PROVE  d \in Seq(Images) /\ Len(d) \in Nat /\ Len(d) > 0
BY FirmwareAssumption

(* The two cells of a header are a front and a back, and sound if the      *)
(* image fits into a slot.                                                 *)
LEMMA HeaderTypes ==
  ASSUME NEW size \in Nat, NEW crc \in Seq(Images), NEW flags \in SUBSET {"valid", "bootable"},
         size <= MaxImage
  PROVE  LET h == HeaderCells(size, crc, flags) IN
         /\ h \in Seq(Images \cup HeaderFront \cup HeaderBack)
         /\ Len(h) = 2
         /\ h[1] \in HeaderFront /\ h[2] \in HeaderBack
         /\ h[1] \notin HeaderBack /\ h[2] \notin HeaderFront
         /\ h[1].size = size /\ h[2].crc = crc /\ h[2].flags = flags
         /\ \A k \in 1 .. Len(h) : SoundCell(h[k])
<1> DEFINE f == [size |-> size]
           b == [crc |-> crc, flags |-> flags]
<1>1. f \in HeaderFront /\ b \in HeaderBack /\ f.size = size /\ b.crc = crc /\ b.flags = flags
  BY DEF HeaderFront, HeaderBack
<1>2. f \notin HeaderBack
  BY DEF HeaderBack
<1>3. b \notin HeaderFront
  BY DEF HeaderFront
<1>4. SoundCell(f) /\ SoundCell(b)
  BY <1>1, <1>2, <1>3 DEF SoundCell
<1> HIDE DEF f, b
<1>5. HeaderCells(size, crc, flags) = <<f, b>>
  BY DEF f, b, HeaderCells
<1>6. QED
  BY <1>1, <1>2, <1>3, <1>4, <1>5

(* What is not a header is a sound cell. *)
LEMMA PlainCell ==
  ASSUME NEW c \in Images \cup {Erased}
  PROVE  SoundCell(c) /\ c \notin HeaderFront /\ c \notin HeaderBack
BY CellAssumption DEF SoundCell

-----------------------------------------------------------------------------
(* The invariant is kept by every step. *)

Cell == Images \cup HeaderFront \cup HeaderBack

(* StorageManager::write() starts with what its caller passes. *)
LEMMA WriteStarts ==
  ASSUME NEW op \in {"chunk", "finalize", "activate"}, NEW slot \in Slots, NEW at \in Nat,
         NEW data \in Seq(Cell), Len(data) > 0, at + Len(data) <= TotalSize,
         \A k \in 1 .. Len(data) : SoundCell(data[k]),
         up', StartWrite(op, slot, at, data)
  PROVE  /\ job' \in Job /\ job' # NoJob /\ WriteSound'
         /\ job'.op = op /\ job'.slot = slot /\ job'.at = at /\ job'.data = data
         /\ job'.done = 0
<1> DEFINE first == at \div SectorSize
           last  == (at + Len(data) - 1) \div SectorSize
<1>1. Len(data) \in Nat /\ at + Len(data) - 1 \in Nat /\ at \in Address
  BY Geometry DEF Address
<1>2. first \in Nat /\ last \in Nat
  BY <1>1, DivMod, Geometry
<1> HIDE DEF first, last
<1>3. job' = [op |-> op, slot |-> slot, at |-> at, data |-> data, done |-> 0,
              sectors |-> first .. last]
  BY DEF StartWrite, first, last
<1>4. first .. last \in SUBSET Nat
  BY <1>2
<1>5. job' \in Job
  BY <1>1, <1>3, <1>4 DEF Job, Cell
<1>6. job'.op = op /\ job'.slot = slot /\ job'.at = at /\ job'.data = data
      /\ job'.done = 0 /\ job'.sectors = first .. last
  BY <1>3
<1>7. job' # NoJob
  BY <1>6 DEF NoJob
<1>8. \A n \in job'.sectors : first <= n /\ n <= last
  BY <1>2, <1>6
<1>9. WriteSound'
  BY <1>1, <1>6, <1>8 DEF WriteSound, first, last
<1>10. QED
  BY <1>5, <1>6, <1>7, <1>9

(* A job is none of the values of NoJob. *)
LEMMA JobFields ==
  ASSUME TypeOK, job # NoJob
  PROVE  /\ job \in Job
         /\ job.op \in {"chunk", "finalize", "activate"}
         /\ job.slot \in Slots /\ job.at \in Nat /\ job.at \in Address
         /\ job.data \in Seq(Cell) /\ Len(job.data) \in Nat
         /\ job.done \in Nat /\ job.sectors \in SUBSET Nat
<1>1. job \in Job
  BY DEF TypeOK
<1>2. QED
  BY <1>1, Geometry DEF Job, Cell, Address

(* A new device. *)
LEMMA AnyUseInit == Init => AnyUseInv
<1> SUFFICES ASSUME Init PROVE AnyUseInv
  OBVIOUS
<1>1. TypeOK
  <2>1. flash \in [Address -> Images \cup {Erased} \cup HeaderFront \cup HeaderBack]
    BY DEF Init
  <2>2. up \in BOOLEAN /\ writing \in BOOLEAN
    BY DEF Init
  <2>3. /\ bootPart \in {0, NoSlot} /\ activeSlot \in Slots /\ writeOffset \in 0 .. TotalSize
        /\ fed \in Seq(Images) /\ writeImageSize \in 0 .. SlotSize - kHeaderReserved
        /\ activated \in Slots \cup {NoSlot} /\ session \in Seq(Images)
        /\ delivered \in [Slots -> Seq(Images)]
    BY Geometry DEF Init, Slots, kHeaderReserved
  <2>4. QED
    BY <2>1, <2>2, <2>3 DEF Init, TypeOK
<1>2. CellsSound
  BY PlainCell DEF Init, CellsSound
<1>3. FeedSound /\ JobSound
  BY DEF Init, FeedSound, JobSound
<1>4. QED
  BY <1>1, <1>2, <1>3 DEF AnyUseInv

(* Nothing happens, or a call is refused. *)
LEMMA AnyUseStutter ==
  ASSUME AnyUseInv, UNCHANGED fwVars
  PROVE  AnyUseInv'
<1>1. TypeOK' /\ CellsSound' /\ FeedSound'
  BY DEF AnyUseInv, fwVars, ramVars, TypeOK, CellsSound, FeedSound
<1>2. JobSound'
  BY DEF AnyUseInv, fwVars, ramVars, JobSound, WriteSound, ChunkSound, HeaderSound,
         FinalizeSound, InactiveSlot, WriteAt
<1>3. QED
  BY <1>1, <1>2 DEF AnyUseInv

(* Without a job, nothing is under way that an interruption could hurt. *)
LEMMA AnyUsePower ==
  ASSUME AnyUseInv, InitCall \/ PowerCut
  PROVE  AnyUseInv'
<1>1. TypeOK'
  <2>1. CASE InitCall
    <3>1. BootSlot \in Slots
      BY DEF BootSlot, Slots
    <3>2. QED
      BY <2>1, <3>1 DEF AnyUseInv, TypeOK, InitCall
  <2>2. CASE PowerCut
    <3>1. 0 \in 0 .. TotalSize /\ 0 \in 0 .. SlotSize - kHeaderReserved /\ 0 \in Slots
          /\ <<>> \in Seq(Images)
      BY Geometry DEF Slots, kHeaderReserved
    <3>2. QED
      BY <2>2, <3>1 DEF AnyUseInv, TypeOK, PowerCut
  <2>3. QED
    BY <2>1, <2>2
<1>2. CellsSound'
  BY DEF AnyUseInv, CellsSound, InitCall, PowerCut
<1>3. FeedSound'
  BY DEF AnyUseInv, FeedSound, InitCall, PowerCut
<1>4. JobSound'
  BY DEF AnyUseInv, JobSound, WriteSound, InitCall, PowerCut
<1>5. QED
  BY <1>1, <1>2, <1>3, <1>4 DEF AnyUseInv

(* beginWrite(): the feed starts anew. *)
LEMMA AnyUseBegin ==
  ASSUME AnyUseInv, NEW n \in Sizes, BeginWrite(n)
  PROVE  AnyUseInv'
<1>1. TypeOK'
  BY Geometry DEF AnyUseInv, TypeOK, BeginWrite, kHeaderReserved
<1>2. CellsSound' /\ JobSound'
  BY DEF AnyUseInv, CellsSound, JobSound, BeginWrite, Idle
<1>3. FeedSound'
  <2>1. up' /\ Len(fed') = 0 /\ fed' = session' /\ writeOffset' = kHeaderReserved + 0
    BY Geometry DEF BeginWrite, Idle, kHeaderReserved
  <2>2. QED
    BY <2>1 DEF FeedSound
<1>4. QED
  BY <1>1, <1>2, <1>3 DEF AnyUseInv

(* writeChunk() starts a write to the inactive slot. *)
LEMMA AnyUseChunk ==
  ASSUME AnyUseInv, NEW data \in Chunks, WriteChunk(data)
  PROVE  AnyUseInv'
<1>1. writeOffset \in Nat /\ InactiveSlot \in Slots /\ WriteAt \in Nat
  BY Geometry DEF AnyUseInv, TypeOK, InactiveSlot, Slots, WriteAt
<1>2. data \in Seq(Cell) /\ data \in Seq(Images) /\ Len(data) \in Nat /\ Len(data) > 0
  BY ChunkFacts DEF Cell
<1>3. StartWrite("chunk", InactiveSlot, WriteAt, data) /\ WriteAt + Len(data) <= TotalSize
  BY DEF WriteChunk, Readable
<1>4. UNCHANGED <<flash, bootPart, esp, up, activeSlot, writing, writeOffset, fed,
                  writeImageSize, session, delivered, activated>> /\ up /\ writing
  BY DEF WriteChunk, ramVars, Idle
<1>5. \A k \in 1 .. Len(data) : SoundCell(data[k])
  BY <1>2, PlainCell
<1>6. /\ job' \in Job /\ WriteSound'
      /\ job'.op = "chunk" /\ job'.slot = InactiveSlot /\ job'.at = WriteAt /\ job'.data = data
  BY <1>1, <1>2, <1>3, <1>4, <1>5, WriteStarts
<1>7. TypeOK'
  BY <1>4, <1>6 DEF AnyUseInv, TypeOK
<1>8. CellsSound' /\ FeedSound'
  BY <1>4 DEF AnyUseInv, CellsSound, FeedSound
<1>9. ChunkSound'
  BY <1>2, <1>4, <1>6 DEF ChunkSound, InactiveSlot, WriteAt
<1>10. QED
  BY <1>6, <1>7, <1>8, <1>9 DEF AnyUseInv, JobSound

(* finalizeWrite() starts the write of the header, or gives up. *)
LEMMA AnyUseFinalize ==
  ASSUME AnyUseInv, FinalizeWrite
  PROVE  AnyUseInv'
<1> DEFINE h == HeaderCells(writeImageSize, fed, {"valid"})
<1>1. UNCHANGED <<flash, bootPart, esp, up, activeSlot, writeOffset, fed, writeImageSize,
                  session, delivered, activated>> /\ up /\ writing /\ job = NoJob
  BY DEF FinalizeWrite, Idle
<1>2. CellsSound'
  BY <1>1 DEF AnyUseInv, CellsSound
<1>3. CASE Readable(SlotOffset[InactiveSlot], 2)
  <2>1. StartWrite("finalize", InactiveSlot, SlotOffset[InactiveSlot], h) /\ writing' = writing
    BY <1>3 DEF FinalizeWrite
  <2>3. /\ InactiveSlot \in Slots /\ SlotOffset[InactiveSlot] \in Nat
        /\ writeImageSize \in Nat /\ writeImageSize <= MaxImage /\ fed \in Seq(Images)
    BY Geometry DEF AnyUseInv, TypeOK, InactiveSlot, Slots, MaxImage, kHeaderReserved
  <2>4. {"valid"} \in SUBSET {"valid", "bootable"}
    OBVIOUS
  <2>5. /\ h \in Seq(Cell) /\ Len(h) = 2 /\ h[1] \in HeaderFront /\ h[2] \in HeaderBack
        /\ h[1].size = writeImageSize /\ h[2].crc = fed /\ h[2].flags = {"valid"}
        /\ \A k \in 1 .. Len(h) : SoundCell(h[k])
    BY <2>3, <2>4, HeaderTypes DEF Cell
  <2> HIDE DEF h
  <2>6. SlotOffset[InactiveSlot] + Len(h) <= TotalSize /\ Len(h) > 0 /\ up'
    BY <1>1, <1>3, <2>5 DEF Readable
  <2>7. /\ job' \in Job /\ WriteSound'
        /\ job'.op = "finalize" /\ job'.slot = InactiveSlot
        /\ job'.at = SlotOffset[InactiveSlot] /\ job'.data = h
    BY <2>1, <2>3, <2>5, <2>6, WriteStarts
  <2>8. TypeOK'
    BY <1>1, <2>1, <2>7 DEF AnyUseInv, TypeOK
  <2>9. FeedSound'
    BY <1>1, <2>1 DEF AnyUseInv, FeedSound
  <2>10. HeaderSound' /\ FinalizeSound'
    BY <1>1, <2>1, <2>5, <2>7 DEF HeaderSound, FinalizeSound, InactiveSlot
  <2>11. QED
    BY <1>2, <2>7, <2>8, <2>9, <2>10 DEF AnyUseInv, JobSound
<1>4. CASE ~Readable(SlotOffset[InactiveSlot], 2)
  <2>1. writing' = FALSE /\ job' = job
    BY <1>4 DEF FinalizeWrite
  <2>2. TypeOK'
    <3>1. writing' \in BOOLEAN
      BY <2>1
    <3>2. QED
      BY <1>1, <2>1, <3>1 DEF AnyUseInv, TypeOK
  <2>3. FeedSound' /\ JobSound'
    BY <1>1, <2>1 DEF AnyUseInv, FeedSound, JobSound
  <2>4. QED
    BY <1>2, <2>2, <2>3 DEF AnyUseInv
<1>5. QED
  BY <1>3, <1>4

(* activateSlot() selects the slot in ESP-IDF, or starts to rewrite the    *)
(* header that it has read.                                                *)
LEMMA AnyUseActivate ==
  ASSUME AnyUseInv, NEW s \in Slots, ActivateSlot(s)
  PROVE  AnyUseInv'
<1> DEFINE h == HeaderCells(Front(s).size, Back(s).crc, Back(s).flags \cup {"bootable"})
<1>1. UNCHANGED <<flash, esp, up, writing, writeOffset, fed, writeImageSize, session, delivered>>
      /\ up /\ job = NoJob /\ Verified(s)
  BY DEF ActivateSlot, Idle
<1>2. CellsSound' /\ FeedSound'
  BY <1>1 DEF AnyUseInv, CellsSound, FeedSound
<1>3. CASE MaySetBootPartition(s) /\ bootPart' = s /\ activeSlot' = s /\ activated' = s
           /\ UNCHANGED job
  <2>1. TypeOK'
    <3>1. bootPart' \in {0, NoSlot} /\ activeSlot' \in Slots /\ activated' \in Slots \cup {NoSlot}
      BY <1>3 DEF MaySetBootPartition
    <3>2. QED
      BY <1>1, <1>3, <3>1 DEF AnyUseInv, TypeOK
  <2>2. JobSound'
    BY <1>1, <1>3 DEF JobSound
  <2>3. QED
    BY <1>2, <2>1, <2>2 DEF AnyUseInv
<1>4. CASE StartWrite("activate", s, SlotOffset[s], h)
           /\ UNCHANGED <<bootPart, activeSlot, activated>>
  <2>1. SlotOffset[s] \in Nat /\ SlotOffset[s] + 2 <= TotalSize
    BY <1>1, Geometry DEF Slots, Verified, MarkedValid, HasHeader, Readable
  <2>2. SlotOffset[s] \in Address /\ SlotOffset[s] + 1 \in Address
    BY <2>1, Geometry DEF Address
  <2>3. Front(s) \in HeaderFront /\ Back(s) \in HeaderBack
        /\ SoundCell(Front(s)) /\ Back(s).crc = delivered[s]
    BY <1>1, <2>2 DEF AnyUseInv, CellsSound, BackAt, Verified, MarkedValid, HasHeader, Front, Back
  <2>4. /\ Front(s).size \in Nat /\ Front(s).size <= MaxImage
        /\ Back(s).crc \in Seq(Images)
        /\ Back(s).flags \cup {"bootable"} \in SUBSET {"valid", "bootable"}
    BY <2>3 DEF SoundCell, HeaderFront, HeaderBack
  <2>5. /\ h \in Seq(Cell) /\ Len(h) = 2 /\ h[1] \in HeaderFront /\ h[2] \in HeaderBack
        /\ h[2].crc = Back(s).crc
        /\ \A k \in 1 .. Len(h) : SoundCell(h[k])
    BY <2>4, HeaderTypes DEF Cell
  <2> HIDE DEF h
  <2>6. SlotOffset[s] + Len(h) <= TotalSize /\ Len(h) > 0 /\ up'
    BY <1>1, <2>1, <2>5
  <2>7. /\ job' \in Job /\ WriteSound' /\ job'.op = "activate" /\ job'.slot = s
        /\ job'.at = SlotOffset[s] /\ job'.data = h
    BY <1>4, <2>1, <2>5, <2>6, WriteStarts
  <2>8. TypeOK'
    BY <1>1, <1>4, <2>7 DEF AnyUseInv, TypeOK
  <2>9. HeaderSound'
    BY <1>1, <2>3, <2>5, <2>7 DEF HeaderSound
  <2>10. QED
    BY <1>2, <2>7, <2>8, <2>9 DEF AnyUseInv, JobSound
<1>5. QED
  BY <1>3, <1>4 DEF ActivateSlot

(* A flash operation of write() changes the progress of the job, and cells *)
(* of the sectors that the data lies in.                                   *)
LEMMA FlashStep ==
  ASSUME AnyUseInv, EraseStep \/ ProgramStep
  PROVE  /\ job # NoJob /\ job' \in Job /\ job' # NoJob /\ WriteSound'
         /\ job'.op = job.op /\ job'.slot = job.slot /\ job'.at = job.at
         /\ job'.data = job.data
         /\ flash' \in [Address -> Images \cup {Erased} \cup HeaderFront \cup HeaderBack]
         /\ \A a \in Address : SoundCell(flash'[a])
         /\ \A a \in Address :
              \/ flash'[a] = flash[a]
              \/ /\ job.at \div SectorSize <= a \div SectorSize
                 /\ a \div SectorSize <= (job.at + Len(job.data) - 1) \div SectorSize
<1>1. job # NoJob
  BY DEF EraseStep, ProgramStep
<1>2. /\ job \in Job /\ job.at \in Nat /\ job.at \in Address
      /\ job.data \in Seq(Cell) /\ Len(job.data) \in Nat
      /\ job.done \in Nat /\ job.sectors \in SUBSET Nat
  BY <1>1, JobFields DEF AnyUseInv
<1>3. WriteSound /\ flash \in [Address -> Images \cup {Erased} \cup HeaderFront \cup HeaderBack]
  BY <1>1 DEF AnyUseInv, JobSound, TypeOK
<1>4. CASE EraseStep
  <2>1. PICK n \in job.sectors :
          /\ flash' = [a \in Address |-> IF a \in SectorCells(n) THEN Erased ELSE flash[a]]
          /\ job' = [job EXCEPT !.sectors = @ \ {n}]
    BY <1>4 DEF EraseStep
  <2>2. job' \in Job /\ job'.op = job.op /\ job'.slot = job.slot /\ job'.at = job.at
        /\ job'.data = job.data /\ job'.done = job.done /\ job'.sectors = job.sectors \ {n}
    BY <1>2, <2>1 DEF Job
  <2>3. job' # NoJob
    BY <1>2, <2>2 DEF NoJob, Job
  <2>4. up' /\ job.done = 0
    BY <1>3, <1>4, <2>1 DEF EraseStep, WriteSound
  <2>5. WriteSound'
    BY <1>3, <2>2, <2>4 DEF WriteSound
  <2>6. flash' \in [Address -> Images \cup {Erased} \cup HeaderFront \cup HeaderBack]
    BY <1>3, <2>1
  <2>7. \A a \in Address : flash'[a] = flash[a] \/ (flash'[a] = Erased /\ a \div SectorSize = n)
    BY <2>1 DEF SectorCells
  <2>8. \A a \in Address : SoundCell(flash'[a])
    BY <2>7, PlainCell DEF AnyUseInv, CellsSound
  <2>9. job.at \div SectorSize <= n /\ n <= (job.at + Len(job.data) - 1) \div SectorSize
    BY <1>3 DEF WriteSound
  <2>10. QED
    BY <1>1, <2>2, <2>3, <2>5, <2>6, <2>7, <2>8, <2>9
<1>5. CASE ProgramStep
  <2> DEFINE k0 == job.done + 1
             a0 == job.at + job.done
  <2>1. /\ flash' = [flash EXCEPT ![a0] = job.data[k0]]
        /\ job' = [job EXCEPT !.done = k0]
        /\ job.sectors = {} /\ job.done < Len(job.data) /\ up' = up
    BY <1>5 DEF ProgramStep
  <2>2. job' \in Job /\ job'.op = job.op /\ job'.slot = job.slot /\ job'.at = job.at
        /\ job'.data = job.data /\ job'.done = k0 /\ job'.sectors = job.sectors
    BY <1>2, <2>1 DEF Job
  <2>3. job' # NoJob
    BY <1>2, <2>2 DEF NoJob, Job
  <2>0. /\ job.at + Len(job.data) <= TotalSize
        /\ \A k \in 1 .. Len(job.data) : SoundCell(job.data[k])
    BY <1>3 DEF WriteSound
  <2>4. k0 \in 1 .. Len(job.data) /\ job.data[k0] \in Cell /\ a0 \in Address
        /\ SoundCell(job.data[k0])
    <3>1. k0 \in 1 .. Len(job.data) /\ a0 \in Address
      BY <1>2, <2>0, <2>1, CellsWithin, Geometry DEF Address
    <3>2. QED
      BY <1>2, <2>0, <3>1
  <2>5. flash' \in [Address -> Images \cup {Erased} \cup HeaderFront \cup HeaderBack]
    BY <1>3, <2>1, <2>4 DEF Cell
  <2>6. \A a \in Address : flash'[a] = IF a = a0 THEN job.data[k0] ELSE flash[a]
    BY <1>3, <2>1, <2>4
  <2>7. \A k \in 1 .. k0 : flash'[job.at + k - 1] = job.data[k]
    <3> SUFFICES ASSUME NEW k \in 1 .. k0 PROVE flash'[job.at + k - 1] = job.data[k]
      OBVIOUS
    <3>1. job.at + k - 1 \in Address
      <4>1. k \in 1 .. Len(job.data)
        BY <1>2, <2>4
      <4>2. QED
        BY <1>2, <2>0, <4>1, CellsWithin, Geometry DEF Address
    <3>2. CASE k = k0
      BY <1>2, <2>6, <3>1, <3>2
    <3>3. CASE k # k0
      <4>1. k \in 1 .. job.done /\ job.at + k - 1 # a0
        BY <1>2, <3>3
      <4>2. flash[job.at + k - 1] = job.data[k]
        BY <1>3, <2>1, <4>1 DEF WriteSound
      <4>3. QED
        BY <2>6, <3>1, <4>1, <4>2
    <3>4. QED
      BY <3>2, <3>3
  <2>8. up' /\ k0 <= Len(job.data)
    BY <1>2, <1>3, <2>1 DEF WriteSound
  <2>9. WriteSound'
    BY <1>3, <2>1, <2>2, <2>7, <2>8 DEF WriteSound
  <2>10. \A a \in Address : SoundCell(flash'[a])
    BY <2>4, <2>6 DEF AnyUseInv, CellsSound
  <2>11. /\ job.at \div SectorSize <= a0 \div SectorSize
         /\ a0 \div SectorSize <= (job.at + Len(job.data) - 1) \div SectorSize
    <3>1. /\ a0 \in Nat /\ job.at <= a0 /\ job.at + Len(job.data) - 1 \in Nat
          /\ a0 <= job.at + Len(job.data) - 1
      BY <1>2, <2>1
    <3>2. QED
      BY <1>2, <3>1, DivMono, Geometry
  <2>12. QED
    BY <1>1, <2>2, <2>3, <2>5, <2>6, <2>9, <2>10, <2>11
<1>6. QED
  BY <1>4, <1>5

(* No cell is the front of a header and the back of one. *)
LEMMA FrontIsNoBack ==
  ASSUME NEW c \in HeaderFront PROVE c \notin HeaderBack
<1>1. c = [size |-> c.size]
  BY DEF HeaderFront
<1>2. [size |-> c.size] \notin HeaderBack
  BY DEF HeaderBack
<1>3. QED
  BY <1>1, <1>2

(* The back of the header of a slot is written only by a job for the slot: *)
(* finalizeWrite() writes the CRC of the session, activateSlot() the one   *)
(* it has read.                                                            *)
LEMMA FlashHeaders ==
  ASSUME AnyUseInv, EraseStep \/ ProgramStep
  PROVE  /\ delivered' \in [Slots -> Seq(Images)]
         /\ job.op = "activate" => delivered' = delivered
         /\ \A s \in Slots : BackAt(s) \in Address /\ flash'[BackAt(s)] \in HeaderBack
                              => flash'[BackAt(s)].crc = delivered'[s]
<1>1. /\ job # NoJob /\ flash \in [Address -> Images \cup {Erased} \cup HeaderFront \cup HeaderBack]
      /\ delivered \in [Slots -> Seq(Images)] /\ session \in Seq(Images) /\ fed = session
  BY DEF EraseStep, ProgramStep, AnyUseInv, TypeOK, FeedSound
<1>2. /\ job.at \in Nat /\ job.data \in Seq(Cell) /\ Len(job.data) \in Nat /\ job.done \in Nat
      /\ job.op \in {"chunk", "finalize", "activate"} /\ job.slot \in Slots
  BY <1>1, JobFields DEF AnyUseInv
<1>3. \A s \in Slots : BackAt(s) \in Address /\ flash[BackAt(s)] \in HeaderBack
                       => flash[BackAt(s)].crc = delivered[s]
  BY DEF AnyUseInv, CellsSound
<1>4. CASE EraseStep
  <2>1. PICK n \in job.sectors :
          flash' = [a \in Address |-> IF a \in SectorCells(n) THEN Erased ELSE flash[a]]
    BY <1>4 DEF EraseStep
  <2>2. delivered' = delivered /\ \A a \in Address : flash'[a] = flash[a] \/ flash'[a] = Erased
    BY <1>4, <2>1 DEF EraseStep
  <2>3. QED
    BY <1>1, <1>3, <2>2, PlainCell
<1>5. CASE ProgramStep
  <2> DEFINE a0 == job.at + job.done
             c0 == job.data[job.done + 1]
  <2>1. /\ flash' = [flash EXCEPT ![a0] = c0] /\ job.done < Len(job.data)
        /\ delivered' = IF job.op = "finalize" /\ job.done = 1
                           THEN [delivered EXCEPT ![job.slot] = session]
                           ELSE delivered
    BY <1>5 DEF ProgramStep
  <2>2. delivered' \in [Slots -> Seq(Images)] /\ (job.op # "finalize" => delivered' = delivered)
    BY <1>1, <1>2, <2>1
  <2>3. ASSUME job.op # "chunk", job.done = 1
        PROVE  a0 = BackAt(job.slot) /\ c0.crc = delivered'[job.slot]
    <3>1. /\ job.at = SlotOffset[job.slot]
          /\ job.op = "activate" => job.data[2].crc = delivered[job.slot]
          /\ job.op = "finalize" => job.data[2].crc = fed
      BY <1>1, <2>3 DEF AnyUseInv, JobSound, HeaderSound, FinalizeSound
    <3>2. QED
      BY <1>1, <1>2, <2>1, <2>3, <3>1 DEF BackAt
  <2>4. c0 \in HeaderBack => job.op # "chunk" /\ job.done = 1
    <3>1. job.done + 1 \in 1 .. Len(job.data)
      BY <1>2, <2>1
    <3>2. CASE job.op = "chunk"
      <4>1. c0 \in Images
        BY <1>1, <3>1, <3>2 DEF AnyUseInv, JobSound, ChunkSound
      <4>2. QED
        BY <4>1, PlainCell
    <3>3. CASE job.op # "chunk"
      <4>1. Len(job.data) = 2 /\ job.data[1] \in HeaderFront
        BY <1>1, <3>3 DEF AnyUseInv, JobSound, HeaderSound
      <4>2. job.done \in {0, 1}
        BY <1>2, <2>1, <4>1
      <4>3. job.done = 0 => c0 \notin HeaderBack
        BY <4>1, FrontIsNoBack
      <4>4. QED
        BY <3>3, <4>2, <4>3
    <3>4. QED
      BY <3>2, <3>3
  <2>5. \A s \in Slots, t \in Slots : BackAt(s) = BackAt(t) => s = t
    BY Geometry, LayoutAssumption DEF BackAt, Slots
  <2> HIDE DEF a0, c0
  <2>6. ASSUME NEW s \in Slots, BackAt(s) \in Address, flash'[BackAt(s)] \in HeaderBack
        PROVE  flash'[BackAt(s)].crc = delivered'[s]
    <3>1. CASE BackAt(s) = a0
      <4>1. flash'[BackAt(s)] = c0
        BY <1>1, <2>1, <2>6, <3>1
      <4>2. QED
        BY <1>2, <2>3, <2>4, <2>5, <2>6, <3>1, <4>1
    <3>2. CASE BackAt(s) # a0
      <4>1. flash'[BackAt(s)] = flash[BackAt(s)]
        BY <1>1, <2>1, <2>6, <3>2
      <4>2. delivered'[s] = delivered[s]
        BY <1>1, <1>2, <2>1, <2>3, <3>2
      <4>3. QED
        BY <1>3, <2>6, <4>1, <4>2
    <3>3. QED
      BY <3>1, <3>2
  <2>7. QED
    BY <2>2, <2>6
<1>6. QED
  BY <1>4, <1>5

(* The flash operations keep the invariant. *)
LEMMA AnyUseFlash ==
  ASSUME AnyUseInv, EraseStep \/ ProgramStep
  PROVE  AnyUseInv'
<1>1. UNCHANGED <<bootPart, esp, up, activeSlot, writing, writeOffset, fed, writeImageSize,
                  session, activated>>
  BY DEF EraseStep, ProgramStep, ramVars
<1>2. /\ job # NoJob /\ job' \in Job /\ job' # NoJob /\ WriteSound'
      /\ \A a \in Address : SoundCell(flash'[a])
      /\ job'.op = job.op /\ job'.slot = job.slot /\ job'.at = job.at /\ job'.data = job.data
      /\ flash' \in [Address -> Images \cup {Erased} \cup HeaderFront \cup HeaderBack]
  BY FlashStep
<1>7. /\ delivered' \in [Slots -> Seq(Images)]
      /\ job.op = "activate" => delivered' = delivered
      /\ CellsSound'
  BY <1>2, FlashHeaders DEF CellsSound, BackAt
<1>3. TypeOK'
  BY <1>1, <1>2, <1>7 DEF AnyUseInv, TypeOK
<1>4. FeedSound'
  BY <1>1 DEF AnyUseInv, FeedSound
<1>5. JobSound'
  BY <1>1, <1>2, <1>7 DEF AnyUseInv, JobSound, ChunkSound, HeaderSound, FinalizeSound,
                          InactiveSlot, WriteAt
<1>6. QED
  BY <1>3, <1>4, <1>5, <1>7 DEF AnyUseInv

(* The caller of write() goes on. *)
LEMMA AnyUseResume ==
  ASSUME AnyUseInv, job # NoJob, NEW ok \in BOOLEAN, Resume(ok)
  PROVE  AnyUseInv'
<1>1. /\ job' = NoJob
      /\ UNCHANGED <<flash, bootPart, esp, up, writeImageSize, delivered>>
      /\ writing' = (writing /\ job.op # "finalize")
  BY DEF Resume
<1>2. /\ job.slot \in Slots /\ job.at \in Nat /\ job.data \in Seq(Cell) /\ Len(job.data) \in Nat
      /\ fed \in Seq(Images) /\ session = fed /\ writeOffset \in Nat /\ Len(fed) \in Nat
  BY JobFields, Geometry DEF AnyUseInv, TypeOK, FeedSound
<1>3. CellsSound' /\ JobSound'
  BY <1>1 DEF AnyUseInv, CellsSound, JobSound
<1>4. writing' \in BOOLEAN /\ (writing' => writing)
  BY <1>1
<1>5. activeSlot' \in Slots /\ activated' \in Slots \cup {NoSlot}
  BY <1>2 DEF Resume, AnyUseInv, TypeOK
<1>6. /\ fed' \in Seq(Images) /\ session' \in Seq(Images)
      /\ writeOffset' \in 0 .. TotalSize /\ FeedSound'
  <2>1. CASE job.op = "chunk" /\ ok
    <3>1. /\ fed' = fed \o job.data /\ writeOffset' = writeOffset + Len(job.data)
          /\ session' = fed'
      BY <1>2, <2>1 DEF Resume
    <3>2. /\ writing /\ job.at = WriteAt /\ InactiveSlot \in Slots
          /\ job.data \in Seq(Images)
          /\ job.at + Len(job.data) <= TotalSize
          /\ writeOffset = kHeaderReserved + Len(fed)
      BY <2>1 DEF AnyUseInv, TypeOK, JobSound, WriteSound, ChunkSound, FeedSound, InactiveSlot, Slots
    <3>4. fed' \in Seq(Images) /\ Len(fed') = Len(fed) + Len(job.data)
      BY <1>2, <3>1, <3>2
    <3>6. SlotOffset[InactiveSlot] \in Nat
      BY <3>2, Geometry DEF Slots
    <3>3. job.at = SlotOffset[InactiveSlot] + writeOffset
      BY <3>2 DEF WriteAt
    <3>7. writeOffset' \in 0 .. TotalSize
      <4> DEFINE o == SlotOffset[InactiveSlot]
                 l == Len(job.data)
      <4>1. o \in Nat /\ l \in Nat /\ o + writeOffset + l <= TotalSize
        BY <1>2, <3>2, <3>3, <3>6
      <4> HIDE DEF o, l
      <4>2. writeOffset + l \in 0 .. TotalSize
        BY <1>2, <4>1, Geometry
      <4>3. QED
        BY <3>1, <4>2 DEF l
    <3>8. FeedSound'
      <4> DEFINE m == Len(fed)
                 l == Len(job.data)
      <4>0. m \in Nat /\ l \in Nat
        BY <1>2
      <4> HIDE DEF m, l
      <4>1. SectorSize + (m + l) = (SectorSize + m) + l
        BY <4>0, Geometry
      <4>2. writeOffset' = kHeaderReserved + Len(fed')
        BY <3>1, <3>2, <3>4, <4>1 DEF kHeaderReserved, m, l
      <4>3. QED
        BY <1>1, <3>1, <3>2, <4>2 DEF FeedSound, AnyUseInv
    <3>9. QED
      BY <3>1, <3>4, <3>7, <3>8
  <2>2. CASE ~(job.op = "chunk" /\ ok)
    <3>1. fed' = fed /\ writeOffset' = writeOffset /\ session' = session
      BY <2>2 DEF Resume
    <3>2. QED
      BY <1>1, <1>4, <3>1 DEF AnyUseInv, TypeOK, FeedSound
  <2>3. QED
    BY <2>1, <2>2
<1>7. TypeOK'
  BY <1>1, <1>4, <1>5, <1>6 DEF AnyUseInv, TypeOK
<1>8. QED
  BY <1>3, <1>6, <1>7 DEF AnyUseInv

(* Every step, whatever the use of the interface. *)
LEMMA AnyUseStep ==
  ASSUME AnyUseInv, [Next]_fwVars
  PROVE  AnyUseInv'
<1>1. CASE InitCall
  BY <1>1, AnyUsePower
<1>2. CASE PowerCut
  BY <1>2, AnyUsePower
<1>3. CASE \E n \in Sizes : BeginWrite(n)
  BY <1>3, AnyUseBegin
<1>4. CASE \E n \in Sizes : BeginWriteRefused(n)
  BY <1>4, AnyUseStutter DEF BeginWriteRefused
<1>5. CASE \E d \in Chunks : WriteChunk(d) \/ WriteChunkRefused(Len(d))
  BY <1>5, AnyUseChunk, AnyUseStutter DEF WriteChunkRefused
<1>6. CASE FinalizeWrite
  BY <1>6, AnyUseFinalize
<1>7. CASE \E s \in Slots : ActivateSlot(s) \/ ActivateRefused(s)
  BY <1>7, AnyUseActivate, AnyUseStutter DEF ActivateRefused
<1>8. CASE EraseStep \/ ProgramStep
  BY <1>8, AnyUseFlash
<1>9. CASE WriteReturn
  BY <1>9, AnyUseResume DEF WriteReturn
<1>10. CASE WriteFails
  BY <1>10, AnyUseResume DEF WriteFails
<1>11. CASE UNCHANGED fwVars
  BY <1>11, AnyUseStutter
<1>12. QED
  BY <1>1, <1>2, <1>3, <1>4, <1>5, <1>6, <1>7, <1>8, <1>9, <1>10, <1>11 DEF Next

(* A CRC that matches is that of the session, so the body is the session. *)
LEMMA DeliveredIfVerified ==
  ASSUME AnyUseInv PROVE VerifiedIsDelivered
<1> SUFFICES ASSUME NEW s \in Slots, Verified(s) PROVE Body(s) = delivered[s]
  BY DEF VerifiedIsDelivered
<1>1. SlotOffset[s] \in Nat /\ SlotOffset[s] + 2 <= TotalSize
  BY Geometry DEF Slots, Verified, MarkedValid, HasHeader, Readable
<1>2. BackAt(s) \in Address
  BY <1>1, Geometry DEF Address, BackAt
<1>3. Back(s) \in HeaderBack /\ Back(s).crc = Body(s)
  BY DEF Verified
<1>4. QED
  BY <1>2, <1>3 DEF AnyUseInv, CellsSound, Back, BackAt

-----------------------------------------------------------------------------
(* What a flash operation leaves alone. *)

InSlot(s, a) == SlotOffset[s] <= a /\ a < SlotOffset[s] + SlotSize

(* A slot, its header sector and its end lie on sector boundaries. *)
LEMMA SlotBounds ==
  ASSUME NEW s \in Slots
  PROVE  /\ SlotOffset[s] \in Nat
         /\ SlotOffset[s] % SectorSize = 0
         /\ (SlotOffset[s] + SectorSize) % SectorSize = 0
         /\ (SlotOffset[s] + SlotSize) % SectorSize = 0
<1>1. SlotOffset[s] \in Nat /\ SlotOffset[s] % SectorSize = 0
  BY FirmwareAssumption
<1>2. SectorSize % SectorSize = 0 /\ SlotSize % SectorSize = 0
  BY ModSelf, Geometry, LayoutAssumption
<1>3. QED
  BY <1>1, <1>2, ModSum, Geometry

(* The slots do not overlap. *)
LEMMA SlotsDisjoint ==
  ASSUME NEW s \in Slots, NEW t \in Slots, s # t, NEW a \in Nat, InSlot(s, a)
  PROVE  ~InSlot(t, a)
<1>1. \/ SlotOffset[s] + SlotSize <= SlotOffset[t]
      \/ SlotOffset[t] + SlotSize <= SlotOffset[s]
  BY LayoutAssumption DEF Slots
<1>2. SlotOffset[s] \in Nat /\ SlotOffset[t] \in Nat
  BY SlotBounds
<1>3. QED
  BY <1>1, <1>2, Geometry DEF InSlot

(* Sectors between two whole-sector boundaries. *)
LEMMA SectorsBetween ==
  ASSUME NEW lo \in Nat, NEW hi \in Nat, NEW first \in Nat, NEW last \in Nat, NEW a \in Nat,
         lo % SectorSize = 0, hi % SectorSize = 0, lo <= first, last < hi,
         first \div SectorSize <= a \div SectorSize, a \div SectorSize <= last \div SectorSize
  PROVE  lo <= a /\ a < hi
<1>1. /\ lo \div SectorSize \in Nat /\ hi \div SectorSize \in Nat /\ first \div SectorSize \in Nat
      /\ last \div SectorSize \in Nat /\ a \div SectorSize \in Nat
  BY DivMod, Geometry
<1>2. lo \div SectorSize <= first \div SectorSize /\ last \div SectorSize < hi \div SectorSize
  BY DivMono, DivStrict, Geometry
<1>3. a < lo => a \div SectorSize < lo \div SectorSize
  BY DivStrict, Geometry
<1>4. hi <= a => hi \div SectorSize <= a \div SectorSize
  BY DivMono, Geometry
<1>5. ~(a < lo)
  BY <1>1, <1>2, <1>3
<1>6. ~(hi <= a)
  BY <1>1, <1>2, <1>4
<1>7. QED
  BY <1>5, <1>6

(* The data of a cautious program lies in the slot. *)
LEMMA JobInSlot ==
  ASSUME AnyUseInv, RoomLeft, job # NoJob
  PROVE  /\ job.slot \in Slots /\ job.at \in Nat /\ Len(job.data) \in Nat /\ Len(job.data) > 0
         /\ SlotOffset[job.slot] <= job.at
         /\ job.at + Len(job.data) <= SlotOffset[job.slot] + SlotSize
<1>1. job.slot \in Slots /\ job.at \in Nat /\ Len(job.data) \in Nat
      /\ job.op \in {"chunk", "finalize", "activate"}
  BY JobFields DEF AnyUseInv
<1>2. Len(job.data) > 0 /\ SlotOffset[job.slot] \in Nat
  BY <1>1, SlotBounds DEF AnyUseInv, JobSound, WriteSound
<1>3. CASE job.op = "chunk"
  <2>1. /\ job.at = SlotOffset[job.slot] + (SectorSize + Len(fed))
        /\ Len(fed) + Len(job.data) <= writeImageSize
    BY <1>3 DEF AnyUseInv, RoomLeft, JobSound, ChunkSound, FeedSound, WriteAt, kHeaderReserved
  <2>2. Len(fed) \in Nat /\ writeImageSize \in Nat /\ writeImageSize <= SlotSize - SectorSize
    BY Geometry DEF AnyUseInv, TypeOK, kHeaderReserved
  <2> DEFINE o == SlotOffset[job.slot]
             m == Len(fed)
             l == Len(job.data)
  <2>3. o \in Nat /\ m \in Nat /\ l \in Nat /\ m + l <= writeImageSize /\ job.at = o + (SectorSize + m)
    BY <1>1, <1>2, <2>1, <2>2
  <2> HIDE DEF o, m, l
  <2>4. o <= job.at /\ job.at + l <= o + SlotSize
    BY <2>2, <2>3, Geometry
  <2>5. QED
    BY <1>1, <1>2, <2>4 DEF o, l
<1>4. CASE job.op # "chunk"
  <2>1. job.at = SlotOffset[job.slot] /\ Len(job.data) = 2
    BY <1>4 DEF AnyUseInv, JobSound, HeaderSound
  <2>2. QED
    BY <1>1, <1>2, <2>1, Geometry
<1>5. QED
  BY <1>3, <1>4

(* A flash operation changes no cell outside the slot. *)
LEMMA OutsideUntouched ==
  ASSUME AnyUseInv, RoomLeft, EraseStep \/ ProgramStep, NEW a \in Address, flash'[a] # flash[a]
  PROVE  InSlot(job.slot, a)
<1>1. /\ job # NoJob
      /\ job.at \div SectorSize <= a \div SectorSize
      /\ a \div SectorSize <= (job.at + Len(job.data) - 1) \div SectorSize
  BY FlashStep
<1>2. a \in Nat
  BY Geometry DEF Address
<1> DEFINE o == SlotOffset[job.slot]
           l == Len(job.data)
           last == job.at + l - 1
<1>3. job.slot \in Slots /\ job.at \in Nat /\ o <= job.at
      /\ l \in Nat /\ l > 0 /\ job.at + l <= o + SlotSize
  BY <1>1, JobInSlot
<1>4. o \in Nat /\ o % SectorSize = 0 /\ (o + SlotSize) % SectorSize = 0
  BY <1>3, SlotBounds
<1> HIDE DEF o, l
<1>7. last \in Nat /\ last < o + SlotSize /\ o + SlotSize \in Nat
  BY <1>3, <1>4, Geometry
<1> HIDE DEF last
<1>5. o <= a /\ a < o + SlotSize
  BY <1>1, <1>2, <1>3, <1>4, <1>7, SectorsBetween DEF last, l
<1>6. QED
  BY <1>5 DEF InSlot, o

(* A header is written without touching the body after it. *)
LEMMA BodyUntouched ==
  ASSUME AnyUseInv, EraseStep \/ ProgramStep, job.op # "chunk",
         NEW a \in Address, flash'[a] # flash[a]
  PROVE  a < BodyAt(job.slot)
<1>1. /\ job # NoJob
      /\ job.at \div SectorSize <= a \div SectorSize
      /\ a \div SectorSize <= (job.at + Len(job.data) - 1) \div SectorSize
  BY FlashStep
<1>2. a \in Nat
  BY Geometry DEF Address
<1> DEFINE o == SlotOffset[job.slot]
<1>3. job.slot \in Slots
  BY <1>1, JobFields DEF AnyUseInv
<1>4. job.at = o /\ Len(job.data) = 2
  BY <1>1 DEF AnyUseInv, JobSound, HeaderSound
<1>5. o \in Nat /\ o % SectorSize = 0 /\ (o + SectorSize) % SectorSize = 0
  BY <1>3, SlotBounds
<1> HIDE DEF o
<1>6. /\ o \div SectorSize <= a \div SectorSize
      /\ a \div SectorSize <= (o + 1) \div SectorSize
  <2>1. job.at + Len(job.data) - 1 = o + 1
    BY <1>4, <1>5
  <2>2. QED
    BY <1>1, <1>4, <2>1
<1>7. o + 1 \in Nat /\ o + 1 < o + SectorSize /\ o + SectorSize \in Nat /\ o <= o
  BY <1>5, Geometry
<1>8. a < o + SectorSize
  BY <1>2, <1>5, <1>6, <1>7, SectorsBetween
<1>9. QED
  BY <1>8 DEF BodyAt, kHeaderReserved, o

(* A chunk that begins on a sector touches nothing before it. *)
LEMMA EarlierUntouched ==
  ASSUME AnyUseInv, EraseStep \/ ProgramStep, job.op = "chunk", writeOffset % SectorSize = 0,
         NEW a \in Address, flash'[a] # flash[a]
  PROVE  job.at <= a
<1>1. /\ job # NoJob
      /\ job.at \div SectorSize <= a \div SectorSize
  BY FlashStep
<1>2. a \in Nat
  BY Geometry DEF Address
<1>3. job.slot \in Slots /\ job.at \in Nat /\ writeOffset \in Nat
  BY <1>1, JobFields, Geometry DEF AnyUseInv, TypeOK
<1>4. job.at = SlotOffset[job.slot] + writeOffset
  BY <1>1 DEF AnyUseInv, JobSound, ChunkSound, WriteAt
<1>5. job.at % SectorSize = 0
  <2> DEFINE o == SlotOffset[job.slot]
  <2>1. o \in Nat /\ o % SectorSize = 0
    BY <1>3, SlotBounds
  <2> HIDE DEF o
  <2>2. (o + writeOffset) % SectorSize = 0
    BY <1>3, <2>1, ModSum, Geometry
  <2>3. QED
    BY <1>4, <2>2 DEF o
<1>6. a < job.at => a \div SectorSize < job.at \div SectorSize
  BY <1>2, <1>3, <1>5, DivStrict, Geometry
<1>7. a \div SectorSize \in Nat /\ job.at \div SectorSize \in Nat
  BY <1>2, <1>3, DivMod, Geometry
<1>8. QED
  BY <1>1, <1>2, <1>3, <1>6, <1>7

(* verify() and the valid mark depend on the cells of the slot alone. *)
LEMMA VerifiedFrame ==
  ASSUME AnyUseInv, NEW s \in Slots, \A a \in Address : InSlot(s, a) => flash'[a] = flash[a]
  PROVE  /\ Verified(s)' <=> Verified(s)
         /\ MarkedValid(s)' <=> MarkedValid(s)
<1> DEFINE o == SlotOffset[s]
<1>1. o \in Nat
  BY SlotBounds
<1>2. CASE ~Readable(o, 2)
  BY <1>2 DEF Verified, MarkedValid, HasHeader, Readable
<1>3. CASE Readable(o, 2)
  <2>1. o \in Address /\ o + 1 \in Address /\ InSlot(s, o) /\ InSlot(s, o + 1)
    <3> HIDE DEF o
    <3>1. o \in Address /\ o + 1 \in Address
      BY <1>1, <1>3, Geometry DEF Address, Readable
    <3>2. o <= o /\ o < o + SlotSize /\ o <= o + 1 /\ o + 1 < o + SlotSize
      BY <1>1, Geometry
    <3>3. QED
      BY <3>1, <3>2 DEF InSlot, o
  <2>2. Front(s)' = Front(s) /\ Back(s)' = Back(s)
    BY <2>1 DEF Front, Back
  <2>3. HasHeader(s)' <=> HasHeader(s)
    BY <2>2 DEF HasHeader, Front, Readable
  <2>4. Flags(s)' = Flags(s)
    BY <2>2 DEF Flags
  <2>5. MarkedValid(s)' <=> MarkedValid(s)
    BY <2>3, <2>4 DEF MarkedValid
  <2>6. CASE Front(s) \in HeaderFront /\ Readable(BodyAt(s), Front(s).size)
    <3> DEFINE z == Front(s).size
               b == BodyAt(s)
    <3>1. z \in Nat /\ z <= SlotSize - SectorSize
      BY <2>1, <2>6 DEF AnyUseInv, CellsSound, SoundCell, HeaderFront, MaxImage, kHeaderReserved,
                        Front
    <3>2. b = o + SectorSize /\ b + z <= TotalSize
      BY <2>6 DEF BodyAt, kHeaderReserved, Readable
    <3> HIDE DEF z, b, o
    <3>3. ASSUME NEW k \in 1 .. z PROVE b + k - 1 \in Address /\ o <= b + k - 1 /\ b + k - 1 < o + SlotSize
      BY <1>1, <3>1, <3>2, Geometry DEF Address
    <3>4. \A k \in 1 .. z : flash'[b + k - 1] = flash[b + k - 1]
      BY <3>3 DEF InSlot, o
    <3>5. Body(s)' = [k \in 1 .. z |-> flash'[b + k - 1]]
      BY <2>2 DEF Body, z, b, BodyAt, kHeaderReserved
    <3>6. Body(s) = [k \in 1 .. z |-> flash[b + k - 1]]
      BY DEF Body, z, b
    <3>7. Body(s)' = Body(s)
      BY <3>4, <3>5, <3>6
    <3>8. Verified(s)' <=> Verified(s)
      BY <2>2, <2>5, <3>7 DEF Verified, Readable, BodyAt
    <3>9. QED
      BY <2>5, <3>8
  <2>7. CASE ~(Front(s) \in HeaderFront /\ Readable(BodyAt(s), Front(s).size))
    <3>1. ~Verified(s)
      BY <2>7 DEF Verified, MarkedValid, HasHeader, Front
    <3>2. ~Verified(s)'
      BY <2>2, <2>7 DEF Verified, MarkedValid, HasHeader, Front, Readable, BodyAt
    <3>3. QED
      BY <2>5, <3>1, <3>2
  <2>8. QED
    BY <2>6, <2>7
<1>4. QED
  BY <1>2, <1>3

(* A flash operation for a cautious program leaves the other slot alone. *)
LEMMA OtherSlotKept ==
  ASSUME AnyUseInv, RoomLeft, EraseStep \/ ProgramStep, NEW s \in Slots, s # job.slot
  PROVE  /\ Verified(s)' <=> Verified(s)
         /\ MarkedValid(s)' <=> MarkedValid(s)
<1>1. job # NoJob /\ job.slot \in Slots
  BY FlashStep, JobFields DEF AnyUseInv
<1>2. ASSUME NEW a \in Address, InSlot(s, a) PROVE flash'[a] = flash[a]
  <2>1. a \in Nat
    BY Geometry DEF Address
  <2>2. ~InSlot(job.slot, a)
    BY <1>1, <1>2, <2>1, SlotsDisjoint
  <2>3. QED
    BY <2>2, OutsideUntouched
<1>3. QED
  BY <1>2, VerifiedFrame

(* Without a flash operation nothing changes for either slot. *)
LEMMA FlashSame ==
  ASSUME flash' = flash, NEW s \in Slots
  PROVE  /\ Verified(s)' <=> Verified(s)
         /\ MarkedValid(s)' <=> MarkedValid(s)
BY DEF Verified, MarkedValid, HasHeader, Flags, Body, Front, Back, BodyAt, Readable

(* A header that was written before a body that matches it verifies. *)
LEMMA HeaderVerifies ==
  ASSUME AnyUseInv, job # NoJob, job.op # "chunk", job.sectors = {}, job.done = Len(job.data),
         "valid" \in job.data[2].flags,
         Readable(BodyAt(job.slot), job.data[1].size),
         job.data[2].crc = [k \in 1 .. job.data[1].size |-> flash[BodyAt(job.slot) + k - 1]]
  PROVE  Verified(job.slot)
<1> DEFINE s == job.slot
           o == SlotOffset[s]
<1>1. s \in Slots /\ o \in Nat
  BY JobFields, SlotBounds DEF AnyUseInv
<1>2. /\ job.at = o /\ Len(job.data) = 2
      /\ job.data[1] \in HeaderFront /\ job.data[2] \in HeaderBack
  BY DEF AnyUseInv, JobSound, HeaderSound
<1>3. /\ job.at + Len(job.data) <= TotalSize
      /\ \A k \in 1 .. job.done : flash[job.at + k - 1] = job.data[k]
  BY DEF AnyUseInv, JobSound, WriteSound
<1> HIDE DEF o
<1>4. Readable(o, 2)
  BY <1>2, <1>3 DEF Readable
<1>5. flash[o] = job.data[1] /\ flash[o + 1] = job.data[2]
  <2>1. 1 \in 1 .. job.done /\ 2 \in 1 .. job.done /\ o + 1 - 1 = o /\ o + 2 - 1 = o + 1
    BY <1>1, <1>2
  <2>2. flash[o + 1 - 1] = job.data[1] /\ flash[o + 2 - 1] = job.data[2]
    BY <1>2, <1>3, <2>1
  <2>3. QED
    BY <2>1, <2>2
<1>6. Front(s) = job.data[1] /\ Back(s) = job.data[2]
  BY <1>5 DEF Front, Back, o
<1>7. Back(s) # Erased
  BY <1>2, <1>6, CellAssumption
<1>8. MarkedValid(s)
  BY <1>2, <1>4, <1>6, <1>7 DEF MarkedValid, HasHeader, Flags, Front, o
<1>9. QED
  BY <1>2, <1>6, <1>8 DEF Verified, Body

-----------------------------------------------------------------------------
(* The steps of a cautious program. *)

(* A new device. *)
LEMMA CautiousInit == Init => CautiousInv
BY FirmwareAssumption DEF Init, CautiousInv, RoomLeft, ActivationSound, RunningIntact, Slots

(* Steps after which the same slot runs, with the same contents. *)
LEMMA RunningSame ==
  ASSUME RunningIntact, UNCHANGED <<flash, bootPart, esp, up, activeSlot, activated>>
  PROVE  RunningIntact'
<1>1. /\ (Verified(0)' <=> Verified(0)) /\ (Verified(1)' <=> Verified(1))
      /\ MarkedValid(0)' <=> MarkedValid(0)
  BY FlashSame DEF Slots
<1>2. StartsWithA' <=> StartsWithA
  BY <1>1 DEF StartsWithA
<1>3. QED
  BY <1>1, <1>2 DEF RunningIntact

(* Nothing happens, or a call is refused. *)
LEMMA CautiousStutter ==
  ASSUME CautiousInv, UNCHANGED fwVars
  PROVE  CautiousInv'
<1>1. UNCHANGED <<flash, bootPart, esp, up, activeSlot, writing, writeOffset, fed,
                  writeImageSize, job, activated>>
  BY DEF fwVars, ramVars
<1>2. RoomLeft' /\ ActivationSound'
  BY <1>1 DEF CautiousInv, RoomLeft, ActivationSound, InactiveSlot, Readable, BodyAt
<1>3. QED
  BY <1>1, <1>2, RunningSame DEF CautiousInv

(* After a restart the slot activated last runs only if it is intact. *)
LEMMA CautiousPower ==
  ASSUME AnyUseInv, CautiousInv, InitCall \/ PowerCut
  PROVE  CautiousInv'
<1>1. /\ (Verified(0)' <=> Verified(0)) /\ (Verified(1)' <=> Verified(1))
      /\ MarkedValid(0)' <=> MarkedValid(0)
  BY FlashSame DEF Slots, InitCall, PowerCut
<1>2. (Verified(0) => MarkedValid(0)) /\ (Verified(1) => MarkedValid(1))
  BY DEF Verified
<1>3. CASE InitCall
  <2>1. job = NoJob /\ job' = NoJob
    BY <1>3 DEF AnyUseInv, JobSound, WriteSound, InitCall
  <2>2. RoomLeft' /\ ActivationSound'
    BY <1>3, <2>1 DEF CautiousInv, RoomLeft, ActivationSound, InitCall
  <2>3. ~up /\ activeSlot' = BootSlot /\ UNCHANGED <<bootPart, esp, activated>>
    BY <1>3 DEF InitCall
  <2>4. StartsWithA' <=> StartsWithA
    BY <1>1, <2>3 DEF StartsWithA
  <2>5. StartsWithA => BootSlot = 0
    BY DEF StartsWithA, BootSlot
  <2>6. Verified(1) /\ ~StartsWithA => BootSlot = 1
    BY <1>2 DEF StartsWithA, BootSlot
  <2>7. Verified(0) /\ (esp => bootPart = 0) => BootSlot = 0
    BY <1>2 DEF BootSlot
  <2>8. RunningIntact'
    BY <1>1, <2>3, <2>4, <2>5, <2>6, <2>7 DEF CautiousInv, RunningIntact
  <2>9. QED
    BY <2>2, <2>8 DEF CautiousInv
<1>4. CASE PowerCut
  <2>1. ~up' /\ ~writing' /\ job' = NoJob /\ UNCHANGED <<bootPart, esp, activated>>
    BY <1>4 DEF PowerCut
  <2>2. StartsWithA' <=> StartsWithA
    BY <1>1, <2>1 DEF StartsWithA
  <2>3. RunningIntact'
    BY <1>1, <2>1, <2>2 DEF CautiousInv, RunningIntact
  <2>4. QED
    BY <2>1, <2>3 DEF CautiousInv, RoomLeft, ActivationSound
<1>5. QED
  BY <1>3, <1>4

(* beginWrite(). *)
LEMMA CautiousBegin ==
  ASSUME CautiousInv, NEW n \in Sizes, BeginWrite(n)
  PROVE  CautiousInv'
<1>1. job' = NoJob /\ Len(fed') = 0 /\ writeImageSize' = n /\ n \in Nat
      /\ UNCHANGED <<flash, bootPart, esp, up, activeSlot, activated>>
  BY Geometry DEF BeginWrite, Idle
<1>2. RoomLeft' /\ ActivationSound'
  BY <1>1 DEF RoomLeft, ActivationSound
<1>3. QED
  BY <1>1, <1>2, RunningSame DEF CautiousInv

(* writeChunk() goes to the inactive slot and keeps to the size. *)
LEMMA CautiousChunk ==
  ASSUME Cautious, AnyUseInv, CautiousInv, NEW data \in Chunks, WriteChunk(data)
  PROVE  CautiousInv'
<1>1. UNCHANGED <<flash, bootPart, esp, up, activeSlot, writing, fed, writeImageSize, activated>>
  BY DEF WriteChunk, ramVars
<1>2. job'.op = "chunk" /\ job'.slot = InactiveSlot /\ job'.data = data
  BY DEF WriteChunk, StartWrite
<1>5. Len(fed) + Len(data) <= writeImageSize
  BY DEF WriteChunk, Documented, Cautious
<1>6. RoomLeft'
  BY <1>1, <1>2, <1>5 DEF CautiousInv, RoomLeft, InactiveSlot
<1>7. ActivationSound'
  BY <1>2 DEF ActivationSound
<1>8. QED
  BY <1>1, <1>6, <1>7, RunningSame DEF CautiousInv

(* finalizeWrite() goes to the inactive slot. *)
LEMMA CautiousFinalize ==
  ASSUME CautiousInv, FinalizeWrite
  PROVE  CautiousInv'
<1>1. UNCHANGED <<flash, bootPart, esp, up, activeSlot, fed, writeImageSize, activated>>
      /\ writing /\ job = NoJob
  BY DEF FinalizeWrite, Idle
<1>2. \/ job' = NoJob
      \/ job'.op = "finalize" /\ job'.slot = InactiveSlot
  <2>1. CASE Readable(SlotOffset[InactiveSlot], 2)
    <3>1. StartWrite("finalize", InactiveSlot, SlotOffset[InactiveSlot],
                     HeaderCells(writeImageSize, fed, {"valid"}))
      BY <2>1 DEF FinalizeWrite
    <3>2. QED
      BY <3>1 DEF StartWrite
  <2>2. CASE ~Readable(SlotOffset[InactiveSlot], 2)
    BY <2>2 DEF FinalizeWrite, Idle
  <2>3. QED
    BY <2>1, <2>2
<1>3. RoomLeft'
  <2>1. Len(fed) <= writeImageSize /\ InactiveSlot' = InactiveSlot
    BY <1>1 DEF CautiousInv, RoomLeft, InactiveSlot
  <2>2. QED
    BY <1>1, <1>2, <2>1 DEF RoomLeft
<1>5. ActivationSound'
  BY <1>2 DEF ActivationSound
<1>4. QED
  BY <1>1, <1>3, <1>5, RunningSame DEF CautiousInv

(* activateSlot() rewrites a header that it has found to match the body. *)
LEMMA CautiousActivate ==
  ASSUME Cautious, AnyUseInv, CautiousInv, NEW s \in Slots, ActivateSlot(s)
  PROVE  CautiousInv'
<1> DEFINE h == HeaderCells(Front(s).size, Back(s).crc, Back(s).flags \cup {"bootable"})
<1>1. UNCHANGED <<flash, esp, up, writing, writeOffset, fed, writeImageSize>>
      /\ up /\ job = NoJob /\ Verified(s) /\ ~writing /\ s = InactiveSlot
  BY DEF ActivateSlot, Idle, Cautious
<1>2. CASE MaySetBootPartition(s) /\ bootPart' = s /\ activeSlot' = s /\ activated' = s
           /\ UNCHANGED job
  <2>1. s = 0 /\ Verified(0)'
    BY <1>1, <1>2, FlashSame DEF MaySetBootPartition
  <2>2. RunningIntact'
    BY <1>2, <2>1 DEF RunningIntact
  <2>3. RoomLeft' /\ ActivationSound'
    BY <1>1, <1>2 DEF RoomLeft, ActivationSound
  <2>4. QED
    BY <2>2, <2>3 DEF CautiousInv
<1>3. CASE (MaySetBootPartition(s) => "iofail" \in Usage)
           /\ StartWrite("activate", s, SlotOffset[s], h)
           /\ UNCHANGED <<bootPart, activeSlot, activated>>
  <2>1. s = 0 => ~esp
    BY <1>3 DEF Cautious, MaySetBootPartition
  <2>2. job'.op = "activate" /\ job'.slot = s /\ job'.data = h
    BY <1>3 DEF StartWrite
  <2>3. h[1].size = Front(s).size /\ h[2].crc = Back(s).crc
        /\ h[2].flags = Back(s).flags \cup {"bootable"}
    BY DEF HeaderCells
  <2> HIDE DEF h
  <2>4. "valid" \in Back(s).flags /\ Readable(BodyAt(s), Front(s).size) /\ Back(s).crc = Body(s)
    BY <1>1, CellAssumption DEF Verified, MarkedValid, Flags
  <2>5. Body(s) = [k \in 1 .. Front(s).size |-> flash'[BodyAt(s) + k - 1]]
    BY <1>1 DEF Body
  <2>6. ActivationSound'
    BY <1>1, <2>1, <2>2, <2>3, <2>4, <2>5 DEF ActivationSound, Readable, BodyAt
  <2>7. RoomLeft'
    BY <1>1, <1>3, <2>2 DEF CautiousInv, RoomLeft, InactiveSlot
  <2>8. QED
    BY <1>1, <1>3, <2>6, <2>7, RunningSame DEF CautiousInv
<1>4. QED
  BY <1>2, <1>3 DEF ActivateSlot

(* A flash operation stays away from the running slot, and from the body   *)
(* of the slot that is being activated.                                    *)
LEMMA CautiousFlash ==
  ASSUME AnyUseInv, CautiousInv, EraseStep \/ ProgramStep
  PROVE  CautiousInv'
<1>1. UNCHANGED <<bootPart, esp, up, activeSlot, writing, fed, writeImageSize, activated>>
  BY DEF EraseStep, ProgramStep, ramVars
<1>2. /\ job # NoJob /\ job' # NoJob
      /\ job'.op = job.op /\ job'.slot = job.slot /\ job'.data = job.data
  BY FlashStep
<1>3. RoomLeft /\ up /\ job.slot = InactiveSlot /\ activeSlot \in Slots
  BY <1>2 DEF AnyUseInv, TypeOK, CautiousInv, RoomLeft, JobSound, WriteSound
<1>4. RoomLeft'
  BY <1>1, <1>2, <1>3 DEF RoomLeft, InactiveSlot
<1>5. ActivationSound'
  <2> SUFFICES ASSUME job.op = "activate" PROVE ActivationSound'
    BY <1>2 DEF ActivationSound
  <2> DEFINE z == job.data[1].size
             b == BodyAt(job.slot)
  <2>1. ActivationSound /\ job.slot \in Slots
    BY <1>2, JobFields DEF CautiousInv, AnyUseInv
  <2>2. z \in Nat /\ b \in Nat /\ b + z <= TotalSize
    <3>1. job.data[1] \in HeaderFront
      BY <1>2 DEF AnyUseInv, JobSound, HeaderSound
    <3>2. z \in Nat
      BY <3>1 DEF HeaderFront
    <3>3. b \in Nat
      BY <2>1, SlotBounds, Geometry DEF BodyAt, kHeaderReserved
    <3>4. QED
      BY <1>2, <2>1, <3>2, <3>3 DEF ActivationSound, Readable
  <2> HIDE DEF z, b
  <2>3. ASSUME NEW k \in 1 .. z PROVE flash'[b + k - 1] = flash[b + k - 1]
    <3>1. b + k - 1 \in Address /\ ~(b + k - 1 < b)
      BY <2>2, Geometry DEF Address
    <3>2. QED
      BY <3>1, BodyUntouched DEF b
  <2>4. [k \in 1 .. z |-> flash'[b + k - 1]] = [k \in 1 .. z |-> flash[b + k - 1]]
    BY <2>3
  <2>5. job.data[2].crc = [k \in 1 .. z |-> flash'[b + k - 1]]
    BY <1>2, <2>1, <2>4 DEF ActivationSound, z, b
  <2>6. QED
    BY <1>1, <1>2, <2>1, <2>5 DEF ActivationSound, Readable, BodyAt, z, b
<1>6. RunningIntact'
  <2>1. CASE activeSlot = 0
    <3>1. (Verified(0)' <=> Verified(0)) /\ (MarkedValid(0)' <=> MarkedValid(0))
      BY <1>3, <2>1, OtherSlotKept DEF InactiveSlot, Slots, AnyUseInv
    <3>2. StartsWithA' <=> StartsWithA
      BY <1>1, <3>1 DEF StartsWithA
    <3>3. QED
      BY <1>1, <1>3, <2>1, <3>1, <3>2 DEF CautiousInv, RunningIntact
  <2>2. CASE activeSlot = 1
    <3>1. Verified(1)' <=> Verified(1)
      BY <1>3, <2>2, OtherSlotKept DEF InactiveSlot, Slots, AnyUseInv
    <3>2. QED
      BY <1>1, <1>3, <2>2, <3>1 DEF CautiousInv, RunningIntact
  <2>3. QED
    BY <1>3, <2>1, <2>2 DEF Slots
<1>7. QED
  BY <1>4, <1>5, <1>6 DEF CautiousInv

(* write() has returned: what is activated verifies. *)
LEMMA CautiousReturn ==
  ASSUME AnyUseInv, CautiousInv, WriteReturn
  PROVE  CautiousInv'
<1>1. /\ job # NoJob /\ job.sectors = {} /\ job.done = Len(job.data) /\ Resume(TRUE)
  BY DEF WriteReturn
<1>2. /\ job' = NoJob /\ UNCHANGED <<flash, bootPart, esp, up, writeImageSize>>
      /\ writing' = (writing /\ job.op # "finalize")
  BY <1>1 DEF Resume
<1>3. RoomLeft'
  <2>1. CASE job.op = "chunk"
    <3>1. fed' = fed \o job.data /\ fed \in Seq(Images) /\ job.data \in Seq(Cell)
      BY <1>1, <2>1, JobFields DEF Resume, AnyUseInv, TypeOK
    <3>2. Len(fed') = Len(fed) + Len(job.data)
      BY <3>1
    <3>3. QED
      BY <1>1, <1>2, <2>1, <3>2 DEF CautiousInv, RoomLeft
  <2>2. CASE job.op # "chunk"
    BY <1>1, <1>2, <2>2 DEF CautiousInv, RoomLeft, Resume
  <2>3. QED
    BY <2>1, <2>2
<1>4. ActivationSound'
  BY <1>2 DEF ActivationSound
<1>5. RunningIntact'
  <2>1. CASE job.op = "activate"
    <3>1. ActivationSound
      BY DEF CautiousInv
    <3>2. Verified(job.slot) /\ job.slot \in Slots /\ (job.slot = 0 => ~esp)
      BY <1>1, <2>1, <3>1, HeaderVerifies, JobFields DEF ActivationSound, AnyUseInv
    <3>3. activeSlot' = job.slot /\ activated' = job.slot
      BY <1>1, <2>1 DEF Resume
    <3>4. Verified(job.slot) => (job.slot = 0 => Verified(0)') /\ (job.slot = 1 => Verified(1)')
      BY <1>2, FlashSame DEF Slots
    <3>5. QED
      BY <1>2, <3>2, <3>3, <3>4 DEF RunningIntact, Slots
  <2>2. CASE job.op # "activate"
    <3>1. UNCHANGED <<activeSlot, activated>>
      BY <1>1, <2>2 DEF Resume
    <3>2. QED
      BY <1>2, <3>1, RunningSame DEF CautiousInv
  <2>3. QED
    BY <2>1, <2>2
<1>6. QED
  BY <1>3, <1>4, <1>5 DEF CautiousInv

(* Every step of a cautious program. *)
LEMMA CautiousStep ==
  ASSUME Cautious, AnyUseInv, CautiousInv, [Next]_fwVars
  PROVE  CautiousInv'
<1>1. CASE InitCall
  BY <1>1, CautiousPower
<1>2. CASE PowerCut
  BY <1>2, CautiousPower
<1>3. CASE \E n \in Sizes : BeginWrite(n)
  BY <1>3, CautiousBegin
<1>4. CASE \E n \in Sizes : BeginWriteRefused(n)
  BY <1>4, CautiousStutter DEF BeginWriteRefused
<1>5. CASE \E d \in Chunks : WriteChunk(d) \/ WriteChunkRefused(Len(d))
  BY <1>5, CautiousChunk, CautiousStutter DEF WriteChunkRefused
<1>6. CASE FinalizeWrite
  BY <1>6, CautiousFinalize
<1>7. CASE \E s \in Slots : ActivateSlot(s) \/ ActivateRefused(s)
  BY <1>7, CautiousActivate, CautiousStutter DEF ActivateRefused
<1>8. CASE EraseStep \/ ProgramStep
  BY <1>8, CautiousFlash
<1>9. CASE WriteReturn
  BY <1>9, CautiousReturn
<1>10. CASE WriteFails
  BY <1>10 DEF WriteFails, Cautious
<1>11. CASE UNCHANGED fwVars
  BY <1>11, CautiousStutter
<1>12. QED
  BY <1>1, <1>2, <1>3, <1>4, <1>5, <1>6, <1>7, <1>8, <1>9, <1>10, <1>11 DEF Next

-----------------------------------------------------------------------------
(* What was accepted is in the slot, if chunks begin on sectors. *)

(* Where the accepted cells are. *)
LEMMA FedAddress ==
  ASSUME AnyUseInv, Delivered, writing, NEW k \in 1 .. Len(fed)
  PROVE  /\ BodyAt(InactiveSlot) + k - 1 \in Address
         /\ BodyAt(InactiveSlot) <= BodyAt(InactiveSlot) + k - 1
         /\ BodyAt(InactiveSlot) + k - 1 < WriteAt
<1> DEFINE o == SlotOffset[InactiveSlot]
           m == Len(fed)
<1>1. InactiveSlot \in Slots /\ fed \in Seq(Images)
  BY DEF AnyUseInv, TypeOK, InactiveSlot, Slots
<1>2. o \in Nat /\ m \in Nat /\ fed # <<>>
  BY <1>1, SlotBounds
<1>3. WriteAt = o + (SectorSize + m) /\ BodyAt(InactiveSlot) = o + SectorSize /\ WriteAt <= TotalSize
  BY <1>2 DEF AnyUseInv, FeedSound, WriteAt, BodyAt, kHeaderReserved, Delivered
<1> HIDE DEF o, m
<1>4. k \in 1 .. m
  BY DEF m
<1>5. QED
  BY <1>2, <1>3, <1>4, Geometry DEF Address

(* A new device. *)
LEMMA DeliveredInit == Init => Delivered
BY DEF Init, Delivered

(* Steps that do not change what was accepted, where it is, or the job. *)
LEMMA DeliveredSame ==
  ASSUME Delivered,
         UNCHANGED <<flash, activeSlot, writeOffset, fed>>,
         writing' => writing,
         job' = NoJob \/ job'.op # "chunk" \/ job' = job \/ writeOffset % SectorSize = 0
  PROVE  Delivered'
<1>1. InactiveSlot' = InactiveSlot /\ WriteAt' = WriteAt
      /\ BodyAt(InactiveSlot)' = BodyAt(InactiveSlot)
  BY DEF InactiveSlot, WriteAt, BodyAt
<1>2. QED
  BY <1>1 DEF Delivered

(* A flash operation leaves alone what was accepted. *)
LEMMA DeliveredFlash ==
  ASSUME AnyUseInv, CautiousInv, Delivered, EraseStep \/ ProgramStep
  PROVE  Delivered'
<1>1. UNCHANGED <<activeSlot, writing, writeOffset, fed>>
  BY DEF EraseStep, ProgramStep, ramVars
<1>2. job # NoJob /\ job' # NoJob /\ job'.op = job.op
  BY FlashStep
<1>3. InactiveSlot' = InactiveSlot /\ WriteAt' = WriteAt
      /\ BodyAt(InactiveSlot)' = BodyAt(InactiveSlot)
  BY <1>1 DEF InactiveSlot, WriteAt, BodyAt
<1>4. ASSUME writing, NEW k \in 1 .. Len(fed)
      PROVE  flash'[BodyAt(InactiveSlot) + k - 1] = flash[BodyAt(InactiveSlot) + k - 1]
  <2> DEFINE a == BodyAt(InactiveSlot) + k - 1
  <2>1. a \in Address /\ BodyAt(InactiveSlot) <= a /\ a < WriteAt
    BY <1>4, FedAddress
  <2>2. job.slot = InactiveSlot
    BY <1>2 DEF CautiousInv, RoomLeft
  <2>3. InactiveSlot \in Slots /\ BodyAt(InactiveSlot) \in Nat /\ a \in Nat /\ WriteAt \in Nat
    <3>1. InactiveSlot \in Slots /\ writeOffset \in Nat
      BY Geometry DEF AnyUseInv, TypeOK, InactiveSlot, Slots
    <3>2. SlotOffset[InactiveSlot] \in Nat
      BY <3>1, SlotBounds
    <3>3. BodyAt(InactiveSlot) \in Nat /\ WriteAt \in Nat
      BY <3>1, <3>2, Geometry DEF BodyAt, WriteAt, kHeaderReserved
    <3>4. QED
      BY <2>1, <3>1, <3>3, Geometry DEF Address
  <2> HIDE DEF a
  <2>4. CASE job.op = "chunk"
    <3>1. job.at = WriteAt /\ writeOffset % SectorSize = 0
      BY <1>2, <2>4 DEF AnyUseInv, JobSound, ChunkSound, Delivered
    <3>2. ~(job.at <= a)
      BY <2>1, <2>3, <3>1
    <3>3. flash'[a] = flash[a]
      BY <2>1, <2>4, <3>1, <3>2, EarlierUntouched
    <3>4. QED
      BY <3>3 DEF a
  <2>5. CASE job.op # "chunk"
    <3>1. ~(a < BodyAt(job.slot))
      BY <2>1, <2>2, <2>3
    <3>2. flash'[a] = flash[a]
      BY <2>1, <2>5, <3>1, BodyUntouched
    <3>3. QED
      BY <3>2 DEF a
  <2>6. QED
    BY <2>4, <2>5
<1>5. QED
  BY <1>1, <1>2, <1>3, <1>4 DEF Delivered

(* write() has returned: the chunk is where the accepted cells end. *)
LEMMA DeliveredReturn ==
  ASSUME AnyUseInv, CautiousInv, Delivered, WriteReturn
  PROVE  Delivered'
<1>1. /\ job # NoJob /\ job.sectors = {} /\ job.done = Len(job.data) /\ Resume(TRUE)
  BY DEF WriteReturn
<1>2. /\ job' = NoJob /\ UNCHANGED flash
      /\ writing' = (writing /\ job.op # "finalize")
  BY <1>1 DEF Resume
<1>3. CASE job.op = "chunk"
  <2> DEFINE o == SlotOffset[InactiveSlot]
             m == Len(fed)
             l == Len(job.data)
             b == BodyAt(InactiveSlot)
  <2>1. fed' = fed \o job.data /\ writeOffset' = writeOffset + l /\ activeSlot' = activeSlot
    BY <1>1, <1>3 DEF Resume
  <2>2. writing /\ job.at = WriteAt /\ writeOffset = kHeaderReserved + m
    BY <1>1, <1>3 DEF AnyUseInv, JobSound, ChunkSound, FeedSound
  <2>3. /\ job.at + l <= TotalSize
        /\ \A k \in 1 .. l : flash[job.at + k - 1] = job.data[k]
    BY <1>1 DEF AnyUseInv, JobSound, WriteSound
  <2>4. /\ InactiveSlot \in Slots /\ fed \in Seq(Images) /\ job.data \in Seq(Cell)
        /\ l \in Nat /\ m \in Nat /\ writeOffset \in Nat
    BY <1>1, JobFields, Geometry DEF AnyUseInv, TypeOK, InactiveSlot, Slots
  <2>5. o \in Nat
    BY <2>4, SlotBounds
  <2>6. job.at = o + (SectorSize + m) /\ b = o + SectorSize
    BY <2>2 DEF WriteAt, kHeaderReserved, BodyAt
  <2>7. InactiveSlot' = InactiveSlot /\ BodyAt(InactiveSlot)' = b /\ WriteAt' = o + (writeOffset + l)
    BY <2>1 DEF InactiveSlot, BodyAt, WriteAt
  <2>8. Len(fed') = m + l /\ \A k \in 1 .. m + l :
          fed'[k] = IF k <= m THEN fed[k] ELSE job.data[k - m]
    BY <2>1, <2>4
  <2>9. \A k \in 1 .. m : flash[b + k - 1] = fed[k]
    BY <2>2 DEF Delivered
  <2>10. job.at = o + writeOffset
    BY <2>2 DEF WriteAt
  <2> HIDE DEF o, m, l, b
  <2>11. WriteAt' <= TotalSize
    BY <2>3, <2>4, <2>5, <2>7, <2>10, Geometry
  <2>12. ASSUME NEW k \in 1 .. m + l PROVE flash[b + k - 1] = fed'[k]
    <3>1. CASE k <= m
      <4>1. k \in 1 .. m
        BY <2>4, <3>1
      <4>2. QED
        BY <2>8, <2>9, <3>1, <4>1
    <3>2. CASE ~(k <= m)
      <4>1. k - m \in 1 .. l /\ b + k - 1 = job.at + (k - m) - 1
        BY <2>4, <2>5, <2>6, <3>2, Geometry
      <4>2. flash[job.at + (k - m) - 1] = job.data[k - m]
        BY <2>3, <4>1
      <4>3. fed'[k] = job.data[k - m]
        BY <2>8, <3>2
      <4>4. QED
        BY <4>1, <4>2, <4>3
    <3>3. QED
      BY <3>1, <3>2
  <2>13. QED
    BY <1>2, <2>7, <2>8, <2>11, <2>12 DEF Delivered, b
<1>4. CASE job.op # "chunk"
  <2>1. UNCHANGED <<fed, writeOffset>> /\ (writing' => writing)
    BY <1>1, <1>2, <1>4 DEF Resume
  <2>2. CASE job.op = "activate"
    <3>1. ~writing'
      BY <1>1, <1>2, <2>2 DEF CautiousInv, ActivationSound
    <3>2. QED
      BY <1>2, <3>1 DEF Delivered
  <2>3. CASE job.op # "activate"
    <3>1. UNCHANGED activeSlot
      BY <1>1, <2>3 DEF Resume
    <3>2. QED
      BY <1>2, <2>1, <3>1, DeliveredSame
  <2>4. QED
    BY <2>2, <2>3
<1>5. QED
  BY <1>3, <1>4

(* Every step of a program that keeps to sectors. *)
LEMMA DeliveredStep ==
  ASSUME ByTheBook, AnyUseInv, CautiousInv, Delivered, [Next]_fwVars
  PROVE  Delivered'
<1>1. CASE InitCall
  <2>1. job = NoJob /\ ~writing
    BY <1>1 DEF InitCall, AnyUseInv, FeedSound, JobSound, WriteSound
  <2>2. QED
    BY <1>1, <2>1 DEF InitCall, Delivered
<1>2. CASE PowerCut
  BY <1>2 DEF PowerCut, Delivered
<1>3. CASE \E n \in Sizes : BeginWrite(n)
  <2>1. fed' = <<>> /\ job' = NoJob
    BY <1>3 DEF BeginWrite, Idle
  <2>2. (\A k \in 1 .. Len(fed) : flash[BodyAt(InactiveSlot) + k - 1] = fed[k])'
    BY <2>1
  <2>3. QED
    BY <2>1, <2>2 DEF Delivered
<1>4. CASE \E n \in Sizes : BeginWriteRefused(n)
  BY <1>4, DeliveredSame DEF BeginWriteRefused, fwVars, ramVars
<1>5. CASE \E d \in Chunks : WriteChunk(d) \/ WriteChunkRefused(Len(d))
  <2>1. PICK d \in Chunks : WriteChunk(d) \/ WriteChunkRefused(Len(d))
    BY <1>5
  <2>2. CASE WriteChunk(d)
    <3>1. UNCHANGED <<flash, activeSlot, writing, writeOffset, fed>>
      BY <2>2 DEF WriteChunk, ramVars
    <3>2. writeOffset % SectorSize = 0
      BY <2>2 DEF WriteChunk, Documented, ByTheBook
    <3>3. QED
      BY <3>1, <3>2, DeliveredSame
  <2>3. CASE WriteChunkRefused(Len(d))
    BY <2>3, DeliveredSame DEF WriteChunkRefused, fwVars, ramVars
  <2>4. QED
    BY <2>1, <2>2, <2>3
<1>6. CASE FinalizeWrite
  <2>1. UNCHANGED <<flash, activeSlot, writeOffset, fed>> /\ writing /\ job = NoJob
    BY <1>6 DEF FinalizeWrite, Idle
  <2>2. job' = job \/ job'.op = "finalize"
    <3>1. CASE Readable(SlotOffset[InactiveSlot], 2)
      <4>1. StartWrite("finalize", InactiveSlot, SlotOffset[InactiveSlot],
                       HeaderCells(writeImageSize, fed, {"valid"}))
        BY <1>6, <3>1 DEF FinalizeWrite
      <4>2. QED
        BY <4>1 DEF StartWrite
    <3>2. CASE ~Readable(SlotOffset[InactiveSlot], 2)
      BY <1>6, <3>2 DEF FinalizeWrite
    <3>3. QED
      BY <3>1, <3>2
  <2>3. QED
    BY <2>1, <2>2, DeliveredSame
<1>7. CASE \E s \in Slots : ActivateSlot(s) \/ ActivateRefused(s)
  <2>1. PICK s \in Slots : ActivateSlot(s) \/ ActivateRefused(s)
    BY <1>7
  <2>2. CASE ActivateSlot(s)
    <3>1. ~writing' /\ (job' = NoJob \/ job'.op = "activate")
      BY <2>2 DEF ActivateSlot, Idle, ByTheBook, StartWrite
    <3>2. QED
      BY <3>1 DEF Delivered
  <2>3. CASE ActivateRefused(s)
    BY <2>3, DeliveredSame DEF ActivateRefused, fwVars, ramVars
  <2>4. QED
    BY <2>1, <2>2, <2>3
<1>8. CASE EraseStep \/ ProgramStep
  BY <1>8, DeliveredFlash
<1>9. CASE WriteReturn
  BY <1>9, DeliveredReturn
<1>10. CASE WriteFails
  BY <1>10 DEF WriteFails, ByTheBook
<1>11. CASE UNCHANGED fwVars
  BY <1>11, DeliveredSame DEF fwVars, ramVars
<1>12. QED
  BY <1>1, <1>2, <1>3, <1>4, <1>5, <1>6, <1>7, <1>8, <1>9, <1>10, <1>11 DEF Next

-----------------------------------------------------------------------------
(* The theorems. *)

(* The inductive invariant holds in every reachable state: its parts for   *)
(* any use, for a cautious program and for chunks that begin on sectors.   *)
THEOREM Invariance == Spec => []IInv
<1>1. Init => IInv
  BY AnyUseInit, CautiousInit, DeliveredInit DEF IInv
<1>2. IInv /\ [Next]_fwVars => IInv'
  <2> SUFFICES ASSUME IInv, [Next]_fwVars PROVE IInv'
    OBVIOUS
  <2>1. AnyUseInv'
    BY AnyUseStep DEF IInv
  <2>2. Cautious => CautiousInv'
    BY CautiousStep DEF IInv
  <2>3. ByTheBook => Delivered'
    BY DeliveredStep DEF IInv, ByTheBook, Cautious
  <2>4. QED
    BY <2>1, <2>2, <2>3 DEF IInv, Cautious, ByTheBook
<1>3. QED
  BY <1>1, <1>2, PTL DEF Spec

(* The state of firmware_cache.cpp stays within its types: writeOffset_    *)
(* never leaves the flash, no accepted image is larger than the body of a  *)
(* slot, and what write() is asked to do lies within the flash.            *)
THEOREM TypeCorrect == Spec => []TypeOK
<1>1. IInv => TypeOK
  BY DEF IInv, AnyUseInv
<1>2. QED
  BY <1>1, Invariance, PTL

(* Whatever the program does with the interface, whichever chunks it       *)
(* passes, wherever the power is cut and whichever flash operation fails:  *)
(* a slot that verify() accepts holds, cell for cell, the chunks that were *)
(* accepted in the update that gave the slot its header.                   *)
THEOREM VerifiedImageIsDelivered == Spec => []VerifiedIsDelivered
<1>1. IInv => VerifiedIsDelivered
  BY DeliveredIfVerified DEF IInv
<1>2. QED
  BY <1>1, Invariance, PTL

(* For a cautious program, on either build: whenever control is with the   *)
(* program, the slot that was activated and runs passes verify(), whatever *)
(* updates were begun, cut off or finished since.                          *)
THEOREM ActiveSlotStaysIntact ==
  ASSUME Cautious PROVE Spec => []ActiveSlotIntact
<1>1. IInv => ActiveSlotIntact
  <2> SUFFICES ASSUME IInv, Idle, activated = activeSlot PROVE Verified(activeSlot)
    BY DEF ActiveSlotIntact
  <2>1. RunningIntact /\ activeSlot \in Slots /\ up
    BY DEF IInv, AnyUseInv, TypeOK, CautiousInv, Idle
  <2>2. CASE activeSlot = 0
    BY <2>1, <2>2 DEF RunningIntact
  <2>3. CASE activeSlot = 1
    BY <2>1, <2>3 DEF RunningIntact
  <2>4. QED
    BY <2>1, <2>2, <2>3 DEF Slots
<1>2. QED
  BY <1>1, Invariance, PTL

(* If every chunk begins on a sector, an image that was accepted as a      *)
(* whole is found intact by the verify() at the end of finalizeWrite().    *)
THEOREM CompleteImagesVerify ==
  ASSUME ByTheBook PROVE Spec => CompleteImageVerifies
<1> DEFINE Ends == job # NoJob /\ job.op = "finalize" /\ job' = NoJob /\ up'
                   /\ Len(fed) = writeImageSize
<1>1. IInv /\ [Next]_fwVars => [Ends => Verified(job.slot)]_fwVars
  <2> SUFFICES ASSUME IInv, [Next]_fwVars, Ends PROVE Verified(job.slot)
    OBVIOUS
  <2>0. AnyUseInv /\ Delivered /\ up
    BY DEF IInv, AnyUseInv, JobSound, WriteSound
  <2>1. WriteReturn
    <3>1. ~(EraseStep \/ ProgramStep)
      BY <2>0, FlashStep
    <3>2. ~WriteFails
      BY DEF WriteFails, ByTheBook
    <3>3. ~Idle /\ ~InitCall /\ ~PowerCut /\ ~UNCHANGED fwVars
      BY <2>0 DEF Idle, InitCall, PowerCut, fwVars
    <3>4. QED
      BY <3>1, <3>2, <3>3 DEF Next, BeginWrite, BeginWriteRefused, WriteChunk, WriteChunkRefused,
                              FinalizeWrite, ActivateSlot, ActivateRefused
  <2> DEFINE s == InactiveSlot
             o == SlotOffset[s]
             m == Len(fed)
  <2>2. /\ job.sectors = {} /\ job.done = Len(job.data)
    BY <2>1 DEF WriteReturn
  <2>3. /\ writing /\ job.slot = s /\ job.data[1].size = writeImageSize
        /\ job.data[2].crc = fed /\ job.data[2].flags = {"valid"}
        /\ job.at = o /\ Len(job.data) = 2 /\ job.at + Len(job.data) <= TotalSize
    BY <2>0 DEF AnyUseInv, JobSound, WriteSound, FinalizeSound, HeaderSound
  <2>4. s \in Slots /\ fed \in Seq(Images) /\ m \in Nat
    BY <2>0 DEF AnyUseInv, TypeOK, InactiveSlot, Slots
  <2>5. o \in Nat /\ o % SectorSize = 0
    BY <2>4, SlotBounds
  <2>6. BodyAt(s) = o + SectorSize /\ WriteAt = o + (SectorSize + m)
    BY <2>0, <2>3 DEF AnyUseInv, FeedSound, WriteAt, BodyAt, kHeaderReserved
  <2>7. BodyAt(s) + m <= TotalSize
    <3>1. CASE fed = <<>>
      <4>1. m = 0
        BY <3>1
      <4> HIDE DEF o, m
      <4>2. o < TotalSize
        BY <2>3, <2>5, Geometry
      <4>3. o + SectorSize <= TotalSize
        BY <2>5, <4>2, AlignedGap, Geometry, FirmwareAssumption
      <4>4. QED
        BY <2>5, <2>6, <4>1, <4>3, Geometry
    <3>2. CASE fed # <<>>
      <4>1. WriteAt <= TotalSize
        BY <2>0, <2>3, <3>2 DEF Delivered
      <4> HIDE DEF o, m
      <4>2. QED
        BY <2>4, <2>5, <2>6, <4>1, Geometry
    <3>3. QED
      BY <3>1, <3>2
  <2>8. \A k \in 1 .. m : fed[k] = flash[BodyAt(s) + k - 1]
    BY <2>0, <2>3 DEF Delivered
  <2>9. fed = [k \in 1 .. m |-> flash[BodyAt(s) + k - 1]]
    BY <2>4, <2>8
  <2>10. Readable(BodyAt(job.slot), job.data[1].size)
    BY <2>3, <2>7 DEF Readable
  <2>11. job.data[2].crc = [k \in 1 .. job.data[1].size |-> flash[BodyAt(job.slot) + k - 1]]
    BY <2>3, <2>9
  <2>12. "valid" \in job.data[2].flags
    BY <2>3
  <2>13. QED
    BY <2>0, <2>2, <2>10, <2>11, <2>12, HeaderVerifies
<1>2. QED
  BY <1>1, Invariance, PTL DEF Spec, CompleteImageVerifies

(* For a cautious program the cache implements the slot store: only the    *)
(* inactive slot changes its contents, only a slot that verify() accepts   *)
(* becomes active while the device is up, and after a power cut, wherever  *)
(* it came, the active slot is the one that ESP-IDF or the headers name.   *)
THEOREM StoreIsImplemented ==
  ASSUME Cautious PROVE Spec => ImplementsStore
<1> DEFINE V == {s \in Slots : Verified(s)}
           M == {s \in Slots : MarkedValid(s)}
           B == IF esp THEN IF bootPart = 0 THEN 0 ELSE 1 ELSE NoSlot
<1>1. Init => Store!SSInit
  <2> SUFFICES ASSUME Init PROVE Store!SSInit
    OBVIOUS
  <2>1. ASSUME NEW s \in Slots, MarkedValid(s) PROVE FALSE
    <3>1. SlotOffset[s] \in Nat /\ SlotOffset[s] + 2 <= TotalSize
          /\ flash[SlotOffset[s]] \in HeaderFront
      BY <2>1, SlotBounds DEF MarkedValid, HasHeader, Readable
    <3>2. SlotOffset[s] \in Address
      BY <3>1, Geometry DEF Address
    <3>3. flash[SlotOffset[s]] = Erased
      BY <3>2 DEF Init
    <3>4. QED
      BY <3>1, <3>3, PlainCell
  <2>2. V = {} /\ M = {}
    BY <2>1 DEF Verified
  <2>3. B # 0
    BY FirmwareAssumption DEF Init, Slots
  <2>4. QED
    BY <2>2, <2>3 DEF Init, Store!SSInit
<1>2. IInv /\ [Next]_fwVars => [Store!SSNext]_(Store!ssVars)
  <2> SUFFICES ASSUME IInv, [Next]_fwVars PROVE [Store!SSNext]_(Store!ssVars)
    OBVIOUS
  <2>0. /\ AnyUseInv /\ CautiousInv /\ AnyUseInv'
        /\ activeSlot \in Slots /\ activeSlot' \in Slots
    BY AnyUseStep DEF IInv, AnyUseInv, TypeOK
  <2>1. flash' = flash => V' = V /\ M' = M
    BY FlashSame
  <2>a. UNCHANGED <<esp, bootPart>> => B' = B
    OBVIOUS
  <2>2. CASE InitCall
    <3>1. V' = V /\ M' = M /\ B' = B /\ writing' = writing /\ ~up /\ up' = TRUE
          /\ activeSlot' = BootSlot
      BY <2>1, <2>2, <2>a DEF InitCall
    <3>2. Store!StartSlot = BootSlot
      <4>1. esp => B = BootSlot /\ B \in {0, 1}
        BY DEF BootSlot
      <4>2. ~esp => B \notin {0, 1}
        BY FirmwareAssumption DEF Slots
      <4>3. M = {1} <=> ~MarkedValid(0) /\ MarkedValid(1)
        BY DEF Slots
      <4>4. ~esp => BootSlot = IF M = {1} THEN 1 ELSE 0
        BY <4>3 DEF BootSlot
      <4>5. QED
        BY <4>1, <4>2, <4>4 DEF Store!StartSlot, Store!Slots
    <3>3. QED
      BY <3>1, <3>2 DEF Store!SSNext, Store!Restart
  <2>b. CASE PowerCut
    <3>1. V' = V /\ M' = M /\ B' = B /\ writing' = FALSE /\ up /\ up' = FALSE /\ activeSlot' = 0
      BY <2>1, <2>a, <2>b DEF PowerCut
    <3>2. QED
      BY <3>1 DEF Store!SSNext, Store!PowerCut
  <2>3. CASE \E n \in Sizes : BeginWrite(n)
    <3>1. V' = V /\ M' = M /\ B' = B /\ writing' = TRUE /\ activeSlot' = activeSlot /\ up /\ up' = up
      BY <2>1, <2>3, <2>a DEF BeginWrite, Idle
    <3>2. QED
      BY <3>1 DEF Store!SSNext, Store!BeginWrite
  <2>4. CASE UNCHANGED <<flash, bootPart, esp, up, activeSlot, writing>>
    <3>1. V' = V /\ M' = M /\ B' = B
      BY <2>1, <2>4, <2>a
    <3>2. QED
      BY <2>4, <3>1 DEF Store!ssVars
  <2>5. CASE FinalizeWrite
    <3>1. V' = V /\ M' = M /\ B' = B /\ writing /\ writing' \in {writing, FALSE}
          /\ activeSlot' = activeSlot /\ up /\ up' = up
      BY <2>1, <2>5, <2>a DEF FinalizeWrite, Idle
    <3>2. QED
      BY <3>1 DEF Store!SSNext, Store!EndWrite, Store!ssVars
  <2>6. CASE \E s \in Slots : ActivateSlot(s)
    <3>1. PICK s \in Slots : ActivateSlot(s)
      BY <2>6
    <3>2. V' = V /\ M' = M /\ s \in V /\ writing' = writing /\ up /\ up' = up /\ esp' = esp
      BY <2>1, <3>1 DEF ActivateSlot, Idle
    <3>3. CASE UNCHANGED <<bootPart, activeSlot>>
      BY <2>a, <3>2, <3>3 DEF Store!ssVars
    <3>4. CASE MaySetBootPartition(s) /\ bootPart' = s /\ activeSlot' = s
      <4>1. B' = s /\ B \in {0, 1}
        BY <3>2, <3>4 DEF MaySetBootPartition
      <4>2. QED
        BY <3>2, <3>4, <4>1 DEF Store!SSNext, Store!ActivateSlot, Store!Slots, Slots
    <3>5. QED
      BY <3>1, <3>3, <3>4 DEF ActivateSlot
  <2>7. CASE EraseStep \/ ProgramStep
    <3>1. activeSlot' = activeSlot /\ writing' = writing /\ up' = up /\ UNCHANGED <<esp, bootPart>>
      BY <2>7 DEF EraseStep, ProgramStep, ramVars
    <3>2. job # NoJob /\ RoomLeft /\ up
      BY <2>0, <2>7, FlashStep DEF CautiousInv, AnyUseInv, JobSound, WriteSound
    <3>3. job.slot = InactiveSlot
      BY <3>2 DEF RoomLeft
    <3>4. Store!InactiveSlot = InactiveSlot /\ InactiveSlot # activeSlot
          /\ Slots = {activeSlot, InactiveSlot}
      BY <2>0 DEF Store!InactiveSlot, InactiveSlot, Slots
    <3>5. \A s \in Slots : s # InactiveSlot =>
            (Verified(s)' <=> Verified(s)) /\ (MarkedValid(s)' <=> MarkedValid(s))
      BY <2>0, <2>7, <3>2, <3>3, OtherSlotKept
    <3>6. (activeSlot \in V' <=> activeSlot \in V) /\ (activeSlot \in M' <=> activeSlot \in M)
      BY <2>0, <3>1, <3>4, <3>5
    <3>7. V' \in {V \cup {InactiveSlot}, V \ {InactiveSlot}}
      BY <3>4, <3>6
    <3>9. M' \in {M \cup {InactiveSlot}, M \ {InactiveSlot}}
      BY <3>4, <3>6
    <3>8. QED
      BY <2>a, <3>1, <3>2, <3>4, <3>7, <3>9 DEF Store!SSNext, Store!Alter
  <2>8. CASE WriteReturn
    <3>1. job # NoJob /\ Resume(TRUE) /\ job.sectors = {} /\ job.done = Len(job.data)
      BY <2>8 DEF WriteReturn
    <3>2. /\ V' = V /\ M' = M /\ B' = B /\ up' = up /\ up
          /\ writing' = (writing /\ job.op # "finalize") /\ job.slot \in Slots
      BY <2>0, <2>1, <2>a, <3>1, JobFields DEF Resume, AnyUseInv, JobSound, WriteSound
    <3>3. CASE job.op = "activate"
      <4>1. ActivationSound
        BY <2>0 DEF CautiousInv
      <4>2. job.slot \in V
        BY <2>0, <3>1, <3>2, <3>3, <4>1, HeaderVerifies DEF ActivationSound
      <4>3. activeSlot' = job.slot /\ ~writing
        BY <3>1, <3>3, <4>1 DEF Resume, ActivationSound
      <4>4. writing' = writing
        BY <2>0, <3>2, <3>3, <4>3 DEF AnyUseInv, TypeOK
      <4>5. QED
        BY <3>2, <4>2, <4>3, <4>4 DEF Store!SSNext, Store!ActivateSlot, Store!Slots, Slots
    <3>4. CASE job.op = "finalize"
      <4>1. writing /\ writing' = FALSE /\ activeSlot' = activeSlot
        BY <2>0, <3>1, <3>2, <3>4 DEF AnyUseInv, JobSound, FinalizeSound, Resume
      <4>2. QED
        BY <3>2, <4>1 DEF Store!SSNext, Store!EndWrite
    <3>5. CASE job.op = "chunk"
      <4>1. activeSlot' = activeSlot /\ writing' = writing
        BY <2>0, <3>1, <3>2, <3>5 DEF AnyUseInv, TypeOK, Resume
      <4>2. QED
        BY <3>2, <4>1 DEF Store!ssVars
    <3>6. job.op \in {"chunk", "finalize", "activate"}
      BY <2>0, <3>1, JobFields DEF AnyUseInv
    <3>7. QED
      BY <3>3, <3>4, <3>5, <3>6
  <2>9. CASE WriteFails
    BY <2>9 DEF WriteFails, Cautious
  <2>10. CASE UNCHANGED fwVars
    BY <2>4, <2>10 DEF fwVars, ramVars
  <2>11. CASE \E d \in Chunks : WriteChunk(d)
    BY <2>4, <2>11 DEF WriteChunk, ramVars
  <2>12. QED
    BY <2>2, <2>b, <2>3, <2>5, <2>6, <2>7, <2>8, <2>9, <2>10, <2>11
       DEF Next, BeginWriteRefused, WriteChunkRefused, ActivateRefused
<1>3. QED
  BY <1>1, <1>2, Invariance, PTL DEF Spec, ImplementsStore, Store!SSSpec

=============================================================================
