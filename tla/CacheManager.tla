----------------------------- MODULE CacheManager -----------------------------
(***************************************************************************)
(* The write-back cache of kernel/src/cache_manager.cpp over the flash of  *)
(* StorageManager, and its one client in the repository, TelemetryService  *)
(* (services/src/telemetry_service.cpp).                                   *)
(*                                                                         *)
(* A cache belongs to one owner: an application that reads and writes at   *)
(* any address, or TelemetryService.  read() and flush() take the byte     *)
(* count that StorageManager returns for an error: after a miss the line   *)
(* is loaded but read() fails, and flush() gives up after the first dirty  *)
(* line, which stays dirty, whether it was written or not.  Of lastAccess  *)
(* only the order of the entries is kept.                                  *)
(***************************************************************************)
EXTENDS Naturals, FiniteSets, SequencesExt

CONSTANTS
  Values,       \* what is written: data of an application, telemetry records
  Erased,       \* an erased cell
  Free,         \* history: not written through the line it is cached in
  Data,         \* what the application passes to write()
  Offsets,      \* the addresses it uses
  Owners,       \* a subset of {"app", "telemetry"}
  kMaxLines,
  lineSize,     \* in cells; a telemetry record takes one
  SectorSize,   \* in cells
  TotalSize,    \* of the flash backend, in cells
  kMaxRecords,
  uploadInterval,
  WordSize      \* the clock counts modulo WordSize (2^32)

ASSUME CacheAssumption ==
  /\ {kMaxLines, lineSize, SectorSize, TotalSize, kMaxRecords} \subseteq Nat \ {0}
  /\ {uploadInterval, WordSize} \subseteq Nat
  /\ SectorSize % lineSize = 0 /\ TotalSize % lineSize = 0
  /\ uploadInterval < WordSize
  /\ Data \subseteq Seq(Values) \ {<<>>}
  /\ Offsets \subseteq 0 .. TotalSize - 1
  /\ Owners \subseteq {"app", "telemetry"}

VARIABLES
  owner,
  cache,        \* the entries, their lines in the pool, and, in recent, the
                \* entries that were found again, from the oldest access on
  flash,
  mine,         \* history: what was written through the line now caching it
  buffer,       \* TelemetryService: buffer_ up to recordCount_
  flushPending,
  lastUpload,
  now,          \* the clock
  down,         \* shutdown() of TelemetryService was called: no more ticks
  failed        \* history: the flash failed when the last batch was flushed

cacheVars == <<owner, cache, flash, mine, buffer, flushPending, lastUpload, now,
               down, failed>>

Index   == 1 .. kMaxLines
Address == 0 .. TotalSize - 1
Cell    == 0 .. lineSize - 1
Key(a)  == a \div lineSize

(* The address of cell n in the line that caches a. *)
LineAddress(a, n) == Key(a) * lineSize + n

LineCells(k) == {a \in Address : Key(a) = k}

(* The cells that a transfer of len cells at a reaches: it is cut off at   *)
(* the end of the line.                                                    *)
Covered(a, len) == {b \in LineCells(Key(a)) : b >= a /\ b < a + len}

CacheEntry == [key : Nat, dirty : BOOLEAN, valid : BOOLEAN]

EmptyEntry == [key |-> 0, dirty |-> FALSE, valid |-> FALSE]

(* The members of CacheManager. *)
CacheState ==
  [entries : [Index -> CacheEntry], entryCount : 0 .. kMaxLines, recent : Seq(Index),
   pool : [Index -> [Cell -> Values \cup {Erased}]]]

EmptyCache ==
  [entries |-> [i \in Index |-> EmptyEntry], entryCount |-> 0, recent |-> <<>>,
   pool |-> [i \in Index |-> [c \in Cell |-> Erased]]]

CacheInit ==
  /\ owner \in Owners
  /\ cache = EmptyCache
  /\ flash = [a \in Address |-> Erased]
  /\ mine = [a \in Address |-> Free]
  /\ buffer = <<>>
  /\ flushPending = FALSE
  /\ lastUpload = 0
  /\ now = 0
  /\ down = FALSE
  /\ failed = FALSE

-----------------------------------------------------------------------------
(* The lines of a cache c. *)

InUse(c) == 1 .. c.entryCount

First(S) == CHOOSE i \in S : \A j \in S : i <= j

(* The entries that findLine() looks for. *)
Cached(c, k) == {i \in InUse(c) : c.entries[i].valid /\ c.entries[i].key = k}

Dirty(c) == {i \in InUse(c) : c.entries[i].valid /\ c.entries[i].dirty}

(* partitionErase() and partitionWrite() *)
SectorErased(fl, n) == [a \in Address |-> IF a \div SectorSize = n THEN Erased ELSE fl[a]]

(* The first n cells of a line are programmed. *)
Programmed(fl, k, line, n) ==
  [a \in Address |-> IF Key(a) = k /\ a % lineSize < n THEN line[a % lineSize] ELSE fl[a]]

(* The flash when StorageManager::write() has come to cell n of the line   *)
(* of entry i: the whole sector is erased first.                           *)
Stored(c, i, fl, n) ==
  LET k == c.entries[i].key
  IN Programmed(SectorErased(fl, (k * lineSize) \div SectorSize), k, c.pool[i], n)

NothingFlushed(c, fl) == fl

(* The flash after flush(). *)
Flushed(c, fl) == IF Dirty(c) = {} THEN fl ELSE Stored(c, First(Dirty(c)), fl, lineSize)

(* The flash after a flush() whose erase or program operation fails. *)
Spoiled(c, fl) ==
  IF Dirty(c) = {} THEN {}
  ELSE {fl} \cup {Stored(c, First(Dirty(c)), fl, n) : n \in 0 .. lineSize - 1}

Attempted(c, fl) == {Flushed(c, fl)} \cup Spoiled(c, fl)

(* allocateLine() takes the next entry, and then the one used longest ago: *)
(* lastAccess of a line that was never found again is 0.                   *)
Victim(c) ==
  LET unused == {i \in Index : ~Contains(c.recent, i)}
  IN IF c.entryCount < kMaxLines THEN c.entryCount + 1
     ELSE IF unused # {} THEN First(unused) ELSE Head(c.recent)

Evicts(c) == Victim(c) \in Dirty(c)

(* findLine() *)
Found(c, a) == First(Cached(c, Key(a)))

HitButLast(c, a) == Cached(c, Key(a)) \ {c.entryCount} # {}

Hit(c, a) == Cached(c, Key(a)) # {}

Touched(c, a) == [c EXCEPT !.recent = Append(RemoveFirst(@, Found(c, a)), Found(c, a))]

Allocated(c, a) ==
  [c EXCEPT !.entryCount = IF @ < kMaxLines THEN @ + 1 ELSE @,
            !.recent = RemoveFirst(@, Victim(c)),
            !.entries[Victim(c)] = [key |-> Key(a), dirty |-> FALSE, valid |-> TRUE]]

(* The flash when allocateLine() has made room: it does not look how       *)
(* flush() went.                                                           *)
Evicted(c, fl) == IF Evicts(c) THEN Attempted(c, fl) ELSE {fl}

LineFor(c, a) == IF Hit(c, a) THEN Found(c, a) ELSE Victim(c)

(* partitionRead() of the line *)
Load(c, i, a, fl) ==
  [c EXCEPT !.pool[i] = [n \in Cell |-> fl[LineAddress(a, n)]]]

(* memcpy() into a line. *)
Overlaid(line, a, data) ==
  [n \in Cell |-> LET b == LineAddress(a, n)
                  IN IF b \in Covered(a, Len(data)) THEN data[b - a + 1] ELSE line[n]]

(* A write that misses does not load the line: the cells beside it keep    *)
(* what the pool held before.                                              *)
Put(c, i, a, data) ==
  [c EXCEPT !.entries[i].dirty = TRUE, !.pool[i] = Overlaid(@, a, data)]

(* write() *)
Written(c, a, data) ==
  Put(IF Hit(c, a) THEN Touched(c, a) ELSE Allocated(c, a), LineFor(c, a), a, data)

FlashAfter(c, a, fl) == IF Hit(c, a) THEN {fl} ELSE Evicted(c, fl)

(* What the lines hold for their clients once a is in the cache. *)
Kept(c, a) ==
  [b \in Address |->
     IF ~Hit(c, a) /\ Victim(c) \in InUse(c) /\ Key(b) = c.entries[Victim(c)].key
       THEN Free ELSE mine[b]]

Remembered(c, a, data) ==
  [b \in Address |-> IF b \in Covered(a, Len(data)) THEN data[b - a + 1] ELSE Kept(c, a)[b]]

-----------------------------------------------------------------------------
(* An application and its cache. *)

App ==
  /\ owner = "app"
  /\ UNCHANGED <<owner, buffer, flushPending, lastUpload, now, down, failed>>

(* read(): a miss loads the line and fails all the same.  Errors of        *)
(* partitionRead() are left out.                                           *)
Read(a) ==
  /\ App
  /\ flash' \in FlashAfter(cache, a, flash)
  /\ cache' = IF Hit(cache, a) THEN Touched(cache, a)
              ELSE Load(Allocated(cache, a), Victim(cache), a, flash')
  /\ mine' = Kept(cache, a)

Write(a, data) ==
  /\ App
  /\ cache' = Written(cache, a, data)
  /\ flash' \in FlashAfter(cache, a, flash)
  /\ mine' = Remembered(cache, a, data)

Flush ==
  /\ App
  /\ flash' \in Attempted(cache, flash)
  /\ UNCHANGED <<cache, mine>>

Invalidate ==
  /\ App
  /\ cache' = [cache EXCEPT !.entryCount = 0, !.recent = <<>>,
                 !.entries = [i \in Index |->
                   IF i \in InUse(cache) THEN [@[i] EXCEPT !.valid = FALSE, !.dirty = FALSE]
                   ELSE @[i]]]
  /\ mine' = [a \in Address |-> Free]
  /\ UNCHANGED flash

-----------------------------------------------------------------------------
(* TelemetryService. *)

Telemetry ==
  /\ owner = "telemetry"
  /\ UNCHANGED owner

(* A full buffer drops the record.  Timers and callbacks may still call    *)
(* record() after the shutdown.                                            *)
Record(v) ==
  /\ Telemetry
  /\ buffer' = IF Len(buffer) < kMaxRecords THEN Append(buffer, v) ELSE buffer
  /\ flushPending' = TRUE
  /\ UNCHANGED <<cache, flash, mine, lastUpload, now, down, failed>>

(* flushToFlash(): every batch goes to the beginning of the storage, and   *)
(* leaves the buffer whether it gets there or not.                         *)
FlushToFlash ==
  /\ IF buffer = <<>> THEN UNCHANGED <<cache, flash, mine, failed>>
     ELSE /\ cache' = Written(cache, 0, buffer)
          /\ \E fl \in FlashAfter(cache, 0, flash) :
               \/ flash' = Flushed(cache', fl) /\ failed' = FALSE
               \/ flash' \in Spoiled(cache', fl) /\ failed' = TRUE
          /\ mine' = Remembered(cache, 0, buffer)
  /\ buffer' = <<>>

ElapsedNoWrap == IF now >= lastUpload THEN now - lastUpload ELSE 0

Elapsed == (now + WordSize - lastUpload) % WordSize

(* tick(), called in a takt only while hasWork(), and never again once the *)
(* module was shut down.                                                   *)
TelemetryTick ==
  /\ Telemetry
  /\ ~down
  /\ flushPending
  /\ Elapsed >= uploadInterval
  /\ FlushToFlash
  /\ flushPending' = FALSE
  /\ lastUpload' = now
  /\ UNCHANGED <<now, down>>

TelemetryShutdown ==
  /\ Telemetry
  /\ FlushToFlash
  /\ down' = TRUE
  /\ UNCHANGED <<flushPending, lastUpload, now>>

Clock ==
  /\ Telemetry
  /\ now' = (now + 1) % WordSize
  /\ UNCHANGED <<cache, flash, mine, buffer, flushPending, lastUpload, down, failed>>

CacheNext ==
  \/ \E a \in Offsets : Read(a)
  \/ \E a \in Offsets, d \in Data : Write(a, d)
  \/ Flush
  \/ Invalidate
  \/ \E v \in Values : Record(v)
  \/ TelemetryTick
  \/ TelemetryShutdown
  \/ Clock

(* The takt loop ticks many times while the upload is due, unless the      *)
(* module was shut down.                                                   *)
CacheSpec ==
  /\ CacheInit /\ [][CacheNext]_cacheVars
  /\ SF_cacheVars(TelemetryTick) /\ WF_cacheVars(Clock)

-----------------------------------------------------------------------------
CacheTypeOK ==
  /\ owner \in Owners
  /\ cache \in CacheState
  /\ flash \in [Address -> Values \cup {Erased}]
  /\ mine \in [Address -> Values \cup {Free}]
  /\ buffer \in Seq(Values) /\ Len(buffer) <= kMaxRecords
  /\ {flushPending, down, failed} \subseteq BOOLEAN
  /\ {lastUpload, now} \subseteq 0 .. WordSize - 1

(* A piece of flash is cached in one line at most. *)
OneLinePerKey == \A k \in {Key(a) : a \in Address} : Cardinality(Cached(cache, k)) <= 1

(* What was written through a line is still there, and marked for flush(), *)
(* as long as the line is cached: no other access disturbs it.             *)
WritesStay ==
  \A a \in Address : mine[a] # Free =>
    \E i \in Cached(cache, Key(a)) :
      cache.entries[i].dirty /\ cache.pool[i][a % lineSize] = mine[a]

(* The cache through evictions and invalidations; with the types.          *)
CacheConsistent == CacheTypeOK /\ OneLinePerKey /\ WritesStay

(* When a batch leaves the buffer, its records, as many as a line holds,   *)
(* are in a dirty line that the next flush() tries again, and they are in  *)
(* flash unless the flash has failed.                                      *)
BatchStored ==
  [][buffer # <<>> /\ buffer' = <<>> =>
       \A n \in 1 .. Len(buffer) : n <= lineSize =>
         /\ \E i \in Cached(cache', 0) :
              cache'.entries[i].dirty /\ cache'.pool[i][n - 1] = buffer[n]
         /\ ~failed' => flash'[n - 1] = buffer[n]]_cacheVars

(* A record does not stay in RAM: the next upload takes it, also when the  *)
(* clock turns over in between, or the shutdown does.  (Records made after *)
(* the shutdown stay.)                                                     *)
RecordsLeave == (flushPending /\ ~down) ~> buffer = <<>>

=============================================================================
