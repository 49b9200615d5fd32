# TLA+ verification of Takt-OS

Takt-OS is a cooperative kernel for microcontrollers (ESP32, and a host build
for tests). One thread runs the *takt loop*: every period it advances the
timers, delivers queued events and calls `tick()` of every module. Around it
are the persistent parts: a dual-bank firmware store, a key/value store with a
backup, a boot loader, over-the-air updates and a recovery mode.

This directory holds specifications of the core of that system, the TLC
instances that check them, and proofs checked by TLAPS. All definitions are
translated from the C++ sources; `PROJECT.json` maps each one to its lines.

## 1. The system and its parts

| Part | State | Operations | Where | Model |
|---|---|---|---|---|
| EventBus | subscription slots, their count, ring of deferred events | subscribe, unsubscribe, publish, enqueue, dispatchQueued, dispatch | `kernel/src/event_bus.cpp` | `EventBus`, `EventQueue` |
| Timer, TimerManager | Timer objects, pool of pointers to them, their count | construct, destroy, move, setInterval, setRepeat, start, stop, reset, onTimeout; tick | `kernel/src/timer.cpp` | `TimerManager` |
| Scheduler, Kernel | module table, states, running and shutdown flags | registerModule, unregisterModule, boot, initAll, run, runTakt, requestShutdown | `kernel/src/scheduler.cpp`, `kernel/src/kernel.cpp` | `Scheduler` |
| StorageManager | flash | read, write (erase, then program) | `kernel/src/storage_manager.cpp` | inside `FirmwareCache` |
| FirmwareCache | two slots with headers, active slot, update under way | init, beginWrite, writeChunk, finalizeWrite, verify, activateSlot, rollback | `kernel/src/firmware_cache.cpp` | `FirmwareCache` |
| NvsManager | two namespaces of blobs with CRC records | init, set, remove, eraseAll, verifyIntegrity, backup, restoreFromBackup | `kernel/src/nvs_manager.cpp` | `NvsManager` |
| CacheManager | lines with dirty flags, access counter | read, write, flush, invalidate | `kernel/src/cache_manager.cpp` | `CacheManager` |
| TelemetryService | buffer of records, time of the last upload | record, tick, flushToFlash, shutdown | `services/src/telemetry_service.cpp` | `CacheManager` |
| Bootloader | boot configuration in RTC memory, boot counter | entry, determineBootMode, markBootSuccessful, requestOtaBoot | `takt_boot/src/bootloader.cpp` | `Bootloader`, `Update` |
| RecoveryManager, its transports, OtaService | phase of a transfer, HTTP server | startDfuListener, receiveChunk, finalizeDfu, rollback, abort, run; startUpdate, feedChunk, completeUpdate, rollback, shutdown | `recovery/src`, `services/src/ota_service.cpp` | `Update`, `SlotStore` |
| WiFiModule, MqttModule | connection flags, pending reconnect, pending message | init, tick, connect, publish, subscribe, shutdown, handlers of ESP-IDF events | `middleware/src` | `Connectivity` |
| Relay, sensor, Modbus, script engine, ConfigManager, ModbusGateway | pending request each, instruction ring, configuration buffer | setRelay, writeCoil, enqueueInstruction, applyRemoteConfig, tick, shutdown | `middleware/src`, `services/src` | `Controller` |
| UART, BLE, web server, SDK, Lite kernel, Diagnostics, Logger, drivers | wrappers, statistics, input and output | | `middleware`, `sdk`, `lite`, `kernel/src`, `drivers` | not modelled |

**Interactions.** `Kernel::boot()` starts NvsManager, backs it up, publishes
SystemBoot and has the scheduler initialise the modules. `runTakt()` calls
`TimerManager::tick()`, then `EventBus::dispatchQueued()`, then the modules.
Timers, event callbacks and modules call back into all of these interfaces.
FirmwareCache and CacheManager write through StorageManager; OtaService and
RecoveryManager use FirmwareCache and leave a note to the boot loader, which
decides at the next start what is run. The modules of a program meet on the
event bus: `tick()` of one publishes, and a callback makes a request of another.

**What is hard.**

* *Re-entrancy.* The kernel is meant for one thread, but the three loops of the kernel
  (`dispatch()`, `TimerManager::tick()`, `runTakt()` and `initAll()`) walk live
  arrays that the callbacks they invoke may change. This is where interleavings
  arise, and every model makes the position of the loop part of the state.
* *Raw pointers.* The timer pool points to objects that their users own.
* *Power cuts and flash errors.* Flash writes are an erase and a program
  operation per sector; NVS entries are two blobs; the backup is a loop.
* *Other tasks after all.* The event task of ESP-IDF and the task of the MQTT
  client call `tick()` of their modules directly, without a lock.
* *Two keepers of one fact.* OtaService, RecoveryManager, FirmwareCache and the
  boot loader each remember how far an update is; a restart, an abort or a
  failure changes some of these memories and not the others.
* *State that an outer frame overwrites.* The scheduler and the timer assign
  their state after the callback has returned, whatever it did.

`PROJECT.json` lists each hazard at its line with the properties aimed at it.

## 2. Modules

### EventBus, EventQueue

`subscriptions`, `subscriberCount`, `queue`, `queueHead`, `queueTail` and
`queueCount` are the members of the class. `frames` is the call stack of
`dispatch()`: for each activation the event, the loop variable, whether a
callback is executing, and `owed`, a history field with the subscribers that
were there when the activation began, still are, and have not been invoked.
`draining` says that the outermost frame belongs to `dispatchQueued()`.

A call of the interface is an action of its own (`Subscribe`, `Unsubscribe`,
`Publish`, `Enqueue`, `DispatchQueued`, and the refusals). It may be made by the
main program, when the stack is empty, or by a callback at any depth. The code's
own steps are `Dequeue`, `Invoke`, `CallbackReturn`, `DispatchReturn` and
`DrainEnd`.

`EventQueue` is what the deferred side promises: a bounded first-in first-out
queue, one delivery at a time. `EventBus` refines it under the mapping `Pending`
(the cells of the ring from head, `count` of them) and `Delivering` (the event
of the outermost frame of a drain).

Abstraction: of an event's data only one parameter is kept; a callback is
present or null.

### TimerManager

`timers` and `activeCount` are the pool; `obj` are the Timer objects by the
storage they live in, with `alive` for "exists". The walk `tick()` is
`TickBegin`, one `SkipSlot` or `TickSlot` per entry, `CallbackReturn` and
`TickEnd`; user code runs between walks and inside callbacks (`firing`). The
counter is unsigned modulo `WordSize`, and a moved-from `std::function` is taken
to be empty, as in the libraries the project is built with.

`usage`, chosen at the start from the constant `Usages`, names what the program
does with its timers beyond creating and using them: `"destroy"`, `"rearm"` (a
second `onTimeout()`) and `"move"`. The history
variables `age`, `present` and `ticks` serve the properties; a timer leaves
`present` when it is destroyed or moved into while it owns a pool entry. Destroying the
timer whose callback is executing is undefined in C++ and left out, and so is a
tick through a dangling pointer, which `NoDangling` is about.

### Scheduler

`modules` is the used part of the table, `cursor` the loop variable and `loc`
the place of control: in the program, in callbacks of boot, in `initAll()`, in a
module's `init()`, at the start of a takt, in the loop of `runTakt()` or in a
`tick()`. Wherever control is with code outside the kernel it may register and
deregister modules or request the shutdown. `init()` may fail; a background
module may have work or not. `down`, `downInOwn`, `initDone`, `due` and
`ticks` are history. Time measurement, statistics and logging are left out, and
`shutdown()` of a module and callbacks of SystemShutdown make no kernel calls.

### FirmwareCache

`flash` is an array of cells. `job` is the `StorageManager::write()` under way:
`EraseStep` erases one sector, `ProgramStep` programs one cell, `WriteReturn`
lets the caller go on, `WriteFails` does so with an error; `PowerCut` may come
between any two. `esp` selects the build: on the ESP32 the running partition is
known to ESP-IDF (`bootPart`), on the host it is guessed from the headers. A
header occupies two cells, so that a torn one exists, and an erased cell has
every flag set. A CRC is the sequence of the cells it covers: collisions are
left out, and bytes that no header left match no CRC. A chunk is whatever the
caller passes, any member of `Chunks`: of this image or another, once more or too
late. `Usage` names what a sender does with their sizes and with the interface
beyond the documented flow. `session` and `delivered` are history: the chunks
accepted since the last `beginWrite()`, and those of the update that gave a slot
its header. Errors of `partitionRead()` are left out.

`SlotStore` is what FirmwareCache promises its callers: only the inactive slot
changes; while the device is up only a slot that passes `verify()` is activated;
and a restart, which only follows a power loss, takes the slot that ESP-IDF starts
(`boot`) or, where nobody tells, the first one whose header is marked valid.
`ImplementsStore` maps `valid` and `marked` to the slots that verify and to those
with the valid flag in flash.

### NvsManager

The ESP32 build. `data` and `meta` are the two blobs of each entry in the main
namespace, `bakData` and `bakMeta` those of the backup. One `nvs_set_blob` or
`nvs_erase_key` is atomic and durable (external: ESP-IDF); writes, removals,
backup and restore are sequences of them, and `PowerCut` may come between any
two. NVS may refuse a blob, because it is full (`Refuse`) or because the name of
the record is too long (`tooLong`); the code ignores that everywhere, and the
operation goes on and reports success. `init()` may find NVS unusable and erase
it (`BootErase`), or fail (`BootWithout`); then, and after `eraseAll()`, which
leaves NVS without initialisation, every call fails until the next start
(`"closed"`). `BitFlip` damages the data of an entry in a way that ESP-IDF's own
checks let pass. `stored`, `saved`, `backed`, `damaged` and `missed` are history:
what completed operations have left in the two namespaces, and what a refusal or
a flip has spoilt. The host build is a map in memory without backup and is not modelled.

### CacheManager (with TelemetryService)

`cache` holds the entries, their lines of the pool and the order of their last
accesses. A cache has one owner, an application or TelemetryService. The two
calls that take StorageManager's byte count for an error code are modelled as
they are: a read that misses loads the line and fails, and `flush()` writes the
first dirty line and leaves it dirty. An erase or program operation of the flash
may fail at any cell (`Spoiled`): nobody above `StorageManager::write()` looks at
that. `mine` is history: what was written through the line that caches it now.
Telemetry adds the buffer, the flag and a clock that wraps; after its shutdown
(`down`) it is not ticked any more, but records may still be made. `failed` is
history: the flash failed under the last batch.

### Bootloader, Update

`Bootloader` is the decision of `entry()` over the configuration in RTC memory
(`rtc`), which survives a reset and is lost with the power; `bootCount` counts
modulo 256. The recovery partition (`recovery`) is usable, holds an image that
ESP-IDF refuses, or is missing: `enterRecovery()` starts it, restarts the boot
loader, or returns. `Update` extends it to a device: the programs that the boot loader
starts (`phase`), OtaService in the running application, RecoveryManager under
it and in the recovery program, the HTTP server of the WiFi transport, and the
slots as `SlotStore` describes them, so that the flash is not modelled twice:
`firmware_update` shows that FirmwareCache implements `SlotStore`, and `Update`
is built on it. `Crash` and `PowerCut` may come at any time. `held`,
`entries` and `abandoned` (a refused rollback has ended the update) are history. The transports do not call their data handler yet; the
handler is an action (`ReceiveChunk`). Progress counters are left out.

### Connectivity

WiFiModule and MqttModule with the three tasks that run their code. `wpc` and
`mpc` say where each task is in `tick()` and `publish()`; a step is the code
between two accesses to shared members. The access point may be lost `MaxDrops`
times, before or after the first connection. `overlap` records that two tasks
have been in MqttModule at the same time. Subscriptions are not followed: they
change no member of the modules. The data race on a single flag is
taken to read the old or the new value.

### Controller

Relay, sensor, Modbus, gateway, script engine and ConfigManager in the takt
loop. `running` is the module whose `tick()` is at its `publish()`: there, and
between ticks, the program makes its requests or shuts the system down.
`Programs` are the sets of calls that a program makes. Of a configuration `Fits`
settings are within the buffer of 511 bytes; the one after them is gone or has a
part of its value (`Cut`). NvsManager may fail to store a setting, which nobody
looks at. `sent` is the last Modbus frame. `halted` (the modules shut down from
outside their own `tick()`), `wanted`, `asked`, `waiting`, `latest`, `torn` and
`lost` (settings that were not stored) are history.

## 3. Runs

All bounds are in the `.cfg` files. Passing runs take seconds to three minutes.

| Run | Instance | Checks |
|---|---|---|
| `bus_events` | 3 slots, 2 events, ring of 2, 2 callback calls, fairness | `TypeOK`; `CountExact`: the count equals the active slots; `NobodyPassedOver` and `ServedBeforeReturn`: no standing subscriber is skipped by any activation, however callbacks nest and change the slots; `RingConsistent`; `ImplementsQueue`: the ring refines the FIFO queue; `DrainEnds`: the drain returns |
| `timers_programs` | 2 timers, pool of 2, interval 3, period 2, modulus 6, both kinds of program, fairness | `PoolConsistent`: types, exact count, entries known to their timers; `NoDangling`; `TickedOnce` per walk; `NeverEarly`; `TimerFires` (all but the count and "at least once" for programs that register once and never move) |
| `scheduler_takts` | 3 table entries, one static and one background module, fairness | `TypeOK`; `LoopSound`: only initialised modules are ticked and none in Error is in the loop; `OthersStayDown`; `TickedOncePerTakt`; `ReadyModuleTicks` |
| `firmware_update` | host, slots of 3 sectors of 2 cells, chunks of 2 contents, a size that fits and one that does not, power cuts | `TypeOK`; `ActiveSlotIntact`: updates, complete or cut off, never harm the active slot; `CompleteImageVerifies`; `ImplementsStore`: what changes, what is activated and what a restart finds is as in `SlotStore` |
| `firmware_any_use` | ESP32 build, slots of 2 sectors of 2 cells, every use, chunks of 2 contents, power cuts and flash errors | `VerifiedIsDelivered`: what passes `verify()` is what one update delivered, chunk by chunk |
| `firmware_chunks` | violation | `CompleteImageVerifies` fails for chunks that share a sector |
| `nvs_faults` | 2 keys, one of which may be too long, 2 values, one power cut or flip, 2 refused blobs | `TypeOK`; `BackedUpSurvives`: one fault of any kind costs no entry of a completed backup; `DurableWrites`: without cuts and flips an accepted entry can be read back, or is what the last backup has of it, whatever was refused |
| `update_device` | counter modulo 256, 2 power losses, fairness | `BootLoopBounded`: at most three unconfirmed starts reach the application; `BootLoopBroken`: with a usable recovery image the device does not restart for ever; `ServicesAgree`: RecoveryManager takes chunks when OtaService has an update, or a refused rollback has dropped one, a failed update is not left half written, and an abort stops the server; `AbortedNotInstalled` |
| `cache_lines` | 3 lines of flash in 2 sectors, 2 lines of cache; batches of up to 3 records in lines of 2, clock modulo 5 | `CacheConsistent`: a piece of flash is in one line at most, and what was written stays there until that is evicted; `BatchStored`: a batch that leaves the buffer is in a dirty line, and in flash unless that failed; `RecordsLeave`: records made before the shutdown leave RAM |
| `links` | 2 messages, 2 losses of the access point, fairness | `TypeOK` (at most two announcements); `MessagesKept` while the tasks have not met inside MqttModule; `LastMessageSent`: and the last one is handed to the client; `FirstConnection` |
| `links_reconnect` | violation | `Reconnects` fails: `connected_` is never cleared |
| `controller_modules` | a relay with each other kind of request, ring of 3, 2 registers, 3 configurations, one of which does not fit, fairness | `LastRequestWins`: the relay is as last commanded, the last frame has the last address asked for, and a relay in Shutdown is off and stays there unless its own tick led to it; `ScriptSound`: instructions in order through every turn of the ring; `ConfigWhole`: what fits in the buffer is stored unless NvsManager fails; `RequestsServed` |

**Why the bounds are enough.** With three slots a callback can free a slot
before, at and after the loop variable and have it reused while another remains
in place; two calls by callbacks allow a slot to be freed and taken again in one
callback, or a nested publish with a change of the pool inside. A ring of two
fills and wraps with an element on each side of the seam. A pool of two timers
fills, and a callback can remove or add the entry the walk has yet to reach. The
interval 3 with period 2 is due after two takts, and modulus 6 wraps after
three. Three table entries let a module register another one ahead of the cursor
and deregister one behind it. The firmware instance has a body of two sectors,
so that an update can be cut between and inside them; that for any use has a
body of one sector and chunks of one cell and of two, so that updates of mixed
chunks, repeated chunks and chunks that run into the other slot all occur. Two
values of a cell are enough to tell what came from which chunk. One power cut or
flip is what the NVS backup is designed for, and two refused blobs can hit an
entry and its backup. `update_device` counts the starts up to and beyond the
wrap of `bootCount`, and with two power losses one can hit an update and the
next one its repetition. With two lines of cache over three of flash every
access may evict, and two of the three share a sector; batches are shorter
than, as long as and longer than a line. Two losses of the access point put one
before the first connection and one after it, and two messages let a second one
overtake one that waits. A ring of three wraps while instructions wait; of the
configurations two disagree in every key and one sets a part of them.

**Fairness.** `WF(BusStep)`, `WF(TickBegin)`, `WF(WalkStep)` and
`WF(KernelStep)`: each is the next instruction of the only thread, the takt loop
never ends (`scheduler.cpp`, `run()`), and callbacks, `init()` and `tick()`
return. That they return is the cooperative contract of the system, and that
callbacks make boundedly many calls is the constant `MaxCalls`. `DrainEnds`
depends on it: two events whose callbacks answer each other keep
`dispatchQueued()` from ever returning, and nothing in the code prevents it.

In `update_device`, `WF(Start)`: the boot loader has control after a reset; and
an application that has started confirms its start or crashes (the watchdog
makes a hang a crash). In `cache_lines`, `WF(Clock)` and `SF(TelemetryTick)`: a
takt takes a millisecond and an upload interval many, so the upload is ticked
while it is due; after the shutdown `TelemetryTick` is disabled, as the scheduler
skips the module. In `links`, FreeRTOS runs its tasks, the reconnect timer fires
(`TimerFires`), the scheduler ticks who has work (`ReadyModuleTicks`; strong,
because the takt loop is busy in between), and an access point that was lost at
most `MaxDrops` times answers in the end. Nothing is assumed of the application
or of the events of the MQTT client. The links may rest for good after a
shutdown, so deadlock is not checked there. In `controller_modules`, callbacks
return and every takt has a turn for every ready module with work, strong for
the same reason.

## 4. Proofs

Each proof module extends the module it is about; `ServicesProofs` holds the
proofs of two, `Update` and `CacheManager`, and for its sake the specification of
the latter is named `CacheSpec`, its types `CacheTypeOK` and so on. Their
theorems hold for every value of the constants that the named assumptions of that
module allow; TLC evaluates these assumptions in every run. Every invariant,
action property and refinement of a passing run is stated by one of these
theorems. The layout is the same throughout: an inductive invariant `IInv`
(`CacheInv` for the cache), `InitInv` (the initial states), one lemma per action
or group of actions, `StepInv`, and `Invariance` (`Spec => []IInv`), from which
the properties of the runs follow. Every `IInv` was checked by TLC on the
instances of the runs before it was proved.

| Module | Theorem | States | Hypotheses |
|---|---|---|---|
| `EventBusProofs` | `TypeCorrect`, `CountIsExact`, `RingIsConsistent`, `NobodyIsPassedOver` | `TypeOK`, `CountExact`, `RingConsistent`, `NobodyPassedOver` | |
| | `StandingSubscribersServed` | `ServedBeforeReturn` | |
| | `QueueIsImplemented` | `ImplementsQueue` | |
| `SchedulerProofs` | `TypeCorrect`, `LoopIsSound` | `TypeOK`, `LoopSound` | |
| | `OthersRemainDown`, `DueTickedOnce` | `OthersStayDown`, `TickedOncePerTakt` | |
| `TimerManagerProofs` | `PoolIsConsistent`, `PoolNeverDangles` | `PoolConsistent`, `NoDangling` | |
| | `WalkTicksOnce`, `TimeoutNotEarly` | `TickedOnce`, `NeverEarly` | |
| `FirmwareCacheProofs` | `TypeCorrect`, `VerifiedImageIsDelivered` | `TypeOK`, `VerifiedIsDelivered` | |
| | `ActiveSlotStaysIntact`, `StoreIsImplemented` | `ActiveSlotIntact`, `ImplementsStore` | `Cautious` |
| | `CompleteImagesVerify` | `CompleteImageVerifies` | `ByTheBook` |
| `NvsManagerProofs` | `TypeCorrect` | `TypeOK` | |
| | `WritesAreDurable` | `DurableWrites` | |
| | `BackupSurvivesOneFault` | `BackedUpSurvives` | `FlipsInStorage` |
| `ServicesProofs` | `BootLoopIsBounded`, `ServicesDoAgree` | `BootLoopBounded`, `ServicesAgree` | |
| | `AbortedStaysOut` | `AbortedNotInstalled` | |
| | `CacheIsConsistent`, `BatchIsStored` | `CacheConsistent`, `BatchStored` | |
| `ConnectivityProofs` | `TypeCorrect`, `MessagesAreKept` | `TypeOK`, `MessagesKept` | |
| `ControllerProofs` | `LastRequestDoesWin`, `ScriptIsSound` | `LastRequestWins`, `ScriptSound` | |
| | `ConfigIsWhole` | `ConfigWhole` | `OneValuePerKey` |

### The arguments

**EventBus.** `IInv` is the conjunction of the four invariants; none is
inductive alone. `subscriberCount` stays in range because `unsubscribe()`
decrements it only for an active slot and the count is exact; a frame that a
drain pushes has proper data because the cells between head and tail hold
accepted events; a slot that is still owed is not taken by `subscribe()`, which
uses inactive slots only. `StandingSubscribersServed` follows because a frame is
popped only when nothing is left ahead of its loop variable.
`QueueIsImplemented` takes the refinement step by step: the cells of the waiting
range are pairwise different (`RingApart`), so that writing the tail cell leaves
the others alone and `Pending` grows at its end (`EnqueueAppends`); moving the
head drops the first element (`DequeueTakes`, `RingShift`); and a callback that
publishes pushes frames above the outermost one, which is all that `Delivering`
looks at.

**Scheduler.** The properties of the loop rest on how states come about:
`ReadyInitialised` (Ready is reached only through a successful `init()`),
`BootSound` (an active entry in Error exists only during an `initAll()` that will
fail, or after a boot that failed), `DownIsDown` (an entry shut down by others is
inactive or in Shutdown, and no frame is about to overwrite that) and `DueTicked`
(the due entries behind the loop variable have been ticked once, those ahead not
at all).

**TimerManager.** `CountExact`, `FiringSound` and `NotPassedOver` hold for every
program. `EntriesOwned`, `TickedSoFar` and `NotAhead` are those of a program that
neither calls `onTimeout()` twice nor moves timers; the first includes that the
timer of an entry has a callback, which is what keeps it from registering again.
`NotAhead` bounds a counter by the takts it has seen, and wrapping only lowers it
(`CounterWraps`).

**FirmwareCache.** What holds for any use: no cell of the flash claims an image
that is too large, and where the header of a slot holds a CRC, it is that of the
chunks of the update that wrote the header (`CellsSound`); the running CRC covers
the chunks of the update under way (`FeedSound`); a `write()` has programmed what
it says (`JobSound`), and one of a header has the CRC that belongs to its slot
(`HeaderSound`). `VerifiedIsDelivered` follows, for every geometry, since
`verify()` compares the body with that CRC: the part to prove is that no order of
updates, overruns into the other slot, cuts and failures leaves a header at its
place with a CRC from elsewhere. A
*cautious* program (`Usage` within `"unaligned"` and `"powercut"`) announces the
size it sends, activates only the inactive slot and only while no update is under
way, and meets no flash error; the power may be cut anywhere. Then the jobs stay in the inactive slot (`RoomLeft`), an
activation rewrites a header over the body that matches it (`ActivationSound`),
and the slot activated last is intact or not the one that runs or would run after
a restart (`RunningIntact`). That erasing whole sectors leaves the other slot
alone is arithmetic on sectors (`DivStrict`, `AlignedGap`) from
`LayoutAssumption`: slots are whole sectors that do not overlap, as in the
partition table. `StoreIsImplemented` shows under the same hypothesis that each
step is one of `SlotStore` or leaves it unchanged; in particular a slot that
becomes active outside of a restart is verified at that moment, also at the end of
the write of its header. If every chunk begins on a
sector as well (*by the book*), what was fed is in flash (`Delivered`), and a
complete image verifies; `firmware_chunks` shows that this hypothesis is needed.
`CellAssumption` says that the cells of an image are distinct from headers.

**NvsManager.** Without power cuts and flips the entries and their copies are what
the completed operations left (`StoredThere`, `SavedThere`), except for the one
under way (`HalfWritten`) and for keys that had a blob refused; this holds however
many blobs are refused, because a loop remembers in `missed` whose they were. With
at most one fault of any kind, every entry of a completed backup has at all times
a way back (`WayBack`): itself, or its copy and the certainty that `init()` will
use it; `Clean` says that before the fault nothing needs one. `CopiedSoFar` and
`RestoredSoFar` say what the two loops have behind them. `FlipsInStorage`, flips
while the device is off only, is what the backup is designed for: section 5 says
what happens without it.

**Update.** `CountIsEntries` ties RTC memory to history: until it wraps,
`bootCount` is the number of unconfirmed starts, across resets, updates, forced
modes and power losses. `UpdateLives` and `RunningIsNormal` say what a program
that has control may hold in RAM, `Agree` is `ServicesAgree` without the types. `AbortedStaysOut` follows since
an active update holds nothing of the one before. `LostAssumption` says that lost
RTC memory is no configuration.

**CacheManager.** `CacheInv` adds three parts to the types. `KeysApart`: a line is
allocated only for what no line caches, so no piece of flash is in two lines.
`Holds`: what was written is in a dirty line that caches it. An access changes the
line it finds or the one it evicts; the lemmas `PreparedLine`, `PreparedApart` and
`PreparedHolds` say once, for `read()` and `write()` alike, that every other line
is left as it was and that exactly the evicted line is forgotten. `OnlyFirstLine`
is about TelemetryService, whose batches all go to address 0: the first dirty
line, the only one that `flush()` writes, is then the line of the batch, and
`BatchIsStored` holds although `flush()` stops there; a failing flash changes no
line, so that the batch remains in its dirty line. A client with two dirty lines
has no such guarantee (section 5). The rest is arithmetic (`CellOf`, `CellAt`,
`LineInFlash`): an address is a line and a cell in it, and a flash of whole lines
contains every cell of a line that begins in it. `CacheAssumption` asks for that,
for sectors of whole lines, and for sizes that are not zero.

**Connectivity.** `AnnouncedOnce` counts the announcements made and those still to
come from tasks that saw `connected_` clear. `PendingWhole` and `LastKept` say how
topic, payload and flag of the pending message belong together at each point of
`tick()` and `publish()`, as long as the tasks have not met there. `StageSound`
says what the station and the client may do before `init()` and after
`shutdown()`.

**Controller.** The request that a `tick()` is going to take is the last one made,
although callbacks make requests in the middle of every `tick()`; a module shut
down from outside its own `tick()` is not the one whose `tick()` returns
(`HaltPromise`); the tail of the script ring is `head + count`, modulo its size;
the buffer begins with the settings that fit (`Buffered`), and `ParsedSoFar` says
that those taken off it were stored or lost. `OneValuePerKey`: a configuration
that gives a key two values cannot be stored as a whole by anybody.

### Only model-checked

* Liveness (`DrainEnds`, `TimerFires`, `ReadyModuleTicks`, `BootLoopBroken`,
  `RecordsLeave`, `FirstConnection`, `LastMessageSent`, `RequestsServed`): the
  prover does not handle fairness.
* The two runs that expect a violation.

## 5. Where the code and its documentation disagree

Two disagreements have a run of their own (`findings` in `PROJECT.json`): chunks
that share a sector, and the station that never reconnects. The following were
met while modelling and have none.

* *Timers.* A second `onTimeout()` takes a second pool entry and forgets the
  first, which dangles once the timer is destroyed (`timer.cpp:45`;
  `docs/timer_manager.md:68`: "the timer is unregistered automatically"). A move
  leaves the pool pointing to the old object (`timer.cpp:18`). With `"destroy"`
  added to the second program of `timers_programs` and `Disciplined` dropped,
  TLC refutes `NoDangling` for both. A one-shot timer cannot be restarted from its own callback:
  `tick()` clears `active_` afterwards (`timer.cpp:62`). An interval within one
  period of 2^32 is never reached.
* *Scheduler.* A module whose own `tick()` requests the shutdown is set to Ready
  again when it returns and is ticked after its `shutdown()`
  (`scheduler.cpp:128`; `docs/uml/diagrams.md:209`: "Shutdown --> [*]");
  `OthersStayDown` leaves exactly that module out. A module registered after `initAll()` stays Registered and never
  runs (`scheduler.cpp:84`; `docs/architecture.md:5`: every takt the kernel
  "invokes all registered modules"). The takt loop does not end after `requestShutdown()` (`scheduler.cpp:150`;
  `docs/kernel.md:32`). Table entries are never given back.
  `event_bus.hpp:47` speaks of the end of the takt, the queue is drained at the
  start of the next one.
* *Firmware.* On the host the activated slot is not remembered: `init()` prefers
  slot A (`firmware_cache.cpp:42`; `docs/recovery.md:102`). On the ESP32
  `esp_partition_find_first()` is asked for the subtype of ota_0 and so never
  finds ota_1 (`:125`). The header is rewritten in place, so that a power cut in
  `activateSlot()` loses the slot (`:137`), and the result of the write is
  ignored. So it is in `finalizeWrite()` (`:84`): when the erase of the header
  fails, the old header stays and `verify()` may accept it. A chunk that
  is repeated, late or of another image is part of what `finalizeWrite()` computes
  the CRC of, and passes `verify()`. `init()` trusts the valid flag of a header whose body an interrupted
  update has replaced (`:42`). Chunks beyond the announced size run into the
  other slot (`:65`). A rollback during an update redirects it to the slot that
  was running (`:64`). With the partition of `platform.cpp:33` every access to
  the slots fails the bounds check.
* *NVS.* `<key>_meta` of a key with more than 10 characters exceeds the 15 of
  ESP-IDF, the error is ignored, and the entry cannot be read
  (`nvs_manager.cpp:79`; `mqtt_broker` is such a key); from then on every start
  restores the backup. A blob that NVS refuses is ignored in the same way (`:80`,
  `:237`, `:290`): `setString()` and `backup()` report success. `eraseAll()` leaves
  NVS uninitialised until the next start. `readEntry()` does not restore on a mismatch, only
  `init()` does (`docs/memory.md:159`). A restore reverts every entry and brings
  removed ones back. `backup()` copies without checking (`nvs_manager.cpp:237`),
  so that a bit flip while the program runs reaches the backup at the shutdown
  (`docs/certification.md:16`: "Auto-restore from backup"); with `"up"` in
  `FlipPhases` TLC refutes `BackedUpSurvives`.
* *Boot loader.* `bootCount` wraps after 255, and a device in a boot loop tries
  the application again (`bootloader.cpp:165`; `docs/bootloader.md:54`). A mode
  Recovery in the configuration is ignored (`:86`; `docs/bootloader.md:84`:
  "Force transition to recovery"). OtaPending is neither validated nor does it
  use `otaSlot` (`:88`, `:180`; `docs/architecture.md:109`), `validateFirmware()`
  never finds ota_1 and looks for an ESP-IDF descriptor where FirmwareCache puts
  its own header, the CRC of the configuration is computed and ignored, and a
  factory reset repeats at every start until an application confirms.
  `enterRecovery()` restarts whether or not ESP-IDF accepts the recovery image, so
  that a damaged one makes the boot loader restart for ever (`:131`;
  `docs/bootloader.md:98`: "If Recovery is corrupted → Emergency UART console"),
  and without the partition it returns although it is declared `[[noreturn]]`.
  With `recovery = "usable"` dropped from `BootLoopBroken` TLC refutes it.
  `entry()` has no caller in the repository.
* *Updates.* The recovery program never calls `beginWrite()`, so FirmwareCache
  refuses every chunk and `finalizeDfu()` fails (`docs/recovery.md:69`: "verify +
  install + reboot"); in `Update` no recovery ever installs anything. `run()`
  ends at Failed. The transports do not pass their data on
  (`recovery_transports.cpp:28`). `abort()` leaves FirmwareCache in the middle of
  the write (`AbortedNotInstalled` shows that `beginWrite()` makes this
  harmless). The HTTP server is stopped by `abort()` only: it outlives a failed
  update and a refused `rollback()`, and after the latter RecoveryManager goes on
  listening although OtaService has no update (`ota_service.cpp:76`). A second
  `startUpdate()` destroys the WiFiOta object whose server is
  still running. The progress counters are not reset by a new update. Chunks
  carry neither session nor offset.
* *Cache.* A read that misses returns -1 although it has loaded the line, and
  `flush()` stops at the first dirty line, because both compare a byte count with
  0 (`cache_manager.cpp:63`, `:87`; `cache_manager.hpp:45`: "Flush all dirty lines
  to flash."). So an eviction can lose a dirty line. A write that misses does not
  load the line, writing a line back erases its neighbours in the sector, a fresh
  line is the next victim, and 64 lines are used whatever the pool holds.
  Telemetry drops the part of a batch beyond one line (21 of 64 records),
  writes every batch to the same place, and forgets a batch that the flash did not
  take (`telemetry_service.cpp:36`), which stays in its dirty line at best. Records
  made after the shutdown stay in RAM.
* *WiFi and MQTT.* Other tasks run `tick()` of both modules, and through it
  callbacks of the event bus, at the same time as the takt loop (`docs/kernel.md:5`:
  "all work runs in a single takt loop"). WiFiDisconnected is never published.
  The program subscribes at WiFiConnected (`main.cpp:74`), when the client has
  usually not reached its broker: `esp_mqtt_client_subscribe()` fails
  (`mqtt_module.cpp:98`) and is not repeated.
  MqttModule counts as connected as soon as its client exists; only the last
  message waits; when the tasks meet inside the module a message can be lost, sent
  twice or sent with the payload of another, which TLC shows when `overlap` is
  dropped from the properties.
* *Modules.* A relay that is shut down from its own `tick()` becomes Ready and can
  be switched on again (`scheduler.cpp:128`). `writeCoil()` drops the value and
  sends the frame of a register read (`modbus_module.cpp:68`, `:75`). A
  configuration is cut at 511 bytes (`config_manager.cpp:34`), which can leave its
  last value incomplete, and a failing `setString()` is ignored (`:48`). The
  script engine's `shutdown()` resets the count but not head and tail. A
  configuration that an `onChange()` callback delivers overwrites the buffer that
  `strtok_r()` is in (`config_manager.cpp:42`), and applying a configuration
  publishes SystemReady.

## 6. Not modelled, and the plan

Crc32 is represented by the data it covers. Diagnostics, Logger, drivers, the
UART, BLE and web server modules are input and output. The SDK wraps the C++
interfaces and keeps a single static adapter, so that a second registration
registers the first module again. The Lite kernel is a reduced copy of what
`Scheduler` models. Of the examples only the order of calls is followed. The host
builds of NvsManager, the boot loader and the links keep no persistent state or
have no other task, and are left out.

Left to do: `Takt`, the composition of Scheduler, EventBus and TimerManager in one
takt.
