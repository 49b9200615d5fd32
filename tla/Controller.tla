----------------------------- MODULE Controller -----------------------------
(***************************************************************************)
(* The modules of a controller in the takt loop, as                        *)
(* examples/demo_controller/main/main.cpp puts them together: relay,       *)
(* sensor, Modbus, its gateway, remote configuration, and the script       *)
(* engine.  Each keeps a request until its next tick(), and tells the rest *)
(* of the program through the event bus, inside tick(), what it has done:  *)
(* a callback may then make the next request of the same module, or shut   *)
(* the system down.                                                        *)
(*                                                                         *)
(* The takt loop runs one tick() at a time; which comes next is left open. *)
(* The values on the Modbus and of the sensor are left out; NvsManager     *)
(* stores a setting or fails to, and need not say so.                      *)
(***************************************************************************)
EXTENDS Naturals, Sequences

CONSTANTS
  Programs,     \* sets of the calls a program makes, each a subset of Calls
  Instructions,
  kQueueSize,
  Registers,    \* addresses passed to writeCoil()
  Keys, Values,
  Configs,      \* remote configurations: sequences of settings
  Fits,         \* how many settings of each are within its first 511 bytes
  Cut,          \* a value that ends at the end of the buffer
  Nothing       \* no instruction, register, value or frame

Calls == {"setRelay", "enqueueInstruction", "writeCoil", "applyRemoteConfig"}

ASSUME ControllerAssumption ==
  /\ Programs \subseteq SUBSET Calls
  /\ kQueueSize \in Nat \ {0}
  /\ Configs \subseteq Seq(Keys \X Values)
  /\ DOMAIN Fits = Configs
  /\ \A c \in Configs : Fits[c] \in 0 .. Len(c)

VARIABLES
  program,
  running,      \* whose tick() is under way, "none", or "ready": ConfigManager
                \* publishes SystemReady
  down,         \* the modules in state Shutdown
  relay,        \* RelayModule; the level of the pin is that of on
  modbus,       \* ModbusModule
  pollAddr,     \* ModbusGateway
  script,       \* ScriptEngineModule
  config,       \* ConfigManager; left: what strtok_r() has not reached yet
  nvs,          \* what getString() finds
  halted,       \* history: the modules shut down from outside their own tick()
  wanted,       \* history: the last command given to the relay
  asked,        \* history: the last register passed to writeCoil()
  waiting,      \* history: the instructions accepted and not executed
  latest,       \* history: the last configuration delivered, as far as it fits
  torn,         \* history: one came while the one before was being parsed
  lost          \* history: the keys whose last setting NvsManager did not store

dVars == <<relay, wanted>>
mVars == <<modbus, pollAddr, asked>>
sVars == <<script, waiting>>
cVars == <<config, nvs, latest, torn, lost>>
vars  == <<program, running, down, halted, dVars, mVars, sVars, cVars>>

Modules == {"relay", "sensor", "modbus", "gateway", "script", "config"}

Ring == 0 .. kQueueSize - 1

Init ==
  /\ program \in Programs
  /\ running = "none"
  /\ down = {}
  /\ halted = {}
  /\ relay = [on |-> FALSE, pending |-> FALSE, target |-> FALSE]
  /\ modbus = [pending |-> FALSE, addr |-> Nothing, sent |-> Nothing]
  /\ pollAddr = 0
  /\ script = [queue |-> [i \in Ring |-> Nothing], head |-> 0, tail |-> 0, count |-> 0,
               work |-> FALSE]
  /\ config = [pending |-> FALSE, buffer |-> <<>>, left |-> <<>>]
  /\ nvs = [k \in Keys |-> Nothing]
  /\ wanted = FALSE
  /\ asked = Nothing
  /\ waiting = <<>>
  /\ latest = <<>>
  /\ torn = FALSE
  /\ lost = {}

-----------------------------------------------------------------------------
(* Calls of the program: from timers and queued events between two ticks,  *)
(* or from a callback inside a tick.                                       *)

SetRelay(on) ==
  /\ "setRelay" \in program
  /\ relay' = [relay EXCEPT !.target = on, !.pending = TRUE]
  /\ wanted' = on
  /\ UNCHANGED <<program, running, down, halted, mVars, sVars, cVars>>

(* The value for the coil is dropped. *)
WriteCoil(addr) ==
  /\ "writeCoil" \in program
  /\ modbus' = [modbus EXCEPT !.addr = addr, !.pending = TRUE]
  /\ asked' = addr
  /\ UNCHANGED <<program, running, down, halted, dVars, pollAddr, sVars, cVars>>

EnqueueInstructionUnchecked(i) ==
  /\ "enqueueInstruction" \in program
  /\ script' = [script EXCEPT !.queue[script.tail] = i, !.tail = (@ + 1) % kQueueSize,
                              !.count = @ + 1, !.work = TRUE]
  /\ waiting' = Append(waiting, i)
  /\ UNCHANGED <<program, running, down, halted, dVars, mVars, cVars>>

EnqueueInstruction(i) ==
  /\ "enqueueInstruction" \in program
  /\ script.count < kQueueSize
  /\ script' = [script EXCEPT !.queue[script.tail] = i, !.tail = (@ + 1) % kQueueSize,
                              !.count = @ + 1, !.work = TRUE]
  /\ waiting' = Append(waiting, i)
  /\ UNCHANGED <<program, running, down, halted, dVars, mVars, cVars>>

(* strncpy() takes as much of a configuration as the buffer holds: the     *)
(* setting at its end is gone, or is there with a part of its value.       *)
Copies(c) ==
  LET whole == SubSeq(c, 1, Fits[c]) IN
  {whole} \cup
    IF Fits[c] = Len(c) THEN {} ELSE {Append(whole, <<c[Fits[c] + 1][1], Cut>>)}

(* A configuration that arrives while one is being parsed takes its place  *)
(* in the buffer: strtok_r() goes on somewhere in the new one, and what it *)
(* passes there is not seen by the next parse.                             *)
ApplyRemoteConfig(c) ==
  /\ "applyRemoteConfig" \in program
  /\ \E b \in Copies(c) :
       IF running = "config"
         THEN \E i, j \in 0 .. Len(b) :
                /\ j \in {i, i + 1}
                /\ config' = [pending |-> TRUE, buffer |-> SubSeq(b, 1, i),
                              left |-> SubSeq(b, j + 1, Len(b))]
         ELSE config' = [config EXCEPT !.pending = TRUE, !.buffer = b]
  /\ latest' = SubSeq(c, 1, Fits[c])
  /\ torn' = (torn \/ running = "config")
  /\ UNCHANGED <<program, running, down, halted, dVars, mVars, sVars, nvs, lost>>

(* shutdown() of RelayModule: setRelay(false) and tick(). *)
RelayOff == relay' = [on |-> FALSE, pending |-> FALSE, target |-> FALSE]

RanModule == IF running = "ready" THEN "config" ELSE running

(* requestShutdown(): every module is shut down.  The script engine        *)
(* forgets how many instructions it has, but not where they are; the takt  *)
(* loop goes on.                                                           *)
RequestShutdown ==
  /\ RelayOff
  /\ wanted' = FALSE
  /\ script' = [script EXCEPT !.count = 0, !.work = FALSE]
  /\ waiting' = <<>>
  /\ down' = Modules
  /\ halted' = halted \cup (Modules \ {RanModule})
  /\ UNCHANGED <<program, running, mVars, cVars>>

-----------------------------------------------------------------------------
(* Ticks, up to the publish() of a module. *)

Begin(m) ==
  /\ running = "none"
  /\ m \notin down
  /\ running' = m
  /\ UNCHANGED <<program, down, halted>>

RelayTickOnChange ==
  /\ Begin("relay")
  /\ relay.pending /\ relay.target # relay.on
  /\ relay' = [relay EXCEPT !.pending = FALSE, !.on = relay.target]
  /\ UNCHANGED <<wanted, mVars, sVars, cVars>>

(* A command is taken before it is carried out. *)
RelayTick ==
  /\ Begin("relay")
  /\ relay.pending
  /\ relay' = [relay EXCEPT !.pending = FALSE, !.on = relay.target]
  /\ UNCHANGED <<wanted, mVars, sVars, cVars>>

SensorTick ==
  /\ Begin("sensor")
  /\ UNCHANGED <<dVars, mVars, sVars, cVars>>

(* The frame of readHoldingRegister(). *)
ReadFrame(addr) == [function |-> 3, addr |-> addr]

(* processRequest(): the register is read, no coil is written, and         *)
(* readHoldingRegister() publishes.                                        *)
ModbusTick ==
  /\ Begin("modbus")
  /\ modbus.pending
  /\ modbus' = [modbus EXCEPT !.pending = FALSE, !.sent = ReadFrame(modbus.addr)]
  /\ UNCHANGED <<dVars, pollAddr, asked, sVars, cVars>>

(* pollPending_ is never reset. *)
GatewayTick ==
  /\ "writeCoil" \in program
  /\ Begin("gateway")
  /\ UNCHANGED <<dVars, mVars, sVars, cVars>>

(* The queue is worked off; no callback runs in between. *)
ScriptTick ==
  /\ running = "none"
  /\ "script" \notin down
  /\ script.work
  /\ script' = [script EXCEPT !.head = (@ + script.count) % kQueueSize, !.count = 0,
                              !.work = FALSE]
  /\ waiting' = <<>>
  /\ UNCHANGED <<program, running, down, halted, dVars, mVars, cVars>>

(* applyPending() takes the configuration apart in its buffer ... *)
ConfigTick ==
  /\ Begin("config")
  /\ config.pending
  /\ config' = [config EXCEPT !.pending = FALSE, !.left = config.buffer]
  /\ UNCHANGED <<dVars, mVars, sVars, nvs, latest, torn, lost>>

(* ... setString(), whose result is not looked at, and onChange() ... *)
ApplySetting ==
  /\ running = "config"
  /\ config.left # <<>>
  /\ LET s == Head(config.left) IN
       \/ /\ nvs' = [nvs EXCEPT ![s[1]] = s[2]]
          /\ lost' = lost \ {s[1]}
       \/ /\ nvs' = nvs \/ nvs' = [nvs EXCEPT ![s[1]] = Nothing]
          /\ lost' = lost \cup {s[1]}
  /\ config' = [config EXCEPT !.left = Tail(@)]
  /\ UNCHANGED <<program, running, down, halted, dVars, mVars, sVars, latest, torn>>

(* ... and publishes SystemReady. *)
ConfigReady ==
  /\ running = "config"
  /\ config.left = <<>>
  /\ running' = "ready"
  /\ UNCHANGED <<program, down, halted, dVars, mVars, sVars, cVars>>

ReturnClearing ==
  /\ running \notin {"none", "config"}
  /\ down' = down \ {RanModule}
  /\ pollAddr' = IF running = "gateway" THEN (pollAddr + 1) % 10 ELSE pollAddr
  /\ relay' = [relay EXCEPT !.pending = (@ /\ running # "relay")]
  /\ config' = [config EXCEPT !.pending = (@ /\ running # "ready")]
  /\ running' = "none"
  /\ UNCHANGED <<program, halted, wanted, modbus, asked, sVars, nvs, latest, torn, lost>>

(* tick() returns, and the scheduler takes the module to be Ready, even if *)
(* it was shut down meanwhile.                                             *)
Return ==
  /\ running \notin {"none", "config"}
  /\ down' = down \ {RanModule}
  /\ pollAddr' = IF running = "gateway" THEN (pollAddr + 1) % 10 ELSE pollAddr
  /\ running' = "none"
  /\ UNCHANGED <<program, halted, dVars, modbus, asked, sVars, cVars>>

Call ==
  \/ \E on \in BOOLEAN : SetRelay(on)
  \/ \E a \in Registers : WriteCoil(a)
  \/ \E i \in Instructions : EnqueueInstruction(i)
  \/ \E c \in Configs : ApplyRemoteConfig(c)
  \/ RequestShutdown

Next ==
  \/ Call
  \/ RelayTick
  \/ SensorTick
  \/ ModbusTick
  \/ GatewayTick
  \/ ScriptTick
  \/ ConfigTick
  \/ ApplySetting
  \/ ConfigReady
  \/ Return

(* Callbacks return, and every takt has a turn for every module.           *)
Fairness ==
  /\ WF_vars(ApplySetting \/ ConfigReady \/ Return)
  /\ SF_vars(RelayTick)
  /\ SF_vars(ModbusTick)
  /\ SF_vars(ScriptTick)
  /\ SF_vars(ConfigTick)

Spec == Init /\ [][Next]_vars /\ Fairness

-----------------------------------------------------------------------------
Frames   == {ReadFrame(a) : a \in Registers \cup {Nothing}}
Settings == Seq(Keys \X (Values \cup {Cut}))

TypeOK ==
  /\ program \in Programs
  /\ running \in (Modules \ {"script"}) \cup {"none", "ready"}
  /\ down \subseteq Modules /\ halted \subseteq Modules
  /\ relay \in [on : BOOLEAN, pending : BOOLEAN, target : BOOLEAN]
  /\ modbus \in [pending : BOOLEAN, addr : Registers \cup {Nothing},
                 sent : Frames \cup {Nothing}]
  /\ pollAddr \in 0 .. 9
  /\ script \in [queue : [Ring -> Instructions \cup {Nothing}], head : Ring, tail : Ring,
                 count : 0 .. kQueueSize, work : BOOLEAN]
  /\ config \in [pending : BOOLEAN, buffer : Settings, left : Settings]
  /\ nvs \in [Keys -> Values \cup {Cut, Nothing}]
  /\ wanted \in BOOLEAN /\ torn \in BOOLEAN
  /\ asked \in Registers \cup {Nothing}
  /\ waiting \in Seq(Instructions)
  /\ latest \in Seq(Keys \X Values)
  /\ lost \subseteq Keys

(* A relay in state Shutdown is off, and it stays in that state for ever,  *)
(* whoever called requestShutdown() and in the middle of whichever other   *)
(* module's tick().  (The relay whose own tick() led to the call is made   *)
(* Ready as that tick() returns, and obeys commands again.)                *)
RelayStaysOff ==
  /\ "relay" \in down => ~relay.on
  /\ halted \subseteq down

(* A command that a callback gives while the relay is carrying out the one *)
(* before is not lost: once nothing is pending, the relay is as the last   *)
(* command wants it.                                                       *)
LastCommandObeyed == ~relay.pending => relay.on = wanted

(* The same for the address passed to writeCoil(): the last frame carries  *)
(* it, if only to read that register.                                      *)
LastAddressSent == ~modbus.pending /\ asked # Nothing => modbus.sent = ReadFrame(asked)

(* What relay and Modbus do with the last request made of them, from       *)
(* wherever it was made.                                                   *)
LastRequestWins == RelayStaysOff /\ LastCommandObeyed /\ LastAddressSent

(* What the script engine will execute next is what was accepted first,    *)
(* through every turn of its ring, until it is shut down.                  *)
ScriptInOrder ==
  "script" \notin down =>
    /\ script.count = Len(waiting)
    /\ script.work = (waiting # <<>>)
    /\ \A k \in 1 .. Len(waiting) :
         script.queue[(script.head + k - 1) % kQueueSize] = waiting[k]

(* The same, with the types: the ring is never overfull.                   *)
ScriptSound == TypeOK /\ ScriptInOrder

(* Once nothing is pending, every setting of the last configuration that   *)
(* is within the 511 bytes of the buffer is stored with its whole value,   *)
(* or NvsManager failed to store it; unless the configuration came from an *)
(* onChange() callback.                                                    *)
ConfigWhole ==
  ~torn /\ ~config.pending /\ running # "config" =>
    \A n \in 1 .. Len(latest) :
      nvs[latest[n][1]] = latest[n][2] \/ latest[n][1] \in lost

(* Every request is taken up in the end, unless the module is shut down or *)
(* onChange() keeps delivering configurations.                             *)
RequestsServed ==
  /\ relay.pending ~> ~relay.pending \/ "relay" \in down \/ torn
  /\ modbus.pending ~> ~modbus.pending \/ "modbus" \in down
  /\ script.work ~> ~script.work \/ "script" \in down
  /\ config.pending ~> ~config.pending \/ "config" \in down \/ torn

=============================================================================
