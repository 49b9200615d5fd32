-------------------------- MODULE ControllerProofs --------------------------
(***************************************************************************)
(* Proofs about Controller.tla, for every program, queue size, set of      *)
(* registers, keys and values, and every set of configurations, however    *)
(* much of each fits in the buffer (for ConfigWhole: of which none gives   *)
(* one key two values within the buffer).                                  *)
(*                                                                         *)
(* Each module's part of the invariant says what its pending request is    *)
(* worth: the request that a tick() is going to take is the last one made, *)
(* although callbacks make requests in the middle of every tick().         *)
(***************************************************************************)
EXTENDS Controller, SequenceTheorems, TLAPS

RelayPromise ==
  /\ "relay" \in down => ~relay.on
  /\ LastCommandObeyed
  /\ relay.pending => relay.target = wanted

(* What is shut down for good does not run. *)
HaltPromise == halted \subseteq down /\ RanModule \notin halted

ModbusPromise ==
  /\ LastAddressSent
  /\ modbus.pending => modbus.addr = asked

(* The place that the next instruction is written to follows the last one. *)
ScriptPromise ==
  /\ ScriptInOrder
  /\ "script" \notin down => script.tail = (script.head + script.count) % kQueueSize

(* In the buffer a key has one value. *)
OneValuePerKey ==
  \A c \in Configs : \A b \in Copies(c) :
    \A m, n \in 1 .. Len(b) : b[m][1] = b[n][1] => b[m][2] = b[n][2]

(* NvsManager was given the first n settings of b: it stored them, or failed to. *)
StoredUpTo(b, n) == \A i \in 1 .. n : nvs[b[i][1]] = b[i][2] \/ b[i][1] \in lost

(* How far applyPending() is with what is in its buffer. *)
ParsedSoFar ==
  LET done == Len(config.buffer) - Len(config.left) IN
  /\ Len(config.left) <= Len(config.buffer)
  /\ \A i \in 1 .. Len(config.left) : config.left[i] = config.buffer[done + i]
  /\ StoredUpTo(config.buffer, done)

(* The buffer begins with the settings that fit, and is a copy of a configuration. *)
Buffered ==
  /\ Len(latest) <= Len(config.buffer)
  /\ \A i \in 1 .. Len(latest) : latest[i] = config.buffer[i]
  /\ config.buffer = <<>> \/ \E c \in Configs : config.buffer \in Copies(c)

ConfigPromise ==
  OneValuePerKey /\ ~torn =>
    /\ Buffered
    /\ running = "config" => ParsedSoFar
    /\ running # "config" /\ ~config.pending => StoredUpTo(config.buffer, Len(config.buffer))

IInv ==
  /\ TypeOK
  /\ RelayPromise
  /\ ModbusPromise
  /\ ScriptPromise
  /\ ConfigPromise

-----------------------------------------------------------------------------
(* A module that a step does not concern keeps its promise. *)
LEMMA RelayKept ==
  RelayPromise /\ UNCHANGED dVars /\ down' \subseteq down => RelayPromise'
  BY DEF RelayPromise, LastCommandObeyed, dVars

(* Modbus keeps its promise while no request is made of it and none is served. *)
LEMMA ModbusKept == ModbusPromise /\ UNCHANGED <<modbus, asked>> => ModbusPromise'
  BY DEF ModbusPromise, LastAddressSent

(* The script engine keeps its promise while its ring is left alone. *)
LEMMA ScriptKept ==
  ScriptPromise /\ UNCHANGED sVars /\ ("script" \in down => "script" \in down') => ScriptPromise'
  BY DEF ScriptPromise, ScriptInOrder, sVars

(* ConfigManager keeps its promise while neither buffer nor parser moves. *)
LEMMA ConfigKept ==
  ConfigPromise /\ UNCHANGED cVars /\ (running = "config" <=> running' = "config")
    => ConfigPromise'
  <1> SUFFICES ASSUME ConfigPromise, UNCHANGED <<config, nvs, latest, torn, lost>>,
                      running = "config" <=> running' = "config"
               PROVE  ConfigPromise'
    BY DEF cVars
  <1>1. ParsedSoFar' <=> ParsedSoFar
    BY DEF ParsedSoFar, StoredUpTo
  <1>2. /\ StoredUpTo(config.buffer, Len(config.buffer))'
             <=> StoredUpTo(config.buffer, Len(config.buffer))
        /\ Buffered' <=> Buffered
    BY DEF StoredUpTo, Buffered
  <1> QED BY <1>1, <1>2 DEF ConfigPromise

(* Index arithmetic of the ring without the modulus. *)
LEMMA RingWrap ==
  ASSUME NEW a \in Ring, NEW c \in 0 .. kQueueSize
  PROVE  /\ (a + c) % kQueueSize = IF a + c < kQueueSize THEN a + c ELSE a + c - kQueueSize
         /\ (a + c) % kQueueSize \in Ring
  <1>1. CASE a + c < kQueueSize
    BY <1>1, ControllerAssumption DEF Ring
  <1>2. CASE a + c >= kQueueSize
    BY <1>2, ControllerAssumption DEF Ring
  <1> QED BY <1>1, <1>2, ControllerAssumption DEF Ring

(* Nothing was asked of any module yet. *)
LEMMA InitInv == Init => IInv
  <1> SUFFICES ASSUME Init PROVE IInv
    OBVIOUS
  <1>1. TypeOK
    <2>1. 0 \in Ring /\ 0 \in 0 .. kQueueSize
      BY ControllerAssumption DEF Ring
    <2>2. /\ script \in [queue : [Ring -> Instructions \cup {Nothing}], head : Ring, tail : Ring,
                         count : 0 .. kQueueSize, work : BOOLEAN]
      BY <2>1 DEF Init
    <2>3. /\ config \in [pending : BOOLEAN, buffer : Settings, left : Settings]
          /\ latest \in Seq(Keys \X Values) /\ waiting \in Seq(Instructions)
      BY DEF Init, Settings
    <2> QED BY <2>2, <2>3 DEF Init, TypeOK
  <1>2. RelayPromise /\ ModbusPromise
    BY DEF Init, RelayPromise, LastCommandObeyed, ModbusPromise,
           LastAddressSent
  <1>3. ScriptPromise
    <2>1. 0 = (0 + 0) % kQueueSize
      BY ControllerAssumption
    <2>2. script.work = (waiting # <<>>)
      BY Zenon DEF Init
    <2>3. Len(waiting) = 0 /\ script.count = 0 /\ script.head = 0 /\ script.tail = 0
      BY DEF Init
    <2> QED BY <2>1, <2>2, <2>3 DEF ScriptPromise, ScriptInOrder
  <1>4. ConfigPromise
    BY DEF Init, ConfigPromise, StoredUpTo, Buffered
  <1> QED BY <1>1, <1>2, <1>3, <1>4 DEF IInv

(* The relay takes a command, or is given one. *)
LEMMA RelayInv ==
  ASSUME IInv, RelayTick \/ \E on \in BOOLEAN : SetRelay(on)
  PROVE  IInv'
  <1> USE DEF IInv
  <1>1. /\ UNCHANGED <<program, down, halted, mVars, sVars, cVars>>
        /\ running' = running \/ (running = "none" /\ running' = "relay")
    BY DEF RelayTick, Begin, SetRelay
  <1>2. ModbusPromise' /\ ScriptPromise' /\ ConfigPromise'
    BY <1>1, ModbusKept, ScriptKept, ConfigKept DEF mVars
  <1>3. /\ relay' \in [on : BOOLEAN, pending : BOOLEAN, target : BOOLEAN]
        /\ wanted' \in BOOLEAN
    BY DEF RelayTick, SetRelay, TypeOK
  <1>4. TypeOK'
    BY <1>1, <1>3 DEF TypeOK, Modules, mVars, sVars, cVars
  <1>5. RelayPromise'
    BY DEF RelayTick, Begin, SetRelay, RelayPromise, LastCommandObeyed, TypeOK
  <1> QED BY <1>2, <1>4, <1>5

(* The same for Modbus. *)
LEMMA ModbusInv ==
  ASSUME IInv, ModbusTick \/ \E a \in Registers : WriteCoil(a)
  PROVE  IInv'
  <1> USE DEF IInv
  <1>1. /\ UNCHANGED <<program, down, halted, dVars, pollAddr, sVars, cVars>>
        /\ running' = running \/ (running = "none" /\ running' = "modbus")
    BY DEF ModbusTick, Begin, WriteCoil
  <1>2. RelayPromise' /\ ScriptPromise' /\ ConfigPromise'
    BY <1>1, RelayKept, ScriptKept, ConfigKept
  <1>3. /\ modbus' \in [pending : BOOLEAN, addr : Registers \cup {Nothing},
                        sent : Frames \cup {Nothing}]
        /\ asked' \in Registers \cup {Nothing}
    <2>1. \A a \in Registers \cup {Nothing} : ReadFrame(a) \in Frames
      BY DEF Frames
    <2> QED BY <2>1 DEF ModbusTick, WriteCoil, TypeOK
  <1>4. TypeOK'
    BY <1>1, <1>3 DEF TypeOK, Modules, dVars, sVars, cVars
  <1>5. ModbusPromise'
    <2>1. ASSUME ModbusTick
          PROVE  ModbusPromise'
      <3>1. modbus.pending /\ modbus' = [modbus EXCEPT !.pending = FALSE, !.sent = ReadFrame(modbus.addr)]
            /\ asked' = asked
        BY <2>1 DEF ModbusTick
      <3>2. ~modbus'.pending /\ modbus'.sent = ReadFrame(modbus.addr)
        BY <3>1 DEF TypeOK
      <3>3. modbus.addr = asked
        BY <3>1 DEF ModbusPromise
      <3> QED BY <3>1, <3>2, <3>3 DEF ModbusPromise, LastAddressSent
    <2>2. ASSUME NEW a \in Registers, WriteCoil(a)
          PROVE  ModbusPromise'
      BY <2>2 DEF WriteCoil, ModbusPromise, LastAddressSent, TypeOK
    <2> QED BY <2>1, <2>2
  <1> QED BY <1>2, <1>4, <1>5

(* Sensor and gateway only publish. *)
LEMMA PublishersInv ==
  ASSUME IInv, SensorTick \/ GatewayTick
  PROVE  IInv'
  <1> USE DEF IInv
  <1>1. /\ UNCHANGED <<program, down, halted, dVars, mVars, sVars, cVars>>
        /\ running = "none" /\ running' \in {"sensor", "gateway"}
    BY DEF SensorTick, GatewayTick, Begin
  <1>2. TypeOK'
    BY <1>1 DEF TypeOK, Modules, dVars, mVars, sVars, cVars
  <1> QED BY <1>1, <1>2, RelayKept, ModbusKept, ScriptKept, ConfigKept DEF mVars

(* enqueueInstruction() writes where no waiting instruction is. *)
LEMMA EnqueueInv ==
  ASSUME IInv, NEW i \in Instructions, EnqueueInstruction(i)
  PROVE  IInv'
  <1> USE DEF IInv
  <1> DEFINE h == script.head
             n == script.count
             t == script.tail
  <1>1. /\ h \in Ring /\ t \in Ring /\ n \in 0 .. kQueueSize /\ n < kQueueSize
        /\ script.queue \in [Ring -> Instructions \cup {Nothing}]
        /\ waiting \in Seq(Instructions) /\ kQueueSize \in Nat \ {0}
    BY ControllerAssumption DEF EnqueueInstruction, TypeOK
  <1>2. /\ script' = [script EXCEPT !.queue[t] = i, !.tail = (@ + 1) % kQueueSize,
                                    !.count = @ + 1, !.work = TRUE]
        /\ waiting' = Append(waiting, i)
        /\ UNCHANGED <<program, running, down, halted, dVars, mVars, cVars>>
    BY DEF EnqueueInstruction
  <1>3. /\ script'.queue = [script.queue EXCEPT ![t] = i]
        /\ script'.head = h /\ script'.tail = (t + 1) % kQueueSize
        /\ script'.count = n + 1 /\ script'.work = TRUE
    BY <1>2 DEF TypeOK
  <1>4. (t + 1) % kQueueSize \in Ring /\ n + 1 \in 0 .. kQueueSize
    BY <1>1, RingWrap
  <1>5. script' \in [queue : [Ring -> Instructions \cup {Nothing}], head : Ring, tail : Ring,
                     count : 0 .. kQueueSize, work : BOOLEAN]
    BY <1>1, <1>2, <1>4 DEF TypeOK
  <1>6. waiting' \in Seq(Instructions) /\ Len(waiting') = Len(waiting) + 1
    BY <1>1, <1>2
  <1>7. TypeOK'
    BY <1>2, <1>5, <1>6 DEF TypeOK, dVars, mVars, cVars
  <1>8. ScriptPromise'
    <2> SUFFICES ASSUME "script" \notin down
                 PROVE  /\ script'.count = Len(waiting')
                        /\ script'.work = (waiting' # <<>>)
                        /\ \A k \in 1 .. Len(waiting') :
                             script'.queue[(script'.head + k - 1) % kQueueSize] = waiting'[k]
                        /\ script'.tail = (script'.head + script'.count) % kQueueSize
      BY <1>2 DEF ScriptPromise, ScriptInOrder
    <2>1. /\ n = Len(waiting) /\ t = (h + n) % kQueueSize
          /\ \A k \in 1 .. n : script.queue[(h + k - 1) % kQueueSize] = waiting[k]
      BY DEF ScriptPromise, ScriptInOrder
    <2>2. script'.count = Len(waiting') /\ waiting' # <<>>
      BY <1>2, <1>3, <1>6, <2>1
    <2>3. ASSUME NEW k \in 1 .. n + 1
          PROVE  script'.queue[(h + k - 1) % kQueueSize] = waiting'[k]
      <3>1. k - 1 \in 0 .. kQueueSize /\ h + k - 1 = h + (k - 1)
        BY <1>1, <2>3 DEF Ring
      <3>2. CASE k = n + 1
        <4>1. (h + k - 1) % kQueueSize = t
          BY <1>1, <2>1, <3>1, <3>2
        <4> QED BY <1>1, <1>2, <1>3, <2>1, <3>2, <4>1
      <3>3. CASE k # n + 1
        <4>1. k \in 1 .. n /\ k \in 1 .. Len(waiting)
          BY <1>1, <2>1, <2>3, <3>3
        <4>2. (h + (k - 1)) % kQueueSize # t /\ (h + (k - 1)) % kQueueSize \in Ring
          <5>1. /\ (h + (k - 1)) % kQueueSize
                     = IF h + (k - 1) < kQueueSize THEN h + (k - 1)
                                                   ELSE h + (k - 1) - kQueueSize
                /\ (h + (k - 1)) % kQueueSize \in Ring
            BY <1>1, <3>1, RingWrap
          <5>2. t = IF h + n < kQueueSize THEN h + n ELSE h + n - kQueueSize
            BY <1>1, <2>1, RingWrap
          <5>3. /\ h \in Nat /\ n \in Nat /\ k \in Nat /\ k >= 1 /\ k <= n
                /\ n < kQueueSize /\ h < kQueueSize
            BY <1>1, <4>1 DEF Ring
          <5>4. kQueueSize \in Nat
            BY <1>1
          <5> HIDE DEF h, n, t, IInv
          <5>5. (h + (k - 1)) % kQueueSize # t
            <6> DEFINE x == (h + (k - 1)) % kQueueSize
            <6>1. x = IF h + (k - 1) < kQueueSize THEN h + (k - 1)
                                                  ELSE h + (k - 1) - kQueueSize
              BY <5>1
            <6> HIDE DEF x
            <6>2. x # t
              BY <5>2, <5>3, <5>4, <6>1
            <6> QED BY <6>2 DEF x
          <5> QED BY <5>1, <5>5
        <4>3. waiting'[k] = waiting[k]
          BY <1>1, <1>2, <4>1
        <4> QED BY <1>1, <1>3, <2>1, <3>1, <4>1, <4>2, <4>3
      <3> QED BY <3>2, <3>3
    <2>4. (t + 1) % kQueueSize = (h + (n + 1)) % kQueueSize
      <3>1. 1 \in 0 .. kQueueSize
        BY <1>1
      <3>2. t = IF h + n < kQueueSize THEN h + n ELSE h + n - kQueueSize
        BY <1>1, <2>1, RingWrap
      <3>3. (t + 1) % kQueueSize = IF t + 1 < kQueueSize THEN t + 1 ELSE t + 1 - kQueueSize
        BY <1>1, <3>1, RingWrap
      <3>4. (h + (n + 1)) % kQueueSize
              = IF h + (n + 1) < kQueueSize THEN h + (n + 1) ELSE h + (n + 1) - kQueueSize
        BY <1>1, <1>4, RingWrap
      <3>5. h \in Nat /\ n \in Nat /\ n < kQueueSize /\ h < kQueueSize
        BY <1>1 DEF Ring
      <3> HIDE DEF h, n, t
      <3> QED BY <1>1, <3>2, <3>3, <3>4, <3>5
    <2> QED BY <1>3, <2>1, <2>2, <2>3, <2>4
  <1> QED BY <1>2, <1>7, <1>8, RelayKept, ModbusKept, ConfigKept DEF mVars

(* tick() of the script engine works the queue off. *)
LEMMA ScriptTickInv ==
  ASSUME IInv, ScriptTick
  PROVE  IInv'
  <1> USE DEF IInv
  <1>1. /\ "script" \notin down
        /\ script' = [script EXCEPT !.head = (@ + script.count) % kQueueSize, !.count = 0,
                                    !.work = FALSE]
        /\ waiting' = <<>>
        /\ UNCHANGED <<program, running, down, halted, dVars, mVars, cVars>>
    BY DEF ScriptTick
  <1>2. script.head \in Ring /\ script.tail \in Ring /\ script.count \in 0 .. kQueueSize
    BY DEF TypeOK
  <1>3. script.tail = (script.head + script.count) % kQueueSize
    BY <1>1 DEF ScriptPromise
  <1>4. script.tail % kQueueSize = script.tail /\ 0 \in 0 .. kQueueSize
        /\ script.tail + 0 = script.tail
    BY <1>2, ControllerAssumption DEF Ring
  <1>5. /\ script'.head = script.tail /\ script'.tail = script.tail
        /\ script'.count = 0 /\ script'.work = FALSE
        /\ script' \in [queue : [Ring -> Instructions \cup {Nothing}], head : Ring, tail : Ring,
                        count : 0 .. kQueueSize, work : BOOLEAN]
    BY <1>1, <1>2, <1>3, <1>4 DEF TypeOK
  <1>6. TypeOK'
    BY <1>1, <1>5 DEF TypeOK, dVars, mVars, cVars
  <1>7. ScriptPromise'
    <2>1. script'.work = (waiting' # <<>>)
      BY <1>1, <1>5, Zenon
    <2>2. Len(waiting') = 0 /\ script'.tail = (script'.head + script'.count) % kQueueSize
      BY <1>1, <1>4, <1>5
    <2> QED BY <1>5, <2>1, <2>2 DEF ScriptPromise, ScriptInOrder
  <1> QED BY <1>1, <1>6, <1>7, RelayKept, ModbusKept, ConfigKept DEF mVars

(* requestShutdown() turns the relay off and forgets the instructions. *)
LEMMA ShutdownInv ==
  ASSUME IInv, RequestShutdown
  PROVE  IInv'
  <1> USE DEF IInv
  <1>1. /\ relay' = [on |-> FALSE, pending |-> FALSE, target |-> FALSE] /\ wanted' = FALSE
        /\ script' = [script EXCEPT !.count = 0, !.work = FALSE] /\ waiting' = <<>>
        /\ down' = Modules /\ halted' = halted \cup (Modules \ {RanModule})
        /\ UNCHANGED <<program, running, mVars, cVars>>
    BY DEF RequestShutdown, RelayOff
  <1>2. script' \in [queue : [Ring -> Instructions \cup {Nothing}], head : Ring, tail : Ring,
                     count : 0 .. kQueueSize, work : BOOLEAN]
    <2>1. 0 \in 0 .. kQueueSize
      BY ControllerAssumption
    <2> QED BY <1>1, <2>1 DEF TypeOK
  <1>3. TypeOK'
    <2>1. relay' \in [on : BOOLEAN, pending : BOOLEAN, target : BOOLEAN] /\ wanted' \in BOOLEAN
      BY <1>1
    <2>2. waiting' \in Seq(Instructions) /\ down' \subseteq Modules /\ halted' \subseteq Modules
      BY <1>1 DEF TypeOK
    <2> QED BY <1>1, <1>2, <2>1, <2>2 DEF TypeOK, mVars, cVars
  <1>4. RelayPromise' /\ ScriptPromise'
    BY <1>1 DEF RelayPromise, LastCommandObeyed, ScriptPromise, ScriptInOrder,
                Modules
  <1> QED BY <1>1, <1>3, <1>4, ModbusKept, ConfigKept DEF mVars

(* tick() returns. *)
LEMMA ReturnInv ==
  ASSUME IInv, Return
  PROVE  IInv'
  <1> USE DEF IInv
  <1>1. /\ running \notin {"none", "config"} /\ running' = "none"
        /\ down' \subseteq down /\ ("script" \in down => "script" \in down')
        /\ pollAddr' \in 0 .. 9
        /\ UNCHANGED <<program, halted, dVars, modbus, asked, sVars, cVars>>
    BY DEF Return, TypeOK, RanModule, Modules
  <1>2. TypeOK'
    BY <1>1 DEF TypeOK, dVars, sVars, cVars
  <1> QED BY <1>1, <1>2, RelayKept, ModbusKept, ScriptKept, ConfigKept

(* What strncpy() leaves in the buffer begins with the settings that fit. *)
LEMMA CopyFits ==
  ASSUME NEW c \in Configs, NEW b \in Copies(c)
  PROVE  /\ b \in Settings /\ SubSeq(c, 1, Fits[c]) \in Seq(Keys \X Values)
         /\ Len(SubSeq(c, 1, Fits[c])) <= Len(b)
         /\ \A i \in 1 .. Len(SubSeq(c, 1, Fits[c])) : SubSeq(c, 1, Fits[c])[i] = b[i]
  <1> DEFINE w == SubSeq(c, 1, Fits[c])
             x == <<c[Fits[c] + 1][1], Cut>>
  <1>1. c \in Seq(Keys \X Values) /\ Fits[c] \in 0 .. Len(c) /\ Len(c) \in Nat
    BY ControllerAssumption
  <1>2. w \in Seq(Keys \X Values) /\ Len(w) = Fits[c] /\ Len(w) \in Nat
    BY <1>1
  <1>3. w \in Settings
    <2>1. \A i \in 1 .. Len(w) : w[i] \in Keys \X (Values \cup {Cut})
      BY <1>2
    <2>2. w = [i \in 1 .. Len(w) |-> w[i]]
      BY <1>2
    <2> HIDE DEF w
    <2> QED BY <1>2, <2>1, <2>2, SeqDef DEF Settings
  <1>4. CASE b = w
    BY <1>2, <1>3, <1>4
  <1>5. CASE Fits[c] # Len(c) /\ b = Append(w, x)
    <2>1. Fits[c] + 1 \in 1 .. Len(c)
      BY <1>1, <1>5
    <2>2. c[Fits[c] + 1] \in Keys \X Values
      BY <1>1, <2>1
    <2>3. x \in Keys \X (Values \cup {Cut})
      BY <2>2
    <2> HIDE DEF w, x
    <2> QED BY <1>2, <1>3, <1>5, <2>3 DEF Settings, w
  <1> QED BY <1>4, <1>5 DEF Copies

(* A configuration is delivered: between ticks, or torn. *)
LEMMA DeliverInv ==
  ASSUME IInv, NEW c \in Configs, ApplyRemoteConfig(c)
  PROVE  IInv'
  <1> USE DEF IInv
  <1>1. /\ latest' = SubSeq(c, 1, Fits[c]) /\ torn' = (torn \/ running = "config")
        /\ UNCHANGED <<program, running, down, halted, dVars, mVars, sVars, nvs, lost>>
    BY DEF ApplyRemoteConfig
  <1>2. PICK b \in Copies(c) :
          IF running = "config"
            THEN \E i, j \in 0 .. Len(b) :
                   /\ j \in {i, i + 1}
                   /\ config' = [pending |-> TRUE, buffer |-> SubSeq(b, 1, i),
                                 left |-> SubSeq(b, j + 1, Len(b))]
            ELSE config' = [config EXCEPT !.pending = TRUE, !.buffer = b]
    BY DEF ApplyRemoteConfig
  <1>3. /\ b \in Settings /\ latest' \in Seq(Keys \X Values)
        /\ Len(latest') <= Len(b) /\ \A i \in 1 .. Len(latest') : latest'[i] = b[i]
    BY <1>1, CopyFits
  <1>4. CASE running = "config"
    <2>1. PICK i \in 0 .. Len(b), j \in 0 .. Len(b) :
            config' = [pending |-> TRUE, buffer |-> SubSeq(b, 1, i),
                       left |-> SubSeq(b, j + 1, Len(b))]
      BY <1>2, <1>4
    <2>2. SubSeq(b, 1, i) \in Settings /\ SubSeq(b, j + 1, Len(b)) \in Settings
      <3>1. 1 \in 1 .. Len(b) + 1 /\ j + 1 \in 1 .. Len(b) + 1 /\ Len(b) \in 0 .. Len(b)
        BY <1>3, <2>1 DEF Settings
      <3> QED BY <1>3, <2>1, <3>1 DEF Settings
    <2>3. TypeOK'
      BY <1>1, <1>3, <2>1, <2>2 DEF TypeOK, dVars, mVars, sVars
    <2>4. ConfigPromise'
      BY <1>1, <1>4 DEF ConfigPromise
    <2> QED BY <1>1, <2>3, <2>4, RelayKept, ModbusKept, ScriptKept DEF mVars
  <1>5. CASE running # "config"
    <2>1. config' = [config EXCEPT !.pending = TRUE, !.buffer = b]
      BY <1>2, <1>5
    <2>2. /\ config' \in [pending : BOOLEAN, buffer : Settings, left : Settings]
          /\ config'.buffer = b /\ config'.pending
      BY <1>3, <2>1 DEF TypeOK
    <2>3. TypeOK'
      BY <1>1, <1>3, <2>2 DEF TypeOK, dVars, mVars, sVars
    <2>4. Buffered'
      BY <1>2, <1>3, <2>2 DEF Buffered
    <2>5. ConfigPromise'
      BY <1>1, <1>5, <2>2, <2>4 DEF ConfigPromise
    <2> QED BY <1>1, <2>3, <2>5, RelayKept, ModbusKept, ScriptKept DEF mVars
  <1> QED BY <1>4, <1>5

(* applyPending() begins. *)
LEMMA ConfigTickInv ==
  ASSUME IInv, ConfigTick
  PROVE  IInv'
  <1> USE DEF IInv
  <1>1. /\ running = "none" /\ running' = "config"
        /\ config' = [config EXCEPT !.pending = FALSE, !.left = config.buffer]
        /\ UNCHANGED <<program, down, halted, dVars, mVars, sVars, nvs, latest, torn, lost>>
    BY DEF ConfigTick, Begin
  <1>2. /\ config' \in [pending : BOOLEAN, buffer : Settings, left : Settings]
        /\ config'.buffer = config.buffer /\ config'.left = config.buffer
    BY <1>1 DEF TypeOK
  <1>3. TypeOK'
    BY <1>1, <1>2 DEF TypeOK, Modules, dVars, mVars, sVars
  <1>4. ConfigPromise'
    <2> SUFFICES ASSUME OneValuePerKey, ~torn
                 PROVE  Buffered' /\ ParsedSoFar'
      BY <1>1 DEF ConfigPromise
    <2>1. Buffered'
      BY <1>1, <1>2 DEF ConfigPromise, Buffered
    <2>2. Len(config.buffer) \in Nat
      BY DEF TypeOK, Settings
    <2> QED BY <1>1, <1>2, <2>1, <2>2 DEF ParsedSoFar, StoredUpTo
  <1> QED BY <1>1, <1>3, <1>4, RelayKept, ModbusKept, ScriptKept DEF mVars

(* The b last places of a. *)
LEMMA Remainder ==
  ASSUME NEW a \in Nat, NEW b \in Nat, b >= 1, b <= a
  PROVE  /\ a - b \in Nat /\ (a - b) + 1 \in 1 .. a
         /\ 1 \in 1 .. b /\ a - (b - 1) = (a - b) + 1
  OBVIOUS

(* A setting is stored, or is not. *)
LEMMA ApplySettingInv ==
  ASSUME IInv, ApplySetting
  PROVE  IInv'
  <1> USE DEF IInv
  <1> DEFINE l == config.left
             s == Head(l)
             c == config.buffer
  <1>1. /\ running = "config" /\ l # <<>>
        /\ config' = [config EXCEPT !.left = Tail(l)]
        /\ UNCHANGED <<program, running, down, halted, dVars, mVars, sVars, latest, torn>>
    BY DEF ApplySetting
  <1>2. /\ l \in Settings /\ s \in Keys \X (Values \cup {Cut}) /\ s = l[1]
        /\ Tail(l) \in Settings /\ Len(Tail(l)) = Len(l) - 1
        /\ Len(l) \in Nat /\ Len(l) >= 1
        /\ \A i \in 1 .. Len(l) - 1 : Tail(l)[i] = l[i + 1]
    BY <1>1 DEF TypeOK, Settings
  <1>3. /\ config' \in [pending : BOOLEAN, buffer : Settings, left : Settings]
        /\ config'.buffer = c /\ config'.left = Tail(l)
    BY <1>1, <1>2 DEF TypeOK
  <1>4. PICK v \in Values \cup {Cut, Nothing} : nvs' = [nvs EXCEPT ![s[1]] = v]
    <2>1. nvs' = [nvs EXCEPT ![s[1]] = nvs[s[1]]] \/ nvs' = [nvs EXCEPT ![s[1]] = s[2]]
          \/ nvs' = [nvs EXCEPT ![s[1]] = Nothing]
      BY <1>2 DEF ApplySetting, TypeOK
    <2> QED BY <1>2, <2>1 DEF TypeOK
  <1>5. /\ nvs' \in [Keys -> Values \cup {Cut, Nothing}] /\ lost' \subseteq Keys
        /\ nvs'[s[1]] = s[2] \/ s[1] \in lost'
        /\ \A k \in Keys \ {s[1]} : nvs'[k] = nvs[k] /\ (k \in lost => k \in lost')
    <2>1. nvs' \in [Keys -> Values \cup {Cut, Nothing}] /\ lost' \subseteq Keys
      BY <1>2, <1>4 DEF ApplySetting, TypeOK
    <2>2. nvs'[s[1]] = s[2] \/ s[1] \in lost'
      BY <1>2 DEF ApplySetting, TypeOK
    <2>3. \A k \in Keys \ {s[1]} : nvs'[k] = nvs[k] /\ (k \in lost => k \in lost')
      BY <1>2, <1>4 DEF ApplySetting, TypeOK
    <2> QED BY <2>1, <2>2, <2>3
  <1>6. TypeOK'
    BY <1>1, <1>3, <1>5 DEF TypeOK, dVars, mVars, sVars
  <1>7. ConfigPromise'
    <2> SUFFICES ASSUME OneValuePerKey, ~torn
                 PROVE  Buffered' /\ ParsedSoFar'
      BY <1>1 DEF ConfigPromise
    <2> DEFINE done == Len(c) - Len(l)
    <2>1. /\ Buffered
          /\ Len(l) <= Len(c) /\ StoredUpTo(c, done)
          /\ \A i \in 1 .. Len(l) : l[i] = c[done + i]
      BY <1>1 DEF ConfigPromise, ParsedSoFar
    <2>2. c \in Settings /\ Len(c) \in Nat
      BY DEF TypeOK, Settings
    <2>3. /\ done \in Nat /\ done + 1 \in 1 .. Len(c) /\ 1 \in 1 .. Len(l)
          /\ Len(c) - Len(Tail(l)) = done + 1
      <3>1. Len(Tail(l)) = Len(l) - 1 /\ Len(l) \in Nat /\ Len(l) >= 1 /\ Len(l) <= Len(c)
        BY <1>2, <2>1
      <3>2. /\ Len(c) - Len(l) \in Nat /\ (Len(c) - Len(l)) + 1 \in 1 .. Len(c)
            /\ 1 \in 1 .. Len(l) /\ Len(c) - (Len(l) - 1) = (Len(c) - Len(l)) + 1
        BY <2>2, <3>1, Remainder
      <3> QED BY <3>1, <3>2
    <2>4. s = c[done + 1] /\ \E d \in Configs : c \in Copies(d)
      <3>1. l[1] = c[done + 1]
        BY <2>1, <2>3
      <3>2. c # <<>>
        BY <2>2, <2>3
      <3> QED BY <1>2, <2>1, <3>1, <3>2 DEF Buffered
    <2> HIDE DEF done
    <2>5. ASSUME NEW n \in 1 .. done + 1
          PROVE  nvs'[c[n][1]] = c[n][2] \/ c[n][1] \in lost'
      <3> HIDE DEF IInv
      <3>1. n \in 1 .. Len(c) /\ c[n] \in Keys \X (Values \cup {Cut})
        <4>1. n \in 1 .. Len(c)
          BY <2>2, <2>3
        <4> QED BY <2>2, <4>1 DEF Settings
      <3>2. CASE c[n][1] = s[1]
        <4>1. c[n][2] = s[2]
          <5>1. \A m, q \in 1 .. Len(c) : c[m][1] = c[q][1] => c[m][2] = c[q][2]
            BY <2>4 DEF OneValuePerKey
          <5> HIDE DEF s, c
          <5> QED BY <2>3, <2>4, <3>1, <3>2, <5>1
        <4> QED BY <1>5, <3>2, <4>1
      <3>3. CASE c[n][1] # s[1]
        <4>1. n \in 1 .. done
          <5>1. n # done + 1
            BY <2>4, <3>3
          <5> QED BY <2>3, <5>1
        <4>2. nvs[c[n][1]] = c[n][2] \/ c[n][1] \in lost
          BY <2>1, <4>1 DEF StoredUpTo
        <4>3. c[n][1] \in Keys \ {s[1]}
          BY <3>1, <3>3
        <4> QED BY <1>5, <4>2, <4>3
      <3> QED BY <3>2, <3>3
    <2>6. ASSUME NEW i \in 1 .. Len(l) - 1
          PROVE  Tail(l)[i] = c[done + 1 + i]
      <3>1. i + 1 \in 1 .. Len(l) /\ done + (i + 1) = done + 1 + i
        BY <1>2, <2>3
      <3> QED BY <1>2, <2>1, <3>1
    <2>7. ParsedSoFar'
      <3> HIDE DEF IInv
      <3>1. /\ Len(config'.left) = Len(l) - 1 /\ config'.buffer = c
            /\ Len(config'.buffer) - Len(config'.left) = done + 1
        BY <1>1, <1>2, <1>3, <2>3
      <3>2. Len(config'.left) <= Len(config'.buffer)
        BY <1>1, <1>2, <1>3, <2>1, <2>2, <3>1
      <3> HIDE DEF l, s, c
      <3> QED BY <1>1, <1>3, <2>5, <2>6, <3>1, <3>2 DEF ParsedSoFar, StoredUpTo
    <2>8. Buffered'
      BY <1>1, <1>3, <2>1 DEF Buffered
    <2> QED BY <2>7, <2>8
  <1> QED BY <1>1, <1>6, <1>7, RelayKept, ModbusKept, ScriptKept DEF mVars

(* The buffer is worked off, and SystemReady is published. *)
LEMMA ConfigReadyInv ==
  ASSUME IInv, ConfigReady
  PROVE  IInv'
  <1> USE DEF IInv
  <1>1. /\ running = "config" /\ running' = "ready" /\ config.left = <<>>
        /\ UNCHANGED <<program, down, halted, dVars, mVars, sVars, config, nvs, latest, torn, lost>>
    BY DEF ConfigReady, cVars
  <1>2. TypeOK'
    BY <1>1 DEF TypeOK, dVars, mVars, sVars
  <1>3. ConfigPromise'
    <2> SUFFICES ASSUME OneValuePerKey, ~torn
                 PROVE  Buffered' /\ StoredUpTo(config.buffer, Len(config.buffer))'
      BY <1>1 DEF ConfigPromise
    <2>1. Len(config.buffer) - Len(config.left) = Len(config.buffer)
      BY <1>1 DEF TypeOK, Settings
    <2>2. ParsedSoFar /\ Buffered
      BY <1>1 DEF ConfigPromise
    <2> QED BY <1>1, <2>1, <2>2 DEF ParsedSoFar, StoredUpTo, Buffered
  <1> QED BY <1>1, <1>2, <1>3, RelayKept, ModbusKept, ScriptKept DEF mVars

(* No step makes a module run, or takes it out of state Shutdown, that was *)
(* shut down from outside its own tick().                                  *)
LEMMA HaltStep == TypeOK /\ HaltPromise /\ [Next]_vars => HaltPromise'
  <1> SUFFICES ASSUME TypeOK, HaltPromise, [Next]_vars PROVE HaltPromise'
    OBVIOUS
  <1> USE DEF HaltPromise, RanModule
  <1>1. "none" \notin halted
    BY DEF TypeOK, Modules
  <1>2. CASE Call
    <2>1. CASE RequestShutdown
      BY <2>1 DEF RequestShutdown, TypeOK
    <2>2. CASE UNCHANGED <<running, down, halted>>
      BY <2>2
    <2> QED BY <1>2, <2>1, <2>2 DEF Call, SetRelay, WriteCoil, EnqueueInstruction, ApplyRemoteConfig
  <1>3. CASE RelayTick \/ SensorTick \/ ModbusTick \/ GatewayTick \/ ConfigTick
    BY <1>3 DEF RelayTick, SensorTick, ModbusTick, GatewayTick, ConfigTick, Begin
  <1>4. CASE ScriptTick \/ ApplySetting
    BY <1>4 DEF ScriptTick, ApplySetting
  <1>5. CASE ConfigReady
    BY <1>5 DEF ConfigReady
  <1>6. CASE Return
    BY <1>1, <1>6 DEF Return
  <1>7. CASE UNCHANGED vars
    BY <1>7 DEF vars
  <1> QED BY <1>2, <1>3, <1>4, <1>5, <1>6, <1>7 DEF Next

(* Every step preserves the inductive invariant. *)
LEMMA StepInv == IInv /\ [Next]_vars => IInv'
  <1> SUFFICES ASSUME IInv, [Next]_vars PROVE IInv'
    OBVIOUS
  <1>1. CASE UNCHANGED vars
    <2>1. UNCHANGED <<program, running, down, halted, dVars, mVars, sVars, cVars>>
      BY <1>1 DEF vars
    <2>2. TypeOK'
      BY <2>1 DEF IInv, TypeOK, dVars, mVars, sVars, cVars
    <2> QED BY <2>1, <2>2, RelayKept, ModbusKept, ScriptKept, ConfigKept DEF IInv, mVars
  <1>2. CASE Call
    BY <1>2, RelayInv, ModbusInv, EnqueueInv, DeliverInv, ShutdownInv DEF Call
  <1> QED BY <1>1, <1>2, RelayInv, ModbusInv, PublishersInv, ScriptTickInv, ConfigTickInv,
             ApplySettingInv, ConfigReadyInv, ReturnInv DEF Next

-----------------------------------------------------------------------------
(* The inductive invariant holds in every reachable state. *)
THEOREM Invariance == Spec => [](IInv /\ HaltPromise)
  <1>1. Init => HaltPromise
    BY DEF Init, HaltPromise
  <1>2. IInv => TypeOK
    BY DEF IInv
  <1> QED BY <1>1, <1>2, InitInv, StepInv, HaltStep, PTL DEF Spec

(* The last request made of relay and Modbus is the one they carry out,    *)
(* also when a callback made it in the middle of their tick(); and a relay *)
(* that is shut down from outside its own tick() is off for good.          *)
THEOREM LastRequestDoesWin == Spec => []LastRequestWins
  <1>1. IInv /\ HaltPromise => LastRequestWins
    BY DEF IInv, LastRequestWins, RelayStaysOff, RelayPromise, ModbusPromise, HaltPromise
  <1> QED BY <1>1, Invariance, PTL

(* The script engine executes what it accepted in that order, through      *)
(* every turn of a ring of any size, and the types hold.                   *)
THEOREM ScriptIsSound == Spec => []ScriptSound
  <1>1. IInv => ScriptSound
    BY DEF IInv, ScriptSound, ScriptPromise
  <1> QED BY <1>1, Invariance, PTL

(* If a key has one value in what fits in the buffer, every setting that   *)
(* fits is stored whole or refused by NvsManager, unless the next          *)
(* configuration arrives while this one is taken apart.                    *)
THEOREM ConfigIsWhole ==
  ASSUME OneValuePerKey
  PROVE  Spec => []ConfigWhole
  <1>1. IInv => ConfigWhole
    <2> SUFFICES ASSUME IInv, ~torn, ~config.pending, running # "config",
                        NEW n \in 1 .. Len(latest)
                 PROVE  nvs[latest[n][1]] = latest[n][2] \/ latest[n][1] \in lost
      BY DEF ConfigWhole
    <2>1. Buffered /\ StoredUpTo(config.buffer, Len(config.buffer))
      BY DEF IInv, ConfigPromise
    <2>2. Len(latest) \in Nat /\ Len(config.buffer) \in Nat
      BY DEF IInv, TypeOK, Settings
    <2>3. n \in 1 .. Len(config.buffer) /\ latest[n] = config.buffer[n]
      BY <2>1, <2>2 DEF Buffered
    <2> QED BY <2>1, <2>3 DEF StoredUpTo
  <1> QED BY <1>1, Invariance, PTL

=============================================================================
