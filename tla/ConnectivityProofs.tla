------------------------- MODULE ConnectivityProofs -------------------------
(***************************************************************************)
(* Proofs about Connectivity.tla, for every set of messages and every      *)
(* number of lost connections.                                             *)
(*                                                                         *)
(* For WiFiModule the invariant counts the announcements that are still to *)
(* come from tasks that have already seen connected_ clear.  For           *)
(* MqttModule it says how the two members of the pending message and       *)
(* messagePending_ belong together at every point of tick() and publish(), *)
(* as long as one task at a time has been there.                           *)
(***************************************************************************)
EXTENDS Connectivity, FiniteSetTheorems, TLAPS

(* The announcement that a task is about to make. *)
Coming(t) == IF wpc[t] = "announce" THEN 1 ELSE 0

(* Nobody announces a connection twice. *)
AnnouncedOnce ==
  /\ announced + Coming("takt") + Coming("event") <= 2
  /\ stage # "down" /\ ~wConnected => announced = 0

(* What the stages of the modules' life say of the station and the client. *)
StageSound ==
  /\ stage \in {"init", "wifi"} =>
       /\ ~link /\ ~trying /\ ~lost /\ announced = 0
       /\ \A t \in WifiTasks : wpc[t] = "idle"
  /\ stage = "down" => ~link /\ ~trying
  /\ up => client

(* No task is in MqttModule while the other one is. *)
OneAtATime == mpc["takt"] = "idle" \/ mpc["mqtt"] = "idle"

(* How far a message has got between publish() and the client. *)
PendingWhole ==
  /\ mpc["takt"] # "payload" => pendingTopic \in {NoMessage, pendingPayload}
  /\ mpc["takt"] \in {"topic", "payload"} => arg \in Messages
  /\ mpc["takt"] = "payload" => pendingTopic = arg
  /\ mpc["mqtt"] \notin {"topic", "payload"}
  /\ \A t \in MqttTasks :
       /\ mpc[t] = "resend" => pendingTopic # NoMessage
       /\ mpc[t] \in {"resend", "clear"} => ~msgPending

(* LastMessageKept, before init() and after shutdown() too. *)
LastKept ==
  arg # NoMessage /\ mpc["takt"] \notin {"topic", "payload"} =>
    \/ <<arg, arg>> \in sent
    \/ pendingTopic = arg /\ (msgPending \/ \E t \in MqttTasks : mpc[t] = "resend")

SentWhole == \A p \in sent : p[1] = p[2] /\ p[1] \in Messages

MqttSound == ~overlap => OneAtATime /\ PendingWhole /\ LastKept /\ SentWhole

IInv ==
  /\ TypeOK
  /\ AnnouncedOnce
  /\ StageSound
  /\ MqttSound

-----------------------------------------------------------------------------
(* Two tasks run WiFiModule::tick(). *)
LEMMA TwoTasks == Cardinality(WifiTasks) = 2
  <1>1. IsFiniteSet({"takt"}) /\ Cardinality({"takt"}) = 1
    BY FS_Singleton
  <1>2. WifiTasks = {"takt"} \cup {"event"} /\ "event" \notin {"takt"}
    BY DEF WifiTasks
  <1> QED BY <1>1, <1>2, FS_AddElement

(* MqttModule stays sound in a step that does not concern it. *)
LEMMA MqttKept ==
  MqttSound /\ UNCHANGED <<overlap, mpc, msgPending, pendingTopic, pendingPayload, arg, sent>>
    => MqttSound'
  BY DEF MqttSound, OneAtATime, PendingWhole, LastKept, SentWhole

(* So does WiFiModule, when its variables and the MQTT client stay as they *)
(* are.                                                                    *)
LEMMA WifiKept ==
  /\ AnnouncedOnce /\ StageSound
  /\ UNCHANGED <<wifiVars, client, stage>>
  => AnnouncedOnce' /\ StageSound'
  BY DEF AnnouncedOnce, Coming, StageSound, wifiVars, up

(* Before the first init() nothing has happened. *)
LEMMA InitInv == Init => IInv
  <1> SUFFICES ASSUME Init PROVE IInv
    OBVIOUS
  <1>1. TypeOK
    <2>1. drops \in 0 .. MaxDrops /\ announced \in 0 .. Cardinality(WifiTasks)
      BY ConnectivityAssumption, TwoTasks DEF Init, WifiFresh
    <2> QED BY <2>1 DEF Init, WifiFresh, MqttFresh, TypeOK
  <1>2. AnnouncedOnce /\ StageSound
    BY DEF Init, WifiFresh, MqttFresh, AnnouncedOnce, Coming, WifiTasks, StageSound, up
  <1>3. MqttSound
    BY DEF Init, MqttFresh, MqttSound, OneAtATime, PendingWhole, LastKept, SentWhole, MqttTasks
  <1> QED BY <1>1, <1>2, <1>3 DEF IInv

(* The station's own steps, and the reconnect timer. *)
LEMMA StationInv ==
  ASSUME IInv, WifiInit \/ Associate \/ LinkLost \/ ReconnectTimer
  PROVE  IInv'
  <1> USE DEF IInv
  <1>1. UNCHANGED <<mqttVars, wConnected, eventPending, announced, wpc>>
    BY DEF WifiInit, Associate, LinkLost, ReconnectTimer, wifiVars
  <1>2. drops' \in 0 .. MaxDrops
    BY ConnectivityAssumption
    DEF WifiInit, Associate, LinkLost, ReconnectTimer, wifiVars, TypeOK
  <1>3. {link', trying', lost', reconnectPending'} \subseteq BOOLEAN
    BY DEF WifiInit, Associate, LinkLost, ReconnectTimer, wifiVars, TypeOK
  <1>4. stage' \in {"init", "wifi", "up", "down"}
    BY DEF WifiInit, Associate, LinkLost, ReconnectTimer, TypeOK
  <1>5. TypeOK'
    BY <1>1, <1>2, <1>3, <1>4 DEF TypeOK, mqttVars
  <1>6. AnnouncedOnce' /\ StageSound'
    BY <1>1 DEF WifiInit, Associate, LinkLost, ReconnectTimer, wifiVars, mqttVars,
                AnnouncedOnce, Coming, StageSound, up
  <1> QED BY <1>1, <1>5, <1>6, MqttKept DEF mqttVars

(* WiFiModule::tick() is entered and goes on, in either task. *)
LEMMA WifiTickInv ==
  ASSUME IInv, WifiTakt \/ OnWifiEvent
                 \/ \E t \in WifiTasks : TickReconnect(t) \/ TickStatus(t) \/ TickEvents(t)
  PROVE  IInv'
  <1> USE DEF IInv
  <1>1. /\ UNCHANGED <<mqttVars, link, drops, wConnected, announced, stage>>
        /\ {trying', lost', reconnectPending', eventPending'} \subseteq BOOLEAN
    BY DEF WifiTakt, OnWifiEvent, TickReconnect, TickStatus, TickEvents, Connect, TypeOK
  <1>2. PICK t \in WifiTasks, label \in {"idle", "reconnect", "status", "announce", "events"} :
          /\ wpc' = [wpc EXCEPT ![t] = label]
          /\ label = "announce" => link /\ ~wConnected
    BY DEF WifiTakt, OnWifiEvent, TickReconnect, TickStatus, TickEvents, WGoto, WifiTasks
  <1>3. TypeOK'
    BY <1>1, <1>2 DEF TypeOK, mqttVars
  <1>4. stage \notin {"init", "wifi"}
    BY DEF WifiTakt, OnWifiEvent, TickReconnect, TickStatus, TickEvents, StageSound, up
  <1>5. stage = "down" => ~link /\ ~trying /\ ~link' /\ ~trying'
    BY <1>1 DEF WifiTakt, OnWifiEvent, TickReconnect, TickStatus, TickEvents, Connect,
                StageSound, up
  <1>6. StageSound'
    BY <1>1, <1>4, <1>5 DEF StageSound, up, mqttVars
  <1>7. /\ announced \in Nat
        /\ wpc \in [WifiTasks -> {"idle", "reconnect", "status", "announce", "events"}]
    BY TwoTasks DEF TypeOK
  <1>8. announced + Coming("takt")' + Coming("event")' <= 2
    <2>1. CASE label # "announce"
      BY <1>2, <1>7, <2>1 DEF AnnouncedOnce, Coming, WifiTasks
    <2>2. CASE label = "announce"
      <3>1. announced = 0
        BY <1>2, <1>5, <2>2 DEF AnnouncedOnce
      <3> QED BY <3>1 DEF Coming
    <2> QED BY <2>1, <2>2
  <1>9. AnnouncedOnce'
    BY <1>1, <1>8 DEF AnnouncedOnce
  <1> QED BY <1>1, <1>3, <1>6, <1>9, MqttKept DEF mqttVars

(* A task announces the connection. *)
LEMMA TickAnnounceInv ==
  ASSUME IInv, NEW t \in WifiTasks, TickAnnounce(t)
  PROVE  IInv'
  <1> USE DEF IInv
  <1>1. /\ wpc[t] = "announce" /\ wConnected' = TRUE /\ announced' = announced + 1
        /\ wpc' = [wpc EXCEPT ![t] = "events"]
        /\ UNCHANGED <<link, trying, lost, drops, reconnectPending, eventPending, stage>>
        /\ UNCHANGED <<client, mConnected, msgPending, pendingTopic, pendingPayload, mpc, arg,
                       unpublished, sent, overlap>>
    BY DEF TickAnnounce, Announce, mqttVars, WGoto
  <1>2. /\ announced \in Nat
        /\ wpc \in [WifiTasks -> {"idle", "reconnect", "status", "announce", "events"}]
    BY TwoTasks DEF TypeOK
  <1>3. announced' + Coming("takt")' + Coming("event")' <= 2
    BY <1>1, <1>2 DEF AnnouncedOnce, Coming, WifiTasks
  <1>4. announced' \in 0 .. 2
    BY <1>1, <1>2, <1>3 DEF Coming
  <1>5. TypeOK'
    BY <1>1, <1>4, TwoTasks DEF TypeOK
  <1>6. AnnouncedOnce'
    BY <1>1, <1>3 DEF AnnouncedOnce
  <1>7. StageSound'
    BY <1>1 DEF StageSound, up
  <1> QED BY <1>1, <1>5, <1>6, <1>7, MqttKept

(* init() of MqttModule, and shutdown() of both. *)
LEMMA LifeInv ==
  ASSUME IInv, MqttInit \/ Shutdown
  PROVE  IInv'
  <1> USE DEF IInv
  <1>1. /\ UNCHANGED <<overlap, mpc, msgPending, pendingTopic, pendingPayload, arg, sent>>
        /\ UNCHANGED <<lost, drops, reconnectPending, eventPending, announced, wpc, unpublished>>
        /\ {link', trying', wConnected', client', mConnected'} \subseteq BOOLEAN
        /\ stage' \in {"up", "down"}
    BY DEF MqttInit, Shutdown, WifiShutdown, MqttShutdown, wifiVars, TypeOK
  <1>2. TypeOK'
    BY <1>1 DEF TypeOK
  <1>3. AnnouncedOnce' /\ StageSound'
    BY <1>1 DEF MqttInit, Shutdown, WifiShutdown, MqttShutdown, wifiVars, AnnouncedOnce, Coming,
                StageSound, up
  <1> QED BY <1>1, <1>2, <1>3, MqttKept

(* What a step of MqttModule does besides its own business. *)
LEMMA MGotoType ==
  ASSUME TypeOK, NEW t \in MqttTasks,
         NEW label \in {"idle", "hello", "pending", "resend", "clear", "topic", "payload"},
         MGoto(t, label)
  PROVE  /\ mpc' \in [MqttTasks -> {"idle", "hello", "pending", "resend", "clear", "topic",
                                    "payload"}]
         /\ overlap' \in BOOLEAN
         /\ mpc'[t] = label
         /\ \A o \in MqttTasks : o # t => mpc'[o] = mpc[o]
         /\ overlap => overlap'
         /\ ~overlap' /\ label # "idle" => \A o \in MqttTasks : o # t => mpc[o] = "idle"
  BY DEF MGoto, TypeOK

(* MqttModule::tick() is entered, and finds the client connected. *)
LEMMA HelloInv ==
  ASSUME IInv, MqttTakt \/ OnMqttEvent \/ \E t \in MqttTasks : TickHello(t)
  PROVE  IInv'
  <1> USE DEF IInv
  <1>1. PICK t \in MqttTasks, label \in {"hello", "pending"} :
          MGoto(t, label) /\ mpc[t] \in {"idle", "hello"}
    BY DEF MqttTakt, TaktIdle, OnMqttEvent, TickHello, MqttTasks
  <1>2. /\ UNCHANGED <<wifiVars, client, msgPending, pendingTopic, pendingPayload, arg,
                       unpublished, sent, stage>>
        /\ mConnected' \in BOOLEAN
    BY DEF MqttTakt, OnMqttEvent, TickHello, TypeOK
  <1>3. /\ mpc' \in [MqttTasks -> {"idle", "hello", "pending", "resend", "clear", "topic",
                                   "payload"}]
        /\ overlap' \in BOOLEAN /\ (overlap => overlap')
        /\ mpc'[t] = label /\ (\A o \in MqttTasks : o # t => mpc'[o] = mpc[o])
        /\ ~overlap' => \A o \in MqttTasks : o # t => mpc[o] = "idle"
    BY <1>1, MGotoType
  <1>4. TypeOK'
    BY <1>2, <1>3 DEF TypeOK, wifiVars
  <1>5. MqttSound'
    BY <1>1, <1>2, <1>3
    DEF MqttSound, OneAtATime, PendingWhole, LastKept, SentWhole, MqttTasks
  <1> QED BY <1>2, <1>4, <1>5, WifiKept

(* tick() looks at the pending message. *)
LEMMA TickPendingInv ==
  ASSUME IInv, NEW t \in MqttTasks, TickPending(t)
  PROVE  IInv'
  <1> USE DEF IInv
  <1> DEFINE label == IF msgPending /\ pendingTopic # NoMessage THEN "resend" ELSE "idle"
  <1>1. /\ mpc[t] = "pending" /\ msgPending' = FALSE /\ MGoto(t, label)
        /\ UNCHANGED <<wifiVars, client, mConnected, pendingTopic, pendingPayload, arg,
                       unpublished, sent, stage>>
    BY DEF TickPending
  <1>2. /\ mpc' \in [MqttTasks -> {"idle", "hello", "pending", "resend", "clear", "topic",
                                   "payload"}]
        /\ overlap' \in BOOLEAN /\ (overlap => overlap')
        /\ mpc'[t] = label /\ (\A o \in MqttTasks : o # t => mpc'[o] = mpc[o])
    BY <1>1, MGotoType
  <1>3. TypeOK'
    BY <1>1, <1>2 DEF TypeOK, wifiVars
  <1>4. MqttSound'
    <2> SUFFICES ASSUME ~overlap'
                 PROVE  OneAtATime' /\ PendingWhole' /\ LastKept' /\ SentWhole'
      BY DEF MqttSound
    <2>1. OneAtATime /\ PendingWhole /\ LastKept /\ SentWhole
      BY <1>2 DEF MqttSound
    <2>2. \A o \in MqttTasks : o # t => mpc[o] = "idle"
      BY <1>1, <2>1 DEF OneAtATime, MqttTasks
    <2>3. OneAtATime' /\ PendingWhole' /\ SentWhole'
      BY <1>1, <1>2, <2>1, <2>2 DEF OneAtATime, PendingWhole, SentWhole, MqttTasks
    <2>4. LastKept'
      BY <1>1, <1>2, <2>1, <2>2 DEF LastKept, MqttTasks
    <2> QED BY <2>3, <2>4
  <1> QED BY <1>1, <1>3, <1>4, WifiKept

(* tick() hands the pending message to the client. *)
LEMMA TickResendInv ==
  ASSUME IInv, NEW t \in MqttTasks, TickResend(t)
  PROVE  IInv'
  <1> USE DEF IInv
  <1>1. /\ mpc[t] = "resend" /\ MGoto(t, "clear")
        /\ sent' = sent \cup {<<pendingTopic, pendingPayload>>}
        /\ UNCHANGED <<wifiVars, client, mConnected, msgPending, pendingTopic, pendingPayload,
                       arg, unpublished, stage>>
    BY DEF TickResend
  <1>2. /\ mpc' \in [MqttTasks -> {"idle", "hello", "pending", "resend", "clear", "topic",
                                   "payload"}]
        /\ overlap' \in BOOLEAN /\ (overlap => overlap')
        /\ mpc'[t] = "clear" /\ (\A o \in MqttTasks : o # t => mpc'[o] = mpc[o])
    BY <1>1, MGotoType
  <1>3. TypeOK'
    BY <1>1, <1>2 DEF TypeOK, wifiVars
  <1>4. MqttSound'
    <2> SUFFICES ASSUME ~overlap'
                 PROVE  OneAtATime' /\ PendingWhole' /\ LastKept' /\ SentWhole'
      BY DEF MqttSound
    <2>1. OneAtATime /\ PendingWhole /\ LastKept /\ SentWhole
      BY <1>2 DEF MqttSound
    <2>2. \A o \in MqttTasks : o # t => mpc[o] = "idle"
      BY <1>1, <2>1 DEF OneAtATime, MqttTasks
    <2>3. pendingTopic = pendingPayload /\ pendingTopic \in Messages /\ ~msgPending
      BY <1>1, <2>1, <2>2 DEF PendingWhole, MqttTasks, TypeOK
    <2>4. OneAtATime' /\ PendingWhole' /\ SentWhole'
      BY <1>1, <1>2, <2>1, <2>2, <2>3 DEF OneAtATime, PendingWhole, SentWhole, MqttTasks
    <2>5. LastKept'
      BY <1>1, <1>2, <2>1, <2>2, <2>3 DEF LastKept, MqttTasks
    <2> QED BY <2>4, <2>5
  <1> QED BY <1>1, <1>3, <1>4, WifiKept

(* tick() forgets the message it has sent. *)
LEMMA TickClearInv ==
  ASSUME IInv, NEW t \in MqttTasks, TickClear(t)
  PROVE  IInv'
  <1> USE DEF IInv
  <1>1. /\ mpc[t] = "clear" /\ MGoto(t, "idle") /\ pendingTopic' = NoMessage
        /\ UNCHANGED <<wifiVars, client, mConnected, msgPending, pendingPayload, arg,
                       unpublished, sent, stage>>
    BY DEF TickClear
  <1>2. /\ mpc' \in [MqttTasks -> {"idle", "hello", "pending", "resend", "clear", "topic",
                                   "payload"}]
        /\ overlap' \in BOOLEAN /\ (overlap => overlap')
        /\ mpc'[t] = "idle" /\ (\A o \in MqttTasks : o # t => mpc'[o] = mpc[o])
    BY <1>1, MGotoType
  <1>3. TypeOK'
    BY <1>1, <1>2 DEF TypeOK, wifiVars
  <1>4. MqttSound'
    <2> SUFFICES ASSUME ~overlap'
                 PROVE  OneAtATime' /\ PendingWhole' /\ LastKept' /\ SentWhole'
      BY DEF MqttSound
    <2>1. OneAtATime /\ PendingWhole /\ LastKept /\ SentWhole
      BY <1>2 DEF MqttSound
    <2>2. \A o \in MqttTasks : o # t => mpc[o] = "idle"
      BY <1>1, <2>1 DEF OneAtATime, MqttTasks
    <2>3. OneAtATime' /\ PendingWhole' /\ SentWhole'
      BY <1>1, <1>2, <2>1, <2>2 DEF OneAtATime, PendingWhole, SentWhole, MqttTasks
    <2>4. LastKept'
      BY <1>1, <1>2, <2>1, <2>2 DEF LastKept, PendingWhole, MqttTasks
    <2> QED BY <2>3, <2>4
  <1> QED BY <1>1, <1>3, <1>4, WifiKept

(* publish() of the application. *)
LEMMA PublishInv ==
  ASSUME IInv, \/ \E m \in Messages : Publish(m)
               \/ PublishTopic \/ PublishPayload
  PROVE  IInv'
  <1> USE DEF IInv
  <1>1. UNCHANGED <<wifiVars, client, mConnected, stage>>
    BY DEF Publish, PublishTopic, PublishPayload
  <1>2. ASSUME NEW m \in Messages, Publish(m), client /\ mConnected
        PROVE  IInv'
    <2>1. /\ sent' = sent \cup {<<m, m>>} /\ unpublished' = unpublished \ {m}
          /\ UNCHANGED <<mpc, arg, overlap, msgPending, pendingTopic, pendingPayload>>
      BY <1>2 DEF Publish
    <2>2. TypeOK'
      BY <1>1, <2>1 DEF TypeOK, wifiVars
    <2>3. MqttSound'
      BY <2>1 DEF MqttSound, OneAtATime, PendingWhole, LastKept, SentWhole
    <2> QED BY <1>1, <2>2, <2>3, WifiKept
  <1>3. ASSUME NEW m \in Messages, Publish(m), ~(client /\ mConnected)
        PROVE  IInv'
    <2>1. /\ mpc["takt"] = "idle" /\ MGoto("takt", "topic") /\ arg' = m
          /\ unpublished' = unpublished \ {m}
          /\ UNCHANGED <<sent, msgPending, pendingTopic, pendingPayload>>
      BY <1>3 DEF Publish, TaktIdle
    <2>2. /\ mpc' \in [MqttTasks -> {"idle", "hello", "pending", "resend", "clear", "topic",
                                     "payload"}]
          /\ overlap' \in BOOLEAN /\ (overlap => overlap')
          /\ mpc'["takt"] = "topic" /\ mpc'["mqtt"] = mpc["mqtt"]
          /\ ~overlap' => mpc["mqtt"] = "idle"
      BY <2>1, MGotoType DEF MqttTasks
    <2>3. TypeOK'
      BY <1>1, <2>1, <2>2 DEF TypeOK, wifiVars
    <2>4. MqttSound'
      BY <2>1, <2>2 DEF MqttSound, OneAtATime, PendingWhole, LastKept, SentWhole, MqttTasks
    <2> QED BY <1>1, <2>3, <2>4, WifiKept
  <1>4. CASE PublishTopic
    <2>1. /\ mpc["takt"] = "topic" /\ MGoto("takt", "payload") /\ pendingTopic' = arg
          /\ UNCHANGED <<sent, msgPending, pendingPayload, arg, unpublished>>
      BY <1>4 DEF PublishTopic
    <2>2. /\ mpc' \in [MqttTasks -> {"idle", "hello", "pending", "resend", "clear", "topic",
                                     "payload"}]
          /\ overlap' \in BOOLEAN /\ (overlap => overlap')
          /\ mpc'["takt"] = "payload" /\ mpc'["mqtt"] = mpc["mqtt"]
          /\ ~overlap' => mpc["mqtt"] = "idle"
      BY <2>1, MGotoType DEF MqttTasks
    <2>3. TypeOK'
      BY <1>1, <2>1, <2>2 DEF TypeOK, wifiVars
    <2>4. MqttSound'
      BY <2>1, <2>2 DEF MqttSound, OneAtATime, PendingWhole, LastKept, SentWhole, MqttTasks
    <2> QED BY <1>1, <2>3, <2>4, WifiKept
  <1>5. CASE PublishPayload
    <2>1. /\ mpc["takt"] = "payload" /\ MGoto("takt", "idle") /\ pendingPayload' = arg
          /\ msgPending' = TRUE
          /\ UNCHANGED <<sent, pendingTopic, arg, unpublished>>
      BY <1>5 DEF PublishPayload
    <2>2. /\ mpc' \in [MqttTasks -> {"idle", "hello", "pending", "resend", "clear", "topic",
                                     "payload"}]
          /\ overlap' \in BOOLEAN /\ (overlap => overlap')
          /\ mpc'["takt"] = "idle" /\ mpc'["mqtt"] = mpc["mqtt"]
      BY <2>1, MGotoType DEF MqttTasks
    <2>3. TypeOK'
      BY <1>1, <2>1, <2>2 DEF TypeOK, wifiVars
    <2>4. MqttSound'
      BY <2>1, <2>2 DEF MqttSound, OneAtATime, PendingWhole, LastKept, SentWhole, MqttTasks
    <2> QED BY <1>1, <2>3, <2>4, WifiKept
  <1> QED BY <1>2, <1>3, <1>4, <1>5

(* Every step preserves the inductive invariant. *)
LEMMA StepInv == IInv /\ [Next]_vars => IInv'
  <1> SUFFICES ASSUME IInv, [Next]_vars PROVE IInv'
    OBVIOUS
  <1>1. CASE UNCHANGED vars
    <2>1. UNCHANGED <<wifiVars, mqttVars, stage>>
      BY <1>1 DEF vars
    <2>2. TypeOK'
      BY <2>1 DEF IInv, TypeOK, wifiVars, mqttVars
    <2> QED BY <2>1, <2>2, WifiKept, MqttKept DEF IInv, mqttVars
  <1>2. CASE \E t \in WifiTasks : WifiStep(t)
    BY <1>2, WifiTickInv, TickAnnounceInv DEF WifiStep
  <1>3. CASE \E t \in MqttTasks : MqttStep(t)
    BY <1>3, HelloInv, TickPendingInv, TickResendInv, TickClearInv DEF MqttStep
  <1> QED BY <1>1, <1>2, <1>3, StationInv, WifiTickInv, LifeInv, HelloInv, PublishInv DEF Next

-----------------------------------------------------------------------------
(* The inductive invariant holds in every reachable state. *)
THEOREM Invariance == Spec => []IInv
  BY InitInv, StepInv, PTL DEF Spec

(* The types; the two tasks announce at most one connection each.          *)
THEOREM TypeCorrect == Spec => []TypeOK
  <1>1. IInv => TypeOK
    BY DEF IInv
  <1> QED BY <1>1, Invariance, PTL

(* No message is torn, and the last one is not lost, but by a meeting of   *)
(* the takt loop and the task of the client in MqttModule.                 *)
THEOREM MessagesAreKept == Spec => []MessagesKept
  <1>1. IInv => MessagesKept
    BY DEF IInv, MqttSound, MessagesKept, SentAsPublished, SentWhole, LastMessageKept, LastKept
  <1> QED BY <1>1, Invariance, PTL

=============================================================================
