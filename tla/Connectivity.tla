----------------------------- MODULE Connectivity -----------------------------
(***************************************************************************)
(* WiFiModule and MqttModule on the device (TAKT_ESP32):                   *)
(* middleware/src/wifi_module.cpp and middleware/src/mqtt_module.cpp.      *)
(*                                                                         *)
(* Three tasks run their code.  The takt loop ticks a background module    *)
(* while hasWork() and runs the reconnect timer; the event task of ESP-IDF *)
(* calls WiFiModule::tick() when the station is disconnected; the task of  *)
(* the MQTT client calls MqttModule::tick() for its events.  Nothing locks *)
(* the members, so the steps of tick() and of publish() interleave.        *)
(* A message has a topic and a payload of its own.                         *)
(***************************************************************************)
EXTENDS Naturals, FiniteSets

CONSTANTS
  Messages,     \* what the application publishes, each once
  NoMessage,    \* an empty topic
  MaxDrops      \* how often the access point is lost

ASSUME ConnectivityAssumption == NoMessage \notin Messages /\ MaxDrops \in Nat

VARIABLES
  link,         \* the station is associated
  trying,       \* after esp_wifi_connect()
  lost,         \* STA_DISCONNECTED is posted and not handled yet
  drops,
  wConnected, reconnectPending, eventPending,   \* WiFiModule
  announced,    \* how often WiFiConnected was published
  wpc,          \* where each task is in WiFiModule::tick()
  client,       \* gClient is not null
  mConnected, msgPending,                       \* MqttModule
  pendingTopic, pendingPayload,
  mpc,          \* where each task is in MqttModule
  arg,          \* the message that publish() was called with
  unpublished,
  sent,         \* what was handed to esp_mqtt_client_publish()
  overlap,      \* history: two tasks have been in MqttModule at once
  stage         \* "init", "wifi": before the init() of the one and of the other;
                \* "up", "down": between init() and shutdown() of both

wifiVars == <<link, trying, lost, drops, wConnected, reconnectPending, eventPending,
              announced, wpc>>
mqttVars == <<client, mConnected, msgPending, pendingTopic, pendingPayload, mpc, arg,
              unpublished, sent, overlap>>
vars == <<wifiVars, mqttVars, stage>>

up == stage = "up"

WifiTasks == {"takt", "event"}
MqttTasks == {"takt", "mqtt"}

(* The takt loop is between two modules, or in a callback of another one. *)
TaktIdle == wpc["takt"] = "idle" /\ mpc["takt"] = "idle"

(* reconnectPending_ is set from the beginning. *)
WifiFresh ==
  /\ link = FALSE /\ trying = FALSE /\ lost = FALSE /\ drops = 0
  /\ wConnected = FALSE /\ reconnectPending = TRUE /\ eventPending = FALSE

MqttFresh ==
  /\ client = FALSE
  /\ mConnected = FALSE /\ msgPending = FALSE
  /\ pendingTopic = NoMessage /\ pendingPayload = NoMessage

Init ==
  /\ WifiFresh
  /\ MqttFresh
  /\ announced = 0
  /\ wpc = [t \in WifiTasks |-> "idle"]
  /\ mpc = [t \in MqttTasks |-> "idle"]
  /\ arg = NoMessage
  /\ unpublished = Messages
  /\ sent = {}
  /\ overlap = FALSE
  /\ stage = "init"

-----------------------------------------------------------------------------
(* The station. *)

Associate ==
  /\ trying
  /\ trying' = FALSE
  /\ link' = TRUE
  /\ UNCHANGED <<lost, drops, wConnected, reconnectPending, eventPending, announced,
                 wpc, mqttVars, stage>>

(* No access point answers, or it goes away: STA_DISCONNECTED either way. *)
LinkLost ==
  /\ drops < MaxDrops
  /\ link \/ trying
  /\ link' = FALSE /\ trying' = FALSE
  /\ lost' = TRUE
  /\ drops' = drops + 1
  /\ UNCHANGED <<wConnected, reconnectPending, eventPending, announced, wpc, mqttVars, stage>>

-----------------------------------------------------------------------------
(* WiFiModule. *)

(* init(): the station and the reconnect timer are started; the MQTT       *)
(* client is to follow.                                                    *)
WifiInit ==
  /\ stage = "init"
  /\ stage' = "wifi"
  /\ UNCHANGED <<wifiVars, mqttVars>>

WGoto(t, label) == wpc' = [wpc EXCEPT ![t] = label]

(* The callback of the reconnect timer. *)
ReconnectTimer ==
  /\ up /\ TaktIdle
  /\ ~wConnected
  /\ reconnectPending' = TRUE
  /\ UNCHANGED <<link, trying, lost, drops, wConnected, eventPending, announced, wpc,
                 mqttVars, stage>>

(* The scheduler, which asks hasWork() first. *)
WifiTakt ==
  /\ up /\ TaktIdle
  /\ reconnectPending \/ eventPending
  /\ WGoto("takt", "reconnect")
  /\ UNCHANGED <<link, trying, lost, drops, wConnected, reconnectPending, eventPending,
                 announced, mqttVars, stage>>

(* onWifiEvent() *)
OnWifiEvent ==
  /\ lost
  /\ wpc["event"] = "idle"
  /\ lost' = FALSE
  /\ WGoto("event", "reconnect")
  /\ UNCHANGED <<link, trying, drops, wConnected, reconnectPending, eventPending,
                 announced, mqttVars, stage>>

TickReconnectKeeping(t) ==
  /\ wpc[t] = "reconnect"
  /\ IF reconnectPending
       THEN /\ reconnectPending' = FALSE
            /\ eventPending' = (up \/ eventPending)
       ELSE UNCHANGED <<reconnectPending, eventPending>>
  /\ WGoto(t, "status")
  /\ UNCHANGED <<link, trying, lost, drops, wConnected, announced, mqttVars, stage>>

(* connect(): esp_wifi_connect() fails when WiFi was stopped. *)
Connect ==
  /\ trying' = (up /\ ~link)
  /\ eventPending' = (up \/ eventPending)

(* tick(): a pending reconnect is taken up. *)
TickReconnect(t) ==
  /\ wpc[t] = "reconnect"
  /\ IF reconnectPending
       THEN reconnectPending' = FALSE /\ Connect
       ELSE UNCHANGED <<reconnectPending, trying, eventPending>>
  /\ WGoto(t, "status")
  /\ UNCHANGED <<link, lost, drops, wConnected, announced, mqttVars, stage>>

(* esp_wifi_sta_get_ap_info() and the test of connected_ *)
TickStatus(t) ==
  /\ wpc[t] = "status"
  /\ WGoto(t, IF link /\ ~wConnected THEN "announce" ELSE "events")
  /\ UNCHANGED <<link, trying, lost, drops, wConnected, reconnectPending, eventPending,
                 announced, mqttVars, stage>>

(* publish() of WiFiConnected.  What its subscribers do is not followed. *)
Announce ==
  /\ announced' = announced + 1
  /\ UNCHANGED mqttVars

TickAnnounceAgain(t) ==
  /\ wpc[t] = "announce"
  /\ Announce
  /\ WGoto(t, "events")
  /\ UNCHANGED <<link, trying, lost, drops, wConnected, reconnectPending, eventPending, stage>>

TickAnnounce(t) ==
  /\ wpc[t] = "announce"
  /\ wConnected' = TRUE
  /\ Announce
  /\ WGoto(t, "events")
  /\ UNCHANGED <<link, trying, lost, drops, reconnectPending, eventPending, stage>>

(* processEvents() *)
TickEvents(t) ==
  /\ wpc[t] = "events"
  /\ eventPending' = FALSE
  /\ WGoto(t, "idle")
  /\ UNCHANGED <<link, trying, lost, drops, wConnected, reconnectPending, announced,
                 mqttVars, stage>>

-----------------------------------------------------------------------------
(* MqttModule. *)

(* init() starts the client and its task; the takt loop begins. *)
MqttInit ==
  /\ stage = "wifi"
  /\ stage' = "up"
  /\ client' = TRUE
  /\ UNCHANGED <<wifiVars, mConnected, msgPending, pendingTopic, pendingPayload, mpc, arg,
                 unpublished, sent, overlap>>

MGoto(t, label) ==
  /\ mpc' = [mpc EXCEPT ![t] = label]
  /\ overlap' = (overlap \/ (label # "idle" /\ \E o \in MqttTasks \ {t} : mpc[o] # "idle"))

(* The scheduler again, while hasWork(). *)
MqttTakt ==
  /\ up /\ TaktIdle
  /\ msgPending
  /\ MGoto("takt", "hello")
  /\ UNCHANGED <<wifiVars, client, mConnected, msgPending, pendingTopic, pendingPayload,
                 arg, unpublished, sent, stage>>

(* onMqttEvent(): connected, or data. *)
OnMqttEvent ==
  /\ client
  /\ mpc["mqtt"] = "idle"
  /\ MGoto("mqtt", "hello")
  /\ UNCHANGED <<wifiVars, client, mConnected, msgPending, pendingTopic, pendingPayload,
                 arg, unpublished, sent, stage>>

(* tick(): a client that exists counts as connected. *)
TickHello(t) ==
  /\ mpc[t] = "hello"
  /\ mConnected' = (mConnected \/ client)
  /\ MGoto(t, "pending")
  /\ UNCHANGED <<wifiVars, client, msgPending, pendingTopic, pendingPayload, arg,
                 unpublished, sent, stage>>

TickPendingDropping(t) ==
  /\ mpc[t] = "pending"
  /\ msgPending' = FALSE
  /\ MGoto(t, "idle")
  /\ UNCHANGED <<wifiVars, client, mConnected, pendingTopic, pendingPayload, arg,
                 unpublished, sent, stage>>

TickPending(t) ==
  /\ mpc[t] = "pending"
  /\ msgPending' = FALSE
  /\ MGoto(t, IF msgPending /\ pendingTopic # NoMessage THEN "resend" ELSE "idle")
  /\ UNCHANGED <<wifiVars, client, mConnected, pendingTopic, pendingPayload, arg,
                 unpublished, sent, stage>>

(* publish() of the pending message; tick() has just set connected_. *)
TickResend(t) ==
  /\ mpc[t] = "resend"
  /\ client /\ mConnected
  /\ sent' = sent \cup {<<pendingTopic, pendingPayload>>}
  /\ MGoto(t, "clear")
  /\ UNCHANGED <<wifiVars, client, mConnected, msgPending, pendingTopic, pendingPayload,
                 arg, unpublished, stage>>

TickClear(t) ==
  /\ mpc[t] = "clear"
  /\ pendingTopic' = NoMessage
  /\ MGoto(t, "idle")
  /\ UNCHANGED <<wifiVars, client, mConnected, msgPending, pendingPayload, arg,
                 unpublished, sent, stage>>

(* publish(), called by the application in the takt loop. *)
Publish(m) ==
  /\ TaktIdle
  /\ m \in unpublished
  /\ unpublished' = unpublished \ {m}
  /\ IF client /\ mConnected
       THEN /\ sent' = sent \cup {<<m, m>>}
            /\ UNCHANGED <<mpc, arg, overlap>>
       ELSE /\ arg' = m
            /\ MGoto("takt", "topic")
            /\ UNCHANGED sent
  /\ UNCHANGED <<wifiVars, client, mConnected, msgPending, pendingTopic, pendingPayload, stage>>

PublishTopic ==
  /\ mpc["takt"] = "topic"
  /\ pendingTopic' = arg
  /\ MGoto("takt", "payload")
  /\ UNCHANGED <<wifiVars, client, mConnected, msgPending, pendingPayload, arg,
                 unpublished, sent, stage>>

PublishPayloadOnly ==
  /\ mpc["takt"] = "payload"
  /\ pendingPayload' = arg
  /\ MGoto("takt", "idle")
  /\ UNCHANGED <<wifiVars, client, mConnected, msgPending, pendingTopic, arg, unpublished,
                 sent, stage>>

PublishPayload ==
  /\ mpc["takt"] = "payload"
  /\ pendingPayload' = arg
  /\ msgPending' = TRUE
  /\ MGoto("takt", "idle")
  /\ UNCHANGED <<wifiVars, client, mConnected, pendingTopic, arg, unpublished, sent, stage>>

WifiShutdown ==
  /\ link' = FALSE /\ trying' = FALSE
  /\ wConnected' = FALSE

(* Stopping the client waits for its task. *)
MqttShutdown ==
  /\ mpc["mqtt"] = "idle"
  /\ client' = FALSE
  /\ mConnected' = FALSE

(* shutdownAll() of the scheduler *)
Shutdown ==
  /\ up /\ TaktIdle
  /\ stage' = "down"
  /\ WifiShutdown
  /\ MqttShutdown
  /\ UNCHANGED <<lost, drops, reconnectPending, eventPending, announced, wpc, msgPending,
                 pendingTopic, pendingPayload, mpc, arg, unpublished, sent, overlap>>

WifiStep(t) == TickReconnect(t) \/ TickStatus(t) \/ TickAnnounce(t) \/ TickEvents(t)

MqttStep(t) == TickHello(t) \/ TickPending(t) \/ TickResend(t) \/ TickClear(t)

Next ==
  \/ WifiInit
  \/ MqttInit
  \/ Associate
  \/ LinkLost
  \/ ReconnectTimer
  \/ WifiTakt
  \/ OnWifiEvent
  \/ \E t \in WifiTasks : WifiStep(t)
  \/ MqttTakt
  \/ OnMqttEvent
  \/ \E t \in MqttTasks : MqttStep(t)
  \/ \E m \in Messages : Publish(m)
  \/ PublishTopic
  \/ PublishPayload
  \/ Shutdown

(* Tasks are scheduled, the timer fires and the takt loop ticks who has    *)
(* work; an access point is in reach in the end.                           *)
Fairness ==
  /\ WF_vars(WifiInit)
  /\ WF_vars(MqttInit)
  /\ WF_vars(Associate)
  /\ SF_vars(ReconnectTimer)
  /\ SF_vars(WifiTakt)
  /\ SF_vars(MqttTakt)
  /\ WF_vars(OnWifiEvent)
  /\ \A t \in WifiTasks : WF_vars(WifiStep(t))
  /\ \A t \in MqttTasks : WF_vars(MqttStep(t))
  /\ WF_vars(PublishTopic \/ PublishPayload)

Spec == Init /\ [][Next]_vars /\ Fairness

-----------------------------------------------------------------------------
(* The types; WiFiConnected is announced by each of the two tasks at most  *)
(* once, for connected_ stays set.                                         *)
TypeOK ==
  /\ {link, trying, lost, wConnected, reconnectPending, eventPending, client, mConnected,
      msgPending, overlap} \subseteq BOOLEAN
  /\ stage \in {"init", "wifi", "up", "down"}
  /\ drops \in 0 .. MaxDrops
  /\ announced \in 0 .. Cardinality(WifiTasks)
  /\ wpc \in [WifiTasks -> {"idle", "reconnect", "status", "announce", "events"}]
  /\ mpc \in [MqttTasks -> {"idle", "hello", "pending", "resend", "clear", "topic", "payload"}]
  /\ {pendingTopic, pendingPayload, arg} \subseteq Messages \cup {NoMessage}
  /\ unpublished \subseteq Messages
  /\ sent \subseteq (Messages \cup {NoMessage}) \X (Messages \cup {NoMessage})

(* As long as the task of the MQTT client has not met the takt loop inside *)
(* the module, what is sent is what was published, topic with its payload. *)
SentAsPublished == ~overlap => \A p \in sent : p[1] = p[2] /\ p[1] \in Messages

(* ... and the message published last waits until it was sent.             *)
LastMessageKept ==
  ~overlap /\ up /\ arg # NoMessage /\ mpc["takt"] \notin {"topic", "payload"} =>
    \/ <<arg, arg>> \in sent
    \/ pendingTopic = arg /\ (msgPending \/ \E t \in MqttTasks : mpc[t] = "resend")

(* No message is torn or lost but by the meeting of two tasks, or by a     *)
(* later message.                                                          *)
MessagesKept == SentAsPublished /\ LastMessageKept

(* The message published last is handed to the client in the end, also     *)
(* when it was published before there was one, unless the tasks have met   *)
(* or a later message has taken its place.                                 *)
LastMessageSent ==
  \A m \in Messages :
    arg = m /\ mpc["takt"] \notin {"topic", "payload"} ~>
      <<m, m>> \in sent \/ arg # m \/ overlap \/ stage = "down"

(* The first connection comes about and is announced, however often the    *)
(* access point fails to answer before.                                    *)
FirstConnection == <>(announced > 0 \/ stage = "down")

(* When the connection is lost, the module connects again. *)
Reconnects == ~link ~> link \/ stage = "down"

=============================================================================
