-------------------------------- MODULE Boot --------------------------------
(***************************************************************************)
(* app_main: settings, WiFi, MQTT, then the modules one by one, each with  *)
(* what its message handler needs, its registration, or both.  The WiFi    *)
(* and MQTT tasks run along with it.  A save of settings ends in a         *)
(* restart; power may be lost, or an ESP_ERROR_CHECK abort, at any moment. *)
(***************************************************************************)
EXTENDS DeviceConfig, Wifi, MqttSession

CONSTANTS
    Modules,       \* what app_main starts after MQTT, in its order
    Topics,        \* those that register a topic, of the same name
    MaxRestarts    \* bound: restarts

ASSUME BootAssumption    == MaxRestarts \in Nat
ASSUME ModulesAssumption == Modules \in Seq(Range(Modules))

VARIABLES
    main,          \* pc, and the module that is being started
    ready,         \* queues and drivers that exist
    restarts

vars == <<configVars, wifiVars, mqttVars, main, ready, restarts>>

MainStart == [pc |-> "config", k |-> 1]

TypeOK ==
    /\ nvs \in [Setting -> Values \cup {Missing}]
    /\ s_config \in [Setting -> Values] /\ wanted \in [Setting -> Values]
    /\ cfg.i \in DOMAIN Fields /\ WifiType
    /\ Len(s_handlers) <= Len(Modules) /\ subscribing \in -1 .. Len(Modules) + 1
    /\ subscriptions \subseteq Topics \cup {CmdTopic}
    /\ main.k \in 1 .. Len(Modules) + 1

Init ==
    /\ ConfigInit /\ WifiInit /\ MqttOff
    /\ main = MainStart /\ ready = {} /\ restarts = 0

GoTo(pc) == main' = [main EXCEPT !.pc = pc]

---------------------------------------------------------------------------
(* The main task.                                                          *)

Configure ==
    /\ main.pc = "config"
    /\ \/ ConfigStep /\ UNCHANGED main
       \/ cfg.pc = "done" /\ GoTo("wifi") /\ UNCHANGED configVars
    /\ UNCHANGED <<wifiVars, mqttVars, ready, restarts>>

StartWifi ==
    /\ main.pc = "wifi" /\ GoTo("wait") /\ WifiStart
    /\ UNCHANGED <<configVars, mqttVars, ready, restarts>>

\* xEventGroupWaitBits has no time limit.
WaitForWifi ==
    /\ main.pc = "wait" /\ connectedBit /\ GoTo("mqtt")
    /\ UNCHANGED <<configVars, wifiVars, mqttVars, ready, restarts>>

\* mqtt_transport_init: the queues of the GDB topic, then the client.
StartMqtt ==
    /\ main.pc = "mqtt" /\ GoTo("module") /\ MqttStart
    /\ ready' = ready \cup {CmdTopic}
    /\ UNCHANGED <<configVars, wifiVars, restarts>>

PrepareModule == ready' = ready \cup {Modules[main.k]}

StartModule ==
    /\ main.pc = "module" /\ main.k <= Len(Modules) /\ PrepareModule
    /\ main' = IF Modules[main.k] \in Topics
               THEN [main EXCEPT !.pc = "register"]
               ELSE [main EXCEPT !.k = @ + 1]
    /\ UNCHANGED <<configVars, wifiVars, mqttVars, restarts>>

Register ==
    /\ main.pc = "register" /\ GoTo("subscribe")
    /\ AddHandler(Modules[main.k])
    /\ UNCHANGED <<configVars, wifiVars, ready, restarts>>

SubscribeModule ==
    /\ main.pc = "subscribe"
    /\ main' = [pc |-> "module", k |-> main.k + 1]
    /\ SubscribeHandler(Modules[main.k])
    /\ UNCHANGED <<configVars, wifiVars, ready, restarts>>

Running == main.pc = "module" /\ main.k > Len(Modules)

MainTask ==
    \/ Configure \/ StartWifi \/ WaitForWifi \/ StartMqtt
    \/ StartModule \/ Register \/ SubscribeModule

---------------------------------------------------------------------------
(* The other tasks, and restarts.                                          *)

WifiTask ==
    WifiStep /\ UNCHANGED <<configVars, mqttVars, main, ready, restarts>>

MqttTask ==
    /\ \/ link = "up" /\ MqttConnect
       \/ SubscribeNext
       \/ link # "up" /\ LoseConnection
    /\ UNCHANGED <<configVars, wifiVars, main, ready, restarts>>

Drop ==
    /\ \/ LoseLink /\ UNCHANGED mqttVars
       \/ /\ drops < MaxDrops /\ drops' = drops + 1 /\ LoseConnection
          /\ UNCHANGED <<link, events, s_retry_count, connectedBit, inARow>>
    /\ UNCHANGED <<configVars, main, ready, restarts>>

Reset ==
    /\ ConfigRestart
    /\ link' = "off" /\ events' = <<>> /\ s_retry_count' = 0 /\ connectedBit' = FALSE
    /\ inARow' = 0 /\ UNCHANGED drops
    /\ started' = FALSE /\ connected' = FALSE /\ s_handlers' = <<>>
    /\ subscriptions' = {} /\ subscribing' = -1
    /\ main' = MainStart /\ ready' = {}

RestartAfterSave ==
    /\ cfg.pc = "restart" /\ Reset
    /\ UNCHANGED restarts

PowerLoss ==
    /\ restarts < MaxRestarts /\ restarts' = restarts + 1
    /\ Reset

Next == MainTask \/ WifiTask \/ MqttTask \/ Drop \/ RestartAfterSave \/ PowerLoss

Spec == Init /\ [][Next]_vars

\* Tasks are scheduled; the access point and the broker answer when they are
\* reachable.
FairSpec ==
    Spec /\ WF_vars(MainTask) /\ WF_vars(WifiTask) /\ WF_vars(MqttTask) /\ WF_vars(RestartAfterSave)

---------------------------------------------------------------------------
(* Properties.                                                             *)

\* The device runs on what NVS holds, and after a save that was whole that is
\* what was entered at the prompt, however often power is lost.
SettingsPersist ==
    cfg.pc = "done" => /\ s_config = Stored
                       /\ ~torn => s_config = wanted

\* The station gives up after its initial attempt and WIFI_MAX_RETRY more, none
\* of which got an address, whatever happened before.
GivesUpAfterRetries ==
    main.pc # "config" /\ GaveUp => inARow = WIFI_MAX_RETRY + 1

\* Registrations race with connections: whenever the MQTT task and the main task
\* are both done with what they are at, every registered topic is subscribed.
NothingUnsubscribed ==
    connected /\ subscribing = -1 /\ main.pc # "subscribe" => subscriptions = Registered

\* A message is not passed on before the queue or driver it goes to exists, nor
\* to the GDB queue because its handler is not there yet.
HandlersAreReady ==
    \A topic \in subscriptions : topic \in Registered /\ topic \in ready

\* Subscriptions, registrations and what is started stay in step, through losses
\* of the connection and restarts in the middle of a registration.
TopicsAreSound == TypeOK /\ NothingUnsubscribed /\ HandlersAreReady

\* After a power cycle the device comes back, unless someone edits its settings
\* again and again: it ends with every topic subscribed, or the station has given up.
Reconnects ==
    <>[](cfg.pc # "edit") =>
        <>[](GaveUp \/ (Running /\ subscriptions = Topics \cup {CmdTopic}))
=============================================================================
