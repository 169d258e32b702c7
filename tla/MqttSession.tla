----------------------------- MODULE MqttSession -----------------------------
(***************************************************************************)
(* Subscriptions of mqtt_transport.c.  A module registers its topic while  *)
(* the MQTT task may be connecting; on MQTT_EVENT_CONNECTED that task      *)
(* subscribes to the GDB topic and to what is registered by then.  A       *)
(* subscription needs a connection, and its result is not looked at; the   *)
(* broker forgets it when the connection ends.                             *)
(***************************************************************************)
EXTENDS SequencesExt

CONSTANTS
    CmdTopic,
    MAX_HANDLERS

VARIABLES
    started,        \* esp_mqtt_client_start was called
    connected,
    s_handlers,     \* registered topics, the first s_handler_count entries
    subscriptions,  \* at the broker
    subscribing     \* the CONNECTED loop: 0, then the handler it is at; or -1

mqttVars == <<started, connected, s_handlers, subscriptions, subscribing>>

MqttOff ==
    /\ started = FALSE /\ connected = FALSE /\ s_handlers = <<>>
    /\ subscriptions = {} /\ subscribing = -1

MqttStart ==
    started' = TRUE /\ UNCHANGED <<connected, s_handlers, subscriptions, subscribing>>

Subscribe(topic) ==
    subscriptions' = IF connected THEN subscriptions \cup {topic} ELSE subscriptions

---------------------------------------------------------------------------
(* The MQTT task.                                                          *)

MqttConnect ==
    /\ started /\ ~connected /\ subscribing = -1
    /\ connected' = TRUE /\ subscribing' = 0
    /\ UNCHANGED <<started, s_handlers, subscriptions>>

\* One round of the loop; s_handler_count is read each time.
SubscribeNext ==
    /\ subscribing >= 0
    /\ \/ subscribing = 0 /\ Subscribe(CmdTopic) /\ subscribing' = 1
       \/ /\ subscribing \in DOMAIN s_handlers
          /\ Subscribe(s_handlers[subscribing]) /\ subscribing' = subscribing + 1
       \/ subscribing > Len(s_handlers) /\ subscribing' = -1 /\ UNCHANGED subscriptions
    /\ UNCHANGED <<started, connected, s_handlers>>

LoseConnection ==
    /\ connected
    /\ connected' = FALSE /\ subscriptions' = {}
    /\ UNCHANGED <<started, s_handlers, subscribing>>

---------------------------------------------------------------------------
(* mqtt_transport_register_handler, in the main task.                      *)

AddHandler(topic) ==
    /\ Len(s_handlers) < MAX_HANDLERS
    /\ s_handlers' = Append(s_handlers, topic)
    /\ UNCHANGED <<started, connected, subscriptions, subscribing>>

\* Mutant: the subscription is left to the next connection.
SubscribeLater(topic) == UNCHANGED mqttVars

SubscribeHandler(topic) ==
    /\ Subscribe(topic)
    /\ UNCHANGED <<started, connected, s_handlers, subscribing>>

Registered == {CmdTopic} \cup Range(s_handlers)
=============================================================================
