----------------------------- MODULE HostBridge -----------------------------
(***************************************************************************)
(* host/gdb_mqtt_bridge.py: the accept loop, the thread that reads from    *)
(* GDB and the MQTT callback share self.gdb_conn without a lock, and each  *)
(* looks at it once to test it and again to use it.  An exception that a   *)
(* thread does not catch ends the thread; the others go on.                *)
(* A connection that GDB opens asks and waits for an answer, and may be    *)
(* closed at any time.  MQTT and the device pass on what they get.         *)
(***************************************************************************)
EXTENDS Integers

CONSTANTS
    MaxConns,      \* bound: connections
    MaxRequests    \* bound: requests of a connection

ASSUME BridgeAssumption == MaxConns \in Nat \ {0} /\ MaxRequests \in Nat

VARIABLES
    conn,          \* connections: none, waiting to be accepted, open, closed, or left
                   \* while it waited
    asked,         \* requests that a connection has sent
    relayed,       \* its requests that were published
    answered,      \* answers it has received
    gdb_conn,      \* self.gdb_conn, 0 for None
    recv, reading, \* gdb_recv_thread, and the connection it reads from
    mqtt,          \* mqtt_thread
    onDevice,      \* requests at the device
    responses,     \* messages on their way to on_mqtt_message
    hasty          \* GDB came too early or over another connection, or left before
                   \* its answer, or there is no broker

vars == <<conn, asked, relayed, answered, gdb_conn, recv, reading, mqtt, onDevice, responses,
          hasty>>

Conns == 1 .. MaxConns

TypeOK ==
    /\ conn \in [Conns -> {"none", "waiting", "left", "open", "closed"}]
    /\ asked \in [Conns -> 0 .. MaxRequests] /\ relayed \in [Conns -> 0 .. MaxRequests]
    /\ answered \in [Conns -> Nat]
    /\ gdb_conn \in Conns \cup {0}
    /\ recv \in {"test", "use", "reading", "dead"} /\ reading \in Conns \cup {0}
    /\ mqtt \in {"starting", "idle", "use", "dead"}
    /\ onDevice \in Nat /\ responses \in Nat /\ onDevice + responses <= MaxConns
    /\ hasty \in BOOLEAN

Init ==
    /\ conn = [c \in Conns |-> "none"]
    /\ asked = [c \in Conns |-> 0] /\ relayed = [c \in Conns |-> 0]
    /\ answered = [c \in Conns |-> 0]
    /\ gdb_conn = 0 /\ recv = "test" /\ reading = 0 /\ mqtt = "starting"
    /\ onDevice = 0 /\ responses = 0 /\ hasty = FALSE

---------------------------------------------------------------------------
(* GDB and the device.                                                     *)

client == <<conn, asked, answered>>
bridge == <<gdb_conn, recv, reading, mqtt>>

Connect(c) ==
    /\ conn[c] = "none" /\ \A d \in 1 .. c - 1 : conn[d] # "none"
    /\ conn' = [conn EXCEPT ![c] = "waiting"]
    /\ hasty' = (hasty \/ mqtt = "starting" \/ gdb_conn # 0
                       \/ \E d \in Conns : conn[d] \in {"waiting", "left", "open"})
    /\ UNCHANGED <<asked, relayed, answered, bridge, onDevice, responses>>

Ask(c) ==
    /\ conn[c] \in {"waiting", "open"} /\ asked[c] = answered[c] /\ asked[c] < MaxRequests
    /\ asked' = [asked EXCEPT ![c] = @ + 1]
    /\ UNCHANGED <<conn, relayed, answered, bridge, onDevice, responses, hasty>>

Close(c) ==
    /\ conn[c] \in {"waiting", "open"}
    /\ conn' = [conn EXCEPT ![c] = IF @ = "open" THEN "closed" ELSE "left"]
    /\ hasty' = (hasty \/ conn[c] = "waiting" \/ asked[c] # answered[c])
    /\ UNCHANGED <<asked, relayed, answered, bridge, onDevice, responses>>

DeviceAnswers ==
    /\ onDevice > 0
    /\ onDevice' = onDevice - 1 /\ responses' = responses + 1
    /\ UNCHANGED <<client, relayed, bridge, hasty>>

---------------------------------------------------------------------------
(* The accept loop and the reading thread.                                 *)

\* Mutant: the loop ends with the first connection.
AcceptOne(c) ==
    /\ c = 1 /\ conn[c] \in {"waiting", "left"}
    /\ conn' = [conn EXCEPT ![c] = IF @ = "waiting" THEN "open" ELSE "closed"]
    /\ gdb_conn' = c
    /\ UNCHANGED <<asked, relayed, answered, recv, reading, mqtt, onDevice, responses, hasty>>

\* A connection that GDB has closed already is accepted too, and read to its end.
Accept(c) ==
    /\ conn[c] \in {"waiting", "left"}
    /\ conn' = [conn EXCEPT ![c] = IF @ = "waiting" THEN "open" ELSE "closed"]
    /\ gdb_conn' = c
    /\ UNCHANGED <<asked, relayed, answered, recv, reading, mqtt, onDevice, responses, hasty>>

\* Mutant: None is not tested for.
TestNothing ==
    /\ recv = "test" /\ recv' = "use"
    /\ UNCHANGED <<client, relayed, gdb_conn, reading, mqtt, onDevice, responses, hasty>>

TestConnection ==
    /\ recv = "test" /\ gdb_conn # 0
    /\ recv' = "use"
    /\ UNCHANGED <<client, relayed, gdb_conn, reading, mqtt, onDevice, responses, hasty>>

\* None has no recv; AttributeError is not among the exceptions that are caught.
StartReading ==
    /\ recv = "use"
    /\ recv' = IF gdb_conn = 0 THEN "dead" ELSE "reading"
    /\ reading' = gdb_conn
    /\ UNCHANGED <<client, relayed, gdb_conn, mqtt, onDevice, responses, hasty>>

\* Mutant: what was read is published twice.
RelayTwice ==
    /\ recv = "reading" /\ relayed[reading] < asked[reading]
    /\ relayed' = [relayed EXCEPT ![reading] = asked[reading]]
    /\ recv' = "test" /\ reading' = 0 /\ onDevice' = onDevice + 2
    /\ UNCHANGED <<client, gdb_conn, mqtt, responses, hasty>>

\* What was read goes to MQTT; mqtt_client is None until its thread has started.
Relay ==
    /\ recv = "reading" /\ relayed[reading] < asked[reading]
    /\ relayed' = [relayed EXCEPT ![reading] = asked[reading]]
    /\ IF mqtt = "starting"
       THEN recv' = "dead" /\ UNCHANGED onDevice
       ELSE recv' = "test" /\ onDevice' = onDevice + 1
    /\ reading' = 0
    /\ UNCHANGED <<client, gdb_conn, mqtt, responses, hasty>>

\* The end of the data, or a reset: None, even if another connection came meanwhile.
EndOfConnection ==
    /\ recv = "reading" /\ conn[reading] = "closed"
    /\ gdb_conn' = 0
    /\ recv' = "test" /\ reading' = 0
    /\ UNCHANGED <<client, relayed, mqtt, onDevice, responses, hasty>>

---------------------------------------------------------------------------
(* The MQTT thread.                                                        *)

\* A broker that does not answer ends the thread.
StartMqtt ==
    /\ mqtt = "starting"
    /\ \/ mqtt' = "idle" /\ UNCHANGED hasty
       \/ mqtt' = "dead" /\ hasty' = TRUE
    /\ UNCHANGED <<client, relayed, gdb_conn, recv, reading, onDevice, responses>>

TestMessage ==
    /\ mqtt = "idle" /\ responses > 0
    /\ responses' = responses - 1
    /\ mqtt' = IF gdb_conn = 0 THEN "idle" ELSE "use"
    /\ UNCHANGED <<client, relayed, gdb_conn, recv, reading, onDevice, hasty>>

\* Again None is not expected; what a closed connection is sent may still be
\* taken, or fail and end it.
SendMessage ==
    /\ mqtt = "use"
    /\ \/ gdb_conn = 0 /\ mqtt' = "dead" /\ UNCHANGED <<answered, gdb_conn>>
       \/ /\ gdb_conn # 0 /\ conn[gdb_conn] = "open"
          /\ answered' = [answered EXCEPT ![gdb_conn] = @ + 1]
          /\ mqtt' = "idle" /\ UNCHANGED gdb_conn
       \/ /\ gdb_conn # 0 /\ conn[gdb_conn] = "closed"
          /\ mqtt' = "idle" /\ gdb_conn' \in {0, gdb_conn} /\ UNCHANGED answered
    /\ UNCHANGED <<conn, asked, relayed, recv, reading, onDevice, responses, hasty>>

ReadingThread == TestConnection \/ StartReading \/ Relay \/ EndOfConnection
MqttThread    == StartMqtt \/ TestMessage \/ SendMessage
AcceptLoop    == \E c \in Conns : Accept(c)

Next ==
    \/ \E c \in Conns : Connect(c) \/ Ask(c) \/ Close(c)
    \/ DeviceAnswers
    \/ AcceptLoop \/ ReadingThread \/ MqttThread

Spec == Init /\ [][Next]_vars

\* Threads are scheduled; MQTT and the device answer.
FairSpec ==
    /\ Spec
    /\ WF_vars(AcceptLoop) /\ WF_vars(ReadingThread) /\ WF_vars(MqttThread)
    /\ WF_vars(DeviceAnswers)

---------------------------------------------------------------------------
(* Properties.                                                             *)

\* While GDB opens one connection after another and waits for its answers,
\* no unlocked use of gdb_conn goes wrong: both threads live, and the open
\* connection is the one that is served.
PatientGdbIsServed ==
    ~hasty => /\ recv # "dead" /\ mqtt # "dead"
              /\ \A c \in Conns : conn[c] = "open" => gdb_conn = c

\* The bridge serves a patient GDB, and the device never has more to do than
\* there are connections that wait for it.
BridgeIsSound == TypeOK /\ PatientGdbIsServed

\* An answer goes to the connection that asked.
AnswersGoToTheAsker ==
    ~hasty => \A c \in Conns : answered[c] <= relayed[c]

\* A patient GDB gets its answers: every request is relayed and answered.
RequestsAreAnswered ==
    \A c \in Conns :
        asked[c] > answered[c] ~> hasty \/ asked[c] = answered[c]
=============================================================================
