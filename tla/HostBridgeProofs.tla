-------------------------- MODULE HostBridgeProofs --------------------------
(***************************************************************************)
(* The host bridge, for any number of connections and of requests.         *)
(***************************************************************************)
EXTENDS HostBridge, WellFoundedInduction, TLAPS

\* Requests at the device, answers on their way, and the one being sent.
Outstanding == onDevice + responses + IF mqtt = "use" THEN 1 ELSE 0

---------------------------------------------------------------------------
(* What holds however hasty GDB is.                                        *)

Types ==
    /\ conn \in [Conns -> {"none", "waiting", "left", "open", "closed"}]
    /\ asked \in [Conns -> 0 .. MaxRequests] /\ relayed \in [Conns -> 0 .. MaxRequests]
    /\ answered \in [Conns -> Nat]
    /\ gdb_conn \in Conns \cup {0}
    /\ recv \in {"test", "use", "reading", "dead"} /\ reading \in Conns \cup {0}
    /\ mqtt \in {"starting", "idle", "use", "dead"}
    /\ onDevice \in Nat /\ responses \in Nat /\ hasty \in BOOLEAN

\* A connection asks one request at a time.
OneAtATime ==
    /\ \A c \in Conns : relayed[c] <= asked[c] /\ asked[c] <= answered[c] + 1
    /\ recv = "reading" => reading # 0

Counts == [Conns -> Nat]

\* The running balance of what the connections relayed and received.
Ledger(r, a, s) ==
    /\ s \in [0 .. MaxConns -> Int] /\ s[0] = 0
    /\ \A c \in Conns : s[c] = s[c - 1] + (r[c] - a[c])

\* Nothing is outstanding that was not relayed, and an answer is taken once.
Balanced == \E s : Ledger(relayed, answered, s) /\ Outstanding <= s[MaxConns]

LEMMA LeastNat ==
    ASSUME NEW S, S \subseteq Nat, S # {}
    PROVE  \E i \in S : \A k \in S : i <= k
<1> DEFINE R == OpToRel(<, Nat)
<1>1. IsWellFoundedOn(R, Nat)
  BY NatLessThanWellFounded
<1>2. PICK i \in S : \A k \in S : ~(<<k, i>> \in R)
  <2> HIDE DEF R
  <2> QED
    BY <1>1, WFMin, Zenon
<1>3. \A k \in S : ~(k < i)
  BY <1>2 DEF OpToRel
<1> QED
  BY <1>3

\* A change to one connection's count changes the balance by as much.
LEMMA LedgerChange ==
    ASSUME NEW r \in Counts, NEW a \in Counts, NEW s, Ledger(r, a, s),
           NEW r2 \in Counts, NEW a2 \in Counts, NEW c \in Conns,
           \A d \in Conns : d # c => r2[d] = r[d] /\ a2[d] = a[d]
    PROVE  \E s2 : /\ Ledger(r2, a2, s2)
                   /\ s2[MaxConns] = s[MaxConns] + (r2[c] - a2[c]) - (r[c] - a[c])
<1> DEFINE d  == (r2[c] - a2[c]) - (r[c] - a[c])
           s2 == [i \in 0 .. MaxConns |-> IF i < c THEN s[i] ELSE s[i] + d]
<1>1. d \in Int /\ MaxConns \in Nat \ {0} /\ c \in 1 .. MaxConns
  BY BridgeAssumption DEF Conns, Counts
<1>2. s \in [0 .. MaxConns -> Int] /\ s[0] = 0
  BY DEF Ledger
<1>3. s2 \in [0 .. MaxConns -> Int] /\ s2[0] = 0 /\ s2[MaxConns] = s[MaxConns] + d
  BY <1>1, <1>2
<1>4. ASSUME NEW e \in Conns PROVE s2[e] = s2[e - 1] + (r2[e] - a2[e])
  <2>1. e \in 1 .. MaxConns /\ e - 1 \in 0 .. MaxConns /\ e \in 0 .. MaxConns
    BY <1>1 DEF Conns
  <2>2. s[e] = s[e - 1] + (r[e] - a[e]) /\ s[e] \in Int /\ s[e - 1] \in Int
    BY <1>2, <2>1 DEF Ledger
  <2>3. /\ s2[e] = IF e < c THEN s[e] ELSE s[e] + d
        /\ s2[e - 1] = IF e - 1 < c THEN s[e - 1] ELSE s[e - 1] + d
    BY <2>1
  <2>4. r[e] \in Nat /\ a[e] \in Nat /\ r2[e] \in Nat /\ a2[e] \in Nat
    BY DEF Counts
  <2>5. CASE e = c
    <3>1. s2[e] = s[e] + d /\ s2[e - 1] = s[e - 1]
      BY <1>1, <2>1, <2>3, <2>5
    <3>2. d = (r2[e] - a2[e]) - (r[e] - a[e])
      BY <2>5
    <3> HIDE DEF d, s2
    <3> QED
      BY <1>1, <2>2, <2>4, <3>1, <3>2
  <2>6. CASE e # c
    <3>1. r2[e] = r[e] /\ a2[e] = a[e] /\ (e < c <=> e - 1 < c)
      BY <1>1, <2>1, <2>6
    <3> HIDE DEF d, s2
    <3> QED
      BY <1>1, <2>2, <2>3, <2>4, <3>1
  <2> QED
    BY <2>5, <2>6
<1>5. Ledger(r2, a2, s2)
  BY <1>3, <1>4 DEF Ledger
<1>6. s2[MaxConns] = s[MaxConns] + (r2[c] - a2[c]) - (r[c] - a[c])
  BY <1>1, <1>2, <1>3
<1> QED
  BY <1>5, <1>6

\* A connection contributes one at most.
LEMMA LedgerBound ==
    ASSUME NEW r \in Counts, NEW a \in Counts, NEW s, Ledger(r, a, s),
           \A c \in Conns : r[c] <= a[c] + 1
    PROVE  s[MaxConns] <= MaxConns
<1> DEFINE High == {i \in 0 .. MaxConns : s[i] > i}
<1>1. MaxConns \in Nat /\ s \in [0 .. MaxConns -> Int] /\ s[0] = 0
  BY BridgeAssumption DEF Ledger
<1>2. SUFFICES ASSUME High # {} PROVE FALSE
  BY <1>1
<1>3. PICK i \in High : \A k \in High : i <= k
  <2>1. High \subseteq Nat /\ High # {}
    BY <1>1, <1>2
  <2> HIDE DEF High
  <2> QED
    BY <2>1, LeastNat, Zenon
<1>4. i \in Conns /\ i - 1 \in 0 .. MaxConns /\ s[i] > i
  BY <1>1, <1>3 DEF Conns
<1>5. s[i - 1] <= i - 1
  BY <1>1, <1>3, <1>4
<1>6. s[i] = s[i - 1] + (r[i] - a[i]) /\ r[i] <= a[i] + 1
  BY <1>4 DEF Ledger
<1>7. r[i] \in Nat /\ a[i] \in Nat /\ s[i] \in Int /\ s[i - 1] \in Int /\ i \in Int
  BY <1>1, <1>4 DEF Counts
<1> HIDE DEF High
<1> QED
  BY <1>4, <1>5, <1>6, <1>7

---------------------------------------------------------------------------

Always == Types /\ OneAtATime /\ Balanced

LEMMA InitAlways == Init => Always
<1> SUFFICES ASSUME Init PROVE Always
  OBVIOUS
<1>1. Types
  <2>1. [c \in Conns |-> 0] \in [Conns -> 0 .. MaxRequests]
    BY BridgeAssumption
  <2> QED
    BY <2>1 DEF Init, Types
<1>2. OneAtATime
  BY DEF Init, OneAtATime
<1> DEFINE s == [i \in 0 .. MaxConns |-> 0]
<1>3. Ledger(relayed, answered, s) /\ Outstanding <= s[MaxConns]
  BY BridgeAssumption DEF Init, Ledger, Outstanding, Conns
<1> QED
  BY <1>1, <1>2, <1>3 DEF Always, Balanced

LEMMA TypesStep == Types /\ OneAtATime /\ [Next]_vars => Types'
<1> SUFFICES ASSUME Types, OneAtATime, [Next]_vars PROVE Types'
  OBVIOUS
<1> USE DEF Types
<1>1. ASSUME NEW c \in Conns, Connect(c) \/ Ask(c) \/ Close(c) PROVE Types'
  <2>1. CASE Connect(c)
    BY <2>1 DEF Connect, bridge
  <2>2. CASE Ask(c)
    <3>1. asked[c] + 1 \in 0 .. MaxRequests
      BY <2>2, BridgeAssumption DEF Ask
    <3>2. asked' \in [Conns -> 0 .. MaxRequests]
      BY <2>2, <3>1 DEF Ask
    <3> QED
      BY <2>2, <3>2 DEF Ask, bridge
  <2>3. CASE Close(c)
    BY <2>3 DEF Close, bridge
  <2> QED
    BY <1>1, <2>1, <2>2, <2>3
<1>2. CASE DeviceAnswers
  BY <1>2 DEF DeviceAnswers, client, bridge
<1>3. CASE AcceptLoop
  BY <1>3 DEF AcceptLoop, Accept
<1>4. CASE ReadingThread
  <2>1. CASE TestConnection \/ StartReading \/ EndOfConnection
    BY <2>1 DEF TestConnection, StartReading, EndOfConnection, client
  <2>2. CASE Relay
    <3>1. relayed' = [relayed EXCEPT ![reading] = asked[reading]] /\ reading \in Conns
      BY <2>2 DEF Relay, OneAtATime
    <3>2. relayed' \in [Conns -> 0 .. MaxRequests]
      BY <3>1
    <3> QED
      BY <2>2, <3>2 DEF Relay, client
  <2> QED
    BY <1>4, <2>1, <2>2 DEF ReadingThread
<1>5. CASE MqttThread
  <2>1. CASE StartMqtt
    BY <2>1 DEF StartMqtt, client
  <2>2. CASE TestMessage
    BY <2>2 DEF TestMessage, client
  <2>3. CASE SendMessage
    BY <2>3 DEF SendMessage
  <2> QED
    BY <1>5, <2>1, <2>2, <2>3 DEF MqttThread
<1>6. CASE UNCHANGED vars
  BY <1>6 DEF vars
<1> QED
  BY <1>1, <1>2, <1>3, <1>4, <1>5, <1>6 DEF Next

LEMMA OneAtATimeStep == Types /\ OneAtATime /\ [Next]_vars => OneAtATime'
<1> SUFFICES ASSUME Types, OneAtATime, [Next]_vars PROVE OneAtATime'
  OBVIOUS
<1> USE DEF Types, OneAtATime
<1>1. \A c \in Conns : asked[c] \in Nat /\ relayed[c] \in Nat /\ answered[c] \in Nat
  BY BridgeAssumption
<1>2. ASSUME NEW c \in Conns, Connect(c) \/ Ask(c) \/ Close(c) PROVE OneAtATime'
  BY <1>1, <1>2 DEF Connect, Ask, Close, bridge
<1>3. CASE DeviceAnswers \/ AcceptLoop
  BY <1>3 DEF DeviceAnswers, client, bridge, AcceptLoop, Accept
<1>4. CASE ReadingThread
  BY <1>1, <1>4 DEF ReadingThread, TestConnection, StartReading, Relay, EndOfConnection, client
<1>5. CASE MqttThread
  BY <1>1, <1>5 DEF MqttThread, StartMqtt, TestMessage, SendMessage, client
<1>6. CASE UNCHANGED vars
  BY <1>6 DEF vars
<1> QED
  BY <1>2, <1>3, <1>4, <1>5, <1>6 DEF Next

\* What each step does to the books: nothing or less, one request more, or one
\* answer delivered.
LEMMA Bookkeeping ==
    ASSUME Types, OneAtATime, [Next]_vars
    PROVE  \/ UNCHANGED <<relayed, answered>> /\ Outstanding' <= Outstanding
           \/ /\ Relay /\ reading \in Conns /\ relayed[reading] < asked[reading]
              /\ relayed' = [relayed EXCEPT ![reading] = asked[reading]]
              /\ UNCHANGED answered /\ Outstanding' <= Outstanding + 1
           \/ /\ SendMessage /\ gdb_conn \in Conns
              /\ answered' = [answered EXCEPT ![gdb_conn] = @ + 1]
              /\ UNCHANGED relayed /\ Outstanding' = Outstanding - 1
<1> USE DEF Outstanding
<1>1. onDevice \in Nat /\ responses \in Nat
  BY DEF Types
<1>2. ASSUME NEW c \in Conns, Connect(c) \/ Ask(c) \/ Close(c)
      PROVE  UNCHANGED <<relayed, answered>> /\ Outstanding' <= Outstanding
  BY <1>1, <1>2 DEF Connect, Ask, Close, bridge
<1>3. CASE DeviceAnswers \/ AcceptLoop
  BY <1>1, <1>3 DEF DeviceAnswers, client, bridge, AcceptLoop, Accept
<1>4. CASE TestConnection \/ StartReading \/ EndOfConnection
  BY <1>1, <1>4 DEF TestConnection, StartReading, EndOfConnection, client
<1>5. CASE Relay
  BY <1>1, <1>5 DEF Relay, client, Types, OneAtATime
<1>6. CASE StartMqtt \/ TestMessage
  BY <1>1, <1>6 DEF StartMqtt, TestMessage, client
<1>7. CASE SendMessage
  BY <1>1, <1>7 DEF SendMessage, Types
<1>8. CASE UNCHANGED vars
  BY <1>1, <1>8 DEF vars
<1> QED
  BY <1>2, <1>3, <1>4, <1>5, <1>6, <1>7, <1>8 DEF Next, ReadingThread, MqttThread

LEMMA BalancedStep == Always /\ [Next]_vars => Balanced'
<1> SUFFICES ASSUME Always, [Next]_vars PROVE Balanced'
  OBVIOUS
<1>1. /\ Types /\ OneAtATime /\ Types'
      /\ MaxConns \in Conns /\ MaxConns \in 0 .. MaxConns /\ MaxRequests \in Nat
  BY TypesStep, BridgeAssumption DEF Always, Conns
<1>2. /\ relayed \in Counts /\ relayed' \in Counts
      /\ answered \in Counts /\ answered' \in Counts
      /\ asked \in Counts
  BY <1>1 DEF Types, Counts
<1>3. Outstanding \in Int /\ Outstanding' \in Int
  BY <1>1 DEF Types, Outstanding
<1>4. PICK s : Ledger(relayed, answered, s) /\ Outstanding <= s[MaxConns]
  BY DEF Always, Balanced
<1>5. s[MaxConns] \in Int
  BY <1>1, <1>4 DEF Ledger
<1>6. CASE UNCHANGED <<relayed, answered>> /\ Outstanding' <= Outstanding
  BY <1>3, <1>4, <1>5, <1>6 DEF Balanced
<1>7. CASE /\ reading \in Conns /\ relayed[reading] < asked[reading]
           /\ relayed' = [relayed EXCEPT ![reading] = asked[reading]]
           /\ UNCHANGED answered /\ Outstanding' <= Outstanding + 1
  <2>1. /\ reading \in Conns /\ relayed'[reading] = asked[reading]
        /\ \A d \in Conns : d # reading => relayed'[d] = relayed[d] /\ answered'[d] = answered[d]
    BY <1>2, <1>7 DEF Counts
  <2>2. PICK s2 : /\ Ledger(relayed', answered', s2)
                  /\ s2[MaxConns] = s[MaxConns] + (relayed'[reading] - answered'[reading])
                                      - (relayed[reading] - answered[reading])
    BY <1>2, <1>4, <2>1, LedgerChange
  <2>3. s2[MaxConns] >= s[MaxConns] + 1
    BY <1>2, <1>5, <1>7, <2>1, <2>2 DEF Counts
  <2>4. Outstanding' <= s2[MaxConns] /\ s2[MaxConns] \in Int
    BY <1>1, <1>3, <1>4, <1>5, <1>7, <2>2, <2>3 DEF Ledger
  <2> QED
    BY <2>2, <2>4 DEF Balanced
<1>8. CASE /\ gdb_conn \in Conns
           /\ answered' = [answered EXCEPT ![gdb_conn] = @ + 1]
           /\ UNCHANGED relayed /\ Outstanding' = Outstanding - 1
  <2>1. /\ gdb_conn \in Conns /\ answered'[gdb_conn] = answered[gdb_conn] + 1
        /\ \A d \in Conns : d # gdb_conn => relayed'[d] = relayed[d] /\ answered'[d] = answered[d]
    BY <1>2, <1>8 DEF Counts
  <2>2. PICK s2 : /\ Ledger(relayed', answered', s2)
                  /\ s2[MaxConns] = s[MaxConns] + (relayed'[gdb_conn] - answered'[gdb_conn])
                                      - (relayed[gdb_conn] - answered[gdb_conn])
    BY <1>2, <1>4, <2>1, LedgerChange
  <2>3. s2[MaxConns] = s[MaxConns] - 1
    BY <1>2, <1>5, <1>8, <2>1, <2>2 DEF Counts
  <2>4. Outstanding' <= s2[MaxConns]
    BY <1>3, <1>4, <1>5, <1>8, <2>3
  <2> QED
    BY <2>2, <2>4 DEF Balanced
<1> QED
  BY <1>1, <1>6, <1>7, <1>8, Bookkeeping

\* The device has at most one request of each connection to answer.
LEMMA AlwaysTyped == Always => TypeOK
<1> SUFFICES ASSUME Always PROVE TypeOK
  OBVIOUS
<1>1. Types /\ OneAtATime /\ MaxConns \in Nat /\ MaxRequests \in Nat
  BY BridgeAssumption DEF Always
<1>2. PICK s : Ledger(relayed, answered, s) /\ Outstanding <= s[MaxConns]
  BY DEF Always, Balanced
<1>3. relayed \in Counts /\ answered \in Counts /\ asked \in Counts
  BY <1>1 DEF Types, Counts
<1>4. \A c \in Conns : relayed[c] <= answered[c] + 1
  BY <1>1, <1>3 DEF OneAtATime, Counts
<1>5. s[MaxConns] <= MaxConns /\ s[MaxConns] \in Int
  <2>1. s[MaxConns] <= MaxConns
    BY <1>2, <1>3, <1>4, LedgerBound
  <2> QED
    BY <1>1, <1>2, <2>1 DEF Ledger
<1>6. onDevice + responses <= Outstanding /\ Outstanding \in Int
  BY <1>1 DEF Types, Outstanding
<1>7. onDevice + responses <= MaxConns
  BY <1>1, <1>2, <1>5, <1>6 DEF Types
<1> QED
  BY <1>1, <1>7 DEF TypeOK, Types

LEMMA AlwaysInvariance == Spec => []Always
<1>1. Always /\ [Next]_vars => Always'
  BY TypesStep, OneAtATimeStep, BalancedStep DEF Always
<1> QED
  BY InitAlways, <1>1, PTL DEF Spec

---------------------------------------------------------------------------
(* A patient GDB.                                                          *)

Present(c) == conn[c] \in {"waiting", "open"}
Owed(c)    == relayed[c] > answered[c]

\* At most one connection is there at a time; its requests are relayed and its
\* answers taken one by one; a thread that is about to use gdb_conn finds it.
Patient ==
    /\ \A c \in Conns :
         /\ conn[c] # "left" /\ answered[c] <= relayed[c]
         /\ ~Present(c) => asked[c] = answered[c]
         /\ Owed(c) => conn[c] = "open"
         /\ conn[c] = "waiting" => gdb_conn = 0
         /\ conn[c] = "open" => gdb_conn = c
         /\ mqtt = "starting" => conn[c] = "none"
         /\ \A d \in Conns : Present(c) /\ Present(d) => c = d
    /\ gdb_conn # 0 => conn[gdb_conn] \in {"open", "closed"}
    /\ recv # "dead" /\ mqtt # "dead"
    /\ recv = "use" => gdb_conn # 0
    /\ recv = "reading" => gdb_conn # 0 /\ reading = gdb_conn
    /\ Outstanding = IF \E c \in Conns : Owed(c) THEN 1 ELSE 0

LEMMA PatientStep ==
    ASSUME Types, OneAtATime, Patient, [Next]_vars, ~hasty'
    PROVE  Patient'
<1>1. \A c \in Conns : asked[c] \in Nat /\ relayed[c] \in Nat /\ answered[c] \in Nat
  BY BridgeAssumption DEF Types
<1>2. onDevice \in Nat /\ responses \in Nat
  BY DEF Types
<1>3. ASSUME NEW c \in Conns, Connect(c) PROVE Patient'
  BY <1>1, <1>3 DEF Connect, bridge, Types, Patient, Present, Owed, Outstanding
<1>4. ASSUME NEW c \in Conns, Ask(c) PROVE Patient'
  BY <1>1, <1>4 DEF Ask, bridge, Types, Patient, Present, Owed, Outstanding
<1>5. ASSUME NEW c \in Conns, Close(c) PROVE Patient'
  <2>0. conn[c] # "waiting" /\ asked[c] = answered[c] /\ conn[c] \in {"waiting", "open"}
    BY <1>5, Zenon DEF Close
  <2>1. conn[c] = "open" /\ asked[c] = answered[c] /\ ~Owed(c)
    BY <1>1, <2>0 DEF OneAtATime, Owed
  <2>2. conn' = [conn EXCEPT ![c] = "closed"]
    BY <1>5, <2>1 DEF Close
  <2> QED
    BY <1>1, <1>5, <2>1, <2>2
    DEF Close, bridge, Types, Patient, Present, Owed, Outstanding
<1>6. CASE DeviceAnswers
  BY <1>1, <1>2, <1>6 DEF DeviceAnswers, bridge, client, Types, Patient, Present, Owed, Outstanding
<1>7. ASSUME NEW c \in Conns, Accept(c) PROVE Patient'
  BY <1>1, <1>7 DEF Accept, Types, Patient, Present, Owed, Outstanding, Conns
<1>8. CASE TestConnection \/ StartReading
  BY <1>1, <1>8 DEF TestConnection, StartReading, client, Types, Patient, Present, Owed, Outstanding
<1>9. CASE Relay
  BY <1>1, <1>2, <1>9 DEF Relay, client, Types, OneAtATime, Patient, Present, Owed, Outstanding
<1>10. CASE EndOfConnection
  BY <1>1, <1>10 DEF EndOfConnection, client, Types, Patient, Present, Owed, Outstanding
<1>11. CASE StartMqtt
  BY <1>1, <1>11 DEF StartMqtt, client, Types, Patient, Present, Owed, Outstanding
<1>12. CASE TestMessage
  <2>1. PICK c \in Conns : Owed(c)
    BY <1>1, <1>2, <1>12 DEF TestMessage, Patient, Outstanding
  <2>2. gdb_conn = c /\ gdb_conn # 0
    BY <2>1, BridgeAssumption DEF Patient, Conns
  <2>3. mqtt' = "use" /\ responses' = responses - 1
    BY <1>12, <2>2 DEF TestMessage
  <2>4. Outstanding' = Outstanding
    BY <1>2, <1>12, <2>3 DEF TestMessage, Outstanding
  <2> QED
    BY <1>1, <1>12, <2>2, <2>3, <2>4 DEF TestMessage, client, Types, Patient, Present, Owed
<1>13. CASE SendMessage
  <2>1. PICK c \in Conns : Owed(c)
    BY <1>1, <1>2, <1>13 DEF SendMessage, Patient, Outstanding
  <2>2. /\ gdb_conn = c /\ gdb_conn # 0 /\ conn[c] = "open"
        /\ \A d \in Conns : Owed(d) => d = c
    BY <2>1, BridgeAssumption DEF Patient, Conns
  <2>3. /\ answered' = [answered EXCEPT ![c] = @ + 1] /\ mqtt' = "idle"
        /\ UNCHANGED <<conn, asked, relayed, gdb_conn, recv, reading, onDevice, responses>>
    BY <1>13, <2>2 DEF SendMessage
  <2>4. relayed[c] = answered[c] + 1 /\ relayed[c] = asked[c]
    BY <1>1, <2>1 DEF OneAtATime, Owed
  <2>5. \A d \in Conns : ~Owed(d)'
    BY <1>1, <2>2, <2>3, <2>4 DEF Owed, Types
  <2>6. Outstanding' = 0
    BY <1>2, <1>13, <2>1, <2>3 DEF SendMessage, Outstanding, Patient
  <2> QED
    BY <1>1, <2>2, <2>3, <2>4, <2>5, <2>6 DEF Types, Patient, Present
<1>14. CASE UNCHANGED vars
  BY <1>14 DEF vars, Patient, Present, Owed, Outstanding
<1> QED
  BY <1>3, <1>4, <1>5, <1>6, <1>7, <1>8, <1>9, <1>10, <1>11, <1>12, <1>13, <1>14
  DEF Next, AcceptLoop, ReadingThread, MqttThread

LEMMA PatientInvariance == Spec => [](Always /\ (~hasty => Patient))
<1>1. Init => (~hasty => Patient)
  BY DEF Init, Patient, Present, Owed, Outstanding
<1>2. Always /\ (~hasty => Patient) /\ [Next]_vars => (~hasty => Patient)'
  <2> SUFFICES ASSUME Always, ~hasty => Patient, [Next]_vars, ~hasty' PROVE Patient'
    OBVIOUS
  <2>1. ~hasty
    BY DEF Next, Connect, Ask, Close, DeviceAnswers, AcceptLoop, Accept, ReadingThread,
           TestConnection, StartReading, Relay, EndOfConnection, MqttThread, StartMqtt,
           TestMessage, SendMessage, vars
  <2> QED
    BY <2>1, PatientStep DEF Always
<1> QED
  BY <1>1, <1>2, AlwaysInvariance, PTL DEF Spec

\* The device never has more to do than there are connections, however hasty
\* GDB is; and to a GDB that opens one connection after another and waits for
\* its answers, the unlocked uses of gdb_conn do no harm: both threads live, and
\* the open connection is the one that is served.
THEOREM PatientConnectionsAreServed == Spec => []BridgeIsSound
<1>1. Always /\ (~hasty => Patient) => BridgeIsSound
  BY AlwaysTyped DEF BridgeIsSound, PatientGdbIsServed, Patient
<1> QED
  BY <1>1, PatientInvariance, PTL

\* To such a GDB, an answer goes to the connection that asked.
THEOREM AnswersReachTheAsker == Spec => []AnswersGoToTheAsker
<1>1. Always /\ (~hasty => Patient) => AnswersGoToTheAsker
  BY DEF AnswersGoToTheAsker, Patient
<1> QED
  BY <1>1, PatientInvariance, PTL
=============================================================================
