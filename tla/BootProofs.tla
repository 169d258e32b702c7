----------------------------- MODULE BootProofs -----------------------------
(***************************************************************************)
(* The boot: settings, WiFi and subscriptions, for any settings, modules   *)
(* and number of retries, and through any number of restarts.              *)
(***************************************************************************)
EXTENDS Boot, SequenceTheorems, TLAPS

---------------------------------------------------------------------------
(* Settings.                                                               *)

\* s_config is what NVS holds.
Loaded == cfg.pc \in {"prompt", "done"} \/ (cfg.pc = "edit" /\ ~cfg.changed)

\* A save that has not failed has put the settings it is past in NVS.
SavedSoFar == \A k \in 1 .. cfg.i - 1 : nvs[Fields[k]] = s_config[Fields[k]]

CfgState ==
    [pc : {"load", "prompt", "edit", "save", "restart", "done"},
     i : 1 .. Len(Fields), changed : BOOLEAN, failed : BOOLEAN]

ConfigTypes ==
    /\ nvs \in [Setting -> Values \cup {Missing}]
    /\ s_config \in [Setting -> Values] /\ wanted \in [Setting -> Values]
    /\ cfg \in CfgState
    /\ torn \in BOOLEAN

ConfigInv ==
    /\ ConfigTypes
    /\ Loaded => s_config = Stored
    /\ ~torn => Stored = wanted
    /\ cfg.pc = "save" /\ ~cfg.failed => SavedSoFar

LEMMA FieldsType ==
    /\ Len(Fields) \in Nat \ {0} /\ DOMAIN Fields = 1 .. Len(Fields)
    /\ \A i \in 1 .. Len(Fields) : Fields[i] \in Setting
BY FieldsAssumption DEF Setting

LEMMA StoredType ==
    ASSUME nvs \in [Setting -> Values \cup {Missing}]
    PROVE  Stored \in [Setting -> Values]
BY ConfigAssumption DEF Stored

LEMMA ConfigInitInv == ConfigInit => ConfigInv
<1> SUFFICES ASSUME ConfigInit PROVE ConfigInv
  OBVIOUS
<1>1. Defaults \in [Setting -> Values]
  BY ConfigAssumption DEF Defaults
<1>2. Stored = Defaults
  BY DEF ConfigInit, Stored, Defaults
<1>3. ConfigStart \in CfgState
  BY FieldsType DEF ConfigStart, CfgState
<1> QED
  BY <1>1, <1>2, <1>3 DEF ConfigInit, ConfigInv, ConfigTypes, ConfigStart, Loaded

LEMMA AfterType ==
    ASSUME NEW c \in CfgState, c.pc = "edit"
    PROVE  /\ After(c) \in CfgState /\ After(c).changed = c.changed
           /\ After(c).pc \in {"edit", IF c.changed THEN "save" ELSE "done"}
           /\ After(c).pc = "save" => After(c).i = 1
<1>1. CASE c.i < Len(Fields)
  BY <1>1, FieldsType DEF After, CfgState
<1>2. CASE ~(c.i < Len(Fields)) /\ c.changed
  <2> DEFINE d == [c EXCEPT !.i = 1, !.pc = "save"]
  <2>1. After(c) = d
    BY <1>2 DEF After
  <2>2. 1 \in 1 .. Len(Fields)
    BY FieldsType
  <2>3. d \in CfgState /\ d.changed = c.changed /\ d.pc = "save" /\ d.i = 1
    BY <2>2 DEF CfgState
  <2> QED
    BY <1>2, <2>1, <2>3
<1>3. CASE ~(c.i < Len(Fields)) /\ ~c.changed
  <2> DEFINE d == [c EXCEPT !.i = 1, !.pc = "done"]
  <2>1. After(c) = d
    BY <1>3 DEF After
  <2>2. 1 \in 1 .. Len(Fields)
    BY FieldsType
  <2>3. d \in CfgState /\ d.changed = c.changed /\ d.pc = "done" /\ d.i = 1
    BY <2>2 DEF CfgState
  <2> QED
    BY <1>3, <2>1, <2>3
<1> QED
  BY <1>1, <1>2, <1>3

LEMMA EditInv == ConfigInv /\ Edit => ConfigInv'
<1> SUFFICES ASSUME ConfigInv, Edit PROVE ConfigInv'
  OBVIOUS
<1>1. UNCHANGED <<nvs, wanted, torn>> /\ Stored' = Stored /\ cfg.pc = "edit"
  BY DEF Edit, Stored
<1>2. ConfigTypes /\ cfg.i \in 1 .. Len(Fields)
  BY DEF ConfigInv, ConfigTypes, CfgState
<1>3. CASE cfg' = After(cfg) /\ UNCHANGED s_config
  BY <1>1, <1>2, <1>3, AfterType DEF ConfigInv, ConfigTypes, Loaded, SavedSoFar
<1>4. CASE /\ cfg' = After([cfg EXCEPT !.changed = TRUE])
           /\ \E v \in Values : s_config' = [s_config EXCEPT ![Fields[cfg.i]] = v]
  <2> DEFINE c == [cfg EXCEPT !.changed = TRUE]
  <2>1. /\ c \in CfgState
        /\ c.pc = "edit" /\ c.changed
    BY <1>1, <1>2 DEF ConfigTypes, CfgState
  <2>2. cfg' = After(c)
    BY <1>4
  <2> HIDE DEF c
  <2>3. s_config' \in [Setting -> Values]
    BY <1>2, <1>4, FieldsType DEF ConfigTypes, CfgState
  <2> QED
    BY <1>1, <1>2, <2>1, <2>2, <2>3, AfterType DEF ConfigInv, ConfigTypes, Loaded, SavedSoFar
<1> QED
  BY <1>3, <1>4 DEF Edit

\* What the last part of a whole save leaves in NVS is what the next boot reads.
LEMMA SaveInv == ConfigInv /\ Save => ConfigInv'
<1> SUFFICES ASSUME ConfigInv, Save PROVE ConfigInv'
  OBVIOUS
<1> DEFINE f == Fields[cfg.i]
<1>1. PICK ok \in BOOLEAN :
        /\ nvs' = IF ok /\ f \in Setting THEN [nvs EXCEPT ![f] = s_config[f]] ELSE nvs
        /\ IF cfg.i < Len(Fields)
           THEN /\ cfg' = [cfg EXCEPT !.i = @ + 1, !.failed = cfg.failed \/ ~ok]
                /\ torn' = TRUE /\ UNCHANGED wanted
           ELSE /\ cfg' = [cfg EXCEPT !.pc = "restart"]
                /\ torn' = (cfg.failed \/ ~ok) /\ wanted' = s_config
  BY DEF Save, SaveSettings
<1>2. ConfigTypes /\ cfg.pc = "save" /\ s_config' = s_config
  BY DEF ConfigInv, Save, SaveSettings
<1>3. cfg.i \in 1 .. Len(Fields) /\ f \in Setting /\ s_config[f] \in Values
  BY <1>2, FieldsType DEF ConfigTypes, CfgState
<1>4. nvs' \in [Setting -> Values \cup {Missing}]
  BY <1>1, <1>2, <1>3 DEF ConfigTypes, CfgState
<1>5. ASSUME ~cfg.failed, ok
      PROVE  \A k \in 1 .. cfg.i : nvs'[Fields[k]] = s_config[Fields[k]]
  <2>1. SavedSoFar /\ nvs' = [nvs EXCEPT ![f] = s_config[f]]
    BY <1>1, <1>2, <1>3, <1>5 DEF ConfigInv
  <2> QED
    BY <1>2, <1>3, <2>1, FieldsType DEF SavedSoFar, ConfigTypes, CfgState
<1>6. CASE cfg.i < Len(Fields)
  <2>1. /\ cfg'.i = cfg.i + 1 /\ cfg'.pc = "save" /\ (~cfg'.failed => ~cfg.failed /\ ok)
        /\ torn' = TRUE /\ wanted' = wanted
    BY <1>1, <1>2, <1>6 DEF ConfigTypes, CfgState
  <2>2. cfg' \in CfgState
    <3>1. (cfg.failed \/ ~ok) \in BOOLEAN /\ cfg.i + 1 \in 1 .. Len(Fields)
      BY <1>3, <1>6, FieldsType
    <3> QED
      BY <1>1, <1>2, <1>6, <3>1 DEF ConfigTypes, CfgState
  <2>3. ~cfg'.failed => SavedSoFar'
    BY <1>2, <1>3, <1>5, <2>1 DEF SavedSoFar
  <2> QED
    BY <1>2, <1>4, <2>1, <2>2, <2>3 DEF ConfigInv, ConfigTypes, CfgState, Loaded
<1>7. CASE ~(cfg.i < Len(Fields))
  <2>1. /\ cfg'.pc = "restart" /\ torn' = (cfg.failed \/ ~ok) /\ wanted' = s_config
        /\ cfg' \in CfgState
    BY <1>1, <1>2, <1>7 DEF ConfigTypes, CfgState
  <2>2. ASSUME ~cfg.failed, ok PROVE Stored' = s_config
    <3>1. cfg.i = Len(Fields)
      BY <1>3, <1>7, FieldsType
    <3>2. \A g \in Setting : nvs'[g] = s_config[g]
      BY <1>5, <2>2, <3>1, FieldsType DEF Setting
    <3>3. \A g \in Setting : s_config[g] # Missing
      BY <1>2, ConfigAssumption DEF ConfigTypes, CfgState
    <3> QED
      BY <1>2, <3>2, <3>3 DEF Stored, ConfigTypes, CfgState
  <2>3. ~torn' => Stored' = wanted'
    BY <2>1, <2>2
  <2> QED
    BY <1>2, <1>4, <2>1, <2>3 DEF ConfigInv, ConfigTypes, CfgState, Loaded
<1> QED
  BY <1>6, <1>7

LEMMA ConfigStepInv ==
    ConfigInv /\ (ConfigStep \/ ConfigRestart \/ UNCHANGED configVars) => ConfigInv'
<1> SUFFICES ASSUME ConfigInv, ConfigStep \/ ConfigRestart \/ UNCHANGED configVars
             PROVE  ConfigInv'
  OBVIOUS
<1>1. ConfigTypes
  BY DEF ConfigInv
<1>2. CASE LoadFromNvs
  <2>1. s_config' \in [Setting -> Values] /\ Stored' = Stored
    BY <1>1, <1>2, StoredType DEF LoadFromNvs, ConfigTypes, CfgState, Stored
  <2> QED
    BY <1>1, <1>2, <2>1 DEF LoadFromNvs, ConfigInv, ConfigTypes, CfgState
<1>3. CASE Prompt \/ OpenFails
  <2>1. UNCHANGED <<nvs, s_config, wanted, torn>> /\ Stored' = Stored
    BY <1>3 DEF Prompt, OpenFails, Stored
  <2>2. \E pc \in {"edit", "done", "restart"} :
          cfg' = [cfg EXCEPT !.pc = pc] /\ (pc # "restart" => cfg.pc = "prompt")
    BY <1>3 DEF Prompt, OpenFails
  <2> QED
    BY <1>1, <2>1, <2>2 DEF ConfigInv, ConfigTypes, CfgState, Loaded
<1>4. CASE ConfigRestart
  <2>1. Defaults \in [Setting -> Values] /\ Stored' = Stored
    BY <1>4, ConfigAssumption DEF ConfigRestart, Defaults, Stored
  <2> QED
    BY <1>1, <1>4, <2>1, FieldsType
    DEF ConfigRestart, ConfigStart, ConfigInv, ConfigTypes, CfgState, Loaded
<1>5. CASE UNCHANGED configVars
  BY <1>5 DEF configVars, ConfigInv, ConfigTypes, CfgState, Loaded, Stored, SavedSoFar
<1> QED
  BY <1>2, <1>3, <1>4, <1>5, EditInv, SaveInv DEF ConfigStep

---------------------------------------------------------------------------
(* WiFi.                                                                   *)

\* What is posted and not handled tells how many attempts in a row have failed.
Off        == link = "off" /\ WifiOff
Connecting == link = "connecting" /\ events = <<>> /\ inARow = s_retry_count
Up         == link = "up" /\ inARow = 0 /\ (events = <<"GOT_IP">> \/ (events = <<>> /\ s_retry_count = 0))
Starting   == link = "down" /\ events = <<"START">> /\ inARow = 0 /\ s_retry_count = 0
Down       == link = "down" /\ events = <<"DISCONNECTED">> /\ inARow = s_retry_count + 1
UpAndDown  == link = "down" /\ events = <<"GOT_IP", "DISCONNECTED">> /\ inARow = 1
Resigned   == link = "down" /\ events = <<>> /\ inARow = WIFI_MAX_RETRY + 1

Counters ==
    /\ s_retry_count \in 0 .. WIFI_MAX_RETRY /\ connectedBit \in BOOLEAN
    /\ drops \in 0 .. MaxDrops /\ inARow \in 0 .. drops

WifiInv ==
    /\ Counters
    /\ Off \/ Connecting \/ Up \/ Starting \/ Down \/ UpAndDown \/ Resigned
    /\ main.pc \in {"config", "wifi"} => link = "off"

LEMMA AppendToOne ==
    ASSUME NEW a, NEW b
    PROVE  Append(<<a>>, b) = <<a, b>>
<1> DEFINE s == Append(<<a>>, b)
           S == {a, b}
<1>1. <<a>> \in Seq(S) /\ b \in S /\ Len(<<a>>) = 1 /\ <<a>>[1] = a
  OBVIOUS
<1>2. s \in Seq(S) /\ Len(s) = 2 /\ s[1] = a /\ s[2] = b
  BY <1>1, AppendProperties
<1>3. <<a, b>> \in Seq(S) /\ Len(<<a, b>>) = 2 /\ <<a, b>>[1] = a /\ <<a, b>>[2] = b
  OBVIOUS
<1> HIDE DEF s, S
<1>4. \A i \in 1 .. 2 : s[i] = <<a, b>>[i]
  BY <1>2, <1>3
<1>5. s = <<a, b>>
  BY <1>2, <1>3, <1>4, SeqEqual
<1> QED
  BY <1>5 DEF s

\* The queues the driver and the handler leave.
LEMMA Queues ==
    /\ Append(<<>>, "GOT_IP") = <<"GOT_IP">>
    /\ Append(<<>>, "DISCONNECTED") = <<"DISCONNECTED">>
    /\ Append(<<"GOT_IP">>, "DISCONNECTED") = <<"GOT_IP", "DISCONNECTED">>
    /\ Head(<<"START">>) = "START" /\ Tail(<<"START">>) = <<>>
    /\ Head(<<"GOT_IP">>) = "GOT_IP" /\ Tail(<<"GOT_IP">>) = <<>>
    /\ Head(<<"DISCONNECTED">>) = "DISCONNECTED" /\ Tail(<<"DISCONNECTED">>) = <<>>
    /\ Head(<<"GOT_IP", "DISCONNECTED">>) = "GOT_IP"
    /\ Tail(<<"GOT_IP", "DISCONNECTED">>) = <<"DISCONNECTED">>
<1>1. \A a : Append(<<>>, a) = <<a>> /\ Head(<<a>>) = a /\ Tail(<<a>>) = <<>>
  OBVIOUS
<1>2. \A a, b : Head(<<a, b>>) = a
  OBVIOUS
<1>3. \A a, b : Tail(<<a, b>>) = <<b>>
  OBVIOUS
<1> QED
  BY <1>1, <1>2, <1>3, AppendToOne, Zenon

LEMMA WifiTyped == WifiInv => WifiType
<1> SUFFICES ASSUME WifiInv PROVE WifiType
  OBVIOUS
<1> DEFINE E == {"START", "DISCONNECTED", "GOT_IP"}
<1>0. /\ <<>> \in Seq(E) /\ <<"GOT_IP">> \in Seq(E) /\ <<"START">> \in Seq(E)
      /\ <<"DISCONNECTED">> \in Seq(E) /\ <<"GOT_IP", "DISCONNECTED">> \in Seq(E)
  OBVIOUS
<1>1. events \in Seq(E)
  <2> HIDE DEF E
  <2> QED
    BY <1>0 DEF WifiInv, WifiOff, Off, Connecting, Up, Starting, Down, UpAndDown, Resigned
<1>2. link \in {"off", "connecting", "down", "up"}
  BY DEF WifiInv, Off, Connecting, Up, Starting, Down, UpAndDown, Resigned
<1> QED
  BY <1>1, <1>2, WifiAssumption DEF WifiInv, Counters, WifiType

LEMMA GetIpInv == WifiInv /\ GetIp /\ UNCHANGED main => WifiInv'
<1> SUFFICES ASSUME WifiInv, GetIp, UNCHANGED main PROVE WifiInv'
  OBVIOUS
<1>1. Connecting
  BY DEF GetIp, WifiInv, Off, Up, Starting, Down, UpAndDown, Resigned
<1>2. Up'
  BY <1>1, Queues DEF GetIp, Connecting, Up
<1>3. Counters'
  BY DEF GetIp, WifiInv, Counters
<1> QED
  BY <1>1, <1>2, <1>3 DEF WifiInv, Connecting, GetIp

LEMMA LoseLinkInv == WifiInv /\ LoseLink /\ UNCHANGED main => WifiInv'
<1> SUFFICES ASSUME WifiInv, LoseLink, UNCHANGED main PROVE WifiInv'
  OBVIOUS
<1>1. Connecting \/ Up
  BY DEF LoseLink, WifiInv, Off, Starting, Down, UpAndDown, Resigned
<1>2. ASSUME Connecting \/ (Up /\ events = <<>>) PROVE Down'
  BY <1>2, Queues DEF LoseLink, Connecting, Up, Down
<1>3. ASSUME Up /\ events = <<"GOT_IP">> PROVE UpAndDown'
  BY <1>3, Queues DEF LoseLink, Up, UpAndDown
<1>4. Down' \/ UpAndDown'
  BY <1>1, <1>2, <1>3 DEF Up
<1>5. Counters'
  BY WifiAssumption DEF LoseLink, WifiInv, Counters
<1> QED
  BY <1>1, <1>4, <1>5 DEF WifiInv, Connecting, Up

LEMMA HandleStartInv == WifiInv /\ HandleStart /\ UNCHANGED main => WifiInv'
<1> SUFFICES ASSUME WifiInv, HandleStart, UNCHANGED main PROVE WifiInv'
  OBVIOUS
<1>1. Starting
  BY Queues DEF HandleStart, WifiInv, WifiOff, Off, Connecting, Up, Down, UpAndDown, Resigned
<1>2. Connecting'
  BY <1>1, Queues DEF HandleStart, Starting, Connecting
<1>3. Counters'
  BY DEF HandleStart, WifiInv, Counters
<1> QED
  BY <1>1, <1>2, <1>3 DEF WifiInv, Starting

LEMMA HandleDisconnectedInv == WifiInv /\ HandleDisconnected /\ UNCHANGED main => WifiInv'
<1> SUFFICES ASSUME WifiInv, HandleDisconnected, UNCHANGED main PROVE WifiInv'
  OBVIOUS
<1>1. Down
  BY Queues
  DEF HandleDisconnected, WifiInv, WifiOff, Off, Connecting, Up, Starting, UpAndDown, Resigned
<1>2. s_retry_count \in 0 .. WIFI_MAX_RETRY /\ WIFI_MAX_RETRY \in Nat
  BY WifiAssumption DEF WifiInv, Counters
<1>3. ASSUME MayRetry PROVE Connecting'
  BY <1>1, <1>3, Queues DEF HandleDisconnected, Down, Connecting
<1>4. ASSUME ~MayRetry PROVE Resigned'
  <2>1. s_retry_count = WIFI_MAX_RETRY
    BY <1>2, <1>4 DEF MayRetry
  <2>2. events' = <<>> /\ link' = link /\ inARow' = inARow
    BY <1>1, <1>4, Queues DEF HandleDisconnected, Down
  <2> QED
    BY <1>1, <2>1, <2>2 DEF Down, Resigned
<1>5. Counters'
  BY <1>2 DEF HandleDisconnected, WifiInv, Counters, MayRetry
<1> QED
  BY <1>1, <1>3, <1>4, <1>5 DEF WifiInv, Down

LEMMA HandleGotIpInv == WifiInv /\ HandleGotIp /\ UNCHANGED main => WifiInv'
<1> SUFFICES ASSUME WifiInv, HandleGotIp, UNCHANGED main PROVE WifiInv'
  OBVIOUS
<1>1. (Up /\ events = <<"GOT_IP">>) \/ UpAndDown
  BY Queues
  DEF HandleGotIp, WifiInv, WifiOff, Off, Connecting, Up, Starting, Down, Resigned
<1>2. ASSUME Up, events = <<"GOT_IP">> PROVE Up'
  BY <1>2, Queues DEF HandleGotIp, Up
<1>3. ASSUME UpAndDown PROVE Down'
  BY <1>3, Queues DEF HandleGotIp, UpAndDown, Down
<1>4. Counters'
  BY WifiAssumption DEF HandleGotIp, WifiInv, Counters
<1> QED
  BY <1>1, <1>2, <1>3, <1>4 DEF WifiInv, Up, UpAndDown

LEMMA OffInv == Off /\ drops \in 0 .. MaxDrops => WifiInv
<1> SUFFICES ASSUME Off, drops \in 0 .. MaxDrops PROVE WifiInv
  OBVIOUS
<1>1. connectedBit \in BOOLEAN
  BY DEF Off, WifiOff
<1>2. s_retry_count \in 0 .. WIFI_MAX_RETRY /\ inARow \in 0 .. drops
  BY WifiAssumption DEF Off, WifiOff
<1> QED
  BY <1>1, <1>2 DEF WifiInv, Counters, Off

\* Besides the driver and the handler, the start and a restart change WiFi's state.
LEMMA WifiInitInv == Init => WifiInv
<1> SUFFICES ASSUME Init PROVE WifiInv
  OBVIOUS
<1>1. Off
  BY DEF Init, WifiInit, Off, WifiOff
<1>2. drops = 0
  BY DEF Init, WifiInit
<1> QED
  BY <1>1, <1>2, WifiAssumption, OffInv

LEMMA WifiStartInv == WifiInv /\ StartWifi => WifiInv'
<1> SUFFICES ASSUME WifiInv, StartWifi PROVE WifiInv'
  OBVIOUS
<1>1. Off
  BY DEF StartWifi, WifiInv, Connecting, Up, Starting, Down, UpAndDown, Resigned
<1>2. Starting'
  BY <1>1 DEF StartWifi, WifiStart, Off, WifiOff, Starting
<1>3. Counters'
  BY DEF StartWifi, WifiStart, WifiInv, Counters
<1>4. main'.pc # "config" /\ main'.pc # "wifi"
  BY DEF StartWifi, GoTo
<1> QED
  BY <1>2, <1>3, <1>4 DEF WifiInv

LEMMA OffPrimed == (Off /\ drops \in 0 .. MaxDrops)' => WifiInv'
  BY OffInv, PTL

LEMMA WifiResetInv == WifiInv /\ Reset => WifiInv'
<1> SUFFICES ASSUME WifiInv, Reset PROVE WifiInv'
  OBVIOUS
<1>1. Off'
  BY DEF Reset, Off, WifiOff
<1>2. drops' \in 0 .. MaxDrops
  BY DEF Reset, WifiInv, Counters
<1> QED
  BY <1>1, <1>2, OffPrimed

LEMMA WifiUnchangedInv ==
    ASSUME WifiInv, UNCHANGED <<link, events, s_retry_count, connectedBit, inARow>>,
           drops' \in 0 .. MaxDrops, drops' >= drops,
           main'.pc \in {"config", "wifi"} => main.pc \in {"config", "wifi"}
    PROVE  WifiInv'
<1>1. Counters'
  BY DEF WifiInv, Counters
<1>2. (Off \/ Connecting \/ Up \/ Starting \/ Down \/ UpAndDown \/ Resigned)'
  BY DEF WifiInv, WifiOff, Off, Connecting, Up, Starting, Down, UpAndDown, Resigned
<1> QED
  BY <1>1, <1>2 DEF WifiInv

\* app_main: its own place, and the module it is at.
MainPlaces == {"config", "wifi", "wait", "mqtt", "module", "register", "subscribe"}
MainTyped ==
    /\ main \in [pc : MainPlaces, k : 1 .. Len(Modules) + 1]
    /\ main.pc \in {"register", "subscribe"} => main.k <= Len(Modules)

LEMMA MainTypedInit == Init => MainTyped
  BY ModulesAssumption DEF Init, MainStart, MainTyped, MainPlaces

LEMMA MainTypedStep == MainTyped /\ [Next]_vars => MainTyped'
<1> SUFFICES ASSUME MainTyped, [Next]_vars PROVE MainTyped'
  OBVIOUS
<1>1. Len(Modules) \in Nat
  BY ModulesAssumption
<1>2. CASE MainTask
  <2>1. CASE Configure \/ StartWifi \/ WaitForWifi \/ StartMqtt \/ Register
    BY <2>1 DEF Configure, StartWifi, WaitForWifi, StartMqtt, Register, GoTo, MainTyped, MainPlaces
  <2>2. CASE StartModule
    BY <1>1, <2>2 DEF StartModule, MainTyped, MainPlaces
  <2>3. CASE SubscribeModule
    BY <1>1, <2>3 DEF SubscribeModule, MainTyped, MainPlaces
  <2> QED
    BY <1>2, <2>1, <2>2, <2>3 DEF MainTask
<1>3. CASE WifiTask \/ MqttTask \/ Drop \/ UNCHANGED vars
  BY <1>3 DEF WifiTask, MqttTask, Drop, vars, MainTyped
<1>4. CASE RestartAfterSave \/ PowerLoss
  BY <1>1, <1>4 DEF RestartAfterSave, PowerLoss, Reset, MainStart, MainTyped, MainPlaces
<1> QED
  BY <1>2, <1>3, <1>4 DEF Next

LEMMA WifiStepInv == MainTyped /\ WifiInv /\ [Next]_vars => WifiInv'
<1> SUFFICES ASSUME MainTyped, WifiInv, [Next]_vars PROVE WifiInv'
  OBVIOUS
<1>0. drops \in 0 .. MaxDrops /\ MaxDrops \in Nat
  BY WifiAssumption DEF WifiInv, Counters
<1>1. CASE WifiTask \/ (LoseLink /\ UNCHANGED main)
  BY <1>1, GetIpInv, HandleStartInv, HandleDisconnectedInv, HandleGotIpInv, LoseLinkInv
  DEF WifiTask, WifiStep
<1>2. CASE RestartAfterSave \/ PowerLoss
  BY <1>2, WifiResetInv DEF RestartAfterSave, PowerLoss
<1>3. CASE MainTask
  <2>1. CASE StartWifi
    BY <2>1, WifiStartInv
  <2>2. CASE ~StartWifi
    <3>1. UNCHANGED wifiVars
      BY <1>3, <2>2
      DEF MainTask, Configure, WaitForWifi, StartMqtt, StartModule, Register, SubscribeModule
    <3>2. main'.pc \in {"config", "wifi"} => main.pc \in {"config", "wifi"}
      BY <1>3, <2>2
      DEF MainTask, Configure, WaitForWifi, StartMqtt, StartModule, Register, SubscribeModule,
          GoTo, MainTyped, MainPlaces
    <3> QED
      BY <1>0, <3>1, <3>2, WifiUnchangedInv DEF wifiVars
  <2> QED
    BY <2>1, <2>2
<1>4. CASE MqttTask \/ UNCHANGED vars
  <2>1. UNCHANGED wifiVars /\ UNCHANGED main
    BY <1>4 DEF MqttTask, vars
  <2> QED
    BY <1>0, <2>1, WifiUnchangedInv DEF wifiVars
<1>5. CASE Drop
  <2>1. CASE LoseLink
    BY <1>1, <1>5, <2>1 DEF Drop
  <2>2. CASE ~LoseLink
    BY <1>0, <1>5, <2>2, WifiUnchangedInv DEF Drop
  <2> QED
    BY <2>1, <2>2
<1> QED
  BY <1>1, <1>2, <1>3, <1>4, <1>5 DEF Next

LEMMA ConfigNextInv == ConfigInv /\ [Next]_vars => ConfigInv'
<1>1. [Next]_vars => ConfigStep \/ ConfigRestart \/ UNCHANGED configVars
  <2>1. MainTask => ConfigStep \/ UNCHANGED configVars
    BY DEF MainTask, Configure, StartWifi, WaitForWifi, StartMqtt, StartModule, Register, SubscribeModule
  <2>2. RestartAfterSave \/ PowerLoss => ConfigRestart
    BY DEF RestartAfterSave, PowerLoss, Reset
  <2>3. WifiTask \/ MqttTask \/ Drop \/ UNCHANGED vars => UNCHANGED configVars
    BY DEF WifiTask, MqttTask, Drop, vars
  <2> QED
    BY <2>1, <2>2, <2>3 DEF Next
<1> QED
  BY <1>1, ConfigStepInv

\* Power may be lost at any moment and as often as the bound says: the device
\* runs on what NVS holds, and on what was entered unless a save was torn.
THEOREM SettingsSurvivePowerLoss == Spec => []SettingsPersist
<1>1. Init => ConfigInv
  BY ConfigInitInv DEF Init
<1>2. ConfigInv => SettingsPersist
  BY DEF ConfigInv, Loaded, SettingsPersist
<1> QED
  BY <1>1, <1>2, ConfigNextInv, PTL DEF Spec

\* A station nobody will connect again has failed WIFI_MAX_RETRY + 1 times in a
\* row, for any limit and whatever was posted while the handler was behind.
THEOREM GivesUpOnlyAfterRetries == Spec => []GivesUpAfterRetries
<1>1. WifiInv => GivesUpAfterRetries
  BY DEF WifiInv, Off, Connecting, Up, Starting, Down, UpAndDown, Resigned, GaveUp, GivesUpAfterRetries
<1> QED
  BY <1>1, WifiInitInv, WifiStepInv, MainTypedInit, MainTypedStep, PTL DEF Spec

---------------------------------------------------------------------------
(* Topics.                                                                 *)

Handlers == Len(s_handlers)
Early    == main.pc \in {"config", "wifi", "wait", "mqtt"}

\* The main task is in the middle of a registration.
Registering == main.pc = "subscribe"

MqttTyped ==
    /\ s_handlers \in Seq(Topics) /\ connected \in BOOLEAN
    /\ subscribing \in -1 .. Handlers + 1
    /\ subscriptions \subseteq {CmdTopic} \cup Topics

\* A handler for each module at most, the newest for the one at hand.
HandlersInOrder ==
    /\ Handlers < main.k \/ (Registering /\ Handlers = main.k)
    /\ Registering => Handlers > 0 /\ s_handlers[Handlers] = Modules[main.k]
    /\ main.pc \in {"register", "subscribe"} => Modules[main.k] \in Topics \cap ready

\* What may be subscribed is ready for its messages.
ReadyFirst ==
    /\ Early => ~started /\ Handlers = 0
    /\ ~Early => CmdTopic \in ready
    /\ \A i \in 1 .. Handlers : s_handlers[i] \in ready

OnlyRegistered ==
    /\ subscriptions \subseteq Registered
    /\ ~started => ~connected /\ subscribing = -1
    /\ ~connected => subscriptions = {}

\* Whoever registers subscribes, and the loop subscribes what it is past: what
\* is not subscribed is before one of them.
Covered ==
    connected =>
        /\ subscribing # 0 => CmdTopic \in subscriptions
        /\ subscribing > 0 =>
             \A i \in 1 .. Handlers : i < subscribing => s_handlers[i] \in subscriptions
        /\ subscribing = -1 =>
             \A i \in 1 .. Handlers : i < Handlers \/ ~Registering => s_handlers[i] \in subscriptions

TopicInv == MqttTyped /\ HandlersInOrder /\ ReadyFirst /\ OnlyRegistered /\ Covered

MqttQuiet == MqttOff /\ main = MainStart /\ ready = {}

LEMMA QuietInv == MqttQuiet => TopicInv
<1> SUFFICES ASSUME MqttQuiet PROVE TopicInv
  OBVIOUS
<1>1. s_handlers = <<>> /\ connected = FALSE /\ started = FALSE /\ subscriptions = {} /\ subscribing = -1
  BY DEF MqttQuiet, MqttOff
<1>2. main.pc = "config" /\ main.k = 1
  BY DEF MqttQuiet, MainStart
<1>3. Handlers = 0
  BY <1>1 DEF Handlers
<1>4. MqttTyped
  <2>1. s_handlers \in Seq(Topics)
    BY <1>1
  <2>2. subscribing \in -1 .. Handlers + 1
    BY <1>1, <1>3
  <2>3. connected \in BOOLEAN /\ subscriptions \subseteq {CmdTopic} \cup Topics
    BY <1>1
  <2> QED
    BY <2>1, <2>2, <2>3 DEF MqttTyped
<1>5. HandlersInOrder
  BY <1>2, <1>3 DEF HandlersInOrder, Registering
<1>6. ReadyFirst
  BY <1>1, <1>2, <1>3 DEF ReadyFirst, Early
<1>7. OnlyRegistered /\ Covered
  BY <1>1 DEF OnlyRegistered, Covered
<1> QED
  BY <1>4, <1>5, <1>6, <1>7 DEF TopicInv

LEMMA QuietPrimed == MqttQuiet' => TopicInv'
  BY QuietInv, PTL

LEMMA HandlersType == TopicInv => Handlers \in Nat /\ DOMAIN s_handlers = 1 .. Handlers
  BY DEF TopicInv, MqttTyped, Handlers

\* app_main before MQTT is started.
LEMMA EarlyInv ==
    TopicInv /\ Early /\ Early' /\ UNCHANGED <<mqttVars, ready>> /\ main'.k = main.k => TopicInv'
<1> SUFFICES ASSUME TopicInv, Early, Early', UNCHANGED <<mqttVars, ready>>, main'.k = main.k
             PROVE  TopicInv'
  OBVIOUS
<1>1. MqttTyped'
  BY DEF TopicInv, MqttTyped, mqttVars, Handlers
<1>2. HandlersInOrder'
  BY DEF TopicInv, HandlersInOrder, mqttVars, Handlers, Registering, Early
<1>3. ReadyFirst'
  BY DEF TopicInv, ReadyFirst, mqttVars, Handlers
<1>4. OnlyRegistered'
  BY DEF TopicInv, OnlyRegistered, mqttVars, Registered
<1>5. Covered'
  <2>1. ~connected'
    BY DEF TopicInv, ReadyFirst, OnlyRegistered, mqttVars
  <2> QED
    BY <2>1 DEF Covered
<1> QED
  BY <1>1, <1>2, <1>3, <1>4, <1>5 DEF TopicInv

LEMMA StartMqttInv == MainTyped /\ TopicInv /\ StartMqtt => TopicInv'
<1> SUFFICES ASSUME MainTyped, TopicInv, StartMqtt PROVE TopicInv'
  OBVIOUS
<1>1. /\ main.pc = "mqtt" /\ main'.pc = "module" /\ main'.k = main.k
      /\ ready' = ready \cup {CmdTopic} /\ started' = TRUE
      /\ UNCHANGED <<connected, s_handlers, subscriptions, subscribing>>
  BY DEF StartMqtt, GoTo, MqttStart, MainTyped
<1>2. Early /\ ~Early' /\ ~Registering /\ ~Registering'
  BY <1>1 DEF Early, Registering
<1>3. MqttTyped'
  BY <1>1 DEF TopicInv, MqttTyped, Handlers
<1>4. HandlersInOrder'
  BY <1>1, <1>2 DEF TopicInv, HandlersInOrder, Handlers
<1>5. ReadyFirst'
  BY <1>1, <1>2 DEF TopicInv, ReadyFirst, Handlers
<1>6. ~connected /\ OnlyRegistered'
  BY <1>1, <1>2 DEF TopicInv, ReadyFirst, OnlyRegistered, Registered
<1>7. Covered'
  BY <1>1, <1>6 DEF Covered
<1> QED
  BY <1>3, <1>4, <1>5, <1>6, <1>7 DEF TopicInv

LEMMA StartModuleInv == MainTyped /\ TopicInv /\ StartModule => TopicInv'
<1> SUFFICES ASSUME MainTyped, TopicInv, StartModule PROVE TopicInv'
  OBVIOUS
<1>1. /\ main.pc = "module" /\ ready' = ready \cup {Modules[main.k]}
      /\ UNCHANGED <<started, connected, s_handlers, subscriptions, subscribing>>
  BY DEF StartModule, PrepareModule, mqttVars
<1>2. \/ main'.pc = "register" /\ main'.k = main.k /\ Modules[main.k] \in Topics
      \/ main'.pc = "module" /\ main'.k = main.k + 1
  BY <1>1 DEF StartModule, MainTyped
<1>3. ~Early /\ ~Early' /\ ~Registering /\ ~Registering'
  BY <1>1, <1>2 DEF Early, Registering
<1>4. Handlers' = Handlers /\ Handlers \in Nat /\ main.k \in Nat
  BY <1>1, HandlersType DEF Handlers, MainTyped
<1>5. MqttTyped'
  BY <1>1, <1>4 DEF TopicInv, MqttTyped
<1>6. HandlersInOrder'
  <2>1. Handlers' < main'.k
    BY <1>2, <1>3, <1>4 DEF TopicInv, HandlersInOrder
  <2> QED
    BY <1>1, <1>2, <1>3, <2>1 DEF HandlersInOrder
<1>7. ReadyFirst'
  BY <1>1, <1>3, <1>4 DEF TopicInv, ReadyFirst
<1>8. OnlyRegistered'
  BY <1>1 DEF TopicInv, OnlyRegistered, Registered
<1>9. Covered'
  BY <1>1, <1>3, <1>4 DEF TopicInv, Covered
<1> QED
  BY <1>5, <1>6, <1>7, <1>8, <1>9 DEF TopicInv

LEMMA RegisterInv == MainTyped /\ TopicInv /\ Register => TopicInv'
<1> SUFFICES ASSUME MainTyped, TopicInv, Register PROVE TopicInv'
  OBVIOUS
<1> DEFINE e == Modules[main.k]
<1>1. /\ main.pc = "register" /\ main'.pc = "subscribe" /\ main'.k = main.k
      /\ s_handlers' = Append(s_handlers, e)
      /\ UNCHANGED <<started, connected, subscriptions, subscribing, ready>>
  BY DEF Register, GoTo, AddHandler, MainTyped
<1>2. ~Early /\ ~Early' /\ ~Registering /\ Registering'
  BY <1>1 DEF Early, Registering
<1>3. e \in Topics /\ e \in ready
  BY <1>1 DEF TopicInv, HandlersInOrder
<1>4. s_handlers \in Seq(Topics) /\ Handlers \in Nat /\ DOMAIN s_handlers = 1 .. Handlers /\ main.k \in Nat
  BY HandlersType DEF TopicInv, MqttTyped, MainTyped
<1>5. /\ s_handlers' \in Seq(Topics) /\ Handlers' = Handlers + 1
      /\ s_handlers'[Handlers'] = e
      /\ \A i \in 1 .. Handlers : s_handlers'[i] = s_handlers[i]
      /\ DOMAIN s_handlers' = 1 .. Handlers'
  <2> HIDE DEF e
  <2> QED
    BY <1>1, <1>3, <1>4, AppendProperties DEF Handlers
<1> HIDE DEF e
<1>6. MqttTyped'
  BY <1>1, <1>4, <1>5 DEF TopicInv, MqttTyped
<1>7. HandlersInOrder'
  <2>1. Handlers' < main'.k \/ (Registering' /\ Handlers' = main'.k)
    BY <1>1, <1>2, <1>4, <1>5 DEF TopicInv, HandlersInOrder
  <2>2. Handlers' > 0 /\ s_handlers'[Handlers'] = Modules[main'.k]
    BY <1>1, <1>4, <1>5 DEF e
  <2>3. Modules[main'.k] \in Topics \cap ready'
    BY <1>1, <1>3 DEF e
  <2> QED
    BY <2>1, <2>2, <2>3 DEF HandlersInOrder
<1>8. ReadyFirst'
  <2>1. \A i \in 1 .. Handlers' : s_handlers'[i] \in ready'
    <3> TAKE i \in 1 .. Handlers'
    <3>1. CASE i = Handlers'
      BY <1>1, <1>3, <1>5, <3>1
    <3>2. CASE i \in 1 .. Handlers
      BY <1>1, <1>5, <3>2 DEF TopicInv, ReadyFirst
    <3> QED
      BY <1>4, <1>5, <3>1, <3>2
  <2> QED
    BY <1>1, <1>2, <2>1 DEF TopicInv, ReadyFirst
<1>9. OnlyRegistered'
  <2>1. Registered \subseteq Registered'
    BY <1>4, <1>5 DEF Registered, Range
  <2> QED
    BY <1>1, <2>1 DEF TopicInv, OnlyRegistered
<1>10. Covered'
  <2>1. \A i \in 1 .. Handlers' : i < Handlers' => i \in 1 .. Handlers /\ s_handlers'[i] = s_handlers[i]
    BY <1>4, <1>5
  <2>2. subscribing \in -1 .. Handlers + 1
    BY DEF TopicInv, MqttTyped
  <2>3. SUFFICES ASSUME connected
                 PROVE  Covered'
    BY <1>1 DEF Covered
  <2>4. ASSUME subscribing > 0, NEW i \in 1 .. Handlers', i < subscribing
        PROVE  s_handlers'[i] \in subscriptions
    <3>1. i \in 1 .. Handlers /\ s_handlers'[i] = s_handlers[i]
      BY <1>4, <1>5, <2>1, <2>2, <2>4
    <3> QED
      BY <2>3, <2>4, <3>1 DEF TopicInv, Covered
  <2>5. ASSUME subscribing = -1, NEW i \in 1 .. Handlers', i < Handlers'
        PROVE  s_handlers'[i] \in subscriptions
    BY <1>2, <2>1, <2>3, <2>5 DEF TopicInv, Covered
  <2>6. subscribing # 0 => CmdTopic \in subscriptions
    BY <2>3 DEF TopicInv, Covered
  <2> QED
    BY <1>1, <1>2, <2>4, <2>5, <2>6 DEF Covered
<1> QED
  BY <1>6, <1>7, <1>8, <1>9, <1>10 DEF TopicInv

\* What Subscribe leaves at the broker.
LEMMA SubscribeGrows ==
    ASSUME NEW topic, Subscribe(topic)
    PROVE  /\ subscriptions \subseteq subscriptions'
           /\ subscriptions' \subseteq subscriptions \cup {topic}
           /\ connected => topic \in subscriptions'
           /\ ~connected => subscriptions' = subscriptions
  BY DEF Subscribe

LEMMA SubscribeModuleInv == MainTyped /\ TopicInv /\ SubscribeModule => TopicInv'
<1> SUFFICES ASSUME MainTyped, TopicInv, SubscribeModule PROVE TopicInv'
  OBVIOUS
<1> DEFINE e == Modules[main.k]
<1>1. /\ main.pc = "subscribe" /\ main'.pc = "module" /\ main'.k = main.k + 1
      /\ Subscribe(e)
      /\ UNCHANGED <<started, connected, s_handlers, subscribing, ready>>
  BY DEF SubscribeModule, SubscribeHandler
<1>2. ~Early /\ ~Early' /\ Registering /\ ~Registering'
  BY <1>1 DEF Early, Registering
<1>3. /\ Handlers \in Nat /\ Handlers > 0 /\ s_handlers[Handlers] = e
      /\ main.k \in Nat /\ DOMAIN s_handlers = 1 .. Handlers /\ e \in Topics
      /\ Handlers' = Handlers
  BY <1>1, <1>2, HandlersType DEF TopicInv, HandlersInOrder, MainTyped, Handlers
<1>4. /\ subscriptions \subseteq subscriptions' /\ subscriptions' \subseteq subscriptions \cup {e}
      /\ (connected => e \in subscriptions') /\ (~connected => subscriptions' = subscriptions)
  <2> HIDE DEF e
  <2> QED
    BY <1>1, SubscribeGrows
<1> HIDE DEF e
<1>5. MqttTyped'
  BY <1>1, <1>3, <1>4 DEF TopicInv, MqttTyped
<1>6. HandlersInOrder'
  BY <1>1, <1>2, <1>3 DEF TopicInv, HandlersInOrder
<1>7. ReadyFirst'
  BY <1>1, <1>2, <1>3 DEF TopicInv, ReadyFirst
<1>8. OnlyRegistered'
  <2>1. e \in Registered /\ Registered' = Registered
    BY <1>1, <1>3 DEF Registered, Range
  <2> QED
    BY <1>1, <1>4, <2>1 DEF TopicInv, OnlyRegistered
<1>9. Covered'
  <2>1. SUFFICES ASSUME connected PROVE Covered'
    BY <1>1 DEF Covered
  <2>2. ASSUME subscribing = -1, NEW i \in 1 .. Handlers
        PROVE  s_handlers[i] \in subscriptions'
    <3>1. CASE i = Handlers
      BY <1>3, <1>4, <2>1, <3>1
    <3>2. CASE i < Handlers
      BY <1>4, <2>1, <2>2, <3>2 DEF TopicInv, Covered
    <3> QED
      BY <1>3, <3>1, <3>2
  <2>3. subscribing # 0 => CmdTopic \in subscriptions'
    BY <1>4, <2>1 DEF TopicInv, Covered
  <2>4. subscribing > 0 =>
          \A i \in 1 .. Handlers : i < subscribing => s_handlers[i] \in subscriptions'
    BY <1>4, <2>1 DEF TopicInv, Covered
  <2> QED
    BY <1>1, <1>3, <2>2, <2>3, <2>4 DEF Covered
<1> QED
  BY <1>5, <1>6, <1>7, <1>8, <1>9 DEF TopicInv

\* The MQTT task, and a lost connection, change subscriptions only.
LEMMA MqttKeeps ==
    ASSUME TopicInv, UNCHANGED <<s_handlers, started, main, ready>>,
           connected' \in BOOLEAN, subscribing' \in -1 .. Handlers + 1,
           subscriptions' \subseteq Registered,
           ~started => ~connected' /\ subscribing' = -1,
           ~connected' => subscriptions' = {},
           Covered'
    PROVE  TopicInv'
<1>1. Registered' = Registered /\ Handlers' = Handlers
  BY DEF Registered, Handlers
<1>2. Registered \subseteq {CmdTopic} \cup Topics
  BY HandlersType, ElementOfSeq DEF TopicInv, MqttTyped, Registered, Range, Handlers
<1>3. MqttTyped'
  BY <1>1, <1>2 DEF TopicInv, MqttTyped
<1>4. HandlersInOrder'
  BY <1>1 DEF TopicInv, HandlersInOrder, Registering
<1>5. ReadyFirst'
  BY <1>1 DEF TopicInv, ReadyFirst, Early
<1>6. OnlyRegistered'
  BY <1>1 DEF OnlyRegistered
<1> QED
  BY <1>3, <1>4, <1>5, <1>6 DEF TopicInv

LEMMA ConnectInv == TopicInv /\ MqttConnect /\ UNCHANGED <<main, ready>> => TopicInv'
<1> SUFFICES ASSUME TopicInv, MqttConnect, UNCHANGED <<main, ready>> PROVE TopicInv'
  OBVIOUS
<1>1. /\ started /\ connected' = TRUE /\ subscribing' = 0
      /\ UNCHANGED <<started, s_handlers, subscriptions>>
  BY DEF MqttConnect
<1>2. Handlers \in Nat
  BY HandlersType
<1>3. Covered'
  BY <1>1 DEF Covered
<1>4. subscriptions' \subseteq Registered
  BY <1>1 DEF TopicInv, OnlyRegistered
<1>5. subscribing' \in -1 .. Handlers + 1
  BY <1>1, <1>2
<1> QED
  BY <1>1, <1>3, <1>4, <1>5, MqttKeeps

LEMMA LoseConnectionInv == TopicInv /\ LoseConnection /\ UNCHANGED <<main, ready>> => TopicInv'
<1> SUFFICES ASSUME TopicInv, LoseConnection, UNCHANGED <<main, ready>> PROVE TopicInv'
  OBVIOUS
<1>1. /\ connected' = FALSE /\ subscriptions' = {}
      /\ UNCHANGED <<started, s_handlers, subscribing>>
  BY DEF LoseConnection
<1>2. Covered'
  BY <1>1 DEF Covered
<1>3. subscribing' \in -1 .. Handlers + 1 /\ (~started => subscribing' = -1)
  BY <1>1 DEF TopicInv, MqttTyped, OnlyRegistered
<1> QED
  BY <1>1, <1>2, <1>3, MqttKeeps

LEMMA SubscribeNextInv == TopicInv /\ SubscribeNext /\ UNCHANGED <<main, ready>> => TopicInv'
<1> SUFFICES ASSUME TopicInv, SubscribeNext, UNCHANGED <<main, ready>> PROVE TopicInv'
  OBVIOUS
<1>1. subscribing >= 0 /\ UNCHANGED <<started, connected, s_handlers>>
  BY DEF SubscribeNext
<1>2. /\ Handlers \in Nat /\ DOMAIN s_handlers = 1 .. Handlers /\ Handlers' = Handlers
      /\ subscribing \in 0 .. Handlers + 1
  BY <1>1, HandlersType DEF TopicInv, MqttTyped, Handlers
<1>3. started /\ connected' \in BOOLEAN
  BY <1>1 DEF TopicInv, OnlyRegistered, MqttTyped
<1>4. subscriptions \subseteq Registered /\ (~connected => subscriptions = {})
  BY DEF TopicInv, OnlyRegistered
<1>5. CASE subscribing = 0 /\ Subscribe(CmdTopic) /\ subscribing' = 1
  <2>1. /\ subscriptions' \subseteq Registered /\ (~connected' => subscriptions' = {})
        /\ (connected' => CmdTopic \in subscriptions')
    BY <1>1, <1>4, <1>5, SubscribeGrows DEF Registered
  <2>2. Covered'
    BY <1>2, <1>5, <2>1 DEF Covered
  <2>3. subscribing' \in -1 .. Handlers + 1
    BY <1>2, <1>5
  <2> QED
    BY <1>1, <1>3, <2>1, <2>2, <2>3, MqttKeeps
<1>6. CASE /\ subscribing \in DOMAIN s_handlers
           /\ Subscribe(s_handlers[subscribing]) /\ subscribing' = subscribing + 1
  <2>1. /\ subscriptions \subseteq subscriptions'
        /\ subscriptions' \subseteq subscriptions \cup {s_handlers[subscribing]}
        /\ connected => s_handlers[subscribing] \in subscriptions'
        /\ ~connected => subscriptions' = subscriptions
    BY <1>6, SubscribeGrows
  <2>2. s_handlers[subscribing] \in Registered
    BY <1>6 DEF Registered, Range
  <2>3. subscriptions' \subseteq Registered /\ (~connected' => subscriptions' = {})
    BY <1>1, <1>4, <2>1, <2>2
  <2>4. ASSUME connected, NEW i \in 1 .. Handlers, i < subscribing + 1
        PROVE  s_handlers[i] \in subscriptions'
    <3>1. CASE i = subscribing
      BY <2>1, <2>4, <3>1
    <3>2. CASE i < subscribing
      BY <1>2, <2>1, <2>4, <3>2 DEF TopicInv, Covered
    <3> QED
      BY <1>2, <2>4, <3>1, <3>2
  <2>5. connected => CmdTopic \in subscriptions'
    BY <1>2, <1>6, <2>1 DEF TopicInv, Covered
  <2>6. subscribing' > 0 /\ subscribing' \in -1 .. Handlers + 1
    BY <1>2, <1>6
  <2>7. Covered'
    BY <1>1, <1>2, <1>6, <2>4, <2>5, <2>6 DEF Covered
  <2> QED
    BY <1>1, <1>3, <2>3, <2>6, <2>7, MqttKeeps
<1>7. CASE subscribing > Len(s_handlers) /\ subscribing' = -1 /\ UNCHANGED subscriptions
  <2>1. subscribing > Handlers
    BY <1>7 DEF Handlers
  <2>2. ASSUME connected, NEW i \in 1 .. Handlers
        PROVE  s_handlers[i] \in subscriptions
    BY <1>2, <2>1, <2>2 DEF TopicInv, Covered
  <2>3. connected => CmdTopic \in subscriptions
    BY <1>2, <2>1 DEF TopicInv, Covered
  <2>4. Covered'
    BY <1>1, <1>2, <1>7, <2>2, <2>3 DEF Covered
  <2>5. subscribing' \in -1 .. Handlers + 1
    BY <1>2, <1>7
  <2> QED
    BY <1>1, <1>3, <1>4, <1>7, <2>4, <2>5, MqttKeeps
<1> QED
  BY <1>5, <1>6, <1>7 DEF SubscribeNext

LEMMA TopicStepInv == MainTyped /\ TopicInv /\ [Next]_vars => TopicInv'
<1> SUFFICES ASSUME MainTyped, TopicInv, [Next]_vars PROVE TopicInv'
  OBVIOUS
<1>1. CASE Configure \/ StartWifi \/ WaitForWifi
  <2>1. UNCHANGED <<mqttVars, ready>>
    BY <1>1 DEF Configure, StartWifi, WaitForWifi
  <2>2. Early /\ Early' /\ main'.k = main.k
    BY <1>1 DEF Configure, StartWifi, WaitForWifi, Early, GoTo, MainTyped
  <2> QED
    BY <2>1, <2>2, EarlyInv
<1>2. CASE StartMqtt \/ StartModule \/ Register \/ SubscribeModule
  BY <1>2, StartMqttInv, StartModuleInv, RegisterInv, SubscribeModuleInv
<1>3. CASE MqttTask
  BY <1>3, ConnectInv, SubscribeNextInv, LoseConnectionInv DEF MqttTask
<1>4. CASE Drop /\ LoseConnection
  BY <1>4, LoseConnectionInv DEF Drop
<1>5. CASE UNCHANGED <<mqttVars, main, ready>>
  BY <1>5
  DEF TopicInv, MqttTyped, HandlersInOrder, ReadyFirst, OnlyRegistered, Covered,
      mqttVars, Handlers, Early, Registering, Registered
<1>6. CASE RestartAfterSave \/ PowerLoss
  <2>1. MqttQuiet'
    BY <1>6 DEF RestartAfterSave, PowerLoss, Reset, MqttQuiet, MqttOff, MainStart
  <2> QED
    BY <2>1, QuietPrimed
<1>7. WifiTask \/ UNCHANGED vars => UNCHANGED <<mqttVars, main, ready>>
  BY DEF WifiTask, vars
<1>8. Drop => LoseConnection \/ UNCHANGED <<mqttVars, main, ready>>
  BY DEF Drop
<1> QED
  BY <1>1, <1>2, <1>3, <1>4, <1>5, <1>6, <1>7, <1>8 DEF Next, MainTask

LEMMA TopicTyped == ConfigInv /\ WifiInv /\ MainTyped /\ TopicInv => TypeOK
<1> SUFFICES ASSUME ConfigInv, WifiInv, MainTyped, TopicInv PROVE TypeOK
  OBVIOUS
<1>1. /\ nvs \in [Setting -> Values \cup {Missing}]
      /\ s_config \in [Setting -> Values] /\ wanted \in [Setting -> Values]
  BY DEF ConfigInv, ConfigTypes
<1>2. cfg.i \in DOMAIN Fields
  BY FieldsType DEF ConfigInv, ConfigTypes, CfgState
<1>3. Len(Modules) \in Nat /\ main.k \in 1 .. Len(Modules) + 1
  BY ModulesAssumption DEF MainTyped
<1>4. Handlers \in Nat /\ Handlers <= Len(Modules)
  BY <1>3, HandlersType DEF TopicInv, HandlersInOrder, MainTyped, Registering
<1>5. subscribing \in -1 .. Len(Modules) + 1
  BY <1>3, <1>4 DEF TopicInv, MqttTyped
<1>6. subscriptions \subseteq Topics \cup {CmdTopic}
  BY DEF TopicInv, MqttTyped
<1> QED
  BY <1>1, <1>2, <1>3, <1>4, <1>5, <1>6, WifiTyped DEF TypeOK, Handlers

\* Registrations race with the CONNECTED loop and with lost connections: a topic
\* is subscribed as soon as neither is at work, never before its module can take
\* a message, for any number of modules and in any order of them.
THEOREM TopicsStaySubscribed == Spec => []TopicsAreSound
<1>1. Init => ConfigInv /\ WifiInv /\ MainTyped /\ TopicInv
  <2>1. Init => MqttQuiet
    BY DEF Init, MqttQuiet
  <2> QED
    BY <2>1, ConfigInitInv, WifiInitInv, MainTypedInit, QuietInv DEF Init
<1>2. TopicInv => NothingUnsubscribed
  <2> SUFFICES ASSUME TopicInv, connected, subscribing = -1, main.pc # "subscribe"
               PROVE  subscriptions = Registered
    BY DEF NothingUnsubscribed
  <2>1. \A i \in 1 .. Handlers : s_handlers[i] \in subscriptions
    BY DEF TopicInv, Covered, Registering
  <2>2. CmdTopic \in subscriptions
    BY DEF TopicInv, Covered
  <2> QED
    BY <2>1, <2>2, HandlersType DEF TopicInv, OnlyRegistered, Registered, Range
<1>3. TopicInv => HandlersAreReady
  <2> SUFFICES ASSUME TopicInv, NEW topic \in subscriptions
               PROVE  topic \in Registered /\ topic \in ready
    BY DEF HandlersAreReady
  <2>1. topic \in Registered
    BY DEF TopicInv, OnlyRegistered
  <2>2. CmdTopic \in ready
    BY DEF TopicInv, OnlyRegistered, ReadyFirst
  <2>3. \A i \in 1 .. Handlers : s_handlers[i] \in ready
    BY DEF TopicInv, ReadyFirst
  <2> QED
    BY <2>1, <2>2, <2>3, HandlersType DEF Registered, Range
<1>4. ConfigInv /\ WifiInv /\ MainTyped /\ TopicInv => TopicsAreSound
  BY <1>2, <1>3, TopicTyped DEF TopicsAreSound
<1> QED
  BY <1>1, <1>4, ConfigNextInv, WifiStepInv, MainTypedStep, TopicStepInv, PTL DEF Spec
=============================================================================
