-------------------------------- MODULE Wifi --------------------------------
(***************************************************************************)
(* wifi.c: the event handler of the station, which connects when it starts *)
(* and again after each disconnection, WIFI_MAX_RETRY times in a row.      *)
(* The driver posts events in order; the link may change before they are   *)
(* handled.                                                                *)
(***************************************************************************)
EXTENDS Integers, Sequences

CONSTANTS
    WIFI_MAX_RETRY,
    MaxDrops        \* bound: failed attempts, and links and connections lost

ASSUME WifiAssumption == WIFI_MAX_RETRY \in Nat /\ MaxDrops \in Nat

VARIABLES
    link,           \* of the driver: off, connecting, down or up
    events,         \* posted and not handled
    s_retry_count,
    connectedBit,   \* WIFI_CONNECTED_BIT
    drops,
    inARow          \* disconnections since there was an IP address

wifiVars == <<link, events, s_retry_count, connectedBit, drops, inARow>>

WifiType ==
    /\ link \in {"off", "connecting", "down", "up"}
    /\ events \in Seq({"START", "DISCONNECTED", "GOT_IP"})
    /\ s_retry_count \in 0 .. WIFI_MAX_RETRY /\ connectedBit \in BOOLEAN
    /\ drops \in 0 .. MaxDrops /\ inARow \in 0 .. MaxDrops

WifiOff ==
    /\ link = "off" /\ events = <<>> /\ s_retry_count = 0 /\ connectedBit = FALSE
    /\ inARow = 0

WifiInit == WifiOff /\ drops = 0

WifiStart ==
    /\ events' = <<"START">> /\ link' = "down"
    /\ UNCHANGED <<s_retry_count, connectedBit, drops, inARow>>

---------------------------------------------------------------------------
(* The driver.                                                             *)

GetIp ==
    /\ link = "connecting" /\ link' = "up"
    /\ events' = Append(events, "GOT_IP") /\ inARow' = 0
    /\ UNCHANGED <<s_retry_count, connectedBit, drops>>

\* An attempt that fails, or a link that is lost.
LoseLink ==
    /\ link \in {"connecting", "up"} /\ drops < MaxDrops
    /\ link' = "down" /\ drops' = drops + 1
    /\ events' = Append(events, "DISCONNECTED") /\ inARow' = inARow + 1
    /\ UNCHANGED <<s_retry_count, connectedBit>>

---------------------------------------------------------------------------
(* event_handler.                                                          *)

HandleStart ==
    /\ events # <<>> /\ Head(events) = "START"
    /\ events' = Tail(events) /\ link' = "connecting"
    /\ UNCHANGED <<s_retry_count, connectedBit, drops, inARow>>

MayRetry == s_retry_count < WIFI_MAX_RETRY

HandleDisconnected ==
    /\ events # <<>> /\ Head(events) = "DISCONNECTED"
    /\ events' = Tail(events)
    /\ IF MayRetry
       THEN link' = "connecting" /\ s_retry_count' = s_retry_count + 1
       ELSE UNCHANGED <<link, s_retry_count>>
    /\ UNCHANGED <<connectedBit, drops, inARow>>

\* Mutant: an address does not begin a new count.
HandleGotIpUncounted ==
    /\ events # <<>> /\ Head(events) = "GOT_IP"
    /\ events' = Tail(events) /\ connectedBit' = TRUE
    /\ UNCHANGED <<link, s_retry_count, drops, inARow>>

\* Mutant: nobody is told.
HandleGotIpSilently ==
    /\ events # <<>> /\ Head(events) = "GOT_IP"
    /\ events' = Tail(events) /\ s_retry_count' = 0
    /\ UNCHANGED <<link, connectedBit, drops, inARow>>

HandleGotIp ==
    /\ events # <<>> /\ Head(events) = "GOT_IP"
    /\ events' = Tail(events)
    /\ s_retry_count' = 0 /\ connectedBit' = TRUE
    /\ UNCHANGED <<link, drops, inARow>>

\* Nothing will connect the station again before the next boot.
GaveUp == link = "down" /\ events = <<>>

WifiStep == GetIp \/ HandleStart \/ HandleDisconnected \/ HandleGotIp
=============================================================================
