-------------------------------- MODULE Wifi --------------------------------
(* initialise_wifi and wifi_event_handler of wifi.c, over a station driver *)
(* that posts events to the default event loop.  The loop is a task of its *)
(* own: an event may wait in its queue while the link goes on changing and *)
(* while initialise_wifi wakes up, unregisters and deletes.                *)
EXTENDS Integers, Sequences

CONSTANT MaximumRetry     \* WORKSHOP_ESP_MAXIMUM_RETRY

ASSUME WifiAssumption == MaximumRetry \in Nat

VARIABLES
    wifiStep,             \* where initialise_wifi is
    wifiEvents,           \* the queue of the event loop
    registered,           \* event bases with a registered handler
    group,                \* wifi_event_group: "none", "live" or "deleted"
    bits,                 \* its bits
    retryNum,             \* s_retry_num
    wifiResult,           \* what initialise_wifi found
    link,                 \* the station: "down", "connecting", "up" (no address yet) or "ip"
    tries                 \* history, until initialise_wifi returns: calls of
                          \* esp_wifi_connect since the last address

wifiVars == <<wifiStep, wifiEvents, registered, group, bits, retryNum, wifiResult, link, tries>>

Bases == [START |-> "WIFI", DISCONNECTED |-> "WIFI", GOT_IP |-> "IP"]

WifiInit ==
    /\ wifiStep = "start" /\ wifiEvents = <<>> /\ registered = {}
    /\ group = "none" /\ bits = {} /\ retryNum = 0 /\ wifiResult = "none"
    /\ link = "down" /\ tries = 0

-----------------------------------------------------------------------------
(* initialise_wifi                                                         *)

(* Group, handlers and driver; esp_wifi_start posts START.                 *)
WifiStart ==
    /\ wifiStep = "start"
    /\ wifiStep' = "wait"
    /\ group' = "live"
    /\ registered' = {"WIFI", "IP"}
    /\ wifiEvents' = Append(wifiEvents, "START")
    /\ UNCHANGED <<bits, retryNum, wifiResult, link, tries>>

(* xEventGroupWaitBits, without a timeout, clears nothing.                 *)
WaitReturns ==
    /\ wifiStep = "wait" /\ bits # {}
    /\ wifiStep' = "unregisterIp"
    /\ wifiResult' = IF "CONNECTED" \in bits THEN "connected" ELSE "failed"
    /\ UNCHANGED <<wifiEvents, registered, group, bits, retryNum, link, tries>>

UnregisterIp ==
    /\ wifiStep = "unregisterIp"
    /\ wifiStep' = "unregisterAny"
    /\ registered' = registered \ {"IP"}
    /\ UNCHANGED <<wifiEvents, group, bits, retryNum, wifiResult, link, tries>>

(* Mutant: the Wi-Fi handler stays registered.                             *)
KeepHandler ==
    /\ wifiStep = "unregisterAny"
    /\ wifiStep' = "delete"
    /\ UNCHANGED <<wifiEvents, registered, group, bits, retryNum, wifiResult, link, tries>>

UnregisterAny ==
    /\ wifiStep = "unregisterAny"
    /\ wifiStep' = "delete"
    /\ registered' = registered \ {"WIFI"}
    /\ UNCHANGED <<wifiEvents, group, bits, retryNum, wifiResult, link, tries>>

DeleteGroup ==
    /\ wifiStep = "delete"
    /\ wifiStep' = "done"
    /\ group' = "deleted"
    /\ bits' = {}
    /\ tries' = 0
    /\ UNCHANGED <<wifiEvents, registered, retryNum, wifiResult, link>>

-----------------------------------------------------------------------------
(* wifi_event_handler                                                      *)

(* esp_wifi_connect: an error, and no effect, while a connection is on.    *)
EspConnect ==
    IF link = "down" THEN link' = "connecting" /\ tries' = tries + 1
                     ELSE UNCHANGED <<link, tries>>

HandleStart == EspConnect /\ UNCHANGED <<bits, retryNum>>

(* Mutant: the last retry ends without the bit that tells the waiter.      *)
HandleDisconnectedSilently ==
    /\ retryNum' = IF retryNum < MaximumRetry THEN retryNum + 1 ELSE retryNum
    /\ IF retryNum < MaximumRetry THEN EspConnect ELSE UNCHANGED <<link, tries>>
    /\ UNCHANGED bits

HandleDisconnected ==
    IF retryNum < MaximumRetry
    THEN EspConnect /\ retryNum' = retryNum + 1 /\ UNCHANGED bits
    ELSE bits' = bits \union {"FAIL"} /\ UNCHANGED <<link, tries, retryNum>>

(* Mutant: an address does not start the count of retries again.           *)
HandleGotIpKeepingCount ==
    /\ bits' = bits \union {"CONNECTED"}
    /\ UNCHANGED <<link, tries, retryNum>>

HandleGotIp ==
    /\ retryNum' = 0
    /\ bits' = bits \union {"CONNECTED"}
    /\ UNCHANGED <<link, tries>>

(* The event loop takes an event; nobody hears one that is not registered. *)
HandleEvent ==
    /\ wifiEvents # <<>>
    /\ wifiEvents' = Tail(wifiEvents)
    /\ LET event == Head(wifiEvents) IN
       IF Bases[event] \notin registered THEN UNCHANGED <<link, tries, bits, retryNum>>
       ELSE \/ event = "START" /\ HandleStart
            \/ event = "DISCONNECTED" /\ HandleDisconnected
            \/ event = "GOT_IP" /\ HandleGotIp
    /\ UNCHANGED <<wifiStep, registered, group, wifiResult>>

-----------------------------------------------------------------------------
(* The driver and the access point (external)                              *)

Associate ==
    /\ link = "connecting"
    /\ link' = "up"
    /\ UNCHANGED <<wifiStep, wifiEvents, registered, group, bits, retryNum, wifiResult, tries>>

(* An attempt fails, or a connection is lost, with an address or without.  *)
LinkLost ==
    /\ link # "down"
    /\ link' = "down"
    /\ wifiEvents' = Append(wifiEvents, "DISCONNECTED")
    /\ UNCHANGED <<wifiStep, registered, group, bits, retryNum, wifiResult, tries>>

DhcpAnswers ==
    /\ link = "up"
    /\ link' = "ip"
    /\ tries' = 0
    /\ wifiEvents' = Append(wifiEvents, "GOT_IP")
    /\ UNCHANGED <<wifiStep, registered, group, bits, retryNum, wifiResult>>

InitialiseWifi == WifiStart \/ WaitReturns \/ UnregisterIp \/ UnregisterAny \/ DeleteGroup
Driver == Associate \/ LinkLost \/ DhcpAnswers
WifiNext == InitialiseWifi \/ HandleEvent \/ Driver

WifiSpec == WifiInit /\ [][WifiNext]_wifiVars

-----------------------------------------------------------------------------
FailureTold ==
    \/ wifiStep = "wait" /\ "FAIL" \in bits
    \/ wifiStep # "done" /\ wifiResult = "failed"

(* Failure means what it says: as long as initialise_wifi waits, the bit is *)
(* set only when the retries since the last address are used up, and when  *)
(* it returns with a failure the station is down for good: no event on its *)
(* way can bring it up behind the back of the caller.                      *)
FailOnlyWhenExhausted ==
    FailureTold => link = "down" /\ tries >= MaximumRetry /\ wifiEvents = <<>>

(* Between the wait and the deletion events may still come, in any number: *)
(* none can set a bit of the deleted group.                                *)
NoBitAfterDelete == registered # {} => group = "live"

(* Once initialise_wifi has returned, the program never connects again: a  *)
(* station that is down, because the retries ran out or because a working  *)
(* link was lost later, stays down until the next start.                   *)
NobodyReconnects == [][wifiStep = "done" /\ link = "down" => link' = "down"]_wifiVars
=============================================================================
