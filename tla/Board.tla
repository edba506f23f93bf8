------------------------------- MODULE Board --------------------------------
(* The program as app_main of main.c puts it together: the dimmer starts   *)
(* first and runs from interrupts from then on, then the Wi-Fi connection  *)
(* is awaited, then the MQTT task is created and loops over reading the    *)
(* sensor, connecting with back-off, a session and a pause.  What happens  *)
(* in a session is module DemoSession; here it ends in some way.           *)
EXTENDS Dimmer, Wifi, Dht22, Backoff, TlsTransport

CONSTANTS
    TargetLevel,          \* the level app_main sets at the end (35)
    BackoffBase, BackoffMaxDelay, BackoffMaxAttempts,  \* CONNECTION_RETRY_*
    Randoms               \* what rand may return

ASSUME BoardAssumption == TargetLevel \in 0 .. 255
(* The types of the parameters of InitializeParams and of rand.            *)
ASSUME ConnectAssumption ==
    /\ BackoffBase \in UINT16 /\ BackoffMaxDelay \in UINT16 /\ BackoffMaxAttempts \in Nat
    /\ Randoms \subseteq Nat
(* 500, 5000 and 5: a base within the maximum, a maximum that halves       *)
(* exactly and an end to the attempts.                                     *)
ASSUME ScheduleAssumption ==
    BackoffBase <= BackoffMaxDelay /\ BackoffMaxDelay % 2 = 0 /\ BackoffMaxAttempts > 0

VARIABLES
    appStep,              \* app_main: "init", "delay" (the MQTT task runs) or "done"
    taskStep,             \* aws_iot_demo
    document,             \* the settings of the dimmer in pcPayload, or none yet
    reconnectParams,      \* of connectToServerWithBackoffRetries
    nextRetryBackOff      \* its last back-off

taskVars == <<taskStep, document, reconnectParams, nextRetryBackOff>>
vars == <<dimmerVars, wifiVars, dhtVars, tlsVars, appStep, taskVars>>

NoDocument == [level |-> 0, enabled |-> FALSE]
NewParams == InitializeParams(BackoffBase, BackoffMaxDelay, BackoffMaxAttempts)
(* reconnectParams and nextRetryBackOff are locals of the connection loop. *)
Locals == reconnectParams' = NewParams /\ nextRetryBackOff' = 0

Init ==
    /\ DimmerInit /\ WifiInit /\ DhtInit /\ TlsInit
    /\ appStep = "init" /\ taskStep = "none"
    /\ document = NoDocument
    /\ reconnectParams = NewParams /\ nextRetryBackOff = 0

-----------------------------------------------------------------------------
(* app_main                                                                *)

(* Mutant: the MQTT task is created before anything else is started.       *)
CreateMqttTaskFirst ==
    /\ appStep = "init"
    /\ appStep' = "delay"
    /\ taskStep' = "read"
    /\ UNCHANGED <<dimmerVars, wifiVars, dhtVars, tlsVars, document, reconnectParams, nextRetryBackOff>>

CreateMqttTask ==
    /\ appStep = "init" /\ wifiStep = "done"
    /\ appStep' = "delay"
    /\ taskStep' = "read"
    /\ UNCHANGED <<dimmerVars, wifiVars, dhtVars, tlsVars, document, reconnectParams, nextRetryBackOff>>

(* After one second, whether or not anything is connected by then.         *)
SetTargetLevel ==
    /\ appStep = "delay"
    /\ appStep' = "done"
    /\ SetDimmerLevel(TargetLevel)
    /\ UNCHANGED <<wifiVars, dhtVars, tlsVars, taskVars>>

(* dimmer_init, and initialise_wifi after it.                              *)
StartDimmer == DimmerStart /\ UNCHANGED <<wifiVars, dhtVars, tlsVars, appStep, taskVars>>
StartWifi ==
    /\ initStep = "ready" /\ InitialiseWifi
    /\ UNCHANGED <<dimmerVars, dhtVars, tlsVars, appStep, taskVars>>

-----------------------------------------------------------------------------
(* aws_iot_demo                                                            *)

ReadSensor ==
    /\ taskStep = "read"
    /\ taskStep' = "document"
    /\ ReadDHT
    /\ UNCHANGED <<dimmerVars, wifiVars, tlsVars, appStep, document, reconnectParams, nextRetryBackOff>>

(* The rest of DHT_reader_task: whatever readDHT returned, a document is   *)
(* made, with level and flag read under the spinlock; then two seconds.    *)
MakeDocument ==
    /\ taskStep = "document"
    /\ taskStep' = "start"
    /\ document' = [level |-> level, enabled |-> enabled]
    /\ UNCHANGED <<dimmerVars, wifiVars, dhtVars, tlsVars, appStep, reconnectParams, nextRetryBackOff>>

(* connectToServerWithBackoffRetries up to its loop                        *)
StartConnect ==
    /\ taskStep = "start"
    /\ taskStep' = "connect"
    /\ Locals
    /\ ForgetHandle
    /\ UNCHANGED <<dimmerVars, wifiVars, dhtVars, appStep, document>>

ConnectSucceeds ==
    /\ taskStep = "connect" /\ link = "ip"
    /\ taskStep' = "session"
    /\ TlsConnectSucceeds
    /\ Locals
    /\ UNCHANGED <<dimmerVars, wifiVars, dhtVars, appStep, document>>

ConnectFails ==
    /\ taskStep = "connect" /\ AttemptsLeft(reconnectParams)
    /\ TlsConnectFails
    /\ \E random \in Randoms : nextRetryBackOff' = NextBackOff(reconnectParams, random)
    /\ reconnectParams' = AfterRetry(reconnectParams)
    /\ UNCHANGED <<dimmerVars, wifiVars, dhtVars, appStep, taskStep, document>>

ConnectGivesUp ==
    /\ taskStep = "connect" /\ ~ AttemptsLeft(reconnectParams)
    /\ TlsConnectFails
    /\ taskStep' = "disconnect"
    /\ Locals
    /\ UNCHANGED <<dimmerVars, wifiVars, dhtVars, appStep, document>>

(* subscribePublishLoop returns, with whatever status.                     *)
Session ==
    /\ taskStep = "session"
    /\ taskStep' = "disconnect"
    /\ UNCHANGED <<dimmerVars, wifiVars, dhtVars, tlsVars, appStep, document, reconnectParams, nextRetryBackOff>>

Disconnect ==
    /\ taskStep = "disconnect"
    /\ taskStep' = "sleep"
    /\ TlsDisconnect
    /\ UNCHANGED <<dimmerVars, wifiVars, dhtVars, appStep, document, reconnectParams, nextRetryBackOff>>

Sleep ==
    /\ taskStep = "sleep"
    /\ taskStep' = "read"
    /\ UNCHANGED <<dimmerVars, wifiVars, dhtVars, tlsVars, appStep, document, reconnectParams, nextRetryBackOff>>

-----------------------------------------------------------------------------
AppMain == StartDimmer \/ StartWifi \/ CreateMqttTask \/ SetTargetLevel
MqttTask ==
    \/ ReadSensor \/ MakeDocument \/ StartConnect \/ ConnectSucceeds \/ ConnectFails
    \/ ConnectGivesUp \/ Session \/ Disconnect \/ Sleep
Interrupts == DimmerRun /\ UNCHANGED <<wifiVars, dhtVars, tlsVars, appStep, taskVars>>
EventLoop == HandleEvent /\ UNCHANGED <<dimmerVars, dhtVars, tlsVars, appStep, taskVars>>
Station == Driver /\ UNCHANGED <<dimmerVars, dhtVars, tlsVars, appStep, taskVars>>

Next == AppMain \/ MqttTask \/ Interrupts \/ EventLoop \/ Station

Spec == Init /\ [][Next]_vars

(* Tasks are scheduled, time passes and an event that was posted is        *)
(* handled.  Nothing is assumed of the station and its access point.       *)
FairSpec ==
    /\ Spec
    /\ WF_vars(AppMain) /\ WF_vars(MqttTask)
    /\ WF_vars(Interrupts) /\ WF_vars(EventLoop)

-----------------------------------------------------------------------------
TypeOK ==
    /\ DimmerTypeOK
    /\ wifiStep \in {"start", "wait", "unregisterIp", "unregisterAny", "delete", "done"}
    /\ Len(wifiEvents) <= 2 /\ retryNum \in 0 .. MaximumRetry /\ tries \in 0 .. MaximumRetry + 1
    /\ humidity \in Humidities /\ temperature \in Temperatures
    /\ reconnectParams \in Contexts /\ nextRetryBackOff \in UINT16

(* The base doubled k times.                                               *)
Doubled[k \in Nat] == IF k = 0 THEN BackoffBase ELSE 2 * Doubled[k - 1]

(* The back-off of a connection loop is the jitter its documentation asks  *)
(* for: the bound starts at the base, doubles with each attempt and stops  *)
(* at the maximum, each sleep is within the bound of its attempt, and the  *)
(* attempts end; each loop starts afresh.                                  *)
BackoffWithinSchedule ==
    LET bound(k) == Min({BackoffMaxDelay, Doubled[k]})
        done == reconnectParams.attemptsDone
    IN  /\ done <= BackoffMaxAttempts
        /\ reconnectParams.nextJitterMax = bound(done)
        /\ nextRetryBackOff <= IF done = 0 THEN 0 ELSE bound(done - 1)

(* A TLS context lives as long as the handle that can destroy it: none is  *)
(* left behind when the next loop forgets the handle, and a session never  *)
(* runs without one.                                                       *)
NoTlsLeak ==
    /\ allocated = IF pxTls = "NULL" THEN 0 ELSE 1
    /\ taskStep = "session" => pxTls # "NULL"
    /\ taskStep \in {"read", "document", "start"} => allocated = 0

(* What the device reports of its dimmer is a setting it runs at: neither  *)
(* the disabled dimmer of its start-up nor the level it starts from gets   *)
(* into a document.                                                        *)
DocumentAfterStart ==
    document # NoDocument => document.enabled /\ document.level \in {100, TargetLevel}

(* The device comes back to its sensor again and again: neither retries    *)
(* that run out, nor connection attempts to the server, nor a link that is *)
(* lost at any time hold it for ever.  One thing does: initialise_wifi     *)
(* waits without a timeout, so a station that for ever neither fails nor   *)
(* gets an address (an access point that never answers DHCP) keeps         *)
(* app_main from creating the task.                                        *)
HeldByStation == wifiStep = "wait" /\ link \in {"connecting", "up"}
SensorReadForever == []<>(taskStep = "read") \/ <>[]HeldByStation
=============================================================================
