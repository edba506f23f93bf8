---------------------------- MODULE DemoSession ----------------------------
(***************************************************************************)
(* The device's MQTT task: aws_iot_demo of main.c and subscribePublishLoop *)
(* of mqtt_demo_mutual_auth.c, over the coreMQTT library (MqttClient) and  *)
(* in front of a broker (Broker).                                          *)
(*                                                                         *)
(* Every iteration reads the sensor, connects, resumes or clears the       *)
(* session, subscribes, publishes one payload, unsubscribes, disconnects.  *)
(* A payload is stored until its PUBACK comes, to be sent again when a     *)
(* later connection resumes the session.  pc names the call the task is    *)
(* in; in the four process loops packets are handled one at a time.        *)
(*                                                                         *)
(* Payloads are numbered in the order the iterations make them; TableSize  *)
(* is MAX_OUTGOING_PUBLISHES, MaxPacketId is UINT16_MAX and MaxAttempts is *)
(* CONNECTION_RETRY_MAX_ATTEMPTS.  MaxPayloads bounds the model.           *)
(***************************************************************************)
EXTENDS Broker

CONSTANTS RecordCount, TableSize, MaxPacketId, MaxAttempts, MaxPayloads

ASSUME BoundsAssumption ==
    {RecordCount, TableSize, MaxPacketId, MaxAttempts, MaxPayloads} \subseteq Nat \ {0}
ASSUME InboundIdsAssumption == InboundIds \subseteq 1..MaxPacketId

VARIABLES
    outgoing, incoming, linkUp, resend, result,    (* of MqttClient        *)
    pc,             (* the call the task is in                             *)
    failed,         (* returnStatus = EXIT_FAILURE                         *)
    table,          (* outgoingPublishPackets: packet id and payload       *)
    nextId,         (* pContext->nextPacketId                              *)
    sessionSaved,   (* clientSessionPresent                                *)
    subscribeId,    (* globalSubscribePacketIdentifier                     *)
    unsubscribeId,  (* globalUnsubscribePacketIdentifier                   *)
    granted,        (* globalSubAckStatus # MQTTSubAckFailure              *)
    attempts,       (* retryParams.attemptsDone of handleResubscribe       *)
    payloads,       (* how many payloads were published or tried           *)
    accepted,       (* those of them that publishToTopic reported as sent  *)
    seen            (* inbound messages the callback was given             *)

clientVars == <<outgoing, incoming, linkUp, resend, result>>
taskVars == <<pc, failed, table, nextId, sessionSaved, subscribeId,
              unsubscribeId, granted, attempts, payloads, accepted, seen>>
vars == <<brokerVars, clientVars, taskVars>>

PacketIds == 1..MaxPacketId
Payloads  == 1..MaxPayloads

Client == INSTANCE MqttClient WITH
             NoPacketId <- 0, PublishQoS <- {1}, ReceiveQoS <- {1}

Loops == {"suback", "resuback", "puback", "unsuback"}

-----------------------------------------------------------------------------
(* Mutant: the id after UINT16_MAX is one more.                            *)
IdWithoutWrap == nextId + 1

(* MQTT_GetPacketId: 0 is never given, UINT16_MAX is followed by 1.        *)
FollowingId == IF nextId = MaxPacketId THEN 1 ELSE nextId + 1

Stored(id) == \E e \in table : e.packetId = id
PayloadOf(id) == (CHOOSE e \in table : e.packetId = id).payload

(* Mutant: any PUBACK clears the whole table.                              *)
CleanupAll(id) == {}

(* cleanupOutgoingPublishWithPacketID clears one slot with the id, if any. *)
Cleanup(id) ==
    IF Stored(id) THEN table \ {CHOOSE e \in table : e.packetId = id} ELSE table

(* What a library call sent, as the packets on the connection.             *)
OnWire(sent, payload) ==
    [i \in 1..Len(sent) |->
        IF sent[i].type = "PUBLISH"
        THEN [type |-> "PUBLISH", packetId |-> sent[i].packetId, message |-> payload]
        ELSE sent[i]]

Transmit(packets) == toBroker' = toBroker \o packets

Fail == failed' = TRUE /\ pc' = "disconnect"

-----------------------------------------------------------------------------
Init ==
    /\ BrokerInit
    /\ Client!Init
    /\ pc = "offline"
    /\ failed = FALSE
    /\ table = {}
    /\ nextId = 1
    /\ sessionSaved = FALSE
    /\ subscribeId = 0
    /\ unsubscribeId = 0
    /\ granted = FALSE
    /\ attempts = 0
    /\ payloads = 0
    /\ accepted = {}
    /\ seen = {}

(* connectToServerWithBackoffRetries succeeds and MQTT_Connect sends its   *)
(* CONNECT, asking for a clean session until one has been saved.           *)
Connect ==
    /\ pc = "offline"
    /\ Open([type |-> "CONNECT", clean |-> ~ sessionSaved])
    /\ pc' = "connack"
    /\ UNCHANGED <<clientVars, failed, table, nextId, sessionSaved, subscribeId, unsubscribeId, granted, attempts, payloads, accepted, seen>>

(* receiveConnack gave up, or the connection failed: nothing was           *)
(* established, so the iteration ends without a DISCONNECT.                *)
ConnackMissed ==
    /\ pc = "connack"
    /\ IF connected THEN Fault("connack") ELSE NoFault
    /\ Close
    /\ pc' = "offline"
    /\ UNCHANGED <<toBroker, session, arrived, settled, clientVars, failed, table, nextId,
                   sessionSaved, subscribeId, unsubscribeId, granted, attempts, payloads, accepted, seen>>

Connack(present) ==
    /\ pc = "connack"
    /\ toDevice # <<>>
    /\ Head(toDevice) = [type |-> "CONNACK", present |-> present]
    /\ toDevice' = Tail(toDevice)
    /\ UNCHANGED <<connected, toBroker, session, arrived, settled, faultsLeft, failed, nextId,
                   subscribeId, unsubscribeId, granted, attempts, payloads, accepted, seen>>

(* Mutant: the table outlives the session it was for.                      *)
NewSessionKeepsTable ==
    /\ Connack(FALSE)
    /\ Client!ConnectNewSession
    /\ sessionSaved' = TRUE
    /\ pc' = "subscribe"
    /\ UNCHANGED table

(* The library clears its records, the task its table.                     *)
ConnackNewSession ==
    /\ Connack(FALSE)
    /\ Client!ConnectNewSession
    /\ table' = {}
    /\ sessionSaved' = TRUE
    /\ pc' = "subscribe"

ConnackSessionPresent ==
    /\ Connack(TRUE)
    /\ Client!ConnectSessionPresent
    /\ pc' = "resend"
    /\ UNCHANGED <<table, sessionSaved>>

-----------------------------------------------------------------------------
(* handleSessionResumption, which has no PUBREL to send with QoS 1, then   *)
(* handlePublishResend.                                                    *)

ResendStep ==
    /\ pc = "resend"
    /\ UNCHANGED <<connected, toDevice, session, arrived, settled, table, nextId, sessionSaved,
                   subscribeId, unsubscribeId, granted, attempts, payloads, accepted, seen>>

(* A failed send is noted, and the loop goes on with the next packet id.   *)
ResendStored(ok) ==
    LET id == Client!Selected.packetId
    IN  /\ ResendStep
        /\ Sends(ok)
        /\ Client!ResendPublish(ok)
        /\ Stored(id)
        /\ Transmit(OnWire(result'.sent, PayloadOf(id)))
        /\ failed' = (failed \/ result'.status # "Success")
        /\ UNCHANGED pc

ResendUnknown ==
    /\ ResendStep
    /\ Client!ResendAbandon
    /\ ~ Stored(Client!Selected.packetId)
    /\ Fail
    /\ UNCHANGED <<toBroker, faultsLeft>>

ResendDone ==
    /\ ResendStep
    /\ Client!ResendEnd
    /\ pc' = IF resend.kind = "pubrel" THEN "resend"
             ELSE IF failed THEN "disconnect" ELSE "subscribe"
    /\ UNCHANGED <<toBroker, failed, faultsLeft>>

-----------------------------------------------------------------------------
(* Requests                                                                *)

RequestStep ==
    UNCHANGED <<connected, toDevice, session, arrived, settled, sessionSaved, granted, seen>>

(* The outcome of MQTT_Subscribe or MQTT_Unsubscribe.                      *)
Request(type, id, ok, next) ==
    \/ /\ ok
       /\ Transmit(<<[type |-> type, packetId |-> id]>>)
       /\ pc' = next
       /\ UNCHANGED failed
    \/ ~ ok /\ Fail /\ UNCHANGED toBroker

SubscribeToTopic(ok) ==
    /\ pc = "subscribe"
    /\ RequestStep
    /\ Sends(ok)
    /\ subscribeId' = nextId
    /\ nextId' = FollowingId
    /\ Request("SUBSCRIBE", nextId, ok, "suback")
    /\ UNCHANGED <<clientVars, table, unsubscribeId, attempts, payloads, accepted>>

(* Mutant: a fresh packet id that is not remembered.                       *)
ResubscribeWithNewId(ok) ==
    /\ pc = "resubscribe"
    /\ RequestStep
    /\ Sends(ok)
    /\ nextId' = FollowingId
    /\ Request("SUBSCRIBE", nextId, ok, "resuback")
    /\ UNCHANGED <<clientVars, table, subscribeId, unsubscribeId, attempts, payloads, accepted>>

(* handleResubscribe sends the SUBSCRIBE again under its first packet id.  *)
Resubscribe(ok) ==
    /\ pc = "resubscribe"
    /\ RequestStep
    /\ Sends(ok)
    /\ Request("SUBSCRIBE", subscribeId, ok, "resuback")
    /\ UNCHANGED <<clientVars, table, nextId, subscribeId, unsubscribeId, attempts, payloads, accepted>>

(* publishToTopic.  The process loop that follows runs whatever became of  *)
(* the publish.                                                            *)
PublishStep ==
    /\ pc = "publish"
    /\ pc' = "puback"
    /\ RequestStep
    /\ UNCHANGED <<subscribeId, unsubscribeId, attempts>>

PublishToTopic(ok) ==
    /\ PublishStep
    /\ Sends(ok)
    /\ payloads < MaxPayloads
    /\ Cardinality(table) < TableSize
    /\ nextId' = FollowingId
    /\ payloads' = payloads + 1
    /\ Client!Publish(nextId, 1, FALSE, ok)
    /\ Transmit(OnWire(result'.sent, payloads'))
    /\ \/ /\ result'.status = "Success"
          /\ table' = table \cup {[packetId |-> nextId, payload |-> payloads']}
          /\ accepted' = accepted \cup {payloads'}
          /\ UNCHANGED failed
       \/ /\ result'.status # "Success"
          /\ failed' = TRUE
          /\ UNCHANGED <<table, accepted>>

PublishTableFull ==
    /\ PublishStep
    /\ Cardinality(table) = TableSize
    /\ failed' = TRUE
    /\ UNCHANGED <<toBroker, faultsLeft, clientVars, table, nextId, payloads, accepted>>

(* Bound: later iterations have no payload to publish.                     *)
PublishNothing ==
    /\ PublishStep
    /\ payloads = MaxPayloads
    /\ Cardinality(table) < TableSize
    /\ UNCHANGED <<toBroker, faultsLeft, clientVars, failed, table, nextId, payloads, accepted>>

UnsubscribeFromTopic(ok) ==
    /\ pc = "unsubscribe"
    /\ RequestStep
    /\ Sends(ok)
    /\ unsubscribeId' = nextId
    /\ nextId' = FollowingId
    /\ Request("UNSUBSCRIBE", nextId, ok, "unsuback")
    /\ UNCHANGED <<clientVars, table, subscribeId, attempts, payloads, accepted>>

-----------------------------------------------------------------------------
(* MQTT_ProcessLoop with eventCallback                                     *)

Receive(type) ==
    /\ pc \in Loops
    /\ toDevice # <<>>
    /\ Head(toDevice).type = type
    /\ toDevice' = Tail(toDevice)
    /\ UNCHANGED <<connected, session, arrived, settled, nextId, sessionSaved, subscribeId,
                   unsubscribeId, attempts, payloads, accepted>>

(* An error of the handler ends the loop and the iteration.                *)
GoOn == IF result'.status = "Success" THEN UNCHANGED <<pc, failed>> ELSE Fail

ReceivePuback ==
    LET id == Head(toDevice).packetId
    IN  /\ Receive("PUBACK")
        /\ Client!ReceiveOutgoingAck("PUBACK", id, TRUE)
        /\ table' = IF result'.event # <<>> THEN Cleanup(id) ELSE table
        /\ GoOn
        /\ UNCHANGED <<toBroker, faultsLeft, granted, seen>>

ReceivePublish(ok) ==
    LET packet == Head(toDevice)
    IN  /\ Receive("PUBLISH")
        /\ Sends(ok)
        /\ Client!ReceivePublish(packet.packetId, 1, packet.dup, ok)
        /\ Transmit(OnWire(result'.sent, 0))
        /\ seen' = IF result'.event # <<>> THEN seen \cup {packet.message} ELSE seen
        /\ GoOn
        /\ UNCHANGED <<table, granted>>

ReceiveSuback ==
    /\ Receive("SUBACK")
    /\ granted' = Head(toDevice).granted
    /\ UNCHANGED <<toBroker, faultsLeft, clientVars, pc, failed, table, seen>>

ReceiveUnsuback ==
    /\ Receive("UNSUBACK")
    /\ UNCHANGED <<toBroker, faultsLeft, clientVars, pc, failed, table, granted, seen>>

LoopStep ==
    UNCHANGED <<connected, toBroker, toDevice, session, arrived, settled, clientVars, table,
                nextId, sessionSaved, subscribeId, unsubscribeId, granted, payloads, accepted, seen>>

(* The transport reports the lost connection.                              *)
LoopFails ==
    /\ pc \in Loops
    /\ ~ connected
    /\ Fail
    /\ LoopStep
    /\ UNCHANGED <<attempts, faultsLeft>>

(* The time is over, whatever has or has not come.                         *)
LoopEnds(loop, next) ==
    /\ pc = loop
    /\ connected
    /\ \/ toBroker = <<>> /\ toDevice = <<>> /\ NoFault
       \/ (toBroker # <<>> \/ toDevice # <<>>) /\ Fault("late")
    /\ pc' = next
    /\ LoopStep

SubscribeLoopEnds ==
    /\ LoopEnds("suback", IF granted THEN "publish" ELSE "resubscribe")
    /\ attempts' = 0
    /\ UNCHANGED failed

(* Mutant: the attempts are never exhausted.                               *)
ResubscribeForever ==
    /\ LoopEnds("resuback", IF granted THEN "publish" ELSE "resubscribe")
    /\ UNCHANGED <<failed, attempts>>

(* BackoffAlgorithm_GetNextBackoff counts the attempt or ends them.        *)
ResubscribeLoopEnds ==
    \/ /\ granted
       /\ LoopEnds("resuback", "publish")
       /\ UNCHANGED <<failed, attempts>>
    \/ /\ ~ granted /\ attempts < MaxAttempts
       /\ LoopEnds("resuback", "resubscribe")
       /\ attempts' = attempts + 1
       /\ UNCHANGED failed
    \/ /\ ~ granted /\ attempts = MaxAttempts
       /\ LoopEnds("resuback", "disconnect")
       /\ failed' = TRUE
       /\ UNCHANGED attempts

PublishLoopEnds ==
    /\ LoopEnds("puback", IF failed THEN "disconnect" ELSE "unsubscribe")
    /\ UNCHANGED <<failed, attempts>>

UnsubscribeLoopEnds ==
    /\ LoopEnds("unsuback", "disconnect")
    /\ UNCHANGED <<failed, attempts>>

-----------------------------------------------------------------------------
(* MQTT_Disconnect, whose packet tells this broker nothing it needs, and   *)
(* xTlsDisconnect.  The next iteration starts with a fresh status.         *)
Disconnect ==
    /\ pc = "disconnect"
    /\ Close
    /\ Client!LinkDown \/ (~ linkUp /\ UNCHANGED clientVars)
    /\ granted' = FALSE
    /\ failed' = FALSE
    /\ pc' = "offline"
    /\ UNCHANGED <<toBroker, session, arrived, settled, faultsLeft, table, nextId, sessionSaved,
                   subscribeId, unsubscribeId, attempts, payloads, accepted, seen>>

(* The connection is lost; the task learns of it when it next uses it.     *)
ConnectionLost ==
    /\ Fault("break")
    /\ connected
    /\ pc = "connack" => "connack" \in Faults
    /\ Close
    /\ Client!LinkDown \/ (~ linkUp /\ UNCHANGED clientVars)
    /\ UNCHANGED <<toBroker, session, arrived, settled, taskVars>>

(* Power is lost: everything here lives in RAM.                            *)
Restart ==
    /\ Fault("restart")
    /\ Close
    /\ Client!Restart
    /\ pc' = "offline"
    /\ failed' = FALSE
    /\ table' = {}
    /\ nextId' = 1
    /\ sessionSaved' = FALSE
    /\ subscribeId' = 0
    /\ unsubscribeId' = 0
    /\ granted' = FALSE
    /\ attempts' = 0
    /\ UNCHANGED <<toBroker, session, arrived, settled, payloads, accepted, seen>>

-----------------------------------------------------------------------------
Task ==
    \/ Connect \/ ConnackMissed \/ ConnackNewSession \/ ConnackSessionPresent
    \/ ResendUnknown \/ ResendDone
    \/ \E ok \in BOOLEAN :
          \/ ResendStored(ok) \/ SubscribeToTopic(ok) \/ Resubscribe(ok)
          \/ PublishToTopic(ok) \/ UnsubscribeFromTopic(ok) \/ ReceivePublish(ok)
    \/ PublishTableFull \/ PublishNothing
    \/ ReceivePuback \/ ReceiveSuback \/ ReceiveUnsuback
    \/ LoopFails \/ SubscribeLoopEnds \/ ResubscribeLoopEnds
    \/ PublishLoopEnds \/ UnsubscribeLoopEnds
    \/ Disconnect

Next ==
    \/ Task
    \/ BrokerNext /\ UNCHANGED <<clientVars, taskVars>>
    \/ ConnectionLost
    \/ Restart

Spec == Init /\ [][Next]_vars

(* The task is scheduled and its waits are timed; the broker answers, and  *)
(* stores in the end a payload that is sent to it again and again.         *)
BrokerAnswers == BrokerReceive /\ UNCHANGED <<clientVars, taskVars>>

FairSpec ==
    /\ Spec
    /\ WF_vars(Task)
    /\ WF_vars(BrokerAnswers)
    /\ SF_vars(BrokerAnswers /\ arrived' # arrived)

-----------------------------------------------------------------------------
(* Properties *)

TypeOK ==
    /\ pc \in {"offline", "connack", "resend", "subscribe", "resubscribe", "publish",
               "unsubscribe", "disconnect"} \cup Loops
    /\ \A e \in table : e.packetId \in PacketIds /\ e.payload \in Payloads
    /\ Cardinality(table) <= TableSize
    /\ nextId \in PacketIds
    /\ {subscribeId, unsubscribeId} \subseteq {0} \cup PacketIds
    /\ attempts \in 0..MaxAttempts
    /\ {failed, sessionSaved, granted, connected} \subseteq BOOLEAN
    /\ linkUp => connected

(* What the task stores and what the library records stay in step: each    *)
(* stored payload has the one record that will make the library ask for it *)
(* again, and no two payloads share a packet id, even after ids wrap.      *)
StoredHasRecord ==
    /\ \A e \in table : e.packetId \in Client!Pending(Client!PublishResendStates)
    /\ \A e, f \in table : e.packetId = f.packetId => e = f

(* No PUBACK that can still arrive is one the library would answer with    *)
(* MQTTBadResponse, which ends the process loop and the iteration: its     *)
(* record waits, over resends, failed sends and sessions given up.         *)
PubacksExpected ==
    \A i \in 1..Len(toDevice) :
        toDevice[i].type = "PUBACK" =>
            toDevice[i].packetId \in Client!Pending({"PubAckPending"})

(* The two assertions of eventCallback, lines 918 and 926: a SUBACK or an  *)
(* UNSUBACK is always for the latest request, though requests are repeated *)
(* and answers come in a later process loop.                               *)
AnswersMatchRequests ==
    \A i \in 1..Len(toDevice) :
        /\ toDevice[i].type = "SUBACK" => toDevice[i].packetId = subscribeId
        /\ toDevice[i].type = "UNSUBACK" => toDevice[i].packetId = unsubscribeId

(* The task stays within what the library is made for: it publishes under  *)
(* valid packet ids, never in the middle of a resend round, and hands over *)
(* only what arrives on a connection, so that all MqttClient shows of any  *)
(* application is true of this one.                                        *)
UsesLibraryAsModelled == Client!Spec

(* A payload publishToTopic reported as sent reaches the broker or stays   *)
(* stored; only a session the broker does not know, or a power loss, makes *)
(* the device drop it.                                                     *)
Delivery == INSTANCE AtLeastOnce WITH
    Messages   <- Payloads,
    active     <- pc \notin {"offline", "connack"},
    pending    <- {e.payload : e \in table},
    delivered  <- {arrived[i] : i \in 1..Len(arrived)},
    accepted   <- accepted

ImplementsAtLeastOnce == Delivery!Spec

(* Every iteration comes back to the top of the loop: each wait is timed,  *)
(* the resend loop and the subscription retries are bounded.               *)
EveryIterationEnds == pc # "offline" ~> pc = "offline"

(* The comment of publishToTopic, lines 1168-1171: a publish is stored     *)
(* until its PUBACK is received.                                           *)
StoredUntilPuback ==
    [][\A id \in PacketIds :
          id \in Client!Pending(Client!PublishResendStates) /\ pc = "puback" => Stored(id)]_vars

(* The comment of aws_iot_demo, main.c lines 321-322: all the publishes    *)
(* waiting for a PUBACK are resent.  With faults that come to an end, each *)
(* stored payload eventually reaches the broker, or its session is lost.   *)
StoredEventuallyArrives ==
    \A p \in Payloads :
        (\E e \in table : e.payload = p)
            ~> (\E i \in 1..Len(arrived) : arrived[i] = p) \/ ~ \E e \in table : e.payload = p

(* The comment of handleResubscribe, lines 806-809: it runs only after the *)
(* SUBACK for the packet id it uses again has been received.               *)
ResubscribesAfterSuback ==
    pc = "resubscribe" =>
        /\ \A i \in 1..Len(toBroker) : toBroker[i].type # "SUBSCRIBE"
        /\ \A i \in 1..Len(toDevice) : toDevice[i].type # "SUBACK"

(* The comment of handleIncomingPublish in core_mqtt.c, lines 1123-1124:   *)
(* the callback is invoked for all publishes but duplicates.  A message    *)
(* the broker has been acknowledged was handed to the callback once.       *)
AcknowledgedWasSeen == settled \subseteq seen
=============================================================================
