----------------------------- MODULE MqttClient -----------------------------
(***************************************************************************)
(* The publish side of the coreMQTT library, core_mqtt.c over              *)
(* core_mqtt_state.c, as any application and any broker may drive it.      *)
(*                                                                         *)
(* One action is one handler run to its end: the library is called from a  *)
(* single task.  The application chooses packet ids, QoS and the dup flag; *)
(* the broker chooses what arrives; every send may fail.  The two resend   *)
(* loops that follow CONNACK are run one iteration at a time, and nothing  *)
(* else of the library runs while they do.                                 *)
(***************************************************************************)
EXTENDS PublishRecords, Sequences

CONSTANTS
    PublishQoS,     (* QoS values the application publishes with           *)
    ReceiveQoS      (* QoS values of the publishes that arrive             *)

ASSUME QoSAssumption == PublishQoS \subseteq {1, 2} /\ ReceiveQoS \subseteq {1, 2}

VARIABLES
    outgoing,       (* pContext->outgoingPublishRecords                    *)
    incoming,       (* pContext->incomingPublishRecords                    *)
    linkUp,         (* the transport below the library is connected        *)
    resend,         (* the resend loop running, its cursor and its yield   *)
    result          (* what the last handler returned, sent and reported   *)

vars == <<outgoing, incoming, linkUp, resend, result>>

-----------------------------------------------------------------------------
PublishPacket(id, qos, dup) ==
    [type |-> "PUBLISH", packetId |-> id, qos |-> qos, dup |-> dup]
AckPacket(ack, id) == [type |-> ack, packetId |-> id]

Packets == [type : {"PUBLISH"}, packetId : PacketIds, qos : {1, 2}, dup : BOOLEAN]
              \cup [type : AckTypes, packetId : PacketIds]

(* The outcome of a handler: its return code, the packet it put on the     *)
(* wire and the packet it reported to the application callback, if any.    *)
Outcome(status, sent, event) ==
    [status |-> status, sent |-> sent, event |-> event]

Idle == [kind |-> "idle", cursor |-> 0, given |-> {}]
Loop(kind) == [kind |-> kind, cursor |-> 0, given |-> {}]

LoopStates(kind) == IF kind = "pubrel" THEN PubrelResendStates
                                       ELSE PublishResendStates

Selected == StateSelect(outgoing, LoopStates(resend.kind), resend.cursor)

-----------------------------------------------------------------------------
(* getAckTypeToSend: the acknowledgement a handshake state calls for.      *)
AckToSend ==
    [PubAckSend  |-> "PUBACK", PubRecSend  |-> "PUBREC",
     PubRelSend  |-> "PUBREL", PubCompSend |-> "PUBCOMP"]

(* Mutant: the record is updated before the send, whatever comes of it.    *)
AckBeforeSend(recs, id, state, ok) ==
    LET updated == AckRecord(recs, id, AckToSend[state], "SEND")
    IN  IF state \notin DOMAIN AckToSend
        THEN [records |-> recs, status |-> "Success", sent |-> <<>>]
        ELSE [records |-> updated.records,
              status  |-> IF ok THEN updated.status ELSE "SendFailed",
              sent    |-> IF ok THEN <<AckPacket(AckToSend[state], id)>> ELSE <<>>]

(* sendPublishAcks on one array: nothing to do in other states; a failed   *)
(* send leaves the record where it is.                                     *)
SendPublishAck(recs, id, state, ok) ==
    IF state \notin DOMAIN AckToSend
    THEN [records |-> recs, status |-> "Success", sent |-> <<>>]
    ELSE IF ~ ok
    THEN [records |-> recs, status |-> "SendFailed", sent |-> <<>>]
    ELSE LET updated == AckRecord(recs, id, AckToSend[state], "SEND")
         IN  [records |-> updated.records, status |-> updated.status,
              sent |-> <<AckPacket(AckToSend[state], id)>>]

(* MQTT_Publish.  Reserving a state that exists is an error for a new      *)
(* publish and is ignored for a resent one.                                *)
PublishOutcome(id, qos, dup, ok) ==
    LET reserved == AddRecord(outgoing, id, qos, "PublishSend")
        updated  == SentRecord(reserved.records, id, qos)
    IN  IF reserved.status # "Success"
           /\ ~ (reserved.status = "StateCollision" /\ dup)
        THEN [records |-> reserved.records,
              result  |-> Outcome(reserved.status, <<>>, <<>>)]
        ELSE IF ~ ok
        THEN [records |-> reserved.records,
              result  |-> Outcome("SendFailed", <<>>, <<>>)]
        ELSE [records |-> updated.records,
              result  |-> Outcome(updated.status,
                                  <<PublishPacket(id, qos, dup)>>, <<>>)]

-----------------------------------------------------------------------------
(* MQTT_Init *)
Init ==
    /\ outgoing = EmptyRecords
    /\ incoming = EmptyRecords
    /\ linkUp = FALSE
    /\ resend = Idle
    /\ result = Outcome("Success", <<>>, <<>>)

(* The application publishes, for the first time or again.                 *)
Publish(id, qos, dup, ok) ==
    LET outcome == PublishOutcome(id, qos, dup, ok)
    IN  /\ resend.kind = "idle"
        /\ ok => linkUp
        /\ outgoing' = outcome.records
        /\ result' = outcome.result
        /\ UNCHANGED <<incoming, linkUp, resend>>

(* handleIncomingPublish.  A publish whose record exists is acknowledged   *)
(* again but not reported again.                                           *)
ReceivePublish(id, qos, dup, ok) ==
    LET packet   == PublishPacket(id, qos, dup)
        received == ReceivedRecord(incoming, id, qos)
        acked    == SendPublishAck(received.records, id,
                                   CalculateStatePublish("RECEIVE", qos), ok)
    IN  /\ resend.kind = "idle"
        /\ linkUp
        /\ \/ /\ received.status \in {"Success", "StateCollision"}
              /\ incoming' = acked.records
              /\ result' = Outcome(acked.status, acked.sent,
                               IF received.status = "Success" THEN <<packet>> ELSE <<>>)
           \/ /\ received.status \notin {"Success", "StateCollision"}
              /\ incoming' = received.records
              /\ result' = Outcome(received.status, <<>>, <<>>)
        /\ UNCHANGED <<outgoing, linkUp, resend>>

(* handlePublishAcks, on the array the acknowledgement is about.           *)
AckOutcome(recs, ack, id, ok) ==
    LET updated == AckRecord(recs, id, ack, "RECEIVE")
        acked   == SendPublishAck(updated.records, id,
                      CalculateStateAck(ack, "RECEIVE",
                                        IF ack = "PUBACK" THEN 1 ELSE 2), ok)
    IN  IF updated.status # "Success"
        THEN [records |-> updated.records,
              result  |-> Outcome(updated.status, <<>>, <<>>)]
        ELSE [records |-> acked.records,
              result  |-> Outcome(acked.status, acked.sent, <<AckPacket(ack, id)>>)]

ReceiveOutgoingAck(ack, id, ok) ==
    LET outcome == AckOutcome(outgoing, ack, id, ok)
    IN  /\ resend.kind = "idle"
        /\ linkUp
        /\ IsPublishOutgoing(ack, "RECEIVE")
        /\ outgoing' = outcome.records
        /\ result' = outcome.result
        /\ UNCHANGED <<incoming, linkUp, resend>>

ReceivePubrel(id, ok) ==
    LET outcome == AckOutcome(incoming, "PUBREL", id, ok)
    IN  /\ resend.kind = "idle"
        /\ linkUp
        /\ incoming' = outcome.records
        /\ result' = outcome.result
        /\ UNCHANGED <<outgoing, linkUp, resend>>

-----------------------------------------------------------------------------
(* Mutant: a new session clears the outgoing records only.                 *)
NewSessionKeepsIncoming ==
    /\ resend.kind = "idle"
    /\ ~ linkUp
    /\ linkUp' = TRUE
    /\ outgoing' = EmptyRecords
    /\ result' = Outcome("Success", <<>>, <<>>)
    /\ UNCHANGED <<incoming, resend>>

(* MQTT_Connect up to its CONNACK, then handleSessionResumption: a new     *)
(* session clears both arrays ...                                          *)
ConnectNewSession ==
    /\ resend.kind = "idle"
    /\ ~ linkUp
    /\ linkUp' = TRUE
    /\ outgoing' = EmptyRecords
    /\ incoming' = EmptyRecords
    /\ result' = Outcome("Success", <<>>, <<>>)
    /\ UNCHANGED resend

(* ... a session the broker kept starts the loop that resends PUBRELs.     *)
ConnectSessionPresent ==
    /\ resend.kind = "idle"
    /\ ~ linkUp
    /\ linkUp' = TRUE
    /\ resend' = Loop("pubrel")
    /\ result' = Outcome("Success", <<>>, <<>>)
    /\ UNCHANGED <<outgoing, incoming>>

(* One PUBREL resent.  A failed send ends MQTT_Connect with an error, and  *)
(* the caller closes the transport.                                        *)
ResendPubrel(ok) ==
    LET id    == Selected.packetId
        acked == SendPublishAck(outgoing, id, "PubRelSend", ok)
    IN  /\ resend.kind = "pubrel"
        /\ id # NoPacketId
        /\ ok => linkUp
        /\ outgoing' = acked.records
        /\ result' = Outcome(acked.status, acked.sent, <<>>)
        /\ \/ /\ acked.status = "Success"
              /\ resend' = [resend EXCEPT !.cursor = Selected.cursor,
                                          !.given = @ \cup {id}]
              /\ UNCHANGED linkUp
           \/ /\ acked.status # "Success"
              /\ resend' = Idle
              /\ linkUp' = FALSE
        /\ UNCHANGED incoming

(* The application resends one publish, dup flag set, with the QoS it has  *)
(* stored.  It goes on with the next one whether this one could be sent.   *)
ResendPublish(ok) ==
    LET id      == Selected.packetId
        stored  == outgoing[FindInRecord(outgoing, id)].qos
        outcome == PublishOutcome(id, stored, TRUE, ok)
    IN  /\ resend.kind = "publish"
        /\ id # NoPacketId
        /\ ok => linkUp
        /\ outgoing' = outcome.records
        /\ result' = outcome.result
        /\ resend' = [resend EXCEPT !.cursor = Selected.cursor,
                                    !.given = @ \cup {id}]
        /\ UNCHANGED <<incoming, linkUp>>

(* The iterator returned MQTT_PACKET_ID_INVALID: the loop is over.  After   *)
(* the PUBRELs come the publishes.                                         *)
ResendEnd ==
    /\ resend.kind # "idle"
    /\ Selected.packetId = NoPacketId
    /\ resend' = IF resend.kind = "pubrel" THEN Loop("publish") ELSE Idle
    /\ result' = Outcome("Success", <<>>, <<>>)
    /\ UNCHANGED <<outgoing, incoming, linkUp>>

(* The caller of MQTT_PublishToResend stops asking before the end.         *)
ResendAbandon ==
    /\ resend.kind = "publish"
    /\ Selected.packetId # NoPacketId
    /\ resend' = Idle
    /\ result' = Outcome("Success", <<>>, <<>>)
    /\ UNCHANGED <<outgoing, incoming, linkUp>>

(* MQTT_Init at any later time: the device restarted.                      *)
Restart ==
    /\ outgoing' = EmptyRecords
    /\ incoming' = EmptyRecords
    /\ linkUp' = FALSE
    /\ resend' = Idle
    /\ result' = Outcome("Success", <<>>, <<>>)

(* The transport goes away, closed by either side or lost.                 *)
LinkDown ==
    /\ linkUp
    /\ linkUp' = FALSE
    /\ result' = Outcome("Success", <<>>, <<>>)
    /\ UNCHANGED <<outgoing, incoming, resend>>

-----------------------------------------------------------------------------
Next ==
    \/ \E id \in PacketIds, ok \in BOOLEAN :
          \/ \E qos \in PublishQoS, dup \in BOOLEAN : Publish(id, qos, dup, ok)
          \/ \E qos \in ReceiveQoS, dup \in BOOLEAN : ReceivePublish(id, qos, dup, ok)
          \/ \E ack \in AckTypes : ReceiveOutgoingAck(ack, id, ok)
          \/ ReceivePubrel(id, ok)
    \/ ConnectNewSession
    \/ ConnectSessionPresent
    \/ \E ok \in BOOLEAN : ResendPubrel(ok) \/ ResendPublish(ok)
    \/ ResendEnd
    \/ ResendAbandon
    \/ LinkDown
    \/ Restart

Spec == Init /\ [][Next]_vars

-----------------------------------------------------------------------------
(* Properties *)

Handlers == Statuses \cup {"SendFailed"}
AtMostOne(S) == {<<>>} \cup {<<p>> : p \in S}
Outcomes == [status : Handlers, sent : AtMostOne(Packets), event : AtMostOne(Packets)]

(* The arrays hold records, the resend cursor stays within the array and   *)
(* a handler puts at most one packet on the wire.                          *)
TypeOK ==
    /\ outgoing \in Records
    /\ incoming \in Records
    /\ linkUp \in BOOLEAN
    /\ resend \in [kind : {"idle", "pubrel", "publish"}, cursor : 0..RecordCount,
                   given : SUBSET PacketIds]
    /\ result \in Outcomes

(* However publishes, acknowledgements, deletions and compactions follow   *)
(* each other, no packet id ever has two live records in one array, so the *)
(* first match findInRecord returns is the only one.                       *)
UniquePacketIds == Unique(outgoing) /\ Unique(incoming)

(* A live record stands in a state of its own direction and QoS, whatever  *)
(* acknowledgements a broker sends for it: a QoS 1 publish never waits for *)
(* a PUBREC, an incoming one never for a PUBACK.                           *)
HandshakeAgrees == OutgoingAgree(outgoing) /\ IncomingAgree(incoming)

(* A record leaves its array only when its handshake is over: an outgoing  *)
(* one when the PUBACK or PUBCOMP is reported, an incoming one when the    *)
(* PUBACK or PUBCOMP is on the wire, either one when a new session starts  *)
(* or the library is initialised again.                                    *)
(* In particular the delete-and-add-back that a PUBREC causes never loses  *)
(* the record, even with every slot taken.                                 *)
RecordsLeaveWhenDone ==
    [][ \A id \in PacketIds :
          /\ Holds(outgoing, id) /\ ~ Holds(outgoing', id) =>
                \/ result'.event \in {<<AckPacket("PUBACK", id)>>,
                                      <<AckPacket("PUBCOMP", id)>>}
                \/ ConnectNewSession \/ Restart
          /\ Holds(incoming, id) /\ ~ Holds(incoming', id) =>
                \/ result'.sent \in {<<AckPacket("PUBACK", id)>>,
                                     <<AckPacket("PUBCOMP", id)>>}
                \/ ConnectNewSession \/ Restart ]_vars

Full(recs) == \A i \in Slots : Live(recs, i)

(* A publish is refused for lack of memory only when every slot of an      *)
(* array is taken by an unfinished handshake: holes left by completed ones *)
(* are always found again.                                                 *)
RefusedOnlyWhenFull ==
    [][result'.status = "NoMemory" => Full(outgoing') \/ Full(incoming')]_vars

(* Both arrays, read from the first slot to the last and skipping empty    *)
(* slots, behave as the ordered lists of HandshakeLists: the order in      *)
(* which publishes and PUBRELs are resent is the order they were issued.   *)
SlotAt(recs, n) == CHOOSE i \in Slots : Live(recs, i) /\ Rank(recs, i) = n
LiveRecords(recs) == [n \in 1..Rank(recs, RecordCount) |-> recs[SlotAt(recs, n)]]

Lists == INSTANCE HandshakeLists WITH
            Capacity <- RecordCount, out <- LiveRecords(outgoing),
            in <- LiveRecords(incoming)

ImplementsLists == Lists!Spec

Pending(states) ==
    {outgoing[i].packetId : i \in {i \in Slots : /\ Live(outgoing, i)
                                                /\ outgoing[i].publishState \in states}}

(* An iterator never returns a packet whose handshake needs no resending,  *)
(* nor the same packet twice in one round.                                 *)
ResendsOncePerRound ==
    [][\A ok \in BOOLEAN : ResendPubrel(ok) \/ ResendPublish(ok) =>
          /\ Selected.packetId \in Pending(LoopStates(resend.kind))
          /\ Selected.packetId \notin resend.given]_vars
=============================================================================
