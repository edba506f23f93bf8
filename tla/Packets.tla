------------------------------ MODULE Packets -------------------------------
(* The packets of coreMQTT as bytes.  A packet that is sent is sized,      *)
(* serialised into the buffer the caller has and put on the wire, a        *)
(* publish in two parts; what arrives is framed and deserialised.  Each    *)
(* call uses what the one before it gave.  All of it is done by one task,  *)
(* one packet at a time.                                                   *)
EXTENDS Serializer, Deserializer, TopicMatch, WireReader

CONSTANTS
    Connects, Subscriptions, Publishes, Acks,  \* packets the client may send
    Rooms,                \* sizes of its buffer, less the size that is needed
    Lengths,              \* lengths of fields too long to be written out
    Streams,              \* bytes that may arrive
    TopicNames, TopicFilters

(* The fields as they are in C.  What may be NULL is a sequence of at most *)
(* one; the lengths of strings have 16 bits, those of payloads do not.     *)
String16 == {s \in Seq(Byte) : Len(s) < 65536}
Optional(S) == {option \in Seq(S) : Len(option) <= 1}
QoS == 0 .. 2

Will == [topic : String16, payload : Seq(Byte), qos : QoS, retain : BOOLEAN]
Connect ==
    [kind : {"CONNECT"}, cleanSession : BOOLEAN, keepAlive : UINT16, clientId : String16,
     will : Optional(Will), userName : Optional(String16), password : Optional(String16)]
Subscription ==
    [kind : {"SUBSCRIBE", "UNSUBSCRIBE"}, packetId : UINT16, list : Seq([filter : String16, qos : QoS])]
Publish ==
    [kind : {"PUBLISH"}, packetId : UINT16, qos : QoS, retain : BOOLEAN, dup : BOOLEAN,
     topic : String16, payload : Seq(Byte)]
Ack == [kind : {"ACK"}, type : Byte, packetId : UINT16]
PublishLengths == [kind : {"publish lengths"}, topic : UINT16, payload : Nat, qos : QoS]
SubscriptionLengths ==
    [kind : {"subscription lengths"}, count : Nat, total : Nat, qosSize : {0, 1}]

ASSUME PacketsAssumption ==
    /\ Connects \subseteq Connect /\ Subscriptions \subseteq Subscription
    /\ Publishes \subseteq Publish /\ Acks \subseteq Ack
    /\ Rooms \subseteq Int
    /\ Lengths \subseteq PublishLengths \union SubscriptionLengths
    /\ Streams \subseteq Seq(Byte)

(* Neither a name nor a filter is empty, which MQTT_MatchTopic refuses, and *)
(* a name is one that may be published under: its callers have to see to   *)
(* it that there is no wildcard in it (core_mqtt.h:754).                   *)
TopicName == {s \in Seq(STRING) : s # <<>> /\ \A i \in DOMAIN s : s[i] \notin {"+", "#"}}
TopicFilter == {s \in Seq(STRING) : s # <<>>}

ASSUME TopicsAssumption == TopicNames \subseteq TopicName /\ TopicFilters \subseteq TopicFilter

VARIABLES
    stage,                \* what was done last with the packet at hand
    packet,               \* that packet, as the application gave it
    sizes,                \* its sizes, as the Get...PacketSize call gave them
    bytes,                \* the bytes written, or those that arrived
    answer                \* what the last call returned

vars == <<stage, packet, sizes, bytes, answer>>

NoPacket == [kind |-> "none"]
NoAnswer == [status |-> "none"]
MeasuredOnly == {"publish lengths", "subscription lengths"}

Init ==
    /\ stage = "idle" /\ packet = NoPacket
    /\ sizes = SizeRefused("none") /\ bytes = <<>> /\ answer = NoAnswer

-----------------------------------------------------------------------------
(* Sizes                                                                   *)

Measure(p, s) ==
    /\ stage = "idle"
    /\ stage' = IF s.status = "Success" THEN "sized" ELSE "refused"
    /\ packet' = p /\ sizes' = s
    /\ UNCHANGED <<bytes, answer>>

GetConnectSize == \E p \in Connects : Measure(p, GetConnectPacketSize(p))
GetSubscriptionSize ==
    \E p \in Subscriptions :
        Measure(p, GetSubscriptionPacketSize(p.list, IF p.kind = "SUBSCRIBE" THEN 1 ELSE 0))
GetPublishSize == \E p \in Publishes : Measure(p, GetPublishPacketSize(p))

(* Acks, PINGREQ and DISCONNECT have a size that is fixed.                 *)
GetFixedSize ==
    \/ \E p \in Acks :
          Measure(p, [status |-> "Success", remaining |-> 2, packet |-> 4])
    \/ \E type \in {Type.PINGREQ, Type.DISCONNECT} :
          Measure([kind |-> "FIXED", type |-> type], [status |-> "Success", remaining |-> 0, packet |-> 2])

(* The sizes of packets of which only the lengths matter.                  *)
GetSizeOfLengths ==
    \E l \in Lengths :
        Measure(l, IF l.kind = "publish lengths"
                   THEN CalculatePublishPacketSize(l.topic, l.payload, l.qos)
                   ELSE CalculateSubscriptionPacketSize(l.count, l.total, l.qosSize, FALSE))

-----------------------------------------------------------------------------
(* Bytes                                                                   *)

(* The sizes of the buffers given: a little too small, just enough or more *)
(* for the packet less what is sent separately.                            *)
Buffers(separate) == {sizes.packet - separate + room : room \in Rooms}

Serialize(kind, next, separate, size, written) ==
    /\ stage = "sized" /\ packet.kind = kind
    /\ stage' = IF written.status = "Success" THEN next ELSE "refused"
    /\ bytes' = written.bytes
    /\ answer' = [status |-> written.status, size |-> size, separate |-> separate]
    /\ UNCHANGED <<packet, sizes>>

ConnectCall ==
    \E size \in Buffers(0) :
        Serialize("CONNECT", "written", 0, size,
                  SerializeConnect(packet, sizes.remaining, size))
SubscribeCall ==
    \E size \in Buffers(0) :
        Serialize("SUBSCRIBE", "written", 0, size,
                  SerializeSubscribe(packet.list, packet.packetId, sizes.remaining, size))
UnsubscribeCall ==
    \E size \in Buffers(0) :
        Serialize("UNSUBSCRIBE", "written", 0, size,
                  SerializeUnsubscribe(packet.list, packet.packetId, sizes.remaining, size))
PublishCall ==
    \E size \in Buffers(0) :
        Serialize("PUBLISH", "written", 0, size,
                  SerializePublish(packet, packet.packetId, sizes.remaining, size))
PublishHeaderCall ==
    /\ stage = "sized" /\ packet.kind = "PUBLISH"
    /\ \E size \in Buffers(Len(packet.payload)) :
        Serialize("PUBLISH", "header", Len(packet.payload), size,
                  SerializePublishHeader(packet, packet.packetId, sizes.remaining, size))
AckCall ==
    \E size \in Buffers(0) :
        Serialize("ACK", "written", 0, size, SerializeAck(size, packet.type, packet.packetId))
FixedCall ==
    \E size \in Buffers(0) :
        Serialize("FIXED", "written", 0, size, SerializeFixed(packet.type, size))

(* sendPublish: the payload follows the header on the wire.                *)
SendPayload ==
    /\ stage = "header"
    /\ stage' = "written"
    /\ bytes' = bytes \o packet.payload
    /\ UNCHANGED <<packet, sizes, answer>>

-----------------------------------------------------------------------------
(* What arrives                                                            *)

Arrive ==
    /\ stage = "idle"
    /\ \E stream \in Streams : bytes' = stream
    /\ stage' = "arrived"
    /\ UNCHANGED <<packet, sizes, answer>>

ReadHeader ==
    /\ stage = "arrived"
    /\ answer' = GetTypeAndLength(bytes)
    /\ stage' = IF answer'.status = "Success" THEN "framed" ELSE "refused"
    /\ UNCHANGED <<packet, sizes, bytes>>

HeaderSize == 1 + EncodedSize(answer.remaining)

(* receivePacket, and the deserialiser for the type.                       *)
ReadBody ==
    /\ stage = "framed"
    /\ LET body == SubSeq(bytes, HeaderSize + 1, HeaderSize + answer.remaining)
           whole == Len(bytes) >= HeaderSize + answer.remaining
       IN  /\ stage' = IF whole THEN "decoded" ELSE "refused"
           /\ packet' = IF whole THEN [kind |-> "INCOMING", type |-> answer.type, body |-> body]
                        ELSE packet
           /\ answer' = IF ~ whole THEN [status |-> "RecvFailed"]
                        ELSE IF UpperHalf(answer.type) = Type.PUBLISH
                        THEN DeserializePublish(answer.type, body)
                        ELSE DeserializeAck(answer.type, body)
    /\ UNCHANGED <<sizes, bytes>>

MatchCall ==
    /\ stage = "idle"
    /\ stage' = "matched"
    /\ \E name \in TopicNames, filter \in TopicFilters :
        /\ packet' = [kind |-> "MATCH", name |-> name, filter |-> filter]
        /\ answer' = [status |-> "Success", isMatch |-> MatchTopic(name, filter)]
    /\ UNCHANGED <<sizes, bytes>>

(* The next packet. *)
Done ==
    /\ \/ stage \in {"refused", "written", "decoded", "matched"}
       \/ stage = "sized" /\ packet.kind \in MeasuredOnly
    /\ stage' = "idle" /\ packet' = NoPacket
    /\ sizes' = SizeRefused("none") /\ bytes' = <<>> /\ answer' = NoAnswer

Next ==
    \/ GetConnectSize \/ GetSubscriptionSize \/ GetPublishSize \/ GetFixedSize \/ GetSizeOfLengths
    \/ ConnectCall \/ SubscribeCall \/ UnsubscribeCall \/ PublishCall \/ PublishHeaderCall
    \/ AckCall \/ FixedCall \/ SendPayload
    \/ Arrive \/ ReadHeader \/ ReadBody \/ MatchCall \/ Done

Spec == Init /\ [][Next]_vars

-----------------------------------------------------------------------------
(* What is on the wire are bytes, and a remaining length is one that has   *)
(* an encoding, whatever the application gave.                             *)
TypeOK ==
    /\ stage \in {"idle", "sized", "header", "written", "refused", "arrived", "framed",
                   "decoded", "matched"}
    /\ sizes.remaining \in 0 .. MaxRemainingLength
    /\ \A i \in DOMAIN bytes : bytes[i] \in Byte

(* The bytes that are written are as many as the size call has said, less  *)
(* a payload that is sent separately; a serialiser never runs over the     *)
(* buffer it is given, and it refuses no buffer that would do.             *)
FitsBuffer ==
    /\ stage = "written" => Len(bytes) = sizes.packet
    /\ stage = "header" => Len(bytes) = sizes.packet - answer.separate
    /\ stage \in {"header", "written"} => Len(bytes) <= answer.size + answer.separate
    /\ answer.status = "NoMemory" => answer.size < sizes.packet - answer.separate

(* What a broker reads from the wire is the packet the application gave:   *)
(* no field is lost, cut or moved by another one that is there or not, and *)
(* a publish is the same whether it is sent whole or in two parts.  Two    *)
(* fields are not sent and read as 0: the packet id of a publish of QoS 0, *)
(* and the QoS in the list of an UNSUBSCRIBE.                              *)
Sent(p) ==
    IF p.kind = "PUBLISH" /\ p.qos = 0 THEN [p EXCEPT !.packetId = 0]
    ELSE IF p.kind = "UNSUBSCRIBE"
    THEN [p EXCEPT !.list = [i \in DOMAIN p.list |-> [p.list[i] EXCEPT !.qos = 0]]]
    ELSE p
BrokerUnderstands ==
    stage = "written" => ReadPacket(bytes) = Sent(packet)

(* A publish is refused for its length exactly when the packet, header     *)
(* included, would be longer than the largest remaining length, and        *)
(* subscriptions when the remaining length would; what is accepted has a   *)
(* length field that is read back as what it was.                          *)
SizesExact ==
    LET fits(l) ==
            IF l.kind = "publish lengths"
            THEN PacketSize(l.topic + 2 + (IF l.qos = 0 THEN 0 ELSE 2) + l.payload) <= MaxRemainingLength
            ELSE 2 + l.total + l.count * (2 + l.qosSize) <= MaxRemainingLength
        field == EncodeRemainingLength(sizes.remaining)
    IN  /\ packet.kind \in MeasuredOnly => (stage = "sized" <=> fits(packet))
        /\ stage = "sized" => /\ GetRemainingLength(field) = sizes.remaining
                              /\ sizes.packet = 1 + Len(field) + sizes.remaining

(* An accepted packet has one form on the wire: no two byte strings are    *)
(* taken for the same publish or acknowledgement, and no byte of one is    *)
(* dropped.  Written out again it is what arrived, but for the publishes   *)
(* that the device accepts and would not send: those without a topic, and  *)
(* those of QoS 0 marked as duplicates.                                    *)
Accepted == stage = "decoded" /\ answer.status = "Success"
CanonicalInbound ==
    Accepted =>
        LET type == packet.type
            framed == FixedHeader(type, Len(packet.body)) \o packet.body
        IN  /\ IsPrefix(framed, bytes)
            /\ (UpperHalf(type) = Type.PUBLISH /\ ~ PublishIsBad(answer, answer.packetId)) =>
                SerializePublish(answer, answer.packetId, Len(packet.body), Len(bytes)).bytes = framed
            /\ UpperHalf(type) \in {UpperHalf(t) : t \in PublishAcks} =>
                SerializeAck(4, type, answer.packetId).bytes = framed

(* A SUBACK that deserialises as a success grants every filter, one that   *)
(* reads as refused refuses some and has no code that is not one, and the  *)
(* application is then given all the codes.                                *)
SubackTruth ==
    (stage = "decoded" /\ packet.type = Type.SUBACK /\ answer.status # "BadResponse") =>
        LET codes == SubAckStatusCodes(packet.type, packet.body).codes
        IN  /\ Len(codes) = Len(packet.body) - 2 /\ Len(codes) > 0
            /\ Range(codes) \subseteq {0, 1, 2, 128}
            /\ answer.status = IF 128 \in Range(codes) THEN "ServerRefused" ELSE "Success"

(* MQTT_MatchTopic says that a name matches a filter exactly when MQTT     *)
(* 3.1.1 says so, but for the filters it misses, which end with a wildcard *)
(* behind another.                                                         *)
MatchExact ==
    stage = "matched" =>
        (answer.isMatch <=> SpecMatch(packet.name, packet.filter) /\ ~ Missed(packet.name, packet.filter))
=============================================================================
