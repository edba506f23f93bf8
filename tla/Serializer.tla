----------------------------- MODULE Serializer -----------------------------
(* The outgoing half of core_mqtt_serializer.c: the sizes of packets and   *)
(* their bytes.  A string is a sequence of bytes, and what may be NULL is a *)
(* sequence of at most one; no caller in the library passes NULL for the   *)
(* rest.  A call returns its status with the sizes or the bytes it gives.  *)
EXTENDS PacketBytes, SequencesExt

SizeRefused(status) == [status |-> status, remaining |-> 0, packet |-> 0]
PacketSize(remaining) == 1 + EncodedSize(remaining) + remaining
Sized(remaining) ==
    [status |-> "Success", remaining |-> remaining, packet |-> PacketSize(remaining)]

Refused(status) == [status |-> status, bytes |-> <<>>]
Written(bytes) == [status |-> "Success", bytes |-> bytes]

(* encodeString: the length it is given has 16 bits.                       *)
EncodeString(s) ==
    LET sourceLength == Len(s) % 65536
    IN  Encode16(sourceLength) \o SubSeq(s, 1, sourceLength)
EncodeStrings(strings) == FlattenSeq([i \in DOMAIN strings |-> EncodeString(strings[i])])

FixedHeader(type, remaining) == <<type>> \o EncodeRemainingLength(remaining)

-----------------------------------------------------------------------------
(* CONNECT                                                                 *)

OptionalSize(option) == IF option = <<>> THEN 0 ELSE Len(option[1]) + 2

ConnectRemaining(connect) ==
    10 + Len(connect.clientId) + 2
    + (IF connect.will = <<>> THEN 0
       ELSE Len(connect.will[1].topic) + 2 + Len(connect.will[1].payload) + 2)
    + OptionalSize(connect.userName) + OptionalSize(connect.password)

(* Mutant: a will of any length.                                           *)
GetConnectPacketSizeAnyWill(connect) ==
    IF connect.clientId = <<>> THEN SizeRefused("BadParameter")
    ELSE Sized(ConnectRemaining(connect))

(* MQTT_GetConnectPacketSize                                               *)
GetConnectPacketSize(connect) ==
    IF \/ connect.clientId = <<>>
       \/ connect.will # <<>> /\ Len(connect.will[1].payload) > 65535
    THEN SizeRefused("BadParameter")
    ELSE Sized(ConnectRemaining(connect))

(* Mutant: any QoS of the will but 0 as QoS 1.                             *)
ConnectFlagsOneQoS(connect) ==
    Bit(connect.cleanSession, 2)
    + Bit(connect.userName # <<>>, 128) + Bit(connect.password # <<>>, 64)
    + (IF connect.will = <<>> THEN 0
       ELSE 4 + Bit(connect.will[1].qos > 0, 8) + Bit(connect.will[1].retain, 32))

ConnectFlags(connect) ==
    Bit(connect.cleanSession, 2)
    + Bit(connect.userName # <<>>, 128) + Bit(connect.password # <<>>, 64)
    + (IF connect.will = <<>> THEN 0
       ELSE 4 + 8 * connect.will[1].qos + Bit(connect.will[1].retain, 32))

(* serializeConnectPacket                                                  *)
ConnectBytes(connect, remaining) ==
    LET will == IF connect.will = <<>> THEN <<>>
                ELSE <<connect.will[1].topic, connect.will[1].payload>>
    IN  FixedHeader(Type.CONNECT, remaining)
        \o EncodeString(<<77, 81, 84, 84>>) \o <<4, ConnectFlags(connect)>>
        \o Encode16(connect.keepAlive)
        \o EncodeStrings(<<connect.clientId>> \o will \o connect.userName \o connect.password)

(* MQTT_SerializeConnect                                                   *)
SerializeConnect(connect, remaining, size) ==
    IF PacketSize(remaining) > size THEN Refused("NoMemory")
    ELSE Written(ConnectBytes(connect, remaining))

-----------------------------------------------------------------------------
(* SUBSCRIBE and UNSUBSCRIBE                                               *)

(* The loop of calculateSubscriptionPacketSize over the list.              *)
TotalLength(list) ==
    LET Total[i \in 0 .. Len(list)] == IF i = 0 THEN 0 ELSE Total[i - 1] + Len(list[i].filter)
    IN  Total[Len(list)]

(* calculateSubscriptionPacketSize of filters with these total length and  *)
(* count; qosSize is 1 for a SUBSCRIBE and 0 for an UNSUBSCRIBE.           *)
CalculateSubscriptionPacketSize(count, total, qosSize, someEmpty) ==
    LET packetSize == 2 + total + count * (2 + qosSize)
    IN  IF someEmpty \/ packetSize > MaxRemainingLength THEN SizeRefused("BadParameter")
        ELSE Sized(packetSize)

(* MQTT_GetSubscribePacketSize and MQTT_GetUnsubscribePacketSize           *)
GetSubscriptionPacketSize(list, qosSize) ==
    IF list = <<>> THEN SizeRefused("BadParameter")
    ELSE CalculateSubscriptionPacketSize(
            Len(list), TotalLength(list), qosSize,
            \E i \in DOMAIN list : list[i].filter = <<>>)

(* validateSubscriptionSerializeParams                                     *)
ValidateSubscription(list, packetId, remaining, size) ==
    IF list = <<>> \/ packetId = 0 THEN "BadParameter"
    ELSE IF PacketSize(remaining) > size THEN "NoMemory" ELSE "Success"

SerializeSubscribe(list, packetId, remaining, size) ==
    LET status == ValidateSubscription(list, packetId, remaining, size)
    IN  IF status # "Success" THEN Refused(status)
        ELSE Written(FixedHeader(Type.SUBSCRIBE, remaining) \o Encode16(packetId)
                     \o FlattenSeq([i \in DOMAIN list |->
                                       EncodeString(list[i].filter) \o <<list[i].qos>>]))

SerializeUnsubscribe(list, packetId, remaining, size) ==
    LET status == ValidateSubscription(list, packetId, remaining, size)
    IN  IF status # "Success" THEN Refused(status)
        ELSE Written(FixedHeader(Type.UNSUBSCRIBE, remaining) \o Encode16(packetId)
                     \o EncodeStrings([i \in DOMAIN list |-> list[i].filter]))

-----------------------------------------------------------------------------
(* PUBLISH                                                                 *)

(* Mutant: the second limit does not account for the length field.         *)
CalculatePublishPacketSizeOneLimit(topicLength, payloadLength, qos) ==
    LET header == topicLength + 2 + (IF qos > 0 THEN 2 ELSE 0)
    IN  IF payloadLength > MaxRemainingLength - header - 1 THEN SizeRefused("BadParameter")
        ELSE Sized(header + payloadLength)

(* Mutant: the payload alone is held against the limit.                    *)
CalculatePublishPacketSizePayload(topicLength, payloadLength, qos) ==
    IF payloadLength > MaxRemainingLength THEN SizeRefused("BadParameter")
    ELSE Sized(topicLength + 2 + (IF qos > 0 THEN 2 ELSE 0) + payloadLength)

(* calculatePublishPacketSize: two limits on the payload, the second less  *)
(* by the size of the length field.                                        *)
CalculatePublishPacketSize(topicLength, payloadLength, qos) ==
    LET header == topicLength + 2 + (IF qos > 0 THEN 2 ELSE 0)
        payloadLimit == MaxRemainingLength - header - 1
    IN  IF payloadLength > payloadLimit THEN SizeRefused("BadParameter")
        ELSE IF payloadLength > payloadLimit - EncodedSize(header + payloadLength)
        THEN SizeRefused("BadParameter")
        ELSE Sized(header + payloadLength)

(* MQTT_GetPublishPacketSize                                               *)
GetPublishPacketSize(publish) ==
    IF publish.topic = <<>> THEN SizeRefused("BadParameter")
    ELSE CalculatePublishPacketSize(Len(publish.topic), Len(publish.payload), publish.qos)

PublishFlags(publish) ==
    Bit(publish.retain, 1) + 2 * publish.qos + Bit(publish.dup, 8)

(* serializePublishCommon, up to the payload                               *)
PublishHeaderBytes(publish, packetId, remaining) ==
    FixedHeader(Type.PUBLISH + PublishFlags(publish), remaining) \o EncodeString(publish.topic)
    \o (IF publish.qos > 0 THEN Encode16(packetId) ELSE <<>>)

PublishIsBad(publish, packetId) ==
    \/ publish.topic = <<>>
    \/ publish.qos # 0 /\ packetId = 0
    \/ publish.dup /\ publish.qos = 0

(* MQTT_SerializePublish                                                   *)
SerializePublish(publish, packetId, remaining, size) ==
    IF PublishIsBad(publish, packetId) THEN Refused("BadParameter")
    ELSE IF PacketSize(remaining) > size THEN Refused("NoMemory")
    ELSE Written(PublishHeaderBytes(publish, packetId, remaining) \o publish.payload)

(* MQTT_SerializePublishHeader: the payload is sent from where it is.      *)
SerializePublishHeader(publish, packetId, remaining, size) ==
    IF PublishIsBad(publish, packetId) THEN Refused("BadParameter")
    ELSE IF PacketSize(remaining) - Len(publish.payload) > size THEN Refused("NoMemory")
    ELSE Written(PublishHeaderBytes(publish, packetId, remaining))

-----------------------------------------------------------------------------
(* MQTT_SerializeAck                                                       *)
SerializeAck(size, packetType, packetId) ==
    IF size < 4 THEN Refused("NoMemory")
    ELSE IF packetId = 0 \/ packetType \notin PublishAcks THEN Refused("BadParameter")
    ELSE Written(<<packetType, 2>> \o Encode16(packetId))

(* MQTT_SerializePingreq and MQTT_SerializeDisconnect                      *)
SerializeFixed(packetType, size) ==
    IF size < 2 THEN Refused("NoMemory") ELSE Written(<<packetType, 0>>)
=============================================================================
