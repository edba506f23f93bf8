---------------------------- MODULE Deserializer ----------------------------
(* The incoming half of core_mqtt_serializer.c, with the reader of SUBACK  *)
(* codes of core_mqtt.c: from the bytes of a stream to a packet.  A call   *)
(* returns its status and what it stored; the fields it leaves alone are   *)
(* those of a packet with nothing in it.                                   *)
EXTENDS PacketBytes

From(bytes, i) == SubSeq(bytes, i, Len(bytes))

(* incomingPacketValid: of a PUBREL, its flag is looked at as well.        *)
IncomingPacketValid(byte) ==
    \/ UpperHalf(byte) \in (PublishAcks \ {Type.PUBREL}) \union
           {Type.CONNACK, Type.PUBLISH, Type.SUBACK, Type.UNSUBACK, Type.PINGRESP}
    \/ UpperHalf(byte) = UpperHalf(Type.PUBREL) /\ HasBit(byte, 2)

(* MQTT_GetIncomingPacketTypeAndLength on what the transport will deliver. *)
GetTypeAndLength(stream) ==
    IF stream = <<>> THEN [status |-> "NoDataAvailable", type |-> 0, remaining |-> 0]
    ELSE IF \/ ~ IncomingPacketValid(stream[1])
            \/ GetRemainingLength(Tail(stream)) = InvalidLength
    THEN [status |-> "BadResponse", type |-> stream[1], remaining |-> 0]
    ELSE [status |-> "Success", type |-> stream[1], remaining |-> GetRemainingLength(Tail(stream))]

-----------------------------------------------------------------------------
(* MQTT_DeserializePublish                                                 *)

(* processPublishFlags; both bits of the QoS are refused.                  *)
QoSOf(type) == (type \div 2) % 4

NoPublish == [status |-> "BadResponse", packetId |-> 0, qos |-> 0, retain |-> FALSE,
              dup |-> FALSE, topic |-> <<>>, payload |-> <<>>]

(* checkPublishRemainingLength: room for the packet id if there is one.    *)
RoomFor(body, qos, qos0Minimum) == Len(body) >= qos0Minimum + (IF qos = 0 THEN 0 ELSE 2)

(* deserializePublish *)
DeserializePublish(type, body) ==
    LET qos == QoSOf(type)
        topicLength == Decode16(body, 1)
        packetId == IF qos = 0 THEN 0 ELSE Decode16(body, topicLength + 3)
    IN  IF \/ qos = 3
           \/ ~ RoomFor(body, qos, 3)
           \/ ~ RoomFor(body, qos, topicLength + 2)
           \/ qos # 0 /\ packetId = 0
        THEN NoPublish
        ELSE [status |-> "Success", packetId |-> packetId, qos |-> qos,
              retain |-> HasBit(type, 1), dup |-> HasBit(type, 8),
              topic |-> SubSeq(body, 3, topicLength + 2),
              payload |-> From(body, topicLength + (IF qos = 0 THEN 3 ELSE 5))]

-----------------------------------------------------------------------------
(* MQTT_DeserializeAck                                                     *)

Answer(status) == [status |-> status, packetId |-> 0, sessionPresent |-> FALSE]

(* deserializeConnack: a refusal must come without a session; the flag is  *)
(* stored before that is looked at.                                        *)
DeserializeConnack(body) ==
    IF Len(body) # 2 THEN Answer("BadResponse")
    ELSE IF body[1] > 1 THEN Answer("BadResponse")
    ELSE [Answer(IF body[2] > 5 \/ (body[1] = 1 /\ body[2] # 0) THEN "BadResponse"
                 ELSE IF body[2] > 0 THEN "ServerRefused" ELSE "Success")
             EXCEPT !.sessionPresent = (body[1] = 1)]

(* Mutant: the last code decides.                                          *)
ReadSubackStatusLast(codes) ==
    IF \E i \in DOMAIN codes : codes[i] \notin {0, 1, 2, 128} THEN "BadResponse"
    ELSE IF codes[Len(codes)] = 128 THEN "ServerRefused" ELSE "Success"

(* readSubackStatus: a code that does not exist ends the loop.             *)
ReadSubackStatus(codes) ==
    IF \E i \in DOMAIN codes : codes[i] \notin {0, 1, 2, 128} THEN "BadResponse"
    ELSE IF \E i \in DOMAIN codes : codes[i] = 128 THEN "ServerRefused" ELSE "Success"

(* deserializeSuback: the packet id is not looked at.                      *)
DeserializeSuback(body) ==
    IF Len(body) < 3 THEN Answer("BadResponse")
    ELSE [Answer(ReadSubackStatus(From(body, 3))) EXCEPT !.packetId = Decode16(body, 1)]

DeserializeSimpleAck(body) ==
    IF Len(body) # 2 THEN Answer("BadResponse")
    ELSE [Answer(IF Decode16(body, 1) = 0 THEN "BadResponse" ELSE "Success")
             EXCEPT !.packetId = Decode16(body, 1)]

DeserializePingresp(body) == Answer(IF body = <<>> THEN "Success" ELSE "BadResponse")

(* Mutant: by the upper half of the byte, as the reader of headers does.   *)
DeserializeAckByType(type, body) ==
    LET upper == UpperHalf(type)
    IN  IF upper = Type.CONNACK THEN DeserializeConnack(body)
        ELSE IF upper = Type.SUBACK THEN DeserializeSuback(body)
        ELSE IF upper = Type.PINGRESP THEN DeserializePingresp(body)
        ELSE IF upper \in PublishAcks \union {Type.UNSUBACK, UpperHalf(Type.PUBREL)}
        THEN DeserializeSimpleAck(body)
        ELSE Answer("BadResponse")

(* The switch is on the whole byte: no other flags pass.                   *)
DeserializeAck(type, body) ==
    IF type = Type.CONNACK THEN DeserializeConnack(body)
    ELSE IF type = Type.SUBACK THEN DeserializeSuback(body)
    ELSE IF type = Type.PINGRESP THEN DeserializePingresp(body)
    ELSE IF type \in PublishAcks \union {Type.UNSUBACK} THEN DeserializeSimpleAck(body)
    ELSE Answer("BadResponse")

(* MQTT_GetSubAckStatusCodes *)
SubAckStatusCodes(type, body) ==
    IF type # Type.SUBACK \/ Len(body) < 3 THEN [status |-> "BadParameter", codes |-> <<>>]
    ELSE [status |-> "Success", codes |-> From(body, 3)]
=============================================================================
