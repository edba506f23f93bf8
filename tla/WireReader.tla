----------------------------- MODULE WireReader -----------------------------
(* How a broker reads a packet, by MQTT 3.1.1 (external): field after      *)
(* field, from the bytes alone.  A packet it would not accept reads as     *)
(* Unreadable.                                                             *)
EXTENDS PacketBytes

Unreadable == [kind |-> "unreadable"]

(* The string that starts at i, and the place after it.                    *)
StringAt(b, i) == SubSeq(b, i + 2, i + 1 + Decode16(b, i))
After(b, i) == i + 2 + Decode16(b, i)

(* Where the variable header starts: after the length, which must be true. *)
BodyAt(b) == 2 + LengthEnd(Tail(b))
WholePacket(b) == LengthEnd(Tail(b)) > 0 /\ GetRemainingLength(Tail(b)) = Len(b) - BodyAt(b) + 1

ReadConnect(b) ==
    LET i == BodyAt(b)
        flags == b[i + 7]
        hasWill == HasBit(flags, 4)
        topicAt == After(b, i + 10)
        payloadAt == After(b, topicAt)
        userAt == IF hasWill THEN After(b, payloadAt) ELSE topicAt
        passwordAt == IF HasBit(flags, 128) THEN After(b, userAt) ELSE userAt
        end == IF HasBit(flags, 64) THEN After(b, passwordAt) ELSE passwordAt
    IN  IF SubSeq(b, i, i + 6) # <<0, 4, 77, 81, 84, 84, 4>> \/ HasBit(flags, 1) \/ end # Len(b) + 1
        THEN Unreadable
        ELSE [kind |-> "CONNECT", cleanSession |-> HasBit(flags, 2),
              keepAlive |-> Decode16(b, i + 8), clientId |-> StringAt(b, i + 10),
              will |-> IF hasWill
                       THEN <<[topic |-> StringAt(b, topicAt), payload |-> StringAt(b, payloadAt),
                               qos |-> (flags \div 8) % 4, retain |-> HasBit(flags, 32)]>>
                       ELSE <<>>,
              userName |-> IF HasBit(flags, 128) THEN <<StringAt(b, userAt)>> ELSE <<>>,
              password |-> IF HasBit(flags, 64) THEN <<StringAt(b, passwordAt)>> ELSE <<>>]

(* The filters from i on, each with its QoS if there is one.               *)
FiltersFrom(b, i, qosSize) ==
    LET Read[k \in i .. Len(b) + 1] ==
        IF k > Len(b) THEN <<>>
        ELSE IF k = Len(b) \/ After(b, k) + qosSize > Len(b) + 1 THEN <<Unreadable>>
        ELSE <<[filter |-> StringAt(b, k), qos |-> IF qosSize = 1 THEN b[After(b, k)] ELSE 0]>>
             \o Read[After(b, k) + qosSize]
    IN  Read[i]

ReadSubscription(b, kind, qosSize) ==
    [kind |-> kind, packetId |-> Decode16(b, BodyAt(b)),
     list |-> FiltersFrom(b, BodyAt(b) + 2, qosSize)]

ReadPublish(b) ==
    LET qos == (b[1] \div 2) % 4
        idAt == After(b, BodyAt(b))
    IN  IF qos = 3 \/ (qos = 0 /\ HasBit(b[1], 8)) THEN Unreadable
        ELSE [kind |-> "PUBLISH", packetId |-> IF qos = 0 THEN 0 ELSE Decode16(b, idAt), qos |-> qos,
              retain |-> HasBit(b[1], 1), dup |-> HasBit(b[1], 8), topic |-> StringAt(b, BodyAt(b)),
              payload |-> SubSeq(b, IF qos = 0 THEN idAt ELSE idAt + 2, Len(b))]

ReadPacket(b) ==
    IF ~ WholePacket(b) THEN Unreadable
    ELSE IF b[1] = Type.CONNECT THEN ReadConnect(b)
    ELSE IF b[1] = Type.SUBSCRIBE THEN ReadSubscription(b, "SUBSCRIBE", 1)
    ELSE IF b[1] = Type.UNSUBSCRIBE THEN ReadSubscription(b, "UNSUBSCRIBE", 0)
    ELSE IF UpperHalf(b[1]) = Type.PUBLISH THEN ReadPublish(b)
    ELSE IF b[1] \in PublishAcks THEN [kind |-> "ACK", type |-> b[1], packetId |-> Decode16(b, 3)]
    ELSE [kind |-> "FIXED", type |-> b[1]]
=============================================================================
