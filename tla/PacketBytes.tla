---------------------------- MODULE PacketBytes -----------------------------
(* The first bytes of MQTT packets and the fields of 16 bits, for both     *)
(* halves of core_mqtt_serializer.c.                                       *)
EXTENDS RemainingLength

Byte == {b \in Nat : b < 256}
UINT16 == {n \in Nat : n < 65536}

(* MQTT_PACKET_TYPE_*                                                      *)
Type ==
    [CONNECT |-> 16, CONNACK |-> 32, PUBLISH |-> 48, PUBACK |-> 64, PUBREC |-> 80,
     PUBREL |-> 98, PUBCOMP |-> 112, SUBSCRIBE |-> 130, SUBACK |-> 144, UNSUBSCRIBE |-> 162,
     UNSUBACK |-> 176, PINGREQ |-> 192, PINGRESP |-> 208, DISCONNECT |-> 224]

PublishAcks == {Type.PUBACK, Type.PUBREC, Type.PUBREL, Type.PUBCOMP}

UpperHalf(byte) == 16 * (byte \div 16)
HasBit(byte, weight) == (byte \div weight) % 2 = 1
Bit(condition, weight) == IF condition THEN weight ELSE 0

Encode16(n) == <<n \div 256, n % 256>>
Decode16(bytes, i) == 256 * bytes[i] + bytes[i + 1]
=============================================================================
