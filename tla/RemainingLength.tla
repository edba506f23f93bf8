-------------------------- MODULE RemainingLength ---------------------------
(* The remaining length field of an MQTT packet, as core_mqtt_serializer.c *)
(* writes and reads it: up to four bytes of seven bits, the eighth saying  *)
(* that another byte follows.                                              *)
EXTENDS Integers, Sequences

MaxRemainingLength == 268435455   \* MQTT_MAX_REMAINING_LENGTH
InvalidLength == 268435456        \* MQTT_REMAINING_LENGTH_INVALID

(* remainingLengthEncodedSize                                              *)
EncodedSize(length) ==
    IF length < 128 THEN 1
    ELSE IF length < 16384 THEN 2
    ELSE IF length < 2097152 THEN 3 ELSE 4

(* Mutant: the continuation bit by the wrong test.                         *)
LengthBytePastTest(rest) == IF rest \div 128 > 1 THEN (rest % 128) + 128 ELSE rest % 128

(* One turn of the loop of encodeRemainingLength, with rest left to write. *)
LengthByte(rest) == IF rest \div 128 > 0 THEN (rest % 128) + 128 ELSE rest % 128

(* encodeRemainingLength: its loop runs at most four times.                *)
EncodeRemainingLength(length) ==
    LET rest2 == length \div 128
        rest3 == rest2 \div 128
        rest4 == rest3 \div 128
    IN  IF rest2 = 0 THEN <<LengthByte(length)>>
        ELSE IF rest3 = 0 THEN <<LengthByte(length), LengthByte(rest2)>>
        ELSE IF rest4 = 0 THEN <<LengthByte(length), LengthByte(rest2), LengthByte(rest3)>>
        ELSE <<LengthByte(length), LengthByte(rest2), LengthByte(rest3), LengthByte(rest4)>>

(* The bytes getRemainingLength reads: up to the first without the bit; 0  *)
(* when the stream or the four bytes end before it.                        *)
LengthEnd(bytes) ==
    IF Len(bytes) >= 1 /\ bytes[1] < 128 THEN 1
    ELSE IF Len(bytes) >= 2 /\ bytes[2] < 128 THEN 2
    ELSE IF Len(bytes) >= 3 /\ bytes[3] < 128 THEN 3
    ELSE IF Len(bytes) >= 4 /\ bytes[4] < 128 THEN 4 ELSE 0

LengthValue(bytes, end) ==
    (bytes[1] % 128)
    + (IF end >= 2 THEN (bytes[2] % 128) * 128 ELSE 0)
    + (IF end >= 3 THEN (bytes[3] % 128) * 16384 ELSE 0)
    + (IF end >= 4 THEN (bytes[4] % 128) * 2097152 ELSE 0)

(* getRemainingLength: an encoding longer than it need be is refused.      *)
GetRemainingLength(bytes) ==
    LET end == LengthEnd(bytes)
    IN  IF end = 0 THEN InvalidLength
        ELSE IF EncodedSize(LengthValue(bytes, end)) # end THEN InvalidLength
        ELSE LengthValue(bytes, end)
=============================================================================
