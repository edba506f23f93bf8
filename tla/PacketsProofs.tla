--------------------------- MODULE PacketsProofs ----------------------------
(* The packets as bytes, for packets, buffers and streams of any length.   *)
(* First the length field; then what the serialisers write, as long as the *)
(* size call has said; the invariant of the sending side; what the readers *)
(* accept; and, since the bytes of each part are known by then, that a     *)
(* broker reads what was sent.  Some numbers are too large for Zenon:      *)
(* where they are in sight the leaf asks for SMT.                          *)
EXTENDS Packets, NaturalRecursion, SequenceTheorems

(* The remaining length field, for every length and whatever follows it.   *)
(* The numbers are too large for Zenon, so each leaf asks for SMT.         *)

(* The last digit of a number to the base of 128, and the rest.            *)
LEMMA Digits ==
    ASSUME NEW n \in Nat
    PROVE  /\ n \div 128 \in Nat /\ n % 128 \in 0 .. 127 /\ n = 128 * (n \div 128) + (n % 128)
           /\ n < 128 <=> n \div 128 = 0
BY SMT

(* A byte that another one follows has its eighth bit set, and the last    *)
(* has not; either holds a digit in the other bits.                        *)
LEMMA LengthByteBits ==
    ASSUME NEW rest \in Nat
    PROVE  /\ LengthByte(rest) \in 0 .. 255 /\ LengthByte(rest) % 128 = rest % 128
           /\ LengthByte(rest) < 128 <=> rest \div 128 = 0
<1>1. rest \div 128 \in Nat /\ rest % 128 \in 0 .. 127
  BY SMT, Digits
<1>2. CASE rest \div 128 > 0
  BY SMT, <1>1, <1>2 DEF LengthByte
<1>3. CASE rest \div 128 = 0
  BY SMT, <1>1, <1>3 DEF LengthByte
<1>4. QED
  BY SMT, <1>1, <1>2, <1>3

(* Bytes at the front of a stream.                                         *)
LEMMA BytesInFront ==
    ASSUME NEW s \in Seq(0 .. 255), NEW t \in Seq(0 .. 255)
    PROVE  /\ Len(s \o t) >= Len(s)
           /\ \A i \in 1 .. Len(s) : (s \o t)[i] = s[i]
BY SMT

(* Every length that MQTT allows is read back as it was written, from as   *)
(* many bytes as remainingLengthEncodedSize says, whatever follows them.   *)
THEOREM LengthReadsBack ==
    ASSUME NEW length \in Nat, length <= MaxRemainingLength, NEW rest \in Seq(0 .. 255)
    PROVE  /\ GetRemainingLength(EncodeRemainingLength(length) \o rest) = length
           /\ Len(EncodeRemainingLength(length)) = EncodedSize(length)
<1> DEFINE n2 == length \div 128
           n3 == n2 \div 128
           n4 == n3 \div 128
           input == EncodeRemainingLength(length) \o rest
<1>1. /\ n2 \in Nat /\ n3 \in Nat /\ n4 \in Nat
      /\ length = 128 * n2 + (length % 128) /\ length % 128 \in 0 .. 127
      /\ n2 = 128 * n3 + (n2 % 128) /\ n2 % 128 \in 0 .. 127
      /\ n3 = 128 * n4 + (n3 % 128) /\ n3 % 128 \in 0 .. 127
  <2>1. n2 \in Nat /\ length = 128 * n2 + (length % 128) /\ length % 128 \in 0 .. 127
    BY SMT, Digits
  <2> HIDE DEF n2
  <2>2. n3 \in Nat /\ n2 = 128 * n3 + (n2 % 128) /\ n2 % 128 \in 0 .. 127
    BY SMT, <2>1, Digits
  <2> HIDE DEF n3
  <2>3. n4 \in Nat /\ n3 = 128 * n4 + (n3 % 128) /\ n3 % 128 \in 0 .. 127
    BY SMT, <2>2, Digits
  <2>4. QED
    BY SMT, <2>1, <2>2, <2>3
<1>2. /\ n2 = 0 <=> length < 128
      /\ n3 = 0 <=> length < 16384
      /\ n4 = 0 <=> length < 2097152
      /\ n4 < 128
  <2> HIDE DEF n2, n3, n4
  <2>1. length < 268435456
    BY SMT DEF MaxRemainingLength
  <2>2. QED
    BY SMT, <1>1, <2>1
<1>3. n4 \div 128 = 0 /\ n4 % 128 = n4
  <2> HIDE DEF n2, n3, n4
  <2>1. QED
    BY SMT, <1>1, <1>2
<1>4. /\ LengthByte(length) % 128 = length % 128 /\ (LengthByte(length) < 128 <=> n2 = 0)
      /\ LengthByte(n2) % 128 = n2 % 128 /\ (LengthByte(n2) < 128 <=> n3 = 0)
      /\ LengthByte(n3) % 128 = n3 % 128 /\ (LengthByte(n3) < 128 <=> n4 = 0)
      /\ LengthByte(n4) % 128 = n4 /\ LengthByte(n4) < 128
      /\ \A n \in {length, n2, n3, n4} : LengthByte(n) \in 0 .. 255
  <2> HIDE DEF n2, n3, n4
  <2>1. LengthByte(length) % 128 = length % 128 /\ (LengthByte(length) < 128 <=> n2 = 0)
    BY LengthByteBits DEF n2
  <2> n2 \in Nat /\ n3 \in Nat /\ n4 \in Nat
    BY <1>1
  <2>2. LengthByte(n2) % 128 = n2 % 128 /\ (LengthByte(n2) < 128 <=> n3 = 0)
    BY LengthByteBits DEF n3
  <2>3. LengthByte(n3) % 128 = n3 % 128 /\ (LengthByte(n3) < 128 <=> n4 = 0)
    BY LengthByteBits DEF n4
  <2>4. LengthByte(n4) % 128 = n4 /\ LengthByte(n4) < 128
    BY <1>3, LengthByteBits
  <2>5. \A n \in {length, n2, n3, n4} : LengthByte(n) \in 0 .. 255
    BY LengthByteBits
  <2>6. QED
    BY SMT, <2>1, <2>2, <2>3, <2>4, <2>5
<1>5. EncodeRemainingLength(length) =
          IF n2 = 0 THEN <<LengthByte(length)>>
          ELSE IF n3 = 0 THEN <<LengthByte(length), LengthByte(n2)>>
          ELSE IF n4 = 0 THEN <<LengthByte(length), LengthByte(n2), LengthByte(n3)>>
          ELSE <<LengthByte(length), LengthByte(n2), LengthByte(n3), LengthByte(n4)>>
  BY DEF EncodeRemainingLength
<1> HIDE DEF n2, n3, n4
<1>6. CASE n2 = 0
  <2> DEFINE field == <<LengthByte(length)>>
  <2>1. EncodeRemainingLength(length) = field /\ EncodedSize(length) = 1
    BY SMT, <1>2, <1>5, <1>6 DEF EncodedSize
  <2>2. field \in Seq(0 .. 255) /\ Len(field) = 1
    BY SMT, <1>4
  <2>3. input = field \o rest
    BY <2>1
  <2> HIDE DEF field, input
  <2>4. Len(input) >= 1 /\ \A i \in 1 .. 1 : input[i] = field[i]
    <3>1. Len(field \o rest) >= Len(field) /\ \A i \in 1 .. Len(field) : (field \o rest)[i] = field[i]
      BY <2>2, BytesInFront
    <3>2. QED
      BY <2>2, <2>3, <3>1
  <2>5. input[1] = LengthByte(length)
    BY SMT, <2>4 DEF field
  <2>6. LengthEnd(input) = 1
    BY SMT, <1>4, <1>6, <2>4, <2>5 DEF LengthEnd
  <2>7. input[1] % 128 = length % 128
    BY <1>4, <2>5
  <2>8. LengthValue(input, 1) = length
    BY SMT, <1>1, <1>6, <2>7 DEF LengthValue
  <2>9. GetRemainingLength(input) = length
    BY SMT, <2>1, <2>6, <2>8 DEF GetRemainingLength
  <2>10. QED
    BY <2>1, <2>2, <2>9 DEF input
<1>7. CASE n2 # 0 /\ n3 = 0
  <2> DEFINE field == <<LengthByte(length), LengthByte(n2)>>
  <2>1. EncodeRemainingLength(length) = field /\ EncodedSize(length) = 2
    BY SMT, <1>2, <1>5, <1>7 DEF EncodedSize
  <2>2. field \in Seq(0 .. 255) /\ Len(field) = 2
    BY SMT, <1>4
  <2>3. input = field \o rest
    BY <2>1
  <2> HIDE DEF field, input
  <2>4. Len(input) >= 2 /\ \A i \in 1 .. 2 : input[i] = field[i]
    <3>1. Len(field \o rest) >= Len(field) /\ \A i \in 1 .. Len(field) : (field \o rest)[i] = field[i]
      BY <2>2, BytesInFront
    <3>2. QED
      BY <2>2, <2>3, <3>1
  <2>5. input[1] = LengthByte(length) /\ input[2] = LengthByte(n2)
    BY SMT, <2>4 DEF field
  <2>6. LengthEnd(input) = 2
    BY SMT, <1>4, <1>7, <2>4, <2>5 DEF LengthEnd
  <2>7. input[1] % 128 = length % 128 /\ input[2] % 128 = n2 % 128
    BY <1>4, <2>5
  <2>8. LengthValue(input, 2) = length
    BY SMT, <1>1, <1>7, <2>7 DEF LengthValue
  <2>9. GetRemainingLength(input) = length
    BY SMT, <2>1, <2>6, <2>8 DEF GetRemainingLength
  <2>10. QED
    BY <2>1, <2>2, <2>9 DEF input
<1>8. CASE n2 # 0 /\ n3 # 0 /\ n4 = 0
  <2> DEFINE field == <<LengthByte(length), LengthByte(n2), LengthByte(n3)>>
  <2>1. EncodeRemainingLength(length) = field /\ EncodedSize(length) = 3
    BY SMT, <1>2, <1>5, <1>8 DEF EncodedSize
  <2>2. field \in Seq(0 .. 255) /\ Len(field) = 3
    BY SMT, <1>4
  <2>3. input = field \o rest
    BY <2>1
  <2> HIDE DEF field, input
  <2>4. Len(input) >= 3 /\ \A i \in 1 .. 3 : input[i] = field[i]
    <3>1. Len(field \o rest) >= Len(field) /\ \A i \in 1 .. Len(field) : (field \o rest)[i] = field[i]
      BY <2>2, BytesInFront
    <3>2. QED
      BY <2>2, <2>3, <3>1
  <2>5. input[1] = LengthByte(length) /\ input[2] = LengthByte(n2) /\ input[3] = LengthByte(n3)
    BY SMT, <2>4 DEF field
  <2>6. LengthEnd(input) = 3
    BY SMT, <1>4, <1>8, <2>4, <2>5 DEF LengthEnd
  <2>7. input[1] % 128 = length % 128 /\ input[2] % 128 = n2 % 128 /\ input[3] % 128 = n3 % 128
    BY <1>4, <2>5
  <2>8. LengthValue(input, 3) = length
    <3>1. LengthValue(input, 3) = (length % 128) + (n2 % 128) * 128 + (n3 % 128) * 16384
      BY SMT, <1>1, <2>7 DEF LengthValue
    <3>2. QED
      BY SMT, <1>1, <1>8, <3>1
  <2>9. GetRemainingLength(input) = length
    BY SMT, <2>1, <2>6, <2>8 DEF GetRemainingLength
  <2>10. QED
    BY <2>1, <2>2, <2>9 DEF input
<1>9. CASE n2 # 0 /\ n3 # 0 /\ n4 # 0
  <2> DEFINE field == <<LengthByte(length), LengthByte(n2), LengthByte(n3), LengthByte(n4)>>
  <2>1. EncodeRemainingLength(length) = field /\ EncodedSize(length) = 4
    BY SMT, <1>2, <1>5, <1>9 DEF EncodedSize
  <2>2. field \in Seq(0 .. 255) /\ Len(field) = 4
    BY SMT, <1>4
  <2>3. input = field \o rest
    BY <2>1
  <2> HIDE DEF field, input
  <2>4. Len(input) >= 4 /\ \A i \in 1 .. 4 : input[i] = field[i]
    <3>1. Len(field \o rest) >= Len(field) /\ \A i \in 1 .. Len(field) : (field \o rest)[i] = field[i]
      BY <2>2, BytesInFront
    <3>2. QED
      BY <2>2, <2>3, <3>1
  <2>5. input[1] = LengthByte(length) /\ input[2] = LengthByte(n2) /\ input[3] = LengthByte(n3) /\ input[4] = LengthByte(n4)
    BY SMT, <2>4 DEF field
  <2>6. LengthEnd(input) = 4
    BY SMT, <1>4, <1>9, <2>4, <2>5 DEF LengthEnd
  <2>7. input[1] % 128 = length % 128 /\ input[2] % 128 = n2 % 128 /\ input[3] % 128 = n3 % 128 /\ input[4] % 128 = n4
    BY <1>4, <2>5
  <2>8. LengthValue(input, 4) = length
    <3>1. LengthValue(input, 4) = (length % 128) + (n2 % 128) * 128 + (n3 % 128) * 16384 + n4 * 2097152
      BY SMTT(30), <1>1, <2>7 DEF LengthValue
    <3>2. PICK a \in 0 .. 127, b \in 0 .. 127, c \in 0 .. 127 :
              a = length % 128 /\ b = n2 % 128 /\ c = n3 % 128
      BY Zenon, <1>1
    <3>3. length = 128 * n2 + a /\ n2 = 128 * n3 + b /\ n3 = 128 * n4 + c
      BY <1>1, <3>2
    <3>4. a + b * 128 + c * 16384 + n4 * 2097152 = 128 * n2 + a
      <4>1. n2 \in Nat /\ n3 \in Nat /\ n4 \in Nat
        BY <1>1
      <4>2. n2 * 128 = n3 * 16384 + b * 128
        BY SMT, <3>3, <4>1
      <4>3. n3 * 16384 = n4 * 2097152 + c * 16384
        BY SMT, <3>3, <4>1
      <4>4. QED
        BY SMT, <4>1, <4>2, <4>3
    <3>5. QED
      BY SMT, <3>1, <3>2, <3>3, <3>4
  <2>9. GetRemainingLength(input) = length
    BY SMT, <2>1, <2>6, <2>8 DEF GetRemainingLength
  <2>10. QED
    BY <2>1, <2>2, <2>9 DEF input
<1>10. QED
  BY SMT, <1>6, <1>7, <1>8, <1>9

-----------------------------------------------------------------------------
(* A number made of its last digit and the rest, taken apart again.        *)
LEMMA Compose ==
    ASSUME NEW d \in 0 .. 127, NEW r \in Nat
    PROVE  (d + 128 * r) \div 128 = r /\ (d + 128 * r) % 128 = d
BY SMT

(* A byte is its lower seven bits and its eighth.                          *)
LEMMA ByteDigit ==
    ASSUME NEW b \in 0 .. 255
    PROVE  b % 128 \in 0 .. 127 /\ b = (b % 128) + (IF b < 128 THEN 0 ELSE 128)
BY SMT

(* The byte written for the last digit of a number says whether there are  *)
(* more.                                                                   *)
LEMMA LengthByteOf ==
    ASSUME NEW d \in 0 .. 127, NEW r \in Nat
    PROVE  LengthByte(d + 128 * r) = d + (IF r > 0 THEN 128 ELSE 0)
<1> DEFINE n == d + 128 * r
<1>1. n \div 128 = r /\ n % 128 = d
  BY Compose
<1> HIDE DEF n
<1>2. LengthByte(n) = IF r > 0 THEN d + 128 ELSE d
  BY <1>1 DEF LengthByte
<1>3. QED
  BY SMT, <1>2 DEF n

(* A field ends at its first byte without the eighth bit, which is a byte  *)
(* of the stream.                                                          *)
LEMMA LengthEndBytes ==
    ASSUME NEW input \in Seq(0 .. 255), NEW i \in 1 .. LengthEnd(input)
    PROVE  input[i] \in 0 .. 255 /\ (input[i] < 128 <=> i = LengthEnd(input))
<1> DEFINE end == LengthEnd(input)
<1>1. /\ end \in 0 .. 4 /\ end <= Len(input)
      /\ end >= 1 => input[end] < 128
      /\ \A j \in 1 .. end : j < end => ~ (input[j] < 128)
  <2>1. Len(input) \in Nat
    OBVIOUS
  <2>2. QED
    BY SMT, <2>1 DEF LengthEnd
<1>2. i \in 1 .. end
  OBVIOUS
<1> HIDE DEF end
<1>3. i \in 1 .. Len(input)
  BY SMT, <1>1, <1>2
<1>4. input[i] \in 0 .. 255
  BY <1>3, ElementOfSeq
<1>5. input[i] < 128 <=> i = end
  BY SMT, <1>1, <1>2
<1>6. QED
  BY <1>4, <1>5 DEF end

(* The four digits a field stands for, zeros behind its end.               *)
Digit(input, i) == IF i <= LengthEnd(input) THEN input[i] % 128 ELSE 0

(* A length that is accepted comes in one form only: the bytes it was read *)
(* from are those encodeRemainingLength writes for it.                     *)
THEOREM LengthHasOneForm ==
    ASSUME NEW input \in Seq(0 .. 255), GetRemainingLength(input) # InvalidLength
    PROVE  /\ GetRemainingLength(input) \in Nat /\ GetRemainingLength(input) <= MaxRemainingLength
           /\ Len(EncodeRemainingLength(GetRemainingLength(input))) = LengthEnd(input)
           /\ LengthEnd(input) <= Len(input)
           /\ \A i \in 1 .. LengthEnd(input) : EncodeRemainingLength(GetRemainingLength(input))[i] = input[i]
<1> DEFINE end == LengthEnd(input)
           d1 == Digit(input, 1)
           d2 == Digit(input, 2)
           d3 == Digit(input, 3)
           r4 == Digit(input, 4)
           r3 == d3 + 128 * r4
           r2 == d2 + 128 * r3
           value == d1 + 128 * r2
           bit(i) == IF i < end THEN 128 ELSE 0
<1>1. end \in 1 .. 4 /\ end <= Len(input)
  <2>1. end # 0
    BY DEF GetRemainingLength
  <2>2. QED
    BY SMT, <2>1 DEF LengthEnd
<1>2. \A i \in 1 .. 4 : i <= end => input[i] \in 0 .. 255 /\ (input[i] < 128 <=> i = end)
  <2> TAKE i \in 1 .. 4
  <2> HAVE i <= end
  <2>1. i \in 1 .. LengthEnd(input)
    BY SMT, <1>1
  <2>2. QED
    BY <2>1, LengthEndBytes
<1>3. \A i \in 1 .. 4 : i <= end => input[i] = Digit(input, i) + bit(i)
  <2> TAKE i \in 1 .. 4
  <2> HAVE i <= end
  <2>1. input[i] \in 0 .. 255 /\ (input[i] < 128 <=> i = end)
    BY <1>2
  <2>2. input[i] = (input[i] % 128) + (IF input[i] < 128 THEN 0 ELSE 128)
    BY <2>1, ByteDigit
  <2>3. Digit(input, i) = input[i] % 128
    BY DEF Digit
  <2>4. input[i] < 128 <=> ~ (i < end)
    BY SMT, <1>1, <2>1
  <2>5. QED
    BY <2>2, <2>3, <2>4
<1>4. d1 \in 0 .. 127 /\ d2 \in 0 .. 127 /\ d3 \in 0 .. 127 /\ r4 \in 0 .. 127
  <2>1. \A i \in 1 .. 4 : Digit(input, i) \in 0 .. 127
    <3> TAKE i \in 1 .. 4
    <3>1. CASE i <= end
      <4>1. input[i] % 128 \in 0 .. 127
        BY <1>2, <3>1, ByteDigit
      <4>2. QED
        BY <3>1, <4>1 DEF Digit
    <3>2. CASE ~ (i <= end)
      BY SMT, <3>2 DEF Digit
    <3>3. QED
      BY <3>1, <3>2
  <2>2. QED
    BY SMT, <2>1
<1>5. /\ end < 4 => r4 = 0
      /\ end < 3 => d3 = 0
      /\ end < 2 => d2 = 0
  BY SMT, <1>1 DEF Digit
<1>6. LengthValue(input, end) = value
  <2>1. /\ d1 = input[1] % 128
        /\ d2 = IF end >= 2 THEN input[2] % 128 ELSE 0
        /\ d3 = IF end >= 3 THEN input[3] % 128 ELSE 0
        /\ r4 = IF end >= 4 THEN input[4] % 128 ELSE 0
    BY SMT, <1>1 DEF Digit
  <2> HIDE DEF end, d1, d2, d3, r4
  <2>2. LengthValue(input, end) = d1 + d2 * 128 + d3 * 16384 + r4 * 2097152
    BY SMT, <1>4, <2>1 DEF LengthValue
  <2>3. QED
    BY SMT, <1>4, <2>2
<1>7. GetRemainingLength(input) = value /\ EncodedSize(value) = end
  BY <1>1, <1>6 DEF GetRemainingLength
<1> HIDE DEF end, d1, d2, d3, r4
<1>8. r3 \in Nat /\ r2 \in Nat /\ value \in Nat /\ r4 \in Nat
  BY SMT, <1>4
<1>16. value \in Nat /\ value <= MaxRemainingLength
  <2>1. r3 \in Nat /\ r3 <= 16383
    BY SMT, <1>4
  <2> HIDE DEF r3
  <2>2. r2 \in Nat /\ r2 <= 2097151
    BY SMT, <1>4, <2>1
  <2> HIDE DEF r2
  <2>3. value \in Nat /\ value <= 268435455
    BY SMT, <1>4, <2>2
  <2> HIDE DEF value
  <2>4. QED
    BY SMT, <2>3 DEF MaxRemainingLength
<1>9. (r2 > 0 <=> end >= 2) /\ (r3 > 0 <=> end >= 3) /\ (r4 > 0 <=> end >= 4)
  BY SMT, <1>1, <1>4, <1>5, <1>7 DEF EncodedSize
<1>10. value \div 128 = r2 /\ r2 \div 128 = r3 /\ r3 \div 128 = r4
  <2>1. r3 \div 128 = r4
    BY <1>4, <1>8, Compose
  <2> HIDE DEF r3
  <2>2. r2 \div 128 = r3
    BY <1>4, <1>8, Compose
  <2> HIDE DEF r2
  <2>3. value \div 128 = r2
    BY <1>4, <1>8, Compose
  <2>4. QED
    BY <2>1, <2>2, <2>3
<1>11. /\ LengthByte(value) = d1 + bit(1)
       /\ LengthByte(r2) = d2 + bit(2)
       /\ LengthByte(r3) = d3 + bit(3)
       /\ LengthByte(r4) = r4
  <2>1. LengthByte(r4) = r4
    <3>1. LengthByte(r4 + 128 * 0) = r4 + (IF 0 > 0 THEN 128 ELSE 0)
      BY <1>4, LengthByteOf
    <3>2. QED
      BY SMT, <1>4, <3>1
  <2>2. LengthByte(r3) = d3 + (IF r4 > 0 THEN 128 ELSE 0)
    BY <1>4, <1>8, LengthByteOf
  <2> HIDE DEF r3
  <2>3. LengthByte(r2) = d2 + (IF r3 > 0 THEN 128 ELSE 0)
    BY <1>4, <1>8, LengthByteOf
  <2> HIDE DEF r2
  <2>4. LengthByte(value) = d1 + (IF r2 > 0 THEN 128 ELSE 0)
    BY <1>4, <1>8, LengthByteOf
  <2>5. (r2 > 0 <=> 1 < end) /\ (r3 > 0 <=> 2 < end) /\ (r4 > 0 <=> 3 < end)
    BY SMT, <1>1, <1>9
  <2>6. QED
    BY <2>1, <2>2, <2>3, <2>4, <2>5
<1> HIDE DEF value, r2, r3
<1>12. EncodeRemainingLength(value) =
           IF r2 = 0 THEN <<LengthByte(value)>>
           ELSE IF r3 = 0 THEN <<LengthByte(value), LengthByte(r2)>>
           ELSE IF r4 = 0 THEN <<LengthByte(value), LengthByte(r2), LengthByte(r3)>>
           ELSE <<LengthByte(value), LengthByte(r2), LengthByte(r3), LengthByte(r4)>>
  BY <1>10 DEF EncodeRemainingLength
<1>13. /\ input[1] = LengthByte(value)
       /\ end >= 2 => input[2] = LengthByte(r2)
       /\ end >= 3 => input[3] = LengthByte(r3)
       /\ end >= 4 => input[4] = LengthByte(r4)
  <2>1. input[1] = d1 + bit(1)
    BY SMT, <1>1, <1>3 DEF d1
  <2>2. end >= 2 => input[2] = d2 + bit(2)
    BY SMT, <1>1, <1>3 DEF d2
  <2>3. end >= 3 => input[3] = d3 + bit(3)
    BY SMT, <1>1, <1>3 DEF d3
  <2>4. end >= 4 => input[4] = r4
    <3>1. bit(4) = 0
      BY SMT, <1>1
    <3>2. end >= 4 => input[4] = r4 + bit(4)
      BY SMT, <1>1, <1>3 DEF r4
    <3> HIDE DEF bit
    <3>3. QED
      BY SMT, <1>4, <3>1, <3>2
  <2>5. QED
    BY <1>11, <2>1, <2>2, <2>3, <2>4
<1>14. /\ Len(EncodeRemainingLength(value)) = end
       /\ \A i \in 1 .. end : EncodeRemainingLength(value)[i] = input[i]
  <2>1. CASE end = 1
    BY SMT, <1>8, <1>9, <1>12, <1>13, <2>1
  <2>2. CASE end = 2
    BY SMT, <1>8, <1>9, <1>12, <1>13, <2>2
  <2>3. CASE end = 3
    BY SMT, <1>8, <1>9, <1>12, <1>13, <2>3
  <2>4. CASE end = 4
    BY SMT, <1>8, <1>9, <1>12, <1>13, <2>4
  <2>5. QED
    BY SMT, <1>1, <2>1, <2>2, <2>3, <2>4
<1>15. QED
  BY <1>1, <1>7, <1>14, <1>16 DEF end

-----------------------------------------------------------------------------
(* Bytes as the proofs of the length field write them.                     *)
LEMMA ByteIs == Byte = 0 .. 255
BY SMT DEF Byte

(* What is written in front, and what a concatenation of bytes is.         *)
LEMMA Joined ==
    ASSUME NEW S, NEW s \in Seq(S), NEW t \in Seq(S)
    PROVE  /\ s \o t \in Seq(S) /\ Len(s \o t) = Len(s) + Len(t)
           /\ \A i \in 1 .. Len(s) : (s \o t)[i] = s[i]
           /\ \A i \in 1 .. Len(t) : (s \o t)[Len(s) + i] = t[i]
BY ConcatProperties

(* Nothing joined to a sequence, on either side.                           *)
LEMMA JoinedEmpty ==
    ASSUME NEW S, NEW s \in Seq(S)
    PROVE  s \o <<>> = s /\ <<>> \o s = s
BY ConcatEmptySeq

(* Two sequences of one element, joined, are the pair of both.             *)
LEMMA TwoJoined ==
    ASSUME NEW S, NEW one \in Seq(S), NEW other \in Seq(S), NEW two \in Seq(S),
           Len(one) = 1, Len(other) = 1, Len(two) = 2, two[1] = one[1], two[2] = other[1]
    PROVE  one \o other = two
<1> DEFINE joined == one \o other
<1>1. /\ joined \in Seq(S) /\ Len(joined) = Len(one) + Len(other)
      /\ \A i \in 1 .. Len(one) : joined[i] = one[i]
      /\ \A i \in 1 .. Len(other) : joined[Len(one) + i] = other[i]
  BY Joined
<1> HIDE DEF joined
<1>2. Len(joined) = Len(two) /\ joined[1] = two[1] /\ joined[2] = two[2]
  BY <1>1
<1>3. \A i \in 1 .. Len(joined) : joined[i] = two[i]
  BY <1>2
<1>4. joined = two
  BY <1>1, <1>2, <1>3, SeqEqual
<1>5. QED
  BY <1>4 DEF joined

(* A pair joined at once is joined one after the other.                    *)
LEMMA JoinedPair ==
    ASSUME NEW S, NEW s \in Seq(S), NEW a \in S, NEW b \in S
    PROVE  s \o <<a, b>> = (s \o <<a>>) \o <<b>>
<1>1. PICK one \in Seq(S), other \in Seq(S), two \in Seq(S) :
          /\ one = <<a>> /\ other = <<b>> /\ two = <<a, b>>
          /\ Len(one) = 1 /\ Len(other) = 1 /\ Len(two) = 2 /\ two[1] = one[1] /\ two[2] = other[1]
  <2>1. <<a>> \in Seq(S) /\ <<b>> \in Seq(S) /\ <<a, b>> \in Seq(S)
    OBVIOUS
  <2>2. QED
    BY <2>1
<1>2. one \o other = two
  BY <1>1, TwoJoined
<1>3. (s \o one) \o other = s \o (one \o other)
  BY ConcatAssociative
<1>4. QED
  BY <1>1, <1>2, <1>3

(* The parts of FlattenSeq, joined one after another.                      *)
Joins(S, ss, f) ==
    /\ f \in [0 .. Len(ss) -> Seq(S)] /\ f[0] = <<>>
    /\ \A i \in 1 .. Len(ss) : f[i] = f[i - 1] \o ss[i]

(* There is such a function: one turn of the loop for each part.           *)
LEMMA JoinsExist ==
    ASSUME NEW S, NEW ss \in Seq(Seq(S))
    PROVE  \E f : Joins(S, ss, f)
<1> DEFINE step == [p \in (1 .. Len(ss)) \X Seq(S) |-> p[2] \o ss[p[1]]]
<1>1. ASSUME NEW p \in (1 .. Len(ss)) \X Seq(S) PROVE p[2] \o ss[p[1]] \in Seq(S)
  <2>1. ss[p[1]] \in Seq(S) /\ p[2] \in Seq(S)
    BY ElementOfSeq
  <2>2. QED
    BY <2>1, Joined
<1>2. step \in [(1 .. Len(ss)) \X Seq(S) -> Seq(S)] /\ <<>> \in Seq(S) /\ Len(ss) \in Nat
  BY <1>1
<1> HIDE DEF step
<1>3. PICK f : Iterated(f, Seq(S), <<>>, Len(ss), step)
  BY <1>2, LoopExists
<1>4. /\ f \in [0 .. Len(ss) -> Seq(S)] /\ f[0] = <<>>
      /\ \A i \in 1 .. Len(ss) : f[i] = step[<<i, f[i - 1]>>]
  BY <1>3 DEF Iterated
<1>5. ASSUME NEW i \in 1 .. Len(ss) PROVE f[i] = f[i - 1] \o ss[i]
  <2>1. f[i - 1] \in Seq(S)
    <3>1. i - 1 \in 0 .. Len(ss)
      BY <1>2
    <3>2. QED
      BY <1>4, <3>1
  <2>2. <<i, f[i - 1]>> \in (1 .. Len(ss)) \X Seq(S)
    BY <2>1
  <2>3. QED
    BY <1>4, <2>2 DEF step
<1>6. QED
  BY <1>4, <1>5 DEF Joins

(* FlattenSeq is the last of them.                                         *)
LEMMA Flattened ==
    ASSUME NEW S, NEW ss \in Seq(Seq(S)), NEW f, Joins(S, ss, f)
    PROVE  FlattenSeq(ss) = f[Len(ss)]
<1>1. CASE Len(ss) = 0
  <2>1. ss = <<>>
    BY <1>1, EmptySeq
  <2>2. QED
    BY <1>1, <2>1 DEF FlattenSeq, Joins
<1>2. CASE Len(ss) # 0
  <2> DEFINE Solves(h) == h = [i \in 1 .. Len(ss) |-> IF i = 1 THEN ss[i] ELSE h[i - 1] \o ss[i]]
             g == [i \in 1 .. Len(ss) |-> f[i]]
             h == CHOOSE h : Solves(h)
  <2>1. Len(ss) \in Nat /\ Len(ss) \in 1 .. Len(ss)
    BY <1>2
  <2>2. ASSUME NEW i \in 1 .. Len(ss) PROVE g[i] = IF i = 1 THEN ss[i] ELSE g[i - 1] \o ss[i]
    <3>1. f[i] = f[i - 1] \o ss[i]
      BY DEF Joins
    <3>2. CASE i = 1
      <4>1. ss[1] \in Seq(S) /\ f[0] = <<>>
        BY <3>2, ElementOfSeq DEF Joins
      <4>2. <<>> \o ss[1] = ss[1]
        BY <4>1, JoinedEmpty
      <4>3. i - 1 = 0
        BY <3>2
      <4>4. f[i] = ss[i]
        BY <3>1, <3>2, <4>1, <4>2, <4>3
      <4>5. QED
        BY <3>2, <4>4
    <3>3. CASE i # 1
      <4>1. i - 1 \in 1 .. Len(ss)
        BY <2>1, <3>3
      <4>2. QED
        BY <3>1, <3>3, <4>1
    <3>4. QED
      BY <3>2, <3>3
  <2>3. Solves(g)
    BY Zenon, <2>2
  <2>4. Solves(h)
    BY Zenon, <2>3
  <2>5. FlattenSeq(ss) = h[Len(ss)]
    BY SMTT(30), <1>2 DEF FlattenSeq
  <2>6. \A i \in 1 .. Len(ss) : h[i] = IF i = 1 THEN ss[i] ELSE h[i - 1] \o ss[i]
    BY Zenon, <2>4
  <2> HIDE DEF h, g, Solves
  <2> DEFINE T == {n \in Nat : n \in 1 .. Len(ss) => h[n] = f[n]}
  <2>7. 0 \in T
    BY <2>1
  <2>8. ASSUME NEW n \in Nat, n \in T PROVE n + 1 \in T
    <3> SUFFICES ASSUME n + 1 \in 1 .. Len(ss) PROVE h[n + 1] = f[n + 1]
      OBVIOUS
    <3>1. f[n + 1] = f[n] \o ss[n + 1]
      <4>1. PICK m \in 1 .. Len(ss) : m = n + 1
        OBVIOUS
      <4>2. f[m] = f[m - 1] \o ss[m]
        BY DEF Joins
      <4>3. m - 1 = n
        BY <4>1
      <4>4. QED
        BY <4>1, <4>2, <4>3
    <3>2. CASE n = 0
      <4>1. ss[1] \in Seq(S) /\ f[0] = <<>>
        BY <3>2, ElementOfSeq DEF Joins
      <4>2. <<>> \o ss[1] = ss[1]
        BY <4>1, JoinedEmpty
      <4>3. h[1] = ss[1]
        BY <2>6, <3>2
      <4>4. QED
        BY <3>1, <3>2, <4>1, <4>2, <4>3
    <3>3. CASE n # 0
      <4>1. n \in 1 .. Len(ss)
        BY <2>1, <3>3
      <4>2. h[n] = f[n]
        BY <2>8, <4>1
      <4>3. h[n + 1] = h[n] \o ss[n + 1]
        <5>1. PICK m \in 1 .. Len(ss) : m = n + 1 /\ m # 1 /\ m - 1 = n
          BY <3>3
        <5>2. h[m] = h[m - 1] \o ss[m]
          BY <2>6, <5>1
        <5>3. QED
          BY <5>1, <5>2
      <4>4. QED
        BY <3>1, <4>2, <4>3
    <3>4. QED
      BY <3>2, <3>3
  <2> HIDE DEF T
  <2>9. \A n \in Nat : n \in T
    BY <2>7, <2>8, Induction
  <2>10. Len(ss) \in T
    BY <2>1, <2>9
  <2>11. QED
    BY <2>1, <2>5, <2>10 DEF T
<1>3. QED
  BY <1>1, <1>2

(* Its length, when that of the parts add up to g.                         *)
Sums(ss, g) ==
    /\ g \in [0 .. Len(ss) -> Nat] /\ g[0] = 0
    /\ \A i \in 1 .. Len(ss) : g[i] = g[i - 1] + Len(ss[i])

(* The length of the whole is the sum of the lengths of the parts.         *)
LEMMA FlattenedLength ==
    ASSUME NEW S, NEW ss \in Seq(Seq(S)), NEW g, Sums(ss, g)
    PROVE  FlattenSeq(ss) \in Seq(S) /\ Len(FlattenSeq(ss)) = g[Len(ss)]
<1>1. PICK f : Joins(S, ss, f)
  BY JoinsExist
<1>2. FlattenSeq(ss) = f[Len(ss)]
  BY <1>1, Flattened
<1>3. /\ f \in [0 .. Len(ss) -> Seq(S)] /\ f[0] = <<>>
      /\ \A i \in 1 .. Len(ss) : f[i] = f[i - 1] \o ss[i]
  BY <1>1 DEF Joins
<1> DEFINE T == {n \in Nat : n <= Len(ss) => Len(f[n]) = g[n]}
<1>4. Len(ss) \in Nat
  OBVIOUS
<1>5. 0 \in T
  <2>1. Len(f[0]) = 0 /\ g[0] = 0
    BY <1>3 DEF Sums
  <2>2. QED
    BY <2>1
<1>6. ASSUME NEW n \in Nat, n \in T PROVE n + 1 \in T
  <2> SUFFICES ASSUME n + 1 <= Len(ss) PROVE Len(f[n + 1]) = g[n + 1]
    OBVIOUS
  <2>1. PICK m \in 1 .. Len(ss) : m = n + 1 /\ m - 1 = n /\ n \in 0 .. Len(ss)
    BY <1>4
  <2>2. f[m] = f[n] \o ss[m]
    BY <1>3, <2>1
  <2>3. g[m] = g[n] + Len(ss[m])
    BY <2>1 DEF Sums
  <2>4. f[n] \in Seq(S) /\ ss[m] \in Seq(S)
    BY <1>3, <2>1, ElementOfSeq
  <2>5. Len(f[n] \o ss[m]) = Len(f[n]) + Len(ss[m])
    BY <2>4, Joined
  <2>6. Len(f[n]) = g[n]
    BY <1>4, <1>6, <2>1
  <2>7. QED
    BY <2>1, <2>2, <2>3, <2>5, <2>6
<1> HIDE DEF T
<1>7. \A n \in Nat : n \in T
  BY <1>5, <1>6, Induction
<1>8. Len(f[Len(ss)]) = g[Len(ss)]
  <2>1. Len(ss) \in T
    BY <1>4, <1>7
  <2>2. QED
    BY <1>4, <2>1 DEF T
<1>9. f[Len(ss)] \in Seq(S)
  BY <1>3, <1>4
<1>10. QED
  BY <1>2, <1>8, <1>9

(* One part more.                                                          *)
LEMMA FlattenedAppend ==
    ASSUME NEW S, NEW ss \in Seq(Seq(S)), NEW s \in Seq(S)
    PROVE  FlattenSeq(Append(ss, s)) = FlattenSeq(ss) \o s
<1>1. PICK tt \in Seq(Seq(S)) : tt = Append(ss, s)
  <2>1. Append(ss, s) \in Seq(Seq(S))
    BY AppendProperties
  <2>2. QED
    BY <2>1
<1>2. /\ Len(tt) = Len(ss) + 1 /\ Len(ss) \in Nat
      /\ tt[Len(ss) + 1] = s /\ \A i \in 1 .. Len(ss) : tt[i] = ss[i]
  BY <1>1, AppendProperties
<1>3. PICK f : Joins(S, ss, f)
  BY JoinsExist
<1>4. PICK g : Joins(S, tt, g)
  BY JoinsExist
<1>5. FlattenSeq(ss) = f[Len(ss)] /\ FlattenSeq(tt) = g[Len(tt)]
  BY <1>3, <1>4, Flattened
<1>6. /\ f[0] = <<>> /\ \A i \in 1 .. Len(ss) : f[i] = f[i - 1] \o ss[i]
      /\ g[0] = <<>> /\ \A i \in 1 .. Len(tt) : g[i] = g[i - 1] \o tt[i]
  BY <1>3, <1>4 DEF Joins
<1> DEFINE T == {n \in Nat : n <= Len(ss) => f[n] = g[n]}
<1>7. 0 \in T
  BY <1>6
<1>8. ASSUME NEW n \in Nat, n \in T PROVE n + 1 \in T
  <2> SUFFICES ASSUME n + 1 <= Len(ss) PROVE f[n + 1] = g[n + 1]
    OBVIOUS
  <2>1. PICK m \in 1 .. Len(ss) : m = n + 1 /\ m - 1 = n
    BY <1>2
  <2>2. m \in 1 .. Len(tt)
    BY <1>2
  <2>3. f[m] = f[n] \o ss[m] /\ g[m] = g[n] \o tt[m]
    BY <1>6, <2>1, <2>2
  <2>4. f[n] = g[n] /\ tt[m] = ss[m]
    BY <1>2, <1>8, <2>1
  <2>5. QED
    BY <2>1, <2>3, <2>4
<1> HIDE DEF T
<1>9. \A n \in Nat : n \in T
  BY <1>7, <1>8, Induction
<1>10. f[Len(ss)] = g[Len(ss)]
  BY <1>2, <1>9 DEF T
<1>11. g[Len(tt)] = g[Len(ss)] \o s
  <2>1. PICK m \in 1 .. Len(tt) : m = Len(tt) /\ m - 1 = Len(ss)
    BY <1>2
  <2>2. g[m] = g[m - 1] \o tt[m]
    BY <1>6
  <2>3. QED
    BY <1>2, <2>1, <2>2
<1>12. QED
  BY <1>1, <1>5, <1>10, <1>11

-----------------------------------------------------------------------------
(* Fields                                                                  *)

(* A number of 16 bits is written as two bytes, the upper one first.       *)
LEMMA Encoded16 ==
    ASSUME NEW n \in UINT16
    PROVE  /\ Encode16(n) \in Seq(Byte) /\ Len(Encode16(n)) = 2
           /\ Encode16(n)[1] = n \div 256 /\ Encode16(n)[2] = n % 256
<1>1. n \div 256 \in Byte /\ n % 256 \in Byte
  BY SMT DEF UINT16, Byte
<1>2. QED
  BY <1>1 DEF Encode16

(* A string is written as its length and its bytes, all of them.           *)
LEMMA EncodedString ==
    ASSUME NEW s \in String16
    PROVE  /\ EncodeString(s) = Encode16(Len(s)) \o s
           /\ EncodeString(s) \in Seq(Byte) /\ Len(EncodeString(s)) = 2 + Len(s)
<1>1. s \in Seq(Byte) /\ Len(s) \in Nat /\ Len(s) \in UINT16
  BY SMT DEF String16, UINT16
<1>2. Len(s) % 65536 = Len(s)
  BY SMT, <1>1 DEF UINT16
<1>3. SubSeq(s, 1, Len(s)) = s
  BY SMT, <1>1
<1>4. EncodeString(s) = Encode16(Len(s)) \o s
  <2>1. PICK length : length = Len(s) % 65536
    OBVIOUS
  <2>2. EncodeString(s) = Encode16(length) \o SubSeq(s, 1, length)
    BY SMT, <2>1 DEF EncodeString
  <2>3. length = Len(s)
    BY SMT, <1>2, <2>1
  <2>4. QED
    BY <1>3, <2>2, <2>3
<1>5. Encode16(Len(s)) \in Seq(Byte) /\ Len(Encode16(Len(s))) = 2
  BY <1>1, Encoded16
<1>6. EncodeString(s) \in Seq(Byte) /\ Len(EncodeString(s)) = 2 + Len(s)
  <2>1. PICK field \in Seq(Byte) : field = Encode16(Len(s)) /\ Len(field) = 2
    BY <1>5
  <2>2. field \o s \in Seq(Byte) /\ Len(field \o s) = Len(field) + Len(s)
    BY <1>1, Joined
  <2>3. QED
    BY <1>4, <2>1, <2>2
<1>7. QED
  BY <1>4, <1>6

(* The largest remaining length is a number, and room for an               *)
(* acknowledgement.                                                        *)
LEMMA LargestLength == MaxRemainingLength \in Nat /\ 4 <= MaxRemainingLength
BY SMT DEF MaxRemainingLength

(* The length field: as many bytes as its size says, read back as it was.  *)
LEMMA EncodedLength ==
    ASSUME NEW n \in 0 .. MaxRemainingLength
    PROVE  /\ EncodeRemainingLength(n) \in Seq(Byte)
           /\ Len(EncodeRemainingLength(n)) = EncodedSize(n)
           /\ GetRemainingLength(EncodeRemainingLength(n)) = n
           /\ EncodedSize(n) \in 1 .. 4
<1>1. n \in Nat /\ n <= MaxRemainingLength
  BY LargestLength
<1>2. EncodedSize(n) \in 1 .. 4
  BY SMT, <1>1 DEF EncodedSize
<1>3. EncodeRemainingLength(n) \in Seq(Byte)
  <2> DEFINE n2 == n \div 128
             n3 == n2 \div 128
             n4 == n3 \div 128
  <2>1. n2 \in Nat
    BY <1>1, Digits
  <2>2. n3 \in Nat
    BY <2>1, Digits
  <2>3. n4 \in Nat
    BY <2>2, Digits
  <2>4. /\ LengthByte(n) \in Byte /\ LengthByte(n2) \in Byte
        /\ LengthByte(n3) \in Byte /\ LengthByte(n4) \in Byte
    BY <1>1, <2>1, <2>2, <2>3, LengthByteBits, ByteIs
  <2>5. EncodeRemainingLength(n) \in
            {<<LengthByte(n)>>, <<LengthByte(n), LengthByte(n2)>>,
             <<LengthByte(n), LengthByte(n2), LengthByte(n3)>>,
             <<LengthByte(n), LengthByte(n2), LengthByte(n3), LengthByte(n4)>>}
    BY DEF EncodeRemainingLength
  <2> HIDE DEF n2, n3, n4
  <2>6. PICK b1, b2, b3, b4 : b1 = LengthByte(n) /\ b2 = LengthByte(n2) /\ b3 = LengthByte(n3) /\ b4 = LengthByte(n4)
    OBVIOUS
  <2>7. b1 \in Byte /\ b2 \in Byte /\ b3 \in Byte /\ b4 \in Byte
    BY <2>4, <2>6
  <2>8. EncodeRemainingLength(n) \in {<<b1>>, <<b1, b2>>, <<b1, b2, b3>>, <<b1, b2, b3, b4>>}
    BY <2>5, <2>6
  <2>9. <<b1>> \in Seq(Byte) /\ <<b1, b2>> \in Seq(Byte)
    BY <2>7
  <2>10. <<b1, b2, b3>> \in Seq(Byte)
    BY <2>7
  <2>11. <<b1, b2, b3, b4>> \in Seq(Byte)
    BY <2>7
  <2>12. QED
    BY <2>8, <2>9, <2>10, <2>11
<1>4. <<>> \in Seq(0 .. 255) /\ EncodeRemainingLength(n) \o <<>> = EncodeRemainingLength(n)
  BY <1>3, JoinedEmpty
<1>5. Len(EncodeRemainingLength(n)) = EncodedSize(n) /\ GetRemainingLength(EncodeRemainingLength(n)) = n
  <2>1. GetRemainingLength(EncodeRemainingLength(n) \o <<>>) = n
    BY <1>1, <1>4, LengthReadsBack
  <2>2. Len(EncodeRemainingLength(n)) = EncodedSize(n)
    BY <1>1, <1>4, LengthReadsBack
  <2>3. QED
    BY <1>4, <2>1, <2>2
<1>6. QED
  BY <1>2, <1>3, <1>5

(* The fixed header of a packet, and the packet size that follows from it. *)
LEMMA FixedHeaderLength ==
    ASSUME NEW type \in Byte, NEW n \in 0 .. MaxRemainingLength
    PROVE  /\ FixedHeader(type, n) \in Seq(Byte)
           /\ Len(FixedHeader(type, n)) = 1 + EncodedSize(n)
           /\ Len(FixedHeader(type, n)) + n = PacketSize(n)
<1>1. PICK field \in Seq(Byte) : field = EncodeRemainingLength(n) /\ Len(field) = EncodedSize(n)
  BY EncodedLength
<1>2. <<type>> \in Seq(Byte) /\ Len(<<type>>) = 1
  OBVIOUS
<1>3. <<type>> \o field \in Seq(Byte) /\ Len(<<type>> \o field) = 1 + Len(field)
  BY <1>1, <1>2, Joined
<1>4. FixedHeader(type, n) = <<type>> \o field
  BY <1>1 DEF FixedHeader
<1>5. EncodedSize(n) \in Nat /\ n \in Nat
  BY EncodedLength, LargestLength
<1>6. QED
  BY <1>1, <1>3, <1>4, <1>5 DEF PacketSize

(* One string more.                                                        *)
LEMMA EncodedAppend ==
    ASSUME NEW ss \in Seq(String16), NEW s \in String16
    PROVE  /\ EncodeStrings(ss) \in Seq(Byte)
           /\ EncodeStrings(Append(ss, s)) = EncodeStrings(ss) \o EncodeString(s)
<1> DEFINE parts == [i \in DOMAIN ss |-> EncodeString(ss[i])]
           more == [i \in DOMAIN Append(ss, s) |-> EncodeString(Append(ss, s)[i])]
<1>1. parts \in Seq(Seq(Byte)) /\ Len(parts) = Len(ss)
  <2>1. \A i \in 1 .. Len(ss) : EncodeString(ss[i]) \in Seq(Byte)
    BY ElementOfSeq, EncodedString
  <2>2. DOMAIN ss = 1 .. Len(ss) /\ Len(ss) \in Nat
    OBVIOUS
  <2>3. QED
    BY <2>1, <2>2
<1>2. more = Append(parts, EncodeString(s))
  <2>1. /\ DOMAIN Append(ss, s) = 1 .. Len(ss) + 1 /\ Len(ss) \in Nat
        /\ Append(ss, s)[Len(ss) + 1] = s
        /\ \A i \in 1 .. Len(ss) : Append(ss, s)[i] = ss[i]
    BY AppendProperties
  <2>2. /\ Append(parts, EncodeString(s)) \in Seq(Seq(Byte))
        /\ Len(Append(parts, EncodeString(s))) = Len(ss) + 1
        /\ Append(parts, EncodeString(s))[Len(ss) + 1] = EncodeString(s)
        /\ \A i \in 1 .. Len(ss) : Append(parts, EncodeString(s))[i] = parts[i]
    <3>1. EncodeString(s) \in Seq(Byte)
      BY EncodedString
    <3> HIDE DEF parts
    <3>2. QED
      BY <1>1, <3>1, AppendProperties
  <2>3. \A i \in 1 .. Len(ss) : parts[i] = EncodeString(ss[i])
    OBVIOUS
  <2>4. PICK all : all = Append(parts, EncodeString(s))
    OBVIOUS
  <2>5. PICK longer : longer = Append(ss, s)
    OBVIOUS
  <2> HIDE DEF parts
  <2>6. \A i \in 1 .. Len(ss) + 1 : all[i] = EncodeString(longer[i])
    <3> SUFFICES ASSUME NEW i \in 1 .. Len(ss) + 1 PROVE all[i] = EncodeString(longer[i])
      OBVIOUS
    <3>1. CASE i = Len(ss) + 1
      BY <2>1, <2>2, <2>4, <2>5, <3>1
    <3>2. CASE i # Len(ss) + 1
      <4>1. i \in 1 .. Len(ss)
        BY <2>1, <3>2
      <4>2. QED
        BY <2>1, <2>2, <2>3, <2>4, <2>5, <4>1
    <3>3. QED
      BY <3>1, <3>2
  <2>7. all = [i \in 1 .. Len(ss) + 1 |-> all[i]]
    <3>1. all \in Seq(Seq(Byte)) /\ Len(all) = Len(ss) + 1
      BY <2>2, <2>4
    <3>2. all = [i \in 1 .. Len(all) |-> all[i]]
      BY <3>1
    <3>3. QED
      BY <3>1, <3>2
  <2>8. all = [i \in 1 .. Len(ss) + 1 |-> EncodeString(longer[i])]
    BY <2>6, <2>7
  <2>9. QED
    BY <2>1, <2>4, <2>5, <2>8
<1>3. EncodeStrings(ss) = FlattenSeq(parts) /\ EncodeStrings(Append(ss, s)) = FlattenSeq(more)
  BY DEF EncodeStrings
<1>4. EncodeString(s) \in Seq(Byte)
  BY EncodedString
<1> HIDE DEF parts, more
<1>5. FlattenSeq(more) = FlattenSeq(parts) \o EncodeString(s)
  BY <1>1, <1>2, <1>4, FlattenedAppend
<1>6. FlattenSeq(parts) \in Seq(Byte)
  <2>1. PICK f : Joins(Byte, parts, f)
    BY <1>1, JoinsExist
  <2>2. FlattenSeq(parts) = f[Len(parts)]
    BY <1>1, <2>1, Flattened
  <2>3. Len(parts) \in 0 .. Len(parts)
    BY <1>1
  <2>4. QED
    BY <2>1, <2>2, <2>3 DEF Joins
<1>7. QED
  BY <1>3, <1>5, <1>6

(* The loop over a list of filters.                                        *)
Filter == [filter : String16, qos : QoS]

Totals(list, f) ==
    /\ f \in [0 .. Len(list) -> Nat] /\ f[0] = 0
    /\ \A i \in 1 .. Len(list) : f[i] = f[i - 1] + Len(list[i].filter)

(* There is such a function for every list.                                *)
LEMMA TotalsExist ==
    ASSUME NEW list \in Seq(Filter)
    PROVE  \E f : Totals(list, f)
<1> DEFINE step == [p \in (1 .. Len(list)) \X Nat |-> p[2] + Len(list[p[1]].filter)]
<1>1. ASSUME NEW p \in (1 .. Len(list)) \X Nat PROVE p[2] + Len(list[p[1]].filter) \in Nat
  <2>1. list[p[1]] \in Filter /\ p[2] \in Nat
    BY ElementOfSeq
  <2>2. Len(list[p[1]].filter) \in Nat
    BY SMT, <2>1 DEF Filter, String16
  <2>3. QED
    BY <2>1, <2>2
<1>2. step \in [(1 .. Len(list)) \X Nat -> Nat] /\ Len(list) \in Nat
  BY <1>1
<1> HIDE DEF step
<1>3. PICK f : Iterated(f, Nat, 0, Len(list), step)
  BY <1>2, LoopExists
<1>4. /\ f \in [0 .. Len(list) -> Nat] /\ f[0] = 0
      /\ \A i \in 1 .. Len(list) : f[i] = step[<<i, f[i - 1]>>]
  BY <1>3 DEF Iterated
<1>5. ASSUME NEW i \in 1 .. Len(list) PROVE f[i] = f[i - 1] + Len(list[i].filter)
  <2>1. i - 1 \in 0 .. Len(list)
    BY <1>2
  <2>2. <<i, f[i - 1]>> \in (1 .. Len(list)) \X Nat
    BY <1>4, <2>1
  <2>3. QED
    BY <1>4, <2>2 DEF step
<1>6. QED
  BY <1>4, <1>5 DEF Totals

(* The loop over the filters gives the last of these sums.                 *)
LEMMA TotalIs ==
    ASSUME NEW list \in Seq(Filter), NEW f, Totals(list, f)
    PROVE  TotalLength(list) = f[Len(list)] /\ TotalLength(list) \in Nat
<1> DEFINE Solves(h) == h = [i \in 0 .. Len(list) |-> IF i = 0 THEN 0 ELSE h[i - 1] + Len(list[i].filter)]
           h == CHOOSE h : Solves(h)
<1>1. Len(list) \in Nat /\ Len(list) \in 0 .. Len(list)
  OBVIOUS
<1>2. Solves(f)
  <2>1. f = [i \in 0 .. Len(list) |-> f[i]]
    BY DEF Totals
  <2>2. \A i \in 0 .. Len(list) : f[i] = IF i = 0 THEN 0 ELSE f[i - 1] + Len(list[i].filter)
    <3> SUFFICES ASSUME NEW i \in 0 .. Len(list)
                 PROVE  f[i] = IF i = 0 THEN 0 ELSE f[i - 1] + Len(list[i].filter)
      OBVIOUS
    <3>1. CASE i = 0
      BY <3>1 DEF Totals
    <3>2. CASE i # 0
      <4>1. i \in 1 .. Len(list)
        BY <1>1, <3>2
      <4>2. f[i] = f[i - 1] + Len(list[i].filter)
        BY <4>1 DEF Totals
      <4>3. QED
        BY <3>2, <4>2
    <3>3. QED
      BY <3>1, <3>2
  <2>3. QED
    BY <2>1, <2>2
<1>3. Solves(h)
  BY <1>2
<1>4. TotalLength(list) = h[Len(list)]
  BY DEF TotalLength
<1>5. \A i \in 0 .. Len(list) : h[i] = IF i = 0 THEN 0 ELSE h[i - 1] + Len(list[i].filter)
  BY <1>3
<1> HIDE DEF h, Solves
<1> DEFINE T == {n \in Nat : n <= Len(list) => h[n] = f[n]}
<1>6. 0 \in T
  BY <1>1, <1>5 DEF Totals
<1>7. ASSUME NEW n \in Nat, n \in T PROVE n + 1 \in T
  <2> SUFFICES ASSUME n + 1 <= Len(list) PROVE h[n + 1] = f[n + 1]
    OBVIOUS
  <2>1. PICK m \in 1 .. Len(list) : m = n + 1 /\ m - 1 = n
    BY <1>1
  <2>2. h[m] = h[n] + Len(list[m].filter)
    <3>1. m \in 0 .. Len(list) /\ m # 0
      BY <1>1
    <3>2. QED
      BY <1>5, <2>1, <3>1
  <2>3. f[m] = f[m - 1] + Len(list[m].filter)
    BY DEF Totals
  <2>4. h[n] = f[n]
    BY <1>1, <1>7, <2>1
  <2>5. QED
    BY <2>1, <2>2, <2>3, <2>4
<1> HIDE DEF T
<1>8. \A n \in Nat : n \in T
  BY <1>6, <1>7, Induction
<1>9. h[Len(list)] = f[Len(list)]
  <2>1. Len(list) \in T
    BY <1>1, <1>8
  <2>2. QED
    BY <1>1, <2>1 DEF T
<1>10. f[Len(list)] \in Nat
  BY <1>1 DEF Totals
<1>11. QED
  BY <1>4, <1>9, <1>10

-----------------------------------------------------------------------------
(* Sizes                                                                   *)

Fixed == {[kind |-> "FIXED", type |-> Type.PINGREQ], [kind |-> "FIXED", type |-> Type.DISCONNECT]}

(* The packet p has been measured, with the result s.                      *)
Measured(p, s) ==
    \/ p \in Connects /\ s = GetConnectPacketSize(p)
    \/ p \in Subscriptions /\ s = GetSubscriptionPacketSize(p.list, IF p.kind = "SUBSCRIBE" THEN 1 ELSE 0)
    \/ p \in Publishes /\ s = GetPublishPacketSize(p)
    \/ p \in Acks /\ s = [status |-> "Success", remaining |-> 2, packet |-> 4]
    \/ p \in Fixed /\ s = [status |-> "Success", remaining |-> 0, packet |-> 2]
    \/ /\ p \in Lengths /\ p.kind = "publish lengths"
       /\ s = CalculatePublishPacketSize(p.topic, p.payload, p.qos)
    \/ /\ p \in Lengths /\ p.kind = "subscription lengths"
       /\ s = CalculateSubscriptionPacketSize(p.count, p.total, p.qosSize, FALSE)

(* What every size call returns: a remaining length that has an encoding,  *)
(* and the size of the packet with that field.                             *)
GoodSizes(s) ==
    /\ s.remaining \in 0 .. MaxRemainingLength
    /\ s.status = "Success" => s.packet = PacketSize(s.remaining)
    /\ s.status \in {"Success", "BadParameter"}

(* What a size call returns for a remaining length that has an encoding.   *)
LEMMA SizedIsGood ==
    ASSUME NEW n \in Nat, n <= MaxRemainingLength
    PROVE  GoodSizes(Sized(n)) /\ Sized(n).status = "Success" /\ Sized(n).remaining = n
<1>1. n \in 0 .. MaxRemainingLength
  BY LargestLength
<1>2. QED
  BY <1>1 DEF GoodSizes, Sized

(* What it returns when it refuses.                                        *)
LEMMA RefusedIsGood ==
    GoodSizes(SizeRefused("BadParameter")) /\ SizeRefused("BadParameter").status = "BadParameter"
<1>1. 0 \in 0 .. MaxRemainingLength
  BY LargestLength
<1>2. QED
  BY <1>1 DEF GoodSizes, SizeRefused

PublishRemaining(topic, payload, qos) == topic + 2 + (IF qos > 0 THEN 2 ELSE 0) + payload
SubscriptionRemaining(count, total, qosSize) == 2 + total + count * (2 + qosSize)

(* A publish is refused exactly when the whole packet would be longer than *)
(* the largest remaining length.                                           *)
LEMMA PublishSizes ==
    ASSUME NEW topic \in Nat, NEW payload \in Nat, NEW qos \in QoS
    PROVE  /\ PublishRemaining(topic, payload, qos) \in Nat
           /\ PacketSize(PublishRemaining(topic, payload, qos)) <= MaxRemainingLength =>
                 /\ PublishRemaining(topic, payload, qos) <= MaxRemainingLength
                 /\ CalculatePublishPacketSize(topic, payload, qos) = Sized(PublishRemaining(topic, payload, qos))
           /\ ~ (PacketSize(PublishRemaining(topic, payload, qos)) <= MaxRemainingLength) =>
                 CalculatePublishPacketSize(topic, payload, qos) = SizeRefused("BadParameter")
<1>1. PICK header \in Nat : header = topic + 2 + (IF qos > 0 THEN 2 ELSE 0)
  BY DEF QoS
<1>2. PICK n \in Nat : n = PublishRemaining(topic, payload, qos) /\ n = header + payload
  BY <1>1 DEF PublishRemaining
<1>3. PICK size \in Nat : size = EncodedSize(n) /\ size >= 1
  BY SMT, <1>2 DEF EncodedSize
<1>4. PICK max \in Nat : max = MaxRemainingLength
  BY LargestLength
<1>5. PacketSize(n) = 1 + size + n
  BY <1>3 DEF PacketSize
<1>6. CalculatePublishPacketSize(topic, payload, qos) =
          IF payload > max - header - 1 THEN SizeRefused("BadParameter")
          ELSE IF payload > (max - header - 1) - size THEN SizeRefused("BadParameter")
          ELSE Sized(n)
  BY <1>1, <1>2, <1>3, <1>4 DEF CalculatePublishPacketSize
<1>7. CASE 1 + size + n <= max
  <2>1. ~ (payload > max - header - 1) /\ ~ (payload > (max - header - 1) - size) /\ n <= max
    BY <1>2, <1>3, <1>4, <1>7
  <2>2. QED
    BY <1>2, <1>4, <1>5, <1>6, <1>7, <2>1
<1>8. CASE ~ (1 + size + n <= max)
  <2>1. payload > max - header - 1 \/ payload > (max - header - 1) - size
    BY <1>2, <1>3, <1>4, <1>8
  <2>2. QED
    BY <1>2, <1>4, <1>5, <1>6, <1>8, <2>1
<1>9. QED
  BY <1>7, <1>8

(* Subscriptions are refused exactly when their remaining length has no    *)
(* encoding or a filter is empty.                                          *)
LEMMA SubscriptionSizes ==
    ASSUME NEW count \in Nat, NEW total \in Nat, NEW qosSize \in {0, 1}, NEW empty \in BOOLEAN
    PROVE  /\ SubscriptionRemaining(count, total, qosSize) \in Nat
           /\ SubscriptionRemaining(count, total, qosSize) <= MaxRemainingLength /\ ~ empty =>
                 CalculateSubscriptionPacketSize(count, total, qosSize, empty)
                     = Sized(SubscriptionRemaining(count, total, qosSize))
           /\ ~ (SubscriptionRemaining(count, total, qosSize) <= MaxRemainingLength) \/ empty =>
                 CalculateSubscriptionPacketSize(count, total, qosSize, empty) = SizeRefused("BadParameter")
<1>1. PICK n \in Nat : n = 2 + total + count * (2 + qosSize)
  <2>1. CASE qosSize = 0
    BY <2>1
  <2>2. CASE qosSize = 1
    BY <2>2
  <2>3. QED
    BY <2>1, <2>2
<1>2. n = SubscriptionRemaining(count, total, qosSize)
  BY <1>1 DEF SubscriptionRemaining
<1>3. n > MaxRemainingLength <=> ~ (n <= MaxRemainingLength)
  BY LargestLength
<1>4. CalculateSubscriptionPacketSize(count, total, qosSize, empty) =
          IF empty \/ n > MaxRemainingLength THEN SizeRefused("BadParameter") ELSE Sized(n)
  BY <1>1 DEF CalculateSubscriptionPacketSize
<1>5. QED
  BY <1>2, <1>3, <1>4

(* The length of a string that may be in a packet.                         *)
LEMMA StringLength ==
    ASSUME NEW s \in String16
    PROVE  s \in Seq(Byte) /\ Len(s) \in Nat /\ Len(s) <= 65535
BY SMT DEF String16

(* What may be NULL is there once or not at all.                           *)
LEMMA LengthOfOptional ==
    ASSUME NEW S, NEW option \in Optional(S)
    PROVE  option = <<>> \/ (Len(option) = 1 /\ option = <<option[1]>> /\ option[1] \in S)
<1>1. option \in Seq(S) /\ Len(option) <= 1
  BY DEF Optional
<1>2. CASE Len(option) = 0
  BY <1>1, <1>2, EmptySeq
<1>3. CASE Len(option) = 1
  <2>1. option[1] \in S
    BY <1>1, <1>3, ElementOfSeq
  <2>2. option = <<option[1]>>
    BY <1>1, <1>3
  <2>3. QED
    BY <1>3, <2>1, <2>2
<1>4. Len(option) = 0 \/ Len(option) = 1
  <2>1. PICK n \in Nat : n = Len(option)
    BY <1>1, LenProperties
  <2>2. n <= 1
    BY <1>1, <2>1
  <2>3. n = 0 \/ n = 1
    BY <2>2
  <2>4. QED
    BY <2>1, <2>3
<1>5. QED
  BY <1>2, <1>3, <1>4

(* What an optional string adds to a CONNECT.                              *)
LEMMA OptionalSizes ==
    ASSUME NEW option \in Optional(String16)
    PROVE  OptionalSize(option) \in Nat /\ OptionalSize(option) <= 65537
<1>1. CASE option = <<>>
  BY SMT, <1>1 DEF OptionalSize
<1>2. CASE option # <<>>
  <2>1. option[1] \in String16
    BY <1>2, LengthOfOptional
  <2>2. Len(option[1]) \in Nat /\ Len(option[1]) <= 65535
    BY <2>1, StringLength
  <2>3. OptionalSize(option) = Len(option[1]) + 2
    BY <1>2 DEF OptionalSize
  <2>4. QED
    BY SMT, <2>2, <2>3
<1>3. QED
  BY <1>1, <1>2

(* The will of a CONNECT whose size has been given.                        *)
WillFits(connect) == connect.will # <<>> => connect.will[1].payload \in String16

(* MQTT_GetConnectPacketSize gives an encodable length without looking:    *)
(* the fields of 16 bits cannot add up to more.                            *)
LEMMA ConnectSizes ==
    ASSUME NEW connect \in Connect, NEW s, s = GetConnectPacketSize(connect)
    PROVE  /\ GoodSizes(s)
           /\ s.status = "Success" =>
                 /\ WillFits(connect) /\ ConnectRemaining(connect) \in 0 .. MaxRemainingLength
                 /\ s = Sized(ConnectRemaining(connect))
<1>1. CASE \/ connect.clientId = <<>>
           \/ connect.will # <<>> /\ Len(connect.will[1].payload) > 65535
  <2>1. s = SizeRefused("BadParameter")
    BY SMT, <1>1 DEF GetConnectPacketSize
  <2>2. QED
    BY <2>1, RefusedIsGood
<1>2. CASE ~ \/ connect.clientId = <<>>
             \/ connect.will # <<>> /\ Len(connect.will[1].payload) > 65535
  <2> DEFINE willSize == IF connect.will = <<>> THEN 0
                         ELSE Len(connect.will[1].topic) + 2 + Len(connect.will[1].payload) + 2
             n == ConnectRemaining(connect)
  <2>1. s = Sized(n)
    BY SMT, <1>2 DEF GetConnectPacketSize
  <2>2. /\ connect.clientId \in String16 /\ connect.will \in Optional(Will)
        /\ connect.userName \in Optional(String16) /\ connect.password \in Optional(String16)
    BY DEF Connect
  <2>3. connect.will # <<>> => connect.will[1].topic \in String16 /\ connect.will[1].payload \in Seq(Byte)
    <3>1. connect.will # <<>> => connect.will[1] \in Will
      BY <2>2, LengthOfOptional
    <3>2. QED
      BY <3>1 DEF Will
  <2>4. WillFits(connect)
    BY SMT, <1>2, <2>3 DEF WillFits, String16
  <2>5. willSize \in Nat /\ willSize <= 131074
    <3>1. CASE connect.will = <<>>
      BY SMT, <3>1
    <3>2. CASE connect.will # <<>>
      <4>1. /\ Len(connect.will[1].topic) \in Nat /\ Len(connect.will[1].topic) <= 65535
            /\ Len(connect.will[1].payload) \in Nat /\ Len(connect.will[1].payload) <= 65535
        BY <2>3, <2>4, <3>2, StringLength DEF WillFits
      <4>2. PICK t \in Nat, w \in Nat : t = Len(connect.will[1].topic) /\ w = Len(connect.will[1].payload)
        BY <4>1
      <4>3. willSize = t + 2 + w + 2
        BY <3>2, <4>2
      <4>4. t <= 65535 /\ w <= 65535
        BY <4>1, <4>2
      <4> HIDE DEF willSize
      <4>5. QED
        BY SMT, <4>3, <4>4
    <3> HIDE DEF willSize
    <3>3. QED
      BY SMT, <3>1, <3>2
  <2>6. n = 10 + Len(connect.clientId) + 2 + willSize
            + OptionalSize(connect.userName) + OptionalSize(connect.password)
    BY DEF ConnectRemaining
  <2>7. /\ OptionalSize(connect.userName) \in Nat /\ OptionalSize(connect.userName) <= 65537
        /\ OptionalSize(connect.password) \in Nat /\ OptionalSize(connect.password) <= 65537
        /\ Len(connect.clientId) \in Nat /\ Len(connect.clientId) <= 65535
    BY <2>2, OptionalSizes, StringLength
  <2> HIDE DEF n, willSize
  <2>8. n \in Nat /\ n <= 327695
    BY SMT, <2>5, <2>6, <2>7
  <2>9. n <= MaxRemainingLength
    BY SMT, <2>8 DEF MaxRemainingLength
  <2>10. n \in 0 .. MaxRemainingLength
    BY <2>8, <2>9, LargestLength
  <2>11. GoodSizes(s)
    BY <2>1, <2>8, <2>9, SizedIsGood
  <2>12. QED
    BY <2>1, <2>4, <2>10, <2>11 DEF n
<1>3. QED
  BY <1>1, <1>2

(* MQTT_GetSubscribePacketSize and its counterpart, on a list of filters.  *)
LEMMA SubscriptionListSizes ==
    ASSUME NEW list \in Seq(Filter), NEW qosSize \in {0, 1}, NEW s,
           s = GetSubscriptionPacketSize(list, qosSize)
    PROVE  /\ GoodSizes(s)
           /\ s.status = "Success" =>
                 /\ list # <<>> /\ TotalLength(list) \in Nat
                 /\ s = Sized(SubscriptionRemaining(Len(list), TotalLength(list), qosSize))
<1>1. CASE list = <<>>
  <2>1. s = SizeRefused("BadParameter")
    BY <1>1 DEF GetSubscriptionPacketSize
  <2>2. QED
    BY <2>1, RefusedIsGood
<1>2. CASE list # <<>>
  <2>1. PICK f : Totals(list, f)
    BY TotalsExist
  <2>2. TotalLength(list) \in Nat /\ Len(list) \in Nat
    BY <2>1, TotalIs
  <2>3. PICK empty \in BOOLEAN : empty = (\E i \in DOMAIN list : list[i].filter = <<>>)
    OBVIOUS
  <2>4. PICK n : n = SubscriptionRemaining(Len(list), TotalLength(list), qosSize)
    OBVIOUS
  <2>5. s = CalculateSubscriptionPacketSize(Len(list), TotalLength(list), qosSize, empty)
    BY <1>2, <2>3 DEF GetSubscriptionPacketSize
  <2>6. /\ n \in Nat
        /\ n <= MaxRemainingLength /\ ~ empty => s = Sized(n)
        /\ ~ (n <= MaxRemainingLength) \/ empty => s = SizeRefused("BadParameter")
    BY <2>2, <2>4, <2>5, SubscriptionSizes
  <2>7. CASE n <= MaxRemainingLength /\ ~ empty
    BY <1>2, <2>2, <2>4, <2>6, <2>7, SizedIsGood
  <2>8. CASE ~ (n <= MaxRemainingLength) \/ empty
    BY <2>6, <2>8, RefusedIsGood
  <2>9. QED
    BY <2>7, <2>8
<1>3. QED
  BY <1>1, <1>2

(* MQTT_GetPublishPacketSize, on a publish.                                *)
LEMMA PublishSizesGood ==
    ASSUME NEW topic \in Nat, NEW payload \in Nat, NEW qos \in QoS,
           NEW s, s = CalculatePublishPacketSize(topic, payload, qos)
    PROVE  /\ GoodSizes(s)
           /\ s.status = "Success" =>
                 s = Sized(PublishRemaining(topic, payload, qos))
<1>1. PICK n : n = PublishRemaining(topic, payload, qos)
  OBVIOUS
<1>2. /\ n \in Nat
      /\ PacketSize(n) <= MaxRemainingLength => n <= MaxRemainingLength /\ s = Sized(n)
      /\ ~ (PacketSize(n) <= MaxRemainingLength) => s = SizeRefused("BadParameter")
  BY <1>1, PublishSizes
<1>3. CASE PacketSize(n) <= MaxRemainingLength
  BY <1>1, <1>2, <1>3, SizedIsGood
<1>4. CASE ~ (PacketSize(n) <= MaxRemainingLength)
  BY <1>2, <1>4, RefusedIsGood
<1>5. QED
  BY <1>3, <1>4

(* Every size call returns good sizes.                                     *)
LEMMA MeasuredIsGood ==
    ASSUME NEW p, NEW s, Measured(p, s)
    PROVE  GoodSizes(s)
<1>1. CASE p \in Connects /\ s = GetConnectPacketSize(p)
  BY <1>1, ConnectSizes, PacketsAssumption
<1>2. CASE p \in Subscriptions /\ s = GetSubscriptionPacketSize(p.list, IF p.kind = "SUBSCRIBE" THEN 1 ELSE 0)
  <2>1. PICK q \in {0, 1} : q = IF p.kind = "SUBSCRIBE" THEN 1 ELSE 0
    OBVIOUS
  <2>2. p.list \in Seq(Filter)
    BY <1>2, PacketsAssumption DEF Subscription, Filter
  <2>3. QED
    BY <1>2, <2>1, <2>2, SubscriptionListSizes
<1>3. CASE p \in Publishes /\ s = GetPublishPacketSize(p)
  <2>1. p.topic \in String16 /\ p.payload \in Seq(Byte) /\ p.qos \in QoS
    BY <1>3, PacketsAssumption DEF Publish
  <2>2. Len(p.topic) \in Nat /\ Len(p.payload) \in Nat
    BY <2>1, StringLength
  <2>3. s = SizeRefused("BadParameter") \/ s = CalculatePublishPacketSize(Len(p.topic), Len(p.payload), p.qos)
    BY <1>3 DEF GetPublishPacketSize
  <2>4. QED
    BY <2>1, <2>2, <2>3, PublishSizesGood, RefusedIsGood
<1>4. CASE p \in Acks /\ s = [status |-> "Success", remaining |-> 2, packet |-> 4]
  <2>1. EncodedSize(2) = 1
    BY SMT DEF EncodedSize
  <2>2. 2 \in 0 .. MaxRemainingLength
    BY LargestLength
  <2>3. QED
    BY <1>4, <2>1, <2>2 DEF GoodSizes, PacketSize
<1>5. CASE p \in Fixed /\ s = [status |-> "Success", remaining |-> 0, packet |-> 2]
  <2>1. EncodedSize(0) = 1
    BY SMT DEF EncodedSize
  <2>2. 0 \in 0 .. MaxRemainingLength
    BY LargestLength
  <2>3. QED
    BY <1>5, <2>1, <2>2 DEF GoodSizes, PacketSize
<1>6. CASE /\ p \in Lengths /\ p.kind = "publish lengths"
           /\ s = CalculatePublishPacketSize(p.topic, p.payload, p.qos)
  <2>1. p \in PublishLengths
    BY <1>6, PacketsAssumption DEF SubscriptionLengths
  <2>2. p.topic \in UINT16 /\ p.payload \in Nat /\ p.qos \in QoS
    BY <2>1 DEF PublishLengths
  <2>3. p.topic \in Nat
    BY SMT, <2>2 DEF UINT16
  <2>4. QED
    BY <1>6, <2>2, <2>3, PublishSizesGood
<1>7. CASE /\ p \in Lengths /\ p.kind = "subscription lengths"
           /\ s = CalculateSubscriptionPacketSize(p.count, p.total, p.qosSize, FALSE)
  <2>1. p \in SubscriptionLengths
    BY <1>7, PacketsAssumption DEF PublishLengths
  <2>2. p.count \in Nat /\ p.total \in Nat /\ p.qosSize \in {0, 1}
    BY <2>1 DEF SubscriptionLengths
  <2>3. PICK n : n = SubscriptionRemaining(p.count, p.total, p.qosSize)
    OBVIOUS
  <2>4. /\ n \in Nat
        /\ n <= MaxRemainingLength => s = Sized(n)
        /\ ~ (n <= MaxRemainingLength) => s = SizeRefused("BadParameter")
    BY <1>7, <2>2, <2>3, SubscriptionSizes
  <2>5. QED
    BY <2>4, SizedIsGood, RefusedIsGood
<1>8. QED
  BY <1>1, <1>2, <1>3, <1>4, <1>5, <1>6, <1>7 DEF Measured

-----------------------------------------------------------------------------
(* Bytes                                                                   *)

(* The strings of a CONNECT, one after another.                            *)
LEMMA EncodedOption ==
    ASSUME NEW ss \in Seq(String16), NEW option \in Optional(String16)
    PROVE  /\ ss \o option \in Seq(String16)
           /\ EncodeStrings(ss \o option) \in Seq(Byte)
           /\ Len(EncodeStrings(ss \o option)) = Len(EncodeStrings(ss)) + OptionalSize(option)
<1>1. EncodeStrings(ss) \in Seq(Byte)
  <2>1. <<>> \in String16
    BY SMT DEF String16
  <2>2. QED
    BY <2>1, EncodedAppend
<1>2. Len(EncodeStrings(ss)) \in Nat
  BY <1>1, LenProperties
<1>3. CASE option = <<>>
  <2>1. ss \o option = ss
    BY <1>3, JoinedEmpty
  <2>2. OptionalSize(option) = 0
    BY <1>3 DEF OptionalSize
  <2>3. QED
    BY <1>1, <1>2, <2>1, <2>2
<1>4. CASE option # <<>>
  <2>1. PICK s \in String16 : s = option[1] /\ option = <<s>>
    BY <1>4, LengthOfOptional
  <2>2. ss \o option = Append(ss, s)
    BY <2>1
  <2>3. Append(ss, s) \in Seq(String16)
    BY AppendProperties
  <2>4. EncodeStrings(Append(ss, s)) = EncodeStrings(ss) \o EncodeString(s)
    BY EncodedAppend
  <2>5. PICK all \in Seq(Byte), one \in Seq(Byte) :
            all = EncodeStrings(ss) /\ one = EncodeString(s) /\ Len(one) = 2 + Len(s)
    BY <1>1, EncodedString
  <2>6. all \o one \in Seq(Byte) /\ Len(all \o one) = Len(all) + Len(one)
    BY Joined
  <2>7. OptionalSize(option) = 2 + Len(s)
    <3>1. Len(s) \in Nat
      BY StringLength
    <3>2. QED
      BY <1>4, <2>1, <3>1 DEF OptionalSize
  <2>8. QED
    BY <2>2, <2>3, <2>4, <2>5, <2>6, <2>7
<1>5. QED
  BY <1>3, <1>4

(* The flags of a CONNECT are a byte.                                      *)
LEMMA ConnectFlagsByte ==
    ASSUME NEW connect \in Connect
    PROVE  ConnectFlags(connect) \in Byte
<1> DEFINE willBits == IF connect.will = <<>> THEN 0
                       ELSE 4 + 8 * connect.will[1].qos + Bit(connect.will[1].retain, 32)
<1>1. willBits \in Nat /\ willBits <= 52
  <2>1. CASE connect.will = <<>>
    BY <2>1
  <2>2. CASE connect.will # <<>>
    <3>1. connect.will[1] \in Will
      BY <2>2, LengthOfOptional DEF Connect
    <3>2. PICK q \in 0 .. 2 : q = connect.will[1].qos
      BY <3>1 DEF Will, QoS
    <3>3. PICK r \in {0, 32} : r = Bit(connect.will[1].retain, 32)
      BY DEF Bit
    <3>4. willBits = 4 + 8 * q + r
      BY <2>2, <3>2, <3>3
    <3> HIDE DEF willBits
    <3>5. QED
      BY <3>4
  <2>3. QED
    BY <2>1, <2>2
<1>2. PICK c \in {0, 2}, u \in {0, 128}, p \in {0, 64} :
          /\ c = Bit(connect.cleanSession, 2)
          /\ u = Bit(connect.userName # <<>>, 128) /\ p = Bit(connect.password # <<>>, 64)
  BY DEF Bit
<1>3. ConnectFlags(connect) = c + u + p + willBits
  BY <1>2 DEF ConnectFlags
<1> HIDE DEF willBits
<1>4. c + u + p + willBits \in Nat /\ c + u + p + willBits < 256
  BY <1>1
<1>5. QED
  BY <1>3, <1>4 DEF Byte

(* A CONNECT without its fixed header is as long as ConnectRemaining says. *)
LEMMA ConnectLength ==
    ASSUME NEW connect \in Connect, WillFits(connect),
           ConnectRemaining(connect) \in 0 .. MaxRemainingLength
    PROVE  /\ ConnectBytes(connect, ConnectRemaining(connect)) \in Seq(Byte)
           /\ Len(ConnectBytes(connect, ConnectRemaining(connect))) = PacketSize(ConnectRemaining(connect))
<1> DEFINE will == IF connect.will = <<>> THEN <<>>
                   ELSE <<connect.will[1].topic, connect.will[1].payload>>
           willSize == IF connect.will = <<>> THEN 0
                       ELSE Len(connect.will[1].topic) + 2 + Len(connect.will[1].payload) + 2
           first == <<connect.clientId>> \o will
           second == first \o connect.userName
           third == second \o connect.password
<1>1. /\ connect.clientId \in String16 /\ connect.will \in Optional(Will)
      /\ connect.userName \in Optional(String16) /\ connect.password \in Optional(String16)
      /\ connect.keepAlive \in UINT16
  BY DEF Connect
<1>2. PICK id : id = connect.clientId /\ id \in String16 /\ Len(id) \in Nat
  BY <1>1, StringLength
<1>3. /\ <<id>> \in Seq(String16) /\ EncodeStrings(<<id>>) \in Seq(Byte)
      /\ Len(EncodeStrings(<<id>>)) = 2 + Len(id)
  <2>1. <<>> \in Seq(String16) /\ Len(<<>>) = 0 /\ Append(<<>>, id) = <<id>>
    OBVIOUS
  <2>2. EncodeStrings(<<>>) = <<>>
    <3>1. [i \in DOMAIN <<>> |-> EncodeString(<<>>[i])] = <<>>
      BY <2>1
    <3>2. QED
      BY <2>1, <3>1 DEF EncodeStrings, FlattenSeq
  <2>3. EncodeStrings(<<id>>) = <<>> \o EncodeString(id)
    BY <1>2, <2>1, <2>2, EncodedAppend
  <2>4. EncodeString(id) \in Seq(Byte) /\ Len(EncodeString(id)) = 2 + Len(id)
    BY <1>2, EncodedString
  <2>5. QED
    BY <1>2, <2>3, <2>4, JoinedEmpty
<1>4. /\ first \in Seq(String16) /\ EncodeStrings(first) \in Seq(Byte)
      /\ Len(EncodeStrings(first)) = 2 + Len(id) + willSize
      /\ willSize \in Nat
  <2>1. CASE connect.will = <<>>
    <3>1. first = <<id>> /\ willSize = 0
      BY <1>2, <1>3, <2>1, JoinedEmpty
    <3> HIDE DEF first, willSize
    <3>2. QED
      BY <1>2, <1>3, <3>1
  <2>2. CASE connect.will # <<>>
    <3>1. connect.will[1] \in Will
      BY <1>1, <2>2, LengthOfOptional
    <3>2. PICK t \in String16, w \in String16 : t = connect.will[1].topic /\ w = connect.will[1].payload
      BY <2>2, <3>1 DEF Will, WillFits
    <3>3. Len(t) \in Nat /\ Len(w) \in Nat
      BY StringLength
    <3>4. first = <<id>> \o <<t, w>> /\ willSize = Len(t) + 2 + Len(w) + 2
      BY <1>2, <2>2, <3>2
    <3>5. first = (<<id>> \o <<t>>) \o <<w>>
      <4>1. <<id>> \o <<t, w>> = (<<id>> \o <<t>>) \o <<w>>
        <5>1. PICK s \in Seq(String16) : s = <<id>>
          BY <1>3
        <5>2. s \o <<t, w>> = (s \o <<t>>) \o <<w>>
          BY JoinedPair
        <5>3. QED
          BY <5>1, <5>2
      <4>2. QED
        BY <3>4, <4>1
    <3> HIDE DEF first, willSize
    <3>6. /\ <<t>> \in Optional(String16) /\ <<w>> \in Optional(String16)
      BY DEF Optional
    <3>7. OptionalSize(<<t>>) = Len(t) + 2 /\ OptionalSize(<<w>>) = Len(w) + 2
      BY DEF OptionalSize
    <3>8. PICK ss \in Seq(String16) : ss = <<id>> \o <<t>> /\ EncodeStrings(ss) \in Seq(Byte)
                                      /\ Len(EncodeStrings(ss)) = Len(EncodeStrings(<<id>>)) + OptionalSize(<<t>>)
      <4>1. /\ <<id>> \o <<t>> \in Seq(String16)
            /\ EncodeStrings(<<id>> \o <<t>>) \in Seq(Byte)
            /\ Len(EncodeStrings(<<id>> \o <<t>>)) = Len(EncodeStrings(<<id>>)) + OptionalSize(<<t>>)
        BY <1>3, <3>6, EncodedOption
      <4>2. QED
        BY <4>1
    <3>9. /\ first \in Seq(String16) /\ EncodeStrings(first) \in Seq(Byte)
          /\ Len(EncodeStrings(first)) = Len(EncodeStrings(ss)) + OptionalSize(<<w>>)
      BY <3>5, <3>6, <3>8, EncodedOption
    <3>10. PICK i \in Nat, j \in Nat, k \in Nat : i = Len(id) /\ j = Len(t) /\ k = Len(w)
      BY <1>2, <3>3
    <3>11. Len(EncodeStrings(first)) = ((2 + i) + (j + 2)) + (k + 2) /\ willSize = j + 2 + k + 2
      BY <1>3, <3>4, <3>7, <3>8, <3>9, <3>10
    <3>12. ((2 + i) + (j + 2)) + (k + 2) = 2 + i + (j + 2 + k + 2) /\ j + 2 + k + 2 \in Nat
      OBVIOUS
    <3>13. Len(EncodeStrings(first)) = 2 + Len(id) + willSize /\ willSize \in Nat
      BY <3>10, <3>11, <3>12
    <3>14. QED
      BY <3>9, <3>13
  <2>3. QED
    BY <2>1, <2>2
<1> HIDE DEF first, willSize, will
<1>5. PICK u \in Nat, p \in Nat : u = OptionalSize(connect.userName) /\ p = OptionalSize(connect.password)
  BY <1>1, OptionalSizes
<1>6. /\ second \in Seq(String16) /\ EncodeStrings(second) \in Seq(Byte)
      /\ Len(EncodeStrings(second)) = Len(EncodeStrings(first)) + u
  BY <1>1, <1>4, <1>5, EncodedOption
<1> HIDE DEF second
<1>7. /\ EncodeStrings(third) \in Seq(Byte)
      /\ Len(EncodeStrings(third)) = Len(EncodeStrings(second)) + p
  BY <1>1, <1>5, <1>6, EncodedOption
<1> HIDE DEF third
<1>8. PICK n \in Nat : n = ConnectRemaining(connect) /\ n \in 0 .. MaxRemainingLength
  BY LargestLength
<1>9. n = 12 + Len(id) + willSize + u + p
  <2>1. n = 10 + Len(connect.clientId) + 2 + willSize
            + OptionalSize(connect.userName) + OptionalSize(connect.password)
    BY <1>8 DEF ConnectRemaining, willSize
  <2>2. n = 10 + Len(id) + 2 + willSize + u + p
    BY <1>2, <1>5, <2>1
  <2>3. QED
    BY <1>2, <1>4, <2>2
<1>10. PICK header \in Seq(Byte) : header = FixedHeader(Type.CONNECT, n) /\ Len(header) + n = PacketSize(n)
  <2>1. Type.CONNECT \in Byte
    BY SMT DEF Type, Byte
  <2>2. QED
    BY <1>8, <2>1, FixedHeaderLength
<1>11. PICK name \in Seq(Byte) : name = EncodeString(<<77, 81, 84, 84>>) /\ Len(name) = 6
  <2>1. <<77, 81, 84, 84>> \in Seq(Byte) /\ Len(<<77, 81, 84, 84>>) = 4
    BY SMT DEF Byte
  <2>2. <<77, 81, 84, 84>> \in String16
    BY SMT, <2>1 DEF String16
  <2>3. PICK s \in String16 : s = <<77, 81, 84, 84>> /\ Len(s) = 4
    BY <2>1, <2>2
  <2>4. EncodeString(s) \in Seq(Byte) /\ Len(EncodeString(s)) = 2 + Len(s)
    BY EncodedString
  <2>5. QED
    BY <2>3, <2>4
<1>12. PICK flags \in Seq(Byte) : flags = <<4, ConnectFlags(connect)>> /\ Len(flags) = 2
  <2>1. PICK v \in Byte, f \in Byte : v = 4 /\ f = ConnectFlags(connect)
    <3>1. 4 \in Byte
      BY SMT DEF Byte
    <3>2. QED
      BY <3>1, ConnectFlagsByte
  <2>2. <<v, f>> \in Seq(Byte) /\ Len(<<v, f>>) = 2
    OBVIOUS
  <2>3. QED
    BY <2>1, <2>2
<1>13. PICK keep \in Seq(Byte) : keep = Encode16(connect.keepAlive) /\ Len(keep) = 2
  BY <1>1, Encoded16
<1>14. PICK strings \in Seq(Byte) : strings = EncodeStrings(third) /\ Len(strings) = 2 + Len(id) + willSize + u + p
  BY <1>2, <1>4, <1>6, <1>7
<1>15. ConnectBytes(connect, n) = header \o name \o flags \o keep \o strings
  BY <1>10, <1>11, <1>12, <1>13, <1>14 DEF ConnectBytes, third, second, first, will
<1>16. PICK a \in Seq(Byte) : a = header \o name /\ Len(a) = Len(header) + Len(name)
  BY Joined
<1>17. PICK b \in Seq(Byte) : b = a \o flags /\ Len(b) = Len(a) + Len(flags)
  BY Joined
<1>18. PICK c \in Seq(Byte) : c = b \o keep /\ Len(c) = Len(b) + Len(keep)
  BY Joined
<1>19. c \o strings \in Seq(Byte) /\ Len(c \o strings) = Len(c) + Len(strings)
  BY Joined
<1>20. ConnectBytes(connect, n) \in Seq(Byte) /\ Len(ConnectBytes(connect, n)) = Len(c) + Len(strings)
  BY <1>15, <1>16, <1>17, <1>18, <1>19
<1>21. Len(header) \in Nat /\ Len(id) \in Nat
  BY <1>2, LenProperties
<1>22. Len(c) + Len(strings) = Len(header) + n
  <2>1. PICK h \in Nat, l \in Nat, v \in Nat : h = Len(header) /\ l = Len(id) /\ v = willSize
    BY <1>4, <1>21
  <2>2. n = 12 + l + v + u + p /\ Len(strings) = 2 + l + v + u + p
    BY <1>9, <1>14, <2>1
  <2>3. Len(c) = h + 10
    <3>1. Len(a) = h + 6
      BY <1>11, <1>16, <2>1
    <3>2. Len(b) = h + 6 + 2
      BY <1>12, <1>17, <3>1
    <3>3. Len(c) = h + 6 + 2 + 2
      BY <1>13, <1>18, <3>2
    <3>4. QED
      BY <3>3
  <2>4. (h + 10) + (2 + l + v + u + p) = h + (12 + l + v + u + p)
    OBVIOUS
  <2>5. QED
    BY <2>1, <2>2, <2>3, <2>4
<1>23. QED
  BY <1>8, <1>10, <1>20, <1>22

(* The parts that a list of filters is written in.                         *)
LEMMA PartsLength ==
    ASSUME NEW list \in Seq(Filter), NEW qosSize \in {0, 1}, NEW parts \in Seq(Seq(Byte)),
           Len(parts) = Len(list),
           \A i \in 1 .. Len(list) : Len(parts[i]) = Len(list[i].filter) + 2 + qosSize
    PROVE  /\ FlattenSeq(parts) \in Seq(Byte)
           /\ Len(FlattenSeq(parts)) + 2 = SubscriptionRemaining(Len(list), TotalLength(list), qosSize)
<1>1. PICK f : Totals(list, f)
  BY TotalsExist
<1>2. /\ f \in [0 .. Len(list) -> Nat] /\ f[0] = 0
      /\ \A i \in 1 .. Len(list) : f[i] = f[i - 1] + Len(list[i].filter)
  BY <1>1 DEF Totals
<1>3. TotalLength(list) = f[Len(list)]
  BY <1>1, TotalIs
<1>4. PICK n \in Nat : n = Len(list)
  BY LenProperties
<1>5. PICK unit \in {2, 3} : unit = 2 + qosSize
  OBVIOUS
<1> DEFINE times(i) == i * unit
<1>6. /\ times(0) = 0
      /\ \A i \in Nat : times(i) \in Nat /\ times(i + 1) = times(i) + unit
  <2>1. CASE unit = 2
    BY <2>1
  <2>2. CASE unit = 3
    BY <2>2
  <2>3. QED
    BY <2>1, <2>2
<1>7. n * (2 + qosSize) = times(n)
  BY <1>5
<1> HIDE DEF times
<1> DEFINE g == [i \in 0 .. n |-> f[i] + times(i)]
<1>8. g \in [0 .. n -> Nat] /\ g[0] = 0
  <2>1. \A i \in 0 .. n : f[i] + times(i) \in Nat
    <3> SUFFICES ASSUME NEW i \in 0 .. n PROVE f[i] + times(i) \in Nat
      OBVIOUS
    <3>1. f[i] \in Nat
      BY <1>2, <1>4
    <3>2. i \in Nat
      OBVIOUS
    <3>3. times(i) \in Nat
      BY <1>6, <3>2
    <3>4. QED
      BY <3>1, <3>3
  <2>2. g \in [0 .. n -> Nat]
    BY <2>1
  <2>3. g[0] = f[0] + times(0)
    OBVIOUS
  <2>4. f[0] + times(0) = 0
    BY <1>2, <1>6
  <2>5. QED
    BY <2>2, <2>3, <2>4
<1>9. ASSUME NEW i \in 1 .. n PROVE g[i] = g[i - 1] + Len(parts[i])
  <2>1. PICK k \in Nat : i = k + 1 /\ i - 1 = k /\ k \in 0 .. n /\ i \in 0 .. n
    BY <1>4
  <2>2. f[i] = f[k] + Len(list[i].filter)
    BY <1>2, <1>4, <2>1
  <2>3. times(i) = times(k) + unit /\ times(k) \in Nat
    BY <1>6, <2>1
  <2>4. PICK l \in Nat, t \in Nat, v \in Nat : l = Len(list[i].filter) /\ t = times(k) /\ v = f[k]
    <3>1. list[i] \in Filter
      BY <1>4, ElementOfSeq
    <3>2. Len(list[i].filter) \in Nat
      BY <3>1, StringLength DEF Filter
    <3>3. QED
      BY <1>2, <1>4, <2>1, <2>3, <3>2
  <2>5. Len(parts[i]) = l + 2 + qosSize
    BY <1>4, <2>4
  <2>6. Len(parts[i]) = l + unit
    BY <1>5, <2>5
  <2>7. g[i] = (v + l) + (t + unit) /\ g[i - 1] = v + t
    BY <2>1, <2>2, <2>3, <2>4
  <2>8. (v + l) + (t + unit) = (v + t) + (l + unit)
    OBVIOUS
  <2>9. QED
    BY <2>6, <2>7, <2>8
<1>10. Sums(parts, g)
  BY <1>4, <1>8, <1>9 DEF Sums
<1>11. g[Len(parts)] = f[n] + times(n) /\ f[n] \in Nat /\ times(n) \in Nat
  <2>1. n \in 0 .. n /\ Len(parts) = n
    BY <1>4
  <2>2. g[n] = f[n] + times(n)
    BY <2>1
  <2>3. f[n] \in Nat
    BY <1>2, <1>4, <2>1
  <2>4. QED
    BY <1>6, <2>1, <2>2, <2>3
<1> HIDE DEF g
<1>12. FlattenSeq(parts) \in Seq(Byte) /\ Len(FlattenSeq(parts)) = g[Len(parts)]
  BY <1>10, FlattenedLength
<1>13. SubscriptionRemaining(Len(list), TotalLength(list), qosSize) = 2 + f[n] + times(n)
  BY <1>3, <1>4, <1>7 DEF SubscriptionRemaining
<1>14. QED
  BY <1>11, <1>12, <1>13

(* The filters of a SUBSCRIBE with their QoS, as long as the size call has *)
(* said.                                                                   *)
LEMMA SubscribeParts ==
    ASSUME NEW list \in Seq(Filter), NEW bytesOf,
           bytesOf = FlattenSeq([i \in DOMAIN list |-> EncodeString(list[i].filter) \o <<list[i].qos>>])
    PROVE  /\ bytesOf \in Seq(Byte)
           /\ Len(bytesOf) + 2 = SubscriptionRemaining(Len(list), TotalLength(list), 1)
<1> DEFINE parts == [i \in DOMAIN list |-> EncodeString(list[i].filter) \o <<list[i].qos>>]
<1>1. ASSUME NEW i \in 1 .. Len(list)
      PROVE  /\ EncodeString(list[i].filter) \o <<list[i].qos>> \in Seq(Byte)
             /\ Len(EncodeString(list[i].filter) \o <<list[i].qos>>) = Len(list[i].filter) + 2 + 1
  <2>1. list[i] \in Filter
    BY ElementOfSeq
  <2>2. PICK s \in String16, q \in QoS : s = list[i].filter /\ q = list[i].qos
    BY <2>1 DEF Filter
  <2>3. PICK field \in Seq(Byte) : field = EncodeString(s) /\ Len(field) = 2 + Len(s)
    BY EncodedString
  <2>4. PICK b \in Byte : b = q
    BY SMT DEF QoS, Byte
  <2>5. PICK last \in Seq(Byte) : last = <<q>> /\ Len(last) = 1
    <3>1. <<b>> \in Seq(Byte) /\ Len(<<b>>) = 1
      OBVIOUS
    <3>2. QED
      BY <2>4, <3>1
  <2>6. field \o last \in Seq(Byte) /\ Len(field \o last) = Len(field) + Len(last)
    BY Joined
  <2>7. Len(s) \in Nat
    BY StringLength
  <2>8. QED
    BY <2>2, <2>3, <2>5, <2>6, <2>7
<1>2. DOMAIN list = 1 .. Len(list) /\ Len(list) \in Nat
  OBVIOUS
<1>3. parts \in Seq(Seq(Byte)) /\ Len(parts) = Len(list)
  BY <1>1, <1>2
<1>4. \A i \in 1 .. Len(list) : Len(parts[i]) = Len(list[i].filter) + 2 + 1
  BY <1>1, <1>2
<1>5. bytesOf = FlattenSeq(parts)
  OBVIOUS
<1> HIDE DEF parts
<1>6. QED
  BY <1>3, <1>4, <1>5, PartsLength

(* The filters of an UNSUBSCRIBE, as long as the size call has said.       *)
LEMMA UnsubscribeParts ==
    ASSUME NEW list \in Seq(Filter), NEW bytesOf,
           bytesOf = EncodeStrings([i \in DOMAIN list |-> list[i].filter])
    PROVE  /\ bytesOf \in Seq(Byte)
           /\ Len(bytesOf) + 2 = SubscriptionRemaining(Len(list), TotalLength(list), 0)
<1> DEFINE parts == [i \in DOMAIN list |-> EncodeString(list[i].filter)]
<1>1. ASSUME NEW i \in 1 .. Len(list)
      PROVE  /\ EncodeString(list[i].filter) \in Seq(Byte)
             /\ Len(EncodeString(list[i].filter)) = Len(list[i].filter) + 2 + 0
  <2>1. list[i] \in Filter
    BY ElementOfSeq
  <2>2. PICK s \in String16 : s = list[i].filter
    BY <2>1 DEF Filter
  <2>3. EncodeString(s) \in Seq(Byte) /\ Len(EncodeString(s)) = 2 + Len(s)
    BY EncodedString
  <2>4. Len(s) \in Nat
    BY StringLength
  <2>5. QED
    BY <2>2, <2>3, <2>4
<1>2. DOMAIN list = 1 .. Len(list) /\ Len(list) \in Nat
  OBVIOUS
<1>3. parts \in Seq(Seq(Byte)) /\ Len(parts) = Len(list)
  BY <1>1, <1>2
<1>4. \A i \in 1 .. Len(list) : Len(parts[i]) = Len(list[i].filter) + 2 + 0
  BY <1>1, <1>2
<1>5. bytesOf = FlattenSeq(parts)
  <2> DEFINE filters == [i \in DOMAIN list |-> list[i].filter]
  <2>1. [i \in DOMAIN filters |-> EncodeString(filters[i])] = parts
    OBVIOUS
  <2> HIDE DEF filters, parts
  <2>2. EncodeStrings(filters) = FlattenSeq(parts)
    BY <2>1 DEF EncodeStrings
  <2>3. QED
    BY <2>2 DEF filters
<1> HIDE DEF parts
<1>6. QED
  BY <1>3, <1>4, <1>5, PartsLength

(* A PUBLISH up to its payload, as long as the size call has said less     *)
(* that payload.                                                           *)
LEMMA PublishHeaderLength ==
    ASSUME NEW publish, NEW id \in UINT16, NEW n \in 0 .. MaxRemainingLength,
           publish.topic \in String16, publish.qos \in QoS, publish.retain \in BOOLEAN,
           publish.dup \in BOOLEAN, publish.payload \in Seq(Byte),
           n = PublishRemaining(Len(publish.topic), Len(publish.payload), publish.qos)
    PROVE  /\ PublishHeaderBytes(publish, id, n) \in Seq(Byte)
           /\ Len(PublishHeaderBytes(publish, id, n)) + Len(publish.payload) = PacketSize(n)
<1>1. Type.PUBLISH + PublishFlags(publish) \in Byte
  <2>1. PICK r \in {0, 1}, d \in {0, 8}, q \in 0 .. 2 :
            r = Bit(publish.retain, 1) /\ d = Bit(publish.dup, 8) /\ q = publish.qos
    BY DEF Bit, QoS
  <2>2. PublishFlags(publish) = r + 2 * q + d
    BY <2>1 DEF PublishFlags
  <2>3. Type.PUBLISH = 48
    BY DEF Type
  <2>4. 48 + (r + 2 * q + d) \in Nat /\ 48 + (r + 2 * q + d) < 256
    OBVIOUS
  <2>5. QED
    BY <2>2, <2>3, <2>4 DEF Byte
<1>2. PICK type \in Byte : type = Type.PUBLISH + PublishFlags(publish)
  BY <1>1
<1>3. PICK header \in Seq(Byte) : header = FixedHeader(type, n) /\ Len(header) + n = PacketSize(n)
  BY FixedHeaderLength
<1>4. PICK topic \in Seq(Byte) : topic = EncodeString(publish.topic) /\ Len(topic) = 2 + Len(publish.topic)
  BY EncodedString
<1>5. PICK idField \in Seq(Byte) : /\ idField = (IF publish.qos > 0 THEN Encode16(id) ELSE <<>>)
                                   /\ Len(idField) = (IF publish.qos > 0 THEN 2 ELSE 0)
  <2>1. Encode16(id) \in Seq(Byte) /\ Len(Encode16(id)) = 2
    BY Encoded16
  <2>2. <<>> \in Seq(Byte) /\ Len(<<>>) = 0
    OBVIOUS
  <2>3. CASE publish.qos > 0
    BY <2>1, <2>3
  <2>4. CASE ~ (publish.qos > 0)
    <3>1. PICK none \in Seq(Byte) : none = <<>> /\ Len(none) = 0
      BY <2>2
    <3>2. none = IF publish.qos > 0 THEN Encode16(id) ELSE <<>>
      BY <2>4, <3>1
    <3>3. Len(none) = IF publish.qos > 0 THEN 2 ELSE 0
      BY <2>4, <3>1
    <3>4. QED
      BY <3>2, <3>3
  <2>5. QED
    BY <2>3, <2>4
<1>6. PICK a \in Seq(Byte) : a = header \o topic /\ Len(a) = Len(header) + Len(topic)
  BY Joined
<1>7. PICK b \in Seq(Byte) : b = a \o idField /\ Len(b) = Len(a) + Len(idField)
  BY Joined
<1>8. PublishHeaderBytes(publish, id, n) = b
  BY <1>2, <1>3, <1>4, <1>5, <1>6, <1>7 DEF PublishHeaderBytes
<1>9. PICK h \in Nat, t \in Nat, p \in Nat, i \in Nat :
          h = Len(header) /\ t = Len(publish.topic) /\ p = Len(publish.payload) /\ i = Len(idField)
  BY LenProperties, StringLength
<1>10. n = t + 2 + i + p
  BY <1>5, <1>9 DEF PublishRemaining
<1>11. Len(b) = h + (2 + t) + i
  BY <1>4, <1>6, <1>7, <1>9
<1>12. PacketSize(n) = h + (t + 2 + i + p)
  BY <1>3, <1>9, <1>10
<1>13. Len(b) + Len(publish.payload) = PacketSize(n)
  <2>1. (h + (2 + t) + i) + p = h + (t + 2 + i + p)
    OBVIOUS
  <2>2. QED
    BY <1>9, <1>11, <1>12, <2>1
<1>14. QED
  BY <1>8, <1>13

-----------------------------------------------------------------------------
(* Calls                                                                   *)

(* The kind of a packet says which size call its sizes are from.           *)
LEMMA MeasuredKinds ==
    ASSUME NEW p, NEW s, Measured(p, s)
    PROVE  /\ p.kind = "CONNECT" => p \in Connect /\ s = GetConnectPacketSize(p)
           /\ p.kind = "SUBSCRIBE" => p.list \in Seq(Filter) /\ s = GetSubscriptionPacketSize(p.list, 1)
           /\ p.kind = "UNSUBSCRIBE" => p.list \in Seq(Filter) /\ s = GetSubscriptionPacketSize(p.list, 0)
           /\ p.kind \in {"SUBSCRIBE", "UNSUBSCRIBE"} => p \in Subscription /\ p.packetId \in UINT16
           /\ p.kind = "PUBLISH" => p \in Publish /\ s = GetPublishPacketSize(p)
           /\ p.kind = "ACK" => p \in Ack /\ s.packet = 4
           /\ p.kind = "FIXED" => p \in Fixed /\ s.packet = 2
           /\ p.kind = "publish lengths" =>
                 p \in PublishLengths /\ s = CalculatePublishPacketSize(p.topic, p.payload, p.qos)
           /\ p.kind = "subscription lengths" =>
                 /\ p \in SubscriptionLengths
                 /\ s = CalculateSubscriptionPacketSize(p.count, p.total, p.qosSize, FALSE)
<1>1. CASE p \in Connects /\ s = GetConnectPacketSize(p)
  <2>1. p \in Connect /\ p.kind = "CONNECT"
    BY <1>1, PacketsAssumption DEF Connect
  <2>2. QED
    BY <1>1, <2>1
<1>2. CASE p \in Subscriptions /\ s = GetSubscriptionPacketSize(p.list, IF p.kind = "SUBSCRIBE" THEN 1 ELSE 0)
  <2>1. p \in Subscription
    BY <1>2, PacketsAssumption
  <2>2. p.kind \in {"SUBSCRIBE", "UNSUBSCRIBE"} /\ p.list \in Seq(Filter) /\ p.packetId \in UINT16
    BY <2>1 DEF Subscription, Filter
  <2>3. QED
    BY <1>2, <2>1, <2>2
<1>3. CASE p \in Publishes /\ s = GetPublishPacketSize(p)
  <2>1. p \in Publish /\ p.kind = "PUBLISH"
    BY <1>3, PacketsAssumption DEF Publish
  <2>2. QED
    BY <1>3, <2>1
<1>4. CASE p \in Acks /\ s = [status |-> "Success", remaining |-> 2, packet |-> 4]
  <2>1. p \in Ack /\ p.kind = "ACK"
    BY <1>4, PacketsAssumption DEF Ack
  <2>2. QED
    BY <1>4, <2>1
<1>5. CASE p \in Fixed /\ s = [status |-> "Success", remaining |-> 0, packet |-> 2]
  <2>1. p.kind = "FIXED"
    BY <1>5 DEF Fixed
  <2>2. QED
    BY <1>5, <2>1
<1>6. CASE /\ p \in Lengths /\ p.kind = "publish lengths"
           /\ s = CalculatePublishPacketSize(p.topic, p.payload, p.qos)
  <2>1. p \in PublishLengths
    BY <1>6, PacketsAssumption DEF SubscriptionLengths
  <2>2. QED
    BY <1>6, <2>1
<1>7. CASE /\ p \in Lengths /\ p.kind = "subscription lengths"
           /\ s = CalculateSubscriptionPacketSize(p.count, p.total, p.qosSize, FALSE)
  <2>1. p \in SubscriptionLengths
    BY <1>7, PacketsAssumption DEF PublishLengths
  <2>2. QED
    BY <1>7, <2>1
<1>8. QED
  BY <1>1, <1>2, <1>3, <1>4, <1>5, <1>6, <1>7 DEF Measured

(* What every serialiser returns for a packet of size s.packet, of which   *)
(* separate bytes are sent otherwise.                                      *)
GoodWrite(w, s, size, separate) ==
    /\ w.bytes \in Seq(Byte)
    /\ w.status = "Success" => Len(w.bytes) = s.packet - separate /\ Len(w.bytes) <= size
    /\ w.status = "NoMemory" => size < s.packet - separate

(* A refusal is good when its reason is, and nothing is written.           *)
LEMMA RefusedWrite ==
    ASSUME NEW status, status # "Success", NEW s, NEW size, NEW separate,
           status = "NoMemory" => size < s.packet - separate
    PROVE  GoodWrite(Refused(status), s, size, separate)
BY DEF GoodWrite, Refused

(* Bytes that were written are good when they are as many as expected and  *)
(* fit.                                                                    *)
LEMMA SuccessfulWrite ==
    ASSUME NEW b \in Seq(Byte), NEW s, NEW size, NEW separate,
           Len(b) = s.packet - separate, s.packet - separate <= size
    PROVE  GoodWrite(Written(b), s, size, separate)
BY DEF GoodWrite, Written

(* MQTT_SerializeConnect with the sizes of the packet.                     *)
LEMMA ConnectWrites ==
    ASSUME NEW p \in Connect, NEW s, s = GetConnectPacketSize(p), s.status = "Success", NEW size \in Int
    PROVE  GoodWrite(SerializeConnect(p, s.remaining, size), s, size, 0)
<1>1. /\ WillFits(p) /\ ConnectRemaining(p) \in 0 .. MaxRemainingLength
      /\ s = Sized(ConnectRemaining(p))
  BY ConnectSizes
<1>2. PICK n \in 0 .. MaxRemainingLength : n = ConnectRemaining(p)
  BY <1>1
<1>3. PICK b \in Seq(Byte) : b = ConnectBytes(p, n) /\ Len(b) = PacketSize(n)
  BY <1>1, <1>2, ConnectLength
<1>4. s.remaining = n /\ s.packet = PacketSize(n) /\ PacketSize(n) \in Nat
  <2>1. Len(b) \in Nat
    BY LenProperties
  <2>2. QED
    BY <1>1, <1>2, <1>3, <2>1 DEF Sized
<1>5. CASE PacketSize(n) > size
  <2>1. SerializeConnect(p, s.remaining, size) = Refused("NoMemory")
    BY <1>4, <1>5 DEF SerializeConnect
  <2>2. size < s.packet - 0
    BY <1>4, <1>5
  <2>3. QED
    BY <2>1, <2>2, RefusedWrite
<1>6. CASE ~ (PacketSize(n) > size)
  <2>1. SerializeConnect(p, s.remaining, size) = Written(b)
    BY <1>3, <1>4, <1>6 DEF SerializeConnect
  <2>2. Len(b) = s.packet - 0 /\ s.packet - 0 <= size
    BY <1>3, <1>4, <1>6
  <2>3. QED
    BY <2>1, <2>2, SuccessfulWrite
<1>7. QED
  BY <1>5, <1>6

(* A SUBSCRIBE and an UNSUBSCRIBE, of type t and with filters f.           *)
LEMMA SubscriptionWrites ==
    ASSUME NEW list \in Seq(Filter), NEW qosSize \in {0, 1}, NEW s, s.status = "Success",
           s = GetSubscriptionPacketSize(list, qosSize),
           NEW id \in UINT16, NEW size \in Int, NEW t \in Byte, NEW f \in Seq(Byte),
           Len(f) + 2 = SubscriptionRemaining(Len(list), TotalLength(list), qosSize),
           NEW w,
           w = IF ValidateSubscription(list, id, s.remaining, size) # "Success"
               THEN Refused(ValidateSubscription(list, id, s.remaining, size))
               ELSE Written(FixedHeader(t, s.remaining) \o Encode16(id) \o f)
    PROVE  GoodWrite(w, s, size, 0)
<1>1. GoodSizes(s) /\ s = Sized(SubscriptionRemaining(Len(list), TotalLength(list), qosSize))
  BY SubscriptionListSizes
<1>2. PICK n \in 0 .. MaxRemainingLength : n = s.remaining /\ s.packet = PacketSize(n) /\ n = Len(f) + 2
  BY <1>1 DEF GoodSizes, Sized
<1>3. PICK header \in Seq(Byte) : header = FixedHeader(t, n) /\ Len(header) + n = PacketSize(n)
  BY FixedHeaderLength
<1>4. PICK idField \in Seq(Byte) : idField = Encode16(id) /\ Len(idField) = 2
  BY Encoded16
<1>5. PICK a \in Seq(Byte) : a = header \o idField /\ Len(a) = Len(header) + Len(idField)
  BY ZenonT(40), Joined
<1>6. PICK b \in Seq(Byte) : b = a \o f /\ Len(b) = Len(a) + Len(f)
  BY ZenonT(40), Joined
<1>7. PICK h \in Nat, l \in Nat : h = Len(header) /\ l = Len(f)
  BY LenProperties
<1>8. Len(b) = PacketSize(n) /\ PacketSize(n) \in Nat
  <2>1. Len(a) = h + 2
    BY <1>4, <1>5, <1>7
  <2>2. Len(b) = h + 2 + l
    BY <1>6, <1>7, <2>1
  <2>3. PacketSize(n) = h + (l + 2)
    BY <1>2, <1>3, <1>7
  <2>4. QED
    BY <2>2, <2>3
<1>9. PICK status : status = ValidateSubscription(list, id, n, size)
  OBVIOUS
<1>10. /\ status \in {"BadParameter", "NoMemory", "Success"}
       /\ status = "NoMemory" => PacketSize(n) > size
       /\ status = "Success" => ~ (PacketSize(n) > size)
  BY <1>9 DEF ValidateSubscription
<1>11. CASE status # "Success"
  <2>1. w = Refused(status)
    BY <1>2, <1>9, <1>11
  <2>2. status = "NoMemory" => size < s.packet - 0
    BY <1>2, <1>8, <1>10
  <2>3. QED
    BY <1>11, <2>1, <2>2, RefusedWrite
<1>12. CASE status = "Success"
  <2>1. w = Written(b)
    BY <1>2, <1>3, <1>4, <1>5, <1>6, <1>9, <1>12
  <2>2. Len(b) = s.packet - 0 /\ s.packet - 0 <= size
    BY <1>2, <1>8, <1>10, <1>12
  <2>3. QED
    BY <2>1, <2>2, SuccessfulWrite
<1>13. QED
  BY <1>11, <1>12

(* MQTT_SerializeSubscribe with the sizes of the packet.                   *)
LEMMA SubscribeWrites ==
    ASSUME NEW list \in Seq(Filter), NEW s, s.status = "Success",
           s = GetSubscriptionPacketSize(list, 1), NEW id \in UINT16, NEW size \in Int
    PROVE  GoodWrite(SerializeSubscribe(list, id, s.remaining, size), s, size, 0)
<1>1. PICK w : w = SerializeSubscribe(list, id, s.remaining, size)
  OBVIOUS
<1>2. PICK f : f = FlattenSeq([i \in DOMAIN list |-> EncodeString(list[i].filter) \o <<list[i].qos>>])
  OBVIOUS
<1>3. f \in Seq(Byte) /\ Len(f) + 2 = SubscriptionRemaining(Len(list), TotalLength(list), 1)
  BY <1>2, SubscribeParts
<1>4. PICK t \in Byte : t = Type.SUBSCRIBE
  BY SMT DEF Type, Byte
<1>5. w = IF ValidateSubscription(list, id, s.remaining, size) # "Success"
          THEN Refused(ValidateSubscription(list, id, s.remaining, size))
          ELSE Written(FixedHeader(t, s.remaining) \o Encode16(id) \o f)
  BY <1>1, <1>2, <1>4 DEF SerializeSubscribe
<1>6. 1 \in {0, 1}
  OBVIOUS
<1>7. GoodWrite(w, s, size, 0)
  BY <1>3, <1>5, <1>6, SubscriptionWrites
<1>8. QED
  BY <1>1, <1>7

(* MQTT_SerializeUnsubscribe with the sizes of the packet.                 *)
LEMMA UnsubscribeWrites ==
    ASSUME NEW list \in Seq(Filter), NEW s, s.status = "Success",
           s = GetSubscriptionPacketSize(list, 0), NEW id \in UINT16, NEW size \in Int
    PROVE  GoodWrite(SerializeUnsubscribe(list, id, s.remaining, size), s, size, 0)
<1>1. PICK w : w = SerializeUnsubscribe(list, id, s.remaining, size)
  OBVIOUS
<1>2. PICK f : f = EncodeStrings([i \in DOMAIN list |-> list[i].filter])
  OBVIOUS
<1>3. f \in Seq(Byte) /\ Len(f) + 2 = SubscriptionRemaining(Len(list), TotalLength(list), 0)
  BY <1>2, UnsubscribeParts
<1>4. PICK t \in Byte : t = Type.UNSUBSCRIBE
  BY SMT DEF Type, Byte
<1>5. w = IF ValidateSubscription(list, id, s.remaining, size) # "Success"
          THEN Refused(ValidateSubscription(list, id, s.remaining, size))
          ELSE Written(FixedHeader(t, s.remaining) \o Encode16(id) \o f)
  BY <1>1, <1>2, <1>4 DEF SerializeUnsubscribe
<1>6. 0 \in {0, 1}
  OBVIOUS
<1>7. GoodWrite(w, s, size, 0)
  BY <1>3, <1>5, <1>6, SubscriptionWrites
<1>8. QED
  BY <1>1, <1>7

(* A publish, whole and without its payload.                               *)
LEMMA PublishWrites ==
    ASSUME NEW p \in Publish, NEW s, s = GetPublishPacketSize(p), s.status = "Success", NEW size \in Int
    PROVE  /\ GoodWrite(SerializePublish(p, p.packetId, s.remaining, size), s, size, 0)
           /\ GoodWrite(SerializePublishHeader(p, p.packetId, s.remaining, size), s, size, Len(p.payload))
<1>1. /\ p.topic \in String16 /\ p.payload \in Seq(Byte) /\ p.qos \in QoS /\ p.retain \in BOOLEAN
      /\ p.dup \in BOOLEAN /\ p.packetId \in UINT16
  BY DEF Publish
<1>2. Len(p.topic) \in Nat /\ Len(p.payload) \in Nat
  BY <1>1, StringLength, LenProperties
<1>3. s = CalculatePublishPacketSize(Len(p.topic), Len(p.payload), p.qos)
  BY DEF GetPublishPacketSize, SizeRefused
<1>4. GoodSizes(s) /\ s = Sized(PublishRemaining(Len(p.topic), Len(p.payload), p.qos))
  BY <1>1, <1>2, <1>3, PublishSizesGood
<1>5. PICK n \in 0 .. MaxRemainingLength :
          /\ n = s.remaining /\ s.packet = PacketSize(n)
          /\ n = PublishRemaining(Len(p.topic), Len(p.payload), p.qos)
  BY <1>4 DEF GoodSizes, Sized
<1>6. PICK h \in Seq(Byte) : h = PublishHeaderBytes(p, p.packetId, n) /\ Len(h) + Len(p.payload) = PacketSize(n)
  BY <1>1, <1>5, PublishHeaderLength
<1>7. PICK b \in Seq(Byte) : b = h \o p.payload /\ Len(b) = Len(h) + Len(p.payload)
  <2>1. PICK q \in Seq(Byte) : q = p.payload
    BY <1>1
  <2>2. h \o q \in Seq(Byte) /\ Len(h \o q) = Len(h) + Len(q)
    BY Joined
  <2>3. QED
    BY <2>1, <2>2
<1>8. PICK k \in Nat, l \in Nat : k = Len(h) /\ l = Len(p.payload) /\ PacketSize(n) = k + l
  BY <1>2, <1>6, LenProperties
<1>9. GoodWrite(SerializePublish(p, p.packetId, s.remaining, size), s, size, 0)
  <2>1. CASE PublishIsBad(p, p.packetId)
    <3>1. SerializePublish(p, p.packetId, s.remaining, size) = Refused("BadParameter")
      BY <2>1 DEF SerializePublish
    <3>2. QED
      BY <3>1, RefusedWrite
  <2>2. CASE ~ PublishIsBad(p, p.packetId) /\ k + l > size
    <3>1. SerializePublish(p, p.packetId, s.remaining, size) = Refused("NoMemory")
      BY <1>5, <1>8, <2>2 DEF SerializePublish
    <3>2. size < s.packet - 0
      BY <1>5, <1>8, <2>2
    <3>3. QED
      BY <3>1, <3>2, RefusedWrite
  <2>3. CASE ~ PublishIsBad(p, p.packetId) /\ ~ (k + l > size)
    <3>1. SerializePublish(p, p.packetId, s.remaining, size) = Written(b)
      BY <1>5, <1>6, <1>7, <1>8, <2>3 DEF SerializePublish
    <3>2. Len(b) = s.packet - 0 /\ s.packet - 0 <= size
      BY <1>5, <1>7, <1>8, <2>3
    <3>3. QED
      BY <3>1, <3>2, SuccessfulWrite
  <2>4. QED
    BY <2>1, <2>2, <2>3
<1>10. GoodWrite(SerializePublishHeader(p, p.packetId, s.remaining, size), s, size, l)
  <2>1. CASE PublishIsBad(p, p.packetId)
    <3>1. SerializePublishHeader(p, p.packetId, s.remaining, size) = Refused("BadParameter")
      BY <2>1 DEF SerializePublishHeader
    <3>2. QED
      BY <3>1, RefusedWrite
  <2>2. CASE ~ PublishIsBad(p, p.packetId) /\ (k + l) - l > size
    <3>1. SerializePublishHeader(p, p.packetId, s.remaining, size) = Refused("NoMemory")
      BY <1>5, <1>8, <2>2 DEF SerializePublishHeader
    <3>2. size < s.packet - l
      BY <1>5, <1>8, <2>2
    <3>3. QED
      BY <3>1, <3>2, RefusedWrite
  <2>3. CASE ~ PublishIsBad(p, p.packetId) /\ ~ ((k + l) - l > size)
    <3>1. SerializePublishHeader(p, p.packetId, s.remaining, size) = Written(h)
      BY <1>5, <1>6, <1>8, <2>3 DEF SerializePublishHeader
    <3>2. Len(h) = s.packet - l /\ s.packet - l <= size
      BY <1>5, <1>8, <2>3
    <3>3. QED
      BY <3>1, <3>2, SuccessfulWrite
  <2>4. QED
    BY <2>1, <2>2, <2>3
<1>11. QED
  BY <1>8, <1>9, <1>10

(* MQTT_SerializeAck, whose size is fixed.                                 *)
LEMMA AckWrites ==
    ASSUME NEW p \in Ack, NEW s, s.packet = 4, NEW size \in Int
    PROVE  GoodWrite(SerializeAck(size, p.type, p.packetId), s, size, 0)
<1>1. PICK t \in Byte, id \in UINT16 : t = p.type /\ id = p.packetId
  BY DEF Ack
<1>2. PICK field \in Seq(Byte) : field = Encode16(id) /\ Len(field) = 2
  BY Encoded16
<1>3. PICK first \in Seq(Byte) : first = <<t, 2>> /\ Len(first) = 2
  <2>1. PICK two \in Byte : two = 2
    BY SMT DEF Byte
  <2>2. <<t, two>> \in Seq(Byte) /\ Len(<<t, two>>) = 2
    OBVIOUS
  <2>3. QED
    BY <2>1, <2>2
<1>4. PICK b \in Seq(Byte) : b = first \o field /\ Len(b) = 4
  <2>1. first \o field \in Seq(Byte) /\ Len(first \o field) = Len(first) + Len(field)
    BY Joined
  <2>2. Len(first \o field) = 4
    BY <1>2, <1>3, <2>1
  <2>3. QED
    BY <2>1, <2>2
<1>5. CASE size < 4
  <2>1. SerializeAck(size, p.type, p.packetId) = Refused("NoMemory") /\ size < s.packet - 0
    BY <1>5 DEF SerializeAck
  <2>2. QED
    BY <2>1, RefusedWrite
<1>6. CASE ~ (size < 4) /\ (id = 0 \/ t \notin PublishAcks)
  <2>1. SerializeAck(size, p.type, p.packetId) = Refused("BadParameter")
    BY <1>1, <1>6 DEF SerializeAck
  <2>2. QED
    BY <2>1, RefusedWrite
<1>7. CASE ~ (size < 4) /\ ~ (id = 0 \/ t \notin PublishAcks)
  <2>1. SerializeAck(size, p.type, p.packetId) = Written(b)
    BY <1>1, <1>2, <1>3, <1>4, <1>7 DEF SerializeAck
  <2>2. Len(b) = s.packet - 0 /\ s.packet - 0 <= size
    BY <1>4, <1>7
  <2>3. QED
    BY <2>1, <2>2, SuccessfulWrite
<1>8. QED
  BY <1>5, <1>6, <1>7

(* MQTT_SerializePingreq and MQTT_SerializeDisconnect, whose size is       *)
(* fixed.                                                                  *)
LEMMA FixedWrites ==
    ASSUME NEW p \in Fixed, NEW s, s.packet = 2, NEW size \in Int
    PROVE  GoodWrite(SerializeFixed(p.type, size), s, size, 0)
<1>1. PICK t \in Byte : t = p.type
  BY SMT DEF Fixed, Type, Byte
<1>2. PICK b \in Seq(Byte) : b = <<t, 0>> /\ Len(b) = 2
  <2>1. PICK zero \in Byte : zero = 0
    BY SMT DEF Byte
  <2>2. <<t, zero>> \in Seq(Byte) /\ Len(<<t, zero>>) = 2
    OBVIOUS
  <2>3. QED
    BY <2>1, <2>2
<1>3. CASE size < 2
  <2>1. SerializeFixed(p.type, size) = Refused("NoMemory") /\ size < s.packet - 0
    BY <1>3 DEF SerializeFixed
  <2>2. QED
    BY <2>1, RefusedWrite
<1>4. CASE ~ (size < 2)
  <2>1. SerializeFixed(p.type, size) = Written(b)
    BY <1>1, <1>2, <1>4 DEF SerializeFixed
  <2>2. Len(b) = s.packet - 0 /\ s.packet - 0 <= size
    BY <1>2, <1>4
  <2>3. QED
    BY <2>1, <2>2, SuccessfulWrite
<1>5. QED
  BY <1>3, <1>4

-----------------------------------------------------------------------------
(* The packet at hand has been measured, what is written is what was       *)
(* measured, and no other step says that there was no memory.              *)
SenderInv ==
    /\ stage \in {"idle", "sized", "header", "written", "refused", "arrived", "framed",
                   "decoded", "matched"}
    /\ sizes.remaining \in 0 .. MaxRemainingLength
    /\ bytes \in Seq(Byte)
    /\ stage \in {"sized", "header", "written"} => Measured(packet, sizes) /\ sizes.status = "Success"
    /\ packet.kind \in MeasuredOnly =>
          /\ stage \in {"sized", "refused"} /\ Measured(packet, sizes)
          /\ stage = "sized" <=> sizes.status = "Success"
    /\ stage = "header" => /\ packet.kind = "PUBLISH" /\ answer.separate = Len(packet.payload)
                           /\ Len(bytes) = sizes.packet - answer.separate
                           /\ answer.size \in Int /\ Len(bytes) <= answer.size
    /\ stage = "written" => /\ Len(bytes) = sizes.packet /\ Len(bytes) <= answer.size + answer.separate
    /\ stage \in {"idle", "sized", "arrived"} => answer = NoAnswer
    /\ answer.status = "NoMemory" => answer.size < sizes.packet - answer.separate

(* The packet size of what was accepted is that of its remaining length.   *)
LEMMA SizesAreInt ==
    ASSUME NEW p, NEW s, Measured(p, s), s.status = "Success"
    PROVE  s.packet \in Nat /\ s.packet = PacketSize(s.remaining)
<1>1. s.remaining \in 0 .. MaxRemainingLength /\ s.packet = PacketSize(s.remaining)
  BY MeasuredIsGood DEF GoodSizes
<1>2. PICK n \in Nat, k \in Nat : n = s.remaining /\ k = EncodedSize(n)
  <2>1. EncodedSize(s.remaining) \in Nat
    BY <1>1, EncodedLength
  <2>2. QED
    BY <1>1, <2>1, LargestLength
<1>3. QED
  BY <1>1, <1>2 DEF PacketSize

(* A call that measures a packet.                                          *)
LEMMA MeasureKeeps ==
    ASSUME SenderInv, NEW p, NEW s, Measured(p, s), Measure(p, s)
    PROVE  SenderInv'
<1>1. /\ stage = "idle" /\ stage' = IF s.status = "Success" THEN "sized" ELSE "refused"
      /\ packet' = p /\ sizes' = s /\ bytes' = bytes /\ answer' = answer
  BY DEF Measure
<1>2. GoodSizes(s)
  BY MeasuredIsGood
<1>3. answer = NoAnswer /\ answer.status # "NoMemory" /\ bytes \in Seq(Byte)
  BY <1>1 DEF SenderInv, NoAnswer
<1>4. CASE s.status = "Success"
  BY <1>1, <1>2, <1>3, <1>4 DEF SenderInv, GoodSizes
<1>5. CASE s.status # "Success"
  BY <1>1, <1>2, <1>3, <1>5 DEF SenderInv, GoodSizes
<1>6. QED
  BY <1>4, <1>5

(* A call that writes a packet whole, or a publish without its payload.    *)
LEMMA SerializeKeeps ==
    ASSUME SenderInv, NEW kind, NEW next, NEW separate \in Nat, NEW size \in Int, NEW w,
           kind \notin MeasuredOnly,
           \/ next = "written" /\ separate = 0
           \/ next = "header" /\ kind = "PUBLISH" /\ separate = Len(packet.payload),
           GoodWrite(w, sizes, size, separate), Serialize(kind, next, separate, size, w)
    PROVE  SenderInv'
<1>1. /\ stage = "sized" /\ packet.kind = kind
      /\ stage' = IF w.status = "Success" THEN next ELSE "refused"
      /\ bytes' = w.bytes /\ answer' = [status |-> w.status, size |-> size, separate |-> separate]
      /\ packet' = packet /\ sizes' = sizes
  BY DEF Serialize
<1>2. PICK s, p : s = sizes /\ p = packet
  OBVIOUS
<1>3. /\ s.remaining \in 0 .. MaxRemainingLength /\ Measured(p, s) /\ s.status = "Success"
      /\ p.kind \notin MeasuredOnly
  BY <1>1, <1>2 DEF SenderInv
<1>4. s.packet \in Nat
  BY <1>3, SizesAreInt
<1>5. /\ w.bytes \in Seq(Byte)
      /\ w.status = "Success" => Len(w.bytes) = s.packet - separate /\ Len(w.bytes) <= size
      /\ w.status = "NoMemory" => size < s.packet - separate
  BY <1>2 DEF GoodWrite
<1>6. answer'.status = w.status /\ answer'.size = size /\ answer'.separate = separate
  BY <1>1
<1>7. CASE w.status = "Success" /\ next = "written" /\ separate = 0
  <2>1. Len(w.bytes) = s.packet /\ Len(w.bytes) <= size + 0
    BY <1>4, <1>5, <1>7
  <2>2. QED
    BY <1>1, <1>2, <1>3, <1>5, <1>6, <1>7, <2>1 DEF SenderInv
<1>8. CASE w.status = "Success" /\ next = "header" /\ kind = "PUBLISH" /\ separate = Len(packet.payload)
  BY <1>1, <1>2, <1>3, <1>5, <1>6, <1>8 DEF SenderInv
<1>9. CASE w.status # "Success"
  BY <1>1, <1>2, <1>3, <1>5, <1>6, <1>9 DEF SenderInv
<1>10. QED
  BY <1>7, <1>8, <1>9

(* The sizes of the buffers are integers.                                  *)
LEMMA BufferSizes ==
    ASSUME SenderInv, stage = "sized", NEW separate \in Nat
    PROVE  \A size \in Buffers(separate) : size \in Int
<1>1. PICK s, p : s = sizes /\ p = packet
  OBVIOUS
<1>2. s.packet \in Nat
  BY <1>1, SizesAreInt DEF SenderInv
<1>3. QED
  BY <1>1, <1>2, PacketsAssumption DEF Buffers

(* Every call that serialises keeps the invariant.                         *)
LEMMA SenderCallsKeep ==
    ASSUME SenderInv,
           ConnectCall \/ SubscribeCall \/ UnsubscribeCall \/ PublishCall \/ PublishHeaderCall
           \/ AckCall \/ FixedCall
    PROVE  SenderInv'
<1>1. PICK s, p : s = sizes /\ p = packet
  OBVIOUS
<1>2. ASSUME stage = "sized" PROVE Measured(p, s) /\ s.status = "Success"
  BY <1>1, <1>2 DEF SenderInv
<1>3. \A kind \in {"CONNECT", "SUBSCRIBE", "UNSUBSCRIBE", "PUBLISH", "ACK", "FIXED"} : kind \notin MeasuredOnly
  BY DEF MeasuredOnly
<1>4. CASE ConnectCall
  <2>1. PICK size \in Buffers(0) :
            Serialize("CONNECT", "written", 0, size, SerializeConnect(packet, sizes.remaining, size))
    BY <1>4 DEF ConnectCall
  <2>2. PICK w : w = SerializeConnect(p, s.remaining, size)
    OBVIOUS
  <2>3. Serialize("CONNECT", "written", 0, size, w)
    BY <1>1, <2>1, <2>2
  <2>4. stage = "sized" /\ p.kind = "CONNECT"
    BY <1>1, <2>3 DEF Serialize
  <2>5. size \in Int
    BY <2>4, BufferSizes
  <2>6. p \in Connect /\ s = GetConnectPacketSize(p) /\ s.status = "Success"
    BY <1>2, <2>4, MeasuredKinds
  <2>7. GoodWrite(w, sizes, size, 0)
    BY <1>1, <2>2, <2>5, <2>6, ConnectWrites
  <2>8. QED
    BY <1>3, <2>3, <2>5, <2>7, SerializeKeeps
<1>5. CASE SubscribeCall
  <2>1. PICK size \in Buffers(0) :
            Serialize("SUBSCRIBE", "written", 0, size,
                      SerializeSubscribe(packet.list, packet.packetId, sizes.remaining, size))
    BY <1>5 DEF SubscribeCall
  <2>2. PICK w : w = SerializeSubscribe(p.list, p.packetId, s.remaining, size)
    OBVIOUS
  <2>3. Serialize("SUBSCRIBE", "written", 0, size, w)
    BY <1>1, <2>1, <2>2
  <2>4. stage = "sized" /\ p.kind = "SUBSCRIBE"
    BY <1>1, <2>3 DEF Serialize
  <2>5. size \in Int
    BY <2>4, BufferSizes
  <2>6. /\ p.list \in Seq(Filter) /\ s = GetSubscriptionPacketSize(p.list, 1) /\ s.status = "Success"
        /\ p.packetId \in UINT16
    BY <1>2, <2>4, MeasuredKinds
  <2>7. GoodWrite(w, sizes, size, 0)
    BY <1>1, <2>2, <2>5, <2>6, SubscribeWrites
  <2>8. QED
    BY <1>3, <2>3, <2>5, <2>7, SerializeKeeps
<1>6. CASE UnsubscribeCall
  <2>1. PICK size \in Buffers(0) :
            Serialize("UNSUBSCRIBE", "written", 0, size,
                      SerializeUnsubscribe(packet.list, packet.packetId, sizes.remaining, size))
    BY <1>6 DEF UnsubscribeCall
  <2>2. PICK w : w = SerializeUnsubscribe(p.list, p.packetId, s.remaining, size)
    OBVIOUS
  <2>3. Serialize("UNSUBSCRIBE", "written", 0, size, w)
    BY <1>1, <2>1, <2>2
  <2>4. stage = "sized" /\ p.kind = "UNSUBSCRIBE"
    BY <1>1, <2>3 DEF Serialize
  <2>5. size \in Int
    BY <2>4, BufferSizes
  <2>6. /\ p.list \in Seq(Filter) /\ s = GetSubscriptionPacketSize(p.list, 0) /\ s.status = "Success"
        /\ p.packetId \in UINT16
    BY <1>2, <2>4, MeasuredKinds
  <2>7. GoodWrite(w, sizes, size, 0)
    BY <1>1, <2>2, <2>5, <2>6, UnsubscribeWrites
  <2>8. QED
    BY <1>3, <2>3, <2>5, <2>7, SerializeKeeps
<1>7. CASE PublishCall
  <2>1. PICK size \in Buffers(0) :
            Serialize("PUBLISH", "written", 0, size,
                      SerializePublish(packet, packet.packetId, sizes.remaining, size))
    BY <1>7 DEF PublishCall
  <2>2. PICK w : w = SerializePublish(p, p.packetId, s.remaining, size)
    OBVIOUS
  <2>3. Serialize("PUBLISH", "written", 0, size, w)
    BY <1>1, <2>1, <2>2
  <2>4. stage = "sized" /\ p.kind = "PUBLISH"
    BY <1>1, <2>3 DEF Serialize
  <2>5. size \in Int
    BY <2>4, BufferSizes
  <2>6. p \in Publish /\ s = GetPublishPacketSize(p) /\ s.status = "Success"
    BY <1>2, <2>4, MeasuredKinds
  <2>7. GoodWrite(w, sizes, size, 0)
    BY <1>1, <2>2, <2>5, <2>6, PublishWrites
  <2>8. QED
    BY <1>3, <2>3, <2>5, <2>7, SerializeKeeps
<1>8. CASE PublishHeaderCall
  <2>1. /\ stage = "sized" /\ packet.kind = "PUBLISH"
        /\ \E size \in Buffers(Len(packet.payload)) :
               Serialize("PUBLISH", "header", Len(packet.payload), size,
                         SerializePublishHeader(packet, packet.packetId, sizes.remaining, size))
    BY <1>8 DEF PublishHeaderCall
  <2>2. p \in Publish /\ s = GetPublishPacketSize(p) /\ s.status = "Success"
    BY <1>1, <1>2, <2>1, MeasuredKinds
  <2>3. PICK l \in Nat : l = Len(packet.payload)
    <3>1. p.payload \in Seq(Byte)
      BY <2>2 DEF Publish
    <3>2. Len(p.payload) \in Nat
      BY <3>1, LenProperties
    <3>3. QED
      BY <1>1, <3>2
  <2>4. PICK size \in Buffers(l) :
            Serialize("PUBLISH", "header", l, size,
                      SerializePublishHeader(packet, packet.packetId, sizes.remaining, size))
    BY <2>1, <2>3
  <2>5. PICK w : w = SerializePublishHeader(p, p.packetId, s.remaining, size)
    OBVIOUS
  <2>6. Serialize("PUBLISH", "header", l, size, w)
    BY <1>1, <2>4, <2>5
  <2>7. size \in Int
    BY <2>1, BufferSizes
  <2>8. GoodWrite(w, sizes, size, l)
    BY <1>1, <2>2, <2>3, <2>5, <2>7, PublishWrites
  <2>9. QED
    BY <1>3, <2>3, <2>6, <2>7, <2>8, SerializeKeeps
<1>9. CASE AckCall
  <2>1. PICK size \in Buffers(0) :
            Serialize("ACK", "written", 0, size, SerializeAck(size, packet.type, packet.packetId))
    BY <1>9 DEF AckCall
  <2>2. PICK w : w = SerializeAck(size, p.type, p.packetId)
    OBVIOUS
  <2>3. Serialize("ACK", "written", 0, size, w)
    BY <1>1, <2>1, <2>2
  <2>4. stage = "sized" /\ p.kind = "ACK"
    BY <1>1, <2>3 DEF Serialize
  <2>5. size \in Int
    BY <2>4, BufferSizes
  <2>6. p \in Ack /\ s.packet = 4
    BY <1>2, <2>4, MeasuredKinds
  <2>7. GoodWrite(w, sizes, size, 0)
    BY <1>1, <2>2, <2>5, <2>6, AckWrites
  <2>8. QED
    BY <1>3, <2>3, <2>5, <2>7, SerializeKeeps
<1>10. CASE FixedCall
  <2>1. PICK size \in Buffers(0) :
            Serialize("FIXED", "written", 0, size, SerializeFixed(packet.type, size))
    BY <1>10 DEF FixedCall
  <2>2. PICK w : w = SerializeFixed(p.type, size)
    OBVIOUS
  <2>3. Serialize("FIXED", "written", 0, size, w)
    BY <1>1, <2>1, <2>2
  <2>4. stage = "sized" /\ p.kind = "FIXED"
    BY <1>1, <2>3 DEF Serialize
  <2>5. size \in Int
    BY <2>4, BufferSizes
  <2>6. p \in Fixed /\ s.packet = 2
    BY <1>2, <2>4, MeasuredKinds
  <2>7. GoodWrite(w, sizes, size, 0)
    BY <1>1, <2>2, <2>5, <2>6, FixedWrites
  <2>8. QED
    BY <1>3, <2>3, <2>5, <2>7, SerializeKeeps
<1>11. QED
  BY <1>4, <1>5, <1>6, <1>7, <1>8, <1>9, <1>10

-----------------------------------------------------------------------------
(* The steps of the sending side                                           *)

(* Every call that gives a size keeps the invariant.                       *)
LEMMA SizeCallsKeep ==
    ASSUME SenderInv,
           GetConnectSize \/ GetSubscriptionSize \/ GetPublishSize \/ GetFixedSize \/ GetSizeOfLengths
    PROVE  SenderInv'
<1>1. CASE GetConnectSize
  BY <1>1, MeasureKeeps DEF GetConnectSize, Measured
<1>2. CASE GetSubscriptionSize
  <2>1. PICK p \in Subscriptions :
            Measure(p, GetSubscriptionPacketSize(p.list, IF p.kind = "SUBSCRIBE" THEN 1 ELSE 0))
    BY <1>2 DEF GetSubscriptionSize
  <2>2. PICK s : s = GetSubscriptionPacketSize(p.list, IF p.kind = "SUBSCRIBE" THEN 1 ELSE 0)
    OBVIOUS
  <2>3. Measure(p, s)
    BY <2>1, <2>2
  <2>4. Measured(p, s)
    BY <2>2 DEF Measured
  <2>5. QED
    BY <2>3, <2>4, MeasureKeeps
<1>3. CASE GetPublishSize
  BY <1>3, MeasureKeeps DEF GetPublishSize, Measured
<1>4. CASE GetFixedSize
  <2>1. CASE \E p \in Acks : Measure(p, [status |-> "Success", remaining |-> 2, packet |-> 4])
    BY <2>1, MeasureKeeps DEF Measured
  <2>2. CASE \E type \in {Type.PINGREQ, Type.DISCONNECT} :
                 Measure([kind |-> "FIXED", type |-> type], [status |-> "Success", remaining |-> 0, packet |-> 2])
    <3>1. PICK type \in {Type.PINGREQ, Type.DISCONNECT} :
                 Measure([kind |-> "FIXED", type |-> type], [status |-> "Success", remaining |-> 0, packet |-> 2])
      BY <2>2
    <3>2. PICK p, s : p = [kind |-> "FIXED", type |-> type] /\ s = [status |-> "Success", remaining |-> 0, packet |-> 2]
      OBVIOUS
    <3>3. p \in Fixed
      BY <3>2 DEF Fixed
    <3>4. Measured(p, s) /\ Measure(p, s)
      BY <3>1, <3>2, <3>3 DEF Measured
    <3>5. QED
      BY <3>4, MeasureKeeps
  <2>3. QED
    BY <1>4, <2>1, <2>2 DEF GetFixedSize
<1>5. CASE GetSizeOfLengths
  <2>1. PICK l \in Lengths :
            Measure(l, IF l.kind = "publish lengths"
                       THEN CalculatePublishPacketSize(l.topic, l.payload, l.qos)
                       ELSE CalculateSubscriptionPacketSize(l.count, l.total, l.qosSize, FALSE))
    BY <1>5 DEF GetSizeOfLengths
  <2>2. l.kind = "publish lengths" \/ l.kind = "subscription lengths"
    BY PacketsAssumption DEF PublishLengths, SubscriptionLengths
  <2>3. PICK s : s = IF l.kind = "publish lengths"
                     THEN CalculatePublishPacketSize(l.topic, l.payload, l.qos)
                     ELSE CalculateSubscriptionPacketSize(l.count, l.total, l.qosSize, FALSE)
    OBVIOUS
  <2>4. Measured(l, s)
    BY <2>2, <2>3 DEF Measured
  <2>5. Measure(l, s)
    BY <2>1, <2>3
  <2>6. QED
    BY <2>4, <2>5, MeasureKeeps
<1>6. QED
  BY <1>1, <1>2, <1>3, <1>4, <1>5

(* The invariant holds before the first packet.                            *)
LEMMA InitSends == Init => SenderInv
<1>1. 0 \in 0 .. MaxRemainingLength
  BY LargestLength
<1>2. QED
  BY <1>1 DEF Init, SenderInv, NoPacket, NoAnswer, SizeRefused, MeasuredOnly

(* The payload behind a header makes the packet whole.                     *)
LEMMA PayloadKeeps ==
    ASSUME SenderInv, SendPayload
    PROVE  SenderInv'
<1>1. /\ stage = "header" /\ stage' = "written" /\ bytes' = bytes \o packet.payload
      /\ packet' = packet /\ sizes' = sizes /\ answer' = answer
  BY DEF SendPayload
<1>2. PICK p, s, b, a : p = packet /\ s = sizes /\ b = bytes /\ a = answer
  OBVIOUS
<1>3. /\ s.remaining \in 0 .. MaxRemainingLength /\ b \in Seq(Byte) /\ Measured(p, s) /\ s.status = "Success"
      /\ p.kind = "PUBLISH" /\ a.separate = Len(p.payload) /\ Len(b) = s.packet - a.separate
      /\ a.size \in Int /\ Len(b) <= a.size /\ p.kind \notin MeasuredOnly
      /\ a.status = "NoMemory" => a.size < s.packet - a.separate
  BY <1>1, <1>2 DEF SenderInv, MeasuredOnly
<1>4. p.payload \in Seq(Byte)
  <2>1. p \in Publish
    BY <1>3, MeasuredKinds
  <2>2. QED
    BY <2>1 DEF Publish
<1>5. PICK t \in Seq(Byte) : t = p.payload /\ Len(t) \in Nat /\ Len(b) \in Nat
  BY <1>3, <1>4, LenProperties
<1>6. b \o t \in Seq(Byte) /\ Len(b \o t) = Len(b) + Len(t)
  BY <1>3, Joined
<1>7. s.packet \in Nat
  BY <1>3, SizesAreInt
<1>8. Len(b \o t) = s.packet
  BY <1>3, <1>5, <1>6, <1>7
<1>10. bytes' = b \o t /\ packet' = p /\ sizes' = s /\ answer' = a
  BY <1>1, <1>2, <1>5
<1>11. Len(b \o t) <= a.size + a.separate
  BY <1>3, <1>5, <1>6
<1>12. QED
  BY <1>1, <1>3, <1>6, <1>8, <1>10, <1>11 DEF SenderInv

(* None of the readers fails for want of memory.                           *)
LEMMA HeaderStatus ==
    ASSUME NEW stream
    PROVE  GetTypeAndLength(stream).status \in {"Success", "NoDataAvailable", "BadResponse"}
<1>1. CASE stream = <<>>
  BY <1>1 DEF GetTypeAndLength
<1>2. CASE stream # <<>>
  <2> DEFINE bad == \/ ~ IncomingPacketValid(stream[1])
                    \/ GetRemainingLength(Tail(stream)) = InvalidLength
  <2>1. GetTypeAndLength(stream) =
            IF bad THEN [status |-> "BadResponse", type |-> stream[1], remaining |-> 0]
            ELSE [status |-> "Success", type |-> stream[1], remaining |-> GetRemainingLength(Tail(stream))]
    BY <1>2 DEF GetTypeAndLength
  <2> HIDE DEF bad
  <2>2. QED
    BY <2>1
<1>3. QED
  BY <1>1, <1>2

Deserialized(type, body) ==
    IF UpperHalf(type) = Type.PUBLISH THEN DeserializePublish(type, body) ELSE DeserializeAck(type, body)

Statuses == {"Success", "BadResponse", "ServerRefused"}

(* The statuses MQTT_DeserializeAck returns.                               *)
LEMMA AckStatus ==
    ASSUME NEW type, NEW body
    PROVE  DeserializeAck(type, body).status \in Statuses
<1> USE DEF Statuses
<1>1. DeserializeConnack(body).status \in Statuses
  <2>1. CASE Len(body) # 2
    BY <2>1 DEF DeserializeConnack, Answer
  <2>2. CASE Len(body) = 2
    <3> DEFINE reserved == body[1] > 1
               bad == body[2] > 5 \/ (body[1] = 1 /\ body[2] # 0)
               refused == body[2] > 0
    <3>1. DeserializeConnack(body) =
              IF reserved THEN Answer("BadResponse")
              ELSE [Answer(IF bad THEN "BadResponse" ELSE IF refused THEN "ServerRefused" ELSE "Success")
                       EXCEPT !.sessionPresent = (body[1] = 1)]
      BY <2>2 DEF DeserializeConnack
    <3> HIDE DEF reserved, bad, refused
    <3>2. QED
      BY <3>1 DEF Answer
  <2>3. QED
    BY <2>1, <2>2
<1>2. DeserializeSuback(body).status \in Statuses
  <2>1. CASE Len(body) < 3
    BY <2>1 DEF DeserializeSuback, Answer
  <2>2. CASE ~ (Len(body) < 3)
    <3>1. PICK status \in Statuses : status = ReadSubackStatus(From(body, 3))
      BY DEF ReadSubackStatus
    <3>2. DeserializeSuback(body) = [Answer(status) EXCEPT !.packetId = Decode16(body, 1)]
      BY <2>2, <3>1 DEF DeserializeSuback
    <3>3. QED
      BY <3>1, <3>2 DEF Answer
  <2>3. QED
    BY <2>1, <2>2
<1>3. DeserializeSimpleAck(body).status \in Statuses
  BY DEF DeserializeSimpleAck, Answer
<1>4. DeserializePingresp(body).status \in Statuses /\ Answer("BadResponse").status \in Statuses
  BY DEF DeserializePingresp, Answer
<1> USE DEF DeserializeAck
<1> HIDE DEF Statuses
<1>5. CASE type = Type.CONNACK
  BY <1>1, <1>5
<1>6. CASE type # Type.CONNACK /\ type = Type.SUBACK
  BY <1>2, <1>6
<1>7. CASE type # Type.CONNACK /\ type # Type.SUBACK /\ type = Type.PINGRESP
  BY <1>4, <1>7
<1>8. CASE type # Type.CONNACK /\ type # Type.SUBACK /\ type # Type.PINGRESP
  BY <1>3, <1>4, <1>8
<1>9. QED
  BY <1>5, <1>6, <1>7, <1>8

(* The statuses either deserialiser returns.                               *)
LEMMA DeserializedStatus ==
    ASSUME NEW type, NEW body
    PROVE  Deserialized(type, body).status \in Statuses
<1>1. DeserializePublish(type, body).status \in Statuses
  <2> DEFINE qos == QoSOf(type)
             topicLength == Decode16(body, 1)
             packetId == IF qos = 0 THEN 0 ELSE Decode16(body, topicLength + 3)
             bad == \/ qos = 3
                    \/ ~ RoomFor(body, qos, 3)
                    \/ ~ RoomFor(body, qos, topicLength + 2)
                    \/ qos # 0 /\ packetId = 0
             good == [status |-> "Success", packetId |-> packetId, qos |-> qos,
                      retain |-> HasBit(type, 1), dup |-> HasBit(type, 8),
                      topic |-> SubSeq(body, 3, topicLength + 2),
                      payload |-> From(body, topicLength + (IF qos = 0 THEN 3 ELSE 5))]
  <2>1. DeserializePublish(type, body) = IF bad THEN NoPublish ELSE good
    BY DEF DeserializePublish
  <2>2. NoPublish.status = "BadResponse" /\ good.status = "Success"
    BY DEF NoPublish
  <2> HIDE DEF bad, good
  <2>3. QED
    BY <2>1, <2>2 DEF Statuses
<1>2. DeserializeAck(type, body).status \in Statuses
  BY AckStatus
<1>3. QED
  BY <1>1, <1>2 DEF Deserialized

(* What is read leaves the sizes alone and is never short of memory.       *)
LEMMA InboundKeeps ==
    ASSUME SenderInv, Arrive \/ ReadHeader \/ ReadBody \/ MatchCall
    PROVE  SenderInv'
<1>1. CASE Arrive
  <2>1. PICK stream \in Streams : bytes' = stream
    BY <1>1 DEF Arrive
  <2>2. stream \in Seq(Byte)
    BY PacketsAssumption
  <2>3. stage = "idle" /\ stage' = "arrived" /\ packet' = packet /\ sizes' = sizes /\ answer' = answer
    BY <1>1 DEF Arrive
  <2>4. QED
    BY <2>1, <2>2, <2>3 DEF SenderInv, NoAnswer
<1>2. CASE ReadHeader
  <2>1. PICK a : a = GetTypeAndLength(bytes)
    OBVIOUS
  <2>2. /\ stage = "arrived" /\ answer' = a /\ stage' = IF a.status = "Success" THEN "framed" ELSE "refused"
        /\ packet' = packet /\ sizes' = sizes /\ bytes' = bytes
    BY <1>2, <2>1 DEF ReadHeader
  <2>3. a.status # "NoMemory"
    BY <2>1, HeaderStatus
  <2>4. QED
    BY <2>2, <2>3 DEF SenderInv
<1>3. CASE ReadBody
  <2> DEFINE body == SubSeq(bytes, HeaderSize + 1, HeaderSize + answer.remaining)
             whole == Len(bytes) >= HeaderSize + answer.remaining
  <2>1. /\ stage = "framed" /\ stage' = IF whole THEN "decoded" ELSE "refused"
        /\ packet' = IF whole THEN [kind |-> "INCOMING", type |-> answer.type, body |-> body] ELSE packet
        /\ answer' = IF ~ whole THEN [status |-> "RecvFailed"] ELSE Deserialized(answer.type, body)
        /\ sizes' = sizes /\ bytes' = bytes
    BY <1>3 DEF ReadBody, Deserialized
  <2>2. Deserialized(answer.type, body).status # "NoMemory"
    BY DeserializedStatus DEF Statuses
  <2> HIDE DEF body, whole
  <2>3. CASE whole
    BY <2>1, <2>2, <2>3 DEF SenderInv, MeasuredOnly
  <2>4. CASE ~ whole
    BY <2>1, <2>4 DEF SenderInv
  <2>5. QED
    BY <2>3, <2>4
<1>4. CASE MatchCall
  <2>1. PICK name \in TopicNames, filter \in TopicFilters :
            /\ packet' = [kind |-> "MATCH", name |-> name, filter |-> filter]
            /\ answer' = [status |-> "Success", isMatch |-> MatchTopic(name, filter)]
    BY <1>4 DEF MatchCall
  <2>2. stage = "idle" /\ stage' = "matched" /\ sizes' = sizes /\ bytes' = bytes
    BY <1>4 DEF MatchCall
  <2>3. answer'.status = "Success" /\ packet'.kind = "MATCH"
    BY <2>1
  <2>4. QED
    BY <2>2, <2>3 DEF SenderInv, MeasuredOnly
<1>5. QED
  BY <1>1, <1>2, <1>3, <1>4

(* Every step keeps the invariant of the sending side.                     *)
LEMMA SenderNext == SenderInv /\ [Next]_vars => SenderInv'
<1> SUFFICES ASSUME SenderInv, [Next]_vars PROVE SenderInv'
  OBVIOUS
<1>1. CASE GetConnectSize \/ GetSubscriptionSize \/ GetPublishSize \/ GetFixedSize \/ GetSizeOfLengths
  BY <1>1, SizeCallsKeep
<1>2. CASE ConnectCall \/ SubscribeCall \/ UnsubscribeCall \/ PublishCall \/ PublishHeaderCall
           \/ AckCall \/ FixedCall
  BY <1>2, SenderCallsKeep
<1>3. CASE SendPayload
  BY <1>3, PayloadKeeps
<1>4. CASE Arrive \/ ReadHeader \/ ReadBody \/ MatchCall
  BY <1>4, InboundKeeps
<1>5. CASE Done
  <2>1. 0 \in 0 .. MaxRemainingLength
    BY LargestLength
  <2>2. stage' = "idle" /\ packet' = NoPacket /\ sizes' = SizeRefused("none") /\ bytes' = <<>> /\ answer' = NoAnswer
    BY <1>5 DEF Done
  <2>3. NoPacket.kind = "none" /\ NoAnswer.status = "none" /\ SizeRefused("none").remaining = 0
    BY DEF NoPacket, NoAnswer, SizeRefused
  <2>4. /\ packet'.kind = "none" /\ answer'.status = "none" /\ sizes'.remaining = 0
        /\ "none" \notin MeasuredOnly /\ <<>> \in Seq(Byte)
    BY <2>2, <2>3 DEF MeasuredOnly
  <2>5. QED
    BY <2>1, <2>2, <2>4 DEF SenderInv
<1>6. CASE UNCHANGED vars
  <2>1. stage' = stage /\ packet' = packet /\ sizes' = sizes /\ bytes' = bytes /\ answer' = answer
    BY <1>6 DEF vars
  <2>2. SenderInv' <=> SenderInv
    BY <2>1 DEF SenderInv
  <2>3. QED
    BY <2>2
<1>7. QED
  BY <1>1, <1>2, <1>3, <1>4, <1>5, <1>6 DEF Next

(* The invariant of the sending side holds in every state.                 *)
LEMMA Sends == Spec => []SenderInv
BY InitSends, SenderNext, PTL DEF Spec

(* What is on the wire are bytes, and a remaining length is one that has   *)
(* an encoding, whatever the application gave.                             *)
THEOREM PacketsTyped == Spec => []TypeOK
<1>1. SenderInv => TypeOK
  <2> SUFFICES ASSUME SenderInv PROVE TypeOK
    OBVIOUS
  <2>1. \A i \in DOMAIN bytes : bytes[i] \in Byte
    <3>1. bytes \in Seq(Byte)
      BY DEF SenderInv
    <3>2. QED
      BY <3>1, ElementOfSeq
  <2>2. QED
    BY <2>1 DEF SenderInv, TypeOK
<1>2. QED
  BY <1>1, Sends, PTL

(* The bytes are as many as the size call has said, no serialiser runs     *)
(* over its buffer and none refuses one that would do, for packets of any  *)
(* length and buffers of any size.                                         *)
THEOREM BufferFits == Spec => []FitsBuffer
<1>1. SenderInv => FitsBuffer
  <2> SUFFICES ASSUME SenderInv PROVE FitsBuffer
    OBVIOUS
  <2>1. ASSUME stage = "header" PROVE Len(bytes) <= answer.size + answer.separate
    <3>1. PICK p, s, a : p = packet /\ s = sizes /\ a = answer
      OBVIOUS
    <3>2. /\ Measured(p, s) /\ s.status = "Success" /\ p.kind = "PUBLISH"
          /\ a.separate = Len(p.payload) /\ bytes \in Seq(Byte) /\ a.size \in Int /\ Len(bytes) <= a.size
      BY <2>1, <3>1 DEF SenderInv
    <3>3. p.payload \in Seq(Byte)
      <4>1. p \in Publish
        BY <3>2, MeasuredKinds
      <4>2. QED
        BY <4>1 DEF Publish
    <3>4. PICK n \in Nat, k \in Nat : n = a.separate /\ k = Len(bytes)
      BY <3>2, <3>3, LenProperties
    <3>5. k <= a.size + n
      BY <3>2, <3>4
    <3>6. QED
      BY <3>1, <3>4, <3>5
  <2>2. QED
    BY <2>1 DEF SenderInv, FitsBuffer
<1>2. QED
  BY <1>1, Sends, PTL

(* What is accepted by the size calls of lengths is what fits.             *)
LEMMA LengthsMeasured ==
    ASSUME NEW p, NEW s, Measured(p, s), p.kind \in MeasuredOnly
    PROVE  s.status = "Success" <=>
              IF p.kind = "publish lengths"
              THEN PacketSize(p.topic + 2 + (IF p.qos = 0 THEN 0 ELSE 2) + p.payload) <= MaxRemainingLength
              ELSE 2 + p.total + p.count * (2 + p.qosSize) <= MaxRemainingLength
<1>1. p.kind = "publish lengths" \/ p.kind = "subscription lengths"
  BY DEF MeasuredOnly
<1>2. \A n : Sized(n).status = "Success" /\ SizeRefused("BadParameter").status # "Success"
  BY DEF Sized, SizeRefused
<1>3. CASE p.kind = "publish lengths"
  <2>1. p \in PublishLengths /\ s = CalculatePublishPacketSize(p.topic, p.payload, p.qos)
    BY <1>3, MeasuredKinds
  <2>2. p.topic \in Nat /\ p.payload \in Nat /\ p.qos \in QoS
    <3>1. p.topic \in UINT16 /\ p.payload \in Nat /\ p.qos \in QoS
      BY <2>1 DEF PublishLengths
    <3>2. QED
      BY <3>1 DEF UINT16
  <2>3. (IF p.qos > 0 THEN 2 ELSE 0) = (IF p.qos = 0 THEN 0 ELSE 2)
    BY <2>2 DEF QoS
  <2>4. PublishRemaining(p.topic, p.payload, p.qos) = p.topic + 2 + (IF p.qos = 0 THEN 0 ELSE 2) + p.payload
    BY <2>3 DEF PublishRemaining
  <2>5. s.status = "Success" <=> PacketSize(PublishRemaining(p.topic, p.payload, p.qos)) <= MaxRemainingLength
    BY <1>2, <2>1, <2>2, PublishSizes
  <2>6. QED
    BY <1>3, <2>4, <2>5
<1>4. CASE p.kind = "subscription lengths"
  <2>1. p \in SubscriptionLengths /\ s = CalculateSubscriptionPacketSize(p.count, p.total, p.qosSize, FALSE)
    BY <1>4, MeasuredKinds
  <2>2. p.count \in Nat /\ p.total \in Nat /\ p.qosSize \in {0, 1}
    BY <2>1 DEF SubscriptionLengths
  <2>3. SubscriptionRemaining(p.count, p.total, p.qosSize) = 2 + p.total + p.count * (2 + p.qosSize)
    BY DEF SubscriptionRemaining
  <2>4. PICK count \in Nat, total \in Nat, qosSize \in {0, 1}, empty \in BOOLEAN :
            count = p.count /\ total = p.total /\ qosSize = p.qosSize /\ empty = FALSE
    BY <2>2
  <2>5. s = CalculateSubscriptionPacketSize(count, total, qosSize, empty) /\ ~ empty
    BY <2>1, <2>4
  <2>6. PICK n : n = SubscriptionRemaining(count, total, qosSize)
    OBVIOUS
  <2>7. /\ n <= MaxRemainingLength /\ ~ empty => s = Sized(n)
        /\ ~ (n <= MaxRemainingLength) \/ empty => s = SizeRefused("BadParameter")
    <3>1. PICK c : c = CalculateSubscriptionPacketSize(count, total, qosSize, empty)
      OBVIOUS
    <3>2. n <= MaxRemainingLength /\ ~ empty => c = Sized(n)
      BY <2>6, <3>1, SubscriptionSizes
    <3>3. ~ (n <= MaxRemainingLength) \/ empty => c = SizeRefused("BadParameter")
      BY ZenonT(40), <2>6, <3>1, SubscriptionSizes
    <3>4. QED
      BY <2>5, <3>1, <3>2, <3>3
  <2>8. s.status = "Success" <=> n <= MaxRemainingLength
    BY <1>2, <2>5, <2>7
  <2>9. QED
    BY <1>4, <2>3, <2>4, <2>6, <2>8
<1>5. QED
  BY <1>1, <1>3, <1>4

(* A publish is refused for its length exactly when the packet would be    *)
(* longer than the largest remaining length, subscriptions when their      *)
(* remaining length would, and the length field that goes on the wire is   *)
(* read back as what it was, for every length of every field.              *)
THEOREM SizesAreExact == Spec => []SizesExact
<1>1. SenderInv => SizesExact
  <2> SUFFICES ASSUME SenderInv PROVE SizesExact
    OBVIOUS
  <2> DEFINE fits(l) ==
                 IF l.kind = "publish lengths"
                 THEN PacketSize(l.topic + 2 + (IF l.qos = 0 THEN 0 ELSE 2) + l.payload) <= MaxRemainingLength
                 ELSE 2 + l.total + l.count * (2 + l.qosSize) <= MaxRemainingLength
             field == EncodeRemainingLength(sizes.remaining)
  <2>1. PICK p, s : p = packet /\ s = sizes
    OBVIOUS
  <2>2. ASSUME packet.kind \in MeasuredOnly PROVE stage = "sized" <=> fits(packet)
    <3>1. Measured(p, s) /\ p.kind \in MeasuredOnly /\ (stage = "sized" <=> s.status = "Success")
      BY <2>1, <2>2 DEF SenderInv
    <3>2. s.status = "Success" <=> fits(p)
      BY <3>1, LengthsMeasured
    <3> HIDE DEF fits
    <3>3. QED
      BY <2>1, <3>1, <3>2
  <2>3. ASSUME stage = "sized"
        PROVE  GetRemainingLength(field) = sizes.remaining /\ sizes.packet = 1 + Len(field) + sizes.remaining
    <3>1. Measured(p, s) /\ s.status = "Success" /\ s.remaining \in 0 .. MaxRemainingLength
      BY <2>1, <2>3 DEF SenderInv
    <3>2. s.packet = PacketSize(s.remaining)
      BY <3>1, SizesAreInt
    <3>3. GetRemainingLength(field) = s.remaining /\ Len(field) = EncodedSize(s.remaining)
      BY <2>1, <3>1, EncodedLength
    <3>4. QED
      BY <2>1, <3>2, <3>3 DEF PacketSize
  <2> HIDE DEF fits, field
  <2>4. QED
    BY <2>2, <2>3 DEF SizesExact, fits, field
<1>2. QED
  BY <1>1, Sends, PTL

-----------------------------------------------------------------------------
(* The receiving side                                                      *)

(* What was read of the bytes b: a packet p, and the answer a about it.    *)
Received(b, p, a) ==
    \E header, n :
        /\ header = GetTypeAndLength(b) /\ header.status = "Success"
        /\ n = 1 + EncodedSize(header.remaining) /\ Len(b) >= n + header.remaining
        /\ p = [kind |-> "INCOMING", type |-> header.type, body |-> SubSeq(b, n + 1, n + header.remaining)]
        /\ a = Deserialized(header.type, p.body)

ReceiverInv ==
    /\ bytes \in Seq(Byte)
    /\ stage = "framed" => answer = GetTypeAndLength(bytes) /\ answer.status = "Success"
    /\ stage = "decoded" => Received(bytes, packet, answer)

(* Only the calls that read a packet matter to it.                         *)
LEMMA ReceiverNext == ReceiverInv /\ SenderInv /\ SenderInv' /\ [Next]_vars => ReceiverInv'
<1> SUFFICES ASSUME ReceiverInv, SenderInv, SenderInv', [Next]_vars PROVE ReceiverInv'
  OBVIOUS
<1>1. bytes' \in Seq(Byte)
  BY DEF SenderInv
<1>2. ASSUME stage' \notin {"framed", "decoded"} PROVE ReceiverInv'
  BY <1>1, <1>2 DEF ReceiverInv
<1>3. CASE GetConnectSize \/ GetSubscriptionSize \/ GetPublishSize \/ GetFixedSize \/ GetSizeOfLengths
  <2>1. \E p, s : Measure(p, s)
    BY <1>3 DEF GetConnectSize, GetSubscriptionSize, GetPublishSize, GetFixedSize, GetSizeOfLengths
  <2>2. stage' \notin {"framed", "decoded"}
    BY <2>1 DEF Measure
  <2>3. QED
    BY <1>2, <2>2
<1>4. CASE ConnectCall \/ SubscribeCall \/ UnsubscribeCall \/ PublishCall \/ PublishHeaderCall
           \/ AckCall \/ FixedCall
  <2>1. ASSUME NEW kind, NEW next \in {"written", "header"}, NEW separate, NEW size, NEW w,
               Serialize(kind, next, separate, size, w)
        PROVE  stage' \notin {"framed", "decoded"}
    BY <2>1 DEF Serialize
  <2>2. stage' \notin {"framed", "decoded"}
    <3>1. CASE ConnectCall
      BY <2>1, <3>1 DEF ConnectCall
    <3>2. CASE SubscribeCall
      BY <2>1, <3>2 DEF SubscribeCall
    <3>3. CASE UnsubscribeCall
      BY <2>1, <3>3 DEF UnsubscribeCall
    <3>4. CASE PublishCall
      BY <2>1, <3>4 DEF PublishCall
    <3>5. CASE PublishHeaderCall
      BY <2>1, <3>5 DEF PublishHeaderCall
    <3>6. CASE AckCall
      BY <2>1, <3>6 DEF AckCall
    <3>7. CASE FixedCall
      BY <2>1, <3>7 DEF FixedCall
    <3>8. QED
      BY <1>4, <3>1, <3>2, <3>3, <3>4, <3>5, <3>6, <3>7
  <2>3. QED
    BY <1>2, <2>2
<1>5. CASE SendPayload \/ Arrive \/ MatchCall \/ Done
  BY <1>2, <1>5 DEF SendPayload, Arrive, MatchCall, Done
<1>6. CASE ReadHeader
  <2>1. PICK a : a = GetTypeAndLength(bytes)
    OBVIOUS
  <2>2. answer' = a /\ stage' = IF a.status = "Success" THEN "framed" ELSE "refused"
    BY <1>6, <2>1 DEF ReadHeader
  <2>3. bytes' = bytes
    BY <1>6 DEF ReadHeader
  <2>4. CASE a.status = "Success"
    BY <1>1, <2>1, <2>2, <2>3, <2>4 DEF ReceiverInv
  <2>5. CASE a.status # "Success"
    BY <1>2, <2>2, <2>5
  <2>6. QED
    BY <2>4, <2>5
<1>7. CASE ReadBody
  <2>1. PICK header, n, b : header = answer /\ n = HeaderSize /\ b = bytes
    OBVIOUS
  <2> DEFINE body == SubSeq(b, n + 1, n + header.remaining)
             whole == Len(b) >= n + header.remaining
  <2>2. /\ stage = "framed" /\ stage' = IF whole THEN "decoded" ELSE "refused"
        /\ packet' = IF whole THEN [kind |-> "INCOMING", type |-> header.type, body |-> body] ELSE packet
        /\ answer' = IF ~ whole THEN [status |-> "RecvFailed"] ELSE Deserialized(header.type, body)
        /\ bytes' = b
    BY <1>7, <2>1 DEF ReadBody, Deserialized
  <2>3. header = GetTypeAndLength(b) /\ header.status = "Success" /\ n = 1 + EncodedSize(header.remaining)
    BY <2>1, <2>2 DEF ReceiverInv, HeaderSize
  <2>4. CASE whole
    <3>1. PICK p : p = [kind |-> "INCOMING", type |-> header.type, body |-> body]
      OBVIOUS
    <3>2. PICK a : a = Deserialized(header.type, p.body)
      OBVIOUS
    <3>3. Received(b, p, a)
      BY <2>3, <2>4, <3>1, <3>2 DEF Received
    <3>4. packet' = p /\ answer' = a /\ stage' = "decoded"
      BY <2>2, <2>4, <3>1, <3>2
    <3>5. QED
      BY <1>1, <2>2, <3>3, <3>4 DEF ReceiverInv
  <2>5. CASE ~ whole
    BY <1>2, <2>2, <2>5
  <2>6. QED
    BY <2>4, <2>5
<1>8. CASE UNCHANGED vars
  <2>1. stage' = stage /\ packet' = packet /\ bytes' = bytes /\ answer' = answer
    BY <1>8 DEF vars
  <2>2. ReceiverInv' <=> ReceiverInv
    BY <2>1 DEF ReceiverInv
  <2>3. QED
    BY <2>2
<1>9. QED
  BY <1>3, <1>4, <1>5, <1>6, <1>7, <1>8 DEF Next

(* The invariant of the receiving side holds in every state.               *)
LEMMA Receives == Spec => []ReceiverInv
<1>1. Init => ReceiverInv
  BY DEF Init, ReceiverInv
<1>2. QED
  BY <1>1, ReceiverNext, Sends, PTL DEF Spec

(* A part of a sequence, possibly empty.                                   *)
LEMMA Slice ==
    ASSUME NEW S, NEW s \in Seq(S), NEW i \in Nat, NEW j \in Nat, 1 <= i, i <= j + 1, j <= Len(s)
    PROVE  /\ SubSeq(s, i, j) \in Seq(S) /\ Len(SubSeq(s, i, j)) = j - i + 1
           /\ \A k \in 1 .. j - i + 1 : SubSeq(s, i, j)[k] = s[i + k - 1]
<1>1. \A k \in i .. j : s[k] \in S
  <2>1. Len(s) \in Nat
    BY LenProperties
  <2>2. \A k \in i .. j : k \in 1 .. Len(s)
    BY <2>1
  <2>3. QED
    BY <2>2, ElementOfSeq
<1>2. /\ SubSeq(s, i, j) \in Seq(S)
      /\ Len(SubSeq(s, i, j)) = IF i <= j THEN j - i + 1 ELSE 0
      /\ \A k \in 1 .. j - i + 1 : SubSeq(s, i, j)[k] = s[i + k - 1]
  BY <1>1, SubSeqProperties
<1>3. (IF i <= j THEN j - i + 1 ELSE 0) = j - i + 1
  OBVIOUS
<1>4. QED
  BY <1>2, <1>3

(* What was read is at the front of what arrived, the length field in its  *)
(* one form, and the body is all that the field speaks of.                 *)
LEMMA ReceivedIsFramed ==
    ASSUME NEW b \in Seq(Byte), NEW p, NEW a, Received(b, p, a)
    PROVE  /\ p.type \in Byte /\ IncomingPacketValid(p.type)
           /\ p.body \in Seq(Byte) /\ Len(p.body) \in 0 .. MaxRemainingLength
           /\ a = Deserialized(p.type, p.body)
           /\ Len(b) >= PacketSize(Len(p.body))
           /\ IsPrefix(FixedHeader(p.type, Len(p.body)) \o p.body, b)
<1>1. PICK header, n :
          /\ header = GetTypeAndLength(b) /\ header.status = "Success"
          /\ n = 1 + EncodedSize(header.remaining) /\ Len(b) >= n + header.remaining
          /\ p = [kind |-> "INCOMING", type |-> header.type, body |-> SubSeq(b, n + 1, n + header.remaining)]
          /\ a = Deserialized(header.type, p.body)
  BY DEF Received
<1>2. b # <<>> /\ header.status = "Success"
  BY <1>1 DEF GetTypeAndLength
<1> DEFINE bad == ~ IncomingPacketValid(b[1]) \/ GetRemainingLength(Tail(b)) = InvalidLength
<1>3. header = IF bad THEN [status |-> "BadResponse", type |-> b[1], remaining |-> 0]
               ELSE [status |-> "Success", type |-> b[1], remaining |-> GetRemainingLength(Tail(b))]
  BY <1>1, <1>2 DEF GetTypeAndLength
<1>4. ~ bad
  <2> HIDE DEF bad
  <2>1. QED
    BY <1>2, <1>3
<1>5. header.type = b[1] /\ header.remaining = GetRemainingLength(Tail(b))
  <2> HIDE DEF bad
  <2>1. QED
    BY SMTT(30), <1>3, <1>4
<1>6. PICK t \in Seq(Byte) : t = Tail(b) /\ Len(t) = Len(b) - 1 /\ \A i \in 1 .. Len(t) : t[i] = b[i + 1]
  <2>1. b # <<>>
    BY <1>2
  <2>2. /\ Tail(b) \in Seq(Byte) /\ Len(Tail(b)) = Len(b) - 1
        /\ \A i \in 1 .. Len(Tail(b)) : Tail(b)[i] = b[i + 1]
    BY <2>1, HeadTailProperties
  <2>3. PICK t : t = Tail(b)
    OBVIOUS
  <2>4. QED
    BY Zenon, <2>2, <2>3
<1>7. PICK r \in Nat : r = GetRemainingLength(t) /\ r <= MaxRemainingLength /\ r \in 0 .. MaxRemainingLength
  <2>1. t \in Seq(0 .. 255) /\ GetRemainingLength(t) # InvalidLength
    BY <1>4, <1>6, ByteIs
  <2>2. GetRemainingLength(t) \in Nat /\ GetRemainingLength(t) <= MaxRemainingLength
    BY <2>1, LengthHasOneForm
  <2>3. QED
    BY <2>2, LargestLength
<1>8. /\ Len(EncodeRemainingLength(r)) = LengthEnd(t) /\ LengthEnd(t) <= Len(t)
      /\ \A i \in 1 .. LengthEnd(t) : EncodeRemainingLength(r)[i] = t[i]
  <2>1. t \in Seq(0 .. 255) /\ GetRemainingLength(t) # InvalidLength
    BY <1>4, <1>6, ByteIs
  <2>2. QED
    BY <1>7, <2>1, LengthHasOneForm
<1>9. PICK field \in Seq(Byte), k \in Nat :
          field = EncodeRemainingLength(r) /\ Len(field) = k /\ k = EncodedSize(r) /\ k >= 1
  BY <1>7, EncodedLength
<1>10. n = 1 + k /\ header.remaining = r /\ k <= Len(t) /\ \A i \in 1 .. k : field[i] = t[i]
  BY <1>1, <1>5, <1>6, <1>7, <1>8, <1>9
<1>18. n \in Nat /\ Len(b) \in Nat /\ n + r <= Len(b)
  <2>1. Len(b) \in Nat
    BY LenProperties
  <2>2. n \in Nat
    BY <1>9, <1>10
  <2>3. QED
    BY <1>1, <1>10, <2>1, <2>2
<1>11. PICK body \in Seq(Byte) :
           /\ body = SubSeq(b, n + 1, n + r) /\ Len(body) = r
           /\ \A i \in 1 .. r : body[i] = b[n + i]
  <2>1. n + 1 \in Nat /\ n + r \in Nat /\ 1 <= n + 1 /\ n + 1 <= (n + r) + 1 /\ n + r <= Len(b)
    BY <1>18
  <2>2. /\ SubSeq(b, n + 1, n + r) \in Seq(Byte) /\ Len(SubSeq(b, n + 1, n + r)) = (n + r) - (n + 1) + 1
        /\ \A i \in 1 .. (n + r) - (n + 1) + 1 : SubSeq(b, n + 1, n + r)[i] = b[(n + 1) + i - 1]
    BY <2>1, Slice
  <2>3. (n + r) - (n + 1) + 1 = r /\ \A i \in 1 .. r : (n + 1) + i - 1 = n + i
    BY <1>9, <1>10
  <2>4. PICK body : body = SubSeq(b, n + 1, n + r)
    OBVIOUS
  <2>5. body \in Seq(Byte) /\ Len(body) = r
    BY <2>2, <2>3, <2>4
  <2>6. ASSUME NEW i \in 1 .. r PROVE body[i] = b[n + i]
    <3>1. body[i] = b[(n + 1) + i - 1]
      BY <2>2, <2>3, <2>4
    <3>2. QED
      BY <2>3, <3>1
  <2>7. QED
    BY <2>4, <2>5, <2>6
<1>12. p.type = b[1] /\ p.body = body /\ a = Deserialized(b[1], body)
  BY <1>1, <1>5, <1>10, <1>11
<1>13. b[1] \in Byte
  <2>1. Len(b) \in Nat /\ Len(b) # 0
    BY <1>2, EmptySeq, LenProperties
  <2>2. QED
    BY <2>1, ElementOfSeq
<1>14. Len(b) >= PacketSize(r)
  BY <1>1, <1>9, <1>10 DEF PacketSize
<1>15. IsPrefix(FixedHeader(b[1], r) \o body, b)
  <2>1. PICK one \in Seq(Byte) : one = <<b[1]>> /\ Len(one) = 1 /\ one[1] = b[1]
    <3>1. <<b[1]>> \in Seq(Byte) /\ Len(<<b[1]>>) = 1 /\ <<b[1]>>[1] = b[1]
      BY <1>13
    <3>2. QED
      BY <3>1
  <2>2. PICK h \in Seq(Byte) : h = one \o field /\ Len(h) = n
    <3>1. one \o field \in Seq(Byte) /\ Len(one \o field) = Len(one) + Len(field)
      BY <2>1, <1>9, Joined
    <3>2. Len(one) + Len(field) = n
      BY <1>9, <1>10, <2>1
    <3>3. QED
      BY <3>1, <3>2
  <2>3. h = FixedHeader(b[1], r)
    BY <1>9, <2>1, <2>2 DEF FixedHeader
  <2>4. ASSUME NEW i \in 1 .. n PROVE h[i] = b[i]
    <3>1. CASE i = 1
      <4>1. (one \o field)[1] = one[1]
        BY <2>1, Joined
      <4>2. QED
        BY <2>1, <2>2, <3>1, <4>1
    <3>2. CASE i # 1
      <4>1. PICK j \in 1 .. k : i = 1 + j
        <5>1. i - 1 \in 1 .. k /\ i = 1 + (i - 1)
          BY <1>9, <1>10, <3>2
        <5>2. QED
          BY <5>1
      <4>2. (one \o field)[Len(one) + j] = field[j]
        BY <1>9, Joined
      <4>3. field[j] = t[j] /\ t[j] = b[j + 1]
        <5>1. j \in 1 .. Len(t)
          BY <1>6, <1>10, LenProperties
        <5>2. QED
          BY <1>6, <1>10, <5>1
      <4>4. j + 1 = i
        BY <4>1
      <4>5. QED
        BY <2>1, <2>2, <4>1, <4>2, <4>3, <4>4
    <3>3. QED
      BY <3>1, <3>2
  <2>5. PICK w \in Seq(Byte) :
            /\ w = h \o body /\ Len(w) = n + r /\ \A i \in 1 .. n : w[i] = h[i]
            /\ \A i \in 1 .. r : w[n + i] = body[i]
    <3>1. /\ h \o body \in Seq(Byte) /\ Len(h \o body) = Len(h) + Len(body)
          /\ \A i \in 1 .. Len(h) : (h \o body)[i] = h[i]
          /\ \A i \in 1 .. Len(body) : (h \o body)[Len(h) + i] = body[i]
      BY Joined
    <3>2. Len(h) = n /\ Len(body) = r
      BY <1>11, <2>2
    <3>3. QED
      BY <3>1, <3>2
  <2>6. ASSUME NEW i \in 1 .. n + r PROVE w[i] = b[i]
    <3>1. CASE i <= n
      <4>1. i \in 1 .. n
        BY <1>9, <1>10, <3>1
      <4>2. QED
        BY <2>4, <2>5, <4>1
    <3>2. CASE ~ (i <= n)
      <4>1. PICK j \in 1 .. r : i = n + j
        <5>1. i - n \in 1 .. r /\ i = n + (i - n)
          BY <1>9, <1>10, <3>2
        <5>2. QED
          BY <5>1
      <4>2. QED
        BY <1>11, <2>5, <4>1
    <3>3. QED
      BY <3>1, <3>2
  <2>7. PICK m \in Nat : m = n + r /\ m <= Len(b)
    BY <1>1, <1>9, <1>10
  <2>8. SubSeq(w, 1, m) = w
    BY <2>5, <2>7, SubSeqFull
  <2>9. SubSeq(b, 1, m) \in Seq(Byte) /\ Len(SubSeq(b, 1, m)) = m /\ \A i \in 1 .. m : SubSeq(b, 1, m)[i] = b[i]
    <3>1. /\ SubSeq(b, 1, m) \in Seq(Byte) /\ Len(SubSeq(b, 1, m)) = m - 1 + 1
          /\ \A i \in 1 .. m - 1 + 1 : SubSeq(b, 1, m)[i] = b[1 + i - 1]
      BY <2>7, Slice
    <3>2. m - 1 + 1 = m /\ \A i \in 1 .. m : 1 + i - 1 = i
      OBVIOUS
    <3>3. QED
      BY <3>1, <3>2
  <2>10. SubSeq(b, 1, m) = w
    <3>1. PICK u \in Seq(Byte) : u = SubSeq(b, 1, m)
      BY <2>9
    <3>2. Len(u) = Len(w) /\ \A i \in 1 .. Len(u) : u[i] = w[i]
      BY <2>5, <2>6, <2>7, <2>9, <3>1
    <3>3. u = w
      BY <3>2, SeqEqual
    <3>4. QED
      BY <3>1, <3>3
  <2>11. IsPrefix(w, b)
    BY <2>5, <2>7, <2>8, <2>10 DEF IsPrefix
  <2>12. QED
    BY <2>3, <2>5, <2>11
<1>16. IncomingPacketValid(b[1])
  BY <1>4
<1>17. QED
  BY <1>7, <1>11, <1>12, <1>13, <1>14, <1>15, <1>16

(* A SUBACK that deserialises as a success grants every filter, one that   *)
(* reads as refused refuses some, whatever the broker sent.                *)
LEMMA SubackCodes ==
    ASSUME NEW body \in Seq(Byte), DeserializeSuback(body).status # "BadResponse"
    PROVE  /\ SubAckStatusCodes(Type.SUBACK, body).codes \in Seq(Byte)
           /\ Len(SubAckStatusCodes(Type.SUBACK, body).codes) = Len(body) - 2 /\ Len(body) - 2 > 0
           /\ \A i \in DOMAIN SubAckStatusCodes(Type.SUBACK, body).codes :
                 SubAckStatusCodes(Type.SUBACK, body).codes[i] \in {0, 1, 2, 128}
           /\ DeserializeSuback(body).status =
                 IF \E i \in DOMAIN SubAckStatusCodes(Type.SUBACK, body).codes :
                       SubAckStatusCodes(Type.SUBACK, body).codes[i] = 128
                 THEN "ServerRefused" ELSE "Success"
<1>1. ~ (Len(body) < 3)
  BY DEF DeserializeSuback, Answer
<1>2. PICK n \in Nat : n = Len(body) /\ n >= 3
  BY <1>1, LenProperties
<1>3. PICK codes \in Seq(Byte) : codes = From(body, 3) /\ Len(codes) = n - 2
  <2>1. SubSeq(body, 3, n) \in Seq(Byte) /\ Len(SubSeq(body, 3, n)) = n - 3 + 1
    BY <1>2, Slice
  <2>2. n - 3 + 1 = n - 2
    BY <1>2
  <2>3. QED
    BY <1>2, <2>1, <2>2 DEF From
<1>4. SubAckStatusCodes(Type.SUBACK, body).codes = codes
  BY <1>1, <1>3 DEF SubAckStatusCodes
<1>5. PICK status : status = ReadSubackStatus(codes)
  OBVIOUS
<1>6. DeserializeSuback(body).status = status
  <2>1. DeserializeSuback(body) = [Answer(status) EXCEPT !.packetId = Decode16(body, 1)]
    BY <1>1, <1>3, <1>5 DEF DeserializeSuback
  <2>2. QED
    BY <2>1 DEF Answer
<1>7. (\A i \in DOMAIN codes : codes[i] \in {0, 1, 2, 128})
      /\ status = IF \E i \in DOMAIN codes : codes[i] = 128 THEN "ServerRefused" ELSE "Success"
  BY <1>5, <1>6 DEF ReadSubackStatus
<1>8. QED
  BY <1>2, <1>3, <1>4, <1>6, <1>7

(* A SUBACK that deserialises as a success grants every filter, one that   *)
(* reads as refused refuses some and has no code that is not one, and the  *)
(* application is given all the codes, for bodies of any length.           *)
THEOREM SubacksAreTrue == Spec => []SubackTruth
<1>1. ReceiverInv => SubackTruth
  <2> SUFFICES ASSUME ReceiverInv, stage = "decoded", packet.type = Type.SUBACK, answer.status # "BadResponse"
               PROVE  SubackTruth
    BY DEF SubackTruth
  <2>1. PICK b, p, a : b = bytes /\ p = packet /\ a = answer
    OBVIOUS
  <2>2. p.body \in Seq(Byte) /\ a = Deserialized(p.type, p.body) /\ p.type = Type.SUBACK
    <3>1. b \in Seq(Byte) /\ Received(b, p, a)
      BY <2>1 DEF ReceiverInv
    <3>2. QED
      BY <2>1, <3>1, ReceivedIsFramed
  <2>3. a = DeserializeSuback(p.body)
    <3>1. UpperHalf(Type.SUBACK) # Type.PUBLISH /\ Type.SUBACK # Type.CONNACK
      BY SMT DEF UpperHalf, Type
    <3>2. QED
      BY <2>2, <3>1 DEF Deserialized, DeserializeAck
  <2>4. PICK codes : codes = SubAckStatusCodes(Type.SUBACK, p.body).codes
    OBVIOUS
  <2>5. /\ codes \in Seq(Byte) /\ Len(codes) = Len(p.body) - 2 /\ Len(p.body) - 2 > 0
        /\ \A i \in DOMAIN codes : codes[i] \in {0, 1, 2, 128}
        /\ a.status = IF \E i \in DOMAIN codes : codes[i] = 128 THEN "ServerRefused" ELSE "Success"
    <3>1. PICK body \in Seq(Byte) : body = p.body
      BY <2>2
    <3>2. DeserializeSuback(body).status # "BadResponse"
      BY <2>1, <2>3, <3>1
    <3>3. codes = SubAckStatusCodes(Type.SUBACK, body).codes /\ a = DeserializeSuback(body)
      BY <2>3, <2>4, <3>1
    <3>4. /\ codes \in Seq(Byte) /\ Len(codes) = Len(body) - 2 /\ Len(body) - 2 > 0
          /\ \A i \in DOMAIN codes : codes[i] \in {0, 1, 2, 128}
          /\ a.status = IF \E i \in DOMAIN codes : codes[i] = 128 THEN "ServerRefused" ELSE "Success"
      BY <3>2, <3>3, SubackCodes
    <3>5. QED
      BY <3>1, <3>4
  <2>6. Range(codes) \subseteq {0, 1, 2, 128} /\ (128 \in Range(codes) <=> \E i \in DOMAIN codes : codes[i] = 128)
    BY <2>5 DEF Range
  <2>7. /\ Len(codes) = Len(packet.body) - 2 /\ Len(codes) > 0
        /\ Range(codes) \subseteq {0, 1, 2, 128}
        /\ answer.status = IF 128 \in Range(codes) THEN "ServerRefused" ELSE "Success"
    BY <2>1, <2>5, <2>6
  <2>8. codes = SubAckStatusCodes(packet.type, packet.body).codes
    BY <2>1, <2>2, <2>4
  <2>9. QED
    BY <2>7, <2>8 DEF SubackTruth
<1>2. QED
  BY <1>1, Receives, PTL

-----------------------------------------------------------------------------
(* What is accepted, written out again                                     *)

(* Bytes joined in either order.                                           *)
LEMMA BytesJoin == \A s, t, u \in Seq(Byte) : (s \o t) \o u = s \o (t \o u)
BY ConcatAssociative

(* The parts of a body behind a header, joined one after another.          *)
LEMMA PartsOfBody ==
    ASSUME NEW f \in Seq(Byte), NEW body \in Seq(Byte), NEW k \in Nat, NEW m \in Nat,
           k <= m, m <= Len(body)
    PROVE  ((f \o SubSeq(body, 1, k)) \o SubSeq(body, k + 1, m)) \o SubSeq(body, m + 1, Len(body)) = f \o body
<1>1. PICK n \in Nat : n = Len(body)
  BY LenProperties
<1>2. /\ 1 \in 1 .. n + 1 /\ k \in 1 - 1 .. n /\ m \in k .. n /\ m \in 1 - 1 .. n /\ n \in m .. n
      /\ k + 1 \in Nat /\ m + 1 \in Nat /\ 1 <= k + 1 /\ 1 <= m + 1 /\ k + 1 <= m + 1 /\ m + 1 <= n + 1
      /\ 1 <= k + 1 /\ k <= n /\ m <= n
  BY <1>1
<1>3. SubSeq(body, 1, k) \o SubSeq(body, k + 1, m) = SubSeq(body, 1, m)
  BY <1>1, <1>2, ConcatAdjacentSubSeq
<1>4. SubSeq(body, 1, m) \o SubSeq(body, m + 1, n) = SubSeq(body, 1, n)
  BY <1>1, <1>2, ConcatAdjacentSubSeq
<1>5. SubSeq(body, 1, n) = body
  BY <1>1, SubSeqFull
<1>6. /\ SubSeq(body, 1, k) \in Seq(Byte) /\ SubSeq(body, k + 1, m) \in Seq(Byte)
      /\ SubSeq(body, m + 1, n) \in Seq(Byte)
  <2>1. SubSeq(body, 1, k) \in Seq(Byte)
    BY <1>1, <1>2, Slice
  <2>2. SubSeq(body, k + 1, m) \in Seq(Byte)
    BY <1>1, <1>2, Slice
  <2>3. SubSeq(body, m + 1, n) \in Seq(Byte)
    <3>1. n <= n
      OBVIOUS
    <3>2. QED
      BY <1>1, <1>2, <3>1, Slice
  <2>4. QED
    BY <2>1, <2>2, <2>3
<1>7. PICK head, pair, rest :
          /\ head = SubSeq(body, 1, k) /\ pair = SubSeq(body, k + 1, m) /\ rest = SubSeq(body, m + 1, n)
          /\ head \in Seq(Byte) /\ pair \in Seq(Byte) /\ rest \in Seq(Byte)
  BY <1>6
<1>8. (head \o pair) \o rest = body
  BY <1>3, <1>4, <1>5, <1>7
<1>9. PICK front : front = head \o pair /\ front \in Seq(Byte)
  <2>1. head \o pair \in Seq(Byte)
    BY <1>7, Joined
  <2>2. QED
    BY <2>1
<1>10. (f \o head) \o pair = f \o front
  <2>1. head \in Seq(Byte) /\ pair \in Seq(Byte)
    BY <1>7
  <2>2. (f \o head) \o pair = f \o (head \o pair)
    BY <2>1, BytesJoin
  <2>3. QED
    BY <1>9, <2>2
<1>11. (f \o front) \o rest = f \o (front \o rest)
  <2>1. front \in Seq(Byte) /\ rest \in Seq(Byte)
    BY <1>7, <1>9
  <2>2. QED
    BY <2>1, BytesJoin
<1>12. ((f \o head) \o pair) \o rest = f \o body
  BY <1>8, <1>9, <1>10, <1>11
<1>13. QED
  BY <1>1, <1>7, <1>12

InParts(w, f, body) ==
    \E k, m \in Nat :
        /\ k <= m /\ m <= Len(body)
        /\ w = ((f \o SubSeq(body, 1, k)) \o SubSeq(body, k + 1, m)) \o SubSeq(body, m + 1, Len(body))

(* Bytes that are written in such parts are the header and the whole body. *)
LEMMA PartsAreWhole ==
    ASSUME NEW f \in Seq(Byte), NEW body \in Seq(Byte), NEW w, InParts(w, f, body)
    PROVE  w = f \o body
BY PartsOfBody DEF InParts

(* Two bytes of a stream are what Encode16 writes for the number they are. *)
LEMMA PairReadsBack ==
    ASSUME NEW b \in Seq(Byte), NEW i \in Nat, 1 <= i, i + 1 <= Len(b)
    PROVE  Decode16(b, i) \in UINT16 /\ Encode16(Decode16(b, i)) = SubSeq(b, i, i + 1)
<1>1. b[i] \in Byte /\ b[i + 1] \in Byte
  <2>1. Len(b) \in Nat
    BY LenProperties
  <2>2. i \in 1 .. Len(b) /\ i + 1 \in 1 .. Len(b)
    BY <2>1
  <2>3. QED
    BY <2>2, ElementOfSeq
<1>2. PICK x \in Byte, y \in Byte : x = b[i] /\ y = b[i + 1]
  BY <1>1
<1>3. /\ 256 * x + y \in Nat /\ 256 * x + y < 65536
      /\ (256 * x + y) \div 256 = x /\ (256 * x + y) % 256 = y
  BY SMT DEF Byte
<1>4. Decode16(b, i) = 256 * x + y
  BY <1>2 DEF Decode16
<1>5. Decode16(b, i) \in UINT16
  BY SMT, <1>3, <1>4 DEF UINT16
<1>6. PICK two \in Seq(Byte) : two = Encode16(Decode16(b, i)) /\ Len(two) = 2 /\ two[1] = x /\ two[2] = y
  BY <1>3, <1>4, <1>5, Encoded16
<1>7. PICK part \in Seq(Byte) : part = SubSeq(b, i, i + 1) /\ Len(part) = 2 /\ part[1] = x /\ part[2] = y
  <2>1. /\ SubSeq(b, i, i + 1) \in Seq(Byte) /\ Len(SubSeq(b, i, i + 1)) = (i + 1) - i + 1
        /\ \A k \in 1 .. (i + 1) - i + 1 : SubSeq(b, i, i + 1)[k] = b[i + k - 1]
    BY Slice
  <2>2. (i + 1) - i + 1 = 2 /\ i + 1 - 1 = i /\ i + 2 - 1 = i + 1
    OBVIOUS
  <2>3. PICK part \in Seq(Byte) : part = SubSeq(b, i, i + 1)
    BY <2>1
  <2>4. Len(part) = 2 /\ part[1] = b[i + 1 - 1] /\ part[2] = b[i + 2 - 1]
    BY <2>1, <2>2, <2>3
  <2>5. part[1] = x /\ part[2] = y
    BY <1>2, <2>2, <2>4
  <2>6. QED
    BY <2>3, <2>4, <2>5
<1>8. \A k \in 1 .. Len(two) : two[k] = part[k]
  <2>1. \A k \in 1 .. 2 : k = 1 \/ k = 2
    OBVIOUS
  <2>2. QED
    BY <1>6, <1>7, <2>1
<1>9. two = part
  BY <1>6, <1>7, <1>8, SeqEqual
<1>10. QED
  BY <1>5, <1>6, <1>7, <1>9

(* The flags of a PUBLISH are in the lower half of its first byte.         *)
LEMMA FlagsReadBack ==
    ASSUME NEW type \in Byte, UpperHalf(type) = Type.PUBLISH
    PROVE  /\ QoSOf(type) \in 0 .. 3
           /\ 48 + (Bit(HasBit(type, 1), 1) + 2 * QoSOf(type) + Bit(HasBit(type, 8), 8)) = type
<1>1. PICK b \in 0 .. 15 : type = 48 + b
  <2>1. type \in Nat /\ type < 256 /\ 16 * (type \div 16) = 48
    BY SMT DEF Byte, UpperHalf, Type
  <2>2. type - 48 \in 0 .. 15 /\ type = 48 + (type - 48)
    BY SMT, <2>1
  <2>3. QED
    BY <2>2
<1>2. PICK d \in 0 .. 1, q \in 0 .. 3, r \in 0 .. 1 : b = r + 2 * q + 8 * d
  <2>1. (b \div 8) \in 0 .. 1 /\ (b \div 2) % 4 \in 0 .. 3 /\ b % 2 \in 0 .. 1
    BY SMT
  <2>2. b = (b % 2) + 2 * ((b \div 2) % 4) + 8 * (b \div 8)
    BY SMT
  <2>3. QED
    BY <2>1, <2>2
<1>3. /\ (type \div 1) % 2 = r
      /\ (type \div 2) % 4 = q
      /\ (type \div 8) % 2 = d
  <2>1. type = 48 + r + 2 * q + 8 * d
    BY <1>1, <1>2
  <2>2. (type \div 1) % 2 = r
    BY SMT, <2>1
  <2>3. type \div 2 = 24 + q + 4 * d
    BY SMT, <2>1
  <2>4. (24 + q + 4 * d) % 4 = q
    BY SMT
  <2>5. type \div 8 = 6 + d
    BY SMT, <2>1
  <2>6. (6 + d) % 2 = d
    BY SMT
  <2>7. QED
    BY <2>2, <2>3, <2>4, <2>5, <2>6
<1>4. QoSOf(type) = q
  BY <1>3 DEF QoSOf
<1>5. Bit(HasBit(type, 1), 1) = r
  BY <1>3 DEF Bit, HasBit
<1>6. Bit(HasBit(type, 8), 8) = 8 * d
  BY <1>3 DEF Bit, HasBit
<1>7. QED
  BY <1>1, <1>2, <1>4, <1>5, <1>6

(* The fields of a publish that was read.                                  *)
LEMMA PublishFields ==
    ASSUME NEW id, NEW qos, NEW retain, NEW dup, NEW topic, NEW payload, NEW a,
           a = [status |-> "Success", packetId |-> id, qos |-> qos, retain |-> retain, dup |-> dup,
                topic |-> topic, payload |-> payload]
    PROVE  /\ a.packetId = id /\ a.qos = qos /\ a.retain = retain /\ a.dup = dup
           /\ a.topic = topic /\ a.payload = payload
OBVIOUS

(* A publish that was accepted is written out again as it was read.        *)
LEMMA PublishWrittenAgain ==
    ASSUME NEW type \in Byte, UpperHalf(type) = Type.PUBLISH, NEW body \in Seq(Byte),
           Len(body) \in 0 .. MaxRemainingLength,
           NEW a, a = DeserializePublish(type, body), a.status = "Success",
           ~ PublishIsBad(a, a.packetId), NEW size \in Int, size >= PacketSize(Len(body))
    PROVE  SerializePublish(a, a.packetId, Len(body), size).bytes = FixedHeader(type, Len(body)) \o body
<1>1. PICK qos \in 0 .. 3 : qos = QoSOf(type)
  BY FlagsReadBack
<1>2. PICK l : l = Decode16(body, 1)
  OBVIOUS
<1> DEFINE id == IF qos = 0 THEN 0 ELSE Decode16(body, l + 3)
           bad == \/ qos = 3 \/ ~ RoomFor(body, qos, 3) \/ ~ RoomFor(body, qos, l + 2)
                  \/ qos # 0 /\ id = 0
           good == [status |-> "Success", packetId |-> id, qos |-> qos,
                    retain |-> HasBit(type, 1), dup |-> HasBit(type, 8),
                    topic |-> SubSeq(body, 3, l + 2),
                    payload |-> From(body, l + (IF qos = 0 THEN 3 ELSE 5))]
<1>3. a = IF bad THEN NoPublish ELSE good
  BY <1>1, <1>2 DEF DeserializePublish
<1>4. ~ bad
  <2> HIDE DEF bad, good
  <2>1. NoPublish.status # "Success"
    BY DEF NoPublish
  <2>2. QED
    BY <1>3, <2>1
<1>5. a = good
  <2> HIDE DEF bad, good
  <2>1. QED
    BY <1>3, <1>4
<1>6. /\ a.packetId = id /\ a.qos = qos /\ a.retain = HasBit(type, 1) /\ a.dup = HasBit(type, 8)
      /\ a.topic = SubSeq(body, 3, l + 2) /\ a.payload = From(body, l + (IF qos = 0 THEN 3 ELSE 5))
  <2>1. PICK newId, retain, dup, topic, payload :
            /\ newId = id /\ retain = HasBit(type, 1) /\ dup = HasBit(type, 8)
            /\ topic = SubSeq(body, 3, l + 2) /\ payload = From(body, l + (IF qos = 0 THEN 3 ELSE 5))
    OBVIOUS
  <2>2. a = [status |-> "Success", packetId |-> newId, qos |-> qos, retain |-> retain, dup |-> dup,
             topic |-> topic, payload |-> payload]
    BY <1>5, <2>1
  <2>3. /\ a.packetId = newId /\ a.qos = qos /\ a.retain = retain /\ a.dup = dup
        /\ a.topic = topic /\ a.payload = payload
    BY <2>2, PublishFields
  <2> HIDE DEF id
  <2>4. QED
    BY <2>1, <2>3
<1>7. PICK n \in Nat : n = Len(body)
  BY LenProperties
<1>8. /\ qos # 3 /\ n >= 3 + (IF qos = 0 THEN 0 ELSE 2)
      /\ n >= l + 2 + (IF qos = 0 THEN 0 ELSE 2)
  BY <1>4, <1>7 DEF RoomFor
<1> HIDE DEF bad, good
<1>9. n >= 3
  BY <1>8
<1>10. l \in UINT16 /\ l \in Nat /\ Encode16(l) = SubSeq(body, 1, 2)
  <2>1. Decode16(body, 1) \in UINT16 /\ Encode16(Decode16(body, 1)) = SubSeq(body, 1, 1 + 1)
    BY <1>7, <1>9, PairReadsBack
  <2>2. QED
    BY <1>2, <2>1 DEF UINT16
<1>11. n >= l + 2
  BY <1>8, <1>10
<1>15. PICK head \in Seq(Byte) : head = SubSeq(body, 1, l + 2) /\ EncodeString(a.topic) = head
  <2>12. PICK p1 \in Seq(Byte) : p1 = SubSeq(body, 1, 2)
    <3>1. SubSeq(body, 1, 2) \in Seq(Byte)
      BY <1>7, <1>9, Slice
    <3>2. QED
      BY <3>1
  <2>13. PICK topic \in Seq(Byte) : topic = SubSeq(body, 3, l + 2) /\ Len(topic) = l
    <3>1. l + 2 \in Nat /\ 3 <= (l + 2) + 1 /\ l + 2 <= n /\ (l + 2) - 3 + 1 = l
      BY <1>10, <1>11
    <3>2. SubSeq(body, 3, l + 2) \in Seq(Byte) /\ Len(SubSeq(body, 3, l + 2)) = (l + 2) - 3 + 1
      BY <1>7, <3>1, Slice
    <3>3. QED
      BY <3>1, <3>2
  <2>14. PICK head \in Seq(Byte) : head = SubSeq(body, 1, l + 2) /\ p1 \o topic = head
    <3>1. 1 \in 1 .. n + 1 /\ 2 \in 1 - 1 .. n /\ l + 2 \in 2 .. n /\ 2 + 1 = 3
      BY <1>9, <1>10, <1>11
    <3>2. SubSeq(body, 1, 2) \o SubSeq(body, 2 + 1, l + 2) = SubSeq(body, 1, l + 2)
      BY <1>7, <3>1, ConcatAdjacentSubSeq
    <3>3. SubSeq(body, 1, l + 2) = p1 \o topic
      BY <2>12, <2>13, <3>1, <3>2
    <3>4. p1 \o topic \in Seq(Byte)
      BY Joined
    <3>5. QED
      BY <3>3, <3>4
  <2>15. EncodeString(a.topic) = head
    <3>1. topic \in String16
      <4>1. l < 65536
        BY <1>10 DEF UINT16
      <4>2. QED
        BY <2>13, <4>1 DEF String16
    <3>2. EncodeString(topic) = Encode16(Len(topic)) \o topic
      BY <3>1, EncodedString
    <3>3. QED
      BY <1>6, <1>10, <2>12, <2>13, <2>14, <3>2
  <2>16. QED
    BY <2>14, <2>15
<1>16. PICK f \in Seq(Byte) : f = FixedHeader(type, n)
  BY <1>7, FixedHeaderLength
<1>17. Type.PUBLISH + PublishFlags(a) = type
  <2>1. Type.PUBLISH = 48
    BY DEF Type
  <2>2. PublishFlags(a) = Bit(HasBit(type, 1), 1) + 2 * QoSOf(type) + Bit(HasBit(type, 8), 8)
    BY <1>1, <1>6 DEF PublishFlags
  <2>3. 48 + (Bit(HasBit(type, 1), 1) + 2 * QoSOf(type) + Bit(HasBit(type, 8), 8)) = type
    BY FlagsReadBack
  <2>4. QED
    BY <2>1, <2>2, <2>3
<1>18. PICK idBytes : idBytes = IF a.qos > 0 THEN Encode16(a.packetId) ELSE <<>>
  OBVIOUS
<1>19. SerializePublish(a, a.packetId, n, size).bytes = ((f \o head) \o idBytes) \o a.payload
  <2>1. PICK w : w = PublishHeaderBytes(a, a.packetId, n) \o a.payload
    OBVIOUS
  <2>2. ~ (PacketSize(n) > size)
    <3>1. PacketSize(n) \in Nat
      <4>1. EncodedSize(n) \in Nat
        BY <1>7, EncodedLength
      <4>2. QED
        BY <4>1 DEF PacketSize
    <3>2. QED
      BY <1>7, <3>1
  <2>3. SerializePublish(a, a.packetId, n, size) = Written(w)
    BY <2>1, <2>2 DEF SerializePublish
  <2>4. PublishHeaderBytes(a, a.packetId, n) = (f \o head) \o idBytes
    BY <1>15, <1>16, <1>17, <1>18 DEF PublishHeaderBytes
  <2>5. Written(w).bytes = w
    BY DEF Written
  <2>6. QED
    BY <2>1, <2>3, <2>4, <2>5
<1>20. PICK k \in Nat, m \in Nat :
           /\ k = l + 2 /\ k <= m /\ m <= n
           /\ idBytes = SubSeq(body, k + 1, m) /\ a.payload = SubSeq(body, m + 1, n)
  <2>1. CASE qos = 0
    <3>1. PICK k \in Nat : k = l + 2 /\ k + 1 = l + 3 /\ k < k + 1
      BY <1>10
    <3>2. idBytes = <<>>
      BY <1>6, <1>18, <2>1
    <3>3. SubSeq(body, k + 1, k) = <<>>
      BY <3>1, SubSeqEmpty
    <3>4. a.payload = SubSeq(body, l + 3, n)
      BY <1>6, <1>7, <2>1 DEF From
    <3>5. k <= k /\ k <= n
      BY <1>11, <3>1
    <3>6. QED
      BY <3>1, <3>2, <3>3, <3>4, <3>5
  <2>2. CASE qos # 0
    <3>1. n >= (l + 2) + 2
      BY <1>8, <1>10, <2>2
    <3>2. PICK k \in Nat, m \in Nat :
              /\ k = l + 2 /\ m = l + 4 /\ k <= m /\ m <= n
              /\ l + 3 = k + 1 /\ l + 5 = m + 1 /\ (k + 1) + 1 = m /\ k + 1 \in Nat /\ 1 <= k + 1
      BY <1>10, <3>1
    <3>3. Encode16(Decode16(body, k + 1)) = SubSeq(body, k + 1, (k + 1) + 1)
      BY <1>7, <3>2, PairReadsBack
    <3>4. idBytes = Encode16(Decode16(body, l + 3))
      <4>1. qos > 0
        BY <2>2
      <4>2. QED
        BY <1>6, <1>18, <2>2, <4>1
    <3>5. a.payload = SubSeq(body, l + 5, n)
      BY <1>6, <1>7, <2>2 DEF From
    <3>6. QED
      BY <3>2, <3>3, <3>4, <3>5
  <2>3. QED
    BY <2>1, <2>2
<1>21. PICK w : w = SerializePublish(a, a.packetId, n, size).bytes
  OBVIOUS
<1>22. InParts(w, f, body)
  <2>1. k <= m /\ m <= Len(body)
    BY <1>7, <1>20
  <2>2. head = SubSeq(body, 1, k) /\ idBytes = SubSeq(body, k + 1, m) /\ a.payload = SubSeq(body, m + 1, Len(body))
    BY <1>7, <1>15, <1>20
  <2>3. w = ((f \o SubSeq(body, 1, k)) \o SubSeq(body, k + 1, m)) \o SubSeq(body, m + 1, Len(body))
    BY <1>19, <1>21, <2>2
  <2>4. QED
    BY <2>1, <2>3 DEF InParts
<1>23. w = f \o body
  BY <1>22, PartsAreWhole
<1>24. QED
  BY <1>7, <1>16, <1>21, <1>23

(* The same of an acknowledgement of a publish.                            *)
LEMMA AckWrittenAgain ==
    ASSUME NEW type \in Byte, UpperHalf(type) \in {UpperHalf(t) : t \in PublishAcks},
           NEW body \in Seq(Byte), NEW a, a = DeserializeAck(type, body), a.status = "Success"
    PROVE  SerializeAck(4, type, a.packetId).bytes = FixedHeader(type, Len(body)) \o body
<1>1. Answer("BadResponse").status # "Success"
  BY DEF Answer
<1>2. type # Type.CONNACK /\ type # Type.SUBACK /\ type # Type.PINGRESP /\ type # Type.UNSUBACK
  BY SMT DEF UpperHalf, Type, PublishAcks
<1>3. type \in PublishAcks /\ a = DeserializeSimpleAck(body)
  BY <1>1, <1>2 DEF DeserializeAck
<1>4. Len(body) = 2
  BY <1>1, <1>3 DEF DeserializeSimpleAck
<1>5. PICK id : id = Decode16(body, 1)
  OBVIOUS
<1>6. a = [Answer(IF id = 0 THEN "BadResponse" ELSE "Success") EXCEPT !.packetId = id]
  BY <1>3, <1>4, <1>5 DEF DeserializeSimpleAck
<1>7. a.packetId = id /\ id # 0
  BY <1>6 DEF Answer
<1>8. id \in UINT16 /\ Encode16(id) = body
  <2>1. Decode16(body, 1) \in UINT16 /\ Encode16(Decode16(body, 1)) = SubSeq(body, 1, 1 + 1)
    <3>1. 1 + 1 <= Len(body) /\ 1 \in Nat /\ 1 <= 1
      BY <1>4
    <3>2. QED
      BY <3>1, PairReadsBack
  <2>2. SubSeq(body, 1, 2) = body
    BY <1>4, SubSeqFull
  <2>3. QED
    BY <1>5, <2>1, <2>2
<1>9. SerializeAck(4, type, a.packetId).bytes = <<type, 2>> \o body
  <2>1. SerializeAck(4, type, id) = Written(<<type, 2>> \o Encode16(id))
    BY <1>3, <1>7 DEF SerializeAck
  <2>2. QED
    BY <1>7, <1>8, <2>1 DEF Written
<1>10. EncodeRemainingLength(2) = <<2>>
  <2>1. 2 \div 128 = 0 /\ 2 % 128 = 2
    BY SMT
  <2>2. LengthByte(2) = 2
    BY SMT, <2>1 DEF LengthByte
  <2>3. QED
    BY <2>1, <2>2 DEF EncodeRemainingLength
<1>11. <<type>> \o <<2>> = <<type, 2>>
  <2>1. 2 \in Byte
    BY SMT DEF Byte
  <2>2. PICK one \in Seq(Byte), other \in Seq(Byte), two \in Seq(Byte) :
            /\ one = <<type>> /\ other = <<2>> /\ two = <<type, 2>>
            /\ Len(one) = 1 /\ Len(other) = 1 /\ Len(two) = 2 /\ two[1] = one[1] /\ two[2] = other[1]
    <3>1. <<type>> \in Seq(Byte) /\ <<2>> \in Seq(Byte) /\ <<type, 2>> \in Seq(Byte)
      BY <2>1
    <3>2. QED
      BY <3>1
  <2>3. QED
    BY <2>2, TwoJoined
<1>12. QED
  BY <1>4, <1>9, <1>10, <1>11 DEF FixedHeader

(* An accepted packet has one form on the wire: what is accepted is at the *)
(* front of what arrived, byte for byte, and it is what the device would   *)
(* write for it.  So no two byte strings are taken for the same publish or *)
(* acknowledgement, for packets of any length.                             *)
THEOREM InboundIsCanonical == Spec => []CanonicalInbound
<1>1. ReceiverInv => CanonicalInbound
  <2> SUFFICES ASSUME ReceiverInv, Accepted PROVE CanonicalInbound
    BY DEF CanonicalInbound
  <2>1. PICK b, p, a : b = bytes /\ p = packet /\ a = answer
    OBVIOUS
  <2>2. stage = "decoded" /\ answer.status = "Success"
    BY DEF Accepted
  <2>3. b \in Seq(Byte) /\ Received(b, p, a)
    BY <2>1, <2>2 DEF ReceiverInv
  <2>4. /\ p.type \in Byte /\ p.body \in Seq(Byte) /\ Len(p.body) \in 0 .. MaxRemainingLength
        /\ a = Deserialized(p.type, p.body) /\ Len(b) >= PacketSize(Len(p.body))
        /\ IsPrefix(FixedHeader(p.type, Len(p.body)) \o p.body, b)
    BY <2>3, ReceivedIsFramed
  <2>5. PICK type \in Byte, body \in Seq(Byte), size \in Int :
            type = p.type /\ body = p.body /\ size = Len(b)
    BY <2>3, <2>4, LenProperties
  <2>6. PICK framed : framed = FixedHeader(type, Len(body)) \o body
    OBVIOUS
  <2>7. IsPrefix(framed, b)
    BY <2>4, <2>5, <2>6
  <2>8. ASSUME UpperHalf(type) = Type.PUBLISH, ~ PublishIsBad(a, a.packetId)
        PROVE  SerializePublish(a, a.packetId, Len(body), size).bytes = framed
    <3>1. a = DeserializePublish(type, body)
      BY <2>4, <2>5, <2>8 DEF Deserialized
    <3>2. Len(body) \in 0 .. MaxRemainingLength /\ a.status = "Success" /\ size >= PacketSize(Len(body))
      BY <2>1, <2>2, <2>4, <2>5
    <3>3. QED
      BY <2>6, <2>8, <3>1, <3>2, PublishWrittenAgain
  <2>9. ASSUME UpperHalf(type) \in {UpperHalf(t) : t \in PublishAcks}
        PROVE  SerializeAck(4, type, a.packetId).bytes = framed
    <3>1. UpperHalf(type) # Type.PUBLISH
      BY SMT, <2>9 DEF UpperHalf, Type, PublishAcks
    <3>2. a = DeserializeAck(type, body) /\ a.status = "Success"
      BY <2>1, <2>2, <2>4, <2>5, <3>1 DEF Deserialized
    <3>3. QED
      BY <2>6, <2>9, <3>2, AckWrittenAgain
  <2>10. /\ bytes = b /\ answer = a /\ packet.type = type /\ packet.body = body /\ Len(bytes) = size
    BY <2>1, <2>5
  <2>11. /\ IsPrefix(framed, bytes)
         /\ (UpperHalf(type) = Type.PUBLISH /\ ~ PublishIsBad(answer, answer.packetId)) =>
                SerializePublish(answer, answer.packetId, Len(body), Len(bytes)).bytes = framed
         /\ UpperHalf(type) \in {UpperHalf(t) : t \in PublishAcks} =>
                SerializeAck(4, type, answer.packetId).bytes = framed
    BY <2>7, <2>8, <2>9, <2>10
  <2>12. QED
    BY <2>6, <2>10, <2>11 DEF CanonicalInbound
<1>2. QED
  BY <1>1, Receives, PTL

-----------------------------------------------------------------------------
(* What the broker reads                                                   *)

(* The bytes s stand in b from i on.                                       *)
Stands(b, i, s) ==
    /\ i \in Nat /\ 1 <= i /\ i + Len(s) <= Len(b) + 1
    /\ \A k \in 1 .. Len(s) : b[i + k - 1] = s[k]

(* Of two parts that stand there together each stands on its own.          *)
LEMMA StandsSplit ==
    ASSUME NEW b \in Seq(Byte), NEW i, NEW s \in Seq(Byte), NEW t \in Seq(Byte), Stands(b, i, s \o t)
    PROVE  Stands(b, i, s) /\ Stands(b, i + Len(s), t)
<1>1. PICK n \in Nat, m \in Nat, l \in Nat, j \in Nat : n = Len(s) /\ m = Len(t) /\ l = Len(b) /\ j = i
  BY LenProperties DEF Stands
<1>2. PICK st : st = s \o t
  OBVIOUS
<1>3. /\ Len(st) = n + m
      /\ \A k \in 1 .. n : st[k] = s[k]
      /\ \A k \in 1 .. m : st[n + k] = t[k]
  BY <1>1, <1>2, Joined
<1>4. 1 <= j /\ j + (n + m) <= l + 1 /\ \A k \in 1 .. n + m : b[j + k - 1] = st[k]
  BY <1>1, <1>2, <1>3 DEF Stands
<1>5. \A k \in 1 .. n : b[j + k - 1] = s[k]
  <2> TAKE k \in 1 .. n
  <2>1. k \in 1 .. n + m
    OBVIOUS
  <2>2. QED
    BY <1>3, <1>4, <2>1
<1>6. \A k \in 1 .. m : b[(j + n) + k - 1] = t[k]
  <2> TAKE k \in 1 .. m
  <2>1. n + k \in 1 .. n + m /\ j + (n + k) - 1 = (j + n) + k - 1
    OBVIOUS
  <2>2. b[j + (n + k) - 1] = st[n + k]
    BY <1>4, <2>1
  <2>3. QED
    BY <1>3, <2>1, <2>2
<1>7. j + n <= l + 1 /\ (j + n) + m <= l + 1 /\ 1 <= j + n /\ j + n \in Nat
  BY <1>4
<1>8. QED
  BY <1>1, <1>4, <1>5, <1>6, <1>7 DEF Stands

(* They can be read back as a whole.                                       *)
LEMMA StandsPart ==
    ASSUME NEW b \in Seq(Byte), NEW i, NEW s \in Seq(Byte), Stands(b, i, s)
    PROVE  SubSeq(b, i, i + Len(s) - 1) = s
<1>1. PICK n \in Nat, l \in Nat, j \in Nat, e \in Nat :
          n = Len(s) /\ l = Len(b) /\ j = i /\ e = j + n - 1
  <2>1. Len(s) \in Nat /\ Len(b) \in Nat /\ i \in Nat /\ 1 <= i
    BY LenProperties DEF Stands
  <2>2. i + Len(s) - 1 \in Nat
    BY <2>1
  <2>3. QED
    BY <2>1, <2>2
<1>2. 1 <= j /\ j <= e + 1 /\ e <= l /\ e - j + 1 = n
  BY <1>1 DEF Stands
<1>3. PICK part \in Seq(Byte) :
          part = SubSeq(b, j, e) /\ Len(part) = n /\ \A k \in 1 .. n : part[k] = b[j + k - 1]
  <2>1. /\ SubSeq(b, j, e) \in Seq(Byte) /\ Len(SubSeq(b, j, e)) = e - j + 1
        /\ \A k \in 1 .. e - j + 1 : SubSeq(b, j, e)[k] = b[j + k - 1]
    BY <1>1, <1>2, Slice
  <2>2. QED
    BY <1>2, <2>1
<1>4. \A k \in 1 .. Len(part) : part[k] = s[k]
  BY <1>1, <1>3 DEF Stands
<1>5. part = s
  BY <1>1, <1>3, <1>4, SeqEqual
<1>6. QED
  BY <1>1, <1>3, <1>5

(* A sequence stands in itself.                                            *)
LEMMA StandsItself ==
    ASSUME NEW b \in Seq(Byte)
    PROVE  Stands(b, 1, b)
<1>1. PICK n \in Nat : n = Len(b)
  BY LenProperties
<1>2. \A k \in 1 .. n : 1 + k - 1 = k
  OBVIOUS
<1>3. \A k \in 1 .. n : b[1 + k - 1] = b[k]
  BY <1>2
<1>4. 1 \in Nat /\ 1 <= 1 /\ 1 + n <= n + 1
  OBVIOUS
<1>5. QED
  BY <1>1, <1>3, <1>4 DEF Stands

(* A number of 16 bits is read as it was written.                          *)
LEMMA StandsNumber ==
    ASSUME NEW b \in Seq(Byte), NEW i, NEW n \in UINT16, Stands(b, i, Encode16(n))
    PROVE  Decode16(b, i) = n /\ i \in Nat /\ 1 <= i /\ i + 2 <= Len(b) + 1
<1>1. PICK two \in Seq(Byte) :
          two = Encode16(n) /\ Len(two) = 2 /\ two[1] = n \div 256 /\ two[2] = n % 256
  BY Encoded16
<1>2. i \in Nat /\ 1 <= i /\ i + 2 <= Len(b) + 1 /\ \A k \in 1 .. 2 : b[i + k - 1] = two[k]
  BY <1>1 DEF Stands
<1>3. b[i + 1 - 1] = two[1] /\ b[i + 2 - 1] = two[2] /\ i + 1 - 1 = i /\ i + 2 - 1 = i + 1
  BY <1>2
<1>4. b[i] = n \div 256 /\ b[i + 1] = n % 256
  BY <1>1, <1>3
<1>5. 256 * (n \div 256) + (n % 256) = n
  BY SMT DEF UINT16
<1>6. QED
  BY <1>2, <1>4, <1>5 DEF Decode16

(* A string is read as it was written, and the reader is behind it then.   *)
LEMMA StandsString ==
    ASSUME NEW b \in Seq(Byte), NEW i, NEW s \in String16, Stands(b, i, EncodeString(s))
    PROVE  /\ StringAt(b, i) = s /\ After(b, i) = i + Len(EncodeString(s))
           /\ After(b, i) = i + 2 + Len(s) /\ i \in Nat /\ 1 <= i /\ After(b, i) <= Len(b) + 1
<1>1. s \in Seq(Byte) /\ Len(s) \in Nat /\ Len(s) \in UINT16
  BY SMT DEF String16, UINT16
<1>2. PICK n \in UINT16, two \in Seq(Byte) : n = Len(s) /\ two = Encode16(n) /\ Len(two) = 2
  BY <1>1, Encoded16
<1>3. EncodeString(s) = two \o s /\ Len(EncodeString(s)) = 2 + Len(s)
  BY <1>2, EncodedString
<1>4. Stands(b, i, two) /\ Stands(b, i + 2, s)
  BY <1>1, <1>2, <1>3, StandsSplit
<1>5. Decode16(b, i) = Len(s) /\ i \in Nat /\ 1 <= i
  BY <1>2, <1>4, StandsNumber
<1>6. SubSeq(b, i + 2, (i + 2) + Len(s) - 1) = s
  BY <1>1, <1>4, StandsPart
<1>7. (i + 2) + Len(s) - 1 = i + 1 + Len(s) /\ i + (2 + Len(s)) = i + 2 + Len(s)
  BY <1>1, <1>5
<1>8. (i + 2) + Len(s) <= Len(b) + 1
  BY <1>4 DEF Stands
<1>9. QED
  BY <1>3, <1>5, <1>6, <1>7, <1>8 DEF StringAt, After

(* The one byte that stands there.                                         *)
LEMMA StandsByte ==
    ASSUME NEW b \in Seq(Byte), NEW i, NEW x, Stands(b, i, <<x>>)
    PROVE  b[i] = x /\ i + 1 <= Len(b) + 1
<1>1. Len(<<x>>) = 1 /\ <<x>>[1] = x
  OBVIOUS
<1>2. i \in Nat /\ i + 1 - 1 = i /\ i + 1 <= Len(b) + 1 /\ b[i + 1 - 1] = x
  BY <1>1 DEF Stands
<1>3. QED
  BY <1>2

(* No length that MQTT allows stands for an invalid one.                    *)
LEMMA LengthsAreValid == \A n \in Nat : n <= MaxRemainingLength => n # InvalidLength
BY SMT DEF MaxRemainingLength, InvalidLength

(* Behind a fixed header the reader finds the type, and where the rest     *)
(* starts, and that the packet is whole.                                   *)
LEMMA HeaderRead ==
    ASSUME NEW b \in Seq(Byte), NEW type \in Byte, NEW n \in 0 .. MaxRemainingLength,
           Stands(b, 1, FixedHeader(type, n)), Len(b) = PacketSize(n)
    PROVE  /\ WholePacket(b) /\ b[1] = type
           /\ BodyAt(b) = 1 + Len(FixedHeader(type, n)) /\ BodyAt(b) \in 3 .. 6
           /\ Len(b) = BodyAt(b) + n - 1
<1>1. PICK field \in Seq(Byte), size \in 1 .. 4 :
          field = EncodeRemainingLength(n) /\ size = EncodedSize(n) /\ Len(field) = size
  BY EncodedLength
<1>2. PICK one \in Seq(Byte) : one = <<type>> /\ Len(one) = 1
  <2>1. <<type>> \in Seq(Byte) /\ Len(<<type>>) = 1
    OBVIOUS
  <2>2. QED
    BY <2>1
<1>3. FixedHeader(type, n) = one \o field /\ Len(FixedHeader(type, n)) = 1 + size
  BY <1>1, <1>2, FixedHeaderLength DEF FixedHeader
<1>4. Stands(b, 1, one) /\ Stands(b, 1 + 1, field)
  BY ZenonT(40), <1>2, <1>3, StandsSplit
<1>5. b[1] = type
  BY <1>2, <1>4, StandsByte
<1>6. n \in Nat /\ n <= MaxRemainingLength /\ Len(b) = 1 + size + n /\ Len(b) \in Nat
  BY <1>1, LargestLength DEF PacketSize
<1>7. PICK l \in Nat, e \in Nat : l = Len(b) /\ e = 1 + size /\ 2 <= e /\ e <= l
  BY <1>1, <1>6
<1>8. SubSeq(b, 2, e) = field
  <2>1. SubSeq(b, 1 + 1, (1 + 1) + Len(field) - 1) = field
    BY <1>4, StandsPart
  <2>2. 1 + 1 = 2 /\ 2 + size - 1 = e
    BY <1>1, <1>7
  <2>3. QED
    BY <1>1, <2>1, <2>2
<1>9. PICK rest \in Seq(Byte) : rest = SubSeq(b, e + 1, l)
  <2>1. SubSeq(b, e + 1, l) \in Seq(Byte)
    BY <1>7, Slice
  <2>2. QED
    BY <2>1
<1>10. Tail(b) = field \o rest
  <2>1. Tail(b) = SubSeq(b, 2, l)
    <3>1. b # <<>>
      BY <1>7
    <3>2. QED
      BY <1>7, <3>1, TailIsSubSeq
  <2>2. 2 \in 1 .. l + 1 /\ e \in 2 - 1 .. l /\ l \in e .. l
    BY <1>7
  <2>3. SubSeq(b, 2, e) \o SubSeq(b, e + 1, l) = SubSeq(b, 2, l)
    BY <1>7, <2>2, ConcatAdjacentSubSeq
  <2>4. QED
    BY <1>8, <1>9, <2>1, <2>3
<1>11. PICK input : input = Tail(b)
  OBVIOUS
<1>12. GetRemainingLength(input) = n
  BY <1>1, <1>6, <1>9, <1>10, <1>11, ByteIs, LengthReadsBack
<1>13. LengthEnd(input) = size
  <2>1. InvalidLength # n
    <3>1. PICK m \in Nat : m = n /\ m <= MaxRemainingLength
      BY <1>6
    <3>2. m # InvalidLength
      BY <3>1, LengthsAreValid
    <3>3. QED
      BY <3>1, <3>2
  <2>2. PICK end : end = LengthEnd(input)
    OBVIOUS
  <2>3. PICK value : value = LengthValue(input, end)
    OBVIOUS
  <2>4. n = IF end = 0 THEN InvalidLength ELSE IF EncodedSize(value) # end THEN InvalidLength ELSE value
    BY <1>12, <2>2, <2>3 DEF GetRemainingLength
  <2>5. value = n /\ EncodedSize(value) = end
    BY <2>1, <2>4
  <2>6. QED
    BY <1>1, <2>2, <2>5
<1>14. BodyAt(b) = 2 + size
  BY <1>11, <1>13 DEF BodyAt
<1>15. Len(b) - BodyAt(b) + 1 = n /\ size > 0
  <2>1. PICK k \in Nat, m \in Nat : k = size /\ m = n /\ k > 0
    BY <1>1, <1>6
  <2>2. (1 + k + m) - (2 + k) + 1 = m
    BY <2>1
  <2>3. QED
    BY <1>6, <1>14, <2>1, <2>2
<1>16. WholePacket(b)
  BY <1>11, <1>12, <1>13, <1>15 DEF WholePacket
<1>17. 2 + size = 1 + (1 + size) /\ 2 + size \in 3 .. 6 /\ 1 + size + n = (2 + size) + n - 1
  <2>1. PICK k \in Nat, m \in Nat : k = size /\ m = n /\ 1 <= k /\ k <= 4
    BY <1>1, <1>6
  <2>2. 2 + k = 1 + (1 + k) /\ 2 + k \in 3 .. 6 /\ 1 + k + m = (2 + k) + m - 1
    BY <2>1
  <2>3. QED
    BY <2>1, <2>2
<1>18. QED
  BY <1>3, <1>5, <1>6, <1>14, <1>16, <1>17

(* The packet b is read as a whole, and its body where it is.              *)
ReadAsFramed(b, type, body) ==
    /\ b \in Seq(Byte) /\ WholePacket(b) /\ b[1] = type
    /\ BodyAt(b) = 2 + EncodedSize(Len(body)) /\ BodyAt(b) \in 3 .. 6
    /\ Len(b) = BodyAt(b) + Len(body) - 1 /\ Stands(b, BodyAt(b), body)

(* So is every packet that has the length of its body in front.            *)
LEMMA FramedIsWhole ==
    ASSUME NEW type \in Byte, NEW body \in Seq(Byte), Len(body) \in 0 .. MaxRemainingLength
    PROVE  ReadAsFramed(FixedHeader(type, Len(body)) \o body, type, body)
<1>1. PICK n \in 0 .. MaxRemainingLength : n = Len(body)
  OBVIOUS
<1>2. PICK header \in Seq(Byte), size \in 1 .. 4 :
          /\ header = FixedHeader(type, n) /\ Len(header) + n = PacketSize(n)
          /\ size = EncodedSize(n) /\ Len(header) = 1 + size
  BY FixedHeaderLength, EncodedLength
<1>3. PICK b \in Seq(Byte) : b = header \o body /\ Len(b) = PacketSize(n)
  <2>1. header \o body \in Seq(Byte) /\ Len(header \o body) = Len(header) + Len(body)
    BY Joined
  <2>2. QED
    BY <1>1, <1>2, <2>1
<1>4. Stands(b, 1, header \o body)
  BY <1>3, StandsItself
<1>5. Stands(b, 1, header) /\ Stands(b, 1 + Len(header), body)
  BY <1>4, StandsSplit
<1>6. /\ WholePacket(b) /\ b[1] = type /\ BodyAt(b) = 1 + Len(header) /\ BodyAt(b) \in 3 .. 6
      /\ Len(b) = BodyAt(b) + n - 1
  BY <1>2, <1>3, <1>5, HeaderRead
<1>7. 1 + (1 + size) = 2 + size
  OBVIOUS
<1>8. ReadAsFramed(b, type, body)
  BY <1>1, <1>2, <1>3, <1>5, <1>6, <1>7 DEF ReadAsFramed
<1>9. QED
  BY <1>1, <1>2, <1>3, <1>8

(* Truths that are equivalent are equal.                                   *)
LEMMA SameTruth == ASSUME NEW x \in BOOLEAN, NEW y \in BOOLEAN, x <=> y PROVE x = y
OBVIOUS

(* The flags of a publish are read as they were written.                   *)
LEMMA PublishTypeRead ==
    ASSUME NEW p, p.retain \in BOOLEAN, p.dup \in BOOLEAN, p.qos \in QoS,
           NEW type, type = Type.PUBLISH + PublishFlags(p)
    PROVE  /\ type \in Byte /\ UpperHalf(type) = Type.PUBLISH
           /\ type \notin {Type.CONNECT, Type.SUBSCRIBE, Type.UNSUBSCRIBE}
           /\ (type \div 2) % 4 = p.qos /\ HasBit(type, 1) = p.retain /\ HasBit(type, 8) = p.dup
<1>1. PICK r \in 0 .. 1, q \in 0 .. 2, d \in 0 .. 1 :
          /\ r = Bit(p.retain, 1) /\ 8 * d = Bit(p.dup, 8) /\ q = p.qos
          /\ (r = 1 <=> p.retain) /\ (d = 1 <=> p.dup)
  <2>1. PICK r \in 0 .. 1 : r = Bit(p.retain, 1) /\ (r = 1 <=> p.retain)
    BY DEF Bit
  <2>2. PICK d \in 0 .. 1 : d = Bit(p.dup, 1) /\ (d = 1 <=> p.dup)
    BY DEF Bit
  <2>3. 8 * d = Bit(p.dup, 8)
    <3>1. CASE d = 1
      <4>1. Bit(p.dup, 8) = 8
        BY <2>2, <3>1 DEF Bit
      <4>2. QED
        BY <3>1, <4>1
    <3>2. CASE d = 0
      <4>1. Bit(p.dup, 8) = 0
        BY <2>2, <3>2 DEF Bit
      <4>2. QED
        BY <3>2, <4>1
    <3>3. QED
      BY <3>1, <3>2
  <2>4. PICK q \in 0 .. 2 : q = p.qos
    BY DEF QoS
  <2>5. QED
    BY <2>1, <2>2, <2>3, <2>4
<1>2. type = 48 + (r + 2 * q + 8 * d)
  <2>1. Type.PUBLISH = 48
    BY DEF Type
  <2>2. PublishFlags(p) = r + 2 * q + 8 * d
    BY <1>1 DEF PublishFlags
  <2>3. QED
    BY <2>1, <2>2
<1>3. type \in Byte
  <2>1. type \in Nat /\ type < 256
    BY <1>2
  <2>2. QED
    BY <2>1 DEF Byte
<1>4. UpperHalf(type) = Type.PUBLISH
  <2>1. type \div 16 = 3
    BY SMT, <1>2
  <2>2. QED
    BY SMT, <2>1 DEF UpperHalf, Type
<1>5. type \notin {Type.CONNECT, Type.SUBSCRIBE, Type.UNSUBSCRIBE}
  <2>1. type >= 48 /\ type <= 63
    BY <1>2
  <2>2. QED
    BY SMT, <1>2, <2>1 DEF Type
<1>6. (type \div 2) % 4 = q
  <2>1. type \div 2 = 24 + q + 4 * d
    BY SMT, <1>2
  <2>2. (24 + q + 4 * d) % 4 = q
    BY SMT
  <2>3. QED
    BY <2>1, <2>2
<1>7. (type \div 1) % 2 = r
  BY SMT, <1>2
<1>8. (type \div 8) % 2 = d
  <2>1. type \div 8 = 6 + d
    BY SMT, <1>2
  <2>2. (6 + d) % 2 = d
    BY SMT
  <2>3. QED
    BY <2>1, <2>2
<1>9. HasBit(type, 1) = p.retain
  <2>1. HasBit(type, 1) <=> r = 1
    BY <1>7 DEF HasBit
  <2>2. HasBit(type, 1) \in BOOLEAN
    BY DEF HasBit
  <2>3. HasBit(type, 1) <=> p.retain
    BY <1>1, <2>1
  <2>4. QED
    BY <2>2, <2>3, SameTruth
<1>10. HasBit(type, 8) = p.dup
  <2>1. HasBit(type, 8) <=> d = 1
    BY <1>8 DEF HasBit
  <2>2. HasBit(type, 8) \in BOOLEAN
    BY DEF HasBit
  <2>3. HasBit(type, 8) <=> p.dup
    BY <1>1, <2>1
  <2>4. QED
    BY <2>2, <2>3, SameTruth
<1>11. QED
  BY <1>1, <1>3, <1>4, <1>5, <1>6, <1>9, <1>10

(* A publish whose packet id is not sent.                                  *)
LEMMA WithoutId ==
    ASSUME NEW p, p = [kind |-> "PUBLISH", packetId |-> p.packetId, qos |-> p.qos,
                       retain |-> p.retain, dup |-> p.dup, topic |-> p.topic, payload |-> p.payload]
    PROVE  [p EXCEPT !.packetId = 0] =
               [kind |-> "PUBLISH", packetId |-> 0, qos |-> p.qos, retain |-> p.retain, dup |-> p.dup,
                topic |-> p.topic, payload |-> p.payload]
<1>1. PICK id, qos, retain, dup, topic, payload :
          /\ id = p.packetId /\ qos = p.qos /\ retain = p.retain /\ dup = p.dup
          /\ topic = p.topic /\ payload = p.payload
  OBVIOUS
<1>2. [[kind |-> "PUBLISH", packetId |-> id, qos |-> qos, retain |-> retain, dup |-> dup,
        topic |-> topic, payload |-> payload] EXCEPT !.packetId = 0] =
               [kind |-> "PUBLISH", packetId |-> 0, qos |-> qos, retain |-> retain, dup |-> dup,
                topic |-> topic, payload |-> payload]
  OBVIOUS
<1>3. p = [kind |-> "PUBLISH", packetId |-> id, qos |-> qos, retain |-> retain, dup |-> dup,
        topic |-> topic, payload |-> payload]
  BY <1>1
<1>4. QED
  BY <1>1, <1>2, <1>3

(* A publish that is on the wire is read as it was given.                  *)
LEMMA PublishRead ==
    ASSUME NEW p \in Publish, ~ PublishIsBad(p, p.packetId), NEW n \in 0 .. MaxRemainingLength,
           n = PublishRemaining(Len(p.topic), Len(p.payload), p.qos)
    PROVE  ReadPacket(PublishHeaderBytes(p, p.packetId, n) \o p.payload) = Sent(p)
<1>1. /\ p.topic \in String16 /\ p.qos \in QoS /\ p.retain \in BOOLEAN /\ p.dup \in BOOLEAN
      /\ p.packetId \in UINT16 /\ p.kind = "PUBLISH" /\ (p.qos = 0 => ~ p.dup)
      /\ p = [kind |-> "PUBLISH", packetId |-> p.packetId, qos |-> p.qos, retain |-> p.retain,
              dup |-> p.dup, topic |-> p.topic, payload |-> p.payload]
  BY DEF Publish, PublishIsBad
<1>2. PICK payload \in Seq(Byte), l \in Nat : payload = p.payload /\ l = Len(payload)
  BY LenProperties DEF Publish
<1>3. PICK type : type = Type.PUBLISH + PublishFlags(p)
  OBVIOUS
<1>4. /\ type \in Byte /\ UpperHalf(type) = Type.PUBLISH
      /\ type \notin {Type.CONNECT, Type.SUBSCRIBE, Type.UNSUBSCRIBE}
      /\ (type \div 2) % 4 = p.qos /\ HasBit(type, 1) = p.retain /\ HasBit(type, 8) = p.dup
  BY <1>1, <1>3, PublishTypeRead
<1>5. PICK topic \in Seq(Byte), t \in Nat :
          topic = EncodeString(p.topic) /\ Len(topic) = 2 + t /\ t = Len(p.topic)
  <2>1. PICK name \in String16 : name = p.topic
    BY <1>1
  <2>2. EncodeString(name) \in Seq(Byte) /\ Len(EncodeString(name)) = 2 + Len(name)
    BY EncodedString
  <2>3. Len(name) \in Nat
    BY StringLength
  <2>4. QED
    BY <2>1, <2>2, <2>3
<1>6. PICK id \in Seq(Byte), i \in {0, 2} :
          /\ id = (IF p.qos > 0 THEN Encode16(p.packetId) ELSE <<>>)
          /\ Len(id) = i /\ i = (IF p.qos > 0 THEN 2 ELSE 0)
  <2>1. CASE p.qos > 0
    BY <1>1, <2>1, Encoded16
  <2>2. CASE ~ (p.qos > 0)
    <3>1. <<>> \in Seq(Byte) /\ Len(<<>>) = 0
      OBVIOUS
    <3>2. PICK none \in Seq(Byte) : none = <<>> /\ Len(none) = 0
      BY <3>1
    <3>3. none = IF p.qos > 0 THEN Encode16(p.packetId) ELSE <<>>
      BY <2>2, <3>2
    <3>4. 0 = IF p.qos > 0 THEN 2 ELSE 0
      BY <2>2
    <3>5. QED
      BY <3>2, <3>3, <3>4
  <2>3. QED
    BY <2>1, <2>2
<1>7. PICK rest \in Seq(Byte) : rest = id \o payload /\ Len(rest) = i + l
  <2>1. id \o payload \in Seq(Byte) /\ Len(id \o payload) = Len(id) + Len(payload)
    BY Joined
  <2>2. QED
    BY <1>2, <1>6, <2>1
<1>8. PICK body \in Seq(Byte) : body = topic \o rest /\ Len(body) = (2 + t) + (i + l)
  <2>1. topic \o rest \in Seq(Byte) /\ Len(topic \o rest) = Len(topic) + Len(rest)
    BY Joined
  <2>2. QED
    BY <1>5, <1>7, <2>1
<1>9. Len(body) = n
  <2>1. n = t + 2 + i + l
    BY <1>2, <1>5, <1>6 DEF PublishRemaining
  <2>2. QED
    BY <1>8, <2>1
<1>10. PICK header \in Seq(Byte) : header = FixedHeader(type, n)
  BY <1>4, FixedHeaderLength
<1>11. PICK b : b = PublishHeaderBytes(p, p.packetId, n) \o p.payload
  OBVIOUS
<1>12. b = header \o body
  <2>1. PublishHeaderBytes(p, p.packetId, n) = (header \o topic) \o id
    BY <1>3, <1>5, <1>6, <1>10 DEF PublishHeaderBytes
  <2>2. b = ((header \o topic) \o id) \o payload
    BY <1>2, <1>11, <2>1
  <2>3. header \o topic \in Seq(Byte)
    BY Joined
  <2>4. b = (header \o topic) \o rest
    BY ZenonT(40), <1>7, <2>2, <2>3, BytesJoin
  <2>5. QED
    BY ZenonT(40), <1>8, <2>4, BytesJoin
<1>13. /\ b \in Seq(Byte) /\ WholePacket(b) /\ b[1] = type
       /\ BodyAt(b) \in 3 .. 6 /\ Len(b) = BodyAt(b) + Len(body) - 1 /\ Stands(b, BodyAt(b), body)
  <2>1. type \in Byte /\ Len(body) \in 0 .. MaxRemainingLength
    BY <1>4, <1>9
  <2>2. ReadAsFramed(b, type, body)
    BY <1>9, <1>10, <1>12, <2>1, FramedIsWhole
  <2>3. QED
    BY <2>2 DEF ReadAsFramed
<1>14. PICK at \in 3 .. 6 : at = BodyAt(b)
  BY <1>13
<1>15. Stands(b, at, topic) /\ Stands(b, at + (2 + t), rest)
  BY <1>5, <1>8, <1>13, <1>14, StandsSplit
<1>16. StringAt(b, at) = p.topic /\ After(b, at) = at + (2 + t)
  <2>1. PICK name \in String16 : name = p.topic
    BY <1>1
  <2>2. Stands(b, at, EncodeString(name)) /\ b \in Seq(Byte)
    BY <1>5, <1>13, <1>15, <2>1
  <2>3. StringAt(b, at) = name /\ After(b, at) = at + Len(EncodeString(name))
    BY <2>2, StandsString
  <2>4. QED
    BY <1>5, <2>1, <2>3
<1>17. Stands(b, at + (2 + t), id) /\ Stands(b, (at + (2 + t)) + i, payload)
  <2>1. Stands(b, at + (2 + t), id \o payload) /\ Len(id) = i /\ b \in Seq(Byte)
    BY <1>6, <1>7, <1>13, <1>15
  <2>2. Stands(b, at + (2 + t), id) /\ Stands(b, (at + (2 + t)) + Len(id), payload)
    BY <2>1, StandsSplit
  <2>3. QED
    BY <2>1, <2>2
<1>18. SubSeq(b, (at + (2 + t)) + i, Len(b)) = payload
  <2>1. SubSeq(b, (at + (2 + t)) + i, ((at + (2 + t)) + i) + l - 1) = payload
    BY <1>2, <1>13, <1>17, StandsPart
  <2>2. Len(b) = at + ((2 + t) + (i + l)) - 1
    BY <1>8, <1>13, <1>14
  <2>3. PICK k \in 0 .. 2 : k = i
    BY <1>6
  <2>4. ((at + (2 + t)) + k) + l - 1 = at + ((2 + t) + (k + l)) - 1
    OBVIOUS
  <2>5. QED
    BY <2>1, <2>2, <2>3, <2>4
<1>19. p.qos > 0 => Decode16(b, at + (2 + t)) = p.packetId
  BY <1>1, <1>6, <1>13, <1>17, StandsNumber
<1>20. ReadPacket(b) = ReadPublish(b)
  BY <1>4, <1>13 DEF ReadPacket
<1>21. PICK end : end = at + (2 + t)
  OBVIOUS
<1>22. ReadPublish(b) =
          [kind |-> "PUBLISH", packetId |-> IF p.qos = 0 THEN 0 ELSE Decode16(b, end), qos |-> p.qos,
           retain |-> p.retain, dup |-> p.dup, topic |-> p.topic,
           payload |-> SubSeq(b, IF p.qos = 0 THEN end ELSE end + 2, Len(b))]
  <2>1. ~ (p.qos = 3 \/ (p.qos = 0 /\ p.dup))
    BY <1>1 DEF QoS
  <2>2. QED
    BY <1>4, <1>13, <1>14, <1>16, <1>21, <2>1 DEF ReadPublish
<1>23. CASE p.qos = 0
  <2>1. i = 0 /\ end + 0 = end
    BY <1>6, <1>21, <1>23
  <2>2. SubSeq(b, end, Len(b)) = p.payload
    BY <1>2, <1>18, <1>21, <2>1
  <2>3. ReadPublish(b) =
          [kind |-> "PUBLISH", packetId |-> 0, qos |-> p.qos,
           retain |-> p.retain, dup |-> p.dup, topic |-> p.topic, payload |-> p.payload]
    BY <1>22, <1>23, <2>2
  <2>4. Sent(p) = [p EXCEPT !.packetId = 0]
    BY <1>1, <1>23 DEF Sent
  <2>5. [p EXCEPT !.packetId = 0] =
          [kind |-> "PUBLISH", packetId |-> 0, qos |-> p.qos,
           retain |-> p.retain, dup |-> p.dup, topic |-> p.topic, payload |-> p.payload]
    BY <1>1, WithoutId
  <2>6. QED
    BY <1>11, <1>20, <2>3, <2>4, <2>5
<1>24. CASE p.qos # 0
  <2>1. p.qos > 0 /\ i = 2
    BY <1>1, <1>6, <1>24 DEF QoS
  <2>2. SubSeq(b, end + 2, Len(b)) = p.payload /\ Decode16(b, end) = p.packetId
    BY <1>2, <1>18, <1>19, <1>21, <2>1
  <2>3. ReadPublish(b) =
          [kind |-> "PUBLISH", packetId |-> p.packetId, qos |-> p.qos,
           retain |-> p.retain, dup |-> p.dup, topic |-> p.topic, payload |-> p.payload]
    BY <1>22, <1>24, <2>2
  <2>4. Sent(p) = p
    BY <1>1, <1>24 DEF Sent
  <2>5. QED
    BY <1>1, <1>11, <1>20, <2>3, <2>4
<1>25. QED
  BY <1>23, <1>24

(* A fixed header whose length field is one byte.                          *)
LEMMA ShortHeader ==
    ASSUME NEW type \in Byte, NEW n \in 0 .. 127
    PROVE  FixedHeader(type, n) = <<type, n>> /\ EncodedSize(n) = 1 /\ n \in 0 .. MaxRemainingLength
<1>1. EncodeRemainingLength(n) = <<n>>
  <2>1. n \div 128 = 0 /\ n % 128 = n
    BY SMT
  <2>2. LengthByte(n) = n
    BY SMT, <2>1 DEF LengthByte
  <2>3. QED
    BY <2>1, <2>2 DEF EncodeRemainingLength
<1>2. <<type>> \o <<n>> = <<type, n>>
  <2>1. n \in Byte
    BY SMT DEF Byte
  <2>2. PICK one \in Seq(Byte), other \in Seq(Byte), two \in Seq(Byte) :
            /\ one = <<type>> /\ other = <<n>> /\ two = <<type, n>>
            /\ Len(one) = 1 /\ Len(other) = 1 /\ Len(two) = 2 /\ two[1] = one[1] /\ two[2] = other[1]
    <3>1. <<type>> \in Seq(Byte) /\ <<n>> \in Seq(Byte) /\ <<type, n>> \in Seq(Byte)
      BY <2>1
    <3>2. QED
      BY <3>1
  <2>3. QED
    BY <2>2, TwoJoined
<1>3. EncodedSize(n) = 1
  BY SMT DEF EncodedSize
<1>4. n \in 0 .. MaxRemainingLength
  <2>1. 127 <= MaxRemainingLength
    BY SMT DEF MaxRemainingLength
  <2>2. QED
    BY <2>1, LargestLength
<1>5. QED
  BY <1>1, <1>2, <1>3, <1>4 DEF FixedHeader

(* An acknowledgement is read as it was given.                             *)
LEMMA AckRead ==
    ASSUME NEW p \in Ack, p.type \in PublishAcks
    PROVE  ReadPacket(<<p.type, 2>> \o Encode16(p.packetId)) = Sent(p)
<1>1. PICK type \in Byte, id \in UINT16 :
          /\ type = p.type /\ id = p.packetId /\ type \in PublishAcks
          /\ p = [kind |-> "ACK", type |-> type, packetId |-> id]
  BY DEF Ack
<1>2. PICK body \in Seq(Byte) : body = Encode16(id) /\ Len(body) = 2
  BY Encoded16
<1>3. 2 \in 0 .. 127 /\ 2 \in 0 .. MaxRemainingLength
  BY LargestLength
<1>4. FixedHeader(type, 2) = <<type, 2>> /\ EncodedSize(2) = 1
  BY <1>3, ShortHeader
<1>5. PICK b : b = <<type, 2>> \o body
  OBVIOUS
<1>6. ReadAsFramed(b, type, body)
  BY <1>2, <1>3, <1>4, <1>5, FramedIsWhole
<1>7. b \in Seq(Byte) /\ WholePacket(b) /\ b[1] = type /\ Stands(b, 3, body)
  BY <1>2, <1>4, <1>6 DEF ReadAsFramed
<1>8. Decode16(b, 3) = id
  BY <1>2, <1>7, StandsNumber
<1>9. /\ type \notin {Type.CONNECT, Type.SUBSCRIBE, Type.UNSUBSCRIBE}
      /\ UpperHalf(type) # Type.PUBLISH
  BY SMT, <1>1 DEF PublishAcks, Type, UpperHalf
<1>10. ReadPacket(b) = [kind |-> "ACK", type |-> type, packetId |-> id]
  BY <1>1, <1>7, <1>8, <1>9 DEF ReadPacket
<1>11. Sent(p) = p
  BY <1>1 DEF Sent
<1>12. QED
  BY <1>1, <1>2, <1>5, <1>10, <1>11

(* A packet without a body is read as it was given.                        *)
LEMMA FixedRead ==
    ASSUME NEW p \in Fixed
    PROVE  ReadPacket(<<p.type, 0>>) = Sent(p)
<1>1. PICK type \in {Type.PINGREQ, Type.DISCONNECT} : type = p.type /\ p = [kind |-> "FIXED", type |-> type]
  BY DEF Fixed
<1>2. /\ type \in Byte /\ type \notin {Type.CONNECT, Type.SUBSCRIBE, Type.UNSUBSCRIBE}
      /\ UpperHalf(type) # Type.PUBLISH /\ type \notin PublishAcks
  BY SMT DEF PublishAcks, Type, UpperHalf, Byte
<1>3. PICK body \in Seq(Byte) : body = <<>> /\ Len(body) = 0
  <2>1. <<>> \in Seq(Byte) /\ Len(<<>>) = 0
    OBVIOUS
  <2>2. QED
    BY <2>1
<1>4. 0 \in 0 .. 127 /\ 0 \in 0 .. MaxRemainingLength
  BY LargestLength
<1>5. FixedHeader(type, 0) = <<type, 0>>
  BY <1>2, <1>4, ShortHeader
<1>6. PICK header \in Seq(Byte) : header = FixedHeader(type, 0)
  BY <1>2, <1>4, FixedHeaderLength
<1>7. header \o body = header
  BY <1>3, JoinedEmpty
<1>8. ReadAsFramed(header, type, body)
  BY <1>2, <1>3, <1>4, <1>6, <1>7, FramedIsWhole
<1>9. WholePacket(header) /\ header[1] = type
  BY <1>8 DEF ReadAsFramed
<1>10. ReadPacket(header) = [kind |-> "FIXED", type |-> type]
  BY <1>2, <1>9 DEF ReadPacket
<1>11. Sent(p) = p
  BY <1>1 DEF Sent
<1>12. QED
  BY <1>1, <1>5, <1>6, <1>10, <1>11

(* The entry of a list that starts at k, and where the next one starts.    *)
FilterAt(b, k, qosSize) ==
    [filter |-> StringAt(b, k), qos |-> IF qosSize = 1 THEN b[After(b, k)] ELSE 0]

(* The place of the entry that follows.                                    *)
NextAt(b, k, qosSize) == After(b, k) + qosSize

(* What is read from k on when h has what is read from behind it on.       *)
ReadStep(b, k, qosSize, h) ==
    IF k > Len(b) THEN <<>>
    ELSE IF k = Len(b) \/ After(b, k) + qosSize > Len(b) + 1 THEN <<Unreadable>>
    ELSE <<FilterAt(b, k, qosSize)>> \o h[NextAt(b, k, qosSize)]

(* The reader of FiltersFrom: it moves on with each entry, so it is        *)
(* defined.                                                                *)
LEMMA FiltersReader ==
    ASSUME NEW b \in Seq(Byte), NEW i \in Nat, 1 <= i, i <= Len(b) + 1, NEW qosSize \in {0, 1}
    PROVE  \E h : /\ \A k \in i .. Len(b) + 1 : h[k] = ReadStep(b, k, qosSize, h)
                  /\ FiltersFrom(b, i, qosSize) = h[i]
<1>1. PICK l \in Nat : l = Len(b)
  BY LenProperties
<1> DEFINE D == i .. l + 1
           Entries == {Unreadable} \union {FilterAt(b, k, qosSize) : k \in D}
           S == Seq(Entries)
           F == [D -> S]
           measure == [k \in D |-> l + 1 - k]
           step == [p \in D \X F |-> ReadStep(b, p[1], qosSize, p[2])]
           Solves(h) == h = [k \in i .. Len(b) + 1 |->
                              IF k > Len(b) THEN <<>>
                              ELSE IF k = Len(b) \/ After(b, k) + qosSize > Len(b) + 1 THEN <<Unreadable>>
                              ELSE <<[filter |-> StringAt(b, k), qos |-> IF qosSize = 1 THEN b[After(b, k)] ELSE 0]>>
                                   \o h[After(b, k) + qosSize]]
<1>2. ASSUME NEW k \in D, k < l
      PROVE  NextAt(b, k, qosSize) \in Nat /\ NextAt(b, k, qosSize) > k
  <2>1. k \in 1 .. l /\ k + 1 \in 1 .. l
    BY <1>2
  <2>2. b[k] \in Byte /\ b[k + 1] \in Byte
    BY <1>1, <2>1, ElementOfSeq
  <2>3. PICK x \in Nat, y \in Nat : x = b[k] /\ y = b[k + 1]
    BY <2>2 DEF Byte
  <2>4. NextAt(b, k, qosSize) = k + 2 + (256 * x + y) + qosSize
    BY <2>3 DEF NextAt, After, Decode16
  <2>5. QED
    BY <2>4
<1>3. ASSUME NEW k \in D, NEW g \in F PROVE ReadStep(b, k, qosSize, g) \in S
  <2>1. CASE k > l
    BY <1>1, <2>1 DEF ReadStep
  <2>2. CASE ~ (k > l) /\ (k = l \/ After(b, k) + qosSize > l + 1)
    <3>1. ReadStep(b, k, qosSize, g) = <<Unreadable>>
      BY <1>1, <2>2 DEF ReadStep
    <3>2. Unreadable \in Entries
      OBVIOUS
    <3> HIDE DEF Entries
    <3>3. QED
      BY <3>1, <3>2
  <2>3. CASE ~ (k > l) /\ ~ (k = l \/ After(b, k) + qosSize > l + 1)
    <3>1. ReadStep(b, k, qosSize, g) = <<FilterAt(b, k, qosSize)>> \o g[NextAt(b, k, qosSize)]
      BY <1>1, <2>3 DEF ReadStep
    <3>2. k < l
      BY <2>3
    <3>3. NextAt(b, k, qosSize) \in D
      <4>1. NextAt(b, k, qosSize) \in Nat /\ NextAt(b, k, qosSize) > k
        BY <1>2, <3>2
      <4>2. ~ (NextAt(b, k, qosSize) > l + 1)
        BY <2>3 DEF NextAt
      <4>3. QED
        BY <4>1, <4>2
    <3>4. PICK rest \in S : rest = g[NextAt(b, k, qosSize)]
      <4> HIDE DEF S, D
      <4>1. QED
        BY <3>3
    <3>5. FilterAt(b, k, qosSize) \in Entries
      OBVIOUS
    <3>6. PICK e \in Entries : e = FilterAt(b, k, qosSize)
      BY <3>5
    <3> HIDE DEF Entries
    <3>7. <<e>> \in Seq(Entries)
      OBVIOUS
    <3>8. <<e>> \o rest \in Seq(Entries)
      BY <3>7, Joined
    <3>9. QED
      BY <3>1, <3>4, <3>6, <3>8
  <2>4. QED
    BY <2>1, <2>2, <2>3
<1>4. measure \in [D -> Nat]
  <2>1. \A k \in D : l + 1 - k \in Nat
    OBVIOUS
  <2> HIDE DEF D
  <2>2. QED
    BY <2>1
<1>5. step \in [D \X F -> S]
  <2> HIDE DEF S, D, F
  <2>1. ASSUME NEW p \in D \X F PROVE ReadStep(b, p[1], qosSize, p[2]) \in S
    <3>1. p[1] \in D /\ p[2] \in F
      OBVIOUS
    <3>2. QED
      BY <1>3, <3>1
  <2>2. QED
    BY <2>1
<1>6. ASSUME NEW k \in D, NEW g \in F, NEW h \in F, \A m \in D : measure[m] < measure[k] => g[m] = h[m]
      PROVE  ReadStep(b, k, qosSize, g) = ReadStep(b, k, qosSize, h)
  <2>1. CASE k >= l \/ NextAt(b, k, qosSize) > l + 1
    <3>1. k > l \/ k = l \/ After(b, k) + qosSize > l + 1
      BY <2>1 DEF NextAt
    <3>2. QED
      BY <1>1, <3>1 DEF ReadStep
  <2>2. CASE k < l /\ ~ (NextAt(b, k, qosSize) > l + 1)
    <3>1. PICK m \in D : m = NextAt(b, k, qosSize) /\ m > k
      BY <1>2, <2>2
    <3>2. measure[m] < measure[k]
      BY <3>1
    <3>3. g[m] = h[m]
      BY <1>6, <3>2
    <3>4. QED
      BY <3>1, <3>3 DEF ReadStep
  <2>3. QED
    BY <2>1, <2>2
<1>7. Descends(D, S, measure, step)
  <2> HIDE DEF S, D, measure
  <2>1. \A k \in D, g \in F : <<k, g>> \in D \X F /\ step[<<k, g>>] = ReadStep(b, k, qosSize, g)
    <3> HIDE DEF F
    <3>1. QED
      OBVIOUS
  <2>2. step \in [D \X [D -> S] -> S]
    BY <1>5
  <2> HIDE DEF step
  <2>3. ASSUME NEW k \in D, NEW g \in [D -> S], NEW m \in [D -> S],
               \A y \in D : measure[y] < measure[k] => g[y] = m[y]
        PROVE  step[<<k, g>>] = step[<<k, m>>]
    <3>1. ReadStep(b, k, qosSize, g) = ReadStep(b, k, qosSize, m)
      BY <1>6, <2>3
    <3>2. QED
      BY <2>1, <3>1
  <2>4. QED
    BY <1>4, <2>2, <2>3 DEF Descends
<1>8. <<>> \in S
  OBVIOUS
<1>9. PICK f \in F : \A k \in D : f[k] = ReadStep(b, k, qosSize, f)
  <2> HIDE DEF S, D, measure
  <2>1. \A k \in D, g \in F : step[<<k, g>>] = ReadStep(b, k, qosSize, g)
    <3> HIDE DEF F
    <3>1. QED
      OBVIOUS
  <2> HIDE DEF step, F
  <2>2. PICK f : Descending(f, D, S, step)
    BY <1>7, <1>8, DescentExists
  <2>3. f \in F /\ \A k \in D : f[k] = step[<<k, f>>]
    BY <2>2 DEF F, Descending
  <2>4. QED
    BY <2>1, <2>3
<1>10. Solves(f)
  <2>1. f = [k \in D |-> f[k]]
    <3> HIDE DEF S, D
    <3>1. QED
      OBVIOUS
  <2>2. \A k \in i .. Len(b) + 1 : f[k] =
            IF k > Len(b) THEN <<>>
            ELSE IF k = Len(b) \/ After(b, k) + qosSize > Len(b) + 1 THEN <<Unreadable>>
            ELSE <<[filter |-> StringAt(b, k), qos |-> IF qosSize = 1 THEN b[After(b, k)] ELSE 0]>>
                 \o f[After(b, k) + qosSize]
    BY <1>1, <1>9 DEF ReadStep, FilterAt, NextAt
  <2>3. D = i .. Len(b) + 1
    BY SMTT(30), <1>1
  <2> HIDE DEF S, D
  <2>4. QED
    BY <2>1, <2>2, <2>3
<1> DEFINE h == CHOOSE h : Solves(h)
<1>11. Solves(h)
  BY Zenon, <1>10
<1>12. FiltersFrom(b, i, qosSize) = h[i]
  BY DEF FiltersFrom
<1>13. \A k \in i .. Len(b) + 1 : h[k] = ReadStep(b, k, qosSize, h)
  <2> HIDE DEF h
  <2>1. QED
    BY <1>11 DEF ReadStep, FilterAt, NextAt
<1> HIDE DEF h
<1>14. QED
  BY <1>12, <1>13

(* The reader reads a list whose entries stand one behind another up to    *)
(* the end.                                                                *)
LEMMA EntriesRead ==
    ASSUME NEW b \in Seq(Byte), NEW qosSize \in {0, 1}, NEW R, NEW list \in Seq(R),
           NEW at \in [0 .. Len(list) -> Nat], 1 <= at[0], at[Len(list)] = Len(b) + 1,
           \A j \in 0 .. Len(list) : at[0] <= at[j] /\ at[j] <= Len(b) + 1,
           \A j \in 1 .. Len(list) : /\ at[j - 1] < Len(b) /\ at[j] = NextAt(b, at[j - 1], qosSize)
                                     /\ list[j] = FilterAt(b, at[j - 1], qosSize)
    PROVE  FiltersFrom(b, at[0], qosSize) = list
<1>1. PICK n \in Nat, l \in Nat, i \in Nat : n = Len(list) /\ l = Len(b) /\ i = at[0]
  <2>1. Len(list) \in Nat /\ Len(b) \in Nat
    BY LenProperties
  <2>2. 0 \in 0 .. Len(list)
    BY <2>1
  <2>3. at[0] \in Nat
    BY <2>2
  <2>4. QED
    BY <2>1, <2>3
<1>2. i <= l + 1
  BY <1>1
<1>3. PICK h : /\ \A k \in i .. Len(b) + 1 : h[k] = ReadStep(b, k, qosSize, h)
               /\ FiltersFrom(b, i, qosSize) = h[i]
  BY <1>1, <1>2, FiltersReader
<1>4. \A k \in i .. l + 1 : h[k] = ReadStep(b, k, qosSize, h)
  BY <1>1, <1>3
<1> DEFINE T == {j \in 0 .. n : h[at[j]] = SubSeq(list, j + 1, n)}
<1>5. n \in T
  <2>1. l + 1 \in i .. l + 1 /\ l + 1 > l
    BY <1>2
  <2>2. h[l + 1] = <<>>
    BY <1>1, <1>4, <2>1 DEF ReadStep
  <2>3. SubSeq(list, n + 1, n) = <<>>
    BY SubSeqEmpty
  <2>4. at[n] = l + 1
    BY <1>1
  <2>5. h[at[n]] = SubSeq(list, n + 1, n)
    BY <2>2, <2>3, <2>4
  <2>6. n \in 0 .. n
    OBVIOUS
  <2>7. QED
    BY <2>5, <2>6
<1>6. ASSUME NEW j \in 0 .. n - 1, j + 1 \in T PROVE j \in T
  <2>1. PICK m \in 1 .. n : m = j + 1 /\ m - 1 = j
    OBVIOUS
  <2>2. PICK k \in Nat, e \in Nat : k = at[j] /\ e = at[m] /\ i <= k /\ e <= l + 1
    <3>1. j \in 0 .. n /\ m \in 0 .. n
      OBVIOUS
    <3>2. at[j] \in Nat /\ at[m] \in Nat
      BY <1>1, <3>1
    <3>3. at[0] <= at[j] /\ at[m] <= Len(b) + 1
      BY <1>1, <3>1
    <3>4. QED
      BY <1>1, <3>2, <3>3
  <2>3. k < l /\ e = NextAt(b, k, qosSize) /\ list[m] = FilterAt(b, k, qosSize)
    BY <1>1, <2>1, <2>2
  <2>4. k \in i .. l + 1 /\ ~ (k > l) /\ ~ (k = l)
    BY <2>2, <2>3
  <2>5. ~ (After(b, k) + qosSize > l + 1)
    BY <2>2, <2>3 DEF NextAt
  <2>6. h[k] = <<list[m]>> \o h[e]
    BY <1>1, <1>4, <2>3, <2>4, <2>5 DEF ReadStep
  <2>7. h[e] = SubSeq(list, m + 1, n)
    BY <1>6, <2>1, <2>2
  <2>8. SubSeq(list, m, n) = <<list[m]>> \o SubSeq(list, m + 1, n)
    <3>1. m \in 1 .. Len(list) /\ n \in m .. Len(list)
      BY <1>1
    <3>2. QED
      BY <3>1, SubSeqRecursiveFirst
  <2>9. j \in 0 .. n
    OBVIOUS
  <2>10. QED
    BY <2>1, <2>2, <2>6, <2>7, <2>8, <2>9
<1> HIDE DEF T
<1>7. 0 \in T
  <2>1. \A k \in 0 .. n : k \in T
    BY <1>5, <1>6, Descent
  <2>2. 0 \in 0 .. n
    OBVIOUS
  <2>3. QED
    BY <2>1, <2>2
<1>8. h[i] = SubSeq(list, 1, n)
  BY <1>1, <1>7 DEF T
<1>9. SubSeq(list, 1, n) = list
  BY <1>1, SubSeqFull
<1>10. QED
  BY <1>1, <1>3, <1>8, <1>9

(* The parts of a whole that stands there, each where the ones before it   *)
(* end.                                                                    *)
LEMMA PartsStand ==
    ASSUME NEW b \in Seq(Byte), NEW i, NEW parts \in Seq(Seq(Byte)), NEW f, Joins(Byte, parts, f),
           Stands(b, i, f[Len(parts)])
    PROVE  /\ \A j \in 0 .. Len(parts) : Stands(b, i, f[j])
           /\ \A j \in 1 .. Len(parts) : Stands(b, i + Len(f[j - 1]), parts[j])
<1>1. PICK n \in Nat : n = Len(parts)
  BY LenProperties
<1>2. ASSUME NEW j \in 1 .. n
      PROVE  f[j] = f[j - 1] \o parts[j] /\ f[j - 1] \in Seq(Byte) /\ parts[j] \in Seq(Byte)
  <2>1. j - 1 \in 0 .. n
    OBVIOUS
  <2>2. QED
    BY <1>1, <2>1, ElementOfSeq DEF Joins
<1> DEFINE T == {j \in 0 .. n : Stands(b, i, f[j])}
<1>3. n \in T
  BY <1>1
<1>4. ASSUME NEW j \in 0 .. n - 1, j + 1 \in T PROVE j \in T
  <2>1. PICK m \in 1 .. n : m = j + 1 /\ m - 1 = j
    OBVIOUS
  <2>2. Stands(b, i, f[m])
    BY <1>4, <2>1
  <2>3. f[m] = f[j] \o parts[m] /\ f[j] \in Seq(Byte) /\ parts[m] \in Seq(Byte)
    BY <1>2, <2>1
  <2>4. Stands(b, i, f[j])
    BY <2>2, <2>3, StandsSplit
  <2>5. QED
    BY <2>4
<1> HIDE DEF T
<1>5. \A j \in 0 .. n : j \in T
  BY <1>3, <1>4, Descent
<1>6. ASSUME NEW j \in 0 .. n PROVE Stands(b, i, f[j])
  BY <1>5 DEF T
<1>7. ASSUME NEW j \in 1 .. n PROVE Stands(b, i + Len(f[j - 1]), parts[j])
  <2>1. Stands(b, i, f[j])
    BY <1>6
  <2>2. QED
    BY ZenonT(40), <1>2, <2>1, StandsSplit
<1>8. QED
  BY <1>1, <1>6, <1>7

(* An entry of a list as it is on the wire.                                *)
EntryBytes(entry, qosSize) ==
    EncodeString(entry.filter) \o (IF qosSize = 1 THEN <<entry.qos>> ELSE <<>>)

(* It is read as it was written, and the reader is behind it then.         *)
LEMMA EntryRead ==
    ASSUME NEW b \in Seq(Byte), NEW k, NEW qosSize \in {0, 1}, NEW entry \in Filter,
           qosSize = 0 => entry.qos = 0, Stands(b, k, EntryBytes(entry, qosSize))
    PROVE  /\ EntryBytes(entry, qosSize) \in Seq(Byte) /\ k < Len(b)
           /\ FilterAt(b, k, qosSize) = entry
           /\ NextAt(b, k, qosSize) = k + Len(EntryBytes(entry, qosSize))
<1>1. PICK s \in String16, q \in QoS :
          s = entry.filter /\ q = entry.qos /\ entry = [filter |-> s, qos |-> q]
  BY DEF Filter
<1>2. PICK field \in Seq(Byte), t \in Nat : field = EncodeString(s) /\ Len(field) = 2 + t /\ t = Len(s)
  BY EncodedString, StringLength
<1>3. PICK last \in Seq(Byte) : last = (IF qosSize = 1 THEN <<q>> ELSE <<>>) /\ Len(last) = qosSize
  <2>1. CASE qosSize = 1
    <3>1. PICK x \in Byte : x = q
      BY SMT DEF QoS, Byte
    <3>2. <<x>> \in Seq(Byte) /\ Len(<<x>>) = 1
      OBVIOUS
    <3>3. QED
      BY <2>1, <3>1, <3>2
  <2>2. CASE qosSize = 0
    <3>1. <<>> \in Seq(Byte) /\ Len(<<>>) = 0
      OBVIOUS
    <3>2. PICK none \in Seq(Byte) : none = <<>> /\ Len(none) = 0
      BY <3>1
    <3>3. none = IF qosSize = 1 THEN <<q>> ELSE <<>>
      BY <2>2, <3>2
    <3>4. QED
      BY <2>2, <3>2, <3>3
  <2>3. QED
    BY <2>1, <2>2
<1>4. PICK all \in Seq(Byte) : all = field \o last /\ Len(all) = (2 + t) + qosSize
  <2>1. field \o last \in Seq(Byte) /\ Len(field \o last) = Len(field) + Len(last)
    BY Joined
  <2>2. QED
    BY <1>2, <1>3, <2>1
<1>5. EntryBytes(entry, qosSize) = all
  BY <1>1, <1>2, <1>3, <1>4 DEF EntryBytes
<1>6. Stands(b, k, field) /\ Stands(b, k + Len(field), last)
  BY <1>4, <1>5, StandsSplit
<1>7. StringAt(b, k) = s /\ After(b, k) = k + Len(field) /\ k \in Nat
  BY <1>2, <1>6, StandsString
<1>8. FilterAt(b, k, qosSize) = entry
  <2>1. CASE qosSize = 1
    <3>1. last = <<q>>
      BY <1>3, <2>1
    <3>2. b[k + Len(field)] = q
      BY <1>6, <3>1, StandsByte
    <3>3. QED
      BY <1>1, <1>7, <2>1, <3>2 DEF FilterAt
  <2>2. CASE qosSize = 0
    BY <1>1, <1>7, <2>2 DEF FilterAt
  <2>3. QED
    BY <2>1, <2>2
<1>9. NextAt(b, k, qosSize) = k + Len(all)
  <2>1. PICK m \in Nat, x \in Nat : m = k /\ x = qosSize
    BY <1>7
  <2>2. (m + (2 + t)) + x = m + ((2 + t) + x)
    OBVIOUS
  <2>3. After(b, k) + qosSize = k + ((2 + t) + qosSize)
    BY <1>2, <1>7, <2>1, <2>2
  <2>4. QED
    BY <1>4, <2>3 DEF NextAt
<1>10. k < Len(b)
  <2>1. k + ((2 + t) + qosSize) <= Len(b) + 1
    BY <1>4, <1>5 DEF Stands
  <2>2. Len(b) \in Nat
    BY LenProperties
  <2>3. QED
    BY <1>7, <2>1, <2>2
<1>11. QED
  BY <1>4, <1>5, <1>8, <1>9, <1>10

(* The parts are the entries of the list as they are on the wire.          *)
EntriesOf(parts, list, qosSize) ==
    /\ list \in Seq(Filter) /\ parts \in Seq(Seq(Byte)) /\ Len(parts) = Len(list)
    /\ \A j \in 1 .. Len(list) :
          parts[j] = EntryBytes(list[j], qosSize) /\ (qosSize = 0 => list[j].qos = 0)

(* A list that ends the packet is read as it was written.                  *)
LEMMA ListRead ==
    ASSUME NEW b \in Seq(Byte), NEW i, NEW qosSize \in {0, 1}, NEW list, NEW parts,
           EntriesOf(parts, list, qosSize), Stands(b, i, FlattenSeq(parts)), i + Len(FlattenSeq(parts)) = Len(b) + 1
    PROVE  FiltersFrom(b, i, qosSize) = list
<1>1. PICK n \in Nat, l \in Nat : n = Len(list) /\ n = Len(parts) /\ l = Len(b)
  BY LenProperties DEF EntriesOf
<1> list \in Seq(Filter) /\ parts \in Seq(Seq(Byte))
  BY DEF EntriesOf
<1>2. PICK f : Joins(Byte, parts, f)
  BY JoinsExist
<1>3. FlattenSeq(parts) = f[n]
  BY <1>1, <1>2, Flattened
<1>4. /\ \A j \in 0 .. n : Stands(b, i, f[j])
      /\ \A j \in 1 .. n : Stands(b, i + Len(f[j - 1]), parts[j])
  BY <1>1, <1>2, <1>3, PartsStand
<1>5. PICK k \in Nat : k = i /\ 1 <= k
  <2>1. i \in Nat /\ 1 <= i
    BY DEF Stands
  <2>2. QED
    BY <2>1
<1>6. ASSUME NEW j \in 0 .. n PROVE f[j] \in Seq(Byte) /\ Len(f[j]) \in Nat /\ k + Len(f[j]) <= l + 1
  <2>1. f[j] \in Seq(Byte)
    BY <1>1, <1>2 DEF Joins
  <2>2. Stands(b, k, f[j])
    BY <1>4, <1>5
  <2>3. k + Len(f[j]) <= l + 1
    BY <1>1, <2>2 DEF Stands
  <2>4. QED
    BY <2>1, <2>3, LenProperties
<1>7. f[0] = <<>> /\ Len(f[0]) = 0
  BY <1>2 DEF Joins
<1> DEFINE at == [j \in 0 .. n |-> k + Len(f[j])]
<1>8. at \in [0 .. Len(list) -> Nat]
  <2>1. \A j \in 0 .. n : k + Len(f[j]) \in Nat
    BY <1>6
  <2>2. at \in [0 .. n -> Nat]
    BY <2>1
  <2> HIDE DEF at
  <2>3. QED
    BY <1>1, <2>2
<1>9. at[0] = k
  <2>1. 0 \in 0 .. n /\ k + 0 = k
    OBVIOUS
  <2>2. at[0] = k + Len(f[0])
    BY <2>1
  <2> HIDE DEF at
  <2>3. QED
    BY <1>7, <2>1, <2>2
<1>10. at[n] = l + 1
  <2>1. n \in 0 .. n
    OBVIOUS
  <2>2. at[n] = k + Len(f[n])
    BY <2>1
  <2> HIDE DEF at
  <2>3. QED
    BY <1>1, <1>3, <1>5, <2>2
<1>11. ASSUME NEW j \in 0 .. n PROVE at[j] = k + Len(f[j]) /\ at[0] <= at[j] /\ at[j] <= l + 1
  <2>1. at[j] = k + Len(f[j])
    OBVIOUS
  <2> HIDE DEF at
  <2>2. QED
    BY <1>6, <1>9, <2>1
<1> HIDE DEF at
<1>12. ASSUME NEW j \in 1 .. n
       PROVE  /\ at[j - 1] < l /\ at[j] = NextAt(b, at[j - 1], qosSize)
              /\ list[j] = FilterAt(b, at[j - 1], qosSize)
  <2>1. PICK m \in 0 .. n : m = j - 1 /\ j \in 0 .. n
    OBVIOUS
  <2>2. PICK entry \in Filter : entry = list[j] /\ (qosSize = 0 => entry.qos = 0)
    <3>1. list[j] \in Filter
      BY <1>1, ElementOfSeq
    <3>2. QED
      BY <1>1, <3>1 DEF EntriesOf
  <2>3. parts[j] = EntryBytes(entry, qosSize)
    BY <1>1, <2>2 DEF EntriesOf
  <2>4. at[m] = k + Len(f[m]) /\ at[j] = k + Len(f[j])
    BY <1>11, <2>1
  <2>5. Stands(b, k + Len(f[m]), EntryBytes(entry, qosSize))
    BY <1>4, <1>5, <2>1, <2>3
  <2>6. PICK x \in Nat : x = k + Len(f[m])
    BY <1>6, <2>1
  <2>7. /\ EntryBytes(entry, qosSize) \in Seq(Byte) /\ x < l
        /\ FilterAt(b, x, qosSize) = entry
        /\ NextAt(b, x, qosSize) = x + Len(EntryBytes(entry, qosSize))
    <3>1. Stands(b, x, EntryBytes(entry, qosSize))
      BY <2>5, <2>6
    <3>2. /\ EntryBytes(entry, qosSize) \in Seq(Byte) /\ x < Len(b)
          /\ FilterAt(b, x, qosSize) = entry
          /\ NextAt(b, x, qosSize) = x + Len(EntryBytes(entry, qosSize))
      BY <2>2, <3>1, EntryRead
    <3>3. QED
      BY <1>1, <3>2
  <2>8. f[j] = f[m] \o parts[j]
    BY <1>1, <1>2, <2>1 DEF Joins
  <2>9. PICK part \in Seq(Byte) : part = parts[j] /\ Len(part) \in Nat /\ part = EntryBytes(entry, qosSize)
    BY <2>3, <2>7, LenProperties
  <2>10. Len(f[j]) = Len(f[m]) + Len(part)
    <3>1. PICK front \in Seq(Byte) : front = f[m]
      BY <1>6, <2>1
    <3>2. Len(front \o part) = Len(front) + Len(part)
      BY Joined
    <3>3. QED
      BY <2>8, <2>9, <3>1, <3>2
  <2>11. Len(f[m]) \in Nat
    BY <1>6, <2>1
  <2>12. k + (Len(f[m]) + Len(part)) = (k + Len(f[m])) + Len(part)
    BY <2>9, <2>11
  <2>13. at[j] = x + Len(part)
    BY <2>4, <2>6, <2>10, <2>12
  <2>14. QED
    BY <2>1, <2>2, <2>4, <2>6, <2>7, <2>9, <2>13
<1>13. FiltersFrom(b, at[0], qosSize) = list
  <2>1. 1 <= at[0] /\ at[Len(list)] = Len(b) + 1
    BY <1>1, <1>5, <1>9, <1>10
  <2>2. \A j \in 0 .. Len(list) : at[0] <= at[j] /\ at[j] <= Len(b) + 1
    BY <1>1, <1>11
  <2>3. \A j \in 1 .. Len(list) : /\ at[j - 1] < Len(b) /\ at[j] = NextAt(b, at[j - 1], qosSize)
                                  /\ list[j] = FilterAt(b, at[j - 1], qosSize)
    BY <1>1, <1>12
  <2>4. QED
    BY <1>8, <2>1, <2>2, <2>3, EntriesRead
<1>14. QED
  BY <1>5, <1>9, <1>13

(* A packet with a packet id and a list behind it.                         *)
LEMMA ListPacketRead ==
    ASSUME NEW type, NEW kind, NEW qosSize \in {0, 1},
           \/ type = Type.SUBSCRIBE /\ kind = "SUBSCRIBE" /\ qosSize = 1
           \/ type = Type.UNSUBSCRIBE /\ kind = "UNSUBSCRIBE" /\ qosSize = 0,
           NEW id \in UINT16, NEW list, NEW parts, EntriesOf(parts, list, qosSize),
           NEW n \in 0 .. MaxRemainingLength, FlattenSeq(parts) \in Seq(Byte),
           n = Len(FlattenSeq(parts)) + 2
    PROVE  ReadPacket((FixedHeader(type, n) \o Encode16(id)) \o FlattenSeq(parts)) =
               [kind |-> kind, packetId |-> id, list |-> list]
<1>1. type \in Byte /\ Type.SUBSCRIBE # Type.UNSUBSCRIBE /\ type # Type.CONNECT
  BY SMT DEF Type, Byte
<1>2. PICK header \in Seq(Byte) : header = FixedHeader(type, n)
  BY <1>1, FixedHeaderLength
<1>3. PICK field \in Seq(Byte) : field = Encode16(id) /\ Len(field) = 2
  BY Encoded16
<1>4. PICK flat \in Seq(Byte), l \in Nat : flat = FlattenSeq(parts) /\ l = Len(flat)
  BY LenProperties
<1>5. PICK body \in Seq(Byte) : body = field \o flat /\ Len(body) = 2 + l
  <2>1. field \o flat \in Seq(Byte) /\ Len(field \o flat) = Len(field) + Len(flat)
    BY Joined
  <2>2. QED
    BY <1>3, <1>4, <2>1
<1>6. PICK b : b = (header \o field) \o flat
  OBVIOUS
<1>7. b = FixedHeader(type, n) \o body
  <2>1. (header \o field) \o flat = header \o (field \o flat)
    BY ZenonT(40), BytesJoin
  <2>2. QED
    BY <1>2, <1>5, <1>6, <2>1
<1>8. n = Len(body)
  BY <1>4, <1>5
<1>9. ReadAsFramed(b, type, body)
  <2>1. Len(body) \in 0 .. MaxRemainingLength
    BY <1>8
  <2>2. QED
    BY <1>1, <1>7, <1>8, <2>1, FramedIsWhole
<1>10. /\ b \in Seq(Byte) /\ WholePacket(b) /\ b[1] = type /\ BodyAt(b) \in 3 .. 6
       /\ Len(b) = BodyAt(b) + Len(body) - 1 /\ Stands(b, BodyAt(b), body)
  BY <1>9 DEF ReadAsFramed
<1>11. PICK at \in 3 .. 6 : at = BodyAt(b)
  BY <1>10
<1>12. Stands(b, at, field) /\ Stands(b, at + 2, flat)
  BY <1>3, <1>5, <1>10, <1>11, StandsSplit
<1>13. Decode16(b, at) = id
  BY <1>3, <1>10, <1>12, StandsNumber
<1>14. (at + 2) + l = Len(b) + 1
  <2>1. at + (2 + l) - 1 + 1 = (at + 2) + l
    OBVIOUS
  <2>2. QED
    BY <1>5, <1>10, <1>11, <2>1
<1>15. FiltersFrom(b, at + 2, qosSize) = list
  <2>1. PICK k \in Nat : k = at + 2
    OBVIOUS
  <2>2. Stands(b, k, FlattenSeq(parts)) /\ k + Len(FlattenSeq(parts)) = Len(b) + 1
    BY <1>4, <1>12, <1>14, <2>1
  <2>3. FiltersFrom(b, k, qosSize) = list
    BY <1>10, <2>2, ListRead
  <2>4. QED
    BY <2>1, <2>3
<1>16. ReadPacket(b) = ReadSubscription(b, kind, qosSize)
  BY <1>1, <1>10 DEF ReadPacket
<1>17. ReadPacket(b) = [kind |-> kind, packetId |-> id, list |-> list]
  BY <1>11, <1>13, <1>15, <1>16 DEF ReadSubscription
<1>18. QED
  BY <1>2, <1>3, <1>4, <1>6, <1>17

(* A SUBSCRIBE is read as it was given.                                    *)
LEMMA SubscribeRead ==
    ASSUME NEW p \in Subscription, p.kind = "SUBSCRIBE", NEW n \in 0 .. MaxRemainingLength,
           n = SubscriptionRemaining(Len(p.list), TotalLength(p.list), 1)
    PROVE  ReadPacket(FixedHeader(Type.SUBSCRIBE, n) \o Encode16(p.packetId)
                      \o FlattenSeq([i \in DOMAIN p.list |->
                                        EncodeString(p.list[i].filter) \o <<p.list[i].qos>>])) = Sent(p)
<1>1. PICK list \in Seq(Filter), id \in UINT16 :
          /\ list = p.list /\ id = p.packetId
          /\ p = [kind |-> "SUBSCRIBE", packetId |-> id, list |-> list]
  BY DEF Subscription, Filter
<1> DEFINE parts == [i \in DOMAIN list |-> EncodeString(list[i].filter) \o <<list[i].qos>>]
<1>2. DOMAIN list = 1 .. Len(list) /\ Len(list) \in Nat
  OBVIOUS
<1>3. ASSUME NEW i \in 1 .. Len(list)
      PROVE  parts[i] = EntryBytes(list[i], 1) /\ parts[i] \in Seq(Byte)
  <2>1. PICK s \in String16, q \in QoS : s = list[i].filter /\ q = list[i].qos
    <3>1. list[i] \in Filter
      BY ElementOfSeq
    <3>2. QED
      BY <3>1 DEF Filter
  <2>2. PICK field \in Seq(Byte) : field = EncodeString(s)
    BY EncodedString
  <2>3. PICK x \in Byte : x = q
    BY SMT DEF QoS, Byte
  <2>4. <<x>> \in Seq(Byte)
    OBVIOUS
  <2>5. field \o <<x>> \in Seq(Byte)
    BY <2>4, Joined
  <2>6. parts[i] = field \o <<x>>
    BY <1>2, <2>1, <2>2, <2>3
  <2>7. EntryBytes(list[i], 1) = field \o <<x>>
    BY <2>1, <2>2, <2>3 DEF EntryBytes
  <2>8. QED
    BY <2>5, <2>6, <2>7
<1>4. parts \in Seq(Seq(Byte)) /\ Len(parts) = Len(list)
  <2>1. parts = [i \in 1 .. Len(list) |-> parts[i]]
    BY <1>2
  <2>2. \A i \in 1 .. Len(list) : parts[i] \in Seq(Byte)
    BY <1>3
  <2> HIDE DEF parts
  <2>3. QED
    BY <1>2, <2>1, <2>2
<1>5. PICK flat : flat = FlattenSeq(parts)
  OBVIOUS
<1>6. flat \in Seq(Byte) /\ Len(flat) + 2 = SubscriptionRemaining(Len(list), TotalLength(list), 1)
  BY <1>5, SubscribeParts
<1> HIDE DEF parts
<1>7. FlattenSeq(parts) \in Seq(Byte) /\ n = Len(FlattenSeq(parts)) + 2
  BY <1>1, <1>5, <1>6
<1>8. EntriesOf(parts, list, 1)
  BY <1>3, <1>4 DEF EntriesOf
<1>9. ReadPacket((FixedHeader(Type.SUBSCRIBE, n) \o Encode16(id)) \o FlattenSeq(parts)) =
           [kind |-> "SUBSCRIBE", packetId |-> id, list |-> list]
  BY <1>7, <1>8, ListPacketRead
<1>10. Sent(p) = p
  BY <1>1 DEF Sent
<1>11. QED
  BY <1>1, <1>9, <1>10 DEF parts

(* An UNSUBSCRIBE is read as it was given, without the QoS.                *)
LEMMA UnsubscribeRead ==
    ASSUME NEW p \in Subscription, p.kind = "UNSUBSCRIBE", NEW n \in 0 .. MaxRemainingLength,
           n = SubscriptionRemaining(Len(p.list), TotalLength(p.list), 0)
    PROVE  ReadPacket(FixedHeader(Type.UNSUBSCRIBE, n) \o Encode16(p.packetId)
                      \o EncodeStrings([i \in DOMAIN p.list |-> p.list[i].filter])) = Sent(p)
<1>1. PICK list \in Seq(Filter), id \in UINT16 :
          /\ list = p.list /\ id = p.packetId
          /\ p = [kind |-> "UNSUBSCRIBE", packetId |-> id, list |-> list]
  BY DEF Subscription, Filter
<1> DEFINE filters == [i \in DOMAIN list |-> list[i].filter]
           parts == [i \in DOMAIN filters |-> EncodeString(filters[i])]
           bare == [i \in DOMAIN list |-> [list[i] EXCEPT !.qos = 0]]
<1>2. DOMAIN list = 1 .. Len(list) /\ Len(list) \in Nat
  OBVIOUS
<1>3. ASSUME NEW i \in 1 .. Len(list)
      PROVE  /\ bare[i] \in Filter /\ bare[i].qos = 0
             /\ parts[i] = EntryBytes(bare[i], 0) /\ parts[i] \in Seq(Byte)
  <2>1. PICK s \in String16, q \in QoS :
            s = list[i].filter /\ list[i] = [filter |-> s, qos |-> q]
    <3>1. list[i] \in Filter
      BY ElementOfSeq
    <3>2. QED
      BY <3>1 DEF Filter
  <2>2. PICK field \in Seq(Byte) : field = EncodeString(s)
    BY EncodedString
  <2>3. parts[i] = field
    BY <1>2, <2>1, <2>2
  <2>4. bare[i] = [filter |-> s, qos |-> 0]
    <3>1. bare[i] = [list[i] EXCEPT !.qos = 0]
      BY <1>2
    <3>2. [[filter |-> s, qos |-> q] EXCEPT !.qos = 0] = [filter |-> s, qos |-> 0]
      OBVIOUS
    <3>3. QED
      BY <2>1, <3>1, <3>2
  <2>5. field \o <<>> = field
    BY JoinedEmpty
  <2>6. EntryBytes(bare[i], 0) = field
    <3>1. PICK entry : entry = bare[i] /\ entry = [filter |-> s, qos |-> 0]
      BY <2>4
    <3>2. EntryBytes(entry, 0) = EncodeString(s) \o <<>>
      <4>1. (IF 0 = 1 THEN <<entry.qos>> ELSE <<>>) = <<>>
        OBVIOUS
      <4>2. entry.filter = s
        BY <3>1
      <4>3. QED
        BY <4>1, <4>2 DEF EntryBytes
    <3>3. QED
      BY <2>2, <2>5, <3>1, <3>2
  <2>7. bare[i] \in Filter /\ bare[i].qos = 0
    <3>1. [filter |-> s, qos |-> 0] \in Filter
      BY DEF Filter, QoS
    <3>2. QED
      BY <2>4, <3>1
  <2>8. QED
    BY <2>3, <2>6, <2>7
<1>4. parts \in Seq(Seq(Byte)) /\ Len(parts) = Len(list)
  <2>1. parts = [i \in 1 .. Len(list) |-> parts[i]]
    BY <1>2
  <2>2. \A i \in 1 .. Len(list) : parts[i] \in Seq(Byte)
    BY <1>3
  <2> HIDE DEF parts
  <2>3. QED
    BY <1>2, <2>1, <2>2
<1>5. bare \in Seq(Filter) /\ Len(bare) = Len(list)
  <2>1. bare = [i \in 1 .. Len(list) |-> bare[i]]
    BY <1>2
  <2>2. \A i \in 1 .. Len(list) : bare[i] \in Filter
    BY <1>3
  <2> HIDE DEF bare
  <2>3. QED
    BY <1>2, <2>1, <2>2
<1>6. PICK flat : flat = FlattenSeq(parts) /\ flat = EncodeStrings(filters)
  BY DEF EncodeStrings
<1>7. flat \in Seq(Byte) /\ Len(flat) + 2 = SubscriptionRemaining(Len(list), TotalLength(list), 0)
  <2> HIDE DEF parts
  <2>1. QED
    BY <1>6, UnsubscribeParts
<1>8. Sent(p) = [kind |-> "UNSUBSCRIBE", packetId |-> id, list |-> bare]
  <2>1. Sent(p) = [p EXCEPT !.list = bare]
    BY <1>1 DEF Sent
  <2> HIDE DEF bare
  <2>2. QED
    BY <1>1, <2>1
<1> HIDE DEF parts, filters, bare
<1>9. FlattenSeq(parts) \in Seq(Byte) /\ n = Len(FlattenSeq(parts)) + 2
  BY <1>1, <1>6, <1>7
<1>10. EntriesOf(parts, bare, 0)
  BY <1>3, <1>4, <1>5 DEF EntriesOf
<1>11. ReadPacket((FixedHeader(Type.UNSUBSCRIBE, n) \o Encode16(id)) \o FlattenSeq(parts)) =
           [kind |-> "UNSUBSCRIBE", packetId |-> id, list |-> bare]
  BY <1>9, <1>10, ListPacketRead
<1>12. QED
  BY <1>1, <1>6, <1>8, <1>11 DEF filters

(* The bytes of a string that may be NULL, and of a will.                  *)
OptionBytes(option) == IF option = <<>> THEN <<>> ELSE EncodeString(option[1])
WillBytes(will) ==
    IF will = <<>> THEN <<>> ELSE EncodeString(will[1].topic) \o EncodeString(will[1].payload)

(* They are bytes, and stand behind those of the strings before.           *)
LEMMA OptionJoins ==
    ASSUME NEW ss \in Seq(String16), NEW option \in Optional(String16)
    PROVE  /\ ss \o option \in Seq(String16) /\ OptionBytes(option) \in Seq(Byte)
           /\ EncodeStrings(ss) \in Seq(Byte)
           /\ EncodeStrings(ss \o option) = EncodeStrings(ss) \o OptionBytes(option)
<1>1. EncodeStrings(ss) \in Seq(Byte)
  <2>1. <<>> \in String16
    BY SMT DEF String16
  <2>2. QED
    BY <2>1, EncodedAppend
<1>2. ss \o option \in Seq(String16)
  BY EncodedOption
<1>3. CASE option = <<>>
  <2>1. ss \o option = ss
    BY <1>3, JoinedEmpty
  <2>2. PICK none \in Seq(Byte) : none = <<>>
    <3>1. <<>> \in Seq(Byte)
      OBVIOUS
    <3>2. QED
      BY <3>1
  <2>3. OptionBytes(option) = none
    BY <1>3, <2>2 DEF OptionBytes
  <2>4. EncodeStrings(ss) \o none = EncodeStrings(ss)
    BY <1>1, <2>2, JoinedEmpty
  <2>5. QED
    BY <1>1, <1>2, <2>1, <2>2, <2>3, <2>4
<1>4. CASE option # <<>>
  <2>1. PICK s \in String16 : s = option[1] /\ option = <<s>>
    BY <1>4, LengthOfOptional
  <2>2. ss \o option = Append(ss, s)
    BY <2>1
  <2>3. EncodeStrings(Append(ss, s)) = EncodeStrings(ss) \o EncodeString(s)
    BY EncodedAppend
  <2>4. OptionBytes(option) = EncodeString(s)
    BY <1>4, <2>1 DEF OptionBytes
  <2>5. EncodeString(s) \in Seq(Byte)
    BY EncodedString
  <2>6. QED
    BY <1>1, <1>2, <2>2, <2>3, <2>4, <2>5
<1>5. QED
  BY <1>3, <1>4

(* An optional string is read as it was written.                           *)
LEMMA OptionRead ==
    ASSUME NEW b \in Seq(Byte), NEW i \in Nat, NEW option \in Optional(String16),
           Stands(b, i, OptionBytes(option)), NEW there \in BOOLEAN, there = (option # <<>>)
    PROVE  /\ (IF there THEN After(b, i) ELSE i) = i + Len(OptionBytes(option))
           /\ (IF there THEN <<StringAt(b, i)>> ELSE <<>>) = option
<1>1. CASE option = <<>>
  <2>1. PICK none \in Seq(Byte) : none = <<>> /\ Len(none) = 0
    <3>1. <<>> \in Seq(Byte) /\ Len(<<>>) = 0
      OBVIOUS
    <3>2. QED
      BY <3>1
  <2>2. OptionBytes(option) = none
    BY <1>1, <2>1 DEF OptionBytes
  <2>3. i + 0 = i
    OBVIOUS
  <2>4. QED
    BY <1>1, <2>1, <2>2, <2>3
<1>2. CASE option # <<>>
  <2>1. PICK s \in String16 : s = option[1] /\ option = <<s>>
    BY <1>2, LengthOfOptional
  <2>2. OptionBytes(option) = EncodeString(s)
    BY <1>2, <2>1 DEF OptionBytes
  <2>3. Stands(b, i, EncodeString(s))
    BY <2>2
  <2>4. StringAt(b, i) = s /\ After(b, i) = i + Len(EncodeString(s))
    BY <2>3, StandsString
  <2>5. QED
    BY <1>2, <2>1, <2>2, <2>4
<1>3. QED
  BY <1>1, <1>2

(* The strings of a CONNECT in the order they are written.                 *)
ConnectFields(id, will, user, password) ==
    /\ id \in String16 /\ will \in Optional(Will) /\ (will # <<>> => will[1].payload \in String16)
    /\ user \in Optional(String16) /\ password \in Optional(String16)

(* A will gives two of them.                                               *)
WillStrings(will) == IF will = <<>> THEN <<>> ELSE <<will[1].topic, will[1].payload>>

(* One after the other they are what the four parts of a CONNECT give.     *)
StringsInOrder(id, will, user, password) ==
    /\ WillBytes(will) \in Seq(Byte) /\ EncodeString(id) \in Seq(Byte)
    /\ OptionBytes(user) \in Seq(Byte) /\ OptionBytes(password) \in Seq(Byte)
    /\ EncodeStrings(((<<id>> \o WillStrings(will)) \o user) \o password) =
           ((EncodeString(id) \o WillBytes(will)) \o OptionBytes(user)) \o OptionBytes(password)

(* So it is for every CONNECT.                                             *)
LEMMA ConnectStrings ==
    \A id, will, user, password :
        ConnectFields(id, will, user, password) => StringsInOrder(id, will, user, password)
<1> SUFFICES ASSUME NEW id, NEW will, NEW user, NEW password, ConnectFields(id, will, user, password)
             PROVE  StringsInOrder(id, will, user, password)
  OBVIOUS
<1> DEFINE two == WillStrings(will)
<1>0. /\ id \in String16 /\ will \in Optional(Will) /\ (will # <<>> => will[1].payload \in String16)
      /\ user \in Optional(String16) /\ password \in Optional(String16)
  BY DEF ConnectFields
<1>1. PICK one \in Seq(String16) : one = <<id>>
  <2>1. <<id>> \in Seq(String16)
    BY <1>0
  <2>2. QED
    BY <2>1
<1>2. EncodeStrings(one) = EncodeString(id) /\ EncodeString(id) \in Seq(Byte)
  <2>1. <<>> \in Seq(String16) /\ Append(<<>>, id) = <<id>>
    BY <1>0
  <2>2. EncodeStrings(<<>>) = <<>>
    <3>1. [i \in DOMAIN <<>> |-> EncodeString(<<>>[i])] = <<>>
      OBVIOUS
    <3>2. QED
      BY <3>1 DEF EncodeStrings, FlattenSeq
  <2>3. EncodeStrings(<<id>>) = <<>> \o EncodeString(id)
    BY <1>0, <2>1, <2>2, EncodedAppend
  <2>4. EncodeString(id) \in Seq(Byte)
    BY <1>0, EncodedString
  <2>5. QED
    BY <1>1, <2>3, <2>4, JoinedEmpty
<1>3. PICK first : first = one \o two
  OBVIOUS
<1>4. /\ first \in Seq(String16) /\ WillBytes(will) \in Seq(Byte)
      /\ EncodeStrings(first) = EncodeString(id) \o WillBytes(will)
  <2>1. CASE will = <<>>
    <3>1. two = <<>>
      BY <2>1 DEF WillStrings
    <3>2. first = one
      BY <1>1, <1>3, <3>1, JoinedEmpty
    <3>3. PICK none \in Seq(Byte) : none = <<>>
      <4>1. <<>> \in Seq(Byte)
        OBVIOUS
      <4>2. QED
        BY <4>1
    <3>4. WillBytes(will) = none
      BY <2>1, <3>3 DEF WillBytes
    <3>5. EncodeString(id) \o none = EncodeString(id)
      BY <1>2, <3>3, JoinedEmpty
    <3>6. QED
      BY <1>1, <1>2, <3>2, <3>3, <3>4, <3>5
  <2>2. CASE will # <<>>
    <3>1. will[1] \in Will
      BY <1>0, <2>2, LengthOfOptional
    <3>2. PICK t \in String16, w \in String16 : t = will[1].topic /\ w = will[1].payload
      BY <1>0, <2>2, <3>1 DEF Will
    <3>3. two = <<t, w>>
      BY <2>2, <3>2 DEF WillStrings
    <3>4. first = (one \o <<t>>) \o <<w>>
      <4>1. one \o <<t, w>> = (one \o <<t>>) \o <<w>>
        BY JoinedPair
      <4>2. QED
        BY <1>3, <3>3, <4>1
    <3>5. PICK ss \in Seq(String16) : ss = Append(one, t) /\ one \o <<t>> = ss
      <4>1. Append(one, t) \in Seq(String16) /\ one \o <<t>> = Append(one, t)
        OBVIOUS
      <4>2. QED
        BY <4>1
    <3>6. first = Append(ss, w) /\ first \in Seq(String16)
      <4>1. ss \o <<w>> = Append(ss, w) /\ Append(ss, w) \in Seq(String16)
        OBVIOUS
      <4>2. QED
        BY <3>4, <3>5, <4>1
    <3>7. EncodeStrings(ss) = EncodeString(id) \o EncodeString(t)
      BY <1>2, <3>5, EncodedAppend
    <3>8. EncodeStrings(first) = EncodeStrings(ss) \o EncodeString(w)
      BY <3>6, EncodedAppend
    <3>9. PICK i \in Seq(Byte), x \in Seq(Byte), y \in Seq(Byte) :
              i = EncodeString(id) /\ x = EncodeString(t) /\ y = EncodeString(w)
      BY <1>0, EncodedString
    <3>10. (i \o x) \o y = i \o (x \o y) /\ x \o y \in Seq(Byte)
      BY BytesJoin, Joined
    <3>11. WillBytes(will) = x \o y
      BY <2>2, <3>2, <3>9 DEF WillBytes
    <3>12. QED
      BY <3>6, <3>7, <3>8, <3>9, <3>10, <3>11
  <2>3. QED
    BY <2>1, <2>2
<1>5. PICK second \in Seq(String16) :
          second = first \o user /\ EncodeStrings(second) = EncodeStrings(first) \o OptionBytes(user)
  BY <1>0, <1>4, OptionJoins
<1>6. EncodeStrings(second \o password) = EncodeStrings(second) \o OptionBytes(password)
  BY <1>0, OptionJoins
<1>7. OptionBytes(user) \in Seq(Byte) /\ OptionBytes(password) \in Seq(Byte)
  BY <1>0, <1>4, OptionJoins
<1>8. QED
  BY <1>1, <1>2, <1>3, <1>4, <1>5, <1>6, <1>7 DEF StringsInOrder

(* The two strings of a will are read as they were written.                *)
LEMMA WillRead ==
    ASSUME NEW b \in Seq(Byte), NEW i \in Nat, NEW will \in Optional(Will), will # <<>>,
           will[1].payload \in String16, Stands(b, i, WillBytes(will))
    PROVE  /\ StringAt(b, i) = will[1].topic /\ StringAt(b, After(b, i)) = will[1].payload
           /\ After(b, After(b, i)) = i + Len(WillBytes(will))
<1>1. will[1] \in Will
  BY LengthOfOptional
<1>2. PICK t \in String16, w \in String16 : t = will[1].topic /\ w = will[1].payload
  BY <1>1 DEF Will
<1>3. PICK x \in Seq(Byte), y \in Seq(Byte), m \in Nat, n \in Nat :
          x = EncodeString(t) /\ y = EncodeString(w) /\ m = Len(x) /\ n = Len(y)
  BY EncodedString, LenProperties
<1>4. WillBytes(will) = x \o y
  BY <1>2, <1>3 DEF WillBytes
<1>5. Len(x \o y) = m + n
  BY <1>3, Joined
<1>6. Stands(b, i, x) /\ Stands(b, i + m, y)
  BY <1>3, <1>4, StandsSplit
<1>7. StringAt(b, i) = t /\ After(b, i) = i + m
  BY <1>3, <1>6, StandsString
<1>8. StringAt(b, i + m) = w /\ After(b, i + m) = (i + m) + n
  BY <1>3, <1>6, StandsString
<1>9. (i + m) + n = i + (m + n)
  OBVIOUS
<1>10. QED
  BY <1>2, <1>4, <1>5, <1>7, <1>8, <1>9

(* The flags of a CONNECT from its bits.                                   *)
LEMMA BitsOfFlags ==
    ASSUME NEW c \in 0 .. 1, NEW w \in 0 .. 1, NEW q \in 0 .. 2, NEW r \in 0 .. 1,
           NEW p \in 0 .. 1, NEW u \in 0 .. 1, NEW flags \in Nat,
           flags = 2 * c + 4 * w + 8 * q + 32 * r + 64 * p + 128 * u
    PROVE  /\ (flags \div 1) % 2 = 0 /\ (flags \div 2) % 2 = c /\ (flags \div 4) % 2 = w
           /\ (flags \div 8) % 4 = q /\ (flags \div 32) % 2 = r
           /\ (flags \div 64) % 2 = p /\ (flags \div 128) % 2 = u
<1>1. (flags \div 1) % 2 = 0
  BY SMT
<1>2. (flags \div 2) % 2 = c
  <2>1. flags \div 2 = c + 2 * (w + 2 * q + 8 * r + 16 * p + 32 * u)
    BY SMT
  <2>2. (c + 2 * (w + 2 * q + 8 * r + 16 * p + 32 * u)) % 2 = c
    BY SMT
  <2>3. QED
    BY <2>1, <2>2
<1>3. (flags \div 4) % 2 = w
  <2>1. flags \div 4 = w + 2 * (q + 4 * r + 8 * p + 16 * u)
    BY SMT
  <2>2. (w + 2 * (q + 4 * r + 8 * p + 16 * u)) % 2 = w
    BY SMT
  <2>3. QED
    BY <2>1, <2>2
<1>4. (flags \div 8) % 4 = q
  <2>1. flags \div 8 = q + 4 * (r + 2 * p + 4 * u)
    BY SMT
  <2>2. (q + 4 * (r + 2 * p + 4 * u)) % 4 = q
    BY SMT
  <2>3. QED
    BY <2>1, <2>2
<1>5. (flags \div 32) % 2 = r
  <2>1. flags \div 32 = r + 2 * (p + 2 * u)
    BY SMT
  <2>2. (r + 2 * (p + 2 * u)) % 2 = r
    BY SMT
  <2>3. QED
    BY <2>1, <2>2
<1>6. (flags \div 64) % 2 = p
  <2>1. flags \div 64 = p + 2 * u
    BY SMT
  <2>2. (p + 2 * u) % 2 = p
    BY SMT
  <2>3. QED
    BY <2>1, <2>2
<1>7. (flags \div 128) % 2 = u
  <2>1. flags \div 128 = u
    BY SMT
  <2>2. u % 2 = u
    BY SMT
  <2>3. QED
    BY <2>1, <2>2
<1>8. QED
  BY <1>1, <1>2, <1>3, <1>4, <1>5, <1>6, <1>7

(* A flag is 1 or 0, with its weight.                                      *)
LEMMA BitIs ==
    ASSUME NEW condition \in BOOLEAN, NEW weight \in {1, 2, 4, 8, 32, 64, 128}
    PROVE  \E bit \in 0 .. 1 : Bit(condition, weight) = weight * bit /\ (bit = 1 <=> condition)
<1>1. CASE condition
  <2>1. Bit(condition, weight) = weight * 1
    BY <1>1 DEF Bit
  <2>2. 1 \in 0 .. 1 /\ (1 = 1 <=> condition)
    BY <1>1
  <2>3. QED
    BY <2>1, <2>2
<1>2. CASE ~ condition
  <2>1. Bit(condition, weight) = weight * 0
    BY <1>2 DEF Bit
  <2>2. 0 \in 0 .. 1 /\ (0 = 1 <=> condition)
    BY <1>2
  <2>3. QED
    BY <2>1, <2>2
<1>3. QED
  BY <1>1, <1>2

(* The flags of a CONNECT are read as they were written.                   *)
FlagsSay(flags, p) ==
    /\ HasBit(flags, 1) = FALSE /\ HasBit(flags, 2) = p.cleanSession
    /\ HasBit(flags, 4) = (p.will # <<>>) /\ HasBit(flags, 64) = (p.password # <<>>)
    /\ HasBit(flags, 128) = (p.userName # <<>>)
    /\ p.will # <<>> => (flags \div 8) % 4 = p.will[1].qos /\ HasBit(flags, 32) = p.will[1].retain

(* The flags that serializeConnectPacket sets say it.                      *)
LEMMA ConnectFlagsRead ==
    ASSUME NEW p \in Connect, NEW flags, flags = ConnectFlags(p)
    PROVE  flags \in Byte /\ FlagsSay(flags, p)
<1>1. flags \in Byte
  BY ConnectFlagsByte
<1>2. PICK c \in 0 .. 1 : Bit(p.cleanSession, 2) = 2 * c /\ (c = 1 <=> p.cleanSession)
  <2>1. p.cleanSession \in BOOLEAN
    BY DEF Connect
  <2>2. QED
    BY <2>1, BitIs
<1>3. PICK u \in 0 .. 1 : Bit(p.userName # <<>>, 128) = 128 * u /\ (u = 1 <=> p.userName # <<>>)
  <2>1. PICK there \in BOOLEAN : there = (p.userName # <<>>)
    OBVIOUS
  <2>2. QED
    BY <2>1, BitIs
<1>4. PICK s \in 0 .. 1 : Bit(p.password # <<>>, 64) = 64 * s /\ (s = 1 <=> p.password # <<>>)
  <2>1. PICK there \in BOOLEAN : there = (p.password # <<>>)
    OBVIOUS
  <2>2. QED
    BY <2>1, BitIs
<1>5. PICK w \in 0 .. 1, q \in 0 .. 2, r \in 0 .. 1 :
          /\ (w = 1 <=> p.will # <<>>)
          /\ p.will # <<>> => /\ q = p.will[1].qos /\ (r = 1 <=> p.will[1].retain)
          /\ (IF p.will = <<>> THEN 0 ELSE 4 + 8 * p.will[1].qos + Bit(p.will[1].retain, 32))
             = 4 * w + 8 * q + 32 * r
  <2>1. CASE p.will = <<>>
    <3>1. 0 = 4 * 0 + 8 * 0 + 32 * 0 /\ 0 \in 0 .. 1 /\ 0 \in 0 .. 2 /\ ~ (0 = 1)
      OBVIOUS
    <3>2. (IF p.will = <<>> THEN 0 ELSE 4 + 8 * p.will[1].qos + Bit(p.will[1].retain, 32)) = 0
      BY <2>1
    <3>3. QED
      BY <2>1, <3>1, <3>2
  <2>2. CASE p.will # <<>>
    <3>1. p.will[1] \in Will
      <4>1. p.will \in Optional(Will)
        BY DEF Connect
      <4>2. QED
        BY <2>2, <4>1, LengthOfOptional
    <3>2. PICK q \in 0 .. 2, retain \in BOOLEAN : q = p.will[1].qos /\ retain = p.will[1].retain
      BY <3>1 DEF Will, QoS
    <3>3. PICK r \in 0 .. 1 : Bit(retain, 32) = 32 * r /\ (r = 1 <=> retain)
      BY BitIs
    <3>4. (IF p.will = <<>> THEN 0 ELSE 4 + 8 * p.will[1].qos + Bit(p.will[1].retain, 32))
          = 4 + 8 * q + 32 * r
      BY <2>2, <3>2, <3>3
    <3>5. 4 + 8 * q + 32 * r = 4 * 1 + 8 * q + 32 * r /\ 1 \in 0 .. 1
      OBVIOUS
    <3>6. (r = 1 <=> p.will[1].retain)
      BY <3>2, <3>3
    <3>7. (1 = 1 <=> p.will # <<>>) /\ q = p.will[1].qos
      BY <2>2, <3>2
    <3>8. (IF p.will = <<>> THEN 0 ELSE 4 + 8 * p.will[1].qos + Bit(p.will[1].retain, 32))
          = 4 * 1 + 8 * q + 32 * r
      BY <3>4, <3>5
    <3>9. QED
      BY <3>5, <3>6, <3>7, <3>8
  <2>3. QED
    BY <2>1, <2>2
<1>6. flags = 2 * c + 4 * w + 8 * q + 32 * r + 64 * s + 128 * u
  <2>1. flags = 2 * c + 128 * u + 64 * s
                + (IF p.will = <<>> THEN 0 ELSE 4 + 8 * p.will[1].qos + Bit(p.will[1].retain, 32))
    BY <1>2, <1>3, <1>4 DEF ConnectFlags
  <2>2. flags = 2 * c + 128 * u + 64 * s + (4 * w + 8 * q + 32 * r)
    BY <1>5, <2>1
  <2>3. QED
    BY <2>2
<1>7. /\ (flags \div 1) % 2 = 0 /\ (flags \div 2) % 2 = c /\ (flags \div 4) % 2 = w
      /\ (flags \div 8) % 4 = q /\ (flags \div 32) % 2 = r
      /\ (flags \div 64) % 2 = s /\ (flags \div 128) % 2 = u
  <2>1. flags \in Nat
    BY <1>1 DEF Byte
  <2>2. QED
    BY <1>6, <2>1, BitsOfFlags
<1>8. HasBit(flags, 1) = FALSE
  <2>1. ~ HasBit(flags, 1) /\ HasBit(flags, 1) \in BOOLEAN
    BY <1>7 DEF HasBit
  <2>2. QED
    BY <2>1
<1>9. HasBit(flags, 2) = p.cleanSession
  <2>1. (HasBit(flags, 2) <=> p.cleanSession) /\ HasBit(flags, 2) \in BOOLEAN
    BY <1>2, <1>7 DEF HasBit
  <2>2. p.cleanSession \in BOOLEAN
    BY DEF Connect
  <2>3. QED
    BY <2>1, <2>2, SameTruth
<1>10. HasBit(flags, 4) = (p.will # <<>>)
  <2>1. (HasBit(flags, 4) <=> p.will # <<>>) /\ HasBit(flags, 4) \in BOOLEAN
    BY <1>5, <1>7 DEF HasBit
  <2>2. (p.will # <<>>) \in BOOLEAN
    OBVIOUS
  <2>3. QED
    BY <2>1, <2>2, SameTruth
<1>11. HasBit(flags, 64) = (p.password # <<>>)
  <2>1. (HasBit(flags, 64) <=> p.password # <<>>) /\ HasBit(flags, 64) \in BOOLEAN
    BY <1>4, <1>7 DEF HasBit
  <2>2. (p.password # <<>>) \in BOOLEAN
    OBVIOUS
  <2>3. QED
    BY <2>1, <2>2, SameTruth
<1>12. HasBit(flags, 128) = (p.userName # <<>>)
  <2>1. (HasBit(flags, 128) <=> p.userName # <<>>) /\ HasBit(flags, 128) \in BOOLEAN
    BY <1>3, <1>7 DEF HasBit
  <2>2. (p.userName # <<>>) \in BOOLEAN
    OBVIOUS
  <2>3. QED
    BY <2>1, <2>2, SameTruth
<1>13. ASSUME p.will # <<>>
       PROVE  (flags \div 8) % 4 = p.will[1].qos /\ HasBit(flags, 32) = p.will[1].retain
  <2>1. p.will[1].retain \in BOOLEAN
    <3>1. p.will \in Optional(Will)
      BY DEF Connect
    <3>2. p.will[1] \in Will
      BY <1>13, <3>1, LengthOfOptional
    <3>3. QED
      BY <3>2 DEF Will
  <2>2. (HasBit(flags, 32) <=> p.will[1].retain) /\ HasBit(flags, 32) \in BOOLEAN
    BY <1>5, <1>7, <1>13 DEF HasBit
  <2>3. QED
    BY <1>5, <1>7, <1>13, <2>1, <2>2, SameTruth
<1>14. QED
  BY <1>1, <1>8, <1>9, <1>10, <1>11, <1>12, <1>13 DEF FlagsSay

(* A will from its fields.                                                 *)
LEMMA WillIs ==
    ASSUME NEW will \in Optional(Will), will # <<>>
    PROVE  will = <<[topic |-> will[1].topic, payload |-> will[1].payload,
                     qos |-> will[1].qos, retain |-> will[1].retain]>>
<1>1. PICK one \in Will : will = <<one>> /\ will[1] = one
  BY LengthOfOptional
<1>2. one = [topic |-> one.topic, payload |-> one.payload, qos |-> one.qos, retain |-> one.retain]
  BY DEF Will
<1>3. QED
  BY <1>1, <1>2

(* What every CONNECT begins with: the name of the protocol, its level.    *)
Protocol == <<0, 4, 77, 81, 84, 84, 4>>

(* Those are seven bytes.                                                  *)
LEMMA ProtocolBytes == Protocol \in Seq(Byte) /\ Len(Protocol) = 7
<1>1. 0 \in Byte /\ 4 \in Byte /\ 77 \in Byte /\ 81 \in Byte /\ 84 \in Byte
  BY SMT DEF Byte
<1>2. QED
  BY <1>1 DEF Protocol

(* The name, as serializeConnectPacket writes it.                          *)
Mqtt == <<77, 81, 84, 84>>

(* It is a string of four bytes.                                           *)
LEMMA MqttBytes ==
    Mqtt \in String16 /\ Len(Mqtt) = 4 /\ Mqtt[1] = 77 /\ Mqtt[2] = 81 /\ Mqtt[3] = 84 /\ Mqtt[4] = 84
<1>1. <<77, 81, 84, 84>> \in Seq(Byte) /\ Len(<<77, 81, 84, 84>>) = 4
  BY SMT DEF Byte
<1>2. <<77, 81, 84, 84>> \in String16
  BY SMT, <1>1 DEF String16
<1>3. QED
  BY <1>1, <1>2 DEF Mqtt

(* With its length in front, it is the first six of those bytes.           *)
LEMMA NameBytes ==
    /\ EncodeString(Mqtt) \in Seq(Byte) /\ Len(EncodeString(Mqtt)) = 6
    /\ \A i \in 1 .. 6 : EncodeString(Mqtt)[i] = Protocol[i]
<1>1. PICK s \in String16 :
          s = Mqtt /\ Len(s) = 4 /\ s[1] = 77 /\ s[2] = 81 /\ s[3] = 84 /\ s[4] = 84
  BY MqttBytes
<1>2. 4 \in UINT16 /\ 4 \div 256 = 0 /\ 4 % 256 = 4
  BY SMT DEF UINT16
<1>3. PICK two \in Seq(Byte) : two = Encode16(4) /\ Len(two) = 2 /\ two[1] = 0 /\ two[2] = 4
  BY <1>2, Encoded16
<1>4. EncodeString(s) = Encode16(Len(s)) \o s /\ EncodeString(s) \in Seq(Byte)
      /\ Len(EncodeString(s)) = 2 + Len(s) /\ s \in Seq(Byte)
  BY EncodedString, StringLength
<1>5. PICK e \in Seq(Byte) : e = EncodeString(s) /\ e = two \o s /\ Len(e) = 6
  <2>1. Encode16(Len(s)) = two /\ 2 + Len(s) = 6
    BY <1>1, <1>3
  <2>2. PICK e \in Seq(Byte) : e = EncodeString(s)
    BY <1>4
  <2>3. e = two \o s
    BY <1>4, <2>1, <2>2
  <2>4. Len(e) = 6
    BY <1>4, <2>1, <2>2
  <2>5. QED
    BY <2>2, <2>3, <2>4
<1>6. /\ \A i \in 1 .. Len(two) : (two \o s)[i] = two[i]
      /\ \A i \in 1 .. Len(s) : (two \o s)[Len(two) + i] = s[i]
  BY <1>4, Joined
<1>7. /\ \A i \in 1 .. 2 : e[i] = two[i]
      /\ \A i \in 1 .. 4 : e[2 + i] = s[i]
  <2>1. Len(two) = 2 /\ Len(s) = 4 /\ e = two \o s
    BY <1>1, <1>3, <1>5
  <2>2. /\ \A i \in 1 .. Len(two) : e[i] = two[i]
        /\ \A i \in 1 .. Len(s) : e[Len(two) + i] = s[i]
    BY <1>6, <2>1
  <2>3. QED
    BY <2>1, <2>2
<1>8. e[1] = 0 /\ e[2] = 4
  BY <1>3, <1>7
<1>9. e[2 + 1] = 77 /\ e[2 + 2] = 81 /\ e[2 + 3] = 84 /\ e[2 + 4] = 84
  BY <1>1, <1>7
<1>10. e[3] = 77 /\ e[4] = 81 /\ e[5] = 84 /\ e[6] = 84
  BY <1>9
<1>11. \A i \in 1 .. 6 : e[i] = Protocol[i]
  <2> TAKE i \in 1 .. 6
  <2>1. i = 1 \/ i = 2 \/ i = 3 \/ i = 4 \/ i = 5 \/ i = 6
    OBVIOUS
  <2>2. /\ Protocol[1] = 0 /\ Protocol[2] = 4 /\ Protocol[3] = 77
        /\ Protocol[4] = 81 /\ Protocol[5] = 84 /\ Protocol[6] = 84
    BY DEF Protocol
  <2>3. QED
    BY <1>8, <1>10, <2>1, <2>2
<1>12. QED
  BY <1>1, <1>5, <1>11

(* With the level and the flags behind it.                                 *)
LEMMA ProtocolWritten ==
    ASSUME NEW f \in Byte
    PROVE  EncodeString(Mqtt) \o <<4, f>> = Protocol \o <<f>>
<1>1. PICK name \in Seq(Byte) :
          name = EncodeString(Mqtt) /\ Len(name) = 6 /\ \A i \in 1 .. 6 : name[i] = Protocol[i]
  BY NameBytes
<1>2. PICK v \in Byte : v = 4
  BY SMT DEF Byte
<1>3. name \o <<v, f>> = (name \o <<v>>) \o <<f>>
  BY JoinedPair
<1>4. PICK one \in Seq(Byte), other \in Seq(Byte) :
          one = <<v>> /\ other = <<f>> /\ Len(one) = 1 /\ one[1] = v
  <2>1. <<v>> \in Seq(Byte) /\ <<f>> \in Seq(Byte) /\ Len(<<v>>) = 1 /\ <<v>>[1] = v
    OBVIOUS
  <2>2. QED
    BY <2>1
<1>5. PICK p \in Seq(Byte) : p = Protocol /\ Len(p) = 7 /\ p[7] = 4
  BY ProtocolBytes DEF Protocol
<1>6. PICK both \in Seq(Byte) :
          /\ both = name \o one /\ Len(both) = 7 /\ \A i \in 1 .. 6 : both[i] = name[i]
          /\ both[6 + 1] = one[1]
  <2>1. /\ name \o one \in Seq(Byte) /\ Len(name \o one) = Len(name) + Len(one)
        /\ \A i \in 1 .. Len(name) : (name \o one)[i] = name[i]
        /\ \A i \in 1 .. Len(one) : (name \o one)[Len(name) + i] = one[i]
    BY Joined
  <2>2. Len(name) = 6 /\ Len(one) = 1
    BY <1>1, <1>4
  <2>3. PICK both \in Seq(Byte) :
            /\ both = name \o one /\ Len(both) = 6 + 1
            /\ \A i \in 1 .. 6 : both[i] = name[i]
            /\ \A i \in 1 .. 1 : both[6 + i] = one[i]
    <3>1. PICK both \in Seq(Byte) : both = name \o one
      BY <2>1
    <3>2. /\ Len(both) = Len(name) + Len(one)
          /\ \A i \in 1 .. Len(name) : both[i] = name[i]
          /\ \A i \in 1 .. Len(one) : both[Len(name) + i] = one[i]
      BY <2>1, <3>1
    <3>3. Len(both) = 6 + 1 /\ \A i \in 1 .. 6 : both[i] = name[i]
      BY <2>2, <3>2
    <3>4. \A i \in 1 .. 1 : both[6 + i] = one[i]
      BY <2>2, <3>2
    <3>5. QED
      BY <3>1, <3>3, <3>4
  <2>4. both[6 + 1] = one[1] /\ Len(both) = 7
    BY <2>3
  <2>5. QED
    BY <2>3, <2>4
<1>7. both = p
  <2>1. both[7] = p[7]
    BY <1>2, <1>4, <1>5, <1>6
  <2>2. \A i \in 1 .. 7 : both[i] = p[i]
    <3> TAKE i \in 1 .. 7
    <3>1. i = 7 \/ i \in 1 .. 6
      OBVIOUS
    <3>2. QED
      BY <1>1, <1>5, <1>6, <2>1, <3>1
  <2>3. QED
    BY <1>5, <1>6, <2>2, SeqEqual
<1>8. QED
  BY <1>1, <1>2, <1>3, <1>4, <1>5, <1>6, <1>7

(* A header in front of four parts is in front of all of them.             *)
AreBytes(h, a, b, c, d) ==
    h \in Seq(Byte) /\ a \in Seq(Byte) /\ b \in Seq(Byte) /\ c \in Seq(Byte) /\ d \in Seq(Byte)

(* The same bytes, the parts put together first.                           *)
Regrouped(h, a, b, c, d) ==
    /\ ((a \o b) \o c) \o d \in Seq(Byte)
    /\ h \o a \o b \o c \o d = h \o (((a \o b) \o c) \o d)

(* So it is for bytes of any length.                                       *)
LEMMA FourRegrouped == \A h, a, b, c, d : AreBytes(h, a, b, c, d) => Regrouped(h, a, b, c, d)
<1> SUFFICES ASSUME NEW h, NEW a, NEW b, NEW c, NEW d, AreBytes(h, a, b, c, d)
             PROVE  Regrouped(h, a, b, c, d)
  OBVIOUS
<1>1. h \in Seq(Byte) /\ a \in Seq(Byte) /\ b \in Seq(Byte) /\ c \in Seq(Byte) /\ d \in Seq(Byte)
  BY DEF AreBytes
<1>2. PICK ab : ab = a \o b
  OBVIOUS
<1>3. PICK abc : abc = ab \o c
  OBVIOUS
<1>4. ab \in Seq(Byte)
  BY <1>1, <1>2, Joined
<1>5. abc \in Seq(Byte)
  BY <1>1, <1>3, <1>4, Joined
<1>6. abc \o d \in Seq(Byte)
  BY <1>1, <1>5, Joined
<1>7. (h \o a) \o b = h \o (a \o b)
  <2>1. h \in Seq(Byte) /\ a \in Seq(Byte) /\ b \in Seq(Byte)
    BY <1>1
  <2>2. QED
    BY <2>1, BytesJoin
<1>8. (h \o ab) \o c = h \o (ab \o c)
  <2>1. h \in Seq(Byte) /\ ab \in Seq(Byte) /\ c \in Seq(Byte)
    BY <1>1, <1>4
  <2>2. QED
    BY <2>1, BytesJoin
<1>9. (h \o abc) \o d = h \o (abc \o d)
  <2>1. h \in Seq(Byte) /\ abc \in Seq(Byte) /\ d \in Seq(Byte)
    BY <1>1, <1>5
  <2>2. QED
    BY <2>1, BytesJoin
<1>10. h \o a \o b \o c \o d = h \o (abc \o d)
  BY <1>2, <1>3, <1>7, <1>8, <1>9
<1>11. QED
  BY <1>2, <1>3, <1>6, <1>10 DEF Regrouped

(* The body of a CONNECT, in the parts it is read in.                      *)
ConnectBody(p) ==
    ((Protocol \o <<ConnectFlags(p)>>) \o Encode16(p.keepAlive))
    \o (((EncodeString(p.clientId) \o WillBytes(p.will)) \o OptionBytes(p.userName)) \o OptionBytes(p.password))

(* They are what is written behind the fixed header.                       *)
LEMMA ConnectFramed ==
    ASSUME NEW p \in Connect, WillFits(p), NEW n \in 0 .. MaxRemainingLength, n = ConnectRemaining(p)
    PROVE  /\ ConnectBody(p) \in Seq(Byte) /\ Len(ConnectBody(p)) = n
           /\ ConnectBytes(p, n) = FixedHeader(Type.CONNECT, n) \o ConnectBody(p)
<1>1. PICK id, will, user, password, alive, f :
          /\ id = p.clientId /\ will = p.will /\ user = p.userName /\ password = p.password
          /\ alive = p.keepAlive /\ f = ConnectFlags(p)
  OBVIOUS
<1>2. alive \in UINT16 /\ f \in Byte /\ ConnectFields(id, will, user, password)
  BY <1>1, ConnectFlagsByte DEF Connect, WillFits, ConnectFields
<1>3. /\ WillBytes(will) \in Seq(Byte) /\ EncodeString(id) \in Seq(Byte)
      /\ OptionBytes(user) \in Seq(Byte) /\ OptionBytes(password) \in Seq(Byte)
      /\ EncodeStrings(((<<id>> \o WillStrings(will)) \o user) \o password) =
             ((EncodeString(id) \o WillBytes(will)) \o OptionBytes(user)) \o OptionBytes(password)
  <2>1. ConnectFields(id, will, user, password)
    BY <1>2
  <2>2. StringsInOrder(id, will, user, password)
    BY <2>1, ConnectStrings
  <2>3. QED
    BY <2>2 DEF StringsInOrder
<1>4. PICK strings :
          /\ strings \in Seq(Byte)
          /\ strings = ((EncodeString(id) \o WillBytes(will)) \o OptionBytes(user)) \o OptionBytes(password)
          /\ strings = EncodeStrings(((<<id>> \o WillStrings(will)) \o user) \o password)
  <2>1. EncodeString(id) \o WillBytes(will) \in Seq(Byte)
    BY <1>3, Joined
  <2>2. (EncodeString(id) \o WillBytes(will)) \o OptionBytes(user) \in Seq(Byte)
    BY <1>3, <2>1, Joined
  <2>3. ((EncodeString(id) \o WillBytes(will)) \o OptionBytes(user)) \o OptionBytes(password) \in Seq(Byte)
    BY <1>3, <2>2, Joined
  <2>4. QED
    BY <1>3, <2>3
<1>5. PICK header :
          header \in Seq(Byte) /\ header = FixedHeader(Type.CONNECT, n) /\ Len(header) + n = PacketSize(n)
  <2>1. Type.CONNECT \in Byte
    BY SMT DEF Type, Byte
  <2>2. QED
    BY <2>1, FixedHeaderLength
<1>6. PICK name, flags, keep :
          /\ name = EncodeString(Mqtt) /\ flags = <<4, f>> /\ keep = Encode16(alive)
  OBVIOUS
<1>7. /\ name \in Seq(Byte) /\ flags \in Seq(Byte) /\ keep \in Seq(Byte)
      /\ name \o flags = Protocol \o <<f>>
  <2>1. flags \in Seq(Byte)
    <3>1. PICK v \in Byte : v = 4
      BY SMT DEF Byte
    <3>2. <<v, f>> \in Seq(Byte)
      BY <1>2
    <3>3. QED
      BY <1>6, <3>1, <3>2
  <2>2. keep \in Seq(Byte)
    BY <1>2, <1>6, Encoded16
  <2>3. name \in Seq(Byte)
    BY <1>6, NameBytes
  <2>4. name \o flags = Protocol \o <<f>>
    BY <1>2, <1>6, ProtocolWritten
  <2>5. QED
    BY <2>1, <2>2, <2>3, <2>4
<1>8. ConnectBytes(p, n) = header \o name \o flags \o keep \o strings
  BY <1>1, <1>4, <1>5, <1>6 DEF ConnectBytes, Mqtt, WillStrings
<1>9. PICK body : body = ((name \o flags) \o keep) \o strings
  OBVIOUS
<1>10. AreBytes(header, name, flags, keep, strings)
  BY <1>4, <1>5, <1>7 DEF AreBytes
<1>11. body \in Seq(Byte) /\ ConnectBytes(p, n) = header \o body
  <2>1. Regrouped(header, name, flags, keep, strings)
    BY <1>10, FourRegrouped
  <2>2. QED
    BY <1>8, <1>9, <2>1 DEF Regrouped
<1>12. ConnectBody(p) = body
  BY <1>1, <1>4, <1>6, <1>7, <1>9 DEF ConnectBody
<1>13. Len(body) = n
  <2>1. Len(ConnectBytes(p, n)) = PacketSize(n)
    BY ConnectLength
  <2>2. Len(header \o body) = Len(header) + Len(body)
    BY <1>5, <1>11, Joined
  <2>3. PICK h \in Nat, l \in Nat, m \in Nat : h = Len(header) /\ l = Len(body) /\ m = n
    BY <1>5, <1>11, LenProperties, LargestLength
  <2>4. h + l = h + m
    BY <1>5, <1>11, <2>1, <2>2, <2>3
  <2>5. l = m
    BY <2>4
  <2>6. QED
    BY <2>3, <2>5
<1>14. QED
  BY <1>5, <1>11, <1>12, <1>13

(* Where the parts of a CONNECT stand in its packet, and that nothing is   *)
(* behind them.                                                            *)
ConnectLaid(b, at, p, x, y, z, w) ==
    /\ b \in Seq(Byte) /\ at \in 3 .. 6 /\ at = BodyAt(b)
    /\ x \in Nat /\ y \in Nat /\ z \in Nat /\ w \in Nat
    /\ SubSeq(b, at, at + 6) = Protocol /\ b[at + 7] = ConnectFlags(p)
    /\ Decode16(b, at + 8) = p.keepAlive
    /\ Stands(b, at + 10, EncodeString(p.clientId)) /\ x = Len(EncodeString(p.clientId))
    /\ Stands(b, at + 10 + x, WillBytes(p.will)) /\ y = Len(WillBytes(p.will))
    /\ Stands(b, at + 10 + x + y, OptionBytes(p.userName)) /\ z = Len(OptionBytes(p.userName))
    /\ Stands(b, at + 10 + x + y + z, OptionBytes(p.password)) /\ w = Len(OptionBytes(p.password))
    /\ at + 10 + x + y + z + w = Len(b) + 1

(* A body that was read as the serialiser framed it lies so.               *)
LEMMA ConnectStands ==
    ASSUME NEW p \in Connect, WillFits(p), NEW b, ReadAsFramed(b, Type.CONNECT, ConnectBody(p))
    PROVE  \E at, x, y, z, w : ConnectLaid(b, at, p, x, y, z, w)
<1>1. /\ b \in Seq(Byte) /\ BodyAt(b) \in 3 .. 6 /\ Len(b) = BodyAt(b) + Len(ConnectBody(p)) - 1
      /\ Stands(b, BodyAt(b), ConnectBody(p))
  BY DEF ReadAsFramed
<1>2. PICK at \in Nat : at = BodyAt(b) /\ at \in 3 .. 6
  BY <1>1
<1>3. PICK proto, flags, keep, id, will, user, password :
          /\ proto = Protocol /\ flags = <<ConnectFlags(p)>> /\ keep = Encode16(p.keepAlive)
          /\ id = EncodeString(p.clientId) /\ will = WillBytes(p.will)
          /\ user = OptionBytes(p.userName) /\ password = OptionBytes(p.password)
  OBVIOUS
<1>4. /\ proto \in Seq(Byte) /\ Len(proto) = 7 /\ keep \in Seq(Byte) /\ Len(keep) = 2
      /\ p.keepAlive \in UINT16
  BY <1>3, ProtocolBytes, Encoded16 DEF Connect
<1>5. flags \in Seq(Byte) /\ Len(flags) = 1
  <2>1. PICK f \in Byte : f = ConnectFlags(p)
    BY ConnectFlagsByte
  <2>2. <<f>> \in Seq(Byte) /\ Len(<<f>>) = 1
    OBVIOUS
  <2>3. QED
    BY <1>3, <2>1, <2>2
<1>6. id \in Seq(Byte) /\ will \in Seq(Byte) /\ user \in Seq(Byte) /\ password \in Seq(Byte)
  <2>1. ConnectFields(p.clientId, p.will, p.userName, p.password)
    BY DEF Connect, WillFits, ConnectFields
  <2>2. StringsInOrder(p.clientId, p.will, p.userName, p.password)
    BY <2>1, ConnectStrings
  <2>3. QED
    BY <1>3, <2>2 DEF StringsInOrder
<1>7. PICK x \in Nat, y \in Nat, z \in Nat, w \in Nat :
          x = Len(id) /\ y = Len(will) /\ z = Len(user) /\ w = Len(password)
  <2>1. Len(id) \in Nat /\ Len(will) \in Nat /\ Len(user) \in Nat /\ Len(password) \in Nat
    BY <1>6, LenProperties
  <2>2. QED
    BY <2>1
<1>8. PICK pf : pf = proto \o flags /\ pf \in Seq(Byte) /\ Len(pf) = 8
  <2>1. proto \o flags \in Seq(Byte) /\ Len(proto \o flags) = Len(proto) + Len(flags)
    BY <1>4, <1>5, Joined
  <2>2. Len(proto) + Len(flags) = 8
    BY <1>4, <1>5
  <2>3. QED
    BY <2>1, <2>2
<1>9. PICK pfk : pfk = pf \o keep /\ pfk \in Seq(Byte) /\ Len(pfk) = 10
  <2>1. pf \o keep \in Seq(Byte) /\ Len(pf \o keep) = Len(pf) + Len(keep)
    BY <1>4, <1>8, Joined
  <2>2. Len(pf) + Len(keep) = 10
    BY <1>4, <1>8
  <2>3. QED
    BY <2>1, <2>2
<1>10. PICK iw : iw = id \o will /\ iw \in Seq(Byte) /\ Len(iw) = x + y
  <2>1. id \o will \in Seq(Byte) /\ Len(id \o will) = Len(id) + Len(will)
    BY <1>6, Joined
  <2>2. Len(id) + Len(will) = x + y
    BY <1>7
  <2>3. QED
    BY <2>1, <2>2
<1>11. PICK iwu : iwu = iw \o user /\ iwu \in Seq(Byte) /\ Len(iwu) = x + y + z
  <2>1. iw \o user \in Seq(Byte) /\ Len(iw \o user) = Len(iw) + Len(user)
    BY <1>6, <1>10, Joined
  <2>2. Len(iw) + Len(user) = x + y + z
    BY <1>7, <1>10
  <2>3. QED
    BY <2>1, <2>2
<1>12. PICK all : all = iwu \o password /\ all \in Seq(Byte) /\ Len(all) = x + y + z + w
  <2>1. iwu \o password \in Seq(Byte) /\ Len(iwu \o password) = Len(iwu) + Len(password)
    BY <1>6, <1>11, Joined
  <2>2. Len(iwu) + Len(password) = x + y + z + w
    BY <1>7, <1>11
  <2>3. QED
    BY <2>1, <2>2
<1>13. ConnectBody(p) = pfk \o all /\ Len(pfk \o all) = 10 + (x + y + z + w)
  <2>1. ConnectBody(p) = pfk \o all
    BY <1>3, <1>8, <1>9, <1>10, <1>11, <1>12 DEF ConnectBody
  <2>2. Len(pfk \o all) = 10 + (x + y + z + w)
    BY <1>9, <1>12, Joined
  <2>3. QED
    BY <2>1, <2>2
<1>14. Stands(b, at, pfk) /\ Stands(b, at + 10, all)
  <2>1. Stands(b, at, pfk \o all)
    BY <1>1, <1>2, <1>13
  <2>2. Stands(b, at, pfk) /\ Stands(b, at + Len(pfk), all)
    BY <1>1, <1>9, <1>12, <2>1, StandsSplit
  <2>3. QED
    BY <1>9, <2>2
<1>15. Stands(b, at, pf) /\ Stands(b, at + 8, keep)
  <2>1. Stands(b, at, pf) /\ Stands(b, at + Len(pf), keep)
    BY <1>1, <1>4, <1>8, <1>9, <1>14, StandsSplit
  <2>2. QED
    BY <1>8, <2>1
<1>16. Stands(b, at, proto) /\ Stands(b, at + 7, flags)
  <2>1. Stands(b, at, proto) /\ Stands(b, at + Len(proto), flags)
    BY <1>1, <1>4, <1>5, <1>8, <1>15, StandsSplit
  <2>2. QED
    BY <1>4, <2>1
<1>17. Stands(b, at + 10, iwu) /\ Stands(b, at + 10 + x + y + z, password)
  <2>1. Stands(b, at + 10, iwu) /\ Stands(b, (at + 10) + Len(iwu), password)
    BY <1>1, <1>6, <1>11, <1>12, <1>14, StandsSplit
  <2>2. (at + 10) + (x + y + z) = at + 10 + x + y + z
    OBVIOUS
  <2>3. QED
    BY <1>11, <2>1, <2>2
<1>18. Stands(b, at + 10, iw) /\ Stands(b, at + 10 + x + y, user)
  <2>1. Stands(b, at + 10, iw) /\ Stands(b, (at + 10) + Len(iw), user)
    BY <1>1, <1>6, <1>10, <1>11, <1>17, StandsSplit
  <2>2. (at + 10) + (x + y) = at + 10 + x + y
    OBVIOUS
  <2>3. QED
    BY <1>10, <2>1, <2>2
<1>19. Stands(b, at + 10, id) /\ Stands(b, at + 10 + x, will)
  <2>1. Stands(b, at + 10, id) /\ Stands(b, (at + 10) + Len(id), will)
    BY <1>1, <1>6, <1>10, <1>18, StandsSplit
  <2>2. QED
    BY <1>7, <2>1
<1>20. SubSeq(b, at, at + 6) = Protocol
  <2>1. SubSeq(b, at, at + Len(proto) - 1) = proto
    BY <1>1, <1>4, <1>16, StandsPart
  <2>2. at + 7 - 1 = at + 6
    BY <1>2
  <2>3. QED
    BY <1>3, <1>4, <2>1, <2>2
<1>21. b[at + 7] = ConnectFlags(p)
  BY <1>1, <1>3, <1>16, StandsByte
<1>22. Decode16(b, at + 8) = p.keepAlive
  BY <1>1, <1>3, <1>4, <1>15, StandsNumber
<1>23. at + 10 + x + y + z + w = Len(b) + 1
  <2>1. Len(b) = at + (10 + (x + y + z + w)) - 1
    BY <1>1, <1>2, <1>13
  <2>2. at + (10 + (x + y + z + w)) - 1 + 1 = at + 10 + x + y + z + w
    OBVIOUS
  <2>3. QED
    BY <2>1, <2>2
<1>24. ConnectLaid(b, at, p, x, y, z, w)
  BY <1>1, <1>2, <1>3, <1>7, <1>17, <1>18, <1>19, <1>20, <1>21, <1>22, <1>23 DEF ConnectLaid
<1>25. QED
  BY <1>24

(* A will, there or not, is read as it was written.                        *)
WillStands(b, i, will, there, qos, retain) ==
    /\ b \in Seq(Byte) /\ i \in Nat /\ will \in Optional(Will)
    /\ (will # <<>> => will[1].payload \in String16) /\ Stands(b, i, WillBytes(will))
    /\ there \in BOOLEAN /\ there = (will # <<>>)
    /\ (will # <<>> => qos = will[1].qos /\ retain = will[1].retain)

(* What is found there, and where what follows begins.                     *)
WillIsRead(b, i, will, there, qos, retain) ==
    /\ (IF there THEN After(b, After(b, i)) ELSE i) = i + Len(WillBytes(will))
    /\ (IF there THEN <<[topic |-> StringAt(b, i), payload |-> StringAt(b, After(b, i)),
                         qos |-> qos, retain |-> retain]>> ELSE <<>>) = will

(* The flag for the will says which of the two there is.                   *)
LEMMA OptionalWillRead ==
    \A b, i, will, there, qos, retain :
        WillStands(b, i, will, there, qos, retain) => WillIsRead(b, i, will, there, qos, retain)
<1> SUFFICES ASSUME NEW b, NEW i, NEW will, NEW there, NEW qos, NEW retain,
                    WillStands(b, i, will, there, qos, retain)
             PROVE  WillIsRead(b, i, will, there, qos, retain)
  OBVIOUS
<1>0. /\ b \in Seq(Byte) /\ i \in Nat /\ will \in Optional(Will)
      /\ (will # <<>> => will[1].payload \in String16) /\ Stands(b, i, WillBytes(will))
      /\ there \in BOOLEAN /\ there = (will # <<>>)
      /\ (will # <<>> => qos = will[1].qos /\ retain = will[1].retain)
  BY DEF WillStands
<1>1. CASE will = <<>>
  <2>1. PICK none \in Seq(Byte) : none = <<>> /\ Len(none) = 0
    <3>1. <<>> \in Seq(Byte) /\ Len(<<>>) = 0
      OBVIOUS
    <3>2. QED
      BY <3>1
  <2>2. WillBytes(will) = none
    BY <1>1, <2>1 DEF WillBytes
  <2>3. i + 0 = i
    BY <1>0
  <2>4. QED
    BY <1>0, <1>1, <2>1, <2>2, <2>3 DEF WillIsRead
<1>2. CASE will # <<>>
  <2>1. /\ StringAt(b, i) = will[1].topic /\ StringAt(b, After(b, i)) = will[1].payload
        /\ After(b, After(b, i)) = i + Len(WillBytes(will))
    BY <1>0, <1>2, WillRead
  <2>2. will = <<[topic |-> will[1].topic, payload |-> will[1].payload,
                  qos |-> will[1].qos, retain |-> will[1].retain]>>
    BY <1>0, <1>2, WillIs
  <2>3. QED
    BY <1>0, <1>2, <2>1, <2>2 DEF WillIsRead
<1>3. QED
  BY <1>1, <1>2

(* ReadConnect, with names for what it finds on its way.                   *)
ConnectSteps(b, i, flags, topicAt, userAt, passwordAt, end) ==
    /\ i = BodyAt(b) /\ flags = b[i + 7] /\ topicAt = After(b, i + 10)
    /\ userAt = (IF HasBit(flags, 4) THEN After(b, After(b, topicAt)) ELSE topicAt)
    /\ passwordAt = (IF HasBit(flags, 128) THEN After(b, userAt) ELSE userAt)
    /\ end = (IF HasBit(flags, 64) THEN After(b, passwordAt) ELSE passwordAt)

(* The packet that is put together from it.                                *)
ConnectFound(b, i, flags, topicAt, userAt, passwordAt) ==
    [kind |-> "CONNECT", cleanSession |-> HasBit(flags, 2),
     keepAlive |-> Decode16(b, i + 8), clientId |-> StringAt(b, i + 10),
     will |-> IF HasBit(flags, 4)
              THEN <<[topic |-> StringAt(b, topicAt), payload |-> StringAt(b, After(b, topicAt)),
                      qos |-> (flags \div 8) % 4, retain |-> HasBit(flags, 32)]>>
              ELSE <<>>,
     userName |-> IF HasBit(flags, 128) THEN <<StringAt(b, userAt)>> ELSE <<>>,
     password |-> IF HasBit(flags, 64) THEN <<StringAt(b, passwordAt)>> ELSE <<>>]

(* ReadConnect gives that packet when the bytes end where it has come to.  *)
LEMMA ConnectReader ==
    ASSUME NEW b, NEW i, NEW flags, NEW topicAt, NEW userAt, NEW passwordAt, NEW end,
           ConnectSteps(b, i, flags, topicAt, userAt, passwordAt, end),
           SubSeq(b, i, i + 6) = Protocol, ~ HasBit(flags, 1), end = Len(b) + 1
    PROVE  ReadConnect(b) = ConnectFound(b, i, flags, topicAt, userAt, passwordAt)
BY DEF ConnectSteps, ConnectFound, ReadConnect, Protocol

(* A CONNECT from its fields.                                              *)
LEMMA ConnectIs ==
    ASSUME NEW p \in Connect
    PROVE  p = [kind |-> "CONNECT", cleanSession |-> p.cleanSession, keepAlive |-> p.keepAlive,
                clientId |-> p.clientId, will |-> p.will, userName |-> p.userName,
                password |-> p.password]
BY DEF Connect

(* What stands there as it was written is read as it was given.            *)
LEMMA LaidIsRead ==
    ASSUME NEW p \in Connect, WillFits(p), NEW b, NEW at, NEW x, NEW y, NEW z, NEW w,
           ConnectLaid(b, at, p, x, y, z, w)
    PROVE  ReadConnect(b) = p
<1>1. /\ b \in Seq(Byte) /\ at \in 3 .. 6 /\ at = BodyAt(b)
      /\ x \in Nat /\ y \in Nat /\ z \in Nat /\ w \in Nat
      /\ SubSeq(b, at, at + 6) = Protocol /\ b[at + 7] = ConnectFlags(p)
      /\ Decode16(b, at + 8) = p.keepAlive
      /\ Stands(b, at + 10, EncodeString(p.clientId)) /\ x = Len(EncodeString(p.clientId))
      /\ Stands(b, at + 10 + x, WillBytes(p.will)) /\ y = Len(WillBytes(p.will))
      /\ Stands(b, at + 10 + x + y, OptionBytes(p.userName)) /\ z = Len(OptionBytes(p.userName))
      /\ Stands(b, at + 10 + x + y + z, OptionBytes(p.password)) /\ w = Len(OptionBytes(p.password))
      /\ at + 10 + x + y + z + w = Len(b) + 1
  BY DEF ConnectLaid
<1>2. /\ p.clientId \in String16 /\ p.will \in Optional(Will) /\ p.userName \in Optional(String16)
      /\ p.password \in Optional(String16) /\ (p.will # <<>> => p.will[1].payload \in String16)
  BY DEF Connect, WillFits
<1>3. PICK flags : flags = ConnectFlags(p)
  OBVIOUS
<1>4. /\ HasBit(flags, 1) = FALSE /\ HasBit(flags, 2) = p.cleanSession
      /\ HasBit(flags, 4) = (p.will # <<>>) /\ HasBit(flags, 64) = (p.password # <<>>)
      /\ HasBit(flags, 128) = (p.userName # <<>>)
      /\ p.will # <<>> => /\ (flags \div 8) % 4 = p.will[1].qos
                          /\ HasBit(flags, 32) = p.will[1].retain
  <2>1. FlagsSay(flags, p)
    BY <1>3, ConnectFlagsRead
  <2>2. QED
    BY <2>1 DEF FlagsSay
<1>5. PICK topicAt, userAt, passwordAt, end : ConnectSteps(b, at, flags, topicAt, userAt, passwordAt, end)
  <2>1. PICK topicAt : topicAt = After(b, at + 10)
    OBVIOUS
  <2>2. PICK userAt : userAt = (IF HasBit(flags, 4) THEN After(b, After(b, topicAt)) ELSE topicAt)
    OBVIOUS
  <2>3. PICK passwordAt : passwordAt = (IF HasBit(flags, 128) THEN After(b, userAt) ELSE userAt)
    OBVIOUS
  <2>4. PICK end : end = (IF HasBit(flags, 64) THEN After(b, passwordAt) ELSE passwordAt)
    OBVIOUS
  <2>5. at = BodyAt(b) /\ flags = b[at + 7]
    BY <1>1, <1>3
  <2>6. ConnectSteps(b, at, flags, topicAt, userAt, passwordAt, end)
    BY <2>1, <2>2, <2>3, <2>4, <2>5 DEF ConnectSteps
  <2>7. QED
    BY <2>6
<1>6. /\ at + 10 \in Nat /\ at + 10 + x \in Nat /\ at + 10 + x + y \in Nat /\ at + 10 + x + y + z \in Nat
  <2>1. PICK k \in Nat, l \in Nat, m \in Nat, n \in Nat : k = at /\ l = x /\ m = y /\ n = z
    <3>1. at \in 3 .. 6 /\ x \in Nat /\ y \in Nat /\ z \in Nat
      BY <1>1
    <3>2. at \in Nat
      BY <3>1
    <3>3. QED
      BY <3>1, <3>2
  <2>2. k + 10 \in Nat /\ k + 10 + l \in Nat /\ k + 10 + l + m \in Nat /\ k + 10 + l + m + n \in Nat
    OBVIOUS
  <2>3. QED
    BY <2>1, <2>2
<1>7. topicAt = at + 10 + x /\ StringAt(b, at + 10) = p.clientId
  <2>1. PICK id \in String16 : id = p.clientId
    BY <1>2
  <2>2. Stands(b, at + 10, EncodeString(id)) /\ b \in Seq(Byte)
    BY <1>1, <2>1
  <2>3. StringAt(b, at + 10) = id /\ After(b, at + 10) = at + 10 + Len(EncodeString(id))
    BY <2>2, StandsString
  <2>4. QED
    BY <1>1, <1>5, <2>1, <2>3 DEF ConnectSteps
<1>8. /\ userAt = at + 10 + x + y
      /\ (IF HasBit(flags, 4)
          THEN <<[topic |-> StringAt(b, topicAt), payload |-> StringAt(b, After(b, topicAt)),
                  qos |-> (flags \div 8) % 4, retain |-> HasBit(flags, 32)]>>
          ELSE <<>>) = p.will
  <2>1. PICK will, there, qos, retain, i :
            /\ will = p.will /\ there = HasBit(flags, 4) /\ qos = (flags \div 8) % 4
            /\ retain = HasBit(flags, 32) /\ i = at + 10 + x
    OBVIOUS
  <2>2. WillStands(b, i, will, there, qos, retain)
    BY <1>1, <1>2, <1>4, <1>6, <2>1 DEF WillStands
  <2>3. /\ (IF there THEN After(b, After(b, i)) ELSE i) = i + Len(WillBytes(will))
        /\ (IF there THEN <<[topic |-> StringAt(b, i), payload |-> StringAt(b, After(b, i)),
                             qos |-> qos, retain |-> retain]>> ELSE <<>>) = will
    BY <2>2, OptionalWillRead DEF WillIsRead
  <2>4. userAt = (IF HasBit(flags, 4) THEN After(b, After(b, topicAt)) ELSE topicAt)
    BY <1>5 DEF ConnectSteps
  <2>5. QED
    BY <1>1, <1>7, <2>1, <2>3, <2>4
<1>9. /\ passwordAt = at + 10 + x + y + z
      /\ (IF HasBit(flags, 128) THEN <<StringAt(b, userAt)>> ELSE <<>>) = p.userName
  <2>1. PICK option, there, i :
            option = p.userName /\ there = HasBit(flags, 128) /\ i = at + 10 + x + y
    OBVIOUS
  <2>2. /\ b \in Seq(Byte) /\ i \in Nat /\ option \in Optional(String16)
        /\ Stands(b, i, OptionBytes(option)) /\ there \in BOOLEAN /\ there = (option # <<>>)
    BY <1>1, <1>2, <1>4, <1>6, <2>1
  <2>3. /\ (IF there THEN After(b, i) ELSE i) = i + Len(OptionBytes(option))
        /\ (IF there THEN <<StringAt(b, i)>> ELSE <<>>) = option
    BY <2>2, OptionRead
  <2>4. passwordAt = (IF HasBit(flags, 128) THEN After(b, userAt) ELSE userAt)
    BY <1>5 DEF ConnectSteps
  <2>5. QED
    BY <1>1, <1>8, <2>1, <2>3, <2>4
<1>10. /\ end = at + 10 + x + y + z + w
       /\ (IF HasBit(flags, 64) THEN <<StringAt(b, passwordAt)>> ELSE <<>>) = p.password
  <2>1. PICK option, there, i :
            option = p.password /\ there = HasBit(flags, 64) /\ i = at + 10 + x + y + z
    OBVIOUS
  <2>2. /\ b \in Seq(Byte) /\ i \in Nat /\ option \in Optional(String16)
        /\ Stands(b, i, OptionBytes(option)) /\ there \in BOOLEAN /\ there = (option # <<>>)
    BY <1>1, <1>2, <1>4, <1>6, <2>1
  <2>3. /\ (IF there THEN After(b, i) ELSE i) = i + Len(OptionBytes(option))
        /\ (IF there THEN <<StringAt(b, i)>> ELSE <<>>) = option
    BY <2>2, OptionRead
  <2>4. end = (IF HasBit(flags, 64) THEN After(b, passwordAt) ELSE passwordAt)
    BY <1>5 DEF ConnectSteps
  <2>5. QED
    BY <1>1, <1>9, <2>1, <2>3, <2>4
<1>11. ReadConnect(b) = ConnectFound(b, at, flags, topicAt, userAt, passwordAt)
  <2>1. SubSeq(b, at, at + 6) = Protocol /\ ~ HasBit(flags, 1) /\ end = Len(b) + 1
    BY <1>1, <1>4, <1>10
  <2>2. QED
    BY <1>5, <2>1, ConnectReader
<1>12. ConnectFound(b, at, flags, topicAt, userAt, passwordAt) =
           [kind |-> "CONNECT", cleanSession |-> p.cleanSession, keepAlive |-> p.keepAlive,
            clientId |-> p.clientId, will |-> p.will, userName |-> p.userName, password |-> p.password]
  BY <1>1, <1>4, <1>7, <1>8, <1>9, <1>10 DEF ConnectFound
<1>13. QED
  BY <1>11, <1>12, ConnectIs

(* A CONNECT is read as it was given.                                      *)
LEMMA ConnectRead ==
    ASSUME NEW p \in Connect, WillFits(p), ConnectRemaining(p) \in 0 .. MaxRemainingLength
    PROVE  ReadPacket(ConnectBytes(p, ConnectRemaining(p))) = Sent(p)
<1>1. PICK n \in 0 .. MaxRemainingLength : n = ConnectRemaining(p)
  OBVIOUS
<1>2. /\ ConnectBody(p) \in Seq(Byte) /\ Len(ConnectBody(p)) = n
      /\ ConnectBytes(p, n) = FixedHeader(Type.CONNECT, n) \o ConnectBody(p)
  BY <1>1, ConnectFramed
<1>3. PICK b, body : b = ConnectBytes(p, n) /\ body = ConnectBody(p)
  OBVIOUS
<1>4. PICK type \in Byte : type = Type.CONNECT
  BY SMT DEF Type, Byte
<1>5. ReadAsFramed(b, type, body)
  <2>1. body \in Seq(Byte) /\ Len(body) = n /\ Len(body) \in 0 .. MaxRemainingLength
    BY <1>2, <1>3
  <2>2. ReadAsFramed(FixedHeader(type, Len(body)) \o body, type, body)
    BY <2>1, FramedIsWhole
  <2>3. QED
    BY <1>2, <1>3, <1>4, <2>1, <2>2
<1>6. ReadConnect(b) = p
  <2>1. PICK at, x, y, z, w : ConnectLaid(b, at, p, x, y, z, w)
    BY <1>3, <1>4, <1>5, ConnectStands
  <2>2. QED
    BY <2>1, LaidIsRead
<1>7. ReadPacket(b) = ReadConnect(b)
  <2>1. WholePacket(b) /\ b[1] = Type.CONNECT
    BY <1>4, <1>5 DEF ReadAsFramed
  <2>2. QED
    BY <2>1 DEF ReadPacket
<1>8. Sent(p) = p
  BY DEF Sent, Connect
<1>9. QED
  BY <1>1, <1>3, <1>6, <1>7, <1>8

(* A refusal is no success, and what is written is what was given.         *)
LEMMA OutcomeOf ==
    /\ \A status : Refused(status).status = status
    /\ \A b : Written(b).status = "Success" /\ Written(b).bytes = b
BY DEF Refused, Written

(* What a serialiser has written a broker reads as the packet given.       *)
Understood(w, p) == w.status = "Success" => ReadPacket(w.bytes) = Sent(p)

(* serializeConnectPacket, with the size MQTT_GetConnectPacketSize gave.   *)
LEMMA ConnectUnderstood ==
    ASSUME NEW p \in Connect, NEW s, s = GetConnectPacketSize(p), s.status = "Success", NEW size
    PROVE  Understood(SerializeConnect(p, s.remaining, size), p)
<1>1. /\ WillFits(p) /\ ConnectRemaining(p) \in 0 .. MaxRemainingLength
      /\ s = Sized(ConnectRemaining(p))
  BY ConnectSizes
<1>2. PICK n : n = ConnectRemaining(p) /\ s.remaining = n
  BY <1>1 DEF Sized
<1>3. PICK w : w = SerializeConnect(p, n, size)
  OBVIOUS
<1>4. CASE PacketSize(n) > size
  <2>1. w = Refused("NoMemory")
    BY <1>3, <1>4 DEF SerializeConnect
  <2>2. QED
    BY <1>2, <1>3, <2>1, OutcomeOf DEF Understood
<1>5. CASE ~ (PacketSize(n) > size)
  <2>1. w = Written(ConnectBytes(p, n))
    BY <1>3, <1>5 DEF SerializeConnect
  <2>2. ReadPacket(ConnectBytes(p, n)) = Sent(p)
    BY <1>1, <1>2, ConnectRead
  <2>3. QED
    BY <1>2, <1>3, <2>1, <2>2, OutcomeOf DEF Understood
<1>6. QED
  BY <1>4, <1>5

(* MQTT_SerializeSubscribe, with the size MQTT_GetSubscribePacketSize      *)
(* gave.                                                                   *)
LEMMA SubscribeUnderstood ==
    ASSUME NEW p \in Subscription, p.kind = "SUBSCRIBE", p.list \in Seq(Filter), NEW s,
           s = GetSubscriptionPacketSize(p.list, 1), s.status = "Success", NEW size
    PROVE  Understood(SerializeSubscribe(p.list, p.packetId, s.remaining, size), p)
<1>1. /\ GoodSizes(s) /\ s = Sized(SubscriptionRemaining(Len(p.list), TotalLength(p.list), 1))
  <2>1. PICK list \in Seq(Filter), one \in {0, 1} : list = p.list /\ one = 1
    OBVIOUS
  <2>2. s = GetSubscriptionPacketSize(list, one)
    BY <2>1
  <2>3. GoodSizes(s) /\ s = Sized(SubscriptionRemaining(Len(list), TotalLength(list), one))
    BY <2>2, SubscriptionListSizes
  <2>4. QED
    BY <2>1, <2>3
<1>2. PICK n \in 0 .. MaxRemainingLength :
          n = SubscriptionRemaining(Len(p.list), TotalLength(p.list), 1) /\ s.remaining = n
  BY <1>1 DEF Sized, GoodSizes
<1>3. PICK w, b, status :
          /\ w = SerializeSubscribe(p.list, p.packetId, n, size)
          /\ status = ValidateSubscription(p.list, p.packetId, n, size)
          /\ b = FixedHeader(Type.SUBSCRIBE, n) \o Encode16(p.packetId)
                 \o FlattenSeq([i \in DOMAIN p.list |->
                                   EncodeString(p.list[i].filter) \o <<p.list[i].qos>>])
  OBVIOUS
<1>4. w = IF status # "Success" THEN Refused(status) ELSE Written(b)
  BY <1>3 DEF SerializeSubscribe
<1>5. ReadPacket(b) = Sent(p)
  BY <1>2, <1>3, SubscribeRead
<1>6. Understood(w, p)
  BY <1>4, <1>5, OutcomeOf DEF Understood
<1>7. QED
  BY <1>2, <1>3, <1>6

(* MQTT_SerializeUnsubscribe, with the size MQTT_GetUnsubscribePacketSize  *)
(* gave.                                                                   *)
LEMMA UnsubscribeUnderstood ==
    ASSUME NEW p \in Subscription, p.kind = "UNSUBSCRIBE", p.list \in Seq(Filter), NEW s,
           s = GetSubscriptionPacketSize(p.list, 0), s.status = "Success", NEW size
    PROVE  Understood(SerializeUnsubscribe(p.list, p.packetId, s.remaining, size), p)
<1>1. /\ GoodSizes(s) /\ s = Sized(SubscriptionRemaining(Len(p.list), TotalLength(p.list), 0))
  <2>1. PICK list \in Seq(Filter), none \in {0, 1} : list = p.list /\ none = 0
    OBVIOUS
  <2>2. s = GetSubscriptionPacketSize(list, none)
    BY <2>1
  <2>3. GoodSizes(s) /\ s = Sized(SubscriptionRemaining(Len(list), TotalLength(list), none))
    BY <2>2, SubscriptionListSizes
  <2>4. QED
    BY <2>1, <2>3
<1>2. PICK n \in 0 .. MaxRemainingLength :
          n = SubscriptionRemaining(Len(p.list), TotalLength(p.list), 0) /\ s.remaining = n
  BY <1>1 DEF Sized, GoodSizes
<1>3. PICK w, b, status :
          /\ w = SerializeUnsubscribe(p.list, p.packetId, n, size)
          /\ status = ValidateSubscription(p.list, p.packetId, n, size)
          /\ b = FixedHeader(Type.UNSUBSCRIBE, n) \o Encode16(p.packetId)
                 \o EncodeStrings([i \in DOMAIN p.list |-> p.list[i].filter])
  OBVIOUS
<1>4. w = IF status # "Success" THEN Refused(status) ELSE Written(b)
  BY <1>3 DEF SerializeUnsubscribe
<1>5. ReadPacket(b) = Sent(p)
  BY <1>2, <1>3, UnsubscribeRead
<1>6. Understood(w, p)
  BY <1>4, <1>5, OutcomeOf DEF Understood
<1>7. QED
  BY <1>2, <1>3, <1>6

(* A publish in two parts is understood once its payload has followed.     *)
LEMMA PublishUnderstood ==
    ASSUME NEW p \in Publish, NEW s, s = GetPublishPacketSize(p), s.status = "Success", NEW size
    PROVE  /\ Understood(SerializePublish(p, p.packetId, s.remaining, size), p)
           /\ SerializePublishHeader(p, p.packetId, s.remaining, size).status = "Success" =>
                 ReadPacket(SerializePublishHeader(p, p.packetId, s.remaining, size).bytes \o p.payload) = Sent(p)
<1>1. p.topic \in String16 /\ p.payload \in Seq(Byte) /\ p.qos \in QoS
  BY DEF Publish
<1>2. Len(p.topic) \in Nat /\ Len(p.payload) \in Nat
  BY <1>1, StringLength, LenProperties
<1>3. s = CalculatePublishPacketSize(Len(p.topic), Len(p.payload), p.qos)
  BY DEF GetPublishPacketSize, SizeRefused
<1>4. GoodSizes(s) /\ s = Sized(PublishRemaining(Len(p.topic), Len(p.payload), p.qos))
  BY <1>1, <1>2, <1>3, PublishSizesGood
<1>5. PICK n \in 0 .. MaxRemainingLength :
          n = s.remaining /\ n = PublishRemaining(Len(p.topic), Len(p.payload), p.qos)
  BY <1>4 DEF GoodSizes, Sized
<1>6. PICK header : header = PublishHeaderBytes(p, p.packetId, n)
  OBVIOUS
<1>7. ~ PublishIsBad(p, p.packetId) => ReadPacket(header \o p.payload) = Sent(p)
  BY <1>5, <1>6, PublishRead
<1>8. Understood(SerializePublish(p, p.packetId, s.remaining, size), p)
  <2>1. PICK w : w = SerializePublish(p, p.packetId, n, size)
    OBVIOUS
  <2>2. \/ w \in {Refused("BadParameter"), Refused("NoMemory")}
        \/ ~ PublishIsBad(p, p.packetId) /\ w = Written(header \o p.payload)
    BY <1>6, <2>1 DEF SerializePublish
  <2>3. Understood(w, p)
    BY <1>7, <2>2, OutcomeOf DEF Understood
  <2>4. QED
    BY <1>5, <2>1, <2>3
<1>9. SerializePublishHeader(p, p.packetId, s.remaining, size).status = "Success" =>
          ReadPacket(SerializePublishHeader(p, p.packetId, s.remaining, size).bytes \o p.payload) = Sent(p)
  <2>1. PICK w : w = SerializePublishHeader(p, p.packetId, n, size)
    OBVIOUS
  <2>2. \/ w \in {Refused("BadParameter"), Refused("NoMemory")}
        \/ ~ PublishIsBad(p, p.packetId) /\ w = Written(header)
    BY <1>6, <2>1 DEF SerializePublishHeader
  <2>3. w.status = "Success" => ReadPacket(w.bytes \o p.payload) = Sent(p)
    BY <1>7, <2>2, OutcomeOf
  <2>4. QED
    BY <1>5, <2>1, <2>3
<1>10. QED
  BY <1>8, <1>9

(* MQTT_SerializeAck, for the types it knows.                              *)
LEMMA AckUnderstood ==
    ASSUME NEW p \in Ack, NEW size
    PROVE  Understood(SerializeAck(size, p.type, p.packetId), p)
<1>1. PICK w, b : w = SerializeAck(size, p.type, p.packetId) /\ b = <<p.type, 2>> \o Encode16(p.packetId)
  OBVIOUS
<1>2. \/ w \in {Refused("BadParameter"), Refused("NoMemory")}
      \/ p.type \in PublishAcks /\ w = Written(b)
  BY <1>1 DEF SerializeAck
<1>3. p.type \in PublishAcks => ReadPacket(b) = Sent(p)
  BY <1>1, AckRead
<1>4. Understood(w, p)
  BY <1>2, <1>3, OutcomeOf DEF Understood
<1>5. QED
  BY <1>1, <1>4

(* MQTT_SerializeDisconnect and MQTT_SerializePingreq.                     *)
LEMMA FixedUnderstood ==
    ASSUME NEW p \in Fixed, NEW size
    PROVE  Understood(SerializeFixed(p.type, size), p)
<1>1. PICK w, b : w = SerializeFixed(p.type, size) /\ b = <<p.type, 0>>
  OBVIOUS
<1>2. w = Refused("NoMemory") \/ w = Written(b)
  BY <1>1 DEF SerializeFixed
<1>3. ReadPacket(b) = Sent(p)
  BY <1>1, FixedRead
<1>4. Understood(w, p)
  BY <1>2, <1>3, OutcomeOf DEF Understood
<1>5. QED
  BY <1>1, <1>4

(* What is written is read as it was given, a header with its payload.     *)
ReadBackInv ==
    /\ stage = "written" => ReadPacket(bytes) = Sent(packet)
    /\ stage = "header" => ReadPacket(bytes \o packet.payload) = Sent(packet)

(* A call that writes what is understood keeps that.                       *)
LEMMA SerializeReadsBack ==
    ASSUME NEW kind, NEW next, NEW separate, NEW size, NEW w,
           \/ next = "written" /\ Understood(w, packet)
           \/ /\ next = "header"
              /\ w.status = "Success" => ReadPacket(w.bytes \o packet.payload) = Sent(packet),
           Serialize(kind, next, separate, size, w)
    PROVE  ReadBackInv'
<1>1. /\ stage' = IF w.status = "Success" THEN next ELSE "refused"
      /\ bytes' = w.bytes /\ packet' = packet
  BY DEF Serialize
<1>2. CASE w.status # "Success"
  BY <1>1, <1>2 DEF ReadBackInv
<1>3. CASE w.status = "Success"
  BY <1>1, <1>3 DEF ReadBackInv, Understood
<1>4. QED
  BY <1>2, <1>3

(* Every call that serialises writes what a broker understands.            *)
LEMMA CallsReadBack ==
    ASSUME SenderInv,
           ConnectCall \/ SubscribeCall \/ UnsubscribeCall \/ PublishCall \/ PublishHeaderCall
           \/ AckCall \/ FixedCall
    PROVE  ReadBackInv'
<1>1. PICK s, p : s = sizes /\ p = packet
  OBVIOUS
<1>2. ASSUME stage = "sized" PROVE Measured(p, s) /\ s.status = "Success"
  BY <1>1, <1>2 DEF SenderInv
<1>3. CASE ConnectCall
  <2>1. PICK size : Serialize("CONNECT", "written", 0, size, SerializeConnect(p, s.remaining, size))
    BY <1>1, <1>3 DEF ConnectCall
  <2>2. p \in Connect /\ s = GetConnectPacketSize(p) /\ s.status = "Success"
    BY <1>1, <1>2, <2>1, MeasuredKinds DEF Serialize
  <2>3. PICK w : w = SerializeConnect(p, s.remaining, size)
    OBVIOUS
  <2>4. Understood(w, packet)
    BY <1>1, <2>2, <2>3, ConnectUnderstood
  <2>5. QED
    BY <2>1, <2>3, <2>4, SerializeReadsBack
<1>4. CASE SubscribeCall
  <2>1. PICK size : Serialize("SUBSCRIBE", "written", 0, size,
                              SerializeSubscribe(p.list, p.packetId, s.remaining, size))
    BY <1>1, <1>4 DEF SubscribeCall
  <2>2. p.kind = "SUBSCRIBE" /\ stage = "sized"
    BY <1>1, <2>1 DEF Serialize
  <2>3. p \in Subscription /\ p.list \in Seq(Filter) /\ s = GetSubscriptionPacketSize(p.list, 1) /\ s.status = "Success"
    BY <1>2, <2>2, MeasuredKinds
  <2>4. PICK w : w = SerializeSubscribe(p.list, p.packetId, s.remaining, size)
    OBVIOUS
  <2>5. Understood(w, packet)
    BY <1>1, <2>2, <2>3, <2>4, SubscribeUnderstood
  <2>6. QED
    BY <2>1, <2>4, <2>5, SerializeReadsBack
<1>5. CASE UnsubscribeCall
  <2>1. PICK size : Serialize("UNSUBSCRIBE", "written", 0, size,
                              SerializeUnsubscribe(p.list, p.packetId, s.remaining, size))
    BY <1>1, <1>5 DEF UnsubscribeCall
  <2>2. p.kind = "UNSUBSCRIBE" /\ stage = "sized"
    BY <1>1, <2>1 DEF Serialize
  <2>3. p \in Subscription /\ p.list \in Seq(Filter) /\ s = GetSubscriptionPacketSize(p.list, 0) /\ s.status = "Success"
    BY <1>2, <2>2, MeasuredKinds
  <2>4. PICK w : w = SerializeUnsubscribe(p.list, p.packetId, s.remaining, size)
    OBVIOUS
  <2>5. Understood(w, packet)
    BY <1>1, <2>2, <2>3, <2>4, UnsubscribeUnderstood
  <2>6. QED
    BY <2>1, <2>4, <2>5, SerializeReadsBack
<1>6. CASE PublishCall
  <2>1. PICK size : Serialize("PUBLISH", "written", 0, size,
                              SerializePublish(p, p.packetId, s.remaining, size))
    BY <1>1, <1>6 DEF PublishCall
  <2>2. p \in Publish /\ s = GetPublishPacketSize(p) /\ s.status = "Success"
    BY <1>1, <1>2, <2>1, MeasuredKinds DEF Serialize
  <2>3. PICK w : w = SerializePublish(p, p.packetId, s.remaining, size)
    OBVIOUS
  <2>4. Understood(w, packet)
    BY <1>1, <2>2, <2>3, PublishUnderstood
  <2>5. QED
    BY <2>1, <2>3, <2>4, SerializeReadsBack
<1>7. CASE PublishHeaderCall
  <2>1. PICK size : Serialize("PUBLISH", "header", Len(packet.payload), size,
                              SerializePublishHeader(p, p.packetId, s.remaining, size))
    BY <1>1, <1>7 DEF PublishHeaderCall
  <2>2. p \in Publish /\ s = GetPublishPacketSize(p) /\ s.status = "Success"
    BY <1>1, <1>2, <2>1, MeasuredKinds DEF Serialize
  <2>3. PICK w : w = SerializePublishHeader(p, p.packetId, s.remaining, size)
    OBVIOUS
  <2>4. w.status = "Success" => ReadPacket(w.bytes \o packet.payload) = Sent(packet)
    BY <1>1, <2>2, <2>3, PublishUnderstood
  <2>5. QED
    BY <2>1, <2>3, <2>4, SerializeReadsBack
<1>8. CASE AckCall
  <2>1. PICK size : Serialize("ACK", "written", 0, size, SerializeAck(size, p.type, p.packetId))
    BY <1>1, <1>8 DEF AckCall
  <2>2. p \in Ack
    BY <1>1, <1>2, <2>1, MeasuredKinds DEF Serialize
  <2>3. PICK w : w = SerializeAck(size, p.type, p.packetId)
    OBVIOUS
  <2>4. Understood(w, packet)
    BY <1>1, <2>2, <2>3, AckUnderstood
  <2>5. QED
    BY <2>1, <2>3, <2>4, SerializeReadsBack
<1>9. CASE FixedCall
  <2>1. PICK size : Serialize("FIXED", "written", 0, size, SerializeFixed(p.type, size))
    BY <1>1, <1>9 DEF FixedCall
  <2>2. p \in Fixed
    BY <1>1, <1>2, <2>1, MeasuredKinds DEF Serialize
  <2>3. PICK w : w = SerializeFixed(p.type, size)
    OBVIOUS
  <2>4. Understood(w, packet)
    BY <1>1, <2>2, <2>3, FixedUnderstood
  <2>5. QED
    BY <2>1, <2>3, <2>4, SerializeReadsBack
<1>10. QED
  BY <1>3, <1>4, <1>5, <1>6, <1>7, <1>8, <1>9

(* It holds after every step.                                              *)
LEMMA ReadBackNext == ReadBackInv /\ SenderInv /\ [Next]_vars => ReadBackInv'
<1> SUFFICES ASSUME ReadBackInv, SenderInv, [Next]_vars
             PROVE  ReadBackInv'
  OBVIOUS
<1>1. CASE ConnectCall \/ SubscribeCall \/ UnsubscribeCall \/ PublishCall \/ PublishHeaderCall
           \/ AckCall \/ FixedCall
  BY <1>1, CallsReadBack
<1>2. ASSUME NEW p, NEW s, Measure(p, s)
      PROVE  ReadBackInv'
  <2>1. stage' \in {"sized", "refused"}
    BY <1>2 DEF Measure
  <2>2. QED
    BY <2>1 DEF ReadBackInv
<1>3. CASE GetConnectSize \/ GetSubscriptionSize \/ GetPublishSize \/ GetFixedSize \/ GetSizeOfLengths
  BY <1>2, <1>3 DEF GetConnectSize, GetSubscriptionSize, GetPublishSize, GetFixedSize, GetSizeOfLengths
<1>4. CASE SendPayload
  <2>1. stage = "header" /\ stage' = "written" /\ bytes' = bytes \o packet.payload /\ packet' = packet
    BY <1>4 DEF SendPayload
  <2>2. QED
    BY <2>1 DEF ReadBackInv
<1>5. CASE Arrive \/ ReadHeader \/ ReadBody \/ MatchCall \/ Done
  <2>1. stage' \in {"arrived", "framed", "refused", "decoded", "matched", "idle"}
    BY <1>5 DEF Arrive, ReadHeader, ReadBody, MatchCall, Done
  <2>2. QED
    BY <2>1 DEF ReadBackInv
<1>6. CASE UNCHANGED vars
  BY <1>6 DEF vars, ReadBackInv
<1>7. QED
  BY <1>1, <1>3, <1>4, <1>5, <1>6 DEF Next

(* The invariant: once written, the bytes are read back as what was sent.  *)
LEMMA ReadsBack == Spec => []ReadBackInv
<1>1. Init => ReadBackInv
  BY DEF Init, ReadBackInv
<1>2. QED
  BY <1>1, ReadBackNext, Sends, PTL DEF Spec

(* What a broker reads from the wire is the packet that the application    *)
(* gave, for every CONNECT, SUBSCRIBE, UNSUBSCRIBE, publish, whole or in   *)
(* two parts, acknowledgement, PINGREQ and DISCONNECT the C fields can     *)
(* hold, and not only for those a run has.                                 *)
THEOREM BrokerReadsSent == Spec => []BrokerUnderstands
<1>1. ReadBackInv => BrokerUnderstands
  BY DEF ReadBackInv, BrokerUnderstands
<1>2. QED
  BY <1>1, ReadsBack, PTL
=============================================================================
