------------------------------- MODULE Dht22 --------------------------------
(* readDHT of DHT22.c: the bit-banged read of one frame of 40 bits, whose  *)
(* pulses are timed by counting loop turns.  A turn takes a microsecond as *)
(* long as nothing interrupts the task; an interrupt in a pulse takes turns *)
(* from it.  No other task uses the sensor, so a read is one action.       *)
(* Readings are in tenths; sprintf prints them with two decimals.          *)
EXTENDS Integers, Sequences, FiniteSetsExt

CONSTANTS
    SensorValues,         \* pairs of humidity and temperature, in tenths
    HitBits,              \* bits in whose high pulse an interrupt may fall
    Stolen                \* loop turns an interrupt may take

(* What 16 bits hold, and a sign and 15 bits.                              *)
Humidities == {h \in Nat : h < 65536}
Temperatures == {t \in Int : -32768 < t /\ t < 32768}

ASSUME SensorAssumption ==
    /\ SensorValues \subseteq Humidities \X Temperatures
    /\ HitBits \subseteq 0 .. 39
    /\ Stolen \subseteq Nat

VARIABLES
    humidity, temperature,  \* the globals
    dhtStatus,            \* what the last readDHT returned
    measured              \* history: what the sensor had measured for it

dhtVars == <<humidity, temperature, dhtStatus, measured>>

(* The frame of the sensor (external), as its data sheet, quoted in the    *)
(* source, has it: 16 bits each, the highest of the temperature its sign.  *)
SensorFrame(value) ==
    LET t == IF value[2] < 0 THEN 32768 - value[2] ELSE value[2]
        data == <<value[1] \div 256, value[1] % 256, t \div 256, t % 256>>
    IN  <<data[1], data[2], data[3], data[4], (data[1] + data[2] + data[3] + data[4]) % 256>>

(* 1 << bitInx, for bitInx from 7 down to 0.                               *)
Weight == <<128, 64, 32, 16, 8, 4, 2, 1>>

(* High pulses: 26 us for 0 and 70 us for 1; more than 75 turns time out.  *)
HighOf(bit) == IF bit = 1 THEN 70 ELSE 26
BitOf(frame, k) == (frame[k \div 8 + 1] \div Weight[(k % 8) + 1]) % 2

(* The turns counted in each of the 40 pulses when one of them is cut.     *)
Pulses(frame, hit, stolen) ==
    [k \in 0 .. 39 |-> IF k = hit /\ stolen > 0
                       THEN Max({0, HighOf(BitOf(frame, k)) - stolen})
                       ELSE HighOf(BitOf(frame, k))]

(* The loop over the bits: byteInx and bitInx, most significant first.     *)
Assemble(pulses) ==
    LET bit(i, j) == IF pulses[8 * (i - 1) + j] > 40 THEN Weight[j + 1] ELSE 0
    IN  [i \in 1 .. 5 |-> bit(i, 0) + bit(i, 1) + bit(i, 2) + bit(i, 3)
                           + bit(i, 4) + bit(i, 5) + bit(i, 6) + bit(i, 7)]

Checksum(d) == (d[1] + d[2] + d[3] + d[4]) % 256
Humidity(d) == d[1] * 256 + d[2]
Temperature(d) ==
    LET magnitude == (d[3] % 128) * 256 + d[4]
    IN  IF d[3] >= 128 THEN - magnitude ELSE magnitude

DhtInit == humidity = 0 /\ temperature = 0 /\ dhtStatus = "none" /\ measured = <<0, 0>>

(* Mutant: the low bits of the checksum only.                              *)
StatusNibble(d) == IF d[5] % 16 = Checksum(d) % 16 THEN "ok" ELSE "checksum"

Status(d) == IF d[5] = Checksum(d) THEN "ok" ELSE "checksum"

(* What may be measured, and the bytes that may be received for it.        *)
Received ==
    {<<value, Assemble(Pulses(SensorFrame(value), hit, stolen))>> :
        value \in SensorValues, hit \in HitBits, stolen \in Stolen}

(* Values are stored before the checksum is looked at.                     *)
ReadFrame(value, data) ==
    /\ humidity' = Humidity(data)
    /\ temperature' = Temperature(data)
    /\ dhtStatus' = Status(data)
    /\ measured' = value

(* No sensor, or pulses lost to a long preemption: some wait runs out.     *)
ReadTimeout ==
    /\ dhtStatus' = "timeout"
    /\ UNCHANGED <<humidity, temperature, measured>>

ReadDHT ==
    \/ \E r \in Received : ReadFrame(r[1], r[2])
    \/ ReadTimeout

(* A reading that readDHT reports as good is what the sensor measured, at  *)
(* any sign and size, even when an interrupt has cut a pulse short and     *)
(* turned a 1 of the frame into a 0.                                       *)
GoodReadingIsMeasured ==
    dhtStatus = "ok" => <<humidity, temperature>> = measured
=============================================================================
