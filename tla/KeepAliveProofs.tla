--------------------------- MODULE KeepAliveProofs ---------------------------
(* The keep-alive of coreMQTT, for every clock size, interval, timeout,    *)
(* buffer and publish: types, packets that stay in step, PINGREQs and      *)
(* their answers, and the time a PINGREQ has waited.                       *)
EXTENDS KeepAlive, FiniteSetTheorems, SequenceTheorems, TLAPS

Packet == [type: PacketTypes, length: Nat]
Steps == {"app", "connack", "header", "keepAlive", "check"} \cup Sending \cup Receiving
StatusValues == {"Success", "SendFailed", "RecvFailed", "BadResponse", "ServerRefused",
                 "NoDataAvailable", "KeepAliveTimeout"}

(* Elapsed times and the sizes of transfers.                               *)
LEMMA ElapsedType == \A later, start \in Times : Elapsed(later, start) \in Times
BY KeepAliveAssumption DEF Elapsed, Times

LEMMA MinOfTwo ==
    ASSUME NEW a \in Int, NEW b \in Int
    PROVE  Min({a, b}) = IF a <= b THEN a ELSE b
BY DEF Min

-----------------------------------------------------------------------------
(* TypeOK in parts that few actions disturb.                               *)
ClockOK ==
    /\ now \in Times /\ lastPacketTime \in Times /\ pingReqSendTimeMs \in Times
    /\ waitingForPingResp \in BOOLEAN /\ connected \in BOOLEAN /\ torn \in BOOLEAN
CallOK ==
    /\ pc \in Steps /\ status \in StatusValues
    /\ entryTimeMs \in Times /\ remainingTimeMs \in 0..LoopTimeout
    /\ io \in [left: Nat, done: Nat, time: Times, start: Times]
    /\ (io.left > 0) = (pc \in Sending \cup Receiving)
    /\ packet \in [type: PacketTypes \cup {"none"}, length: Nat]
    /\ (packet.type # "none") = (pc \in Receiving)
NetworkOK ==
    /\ stream \in Seq(Packet) /\ requests \in Seq({"CONNACK", "PINGRESP"})
    /\ peer \in {"up", "silent", "closed"}

LEMMA TypeParts == TypeOK <=> ClockOK /\ CallOK /\ NetworkOK
BY DEF TypeOK, ClockOK, CallOK, NetworkOK, Packet, Steps, StatusValues

(* What every disjunct of Next that is an action of the device comes to.   *)
DeviceStep ==
    \/ InCall \/ Connect \/ SendPacket \/ ProcessLoop \/ Disconnect

LEMMA InitTypeOK == Init => TypeOK
<1> USE KeepAliveAssumption
<1> SUFFICES ASSUME Init PROVE TypeOK
  OBVIOUS
<1>1. ClockOK
  <2>1. now \in Times /\ 0 \in Times
    BY DEF Init, Times
  <2>2. QED
    BY <2>1 DEF Init, ClockOK
<1>2. CallOK
  BY DEF Init, CallOK, Times, Idle, NoPacket, Sending, Receiving, Steps, StatusValues
<1>3. NetworkOK
  BY EmptySeq DEF Init, NetworkOK
<1>4. QED
  BY <1>1, <1>2, <1>3, TypeParts

(* The times are readings of the clock, or 0.                              *)
LEMMA ClockStep == TypeOK /\ [Next]_vars => ClockOK'
<1> SUFFICES ASSUME TypeOK, [Next]_vars PROVE ClockOK'
  OBVIOUS
<1> USE KeepAliveAssumption DEF ClockOK, keepAlive, history, network, call
<1>1. ClockOK /\ io.time \in Times /\ 0 \in Times
  BY TypeParts DEF CallOK, Times
<1>2. CASE Tick
  BY <1>1, <1>2 DEF Tick, Times
<1>3. CASE Broker
  BY <1>1, <1>3 DEF Broker
<1>4. CASE DeviceStep /\ now' = now
  <2>1. /\ lastPacketTime' \in {lastPacketTime, now, io.time}
        /\ pingReqSendTimeMs' \in {pingReqSendTimeMs, now, 0}
        /\ waitingForPingResp' \in {waitingForPingResp, TRUE, FALSE}
        /\ connected' \in {connected, TRUE, FALSE}
        /\ torn' \in {torn, TRUE, FALSE}
    <3>1. CASE Connect \/ SendPacket \/ ProcessLoop \/ Disconnect
      BY <3>1 DEF Connect, SendPacket, ProcessLoop, Disconnect
    <3>2. CASE \E k \in 1..OutgoingSize : SendSome(k)
      BY <3>2 DEF SendSome, Sent
    <3>3. CASE SendNothing \/ SendFails
      BY <3>3 DEF SendNothing, SendFails, GiveUpSending
    <3>4. CASE ReadNothing \/ ReadFails \/ ReadBadHeader
      BY <3>4 DEF ReadNothing, ReadFails, ReadBadHeader
    <3>5. CASE ReadHeader
      BY <3>5 DEF ReadHeader, Handle, ConnackAccepted
    <3>6. CASE \E k \in 1..BufferSize : RecvSome(k)
      BY <3>6 DEF RecvSome, Handle, ConnackAccepted, DiscardChunk, TearPacket
    <3>7. CASE RecvNothing \/ RecvFails
      BY <3>7 DEF RecvNothing, RecvFails, TearPacket
    <3>8. CASE HandleKeepAlive \/ CheckTime
      BY <3>8 DEF HandleKeepAlive, CheckTime
    <3>9. QED
      BY <1>4, <3>1, <3>2, <3>3, <3>4, <3>5, <3>6, <3>7, <3>8 DEF DeviceStep, InCall
  <2>2. QED
    BY <1>1, <1>4, <2>1
<1>5. CASE UNCHANGED vars
  BY <1>1, <1>5 DEF vars
<1>6. QED
  BY <1>2, <1>3, <1>4, <1>5 DEF Next, Timed, DeviceStep

(* What arrives is queued as it is, and read from the front.               *)
LEMMA NetworkStep == TypeOK /\ [Next]_vars => NetworkOK'
<1> SUFFICES ASSUME TypeOK, [Next]_vars PROVE NetworkOK'
  OBVIOUS
<1> USE DEF NetworkOK, network, call, keepAlive, history
<1>1. NetworkOK
  BY TypeParts
<1>2. /\ stream # <<>> => Tail(stream) \in Seq(Packet)
      /\ <<>> \in Seq(Packet) /\ <<>> \in Seq({"CONNACK", "PINGRESP"})
      /\ \A t \in {"CONNACK", "PINGRESP"} : Append(requests, t) \in Seq({"CONNACK", "PINGRESP"})
      /\ requests # <<>> => Tail(requests) \in Seq({"CONNACK", "PINGRESP"})
      /\ \A p \in Packet : Append(stream, p) \in Seq(Packet)
  BY <1>1, HeadTailProperties, AppendProperties, EmptySeq
<1>3. CASE Broker
  <2>1. /\ stream' = stream \/ \E p \in Packet : stream' = Append(stream, p)
        /\ requests' = requests \/ (requests # <<>> /\ requests' = Tail(requests))
        /\ peer' \in {peer, "silent", "closed"}
    <3>1. CASE Answer
      BY <3>1 DEF Answer, Arrives, Packet, PacketTypes
    <3>2. CASE Deliver
      <4>1. PICK p \in Publishes : Arrives(p)
        BY <3>2 DEF Deliver
      <4>2. p \in Packet
        BY KeepAliveAssumption DEF Packet, PacketTypes
      <4>3. QED
        BY <3>2, <4>1, <4>2 DEF Deliver, Arrives
    <3>3. CASE FallSilent \/ Close
      <4>1. UNCHANGED <<stream, requests>> /\ peer' \in {"silent", "closed"}
        BY <3>3 DEF FallSilent, Close
      <4>2. QED
        BY <4>1
    <3>4. QED
      BY <1>3, <3>1, <3>2, <3>3 DEF Broker
  <2>2. QED
    BY <1>1, <1>2, <2>1
<1>4. CASE DeviceStep
  <2>1. /\ stream' \in {stream, <<>>} \/ (stream # <<>> /\ stream' = Tail(stream))
        /\ requests' \in {requests, <<>>, Append(requests, "CONNACK"), Append(requests, "PINGRESP")}
        /\ peer' \in {peer, "up", "silent", "closed"}
    <3>1. CASE Connect \/ SendPacket \/ ProcessLoop \/ Disconnect
      BY <3>1 DEF Connect, SendPacket, ProcessLoop, Disconnect
    <3>2. CASE \E k \in 1..OutgoingSize : SendSome(k)
      BY <3>2 DEF SendSome, Sent
    <3>3. CASE SendNothing \/ SendFails
      BY <3>3 DEF SendNothing, SendFails, GiveUpSending
    <3>4. CASE ReadNothing \/ ReadFails \/ ReadBadHeader \/ ReadHeader
      BY <3>4 DEF ReadNothing, ReadFails, ReadBadHeader, ReadHeader
    <3>5. CASE \E k \in 1..BufferSize : RecvSome(k)
      BY <3>5 DEF RecvSome, DiscardChunk, TearPacket
    <3>6. CASE RecvNothing \/ RecvFails \/ HandleKeepAlive \/ CheckTime
      BY <3>6 DEF RecvNothing, RecvFails, TearPacket, HandleKeepAlive, CheckTime
    <3>7. QED
      BY <1>4, <3>1, <3>2, <3>3, <3>4, <3>5, <3>6 DEF DeviceStep, InCall
  <2>2. QED
    BY <1>1, <1>2, <2>1
<1>5. CASE UNCHANGED network
  BY <1>1, <1>5
<1>6. QED
  BY <1>3, <1>4, <1>5 DEF Next, Timed, DeviceStep, Tick, vars

(* CallOK of the next state, piece by piece.                               *)
Transfers == [left: Nat, done: Nat, time: Times, start: Times]
CallKept ==
    /\ pc' \in Steps /\ status' \in StatusValues
    /\ entryTimeMs' \in Times /\ remainingTimeMs' \in 0..LoopTimeout
    /\ io' \in Transfers /\ (io'.left > 0 <=> pc' \in Sending \cup Receiving)
    /\ packet' \in [type: PacketTypes \cup {"none"}, length: Nat]
    /\ packet'.type # "none" <=> pc' \in Receiving

LEMMA CallKeptOK == CallKept => CallOK'
BY DEF CallKept, CallOK, Transfers

LEMMA TransferGoesOn ==
    ASSUME NEW transfer \in Transfers, NEW k \in Nat, k < transfer.left, NEW time \in Times
    PROVE  /\ [transfer EXCEPT !.left = @ - k, !.done = @ + k, !.time = time] \in Transfers
           /\ [transfer EXCEPT !.left = @ - k, !.done = @ + k, !.time = time].left > 0
<1> DEFINE left == transfer.left - k
           done == transfer.done + k
           next == [transfer EXCEPT !.left = left, !.done = done, !.time = time]
<1>1. left \in Nat /\ done \in Nat /\ left > 0
  BY DEF Transfers
<1>2. next \in Transfers /\ next.left = left
  <2> HIDE DEF left, done
  <2>1. QED
    BY <1>1 DEF Transfers
<1>3. next = [transfer EXCEPT !.left = @ - k, !.done = @ + k, !.time = time]
  OBVIOUS
<1> HIDE DEF next, left
<1>4. QED
  BY <1>1, <1>2, <1>3

(* How a call may go on: it returns, waits or computes, or starts to send. *)
PacketTypeOK == packet' \in [type: PacketTypes \cup {"none"}, length: Nat]
Waits ==
    /\ pc' \in {"app", "connack", "header", "keepAlive", "check"} /\ ~ io'.left > 0
    /\ io' \in Transfers /\ packet'.type = "none"
Sends ==
    /\ pc' \in Sending /\ io' = Transfer(OutgoingSize) /\ packet'.type = "none"
TimesOK == entryTimeMs' \in Times /\ remainingTimeMs' \in 0..LoopTimeout

LEMMA CallGoesOn ==
    ASSUME status' \in StatusValues, PacketTypeOK, TimesOK, now \in Times,
           Waits \/ Sends
    PROVE  CallOK'
<1>1. 0 \in Times
  BY KeepAliveAssumption DEF Times
<1>2. Transfer(OutgoingSize) \in Transfers /\ Transfer(OutgoingSize).left > 0
  BY <1>1 DEF Transfer, Transfers, OutgoingSize
<1>3. CASE Waits
  BY <1>3, CallKeptOK DEF CallKept, Waits, Steps, Sending, Receiving, TimesOK, PacketTypeOK
<1>4. CASE Sends
  BY <1>2, <1>4, CallKeptOK DEF CallKept, Sends, Steps, Sending, Receiving, TimesOK, PacketTypeOK
<1>5. QED
  BY <1>3, <1>4

LEMMA CallReturns ==
    ASSUME Return, status' \in StatusValues, now \in Times
    PROVE  CallOK'
<1>1. 0 \in Times /\ 0 \in 0..LoopTimeout
  BY KeepAliveAssumption DEF Times
<1>2. Idle \in Transfers /\ Idle.left = 0
  BY <1>1 DEF Idle, Transfers
<1>3. NoPacket \in [type: PacketTypes \cup {"none"}, length: Nat] /\ NoPacket.type = "none"
  BY DEF NoPacket
<1>4. Waits /\ TimesOK /\ PacketTypeOK
  BY <1>1, <1>2, <1>3 DEF Return, Waits, TimesOK, PacketTypeOK
<1>5. QED
  BY <1>4, CallGoesOn

(* A transfer is under way exactly in the steps that send or receive, and  *)
(* a packet is at hand exactly in those that receive.                      *)
LEMMA CallStep == TypeOK /\ [Next]_vars => CallOK'
<1> SUFFICES ASSUME TypeOK, [Next]_vars PROVE CallOK'
  OBVIOUS
<1>1. /\ pc \in Steps /\ status \in StatusValues
      /\ entryTimeMs \in Times /\ remainingTimeMs \in 0..LoopTimeout
      /\ io \in Transfers /\ (io.left > 0 <=> pc \in Sending \cup Receiving)
      /\ packet \in [type: PacketTypes \cup {"none"}, length: Nat]
      /\ packet.type # "none" <=> pc \in Receiving
      /\ now \in Times
  BY TypeParts DEF CallOK, ClockOK, Transfers
<1>2. /\ Idle \in Transfers /\ ~ Idle.left > 0 /\ 0 \in Times
      /\ NoPacket \in [type: PacketTypes \cup {"none"}, length: Nat] /\ NoPacket.type = "none"
      /\ LoopTimeout \in 0..LoopTimeout /\ BufferSize \in Nat \ {0}
      /\ \A s \in {"Success", "SendFailed", "RecvFailed", "BadResponse", "ServerRefused",
                   "NoDataAvailable", "KeepAliveTimeout"} : s \in StatusValues
  BY KeepAliveAssumption DEF Idle, Transfers, NoPacket, Times, StatusValues
<1>3. CASE UNCHANGED call
  BY <1>1, <1>3, CallKeptOK DEF CallKept, call
<1>4. CASE Connect \/ SendPacket
  <2>1. Sends /\ PacketTypeOK /\ TimesOK /\ status' = status
    BY <1>1, <1>4 DEF Connect, SendPacket, Sends, PacketTypeOK, TimesOK, Sending, Receiving
  <2>2. QED
    BY <1>1, <2>1, CallGoesOn
<1>5. CASE ProcessLoop \/ Disconnect
  <2>1. Waits /\ PacketTypeOK /\ TimesOK /\ status' \in StatusValues
    BY <1>1, <1>2, <1>5
    DEF ProcessLoop, Disconnect, Waits, PacketTypeOK, TimesOK, Sending, Receiving
  <2>2. QED
    BY <1>1, <2>1, CallGoesOn
<1>6. ASSUME NEW k \in 1..OutgoingSize, SendSome(k) PROVE CallOK'
  <2>1. CASE k = io.left
    <3>1. Sent /\ UNCHANGED status
      BY <1>6, <2>1 DEF SendSome
    <3>2. CASE Return
      BY <1>1, <3>1, <3>2, CallReturns
    <3>3. CASE ~ Return
      <4>1. Waits /\ PacketTypeOK /\ TimesOK
        BY <1>1, <1>2, <3>1, <3>3 DEF Sent, Waits, PacketTypeOK, TimesOK, Sending, Receiving
      <4>2. QED
        BY <1>1, <3>1, <4>1, CallGoesOn
    <3>4. QED
      BY <3>2, <3>3
  <2>2. CASE k # io.left
    <3>1. /\ k \in Nat /\ k < io.left
          /\ io' = [io EXCEPT !.left = @ - k, !.done = @ + k, !.time = now]
      BY <1>1, <1>6, <2>2 DEF SendSome, OutgoingSize, Transfers
    <3>2. io' \in Transfers /\ io'.left > 0
      BY <1>1, <3>1, TransferGoesOn
    <3>3. UNCHANGED <<pc, status, entryTimeMs, remainingTimeMs, packet>> /\ pc \in Sending
      BY <1>6, <2>2 DEF SendSome
    <3>4. QED
      BY <1>1, <3>2, <3>3, CallKeptOK DEF CallKept
  <2>3. QED
    BY <2>1, <2>2
<1>7. CASE SendNothing \/ SendFails
  <2>1. UNCHANGED call \/ GiveUpSending
    BY <1>7 DEF SendNothing, SendFails
  <2>2. CASE GiveUpSending
    <3>1. Return /\ status' \in StatusValues
      BY <1>1, <1>2, <2>2 DEF GiveUpSending
    <3>2. QED
      BY <1>1, <3>1, CallReturns
  <2>3. QED
    BY <1>3, <2>1, <2>2
<1>8. CASE ReadNothing \/ ReadFails \/ ReadBadHeader
  <2>1. \/ UNCHANGED call \/ (Return /\ status' \in StatusValues)
        \/ /\ pc = "header" /\ pc' = "keepAlive"
           /\ UNCHANGED <<status, entryTimeMs, remainingTimeMs, io, packet>>
    BY <1>2, <1>8 DEF ReadNothing, ReadFails, ReadBadHeader, ReturnStatus
  <2>2. CASE pc = "header" /\ pc' = "keepAlive" /\ UNCHANGED <<status, entryTimeMs, remainingTimeMs, io, packet>>
    <3>1. Waits /\ PacketTypeOK /\ TimesOK
      BY <1>1, <2>2 DEF Waits, PacketTypeOK, TimesOK, Sending, Receiving
    <3>2. QED
      BY <1>1, <2>2, <3>1, CallGoesOn
  <2>3. QED
    BY <1>1, <1>3, <2>1, <2>2, CallReturns
<1>9. ASSUME NEW p, Handle(p) PROVE CallOK'
  <2>1. \/ Return /\ status' \in StatusValues
        \/ /\ packet' = NoPacket /\ UNCHANGED <<status, entryTimeMs, remainingTimeMs>>
           /\ \/ pc' = "check" /\ io' = Idle
              \/ pc' = "sendAck" /\ io' = Transfer(OutgoingSize)
    BY <1>2, <1>9 DEF Handle, ConnackAccepted, ReturnStatus
  <2>2. CASE packet' = NoPacket /\ UNCHANGED <<status, entryTimeMs, remainingTimeMs>>
             /\ \/ pc' = "check" /\ io' = Idle
                \/ pc' = "sendAck" /\ io' = Transfer(OutgoingSize)
    <3>1. (Waits \/ Sends) /\ PacketTypeOK /\ TimesOK
      BY <1>1, <1>2, <2>2 DEF Waits, Sends, PacketTypeOK, TimesOK, Sending
    <3>2. QED
      BY <1>1, <2>2, <3>1, CallGoesOn
  <2>3. QED
    BY <1>1, <2>1, <2>2, CallReturns
<1>10. CASE ReadHeader
  <2> DEFINE p == Head(stream)
             size == Min({p.length, BufferSize})
             begin == IF p.length > BufferSize THEN now ELSE 0
  <2>1. p \in Packet
    BY <1>10, TypeParts, HeadTailProperties DEF ReadHeader, NetworkOK
  <2>2. CASE p.length = 0
    BY <1>9, <1>10, <2>2 DEF ReadHeader
  <2>3. CASE p.length # 0
    <3>1. size \in Nat \ {0} /\ begin \in Times
      BY <1>1, <1>2, <2>1, <2>3, MinOfTwo DEF Packet
    <3>2. /\ packet' = p /\ pc' \in {"discard", "receive"}
          /\ io' = [Transfer(size) EXCEPT !.start = begin]
          /\ UNCHANGED <<status, entryTimeMs, remainingTimeMs>>
      BY <1>10, <2>3 DEF ReadHeader
    <3> HIDE DEF p, size, begin
    <3>3. io' = [left |-> size, done |-> 0, time |-> now, start |-> begin]
      BY <3>2 DEF Transfer
    <3>4. io' \in Transfers /\ io'.left > 0
      BY <1>1, <3>1, <3>3 DEF Transfers
    <3>5. p \in [type: PacketTypes \cup {"none"}, length: Nat] /\ p.type # "none"
      BY <2>1 DEF Packet, PacketTypes
    <3>6. QED
      BY <1>1, <3>2, <3>4, <3>5, CallKeptOK DEF CallKept, Steps, Receiving
  <2>4. QED
    BY <2>2, <2>3
<1>11. ASSUME NEW k \in 1..BufferSize, RecvSome(k) PROVE CallOK'
  <2>1. CASE k < io.left
    <3>1. io' = [io EXCEPT !.left = @ - k, !.done = @ + k, !.time = now] /\ k \in Nat
      BY <1>11, <2>1 DEF RecvSome
    <3>2. io' \in Transfers /\ io'.left > 0
      BY <1>1, <2>1, <3>1, TransferGoesOn
    <3>3. UNCHANGED <<pc, status, entryTimeMs, remainingTimeMs, packet>> /\ pc \in Receiving
      BY <1>11, <2>1 DEF RecvSome
    <3>4. QED
      BY <1>1, <3>2, <3>3, CallKeptOK DEF CallKept
  <2>2. CASE ~ (k < io.left) /\ pc = "receive"
    BY <1>9, <1>11, <2>2 DEF RecvSome
  <2>3. CASE ~ (k < io.left) /\ pc = "discard"
    <3> DEFINE done == io.done + k
               rest == Min({BufferSize, packet.length - done})
    <3>1. DiscardChunk(done)
      BY <1>11, <2>3 DEF RecvSome
    <3>2. done \in Nat
      BY <1>1 DEF Transfers
    <3> HIDE DEF done
    <3>3. CASE TearPacket
      <4>1. Return /\ status' \in StatusValues
        BY <1>2, <3>3 DEF TearPacket, ReturnStatus
      <4>2. QED
        BY <1>1, <4>1, CallReturns
    <3>4. CASE done = packet.length /\ ~ TearPacket
      <4>1. Waits /\ PacketTypeOK /\ TimesOK /\ status' = status
        BY <1>1, <1>2, <3>1, <3>4 DEF DiscardChunk, Waits, PacketTypeOK, TimesOK
      <4>2. QED
        BY <1>1, <4>1, CallGoesOn
    <3>5. CASE done < packet.length /\ ~ TearPacket
      <4>1. packet.length \in Nat
        BY <1>1
      <4>2. rest \in Nat \ {0}
        BY <1>2, <3>2, <3>5, <4>1, MinOfTwo
      <4>3. /\ io' = [left |-> rest, done |-> done, time |-> now, start |-> io.start]
            /\ UNCHANGED <<pc, status, entryTimeMs, remainingTimeMs, packet>>
        BY <3>1, <3>2, <3>5, <4>1 DEF DiscardChunk
      <4> HIDE DEF rest
      <4>4. io' \in Transfers /\ io'.left > 0
        BY <1>1, <3>2, <4>2, <4>3 DEF Transfers
      <4>5. pc \in Receiving
        BY <2>3 DEF Receiving
      <4>6. QED
        BY <1>1, <4>3, <4>4, <4>5, CallKeptOK DEF CallKept
    <3>6. QED
      BY <3>1, <3>3, <3>4, <3>5 DEF DiscardChunk
  <2>4. QED
    BY <1>11, <2>1, <2>2, <2>3 DEF RecvSome
<1>12. CASE RecvNothing \/ RecvFails
  <2>1. UNCHANGED call \/ (Return /\ status' \in StatusValues)
    BY <1>2, <1>12 DEF RecvNothing, RecvFails, TearPacket, ReturnStatus
  <2>2. QED
    BY <1>1, <1>3, <2>1, CallReturns
<1>13. CASE HandleKeepAlive
  <2>1. \/ Return /\ status' \in StatusValues
        \/ /\ UNCHANGED <<status, entryTimeMs, remainingTimeMs, packet>>
           /\ \/ pc' = "check" /\ io' = io
              \/ pc' = "sendPing" /\ io' = Transfer(OutgoingSize)
    BY <1>2, <1>13 DEF HandleKeepAlive, ReturnStatus
  <2>2. pc = "keepAlive"
    BY <1>13 DEF HandleKeepAlive
  <2>3. CASE UNCHANGED <<status, entryTimeMs, remainingTimeMs, packet>>
             /\ \/ pc' = "check" /\ io' = io
                \/ pc' = "sendPing" /\ io' = Transfer(OutgoingSize)
    <3>1. (Waits \/ Sends) /\ PacketTypeOK /\ TimesOK
      BY <1>1, <2>2, <2>3 DEF Waits, Sends, PacketTypeOK, TimesOK, Sending, Receiving
    <3>2. QED
      BY <1>1, <2>3, <3>1, CallGoesOn
  <2>4. QED
    BY <1>1, <2>1, <2>3, CallReturns
<1>14. CASE CheckTime
  <2> DEFINE elapsed == Elapsed(now, entryTimeMs)
  <2>1. elapsed \in Nat
    <3>1. elapsed \in Times
      BY <1>1, ElapsedType
    <3> HIDE DEF elapsed
    <3>2. QED
      BY <3>1 DEF Times
  <2> HIDE DEF elapsed
  <2>2. CASE elapsed >= LoopTimeout
    <3>1. Return /\ status' \in StatusValues
      BY <1>2, <1>14, <2>2 DEF CheckTime, ReturnStatus, elapsed
    <3>2. QED
      BY <1>1, <3>1, CallReturns
  <2>3. CASE ~ (elapsed >= LoopTimeout)
    <3>1. /\ pc = "check" /\ pc' = "header" /\ remainingTimeMs' = LoopTimeout - elapsed
          /\ UNCHANGED <<status, entryTimeMs, io, packet>>
      BY <1>14, <2>3 DEF CheckTime, elapsed
    <3>2. Waits /\ PacketTypeOK /\ TimesOK
      BY <1>1, <1>2, <2>1, <2>3, <3>1 DEF Waits, PacketTypeOK, TimesOK, Sending, Receiving
    <3>3. QED
      BY <1>1, <3>1, <3>2, CallGoesOn
  <2>4. QED
    BY <2>2, <2>3
<1>15. QED
  BY <1>3, <1>4, <1>5, <1>6, <1>7, <1>8, <1>10, <1>11, <1>12, <1>13, <1>14
  DEF Next, Timed, InCall, Broker, Tick, vars, call

-----------------------------------------------------------------------------
(* A packet that was given up half read ends the call, and leaves either a *)
(* status the application looks at or no connection to go on with.         *)
TornOK == torn => pc = "app" /\ (connected => status # "Success")

LEMMA TornStep == TornOK /\ [Next]_vars => TornOK'
<1> SUFFICES ASSUME TornOK, [Next]_vars PROVE TornOK'
  OBVIOUS
<1> USE DEF TornOK, call, keepAlive, history, Return, ReturnStatus
<1>1. CASE UNCHANGED <<call, keepAlive, history>>
  BY <1>1
<1>2. CASE Connect \/ SendPacket \/ ProcessLoop
  BY <1>2 DEF Connect, SendPacket, ProcessLoop
<1>3. CASE Disconnect
  BY <1>3 DEF Disconnect
<1>4. CASE InCall
  <2>1. torn' = torn \/ (torn' = TRUE /\ pc' = "app" /\ status' \in {"RecvFailed", "BadResponse"})
    <3>1. CASE \E k \in 1..OutgoingSize : SendSome(k)
      BY <3>1 DEF SendSome
    <3>2. CASE SendNothing \/ SendFails \/ ReadNothing \/ ReadFails
      BY <3>2 DEF SendNothing, SendFails, GiveUpSending, ReadNothing, ReadFails
    <3>3. CASE ReadBadHeader \/ ReadHeader
      BY <3>3 DEF ReadBadHeader, ReadHeader
    <3>4. CASE \E k \in 1..BufferSize : RecvSome(k)
      BY <3>4 DEF RecvSome, DiscardChunk, TearPacket
    <3>5. CASE RecvNothing \/ RecvFails \/ HandleKeepAlive \/ CheckTime
      BY <3>5 DEF RecvNothing, RecvFails, TearPacket, HandleKeepAlive, CheckTime
    <3>6. QED
      BY <1>4, <3>1, <3>2, <3>3, <3>4, <3>5 DEF InCall
  <2>2. pc # "app"
    BY <1>4 DEF InCall, SendSome, SendNothing, SendFails, ReadNothing, ReadFails, ReadBadHeader,
           ReadHeader, RecvSome, RecvNothing, RecvFails, HandleKeepAlive, CheckTime, Sending, Receiving
  <2>3. QED
    BY <2>1, <2>2
<1>5. CASE Tick
  BY <1>5 DEF Tick
<1>6. QED
  BY <1>1, <1>2, <1>3, <1>4, <1>5 DEF Next, Timed, Broker, vars

-----------------------------------------------------------------------------
(* How long a PINGREQ has waited is what the clock says, as long as the    *)
(* clock has not gone round since.                                         *)
PingTime ==
    /\ sincePing \in 0..ClockSize
    /\ waitingForPingResp /\ sincePing < ClockSize =>
          sincePing = Elapsed(now, pingReqSendTimeMs)

(* One tick adds one to any elapsed time, until the clock has gone round.  *)
LEMMA ElapsedTick ==
    ASSUME NEW later \in Times, NEW start \in Times,
           Elapsed(later, start) + 1 < ClockSize
    PROVE  Elapsed((later + 1) % ClockSize, start) = Elapsed(later, start) + 1
<1> USE KeepAliveAssumption
<1>1. ASSUME NEW a \in Times, NEW b \in Times
      PROVE  Elapsed(a, b) = IF a >= b THEN a - b ELSE a - b + ClockSize
  <2>1. CASE a >= b
    <3>1. a - b \in 0..(ClockSize - 1)
      BY <2>1 DEF Times
    <3>2. (a - b) % ClockSize = a - b
      BY <3>1
    <3>3. QED
      BY <2>1, <3>2 DEF Elapsed
  <2>2. CASE a < b
    <3>1. b - a \in 1..ClockSize /\ a - b = 0 - (b - a)
      BY <2>2 DEF Times
    <3>2. (a - b) % ClockSize = ClockSize - (b - a)
      BY <3>1
    <3>3. QED
      BY <2>2, <3>2 DEF Elapsed, Times
  <2>3. QED
    BY <2>1, <2>2 DEF Times
<1>2. CASE later + 1 < ClockSize
  <2>1. (later + 1) % ClockSize = later + 1 /\ later + 1 \in Times
    BY <1>2 DEF Times
  <2>2. QED
    BY <1>1, <2>1 DEF Times
<1>3. CASE later + 1 = ClockSize
  <2>1. (later + 1) % ClockSize = 0 /\ 0 \in Times
    BY <1>3 DEF Times
  <2>2. QED
    BY <1>1, <1>3, <2>1 DEF Times
<1>4. QED
  BY <1>2, <1>3 DEF Times

LEMMA PingTimeStep == TypeOK /\ PingTime /\ [Next]_vars => PingTime'
<1> SUFFICES ASSUME TypeOK, PingTime, [Next]_vars PROVE PingTime'
  OBVIOUS
<1> USE DEF history, keepAlive
<1>1. /\ now \in Times /\ pingReqSendTimeMs \in Times
      /\ ClockSize \in Nat \ {0}
  BY TypeParts, KeepAliveAssumption DEF ClockOK
<1>2. CASE now' = now /\ UNCHANGED <<pingReqSendTimeMs, waitingForPingResp, sincePing>>
  BY <1>2 DEF PingTime, Elapsed
<1>3. CASE now' = now /\ pingReqSendTimeMs' = now /\ sincePing' = 0
  <2>1. (now - now) % ClockSize = 0
    BY <1>1 DEF Times
  <2>2. QED
    BY <1>1, <1>3, <2>1 DEF PingTime, Elapsed
<1>4. CASE waitingForPingResp' = FALSE /\ sincePing' = 0
  BY <1>1, <1>4 DEF PingTime
<1>5. CASE Tick
  <2>1. /\ now' = (now + 1) % ClockSize /\ pingReqSendTimeMs' = pingReqSendTimeMs
        /\ waitingForPingResp' = waitingForPingResp
        /\ sincePing' = IF waitingForPingResp THEN Min({sincePing + 1, ClockSize}) ELSE 0
    BY <1>5 DEF Tick
  <2>2. sincePing \in Int /\ ClockSize \in Int
    BY <1>1 DEF PingTime
  <2>3. Min({sincePing + 1, ClockSize}) = IF sincePing + 1 <= ClockSize THEN sincePing + 1 ELSE ClockSize
    BY <2>2, MinOfTwo
  <2>4. sincePing' \in 0..ClockSize
    BY <1>1, <2>1, <2>2, <2>3 DEF PingTime
  <2>5. ASSUME waitingForPingResp', sincePing' < ClockSize
        PROVE  sincePing' = Elapsed(now', pingReqSendTimeMs')
    <3>1. sincePing + 1 < ClockSize /\ sincePing' = sincePing + 1 /\ waitingForPingResp
      BY <1>1, <2>1, <2>2, <2>3, <2>5
    <3>2. sincePing = Elapsed(now, pingReqSendTimeMs)
      BY <1>1, <2>2, <3>1 DEF PingTime
    <3>3. QED
      BY <1>1, <2>1, <3>1, <3>2, ElapsedTick
  <2>6. QED
    BY <2>4, <2>5 DEF PingTime
<1>6. CASE DeviceStep /\ now' = now
  <2>1. \/ UNCHANGED <<pingReqSendTimeMs, waitingForPingResp, sincePing>>
        \/ pingReqSendTimeMs' = now /\ sincePing' = 0
        \/ waitingForPingResp' = FALSE /\ sincePing' = 0
    <3>1. CASE Connect \/ SendPacket \/ ProcessLoop \/ Disconnect
      BY <3>1 DEF Connect, SendPacket, ProcessLoop, Disconnect
    <3>2. CASE \E k \in 1..OutgoingSize : SendSome(k)
      BY <3>2 DEF SendSome, Sent
    <3>3. CASE SendNothing \/ SendFails \/ ReadNothing \/ ReadFails \/ ReadBadHeader
      BY <3>3 DEF SendNothing, SendFails, GiveUpSending, ReadNothing, ReadFails, ReadBadHeader
    <3>4. CASE ReadHeader
      BY <3>4 DEF ReadHeader, Handle, ConnackAccepted
    <3>5. CASE \E k \in 1..BufferSize : RecvSome(k)
      BY <3>5 DEF RecvSome, Handle, ConnackAccepted, DiscardChunk, TearPacket
    <3>6. CASE RecvNothing \/ RecvFails \/ HandleKeepAlive \/ CheckTime
      BY <3>6 DEF RecvNothing, RecvFails, TearPacket, HandleKeepAlive, CheckTime
    <3>7. QED
      BY <1>6, <3>1, <3>2, <3>3, <3>4, <3>5, <3>6 DEF DeviceStep, InCall
  <2>2. QED
    BY <1>2, <1>3, <1>4, <1>6, <2>1
<1>7. QED
  BY <1>2, <1>5, <1>6 DEF Next, Timed, DeviceStep, Broker, vars

-----------------------------------------------------------------------------
(* Nothing but a whole number of packets is read between two headers, and  *)
(* what the library says of time is true of the time that has passed.      *)
ClockInv == TypeOK /\ TornOK /\ PingTime

THEOREM ClockInvariance == Spec => []ClockInv
<1>1. Init => ClockInv
  <2> SUFFICES ASSUME Init PROVE TornOK /\ PingTime
    BY InitTypeOK DEF ClockInv
  <2>1. 0 \in 0..ClockSize
    BY KeepAliveAssumption
  <2>2. QED
    BY <2>1 DEF Init, TornOK, PingTime
<1>2. ClockInv /\ [Next]_vars => ClockInv'
  BY ClockStep, CallStep, NetworkStep, TypeParts, TornStep, PingTimeStep
  DEF ClockInv, TypeOK, ClockOK, CallOK, NetworkOK, Packet, Steps, StatusValues
<1>3. QED
  BY <1>1, <1>2, PTL DEF Spec

(* Every variable keeps its type, and a transfer or a packet is at hand    *)
(* exactly in the steps that have one.                                     *)
THEOREM KeepAliveTypes == Spec => []TypeOK
<1>1. ClockInv => TypeOK
  BY DEF ClockInv
<1>2. QED
  BY <1>1, ClockInvariance, PTL

(* No header is read from inside a packet that was given up half read.     *)
THEOREM NoTornHeader == Spec => []HeadersInStep
<1>1. ClockInv => HeadersInStep
  BY DEF ClockInv, TornOK, HeadersInStep
<1>2. QED
  BY <1>1, ClockInvariance, PTL

(* MQTTKeepAliveTimeout is only said of a PINGREQ that really waited, at   *)
(* any clock size and across any wrap of the clock.                        *)
THEOREM TimeoutsAreTrue == Spec => TimeoutJustified
<1>1. ClockInv /\ [Next]_vars =>
        [status # "KeepAliveTimeout" /\ status' = "KeepAliveTimeout" =>
           waitingForPingResp /\ sincePing > PingRespTimeout]_vars
  <2> SUFFICES ASSUME ClockInv, Next, status # "KeepAliveTimeout", status' = "KeepAliveTimeout"
               PROVE  waitingForPingResp /\ sincePing > PingRespTimeout
    OBVIOUS
  <2>1. HandleKeepAlive
    <3>1. status' # status
      OBVIOUS
    <3>2. CASE Connect \/ SendPacket \/ ProcessLoop \/ Disconnect \/ Broker \/ Tick
      BY <3>1, <3>2 DEF Connect, SendPacket, ProcessLoop, Disconnect, Broker, Tick, call
    <3>3. CASE \E k \in 1..OutgoingSize : SendSome(k)
      BY <3>1, <3>3 DEF SendSome
    <3>4. CASE SendNothing \/ SendFails \/ ReadNothing \/ ReadFails \/ ReadBadHeader
      BY <3>1, <3>4 DEF SendNothing, SendFails, GiveUpSending, ReadNothing, ReadFails, ReadBadHeader,
         call, ReturnStatus
    <3>5. CASE ReadHeader
      BY <3>1, <3>5 DEF ReadHeader, Handle, ConnackAccepted, ReturnStatus
    <3>6. CASE \E k \in 1..BufferSize : RecvSome(k)
      BY <3>1, <3>6 DEF RecvSome, Handle, ConnackAccepted, DiscardChunk, TearPacket, ReturnStatus
    <3>7. CASE RecvNothing \/ RecvFails \/ CheckTime
      BY <3>1, <3>7 DEF RecvNothing, RecvFails, TearPacket, CheckTime, call, ReturnStatus
    <3>8. QED
      BY <3>2, <3>3, <3>4, <3>5, <3>6, <3>7 DEF Next, Timed, InCall
  <2>2. waitingForPingResp /\ Elapsed(now, pingReqSendTimeMs) > PingRespTimeout
    BY <2>1 DEF HandleKeepAlive, ReturnStatus
  <2>3. /\ sincePing \in 0..ClockSize
        /\ sincePing < ClockSize => sincePing = Elapsed(now, pingReqSendTimeMs)
        /\ Elapsed(now, pingReqSendTimeMs) \in Times
    BY <2>2, TypeParts, ElapsedType DEF ClockInv, PingTime, ClockOK
  <2>4. PingRespTimeout \in Nat /\ ClockSize \in Nat
    BY KeepAliveAssumption
  <2> HIDE DEF ClockInv
  <2>5. QED
    BY <2>2, <2>3, <2>4 DEF Times
<1>2. QED
  BY <1>1, ClockInvariance, PTL DEF Spec, TimeoutJustified

-----------------------------------------------------------------------------
(* How many packets of a sequence are of a kind.                           *)
Places(seq, kind) == {i \in DOMAIN seq : seq[i] \in kind}
Count(seq, kind) == Cardinality(Places(seq, kind))

LEMMA PlacesFinite ==
    ASSUME NEW S, NEW seq \in Seq(S), NEW kind
    PROVE  IsFiniteSet(Places(seq, kind)) /\ Count(seq, kind) \in Nat
<1>1. IsFiniteSet(1..Len(seq)) /\ DOMAIN seq = 1..Len(seq)
  BY FS_Interval, LenProperties
<1>2. Places(seq, kind) \in SUBSET (1..Len(seq))
  BY <1>1 DEF Places
<1>3. QED
  BY <1>1, <1>2, FS_Subset, FS_CardinalityType DEF Count

LEMMA CountEmpty == ASSUME NEW kind PROVE Count(<<>>, kind) = 0
<1>1. Places(<<>>, kind) = {}
  BY DEF Places
<1>2. QED
  BY <1>1, FS_EmptySet DEF Count

LEMMA CountAppend ==
    ASSUME NEW S, NEW seq \in Seq(S), NEW e \in S, NEW kind
    PROVE  Count(Append(seq, e), kind) = Count(seq, kind) + (IF e \in kind THEN 1 ELSE 0)
<1> DEFINE longer == Append(seq, e)
           n == Len(seq)
<1>1. /\ n \in Nat /\ DOMAIN seq = 1..n
      /\ longer \in Seq(S) /\ Len(longer) = n + 1 /\ longer[n + 1] = e
      /\ \A i \in 1..n : longer[i] = seq[i]
  BY AppendProperties, LenProperties
<1>2. DOMAIN longer = 1..(n + 1)
  BY <1>1, LenProperties
<1> HIDE DEF longer, n
<1>3. IsFiniteSet(Places(seq, kind)) /\ Count(seq, kind) \in Nat /\ n + 1 \notin Places(seq, kind)
  <2>1. n + 1 \notin DOMAIN seq
    BY <1>1
  <2>2. QED
    BY <2>1, PlacesFinite DEF Places
<1>4. CASE e \in kind
  <2>1. Places(longer, kind) = Places(seq, kind) \cup {n + 1}
    BY <1>1, <1>2, <1>4 DEF Places
  <2>2. Cardinality(Places(longer, kind)) = Cardinality(Places(seq, kind)) + 1
    BY <1>3, <2>1, FS_AddElement
  <2>3. QED
    BY <1>4, <2>2 DEF Count, longer
<1>5. CASE e \notin kind
  <2>1. Places(longer, kind) = Places(seq, kind)
    BY <1>1, <1>2, <1>5 DEF Places
  <2>2. QED
    BY <1>3, <1>5, <2>1 DEF Count, longer
<1>6. QED
  BY <1>4, <1>5

LEMMA CountTail ==
    ASSUME NEW S, NEW seq \in Seq(S), seq # <<>>, NEW kind
    PROVE  Count(seq, kind) = Count(Tail(seq), kind) + (IF Head(seq) \in kind THEN 1 ELSE 0)
<1> DEFINE tail == Tail(seq)
           n == Len(seq)
           later == Places(seq, kind) \ {1}
           shift == [i \in Places(tail, kind) |-> i + 1]
<1>1. /\ n \in Nat \ {0} /\ DOMAIN seq = 1..n /\ Head(seq) = seq[1]
      /\ tail \in Seq(S) /\ Len(tail) = n - 1 /\ DOMAIN tail = 1..(n - 1)
      /\ \A i \in 1..(n - 1) : tail[i] = seq[i + 1]
  BY HeadTailProperties, LenProperties, EmptySeq
<1>2. /\ IsFiniteSet(Places(seq, kind)) /\ Count(seq, kind) \in Nat
      /\ IsFiniteSet(Places(tail, kind)) /\ Count(tail, kind) \in Nat
  BY <1>1, PlacesFinite
<1> HIDE DEF tail, n
<1>3. Cardinality(later) = Count(tail, kind)
  <2>1. Places(tail, kind) \subseteq 1..(n - 1)
    BY <1>1 DEF Places
  <2>2. later = {i + 1 : i \in Places(tail, kind)}
    <3>1. ASSUME NEW i \in Places(tail, kind) PROVE i + 1 \in later
      BY <1>1, <3>1 DEF Places
    <3>2. ASSUME NEW j \in later PROVE \E i \in Places(tail, kind) : j = i + 1
      <4>1. j - 1 \in 1..(n - 1) /\ (j - 1) + 1 = j
        BY <1>1, <3>2 DEF Places
      <4>2. tail[j - 1] = seq[j] /\ seq[j] \in kind
        BY <1>1, <3>2, <4>1 DEF Places
      <4>3. j - 1 \in Places(tail, kind)
        BY <1>1, <4>1, <4>2 DEF Places
      <4>4. QED
        BY <4>1, <4>3
    <3> HIDE DEF later
    <3>3. QED
      BY <3>1, <3>2
  <2> HIDE DEF later
  <2>3. shift \in Bijection(Places(tail, kind), later)
    <3>1. shift \in [Places(tail, kind) -> later]
      BY <2>2
    <3>2. \A a, b \in Places(tail, kind) : shift[a] = shift[b] => a = b
      BY <2>1, <1>1
    <3>3. \A t \in later : \E s \in Places(tail, kind) : shift[s] = t
      BY <2>2
    <3>4. QED
      BY <3>1, <3>2, <3>3 DEF Bijection, Injection, Surjection, IsInjective
  <2>4. ExistsBijection(Places(tail, kind), later)
    BY <2>3 DEF ExistsBijection
  <2>5. QED
    BY <1>2, <2>4, FS_Bijection DEF Count
<1>4. 1 \in Places(seq, kind) <=> Head(seq) \in kind
  BY <1>1 DEF Places
<1>5. Cardinality(later) = IF 1 \in Places(seq, kind) THEN Count(seq, kind) - 1 ELSE Count(seq, kind)
  BY <1>2, FS_RemoveElement DEF Count
<1>6. QED
  BY <1>2, <1>3, <1>4, <1>5 DEF tail

-----------------------------------------------------------------------------
(* The PINGRESPs that are owed or on their way, and the other packets that *)
(* could be taken for an answer.                                           *)
PingResps == {p \in Packet : p.type = "PINGRESP"}
LongPingResps == {p \in Packet : p.type = "PINGRESP" /\ p.length # 0}
ConnackTypes == {"CONNACK", "REFUSED"}
Connacks == {p \in Packet : p.type \in ConnackTypes}
Owed == Count(requests, {"PINGRESP"}) + Count(stream, PingResps)

(* Until the CONNACK has been read, it is all there is on the connection.  *)
Connecting ==
    \/ pc = "sendConnect" /\ requests = <<>> /\ stream = <<>>
    \/ pc = "connack" /\ requests = <<"CONNACK">> /\ stream = <<>>
    \/ /\ pc = "connack" /\ requests = <<>>
       /\ \E p \in Connacks : stream = <<p>> /\ p.length = 2
    \/ pc = "receive" /\ requests = <<>> /\ stream = <<>> /\ packet.type \in ConnackTypes

PingsOK ==
    /\ connected /\ ~ torn => Owed = IF waitingForPingResp THEN 1 ELSE 0
    /\ connected => /\ Count(requests, {"CONNACK"}) = 0 /\ Count(stream, Connacks) = 0
                    /\ packet.type \notin ConnackTypes
                    /\ pc \notin {"sendConnect", "connack"}
    /\ ~ connected /\ pc # "app" => Connecting
    /\ Count(stream, LongPingResps) = 0 /\ packet.type # "PINGRESP"
    /\ pc = "sendPing" => ~ waitingForPingResp

LEMMA PingsStep == TypeOK /\ TornOK /\ PingsOK /\ [Next]_vars => PingsOK'
<1> SUFFICES ASSUME TypeOK, TornOK, PingsOK, [Next]_vars PROVE PingsOK'
  OBVIOUS
<1>1. /\ stream \in Seq(Packet) /\ requests \in Seq({"CONNACK", "PINGRESP"})
      /\ waitingForPingResp \in BOOLEAN /\ connected \in BOOLEAN /\ torn \in BOOLEAN
  BY TypeParts DEF NetworkOK, ClockOK
<1>2. \A kind : /\ Count(stream, kind) \in Nat /\ Count(requests, kind) \in Nat
                /\ stream # <<>> => Count(Tail(stream), kind) \in Nat
                /\ requests # <<>> => Count(Tail(requests), kind) \in Nat
  BY <1>1, PlacesFinite, HeadTailProperties
<1>3. \A kind : Count(<<>>, kind) = 0
  BY CountEmpty
<1>4. UNCHANGED network => \A kind : /\ Count(stream', kind) = Count(stream, kind)
                                     /\ Count(requests', kind) = Count(requests, kind)
  BY DEF network
<1> USE DEF call, keepAlive, history, network
<1>5. CASE UNCHANGED <<connected, torn, network, packet, pc, waitingForPingResp>>
  BY <1>5 DEF PingsOK, Owed, Connecting
<1>6. CASE SendPacket \/ ProcessLoop
  BY <1>6 DEF PingsOK, Owed, SendPacket, ProcessLoop
<1>7. CASE Connect
  BY <1>3, <1>7 DEF PingsOK, Connecting, Connect
<1>8. CASE Disconnect
  BY <1>3, <1>8 DEF PingsOK, Disconnect
<1>9. ASSUME pc' \notin {"sendConnect", "connack", "sendPing"}, connected \/ pc' = "app",
             packet' \in {packet, NoPacket}, torn' = torn \/ torn' = TRUE,
             UNCHANGED <<connected, stream, requests, waitingForPingResp>>
      PROVE  PingsOK'
  BY <1>1, <1>9 DEF PingsOK, Owed, NoPacket, ConnackTypes
<1>10. connected \/ pc = "app" \/ Connecting
  BY DEF PingsOK
<1>11. ASSUME NEW k \in 1..OutgoingSize, SendSome(k) PROVE PingsOK'
  <2>1. CASE k # io.left
    BY <1>5, <1>11, <2>1 DEF SendSome
  <2>2. CASE k = io.left
    <3>1. Sent /\ UNCHANGED <<connected, stream, torn>>
      BY <1>11, <2>2 DEF SendSome
    <3>2. CASE pc = "sendConnect"
      <4>1. /\ requests' = Append(requests, "CONNACK") /\ pc' = "connack"
            /\ UNCHANGED <<waitingForPingResp, packet>>
        BY <3>1, <3>2 DEF Sent
      <4>2. ~ connected /\ requests = <<>> /\ stream = <<>>
        BY <1>10, <3>2 DEF PingsOK, Connecting
      <4>3. requests' = <<"CONNACK">> /\ stream' = <<>> /\ ~ connected'
        BY <3>1, <4>1, <4>2
      <4>4. packet.type # "PINGRESP"
        BY DEF PingsOK
      <4>5. QED
        BY <1>3, <4>1, <4>3, <4>4 DEF PingsOK, Connecting
    <3>3. CASE pc = "sendPing"
      <4>1. /\ requests' = Append(requests, "PINGRESP") /\ pc' = "check" /\ waitingForPingResp' = TRUE
            /\ UNCHANGED packet
        BY <3>1, <3>3 DEF Sent
      <4>2. connected /\ ~ torn /\ ~ waitingForPingResp
        BY <1>10, <3>3 DEF Connecting, PingsOK, TornOK
      <4>3. /\ Count(requests', {"PINGRESP"}) = Count(requests, {"PINGRESP"}) + 1
            /\ Count(requests', {"CONNACK"}) = Count(requests, {"CONNACK"})
        <5>1. \A kind : Count(Append(requests, "PINGRESP"), kind)
                        = Count(requests, kind) + (IF "PINGRESP" \in kind THEN 1 ELSE 0)
          BY <1>1, CountAppend
        <5>2. "PINGRESP" \in {"PINGRESP"} /\ "PINGRESP" \notin {"CONNACK"}
          OBVIOUS
        <5>3. Count(requests, {"CONNACK"}) \in Nat
          BY <1>2
        <5>4. QED
          BY <4>1, <5>1, <5>2, <5>3
      <4>4. QED
        BY <1>1, <1>2, <3>1, <4>1, <4>2, <4>3 DEF PingsOK, Owed
    <3>4. CASE pc \in {"sendAck", "sendPacket"}
      <4>1. /\ pc' \in {"check", "app"} /\ packet' \in {packet, NoPacket}
            /\ UNCHANGED <<waitingForPingResp, requests>>
        BY <3>1, <3>4 DEF Sent, Return
      <4>2. connected
        BY <1>10, <3>4 DEF Connecting
      <4>3. QED
        BY <1>9, <3>1, <4>1, <4>2
    <3>5. QED
      BY <3>1, <3>2, <3>3, <3>4 DEF Sent
  <2>3. QED
    BY <2>1, <2>2
<1>12. CASE SendNothing \/ SendFails
  <2>1. CASE GiveUpSending
    <3>1. /\ pc' = "app" /\ packet' = NoPacket
          /\ UNCHANGED <<connected, stream, requests, torn, waitingForPingResp>>
      BY <2>1 DEF GiveUpSending, Return
    <3>2. QED
      BY <1>9, <3>1
  <2>2. CASE UNCHANGED <<keepAlive, call, network, history>>
    BY <1>5, <2>2
  <2>3. QED
    BY <1>12, <2>1, <2>2 DEF SendNothing, SendFails
<1>13. CASE ReadNothing \/ ReadFails
  <2>1. UNCHANGED <<connected, network, waitingForPingResp, torn>>
    BY <1>13 DEF ReadNothing, ReadFails
  <2>2. \/ pc' = "app" /\ packet' = NoPacket
        \/ pc = "header" /\ pc' = "keepAlive" /\ packet' = packet
        \/ pc' = pc /\ packet' = packet
    BY <1>13 DEF ReadNothing, ReadFails, Return, ReturnStatus
  <2>3. CASE pc = "header" /\ pc' = "keepAlive" /\ packet' = packet
    <3>1. connected
      BY <1>10, <2>3 DEF Connecting
    <3>2. QED
      BY <1>9, <2>1, <2>3, <3>1
  <2>4. QED
    BY <1>5, <1>9, <2>1, <2>2, <2>3
<1>14. CASE ReadBadHeader
  <2>1. /\ pc' = "app" /\ packet' = NoPacket /\ torn' = TRUE /\ stream # <<>> /\ stream' = Tail(stream)
        /\ UNCHANGED <<connected, requests, waitingForPingResp>>
    BY <1>14 DEF ReadBadHeader, Return, ReturnStatus
  <2>2. \A kind : Count(stream, kind) = 0 => Count(stream', kind) = 0
    BY <1>1, <1>2, <2>1, CountTail
  <2>3. QED
    BY <2>1, <2>2 DEF PingsOK, NoPacket, ConnackTypes
<1>15. CASE HandleKeepAlive
  <2>1. connected /\ UNCHANGED <<connected, stream, requests, waitingForPingResp, torn>>
    BY <1>10, <1>15 DEF HandleKeepAlive, Connecting
  <2>2. \/ pc' \in {"check", "app"} /\ packet' \in {packet, NoPacket}
        \/ pc' = "sendPing" /\ packet' = packet /\ ~ waitingForPingResp
    BY <1>15 DEF HandleKeepAlive, ReturnStatus, Return
  <2>3. CASE pc' = "sendPing" /\ packet' = packet /\ ~ waitingForPingResp
    BY <2>1, <2>3 DEF PingsOK, Owed
  <2>4. QED
    BY <1>9, <2>1, <2>2, <2>3
<1>16. CASE CheckTime
  <2>1. connected /\ UNCHANGED <<connected, stream, requests, waitingForPingResp, torn>>
    BY <1>10, <1>16 DEF CheckTime, Connecting
  <2>2. pc' \in {"header", "app"} /\ packet' \in {packet, NoPacket}
    BY <1>16 DEF CheckTime, ReturnStatus, Return
  <2>3. QED
    BY <1>9, <2>1, <2>2
<1>17. CASE TearPacket
  <2>1. /\ pc' = "app" /\ packet' = NoPacket /\ torn' = TRUE
        /\ UNCHANGED <<connected, stream, requests, waitingForPingResp>>
    BY <1>17 DEF TearPacket, ReturnStatus, Return
  <2>2. QED
    BY <1>9, <2>1
<1>18. CASE RecvNothing \/ RecvFails
  <2>1. TearPacket \/ UNCHANGED <<keepAlive, call, network, history>>
    BY <1>18 DEF RecvNothing, RecvFails
  <2>2. QED
    BY <1>5, <1>17, <2>1
(* What is read is handled: a CONNACK ends the connecting, a PINGRESP was  *)
(* owed, and the rest changes nothing here.                                *)
<1>19. \A p : Handle(p) =>
          /\ packet' = NoPacket
          /\ \/ /\ p.type = "CONNACK" /\ pc' = "app" /\ connected' = TRUE
                /\ waitingForPingResp' = FALSE
             \/ /\ p.type = "REFUSED" /\ pc' = "app" /\ UNCHANGED <<connected, waitingForPingResp>>
             \/ /\ p.type = "PINGRESP" /\ pc' = "check" /\ connected' = connected
                /\ waitingForPingResp' = FALSE
             \/ /\ p.type \in {"PUBLISH0", "PUBLISH1"} /\ pc' \in {"sendAck", "check"}
                /\ UNCHANGED <<connected, waitingForPingResp>>
  BY DEF Handle, ConnackAccepted, ReturnStatus, Return
<1>20. CASE ReadHeader
  <2> DEFINE p == Head(stream)
  <2>1. /\ pc \in {"header", "connack"} /\ stream # <<>> /\ stream' = Tail(stream)
        /\ UNCHANGED <<requests, torn>>
    BY <1>20 DEF ReadHeader
  <2>2. p \in Packet
    BY <1>1, <2>1, HeadTailProperties
  <2>3. CASE pc = "connack"
    <3>1. ~ connected /\ requests = <<>>
      BY <1>10, <2>1, <2>3 DEF PingsOK, Connecting
    <3>2. PICK c \in Connacks : stream = <<c>> /\ c.length = 2
      BY <1>10, <2>1, <2>3, <3>1 DEF Connecting
    <3>3. p = c /\ stream' = <<>>
      BY <2>1, <3>2
    <3>4. /\ packet' = p /\ pc' = "receive" /\ UNCHANGED <<connected, waitingForPingResp>>
      BY <1>20, <3>2, <3>3, KeepAliveAssumption DEF ReadHeader
    <3>5. packet'.type \in ConnackTypes
      BY <3>2, <3>3, <3>4 DEF Connacks
    <3>6. packet'.type # "PINGRESP"
      BY <3>5 DEF ConnackTypes
    <3>7. QED
      BY <1>3, <2>1, <3>1, <3>3, <3>4, <3>5, <3>6 DEF PingsOK, Connecting
  <2>4. CASE pc = "header"
    <3>1. connected /\ ~ torn
      BY <1>10, <2>4 DEF Connecting, TornOK
    <3>2. /\ Count(stream, Connacks) = 0 /\ Count(stream, LongPingResps) = 0
          /\ Count(requests, {"CONNACK"}) = 0
          /\ Owed = IF waitingForPingResp THEN 1 ELSE 0
      BY <3>1 DEF PingsOK
    <3>3. \A kind : Count(stream, kind) = Count(stream', kind) + (IF p \in kind THEN 1 ELSE 0)
      BY <1>1, <2>1, CountTail
    <3>4. /\ p \notin Connacks /\ p \notin LongPingResps
          /\ Count(stream', Connacks) = 0 /\ Count(stream', LongPingResps) = 0
      BY <1>2, <2>1, <3>2, <3>3
    <3>5. p.type \notin ConnackTypes /\ (p.type = "PINGRESP" => p.length = 0)
      BY <2>2, <3>4 DEF Connacks, LongPingResps
    <3>6. p \in PingResps <=> p.type = "PINGRESP"
      BY <2>2 DEF PingResps
    <3>7. Count(stream, PingResps) = Count(stream', PingResps) + (IF p.type = "PINGRESP" THEN 1 ELSE 0)
      BY <3>3, <3>6
    <3>8. CASE p.length = 0
      <4>1. Handle(p)
        BY <1>20, <3>8 DEF ReadHeader
      <4>2. packet' = NoPacket /\ connected' = connected /\ pc' \notin {"sendConnect", "connack", "sendPing"}
        BY <1>19, <3>5, <4>1 DEF ConnackTypes
      <4>3. CASE p.type = "PINGRESP"
        <5>1. waitingForPingResp' = FALSE
          BY <1>19, <4>1, <4>3
        <5>2. Owed' = 0
          <6>1. Count(stream, PingResps) = Count(stream', PingResps) + 1
            BY <3>7, <4>3
          <6>2. /\ Count(stream', PingResps) \in Nat
                /\ Count(requests, {"PINGRESP"}) \in Nat
            BY <1>2, <2>1
          <6>3. /\ requests' = requests
                /\ Count(requests', {"PINGRESP"}) = Count(requests, {"PINGRESP"})
            BY <2>1
          <6>4. Count(requests, {"PINGRESP"}) + Count(stream, PingResps) \in {0, 1}
            BY <3>2 DEF Owed
          <6>5. Count(requests, {"PINGRESP"}) = 0 /\ Count(stream', PingResps) = 0
            BY <6>1, <6>2, <6>4
          <6>6. Owed' = Count(requests', {"PINGRESP"}) + Count(stream', PingResps)
            BY DEF Owed, PingResps, Packet
          <6>7. QED
            BY <6>3, <6>5, <6>6
        <5>3. QED
          BY <2>1, <3>1, <3>2, <3>4, <4>2, <5>1, <5>2 DEF PingsOK, NoPacket, ConnackTypes
      <4>4. CASE p.type # "PINGRESP"
        <5>1. waitingForPingResp' = waitingForPingResp
          BY <1>19, <3>5, <4>1, <4>4 DEF ConnackTypes
        <5>2. Owed' = Owed
          BY <1>1, <1>2, <2>1, <3>7, <4>4 DEF Owed
        <5>3. QED
          BY <2>1, <3>1, <3>2, <3>4, <4>2, <5>1, <5>2 DEF PingsOK, NoPacket, ConnackTypes
      <4>5. QED
        BY <4>3, <4>4
    <3>9. CASE p.length # 0
      <4>1. packet' = p /\ pc' \in {"discard", "receive"} /\ UNCHANGED <<connected, waitingForPingResp>>
        BY <1>20, <3>9 DEF ReadHeader
      <4>2. p.type # "PINGRESP"
        BY <3>5, <3>9
      <4>3. Owed' = Owed
        BY <1>1, <1>2, <2>1, <3>7, <4>2 DEF Owed
      <4>4. QED
        BY <2>1, <3>1, <3>2, <3>4, <3>5, <4>1, <4>2, <4>3 DEF PingsOK
    <3>10. QED
      BY <3>8, <3>9
  <2>5. QED
    BY <2>1, <2>3, <2>4
<1>21. ASSUME NEW k \in 1..BufferSize, RecvSome(k) PROVE PingsOK'
  <2>1. CASE k < io.left
    BY <1>5, <1>21, <2>1 DEF RecvSome
  <2>2. CASE ~ (k < io.left) /\ pc = "receive"
    <3>1. Handle(packet) /\ UNCHANGED <<stream, requests, torn>>
      BY <1>21, <2>2 DEF RecvSome
    <3>2. packet.type # "PINGRESP"
      BY DEF PingsOK
    <3>3. CASE connected
      <4>1. packet.type \notin ConnackTypes
        BY <3>3 DEF PingsOK
      <4>2. /\ packet' = NoPacket /\ UNCHANGED <<connected, waitingForPingResp>>
            /\ pc' \in {"sendAck", "check"}
        BY <1>19, <3>1, <3>2, <4>1 DEF ConnackTypes
      <4>3. QED
        BY <1>9, <3>1, <3>3, <4>2
    <3>4. CASE ~ connected
      <4>1. requests = <<>> /\ stream = <<>> /\ packet.type \in ConnackTypes
        BY <1>10, <2>2, <3>4 DEF Connecting
      <4>2. /\ packet' = NoPacket /\ pc' = "app"
            /\ connected' => ~ waitingForPingResp'
        BY <1>19, <3>1, <3>4, <4>1 DEF ConnackTypes
      <4>3. Owed' = 0
        BY <1>3, <3>1, <4>1 DEF Owed
      <4>4. QED
        BY <1>3, <3>1, <4>1, <4>2, <4>3 DEF PingsOK, NoPacket, ConnackTypes
    <3>5. QED
      BY <3>3, <3>4
  <2>3. CASE ~ (k < io.left) /\ pc = "discard"
    <3>1. connected /\ DiscardChunk(io.done + k)
      BY <1>10, <1>21, <2>3 DEF RecvSome, Connecting
    <3>2. \/ TearPacket
          \/ /\ pc' \in {"check", pc} /\ packet' \in {packet, NoPacket}
             /\ UNCHANGED <<connected, stream, requests, waitingForPingResp, torn>>
      BY <3>1 DEF DiscardChunk
    <3>3. QED
      BY <1>9, <1>17, <2>3, <3>1, <3>2
  <2>4. QED
    BY <1>21, <2>1, <2>2, <2>3 DEF RecvSome
(* The broker answers what it owes, and delivers nothing else but          *)
(* publishes.                                                              *)
<1>22. CASE Broker
  <2>1. UNCHANGED <<connected, torn, packet, pc, waitingForPingResp>>
    BY <1>22 DEF Broker
  <2>2. CASE UNCHANGED <<stream, requests>>
    BY <2>1, <2>2 DEF PingsOK, Owed, Connecting
  <2>3. ASSUME Deliver PROVE PingsOK'
    <3>1. PICK p \in Publishes : stream' = Append(stream, p)
      BY <2>3 DEF Deliver, Arrives
    <3>2. connected /\ requests' = requests
      BY <2>3 DEF Deliver
    <3>3. p \in Packet /\ p \notin PingResps /\ p \notin LongPingResps /\ p \notin Connacks
      BY KeepAliveAssumption DEF Packet, PacketTypes, PingResps, LongPingResps, Connacks, ConnackTypes
    <3>4. \A kind : p \notin kind => Count(stream', kind) = Count(stream, kind)
      BY <1>1, <1>2, <3>1, <3>3, CountAppend
    <3>5. QED
      BY <2>1, <3>2, <3>3, <3>4 DEF PingsOK, Owed
  <2>4. ASSUME Answer PROVE PingsOK'
    <3>1. requests # <<>> /\ requests' = Tail(requests)
      BY <2>4 DEF Answer
    <3>2. \A kind : Count(requests, kind) = Count(requests', kind) + (IF Head(requests) \in kind THEN 1 ELSE 0)
      BY <1>1, <3>1, CountTail
    <3>3. CASE Head(requests) = "CONNACK"
      <4>1. PICK t \in ConnackTypes : stream' = Append(stream, [type |-> t, length |-> 2])
        BY <2>4, <3>3 DEF Answer, Arrives, ConnackTypes
      <4> DEFINE c == [type |-> t, length |-> 2]
      <4>2. c \in Connacks /\ c \in Packet /\ c \notin LongPingResps
        BY DEF Connacks, ConnackTypes, Packet, PacketTypes, LongPingResps
      <4>3. Count(stream', LongPingResps) = Count(stream, LongPingResps)
        BY <1>1, <1>2, <4>1, <4>2, CountAppend
      <4>4. ~ connected
        <5>1. Count(requests, {"CONNACK"}) = Count(requests', {"CONNACK"}) + 1
          BY <3>2, <3>3
        <5>2. Count(requests', {"CONNACK"}) \in Nat
          BY <1>2, <3>1
        <5>3. QED
          BY <5>1, <5>2 DEF PingsOK
      <4>5. CASE pc = "app"
        BY <2>1, <4>3, <4>4, <4>5 DEF PingsOK
      <4>6. CASE pc # "app"
        <5>1. pc = "connack" /\ requests = <<"CONNACK">> /\ stream = <<>>
          BY <1>10, <3>1, <4>4, <4>6 DEF Connecting
        <5>2. requests' = <<>> /\ stream' = <<c>> /\ c.length = 2
          BY <3>1, <4>1, <5>1
        <5>3. Connecting'
          <6> HIDE DEF c
          <6>1. QED
            BY <2>1, <4>2, <5>1, <5>2 DEF Connecting
        <5>4. QED
          BY <2>1, <4>3, <4>4, <5>1, <5>3 DEF PingsOK
      <4>7. QED
        BY <4>5, <4>6
    <3>4. CASE Head(requests) = "PINGRESP"
      <4> DEFINE a == [type |-> "PINGRESP", length |-> 0]
      <4>1. stream' = Append(stream, a)
        BY <2>4, <3>4 DEF Answer, Arrives
      <4>2. a \in Packet /\ a \in PingResps /\ a \notin LongPingResps /\ a \notin Connacks
        BY DEF Packet, PacketTypes, PingResps, LongPingResps, Connacks, ConnackTypes
      <4> HIDE DEF a
      <4>3. /\ Count(stream', PingResps) = Count(stream, PingResps) + 1
            /\ Count(stream', LongPingResps) = Count(stream, LongPingResps)
            /\ Count(stream', Connacks) = Count(stream, Connacks)
        BY <1>1, <1>2, <4>1, <4>2, CountAppend
      <4>4. /\ Count(requests, {"PINGRESP"}) = Count(requests', {"PINGRESP"}) + 1
            /\ Count(requests, {"CONNACK"}) = Count(requests', {"CONNACK"})
            /\ \A kind : Count(requests', kind) \in Nat
        BY <1>2, <3>1, <3>2, <3>4
      <4>5. Owed' = Owed
        BY <1>2, <4>3, <4>4 DEF Owed
      <4>6. connected \/ pc = "app"
        <5>1. requests # <<"CONNACK">>
          BY <3>4
        <5>2. QED
          BY <1>10, <3>1, <5>1 DEF Connecting
      <4>7. QED
        BY <2>1, <4>3, <4>4, <4>5, <4>6 DEF PingsOK
    <3>5. QED
      BY <2>4, <3>3, <3>4 DEF Answer
  <2>5. QED
    BY <1>22, <2>2, <2>3, <2>4 DEF Broker, FallSilent, Close
<1>23. CASE Tick
  BY <1>5, <1>23 DEF Tick
<1>24. QED
  BY <1>5, <1>6, <1>7, <1>8, <1>11, <1>12, <1>13, <1>14, <1>15, <1>16, <1>18, <1>20, <1>21, <1>22, <1>23
  DEF Next, Timed, InCall, vars

(* The PINGREQs of a connection and the answers on their way to it agree   *)
(* with the flag, whatever the broker sends and whenever it stops.         *)
THEOREM PingsAgree == Spec => []PingsMatch
<1>1. Init => PingsOK
  BY CountEmpty DEF Init, PingsOK, NoPacket
<1>2. ClockInv /\ ClockInv' /\ PingsOK /\ [Next]_vars => PingsOK'
  BY PingsStep DEF ClockInv
<1>3. ClockInv /\ PingsOK => PingsMatch
  <2> SUFFICES ASSUME ClockInv, PingsOK PROVE PingsMatch
    OBVIOUS
  <2>1. stream \in Seq(Packet)
    BY TypeParts DEF ClockInv, NetworkOK
  <2>2. Places(requests, {"PINGRESP"}) = {i \in DOMAIN requests : requests[i] = "PINGRESP"}
    BY DEF Places
  <2>3. Places(stream, PingResps) = {i \in DOMAIN stream : stream[i].type = "PINGRESP"}
    <3>1. \A i \in DOMAIN stream : stream[i] \in Packet
      BY <2>1, LenProperties, ElementOfSeq
    <3>2. QED
      BY <3>1 DEF Places, PingResps
  <2>4. QED
    BY <2>2, <2>3 DEF PingsOK, PingsMatch, Owed, Count
<1>4. QED
  BY <1>1, <1>2, <1>3, ClockInvariance, PTL DEF Spec


-----------------------------------------------------------------------------
(* How long a process loop has run is what the clock says, as long as the  *)
(* clock has not gone round since it was entered.                          *)
Outside == {"app", "sendConnect", "connack", "sendPacket"}
LoopTime ==
    /\ sinceEntry \in 0..ClockSize
    /\ connected /\ pc \notin Outside /\ sinceEntry < ClockSize =>
          sinceEntry = Elapsed(now, entryTimeMs)

LEMMA LoopTimeStep == TypeOK /\ PingsOK /\ LoopTime /\ [Next]_vars => LoopTime'
<1> SUFFICES ASSUME TypeOK, PingsOK, LoopTime, [Next]_vars PROVE LoopTime'
  OBVIOUS
<1> USE DEF history, keepAlive, call, Outside
<1>1. /\ now \in Times /\ entryTimeMs \in Times
      /\ ClockSize \in Nat \ {0}
      /\ connected => pc \notin {"sendConnect", "connack"}
  BY TypeParts, KeepAliveAssumption DEF ClockOK, CallOK, PingsOK
<1>2. CASE now' = now /\ UNCHANGED <<entryTimeMs, sinceEntry, connected>> /\ (pc \in Outside => pc' \in Outside)
  BY <1>2 DEF LoopTime, Elapsed
<1>3. CASE now' = now /\ entryTimeMs' = now /\ sinceEntry' = 0
  <2>1. (now - now) % ClockSize = 0
    BY <1>1 DEF Times
  <2>2. QED
    BY <1>1, <1>3, <2>1 DEF LoopTime, Elapsed
<1>4. CASE sinceEntry' \in {sinceEntry, 0} /\ (~ connected' \/ pc' \in Outside)
  BY <1>1, <1>4 DEF LoopTime
<1>5. CASE Tick
  <2>1. /\ now' = (now + 1) % ClockSize /\ UNCHANGED <<entryTimeMs, connected, pc>>
        /\ sinceEntry' = IF pc \in Outside \/ ~ connected
                         THEN 0 ELSE Min({sinceEntry + 1, ClockSize})
    BY <1>5 DEF Tick
  <2>2. sinceEntry \in Int /\ ClockSize \in Int
    BY <1>1 DEF LoopTime
  <2>3. Min({sinceEntry + 1, ClockSize}) = IF sinceEntry + 1 <= ClockSize THEN sinceEntry + 1 ELSE ClockSize
    BY <2>2, MinOfTwo
  <2> HIDE DEF Outside
  <2>4. sinceEntry' \in 0..ClockSize
    BY <1>1, <2>1, <2>2, <2>3 DEF LoopTime
  <2>5. ASSUME connected', pc' \notin Outside, sinceEntry' < ClockSize
        PROVE  sinceEntry' = Elapsed(now', entryTimeMs')
    <3>1. sinceEntry + 1 < ClockSize /\ sinceEntry' = sinceEntry + 1 /\ connected /\ pc \notin Outside
      BY <1>1, <2>1, <2>2, <2>3, <2>5
    <3>2. sinceEntry = Elapsed(now, entryTimeMs)
      BY <1>1, <2>2, <3>1 DEF LoopTime
    <3>3. QED
      BY <1>1, <2>1, <3>1, <3>2, ElapsedTick
  <2>6. QED
    BY <2>4, <2>5 DEF LoopTime
(* A step of the device enters a loop, stays in one, or is outside.        *)
<1>6. CASE DeviceStep /\ now' = now
  <2>1. \/ UNCHANGED <<entryTimeMs, sinceEntry, connected>> /\ (pc \in Outside => pc' \in Outside)
        \/ entryTimeMs' = now /\ sinceEntry' = 0
        \/ sinceEntry' \in {sinceEntry, 0} /\ (~ connected' \/ pc' \in Outside)
    <3>1. CASE Connect \/ SendPacket \/ ProcessLoop \/ Disconnect
      BY <3>1 DEF Connect, SendPacket, ProcessLoop, Disconnect
    <3>2. CASE \E k \in 1..OutgoingSize : SendSome(k)
      BY <3>2 DEF SendSome, Sent, Return
    <3>3. CASE SendNothing \/ SendFails
      BY <3>3 DEF SendNothing, SendFails, GiveUpSending, Return
    <3>4. CASE ReadNothing \/ ReadFails \/ ReadBadHeader
      BY <3>4 DEF ReadNothing, ReadFails, ReadBadHeader, ReturnStatus, Return
    <3>5. CASE ReadHeader
      BY <1>1, <3>5 DEF ReadHeader, Handle, ConnackAccepted, ReturnStatus, Return
    <3>6. CASE \E k \in 1..BufferSize : RecvSome(k)
      BY <3>6 DEF RecvSome, Handle, ConnackAccepted, DiscardChunk, TearPacket, ReturnStatus, Return, Receiving
    <3>7. CASE RecvNothing \/ RecvFails \/ HandleKeepAlive \/ CheckTime
      BY <3>7 DEF RecvNothing, RecvFails, TearPacket, HandleKeepAlive, CheckTime, ReturnStatus, Return, Receiving
    <3>8. QED
      BY <1>6, <3>1, <3>2, <3>3, <3>4, <3>5, <3>6, <3>7 DEF DeviceStep, InCall
  <2>2. QED
    BY <1>2, <1>3, <1>4, <1>6, <2>1
<1>7. CASE now' = now /\ UNCHANGED <<call, keepAlive, history>>
  BY <1>2, <1>7
<1>8. QED
  BY <1>5, <1>6, <1>7 DEF Next, Timed, DeviceStep, Broker, vars

(* MQTT_ProcessLoop says MQTTSuccess only after its timeout has passed, at *)
(* any clock size and across any wrap of the clock.                        *)
THEOREM SuccessIsTimely == Spec => SuccessTakesTimeout
<1>1. Init => PingsOK /\ LoopTime
  <2>1. 0 \in 0..ClockSize
    BY KeepAliveAssumption
  <2>2. QED
    BY <2>1, CountEmpty DEF Init, PingsOK, NoPacket, LoopTime
<1>2. ClockInv /\ PingsOK /\ LoopTime /\ [Next]_vars => PingsOK' /\ LoopTime'
  BY PingsStep, LoopTimeStep DEF ClockInv
<1>3. ClockInv /\ PingsOK /\ LoopTime /\ [Next]_vars =>
        [pc = "check" /\ pc' = "app" => sinceEntry >= LoopTimeout]_vars
  <2> SUFFICES ASSUME ClockInv, PingsOK, LoopTime, Next, pc = "check", pc' = "app"
               PROVE  sinceEntry >= LoopTimeout
    OBVIOUS
  <2>1. CheckTime
    BY DEF Next, Timed, InCall, Broker, Tick, call, Connect, SendPacket, ProcessLoop, Disconnect,
           SendSome, SendNothing, SendFails, ReadNothing, ReadFails, ReadBadHeader, ReadHeader,
           RecvSome, RecvNothing, RecvFails, HandleKeepAlive, Sending, Receiving
  <2>2. Elapsed(now, entryTimeMs) >= LoopTimeout
    BY <2>1 DEF CheckTime
  <2>3. connected /\ pc \notin Outside
    BY DEF PingsOK, Connecting, Outside
  <2>4. /\ sinceEntry \in 0..ClockSize
        /\ sinceEntry < ClockSize => sinceEntry = Elapsed(now, entryTimeMs)
    BY <2>3 DEF LoopTime
  <2>5. Elapsed(now, entryTimeMs) \in Times
    BY TypeParts, ElapsedType DEF ClockInv, ClockOK, CallOK
  <2>6. LoopTimeout \in Nat /\ ClockSize \in Nat
    BY KeepAliveAssumption
  <2> HIDE DEF ClockInv, PingsOK
  <2>7. QED
    BY <2>2, <2>4, <2>5, <2>6 DEF Times
<1>4. QED
  BY <1>1, <1>2, <1>3, ClockInvariance, PTL DEF Spec, SuccessTakesTimeout

-----------------------------------------------------------------------------
(* A wait for each byte: more bytes are more waits.                        *)
LEMMA MoreBytes == \A a, b, w \in Nat : a < b => a * w + w <= b * w
<1> SUFFICES ASSUME NEW a \in Nat, NEW b \in Nat, NEW w \in Nat, a < b
             PROVE  a * w + w <= b * w
  OBVIOUS
<1>1. PICK d \in Nat : b = a + 1 + d
  <2>1. b - a - 1 \in Nat /\ b = a + 1 + (b - a - 1)
    OBVIOUS
  <2>2. QED
    BY <2>1
<1>2. d * w \in Nat /\ a * w \in Nat
  OBVIOUS
<1>3. b * w = a * w + w + d * w
  BY <1>1
<1>4. QED
  BY <1>2, <1>3

LEMMA ElapsedNow == \A time \in Times : Elapsed(time, time) = 0
BY KeepAliveAssumption DEF Elapsed, Times

(* A tick makes no elapsed time longer than by one.                        *)
LEMMA ElapsedGrows ==
    ASSUME NEW later \in Times, NEW start \in Times
    PROVE  Elapsed((later + 1) % ClockSize, start) <= Elapsed(later, start) + 1
<1>1. ClockSize \in Nat \ {0} /\ (later + 1) % ClockSize \in Times
  BY KeepAliveAssumption DEF Times
<1>2. Elapsed((later + 1) % ClockSize, start) \in Times /\ Elapsed(later, start) \in Times
  BY <1>1, ElapsedType
<1>3. PICK before, after : before = Elapsed(later, start) /\ after = Elapsed((later + 1) % ClockSize, start)
  OBVIOUS
<1>4. before + 1 < ClockSize => after = before + 1
  BY <1>3, ElapsedTick
<1>5. QED
  BY <1>1, <1>2, <1>3, <1>4 DEF Times

-----------------------------------------------------------------------------
(* The publishes that are read are those the broker sent.                  *)
PublishTypes == {"PUBLISH0", "PUBLISH1"}
FromBroker ==
    /\ \A i \in DOMAIN stream : stream[i].type \in PublishTypes => stream[i] \in Publishes
    /\ packet.type \in PublishTypes => packet \in Publishes

LEMMA FromBrokerStep == TypeOK /\ FromBroker /\ [Next]_vars => FromBroker'
<1> SUFFICES ASSUME TypeOK, FromBroker, [Next]_vars PROVE FromBroker'
  OBVIOUS
<1> USE DEF network, call, keepAlive, history
<1>1. stream \in Seq(Packet)
  BY TypeParts DEF NetworkOK
<1>2. NoPacket.type \notin PublishTypes
  BY DEF NoPacket, PublishTypes
<1>3. \A i \in DOMAIN stream' : stream'[i].type \in PublishTypes => stream'[i] \in Publishes
  <2>1. \/ stream' \in {stream, <<>>}
        \/ stream # <<>> /\ stream' = Tail(stream)
        \/ \E p \in Packet : (p.type \in PublishTypes => p \in Publishes) /\ stream' = Append(stream, p)
    <3>1. CASE Answer
      <4>1. CASE UNCHANGED stream
        BY <4>1
      <4>2. CASE \E t \in {"CONNACK", "REFUSED", "PINGRESP"}, n \in {0, 2} :
                    stream' = Append(stream, [type |-> t, length |-> n])
        <5>1. PICK t \in {"CONNACK", "REFUSED", "PINGRESP"}, n \in {0, 2} :
                      stream' = Append(stream, [type |-> t, length |-> n])
          BY <4>2
        <5>2. [type |-> t, length |-> n] \in Packet /\ [type |-> t, length |-> n].type \notin PublishTypes
          BY DEF Packet, PacketTypes, PublishTypes
        <5>3. QED
          BY <5>1, <5>2
      <4>3. QED
        BY <3>1, <4>1, <4>2 DEF Answer, Arrives
    <3>2. CASE Deliver
      <4>1. PICK p \in Publishes : stream' = Append(stream, p)
        BY <3>2 DEF Deliver, Arrives
      <4>2. p \in Packet
        BY KeepAliveAssumption DEF Packet, PacketTypes
      <4>3. QED
        BY <4>1, <4>2
    <3>3. CASE FallSilent \/ Close \/ Tick \/ UNCHANGED vars
      BY <3>3 DEF FallSilent, Close, Tick, vars
    <3>4. CASE Connect \/ SendPacket \/ ProcessLoop \/ Disconnect
      BY <3>4 DEF Connect, SendPacket, ProcessLoop, Disconnect
    <3>5. CASE \E k \in 1..OutgoingSize : SendSome(k)
      BY <3>5 DEF SendSome
    <3>6. CASE SendNothing \/ SendFails
      BY <3>6 DEF SendNothing, SendFails, GiveUpSending
    <3>7. CASE ReadNothing \/ ReadFails \/ ReadBadHeader \/ ReadHeader
      BY <3>7 DEF ReadNothing, ReadFails, ReadBadHeader, ReadHeader
    <3>8. CASE \E k \in 1..BufferSize : RecvSome(k)
      BY <3>8 DEF RecvSome, DiscardChunk, TearPacket
    <3>9. CASE RecvNothing \/ RecvFails \/ HandleKeepAlive \/ CheckTime
      BY <3>9 DEF RecvNothing, RecvFails, TearPacket, HandleKeepAlive, CheckTime
    <3>10. QED
      BY <3>1, <3>2, <3>3, <3>4, <3>5, <3>6, <3>7, <3>8, <3>9 DEF Next, Timed, InCall, Broker
  <2>2. CASE stream' \in {stream, <<>>}
    BY <2>2 DEF FromBroker
  <2>3. CASE stream # <<>> /\ stream' = Tail(stream)
    <3>1. \A i \in DOMAIN stream' : i + 1 \in DOMAIN stream /\ stream'[i] = stream[i + 1]
      BY <1>1, <2>3
    <3>2. QED
      BY <3>1 DEF FromBroker
  <2>4. CASE \E p \in Packet : (p.type \in PublishTypes => p \in Publishes) /\ stream' = Append(stream, p)
    <3>1. PICK p \in Packet : (p.type \in PublishTypes => p \in Publishes) /\ stream' = Append(stream, p)
      BY <2>4
    <3>2. \A i \in DOMAIN stream' : stream'[i] = p \/ (i \in DOMAIN stream /\ stream'[i] = stream[i])
      <4>1. PICK n \in Nat : n = Len(stream) /\ DOMAIN stream = 1..n
        BY <1>1, LenProperties
      <4>2. /\ stream' \in Seq(Packet) /\ Len(stream') = n + 1 /\ stream'[n + 1] = p
            /\ \A i \in 1..n : stream'[i] = stream[i]
        BY <1>1, <3>1, <4>1, AppendProperties
      <4>3. DOMAIN stream' = 1..(n + 1)
        BY <4>2, LenProperties
      <4>4. ASSUME NEW i \in 1..(n + 1)
            PROVE  stream'[i] = p \/ (i \in 1..n /\ stream'[i] = stream[i])
        <5>1. CASE i = n + 1
          BY <4>2, <5>1
        <5>2. CASE i # n + 1
          <6>1. i \in 1..n
            BY <4>1, <5>2
          <6>2. QED
            BY <4>2, <6>1
        <5>3. QED
          BY <5>1, <5>2
      <4>5. QED
        BY <4>1, <4>3, <4>4
    <3>3. QED
      BY <3>1, <3>2 DEF FromBroker
  <2>5. QED
    BY <2>1, <2>2, <2>3, <2>4
<1>4. packet'.type \in PublishTypes => packet' \in Publishes
  <2>1. packet' \in {packet, NoPacket} \/ (stream # <<>> /\ packet' = Head(stream))
    <3>1. CASE Broker \/ Tick \/ UNCHANGED vars
      BY <3>1 DEF Broker, Tick, vars
    <3>2. CASE Connect \/ SendPacket \/ ProcessLoop \/ Disconnect
      BY <3>2 DEF Connect, SendPacket, ProcessLoop, Disconnect
    <3>3. CASE \E k \in 1..OutgoingSize : SendSome(k)
      BY <3>3 DEF SendSome, Sent, Return
    <3>4. CASE SendNothing \/ SendFails
      BY <3>4 DEF SendNothing, SendFails, GiveUpSending, Return
    <3>5. CASE ReadNothing \/ ReadFails \/ ReadBadHeader
      BY <3>5 DEF ReadNothing, ReadFails, ReadBadHeader, ReturnStatus, Return
    <3>6. CASE ReadHeader
      BY <3>6 DEF ReadHeader, Handle, ConnackAccepted, ReturnStatus, Return
    <3>7. CASE \E k \in 1..BufferSize : RecvSome(k)
      BY <3>7 DEF RecvSome, Handle, ConnackAccepted, DiscardChunk, TearPacket, ReturnStatus, Return
    <3>8. CASE RecvNothing \/ RecvFails \/ HandleKeepAlive \/ CheckTime
      BY <3>8 DEF RecvNothing, RecvFails, TearPacket, HandleKeepAlive, CheckTime, ReturnStatus, Return
    <3>9. QED
      BY <3>1, <3>2, <3>3, <3>4, <3>5, <3>6, <3>7, <3>8 DEF Next, Timed, InCall
  <2>2. CASE packet' \in {packet, NoPacket}
    BY <1>2, <2>2 DEF FromBroker
  <2>3. CASE stream # <<>> /\ packet' = Head(stream)
    <3>1. 1 \in DOMAIN stream /\ packet' = stream[1]
      BY <1>1, <2>3
    <3>2. QED
      BY <3>1 DEF FromBroker
  <2>4. QED
    BY <2>1, <2>2, <2>3
<1>5. QED
  BY <1>3, <1>4 DEF FromBroker

-----------------------------------------------------------------------------
(* How far an iteration of a process loop is, by the pauses it has had and *)
(* the bytes it has waited for.                                            *)
InLoop == connected /\ pc \notin Outside
Base == LoopTimeout - 1
Waited == Elapsed(now, io.time)

Transferred ==
    /\ pc \in Sending => io.done + io.left = OutgoingSize
    /\ pc \in Receiving => io.done + io.left <= packet.length
Waiting ==
    /\ quiet \in 0..MaxPause
    /\ pc \in Sending => Waited <= SendRetryTimeout - 1 + quiet
    /\ pc \in Receiving => Waited <= RecvPollingTimeout - 1 + quiet
IterationTakes ==
    /\ pc = "header" => sinceEntry <= Base + quiet
    /\ pc = "keepAlive" => sinceEntry <= Base + MaxPause + quiet
    /\ pc = "sendPing" =>
          sinceEntry <= Base + 2 * MaxPause + io.done * SendWait + Waited
    /\ pc \in Receiving =>
          sinceEntry <= Base + MaxPause + io.done * ReceiveWait + Waited
    /\ pc = "sendAck" =>
          \E p \in Publishes :
              sinceEntry <= Base + MaxPause + p.length * ReceiveWait + io.done * SendWait + Waited
    /\ pc = "check" =>
          \E reading \in Readings :
              sinceEntry <= Base + MaxPause + reading + OutgoingSize * SendWait + quiet
IterationOK ==
    /\ ~ InLoop => sinceEntry = 0
    /\ InLoop => IterationTakes

(* A transfer counts its bytes.                                            *)
LEMMA TransferredStep == TypeOK /\ Transferred /\ [Next]_vars => Transferred'
<1> SUFFICES ASSUME TypeOK, Transferred, [Next]_vars PROVE Transferred'
  OBVIOUS
<1> USE DEF call
<1>1. /\ pc \in Steps /\ io \in Transfers /\ packet \in [type: PacketTypes \cup {"none"}, length: Nat]
      /\ io.left \in Nat /\ io.done \in Nat /\ packet.length \in Nat
      /\ pc \in Receiving => packet.type # "none"
      /\ pc \in Sending => pc \notin Receiving
  BY TypeParts DEF CallOK, Transfers, Sending, Receiving
<1>2. CASE pc' \notin Sending \cup Receiving
  BY <1>2 DEF Transferred
<1>3. CASE pc' \in Sending /\ io' = Transfer(OutgoingSize)
  BY <1>3 DEF Transferred, Transfer, OutgoingSize, Sending, Receiving
<1>4. ASSUME NEW k \in Nat, k < io.left, pc' = pc, packet' = packet,
             io' = [io EXCEPT !.left = @ - k, !.done = @ + k, !.time = now]
      PROVE  Transferred'
  <2>1. io'.left = io.left - k /\ io'.done = io.done + k
    BY <1>1, <1>4 DEF Transfers
  <2>2. io'.done + io'.left = io.done + io.left
    BY <1>1, <1>4, <2>1
  <2>3. QED
    BY <1>4, <2>2 DEF Transferred
<1>5. CASE UNCHANGED call
  BY <1>5 DEF Transferred
<1>6. CASE Connect \/ SendPacket \/ ProcessLoop \/ Disconnect
  <2>1. pc' \notin Sending \cup Receiving \/ (pc' \in Sending /\ io' = Transfer(OutgoingSize))
    BY <1>6 DEF Connect, SendPacket, ProcessLoop, Disconnect, Sending, Receiving
  <2>2. QED
    BY <1>2, <1>3, <2>1
<1>7. ASSUME NEW k \in 1..OutgoingSize, SendSome(k) PROVE Transferred'
  <2>1. CASE k = io.left
    <3>1. pc' \in {"connack", "check", "app"}
      BY <1>7, <2>1 DEF SendSome, Sent, Return
    <3>2. QED
      BY <1>2, <3>1 DEF Sending, Receiving
  <2>2. CASE k # io.left
    <3>1. k < io.left /\ k \in Nat
      BY <1>1, <1>7, <2>2 DEF SendSome, OutgoingSize
    <3>2. QED
      BY <1>4, <1>7, <2>2, <3>1 DEF SendSome
  <2>3. QED
    BY <2>1, <2>2
<1>8. ASSUME Return PROVE Transferred'
  BY <1>2, <1>8 DEF Return, Sending, Receiving
<1>9. CASE SendNothing \/ SendFails
  <2>1. UNCHANGED call \/ Return
    BY <1>9 DEF SendNothing, SendFails, GiveUpSending
  <2>2. QED
    BY <1>5, <1>8, <2>1
<1>10. CASE ReadNothing \/ ReadFails \/ ReadBadHeader \/ HandleKeepAlive \/ CheckTime
  <2>1. \/ UNCHANGED call \/ Return \/ pc' \in {"keepAlive", "check", "header"}
        \/ pc' = "sendPing" /\ io' = Transfer(OutgoingSize)
    BY <1>10 DEF ReadNothing, ReadFails, ReadBadHeader, HandleKeepAlive, CheckTime, ReturnStatus
  <2>2. QED
    BY <1>2, <1>3, <1>5, <1>8, <2>1 DEF Sending, Receiving
<1>11. ASSUME NEW p, Handle(p) PROVE Transferred'
  <2>1. pc' \in {"app", "check"} \/ (pc' = "sendAck" /\ io' = Transfer(OutgoingSize))
    BY <1>11 DEF Handle, ConnackAccepted, ReturnStatus, Return
  <2>2. QED
    BY <1>2, <1>3, <2>1 DEF Sending, Receiving
<1>12. CASE ReadHeader
  <2>1. CASE Head(stream).length = 0
    BY <1>11, <1>12, <2>1 DEF ReadHeader
  <2>2. CASE Head(stream).length # 0
    <3>1. PICK p \in Packet : p = Head(stream)
      <4>1. stream \in Seq(Packet) /\ stream # <<>>
        BY <1>12, TypeParts DEF ReadHeader, NetworkOK
      <4>2. QED
        BY <4>1, HeadTailProperties
    <3>2. /\ packet' = p /\ pc' \in Receiving
          /\ io' = [Transfer(Min({p.length, BufferSize})) EXCEPT !.start = IF p.length > BufferSize THEN now ELSE 0]
      BY <1>12, <2>2, <3>1 DEF ReadHeader, Receiving
    <3>3. p.length \in Nat /\ BufferSize \in Nat
      BY KeepAliveAssumption DEF Packet
    <3>4. Min({p.length, BufferSize}) <= p.length
      BY <3>3, MinOfTwo
    <3>5. io'.done = 0 /\ io'.left = Min({p.length, BufferSize})
      BY <3>2 DEF Transfer
    <3>6. Min({p.length, BufferSize}) \in Nat
      BY <3>3, MinOfTwo
    <3>7. io'.done + io'.left <= p.length
      BY <3>3, <3>4, <3>5, <3>6
    <3>8. QED
      BY <3>2, <3>7 DEF Transferred, Sending, Receiving
  <2>3. QED
    BY <2>1, <2>2
<1>13. ASSUME NEW k \in 1..BufferSize, RecvSome(k) PROVE Transferred'
  <2>1. k \in Nat /\ k <= io.left /\ pc \in Receiving /\ BufferSize \in Nat
    BY <1>13, KeepAliveAssumption DEF RecvSome
  <2>2. CASE k < io.left
    <3>1. pc' = pc /\ packet' = packet /\ io' = [io EXCEPT !.left = @ - k, !.done = @ + k, !.time = now]
      BY <1>13, <2>2 DEF RecvSome
    <3>2. QED
      BY <1>4, <2>1, <2>2, <3>1
  <2>3. CASE ~ (k < io.left) /\ pc = "receive"
    BY <1>11, <1>13, <2>3 DEF RecvSome
  <2>4. CASE ~ (k < io.left) /\ pc = "discard"
    <3>1. DiscardChunk(io.done + k)
      BY <1>13, <2>4 DEF RecvSome
    <3>2. PICK done : done = io.done + k
      OBVIOUS
    <3>3. \/ pc' = "check" \/ Return
          \/ /\ done < packet.length /\ pc' = pc /\ packet' = packet
             /\ io' = [left |-> Min({BufferSize, packet.length - done}), done |-> done,
                       time |-> now, start |-> io.start]
      BY <3>1, <3>2 DEF DiscardChunk, TearPacket, ReturnStatus
    <3>4. CASE /\ done < packet.length /\ pc' = pc /\ packet' = packet
               /\ io' = [left |-> Min({BufferSize, packet.length - done}), done |-> done,
                         time |-> now, start |-> io.start]
      <4>1. packet.length - done \in Int /\ done \in Nat
        BY <1>1, <2>1, <3>2
      <4>2. /\ Min({BufferSize, packet.length - done}) <= packet.length - done
            /\ Min({BufferSize, packet.length - done}) \in Int
        BY <2>1, <4>1, MinOfTwo
      <4>3. io'.done = done /\ io'.left = Min({BufferSize, packet.length - done})
        BY <3>4
      <4>4. io'.done + io'.left <= packet.length
        BY <1>1, <4>1, <4>2, <4>3
      <4>5. QED
        BY <2>4, <3>4, <4>4 DEF Transferred, Sending, Receiving
    <3>5. QED
      BY <1>2, <1>8, <3>3, <3>4 DEF Sending, Receiving
  <2>5. QED
    BY <1>13, <2>2, <2>3, <2>4 DEF RecvSome
<1>14. CASE RecvNothing \/ RecvFails
  <2>1. UNCHANGED call \/ Return
    BY <1>14 DEF RecvNothing, RecvFails, TearPacket, ReturnStatus
  <2>2. QED
    BY <1>5, <1>8, <2>1
<1>15. CASE Broker \/ Tick \/ UNCHANGED vars
  BY <1>5, <1>15 DEF Broker, Tick, vars
<1>16. QED
  BY <1>6, <1>7, <1>9, <1>10, <1>12, <1>13, <1>14, <1>15 DEF Next, Timed, InCall

(* No byte is waited for longer than its timeout and the pause after it.   *)
LEMMA WaitingStep == TypeOK /\ Waiting /\ [Next]_vars => Waiting'
<1> SUFFICES ASSUME TypeOK, Waiting, [Next]_vars PROVE Waiting'
  OBVIOUS
<1> USE DEF call
<1>1. /\ io \in Transfers /\ io.time \in Times /\ now \in Times /\ MaxPause \in Nat
      /\ RecvPollingTimeout \in Nat \ {0} /\ SendRetryTimeout \in Nat \ {0}
      /\ quiet \in 0..MaxPause
  BY TypeParts, KeepAliveAssumption, OverrunAssumption DEF CallOK, ClockOK, Transfers, Waiting
<1>2. Waited \in Int
  <2>1. Waited \in Times
    BY <1>1, ElapsedType DEF Waited
  <2>2. QED
    BY <2>1 DEF Times
<1>3. CASE Tick
  <2>1. /\ now' = (now + 1) % ClockSize /\ io' = io /\ pc' = pc
        /\ quiet' = quiet + 1 /\ quiet < MaxPause
    BY <1>3 DEF Tick
  <2>2. Waited' <= Waited + 1
    BY <1>1, <2>1, ElapsedGrows DEF Waited
  <2>3. Waited' \in Int
    <3>1. (now + 1) % ClockSize \in Times
      BY <1>1, KeepAliveAssumption DEF Times
    <3>2. Waited' \in Times
      BY <1>1, <2>1, <3>1, ElapsedType DEF Waited
    <3>3. QED
      BY <3>2 DEF Times
  <2>4. PICK w \in Int, v \in Int : w = Waited /\ v = Waited'
    BY <1>2, <2>3
  <2>5. QED
    BY <1>1, <2>1, <2>2, <2>4 DEF Waiting
<1>4. CASE UNCHANGED <<now, quiet, pc, io>>
  BY <1>4 DEF Waiting, Waited
<1>5. ASSUME now' = now, quiet' = 0, pc' \notin Sending \cup Receiving \/ io'.time = now
      PROVE  Waiting'
  <2>1. io'.time = now => Waited' = 0
    BY <1>1, <1>5, ElapsedNow DEF Waited
  <2>2. QED
    BY <1>1, <1>5, <2>1 DEF Waiting
<1>6. ASSUME now' = now, quiet' = 0, UNCHANGED call,
             pc \in Sending => Waited < SendRetryTimeout,
             pc \in Receiving => Waited < RecvPollingTimeout
      PROVE  Waiting'
  <2>1. Waited' = Waited /\ pc' = pc
    BY <1>6 DEF Waited
  <2>2. QED
    BY <1>1, <1>2, <1>6, <2>1 DEF Waiting
<1>7. ASSUME DeviceStep, now' = now, quiet' = 0 PROVE Waiting'
  <2>1. \/ pc' \notin Sending \cup Receiving \/ io'.time = now
        \/ UNCHANGED call /\ (pc \in Sending => ~ (Waited >= SendRetryTimeout))
                          /\ (pc \in Receiving => ~ (Waited >= RecvPollingTimeout))
    <3>1. CASE Connect \/ SendPacket \/ ProcessLoop \/ Disconnect
      BY <3>1 DEF Connect, SendPacket, ProcessLoop, Disconnect, Transfer, Sending, Receiving
    <3>2. ASSUME NEW k \in 1..OutgoingSize, SendSome(k)
          PROVE  pc' \notin Sending \cup Receiving \/ io'.time = now
      BY <1>1, <3>2 DEF SendSome, Sent, Return, Sending, Receiving, Transfers
    <3>3. CASE SendNothing \/ SendFails
      BY <3>3 DEF SendNothing, SendFails, GiveUpSending, Return, Waited, Sending, Receiving
    <3>4. CASE ReadNothing \/ ReadFails \/ ReadBadHeader
      BY <3>4 DEF ReadNothing, ReadFails, ReadBadHeader, ReturnStatus, Return, Sending, Receiving
    <3>5. ASSUME NEW p, Handle(p)
          PROVE  pc' \notin Sending \cup Receiving \/ io'.time = now
      BY <3>5 DEF Handle, ConnackAccepted, ReturnStatus, Return, Transfer, Sending, Receiving
    <3>6. CASE ReadHeader
      <4>1. Handle(Head(stream)) \/ io'.time = now
        BY <3>6 DEF ReadHeader, Transfer
      <4>2. QED
        BY <3>5, <4>1
    <3>7. ASSUME NEW k \in 1..BufferSize, RecvSome(k)
          PROVE  pc' \notin Sending \cup Receiving \/ io'.time = now
      <4>1. \/ Handle(packet) \/ pc' \in {"app", "check"}
            \/ io' = [io EXCEPT !.left = @ - k, !.done = @ + k, !.time = now]
            \/ io'.time = now
        BY <3>7 DEF RecvSome, DiscardChunk, TearPacket, ReturnStatus, Return
      <4>2. QED
        BY <1>1, <3>5, <4>1 DEF Transfers, Sending, Receiving
    <3>8. CASE RecvNothing \/ RecvFails
      BY <3>8 DEF RecvNothing, RecvFails, TearPacket, ReturnStatus, Return, Waited, Sending, Receiving
    <3>9. CASE HandleKeepAlive \/ CheckTime
      BY <3>9 DEF HandleKeepAlive, CheckTime, ReturnStatus, Return, Transfer, Sending, Receiving
    <3>10. QED
      BY <1>7, <3>1, <3>2, <3>3, <3>4, <3>6, <3>7, <3>8, <3>9 DEF DeviceStep, InCall
  <2>2. QED
    BY <1>1, <1>2, <1>5, <1>6, <1>7, <2>1
<1>8. QED
  BY <1>3, <1>4, <1>7 DEF Next, Timed, DeviceStep, Broker, vars

(* The clock does not go round within an iteration; if it may, its size is *)
(* the bound that is to be shown.                                          *)
Fits == ~ IterationMayTake(ClockSize - Base)

LEMMA WaitsTyped == 
    /\ ClockSize \in Nat /\ MaxPause \in Nat /\ Base \in Nat
    /\ ReceiveWait \in Nat /\ SendWait \in Nat /\ OutgoingSize * SendWait = SendWait + SendWait
    /\ \A p \in Publishes : p.length \in Nat \ {0} /\ p.length * ReceiveWait \in Nat
    /\ \A reading \in Readings : reading \in Nat
<1>1. /\ ClockSize \in Nat /\ MaxPause \in Nat /\ Base \in Nat
      /\ ReceiveWait \in Nat /\ SendWait \in Nat
  BY KeepAliveAssumption, OverrunAssumption DEF Base, ReceiveWait, SendWait
<1>2. ASSUME NEW p \in Publishes PROVE p.length \in Nat \ {0} /\ p.length * ReceiveWait \in Nat
  <2>1. p.length \in Nat \ {0}
    BY KeepAliveAssumption, OverrunAssumption
  <2>2. QED
    BY <1>1, <2>1
<1>3. OutgoingSize * SendWait = SendWait + SendWait
  BY <1>1 DEF OutgoingSize
<1>4. \A reading \in Readings : reading \in Nat
  BY <1>1, <1>2 DEF Readings
<1>5. QED
  BY <1>1, <1>2, <1>3, <1>4

LEMMA FitsBounds ==
    ASSUME Fits
    PROVE  /\ SendWait < ClockSize
           /\ \A p \in Publishes : ReceiveWait < ClockSize
           /\ \A reading \in Readings :
                  Base + 2 * MaxPause + reading + OutgoingSize * SendWait < ClockSize
<1>1. \A reading \in Readings :
          Base + 2 * MaxPause + reading + OutgoingSize * SendWait < ClockSize
  BY WaitsTyped DEF Fits, IterationMayTake
<1>2. SendWait < ClockSize
  <2>1. MaxPause \in Readings
    BY DEF Readings
  <2>2. QED
    BY <1>1, <2>1, WaitsTyped
<1>3. ASSUME NEW p \in Publishes PROVE ReceiveWait < ClockSize
  <2>1. p.length * ReceiveWait \in Readings
    BY DEF Readings
  <2>2. Base + 2 * MaxPause + p.length * ReceiveWait + OutgoingSize * SendWait < ClockSize
    BY <1>1, <2>1
  <2>3. PICK a \in Nat, b \in Nat : a = p.length * ReceiveWait /\ b = 0 * ReceiveWait /\ b = 0
    BY WaitsTyped
  <2>4. b + ReceiveWait <= a
    BY <2>3, WaitsTyped, MoreBytes
  <2>5. QED
    BY <2>2, <2>3, <2>4, WaitsTyped
<1>4. QED
  BY <1>1, <1>2, <1>3

(* Every action moves an iteration on within its bound.                    *)
LEMMA IterationStep ==
    ASSUME TypeOK, PingsOK, LoopTime, FromBroker, Transferred, Waiting, IterationOK, Fits,
           [Next]_vars
    PROVE  IterationOK'
<1> USE DEF call, keepAlive, network, history
<1>1. /\ io \in Transfers /\ io.left \in Nat /\ io.done \in Nat /\ io.time \in Times /\ now \in Times
      /\ pc \in Steps /\ connected \in BOOLEAN
      /\ pc \in Sending \cup Receiving <=> io.left > 0
      /\ packet.length \in Nat /\ quiet \in 0..MaxPause /\ sinceEntry \in 0..ClockSize
  BY TypeParts DEF CallOK, ClockOK, Transfers, Waiting, LoopTime
<1>2. /\ ClockSize \in Nat /\ MaxPause \in Nat /\ Base \in Nat
      /\ ReceiveWait \in Nat /\ SendWait \in Nat /\ OutgoingSize * SendWait = SendWait + SendWait
      /\ ReceiveWait = RecvPollingTimeout - 1 + MaxPause
      /\ SendWait = SendRetryTimeout - 1 + MaxPause
      /\ RecvPollingTimeout \in Nat \ {0} /\ SendRetryTimeout \in Nat \ {0}
  BY WaitsTyped, KeepAliveAssumption, OverrunAssumption DEF ReceiveWait, SendWait
<1>3. Waited \in Nat
  <2>1. Waited \in Times
    BY <1>1, ElapsedType DEF Waited
  <2>2. QED
    BY <2>1 DEF Times
<1>4. /\ pc \in {"header", "keepAlive", "check", "sendPing", "sendAck", "discard"} => InLoop
      /\ connected => pc \notin {"sendConnect", "connack"}
  BY DEF PingsOK, Connecting, InLoop, Outside
<1>5. connected /\ pc \in Receiving => packet \in Publishes
  <2>1. packet.type \in PacketTypes \cup {"none"} /\ (pc \in Receiving => packet.type # "none")
    BY TypeParts DEF CallOK
  <2>2. connected => packet.type \notin ConnackTypes
    BY DEF PingsOK
  <2>3. packet.type # "PINGRESP"
    BY DEF PingsOK
  <2>4. QED
    BY <2>1, <2>2, <2>3 DEF FromBroker, PublishTypes, PacketTypes, ConnackTypes
<1> DEFINE Kept == now' = now /\ quiet' = 0
(* Outside of a loop nothing is counted.                                   *)
<1>6. ASSUME sinceEntry' = 0, ~ connected' \/ pc' \in Outside PROVE IterationOK'
  BY <1>6 DEF IterationOK, InLoop
<1>7. ~ InLoop => sinceEntry = 0
  BY DEF IterationOK
<1>8. ASSUME Return PROVE IterationOK'
  BY <1>6, <1>8 DEF Return, Outside
<1>9. ASSUME ~ connected, sinceEntry' \in {sinceEntry, 0}, ~ connected' \/ pc' \in Outside
      PROVE  IterationOK'
  BY <1>6, <1>7, <1>9 DEF InLoop
<1>10. InLoop => IterationTakes
  BY DEF IterationOK
(* Steps into the places of an iteration.                                  *)
<1>11. ASSUME connected', pc' = "header", Kept, sinceEntry' <= Base PROVE IterationOK'
  BY <1>2, <1>11 DEF IterationOK, IterationTakes, InLoop, Outside, Sending, Receiving
<1>12. ASSUME connected', pc' = "keepAlive", Kept, sinceEntry' <= Base + MaxPause PROVE IterationOK'
  BY <1>2, <1>12 DEF IterationOK, IterationTakes, InLoop, Outside, Sending, Receiving
<1>13. ASSUME connected', pc' = "check", Kept, NEW reading \in Readings,
              sinceEntry' <= Base + MaxPause + reading + OutgoingSize * SendWait
       PROVE  IterationOK'
  <2>1. reading \in Nat /\ OutgoingSize * SendWait \in Nat
    BY <1>2, WaitsTyped
  <2>2. sinceEntry' <= Base + MaxPause + reading + OutgoingSize * SendWait + quiet'
    BY <1>2, <1>13, <2>1
  <2>3. QED
    BY <1>13, <2>2 DEF IterationOK, IterationTakes, InLoop, Outside, Sending, Receiving
<1>14. ASSUME now' = now, io'.time = now PROVE Waited' = 0
  BY <1>1, <1>14, ElapsedNow DEF Waited
<1>15. ASSUME connected', pc' = "sendPing", Kept, io'.time = now, NEW d \in Nat, io'.done = d,
              sinceEntry' <= Base + 2 * MaxPause + d * SendWait
       PROVE  IterationOK'
  <2>1. sinceEntry' <= Base + 2 * MaxPause + io'.done * SendWait + Waited'
    <3>1. Waited' = 0 /\ d * SendWait \in Nat
      BY <1>2, <1>14, <1>15
    <3>2. QED
      BY <1>2, <1>15, <3>1
  <2>2. QED
    BY <1>15, <2>1 DEF IterationOK, IterationTakes, InLoop, Outside, Sending, Receiving
<1>16. ASSUME connected', pc' = "sendAck", Kept, io'.time = now, NEW d \in Nat, io'.done = d,
              NEW p \in Publishes,
              sinceEntry' <= Base + MaxPause + p.length * ReceiveWait + d * SendWait
       PROVE  IterationOK'
  <2>1. sinceEntry' <= Base + MaxPause + p.length * ReceiveWait + io'.done * SendWait + Waited'
    <3>1. Waited' = 0 /\ d * SendWait \in Nat /\ p.length * ReceiveWait \in Nat
      BY <1>2, <1>14, <1>16, WaitsTyped
    <3>2. QED
      BY <1>2, <1>16, <3>1
  <2>2. QED
    BY <1>16, <2>1 DEF IterationOK, IterationTakes, InLoop, Outside, Sending, Receiving
<1>17. ASSUME connected', pc' \in Receiving, Kept, io'.time = now, NEW d \in Nat, io'.done = d,
              sinceEntry' <= Base + MaxPause + d * ReceiveWait
       PROVE  IterationOK'
  <2>1. sinceEntry' <= Base + MaxPause + io'.done * ReceiveWait + Waited'
    <3>1. Waited' = 0 /\ d * ReceiveWait \in Nat
      BY <1>2, <1>14, <1>17
    <3>2. QED
      BY <1>2, <1>17, <3>1
  <2>2. QED
    BY <1>17, <2>1 DEF IterationOK, IterationTakes, InLoop, Outside, Sending, Receiving
<1>18. ASSUME UNCHANGED <<call, connected, sinceEntry>>, now' = now,
              pc \in Sending \cup Receiving \cup {"connack"}
       PROVE  IterationOK'
  <2>1. Waited' = Waited /\ pc' = pc /\ io' = io /\ sinceEntry' = sinceEntry /\ InLoop' = InLoop
    BY <1>18 DEF Waited, InLoop
  <2>2. InLoop => IterationTakes'
    BY <1>10, <1>18, <2>1 DEF IterationTakes, Sending, Receiving
  <2>3. QED
    BY <1>7, <2>1, <2>2 DEF IterationOK
(* A byte more makes up for the wait before it.                            *)
<1>19. ASSUME NEW k \in Nat \ {0}, NEW d \in Nat, d = io.done + k
       PROVE  /\ pc \in Sending => io.done * SendWait + Waited <= d * SendWait
              /\ pc \in Receiving => io.done * ReceiveWait + Waited <= d * ReceiveWait
  <2>1. /\ io.done * SendWait + SendWait <= d * SendWait
        /\ io.done * ReceiveWait + ReceiveWait <= d * ReceiveWait
    <3>1. io.done < d /\ io.done \in Nat /\ d \in Nat
      BY <1>1, <1>19
    <3>2. QED
      BY <1>2, <3>1, MoreBytes
  <2>2. /\ pc \in Sending => Waited <= SendWait
        /\ pc \in Receiving => Waited <= ReceiveWait
    BY <1>1, <1>2, <1>3 DEF Waiting
  <2>3. PICK a \in Nat, b \in Nat : a = io.done * SendWait /\ b = d * SendWait
    BY <1>1, <1>2
  <2>4. PICK x \in Nat, y \in Nat : x = io.done * ReceiveWait /\ y = d * ReceiveWait
    BY <1>1, <1>2
  <2>5. /\ pc \in Sending => a + Waited <= b
        /\ pc \in Receiving => x + Waited <= y
    BY <1>2, <1>3, <2>1, <2>2, <2>3, <2>4
  <2>6. QED
    BY <2>3, <2>4, <2>5
<1>20. MaxPause \in Readings /\ \A p \in Publishes : p.length * ReceiveWait \in Readings
  BY DEF Readings

<1>21. CASE Tick
  <2>1. /\ now' = (now + 1) % ClockSize /\ UNCHANGED <<call, connected>>
        /\ quiet' = quiet + 1 /\ quiet < MaxPause
        /\ sinceEntry' = IF InLoop THEN Min({sinceEntry + 1, ClockSize}) ELSE 0
    BY <1>21 DEF Tick, InLoop, Outside
  <2>2. InLoop' = InLoop
    BY <2>1 DEF InLoop
  <2>3. CASE ~ InLoop
    BY <2>1, <2>2, <2>3 DEF IterationOK
  <2>4. CASE InLoop
    <3>1. sinceEntry' <= sinceEntry + 1 /\ sinceEntry' \in Nat
      BY <1>1, <1>2, <2>1, <2>4, MinOfTwo
    <3>2. pc \in Sending \cup Receiving => Waited' = Waited + 1
      <4>1. ASSUME pc \in Sending PROVE Waited + 1 < ClockSize
        <5>1. SendWait < ClockSize
          BY FitsBounds
        <5>2. QED
          BY <1>1, <1>2, <1>3, <2>1, <4>1, <5>1 DEF Waiting
      <4>2. ASSUME pc \in Receiving PROVE Waited + 1 < ClockSize
        <5>1. ReceiveWait < ClockSize
          BY <1>5, <2>4, <4>2, FitsBounds DEF InLoop
        <5>2. QED
          BY <1>1, <1>2, <1>3, <2>1, <4>2, <5>1 DEF Waiting
      <4>3. QED
        BY <1>1, <2>1, <4>1, <4>2, ElapsedTick DEF Waited
    <3>3. IterationTakes
      BY <1>10, <2>4
    <3>4. pc' = pc /\ io' = io
      BY <2>1
    <3>5. ASSUME pc \in {"header", "keepAlive"} PROVE IterationTakes'
      BY <1>1, <1>2, <2>1, <3>1, <3>3, <3>4, <3>5 DEF IterationTakes, Sending, Receiving
    <3>6. ASSUME pc = "check" PROVE IterationTakes'
      <4>1. PICK reading \in Readings :
                sinceEntry <= Base + MaxPause + reading + OutgoingSize * SendWait + quiet
        BY <3>3, <3>6 DEF IterationTakes
      <4>2. sinceEntry' <= Base + MaxPause + reading + OutgoingSize * SendWait + quiet'
        <5>1. reading \in Nat
          BY WaitsTyped
        <5>2. QED
          BY <1>1, <1>2, <2>1, <3>1, <4>1, <5>1
      <4>3. QED
        BY <3>4, <3>6, <4>2 DEF IterationTakes, Sending, Receiving
    <3>7. ASSUME pc = "sendPing" PROVE IterationTakes'
      <4>1. sinceEntry <= Base + 2 * MaxPause + io.done * SendWait + Waited
        BY <3>3, <3>7 DEF IterationTakes
      <4>2. Waited' = Waited + 1
        BY <3>2, <3>7 DEF Sending
      <4>3. PICK a \in Nat : a = io.done * SendWait
        BY <1>1, <1>2
      <4>4. sinceEntry' <= Base + 2 * MaxPause + a + Waited'
        BY <1>1, <1>2, <1>3, <3>1, <4>1, <4>2, <4>3
      <4>5. QED
        BY <3>4, <3>7, <4>3, <4>4 DEF IterationTakes, Sending, Receiving
    <3>8. ASSUME pc = "sendAck" PROVE IterationTakes'
      <4>1. PICK p \in Publishes :
                sinceEntry <= Base + MaxPause + p.length * ReceiveWait + io.done * SendWait + Waited
        BY <3>3, <3>8 DEF IterationTakes
      <4>2. Waited' = Waited + 1
        BY <3>2, <3>8 DEF Sending
      <4>3. PICK a \in Nat, b \in Nat : a = io.done * SendWait /\ b = p.length * ReceiveWait
        BY <1>1, <1>2, WaitsTyped
      <4>4. sinceEntry' <= Base + MaxPause + b + a + Waited'
        BY <1>1, <1>2, <1>3, <3>1, <4>1, <4>2, <4>3
      <4>5. QED
        BY <3>4, <3>8, <4>3, <4>4 DEF IterationTakes, Sending, Receiving
    <3>9. ASSUME pc \in Receiving PROVE IterationTakes'
      <4>1. sinceEntry <= Base + MaxPause + io.done * ReceiveWait + Waited
        BY <3>3, <3>9 DEF IterationTakes
      <4>2. Waited' = Waited + 1
        BY <3>2, <3>9
      <4>3. PICK a \in Nat : a = io.done * ReceiveWait
        BY <1>1, <1>2
      <4>4. sinceEntry' <= Base + MaxPause + a + Waited'
        BY <1>1, <1>2, <1>3, <3>1, <4>1, <4>2, <4>3
      <4>5. QED
        BY <3>4, <3>9, <4>3, <4>4 DEF IterationTakes, Sending, Receiving
    <3>10. IterationTakes'
      <4>1. pc \in {"header", "keepAlive", "check", "sendPing", "sendAck"} \cup Receiving
        BY <1>1, <2>4 DEF InLoop, Outside, Steps, Sending
      <4>2. QED
        BY <3>5, <3>6, <3>7, <3>8, <3>9, <4>1
    <3>11. QED
      BY <2>2, <2>4, <3>10 DEF IterationOK
  <2>5. QED
    BY <2>3, <2>4
<1>22. CASE UNCHANGED <<now, quiet, call, connected, sinceEntry>>
  <2>1. Waited' = Waited /\ pc' = pc /\ io' = io /\ sinceEntry' = sinceEntry /\ InLoop' = InLoop /\ quiet' = quiet
    BY <1>22 DEF Waited, InLoop
  <2>2. IterationTakes' <=> IterationTakes
    BY <2>1 DEF IterationTakes
  <2>3. QED
    BY <2>1, <2>2 DEF IterationOK
<1>23. CASE Kept /\ (Connect \/ SendPacket \/ Disconnect)
  <2>1. /\ pc = "app" /\ sinceEntry' = sinceEntry
        /\ ~ connected' \/ pc' \in Outside
    BY <1>23 DEF Connect, SendPacket, Disconnect, Outside
  <2>2. sinceEntry = 0
    BY <1>7, <2>1 DEF InLoop, Outside
  <2>3. QED
    BY <1>6, <2>1, <2>2
<1>24. CASE Kept /\ ProcessLoop
  <2>1. connected' /\ pc' = "header" /\ sinceEntry' = 0
    BY <1>24 DEF ProcessLoop
  <2>2. QED
    BY <1>2, <1>11, <1>24, <2>1
<1>25. ASSUME NEW k \in 1..OutgoingSize, SendSome(k), Kept PROVE IterationOK'
  <2>1. pc \in Sending /\ connected' = connected /\ k \in Nat \ {0} /\ k <= io.left
    BY <1>25 DEF SendSome
  <2>2. PICK d \in Nat : d = io.done + k
    BY <1>1, <2>1
  <2>3. io.done * SendWait + Waited <= d * SendWait
    BY <1>19, <2>1, <2>2
  <2>4. d <= OutgoingSize /\ (k = io.left => d = OutgoingSize)
    BY <1>1, <2>1, <2>2 DEF Transferred, OutgoingSize
  <2>5. PICK a \in Nat, b \in Nat : a = io.done * SendWait /\ b = d * SendWait
    BY <1>1, <1>2
  <2>6. sinceEntry' \in {sinceEntry, 0}
    BY <1>25 DEF SendSome, Sent, Return
  <2>7. CASE ~ connected
    BY <1>9, <2>1, <2>6, <2>7
  <2>8. CASE connected /\ k = io.left
    <3>1. Sent
      BY <1>25, <2>8 DEF SendSome
    <3>2. b = OutgoingSize * SendWait
      BY <2>4, <2>5, <2>8
    <3>3. CASE pc = "sendPing"
      <4>1. pc' = "check" /\ sinceEntry' = sinceEntry /\ connected'
        BY <2>1, <2>8, <3>1, <3>3 DEF Sent
      <4>2. sinceEntry <= Base + 2 * MaxPause + a + Waited
        BY <1>4, <1>10, <2>5, <3>3 DEF IterationTakes
      <4>3. sinceEntry' <= Base + MaxPause + MaxPause + OutgoingSize * SendWait
        BY <1>1, <1>2, <1>3, <2>3, <2>5, <3>2, <4>1, <4>2
      <4>4. QED
        BY <1>13, <1>20, <1>25, <4>1, <4>3
    <3>4. CASE pc = "sendAck"
      <4>1. pc' = "check" /\ sinceEntry' = sinceEntry /\ connected'
        BY <2>1, <2>8, <3>1, <3>4 DEF Sent
      <4>2. PICK p \in Publishes :
                sinceEntry <= Base + MaxPause + p.length * ReceiveWait + a + Waited
        BY <1>4, <1>10, <2>5, <3>4 DEF IterationTakes
      <4>3. PICK c \in Nat : c = p.length * ReceiveWait
        BY WaitsTyped
      <4>4. sinceEntry' <= Base + MaxPause + c + OutgoingSize * SendWait
        BY <1>1, <1>2, <1>3, <2>3, <2>5, <3>2, <4>1, <4>2, <4>3
      <4>5. c \in Readings
        BY <1>20, <4>3
      <4>6. QED
        BY <1>13, <1>25, <4>1, <4>4, <4>5
    <3>5. CASE pc = "sendPacket"
      BY <1>8, <3>1, <3>5 DEF Sent
    <3>6. QED
      BY <1>4, <2>1, <2>8, <3>3, <3>4, <3>5 DEF Sending
  <2>9. CASE connected /\ k # io.left
    <3>1. /\ pc' = pc /\ sinceEntry' = sinceEntry
          /\ io' = [io EXCEPT !.left = @ - k, !.done = @ + k, !.time = now]
      BY <1>25, <2>9 DEF SendSome
    <3>2. io'.done = d /\ io'.time = now
      BY <1>1, <2>2, <3>1 DEF Transfers
    <3>3. CASE pc = "sendPing"
      <4>1. sinceEntry <= Base + 2 * MaxPause + a + Waited
        BY <1>4, <1>10, <2>5, <3>3 DEF IterationTakes
      <4>2. sinceEntry' <= Base + 2 * MaxPause + d * SendWait
        BY <1>1, <1>2, <1>3, <2>3, <2>5, <3>1, <4>1
      <4>3. QED
        BY <1>15, <1>25, <2>1, <2>9, <3>1, <3>2, <3>3, <4>2
    <3>4. CASE pc = "sendAck"
      <4>1. PICK p \in Publishes :
                sinceEntry <= Base + MaxPause + p.length * ReceiveWait + a + Waited
        BY <1>4, <1>10, <2>5, <3>4 DEF IterationTakes
      <4>2. PICK c \in Nat : c = p.length * ReceiveWait
        BY WaitsTyped
      <4>3. sinceEntry' <= Base + MaxPause + c + d * SendWait
        BY <1>1, <1>2, <1>3, <2>3, <2>5, <3>1, <4>1, <4>2
      <4>4. QED
        BY <1>16, <1>25, <2>1, <2>9, <3>1, <3>2, <3>4, <4>2, <4>3
    <3>5. CASE pc = "sendPacket"
      BY <1>6, <1>7, <3>1, <3>5 DEF InLoop, Outside
    <3>6. QED
      BY <1>4, <2>1, <2>9, <3>3, <3>4, <3>5 DEF Sending
  <2>10. QED
    BY <2>7, <2>8, <2>9
<1>26. CASE Kept /\ (SendNothing \/ SendFails)
  <2>1. Return \/ (UNCHANGED <<call, connected, sinceEntry>> /\ pc \in Sending)
    BY <1>26 DEF SendNothing, SendFails, GiveUpSending
  <2>2. QED
    BY <1>8, <1>18, <1>26, <2>1
<1>27. CASE Kept /\ (ReadNothing \/ ReadFails \/ ReadBadHeader)
  <2>1. \/ Return \/ (UNCHANGED <<call, connected, sinceEntry>> /\ pc = "connack")
        \/ (pc = "header" /\ pc' = "keepAlive" /\ UNCHANGED <<connected, sinceEntry>>)
    BY <1>27 DEF ReadNothing, ReadFails, ReadBadHeader, ReturnStatus
  <2>2. CASE pc = "header" /\ pc' = "keepAlive" /\ UNCHANGED <<connected, sinceEntry>>
    <3>1. connected /\ sinceEntry <= Base + quiet
      BY <1>4, <1>10, <2>2 DEF InLoop, IterationTakes
    <3>2. QED
      BY <1>1, <1>2, <1>12, <1>27, <2>2, <3>1
  <2>3. QED
    BY <1>8, <1>18, <1>27, <2>1, <2>2
(* A packet is handled after the wait for its bytes.                       *)
<1>28. ASSUME Kept, NEW p, Handle(p), connected, NEW reading \in Readings,
              p.type \in PublishTypes => p \in Publishes /\ reading = p.length * ReceiveWait,
              sinceEntry <= Base + MaxPause + reading
       PROVE  IterationOK'
  <2>1. \/ Return
        \/ pc' = "check" /\ UNCHANGED <<connected, sinceEntry>>
        \/ /\ p.type \in PublishTypes /\ pc' = "sendAck" /\ io' = Transfer(OutgoingSize)
           /\ UNCHANGED <<connected, sinceEntry>>
    BY <1>28 DEF Handle, ConnackAccepted, ReturnStatus, PublishTypes
  <2>2. reading \in Nat
    BY WaitsTyped
  <2>3. CASE pc' = "check" /\ UNCHANGED <<connected, sinceEntry>>
    <3>1. sinceEntry' <= Base + MaxPause + reading + OutgoingSize * SendWait
      BY <1>1, <1>2, <1>28, <2>2, <2>3
    <3>2. QED
      BY <1>13, <1>28, <2>3, <3>1
  <2>4. CASE /\ p.type \in PublishTypes /\ pc' = "sendAck" /\ io' = Transfer(OutgoingSize)
             /\ UNCHANGED <<connected, sinceEntry>>
    <3>1. io'.time = now /\ io'.done = 0
      BY <2>4 DEF Transfer
    <3>2. 0 * SendWait = 0
      BY <1>2
    <3>3. sinceEntry' <= Base + MaxPause + p.length * ReceiveWait + 0 * SendWait
      BY <1>1, <1>2, <1>28, <2>2, <2>4, <3>2
    <3>4. QED
      BY <1>16, <1>28, <2>4, <3>1, <3>3
  <2>5. QED
    BY <1>8, <2>1, <2>3, <2>4
(* Without a connection a packet ends MQTT_Connect or counts nothing.      *)
<1>29. ASSUME NEW p, Handle(p), ~ connected PROVE IterationOK'
  <2>1. Return \/ (connected' = connected /\ sinceEntry' = sinceEntry)
    BY <1>29 DEF Handle, ConnackAccepted, ReturnStatus
  <2>2. QED
    BY <1>8, <1>9, <1>29, <2>1
<1>30. CASE Kept /\ ReadHeader
  <2>1. PICK p \in Packet : p = Head(stream) /\ stream # <<>> /\ p = stream[1] /\ 1 \in DOMAIN stream
    <3>1. stream \in Seq(Packet) /\ stream # <<>>
      BY <1>30, TypeParts DEF ReadHeader, NetworkOK
    <3>2. QED
      BY <3>1, HeadTailProperties
  <2>2. CASE ~ connected
    <3>1. CASE p.length = 0
      BY <1>29, <1>30, <2>1, <2>2, <3>1 DEF ReadHeader
    <3>2. CASE p.length # 0
      <4>1. connected' = connected /\ sinceEntry' = sinceEntry
        BY <1>30, <2>1, <3>2 DEF ReadHeader
      <4>2. QED
        BY <1>9, <2>2, <4>1
    <3>3. QED
      BY <3>1, <3>2
  <2>3. CASE connected
    <3>1. pc = "header"
      BY <1>4, <1>30, <2>3 DEF ReadHeader
    <3>2. sinceEntry <= Base + MaxPause
      <4>1. sinceEntry <= Base + quiet
        BY <1>4, <1>10, <3>1 DEF IterationTakes
      <4>2. QED
        BY <1>1, <1>2, <4>1
    <3>3. p.type \in PublishTypes => p \in Publishes
      BY <2>1 DEF FromBroker
    <3>4. CASE p.length = 0
      <4>1. Handle(p)
        BY <1>30, <2>1, <3>4 DEF ReadHeader
      <4>2. p.type \notin PublishTypes
        <5>1. ASSUME p \in Publishes PROVE FALSE
          BY <3>4, <5>1, WaitsTyped
        <5>2. QED
          BY <3>3, <5>1
      <4>3. sinceEntry <= Base + MaxPause + MaxPause
        BY <1>1, <1>2, <3>2
      <4>4. QED
        BY <1>20, <1>28, <1>30, <2>3, <4>1, <4>2, <4>3
    <3>5. CASE p.length # 0
      <4>1. /\ pc' \in Receiving /\ UNCHANGED <<connected, sinceEntry>>
            /\ io' = [Transfer(Min({p.length, BufferSize})) EXCEPT !.start = IF p.length > BufferSize THEN now ELSE 0]
        BY <1>30, <2>1, <3>5 DEF ReadHeader, Receiving
      <4>2. io'.time = now /\ io'.done = 0
        BY <4>1 DEF Transfer
      <4>3. 0 * ReceiveWait = 0
        BY <1>2
      <4>4. sinceEntry' <= Base + MaxPause + 0 * ReceiveWait
        BY <1>1, <1>2, <3>2, <4>1, <4>3
      <4>5. QED
        BY <1>17, <1>30, <2>3, <4>1, <4>2, <4>4
    <3>6. QED
      BY <3>4, <3>5
  <2>4. QED
    BY <1>1, <2>2, <2>3
<1>31. CASE Kept /\ TearPacket
  BY <1>8, <1>31 DEF TearPacket, ReturnStatus
<1>32. ASSUME NEW k \in 1..BufferSize, RecvSome(k), Kept PROVE IterationOK'
  <2>1. pc \in Receiving /\ k \in Nat \ {0} /\ k <= io.left
    BY <1>32, KeepAliveAssumption DEF RecvSome
  <2>2. PICK d \in Nat : d = io.done + k
    BY <1>1, <2>1
  <2>3. io.done * ReceiveWait + Waited <= d * ReceiveWait
    BY <1>19, <2>1, <2>2
  <2>4. PICK a \in Nat, b \in Nat : a = io.done * ReceiveWait /\ b = d * ReceiveWait
    BY <1>1, <1>2
  <2>5. CASE ~ connected
    <3>1. pc = "receive"
      BY <2>1, <2>5 DEF PingsOK, Connecting, Receiving
    <3>2. CASE k < io.left
      <4>1. connected' = connected /\ sinceEntry' = sinceEntry
        BY <1>32, <3>2 DEF RecvSome
      <4>2. QED
        BY <1>9, <2>5, <4>1
    <3>3. CASE ~ (k < io.left)
      BY <1>29, <1>32, <2>5, <3>1, <3>3 DEF RecvSome
    <3>4. QED
      BY <3>2, <3>3
  <2>6. CASE connected
    <3>1. sinceEntry <= Base + MaxPause + a + Waited
      <4>1. InLoop
        BY <2>1, <2>6 DEF InLoop, Outside, Receiving
      <4>2. QED
        BY <1>10, <2>1, <2>4, <4>1 DEF IterationTakes
    <3>2. sinceEntry <= Base + MaxPause + b
      BY <1>1, <1>2, <1>3, <2>3, <2>4, <3>1
    <3>3. packet \in Publishes /\ d <= packet.length
      BY <1>1, <1>5, <2>1, <2>2, <2>6 DEF Transferred
    <3>4. PICK c \in Nat : c = packet.length * ReceiveWait /\ b <= c /\ c \in Readings
      <4>1. PICK c \in Nat : c = packet.length * ReceiveWait
        BY <1>1, <1>2
      <4>2. b <= c
        <5>1. CASE d = packet.length
          BY <2>4, <4>1, <5>1
        <5>2. CASE d # packet.length
          <6>1. d < packet.length
            BY <1>1, <3>3, <5>2
          <6>2. d * ReceiveWait + ReceiveWait <= packet.length * ReceiveWait
            BY <1>1, <1>2, <6>1, MoreBytes
          <6>3. QED
            BY <1>2, <2>4, <4>1, <6>2
        <5>3. QED
          BY <5>1, <5>2
      <4>3. QED
        BY <1>20, <3>3, <4>1, <4>2
    <3>5. sinceEntry <= Base + MaxPause + c
      BY <1>1, <1>2, <3>2, <3>4
    <3>6. CASE k < io.left
      <4>1. /\ pc' = pc /\ UNCHANGED <<connected, sinceEntry>>
            /\ io' = [io EXCEPT !.left = @ - k, !.done = @ + k, !.time = now]
        BY <1>32, <3>6 DEF RecvSome
      <4>2. io'.done = d /\ io'.time = now
        BY <1>1, <2>2, <4>1 DEF Transfers
      <4>3. sinceEntry' <= Base + MaxPause + d * ReceiveWait
        BY <2>4, <3>2, <4>1
      <4>4. QED
        BY <1>17, <1>32, <2>1, <2>6, <4>1, <4>2, <4>3
    <3>7. CASE ~ (k < io.left) /\ pc = "receive"
      <4>1. Handle(packet)
        BY <1>32, <3>7 DEF RecvSome
      <4>2. QED
        BY <1>28, <1>32, <2>6, <3>3, <3>4, <3>5, <4>1
    <3>8. CASE ~ (k < io.left) /\ pc = "discard"
      <4>1. DiscardChunk(d)
        BY <1>32, <2>2, <3>8 DEF RecvSome
      <4>2. \/ TearPacket
            \/ pc' = "check" /\ UNCHANGED <<connected, sinceEntry>>
            \/ /\ pc' = pc /\ UNCHANGED <<connected, sinceEntry>>
               /\ io'.done = d /\ io'.time = now
        BY <4>1 DEF DiscardChunk
      <4>3. CASE pc' = "check" /\ UNCHANGED <<connected, sinceEntry>>
        <5>1. sinceEntry' <= Base + MaxPause + c + OutgoingSize * SendWait
          BY <1>1, <1>2, <3>4, <3>5, <4>3
        <5>2. QED
          BY <1>13, <1>32, <2>6, <3>4, <4>3, <5>1
      <4>4. CASE /\ pc' = pc /\ UNCHANGED <<connected, sinceEntry>>
                 /\ io'.done = d /\ io'.time = now
        <5>1. sinceEntry' <= Base + MaxPause + d * ReceiveWait
          BY <2>4, <3>2, <4>4
        <5>2. QED
          BY <1>17, <1>32, <2>1, <2>6, <4>4, <5>1
      <4>5. QED
        BY <1>31, <1>32, <4>2, <4>3, <4>4
    <3>9. QED
      BY <1>32, <3>6, <3>7, <3>8 DEF RecvSome
  <2>7. QED
    BY <1>1, <2>5, <2>6
<1>33. CASE Kept /\ (RecvNothing \/ RecvFails)
  <2>1. TearPacket \/ (UNCHANGED <<call, connected, sinceEntry>> /\ pc \in Receiving)
    BY <1>33 DEF RecvNothing, RecvFails
  <2>2. QED
    BY <1>18, <1>31, <1>33, <2>1
<1>34. CASE Kept /\ HandleKeepAlive
  <2>1. pc = "keepAlive" /\ connected' = connected
    BY <1>34 DEF HandleKeepAlive
  <2>2. connected /\ sinceEntry <= Base + MaxPause + MaxPause
    <3>1. connected /\ sinceEntry <= Base + MaxPause + quiet
      BY <1>4, <1>10, <2>1 DEF InLoop, IterationTakes
    <3>2. QED
      BY <1>1, <1>2, <3>1
  <2>3. \/ Return
        \/ pc' = "check" /\ sinceEntry' = sinceEntry
        \/ pc' = "sendPing" /\ io' = Transfer(OutgoingSize) /\ sinceEntry' = sinceEntry
    BY <1>34 DEF HandleKeepAlive, ReturnStatus
  <2>4. CASE pc' = "check" /\ sinceEntry' = sinceEntry
    <3>1. sinceEntry' <= Base + MaxPause + MaxPause + OutgoingSize * SendWait
      BY <1>1, <1>2, <2>2, <2>4
    <3>2. QED
      BY <1>13, <1>20, <1>34, <2>1, <2>2, <2>4, <3>1
  <2>5. CASE pc' = "sendPing" /\ io' = Transfer(OutgoingSize) /\ sinceEntry' = sinceEntry
    <3>1. io'.time = now /\ io'.done = 0 /\ 0 * SendWait = 0
      BY <1>2, <2>5 DEF Transfer
    <3>2. sinceEntry' <= Base + 2 * MaxPause + 0 * SendWait
      BY <1>1, <1>2, <2>2, <2>5, <3>1
    <3>3. QED
      BY <1>15, <1>34, <2>1, <2>2, <2>5, <3>1, <3>2
  <2>6. QED
    BY <1>8, <2>3, <2>4, <2>5
(* The clock has not gone round since the loop was entered, so what        *)
(* MQTT_ProcessLoop compares with its timeout is the real time.            *)
<1>35. CASE Kept /\ CheckTime
  <2>1. pc = "check" /\ connected' = connected /\ InLoop
    BY <1>4, <1>35 DEF CheckTime
  <2>2. PICK reading \in Readings :
            sinceEntry <= Base + MaxPause + reading + OutgoingSize * SendWait + quiet
    BY <1>10, <2>1 DEF IterationTakes
  <2>3. sinceEntry < ClockSize
    <3>1. Base + 2 * MaxPause + reading + OutgoingSize * SendWait < ClockSize /\ reading \in Nat
      BY FitsBounds, WaitsTyped
    <3>2. QED
      BY <1>1, <1>2, <2>2, <3>1
  <2>4. PICK e \in Nat : e = Elapsed(now, entryTimeMs) /\ sinceEntry = e
    <3>1. sinceEntry = Elapsed(now, entryTimeMs)
      BY <2>1, <2>3 DEF LoopTime, InLoop
    <3>2. QED
      BY <1>1, <3>1
  <2>5. CASE e >= LoopTimeout
    <3>1. Return
      BY <1>35, <2>4, <2>5 DEF CheckTime, ReturnStatus
    <3>2. QED
      BY <1>8, <3>1
  <2>6. CASE ~ (e >= LoopTimeout)
    <3>1. pc' = "header" /\ sinceEntry' = sinceEntry
      BY <1>35, <2>4, <2>6 DEF CheckTime
    <3>2. sinceEntry' <= Base
      BY <2>4, <2>6, <3>1, KeepAliveAssumption DEF Base
    <3>3. QED
      BY <1>11, <1>35, <2>1, <3>1, <3>2 DEF InLoop
  <2>7. QED
    BY <2>5, <2>6
<1>36. CASE Broker \/ UNCHANGED vars
  BY <1>22, <1>36 DEF Broker, vars
<1>37. QED
  BY <1>21, <1>23, <1>24, <1>25, <1>26, <1>27, <1>30, <1>32, <1>33, <1>34, <1>35, <1>36
  DEF Next, Timed, InCall

(* In every place of an iteration its bound is one of the loop's.          *)
LEMMA IterationBound ==
    ASSUME TypeOK, PingsOK, LoopTime, FromBroker, Transferred, Waiting, IterationOK
    PROVE  IterationMayTake(sinceEntry - Base)
<1>1. /\ io.left \in Nat /\ io.done \in Nat /\ io.time \in Times /\ now \in Times /\ pc \in Steps
      /\ pc \in Sending \cup Receiving <=> io.left > 0
      /\ packet.length \in Nat /\ quiet \in 0..MaxPause /\ sinceEntry \in 0..ClockSize
  BY TypeParts DEF CallOK, ClockOK, Waiting, LoopTime
<1>2. /\ ClockSize \in Nat /\ MaxPause \in Nat /\ Base \in Nat
      /\ ReceiveWait \in Nat /\ SendWait \in Nat /\ OutgoingSize * SendWait = SendWait + SendWait
      /\ ReceiveWait = RecvPollingTimeout - 1 + MaxPause
      /\ SendWait = SendRetryTimeout - 1 + MaxPause
      /\ RecvPollingTimeout \in Nat \ {0} /\ SendRetryTimeout \in Nat \ {0}
  BY WaitsTyped, KeepAliveAssumption, OverrunAssumption DEF ReceiveWait, SendWait
<1>3. Waited \in Nat
  <2>1. Waited \in Times
    BY <1>1, ElapsedType DEF Waited
  <2>2. QED
    BY <2>1 DEF Times
<1>4. MaxPause \in Readings /\ \A p \in Publishes : p.length * ReceiveWait \in Readings
  BY DEF Readings
<1>5. ASSUME NEW reading \in Readings, sinceEntry <= Base + 2 * MaxPause + reading + OutgoingSize * SendWait
      PROVE  IterationMayTake(sinceEntry - Base)
  <2>1. reading \in Nat
    BY WaitsTyped
  <2>2. sinceEntry - Base <= 2 * MaxPause + reading + OutgoingSize * SendWait
    BY <1>1, <1>2, <1>5, <2>1
  <2>3. QED
    BY <2>2 DEF IterationMayTake
<1>6. CASE ~ InLoop
  <2>1. sinceEntry <= Base + 2 * MaxPause + MaxPause + OutgoingSize * SendWait
    BY <1>2, <1>6 DEF IterationOK
  <2>2. QED
    BY <1>4, <1>5, <2>1
<1>7. CASE InLoop
  <2>1. IterationTakes
    BY <1>7 DEF IterationOK
  <2>2. CASE pc \in {"header", "keepAlive"}
    <3>1. sinceEntry <= Base + 2 * MaxPause + MaxPause + OutgoingSize * SendWait
      BY <1>1, <1>2, <2>1, <2>2 DEF IterationTakes
    <3>2. QED
      BY <1>4, <1>5, <3>1
  <2>3. CASE pc = "check"
    <3>1. PICK reading \in Readings :
              sinceEntry <= Base + MaxPause + reading + OutgoingSize * SendWait + quiet
      BY <2>1, <2>3 DEF IterationTakes
    <3>2. reading \in Nat
      BY WaitsTyped
    <3>3. sinceEntry <= Base + 2 * MaxPause + reading + OutgoingSize * SendWait
      BY <1>1, <1>2, <3>1, <3>2
    <3>4. QED
      BY <1>5, <3>3
  <2>4. ASSUME pc \in Sending
        PROVE  io.done * SendWait + Waited <= OutgoingSize * SendWait /\ io.done * SendWait \in Nat
    <3>1. io.done < OutgoingSize /\ OutgoingSize \in Nat
      BY <1>1, <2>4 DEF Transferred, OutgoingSize
    <3>2. PICK a \in Nat, b \in Nat : a = io.done * SendWait /\ b = OutgoingSize * SendWait
      BY <1>1, <1>2
    <3>3. a + SendWait <= b
      BY <1>1, <1>2, <3>1, <3>2, MoreBytes
    <3>4. Waited <= SendWait
      BY <1>1, <1>2, <1>3, <2>4 DEF Waiting
    <3>5. QED
      BY <1>2, <1>3, <3>2, <3>3, <3>4
  <2>5. CASE pc = "sendPing"
    <3>1. sinceEntry <= Base + 2 * MaxPause + io.done * SendWait + Waited
      BY <2>1, <2>5 DEF IterationTakes
    <3>2. PICK a \in Nat : a = io.done * SendWait /\ a + Waited <= OutgoingSize * SendWait
      BY <2>4, <2>5 DEF Sending
    <3>3. sinceEntry <= Base + 2 * MaxPause + MaxPause + OutgoingSize * SendWait
      BY <1>1, <1>2, <1>3, <3>1, <3>2
    <3>4. QED
      BY <1>4, <1>5, <3>3
  <2>6. CASE pc = "sendAck"
    <3>1. PICK p \in Publishes :
              sinceEntry <= Base + MaxPause + p.length * ReceiveWait + io.done * SendWait + Waited
      BY <2>1, <2>6 DEF IterationTakes
    <3>2. PICK a \in Nat : a = io.done * SendWait /\ a + Waited <= OutgoingSize * SendWait
      BY <2>4, <2>6 DEF Sending
    <3>3. PICK c \in Nat : c = p.length * ReceiveWait /\ c \in Readings
      BY <1>4, WaitsTyped
    <3>4. sinceEntry <= Base + 2 * MaxPause + c + OutgoingSize * SendWait
      BY <1>1, <1>2, <1>3, <3>1, <3>2, <3>3
    <3>5. QED
      BY <1>5, <3>3, <3>4
  <2>7. CASE pc \in Receiving
    <3>1. sinceEntry <= Base + MaxPause + io.done * ReceiveWait + Waited
      BY <2>1, <2>7 DEF IterationTakes
    <3>2. packet \in Publishes
      <4>1. packet.type \in PacketTypes /\ packet.type \notin ConnackTypes /\ packet.type # "PINGRESP"
        BY <1>7, <2>7, TypeParts DEF CallOK, PingsOK, InLoop
      <4>2. QED
        BY <4>1 DEF FromBroker, PublishTypes, PacketTypes, ConnackTypes
    <3>3. PICK a \in Nat, c \in Nat :
              a = io.done * ReceiveWait /\ c = packet.length * ReceiveWait /\ c \in Readings
      BY <1>1, <1>2, <1>4, <3>2
    <3>4. io.done < packet.length
      BY <1>1, <2>7 DEF Transferred
    <3>5. a + ReceiveWait <= c
      BY <1>1, <1>2, <3>3, <3>4, MoreBytes
    <3>6. Waited <= ReceiveWait
      BY <1>1, <1>2, <1>3, <2>7 DEF Waiting
    <3>7. sinceEntry <= Base + 2 * MaxPause + c + OutgoingSize * SendWait
      BY <1>1, <1>2, <1>3, <3>1, <3>3, <3>5, <3>6
    <3>8. QED
      BY <1>5, <3>3, <3>7
  <2>8. QED
    BY <1>1, <1>7, <2>2, <2>3, <2>5, <2>6, <2>7 DEF InLoop, Outside, Steps, Sending
<1>8. QED
  BY <1>6, <1>7

(* A process loop overruns its timeout by one iteration at the most, at    *)
(* any speed of the other end, for any clock, buffer and publishes.        *)
THEOREM OverrunIsBounded == Spec => []OverrunBounded
<1> DEFINE Inv == PingsOK /\ LoopTime /\ FromBroker /\ Transferred /\ Waiting /\ (Fits => IterationOK)
<1>1. Init => Inv
  <2> SUFFICES ASSUME Init PROVE Inv
    OBVIOUS
  <2>1. PingsOK /\ LoopTime
    <3>1. 0 \in 0..ClockSize
      BY KeepAliveAssumption
    <3>2. QED
      BY <3>1, CountEmpty DEF Init, PingsOK, NoPacket, LoopTime
  <2>2. FromBroker
    BY DEF Init, FromBroker, NoPacket, PublishTypes
  <2>3. Transferred /\ Waiting
    BY KeepAliveAssumption DEF Init, Transferred, Waiting, Sending, Receiving
  <2>4. IterationOK
    BY DEF Init, IterationOK, InLoop
  <2>5. QED
    BY <2>1, <2>2, <2>3, <2>4
<1>2. ClockInv /\ Inv /\ [Next]_vars => Inv'
  <2> SUFFICES ASSUME ClockInv, Inv, [Next]_vars PROVE Inv'
    OBVIOUS
  <2>1. TypeOK /\ TornOK
    BY DEF ClockInv
  <2>2. PingsOK' /\ LoopTime' /\ FromBroker' /\ Transferred' /\ Waiting'
    BY <2>1, PingsStep, LoopTimeStep, FromBrokerStep, TransferredStep, WaitingStep
  <2>3. ASSUME Fits PROVE IterationOK'
    BY <2>1, <2>3, IterationStep
  <2>4. Fits' <=> Fits
    BY DEF Fits, IterationMayTake, Readings, Base, ReceiveWait, SendWait
  <2>5. QED
    BY <2>2, <2>3, <2>4
<1>3. ClockInv /\ Inv => OverrunBounded
  <2> SUFFICES ASSUME ClockInv, Inv PROVE OverrunBounded
    OBVIOUS
  <2>1. OverrunBounded <=> IterationMayTake(sinceEntry - Base)
    BY DEF OverrunBounded, Base
  <2>2. sinceEntry \in 0..ClockSize
    BY DEF LoopTime
  <2>3. CASE ~ Fits
    <3>1. PICK reading \in Readings :
              ClockSize - Base <= 2 * MaxPause + reading + OutgoingSize * SendWait
      BY <2>3 DEF Fits, IterationMayTake
    <3>2. sinceEntry - Base <= 2 * MaxPause + reading + OutgoingSize * SendWait
      BY <2>2, <3>1, WaitsTyped
    <3>3. QED
      BY <2>1, <3>2 DEF IterationMayTake
  <2>4. CASE Fits
    BY <2>1, <2>4, IterationBound DEF ClockInv
  <2>5. QED
    BY <2>3, <2>4
<1> HIDE DEF Inv
<1>4. QED
  BY <1>1, <1>2, <1>3, ClockInvariance, PTL DEF Spec
=============================================================================
