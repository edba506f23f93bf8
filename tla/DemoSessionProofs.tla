------------------------- MODULE DemoSessionProofs --------------------------
(***************************************************************************)
(* The MQTT task, its library and its broker together.                     *)
(*                                                                         *)
(* The task drives the library only as MqttClient lets any application     *)
(* drive it, and the broker answers only with packet ids MqttClient allows *)
(* for.  What MqttClientStepProofs shows of an application that publishes  *)
(* with QoS 1 is then true of the library inside the task, and the task's  *)
(* own invariants follow: of its requests, of the records behind its       *)
(* stored payloads, of the publishes on a connection, that it delivers     *)
(* each accepted payload at least once, as AtLeastOnce has it, and that it *)
(* acknowledges no message it has not reported.                            *)
(***************************************************************************)
EXTENDS DemoSession, SequenceTheorems, FiniteSetTheorems, TLAPS

Ids == PacketIds \cup {0}     \* 0 before the first subscription

(* What is on its way to the broker, and to the device.                    *)
Outbound ==
    [type: {"CONNECT"}, clean: BOOLEAN]
    \cup [type: {"SUBSCRIBE", "UNSUBSCRIBE"}, packetId: Ids]
    \cup [type: {"PUBACK"}, packetId: PacketIds]
    \cup [type: {"PUBLISH"}, packetId: PacketIds, message: Nat]

FromBroker ==
    [type: {"CONNACK"}, present: BOOLEAN]
    \cup [type: {"SUBACK"}, packetId: Ids, granted: BOOLEAN]
    \cup [type: {"UNSUBACK"}, packetId: Ids]
    \cup [type: {"PUBACK"}, packetId: PacketIds]
    \cup [type: {"PUBLISH"}, packetId: PacketIds, message: Inbound, dup: BOOLEAN]

Sessions ==
    [online: BOOLEAN, durable: BOOLEAN, subscribed: BOOLEAN,
     unacked: SUBSET [packetId: InboundIds, message: Inbound, sent: BOOLEAN]]

WireOK ==
    /\ toBroker \in Seq(Outbound) /\ toDevice \in Seq(FromBroker)
    /\ session \in Sessions

IdsOK ==
    /\ nextId \in PacketIds /\ subscribeId \in Ids
    /\ table \subseteq [packetId: PacketIds, payload: Nat] /\ payloads \in Nat

LEMMA NextIdType == ASSUME nextId \in PacketIds PROVE FollowingId \in PacketIds
BY BoundsAssumption DEF FollowingId, PacketIds

LEMMA TransmitType ==
    ASSUME NEW S, NEW seq \in Seq(S), NEW p \in S
    PROVE  seq \o <<p>> \in Seq(S) /\ seq \o <<>> \in Seq(S)
<1>1. <<p>> \in Seq(S) /\ <<>> \in Seq(S)
  OBVIOUS
<1>2. QED
  BY <1>1, ConcatProperties

LEMMA RemoveAtType ==
    ASSUME NEW S, NEW seq \in Seq(S), NEW i \in 1 .. Len(seq)
    PROVE  RemoveAt(seq, i) \in Seq(S)
<1>1. /\ Len(seq) \in Nat /\ i \in Int /\ i + 1 \in Int /\ i - 1 \in Int
      /\ \A j \in 1 .. Len(seq) : seq[j] \in S
  BY LenProperties, ElementOfSeq
<1>2. (\A j \in 1 .. (i - 1) : seq[j] \in S) /\ (\A j \in (i + 1) .. Len(seq) : seq[j] \in S)
  BY <1>1
<1>3. SubSeq(seq, 1, i - 1) \in Seq(S)
  BY <1>1, <1>2, SubSeqProperties
<1>4. SubSeq(seq, i + 1, Len(seq)) \in Seq(S)
  BY <1>1, <1>2, SubSeqProperties
<1>5. QED
  BY <1>3, <1>4, ConcatProperties DEF RemoveAt


-----------------------------------------------------------------------------
(* The broker answers with the packet ids it was sent, and delivers under  *)
(* its own.                                                                *)
LEMMA AnswerType ==
    ASSUME toDevice \in Seq(FromBroker), NEW p \in FromBroker, Answer(<<p>>)
    PROVE  toDevice' \in Seq(FromBroker)
BY TransmitType DEF Answer

LEMMA BrokerReceiveType == WireOK /\ BrokerReceive => WireOK'
<1> SUFFICES ASSUME WireOK, BrokerReceive PROVE WireOK'
  OBVIOUS
<1>1. /\ toBroker \in Seq(Outbound) /\ toDevice \in Seq(FromBroker)
      /\ session \in Sessions
  BY DEF WireOK
<1>2. PICK i \in 1 .. Len(toBroker) :
          /\ \/ toBroker[i].type = "CONNECT" /\ BrokerConnect(toBroker[i])
             \/ toBroker[i].type = "PUBLISH" /\ BrokerPublish(toBroker[i])
             \/ toBroker[i].type = "SUBSCRIBE" /\ BrokerSubscribe(toBroker[i])
             \/ toBroker[i].type = "UNSUBSCRIBE" /\ BrokerUnsubscribe(toBroker[i])
             \/ toBroker[i].type = "PUBACK" /\ BrokerPuback(toBroker[i])
          /\ toBroker' = RemoveAt(toBroker, i)
  BY DEF BrokerReceive
<1>3. toBroker' \in Seq(Outbound)
  BY <1>1, <1>2, RemoveAtType
<1> DEFINE p == toBroker[i]
<1>4. p \in Outbound
  BY <1>1, ElementOfSeq
<1>5. PICK packet : packet = p
  OBVIOUS
<1> HIDE DEF p
<1>6. CASE packet.type = "CONNECT" /\ BrokerConnect(packet)
  <2>1. packet.clean \in BOOLEAN
    BY <1>4, <1>5, <1>6 DEF Outbound
  <2>2. PICK present \in BOOLEAN :
            /\ session' = [online |-> TRUE, durable |-> ~ packet.clean,
                           subscribed |-> present /\ session.subscribed,
                           unacked |-> IF present
                                       THEN {[e EXCEPT !.sent = FALSE] : e \in session.unacked}
                                       ELSE {}]
            /\ Answer(<<[type |-> "CONNACK", present |-> present]>>)
    BY <1>6 DEF BrokerConnect
  <2>3. [type |-> "CONNACK", present |-> present] \in FromBroker
    BY DEF FromBroker
  <2>4. toDevice' \in Seq(FromBroker)
    BY <1>1, <2>2, <2>3, AnswerType
  <2> DEFINE Kept == [packetId: InboundIds, message: Inbound, sent: BOOLEAN]
             again == {[e EXCEPT !.sent = FALSE] : e \in session.unacked}
  <2>5. again \in SUBSET Kept
    <3>1. \A e \in Kept : [e EXCEPT !.sent = FALSE] \in Kept
      OBVIOUS
    <3>2. session.unacked \in SUBSET Kept
      BY <1>1 DEF Sessions
    <3>3. QED
      BY <3>1, <3>2
  <2> HIDE DEF again
  <2>6. (IF present THEN again ELSE {}) \in SUBSET Kept
    BY <2>5
  <2>7. session' = [online |-> TRUE, durable |-> ~ packet.clean,
                    subscribed |-> present /\ session.subscribed,
                    unacked |-> IF present THEN again ELSE {}]
    BY <2>2 DEF again
  <2>8. session' \in Sessions
    BY <1>1, <2>1, <2>2, <2>6, <2>7 DEF Sessions
  <2>9. QED
    BY <1>3, <2>4, <2>8 DEF WireOK
<1>7. CASE packet.type = "PUBLISH" /\ BrokerPublish(packet)
  <2>1. packet.packetId \in PacketIds
    BY <1>4, <1>5, <1>7 DEF Outbound
  <2>2. [type |-> "PUBACK", packetId |-> packet.packetId] \in FromBroker
    BY <2>1 DEF FromBroker
  <2>3. toDevice' \in Seq(FromBroker) /\ session' = session
    BY <1>1, <1>7, <2>2, AnswerType DEF BrokerPublish
  <2>4. QED
    BY <1>1, <1>3, <2>3 DEF WireOK
<1>8. CASE packet.type = "SUBSCRIBE" /\ BrokerSubscribe(packet)
  <2>1. packet.packetId \in Ids
    BY <1>4, <1>5, <1>8 DEF Outbound
  <2>2. PICK accept \in BOOLEAN :
            /\ session' = [session EXCEPT !.subscribed = @ \/ accept]
            /\ Answer(<<[type |-> "SUBACK", packetId |-> packet.packetId, granted |-> accept]>>)
    BY <1>8 DEF BrokerSubscribe
  <2>3. [type |-> "SUBACK", packetId |-> packet.packetId, granted |-> accept] \in FromBroker
    BY <2>1 DEF FromBroker
  <2>4. toDevice' \in Seq(FromBroker)
    BY <1>1, <2>2, <2>3, AnswerType
  <2>5. session' \in Sessions
    BY <1>1, <2>2 DEF Sessions
  <2>6. QED
    BY <1>3, <2>4, <2>5 DEF WireOK
<1>9. CASE packet.type = "UNSUBSCRIBE" /\ BrokerUnsubscribe(packet)
  <2>1. packet.packetId \in Ids
    BY <1>4, <1>5, <1>9 DEF Outbound
  <2>2. [type |-> "UNSUBACK", packetId |-> packet.packetId] \in FromBroker
    BY <2>1 DEF FromBroker
  <2>3. toDevice' \in Seq(FromBroker)
    BY <1>1, <1>9, <2>2, AnswerType DEF BrokerUnsubscribe
  <2>4. session' \in Sessions
    BY <1>1, <1>9 DEF BrokerUnsubscribe, Sessions
  <2>5. QED
    BY <1>3, <2>3, <2>4 DEF WireOK
<1>10. CASE packet.type = "PUBACK" /\ BrokerPuback(packet)
  <2>1. session' \in Sessions /\ toDevice' = toDevice
    BY <1>1, <1>10 DEF BrokerPuback, Sessions
  <2>2. QED
    BY <1>1, <1>3, <2>1 DEF WireOK
<1>11. QED
  BY <1>2, <1>5, <1>6, <1>7, <1>8, <1>9, <1>10 DEF p

LEMMA BrokerType == WireOK /\ BrokerNext => WireOK'
<1> SUFFICES ASSUME WireOK, BrokerNext PROVE WireOK'
  OBVIOUS
<1>1. /\ toBroker \in Seq(Outbound) /\ toDevice \in Seq(FromBroker)
      /\ session \in Sessions
  BY DEF WireOK
<1>2. CASE BrokerReceive
  BY <1>2, BrokerReceiveType
<1>3. ASSUME NEW message \in Inbound, NEW id \in InboundIds, BrokerDeliver(message, id)
      PROVE  WireOK'
  <2>1. [type |-> "PUBLISH", packetId |-> id, message |-> message, dup |-> FALSE] \in FromBroker
    BY InboundIdsAssumption DEF FromBroker, PacketIds
  <2>2. toDevice' \in Seq(FromBroker) /\ toBroker' = toBroker
    BY <1>1, <1>3, <2>1, AnswerType DEF BrokerDeliver
  <2>3. session' \in Sessions
    <3>1. [packetId |-> id, message |-> message, sent |-> TRUE]
              \in [packetId: InboundIds, message: Inbound, sent: BOOLEAN]
      OBVIOUS
    <3>2. session' = [session EXCEPT !.unacked = @ \cup
                         {[packetId |-> id, message |-> message, sent |-> TRUE]}]
      BY <1>3 DEF BrokerDeliver
    <3>3. QED
      BY <1>1, <3>1, <3>2 DEF Sessions
  <2>4. QED
    BY <1>1, <2>2, <2>3 DEF WireOK
<1>4. CASE BrokerRedeliver
  <2>1. PICK e \in session.unacked :
            /\ session' = [session EXCEPT !.unacked = (@ \ {e}) \cup {[e EXCEPT !.sent = TRUE]}]
            /\ Answer(<<[type |-> "PUBLISH", packetId |-> e.packetId,
                         message |-> e.message, dup |-> TRUE]>>)
    BY <1>4 DEF BrokerRedeliver
  <2>2. e \in [packetId: InboundIds, message: Inbound, sent: BOOLEAN]
    BY <1>1 DEF Sessions
  <2>3. [type |-> "PUBLISH", packetId |-> e.packetId, message |-> e.message, dup |-> TRUE]
            \in FromBroker
    BY <2>2, InboundIdsAssumption DEF FromBroker, PacketIds
  <2>4. toDevice' \in Seq(FromBroker) /\ toBroker' = toBroker
    BY <1>1, <1>4, <2>1, <2>3, AnswerType DEF BrokerRedeliver
  <2>5. session' \in Sessions
    BY <1>1, <2>1, <2>2 DEF Sessions
  <2>6. QED
    BY <1>1, <2>4, <2>5 DEF WireOK
<1>5. CASE BrokerExpire
  BY <1>1, <1>5 DEF BrokerExpire, NoSession, Sessions, WireOK
<1>6. QED
  BY <1>2, <1>3, <1>4, <1>5 DEF BrokerNext


-----------------------------------------------------------------------------
(* What the library sent goes on the wire as a packet of its own kind.     *)
LEMMA OnWireType ==
    ASSUME NEW sent, NEW payload \in Nat,
           \/ sent = <<>>
           \/ \E id \in PacketIds : \E qos, dup : sent = <<Client!PublishPacket(id, qos, dup)>>
           \/ \E id \in PacketIds : sent = <<Client!AckPacket("PUBACK", id)>>
    PROVE  OnWire(sent, payload) \in Seq(Outbound)
<1>1. \A n \in Nat : \A f \in [1 .. n -> Outbound] : f \in Seq(Outbound)
  OBVIOUS
<1>2. /\ Len(sent) \in Nat
      /\ \A i \in 1 .. Len(sent) :
            \/ \E id \in PacketIds : \E qos, dup : sent[i] = Client!PublishPacket(id, qos, dup)
            \/ \E id \in PacketIds : sent[i] = Client!AckPacket("PUBACK", id)
  OBVIOUS
<1>3. ASSUME NEW i \in 1 .. Len(sent)
      PROVE  (IF sent[i].type = "PUBLISH"
              THEN [type |-> "PUBLISH", packetId |-> sent[i].packetId, message |-> payload]
              ELSE sent[i]) \in Outbound
  <2>1. CASE \E id \in PacketIds : \E qos, dup : sent[i] = Client!PublishPacket(id, qos, dup)
    BY <2>1 DEF Client!PublishPacket, Outbound
  <2>2. CASE \E id \in PacketIds : sent[i] = Client!AckPacket("PUBACK", id)
    BY <2>2 DEF Client!AckPacket, Outbound
  <2>3. QED
    BY <1>2, <2>1, <2>2
<1>4. OnWire(sent, payload) \in [1 .. Len(sent) -> Outbound]
  BY <1>3 DEF OnWire
<1>5. QED
  BY <1>1, <1>2, <1>4

LEMMA PublishSends ==
    ASSUME NEW id, NEW dup, NEW ok, Client!PublishOutcome(id, 1, dup, ok).result = result'
    PROVE  result'.sent \in {<<>>, <<Client!PublishPacket(id, 1, dup)>>}
BY DEF Client!PublishOutcome, Client!Outcome

LEMMA ReceivedSends ==
    ASSUME NEW id, NEW dup, NEW ok, Client!ReceivePublish(id, 1, dup, ok)
    PROVE  result'.sent \in {<<>>, <<Client!AckPacket("PUBACK", id)>>}
BY DEF Client!ReceivePublish, Client!SendPublishAck, Client!Outcome, Client!CalculateStatePublish,
       Client!AckToSend


-----------------------------------------------------------------------------
(* Every step of the task keeps the ids in their range, and changes the    *)
(* records only by an action of the library.                               *)
LibraryStep == Client!Next \/ UNCHANGED clientVars

LEMMA TaskStep == WireOK /\ IdsOK /\ [Next]_vars => WireOK' /\ IdsOK' /\ LibraryStep
<1> SUFFICES ASSUME WireOK, IdsOK, [Next]_vars PROVE WireOK' /\ IdsOK' /\ LibraryStep
  OBVIOUS
<1>1. /\ toBroker \in Seq(Outbound) /\ toDevice \in Seq(FromBroker)
      /\ session \in Sessions
      /\ nextId \in PacketIds /\ subscribeId \in Ids
      /\ table \subseteq [packetId: PacketIds, payload: Nat] /\ payloads \in Nat
      /\ FollowingId \in PacketIds
  BY NextIdType DEF WireOK, IdsOK
<1>2. /\ <<>> \in Seq(FromBroker)
      /\ toDevice # <<>> => Tail(toDevice) \in Seq(FromBroker) /\ Head(toDevice) \in FromBroker
  BY <1>1, HeadTailProperties
<1> USE DEF LibraryStep
(* What takes no packet in or out and leaves ids and records alone.        *)
<1>3. ASSUME UNCHANGED <<toBroker, session, nextId, subscribeId, payloads>>,
             table' \in {table, {}}, toDevice' \in {toDevice, <<>>, Tail(toDevice)},
             toDevice' = Tail(toDevice) => toDevice # <<>> \/ toDevice' = toDevice
      PROVE  WireOK' /\ IdsOK'
  BY <1>1, <1>2, <1>3 DEF WireOK, IdsOK
<1>4. CASE Connect
  <2>1. [type |-> "CONNECT", clean |-> ~ sessionSaved] \in Outbound
    BY DEF Outbound
  <2>2. toBroker' \in Seq(Outbound)
    BY <1>4, <2>1 DEF Connect, Open
  <2>3. session' \in Sessions
    BY <1>1, <1>4 DEF Connect, Open, Sessions
  <2>4. QED
    BY <1>1, <1>2, <1>4, <2>2, <2>3 DEF Connect, Open, WireOK, IdsOK
<1>5. CASE ConnackMissed
  BY <1>3, <1>5 DEF ConnackMissed, Close
<1>6. CASE ConnackNewSession
  BY <1>3, <1>6 DEF ConnackNewSession, Connack, Client!Next
<1>7. CASE ConnackSessionPresent
  BY <1>3, <1>7 DEF ConnackSessionPresent, Connack, Client!Next
<1>8. CASE ResendUnknown
  BY <1>3, <1>8 DEF ResendUnknown, ResendStep, Client!Next
<1>9. CASE ResendDone
  BY <1>3, <1>9 DEF ResendDone, ResendStep, Client!Next
<1>10. ASSUME NEW ok \in BOOLEAN, ResendStored(ok) PROVE WireOK' /\ IdsOK' /\ LibraryStep
  <2> DEFINE id == Client!Selected.packetId
  <2>1. /\ ResendStep /\ Client!ResendPublish(ok) /\ Stored(id)
        /\ Transmit(OnWire(result'.sent, PayloadOf(id)))
    BY <1>10 DEF ResendStored
  <2>2. (CHOOSE e \in table : e.packetId = id) \in table
    BY <2>1 DEF Stored
  <2>3. id \in PacketIds /\ PayloadOf(id) \in Nat
    BY <1>1, <2>1, <2>2 DEF Stored, PayloadOf
  <2>4. PICK qos : result' = Client!PublishOutcome(id, qos, TRUE, ok).result
    BY <2>1 DEF Client!ResendPublish
  <2>5. result'.sent \in {<<>>, <<Client!PublishPacket(id, qos, TRUE)>>}
    BY <2>4 DEF Client!PublishOutcome, Client!Outcome
  <2>6. OnWire(result'.sent, PayloadOf(id)) \in Seq(Outbound)
    <3> HIDE DEF id
    <3>1. QED
      BY <2>3, <2>5, OnWireType
  <2>7. toBroker' \in Seq(Outbound)
    BY <1>1, <2>1, <2>6, ConcatProperties DEF Transmit
  <2>8. LibraryStep
    BY <2>1 DEF Client!Next
  <2> HIDE DEF id
  <2>9. QED
    BY <1>1, <2>1, <2>7, <2>8 DEF ResendStep, WireOK, IdsOK
(* A request goes out whole or fails.                                      *)
<1>11. ASSUME NEW type \in {"SUBSCRIBE", "UNSUBSCRIBE"}, NEW id \in Ids, NEW ok, NEW next,
              Request(type, id, ok, next)
       PROVE  toBroker' \in Seq(Outbound)
  <2>1. [type |-> type, packetId |-> id] \in Outbound
    BY DEF Outbound
  <2>2. QED
    BY <1>1, <1>11, <2>1, TransmitType DEF Request, Transmit
<1>12. ASSUME NEW ok \in BOOLEAN, SubscribeToTopic(ok) \/ Resubscribe(ok) \/ UnsubscribeFromTopic(ok)
       PROVE  WireOK' /\ IdsOK' /\ LibraryStep
  <2>1. toBroker' \in Seq(Outbound)
    BY <1>1, <1>11, <1>12 DEF SubscribeToTopic, Resubscribe, UnsubscribeFromTopic, Ids
  <2>2. nextId' \in PacketIds /\ subscribeId' \in Ids
    BY <1>1, <1>12 DEF SubscribeToTopic, Resubscribe, UnsubscribeFromTopic, Ids
  <2>3. UNCHANGED <<toDevice, session, clientVars, table, payloads>>
    BY <1>12 DEF SubscribeToTopic, Resubscribe, UnsubscribeFromTopic, RequestStep
  <2>4. QED
    BY <1>1, <2>1, <2>2, <2>3 DEF WireOK, IdsOK
<1>13. ASSUME NEW ok \in BOOLEAN, PublishToTopic(ok) PROVE WireOK' /\ IdsOK' /\ LibraryStep
  <2>1. /\ PublishStep /\ nextId' = FollowingId /\ payloads' = payloads + 1
        /\ Client!Publish(nextId, 1, FALSE, ok)
        /\ Transmit(OnWire(result'.sent, payloads'))
        /\ table' \in {table, table \cup {[packetId |-> nextId, payload |-> payloads']}}
    BY <1>13 DEF PublishToTopic
  <2>2. payloads' \in Nat /\ table' \subseteq [packetId: PacketIds, payload: Nat]
    BY <1>1, <2>1
  <2>3. result'.sent \in {<<>>, <<Client!PublishPacket(nextId, 1, FALSE)>>}
    BY <2>1, PublishSends DEF Client!Publish
  <2>4. OnWire(result'.sent, payloads') \in Seq(Outbound)
    BY <1>1, <2>2, <2>3, OnWireType
  <2>5. toBroker' \in Seq(Outbound)
    BY <1>1, <2>1, <2>4, ConcatProperties DEF Transmit
  <2>6. Client!Next
    BY <1>1, <2>1 DEF Client!Next
  <2>7. UNCHANGED <<toDevice, session, subscribeId>>
    BY <2>1 DEF PublishStep, RequestStep
  <2>8. QED
    BY <1>1, <2>1, <2>2, <2>5, <2>6, <2>7 DEF WireOK, IdsOK
<1>14. CASE PublishTableFull \/ PublishNothing
  BY <1>3, <1>14 DEF PublishTableFull, PublishNothing, PublishStep, RequestStep
(* In the process loops: what the broker sent has an id of its own.        *)
<1>15. ASSUME NEW ok \in BOOLEAN, ReceivePublish(ok) PROVE WireOK' /\ IdsOK' /\ LibraryStep
  <2> DEFINE p == Head(toDevice)
  <2>1. /\ Receive("PUBLISH") /\ Client!ReceivePublish(p.packetId, 1, p.dup, ok)
        /\ Transmit(OnWire(result'.sent, 0)) /\ table' = table
    BY <1>15 DEF ReceivePublish
  <2>2. p \in FromBroker /\ p.type = "PUBLISH" /\ toDevice' \in Seq(FromBroker)
    BY <1>2, <2>1 DEF Receive
  <2>3. p.packetId \in PacketIds /\ p.dup \in BOOLEAN
    BY <2>2 DEF FromBroker
  <2> HIDE DEF p
  <2>4. result'.sent \in {<<>>, <<Client!AckPacket("PUBACK", p.packetId)>>}
    BY <2>1, ReceivedSends
  <2>5. OnWire(result'.sent, 0) \in Seq(Outbound)
    BY <2>3, <2>4, OnWireType
  <2>6. toBroker' \in Seq(Outbound)
    BY <1>1, <2>1, <2>5, ConcatProperties DEF Transmit
  <2>7. Client!Next
    BY <2>1, <2>3 DEF Client!Next
  <2>8. QED
    BY <1>1, <2>1, <2>2, <2>6, <2>7 DEF Receive, WireOK, IdsOK
<1>16. CASE ReceivePuback
  <2> DEFINE id == Head(toDevice).packetId
  <2>1. /\ Receive("PUBACK") /\ Client!ReceiveOutgoingAck("PUBACK", id, TRUE)
        /\ table' = (IF result'.event # <<>> THEN Cleanup(id) ELSE table) /\ toBroker' = toBroker
    BY <1>16 DEF ReceivePuback
  <2>2. id \in PacketIds /\ toDevice' \in Seq(FromBroker)
    BY <1>2, <2>1 DEF Receive, FromBroker
  <2>3. table' \subseteq table
    BY <2>1 DEF Cleanup
  <2> HIDE DEF id
  <2>4. Client!Next
    BY <2>1, <2>2 DEF Client!Next, Client!AckTypes
  <2>5. QED
    BY <1>1, <2>1, <2>2, <2>3, <2>4 DEF Receive, WireOK, IdsOK
<1>17. CASE ReceiveSuback \/ ReceiveUnsuback
  BY <1>3, <1>17 DEF ReceiveSuback, ReceiveUnsuback, Receive
<1>18. CASE LoopFails \/ SubscribeLoopEnds \/ ResubscribeLoopEnds \/ PublishLoopEnds \/ UnsubscribeLoopEnds
  <2>1. LoopStep
    BY <1>18 DEF LoopFails, SubscribeLoopEnds, ResubscribeLoopEnds, PublishLoopEnds,
           UnsubscribeLoopEnds, LoopEnds
  <2>2. QED
    BY <1>3, <2>1 DEF LoopStep
<1>19. CASE Disconnect \/ ConnectionLost
  <2>1. Client!LinkDown \/ UNCHANGED clientVars
    BY <1>19 DEF Disconnect, ConnectionLost
  <2>2. /\ UNCHANGED <<toBroker, session, nextId, subscribeId, payloads, table>> /\ toDevice' = <<>>
    BY <1>19 DEF Disconnect, ConnectionLost, Close, taskVars
  <2>3. QED
    BY <1>1, <1>2, <2>1, <2>2 DEF WireOK, IdsOK, Client!Next
<1>20. CASE Restart
  <2>1. 1 \in PacketIds
    BY BoundsAssumption DEF PacketIds
  <2>2. QED
    BY <1>1, <1>2, <1>20, <2>1 DEF Restart, Close, WireOK, IdsOK, Ids, Client!Next
<1>21. CASE BrokerNext /\ UNCHANGED <<clientVars, taskVars>>
  BY <1>21, BrokerType DEF IdsOK, taskVars
<1>22. CASE UNCHANGED vars
  BY <1>3, <1>22 DEF vars, brokerVars, taskVars
<1>23. QED
  BY <1>4, <1>5, <1>6, <1>7, <1>8, <1>9, <1>10, <1>12, <1>13, <1>14, <1>15, <1>16, <1>17, <1>18,
     <1>19, <1>20, <1>21, <1>22 DEF Next, Task

(* The MQTT task is one of the applications MqttClient is about: whatever  *)
(* MqttClient promises for every application holds of the device.          *)
THEOREM TaskUsesLibrary == Spec => UsesLibraryAsModelled
<1>1. Init => WireOK /\ IdsOK /\ Client!Init
  <2>1. 1 \in PacketIds
    BY BoundsAssumption DEF PacketIds
  <2>2. QED
    BY <2>1 DEF Init, BrokerInit, NoSession, WireOK, IdsOK, Sessions, Ids
<1>2. WireOK /\ IdsOK /\ [Next]_vars => WireOK' /\ IdsOK' /\ [Client!Next]_(Client!vars)
  BY TaskStep DEF LibraryStep, clientVars, Client!vars
<1>3. QED
  BY <1>1, <1>2, PTL DEF Spec, UsesLibraryAsModelled, Client!Spec


-----------------------------------------------------------------------------
(* MqttClientStepProofs, at the constants of the task: its Library is the  *)
(* Client of DemoSession, operator by operator and action by action, so    *)
(* that what is proved of any application is proved of this one.           *)
Library == INSTANCE MqttClientStepProofs WITH
              NoPacketId <- 0, PublishQoS <- {1}, ReceiveQoS <- {1}

LEMMA LibraryConstants ==
    RecordCount \in Nat \ {0} /\ 0 \notin PacketIds /\ {1} \subseteq {1, 2}
BY BoundsAssumption DEF PacketIds

LEMMA SameTables ==
    /\ Client!Slots = Library!Slots
    /\ Client!EmptyRecords = Library!EmptyRecords
    /\ \A recs, id : Client!Holds(recs, id) <=> Library!Holds(recs, id)
    /\ \A recs, id : Client!FindInRecord(recs, id) = Library!FindInRecord(recs, id)
    /\ \A recs, i, state :
          Client!SetRecordState(recs, i, state) = Library!SetRecordState(recs, i, state)
    /\ \A recs, i : Client!DeleteRecord(recs, i) = Library!DeleteRecord(recs, i)
    /\ \A op, qos : Client!CalculateStatePublish(op, qos) = Library!CalculateStatePublish(op, qos)
    /\ \A ack, op, qos :
          Client!CalculateStateAck(ack, op, qos) = Library!CalculateStateAck(ack, op, qos)
    /\ \A current, new, op, qos :
          Client!ValidTransitionPublish(current, new, op, qos)
              <=> Library!ValidTransitionPublish(current, new, op, qos)
    /\ \A current, new :
          Client!ValidTransitionAck(current, new) <=> Library!ValidTransitionAck(current, new)
    /\ \A ack, op : Client!IsPublishOutgoing(ack, op) <=> Library!IsPublishOutgoing(ack, op)
BY DEF Client!Slots, Library!Slots, Client!EmptyRecords, Library!EmptyRecords,
       Client!EmptyRecord, Library!EmptyRecord, Client!Holds, Library!Holds,
       Client!FindInRecord, Library!FindInRecord, Client!SetRecordState,
       Library!SetRecordState, Client!DeleteRecord, Library!DeleteRecord,
       Client!CalculateStatePublish, Library!CalculateStatePublish,
       Client!CalculateStateAck, Library!CalculateStateAck, Client!ValidTransitionPublish,
       Library!ValidTransitionPublish, Client!ValidTransitionAck,
       Library!ValidTransitionAck, Client!AckTransitions, Library!AckTransitions,
       Client!IsPublishOutgoing, Library!IsPublishOutgoing

LEMMA SamePackets ==
    /\ \A id, qos, dup : Client!PublishPacket(id, qos, dup) = Library!PublishPacket(id, qos, dup)
    /\ \A ack, id : Client!AckPacket(ack, id) = Library!AckPacket(ack, id)
    /\ \A status, sent, event :
          Client!Outcome(status, sent, event) = Library!Outcome(status, sent, event)
    /\ Client!Idle = Library!Idle /\ \A kind : Client!Loop(kind) = Library!Loop(kind)
    /\ Client!AckTypes = Library!AckTypes
BY DEF Client!PublishPacket, Library!PublishPacket, Client!AckPacket, Library!AckPacket,
       Client!Outcome, Library!Outcome, Client!Idle, Library!Idle, Client!Loop,
       Library!Loop, Client!AckTypes, Library!AckTypes

LEMMA SameSelection ==
    /\ Client!Selected = Library!Selected
    /\ \A states : Client!Pending(states) = Library!Pending(states)
BY DEF Client!Slots, Library!Slots, Client!Selected, Library!Selected, Client!StateSelect,
       Library!StateSelect, Client!SelectStep, Library!SelectStep, Client!Selectable,
       Library!Selectable, Client!LoopStates, Library!LoopStates,
       Client!PublishResendStates, Library!PublishResendStates, Client!PubrelResendStates,
       Library!PubrelResendStates, Client!Pending, Library!Pending, Client!Live,
       Library!Live

LEMMA SameAdd ==
    \A recs, id, qos, state :
        Client!AddRecord(recs, id, qos, state) = Library!AddRecord(recs, id, qos, state)
BY DEF Client!Slots, Library!Slots, Client!Live, Library!Live, Client!Holds,
       Library!Holds, Client!AddRecord, Library!AddRecord, Client!CompactRecords,
       Library!CompactRecords, Client!Rank, Library!Rank, Client!FirstFree,
       Library!FirstFree, Client!AppendRecord, Library!AppendRecord, Client!Cardinality,
       Library!Cardinality, Client!IsFiniteSet, Library!IsFiniteSet

LEMMA SameUpdates ==
    /\ \A recs, id, qos : Client!SentRecord(recs, id, qos) = Library!SentRecord(recs, id, qos)
    /\ \A recs, id, ack, op :
          Client!AckRecord(recs, id, ack, op) = Library!AckRecord(recs, id, ack, op)
<1>1. ASSUME NEW recs, NEW id, NEW qos
      PROVE  Client!SentRecord(recs, id, qos) = Library!SentRecord(recs, id, qos)
  BY SameTables DEF Client!SentRecord, Library!SentRecord
<1>2. ASSUME NEW recs, NEW i, NEW new
      PROVE  Client!UpdateStateAck(recs, i, new) = Library!UpdateStateAck(recs, i, new)
  BY SameTables, SameAdd DEF Client!UpdateStateAck, Library!UpdateStateAck
<1>3. ASSUME NEW recs, NEW id, NEW ack, NEW op
      PROVE  Client!AckRecord(recs, id, ack, op) = Library!AckRecord(recs, id, ack, op)
  BY SameTables, <1>2 DEF Client!AckRecord, Library!AckRecord
<1>4. QED
  BY <1>1, <1>3

LEMMA SameOutcomes ==
    /\ \A id, qos, dup, ok :
          Client!PublishOutcome(id, qos, dup, ok) = Library!PublishOutcome(id, qos, dup, ok)
    /\ \A recs, id, state, ok :
          Client!SendPublishAck(recs, id, state, ok) = Library!SendPublishAck(recs, id, state, ok)
    /\ \A recs, ack, id, ok :
          Client!AckOutcome(recs, ack, id, ok) = Library!AckOutcome(recs, ack, id, ok)
<1>1. ASSUME NEW id, NEW qos, NEW dup, NEW ok
      PROVE  Client!PublishOutcome(id, qos, dup, ok) = Library!PublishOutcome(id, qos, dup, ok)
  BY SameAdd, SameUpdates, SamePackets DEF Client!PublishOutcome, Library!PublishOutcome
<1>2. ASSUME NEW recs, NEW id, NEW state, NEW ok
      PROVE  Client!SendPublishAck(recs, id, state, ok) = Library!SendPublishAck(recs, id, state, ok)
  BY SameUpdates, SamePackets DEF Client!SendPublishAck, Library!SendPublishAck,
         Client!AckToSend, Library!AckToSend
<1>3. ASSUME NEW recs, NEW ack, NEW id, NEW ok
      PROVE  Client!AckOutcome(recs, ack, id, ok) = Library!AckOutcome(recs, ack, id, ok)
  BY SameTables, SameUpdates, SamePackets, <1>2 DEF Client!AckOutcome, Library!AckOutcome
<1>4. QED
  BY <1>1, <1>2, <1>3

LEMMA SameActions ==
    /\ \A id, qos, dup, ok : Client!Publish(id, qos, dup, ok) <=> Library!Publish(id, qos, dup, ok)
    /\ \A id, qos, dup, ok :
          Client!ReceivePublish(id, qos, dup, ok) <=> Library!ReceivePublish(id, qos, dup, ok)
    /\ \A ack, id, ok :
          Client!ReceiveOutgoingAck(ack, id, ok) <=> Library!ReceiveOutgoingAck(ack, id, ok)
    /\ \A id, ok : Client!ReceivePubrel(id, ok) <=> Library!ReceivePubrel(id, ok)
    /\ \A ok : Client!ResendPubrel(ok) <=> Library!ResendPubrel(ok)
    /\ \A ok : Client!ResendPublish(ok) <=> Library!ResendPublish(ok)
    /\ Client!ConnectNewSession <=> Library!ConnectNewSession
    /\ Client!ConnectSessionPresent <=> Library!ConnectSessionPresent
    /\ Client!ResendEnd <=> Library!ResendEnd
    /\ Client!ResendAbandon <=> Library!ResendAbandon
    /\ Client!LinkDown <=> Library!LinkDown
    /\ Client!Restart <=> Library!Restart
    /\ Client!Init <=> Library!Init
<1>1. ASSUME NEW id, NEW qos, NEW dup, NEW ok
      PROVE  Client!Publish(id, qos, dup, ok) <=> Library!Publish(id, qos, dup, ok)
  BY SameOutcomes DEF Client!Publish, Library!Publish
<1>2. ASSUME NEW id, NEW qos, NEW dup, NEW ok
      PROVE  Client!ReceivePublish(id, qos, dup, ok) <=> Library!ReceivePublish(id, qos, dup, ok)
  BY SameTables, SameAdd, SamePackets, SameOutcomes DEF Client!ReceivePublish,
         Library!ReceivePublish, Client!ReceivedRecord, Library!ReceivedRecord
<1>3. ASSUME NEW ack, NEW id, NEW ok
      PROVE  /\ Client!ReceiveOutgoingAck(ack, id, ok) <=> Library!ReceiveOutgoingAck(ack, id, ok)
             /\ Client!ReceivePubrel(id, ok) <=> Library!ReceivePubrel(id, ok)
  BY SameTables, SameOutcomes DEF Client!ReceiveOutgoingAck, Library!ReceiveOutgoingAck,
         Client!ReceivePubrel, Library!ReceivePubrel
<1>4. ASSUME NEW ok
      PROVE  /\ Client!ResendPubrel(ok) <=> Library!ResendPubrel(ok)
             /\ Client!ResendPublish(ok) <=> Library!ResendPublish(ok)
  BY SameTables, SameSelection, SamePackets, SameOutcomes DEF Client!ResendPubrel,
         Library!ResendPubrel, Client!ResendPublish, Library!ResendPublish
<1>5. /\ Client!ConnectNewSession <=> Library!ConnectNewSession
      /\ Client!ConnectSessionPresent <=> Library!ConnectSessionPresent
      /\ Client!ResendEnd <=> Library!ResendEnd
      /\ Client!ResendAbandon <=> Library!ResendAbandon
      /\ Client!LinkDown <=> Library!LinkDown
      /\ Client!Restart <=> Library!Restart
      /\ Client!Init <=> Library!Init
  BY SameTables, SameSelection, SamePackets DEF Client!ConnectNewSession,
         Library!ConnectNewSession, Client!ConnectSessionPresent,
         Library!ConnectSessionPresent, Client!ResendEnd, Library!ResendEnd,
         Client!ResendAbandon, Library!ResendAbandon, Client!LinkDown, Library!LinkDown,
         Client!Restart, Library!Restart, Client!Init, Library!Init
<1>6. QED
  BY <1>1, <1>2, <1>3, <1>4, <1>5

LEMMA SameNext == Client!Next => Library!Next
BY SameActions, SamePackets DEF Client!Next, Library!Next


-----------------------------------------------------------------------------
(* Every packet on the connection is of one of the kinds the device sends  *)
(* or the broker answers with, under a packet id MQTT_GetPacketId or the   *)
(* broker gave.                                                            *)
THEOREM WireTyped == Spec => [](WireOK /\ IdsOK)
<1>1. Init => WireOK /\ IdsOK
  <2>1. 1 \in PacketIds
    BY BoundsAssumption DEF PacketIds
  <2>2. QED
    BY <2>1 DEF Init, BrokerInit, NoSession, WireOK, IdsOK, Sessions, Ids
<1>2. QED
  BY <1>1, TaskStep, PTL DEF Spec

(* The control state of the task: the call it is in.                       *)
Calls == {"offline", "connack", "resend", "subscribe", "resubscribe", "publish",
          "unsubscribe", "disconnect"} \cup Loops

(* The link of the library is only up on a connection that got its CONNACK.*)
Control ==
    /\ pc \in Calls
    /\ failed \in BOOLEAN /\ sessionSaved \in BOOLEAN /\ granted \in BOOLEAN
    /\ connected \in BOOLEAN
    /\ attempts \in 0..MaxAttempts
    /\ unsubscribeId \in Ids
    /\ connected \/ toDevice = <<>>
    /\ pc = "offline" => ~ connected
    /\ pc \in {"offline", "connack"} => ~ linkUp
    /\ linkUp => connected

LEMMA InitControl == Init => Control
<1> SUFFICES ASSUME Init PROVE Control
  OBVIOUS
<1>1. pc = "offline" /\ attempts = 0 /\ unsubscribeId = 0 /\ toDevice = <<>>
  BY DEF Init, BrokerInit
<1>2. failed \in BOOLEAN /\ sessionSaved \in BOOLEAN /\ granted \in BOOLEAN
  BY DEF Init
<1>3. connected \in BOOLEAN /\ ~ connected /\ ~ linkUp
  BY DEF Init, BrokerInit, Client!Init
<1>4. attempts \in 0..MaxAttempts /\ unsubscribeId \in Ids
  BY <1>1, BoundsAssumption DEF Ids
<1>5. QED
  BY <1>1, <1>2, <1>3, <1>4 DEF Control, Calls

LEMMA BrokerKeepsLink ==
    BrokerNext => connected' = connected /\ (~ connected => toDevice' = toDevice)
BY DEF BrokerNext, BrokerReceive, BrokerConnect, BrokerPublish, BrokerSubscribe,
       BrokerUnsubscribe, BrokerPuback, BrokerDeliver, BrokerRedeliver, BrokerExpire, Answer

LEMMA ControlStep == WireOK /\ IdsOK /\ Control /\ [Next]_vars => Control'
<1> SUFFICES ASSUME WireOK, IdsOK, Control, [Next]_vars PROVE Control'
  OBVIOUS
<1>1. nextId \in Ids /\ 0 \in Ids /\ MaxAttempts \in Nat
  BY BoundsAssumption DEF IdsOK, Ids
<1> USE DEF Control, Calls, Loops
<1>2. CASE Connect
  BY <1>2 DEF Connect, Open, clientVars
<1>3. CASE ConnackMissed
  BY <1>3 DEF ConnackMissed, Close, clientVars
<1>4. CASE ConnackNewSession
  BY <1>4 DEF ConnackNewSession, Connack, Client!ConnectNewSession
<1>5. CASE ConnackSessionPresent
  BY <1>5 DEF ConnackSessionPresent, Connack, Client!ConnectSessionPresent
<1>6. CASE ResendUnknown \/ ResendDone
  <2>1. /\ UNCHANGED <<linkUp, connected, toDevice, sessionSaved, unsubscribeId, granted, attempts>>
        /\ pc = "resend"
    BY <1>6 DEF ResendUnknown, ResendDone, ResendStep, Client!ResendAbandon, Client!ResendEnd
  <2>2. pc' \in {"resend", "subscribe", "disconnect"} /\ failed' \in BOOLEAN
    BY <1>6 DEF ResendUnknown, ResendDone, Fail
  <2>3. QED
    BY <2>1, <2>2
<1>7. ASSUME NEW ok \in BOOLEAN, ResendStored(ok) PROVE Control'
  <2>1. /\ UNCHANGED <<linkUp, pc, connected, toDevice, sessionSaved, unsubscribeId, granted, attempts>>
        /\ failed' = (failed \/ result'.status # "Success")
    BY <1>7 DEF ResendStored, ResendStep, Client!ResendPublish
  <2>2. failed' \in BOOLEAN
    BY <2>1
  <2>3. QED
    BY <2>1, <2>2
<1>8. ASSUME NEW ok \in BOOLEAN, SubscribeToTopic(ok) \/ Resubscribe(ok) \/ UnsubscribeFromTopic(ok)
      PROVE  Control'
  <2>1. UNCHANGED <<linkUp, connected, toDevice, sessionSaved, granted, attempts>>
    BY <1>8 DEF SubscribeToTopic, Resubscribe, UnsubscribeFromTopic, RequestStep, clientVars
  <2>2. unsubscribeId' \in Ids
    BY <1>1, <1>8 DEF SubscribeToTopic, Resubscribe, UnsubscribeFromTopic
  <2>3. pc' \in {"suback", "resuback", "unsuback", "disconnect"} /\ failed' \in BOOLEAN
    BY <1>8 DEF SubscribeToTopic, Resubscribe, UnsubscribeFromTopic, Request, Fail
  <2>4. QED
    BY <2>1, <2>2, <2>3
<1>9. ASSUME NEW ok \in BOOLEAN, PublishToTopic(ok) PROVE Control'
  BY <1>9 DEF PublishToTopic, PublishStep, RequestStep, Client!Publish
<1>10. CASE PublishTableFull \/ PublishNothing
  <2>1. UNCHANGED <<linkUp, connected, toDevice, sessionSaved, unsubscribeId, granted, attempts>>
    BY <1>10 DEF PublishTableFull, PublishNothing, PublishStep, RequestStep, clientVars
  <2>2. pc' = "puback" /\ failed' \in BOOLEAN
    BY <1>10 DEF PublishTableFull, PublishNothing, PublishStep
  <2>3. QED
    BY <2>1, <2>2
<1>11. ASSUME NEW ok \in BOOLEAN, ReceivePublish(ok) PROVE Control'
  <2>1. /\ UNCHANGED <<linkUp, connected, sessionSaved, unsubscribeId, granted, attempts>>
        /\ toDevice # <<>> /\ (UNCHANGED <<pc, failed>> \/ Fail)
    BY <1>11 DEF ReceivePublish, Receive, Client!ReceivePublish, GoOn
  <2>2. QED
    BY <2>1 DEF Fail
<1>12. CASE ReceivePuback
  <2>1. /\ UNCHANGED <<linkUp, connected, sessionSaved, unsubscribeId, granted, attempts>>
        /\ toDevice # <<>> /\ (UNCHANGED <<pc, failed>> \/ Fail)
    BY <1>12 DEF ReceivePuback, Receive, Client!ReceiveOutgoingAck, GoOn
  <2>2. QED
    BY <2>1 DEF Fail
<1>13. CASE ReceiveSuback \/ ReceiveUnsuback
  <2>1. toDevice # <<>> => Head(toDevice) \in FromBroker
    BY HeadTailProperties DEF WireOK
  <2>2. granted' \in BOOLEAN
    BY <1>13, <2>1 DEF ReceiveSuback, ReceiveUnsuback, Receive, FromBroker
  <2>3. /\ UNCHANGED <<linkUp, connected, sessionSaved, unsubscribeId, attempts, pc, failed>>
        /\ toDevice # <<>>
    BY <1>13 DEF ReceiveSuback, ReceiveUnsuback, Receive, clientVars
  <2>4. QED
    BY <2>2, <2>3
<1>14. CASE LoopFails \/ SubscribeLoopEnds \/ ResubscribeLoopEnds \/ PublishLoopEnds \/ UnsubscribeLoopEnds
  <2>1. UNCHANGED <<linkUp, connected, toDevice, sessionSaved, unsubscribeId, granted>>
    BY <1>14 DEF LoopFails, SubscribeLoopEnds, ResubscribeLoopEnds, PublishLoopEnds,
       UnsubscribeLoopEnds, LoopEnds, LoopStep, clientVars
  <2>2. pc' \in Calls \ {"offline", "connack"} /\ failed' \in BOOLEAN
    BY <1>14 DEF LoopFails, SubscribeLoopEnds, ResubscribeLoopEnds, PublishLoopEnds,
       UnsubscribeLoopEnds, LoopEnds, Fail
  <2>3. attempts' \in 0..MaxAttempts
    BY <1>1, <1>14 DEF LoopFails, SubscribeLoopEnds, ResubscribeLoopEnds, PublishLoopEnds,
       UnsubscribeLoopEnds
  <2>4. QED
    BY <2>1, <2>2, <2>3
<1>15. CASE Disconnect
  <2>1. UNCHANGED <<sessionSaved, unsubscribeId, attempts>> /\ toDevice' = <<>> /\ pc' = "offline"
    BY <1>15 DEF Disconnect, Close
  <2>2. connected' \in BOOLEAN /\ ~ connected'
    BY <1>15 DEF Disconnect, Close
  <2>2a. ~ linkUp'
    <3>1. linkUp' = FALSE \/ (~ linkUp /\ linkUp' = linkUp)
      BY <1>15 DEF Disconnect, Client!LinkDown, clientVars
    <3>2. QED
      BY <3>1
  <2>3. granted' \in BOOLEAN /\ failed' \in BOOLEAN
    BY <1>15 DEF Disconnect
  <2>4. QED
    BY <2>1, <2>2, <2>2a, <2>3
<1>16. CASE ConnectionLost
  <2>1. UNCHANGED <<pc, failed, granted, sessionSaved, unsubscribeId, attempts>> /\ toDevice' = <<>>
    BY <1>16 DEF ConnectionLost, Close, taskVars
  <2>2. connected' \in BOOLEAN /\ ~ connected'
    BY <1>16 DEF ConnectionLost, Close
  <2>2a. ~ linkUp'
    <3>1. linkUp' = FALSE \/ (~ linkUp /\ linkUp' = linkUp)
      BY <1>16 DEF ConnectionLost, Client!LinkDown, clientVars
    <3>2. QED
      BY <3>1
  <2>3. QED
    BY <2>1, <2>2, <2>2a
<1>17. CASE Restart
  <2>1. toDevice' = <<>> /\ pc' = "offline" /\ attempts' = 0 /\ unsubscribeId' = 0
    BY <1>17 DEF Restart, Close
  <2>2. connected' \in BOOLEAN /\ ~ connected' /\ ~ linkUp'
    BY <1>17 DEF Restart, Close, Client!Restart
  <2>3. granted' \in BOOLEAN /\ failed' \in BOOLEAN /\ sessionSaved' \in BOOLEAN
    BY <1>17 DEF Restart
  <2>4. QED
    BY <1>1, <2>1, <2>2, <2>3
<1>18. CASE BrokerNext /\ UNCHANGED <<clientVars, taskVars>>
  BY <1>18, BrokerKeepsLink DEF clientVars, taskVars
<1>19. CASE UNCHANGED vars
  BY <1>19 DEF vars, brokerVars, clientVars, taskVars
<1>20. QED
  BY <1>2, <1>3, <1>4, <1>5, <1>6, <1>7, <1>8, <1>9, <1>10, <1>11, <1>12, <1>13, <1>14, <1>15,
     <1>16, <1>17, <1>18, <1>19 DEF Next, Task


(* The table of stored payloads changes with a session, a publish, a       *)
(* PUBACK or a power loss, and with nothing else.                          *)
LEMMA TableChanges ==
    [Next]_vars =>
        \/ UNCHANGED <<table, payloads, accepted>>
        \/ table' = {} /\ UNCHANGED <<payloads, accepted>>
        \/ ReceivePuback
        \/ \E ok \in BOOLEAN : PublishToTopic(ok)
<1> SUFFICES ASSUME [Next]_vars
             PROVE  \/ UNCHANGED <<table, payloads, accepted>>
                    \/ table' = {} /\ UNCHANGED <<payloads, accepted>>
                    \/ ReceivePuback
                    \/ \E ok \in BOOLEAN : PublishToTopic(ok)
  OBVIOUS
<1>1. CASE Connect \/ ConnackMissed \/ ConnackNewSession \/ ConnackSessionPresent
  BY <1>1 DEF Connect, ConnackMissed, ConnackNewSession, ConnackSessionPresent, Connack
<1>2. ASSUME NEW ok, ResendUnknown \/ ResendDone \/ ResendStored(ok)
      PROVE  UNCHANGED <<table, payloads, accepted>>
  BY <1>2 DEF ResendUnknown, ResendDone, ResendStored, ResendStep
<1>3. ASSUME NEW ok, SubscribeToTopic(ok) \/ Resubscribe(ok) \/ UnsubscribeFromTopic(ok)
      PROVE  UNCHANGED <<table, payloads, accepted>>
  BY <1>3 DEF SubscribeToTopic, Resubscribe, UnsubscribeFromTopic
<1>4. CASE PublishTableFull \/ PublishNothing
  BY <1>4 DEF PublishTableFull, PublishNothing
<1>5. ASSUME NEW ok, ReceivePublish(ok) \/ ReceiveSuback \/ ReceiveUnsuback
      PROVE  UNCHANGED <<table, payloads, accepted>>
  BY <1>5 DEF ReceivePublish, ReceiveSuback, ReceiveUnsuback, Receive
<1>6. CASE LoopFails \/ SubscribeLoopEnds \/ ResubscribeLoopEnds \/ PublishLoopEnds \/ UnsubscribeLoopEnds
  BY <1>6 DEF LoopFails, SubscribeLoopEnds, ResubscribeLoopEnds, PublishLoopEnds,
     UnsubscribeLoopEnds, LoopEnds, LoopStep
<1>7. CASE Disconnect \/ ConnectionLost \/ Restart
  BY <1>7 DEF Disconnect, ConnectionLost, Restart, taskVars
<1>8. CASE (BrokerNext /\ UNCHANGED <<clientVars, taskVars>>) \/ UNCHANGED vars
  BY <1>8 DEF vars, taskVars
<1>9. QED
  BY <1>1, <1>2, <1>3, <1>4, <1>5, <1>6, <1>7, <1>8 DEF Next, Task

TableOK ==
    /\ table \subseteq [packetId: PacketIds, payload: Payloads]
    /\ IsFiniteSet(table) /\ Cardinality(table) <= TableSize
    /\ payloads \in 0..MaxPayloads

LEMMA CleanupRemoves ==
    ASSUME NEW id
    PROVE  /\ Cleanup(id) \subseteq table
           /\ \A e \in table : e.packetId # id => e \in Cleanup(id)
           /\ Stored(id) => \E e \in table : e.packetId = id /\ Cleanup(id) = table \ {e}
<1>1. CASE Stored(id)
  <2> DEFINE e == CHOOSE e \in table : e.packetId = id
  <2>1. e \in table /\ e.packetId = id
    BY <1>1 DEF Stored
  <2>2. Cleanup(id) = table \ {e}
    BY <1>1 DEF Cleanup
  <2> HIDE DEF e
  <2>3. QED
    BY <2>1, <2>2
<1>2. CASE ~ Stored(id)
  BY <1>2 DEF Cleanup
<1>3. QED
  BY <1>1, <1>2

LEMMA TableStep == IdsOK /\ TableOK /\ [Next]_vars => TableOK'
<1> SUFFICES ASSUME IdsOK, TableOK, [Next]_vars PROVE TableOK'
  OBVIOUS
<1>1. /\ table \subseteq [packetId: PacketIds, payload: Payloads]
      /\ IsFiniteSet(table) /\ Cardinality(table) <= TableSize /\ Cardinality(table) \in Nat
      /\ payloads \in 0..MaxPayloads /\ nextId \in PacketIds
      /\ MaxPayloads \in Nat /\ TableSize \in Nat
  BY BoundsAssumption, FS_CardinalityType DEF TableOK, IdsOK
<1>2. CASE UNCHANGED <<table, payloads, accepted>>
  BY <1>2 DEF TableOK
<1>3. CASE table' = {} /\ UNCHANGED <<payloads, accepted>>
  <2>1. IsFiniteSet({}) /\ Cardinality({}) = 0
    BY FS_EmptySet
  <2>2. QED
    BY <1>1, <1>3, <2>1 DEF TableOK
<1>4. CASE ReceivePuback
  <2>1. table' \subseteq table /\ payloads' = payloads
    BY <1>4, CleanupRemoves DEF ReceivePuback, Receive
  <2>2. IsFiniteSet(table') /\ Cardinality(table') <= Cardinality(table)
           /\ Cardinality(table') \in Nat
    BY <1>1, <2>1, FS_Subset, FS_CardinalityType
  <2>3. QED
    BY <1>1, <2>1, <2>2 DEF TableOK
<1>5. ASSUME NEW ok \in BOOLEAN, PublishToTopic(ok) PROVE TableOK'
  <2> DEFINE entry == [packetId |-> nextId, payload |-> payloads']
  <2>1. /\ payloads < MaxPayloads /\ Cardinality(table) < TableSize /\ payloads' = payloads + 1
        /\ table' \in {table, table \cup {entry}}
    BY <1>5 DEF PublishToTopic
  <2>2. payloads' \in Payloads /\ payloads' \in 0..MaxPayloads
    BY <1>1, <2>1 DEF Payloads
  <2>3. entry \in [packetId: PacketIds, payload: Payloads]
    BY <1>1, <2>2
  <2> HIDE DEF entry
  <2>4. IsFiniteSet(table \cup {entry})
    BY <1>1, FS_AddElement
  <2>5. Cardinality(table \cup {entry}) \in {Cardinality(table), Cardinality(table) + 1}
    BY <1>1, FS_AddElement
  <2>6. QED
    BY <1>1, <2>1, <2>2, <2>3, <2>4, <2>5 DEF TableOK
<1>6. QED
  BY <1>2, <1>3, <1>4, <1>5, TableChanges

LEMMA InitTable == Init => TableOK
<1>1. IsFiniteSet({}) /\ Cardinality({}) = 0
  BY FS_EmptySet
<1>2. TableSize \in Nat /\ MaxPayloads \in Nat
  BY BoundsAssumption
<1>3. QED
  BY <1>1, <1>2 DEF Init, TableOK

(* The types of the task's state: the call it is in, the table of stored   *)
(* payloads within MAX_OUTGOING_PUBLISHES, packet ids that MQTT_GetPacketId *)
(* gave, and a library that is connected only on a connection.             *)
THEOREM TaskTyped == Spec => []TypeOK
<1>1. Init => Control /\ TableOK
  BY InitControl, InitTable
<1>2. IdsOK /\ Control /\ TableOK => TypeOK
  BY DEF IdsOK, Ids, Control, Calls, TableOK, TypeOK
<1>3. WireOK /\ IdsOK /\ Control /\ TableOK /\ [Next]_vars => Control' /\ TableOK'
  BY ControlStep, TableStep
<1>4. QED
  BY <1>1, <1>2, <1>3, WireTyped, PTL DEF Spec


-----------------------------------------------------------------------------
(* The connection as a set of packets: what a packet more, or one less,    *)
(* changes.                                                                *)
Sent(seq, type) == {p.packetId : p \in {q \in ToSet(seq) : q.type = type}}

(* No two packets of the type have the same packet id.                     *)
Once(seq, type) ==
    \A i, j \in 1..Len(seq) :
        seq[i].type = type /\ seq[j].type = type /\ seq[i].packetId = seq[j].packetId => i = j

(* rest is seq without its packet number i.                                *)
Without(seq, i, rest) ==
    /\ i \in 1..Len(seq)
    /\ Len(rest) \in Nat /\ Len(rest) = Len(seq) - 1
    /\ \A j \in 1..Len(rest) : rest[j] = IF j < i THEN seq[j] ELSE seq[j + 1]

LEMMA RemoveAtWithout ==
    ASSUME NEW S, NEW seq \in Seq(S), NEW i \in 1 .. Len(seq)
    PROVE  Without(seq, i, RemoveAt(seq, i))
<1> DEFINE before == SubSeq(seq, 1, i - 1)
           after == SubSeq(seq, i + 1, Len(seq))
<1>1. Len(seq) \in Nat /\ i \in Int /\ i + 1 \in Int /\ i - 1 \in Int
      /\ i <= Len(seq) /\ 1 <= i
  BY LenProperties
<1>2. \A j \in 1 .. Len(seq) : seq[j] \in S
  BY ElementOfSeq
<1>3. /\ before \in Seq(S) /\ Len(before) = i - 1
      /\ \A j \in 1 .. (i - 1) : before[j] = seq[j]
  <2>1. \A j \in 1 .. (i - 1) : seq[j] \in S
    BY <1>1, <1>2
  <2>2. /\ before \in Seq(S)
        /\ Len(before) = IF 1 <= i - 1 THEN i - 1 - 1 + 1 ELSE 0
        /\ \A j \in 1 .. (i - 1 - 1 + 1) : before[j] = seq[1 + j - 1]
    BY <1>1, <2>1, SubSeqProperties
  <2>3. QED
    BY <1>1, <2>2
<1>4. /\ after \in Seq(S) /\ Len(after) = Len(seq) - i
      /\ \A j \in 1 .. (Len(seq) - i) : after[j] = seq[i + j]
  <2>1. \A j \in (i + 1) .. Len(seq) : seq[j] \in S
    BY <1>1, <1>2
  <2>2. /\ after \in Seq(S)
        /\ Len(after) = IF i + 1 <= Len(seq) THEN Len(seq) - (i + 1) + 1 ELSE 0
        /\ \A j \in 1 .. (Len(seq) - (i + 1) + 1) : after[j] = seq[i + 1 + j - 1]
    BY <1>1, <2>1, SubSeqProperties
  <2>3. QED
    BY <1>1, <2>2
<1> HIDE DEF before, after
<1>5. /\ Len(before \o after) = Len(before) + Len(after)
      /\ \A j \in 1 .. Len(before) + Len(after) :
            (before \o after)[j] = IF j <= Len(before) THEN before[j] ELSE after[j - Len(before)]
  BY <1>3, <1>4, ConcatProperties
<1>6. RemoveAt(seq, i) = before \o after
  BY DEF RemoveAt, before, after
<1> DEFINE rest == before \o after
<1>7. Len(rest) \in Nat /\ Len(rest) = Len(seq) - 1
  BY <1>1, <1>3, <1>4, <1>5
<1>8. ASSUME NEW j \in 1 .. Len(rest)
      PROVE  rest[j] = IF j < i THEN seq[j] ELSE seq[j + 1]
  <2>1. rest[j] = IF j <= i - 1 THEN before[j] ELSE after[j - (i - 1)]
    BY <1>3, <1>5, <1>7, <1>8
  <2>2. CASE j < i
    BY <1>1, <1>3, <2>1, <2>2
  <2>3. CASE ~ (j < i)
    <3>1. j - (i - 1) \in 1 .. (Len(seq) - i) /\ i + (j - (i - 1)) = j + 1
      BY <1>1, <1>7, <2>3
    <3>2. rest[j] = after[j - (i - 1)]
      BY <1>1, <2>1, <2>3
    <3>3. QED
      BY <1>4, <2>3, <3>1, <3>2
  <2>4. QED
    BY <2>2, <2>3
<1>9. QED
  BY <1>6, <1>7, <1>8 DEF Without

LEMMA TailWithout ==
    ASSUME NEW S, NEW seq \in Seq(S), seq # <<>>
    PROVE  Without(seq, 1, Tail(seq))
<1>1. Len(seq) \in Nat /\ Len(seq) # 0 /\ Tail(seq) \in Seq(S)
  BY LenProperties, EmptySeq, HeadTailProperties
<1>2. Len(Tail(seq)) = Len(seq) - 1 /\ \A j \in 1 .. Len(Tail(seq)) : Tail(seq)[j] = seq[j + 1]
  BY HeadTailProperties
<1>3. QED
  BY <1>1, <1>2 DEF Without

LEMMA WithoutSent ==
    ASSUME NEW S, NEW seq \in Seq(S), NEW i, NEW rest \in Seq(S), Without(seq, i, rest), NEW type
    PROVE  /\ ToSet(rest) \subseteq ToSet(seq)
           /\ seq[i] \in ToSet(seq)
           /\ Sent(rest, type) \subseteq Sent(seq, type)
           /\ Once(seq, type) => Once(rest, type)
           /\ Once(seq, type) /\ seq[i].type = type => seq[i].packetId \notin Sent(rest, type)
<1>1. /\ i \in 1 .. Len(seq) /\ Len(rest) \in Nat /\ Len(rest) = Len(seq) - 1
      /\ \A j \in 1 .. Len(rest) : rest[j] = IF j < i THEN seq[j] ELSE seq[j + 1]
  BY DEF Without
<1> DEFINE At(j) == IF j < i THEN j ELSE j + 1
<1>2. \A j \in 1 .. Len(rest) : At(j) \in 1 .. Len(seq) /\ At(j) # i /\ rest[j] = seq[At(j)]
  BY <1>1
<1>3. \A j, k \in 1 .. Len(rest) : At(j) = At(k) => j = k
  BY <1>1
<1> HIDE DEF At
<1>4. ToSet(rest) \subseteq ToSet(seq) /\ seq[i] \in ToSet(seq)
  BY <1>1, <1>2 DEF ToSet
<1>5. Sent(rest, type) \subseteq Sent(seq, type)
  BY <1>4 DEF Sent
<1>6. Once(seq, type) => Once(rest, type)
  BY <1>2, <1>3 DEF Once
<1>7. ASSUME Once(seq, type), seq[i].type = type, seq[i].packetId \in Sent(rest, type)
      PROVE  FALSE
  <2>1. PICK p \in ToSet(rest) : p.type = type /\ p.packetId = seq[i].packetId
    BY <1>7 DEF Sent
  <2>2. PICK j \in 1 .. Len(rest) : rest[j] = p
    BY <2>1 DEF ToSet
  <2>3. QED
    BY <1>1, <1>2, <1>7, <2>1, <2>2 DEF Once
<1>8. QED
  BY <1>4, <1>5, <1>6, <1>7

LEMMA MoreInSet ==
    ASSUME NEW S, NEW seq \in Seq(S), NEW p \in S
    PROVE  ToSet(seq \o <<p>>) = ToSet(seq) \cup {p}
<1> DEFINE more == seq \o <<p>>
<1>1. Len(seq) \in Nat /\ \A j \in 1 .. Len(seq) : seq[j] \in S
  BY LenProperties, ElementOfSeq
<1>2. /\ Len(more) = Len(seq) + 1
      /\ \A j \in 1 .. Len(seq) : more[j] = seq[j]
      /\ more[Len(seq) + 1] = p
  BY <1>1
<1> HIDE DEF more
<1>3. \A j \in 1 .. Len(more) : j \in 1 .. Len(seq) \/ j = Len(seq) + 1
  BY <1>1, <1>2
<1>4. 1 .. Len(seq) \subseteq 1 .. Len(more) /\ Len(seq) + 1 \in 1 .. Len(more)
  BY <1>1, <1>2
<1>5. ToSet(more) = ToSet(seq) \cup {p}
  BY <1>2, <1>3, <1>4 DEF ToSet
<1>6. QED
  BY <1>5 DEF more

LEMMA MoreSent ==
    ASSUME NEW S, NEW seq \in Seq(S), NEW p \in S, NEW type
    PROVE  /\ p.type = type => Sent(seq \o <<p>>, type) = Sent(seq, type) \cup {p.packetId}
           /\ p.type # type => Sent(seq \o <<p>>, type) = Sent(seq, type)
BY MoreInSet DEF Sent

LEMMA MoreOnce ==
    ASSUME NEW S, NEW seq \in Seq(S), NEW p \in S, NEW type, Once(seq, type),
           p.type = type => p.packetId \notin Sent(seq, type)
    PROVE  Once(seq \o <<p>>, type)
<1> DEFINE more == seq \o <<p>>
<1>1. Len(seq) \in Nat /\ \A j \in 1 .. Len(seq) : seq[j] \in S
  BY LenProperties, ElementOfSeq
<1>2. /\ Len(more) = Len(seq) + 1
      /\ \A j \in 1 .. Len(seq) : more[j] = seq[j]
      /\ more[Len(seq) + 1] = p
  BY <1>1
<1> HIDE DEF more
<1>3. \A j \in 1 .. Len(more) : j \in 1 .. Len(seq) \/ j = Len(seq) + 1
  BY <1>1, <1>2
<1>4. ASSUME NEW j \in 1 .. Len(seq), seq[j].type = type, p.type = type
      PROVE  seq[j].packetId # p.packetId
  <2>1. seq[j] \in ToSet(seq)
    BY <1>1, ElementOfSeq DEF ToSet
  <2>2. QED
    BY <1>4, <2>1 DEF Sent
<1>5. SUFFICES ASSUME NEW j \in 1 .. Len(more), NEW k \in 1 .. Len(more),
                      more[j].type = type, more[k].type = type,
                      more[j].packetId = more[k].packetId
               PROVE  j = k
  BY DEF Once, more
<1>6. CASE j \in 1 .. Len(seq) /\ k \in 1 .. Len(seq)
  BY <1>2, <1>5, <1>6 DEF Once
<1>7. QED
  BY <1>2, <1>3, <1>4, <1>5, <1>6

(* What the broker answers to each request: which packet, for which id.    *)
AnswerTo(q, p) ==
    \/ q.type = "CONNECT" /\ p.type = "CONNACK"
    \/ q.type = "SUBSCRIBE" /\ p.type = "SUBACK" /\ p.packetId = q.packetId
    \/ q.type = "UNSUBSCRIBE" /\ p.type = "UNSUBACK" /\ p.packetId = q.packetId
    \/ q.type = "PUBLISH" /\ p.type = "PUBACK" /\ p.packetId = q.packetId

Takes(i) ==
    LET q == toBroker[i]
    IN  /\ toBroker' = RemoveAt(toBroker, i)
        /\ arrived' = IF q.type = "PUBLISH" /\ ~ \E n \in 1..Len(arrived) : arrived[n] = q.message
                      THEN Append(arrived, q.message) ELSE arrived
        /\ \/ q.type = "PUBACK" /\ toDevice' = toDevice
           \/ \E p \in FromBroker : AnswerTo(q, p) /\ Answer(<<p>>)

Delivers ==
    /\ UNCHANGED <<toBroker, arrived>>
    /\ \/ toDevice' = toDevice
       \/ \E p \in FromBroker : p.type = "PUBLISH" /\ Answer(<<p>>)

LEMMA BrokerTakes == WireOK /\ BrokerNext => Delivers \/ \E i \in 1 .. Len(toBroker) : Takes(i)
<1> SUFFICES ASSUME WireOK, BrokerNext
             PROVE  Delivers \/ \E i \in 1 .. Len(toBroker) : Takes(i)
  OBVIOUS
<1>1. toBroker \in Seq(Outbound) /\ session \in Sessions
  BY DEF WireOK
<1>2. CASE BrokerReceive
  <2>1. PICK i \in 1 .. Len(toBroker) :
            /\ \/ toBroker[i].type = "CONNECT" /\ BrokerConnect(toBroker[i])
               \/ toBroker[i].type = "PUBLISH" /\ BrokerPublish(toBroker[i])
               \/ toBroker[i].type = "SUBSCRIBE" /\ BrokerSubscribe(toBroker[i])
               \/ toBroker[i].type = "UNSUBSCRIBE" /\ BrokerUnsubscribe(toBroker[i])
               \/ toBroker[i].type = "PUBACK" /\ BrokerPuback(toBroker[i])
            /\ toBroker' = RemoveAt(toBroker, i)
    BY <1>2 DEF BrokerReceive
  <2>2. toBroker[i] \in Outbound
    BY <1>1, ElementOfSeq
  <2>3. PICK q : q = toBroker[i]
    OBVIOUS
  <2>4. SUFFICES /\ arrived' = IF q.type = "PUBLISH" /\ ~ \E n \in 1..Len(arrived) : arrived[n] = q.message
                               THEN Append(arrived, q.message) ELSE arrived
                 /\ \/ q.type = "PUBACK" /\ toDevice' = toDevice
                    \/ \E p \in FromBroker : AnswerTo(q, p) /\ Answer(<<p>>)
    BY <2>1, <2>3 DEF Takes
  <2>5. CASE q.type = "CONNECT" /\ BrokerConnect(q)
    <3>1. PICK present \in BOOLEAN : Answer(<<[type |-> "CONNACK", present |-> present]>>)
      <4>1. q.clean \in BOOLEAN /\ session.durable \in BOOLEAN
        BY <1>1, <2>2, <2>3, <2>5 DEF Outbound, Sessions
      <4>2. QED
        BY <2>5, <4>1 DEF BrokerConnect
    <3>2. [type |-> "CONNACK", present |-> present] \in FromBroker
      BY DEF FromBroker
    <3>3. AnswerTo(q, [type |-> "CONNACK", present |-> present])
      BY <2>5 DEF AnswerTo
    <3>4. arrived' = arrived
      BY <2>5 DEF BrokerConnect
    <3>5. QED
      BY <2>5, <3>1, <3>2, <3>3, <3>4
  <2>6. CASE q.type = "PUBLISH" /\ BrokerPublish(q)
    <3>1. [type |-> "PUBACK", packetId |-> q.packetId] \in FromBroker
      BY <2>2, <2>3, <2>6 DEF FromBroker, Outbound
    <3>2. AnswerTo(q, [type |-> "PUBACK", packetId |-> q.packetId])
      BY <2>6 DEF AnswerTo
    <3>3. QED
      BY <2>6, <3>1, <3>2 DEF BrokerPublish
  <2>7. CASE q.type = "SUBSCRIBE" /\ BrokerSubscribe(q)
    <3>1. PICK accept \in BOOLEAN :
              Answer(<<[type |-> "SUBACK", packetId |-> q.packetId, granted |-> accept]>>)
      BY <2>7 DEF BrokerSubscribe
    <3>2. [type |-> "SUBACK", packetId |-> q.packetId, granted |-> accept] \in FromBroker
      BY <2>2, <2>3, <2>7 DEF FromBroker, Outbound
    <3>3. AnswerTo(q, [type |-> "SUBACK", packetId |-> q.packetId, granted |-> accept])
      BY <2>7 DEF AnswerTo
    <3>4. arrived' = arrived
      BY <2>7 DEF BrokerSubscribe
    <3>5. QED
      BY <2>7, <3>1, <3>2, <3>3, <3>4
  <2>8. CASE q.type = "UNSUBSCRIBE" /\ BrokerUnsubscribe(q)
    <3>1. [type |-> "UNSUBACK", packetId |-> q.packetId] \in FromBroker
      BY <2>2, <2>3, <2>8 DEF FromBroker, Outbound
    <3>2. AnswerTo(q, [type |-> "UNSUBACK", packetId |-> q.packetId])
      BY <2>8 DEF AnswerTo
    <3>3. QED
      BY <2>8, <3>1, <3>2 DEF BrokerUnsubscribe
  <2>9. CASE q.type = "PUBACK" /\ BrokerPuback(q)
    BY <2>9 DEF BrokerPuback
  <2>10. QED
    BY <2>1, <2>3, <2>5, <2>6, <2>7, <2>8, <2>9
<1>3. ASSUME NEW message \in Inbound, NEW id \in InboundIds, BrokerDeliver(message, id)
      PROVE  Delivers
  <2>1. [type |-> "PUBLISH", packetId |-> id, message |-> message, dup |-> FALSE] \in FromBroker
    BY InboundIdsAssumption DEF FromBroker, PacketIds
  <2>2. QED
    BY <1>3, <2>1 DEF BrokerDeliver, Delivers
<1>4. CASE BrokerRedeliver
  <2>1. PICK e \in session.unacked :
            Answer(<<[type |-> "PUBLISH", packetId |-> e.packetId,
                      message |-> e.message, dup |-> TRUE]>>)
    BY <1>4 DEF BrokerRedeliver
  <2>2. [type |-> "PUBLISH", packetId |-> e.packetId, message |-> e.message, dup |-> TRUE]
            \in FromBroker
    BY <1>1, InboundIdsAssumption DEF Sessions, FromBroker, PacketIds
  <2>3. QED
    BY <1>4, <2>1, <2>2 DEF BrokerRedeliver, Delivers
<1>5. CASE BrokerExpire
  BY <1>5 DEF BrokerExpire, Delivers
<1>6. QED
  BY <1>2, <1>3, <1>4, <1>5 DEF BrokerNext


(* The packet a library call sent, as it goes on the wire.                 *)
LEMMA OnWireNothing ==
    ASSUME NEW payload
    PROVE  OnWire(<<>>, payload) = <<>>
BY DEF OnWire

LEMMA OnWirePublish ==
    ASSUME NEW id, NEW qos, NEW dup, NEW payload
    PROVE  OnWire(<<Client!PublishPacket(id, qos, dup)>>, payload) =
              <<[type |-> "PUBLISH", packetId |-> id, message |-> payload]>>
<1> DEFINE p == Client!PublishPacket(id, qos, dup)
           w == OnWire(<<p>>, payload)
           q == [type |-> "PUBLISH", packetId |-> id, message |-> payload]
<1>1. p.type = "PUBLISH" /\ p.packetId = id
  BY DEF Client!PublishPacket
<1> HIDE DEF p
<1>2. w = [i \in 1..1 |-> q]
  BY <1>1 DEF OnWire
<1> HIDE DEF q, w
<1>3. w = <<q>>
  <2>1. w \in Seq({q}) /\ <<q>> \in Seq({q}) /\ Len(w) = 1 /\ Len(<<q>>) = 1
    BY <1>2
  <2>2. w[1] = q /\ <<q>>[1] = q
    BY <1>2
  <2>3. QED
    BY <2>1, <2>2, SeqEqual
<1>4. QED
  BY <1>3 DEF p, q, w

LEMMA OnWireAck ==
    ASSUME NEW id, NEW payload
    PROVE  OnWire(<<Client!AckPacket("PUBACK", id)>>, payload) = <<Client!AckPacket("PUBACK", id)>>
<1> DEFINE p == Client!AckPacket("PUBACK", id)
           w == OnWire(<<p>>, payload)
<1>1. p.type = "PUBACK"
  BY DEF Client!AckPacket
<1> HIDE DEF p
<1>2. w = [i \in 1..1 |-> p]
  BY <1>1 DEF OnWire
<1> HIDE DEF w
<1>3. w = <<p>>
  <2>1. w \in Seq({p}) /\ <<p>> \in Seq({p}) /\ Len(w) = 1 /\ Len(<<p>>) = 1
    BY <1>2
  <2>2. w[1] = p /\ <<p>>[1] = p
    BY <1>2
  <2>3. QED
    BY <2>1, <2>2, SeqEqual
<1>4. QED
  BY <1>3 DEF p, w

(* The two library calls of the task that may put a publish on the wire,   *)
(* and the one that may acknowledge one.                                   *)
Published(id, payload) == [type |-> "PUBLISH", packetId |-> id, message |-> payload]

LEMMA PublishWire ==
    ASSUME NEW id, NEW qos, NEW dup, NEW payload, toBroker \in Seq(Outbound),
           result'.sent \in {<<>>, <<Client!PublishPacket(id, qos, dup)>>},
           Transmit(OnWire(result'.sent, payload))
    PROVE  /\ result'.sent = <<>> => toBroker' = toBroker
           /\ result'.sent = <<Client!PublishPacket(id, qos, dup)>> =>
                 toBroker' = toBroker \o <<Published(id, payload)>>
<1>1. toBroker \o <<>> = toBroker
  BY EmptySeq, ConcatProperties
<1>2. QED
  BY <1>1, OnWireNothing, OnWirePublish DEF Transmit, Published

LEMMA AckWire ==
    ASSUME NEW id, NEW payload, toBroker \in Seq(Outbound),
           result'.sent \in {<<>>, <<Client!AckPacket("PUBACK", id)>>},
           Transmit(OnWire(result'.sent, payload))
    PROVE  toBroker' \in {toBroker, toBroker \o <<Client!AckPacket("PUBACK", id)>>}
<1>1. toBroker \o <<>> = toBroker
  BY EmptySeq, ConcatProperties
<1>2. QED
  BY <1>1, OnWireNothing, OnWireAck DEF Transmit


LEMMA ResendWire ==
    ASSUME WireOK, IdsOK, NEW ok, ResendStored(ok)
    PROVE  LET id == Client!Selected.packetId
           IN  /\ id \in PacketIds
               /\ \E e \in table : e.packetId = id /\ e.payload = PayloadOf(id)
               /\ \/ result'.sent = <<>> /\ toBroker' = toBroker
                  \/ result'.sent # <<>> /\ toBroker' = toBroker \o <<Published(id, PayloadOf(id))>>
<1> DEFINE id == Client!Selected.packetId
<1>1. /\ Client!ResendPublish(ok) /\ Stored(id)
      /\ Transmit(OnWire(result'.sent, PayloadOf(id)))
  BY DEF ResendStored
<1>2. PICK qos : result' = Client!PublishOutcome(id, qos, TRUE, ok).result
  BY <1>1 DEF Client!ResendPublish
<1>3. result'.sent \in {<<>>, <<Client!PublishPacket(id, qos, TRUE)>>}
  BY <1>2 DEF Client!PublishOutcome, Client!Outcome
<1> HIDE DEF id
<1>4. <<Client!PublishPacket(id, qos, TRUE)>> # <<>>
  OBVIOUS
<1>5. \/ result'.sent = <<>> /\ toBroker' = toBroker
      \/ result'.sent # <<>> /\ toBroker' = toBroker \o <<Published(id, PayloadOf(id))>>
  BY <1>1, <1>3, <1>4, PublishWire DEF WireOK
<1>6. (CHOOSE e \in table : e.packetId = id) \in table /\ (CHOOSE e \in table : e.packetId = id).packetId = id
  BY <1>1 DEF Stored
<1>7. \E e \in table : e.packetId = id /\ e.payload = PayloadOf(id)
  BY <1>6 DEF PayloadOf
<1>8. id \in PacketIds
  BY <1>6 DEF IdsOK
<1>9. QED
  BY <1>5, <1>7, <1>8 DEF id

LEMMA NewPublishWire ==
    ASSUME WireOK, IdsOK, NEW ok, PublishToTopic(ok)
    PROVE  \/ result'.sent = <<>> /\ toBroker' = toBroker
           \/ result'.sent # <<>> /\ toBroker' = toBroker \o <<Published(nextId, payloads')>>
<1>1. Client!Publish(nextId, 1, FALSE, ok) /\ Transmit(OnWire(result'.sent, payloads'))
  BY DEF PublishToTopic
<1>2. result'.sent \in {<<>>, <<Client!PublishPacket(nextId, 1, FALSE)>>}
  BY <1>1, PublishSends DEF Client!Publish
<1>3. <<Client!PublishPacket(nextId, 1, FALSE)>> # <<>>
  OBVIOUS
<1>4. QED
  BY <1>1, <1>2, <1>3, PublishWire DEF WireOK

LEMMA ReceivedWire ==
    ASSUME WireOK, NEW ok, ReceivePublish(ok)
    PROVE  /\ Head(toDevice).packetId \in PacketIds
           /\ toBroker' \in {toBroker, toBroker \o <<Client!AckPacket("PUBACK", Head(toDevice).packetId)>>}
<1> DEFINE p == Head(toDevice)
<1>1. /\ Receive("PUBLISH") /\ Client!ReceivePublish(p.packetId, 1, p.dup, ok)
      /\ Transmit(OnWire(result'.sent, 0))
  BY DEF ReceivePublish
<1>2. p \in FromBroker /\ p.type = "PUBLISH"
  BY <1>1, HeadTailProperties DEF WireOK, Receive
<1>3. p.packetId \in PacketIds
  BY <1>2 DEF FromBroker
<1> HIDE DEF p
<1>4. result'.sent \in {<<>>, <<Client!AckPacket("PUBACK", p.packetId)>>}
  BY <1>1, ReceivedSends
<1>5. toBroker' \in {toBroker, toBroker \o <<Client!AckPacket("PUBACK", p.packetId)>>}
  BY <1>1, <1>4, AckWire DEF WireOK
<1>6. QED
  BY <1>3, <1>5 DEF p


-----------------------------------------------------------------------------
(* Subscriptions: while the device holds a connection, the requests and    *)
(* their answers on it are for the ids the task remembers, and there are   *)
(* none left over when the next request of their kind is made.             *)
BeforeSubscribe == {"connack", "resend", "subscribe"}
AfterUnsubscribe == {"unsuback", "disconnect"}

OwnRequest(p, sub, unsub) ==
    /\ p.type = sub => p.packetId = subscribeId /\ pc \notin BeforeSubscribe
    /\ p.type = unsub => p.packetId = unsubscribeId /\ pc \in AfterUnsubscribe

Requests ==
    connected =>
        /\ \A p \in ToSet(toBroker) : OwnRequest(p, "SUBSCRIBE", "UNSUBSCRIBE")
        /\ \A p \in ToSet(toDevice) : OwnRequest(p, "SUBACK", "UNSUBACK")

(* A step that asks for nothing.                                           *)
Quiet ==
    /\ connected' => connected
    /\ \A p \in ToSet(toBroker)' : p \in ToSet(toBroker) \/ p.type \notin {"SUBSCRIBE", "UNSUBSCRIBE"}
    /\ ToSet(toDevice)' \subseteq ToSet(toDevice)
    /\ UNCHANGED <<subscribeId, unsubscribeId>>
    /\ pc' \in BeforeSubscribe => pc \in BeforeSubscribe
    /\ pc \in AfterUnsubscribe => pc' \in AfterUnsubscribe

LEMMA QuietStep == Requests /\ Quiet => Requests'
BY DEF Requests, Quiet, OwnRequest

LEMMA TailQuiet ==
    ASSUME WireOK, WireOK', toDevice # <<>>, toDevice' = Tail(toDevice)
    PROVE  ToSet(toDevice)' \subseteq ToSet(toDevice)
<1>1. Without(toDevice, 1, toDevice')
  BY TailWithout DEF WireOK
<1>2. QED
  BY <1>1, WithoutSent DEF WireOK


LEMMA RequestsStep == WireOK /\ IdsOK /\ Control /\ Requests /\ [Next]_vars => Requests'
<1> SUFFICES ASSUME WireOK, IdsOK, Control, Requests, [Next]_vars PROVE Requests'
  OBVIOUS
<1>1. /\ WireOK' /\ toBroker \in Seq(Outbound) /\ toDevice \in Seq(FromBroker)
      /\ pc \in Calls /\ (pc = "offline" => ~ connected)
  BY TaskStep DEF WireOK, Control
<1>2. ASSUME ~ connected' PROVE Requests'
  BY <1>2 DEF Requests
<1>3. CASE Connect
  <2>1. toDevice' = <<>> /\ toBroker' = <<[type |-> "CONNECT", clean |-> ~ sessionSaved]>>
    BY <1>3 DEF Connect, Open
  <2>2. ToSet(toDevice)' = {} /\ \A p \in ToSet(toBroker)' : p.type = "CONNECT"
    BY <2>1 DEF ToSet
  <2>3. QED
    BY <2>2 DEF Requests, OwnRequest
<1>4. CASE ConnackMissed \/ Disconnect \/ ConnectionLost \/ Restart
  <2>1. connected' = FALSE
    BY <1>4 DEF ConnackMissed, Disconnect, ConnectionLost, Restart, Close
  <2>2. QED
    BY <1>2, <2>1
<1>5. CASE ConnackNewSession \/ ConnackSessionPresent
  <2>1. /\ UNCHANGED <<connected, toBroker, subscribeId, unsubscribeId>>
        /\ toDevice # <<>> /\ toDevice' = Tail(toDevice)
        /\ pc = "connack"
    BY <1>5 DEF ConnackNewSession, ConnackSessionPresent, Connack
  <2>2. ToSet(toDevice)' \subseteq ToSet(toDevice)
    BY <1>1, <2>1, TailQuiet
  <2>3. Quiet
    BY <2>1, <2>2 DEF Quiet, BeforeSubscribe, AfterUnsubscribe
  <2>4. QED
    BY <2>3, QuietStep
<1>6. ASSUME NEW ok \in BOOLEAN, ResendStored(ok) PROVE Requests'
  <2>1. UNCHANGED <<connected, toDevice, subscribeId, unsubscribeId, pc>>
    BY <1>6 DEF ResendStored, ResendStep
  <2>2. PICK id, payload : toBroker' \in {toBroker, toBroker \o <<Published(id, payload)>>}
                           /\ id \in PacketIds /\ payload \in Nat
    BY <1>6, ResendWire DEF IdsOK
  <2>3. Published(id, payload) \in Outbound /\ Published(id, payload).type = "PUBLISH"
    BY <2>2 DEF Published, Outbound
  <2>4. ToSet(toBroker)' \subseteq ToSet(toBroker) \cup {Published(id, payload)}
    BY <1>1, <2>2, <2>3, MoreInSet
  <2>5. Quiet
    BY <2>1, <2>3, <2>4 DEF Quiet
  <2>6. QED
    BY <2>5, QuietStep
<1>7. CASE ResendUnknown \/ ResendDone
  <2>1. UNCHANGED <<connected, toDevice, toBroker, subscribeId, unsubscribeId>> /\ pc = "resend"
    BY <1>7 DEF ResendUnknown, ResendDone, ResendStep
  <2>2. Quiet
    BY <2>1 DEF Quiet, BeforeSubscribe, AfterUnsubscribe
  <2>3. QED
    BY <2>2, QuietStep
<1>8. ASSUME NEW type \in {"SUBSCRIBE", "UNSUBSCRIBE"}, NEW id, id \in Ids, NEW ok, NEW next,
             Request(type, id, ok, next)
      PROVE  /\ \A p \in ToSet(toBroker)' : p \in ToSet(toBroker) \/ (p.type = type /\ p.packetId = id)
             /\ pc' \in {next, "disconnect"}
             /\ pc' = "disconnect" \/ failed' = failed
  <2> DEFINE r == [type |-> type, packetId |-> id]
  <2>1. toBroker' \in {toBroker, toBroker \o <<r>>} /\ pc' \in {next, "disconnect"}
    BY <1>8 DEF Request, Transmit, Fail
  <2>2. r \in Outbound /\ r.type = type /\ r.packetId = id
    BY <1>8 DEF Outbound
  <2> HIDE DEF r
  <2>3. ToSet(toBroker)' \subseteq ToSet(toBroker) \cup {r}
    <3>1. ToSet(toBroker \o <<r>>) = ToSet(toBroker) \cup {r}
      BY <1>1, <2>2, MoreInSet
    <3>2. QED
      BY <2>1, <3>1
  <2>4. pc' = "disconnect" \/ failed' = failed
    BY <1>8 DEF Request, Fail
  <2>5. QED
    BY <2>1, <2>2, <2>3, <2>4
<1>9. ASSUME NEW ok \in BOOLEAN, SubscribeToTopic(ok) PROVE Requests'
  <2>1. /\ pc = "subscribe" /\ UNCHANGED <<connected, toDevice, unsubscribeId>>
        /\ subscribeId' = nextId /\ Request("SUBSCRIBE", nextId, ok, "suback") /\ nextId \in Ids
    BY <1>9 DEF SubscribeToTopic, RequestStep, IdsOK, Ids
  <2>2. /\ \A p \in ToSet(toBroker)' :
              p \in ToSet(toBroker) \/ (p.type = "SUBSCRIBE" /\ p.packetId = nextId)
        /\ pc' \in {"suback", "disconnect"}
    BY <1>8, <2>1
  <2>3. QED
    BY <2>1, <2>2 DEF Requests, OwnRequest, BeforeSubscribe, AfterUnsubscribe
<1>10. ASSUME NEW ok \in BOOLEAN, Resubscribe(ok) PROVE Requests'
  <2>1. /\ pc = "resubscribe" /\ UNCHANGED <<connected, toDevice, subscribeId, unsubscribeId>>
        /\ Request("SUBSCRIBE", subscribeId, ok, "resuback") /\ subscribeId \in Ids
    BY <1>10 DEF Resubscribe, RequestStep, IdsOK
  <2>2. /\ \A p \in ToSet(toBroker)' :
              p \in ToSet(toBroker) \/ (p.type = "SUBSCRIBE" /\ p.packetId = subscribeId)
        /\ pc' \in {"resuback", "disconnect"}
    BY <1>8, <2>1
  <2>3. QED
    BY <2>1, <2>2 DEF Requests, OwnRequest, BeforeSubscribe, AfterUnsubscribe
<1>11. ASSUME NEW ok \in BOOLEAN, UnsubscribeFromTopic(ok) PROVE Requests'
  <2>1. /\ pc = "unsubscribe" /\ UNCHANGED <<connected, toDevice, subscribeId>>
        /\ unsubscribeId' = nextId /\ Request("UNSUBSCRIBE", nextId, ok, "unsuback") /\ nextId \in Ids
    BY <1>11 DEF UnsubscribeFromTopic, RequestStep, IdsOK, Ids
  <2>2. /\ \A p \in ToSet(toBroker)' :
              p \in ToSet(toBroker) \/ (p.type = "UNSUBSCRIBE" /\ p.packetId = nextId)
        /\ pc' \in {"unsuback", "disconnect"}
    BY <1>8, <2>1
  <2>3. QED
    BY <2>1, <2>2 DEF Requests, OwnRequest, BeforeSubscribe, AfterUnsubscribe
<1>12. ASSUME NEW ok \in BOOLEAN, PublishToTopic(ok) PROVE Requests'
  <2>1. UNCHANGED <<connected, toDevice, subscribeId, unsubscribeId>> /\ pc = "publish" /\ pc' = "puback"
    BY <1>12 DEF PublishToTopic, PublishStep, RequestStep
  <2>2. nextId \in PacketIds /\ payloads' \in Nat
    BY <1>12 DEF PublishToTopic, IdsOK
  <2>3. toBroker' \in {toBroker, toBroker \o <<Published(nextId, payloads')>>}
    BY <1>12, NewPublishWire
  <2>4. Published(nextId, payloads') \in Outbound /\ Published(nextId, payloads').type = "PUBLISH"
    BY <2>2 DEF Published, Outbound
  <2>5. ToSet(toBroker)' \subseteq ToSet(toBroker) \cup {Published(nextId, payloads')}
    BY <1>1, <2>3, <2>4, MoreInSet
  <2>6. Quiet
    BY <2>1, <2>4, <2>5 DEF Quiet, BeforeSubscribe, AfterUnsubscribe
  <2>7. QED
    BY <2>6, QuietStep
<1>13. CASE PublishTableFull \/ PublishNothing
  <2>1. UNCHANGED <<connected, toDevice, toBroker, subscribeId, unsubscribeId>> /\ pc = "publish" /\ pc' = "puback"
    BY <1>13 DEF PublishTableFull, PublishNothing, PublishStep, RequestStep
  <2>2. Quiet
    BY <2>1 DEF Quiet, BeforeSubscribe, AfterUnsubscribe
  <2>3. QED
    BY <2>2, QuietStep
<1>14. ASSUME NEW ok \in BOOLEAN, ReceivePublish(ok) PROVE Requests'
  <2> DEFINE p == Client!AckPacket("PUBACK", Head(toDevice).packetId)
  <2>1. /\ UNCHANGED <<connected, subscribeId, unsubscribeId>>
        /\ toDevice # <<>> /\ toDevice' = Tail(toDevice)
        /\ pc \in Loops /\ pc' \in {pc, "disconnect"}
    BY <1>14 DEF ReceivePublish, Receive, GoOn, Fail
  <2>2. toBroker' \in {toBroker, toBroker \o <<p>>} /\ p \in Outbound /\ p.type = "PUBACK"
    BY <1>14, ReceivedWire DEF Client!AckPacket, Outbound
  <2> HIDE DEF p
  <2>3. ToSet(toBroker)' \subseteq ToSet(toBroker) \cup {p}
    BY <1>1, <2>2, MoreInSet
  <2>4. ToSet(toDevice)' \subseteq ToSet(toDevice)
    BY <1>1, <2>1, TailQuiet
  <2>5. Quiet
    BY <2>1, <2>2, <2>3, <2>4 DEF Quiet, BeforeSubscribe, AfterUnsubscribe, Loops
  <2>6. QED
    BY <2>5, QuietStep
<1>15. CASE ReceivePuback \/ ReceiveSuback \/ ReceiveUnsuback
  <2>1. /\ UNCHANGED <<connected, toBroker, subscribeId, unsubscribeId>>
        /\ toDevice # <<>> /\ toDevice' = Tail(toDevice)
        /\ pc \in Loops /\ pc' \in {pc, "disconnect"}
    BY <1>15 DEF ReceivePuback, ReceiveSuback, ReceiveUnsuback, Receive, GoOn, Fail
  <2>2. ToSet(toDevice)' \subseteq ToSet(toDevice)
    BY <1>1, <2>1, TailQuiet
  <2>3. Quiet
    BY <2>1, <2>2 DEF Quiet, BeforeSubscribe, AfterUnsubscribe, Loops
  <2>4. QED
    BY <2>3, QuietStep
<1>16. CASE LoopFails \/ SubscribeLoopEnds \/ ResubscribeLoopEnds \/ PublishLoopEnds \/ UnsubscribeLoopEnds
  <2>1. UNCHANGED <<connected, toBroker, toDevice, subscribeId, unsubscribeId>>
    BY <1>16 DEF LoopFails, SubscribeLoopEnds, ResubscribeLoopEnds, PublishLoopEnds,
       UnsubscribeLoopEnds, LoopEnds, LoopStep
  <2>2. /\ pc' \notin BeforeSubscribe
        /\ pc \in AfterUnsubscribe => pc' \in AfterUnsubscribe
    BY <1>16 DEF LoopFails, SubscribeLoopEnds, ResubscribeLoopEnds, PublishLoopEnds,
       UnsubscribeLoopEnds, LoopEnds, Fail, BeforeSubscribe, AfterUnsubscribe
  <2>3. Quiet
    BY <2>1, <2>2 DEF Quiet
  <2>4. QED
    BY <2>3, QuietStep
<1>17. CASE BrokerNext /\ UNCHANGED <<clientVars, taskVars>>
  <2>1. UNCHANGED <<connected, subscribeId, unsubscribeId, pc>>
    BY <1>17, BrokerKeepsLink DEF taskVars
  <2>2. SUFFICES ASSUME connected PROVE Requests'
    BY <1>2, <2>1
  <2>3. ASSUME NEW p \in FromBroker, Answer(<<p>>)
        PROVE  ToSet(toDevice)' = ToSet(toDevice) \cup {p}
    BY <1>1, <2>2, <2>3, MoreInSet DEF Answer
  <2>4. CASE Delivers
    <3>1. \/ toDevice' = toDevice
          \/ \E p \in FromBroker : p.type = "PUBLISH" /\ Answer(<<p>>)
      BY <2>4 DEF Delivers
    <3>2. \A p \in ToSet(toDevice)' : p \in ToSet(toDevice) \/ p.type = "PUBLISH"
      BY <2>3, <3>1
    <3>3. QED
      BY <2>1, <2>4, <3>2 DEF Delivers, Requests, OwnRequest
  <2>5. ASSUME NEW i \in 1 .. Len(toBroker), Takes(i) PROVE Requests'
    <3> DEFINE q == toBroker[i]
    <3>1. Without(toBroker, i, toBroker')
      BY <1>1, <2>5, RemoveAtWithout DEF Takes
    <3>2. ToSet(toBroker)' \subseteq ToSet(toBroker) /\ q \in ToSet(toBroker)
      BY <1>1, <3>1, WithoutSent DEF WireOK
    <3>3. \/ toDevice' = toDevice
          \/ \E p \in FromBroker : AnswerTo(q, p) /\ Answer(<<p>>)
      BY <2>5 DEF Takes
    <3> HIDE DEF q
    <3>4. OwnRequest(q, "SUBSCRIBE", "UNSUBSCRIBE")
      BY <2>2, <3>2 DEF Requests
    <3>5. \A p : AnswerTo(q, p) => OwnRequest(p, "SUBACK", "UNSUBACK")
      BY <3>4 DEF AnswerTo, OwnRequest
    <3>6. \A p \in ToSet(toDevice)' : p \in ToSet(toDevice) \/ OwnRequest(p, "SUBACK", "UNSUBACK")
      BY <2>3, <3>3, <3>5
    <3>7. QED
      BY <2>1, <2>2, <3>2, <3>6 DEF Requests, OwnRequest
  <2>6. QED
    BY <1>17, <2>4, <2>5, BrokerTakes
<1>18. CASE UNCHANGED vars
  BY <1>18 DEF vars, brokerVars, taskVars, Requests, OwnRequest
<1>19. QED
  BY <1>3, <1>4, <1>5, <1>6, <1>7, <1>9, <1>10, <1>11, <1>12, <1>13, <1>14, <1>15, <1>16, <1>17,
     <1>18 DEF Next, Task

(* The assertions of eventCallback hold: no SUBACK or UNSUBACK that is     *)
(* still to be handled is for another request than the latest of its kind, *)
(* whatever is repeated, refused, lost with its connection or late.        *)
THEOREM AnswersAreOwn == Spec => []AnswersMatchRequests
<1>1. Init => Control /\ Requests
  <2>1. Init => Requests
    BY DEF Init, BrokerInit, Requests
  <2>2. QED
    BY <2>1, InitControl
<1>2. WireOK /\ Control /\ Requests => AnswersMatchRequests
  <2> SUFFICES ASSUME WireOK, Control, Requests, NEW i \in 1..Len(toDevice)
               PROVE  /\ toDevice[i].type = "SUBACK" => toDevice[i].packetId = subscribeId
                      /\ toDevice[i].type = "UNSUBACK" => toDevice[i].packetId = unsubscribeId
    BY DEF AnswersMatchRequests
  <2>1. toDevice[i] \in ToSet(toDevice) /\ toDevice # <<>>
    BY DEF WireOK, ToSet
  <2>2. connected
    BY <2>1 DEF Control
  <2>3. QED
    BY <2>1, <2>2 DEF Requests, OwnRequest
<1>3. WireOK /\ IdsOK /\ Control /\ Requests /\ [Next]_vars => Control' /\ Requests'
  BY ControlStep, RequestsStep
<1>4. QED
  BY <1>1, <1>2, <1>3, WireTyped, PTL DEF Spec



-----------------------------------------------------------------------------
(* What the task does to the records of its library, and to the payloads   *)
(* it stores beside them.                                                  *)
Waiting == Library!Waiting
Unsent  == Library!Unsent

LEMMA LibraryPrimed == UNCHANGED outgoing => Waiting' = Waiting /\ Unsent' = Unsent
BY DEF Waiting, Unsent, Library!Waiting, Library!Unsent, Library!Pending, Library!Live

(* Inside the task, the library keeps all that was shown of it: sound      *)
(* arrays of QoS 1 records, one per packet id, and a resend round that     *)
(* never comes back to a packet.                                           *)
THEOREM LibraryInvariant == Spec => []Library!LibInv
<1>1. Init => Library!LibInv
  <2>1. Init => Library!Init
    BY SameActions DEF Init
  <2>2. QED
    BY LibraryConstants, <2>1, Library!LibInit
<1>2. WireOK /\ IdsOK /\ Library!LibInv /\ [Next]_vars => Library!LibInv'
  <2> SUFFICES ASSUME WireOK, IdsOK, Library!LibInv, [Next]_vars PROVE Library!LibInv'
    OBVIOUS
  <2>1. Client!Next \/ UNCHANGED clientVars
    BY TaskStep DEF LibraryStep
  <2>2. [Library!Next]_Library!vars
    BY <2>1, SameNext DEF clientVars, Library!vars
  <2>3. QED
    BY LibraryConstants, <2>2, Library!LibStep
<1>3. QED
  BY <1>1, <1>2, WireTyped, PTL DEF Spec

(* A payload is published ...                                              *)
LEMMA PublishRecorded ==
    ASSUME WireOK, IdsOK, Library!LibInv, NEW ok \in BOOLEAN, PublishToTopic(ok)
    PROVE  \/ /\ result'.sent # <<>>
              /\ nextId \notin Waiting \cup Unsent
              /\ Waiting' = Waiting \cup {nextId} /\ Unsent' = Unsent
              /\ table' = table \cup {[packetId |-> nextId, payload |-> payloads']}
              /\ accepted' = accepted \cup {payloads'}
           \/ /\ result'.sent = <<>>
              /\ Waiting' = Waiting /\ Unsent \subseteq Unsent'
              /\ table' = table /\ accepted' = accepted
<1>1. Library!Publish(nextId, 1, FALSE, ok) /\ nextId \in PacketIds
  BY SameActions DEF PublishToTopic, IdsOK
<1>2. \/ /\ result'.status = "Success" /\ result'.sent # <<>>
         /\ nextId \notin Waiting \cup Unsent
         /\ Waiting' = Waiting \cup {nextId} /\ Unsent' = Unsent
      \/ /\ result'.status # "Success" /\ result'.sent = <<>>
         /\ Waiting' = Waiting /\ Unsent \subseteq Unsent'
  <2>1. \/ /\ result' = Library!Outcome("Success", <<Library!PublishPacket(nextId, 1, FALSE)>>, <<>>)
           /\ nextId \notin Library!Waiting \cup Library!Unsent
           /\ Library!Waiting' = Library!Waiting \cup {nextId} /\ Library!Unsent' = Library!Unsent
        \/ /\ result'.status # "Success" /\ result'.sent = <<>>
           /\ Library!Waiting' = Library!Waiting /\ Library!Unsent \subseteq Library!Unsent'
    BY <1>1, LibraryConstants, Library!PublishEffect
  <2>2. \A p : Library!Outcome("Success", <<p>>, <<>>).status = "Success"
               /\ Library!Outcome("Success", <<p>>, <<>>).sent # <<>>
    BY DEF Library!Outcome
  <2>3. QED
    BY <2>1, <2>2 DEF Waiting, Unsent
<1>3. \/ /\ result'.status = "Success"
         /\ table' = table \cup {[packetId |-> nextId, payload |-> payloads']}
         /\ accepted' = accepted \cup {payloads'}
      \/ /\ result'.status # "Success" /\ table' = table /\ accepted' = accepted
  BY DEF PublishToTopic
<1>4. QED
  BY <1>2, <1>3

(* ... is sent again ...                                                   *)
LEMMA ResendRecorded ==
    ASSUME Library!LibInv, NEW ok \in BOOLEAN, ResendStored(ok)
    PROVE  LET id == Client!Selected.packetId
           IN  /\ id \in Waiting \cup Unsent /\ id \notin resend.given
               /\ resend'.kind = resend.kind /\ resend'.given = resend.given \cup {id}
               /\ \/ result'.sent # <<>> /\ Waiting' = Waiting \cup {id} /\ Unsent' = Unsent \ {id}
                  \/ result'.sent = <<>> /\ Waiting' = Waiting /\ Unsent \subseteq Unsent'
<1> DEFINE id == Library!Selected.packetId
<1>1. Library!ResendPublish(ok) /\ Client!Selected.packetId = id
  BY SameActions, SameSelection DEF ResendStored
<1>2. /\ id \in Library!Waiting \cup Library!Unsent /\ id \notin resend.given
      /\ resend'.kind = resend.kind /\ resend'.given = resend.given \cup {id}
      /\ \/ /\ result' = Library!Outcome("Success", <<Library!PublishPacket(id, 1, TRUE)>>, <<>>)
            /\ Library!Waiting' = Library!Waiting \cup {id}
            /\ Library!Unsent' = Library!Unsent \ {id}
         \/ /\ result'.status # "Success" /\ result'.sent = <<>>
            /\ Library!Waiting' = Library!Waiting /\ Library!Unsent \subseteq Library!Unsent'
  BY <1>1, LibraryConstants, Library!ResendEffect
<1> HIDE DEF id
<1>3. \A p : Library!Outcome("Success", <<p>>, <<>>).sent # <<>>
  BY DEF Library!Outcome
<1>4. QED
  BY <1>1, <1>2, <1>3 DEF Waiting, Unsent

(* ... and acknowledged.                                                   *)
LEMMA PubackRecorded ==
    ASSUME WireOK, Library!LibInv, ReceivePuback
    PROVE  LET id == Head(toDevice).packetId
           IN  \/ /\ id \in Waiting /\ Waiting' = Waiting \ {id} /\ Unsent' = Unsent \ {id}
                  /\ table' = Cleanup(id)
               \/ /\ id \notin Waiting /\ Waiting' = Waiting /\ Unsent' = Unsent
                  /\ table' = table
<1> DEFINE id == Head(toDevice).packetId
<1>1. /\ Receive("PUBACK") /\ Client!ReceiveOutgoingAck("PUBACK", id, TRUE)
      /\ table' = IF result'.event # <<>> THEN Cleanup(id) ELSE table
  BY DEF ReceivePuback
<1>2. Head(toDevice) \in FromBroker /\ Head(toDevice).type = "PUBACK"
  BY <1>1, HeadTailProperties DEF Receive, WireOK
<1>3. id \in PacketIds
  BY <1>2 DEF FromBroker
<1> HIDE DEF id
<1>4. Library!ReceiveOutgoingAck("PUBACK", id, TRUE) /\ "PUBACK" \in Library!AckTypes
  BY <1>1, SameActions DEF Library!AckTypes
<1>5. \/ /\ id \in Library!Waiting
         /\ result' = Library!Outcome("Success", <<>>, <<Library!AckPacket("PUBACK", id)>>)
         /\ Library!Waiting' = Library!Waiting \ {id} /\ Library!Unsent' = Library!Unsent \ {id}
      \/ /\ id \notin Library!Waiting /\ result'.event = <<>> /\ outgoing' = outgoing
  BY <1>3, <1>4, LibraryConstants, Library!AckEffect
<1>6. \A p : Library!Outcome("Success", <<>>, <<p>>).event # <<>>
  BY DEF Library!Outcome
<1>7. \/ /\ id \in Waiting /\ Waiting' = Waiting \ {id} /\ Unsent' = Unsent \ {id}
         /\ table' = Cleanup(id)
      \/ /\ id \notin Waiting /\ Waiting' = Waiting /\ Unsent' = Unsent
         /\ table' = table
  BY <1>1, <1>5, <1>6, LibraryPrimed DEF Waiting, Unsent
<1>8. QED
  BY <1>7 DEF id


(* No other step touches the outgoing records and keeps the table.         *)
LEMMA RecordChanges ==
    [Next]_vars =>
        \/ UNCHANGED <<outgoing, table>>
        \/ table' = {}
        \/ ReceivePuback
        \/ \E ok \in BOOLEAN : PublishToTopic(ok) \/ ResendStored(ok)
<1> SUFFICES ASSUME [Next]_vars
             PROVE  \/ UNCHANGED <<outgoing, table>>
                    \/ table' = {}
                    \/ ReceivePuback
                    \/ \E ok \in BOOLEAN : PublishToTopic(ok) \/ ResendStored(ok)
  OBVIOUS
<1>1. CASE Connect \/ ConnackMissed
  BY <1>1 DEF Connect, ConnackMissed, clientVars
<1>2. CASE ConnackNewSession \/ Restart
  BY <1>2 DEF ConnackNewSession, Restart
<1>3. CASE ConnackSessionPresent
  BY <1>3 DEF ConnackSessionPresent, Client!ConnectSessionPresent
<1>4. CASE ResendUnknown \/ ResendDone
  BY <1>4 DEF ResendUnknown, ResendDone, ResendStep, Client!ResendAbandon, Client!ResendEnd
<1>5. ASSUME NEW ok, SubscribeToTopic(ok) \/ Resubscribe(ok) \/ UnsubscribeFromTopic(ok)
      PROVE  UNCHANGED <<outgoing, table>>
  BY <1>5 DEF SubscribeToTopic, Resubscribe, UnsubscribeFromTopic, clientVars
<1>6. CASE PublishTableFull \/ PublishNothing
  BY <1>6 DEF PublishTableFull, PublishNothing, clientVars
<1>7. ASSUME NEW ok, ReceivePublish(ok) PROVE UNCHANGED <<outgoing, table>>
  BY <1>7 DEF ReceivePublish, Client!ReceivePublish
<1>8. CASE ReceiveSuback \/ ReceiveUnsuback
  BY <1>8 DEF ReceiveSuback, ReceiveUnsuback, clientVars
<1>9. CASE LoopFails \/ SubscribeLoopEnds \/ ResubscribeLoopEnds \/ PublishLoopEnds \/ UnsubscribeLoopEnds
  BY <1>9 DEF LoopFails, SubscribeLoopEnds, ResubscribeLoopEnds, PublishLoopEnds,
     UnsubscribeLoopEnds, LoopEnds, LoopStep, clientVars
<1>10. CASE Disconnect \/ ConnectionLost
  BY <1>10 DEF Disconnect, ConnectionLost, Client!LinkDown, clientVars, taskVars
<1>11. CASE (BrokerNext /\ UNCHANGED <<clientVars, taskVars>>) \/ UNCHANGED vars
  BY <1>11 DEF vars, clientVars, taskVars
<1>12. QED
  BY <1>1, <1>2, <1>3, <1>4, <1>5, <1>6, <1>7, <1>8, <1>9, <1>10, <1>11 DEF Next, Task

Backed ==
    /\ \A e \in table : e.packetId \in Waiting \cup Unsent
    /\ \A e, f \in table : e.packetId = f.packetId => e = f

LEMMA BackedStep == WireOK /\ IdsOK /\ Library!LibInv /\ Backed /\ [Next]_vars => Backed'
<1> SUFFICES ASSUME WireOK, IdsOK, Library!LibInv, Backed, [Next]_vars PROVE Backed'
  OBVIOUS
<1>1. CASE UNCHANGED <<outgoing, table>>
  BY <1>1, LibraryPrimed DEF Backed
<1>2. CASE table' = {}
  BY <1>2 DEF Backed
<1>3. ASSUME NEW ok \in BOOLEAN, ResendStored(ok) PROVE Backed'
  <2>1. table' = table
    BY <1>3 DEF ResendStored, ResendStep
  <2>2. Waiting \cup Unsent \subseteq Waiting' \cup Unsent'
    BY <1>3, ResendRecorded
  <2>3. QED
    BY <2>1, <2>2 DEF Backed
<1>4. ASSUME NEW ok \in BOOLEAN, PublishToTopic(ok) PROVE Backed'
  <2> DEFINE entry == [packetId |-> nextId, payload |-> payloads']
  <2>1. \/ /\ nextId \notin Waiting \cup Unsent
           /\ Waiting' = Waiting \cup {nextId} /\ Unsent' = Unsent
           /\ table' = table \cup {entry}
        \/ Waiting' = Waiting /\ Unsent \subseteq Unsent' /\ table' = table
    BY <1>4, PublishRecorded
  <2>2. entry.packetId = nextId
    OBVIOUS
  <2> HIDE DEF entry
  <2>3. QED
    BY <2>1, <2>2 DEF Backed
<1>5. CASE ReceivePuback
  <2> DEFINE id == Head(toDevice).packetId
  <2>1. \/ Waiting' = Waiting \ {id} /\ Unsent' = Unsent \ {id} /\ table' = Cleanup(id)
        \/ Waiting' = Waiting /\ Unsent' = Unsent /\ table' = table
    BY <1>5, PubackRecorded
  <2> HIDE DEF id
  <2>2. /\ Cleanup(id) \subseteq table
        /\ Stored(id) => \E e \in table : e.packetId = id /\ Cleanup(id) = table \ {e}
    BY CleanupRemoves
  <2>3. \A e \in Cleanup(id) : e.packetId # id
    BY <2>2 DEF Backed, Stored
  <2>4. QED
    BY <2>1, <2>2, <2>3 DEF Backed
<1>6. QED
  BY <1>1, <1>2, <1>3, <1>4, <1>5, RecordChanges

(* The table and the records stay in step: every stored payload has the    *)
(* one record that makes the library ask for it again, and no two stored   *)
(* payloads have the same packet id, however often ids wrapped, sends      *)
(* failed, or rounds of resending broke off.                               *)
THEOREM StoredPayloadsRecorded == Spec => []StoredHasRecord
<1>1. Init => Backed
  BY DEF Init, Backed
<1>2. Library!LibInv /\ Backed => StoredHasRecord
  <2> SUFFICES ASSUME Library!LibInv, Backed PROVE StoredHasRecord
    OBVIOUS
  <2>1. 1 \in PacketIds
    BY BoundsAssumption DEF PacketIds
  <2>2. Library!QoS1Only(outgoing)
    BY DEF Library!LibInv
  <2>3. Library!Standing(outgoing, Library!PublishResendStates) =
            Library!Standing(outgoing, {"PublishSend"}) \cup Library!Standing(outgoing, {"PubAckPending"})
    BY <2>1, <2>2, LibraryConstants, Library!HeldOnQoS1
  <2>4. \A states : Library!Pending(states) = Library!Standing(outgoing, states)
    BY LibraryConstants, Library!PendingStanding
  <2>5. Client!PublishResendStates = Library!PublishResendStates
    BY DEF Client!PublishResendStates, Library!PublishResendStates
  <2>6. Client!Pending(Client!PublishResendStates) = Waiting \cup Unsent
    BY <2>3, <2>4, <2>5, SameSelection DEF Waiting, Unsent, Library!Waiting, Library!Unsent
  <2>7. QED
    BY <2>6 DEF Backed, StoredHasRecord
<1>3. WireOK /\ IdsOK /\ Library!LibInv /\ Backed /\ [Next]_vars => Backed'
  BY BackedStep
<1>4. QED
  BY <1>1, <1>2, <1>3, WireTyped, LibraryInvariant, PTL DEF Spec



-----------------------------------------------------------------------------
(* The publishes on a connection.  Each packet id is on it once, as a      *)
(* PUBLISH or as its PUBACK; its record waits for that PUBACK; a           *)
(* connection starts without any, and while a round of resending runs, the *)
(* ids on it are those the round has been given.                           *)
InFlight == Sent(toBroker, "PUBLISH") \cup Sent(toDevice, "PUBACK")

OneEach ==
    /\ Once(toBroker, "PUBLISH") /\ Once(toDevice, "PUBACK")
    /\ Sent(toBroker, "PUBLISH") \cap Sent(toDevice, "PUBACK") = {}

Flight ==
    /\ connected =>
          /\ OneEach
          /\ InFlight \subseteq Waiting
          /\ pc = "connack" => InFlight = {}
          /\ resend.kind # "idle" => InFlight \subseteq resend.given
    /\ resend.kind = "pubrel" => resend.given = {}

LEMMA ResendRounds ==
    /\ Client!Idle.kind = "idle" /\ Client!Idle.given = {}
    /\ \A kind : Client!Loop(kind).kind = kind /\ Client!Loop(kind).given = {}
BY DEF Client!Idle, Client!Loop

(* A step that sends no publish and learns of no PUBACK.                   *)
Calm ==
    /\ connected' => connected
    /\ Once(toBroker, "PUBLISH") => Once(toBroker, "PUBLISH")'
    /\ Once(toDevice, "PUBACK") => Once(toDevice, "PUBACK")'
    /\ Sent(toBroker, "PUBLISH")' \subseteq Sent(toBroker, "PUBLISH")
    /\ Sent(toDevice, "PUBACK")' \subseteq Sent(toDevice, "PUBACK")
    /\ connected => InFlight' \subseteq Waiting'
    /\ pc' = "connack" => pc = "connack"
    /\ resend' \in {resend, Client!Idle}

LEMMA CalmStep == Flight /\ Calm => Flight'
<1> SUFFICES ASSUME Flight, Calm PROVE Flight'
  OBVIOUS
<1>1. InFlight' \subseteq InFlight
  BY DEF Calm, InFlight
<1>2. resend' = resend \/ (resend'.kind = "idle" /\ resend'.given = {})
  BY ResendRounds DEF Calm
<1>3. OneEach => OneEach'
  BY DEF OneEach, Calm
<1>4. connected' =>
          /\ OneEach' /\ InFlight' \subseteq Waiting'
          /\ pc' = "connack" => InFlight' = {}
          /\ resend'.kind # "idle" => InFlight' \subseteq resend'.given
  BY <1>1, <1>2, <1>3 DEF Flight, Calm
<1>5. resend'.kind = "pubrel" => resend'.given = {}
  BY <1>2 DEF Flight
<1>6. QED
  BY <1>4, <1>5 DEF Flight

(* The two ways the sequences of packets change in such a step.            *)
LEMMA CalmToBroker ==
    ASSUME WireOK, NEW p \in Outbound, p.type # "PUBLISH", toBroker' \in {toBroker, toBroker \o <<p>>}
    PROVE  /\ Once(toBroker, "PUBLISH") => Once(toBroker, "PUBLISH")'
           /\ Sent(toBroker, "PUBLISH")' = Sent(toBroker, "PUBLISH")
<1>1. CASE toBroker' = toBroker
  BY <1>1 DEF Once, Sent
<1>2. CASE toBroker' = toBroker \o <<p>>
  <2> DEFINE more == toBroker \o <<p>>
  <2>1. toBroker \in Seq(Outbound)
    BY DEF WireOK
  <2>2. \A type : /\ p.type # type => Sent(more, type) = Sent(toBroker, type)
                  /\ p.type # type /\ Once(toBroker, type) => Once(more, type)
    BY <2>1, MoreSent, MoreOnce
  <2> HIDE DEF more
  <2>3. /\ Sent(more, "PUBLISH") = Sent(toBroker, "PUBLISH")
        /\ Once(toBroker, "PUBLISH") => Once(more, "PUBLISH")
    BY <2>2
  <2>4. Sent(toBroker, "PUBLISH")' = Sent(more, "PUBLISH") /\ (Once(toBroker, "PUBLISH")' <=> Once(more, "PUBLISH"))
    BY <1>2 DEF Sent, Once, more
  <2>5. QED
    BY <2>3, <2>4
<1>3. QED
  BY <1>1, <1>2

LEMMA CalmToDevice ==
    ASSUME WireOK, WireOK', toDevice # <<>>, toDevice' = Tail(toDevice)
    PROVE  /\ Once(toDevice, "PUBACK") => Once(toDevice, "PUBACK")'
           /\ Sent(toDevice, "PUBACK")' \subseteq Sent(toDevice, "PUBACK")
           /\ Once(toDevice, "PUBACK") /\ Head(toDevice).type = "PUBACK" =>
                 /\ Head(toDevice).packetId \in Sent(toDevice, "PUBACK")
                 /\ Head(toDevice).packetId \notin Sent(toDevice, "PUBACK")'
<1> DEFINE rest == Tail(toDevice)
<1>1. Without(toDevice, 1, rest) /\ rest \in Seq(FromBroker) /\ toDevice \in Seq(FromBroker)
  BY TailWithout DEF WireOK
<1> HIDE DEF rest
<1>2. /\ Once(toDevice, "PUBACK") => Once(rest, "PUBACK")
      /\ Sent(rest, "PUBACK") \subseteq Sent(toDevice, "PUBACK")
      /\ Once(toDevice, "PUBACK") /\ toDevice[1].type = "PUBACK" =>
            toDevice[1].packetId \notin Sent(rest, "PUBACK")
      /\ toDevice[1] \in ToSet(toDevice)
  BY <1>1, WithoutSent
<1>3. toDevice[1] = Head(toDevice)
  BY <1>1, HeadTailProperties
<1>4. Sent(toDevice, "PUBACK")' = Sent(rest, "PUBACK") /\ (Once(toDevice, "PUBACK")' <=> Once(rest, "PUBACK"))
  BY DEF Sent, Once, rest
<1>5. toDevice[1].type = "PUBACK" => toDevice[1].packetId \in Sent(toDevice, "PUBACK")
  BY <1>2 DEF Sent
<1>6. QED
  BY <1>2, <1>3, <1>4, <1>5


(* A publish more, of an id that is not on the connection.                 *)
LEMMA PublishFlies ==
    ASSUME WireOK, NEW id \in PacketIds, NEW payload \in Nat, id \notin InFlight, OneEach,
           toBroker' = toBroker \o <<Published(id, payload)>>, toDevice' = toDevice
    PROVE  OneEach' /\ InFlight' = InFlight \cup {id}
<1> DEFINE p == Published(id, payload)
<1>1. p \in Outbound /\ p.type = "PUBLISH" /\ p.packetId = id
  BY DEF Published, Outbound
<1>2. toBroker \in Seq(Outbound) /\ id \notin Sent(toBroker, "PUBLISH") /\ Once(toBroker, "PUBLISH")
  BY DEF WireOK, InFlight, OneEach
<1> HIDE DEF p
<1>3. \A type : type = p.type => Sent(toBroker \o <<p>>, type) = Sent(toBroker, type) \cup {p.packetId}
  BY <1>1, <1>2, MoreSent
<1>4. \A type : /\ type = p.type /\ Once(toBroker, type) /\ p.packetId \notin Sent(toBroker, type)
                   => Once(toBroker \o <<p>>, type)
  BY <1>1, <1>2, MoreOnce
<1> DEFINE more == toBroker \o <<p>>
<1>5. Sent(more, "PUBLISH") = Sent(toBroker, "PUBLISH") \cup {id} /\ Once(more, "PUBLISH")
  BY <1>1, <1>2, <1>3, <1>4
<1>6. toBroker' = more
  BY DEF p
<1> HIDE DEF more
<1>7. Sent(toBroker, "PUBLISH")' = Sent(toBroker, "PUBLISH") \cup {id} /\ Once(toBroker, "PUBLISH")'
  BY <1>5, <1>6 DEF Sent, Once
<1>8. Sent(toDevice, "PUBACK")' = Sent(toDevice, "PUBACK") /\ (Once(toDevice, "PUBACK")' <=> Once(toDevice, "PUBACK"))
  BY DEF Sent, Once
<1>9. QED
  BY <1>7, <1>8 DEF InFlight, OneEach

(* The broker takes a packet, and answers a publish with its PUBACK.       *)
LEMMA TakenFlies ==
    ASSUME WireOK, WireOK', NEW i \in 1 .. Len(toBroker), Takes(i), connected, OneEach
    PROVE  OneEach' /\ InFlight' \subseteq InFlight
<1> DEFINE q == toBroker[i]
           rest == RemoveAt(toBroker, i)
<1>1. /\ toBroker \in Seq(Outbound) /\ rest \in Seq(Outbound) /\ toDevice \in Seq(FromBroker)
      /\ Without(toBroker, i, rest) /\ toBroker' = rest
  BY RemoveAtWithout DEF WireOK, Takes
<1>2. \/ toDevice' = toDevice
      \/ \E p \in FromBroker : AnswerTo(q, p) /\ toDevice' = toDevice \o <<p>>
  BY DEF Takes, Answer
<1> HIDE DEF q, rest
<1>3. /\ Sent(rest, "PUBLISH") \subseteq Sent(toBroker, "PUBLISH")
      /\ Once(rest, "PUBLISH")
      /\ q.type = "PUBLISH" => q.packetId \notin Sent(rest, "PUBLISH")
      /\ q \in ToSet(toBroker)
  BY <1>1, WithoutSent DEF OneEach, q
<1>4. q.type = "PUBLISH" => q.packetId \in Sent(toBroker, "PUBLISH")
  BY <1>3 DEF Sent
<1>5. Sent(toBroker, "PUBLISH")' = Sent(rest, "PUBLISH") /\ (Once(toBroker, "PUBLISH")' <=> Once(rest, "PUBLISH"))
  BY <1>1 DEF Sent, Once
<1>6. CASE toDevice' = toDevice
  <2>1. Sent(toDevice, "PUBACK")' = Sent(toDevice, "PUBACK") /\ (Once(toDevice, "PUBACK")' <=> Once(toDevice, "PUBACK"))
    BY <1>6 DEF Sent, Once
  <2>2. QED
    BY <1>3, <1>5, <2>1 DEF OneEach, InFlight
<1>7. ASSUME NEW p \in FromBroker, AnswerTo(q, p), toDevice' = toDevice \o <<p>>
      PROVE  OneEach' /\ InFlight' \subseteq InFlight
  <2> DEFINE more == toDevice \o <<p>>
  <2>1. \A type : type = p.type => Sent(more, type) = Sent(toDevice, type) \cup {p.packetId}
    BY <1>1, MoreSent
  <2>2. \A type : type # p.type => Sent(more, type) = Sent(toDevice, type)
    BY <1>1, MoreSent
  <2>3. \A type : Once(toDevice, type) /\ (type = p.type => p.packetId \notin Sent(toDevice, type))
                     => Once(more, type)
    BY <1>1, MoreOnce
  <2>4. toDevice' = more
    BY <1>7
  <2> HIDE DEF more
  <2>5. Sent(toDevice, "PUBACK")' = Sent(more, "PUBACK") /\ (Once(toDevice, "PUBACK")' <=> Once(more, "PUBACK"))
    BY <2>4 DEF Sent, Once
  <2>6. CASE p.type = "PUBACK"
    <3>1. q.type = "PUBLISH" /\ p.packetId = q.packetId
      BY <1>7, <2>6 DEF AnswerTo
    <3>2. p.packetId \notin Sent(toDevice, "PUBACK") /\ p.packetId \in Sent(toBroker, "PUBLISH")
      BY <1>4, <3>1 DEF OneEach
    <3>3. Sent(more, "PUBACK") = Sent(toDevice, "PUBACK") \cup {p.packetId}
      BY <2>1, <2>6
    <3>4. Once(more, "PUBACK")
      BY <2>3, <3>2 DEF OneEach
    <3>5. QED
      BY <1>3, <1>5, <2>5, <3>1, <3>2, <3>3, <3>4 DEF OneEach, InFlight
  <2>7. CASE p.type # "PUBACK"
    <3>1. Sent(more, "PUBACK") = Sent(toDevice, "PUBACK")
      BY <2>2, <2>7
    <3>2. Once(more, "PUBACK")
      BY <2>3, <2>7 DEF OneEach
    <3>3. QED
      BY <1>3, <1>5, <2>5, <3>1, <3>2 DEF OneEach, InFlight
  <2>8. QED
    BY <2>6, <2>7
<1>8. QED
  BY <1>2, <1>6, <1>7

(* ... or sends the device something else.                                 *)
LEMMA DeliveredFlies ==
    ASSUME WireOK, Delivers, connected, OneEach
    PROVE  OneEach' /\ InFlight' = InFlight
<1>1. /\ toDevice \in Seq(FromBroker) /\ toBroker' = toBroker
      /\ \/ toDevice' = toDevice
         \/ \E p \in FromBroker : p.type = "PUBLISH" /\ toDevice' = toDevice \o <<p>>
  BY DEF WireOK, Delivers, Answer
<1>2. Sent(toBroker, "PUBLISH")' = Sent(toBroker, "PUBLISH") /\ (Once(toBroker, "PUBLISH")' <=> Once(toBroker, "PUBLISH"))
  BY <1>1 DEF Sent, Once
<1>3. CASE toDevice' = toDevice
  <2>1. Sent(toDevice, "PUBACK")' = Sent(toDevice, "PUBACK") /\ (Once(toDevice, "PUBACK")' <=> Once(toDevice, "PUBACK"))
    BY <1>3 DEF Sent, Once
  <2>2. QED
    BY <1>2, <2>1 DEF OneEach, InFlight
<1>4. ASSUME NEW p \in FromBroker, p.type = "PUBLISH", toDevice' = toDevice \o <<p>>
      PROVE  OneEach' /\ InFlight' = InFlight
  <2> DEFINE more == toDevice \o <<p>>
  <2>1. \A type : /\ type # p.type => Sent(more, type) = Sent(toDevice, type)
                  /\ type # p.type /\ Once(toDevice, type) => Once(more, type)
    BY <1>1, MoreSent, MoreOnce
  <2>2. toDevice' = more
    BY <1>4
  <2> HIDE DEF more
  <2>3. Sent(toDevice, "PUBACK")' = Sent(more, "PUBACK") /\ (Once(toDevice, "PUBACK")' <=> Once(more, "PUBACK"))
    BY <2>2 DEF Sent, Once
  <2>4. Sent(more, "PUBACK") = Sent(toDevice, "PUBACK") /\ Once(more, "PUBACK")
    BY <1>4, <2>1 DEF OneEach
  <2>5. QED
    BY <1>2, <2>3, <2>4 DEF OneEach, InFlight
<1>5. QED
  BY <1>1, <1>3, <1>4


LEMMA FlightStep ==
    WireOK /\ IdsOK /\ Control /\ Library!LibInv /\ Flight /\ [Next]_vars => Flight'
<1> SUFFICES ASSUME WireOK, IdsOK, Control, Library!LibInv, Flight, [Next]_vars PROVE Flight'
  OBVIOUS
<1>1. WireOK' /\ toBroker \in Seq(Outbound) /\ toDevice \in Seq(FromBroker)
  BY TaskStep DEF WireOK
<1>2. connected \/ toDevice = <<>>
  BY DEF Control
<1>3. UNCHANGED toBroker => /\ Once(toBroker, "PUBLISH") => Once(toBroker, "PUBLISH")'
                            /\ Sent(toBroker, "PUBLISH")' = Sent(toBroker, "PUBLISH")
  BY DEF Once, Sent
<1>4. UNCHANGED toDevice => /\ Once(toDevice, "PUBACK") => Once(toDevice, "PUBACK")'
                            /\ Sent(toDevice, "PUBACK")' = Sent(toDevice, "PUBACK")
  BY DEF Once, Sent
<1>5. ASSUME ~ connected', resend' \in {resend, Client!Idle} PROVE Flight'
  BY <1>5, ResendRounds DEF Flight
(* What leaves the records alone and sends no publish.                     *)
<1>6. ASSUME connected' = connected, UNCHANGED outgoing, resend' \in {resend, Client!Idle},
             pc' # "connack",
             UNCHANGED toBroker \/ (\E p \in Outbound : p.type # "PUBLISH" /\ toBroker' \in {toBroker, toBroker \o <<p>>}),
             UNCHANGED toDevice \/ (toDevice # <<>> /\ toDevice' = Tail(toDevice))
      PROVE  Flight'
  <2>1. /\ Once(toBroker, "PUBLISH") => Once(toBroker, "PUBLISH")'
        /\ Sent(toBroker, "PUBLISH")' = Sent(toBroker, "PUBLISH")
    BY <1>3, <1>6, CalmToBroker
  <2>2. /\ Once(toDevice, "PUBACK") => Once(toDevice, "PUBACK")'
        /\ Sent(toDevice, "PUBACK")' \subseteq Sent(toDevice, "PUBACK")
    BY <1>1, <1>4, <1>6, CalmToDevice
  <2>3. connected => InFlight' \subseteq Waiting'
    BY <1>6, <2>1, <2>2, LibraryPrimed DEF Flight, InFlight
  <2>4. Calm
    BY <1>6, <2>1, <2>2, <2>3 DEF Calm
  <2>5. QED
    BY <2>4, CalmStep
<1>7. CASE Connect
  <2>1. /\ toDevice' = <<>> /\ toBroker' = <<[type |-> "CONNECT", clean |-> ~ sessionSaved]>>
        /\ UNCHANGED <<resend, outgoing>>
    BY <1>7 DEF Connect, Open, clientVars
  <2> DEFINE p == [type |-> "CONNECT", clean |-> ~ sessionSaved]
  <2>2. p.type # "PUBLISH" /\ toBroker' = <<p>>
    BY <2>1
  <2> HIDE DEF p
  <2>3. /\ \A i \in 1..Len(toBroker') : toBroker'[i].type # "PUBLISH"
        /\ \A q \in ToSet(toBroker') : q.type # "PUBLISH"
        /\ ToSet(toDevice') = {} /\ Len(toDevice') = 0
    BY <2>1, <2>2 DEF ToSet
  <2>4. Sent(toBroker, "PUBLISH")' = {} /\ Sent(toDevice, "PUBACK")' = {}
    BY <2>3 DEF Sent
  <2>5. Once(toBroker, "PUBLISH")' /\ Once(toDevice, "PUBACK")'
    BY <2>3 DEF Once
  <2>6. QED
    BY <2>1, <2>4, <2>5 DEF Flight, OneEach, InFlight
<1>8. CASE ConnackMissed \/ Disconnect \/ ConnectionLost \/ Restart
  <2>1. ~ connected'
    <3>1. connected' = FALSE
      BY <1>8 DEF ConnackMissed, Disconnect, ConnectionLost, Restart, Close
    <3>2. QED
      BY <3>1
  <2>2. resend' \in {resend, Client!Idle}
    BY <1>8 DEF ConnackMissed, Disconnect, ConnectionLost, Restart, clientVars, Client!LinkDown,
       Client!Restart
  <2>3. QED
    BY <1>5, <2>1, <2>2
<1>9. CASE ConnackNewSession \/ ConnackSessionPresent
  <2>1. /\ UNCHANGED <<connected, toBroker>> /\ toDevice # <<>> /\ toDevice' = Tail(toDevice)
        /\ pc = "connack" /\ pc' # "connack"
        /\ resend' = resend \/ resend' = Client!Loop("pubrel")
    BY <1>9 DEF ConnackNewSession, ConnackSessionPresent, Connack, Client!ConnectNewSession,
       Client!ConnectSessionPresent
  <2>2. connected /\ InFlight = {} /\ OneEach
    BY <1>2, <2>1 DEF Flight
  <2>3. /\ Once(toDevice, "PUBACK") => Once(toDevice, "PUBACK")'
        /\ Sent(toDevice, "PUBACK")' \subseteq Sent(toDevice, "PUBACK")
    BY <1>1, <2>1, CalmToDevice
  <2>4. OneEach' /\ InFlight' = {}
    BY <1>3, <2>1, <2>2, <2>3 DEF OneEach, InFlight
  <2>5. resend'.kind = "pubrel" => resend'.given = {}
    BY <2>1, ResendRounds DEF Flight
  <2>6. QED
    BY <2>4, <2>5 DEF Flight
<1>10. ASSUME NEW ok \in BOOLEAN, ResendStored(ok) PROVE Flight'
  <2> DEFINE id == Client!Selected.packetId
  <2>1. /\ id \in PacketIds /\ PayloadOf(id) \in Nat
        /\ \/ result'.sent = <<>> /\ toBroker' = toBroker
           \/ result'.sent # <<>> /\ toBroker' = toBroker \o <<Published(id, PayloadOf(id))>>
    BY <1>10, ResendWire DEF IdsOK
  <2>2. /\ id \notin resend.given
        /\ resend'.kind = resend.kind /\ resend'.given = resend.given \cup {id}
        /\ \/ result'.sent # <<>> /\ Waiting' = Waiting \cup {id}
           \/ result'.sent = <<>> /\ Waiting' = Waiting
    BY <1>10, ResendRecorded
  <2>3. UNCHANGED <<connected, toDevice, pc>> /\ pc = "resend" /\ resend.kind = "publish"
    BY <1>10 DEF ResendStored, ResendStep, Client!ResendPublish
  <2> HIDE DEF id
  <2>4. CASE ~ connected
    BY <2>2, <2>3, <2>4 DEF Flight
  <2>5. CASE connected /\ result'.sent = <<>>
    <3>1. OneEach' /\ InFlight' = InFlight
      BY <1>3, <1>4, <2>1, <2>3, <2>5 DEF Flight, OneEach, InFlight
    <3>2. QED
      BY <2>2, <2>3, <2>5, <3>1 DEF Flight
  <2>6. CASE connected /\ result'.sent # <<>>
    <3>1. id \notin InFlight /\ OneEach
      BY <2>2, <2>3, <2>6 DEF Flight
    <3>2. OneEach' /\ InFlight' = InFlight \cup {id}
      BY <2>1, <2>3, <2>6, <3>1, PublishFlies
    <3>3. QED
      BY <2>2, <2>3, <2>6, <3>2 DEF Flight
  <2>7. QED
    BY <2>4, <2>5, <2>6
<1>11. CASE ResendUnknown
  <2>1. /\ UNCHANGED <<connected, toBroker, toDevice, outgoing>>
        /\ resend' = Client!Idle /\ pc' # "connack"
    BY <1>11 DEF ResendUnknown, ResendStep, Client!ResendAbandon, Fail
  <2>2. QED
    BY <1>6, <2>1
<1>12. CASE ResendDone
  <2>1. /\ UNCHANGED <<connected, toBroker, toDevice, outgoing>> /\ pc' # "connack"
        /\ \/ resend' = Client!Idle
           \/ resend.kind = "pubrel" /\ resend' = Client!Loop("publish")
    BY <1>12 DEF ResendDone, ResendStep, Client!ResendEnd
  <2>2. CASE resend' = Client!Idle
    BY <1>6, <2>1, <2>2
  <2>3. CASE resend.kind = "pubrel" /\ resend' = Client!Loop("publish")
    <3>1. resend.given = {} /\ resend'.given = {} /\ resend'.kind = "publish" /\ resend.kind # "idle"
      BY <2>3, ResendRounds DEF Flight
    <3>2. Waiting' = Waiting /\ (OneEach => OneEach') /\ InFlight' = InFlight
      BY <1>3, <1>4, <2>1, LibraryPrimed DEF OneEach, InFlight
    <3>3. QED
      BY <2>1, <3>1, <3>2 DEF Flight
  <2>4. QED
    BY <2>1, <2>2, <2>3
<1>13. ASSUME NEW ok \in BOOLEAN, SubscribeToTopic(ok) \/ Resubscribe(ok) \/ UnsubscribeFromTopic(ok)
       PROVE  Flight'
  <2>1. UNCHANGED <<connected, toDevice, outgoing, resend>>
    BY <1>13 DEF SubscribeToTopic, Resubscribe, UnsubscribeFromTopic, RequestStep, clientVars
  <2>2. nextId \in Ids /\ subscribeId \in Ids
    BY DEF IdsOK, Ids
  <2>3. PICK type \in {"SUBSCRIBE", "UNSUBSCRIBE"}, id \in Ids :
            \E next \in {"suback", "resuback", "unsuback"} : Request(type, id, ok, next)
    BY <1>13, <2>2 DEF SubscribeToTopic, Resubscribe, UnsubscribeFromTopic
  <2> DEFINE p == [type |-> type, packetId |-> id]
  <2>4. toBroker' \in {toBroker, toBroker \o <<p>>} /\ pc' # "connack"
    BY <2>3 DEF Request, Transmit, Fail
  <2>5. p \in Outbound /\ p.type # "PUBLISH"
    BY DEF Outbound
  <2> HIDE DEF p
  <2>6. QED
    BY <1>6, <2>1, <2>4, <2>5
<1>14. ASSUME NEW ok \in BOOLEAN, PublishToTopic(ok) PROVE Flight'
  <2>1. UNCHANGED <<connected, toDevice, resend>> /\ pc' = "puback" /\ resend.kind = "idle"
    BY <1>14 DEF PublishToTopic, PublishStep, RequestStep, Client!Publish
  <2>2. nextId \in PacketIds /\ payloads' \in Nat
    BY <1>14 DEF PublishToTopic, IdsOK
  <2>3. \/ result'.sent = <<>> /\ toBroker' = toBroker
        \/ result'.sent # <<>> /\ toBroker' = toBroker \o <<Published(nextId, payloads')>>
    BY <1>14, NewPublishWire
  <2>4. \/ result'.sent # <<>> /\ nextId \notin Waiting \cup Unsent /\ Waiting' = Waiting \cup {nextId}
        \/ result'.sent = <<>> /\ Waiting' = Waiting
    BY <1>14, PublishRecorded
  <2>5. CASE ~ connected
    BY <2>1, <2>5 DEF Flight
  <2>6. CASE connected /\ result'.sent = <<>>
    <3>1. OneEach' /\ InFlight' = InFlight
      BY <1>3, <1>4, <2>1, <2>3, <2>6 DEF Flight, OneEach, InFlight
    <3>2. QED
      BY <2>1, <2>4, <2>6, <3>1 DEF Flight
  <2>7. CASE connected /\ result'.sent # <<>>
    <3>1. nextId \notin InFlight /\ OneEach
      BY <2>4, <2>7 DEF Flight
    <3>2. OneEach' /\ InFlight' = InFlight \cup {nextId}
      BY <2>1, <2>2, <2>3, <2>7, <3>1, PublishFlies
    <3>3. QED
      BY <2>1, <2>4, <2>7, <3>2 DEF Flight
  <2>8. QED
    BY <2>5, <2>6, <2>7
<1>15. CASE PublishTableFull \/ PublishNothing
  <2>1. UNCHANGED <<connected, toBroker, toDevice, outgoing, resend>> /\ pc' # "connack"
    BY <1>15 DEF PublishTableFull, PublishNothing, PublishStep, RequestStep, clientVars
  <2>2. QED
    BY <1>6, <2>1
<1>16. ASSUME NEW ok \in BOOLEAN, ReceivePublish(ok) PROVE Flight'
  <2> DEFINE p == Client!AckPacket("PUBACK", Head(toDevice).packetId)
  <2>1. /\ UNCHANGED <<connected, outgoing, resend>> /\ pc' # "connack"
        /\ toDevice # <<>> /\ toDevice' = Tail(toDevice)
    BY <1>16 DEF ReceivePublish, Receive, GoOn, Fail, Client!ReceivePublish, Loops
  <2>2. toBroker' \in {toBroker, toBroker \o <<p>>} /\ p \in Outbound /\ p.type # "PUBLISH"
    BY <1>16, ReceivedWire DEF Client!AckPacket, Outbound
  <2> HIDE DEF p
  <2>3. QED
    BY <1>6, <2>1, <2>2
<1>17. CASE ReceivePuback
  <2> DEFINE id == Head(toDevice).packetId
  <2>1. /\ UNCHANGED <<connected, toBroker, resend>> /\ pc' # "connack"
        /\ toDevice # <<>> /\ toDevice' = Tail(toDevice) /\ Head(toDevice).type = "PUBACK"
        /\ resend.kind = "idle"
    BY <1>17 DEF ReceivePuback, Receive, GoOn, Fail, Client!ReceiveOutgoingAck, Loops
  <2>2. connected /\ OneEach /\ InFlight \subseteq Waiting
    BY <1>2, <2>1 DEF Flight
  <2>3. /\ Once(toDevice, "PUBACK")'
        /\ Sent(toDevice, "PUBACK")' \subseteq Sent(toDevice, "PUBACK")
        /\ id \in Sent(toDevice, "PUBACK") /\ id \notin Sent(toDevice, "PUBACK")'
    BY <1>1, <2>1, <2>2, CalmToDevice DEF OneEach
  <2>4. Waiting \ {id} \subseteq Waiting'
    BY <1>17, PubackRecorded
  <2> HIDE DEF id
  <2>5. OneEach' /\ InFlight' \subseteq InFlight \ {id}
    BY <1>3, <2>1, <2>2, <2>3 DEF OneEach, InFlight
  <2>6. InFlight' \subseteq Waiting'
    BY <2>2, <2>4, <2>5
  <2>7. QED
    BY <2>1, <2>5, <2>6 DEF Flight
<1>18. CASE ReceiveSuback \/ ReceiveUnsuback
  <2>1. /\ UNCHANGED <<connected, toBroker, outgoing, resend>> /\ pc' # "connack"
        /\ toDevice # <<>> /\ toDevice' = Tail(toDevice)
    BY <1>18 DEF ReceiveSuback, ReceiveUnsuback, Receive, clientVars, Loops
  <2>2. QED
    BY <1>6, <2>1
<1>19. CASE LoopFails \/ SubscribeLoopEnds \/ ResubscribeLoopEnds \/ PublishLoopEnds \/ UnsubscribeLoopEnds
  <2>1. UNCHANGED <<connected, toBroker, toDevice, outgoing, resend>>
    BY <1>19 DEF LoopFails, SubscribeLoopEnds, ResubscribeLoopEnds, PublishLoopEnds,
       UnsubscribeLoopEnds, LoopEnds, LoopStep, clientVars
  <2>2. pc' # "connack"
    BY <1>19 DEF LoopFails, SubscribeLoopEnds, ResubscribeLoopEnds, PublishLoopEnds,
       UnsubscribeLoopEnds, LoopEnds, Fail
  <2>3. QED
    BY <1>6, <2>1, <2>2
<1>20. CASE BrokerNext /\ UNCHANGED <<clientVars, taskVars>>
  <2>1. UNCHANGED <<connected, pc, outgoing, resend>>
    BY <1>20, BrokerKeepsLink DEF clientVars, taskVars
  <2>2. Waiting' = Waiting
    BY <2>1, LibraryPrimed
  <2>3. CASE ~ connected
    BY <1>5, <2>1, <2>3
  <2>4. CASE connected
    <3>1. OneEach
      BY <2>4 DEF Flight
    <3>2. OneEach' /\ InFlight' \subseteq InFlight
      BY <1>1, <1>20, <2>4, <3>1, BrokerTakes, TakenFlies, DeliveredFlies
    <3>3. QED
      BY <2>1, <2>2, <2>4, <3>2 DEF Flight
  <2>5. QED
    BY <2>3, <2>4
<1>21. CASE UNCHANGED vars
  <2>1. UNCHANGED <<connected, toBroker, toDevice, outgoing, resend, pc>>
    BY <1>21 DEF vars, brokerVars, clientVars, taskVars
  <2>2. Waiting' = Waiting /\ (OneEach => OneEach') /\ InFlight' = InFlight
    BY <1>3, <1>4, <2>1, LibraryPrimed DEF OneEach, InFlight
  <2>3. QED
    BY <2>1, <2>2 DEF Flight
<1>22. QED
  BY <1>7, <1>8, <1>9, <1>10, <1>11, <1>12, <1>13, <1>14, <1>15, <1>16, <1>17, <1>18, <1>19,
     <1>20, <1>21 DEF Next, Task

(* No PUBACK that can still arrive is one the library answers with         *)
(* MQTTBadResponse, which would end the iteration: the record it is for    *)
(* waits for it, whatever was sent again, failed or was given up before.   *)
THEOREM PubacksAwaited == Spec => []PubacksExpected
<1>1. Init => Flight
  BY DEF Init, BrokerInit, Client!Init, Client!Idle, Flight
<1>2. WireOK /\ Control /\ Flight => PubacksExpected
  <2> SUFFICES ASSUME WireOK, Control, Flight, NEW i \in 1..Len(toDevice),
                      toDevice[i].type = "PUBACK"
               PROVE  toDevice[i].packetId \in Client!Pending({"PubAckPending"})
    BY DEF PubacksExpected
  <2>1. toDevice[i] \in ToSet(toDevice) /\ toDevice # <<>>
    BY DEF WireOK, ToSet
  <2>2. connected /\ InFlight \subseteq Waiting
    BY <2>1 DEF Control, Flight
  <2>3. toDevice[i].packetId \in Waiting
    BY <2>1, <2>2 DEF InFlight, Sent
  <2>4. QED
    BY <2>3, SameSelection DEF Waiting, Library!Waiting
<1>3. Init => Control
  BY InitControl
<1>4. WireOK /\ IdsOK /\ Control /\ Library!LibInv /\ Flight /\ [Next]_vars => Control' /\ Flight'
  BY ControlStep, FlightStep
<1>5. QED
  BY <1>1, <1>2, <1>3, <1>4, WireTyped, LibraryInvariant, PTL DEF Spec



-----------------------------------------------------------------------------
(* What becomes of the payloads: what is on its way to the broker was      *)
(* accepted, is the payload stored under its packet id, and has arrived    *)
(* when a PUBACK for that id comes back.                                   *)
Delivered == {arrived[i] : i \in 1..Len(arrived)}

Accounted ==
    /\ accepted \subseteq 1..payloads
    /\ \A e \in table : e.payload \in accepted
    /\ \A e, f \in table : e.payload = f.payload => e = f

OnItsWay ==
    /\ arrived \in Seq(Nat)
    /\ \A p \in ToSet(toBroker) : p.type = "PUBLISH" => p.message \in accepted
    /\ connected =>
          \A p \in ToSet(toBroker), e \in table :
              p.type = "PUBLISH" /\ p.packetId = e.packetId => p.message = e.payload
    /\ \A q \in ToSet(toDevice), e \in table :
          q.type = "PUBACK" /\ q.packetId = e.packetId => e.payload \in Delivered

(* A step of the device that puts no publish on the connection.            *)
NoPublish ==
    /\ \A p \in ToSet(toBroker)' : p.type = "PUBLISH" => p \in ToSet(toBroker)
    /\ ToSet(toDevice)' \subseteq ToSet(toDevice)
    /\ arrived' = arrived
    /\ connected' => connected \/ \A p \in ToSet(toBroker)' : p.type # "PUBLISH"

LEMMA WireChanges ==
    WireOK /\ IdsOK /\ [Next]_vars =>
        \/ NoPublish
        \/ BrokerNext /\ UNCHANGED <<clientVars, taskVars>>
        \/ \E ok \in BOOLEAN : PublishToTopic(ok) \/ ResendStored(ok)
<1> SUFFICES ASSUME WireOK, IdsOK, [Next]_vars
             PROVE  \/ NoPublish
                    \/ BrokerNext /\ UNCHANGED <<clientVars, taskVars>>
                    \/ \E ok \in BOOLEAN : PublishToTopic(ok) \/ ResendStored(ok)
  OBVIOUS
<1>1. WireOK' /\ toBroker \in Seq(Outbound) /\ toDevice \in Seq(FromBroker)
  BY TaskStep DEF WireOK
<1>2. ASSUME connected' => connected, arrived' = arrived,
             UNCHANGED toBroker \/ (\E p \in Outbound : p.type # "PUBLISH" /\ toBroker' \in {toBroker, toBroker \o <<p>>}),
             toDevice' \in {<<>>, toDevice} \/ (toDevice # <<>> /\ toDevice' = Tail(toDevice))
      PROVE  NoPublish
  <2>1. ToSet(toDevice)' \subseteq ToSet(toDevice)
    <3>1. CASE toDevice # <<>> /\ toDevice' = Tail(toDevice)
      BY <1>1, <3>1, TailQuiet
    <3>2. CASE toDevice' = <<>>
      BY <3>2 DEF ToSet
    <3>3. QED
      BY <1>2, <3>1, <3>2
  <2>2. \A p \in ToSet(toBroker)' : p.type = "PUBLISH" => p \in ToSet(toBroker)
    <3>1. ASSUME NEW q \in Outbound, q.type # "PUBLISH", toBroker' \in {toBroker, toBroker \o <<q>>}
          PROVE  \A p \in ToSet(toBroker)' : p.type = "PUBLISH" => p \in ToSet(toBroker)
      <4>1. ToSet(toBroker \o <<q>>) = ToSet(toBroker) \cup {q}
        BY <1>1, <3>1, MoreInSet
      <4>2. QED
        BY <3>1, <4>1
    <3>2. QED
      BY <1>2, <3>1
  <2>3. QED
    BY <1>2, <2>1, <2>2 DEF NoPublish
<1>3. CASE Connect
  <2> DEFINE p == [type |-> "CONNECT", clean |-> ~ sessionSaved]
  <2>1. toDevice' = <<>> /\ toBroker' = <<p>> /\ arrived' = arrived /\ p.type # "PUBLISH"
    BY <1>3 DEF Connect, Open
  <2> HIDE DEF p
  <2>2. ToSet(toDevice)' = {} /\ \A q \in ToSet(toBroker)' : q.type # "PUBLISH"
    BY <2>1 DEF ToSet
  <2>3. QED
    BY <2>1, <2>2 DEF NoPublish
<1>4. CASE ConnackMissed \/ Disconnect \/ ConnectionLost \/ Restart
  <2>1. toDevice' = <<>> /\ connected' = FALSE /\ UNCHANGED <<toBroker, arrived>>
    BY <1>4 DEF ConnackMissed, Disconnect, ConnectionLost, Restart, Close
  <2>2. ~ connected'
    BY <2>1
  <2>3. QED
    BY <1>2, <2>1, <2>2
<1>5. CASE ConnackNewSession \/ ConnackSessionPresent
  <2>1. UNCHANGED <<connected, toBroker, arrived>> /\ toDevice # <<>> /\ toDevice' = Tail(toDevice)
    BY <1>5 DEF ConnackNewSession, ConnackSessionPresent, Connack
  <2>2. QED
    BY <1>2, <2>1
<1>6. CASE ResendUnknown \/ ResendDone
  <2>1. UNCHANGED <<connected, toBroker, toDevice, arrived>>
    BY <1>6 DEF ResendUnknown, ResendDone, ResendStep
  <2>2. QED
    BY <1>2, <2>1
<1>7. ASSUME NEW ok \in BOOLEAN, SubscribeToTopic(ok) \/ Resubscribe(ok) \/ UnsubscribeFromTopic(ok)
      PROVE  NoPublish
  <2>1. UNCHANGED <<connected, toDevice, arrived>>
    BY <1>7 DEF SubscribeToTopic, Resubscribe, UnsubscribeFromTopic, RequestStep
  <2>2. nextId \in Ids /\ subscribeId \in Ids
    BY DEF IdsOK, Ids
  <2>3. PICK type \in {"SUBSCRIBE", "UNSUBSCRIBE"}, id \in Ids : \E next : Request(type, id, ok, next)
    BY <1>7, <2>2 DEF SubscribeToTopic, Resubscribe, UnsubscribeFromTopic
  <2> DEFINE p == [type |-> type, packetId |-> id]
  <2>4. toBroker' \in {toBroker, toBroker \o <<p>>}
    BY <2>3 DEF Request, Transmit
  <2>5. p \in Outbound /\ p.type # "PUBLISH"
    BY DEF Outbound
  <2> HIDE DEF p
  <2>6. QED
    BY <1>2, <2>1, <2>4, <2>5
<1>8. CASE PublishTableFull \/ PublishNothing
  <2>1. UNCHANGED <<connected, toBroker, toDevice, arrived>>
    BY <1>8 DEF PublishTableFull, PublishNothing, PublishStep, RequestStep
  <2>2. QED
    BY <1>2, <2>1
<1>9. ASSUME NEW ok \in BOOLEAN, ReceivePublish(ok) PROVE NoPublish
  <2> DEFINE p == Client!AckPacket("PUBACK", Head(toDevice).packetId)
  <2>1. UNCHANGED <<connected, arrived>> /\ toDevice # <<>> /\ toDevice' = Tail(toDevice)
    BY <1>9 DEF ReceivePublish, Receive
  <2>2. toBroker' \in {toBroker, toBroker \o <<p>>} /\ p \in Outbound /\ p.type # "PUBLISH"
    BY <1>9, ReceivedWire DEF Client!AckPacket, Outbound
  <2> HIDE DEF p
  <2>3. QED
    BY <1>2, <2>1, <2>2
<1>10. CASE ReceivePuback \/ ReceiveSuback \/ ReceiveUnsuback
  <2>1. UNCHANGED <<connected, toBroker, arrived>> /\ toDevice # <<>> /\ toDevice' = Tail(toDevice)
    BY <1>10 DEF ReceivePuback, ReceiveSuback, ReceiveUnsuback, Receive
  <2>2. QED
    BY <1>2, <2>1
<1>11. CASE LoopFails \/ SubscribeLoopEnds \/ ResubscribeLoopEnds \/ PublishLoopEnds \/ UnsubscribeLoopEnds
  <2>1. UNCHANGED <<connected, toBroker, toDevice, arrived>>
    BY <1>11 DEF LoopFails, SubscribeLoopEnds, ResubscribeLoopEnds, PublishLoopEnds,
       UnsubscribeLoopEnds, LoopEnds, LoopStep
  <2>2. QED
    BY <1>2, <2>1
<1>12. CASE UNCHANGED vars
  <2>1. UNCHANGED <<connected, toBroker, toDevice, arrived>>
    BY <1>12 DEF vars, brokerVars
  <2>2. QED
    BY <1>2, <2>1
<1>13. QED
  BY <1>3, <1>4, <1>5, <1>6, <1>7, <1>8, <1>9, <1>10, <1>11, <1>12 DEF Next, Task


(* BrokerPublish adds the message to those that arrived, if it is new.     *)
LEMMA ArrivedGrows ==
    ASSUME NEW q, arrived \in Seq(Nat), q.type = "PUBLISH" => q.message \in Nat,
           arrived' = IF q.type = "PUBLISH" /\ ~ \E n \in 1..Len(arrived) : arrived[n] = q.message
                      THEN Append(arrived, q.message) ELSE arrived
    PROVE  /\ arrived' \in Seq(Nat)
           /\ q.type = "PUBLISH" => Delivered' = Delivered \cup {q.message}
           /\ q.type # "PUBLISH" => Delivered' = Delivered
<1>1. CASE q.type = "PUBLISH" /\ ~ \E n \in 1..Len(arrived) : arrived[n] = q.message
  <2> DEFINE more == Append(arrived, q.message)
  <2>1. q.message \in Nat /\ Len(arrived) \in Nat
    BY <1>1, LenProperties
  <2>2. /\ more \in Seq(Nat) /\ Len(more) = Len(arrived) + 1
        /\ \A n \in 1 .. Len(arrived) : more[n] = arrived[n]
        /\ more[Len(arrived) + 1] = q.message
    BY <2>1, AppendProperties
  <2>3. arrived' = more
    BY <1>1
  <2> HIDE DEF more
  <2>4. Delivered' = {more[n] : n \in 1 .. (Len(arrived) + 1)}
    BY <2>2, <2>3 DEF Delivered
  <2>5. \A n : n \in 1 .. (Len(arrived) + 1) <=> n \in 1 .. Len(arrived) \/ n = Len(arrived) + 1
    BY <2>1
  <2>6. Delivered' = Delivered \cup {q.message}
    BY <2>2, <2>4, <2>5 DEF Delivered
  <2>7. QED
    BY <1>1, <2>2, <2>3, <2>6
<1>2. CASE ~ (q.type = "PUBLISH" /\ ~ \E n \in 1..Len(arrived) : arrived[n] = q.message)
  <2>1. arrived' = arrived /\ Delivered' = Delivered
    BY <1>2 DEF Delivered
  <2>2. q.type = "PUBLISH" => q.message \in Delivered
    BY <1>2 DEF Delivered
  <2>3. QED
    BY <2>1, <2>2
<1>3. QED
  BY <1>1, <1>2

LEMMA TableShrinks ==
    [Next]_vars => \/ table' \subseteq table /\ UNCHANGED <<payloads, accepted>>
                   \/ \E ok \in BOOLEAN : PublishToTopic(ok)
<1>1. ReceivePuback => table' \subseteq table /\ UNCHANGED <<payloads, accepted>>
  BY CleanupRemoves DEF ReceivePuback, Receive
<1>2. QED
  BY <1>1, TableChanges

LEMMA AccountedStep ==
    WireOK /\ IdsOK /\ Library!LibInv /\ Accounted /\ [Next]_vars => Accounted'
<1> SUFFICES ASSUME WireOK, IdsOK, Library!LibInv, Accounted, [Next]_vars PROVE Accounted'
  OBVIOUS
<1>1. CASE table' \subseteq table /\ UNCHANGED <<payloads, accepted>>
  BY <1>1 DEF Accounted
<1>2. ASSUME NEW ok \in BOOLEAN, PublishToTopic(ok) PROVE Accounted'
  <2> DEFINE entry == [packetId |-> nextId, payload |-> payloads']
  <2>1. payloads \in Nat /\ payloads' = payloads + 1
    BY <1>2 DEF PublishToTopic, IdsOK
  <2>2. \/ table' = table \cup {entry} /\ accepted' = accepted \cup {payloads'}
        \/ table' = table /\ accepted' = accepted
    BY <1>2, PublishRecorded
  <2>3. entry.payload = payloads'
    OBVIOUS
  <2> HIDE DEF entry
  <2>4. accepted \subseteq 1..payloads' /\ payloads' \in 1..payloads' /\ payloads' \notin accepted
    BY <2>1 DEF Accounted
  <2>5. accepted' \subseteq 1..payloads'
    BY <2>2, <2>4
  <2>6. \A e \in table : e.payload \in accepted /\ e.payload # payloads'
    BY <2>4 DEF Accounted
  <2>7. /\ \A e \in table' : e.payload \in accepted'
        /\ \A e, f \in table' : e.payload = f.payload => e = f
    BY <2>2, <2>3, <2>6 DEF Accounted
  <2>8. QED
    BY <2>5, <2>7 DEF Accounted
<1>3. QED
  BY <1>1, <1>2, TableShrinks

LEMMA OnItsWayStep ==
    ASSUME WireOK, IdsOK, Control, Library!LibInv, Backed, Flight, Accounted, OnItsWay, [Next]_vars
    PROVE  OnItsWay'
<1>1. WireOK' /\ toBroker \in Seq(Outbound) /\ toDevice \in Seq(FromBroker)
  BY TaskStep DEF WireOK
<1>2. ASSUME NEW id \in PacketIds, NEW payload \in Nat,
             toBroker' \in {toBroker, toBroker \o <<Published(id, payload)>>}
      PROVE  ToSet(toBroker)' \subseteq ToSet(toBroker) \cup {Published(id, payload)}
  <2>1. Published(id, payload) \in Outbound
    BY DEF Published, Outbound
  <2>2. ToSet(toBroker \o <<Published(id, payload)>>) = ToSet(toBroker) \cup {Published(id, payload)}
    BY <1>1, <2>1, MoreInSet
  <2>3. QED
    BY <1>2, <2>2
<1>3. \A id, payload : Published(id, payload).packetId = id /\ Published(id, payload).message = payload
  BY DEF Published
<1>4. ASSUME NEW ok \in BOOLEAN, PublishToTopic(ok) PROVE OnItsWay'
  <2> DEFINE entry == [packetId |-> nextId, payload |-> payloads']
  <2>1. /\ UNCHANGED <<connected, toDevice, arrived>>
        /\ nextId \in PacketIds /\ payloads' \in Nat
    BY <1>4 DEF PublishToTopic, PublishStep, RequestStep, IdsOK
  <2>2. \/ result'.sent = <<>> /\ toBroker' = toBroker
        \/ result'.sent # <<>> /\ toBroker' = toBroker \o <<Published(nextId, payloads')>>
    BY <1>4, NewPublishWire
  <2>3. \/ /\ result'.sent # <<>> /\ nextId \notin Waiting \cup Unsent
           /\ table' = table \cup {entry} /\ accepted' = accepted \cup {payloads'}
        \/ result'.sent = <<>> /\ table' = table /\ accepted' = accepted
    BY <1>4, PublishRecorded
  <2>4. entry.packetId = nextId /\ entry.payload = payloads'
    OBVIOUS
  <2> HIDE DEF entry
  <2>5. CASE toBroker' = toBroker /\ table' = table /\ accepted' = accepted
    BY <2>1, <2>5 DEF OnItsWay, Delivered
  <2>6. CASE /\ nextId \notin Waiting \cup Unsent
             /\ toBroker' = toBroker \o <<Published(nextId, payloads')>>
             /\ table' = table \cup {entry} /\ accepted' = accepted \cup {payloads'}
    <3>1. ToSet(toBroker)' \subseteq ToSet(toBroker) \cup {Published(nextId, payloads')}
      BY <1>2, <2>1, <2>6
    <3>2. \A e \in table : e.packetId # nextId
      BY <2>6 DEF Backed
    <3>3. connected => nextId \notin InFlight
      BY <2>6 DEF Flight
    <3>4. connected => \A p \in ToSet(toBroker) : p.type = "PUBLISH" => p.packetId # nextId
      BY <3>3 DEF InFlight, Sent
    <3>5. \A q \in ToSet(toDevice) : q.type = "PUBACK" => q.packetId # nextId
      <4>1. CASE connected
        BY <3>3, <4>1 DEF InFlight, Sent
      <4>2. CASE ~ connected
        BY <4>2 DEF Control, ToSet
      <4>3. QED
        BY <4>1, <4>2
    <3>6. \A p \in ToSet(toBroker)' : p.type = "PUBLISH" => p.message \in accepted'
      BY <1>3, <2>6, <3>1 DEF OnItsWay
    <3>7. connected' => \A p \in ToSet(toBroker)', e \in table' :
                           p.type = "PUBLISH" /\ p.packetId = e.packetId => p.message = e.payload
      BY <1>3, <2>1, <2>4, <2>6, <3>1, <3>2, <3>4 DEF OnItsWay
    <3>8. \A q \in ToSet(toDevice)', e \in table' :
              q.type = "PUBACK" /\ q.packetId = e.packetId => e.payload \in Delivered'
      BY <2>1, <2>4, <2>6, <3>5 DEF OnItsWay, Delivered
    <3>9. QED
      BY <2>1, <3>6, <3>7, <3>8 DEF OnItsWay
  <2>7. QED
    BY <2>2, <2>3, <2>5, <2>6
<1>5. ASSUME NEW ok \in BOOLEAN, ResendStored(ok) PROVE OnItsWay'
  <2>1. UNCHANGED <<connected, toDevice, arrived, table, accepted>>
    BY <1>5 DEF ResendStored, ResendStep
  <2>2. PICK stored \in table :
            toBroker' \in {toBroker, toBroker \o <<Published(stored.packetId, stored.payload)>>}
    BY <1>5, ResendWire
  <2>3. ToSet(toBroker)' \subseteq ToSet(toBroker) \cup {Published(stored.packetId, stored.payload)}
    BY <1>2, <2>2 DEF IdsOK
  <2>4. \A e \in table : e.packetId = stored.packetId => e.payload = stored.payload
    BY DEF Backed
  <2>5. stored.payload \in accepted
    BY DEF Accounted
  <2>6. QED
    BY <1>3, <2>1, <2>3, <2>4, <2>5 DEF OnItsWay, Delivered
<1>6. CASE NoPublish /\ table' \subseteq table /\ accepted' = accepted
  <2>1. Delivered' = Delivered
    BY <1>6 DEF NoPublish, Delivered
  <2>2. QED
    BY <1>6, <2>1 DEF NoPublish, OnItsWay
<1>7. CASE BrokerNext /\ UNCHANGED <<clientVars, taskVars>>
  <2>1. UNCHANGED <<connected, table, accepted>>
    BY <1>7, BrokerKeepsLink DEF taskVars
  <2>2. CASE Delivers
    <3>1. \A q \in ToSet(toDevice)' : q.type = "PUBACK" => q \in ToSet(toDevice)
      <4>1. ASSUME NEW p \in FromBroker, p.type = "PUBLISH", Answer(<<p>>)
            PROVE  \A q \in ToSet(toDevice)' : q.type = "PUBACK" => q \in ToSet(toDevice)
        <5>1. ToSet(toDevice \o <<p>>) = ToSet(toDevice) \cup {p}
          BY <1>1, MoreInSet
        <5>2. QED
          BY <4>1, <5>1 DEF Answer
      <4>2. QED
        BY <2>2, <4>1 DEF Delivers
    <3>2. Delivered' = Delivered /\ toBroker' = toBroker /\ arrived' = arrived
      BY <2>2 DEF Delivers, Delivered
    <3>3. QED
      BY <2>1, <3>1, <3>2 DEF OnItsWay
  <2>3. ASSUME NEW i \in 1 .. Len(toBroker), Takes(i) PROVE OnItsWay'
    <3> DEFINE q == toBroker[i]
    <3>1. Without(toBroker, i, toBroker')
      BY <1>1, <2>3, RemoveAtWithout DEF Takes
    <3>2. ToSet(toBroker)' \subseteq ToSet(toBroker) /\ q \in ToSet(toBroker)
      BY <1>1, <3>1, WithoutSent DEF WireOK
    <3>3. /\ \/ toDevice' = toDevice
             \/ \E p \in FromBroker : AnswerTo(q, p) /\ Answer(<<p>>)
          /\ arrived' = IF q.type = "PUBLISH" /\ ~ \E n \in 1..Len(arrived) : arrived[n] = q.message
                        THEN Append(arrived, q.message) ELSE arrived
      BY <2>3 DEF Takes
    <3> HIDE DEF q
    <3>4. /\ arrived' \in Seq(Nat) /\ Delivered \subseteq Delivered'
          /\ q.type = "PUBLISH" => q.message \in Delivered'
      <4>1. q \in Outbound
        BY <1>1, ElementOfSeq DEF q
      <4>2. q.type = "PUBLISH" => q.message \in Nat
        BY <4>1 DEF Outbound
      <4>3. arrived \in Seq(Nat)
        BY DEF OnItsWay
      <4>4. /\ arrived' \in Seq(Nat)
            /\ q.type = "PUBLISH" => Delivered' = Delivered \cup {q.message}
            /\ q.type # "PUBLISH" => Delivered' = Delivered
        BY <3>3, <4>2, <4>3, ArrivedGrows
      <4>5. QED
        BY <4>4
    <3>5. ASSUME NEW p \in FromBroker, AnswerTo(q, p), Answer(<<p>>), connected
          PROVE  /\ ToSet(toDevice)' = ToSet(toDevice) \cup {p}
                 /\ \A e \in table : p.type = "PUBACK" /\ p.packetId = e.packetId
                                       => e.payload \in Delivered'
      <4>1. ToSet(toDevice)' = ToSet(toDevice) \cup {p}
        BY <1>1, <3>5, MoreInSet DEF Answer
      <4>2. p.type = "PUBACK" => q.type = "PUBLISH" /\ p.packetId = q.packetId
        BY <3>5 DEF AnswerTo
      <4>3. \A e \in table : q.type = "PUBLISH" /\ q.packetId = e.packetId => q.message = e.payload
        BY <3>2, <3>5 DEF OnItsWay
      <4>4. QED
        BY <3>4, <4>1, <4>2, <4>3
    <3>6. \A r \in ToSet(toDevice)', e \in table' :
              r.type = "PUBACK" /\ r.packetId = e.packetId => e.payload \in Delivered'
      <4>1. CASE toDevice' = toDevice
        BY <2>1, <3>4, <4>1 DEF OnItsWay
      <4>2. ASSUME NEW p \in FromBroker, AnswerTo(q, p), Answer(<<p>>), ~ connected
            PROVE  toDevice' = toDevice
        BY <4>2 DEF Answer
      <4>3. CASE toDevice' # toDevice
        <5>1. PICK p \in FromBroker : AnswerTo(q, p) /\ Answer(<<p>>) /\ connected
          BY <3>3, <4>2, <4>3
        <5>2. /\ ToSet(toDevice)' = ToSet(toDevice) \cup {p}
              /\ \A e \in table : p.type = "PUBACK" /\ p.packetId = e.packetId
                                    => e.payload \in Delivered'
          BY <3>5, <5>1
        <5>3. QED
          BY <2>1, <3>4, <5>2 DEF OnItsWay
      <4>4. QED
        BY <4>1, <4>3
    <3>7. QED
      BY <2>1, <3>2, <3>4, <3>6 DEF OnItsWay
  <2>4. QED
    BY <1>7, <2>2, <2>3, BrokerTakes
<1>8. QED
  BY <1>4, <1>5, <1>6, <1>7, WireChanges, TableShrinks



-----------------------------------------------------------------------------
(* Delivery of the payloads, as AtLeastOnce promises it.                   *)
Active  == pc \notin {"offline", "connack"}
Pending == {e.payload : e \in table}

LEMMA PhaseChanges ==
    [Next]_vars =>
        \/ ConnackNewSession \/ ConnackSessionPresent \/ Disconnect \/ Restart
        \/ ReceivePuback \/ \E ok \in BOOLEAN : PublishToTopic(ok)
        \/ BrokerNext /\ UNCHANGED <<clientVars, taskVars>>
        \/ UNCHANGED <<table, accepted, arrived>> /\ (Active' <=> Active)
<1> SUFFICES ASSUME [Next]_vars
             PROVE  \/ ConnackNewSession \/ ConnackSessionPresent \/ Disconnect \/ Restart
                    \/ ReceivePuback \/ \E ok \in BOOLEAN : PublishToTopic(ok)
                    \/ BrokerNext /\ UNCHANGED <<clientVars, taskVars>>
                    \/ UNCHANGED <<table, accepted, arrived>> /\ (Active' <=> Active)
  OBVIOUS
<1> USE DEF Active
<1>1. CASE Connect \/ ConnackMissed
  BY <1>1 DEF Connect, ConnackMissed, Open
<1>2. CASE ResendUnknown \/ ResendDone
  BY <1>2 DEF ResendUnknown, ResendDone, ResendStep, Fail
<1>3. ASSUME NEW ok, ResendStored(ok)
      PROVE  UNCHANGED <<table, accepted, arrived>> /\ (Active' <=> Active)
  BY <1>3 DEF ResendStored, ResendStep
<1>4. ASSUME NEW ok, SubscribeToTopic(ok) \/ Resubscribe(ok) \/ UnsubscribeFromTopic(ok)
      PROVE  UNCHANGED <<table, accepted, arrived>> /\ (Active' <=> Active)
  <2>1. UNCHANGED <<table, accepted, arrived>> /\ pc \in {"subscribe", "resubscribe", "unsubscribe"}
    BY <1>4 DEF SubscribeToTopic, Resubscribe, UnsubscribeFromTopic, RequestStep
  <2>2. pc' \in {"suback", "resuback", "unsuback", "disconnect"}
    BY <1>4 DEF SubscribeToTopic, Resubscribe, UnsubscribeFromTopic, Request, Fail
  <2>3. QED
    BY <2>1, <2>2
<1>5. CASE PublishTableFull \/ PublishNothing
  BY <1>5 DEF PublishTableFull, PublishNothing, PublishStep, RequestStep
<1>6. ASSUME NEW ok, ReceivePublish(ok) \/ ReceiveSuback \/ ReceiveUnsuback
      PROVE  UNCHANGED <<table, accepted, arrived>> /\ (Active' <=> Active)
  <2>1. UNCHANGED <<table, accepted, arrived>> /\ pc \in Loops
    BY <1>6 DEF ReceivePublish, ReceiveSuback, ReceiveUnsuback, Receive
  <2>2. pc' \in {pc, "disconnect"}
    BY <1>6 DEF ReceivePublish, ReceiveSuback, ReceiveUnsuback, GoOn, Fail
  <2>3. QED
    BY <2>1, <2>2 DEF Loops
<1>7. CASE LoopFails \/ SubscribeLoopEnds \/ ResubscribeLoopEnds \/ PublishLoopEnds \/ UnsubscribeLoopEnds
  <2>1. UNCHANGED <<table, accepted, arrived>>
    BY <1>7 DEF LoopFails, SubscribeLoopEnds, ResubscribeLoopEnds, PublishLoopEnds,
       UnsubscribeLoopEnds, LoopEnds, LoopStep
  <2>2. pc \in Loops
    BY <1>7 DEF LoopFails, SubscribeLoopEnds, ResubscribeLoopEnds, PublishLoopEnds,
       UnsubscribeLoopEnds, LoopEnds, Loops
  <2>3. pc' \in {"publish", "resubscribe", "unsubscribe", "disconnect"}
    BY <1>7 DEF LoopFails, SubscribeLoopEnds, ResubscribeLoopEnds, PublishLoopEnds,
       UnsubscribeLoopEnds, LoopEnds, Fail
  <2>4. QED
    BY <2>1, <2>2, <2>3 DEF Loops
<1>8. CASE ConnectionLost \/ UNCHANGED vars
  BY <1>8 DEF ConnectionLost, vars, brokerVars, taskVars
<1>9. QED
  BY <1>1, <1>2, <1>3, <1>4, <1>5, <1>6, <1>7, <1>8 DEF Next, Task

(* A payload stays pending until it has arrived, except across a session   *)
(* the broker does not know, and a power loss.                             *)
LEMMA DeliveryStep ==
    ASSUME WireOK, IdsOK, Control, TableOK, Library!LibInv, Accounted, OnItsWay, [Next]_vars
    PROVE  \/ Delivery!Next
           \/ UNCHANGED <<Active, Pending, Delivered, accepted>>
<1> DEFINE Kept == UNCHANGED <<Active, Pending, Delivered, accepted>>
<1> USE DEF Delivery!Next
<1>1. CASE ConnackNewSession \/ ConnackSessionPresent
  <2>1. pc = "connack" /\ pc' \in {"subscribe", "resend"} /\ UNCHANGED <<arrived, accepted>>
        /\ table' \in {{}, table}
    BY <1>1 DEF ConnackNewSession, ConnackSessionPresent, Connack
  <2>2. Delivery!Begin
    BY <2>1 DEF Delivery!Begin
  <2>3. QED
    BY <2>2
<1>2. CASE Disconnect
  <2>1. pc = "disconnect" /\ pc' = "offline" /\ UNCHANGED <<arrived, accepted, table>>
    BY <1>2 DEF Disconnect
  <2>2. Delivery!End
    BY <2>1 DEF Delivery!End
  <2>3. QED
    BY <2>2
<1>3. CASE Restart
  <2>1. pc' = "offline" /\ table' = {} /\ UNCHANGED <<arrived, accepted>>
    BY <1>3 DEF Restart
  <2>2. Delivery!Crash
    BY <2>1 DEF Delivery!Crash
  <2>3. QED
    BY <2>2
<1>4. ASSUME NEW ok \in BOOLEAN, PublishToTopic(ok) PROVE Delivery!Next \/ Kept
  <2> DEFINE entry == [packetId |-> nextId, payload |-> payloads']
  <2>1. /\ pc = "publish" /\ pc' = "puback" /\ UNCHANGED arrived
        /\ payloads < MaxPayloads /\ payloads' = payloads + 1
    BY <1>4 DEF PublishToTopic, PublishStep, RequestStep
  <2>2. payloads' \in Payloads /\ payloads' \notin accepted
    BY <2>1, BoundsAssumption DEF TableOK, Accounted, Payloads
  <2>3. \/ table' = table \cup {entry} /\ accepted' = accepted \cup {payloads'}
        \/ table' = table /\ accepted' = accepted
    BY <1>4, PublishRecorded
  <2>4. entry.payload = payloads'
    OBVIOUS
  <2> HIDE DEF entry
  <2>5. CASE table' = table \cup {entry} /\ accepted' = accepted \cup {payloads'}
    <3>1. Pending' = Pending \cup {payloads'}
      BY <2>4, <2>5 DEF Pending
    <3>2. PICK m \in Payloads : m = payloads'
      BY <2>2
    <3>3. Delivery!Accept(m)
      BY <2>1, <2>2, <2>5, <3>1, <3>2 DEF Delivery!Accept, Pending
    <3>4. QED
      BY <3>3
  <2>6. CASE table' = table /\ accepted' = accepted
    BY <2>1, <2>6 DEF Active, Pending, Delivered
  <2>7. QED
    BY <2>3, <2>5, <2>6
<1>5. CASE ReceivePuback
  <2> DEFINE id == Head(toDevice).packetId
  <2>1. /\ pc \in Loops /\ pc' \in {pc, "disconnect"} /\ UNCHANGED <<arrived, accepted>>
        /\ toDevice # <<>> /\ Head(toDevice).type = "PUBACK"
    BY <1>5 DEF ReceivePuback, Receive, GoOn, Fail
  <2>2. table' \in {table, Cleanup(id)}
    BY <1>5, PubackRecorded
  <2>3. Head(toDevice) \in ToSet(toDevice)
    <3>1. toDevice \in Seq(FromBroker)
      BY DEF WireOK
    <3>2. Head(toDevice) = toDevice[1] /\ 1 \in 1 .. Len(toDevice)
      BY <2>1, <3>1, HeadTailProperties, LenProperties, EmptySeq
    <3>3. QED
      BY <3>1, <3>2 DEF ToSet
  <2>4. \A e \in table : e.packetId = id => e.payload \in Delivered
    BY <2>1, <2>3 DEF OnItsWay
  <2> HIDE DEF id
  <2>5. (Active' <=> Active) /\ Active /\ Delivered' = Delivered
    BY <2>1 DEF Active, Loops, Delivered
  <2>6. CASE table' = table
    BY <2>1, <2>5, <2>6 DEF Active, Pending
  <2>7. CASE table' = Cleanup(id) /\ ~ Stored(id)
    BY <2>1, <2>5, <2>7 DEF Cleanup, Active, Pending
  <2>8. CASE table' = Cleanup(id) /\ Stored(id)
    <3>1. PICK e \in table : e.packetId = id /\ table' = table \ {e}
      BY <2>8, CleanupRemoves
    <3>2. Pending' = Pending \ {e.payload}
      BY <3>1 DEF Pending, Accounted
    <3>3. e.payload \in Delivered /\ e.payload \in Payloads
      BY <2>4, <3>1 DEF TableOK
    <3>4. Delivery!Settle(e.payload)
      BY <2>1, <2>5, <3>2, <3>3 DEF Delivery!Settle, Active, Pending, Delivered
    <3>5. QED
      BY <3>3, <3>4
  <2>9. QED
    BY <2>2, <2>6, <2>7, <2>8
<1>6. CASE BrokerNext /\ UNCHANGED <<clientVars, taskVars>>
  <2>1. UNCHANGED <<pc, table, accepted>>
    BY <1>6 DEF taskVars
  <2>2. CASE Delivers
    BY <2>1, <2>2 DEF Delivers, Active, Pending, Delivered
  <2>3. ASSUME NEW i \in 1 .. Len(toBroker), Takes(i) PROVE Delivery!Next \/ Kept
    <3> DEFINE q == toBroker[i]
    <3>1. toBroker \in Seq(Outbound)
      BY DEF WireOK
    <3>2. q \in Outbound /\ q \in ToSet(toBroker)
      BY <3>1, ElementOfSeq DEF ToSet
    <3>3. arrived' = IF q.type = "PUBLISH" /\ ~ \E n \in 1..Len(arrived) : arrived[n] = q.message
                     THEN Append(arrived, q.message) ELSE arrived
      BY <2>3 DEF Takes
    <3> HIDE DEF q
    <3>4. q.type = "PUBLISH" => q.message \in Nat
      BY <3>2 DEF Outbound
    <3>5. /\ q.type = "PUBLISH" => Delivered' = Delivered \cup {q.message}
          /\ q.type # "PUBLISH" => Delivered' = Delivered
      BY <3>3, <3>4, ArrivedGrows DEF OnItsWay
    <3>6. CASE q.type = "PUBLISH"
      <4>1. q.message \in accepted
        BY <3>2, <3>6 DEF OnItsWay
      <4>2. PICK m \in 1 .. payloads : m = q.message
        BY <4>1 DEF Accounted
      <4>3. m \in Payloads
        BY <4>2, BoundsAssumption DEF TableOK, Payloads
      <4>4. Delivery!Deliver(m)
        BY <2>1, <3>5, <3>6, <4>1, <4>2 DEF Delivery!Deliver, Delivered
      <4>5. QED
        BY <4>3, <4>4
    <3>7. CASE q.type # "PUBLISH"
      BY <2>1, <3>5, <3>7 DEF Active, Pending
    <3>8. QED
      BY <3>6, <3>7
  <2>4. QED
    BY <1>6, <2>2, <2>3, BrokerTakes
<1>7. CASE UNCHANGED <<table, accepted, arrived>> /\ (Active' <=> Active)
  BY <1>7 DEF Active, Pending, Delivered
<1>8. QED
  BY <1>1, <1>2, <1>3, <1>4, <1>5, <1>6, <1>7, PhaseChanges


(* A payload that publishToTopic reported as sent reaches the broker, or   *)
(* stays stored to be sent again; only a session the broker does not know  *)
(* and a power loss make the device forget it.                             *)
THEOREM DeliversAtLeastOnce == Spec => ImplementsAtLeastOnce
<1>1. Init => Accounted /\ OnItsWay /\ Flight /\ Backed /\ Delivery!Init
  <2> SUFFICES ASSUME Init PROVE Accounted /\ OnItsWay /\ Flight /\ Backed /\ Delivery!Init
    OBVIOUS
  <2>1. /\ toBroker = <<>> /\ toDevice = <<>> /\ arrived = <<>> /\ table = {} /\ accepted = {}
        /\ payloads = 0 /\ pc = "offline"
    BY DEF Init, BrokerInit
  <2>2. ToSet(toBroker) = {} /\ ToSet(toDevice) = {} /\ Delivered = {}
    BY <2>1 DEF ToSet, Delivered
  <2>3. Accounted /\ OnItsWay /\ Backed
    BY <2>1, <2>2 DEF Accounted, OnItsWay, Backed
  <2>4. Flight
    BY DEF Init, BrokerInit, Client!Init, Client!Idle, Flight
  <2>5. Delivery!Init
    BY <2>1 DEF Delivery!Init
  <2>6. QED
    BY <2>3, <2>4, <2>5
<1>2. Init => Control /\ TableOK
  BY InitControl, InitTable
<1> DEFINE Inv == /\ WireOK /\ IdsOK /\ Control /\ TableOK /\ Library!LibInv
                  /\ Backed /\ Flight /\ Accounted /\ OnItsWay
<1>3. Inv /\ [Next]_vars => /\ Control' /\ TableOK' /\ Backed' /\ Flight' /\ Accounted' /\ OnItsWay'
  BY ControlStep, TableStep, BackedStep, FlightStep, AccountedStep, OnItsWayStep
<1>4. Inv /\ [Next]_vars =>
          [Delivery!Next]_<<pc \notin {"offline", "connack"}, {e.payload : e \in table},
                            {arrived[i] : i \in 1..Len(arrived)}, accepted>>
  <2> SUFFICES ASSUME Inv, [Next]_vars
               PROVE  [Delivery!Next]_<<pc \notin {"offline", "connack"}, {e.payload : e \in table},
                                        {arrived[i] : i \in 1..Len(arrived)}, accepted>>
    OBVIOUS
  <2>1. Delivery!Next \/ UNCHANGED <<Active, Pending, Delivered, accepted>>
    BY DeliveryStep
  <2>2. QED
    BY <2>1 DEF Active, Pending, Delivered
<1>5. QED
  BY <1>1, <1>2, <1>3, <1>4, WireTyped, LibraryInvariant, PTL
     DEF Spec, ImplementsAtLeastOnce, Delivery!Spec


-----------------------------------------------------------------------------
(* Inbound messages.  When no CONNACK is lost, the device and the broker   *)
(* know of each new session before anything is sent on it, so that a       *)
(* record of the device is of the publish the broker has under its id.     *)
Held == Library!Held

LEMMA HeldChanges ==
    /\ UNCHANGED incoming => Held' = Held
    /\ incoming' = Client!EmptyRecords => Held' = {} /\ Library!AcksOnly(incoming')
<1>1. UNCHANGED incoming => Held' = Held
  BY DEF Held, Library!Held, Library!Holds
<1>2. 0 \notin PacketIds /\ \A i \in Library!Slots : Client!EmptyRecords[i].packetId = 0
  BY LibraryConstants, SameTables DEF Client!EmptyRecords, Client!EmptyRecord
<1>3. ASSUME incoming' = Client!EmptyRecords
      PROVE  Held' = {} /\ Library!AcksOnly(incoming')
  <2>1. \A i \in Library!Slots : incoming'[i].packetId = 0
    BY <1>2, <1>3
  <2>2. Held' = {}
    BY <1>2, <2>1 DEF Held, Library!Held, Library!Holds
  <2>3. Library!AcksOnly(incoming')
    BY <2>1 DEF Library!AcksOnly, Library!Agree, Library!Live
  <2>4. QED
    BY <2>2, <2>3
<1>4. QED
  BY <1>1, <1>3

(* A step of the task on an open connection that concerns no inbound       *)
(* message: it may send anything but a CONNECT or a PUBACK, and handle one *)
(* answer.                                                                 *)
Ordinary ==
    /\ UNCHANGED <<connected, linkUp, incoming, session, settled, seen>>
    /\ pc \notin {"offline", "connack"} /\ pc' # "connack"
    /\ \/ toBroker' = toBroker
       \/ connected /\ \E p \in Outbound : /\ p.type \notin {"CONNECT", "PUBACK"}
                                           /\ toBroker' = toBroker \o <<p>>
    /\ toDevice' = toDevice \/ (toDevice # <<>> /\ toDevice' = Tail(toDevice))

LEMMA NothingSent ==
    ASSUME NEW id, NEW qos, NEW dup
    PROVE  Client!PublishOutcome(id, qos, dup, FALSE).result.sent = <<>>
BY DEF Client!PublishOutcome, Client!Outcome

LEMMA OrdinarySteps ==
    ASSUME WireOK, IdsOK, [Next]_vars
    PROVE  \/ Ordinary
           \/ Connect \/ ConnackMissed \/ ConnackNewSession \/ ConnackSessionPresent
           \/ Disconnect \/ ConnectionLost \/ Restart
           \/ \E ok \in BOOLEAN : ReceivePublish(ok)
           \/ BrokerNext /\ UNCHANGED <<clientVars, taskVars>>
           \/ UNCHANGED vars
<1>1. ASSUME NEW ok \in BOOLEAN, ResendStored(ok) PROVE Ordinary
  <2> DEFINE id == Client!Selected.packetId
             p  == Published(id, PayloadOf(id))
  <2>1. /\ id \in PacketIds /\ \E e \in table : e.packetId = id /\ e.payload = PayloadOf(id)
        /\ \/ result'.sent = <<>> /\ toBroker' = toBroker
           \/ result'.sent # <<>> /\ toBroker' = toBroker \o <<p>>
    BY <1>1, ResendWire
  <2>2. PayloadOf(id) \in Nat
    BY <2>1 DEF IdsOK
  <2>3. p \in Outbound /\ p.type \notin {"CONNECT", "PUBACK"}
    BY <2>1, <2>2 DEF Published, Outbound
  <2>4. ok \/ result'.sent = <<>>
    BY <1>1, NothingSent DEF ResendStored, Client!ResendPublish
  <2>5. ok => connected
    BY <1>1 DEF ResendStored, Sends
  <2>6. /\ UNCHANGED <<connected, linkUp, incoming, session, settled, seen, pc, toDevice>>
        /\ pc = "resend"
    BY <1>1 DEF ResendStored, ResendStep, Client!ResendPublish
  <2> HIDE DEF p, id
  <2>7. QED
    BY <2>1, <2>3, <2>4, <2>5, <2>6 DEF Ordinary
<1>2. CASE ResendUnknown \/ ResendDone
  <2>1. UNCHANGED <<connected, linkUp, incoming, session, settled, seen, toDevice, toBroker>>
    BY <1>2 DEF ResendUnknown, ResendDone, ResendStep, Client!ResendAbandon, Client!ResendEnd
  <2>2. pc = "resend" /\ pc' # "connack"
    BY <1>2 DEF ResendUnknown, ResendDone, ResendStep, Fail
  <2>3. QED
    BY <2>1, <2>2 DEF Ordinary
<1>3. ASSUME NEW ok \in BOOLEAN, SubscribeToTopic(ok) \/ Resubscribe(ok) \/ UnsubscribeFromTopic(ok)
      PROVE  Ordinary
  <2>1. UNCHANGED <<connected, linkUp, incoming, session, settled, seen, toDevice>>
    BY <1>3 DEF SubscribeToTopic, Resubscribe, UnsubscribeFromTopic, RequestStep, clientVars
  <2>2. nextId \in Ids /\ subscribeId \in Ids
    BY DEF IdsOK, Ids
  <2>3. PICK type \in {"SUBSCRIBE", "UNSUBSCRIBE"}, id \in Ids :
            \E next \in {"suback", "resuback", "unsuback"} : Request(type, id, ok, next)
    BY <1>3, <2>2 DEF SubscribeToTopic, Resubscribe, UnsubscribeFromTopic
  <2> DEFINE p == [type |-> type, packetId |-> id]
  <2>4. pc' # "connack" /\ (toBroker' = toBroker \/ (ok /\ toBroker' = toBroker \o <<p>>))
    BY <2>3 DEF Request, Transmit, Fail
  <2>5. p \in Outbound /\ p.type \notin {"CONNECT", "PUBACK"}
    BY DEF Outbound
  <2>6. (ok => connected) /\ pc \in {"subscribe", "resubscribe", "unsubscribe"}
    BY <1>3 DEF SubscribeToTopic, Resubscribe, UnsubscribeFromTopic, Sends
  <2> HIDE DEF p
  <2>7. QED
    BY <2>1, <2>4, <2>5, <2>6 DEF Ordinary
<1>4. ASSUME NEW ok \in BOOLEAN, PublishToTopic(ok) PROVE Ordinary
  <2> DEFINE p == Published(nextId, payloads')
  <2>1. /\ UNCHANGED <<connected, linkUp, incoming, session, settled, seen, toDevice>>
        /\ pc = "publish" /\ pc' = "puback"
    BY <1>4 DEF PublishToTopic, PublishStep, RequestStep, Client!Publish
  <2>2. \/ result'.sent = <<>> /\ toBroker' = toBroker
        \/ result'.sent # <<>> /\ toBroker' = toBroker \o <<p>>
    BY <1>4, NewPublishWire
  <2>3. nextId \in PacketIds /\ payloads' \in Nat
    BY <1>4 DEF PublishToTopic, IdsOK
  <2>4. p \in Outbound /\ p.type \notin {"CONNECT", "PUBACK"}
    BY <2>3 DEF Published, Outbound
  <2>5. ok \/ result'.sent = <<>>
    BY <1>4, NothingSent DEF PublishToTopic, Client!Publish
  <2>6. ok => connected
    BY <1>4 DEF PublishToTopic, Sends
  <2> HIDE DEF p
  <2>7. QED
    BY <2>1, <2>2, <2>4, <2>5, <2>6 DEF Ordinary
<1>5. CASE PublishTableFull \/ PublishNothing
  BY <1>5 DEF PublishTableFull, PublishNothing, PublishStep, RequestStep, clientVars, Ordinary
<1>6. CASE ReceivePuback
  <2>1. /\ UNCHANGED <<connected, linkUp, incoming, session, settled, seen, toBroker>>
        /\ toDevice # <<>> /\ toDevice' = Tail(toDevice)
    BY <1>6 DEF ReceivePuback, Receive, Client!ReceiveOutgoingAck
  <2>2. pc \in Loops /\ pc' \in Loops \cup {"disconnect"}
    BY <1>6 DEF ReceivePuback, Receive, GoOn, Fail
  <2>3. QED
    BY <2>1, <2>2 DEF Ordinary, Loops
<1>7. CASE ReceiveSuback \/ ReceiveUnsuback
  <2>1. /\ UNCHANGED <<connected, linkUp, incoming, session, settled, seen, toBroker, pc>>
        /\ toDevice # <<>> /\ toDevice' = Tail(toDevice) /\ pc \in Loops
    BY <1>7 DEF ReceiveSuback, ReceiveUnsuback, Receive, clientVars
  <2>2. QED
    BY <2>1 DEF Ordinary, Loops
<1>8. CASE LoopFails \/ SubscribeLoopEnds \/ ResubscribeLoopEnds \/ PublishLoopEnds \/ UnsubscribeLoopEnds
  <2>1. UNCHANGED <<connected, linkUp, incoming, session, settled, seen, toBroker, toDevice>>
    BY <1>8 DEF LoopFails, SubscribeLoopEnds, ResubscribeLoopEnds, PublishLoopEnds,
       UnsubscribeLoopEnds, LoopEnds, LoopStep, clientVars
  <2>2. pc \in Loops /\ pc' # "connack"
    BY <1>8 DEF LoopFails, SubscribeLoopEnds, ResubscribeLoopEnds, PublishLoopEnds,
       UnsubscribeLoopEnds, LoopEnds, Fail, Loops
  <2>3. QED
    BY <2>1, <2>2 DEF Ordinary, Loops
<1>9. QED
  BY <1>1, <1>2, <1>3, <1>4, <1>5, <1>6, <1>7, <1>8 DEF Next, Task

(* What the broker takes from the connection.                              *)
LEMMA BrokerTakesOne ==
    ASSUME WireOK, BrokerReceive
    PROVE  \E i \in 1..Len(toBroker) :
              /\ Without(toBroker, i, toBroker') /\ toBroker' \in Seq(Outbound)
              /\ toBroker[i] \in Outbound /\ toBroker[i] \in ToSet(toBroker)
              /\ \/ toBroker[i].type = "CONNECT" /\ BrokerConnect(toBroker[i])
                 \/ toBroker[i].type = "PUBLISH" /\ BrokerPublish(toBroker[i])
                 \/ toBroker[i].type = "SUBSCRIBE" /\ BrokerSubscribe(toBroker[i])
                 \/ toBroker[i].type = "UNSUBSCRIBE" /\ BrokerUnsubscribe(toBroker[i])
                 \/ toBroker[i].type = "PUBACK" /\ BrokerPuback(toBroker[i])
<1>1. toBroker \in Seq(Outbound)
  BY DEF WireOK
<1>2. PICK i \in 1 .. Len(toBroker) :
          /\ \/ toBroker[i].type = "CONNECT" /\ BrokerConnect(toBroker[i])
             \/ toBroker[i].type = "PUBLISH" /\ BrokerPublish(toBroker[i])
             \/ toBroker[i].type = "SUBSCRIBE" /\ BrokerSubscribe(toBroker[i])
             \/ toBroker[i].type = "UNSUBSCRIBE" /\ BrokerUnsubscribe(toBroker[i])
             \/ toBroker[i].type = "PUBACK" /\ BrokerPuback(toBroker[i])
          /\ toBroker' = RemoveAt(toBroker, i)
  BY DEF BrokerReceive
<1>3. Without(toBroker, i, toBroker') /\ toBroker' \in Seq(Outbound)
  BY <1>1, <1>2, RemoveAtWithout, RemoveAtType
<1>4. toBroker[i] \in Outbound /\ toBroker[i] \in ToSet(toBroker)
  BY <1>1, <1>2, ElementOfSeq DEF ToSet
<1>5. QED
  BY <1>2, <1>3, <1>4

(* The opening of a connection: the CONNECT is alone on it, its CONNACK    *)
(* comes before all else and says truly whether the session is new.        *)
Asked ==
    /\ toDevice = <<>> /\ ~ session.online
    /\ \E p \in Outbound : p.type = "CONNECT" /\ toBroker = <<p>>
Welcomed ==
    /\ toBroker = <<>> /\ toDevice # <<>> /\ Head(toDevice).type = "CONNACK"
    /\ \/ Head(toDevice).present /\ session.durable
       \/ ~ Head(toDevice).present /\ session.unacked = {} /\ ~ session.subscribed

Opening ==
    /\ connected => pc = "connack" \/ linkUp
    /\ pc = "connack" => connected /\ (Asked \/ Welcomed)
    /\ \A p \in ToSet(toBroker) : p.type = "CONNECT" =>
          /\ Len(toBroker) = 1
          /\ pc = "connack" \/ (~ connected /\ Held = {})

LEMMA OpeningBroker ==
    WireOK /\ Control /\ Opening /\ BrokerNext /\ UNCHANGED <<clientVars, taskVars>> => Opening'
<1> SUFFICES ASSUME WireOK, Control, Opening, BrokerNext, UNCHANGED <<clientVars, taskVars>>
             PROVE  Opening'
  OBVIOUS
<1>1. UNCHANGED <<connected, linkUp, pc, incoming, Held>>
  BY BrokerKeepsLink, HeldChanges DEF clientVars, taskVars
<1>2. toDevice \in Seq(FromBroker) /\ toBroker \in Seq(Outbound) /\ session \in Sessions
  BY DEF WireOK
<1>3. CASE BrokerReceive
  <2>1. PICK i \in 1..Len(toBroker) :
              /\ Without(toBroker, i, toBroker') /\ toBroker' \in Seq(Outbound)
              /\ toBroker[i] \in Outbound /\ toBroker[i] \in ToSet(toBroker)
              /\ \/ toBroker[i].type = "CONNECT" /\ BrokerConnect(toBroker[i])
                 \/ toBroker[i].type = "PUBLISH" /\ BrokerPublish(toBroker[i])
                 \/ toBroker[i].type = "SUBSCRIBE" /\ BrokerSubscribe(toBroker[i])
                 \/ toBroker[i].type = "UNSUBSCRIBE" /\ BrokerUnsubscribe(toBroker[i])
                 \/ toBroker[i].type = "PUBACK" /\ BrokerPuback(toBroker[i])
    BY <1>3, BrokerTakesOne
  <2>2. ToSet(toBroker') \subseteq ToSet(toBroker)
    BY <1>2, <2>1, WithoutSent
  <2>3. Len(toBroker') = Len(toBroker) - 1 /\ Len(toBroker') \in Nat /\ Len(toBroker) \in Nat
    BY <1>2, <2>1, LenProperties DEF Without
  <2>4. \A p \in ToSet(toBroker') : p.type # "CONNECT"
    <3> SUFFICES ASSUME NEW p \in ToSet(toBroker'), p.type = "CONNECT" PROVE FALSE
      OBVIOUS
    <3>1. Len(toBroker) = 1
      BY <2>2 DEF Opening
    <3>2. \E n \in 1..Len(toBroker') : toBroker'[n] = p
      BY DEF ToSet
    <3>3. QED
      BY <2>3, <3>1, <3>2
  <2>5. CASE pc # "connack"
    BY <1>1, <2>4, <2>5 DEF Opening
  <2>6. CASE pc = "connack"
    <3>1. connected /\ Asked
      <4>1. toBroker # <<>>
        BY <2>3
      <4>2. QED
        BY <2>6, <4>1 DEF Opening, Welcomed
    <3>2. PICK p \in Outbound : p.type = "CONNECT" /\ toBroker = <<p>>
      BY <3>1 DEF Asked
    <3>3. toBroker[i] = p /\ Len(toBroker) = 1
      BY <2>1, <3>2
    <3>4. BrokerConnect(p)
      BY <2>1, <3>2, <3>3
    <3>5. p.clean \in BOOLEAN /\ session.durable \in BOOLEAN
      BY <1>2, <3>2 DEF Outbound, Sessions
    <3> DEFINE present == ~ p.clean /\ session.durable
               c == [type |-> "CONNACK", present |-> present]
    <3>6. /\ session' = [online |-> TRUE, durable |-> ~ p.clean,
                         subscribed |-> present /\ session.subscribed,
                         unacked |-> IF present THEN {[e EXCEPT !.sent = FALSE] : e \in session.unacked}
                                     ELSE {}]
          /\ toDevice' = toDevice \o <<c>>
      BY <3>1, <3>4 DEF BrokerConnect, Answer
    <3>7. toDevice' = <<c>>
      BY <3>1, <3>6 DEF Asked
    <3>8. c.type = "CONNACK" /\ c.present = present
      OBVIOUS
    <3>9. \/ present /\ session'.durable
          \/ ~ present /\ session'.unacked = {} /\ ~ session'.subscribed
      BY <3>5, <3>6
    <3> HIDE DEF c, present
    <3>10. toDevice' # <<>> /\ Head(toDevice') = c
      BY <3>7
    <3>11. toBroker' = <<>>
      BY <2>1, <2>3, <3>3, EmptySeq
    <3>12. Welcomed'
      BY <3>8, <3>9, <3>10, <3>11 DEF Welcomed
    <3>13. QED
      BY <1>1, <2>4, <2>6, <3>1, <3>12 DEF Opening
  <2>7. QED
    BY <2>5, <2>6
(* What the broker sends of its own accord follows the CONNACK.            *)
<1>4. ASSUME connected, session.online, session.subscribed \/ session.unacked # {},
             NEW p \in FromBroker, Answer(<<p>>), toBroker' = toBroker,
             session'.durable = session.durable
      PROVE  Opening'
  <2>1. \A q \in ToSet(toBroker') : q.type = "CONNECT" =>
              Len(toBroker') = 1 /\ (pc' = "connack" \/ (~ connected' /\ Held' = {}))
    BY <1>1, <1>4 DEF Opening
  <2>2. CASE pc # "connack"
    BY <1>1, <2>1, <2>2 DEF Opening
  <2>3. CASE pc = "connack"
    <3>1. Welcomed /\ Head(toDevice).present
      BY <1>4, <2>3 DEF Opening, Asked, Welcomed
    <3>2. toDevice' = toDevice \o <<p>>
      BY <1>4 DEF Answer
    <3>3. toDevice' # <<>> /\ Head(toDevice') = Head(toDevice)
      <4>1. Len(toDevice) \in Nat /\ Len(toDevice) # 0 /\ Head(toDevice) = toDevice[1]
        BY <1>2, <3>1, LenProperties, EmptySeq, HeadTailProperties DEF Welcomed
      <4>2. /\ toDevice' \in Seq(FromBroker) /\ Len(toDevice') = Len(toDevice) + 1
            /\ toDevice'[1] = toDevice[1]
        BY <1>2, <1>4, <3>2, <4>1
      <4>3. toDevice' # <<>> /\ Head(toDevice') = toDevice'[1]
        BY <4>1, <4>2, EmptySeq, HeadTailProperties
      <4>4. QED
        BY <4>1, <4>2, <4>3
    <3>4. Welcomed'
      BY <1>4, <3>1, <3>3 DEF Welcomed
    <3>5. QED
      BY <1>1, <1>4, <2>1, <2>3, <3>4 DEF Opening
  <2>4. QED
    BY <2>2, <2>3
<1>5. ASSUME NEW message \in Inbound, NEW id \in InboundIds, BrokerDeliver(message, id)
      PROVE  Opening'
  <2> DEFINE p == [type |-> "PUBLISH", packetId |-> id, message |-> message, dup |-> FALSE]
  <2>1. p \in FromBroker
    BY InboundIdsAssumption DEF FromBroker, PacketIds
  <2>2. /\ connected /\ session.online /\ session.subscribed /\ toBroker' = toBroker
        /\ Answer(<<p>>)
    BY <1>5 DEF BrokerDeliver
  <2>3. session'.durable = session.durable
    BY <1>2, <1>5 DEF BrokerDeliver, Sessions
  <2> HIDE DEF p
  <2>4. QED
    BY <1>4, <2>1, <2>2, <2>3
<1>6. CASE BrokerRedeliver
  <2>1. PICK e \in session.unacked :
            /\ session' = [session EXCEPT !.unacked = (@ \ {e}) \cup {[e EXCEPT !.sent = TRUE]}]
            /\ Answer(<<[type |-> "PUBLISH", packetId |-> e.packetId,
                         message |-> e.message, dup |-> TRUE]>>)
    BY <1>6 DEF BrokerRedeliver
  <2> DEFINE p == [type |-> "PUBLISH", packetId |-> e.packetId, message |-> e.message, dup |-> TRUE]
  <2>2. p \in FromBroker
    BY <1>2, InboundIdsAssumption DEF FromBroker, Sessions, PacketIds
  <2>3. session'.durable = session.durable
    BY <1>2, <2>1 DEF Sessions
  <2>4. Answer(<<p>>) /\ connected /\ session.online /\ toBroker' = toBroker /\ session.unacked # {}
    BY <1>6, <2>1 DEF BrokerRedeliver
  <2> HIDE DEF p
  <2>5. QED
    BY <1>4, <2>2, <2>3, <2>4
<1>7. CASE BrokerExpire
  BY <1>1, <1>7 DEF BrokerExpire, Opening
<1>8. QED
  BY <1>3, <1>5, <1>6, <1>7 DEF BrokerNext

LEMMA OpeningStep ==
    ASSUME "connack" \notin Faults, WireOK, IdsOK, Control, Opening, [Next]_vars
    PROVE  Opening'
<1>1. toDevice \in Seq(FromBroker) /\ toBroker \in Seq(Outbound) /\ session \in Sessions
  BY DEF WireOK
<1>2. ASSUME connected', linkUp', pc' # "connack", connected,
             \A p \in ToSet(toBroker') : p \in ToSet(toBroker) \/ p.type # "CONNECT",
             pc # "connack" \/ toBroker' = <<>>
      PROVE  Opening'
  <2>1. \A p \in ToSet(toBroker') : p.type # "CONNECT"
    <3>1. ToSet(<<>>) = {}
      BY DEF ToSet
    <3>2. QED
      BY <1>2, <3>1 DEF Opening
  <2>2. QED
    BY <1>2, <2>1 DEF Opening
<1>3. ASSUME ~ connected', pc' # "connack", toBroker' = toBroker, Held' \in {Held, {}},
             pc = "connack" => Held' = {}
      PROVE  Opening'
  BY <1>3 DEF Opening
<1>4. CASE Ordinary
  <2>1. Held' = Held
    BY <1>4, HeldChanges DEF Ordinary
  <2>2. CASE ~ connected
    BY <1>3, <1>4, <2>1, <2>2 DEF Ordinary
  <2>3. CASE connected
    <3>1. linkUp
      BY <1>4, <2>3 DEF Opening, Ordinary
    <3>2. \A p \in ToSet(toBroker') : p \in ToSet(toBroker) \/ p.type # "CONNECT"
      <4>1. ASSUME NEW p \in Outbound, p.type \notin {"CONNECT", "PUBACK"}, toBroker' = toBroker \o <<p>>
            PROVE  \A q \in ToSet(toBroker') : q \in ToSet(toBroker) \/ q.type # "CONNECT"
        <5>1. ToSet(toBroker \o <<p>>) = ToSet(toBroker) \cup {p}
          BY <1>1, MoreInSet
        <5>2. QED
          BY <4>1, <5>1
      <4>2. QED
        BY <1>4, <4>1 DEF Ordinary
    <3>3. QED
      BY <1>2, <1>4, <2>3, <3>1, <3>2 DEF Ordinary
  <2>4. QED
    BY <2>2, <2>3
<1>5. CASE Connect
  <2> DEFINE p == [type |-> "CONNECT", clean |-> ~ sessionSaved]
  <2>1. toDevice' = <<>> /\ toBroker' = <<p>> /\ connected' = TRUE /\ pc' = "connack"
    BY <1>5 DEF Connect, Open
  <2>2. ~ session'.online
    BY <1>1, <1>5 DEF Connect, Open, Sessions
  <2>3. p \in Outbound /\ p.type = "CONNECT"
    BY DEF Outbound
  <2> HIDE DEF p
  <2>4. Len(toBroker') = 1
    BY <2>1
  <2>5. QED
    BY <2>1, <2>2, <2>3, <2>4 DEF Opening, Asked
<1>6. ~ ConnackMissed
  BY DEF ConnackMissed, Fault, Opening
<1>7. CASE ConnackNewSession \/ ConnackSessionPresent
  <2>1. /\ pc = "connack" /\ toDevice # <<>> /\ UNCHANGED <<connected, toBroker>>
        /\ pc' # "connack" /\ linkUp' = TRUE
    BY <1>7 DEF ConnackNewSession, ConnackSessionPresent, Connack, Client!ConnectNewSession,
       Client!ConnectSessionPresent
  <2>2. connected /\ toBroker' = <<>>
    BY <2>1 DEF Opening, Asked, Welcomed
  <2>3. ToSet(<<>>) = {}
    BY DEF ToSet
  <2>4. QED
    BY <1>2, <2>1, <2>2, <2>3
<1>8. CASE Disconnect
  <2>1. connected' = FALSE /\ pc = "disconnect" /\ pc' = "offline" /\ toBroker' = toBroker
    BY <1>8 DEF Disconnect, Close
  <2>2. incoming' = incoming
    BY <1>8 DEF Disconnect, Client!LinkDown, clientVars
  <2>3. QED
    BY <1>3, <2>1, <2>2, HeldChanges
<1>9. CASE ConnectionLost
  <2>1. connected' = FALSE /\ pc # "connack" /\ pc' = pc /\ toBroker' = toBroker
    BY <1>9 DEF ConnectionLost, Close, taskVars
  <2>2. incoming' = incoming
    BY <1>9 DEF ConnectionLost, Client!LinkDown, clientVars
  <2>3. QED
    BY <1>3, <2>1, <2>2, HeldChanges
<1>10. CASE Restart
  <2>1. connected' = FALSE /\ pc' = "offline" /\ toBroker' = toBroker
    BY <1>10 DEF Restart, Close
  <2>2. incoming' = Client!EmptyRecords
    BY <1>10 DEF Restart, Client!Restart
  <2>3. QED
    BY <1>3, <2>1, <2>2, HeldChanges
<1>11. ASSUME NEW ok \in BOOLEAN, ReceivePublish(ok) PROVE Opening'
  <2> DEFINE p == Client!AckPacket("PUBACK", Head(toDevice).packetId)
  <2>1. /\ UNCHANGED <<connected, linkUp>> /\ linkUp /\ pc # "connack" /\ pc' # "connack"
    BY <1>11 DEF ReceivePublish, Receive, GoOn, Fail, Client!ReceivePublish, Loops
  <2>2. toBroker' \in {toBroker, toBroker \o <<p>>} /\ p \in Outbound /\ p.type # "CONNECT"
    BY <1>11, ReceivedWire DEF Client!AckPacket, Outbound
  <2> HIDE DEF p
  <2>3. ToSet(toBroker \o <<p>>) = ToSet(toBroker) \cup {p}
    BY <1>1, <2>2, MoreInSet
  <2>4. \A q \in ToSet(toBroker') : q \in ToSet(toBroker) \/ q.type # "CONNECT"
    BY <2>2, <2>3
  <2>5. connected
    BY <2>1 DEF Control
  <2>6. QED
    BY <1>2, <2>1, <2>4, <2>5
<1>12. CASE BrokerNext /\ UNCHANGED <<clientVars, taskVars>>
  BY <1>12, OpeningBroker
<1>13. CASE UNCHANGED vars
  <2>1. UNCHANGED <<connected, linkUp, pc, toBroker, toDevice, session, Held>>
    BY <1>13, HeldChanges DEF vars, brokerVars, clientVars, taskVars
  <2>2. QED
    BY <2>1 DEF Opening, Asked, Welcomed
<1>14. QED
  BY <1>4, <1>5, <1>6, <1>7, <1>8, <1>9, <1>10, <1>11, <1>12, <1>13, OrdinarySteps

(* The inbound publishes on the connection, the ids of their PUBACKs.      *)
Coming == {p \in ToSet(toDevice) : p.type = "PUBLISH"}
Going  == Sent(toBroker, "PUBACK")

(* The device and the broker mean the same session, or will as soon as the *)
(* CONNACK is read.                                                        *)
SameSession == linkUp \/ (session.durable /\ (toDevice = <<>> \/ Head(toDevice).present))

Inbox ==
    /\ \A e, f \in session.unacked : e.packetId = f.packetId => e = f
    /\ Once(toDevice, "PUBLISH") /\ Once(toBroker, "PUBACK")
    /\ \A p \in Coming :
          /\ p.packetId \notin Going
          /\ \E e \in session.unacked : e.packetId = p.packetId /\ e.message = p.message /\ e.sent
    /\ \A id \in Going :
          /\ id \notin Held
          /\ \E e \in session.unacked : e.packetId = id /\ e.sent /\ e.message \in seen
    /\ SameSession =>
          \A id \in Held : \E e \in session.unacked : e.packetId = id /\ e.message \in seen
    /\ settled \subseteq seen

LEMMA ComingNone == toDevice' = <<>> => Coming' = {} /\ Once(toDevice, "PUBLISH")'
BY DEF Coming, Once, ToSet

LEMMA ComingSame ==
    toDevice' = toDevice => Coming' = Coming /\ (Once(toDevice, "PUBLISH")' <=> Once(toDevice, "PUBLISH"))
BY DEF Coming, Once

LEMMA GoingSame ==
    toBroker' = toBroker => Going' = Going /\ (Once(toBroker, "PUBACK")' <=> Once(toBroker, "PUBACK"))
BY DEF Going, Sent, Once

LEMMA ComingLess ==
    ASSUME WireOK, toDevice # <<>>, toDevice' = Tail(toDevice), Once(toDevice, "PUBLISH")
    PROVE  /\ Coming' \subseteq Coming /\ Once(toDevice, "PUBLISH")'
           /\ Head(toDevice).type = "PUBLISH" =>
                 /\ Head(toDevice) \in Coming
                 /\ \A p \in Coming' : p.packetId # Head(toDevice).packetId
<1> DEFINE rest == Tail(toDevice)
<1>1. Without(toDevice, 1, rest) /\ rest \in Seq(FromBroker) /\ toDevice \in Seq(FromBroker)
  BY TailWithout, HeadTailProperties DEF WireOK
<1> HIDE DEF rest
<1>2. /\ ToSet(rest) \subseteq ToSet(toDevice) /\ toDevice[1] \in ToSet(toDevice)
      /\ Once(rest, "PUBLISH")
      /\ toDevice[1].type = "PUBLISH" => toDevice[1].packetId \notin Sent(rest, "PUBLISH")
  BY <1>1, WithoutSent
<1>3. toDevice[1] = Head(toDevice)
  BY <1>1, HeadTailProperties
<1>4. toDevice' = rest
  BY DEF rest
<1>5. Coming' = {p \in ToSet(rest) : p.type = "PUBLISH"} /\ Once(toDevice, "PUBLISH")'
  BY <1>2, <1>4 DEF Coming, Once
<1>6. QED
  BY <1>2, <1>3, <1>5 DEF Coming, Sent

LEMMA ComingMore ==
    ASSUME WireOK, NEW p \in FromBroker, toDevice' = toDevice \o <<p>>, Once(toDevice, "PUBLISH"),
           p.type = "PUBLISH" => \A q \in Coming : q.packetId # p.packetId
    PROVE  /\ Coming' = IF p.type = "PUBLISH" THEN Coming \cup {p} ELSE Coming
           /\ Once(toDevice, "PUBLISH")'
<1> DEFINE more == toDevice \o <<p>>
<1>1. toDevice \in Seq(FromBroker)
  BY DEF WireOK
<1>2. ToSet(more) = ToSet(toDevice) \cup {p}
  BY <1>1, MoreInSet
<1>3. p.type = "PUBLISH" => p.packetId \notin Sent(toDevice, "PUBLISH")
  BY DEF Coming, Sent
<1>4. Once(more, "PUBLISH")
  BY <1>1, <1>3, MoreOnce
<1>5. toDevice' = more
  OBVIOUS
<1> HIDE DEF more
<1>6. Once(toDevice, "PUBLISH")' /\ Coming' = {q \in ToSet(more) : q.type = "PUBLISH"}
  BY <1>4, <1>5 DEF Once, Coming
<1>7. CASE p.type = "PUBLISH"
  BY <1>2, <1>6, <1>7 DEF Coming
<1>8. CASE p.type # "PUBLISH"
  BY <1>2, <1>6, <1>8 DEF Coming
<1>9. QED
  BY <1>7, <1>8

LEMMA GoingMore ==
    ASSUME WireOK, NEW p \in Outbound, toBroker' = toBroker \o <<p>>, Once(toBroker, "PUBACK"),
           p.type = "PUBACK" => p.packetId \notin Going
    PROVE  /\ Going' = IF p.type = "PUBACK" THEN Going \cup {p.packetId} ELSE Going
           /\ Once(toBroker, "PUBACK")'
<1> DEFINE more == toBroker \o <<p>>
<1>1. toBroker \in Seq(Outbound)
  BY DEF WireOK
<1>2. /\ p.type = "PUBACK" => Sent(more, "PUBACK") = Sent(toBroker, "PUBACK") \cup {p.packetId}
      /\ p.type # "PUBACK" => Sent(more, "PUBACK") = Sent(toBroker, "PUBACK")
  BY <1>1, MoreSent
<1>3. Once(more, "PUBACK")
  BY <1>1, MoreOnce DEF Going
<1>4. toBroker' = more
  OBVIOUS
<1> HIDE DEF more
<1>5. Going' = Sent(more, "PUBACK") /\ Once(toBroker, "PUBACK")'
  BY <1>3, <1>4 DEF Going, Sent, Once
<1>6. QED
  BY <1>2, <1>5 DEF Going

LEMMA GoingLess ==
    ASSUME WireOK, NEW i, Without(toBroker, i, toBroker'), toBroker' \in Seq(Outbound),
           Once(toBroker, "PUBACK")
    PROVE  /\ Going' \subseteq Going /\ Once(toBroker, "PUBACK")'
           /\ toBroker[i].type = "PUBACK" =>
                 toBroker[i].packetId \in Going /\ toBroker[i].packetId \notin Going'
<1>1. toBroker \in Seq(Outbound)
  BY DEF WireOK
<1> DEFINE rest == toBroker'
<1>2. Without(toBroker, i, rest) /\ rest \in Seq(Outbound)
  OBVIOUS
<1> HIDE DEF rest
<1>3. /\ Sent(rest, "PUBACK") \subseteq Sent(toBroker, "PUBACK") /\ Once(rest, "PUBACK")
      /\ toBroker[i] \in ToSet(toBroker)
      /\ toBroker[i].type = "PUBACK" => toBroker[i].packetId \notin Sent(rest, "PUBACK")
  BY <1>1, <1>2, WithoutSent
<1>4. Going' = Sent(rest, "PUBACK") /\ Once(toBroker, "PUBACK")'
  BY <1>3 DEF Going, Sent, Once, rest
<1>5. toBroker[i].type = "PUBACK" => toBroker[i].packetId \in Going
  BY <1>3 DEF Going, Sent
<1>6. QED
  BY <1>3, <1>4, <1>5 DEF Going

(* A step that brings nothing new: the broker keeps what it has.           *)
LEMMA InboxKept ==
    ASSUME Inbox, settled' = settled, seen \subseteq seen', session'.unacked = session.unacked,
           Coming' \subseteq Coming, Once(toDevice, "PUBLISH")',
           Going' \subseteq Going, Once(toBroker, "PUBACK")',
           Held' = Held \/ Held' = {},
           SameSession' => SameSession \/ Held' = {}
    PROVE  Inbox'
<1>1. /\ \A e, f \in session'.unacked : e.packetId = f.packetId => e = f
      /\ settled' \subseteq seen'
  BY DEF Inbox
<1>2. \A p \in Coming' :
         /\ p.packetId \notin Going'
         /\ \E e \in session'.unacked : e.packetId = p.packetId /\ e.message = p.message /\ e.sent
  BY DEF Inbox
<1>3. \A id \in Going' :
         /\ id \notin Held'
         /\ \E e \in session'.unacked : e.packetId = id /\ e.sent /\ e.message \in seen'
  BY DEF Inbox
<1>4. SameSession' => \A id \in Held' : \E e \in session'.unacked : e.packetId = id /\ e.message \in seen'
  BY DEF Inbox
<1>5. QED
  BY <1>1, <1>2, <1>3, <1>4 DEF Inbox

(* The broker takes a CONNECT, and keeps the session or starts a new one.  *)
LEMMA InboxConnect ==
    ASSUME WireOK, WireOK', Control, Opening, Inbox, NEW i \in 1..Len(toBroker),
           Without(toBroker, i, toBroker'), toBroker[i] \in Outbound, toBroker[i] \in ToSet(toBroker),
           toBroker[i].type = "CONNECT", BrokerConnect(toBroker[i]),
           UNCHANGED <<connected, linkUp, pc, Held, seen>>
    PROVE  Inbox'
<1>1. session \in Sessions /\ toBroker \in Seq(Outbound) /\ toBroker' \in Seq(Outbound)
  BY DEF WireOK
<1>2. PICK q : q = toBroker[i]
  OBVIOUS
<1>3. q \in Outbound /\ q \in ToSet(toBroker) /\ q.type = "CONNECT" /\ BrokerConnect(q)
  BY <1>2
<1>4. Len(toBroker) = 1 /\ (pc = "connack" \/ (~ connected /\ Held = {}))
  BY <1>3 DEF Opening
<1>5. i = 1
  BY <1>4
<1>6. Going = {}
  <2>1. \A p \in ToSet(toBroker) : p = q
    BY <1>2, <1>4, <1>5 DEF ToSet
  <2>2. QED
    BY <1>3, <2>1 DEF Going, Sent
<1>7. Going' = {} /\ Once(toBroker, "PUBACK")'
  BY <1>1, <1>6, GoingLess DEF Inbox
<1>8. toDevice = <<>>
  <2>1. CASE ~ connected
    BY <2>1 DEF Control
  <2>2. CASE connected
    <3>1. toBroker # <<>>
      BY <1>4
    <3>2. QED
      BY <1>4, <2>2, <3>1 DEF Opening, Asked, Welcomed
  <2>3. QED
    BY <2>1, <2>2
<1> DEFINE present == ~ q.clean /\ session.durable
           c       == [type |-> "CONNACK", present |-> present]
           again   == {[e EXCEPT !.sent = FALSE] : e \in session.unacked}
<1>9. /\ session' = [online |-> TRUE, durable |-> ~ q.clean,
                     subscribed |-> present /\ session.subscribed,
                     unacked |-> IF present THEN again ELSE {}]
      /\ toDevice' = IF connected THEN toDevice \o <<c>> ELSE toDevice
      /\ settled' = settled
  BY <1>3 DEF BrokerConnect, Answer
<1>10. c \in FromBroker /\ c.type # "PUBLISH" /\ c.present = present
  <2>1. q.clean \in BOOLEAN /\ session.durable \in BOOLEAN
    BY <1>1, <1>3 DEF Outbound, Sessions
  <2>2. QED
    BY <2>1 DEF FromBroker
<1>11. /\ session'.unacked = IF present THEN again ELSE {}
       /\ session'.durable = ~ q.clean
  BY <1>9
<1>12. Coming = {} /\ Once(toDevice, "PUBLISH")
  BY <1>8 DEF Coming, ToSet, Inbox
<1>13. Coming' = {} /\ Once(toDevice, "PUBLISH")'
  <2> HIDE DEF c, present
  <2>1. CASE connected
    <3>1. toDevice' = toDevice \o <<c>>
      BY <1>9, <2>1
    <3>2. QED
      BY <1>10, <1>12, <3>1, ComingMore
  <2>2. CASE ~ connected
    BY <1>8, <1>9, <2>2, ComingNone
  <2>3. QED
    BY <2>1, <2>2
<1>14. \A e, f \in session'.unacked : e.packetId = f.packetId => e = f
  <2>1. session.unacked \subseteq [packetId: InboundIds, message: Inbound, sent: BOOLEAN]
    BY <1>1 DEF Sessions
  <2>2. \A e \in again : \E a \in session.unacked : e = [a EXCEPT !.sent = FALSE] /\ e.packetId = a.packetId
    BY <2>1
  <2>3. \A e, f \in again : e.packetId = f.packetId => e = f
    <3> SUFFICES ASSUME NEW e \in again, NEW f \in again, e.packetId = f.packetId PROVE e = f
      OBVIOUS
    <3>1. PICK a \in session.unacked : e = [a EXCEPT !.sent = FALSE] /\ e.packetId = a.packetId
      BY <2>2
    <3>2. PICK b \in session.unacked : f = [b EXCEPT !.sent = FALSE] /\ f.packetId = b.packetId
      BY <2>2
    <3>3. a = b
      BY <3>1, <3>2 DEF Inbox
    <3>4. QED
      BY <3>1, <3>2, <3>3
  <2> HIDE DEF again, present
  <2>4. QED
    BY <1>11, <2>3
<1>15. SameSession' => \A id \in Held' : \E e \in session'.unacked : e.packetId = id /\ e.message \in seen'
  <2>1. CASE ~ connected /\ Held = {}
    BY <2>1
  <2>2. CASE connected \/ Held # {}
    <3>1. pc = "connack" /\ ~ linkUp /\ connected
      BY <1>4, <2>2 DEF Control, Opening
    <3>2. toDevice' = <<c>>
      BY <1>8, <1>9, <3>1
    <3> HIDE DEF c, present, again
    <3>3. toDevice' # <<>> /\ Head(toDevice') = c
      BY <3>2
    <3>4. SameSession' => present
      BY <1>10, <3>1, <3>3 DEF SameSession
    <3>5. present => SameSession
      BY <1>8 DEF SameSession, present
    <3>6. ASSUME present
          PROVE  \A id \in Held' : \E e \in session'.unacked : e.packetId = id /\ e.message \in seen'
      <4>1. \A id \in Held : \E e \in session.unacked : e.packetId = id /\ e.message \in seen
        BY <3>5, <3>6 DEF Inbox
      <4>2. session.unacked \subseteq [packetId: InboundIds, message: Inbound, sent: BOOLEAN]
        BY <1>1 DEF Sessions
      <4>3. \A e \in session.unacked : \E f \in again : f.packetId = e.packetId /\ f.message = e.message
        <5> TAKE e \in session.unacked
        <5> DEFINE f == [e EXCEPT !.sent = FALSE]
        <5>1. f \in again
          BY DEF again
        <5>2. f.packetId = e.packetId /\ f.message = e.message
          BY <4>2
        <5>3. QED
          BY <5>1, <5>2
      <4>4. session'.unacked = again
        BY <1>11, <3>6
      <4>5. QED
        BY <4>1, <4>3, <4>4
    <3>7. QED
      BY <3>4, <3>6
  <2>3. QED
    BY <1>4, <2>1, <2>2
<1>16. settled' \subseteq seen'
  BY <1>9 DEF Inbox
<1>17. QED
  BY <1>7, <1>13, <1>14, <1>15, <1>16 DEF Inbox

(* The broker takes a PUBACK: what it settles was reported.                *)
LEMMA InboxPuback ==
    ASSUME WireOK, WireOK', Inbox, NEW i \in 1..Len(toBroker),
           Without(toBroker, i, toBroker'), toBroker[i] \in Outbound,
           toBroker[i].type = "PUBACK", BrokerPuback(toBroker[i]),
           UNCHANGED <<connected, linkUp, Held, seen>>
    PROVE  Inbox'
<1>1. session \in Sessions /\ toBroker' \in Seq(Outbound)
  BY DEF WireOK
<1>2. PICK id : id = toBroker[i].packetId
  OBVIOUS
<1> DEFINE done == {e \in session.unacked : e.packetId = id}
<1>3. /\ session' = [session EXCEPT !.unacked = @ \ done]
      /\ settled' = settled \cup {e.message : e \in done}
      /\ toDevice' = toDevice
  BY <1>2 DEF BrokerPuback
<1>4. session'.unacked = session.unacked \ done /\ session'.durable = session.durable
  BY <1>1, <1>3 DEF Sessions
<1>5. /\ Going' \subseteq Going /\ Once(toBroker, "PUBACK")'
      /\ id \in Going /\ id \notin Going'
  BY <1>1, <1>2, GoingLess DEF Inbox
<1>6. Coming' = Coming /\ Once(toDevice, "PUBLISH")'
  BY <1>3, ComingSame DEF Inbox
<1>7. id \notin Held /\ \A e \in done : e.message \in seen
  BY <1>5 DEF Inbox
<1>8. settled' \subseteq seen'
  BY <1>3, <1>7 DEF Inbox
<1>9. \A e \in session.unacked : e.packetId # id => e \in session'.unacked
  BY <1>4
<1>10. \A e, f \in session'.unacked : e.packetId = f.packetId => e = f
  BY <1>4 DEF Inbox
<1> HIDE DEF done
<1>11. \A p \in Coming' :
          /\ p.packetId \notin Going'
          /\ \E e \in session'.unacked : e.packetId = p.packetId /\ e.message = p.message /\ e.sent
  <2> TAKE p \in Coming'
  <2>1. p \in Coming /\ p.packetId \notin Going
    BY <1>6 DEF Inbox
  <2>2. PICK e \in session.unacked : e.packetId = p.packetId /\ e.message = p.message /\ e.sent
    BY <2>1 DEF Inbox
  <2>3. QED
    BY <1>5, <1>9, <2>1, <2>2
<1>12. \A k \in Going' :
          /\ k \notin Held'
          /\ \E e \in session'.unacked : e.packetId = k /\ e.sent /\ e.message \in seen'
  <2> TAKE k \in Going'
  <2>1. k \in Going /\ k # id
    BY <1>5
  <2>2. PICK e \in session.unacked : e.packetId = k /\ e.sent /\ e.message \in seen
    BY <2>1 DEF Inbox
  <2>3. QED
    BY <1>9, <2>1, <2>2 DEF Inbox
<1>13. SameSession' => \A k \in Held' : \E e \in session'.unacked : e.packetId = k /\ e.message \in seen'
  <2>1. SameSession' <=> SameSession
    BY <1>3, <1>4 DEF SameSession
  <2>2. QED
    BY <1>7, <1>9, <2>1 DEF Inbox
<1>14. QED
  BY <1>5, <1>6, <1>8, <1>10, <1>11, <1>12, <1>13 DEF Inbox

(* The broker takes another packet, and answers it.                        *)
LEMMA InboxRequest ==
    ASSUME WireOK, WireOK', Control, Opening, Inbox, NEW i \in 1..Len(toBroker),
           Without(toBroker, i, toBroker'), toBroker[i] \in Outbound,
           \/ toBroker[i].type = "PUBLISH" /\ BrokerPublish(toBroker[i])
           \/ toBroker[i].type = "SUBSCRIBE" /\ BrokerSubscribe(toBroker[i])
           \/ toBroker[i].type = "UNSUBSCRIBE" /\ BrokerUnsubscribe(toBroker[i]),
           UNCHANGED <<connected, linkUp, pc, Held, seen>>
    PROVE  Inbox'
<1>1. session \in Sessions /\ toBroker' \in Seq(Outbound)
  BY DEF WireOK
<1>2. PICK q : q = toBroker[i]
  OBVIOUS
<1>3. /\ settled' = settled /\ session'.unacked = session.unacked /\ session'.durable = session.durable
      /\ \E p \in FromBroker : p.type # "PUBLISH" /\ Answer(<<p>>)
  <2>1. CASE q.type = "PUBLISH" /\ BrokerPublish(q)
    <3> DEFINE p == [type |-> "PUBACK", packetId |-> q.packetId]
    <3>1. p \in FromBroker /\ p.type # "PUBLISH"
      BY <1>2, <2>1 DEF FromBroker, Outbound
    <3>2. Answer(<<p>>) /\ UNCHANGED <<session, settled>>
      BY <2>1 DEF BrokerPublish
    <3> HIDE DEF p
    <3>3. QED
      BY <3>1, <3>2
  <2>2. CASE q.type = "SUBSCRIBE" /\ BrokerSubscribe(q)
    <3>1. PICK accept \in BOOLEAN :
              /\ session' = [session EXCEPT !.subscribed = @ \/ accept]
              /\ Answer(<<[type |-> "SUBACK", packetId |-> q.packetId, granted |-> accept]>>)
              /\ settled' = settled
      BY <2>2 DEF BrokerSubscribe
    <3> DEFINE p == [type |-> "SUBACK", packetId |-> q.packetId, granted |-> accept]
    <3>2. p \in FromBroker /\ p.type # "PUBLISH"
      BY <1>2, <2>2 DEF FromBroker, Outbound
    <3>3. session'.unacked = session.unacked /\ session'.durable = session.durable
      BY <1>1, <3>1 DEF Sessions
    <3>4. Answer(<<p>>)
      BY <3>1
    <3> HIDE DEF p
    <3>5. QED
      BY <3>1, <3>2, <3>3, <3>4
  <2>3. CASE q.type = "UNSUBSCRIBE" /\ BrokerUnsubscribe(q)
    <3> DEFINE p == [type |-> "UNSUBACK", packetId |-> q.packetId]
    <3>1. p \in FromBroker /\ p.type # "PUBLISH"
      BY <1>2, <2>3 DEF FromBroker, Outbound
    <3>2. Answer(<<p>>) /\ settled' = settled
      BY <2>3 DEF BrokerUnsubscribe
    <3>3. session'.unacked = session.unacked /\ session'.durable = session.durable
      BY <1>1, <2>3 DEF BrokerUnsubscribe, Sessions
    <3> HIDE DEF p
    <3>4. QED
      BY <3>1, <3>2, <3>3
  <2>4. QED
    BY <1>2, <2>1, <2>2, <2>3
<1>4. PICK p \in FromBroker : p.type # "PUBLISH" /\ Answer(<<p>>)
  BY <1>3
<1>5. Coming' = Coming /\ Once(toDevice, "PUBLISH")'
  <2>1. CASE connected
    <3>1. toDevice' = toDevice \o <<p>>
      BY <1>4, <2>1 DEF Answer
    <3>2. QED
      BY <1>4, <3>1, ComingMore DEF Inbox
  <2>2. CASE ~ connected
    BY <1>4, <2>2, ComingSame DEF Answer, Inbox
  <2>3. QED
    BY <2>1, <2>2
<1>6. Going' \subseteq Going /\ Once(toBroker, "PUBACK")'
  BY <1>1, GoingLess DEF Inbox
<1>7. SameSession' => SameSession
  <2>1. CASE connected
    <3>1. toBroker # <<>> /\ \A n \in 1..Len(toBroker) : toBroker = <<toBroker[n]>> => n = 1
      OBVIOUS
    <3>2. ~ Asked /\ ~ Welcomed
      <4>1. ~ Welcomed
        BY <3>1 DEF Welcomed
      <4>2. ASSUME Asked PROVE FALSE
        <5>1. PICK a \in Outbound : a.type = "CONNECT" /\ toBroker = <<a>>
          BY <4>2 DEF Asked
        <5>2. Len(toBroker) = 1 /\ toBroker[1] = a
          BY <5>1
        <5>3. i = 1
          BY <5>2
        <5>4. QED
          BY <5>1, <5>2, <5>3
      <4>3. QED
        BY <4>1, <4>2
    <3>3. linkUp
      BY <2>1, <3>2 DEF Opening
    <3>4. QED
      BY <3>3 DEF SameSession
  <2>2. CASE ~ connected
    <3>1. toDevice' = toDevice
      BY <1>4, <2>2 DEF Answer
    <3>2. QED
      BY <1>3, <3>1 DEF SameSession
  <2>3. QED
    BY <2>1, <2>2
<1>8. QED
  BY <1>3, <1>5, <1>6, <1>7, InboxKept

(* The broker sends a publish it has under a packet id nothing else on the *)
(* connection is about.                                                    *)
LEMMA InboxSend ==
    ASSUME WireOK, Control, Opening, Inbox, connected, session.online,
           session.subscribed \/ session.unacked # {},
           NEW p \in FromBroker, p.type = "PUBLISH", Answer(<<p>>),
           \A q \in Coming : q.packetId # p.packetId, p.packetId \notin Going
    PROVE  /\ Coming' = Coming \cup {p} /\ Once(toDevice, "PUBLISH")'
           /\ session'.durable = session.durable /\ UNCHANGED <<linkUp, connected>> =>
                 (SameSession' => SameSession)
<1>1. toDevice' = toDevice \o <<p>> /\ toDevice \in Seq(FromBroker)
  BY DEF Answer, WireOK
<1>2. Coming' = Coming \cup {p} /\ Once(toDevice, "PUBLISH")'
  BY <1>1, ComingMore DEF Inbox
<1>3. ASSUME session'.durable = session.durable, UNCHANGED <<linkUp, connected>>, SameSession'
      PROVE  SameSession
  <2>1. CASE linkUp
    BY <2>1 DEF SameSession
  <2>2. CASE ~ linkUp
    <3>1. toDevice # <<>> /\ Welcomed
      BY <2>2 DEF Opening, Asked, Welcomed
    <3>2. Len(toDevice) \in Nat /\ Len(toDevice) # 0 /\ Head(toDevice) = toDevice[1]
      BY <1>1, <3>1, LenProperties, EmptySeq, HeadTailProperties
    <3>3. /\ toDevice' \in Seq(FromBroker) /\ Len(toDevice') = Len(toDevice) + 1
          /\ toDevice'[1] = toDevice[1]
      BY <1>1, <3>2
    <3>4. toDevice' # <<>> /\ Head(toDevice') = toDevice'[1]
      BY <3>2, <3>3, EmptySeq, HeadTailProperties
    <3>5. QED
      BY <1>3, <2>2, <3>2, <3>3, <3>4 DEF SameSession
  <2>3. QED
    BY <2>1, <2>2
<1>4. QED
  BY <1>2, <1>3

LEMMA InboxDeliver ==
    ASSUME WireOK, Control, Opening, Inbox, NEW message \in Inbound, NEW id \in InboundIds,
           BrokerDeliver(message, id), UNCHANGED <<connected, linkUp, Held, seen>>
    PROVE  Inbox'
<1> DEFINE p == [type |-> "PUBLISH", packetId |-> id, message |-> message, dup |-> FALSE]
           n == [packetId |-> id, message |-> message, sent |-> TRUE]
<1>1. /\ p \in FromBroker /\ p.type = "PUBLISH" /\ p.packetId = id /\ p.message = message
      /\ n.packetId = id /\ n.message = message /\ n.sent
  BY InboundIdsAssumption DEF FromBroker, PacketIds
<1>2. /\ connected /\ session.online /\ session.subscribed /\ Answer(<<p>>)
      /\ \A e \in session.unacked : e.packetId # id
      /\ session' = [session EXCEPT !.unacked = @ \cup {n}]
      /\ toBroker' = toBroker /\ settled' = settled
  BY DEF BrokerDeliver
<1>3. session'.unacked = session.unacked \cup {n} /\ session'.durable = session.durable
  BY <1>2 DEF WireOK, Sessions
<1> HIDE DEF p, n
<1>4. (\A q \in Coming : q.packetId # id) /\ id \notin Going
  BY <1>2 DEF Inbox
<1>5. Coming' = Coming \cup {p} /\ Once(toDevice, "PUBLISH")' /\ (SameSession' => SameSession)
  BY <1>1, <1>2, <1>3, <1>4, InboxSend
<1>6. Going' = Going /\ Once(toBroker, "PUBACK")'
  BY <1>2, GoingSame DEF Inbox
<1>7. \A e, f \in session'.unacked : e.packetId = f.packetId => e = f
  BY <1>1, <1>2, <1>3 DEF Inbox
<1>8. \A q \in Coming' :
         /\ q.packetId \notin Going'
         /\ \E e \in session'.unacked : e.packetId = q.packetId /\ e.message = q.message /\ e.sent
  <2>1. \A q \in Coming :
          \E e \in session'.unacked : e.packetId = q.packetId /\ e.message = q.message /\ e.sent
    BY <1>3 DEF Inbox
  <2>2. n \in session'.unacked
    BY <1>3
  <2>3. QED
    BY <1>1, <1>4, <1>5, <1>6, <2>1, <2>2 DEF Inbox
<1>9. \A k \in Going' :
         /\ k \notin Held'
         /\ \E e \in session'.unacked : e.packetId = k /\ e.sent /\ e.message \in seen'
  BY <1>3, <1>6 DEF Inbox
<1>10. SameSession' => \A k \in Held' : \E e \in session'.unacked : e.packetId = k /\ e.message \in seen'
  BY <1>3, <1>5 DEF Inbox
<1>11. settled' \subseteq seen'
  BY <1>2 DEF Inbox
<1>12. QED
  BY <1>5, <1>6, <1>7, <1>8, <1>9, <1>10, <1>11 DEF Inbox

LEMMA InboxRedeliver ==
    ASSUME WireOK, Control, Opening, Inbox, BrokerRedeliver,
           UNCHANGED <<connected, linkUp, Held, seen>>
    PROVE  Inbox'
<1>1. session.unacked \subseteq [packetId: InboundIds, message: Inbound, sent: BOOLEAN]
  BY DEF WireOK, Sessions
<1>2. PICK e \in session.unacked :
          /\ ~ e.sent
          /\ session' = [session EXCEPT !.unacked = (@ \ {e}) \cup {[e EXCEPT !.sent = TRUE]}]
          /\ Answer(<<[type |-> "PUBLISH", packetId |-> e.packetId,
                       message |-> e.message, dup |-> TRUE]>>)
  BY DEF BrokerRedeliver
<1> DEFINE p == [type |-> "PUBLISH", packetId |-> e.packetId, message |-> e.message, dup |-> TRUE]
           n == [e EXCEPT !.sent = TRUE]
<1>3. /\ p \in FromBroker /\ p.type = "PUBLISH" /\ p.packetId = e.packetId /\ p.message = e.message
      /\ n.packetId = e.packetId /\ n.message = e.message /\ n.sent
  BY <1>1, InboundIdsAssumption DEF FromBroker, PacketIds
<1>4. /\ connected /\ session.online /\ session.unacked # {} /\ Answer(<<p>>)
      /\ toBroker' = toBroker /\ settled' = settled
  BY <1>2 DEF BrokerRedeliver
<1>5. session'.unacked = (session.unacked \ {e}) \cup {n} /\ session'.durable = session.durable
  BY <1>2 DEF WireOK, Sessions
<1> HIDE DEF p, n
<1>6. \A f \in session.unacked : f.packetId = e.packetId => f = e
  BY DEF Inbox
<1>7. (\A q \in Coming : q.packetId # e.packetId) /\ e.packetId \notin Going
  BY <1>2, <1>6 DEF Inbox
<1>8. Coming' = Coming \cup {p} /\ Once(toDevice, "PUBLISH")' /\ (SameSession' => SameSession)
  BY <1>3, <1>4, <1>5, <1>7, InboxSend
<1>9. Going' = Going /\ Once(toBroker, "PUBACK")'
  BY <1>4, GoingSame DEF Inbox
<1>10. \A f \in session.unacked : f.packetId # e.packetId => f \in session'.unacked
  BY <1>5
<1>11. n \in session'.unacked
  BY <1>5
<1>12. \A f \in session'.unacked : f = n \/ (f \in session.unacked /\ f # e)
  BY <1>5
<1>13. \A f, g \in session'.unacked : f.packetId = g.packetId => f = g
  BY <1>3, <1>6, <1>12 DEF Inbox
<1>14. \A q \in Coming' :
         /\ q.packetId \notin Going'
         /\ \E f \in session'.unacked : f.packetId = q.packetId /\ f.message = q.message /\ f.sent
  <2>1. \A q \in Coming :
          \E f \in session'.unacked : f.packetId = q.packetId /\ f.message = q.message /\ f.sent
    BY <1>7, <1>10 DEF Inbox
  <2>2. QED
    BY <1>3, <1>7, <1>8, <1>9, <1>11, <2>1 DEF Inbox
<1>15. \A k \in Going' :
         /\ k \notin Held'
         /\ \E f \in session'.unacked : f.packetId = k /\ f.sent /\ f.message \in seen'
  BY <1>7, <1>9, <1>10 DEF Inbox
<1>16. SameSession' => \A k \in Held' : \E f \in session'.unacked : f.packetId = k /\ f.message \in seen'
  <2> SUFFICES ASSUME SameSession', NEW k \in Held'
               PROVE  \E f \in session'.unacked : f.packetId = k /\ f.message \in seen'
    OBVIOUS
  <2>1. PICK f \in session.unacked : f.packetId = k /\ f.message \in seen
    BY <1>8 DEF Inbox
  <2>2. CASE k = e.packetId
    <3>1. f = e
      BY <1>6, <2>1, <2>2
    <3>2. QED
      BY <1>3, <1>11, <2>1, <3>1
  <2>3. CASE k # e.packetId
    BY <1>10, <2>1, <2>3
  <2>4. QED
    BY <2>2, <2>3
<1>17. settled' \subseteq seen'
  BY <1>4 DEF Inbox
<1>18. QED
  BY <1>8, <1>9, <1>13, <1>14, <1>15, <1>16, <1>17 DEF Inbox

LEMMA InboxBroker ==
    WireOK /\ WireOK' /\ Control /\ Opening /\ Inbox /\ BrokerNext /\ UNCHANGED <<clientVars, taskVars>>
        => Inbox'
<1> SUFFICES ASSUME WireOK, WireOK', Control, Opening, Inbox, BrokerNext,
                    UNCHANGED <<clientVars, taskVars>>
             PROVE  Inbox'
  OBVIOUS
<1>1. UNCHANGED <<connected, linkUp, pc, Held, seen>>
  BY BrokerKeepsLink, HeldChanges DEF clientVars, taskVars
<1>2. CASE BrokerReceive
  <2>1. PICK i \in 1..Len(toBroker) :
              /\ Without(toBroker, i, toBroker') /\ toBroker' \in Seq(Outbound)
              /\ toBroker[i] \in Outbound /\ toBroker[i] \in ToSet(toBroker)
              /\ \/ toBroker[i].type = "CONNECT" /\ BrokerConnect(toBroker[i])
                 \/ toBroker[i].type = "PUBLISH" /\ BrokerPublish(toBroker[i])
                 \/ toBroker[i].type = "SUBSCRIBE" /\ BrokerSubscribe(toBroker[i])
                 \/ toBroker[i].type = "UNSUBSCRIBE" /\ BrokerUnsubscribe(toBroker[i])
                 \/ toBroker[i].type = "PUBACK" /\ BrokerPuback(toBroker[i])
    BY <1>2, BrokerTakesOne
  <2>2. CASE toBroker[i].type = "CONNECT" /\ BrokerConnect(toBroker[i])
    BY <1>1, <2>1, <2>2, InboxConnect
  <2>3. CASE toBroker[i].type = "PUBACK" /\ BrokerPuback(toBroker[i])
    BY <1>1, <2>1, <2>3, InboxPuback
  <2>4. CASE \/ toBroker[i].type = "PUBLISH" /\ BrokerPublish(toBroker[i])
             \/ toBroker[i].type = "SUBSCRIBE" /\ BrokerSubscribe(toBroker[i])
             \/ toBroker[i].type = "UNSUBSCRIBE" /\ BrokerUnsubscribe(toBroker[i])
    BY <1>1, <2>1, <2>4, InboxRequest
  <2>5. QED
    BY <2>1, <2>2, <2>3, <2>4
<1>3. ASSUME NEW message \in Inbound, NEW id \in InboundIds, BrokerDeliver(message, id)
      PROVE  Inbox'
  BY <1>1, <1>3, InboxDeliver
<1>4. CASE BrokerRedeliver
  BY <1>1, <1>4, InboxRedeliver
<1>5. CASE BrokerExpire
  <2>1. /\ ~ connected /\ toBroker = <<>> /\ session' = NoSession
        /\ UNCHANGED <<toBroker, toDevice, settled>>
    BY <1>5 DEF BrokerExpire
  <2>2. toDevice' = <<>> /\ ~ linkUp'
    BY <1>1, <2>1 DEF Control
  <2>3. Coming' = {} /\ Once(toDevice, "PUBLISH")'
    BY <2>2, ComingNone
  <2>4. Going' = {} /\ Once(toBroker, "PUBACK")'
    BY <2>1, GoingSame DEF Going, Sent, ToSet, Inbox
  <2>5. session'.unacked = {} /\ ~ SameSession'
    BY <2>1, <2>2 DEF NoSession, SameSession
  <2>6. QED
    BY <1>1, <2>1, <2>3, <2>4, <2>5 DEF Inbox
<1>6. QED
  BY <1>2, <1>3, <1>4, <1>5 DEF BrokerNext

(* The task handles a publish: it acknowledges what it reports, or has     *)
(* reported, and remembers what it reported and did not acknowledge.       *)
LEMMA AckOnWire ==
    ASSUME NEW id, toBroker \in Seq(Outbound), Transmit(OnWire(result'.sent, 0))
    PROVE  /\ result'.sent = <<>> => toBroker' = toBroker
           /\ result'.sent = <<Client!AckPacket("PUBACK", id)>> =>
                 toBroker' = toBroker \o <<Client!AckPacket("PUBACK", id)>>
<1>1. toBroker \o <<>> = toBroker
  BY EmptySeq, ConcatProperties
<1>2. QED
  BY <1>1, OnWireNothing, OnWireAck DEF Transmit

LEMMA Received ==
    ASSUME WireOK, Library!LibInv, Library!AcksOnly(incoming), NEW ok \in BOOLEAN, ReceivePublish(ok)
    PROVE  LET p  == Head(toDevice)
               id == p.packetId
               q  == [type |-> "PUBACK", packetId |-> id]
           IN  /\ p \in FromBroker /\ p.type = "PUBLISH" /\ q \in Outbound
               /\ toDevice # <<>> /\ toDevice' = Tail(toDevice) /\ linkUp
               /\ UNCHANGED <<connected, linkUp, session, settled>>
               /\ Library!AcksOnly(incoming')
               /\ \/ /\ id \notin Held /\ seen' = seen \cup {p.message}
                     /\ \/ toBroker' = toBroker \o <<q>> /\ Held' = Held
                        \/ toBroker' = toBroker /\ Held' = Held \cup {id}
                  \/ /\ id \in Held /\ seen' = seen
                     /\ \/ toBroker' = toBroker \o <<q>> /\ Held' = Held \ {id}
                        \/ toBroker' = toBroker /\ Held' = Held
                  \/ seen' = seen /\ toBroker' = toBroker /\ Held' = Held
<1> DEFINE p  == Head(toDevice)
           id == p.packetId
           q  == [type |-> "PUBACK", packetId |-> id]
<1>1. /\ Receive("PUBLISH") /\ Client!ReceivePublish(id, 1, p.dup, ok)
      /\ Transmit(OnWire(result'.sent, 0))
      /\ seen' = IF result'.event # <<>> THEN seen \cup {p.message} ELSE seen
  BY DEF ReceivePublish
<1>2. p \in FromBroker /\ p.type = "PUBLISH"
  BY <1>1, HeadTailProperties DEF WireOK, Receive
<1>3. id \in PacketIds /\ p.dup \in BOOLEAN
  BY <1>2 DEF FromBroker
<1>4. q \in Outbound /\ q = Client!AckPacket("PUBACK", id)
  BY <1>3 DEF Outbound, Client!AckPacket
<1>5. /\ toDevice # <<>> /\ toDevice' = Tail(toDevice) /\ linkUp
      /\ UNCHANGED <<connected, linkUp, session, settled>>
  BY <1>1 DEF Receive, Client!ReceivePublish
<1> HIDE DEF p, q, id
<1>6. /\ Library!AcksOnly(incoming')
      /\ \/ /\ id \notin Library!Held /\ result'.event # <<>>
            /\ \/ result'.sent = <<Library!AckPacket("PUBACK", id)>> /\ Library!Held' = Library!Held
               \/ result'.sent = <<>> /\ Library!Held' = Library!Held \cup {id}
         \/ /\ id \in Library!Held /\ result'.event = <<>>
            /\ \/ result'.sent = <<Library!AckPacket("PUBACK", id)>> /\ Library!Held' = Library!Held \ {id}
               \/ result'.sent = <<>> /\ Library!Held' = Library!Held
         \/ result'.event = <<>> /\ result'.sent = <<>> /\ Library!Held' = Library!Held
  <2>1. Library!ReceivePublish(id, 1, p.dup, ok)
    BY <1>1, SameActions
  <2>2. QED
    BY <1>3, <2>1, LibraryConstants, Library!ReceiveEffect
<1>7. /\ result'.sent = <<>> => toBroker' = toBroker
      /\ result'.sent = <<Library!AckPacket("PUBACK", id)>> => toBroker' = toBroker \o <<q>>
  BY <1>1, <1>4, AckOnWire, SamePackets DEF WireOK
<1>8. /\ result'.event = <<>> => seen' = seen
      /\ result'.event # <<>> => seen' = seen \cup {p.message}
  BY <1>1
<1>9. QED
  BY <1>2, <1>4, <1>5, <1>6, <1>7, <1>8 DEF Held, p, q, id

LEMMA InboxReceived ==
    ASSUME WireOK, Control, Inbox, Library!LibInv, Library!AcksOnly(incoming),
           NEW ok \in BOOLEAN, ReceivePublish(ok)
    PROVE  Inbox'
<1> DEFINE p  == Head(toDevice)
           id == p.packetId
           q  == [type |-> "PUBACK", packetId |-> id]
<1>1. /\ p \in FromBroker /\ p.type = "PUBLISH" /\ q \in Outbound
      /\ toDevice # <<>> /\ toDevice' = Tail(toDevice) /\ linkUp
      /\ UNCHANGED <<connected, linkUp, session, settled>>
  BY Received
<1>2. \/ /\ id \notin Held /\ seen' = seen \cup {p.message}
         /\ \/ toBroker' = toBroker \o <<q>> /\ Held' = Held
            \/ toBroker' = toBroker /\ Held' = Held \cup {id}
      \/ /\ id \in Held /\ seen' = seen
         /\ \/ toBroker' = toBroker \o <<q>> /\ Held' = Held \ {id}
            \/ toBroker' = toBroker /\ Held' = Held
      \/ seen' = seen /\ toBroker' = toBroker /\ Held' = Held
  BY Received
<1>3. q.type = "PUBACK" /\ q.packetId = id
  OBVIOUS
<1>4. /\ p \in Coming /\ Coming' \subseteq Coming /\ Once(toDevice, "PUBLISH")'
      /\ \A r \in Coming' : r.packetId # id
  BY <1>1, ComingLess DEF Inbox
<1> HIDE DEF p, q, id
<1>5. id \notin Going
  BY <1>4 DEF Inbox, id
<1>6. PICK e \in session.unacked : e.packetId = id /\ e.message = p.message /\ e.sent
  BY <1>4 DEF Inbox, id
<1>7. SameSession
  BY <1>1 DEF SameSession
<1>8. id \in Held => p.message \in seen
  BY <1>6, <1>7 DEF Inbox
<1>9. toBroker' = toBroker \o <<q>> => Going' = Going \cup {id} /\ Once(toBroker, "PUBACK")'
  BY <1>1, <1>3, <1>5, GoingMore DEF Inbox
<1>10. toBroker' = toBroker => Going' = Going /\ Once(toBroker, "PUBACK")'
  BY GoingSame DEF Inbox
<1>11. /\ seen \subseteq seen' /\ Going' \subseteq Going \cup {id} /\ Once(toBroker, "PUBACK")'
       /\ id \in Going' => id \notin Held' /\ p.message \in seen'
       /\ Held' \subseteq Held \cup {id}
       /\ id \in Held' => p.message \in seen'
  BY <1>2, <1>5, <1>8, <1>9, <1>10
<1>12. session'.unacked = session.unacked /\ settled' \subseteq seen'
  BY <1>1, <1>11 DEF Inbox
<1>13. \A f, g \in session'.unacked : f.packetId = g.packetId => f = g
  BY <1>12 DEF Inbox
<1>14. \A r \in Coming' :
          /\ r.packetId \notin Going'
          /\ \E f \in session'.unacked : f.packetId = r.packetId /\ f.message = r.message /\ f.sent
  BY <1>4, <1>11, <1>12 DEF Inbox
<1>15. \A k \in Going' :
          /\ k \notin Held'
          /\ \E f \in session'.unacked : f.packetId = k /\ f.sent /\ f.message \in seen'
  <2> SUFFICES ASSUME NEW k \in Going'
               PROVE  /\ k \notin Held'
                      /\ \E f \in session'.unacked : f.packetId = k /\ f.sent /\ f.message \in seen'
    OBVIOUS
  <2>1. CASE k = id
    BY <1>6, <1>11, <1>12, <2>1
  <2>2. CASE k # id
    <3>1. k \in Going
      BY <1>11, <2>2
    <3>2. QED
      BY <1>11, <1>12, <2>2, <3>1 DEF Inbox
  <2>3. QED
    BY <2>1, <2>2
<1>16. \A k \in Held' : \E f \in session'.unacked : f.packetId = k /\ f.message \in seen'
  <2> SUFFICES ASSUME NEW k \in Held'
               PROVE  \E f \in session'.unacked : f.packetId = k /\ f.message \in seen'
    OBVIOUS
  <2>1. CASE k = id
    BY <1>6, <1>11, <1>12, <2>1
  <2>2. CASE k # id
    <3>1. k \in Held
      BY <1>11, <2>2
    <3>2. QED
      BY <1>7, <1>11, <1>12, <3>1 DEF Inbox
  <2>3. QED
    BY <2>1, <2>2
<1>17. QED
  BY <1>4, <1>11, <1>12, <1>13, <1>14, <1>15, <1>16 DEF Inbox

LEMMA InboxStep ==
    ASSUME "connack" \notin Faults, WireOK, WireOK', IdsOK, Control, Opening, Inbox,
           Library!LibInv, Library!AcksOnly(incoming), [Next]_vars
    PROVE  Inbox'
<1>1. toDevice \in Seq(FromBroker) /\ toBroker \in Seq(Outbound) /\ session \in Sessions
  BY DEF WireOK
<1>2. Once(toDevice, "PUBLISH") /\ Once(toBroker, "PUBACK")
  BY DEF Inbox
(* The task is connected or not, and nothing comes that was not there.     *)
<1>3. ASSUME UNCHANGED <<settled, seen>>, session'.unacked = session.unacked,
             toDevice' = <<>>, toBroker' = toBroker,
             Held' = Held \/ Held' = {}, SameSession' => SameSession \/ Held' = {}
      PROVE  Inbox'
  BY <1>2, <1>3, ComingNone, GoingSame, InboxKept
<1>4. CASE Ordinary
  <2>1. UNCHANGED <<connected, linkUp, session, settled, seen, Held>>
    BY <1>4, HeldChanges DEF Ordinary
  <2>2. Coming' \subseteq Coming /\ Once(toDevice, "PUBLISH")'
    BY <1>2, <1>4, ComingSame, ComingLess DEF Ordinary
  <2>3. Going' \subseteq Going /\ Once(toBroker, "PUBACK")'
    <3>1. ASSUME NEW p \in Outbound, p.type \notin {"CONNECT", "PUBACK"}, toBroker' = toBroker \o <<p>>
          PROVE  Going' \subseteq Going /\ Once(toBroker, "PUBACK")'
      BY <1>2, <3>1, GoingMore
    <3>2. QED
      BY <1>2, <1>4, <3>1, GoingSame DEF Ordinary
  <2>4. SameSession' => SameSession
    <3>1. linkUp \/ toDevice = <<>>
      BY <1>4 DEF Ordinary, Opening, Control
    <3>2. CASE linkUp
      BY <3>2 DEF SameSession
    <3>3. CASE toDevice = <<>>
      <4>1. toDevice' = toDevice
        BY <1>4, <3>3 DEF Ordinary
      <4>2. QED
        BY <2>1, <4>1 DEF SameSession
    <3>4. QED
      BY <3>1, <3>2, <3>3
  <2>5. QED
    BY <2>1, <2>2, <2>3, <2>4, InboxKept
<1>5. CASE Connect
  <2> DEFINE p == [type |-> "CONNECT", clean |-> ~ sessionSaved]
  <2>1. /\ toDevice' = <<>> /\ toBroker' = <<p>> /\ pc = "offline"
        /\ UNCHANGED <<settled, seen, linkUp, incoming>>
    BY <1>5 DEF Connect, Open, clientVars
  <2>2. session'.unacked = session.unacked /\ session'.durable = session.durable
    BY <1>1, <1>5 DEF Connect, Open, Sessions
  <2>3. p.type = "CONNECT"
    OBVIOUS
  <2> HIDE DEF p
  <2>4. Going' = {} /\ Once(toBroker, "PUBACK")'
    BY <2>1, <2>3 DEF Going, Sent, Once, ToSet
  <2>5. Coming' = {} /\ Once(toDevice, "PUBLISH")' /\ Held' = Held
    BY <2>1, ComingNone, HeldChanges
  <2>6. SameSession' => SameSession
    <3>1. toDevice = <<>>
      BY <2>1 DEF Control
    <3>2. QED
      BY <2>1, <2>2, <3>1 DEF SameSession
  <2>7. QED
    BY <2>1, <2>2, <2>4, <2>5, <2>6, InboxKept
<1>6. ~ ConnackMissed
  BY DEF ConnackMissed, Fault, Opening
<1>7. CASE ConnackNewSession \/ ConnackSessionPresent
  <2>1. /\ toDevice # <<>> /\ toDevice' = Tail(toDevice)
        /\ UNCHANGED <<toBroker, session, settled, seen>>
    BY <1>7 DEF ConnackNewSession, ConnackSessionPresent, Connack
  <2>2. Coming' \subseteq Coming /\ Once(toDevice, "PUBLISH")'
    BY <1>2, <2>1, ComingLess
  <2>3. Going' \subseteq Going /\ Once(toBroker, "PUBACK")'
    BY <1>2, <2>1, GoingSame
  <2>4. CASE ConnackNewSession
    <3>1. incoming' = Client!EmptyRecords
      BY <2>4 DEF ConnackNewSession, Client!ConnectNewSession
    <3>2. Held' = {}
      BY <3>1, HeldChanges
    <3>3. QED
      BY <2>1, <2>2, <2>3, <3>2, InboxKept
  <2>5. CASE ConnackSessionPresent
    <3>1. incoming' = incoming /\ pc = "connack" /\ Head(toDevice) = [type |-> "CONNACK", present |-> TRUE]
      BY <2>5 DEF ConnackSessionPresent, Connack, Client!ConnectSessionPresent
    <3>2. Held' = Held /\ Head(toDevice).present
      BY <3>1, HeldChanges
    <3>3. session.durable
      BY <2>1, <3>1, <3>2 DEF Opening, Asked, Welcomed
    <3>4. SameSession
      BY <3>2, <3>3 DEF SameSession
    <3>5. QED
      BY <2>1, <2>2, <2>3, <3>2, <3>4, InboxKept
  <2>6. QED
    BY <1>7, <2>4, <2>5
<1>8. CASE Disconnect \/ ConnectionLost
  <2>1. /\ toDevice' = <<>>
        /\ UNCHANGED <<toBroker, session, settled, seen, incoming>>
    BY <1>8 DEF Disconnect, ConnectionLost, Close, Client!LinkDown, clientVars, taskVars
  <2>2. Held' = Held /\ ~ linkUp'
    BY <1>8, <2>1, HeldChanges DEF Disconnect, ConnectionLost, Client!LinkDown, clientVars
  <2>3. linkUp \/ toDevice = <<>>
    <3>1. pc # "connack"
      BY <1>8 DEF Disconnect, ConnectionLost
    <3>2. QED
      BY <3>1 DEF Opening, Control
  <2>4. SameSession' => SameSession
    BY <2>1, <2>2, <2>3 DEF SameSession
  <2>5. QED
    BY <1>3, <2>1, <2>2, <2>4
<1>9. CASE Restart
  <2>1. /\ toDevice' = <<>> /\ UNCHANGED <<toBroker, session, settled, seen>>
        /\ incoming' = Client!EmptyRecords
    BY <1>9 DEF Restart, Close, Client!Restart
  <2>2. Held' = {}
    BY <2>1, HeldChanges
  <2>3. QED
    BY <1>3, <2>1, <2>2
<1>10. ASSUME NEW ok \in BOOLEAN, ReceivePublish(ok) PROVE Inbox'
  BY <1>10, InboxReceived
<1>11. CASE BrokerNext /\ UNCHANGED <<clientVars, taskVars>>
  BY <1>11, InboxBroker
<1>12. CASE UNCHANGED vars
  <2>1. UNCHANGED <<linkUp, toBroker, toDevice, session, settled, seen, Held>>
    BY <1>12, HeldChanges DEF vars, brokerVars, clientVars, taskVars
  <2>2. Coming' = Coming /\ Going' = Going /\ Once(toDevice, "PUBLISH")' /\ Once(toBroker, "PUBACK")'
    BY <1>2, <2>1, ComingSame, GoingSame
  <2>3. SameSession' <=> SameSession
    BY <2>1 DEF SameSession
  <2>4. QED
    BY <2>1, <2>2, <2>3, InboxKept
<1>13. QED
  BY <1>4, <1>5, <1>6, <1>7, <1>8, <1>9, <1>10, <1>11, <1>12, OrdinarySteps

LEMMA AcksOnlyStep ==
    ASSUME "connack" \notin Faults, WireOK, IdsOK, Opening, Library!LibInv,
           Library!AcksOnly(incoming), [Next]_vars
    PROVE  Library!AcksOnly(incoming')
<1>1. CASE incoming' = incoming
  BY <1>1
<1>2. CASE incoming' = Client!EmptyRecords
  BY <1>2, HeldChanges
<1>3. ASSUME NEW ok \in BOOLEAN, ReceivePublish(ok) PROVE Library!AcksOnly(incoming')
  BY <1>3, Received
<1>4. CASE Ordinary \/ Connect \/ ConnackSessionPresent \/ Disconnect \/ ConnectionLost \/ UNCHANGED vars
  BY <1>1, <1>4 DEF Ordinary, Connect, ConnackSessionPresent, Disconnect, ConnectionLost, vars,
     clientVars, Client!ConnectSessionPresent, Client!LinkDown
<1>5. CASE ConnackNewSession \/ Restart
  BY <1>2, <1>5 DEF ConnackNewSession, Restart, Client!ConnectNewSession, Client!Restart
<1>6. CASE BrokerNext /\ UNCHANGED <<clientVars, taskVars>>
  BY <1>1, <1>6 DEF clientVars
<1>7. ~ ConnackMissed
  BY DEF ConnackMissed, Fault, Opening
<1>8. QED
  BY <1>3, <1>4, <1>5, <1>6, <1>7, OrdinarySteps

(* handleIncomingPublish acknowledges only what it hands to the callback,  *)
(* or handed to it before: as long as no CONNACK is lost, a message the    *)
(* broker has settled has been seen, over duplicates, acknowledgements     *)
(* that could not be sent, sessions given up and power losses.             *)
THEOREM AcknowledgedIsReported ==
    ASSUME "connack" \notin Faults
    PROVE  Spec => []AcknowledgedWasSeen
<1> DEFINE Inv == Control /\ Opening /\ Inbox /\ Library!AcksOnly(incoming)
<1>1. Init => Inv
  <2> SUFFICES ASSUME Init PROVE Inv
    OBVIOUS
  <2>1. /\ ~ connected /\ toDevice = <<>> /\ toBroker = <<>> /\ session = NoSession
        /\ settled = {} /\ pc = "offline" /\ incoming = Client!EmptyRecords
    BY DEF Init, BrokerInit, Client!Init
  <2>2. 0 \notin PacketIds /\ \A i \in Library!Slots : Client!EmptyRecords[i].packetId = 0
    BY LibraryConstants, SameTables DEF Client!EmptyRecords, Client!EmptyRecord
  <2>3. Library!AcksOnly(incoming) /\ Held = {}
    BY <2>1, <2>2 DEF Library!AcksOnly, Library!Agree, Library!Live, Held, Library!Held, Library!Holds
  <2>4. Opening
    BY <2>1 DEF Opening, ToSet
  <2>5. Inbox
    BY <2>1, <2>3 DEF Inbox, NoSession, Once, Coming, Going, Sent, ToSet
  <2>6. QED
    BY <2>3, <2>4, <2>5, InitControl
<1>2. ASSUME WireOK, IdsOK, WireOK', Library!LibInv, Inv, [Next]_vars PROVE Inv'
  BY <1>2, ControlStep, OpeningStep, InboxStep, AcksOnlyStep
<1>3. Inv => AcknowledgedWasSeen
  BY DEF Inbox, AcknowledgedWasSeen
<1>4. WireOK /\ IdsOK /\ Library!LibInv /\ Inv /\ [Next]_vars => Inv'
  BY <1>2, TaskStep
<1> HIDE DEF Inv
<1>5. QED
  BY <1>1, <1>3, <1>4, WireTyped, LibraryInvariant, PTL DEF Spec

=============================================================================
