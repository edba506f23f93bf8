------------------------ MODULE MqttClientStepProofs -------------------------
(***************************************************************************)
(* What a step of MqttClient never does, for every number of records,      *)
(* every application and every broker: lose a record whose handshake is    *)
(* not over, refuse a publish while there is room, or give a packet out    *)
(* for resending twice in one round.  A part is about applications that    *)
(* publish with QoS 1 alone, as the MQTT task does: what MQTT_Publish and  *)
(* a PUBACK do to the publishes that wait.  The last part shows that the   *)
(* arrays behave as the ordered lists of HandshakeLists.                   *)
(***************************************************************************)
EXTENDS MqttClientProofs

(* No packet id of an array is missing from the next one.                  *)
Kept(new, old) == \A k \in PacketIds : Holds(old, k) => Holds(new, k)

(* None but that of one handshake.                                         *)
KeptBut(new, old, id) == \A k \in PacketIds : Holds(old, k) /\ k # id => Holds(new, k)

-----------------------------------------------------------------------------
(* addRecord finds no room only in an array without a hole: compaction     *)
(* leaves the last slot live only when the rank of every slot is its index.*)
LEMMA CompactedFull ==
    ASSUME NEW recs \in Records, Live(CompactRecords(recs), RecordCount)
    PROVE  Full(recs) /\ Full(CompactRecords(recs))
<1> USE RecordCountAssumption
<1> DEFINE live(i) == {k \in 1..i : Live(recs, k)}
<1>1. PICK j \in Slots : Live(recs, j) /\ Rank(recs, j) = RecordCount
  <2>1. RecordCount \in Slots
    BY DEF Slots
  <2>2. QED
    BY <2>1, CompactedOrigin
<1>2. j = RecordCount
  <2>1. RecordCount \in 1..j
    BY <1>1, RankOfLive
  <2>2. QED
    BY <2>1 DEF Slots
<1>3. Cardinality(live(RecordCount)) = RecordCount
  BY <1>1, <1>2 DEF Rank
<1>4. live(RecordCount) = 1..RecordCount
  <2>1. IsFiniteSet(1..RecordCount) /\ Cardinality(1..RecordCount) = RecordCount
    BY FS_Interval
  <2>2. live(RecordCount) \in SUBSET (1..RecordCount)
    OBVIOUS
  <2> HIDE DEF live
  <2>3. QED
    BY <1>3, <2>1, <2>2, FS_Subset
<1>5. Full(recs)
  BY <1>4 DEF Full, Slots
<1>6. ASSUME NEW i \in Slots PROVE Live(CompactRecords(recs), i)
  <2>1. i \in Nat /\ i >= 1 /\ Live(recs, i)
    BY <1>5 DEF Slots, Full
  <2>2. live(i) = 1..i
    BY <1>5, <2>1 DEF Full, Slots
  <2>3. Rank(recs, i) = i
    <3>1. Cardinality(1..i) = i
      BY <2>1, FS_Interval
    <3>2. Rank(recs, i) = Cardinality(live(i))
      BY DEF Rank
    <3>3. QED
      BY <2>2, <3>1, <3>2
  <2>4. CompactRecords(recs)[i] = recs[i]
    BY <2>1, <2>3, CompactedSlot
  <2>5. QED
    BY <2>1, <2>4 DEF Live
<1>7. QED
  BY <1>5, <1>6 DEF Full

LEMMA AddRecordRefuses ==
    ASSUME NEW recs \in Records, Unique(recs), NEW id \in PacketIds, NEW qos \in QoS,
           NEW state \in PublishStates,
           AddRecord(recs, id, qos, state).status = "NoMemory"
    PROVE  Full(recs) /\ Full(AddRecord(recs, id, qos, state).records)
<1> USE RecordCountAssumption
<1> DEFINE base  == IF Live(recs, RecordCount) THEN CompactRecords(recs) ELSE recs
           at    == FirstFree(base)
           added == AddRecord(recs, id, qos, state)
<1>1. base \in Records
  BY CompactRecordsType
<1>2. added.records = base /\ at > RecordCount
  <2>1. CASE Holds(base, id)
    BY <2>1 DEF AddRecord
  <2>2. CASE ~ Holds(base, id) /\ at > RecordCount
    BY <2>2 DEF AddRecord, AppendRecord
  <2>3. CASE ~ Holds(base, id) /\ ~ (at > RecordCount)
    BY <2>3 DEF AddRecord, AppendRecord
  <2>4. QED
    BY <2>1, <2>2, <2>3
<1>3. Live(base, RecordCount)
  <2> HIDE DEF base
  <2>1. at \in 1..(RecordCount + 1) /\ (at = 1 \/ Live(base, at - 1))
    BY <1>1, FirstFreeSlot
  <2> HIDE DEF at
  <2>2. QED
    BY <1>2, <2>1
<1>4. Live(recs, RecordCount) /\ base = CompactRecords(recs)
  BY <1>3
<1>5. QED
  BY <1>2, <1>3, <1>4, CompactedFull

LEMMA AddRecordKept ==
    ASSUME NEW recs \in Records, Unique(recs), NEW id \in PacketIds, NEW qos \in QoS,
           NEW state \in PublishStates
    PROVE  Kept(AddRecord(recs, id, qos, state).records, recs)
<1> USE PacketIdAssumption
<1>1. Extends(AddRecord(recs, id, qos, state).records, recs, NewRecord(id, qos, state))
  BY AddRecordKeeps
<1>2. QED
  BY <1>1 DEF Extends, Kept, Holds, Live

-----------------------------------------------------------------------------
(* An acknowledgement deletes the record of its own handshake alone, and   *)
(* that only when it ends it: the slot a PUBREC empties is found again     *)
(* when the record is added back behind the others.                        *)
Final == {"PUBACK", "PUBCOMP"}

LEMMA AckRecordKept ==
    ASSUME NEW recs \in Records, Unique(recs), NEW id \in PacketIds,
           NEW ack \in AckTypes, NEW op \in Operations
    PROVE  /\ KeptBut(AckRecord(recs, id, ack, op).records, recs, id)
           /\ \/ Kept(AckRecord(recs, id, ack, op).records, recs)
              \/ ack \in Final /\ AckRecord(recs, id, ack, op).status = "Success"
           /\ AckRecord(recs, id, ack, op).status # "NoMemory"
<1> USE RecordCountAssumption, PacketIdAssumption
<1> DEFINE i   == FindInRecord(recs, id)
           new == CalculateStateAck(ack, op, recs[i].qos)
           res == AckRecord(recs, id, ack, op)
<1>1. Kept(recs, recs) /\ KeptBut(recs, recs, id)
  BY DEF Kept, KeptBut
<1>2. CASE ~ Holds(recs, id)
  <2>1. res = [records |-> recs, status |-> "BadResponse"]
    BY <1>2 DEF AckRecord
  <2>2. QED
    BY <1>1, <2>1
<1>3. CASE Holds(recs, id)
  <2>1. i \in Slots /\ recs[i].packetId = id
    BY <1>3, FoundSlot
  <2>2. res = UpdateStateAck(recs, i, new)
    BY <1>3 DEF AckRecord
  <2>3. new = "PublishDone" => ack \in Final
    BY DEF CalculateStateAck, AckTypes, Final
  <2> DEFINE deleted == DeleteRecord(recs, i)
  <2> HIDE DEF i, new, res
  <2>4. /\ deleted \in Records /\ Unique(deleted) /\ ~ Live(deleted, i)
        /\ \A j \in Slots : j # i => deleted[j] = recs[j]
    BY <2>1, DeleteRecordKeeps
  <2> HIDE DEF deleted
  <2>5. KeptBut(deleted, recs, id)
    BY <2>1, <2>4 DEF KeptBut, Holds
  <2>6. CASE ~ ValidTransitionAck(recs[i].publishState, new) \/ recs[i].publishState = new
    <3>1. res.records = recs /\ res.status \in {"IllegalState", "Success"}
      BY <2>2, <2>6 DEF UpdateStateAck
    <3>2. QED
      BY <1>1, <3>1 DEF res
  <2>7. CASE /\ ValidTransitionAck(recs[i].publishState, new) /\ recs[i].publishState # new
             /\ new = "PublishDone"
    <3>1. res = [records |-> deleted, status |-> "Success"]
      BY <2>2, <2>7 DEF UpdateStateAck, deleted
    <3>2. QED
      BY <2>3, <2>5, <2>7, <3>1 DEF res
  <2>8. CASE /\ ValidTransitionAck(recs[i].publishState, new) /\ recs[i].publishState # new
             /\ new = "PubRelSend"
    <3>1. res = AddRecord(deleted, id, 2, "PubRelSend")
      BY <2>1, <2>2, <2>8 DEF UpdateStateAck, deleted
    <3>2. 2 \in QoS /\ "PubRelSend" \in PublishStates
      BY DEF QoS, PublishStates, OutgoingQoS2
    <3>3. Kept(res.records, deleted)
      BY <2>4, <3>1, <3>2, AddRecordKept
    <3>4. res.status # "NoMemory"
      BY <2>1, <2>4, <3>1, <3>2, AddRecordRefuses DEF Full
    <3>5. Holds(res.records, id)
      BY <2>4, <3>1, <3>2, <3>4, AddRecordKeeps
    <3>6. KeptBut(res.records, recs, id) /\ Kept(res.records, recs)
      BY <2>5, <3>3, <3>5 DEF Kept, KeptBut
    <3>7. QED
      BY <3>4, <3>6 DEF res
  <2>9. CASE /\ ValidTransitionAck(recs[i].publishState, new) /\ recs[i].publishState # new
             /\ new \notin {"PublishDone", "PubRelSend"}
    <3>1. res = [records |-> SetRecordState(recs, i, new), status |-> "Success"]
      BY <2>2, <2>9 DEF UpdateStateAck
    <3>2. \A j \in Slots : SetRecordState(recs, i, new)[j].packetId = recs[j].packetId
      BY <2>1 DEF SetRecordState, Records, Record
    <3>3. Kept(res.records, recs) /\ KeptBut(res.records, recs, id)
      BY <3>1, <3>2 DEF Kept, KeptBut, Holds
    <3>4. QED
      BY <3>1, <3>3 DEF res
  <2>10. QED
    BY <2>6, <2>7, <2>8, <2>9
<1>4. QED
  BY <1>2, <1>3

(* A publish that is sent leaves every record where it is.                 *)
LEMMA SentRecordKept ==
    ASSUME NEW recs \in Records, NEW id \in PacketIds, NEW qos \in {1, 2}
    PROVE  Kept(SentRecord(recs, id, qos).records, recs)
<1> DEFINE i   == FindInRecord(recs, id)
           new == CalculateStatePublish("SEND", qos)
           set == SetRecordState(recs, i, new)
<1>1. SentRecord(recs, id, qos).records \in {recs, set}
  BY DEF SentRecord
<1>2. \A j \in Slots : set[j].packetId = recs[j].packetId
  BY DEF SetRecordState, Records, Record
<1> HIDE DEF set
<1>3. QED
  BY <1>1, <1>2 DEF Kept, Holds

(* sendPublishAcks takes a record out of its array only with the PUBACK or *)
(* PUBCOMP of that record on the wire, and never runs out of slots.        *)
LEMMA SendPublishAckKept ==
    ASSUME NEW recs \in Records, Unique(recs), NEW id \in PacketIds,
           NEW state \in PublishStates, NEW ok \in BOOLEAN
    PROVE  /\ KeptBut(SendPublishAck(recs, id, state, ok).records, recs, id)
           /\ \/ Kept(SendPublishAck(recs, id, state, ok).records, recs)
              \/ /\ state \in {"PubAckSend", "PubCompSend"}
                 /\ \E ack \in Final :
                      SendPublishAck(recs, id, state, ok).sent = <<AckPacket(ack, id)>>
           /\ SendPublishAck(recs, id, state, ok).status # "NoMemory"
<1> DEFINE res == SendPublishAck(recs, id, state, ok)
<1>1. CASE state \notin DOMAIN AckToSend \/ ~ ok
  <2>1. res.records = recs /\ res.status \in {"Success", "SendFailed"}
    BY <1>1 DEF SendPublishAck
  <2>2. QED
    BY <2>1 DEF Kept, KeptBut
<1>2. CASE state \in DOMAIN AckToSend /\ ok
  <2> DEFINE ack     == AckToSend[state]
             updated == AckRecord(recs, id, ack, "SEND")
  <2>1. /\ ack \in AckTypes
        /\ ack \in Final => state \in {"PubAckSend", "PubCompSend"}
    BY <1>2 DEF AckToSend, AckTypes, Final
  <2>2. res = [records |-> updated.records, status |-> updated.status,
               sent |-> <<AckPacket(ack, id)>>]
    BY <1>2 DEF SendPublishAck
  <2> HIDE DEF ack
  <2>3. /\ KeptBut(updated.records, recs, id)
        /\ Kept(updated.records, recs) \/ ack \in Final
        /\ updated.status # "NoMemory"
    BY <2>1, AckRecordKept DEF Operations
  <2> HIDE DEF updated
  <2>4. QED
    BY <2>1, <2>2, <2>3
<1>3. QED
  BY <1>1, <1>2

-----------------------------------------------------------------------------
(* The handlers                                                            *)

(* MQTT_Publish, new or resent.                                            *)
LEMMA PublishOutcomeKept ==
    ASSUME OutgoingOK(outgoing), NEW id \in PacketIds, NEW qos \in {1, 2},
           NEW dup \in BOOLEAN, NEW ok \in BOOLEAN
    PROVE  /\ Kept(PublishOutcome(id, qos, dup, ok).records, outgoing)
           /\ PublishOutcome(id, qos, dup, ok).result.status = "NoMemory" =>
                 Full(PublishOutcome(id, qos, dup, ok).records)
<1> DEFINE reserved == AddRecord(outgoing, id, qos, "PublishSend")
           updated  == SentRecord(reserved.records, id, qos)
           outcome  == PublishOutcome(id, qos, dup, ok)
<1>1. qos \in QoS /\ "PublishSend" \in PublishStates
  BY DEF QoS, PublishStates, OutgoingQoS1
<1>2. /\ Kept(reserved.records, outgoing)
      /\ reserved.status = "NoMemory" => Full(reserved.records)
      /\ reserved.records \in Records /\ Unique(reserved.records)
  BY <1>1, AddRecordKept, AddRecordRefuses, AddRecordKeeps DEF OutgoingOK, Extends
<1> HIDE DEF reserved
<1>3. Kept(updated.records, reserved.records) /\ updated.status # "NoMemory"
  BY <1>2, SentRecordKept, SentRecordKeeps
<1> HIDE DEF updated
<1>4. \/ /\ outcome.records = reserved.records
         /\ outcome.result.status \in {reserved.status, "SendFailed"}
      \/ /\ outcome.records = updated.records
         /\ outcome.result.status = updated.status
  BY DEF PublishOutcome, Outcome, reserved, updated
<1> HIDE DEF outcome
<1>5. QED
  BY <1>2, <1>3, <1>4 DEF Kept, outcome

(* handlePublishAcks: a record that goes was reported over, or answered    *)
(* with the PUBCOMP that ends it.                                          *)
LEMMA AckOutcomeKept ==
    ASSUME NEW recs \in Records, Unique(recs), NEW ack \in AckTypes,
           NEW id \in PacketIds, NEW ok \in BOOLEAN
    PROVE  /\ KeptBut(AckOutcome(recs, ack, id, ok).records, recs, id)
           /\ \/ Kept(AckOutcome(recs, ack, id, ok).records, recs)
              \/ /\ ack \in Final
                 /\ AckOutcome(recs, ack, id, ok).result.event = <<AckPacket(ack, id)>>
              \/ /\ ack = "PUBREL"
                 /\ \E last \in Final :
                      AckOutcome(recs, ack, id, ok).result.sent = <<AckPacket(last, id)>>
           /\ AckOutcome(recs, ack, id, ok).result.status # "NoMemory"
<1> DEFINE updated == AckRecord(recs, id, ack, "RECEIVE")
           state   == CalculateStateAck(ack, "RECEIVE", IF ack = "PUBACK" THEN 1 ELSE 2)
           acked   == SendPublishAck(updated.records, id, state, ok)
           outcome == AckOutcome(recs, ack, id, ok)
<1>1. /\ updated.records \in Records /\ Unique(updated.records)
      /\ KeptBut(updated.records, recs, id)
      /\ Kept(updated.records, recs) \/ (ack \in Final /\ updated.status = "Success")
      /\ updated.status # "NoMemory"
  BY AckRecordKeeps, AckRecordKept DEF Operations
<1> HIDE DEF updated
<1>2. /\ state \in {"PublishDone", "PubRelSend", "PubCompSend"}
      /\ ack \in Final => state = "PublishDone"
      /\ state = "PubCompSend" => ack = "PUBREL"
  BY DEF CalculateStateAck, AckTypes, Final
<1> HIDE DEF state
<1>3. state \in PublishStates
  BY <1>2 DEF PublishStates, OutgoingQoS2, IncomingQoS2
<1>4. /\ KeptBut(acked.records, updated.records, id)
      /\ \/ Kept(acked.records, updated.records)
         \/ /\ state = "PubCompSend"
            /\ \E last \in Final : acked.sent = <<AckPacket(last, id)>>
      /\ acked.status # "NoMemory"
  BY <1>1, <1>2, <1>3, SendPublishAckKept
<1> HIDE DEF acked
<1>5. CASE updated.status # "Success"
  <2>1. outcome.records = updated.records /\ outcome.result = Outcome(updated.status, <<>>, <<>>)
    BY <1>5 DEF AckOutcome, updated
  <2>2. QED
    BY <1>1, <1>5, <2>1 DEF Outcome
<1>6. CASE updated.status = "Success"
  <2>1. /\ outcome.records = acked.records
        /\ outcome.result = Outcome(acked.status, acked.sent, <<AckPacket(ack, id)>>)
    BY <1>6 DEF AckOutcome, updated, acked, state
  <2> HIDE DEF outcome
  <2>2. /\ outcome.result.status = acked.status /\ outcome.result.sent = acked.sent
        /\ outcome.result.event = <<AckPacket(ack, id)>>
    BY <2>1 DEF Outcome
  <2>3. KeptBut(outcome.records, recs, id)
    BY <1>1, <1>4, <2>1 DEF KeptBut
  <2>4. \/ Kept(outcome.records, recs) \/ ack \in Final
        \/ ack = "PUBREL" /\ \E last \in Final : acked.sent = <<AckPacket(last, id)>>
    BY <1>1, <1>2, <1>4, <2>1 DEF Kept
  <2>5. QED
    BY <1>4, <2>2, <2>3, <2>4 DEF outcome
<1>7. QED
  BY <1>5, <1>6

(* handleIncomingPublish: a record that goes was answered with a PUBACK.   *)
LEMMA ReceivePublishKept ==
    ASSUME IncomingOK(incoming), NEW id \in PacketIds, NEW qos \in ReceiveQoS,
           NEW dup \in BOOLEAN, NEW ok \in BOOLEAN, ReceivePublish(id, qos, dup, ok)
    PROVE  /\ KeptBut(incoming', incoming, id)
           /\ \/ Kept(incoming', incoming)
              \/ \E last \in Final : result'.sent = <<AckPacket(last, id)>>
           /\ result'.status = "NoMemory" => Full(incoming')
<1> DEFINE state    == CalculateStatePublish("RECEIVE", qos)
           received == ReceivedRecord(incoming, id, qos)
           acked    == SendPublishAck(received.records, id, state, ok)
<1>1. qos \in QoS /\ state \in PublishStates
  BY QoSAssumption DEF QoS, CalculateStatePublish, PublishStates, IncomingQoS1, IncomingQoS2
<1>2. received = AddRecord(incoming, id, qos, state)
  BY DEF ReceivedRecord
<1> HIDE DEF state, received
<1>3. /\ Kept(received.records, incoming)
      /\ received.records \in Records /\ Unique(received.records)
      /\ received.status = "NoMemory" => Full(received.records)
  BY <1>1, <1>2, AddRecordKept, AddRecordRefuses, AddRecordKeeps DEF IncomingOK, Extends
<1>4. /\ KeptBut(acked.records, received.records, id)
      /\ \/ Kept(acked.records, received.records)
         \/ \E last \in Final : acked.sent = <<AckPacket(last, id)>>
      /\ acked.status # "NoMemory"
  BY <1>1, <1>3, SendPublishAckKept
<1> HIDE DEF acked
<1>5. \/ /\ incoming' = acked.records
         /\ result'.status = acked.status /\ result'.sent = acked.sent
      \/ /\ incoming' = received.records
         /\ result'.status = received.status
  BY DEF ReceivePublish, Outcome, acked, received, state
<1>6. QED
  BY <1>3, <1>4, <1>5 DEF Kept, KeptBut

(* The resend loops only find live records, which they do not lose.        *)
LEMMA ResendKept ==
    ASSUME IInv, NEW ok \in BOOLEAN, ResendPubrel(ok) \/ ResendPublish(ok)
    PROVE  /\ Kept(outgoing', outgoing) /\ incoming' = incoming
           /\ result'.status = "NoMemory" => Full(outgoing')
<1> USE PacketIdAssumption
<1> DEFINE id      == Selected.packetId
           at      == FindInRecord(outgoing, id)
           qos     == outgoing[at].qos
           acked   == SendPublishAck(outgoing, id, "PubRelSend", ok)
           outcome == PublishOutcome(id, qos, TRUE, ok)
<1>1. OutgoingOK(outgoing) /\ resend.cursor \in 0..RecordCount
  BY IInvParts
<1>2. id \in PacketIds /\ Holds(outgoing, id)
  <2>1. id # NoPacketId
    BY DEF ResendPubrel, ResendPublish
  <2>2. QED
    BY <1>1, <2>1, StateSelectType DEF Selected, OutgoingOK, Holds
<1> HIDE DEF id
<1>3. CASE ResendPubrel(ok)
  <2>1. "PubRelSend" \in PublishStates
    BY DEF PublishStates, OutgoingQoS2
  <2>2. Kept(acked.records, outgoing) /\ acked.status # "NoMemory"
    BY <1>1, <1>2, <2>1, SendPublishAckKept DEF OutgoingOK
  <2>3. outgoing' = acked.records /\ incoming' = incoming /\ result'.status = acked.status
    BY <1>3 DEF ResendPubrel, Outcome, id
  <2>4. QED
    BY <2>2, <2>3
<1>4. CASE ResendPublish(ok)
  <2>1. at \in Slots /\ Live(outgoing, at)
    BY <1>1, <1>2, FoundSlot DEF OutgoingOK, Live
  <2> HIDE DEF at
  <2>2. qos \in {1, 2}
    BY <1>1, <2>1 DEF OutgoingOK, OutgoingAgree, Agree
  <2> HIDE DEF qos
  <2>3. /\ Kept(outcome.records, outgoing)
        /\ outcome.result.status = "NoMemory" => Full(outcome.records)
    BY <1>1, <1>2, <2>2, PublishOutcomeKept
  <2>4. outgoing' = outcome.records /\ incoming' = incoming /\ result' = outcome.result
    BY <1>4 DEF ResendPublish, id, at, qos
  <2>5. QED
    BY <2>3, <2>4
<1>5. QED
  BY <1>3, <1>4

-----------------------------------------------------------------------------
(* What one step may do to each array, and when it may refuse.             *)
Cleared == ConnectNewSession \/ Restart
OutgoingStep ==
    \/ Kept(outgoing', outgoing) \/ Cleared
    \/ \E id \in PacketIds, ack \in Final :
          KeptBut(outgoing', outgoing, id) /\ result'.event = <<AckPacket(ack, id)>>
IncomingStep ==
    \/ Kept(incoming', incoming) \/ Cleared
    \/ \E id \in PacketIds, ack \in Final :
          KeptBut(incoming', incoming, id) /\ result'.sent = <<AckPacket(ack, id)>>
RefusalStep == result'.status = "NoMemory" => Full(outgoing') \/ Full(incoming')

LEMMA EveryStep ==
    ASSUME IInv, Next
    PROVE  OutgoingStep /\ IncomingStep /\ RefusalStep
<1>1. OutgoingOK(outgoing) /\ IncomingOK(incoming)
  BY IInvParts
<1>2. Kept(outgoing, outgoing) /\ Kept(incoming, incoming)
  BY DEF Kept
<1>3. ASSUME NEW id \in PacketIds, NEW ok \in BOOLEAN, NEW qos \in PublishQoS,
             NEW dup \in BOOLEAN, Publish(id, qos, dup, ok)
      PROVE  OutgoingStep /\ IncomingStep /\ RefusalStep
  <2>1. qos \in {1, 2}
    BY QoSAssumption
  <2>2. /\ Kept(outgoing', outgoing) /\ incoming' = incoming
        /\ result'.status = "NoMemory" => Full(outgoing')
    BY <1>1, <1>3, <2>1, PublishOutcomeKept DEF Publish
  <2>3. QED
    BY <1>2, <2>2 DEF OutgoingStep, IncomingStep, RefusalStep
<1>4. ASSUME NEW id \in PacketIds, NEW ok \in BOOLEAN, NEW qos \in ReceiveQoS,
             NEW dup \in BOOLEAN, ReceivePublish(id, qos, dup, ok)
      PROVE  OutgoingStep /\ IncomingStep /\ RefusalStep
  <2>1. outgoing' = outgoing
    BY <1>4 DEF ReceivePublish
  <2>2. QED
    BY <1>1, <1>2, <1>4, <2>1, ReceivePublishKept DEF OutgoingStep, IncomingStep, RefusalStep
<1>5. ASSUME NEW id \in PacketIds, NEW ok \in BOOLEAN, NEW ack \in AckTypes,
             ReceiveOutgoingAck(ack, id, ok)
      PROVE  OutgoingStep /\ IncomingStep /\ RefusalStep
  <2> DEFINE outcome == AckOutcome(outgoing, ack, id, ok)
  <2>1. /\ outgoing' = outcome.records /\ result' = outcome.result /\ incoming' = incoming
        /\ ack # "PUBREL"
    BY <1>5 DEF ReceiveOutgoingAck, IsPublishOutgoing
  <2>2. /\ KeptBut(outcome.records, outgoing, id)
        /\ \/ Kept(outcome.records, outgoing)
           \/ ack \in Final /\ outcome.result.event = <<AckPacket(ack, id)>>
        /\ outcome.result.status # "NoMemory"
    BY <1>1, <2>1, AckOutcomeKept DEF OutgoingOK
  <2> HIDE DEF outcome
  <2>3. QED
    BY <1>2, <2>1, <2>2 DEF OutgoingStep, IncomingStep, RefusalStep
<1>6. ASSUME NEW id \in PacketIds, NEW ok \in BOOLEAN, ReceivePubrel(id, ok)
      PROVE  OutgoingStep /\ IncomingStep /\ RefusalStep
  <2> DEFINE outcome == AckOutcome(incoming, "PUBREL", id, ok)
  <2>1. incoming' = outcome.records /\ result' = outcome.result /\ outgoing' = outgoing
    BY <1>6 DEF ReceivePubrel
  <2>2. "PUBREL" \in AckTypes /\ "PUBREL" \notin Final
    BY DEF AckTypes, Final
  <2>3. /\ KeptBut(outcome.records, incoming, id)
        /\ \/ Kept(outcome.records, incoming)
           \/ \E last \in Final : outcome.result.sent = <<AckPacket(last, id)>>
        /\ outcome.result.status # "NoMemory"
    BY <1>1, <2>2, AckOutcomeKept DEF IncomingOK
  <2> HIDE DEF outcome
  <2>4. QED
    BY <1>2, <2>1, <2>3 DEF OutgoingStep, IncomingStep, RefusalStep
<1>7. ASSUME NEW ok \in BOOLEAN, ResendPubrel(ok) \/ ResendPublish(ok)
      PROVE  OutgoingStep /\ IncomingStep /\ RefusalStep
  BY <1>2, <1>7, ResendKept DEF OutgoingStep, IncomingStep, RefusalStep
<1>8. CASE ConnectNewSession \/ Restart
  BY <1>8 DEF ConnectNewSession, Restart, Outcome, OutgoingStep, IncomingStep, RefusalStep, Cleared
<1>9. CASE ConnectSessionPresent \/ ResendEnd \/ ResendAbandon \/ LinkDown
  <2>1. outgoing' = outgoing /\ incoming' = incoming /\ result'.status = "Success"
    BY <1>9 DEF ConnectSessionPresent, ResendEnd, ResendAbandon, LinkDown, Outcome
  <2>2. QED
    BY <1>2, <2>1 DEF OutgoingStep, IncomingStep, RefusalStep
<1>10. QED
  BY <1>3, <1>4, <1>5, <1>6, <1>7, <1>8, <1>9 DEF Next

(* No step loses a record of an unfinished handshake, the one that adds    *)
(* back the record of a received PUBREC included, however full the array.  *)
THEOREM NoRecordLost == Spec => RecordsLeaveWhenDone
<1>1. IInv /\ [Next]_vars =>
        [ \A id \in PacketIds :
            /\ Holds(outgoing, id) /\ ~ Holds(outgoing', id) =>
                  \/ result'.event \in {<<AckPacket("PUBACK", id)>>,
                                        <<AckPacket("PUBCOMP", id)>>}
                  \/ ConnectNewSession \/ Restart
            /\ Holds(incoming, id) /\ ~ Holds(incoming', id) =>
                  \/ result'.sent \in {<<AckPacket("PUBACK", id)>>,
                                       <<AckPacket("PUBCOMP", id)>>}
                  \/ ConnectNewSession \/ Restart ]_vars
  <2> SUFFICES ASSUME IInv, Next, NEW id \in PacketIds
               PROVE  /\ Holds(outgoing, id) /\ ~ Holds(outgoing', id) =>
                            \/ result'.event \in {<<AckPacket("PUBACK", id)>>,
                                                  <<AckPacket("PUBCOMP", id)>>}
                            \/ ConnectNewSession \/ Restart
                      /\ Holds(incoming, id) /\ ~ Holds(incoming', id) =>
                            \/ result'.sent \in {<<AckPacket("PUBACK", id)>>,
                                                 <<AckPacket("PUBCOMP", id)>>}
                            \/ ConnectNewSession \/ Restart
    OBVIOUS
  <2>1. OutgoingStep /\ IncomingStep
    BY EveryStep
  <2>2. QED
    BY <2>1 DEF OutgoingStep, IncomingStep, Cleared, Kept, KeptBut, Final
<1>2. QED
  BY <1>1, Invariance, PTL DEF Spec, RecordsLeaveWhenDone

(* A publish is only ever refused with every slot taken: compaction finds  *)
(* each hole that a finished handshake has left.                           *)
THEOREM NoRoomWasted == Spec => RefusedOnlyWhenFull
<1>1. IInv /\ [Next]_vars =>
        [result'.status = "NoMemory" => Full(outgoing') \/ Full(incoming')]_vars
  BY EveryStep DEF RefusalStep
<1>2. QED
  BY <1>1, Invariance, PTL DEF Spec, RefusedOnlyWhenFull


-----------------------------------------------------------------------------
(* The resend loops.  A record may be moved while a round is on, for the   *)
(* publish sent again compacts an array whose last slot is taken; but it   *)
(* is only ever moved to the front, so what the cursor has passed stays    *)
(* behind it.                                                              *)
NotPushedBack(new, old) ==
    \A i \in Slots : Live(new, i) =>
        \E j \in Slots : j >= i /\ old[j].packetId = new[i].packetId

LEMMA AddRecordNotPushedBack ==
    ASSUME NEW recs \in Records, Unique(recs), NEW id \in PacketIds, NEW qos, NEW state,
           Holds(recs, id)
    PROVE  NotPushedBack(AddRecord(recs, id, qos, state).records, recs)
<1> USE RecordCountAssumption, PacketIdAssumption
<1> DEFINE base == IF Live(recs, RecordCount) THEN CompactRecords(recs) ELSE recs
<1>1. NotPushedBack(base, recs) /\ Holds(base, id)
  <2>1. CASE Live(recs, RecordCount)
    <3>1. base = CompactRecords(recs)
      BY <2>1
    <3>2. ASSUME NEW i \in Slots, Live(base, i)
          PROVE  \E j \in Slots : j >= i /\ recs[j].packetId = base[i].packetId
      <4>1. PICK j \in Slots : /\ Live(recs, j) /\ Rank(recs, j) = i
                               /\ base[i] = recs[j]
        BY <3>1, <3>2, CompactedOrigin
      <4>2. i \in 1..j
        BY <4>1, RankOfLive
      <4>3. QED
        BY <4>1, <4>2 DEF Slots
    <3>3. PICK j \in Slots : recs[j].packetId = id /\ Live(recs, j)
      BY DEF Holds, Live
    <3>4. Holds(base, id)
      BY <3>1, <3>3, CompactedSlot DEF Holds
    <3>5. QED
      BY <3>2, <3>4 DEF NotPushedBack
  <2>2. CASE ~ Live(recs, RecordCount)
    BY <2>2 DEF NotPushedBack, Slots
  <2>3. QED
    BY <2>1, <2>2
<1>2. AddRecord(recs, id, qos, state).records = base
  BY <1>1 DEF AddRecord
<1>3. QED
  BY <1>1, <1>2

LEMMA SentRecordInPlace ==
    ASSUME NEW recs \in Records, NEW id, NEW qos
    PROVE  \A j \in Slots : SentRecord(recs, id, qos).records[j].packetId = recs[j].packetId
<1> DEFINE set == SetRecordState(recs, FindInRecord(recs, id), CalculateStatePublish("SEND", qos))
<1>1. SentRecord(recs, id, qos).records \in {recs, set}
  BY DEF SentRecord
<1>2. \A j \in Slots : set[j].packetId = recs[j].packetId
  BY DEF SetRecordState, Records, Record
<1> HIDE DEF set
<1>3. QED
  BY <1>1, <1>2

(* A publish sent again moves no record back, nor does a PUBREL.           *)
LEMMA RepublishNotPushedBack ==
    ASSUME OutgoingOK(outgoing), NEW id \in PacketIds, Holds(outgoing, id),
           NEW qos \in {1, 2}, NEW ok \in BOOLEAN
    PROVE  NotPushedBack(PublishOutcome(id, qos, TRUE, ok).records, outgoing)
<1> DEFINE reserved == AddRecord(outgoing, id, qos, "PublishSend").records
           outcome  == PublishOutcome(id, qos, TRUE, ok).records
<1>1. qos \in QoS /\ "PublishSend" \in PublishStates
  BY DEF QoS, PublishStates, OutgoingQoS1
<1>2. reserved \in Records /\ NotPushedBack(reserved, outgoing)
  BY <1>1, AddRecordKeeps, AddRecordNotPushedBack DEF OutgoingOK, Extends
<1>3. outcome \in {reserved, SentRecord(reserved, id, qos).records}
  BY DEF PublishOutcome
<1> HIDE DEF reserved, outcome
<1>4. \A j \in Slots : outcome[j].packetId = reserved[j].packetId
  BY <1>2, <1>3, SentRecordInPlace
<1>5. NotPushedBack(outcome, outgoing)
  BY <1>2, <1>4 DEF NotPushedBack, Live
<1>6. QED
  BY <1>5 DEF outcome

LEMMA PubrelNotPushedBack ==
    ASSUME OutgoingOK(outgoing), NEW id \in PacketIds, NEW ok \in BOOLEAN
    PROVE  NotPushedBack(SendPublishAck(outgoing, id, "PubRelSend", ok).records, outgoing)
<1> USE RecordCountAssumption, PacketIdAssumption
<1> DEFINE i   == FindInRecord(outgoing, id)
           new == CalculateStateAck("PUBREL", "SEND", outgoing[i].qos)
           res == SendPublishAck(outgoing, id, "PubRelSend", ok).records
<1>1. res \in {outgoing, AckRecord(outgoing, id, "PUBREL", "SEND").records}
  BY DEF SendPublishAck, AckToSend
<1>2. new \in {"Null", "PubCompPending"}
  BY DEF CalculateStateAck
<1>3. res \in {outgoing, UpdateStateAck(outgoing, i, new).records}
  BY <1>1 DEF AckRecord
<1> HIDE DEF new, res
<1>4. res \in {outgoing, SetRecordState(outgoing, i, new)}
  BY <1>2, <1>3 DEF UpdateStateAck
<1>5. \A j \in Slots : SetRecordState(outgoing, i, new)[j].packetId = outgoing[j].packetId
  BY DEF SetRecordState, Records, Record, OutgoingOK
<1>6. \A j \in Slots : res[j].packetId = outgoing[j].packetId
  BY <1>4, <1>5
<1>7. NotPushedBack(res, outgoing)
  BY <1>6 DEF NotPushedBack, Slots
<1>8. QED
  BY <1>7 DEF res

(* What a round has given, the cursor has passed.                          *)
GivenBehind ==
    resend.kind # "idle" =>
        \A i \in Slots : outgoing[i].packetId \in resend.given => i <= resend.cursor

(* A record that is found lies ahead of the cursor.                        *)
LEMMA SelectedAhead ==
    ASSUME IInv, Selected.packetId # NoPacketId
    PROVE  /\ Selected.packetId \in PacketIds
           /\ Selected.cursor \in Slots /\ Selected.cursor > resend.cursor
           /\ Live(outgoing, Selected.cursor)
           /\ outgoing[Selected.cursor].packetId = Selected.packetId
           /\ outgoing[Selected.cursor].publishState \in LoopStates(resend.kind)
<1> USE RecordCountAssumption, PacketIdAssumption
<1> DEFINE S == Selectable(outgoing, LoopStates(resend.kind), resend.cursor)
<1>1. outgoing \in Records /\ resend.cursor \in 0..RecordCount
  BY IInvParts DEF OutgoingOK
<1>2. /\ Selected.packetId \in PacketIds
      /\ Selected.cursor \in Slots
      /\ outgoing[Selected.cursor].packetId = Selected.packetId
      /\ outgoing[Selected.cursor].publishState \in LoopStates(resend.kind)
  BY <1>1, StateSelectType DEF Selected
<1>3. Selected.cursor \in S
  <2>1. S # {}
    BY DEF Selected, StateSelect, SelectStep
  <2>2. S \in SUBSET (1..RecordCount) /\ RecordCount \in Nat
    BY DEF Selectable, Slots
  <2>3. \E i \in S : \A j \in S : i <= j
    <3> HIDE DEF S
    <3>1. QED
      BY <2>1, <2>2, LeastElement
  <2> DEFINE first == CHOOSE i \in S : \A j \in S : i <= j
  <2>4. first \in S
    BY <2>3
  <2>5. Selected = [packetId |-> outgoing[first].packetId, cursor |-> [i \in Slots |-> i][first]]
    BY <2>1 DEF Selected, StateSelect, SelectStep
  <2>6. first \in Slots
    BY <2>4 DEF Selectable
  <2> HIDE DEF first
  <2>7. QED
    BY <2>4, <2>5, <2>6
<1>4. Selected.cursor > resend.cursor
  BY <1>3 DEF Selectable
<1>5. QED
  BY <1>2, <1>4 DEF Live


LEMMA RoundStep ==
    ASSUME IInv, GivenBehind, NEW ok \in BOOLEAN, ResendPubrel(ok) \/ ResendPublish(ok)
    PROVE  GivenBehind' /\ Selected.packetId \notin resend.given
<1> USE RecordCountAssumption, PacketIdAssumption
<1> DEFINE id  == Selected.packetId
           cur == Selected.cursor
           qos == outgoing[FindInRecord(outgoing, id)].qos
<1>1. /\ OutgoingOK(outgoing) /\ resend.cursor \in 0..RecordCount /\ resend.given \subseteq PacketIds
      /\ resend \in [kind : {"idle", "pubrel", "publish"}, cursor : 0..RecordCount,
                     given : SUBSET PacketIds]
  BY IInvParts
<1>2. /\ id \in PacketIds /\ cur \in Slots /\ cur > resend.cursor
      /\ Live(outgoing, cur) /\ outgoing[cur].packetId = id /\ resend.kind # "idle"
  BY SelectedAhead DEF ResendPubrel, ResendPublish
<1>3. Holds(outgoing, id)
  BY <1>2 DEF Holds
<1> HIDE DEF id, cur
<1>4. NotPushedBack(outgoing', outgoing)
  <2>1. CASE ResendPubrel(ok)
    BY <1>1, <1>2, <2>1, PubrelNotPushedBack DEF ResendPubrel, id
  <2>2. CASE ResendPublish(ok)
    <3>1. qos \in {1, 2}
      <4>1. FindInRecord(outgoing, id) \in Slots /\ Live(outgoing, FindInRecord(outgoing, id))
        BY <1>1, <1>2, <1>3, FoundSlot DEF OutgoingOK, Live
      <4>2. QED
        BY <1>1, <4>1 DEF OutgoingOK, OutgoingAgree, Agree
    <3>2. outgoing' = PublishOutcome(id, qos, TRUE, ok).records
      BY <2>2 DEF ResendPublish, id
    <3> HIDE DEF qos
    <3>3. QED
      BY <1>1, <1>2, <1>3, <3>1, <3>2, RepublishNotPushedBack
  <2>3. QED
    BY <2>1, <2>2
<1>5. id \notin resend.given
  BY <1>1, <1>2 DEF GivenBehind, Slots
<1>6. \/ resend' = Idle
      \/ resend' = [resend EXCEPT !.cursor = cur, !.given = @ \cup {id}]
  BY DEF ResendPubrel, ResendPublish, id, cur
<1>7. CASE resend' = Idle
  BY <1>5, <1>7 DEF GivenBehind, Idle, id
<1>8. CASE resend' = [resend EXCEPT !.cursor = cur, !.given = @ \cup {id}]
  <2>1. resend'.cursor = cur /\ resend'.given = resend.given \cup {id}
    BY <1>1, <1>8
  <2>2. ASSUME NEW i \in Slots, outgoing'[i].packetId \in resend.given \cup {id}
        PROVE  i <= cur
    <3>1. outgoing'[i].packetId \in PacketIds
      BY <1>1, <1>2, <2>2
    <3>2. PICK j \in Slots : j >= i /\ outgoing[j].packetId = outgoing'[i].packetId
      BY <1>4, <3>1 DEF NotPushedBack, Live
    <3>3. CASE outgoing[j].packetId \in resend.given
      BY <1>1, <1>2, <3>2, <3>3 DEF GivenBehind, Slots
    <3>4. CASE outgoing[j].packetId = id
      <4>1. j = cur
        BY <1>1, <1>2, <3>4 DEF OutgoingOK, Unique
      <4>2. QED
        BY <3>2, <4>1 DEF Slots
    <3>5. QED
      BY <2>2, <3>2, <3>3, <3>4
  <2>3. QED
    BY <1>5, <2>1, <2>2 DEF GivenBehind, id
<1>9. QED
  BY <1>6, <1>7, <1>8

LEMMA GivenBehindStep == IInv /\ GivenBehind /\ [Next]_vars => GivenBehind'
<1> SUFFICES ASSUME IInv, GivenBehind, [Next]_vars PROVE GivenBehind'
  OBVIOUS
<1>1. ASSUME NEW ok \in BOOLEAN, ResendPubrel(ok) \/ ResendPublish(ok) PROVE GivenBehind'
  BY <1>1, RoundStep
<1>2. ASSUME NEW id, NEW qos, NEW dup, NEW ok, NEW ack,
             Publish(id, qos, dup, ok) \/ ReceivePublish(id, qos, dup, ok)
                \/ ReceiveOutgoingAck(ack, id, ok) \/ ReceivePubrel(id, ok)
      PROVE  GivenBehind'
  BY <1>2 DEF Publish, ReceivePublish, ReceiveOutgoingAck, ReceivePubrel, GivenBehind
<1>3. CASE ConnectNewSession \/ LinkDown \/ UNCHANGED vars
  BY <1>3 DEF ConnectNewSession, LinkDown, vars, GivenBehind
<1>4. CASE ConnectSessionPresent \/ ResendEnd \/ ResendAbandon \/ Restart
  <2>1. resend'.given = {}
    BY <1>4 DEF ConnectSessionPresent, ResendEnd, ResendAbandon, Restart, Loop, Idle
  <2>2. QED
    BY <2>1 DEF GivenBehind
<1>5. QED
  BY <1>1, <1>2, <1>3, <1>4 DEF Next

(* MQTT_PubrelToResend and MQTT_PublishToResend return only packets whose  *)
(* handshake waits for them, and none twice in one round, although sending *)
(* a publish again may compact the array under the cursor.                 *)
THEOREM NoPacketTwice == Spec => ResendsOncePerRound
<1>1. Init => GivenBehind
  BY DEF Init, Idle, GivenBehind
<1>2. IInv /\ GivenBehind /\ [Next]_vars =>
        [\A ok \in BOOLEAN : ResendPubrel(ok) \/ ResendPublish(ok) =>
            /\ Selected.packetId \in Pending(LoopStates(resend.kind))
            /\ Selected.packetId \notin resend.given]_vars
  <2> SUFFICES ASSUME IInv, GivenBehind, NEW ok \in BOOLEAN, ResendPubrel(ok) \/ ResendPublish(ok)
               PROVE  /\ Selected.packetId \in Pending(LoopStates(resend.kind))
                      /\ Selected.packetId \notin resend.given
    OBVIOUS
  <2>1. Selected.packetId # NoPacketId
    BY DEF ResendPubrel, ResendPublish
  <2>2. Selected.packetId \in Pending(LoopStates(resend.kind))
    BY <2>1, SelectedAhead DEF Pending
  <2>3. QED
    BY <2>2, RoundStep
<1>3. QED
  BY <1>1, <1>2, GivenBehindStep, Invariance, PTL DEF Spec, ResendsOncePerRound


-----------------------------------------------------------------------------
(* The packet ids of the records of an array that stand in given states,   *)
(* and what the operations of the state engine make of them.               *)
Standing(recs, states) ==
    {recs[i].packetId : i \in {j \in Slots : Live(recs, j) /\ recs[j].publishState \in states}}

LEMMA AddRecordStatus ==
    ASSUME NEW recs \in Records, Unique(recs), NEW id \in PacketIds, NEW qos \in QoS,
           NEW state \in PublishStates
    PROVE  /\ AddRecord(recs, id, qos, state).status = "StateCollision" <=> Holds(recs, id)
           /\ AddRecord(recs, id, qos, state).status = "NoMemory" =>
                 ~ Holds(AddRecord(recs, id, qos, state).records, id)
<1> USE RecordCountAssumption, PacketIdAssumption
<1> DEFINE base == IF Live(recs, RecordCount) THEN CompactRecords(recs) ELSE recs
<1>1. Holds(base, id) <=> Holds(recs, id)
  <2>1. CASE Live(recs, RecordCount)
    <3>1. base = CompactRecords(recs)
      BY <2>1
    <3>2. ASSUME NEW i \in Slots, base[i].packetId = id PROVE Holds(recs, id)
      BY <3>1, <3>2, CompactedOrigin DEF Holds, Live
    <3>3. ASSUME NEW i \in Slots, recs[i].packetId = id PROVE Holds(base, id)
      BY <3>1, <3>3, CompactedSlot DEF Holds, Live
    <3>4. QED
      BY <3>2, <3>3 DEF Holds
  <2>2. CASE ~ Live(recs, RecordCount)
    BY <2>2
  <2>3. QED
    BY <2>1, <2>2
<1> DEFINE at == FirstFree(base)
<1>2. AddRecord(recs, id, qos, state) =
         IF Holds(base, id) THEN [records |-> base, status |-> "StateCollision"]
         ELSE AppendRecord(base, at, id, qos, state)
  BY DEF AddRecord
<1> HIDE DEF base, at
<1>3. CASE Holds(base, id)
  BY <1>1, <1>2, <1>3
<1>4. CASE ~ Holds(base, id) /\ at > RecordCount
  <2>1. AddRecord(recs, id, qos, state) = [records |-> base, status |-> "NoMemory"]
    BY <1>2, <1>4 DEF AppendRecord
  <2>2. QED
    BY <1>1, <1>4, <2>1
<1>5. CASE ~ Holds(base, id) /\ ~ (at > RecordCount)
  <2>1. AddRecord(recs, id, qos, state).status = "Success"
    BY <1>2, <1>5 DEF AppendRecord
  <2>2. QED
    BY <1>1, <1>5, <2>1
<1>6. QED
  BY <1>3, <1>4, <1>5

LEMMA AddRecordStanding ==
    ASSUME NEW recs \in Records, Unique(recs), NEW id \in PacketIds, NEW qos \in QoS,
           NEW state \in PublishStates, NEW states
    PROVE  Standing(AddRecord(recs, id, qos, state).records, states) =
              IF AddRecord(recs, id, qos, state).status = "Success" /\ state \in states
              THEN Standing(recs, states) \cup {id} ELSE Standing(recs, states)
<1> USE PacketIdAssumption
<1> DEFINE added  == AddRecord(recs, id, qos, state)
           new    == added.records
           record == NewRecord(id, qos, state)
<1>1. /\ Extends(new, recs, record)
      /\ added.status \in {"Success", "StateCollision", "NoMemory"}
      /\ added.status \in {"Success", "StateCollision"} => Holds(new, id)
      /\ added.status = "StateCollision" <=> Holds(recs, id)
      /\ added.status = "NoMemory" => ~ Holds(new, id)
  BY AddRecordKeeps, AddRecordStatus
<1>2. record.packetId = id /\ record.publishState = state
  BY DEF NewRecord
<1> HIDE DEF new, added, record
<1>3. Unique(new)
  BY <1>1 DEF Extends
<1>4. Standing(recs, states) \subseteq Standing(new, states)
  BY <1>1 DEF Extends, Standing, Live
(* A live slot of the new array is an old record, or the one added.        *)
<1>5. ASSUME NEW i \in Slots, Live(new, i)
      PROVE  \/ \E j \in Slots : Live(recs, j) /\ new[i] = recs[j]
             \/ added.status = "Success" /\ new[i] = record
  <2>1. CASE new[i] = record /\ Holds(recs, id)
    <3>1. PICK j \in Slots : recs[j].packetId = id
      BY <2>1 DEF Holds
    <3>2. Live(recs, j)
      BY <3>1 DEF Live
    <3>3. PICK k \in Slots : new[k] = recs[j]
      BY <1>1, <3>2 DEF Extends
    <3>4. i = k
      BY <1>2, <1>3, <1>5, <2>1, <3>1, <3>3 DEF Unique
    <3>5. QED
      BY <3>2, <3>3, <3>4
  <2>2. CASE new[i] = record /\ ~ Holds(recs, id)
    BY <1>1, <1>2, <2>2 DEF Holds
  <2>3. QED
    BY <1>1, <1>5, <2>1, <2>2 DEF Extends
<1>6. Standing(new, states) \subseteq
          Standing(recs, states) \cup
             (IF added.status = "Success" /\ state \in states THEN {id} ELSE {})
  BY <1>2, <1>5 DEF Standing
<1>7. CASE added.status = "Success" /\ state \in states
  <2>1. PICK i \in Slots : new[i].packetId = id
    BY <1>1, <1>7 DEF Holds
  <2>2. new[i] = record
    BY <1>1, <1>5, <1>7, <2>1 DEF Live, Holds
  <2>3. id \in Standing(new, states)
    BY <1>2, <1>7, <2>1, <2>2 DEF Standing, Live
  <2>4. QED
    BY <1>4, <1>6, <1>7, <2>3 DEF new, added
<1>8. CASE ~ (added.status = "Success" /\ state \in states)
  BY <1>4, <1>6, <1>8 DEF new, added
<1>9. QED
  BY <1>7, <1>8

LEMMA SetRecordStateStanding ==
    ASSUME NEW recs \in Records, Unique(recs), NEW i \in Slots, Live(recs, i),
           NEW state \in PublishStates, NEW states
    PROVE  Standing(SetRecordState(recs, i, state), states) =
              (Standing(recs, states) \ {recs[i].packetId})
                 \cup (IF state \in states THEN {recs[i].packetId} ELSE {})
<1> DEFINE new == SetRecordState(recs, i, state)
           id  == recs[i].packetId
<1>1. /\ \A j \in Slots : j # i => new[j] = recs[j]
      /\ new[i] = [packetId |-> id, qos |-> recs[i].qos, publishState |-> state]
  BY SetRecordStateKeeps
<1>1a. new[i].packetId = id /\ new[i].publishState = state
  <2> HIDE DEF new
  <2>1. QED
    BY <1>1
<1>2. \A j \in Slots : Live(recs, j) /\ recs[j].packetId = id => j = i
  BY DEF Unique
<1> HIDE DEF new
<1>3. Standing(new, states) =
         (Standing(recs, states) \ {id}) \cup (IF state \in states THEN {id} ELSE {})
  BY <1>1, <1>1a, <1>2 DEF Standing, Live
<1>4. QED
  BY <1>3 DEF new

LEMMA DeleteRecordStanding ==
    ASSUME NEW recs \in Records, Unique(recs), NEW i \in Slots, Live(recs, i), NEW states
    PROVE  Standing(DeleteRecord(recs, i), states) = Standing(recs, states) \ {recs[i].packetId}
<1> DEFINE new == DeleteRecord(recs, i)
           id  == recs[i].packetId
<1>1. ~ Live(new, i) /\ \A j \in Slots : j # i => new[j] = recs[j]
  BY DeleteRecordKeeps
<1>2. \A j \in Slots : Live(recs, j) /\ recs[j].packetId = id => j = i
  BY DEF Unique
<1> HIDE DEF new
<1>3. Standing(new, states) = Standing(recs, states) \ {id}
  BY <1>1, <1>2 DEF Standing, Live
<1>4. QED
  BY <1>3 DEF new


-----------------------------------------------------------------------------
(* An application that publishes with QoS 1 alone.  Its records wait to be *)
(* sent or for a PUBACK, and nothing but a PUBACK for a publish that was   *)
(* sent takes one out.                                                     *)
QoS1Only(recs) == Agree(recs, OutgoingQoS1, {})

Unsent  == Pending({"PublishSend"})
Waiting == Pending({"PubAckPending"})

LibInv == IInv /\ GivenBehind /\ QoS1Only(outgoing)

LEMMA PendingStanding == \A states : Pending(states) = Standing(outgoing, states)
BY DEF Pending, Standing

LEMMA HeldOnQoS1 ==
    ASSUME NEW recs, QoS1Only(recs), NEW id \in PacketIds
    PROVE  /\ Holds(recs, id) <=>
                 id \in Standing(recs, {"PublishSend"}) \cup Standing(recs, {"PubAckPending"})
           /\ Standing(recs, PublishResendStates) =
                 Standing(recs, {"PublishSend"}) \cup Standing(recs, {"PubAckPending"})
BY PacketIdAssumption DEF QoS1Only, Agree, OutgoingQoS1, Standing, Holds, Live, PublishResendStates

(* The slot of an id, in an array of QoS 1 records.                        *)
LEMMA SlotOnQoS1 ==
    ASSUME NEW recs \in Records, Unique(recs), QoS1Only(recs), NEW id \in PacketIds,
           Holds(recs, id)
    PROVE  /\ FindInRecord(recs, id) \in Slots /\ recs[FindInRecord(recs, id)].packetId = id
           /\ Live(recs, FindInRecord(recs, id)) /\ recs[FindInRecord(recs, id)].qos = 1
           /\ recs[FindInRecord(recs, id)].publishState \in OutgoingQoS1
           /\ \A states : recs[FindInRecord(recs, id)].publishState \in states
                             <=> id \in Standing(recs, states)
<1> USE PacketIdAssumption
<1> DEFINE i == FindInRecord(recs, id)
<1>1. i \in Slots /\ recs[i].packetId = id
  BY FoundSlot
<1> HIDE DEF i
<1>2. Live(recs, i) /\ recs[i].qos = 1 /\ recs[i].publishState \in OutgoingQoS1
  BY <1>1 DEF Live, QoS1Only, Agree
<1>3. \A states : recs[i].publishState \in states <=> id \in Standing(recs, states)
  BY <1>1, <1>2 DEF Standing, Unique, Live
<1>4. QED
  BY <1>1, <1>2, <1>3 DEF i

(* updateStateAck on such an array.                                        *)
LEMMA AckOnQoS1 ==
    ASSUME NEW recs \in Records, Unique(recs), QoS1Only(recs), NEW id \in PacketIds,
           NEW ack \in AckTypes, NEW op \in Operations
    PROVE  \/ /\ ack = "PUBACK" /\ id \in Standing(recs, {"PubAckPending"})
              /\ AckRecord(recs, id, ack, op) =
                    [records |-> DeleteRecord(recs, FindInRecord(recs, id)), status |-> "Success"]
           \/ /\ ack # "PUBACK" \/ id \notin Standing(recs, {"PubAckPending"})
              /\ AckRecord(recs, id, ack, op).records = recs
              /\ AckRecord(recs, id, ack, op).status # "Success"
<1> USE PacketIdAssumption
<1> DEFINE i   == FindInRecord(recs, id)
           new == CalculateStateAck(ack, op, recs[i].qos)
<1>1. CASE ~ Holds(recs, id)
  BY <1>1, HeldOnQoS1 DEF AckRecord
<1>2. CASE Holds(recs, id)
  <2>1. /\ recs[i].qos = 1 /\ recs[i].publishState \in OutgoingQoS1
        /\ recs[i].publishState \in {"PubAckPending"} <=> id \in Standing(recs, {"PubAckPending"})
    BY <1>2, SlotOnQoS1
  <2>2. AckRecord(recs, id, ack, op) = UpdateStateAck(recs, i, new)
    BY <1>2 DEF AckRecord
  <2>3. new = IF ack = "PUBACK" THEN "PublishDone" ELSE "Null"
    BY <2>1 DEF CalculateStateAck, AckTypes
  <2> HIDE DEF new, i
  <2>4. ValidTransitionAck(recs[i].publishState, new) <=>
            ack = "PUBACK" /\ recs[i].publishState = "PubAckPending"
    BY <2>1, <2>3 DEF ValidTransitionAck, AckTransitions, OutgoingQoS1
  <2>5. CASE ack = "PUBACK" /\ recs[i].publishState = "PubAckPending"
    BY <2>1, <2>2, <2>3, <2>4, <2>5 DEF UpdateStateAck, i
  <2>6. CASE ~ (ack = "PUBACK" /\ recs[i].publishState = "PubAckPending")
    BY <2>1, <2>2, <2>4, <2>6 DEF UpdateStateAck
  <2>7. QED
    BY <2>5, <2>6
<1>3. QED
  BY <1>1, <1>2

(* MQTT_Publish: refused, recorded but not sent, or sent.                  *)
LEMMA PublishOnQoS1 ==
    ASSUME OutgoingOK(outgoing), QoS1Only(outgoing), NEW id \in PacketIds,
           NEW dup \in BOOLEAN, NEW ok \in BOOLEAN, NEW outcome,
           outcome = PublishOutcome(id, 1, dup, ok)
    PROVE  /\ QoS1Only(outcome.records)
           /\ \/ /\ outcome.result = Outcome("Success", <<PublishPacket(id, 1, dup)>>, <<>>)
                 /\ ok /\ (dup \/ ~ Holds(outgoing, id))
                 /\ Standing(outcome.records, {"PubAckPending"}) = Waiting \cup {id}
                 /\ Standing(outcome.records, {"PublishSend"}) = Unsent \ {id}
              \/ /\ outcome.result.status # "Success" /\ outcome.result.sent = <<>>
                 /\ dup /\ Holds(outgoing, id) => ~ ok
                 /\ Standing(outcome.records, {"PubAckPending"}) = Waiting
                 /\ Unsent \subseteq Standing(outcome.records, {"PublishSend"})
<1> USE PacketIdAssumption
<1> DEFINE added   == AddRecord(outgoing, id, 1, "PublishSend")
           recs    == added.records
           sent    == SentRecord(recs, id, 1)
           refused == added.status # "Success" /\ ~ (added.status = "StateCollision" /\ dup)
<1>1. 1 \in QoS /\ "PublishSend" \in PublishStates /\ "PubAckPending" \in PublishStates
  BY DEF QoS, PublishStates, OutgoingQoS1
<1>2. /\ Extends(recs, outgoing, NewRecord(id, 1, "PublishSend"))
      /\ added.status \in {"Success", "StateCollision", "NoMemory"}
      /\ added.status \in {"Success", "StateCollision"} => Holds(recs, id)
      /\ added.status = "StateCollision" <=> Holds(outgoing, id)
  BY <1>1, AddRecordKeeps, AddRecordStatus DEF OutgoingOK
<1>3. \A states : Standing(recs, states) =
          IF added.status = "Success" /\ "PublishSend" \in states
          THEN Standing(outgoing, states) \cup {id} ELSE Standing(outgoing, states)
  BY <1>1, AddRecordStanding DEF OutgoingOK
<1>4. recs \in Records /\ Unique(recs) /\ QoS1Only(recs)
  <2> HIDE DEF added
  <2>1. "PublishSend" \in OutgoingQoS1
    BY DEF OutgoingQoS1
  <2>2. QED
    BY <1>2, <2>1, ExtendsAgree DEF Extends, QoS1Only, NewRecord, OutgoingOK
<1>5. /\ Standing(recs, {"PubAckPending"}) = Waiting
      /\ Unsent \subseteq Standing(recs, {"PublishSend"})
      /\ Standing(recs, {"PublishSend"}) \subseteq Unsent \cup {id}
  <2>1. Waiting = Standing(outgoing, {"PubAckPending"}) /\ Unsent = Standing(outgoing, {"PublishSend"})
    BY PendingStanding DEF Waiting, Unsent
  <2>2. Standing(recs, {"PubAckPending"}) = Standing(outgoing, {"PubAckPending"})
    BY <1>3
  <2>3. Standing(recs, {"PublishSend"}) \in
           {Standing(outgoing, {"PublishSend"}), Standing(outgoing, {"PublishSend"}) \cup {id}}
    BY <1>3
  <2>4. QED
    BY <2>1, <2>2, <2>3
<1>6. CASE refused
  <2>1. outcome = [records |-> recs, result |-> Outcome(added.status, <<>>, <<>>)]
    BY <1>6 DEF PublishOutcome
  <2> HIDE DEF added, recs
  <2>2. outcome.records = recs /\ outcome.result.status = added.status /\ outcome.result.sent = <<>>
    BY <2>1 DEF Outcome
  <2>3. QED
    BY <1>2, <1>4, <1>5, <1>6, <2>2
<1>7. CASE ~ refused /\ ~ ok
  <2>1. outcome = [records |-> recs, result |-> Outcome("SendFailed", <<>>, <<>>)]
    BY <1>7 DEF PublishOutcome
  <2> HIDE DEF added, recs
  <2>2. outcome.records = recs /\ outcome.result.status = "SendFailed" /\ outcome.result.sent = <<>>
    BY <2>1 DEF Outcome
  <2>3. QED
    BY <1>4, <1>5, <1>7, <2>2
<1>8. CASE ~ refused /\ ok
  <2>1. outcome = [records |-> sent.records,
                   result |-> Outcome(sent.status, <<PublishPacket(id, 1, dup)>>, <<>>)]
    BY <1>8 DEF PublishOutcome
  <2> DEFINE i   == FindInRecord(recs, id)
             new == SetRecordState(recs, i, "PubAckPending")
  <2>2. Holds(recs, id)
    BY <1>2, <1>8
  <2> HIDE DEF added, recs
  <2>3. /\ i \in Slots /\ recs[i].packetId = id /\ Live(recs, i) /\ recs[i].qos = 1
        /\ recs[i].publishState \in OutgoingQoS1
    BY <1>4, <2>2, SlotOnQoS1
  <2>4. CalculateStatePublish("SEND", 1) = "PubAckPending"
    BY DEF CalculateStatePublish
  <2> HIDE DEF i
  <2>5. ValidTransitionPublish(recs[i].publishState, "PubAckPending", "SEND", 1)
    BY <2>3 DEF ValidTransitionPublish, OutgoingQoS1
  <2>6. sent = [records |-> new, status |-> "Success"]
    BY <2>2, <2>3, <2>4, <2>5 DEF SentRecord, i
  <2>7. QoS1Only(new)
    BY <1>1, <1>4, <2>3, SetRecordStateAgree DEF QoS1Only, OutgoingQoS1
  <2>8. Standing(new, {"PubAckPending"}) = Waiting \cup {id}
    <3>1. Standing(new, {"PubAckPending"}) = (Standing(recs, {"PubAckPending"}) \ {id}) \cup {id}
      BY <1>1, <1>4, <2>3, SetRecordStateStanding
    <3>2. QED
      BY <1>5, <3>1
  <2>9. Standing(new, {"PublishSend"}) = Unsent \ {id}
    <3>1. Standing(new, {"PublishSend"}) = Standing(recs, {"PublishSend"}) \ {id}
      BY <1>1, <1>4, <2>3, SetRecordStateStanding
    <3>2. QED
      BY <1>5, <3>1
  <2> HIDE DEF sent, new
  <2>10. /\ outcome.records = new
         /\ outcome.result = Outcome("Success", <<PublishPacket(id, 1, dup)>>, <<>>)
    BY <2>1, <2>6
  <2>11. dup \/ ~ Holds(outgoing, id)
    BY <1>2, <1>8
  <2>12. QED
    BY <1>8, <2>7, <2>8, <2>9, <2>10, <2>11
<1>9. QED
  BY <1>6, <1>7, <1>8


(* The application publishes a payload.                                    *)
LEMMA PublishEffect ==
    ASSUME LibInv, NEW id \in PacketIds, NEW ok \in BOOLEAN, Publish(id, 1, FALSE, ok)
    PROVE  /\ QoS1Only(outgoing')
           /\ \/ /\ result' = Outcome("Success", <<PublishPacket(id, 1, FALSE)>>, <<>>)
                 /\ id \notin Waiting \cup Unsent
                 /\ Waiting' = Waiting \cup {id} /\ Unsent' = Unsent
              \/ /\ result'.status # "Success" /\ result'.sent = <<>>
                 /\ Waiting' = Waiting /\ Unsent \subseteq Unsent'
<1> DEFINE outcome == PublishOutcome(id, 1, FALSE, ok)
<1>1. outgoing' = outcome.records /\ result' = outcome.result
  BY DEF Publish
<1>2. OutgoingOK(outgoing) /\ QoS1Only(outgoing)
  BY IInvParts DEF LibInv
<1>3. Waiting' = Standing(outgoing', {"PubAckPending"}) /\ Unsent' = Standing(outgoing', {"PublishSend"})
  BY DEF Waiting, Unsent, Pending, Standing
<1>4. PICK out : out = outcome
  OBVIOUS
<1>5. /\ QoS1Only(out.records)
      /\ \/ /\ out.result = Outcome("Success", <<PublishPacket(id, 1, FALSE)>>, <<>>)
            /\ ~ Holds(outgoing, id)
            /\ Standing(out.records, {"PubAckPending"}) = Waiting \cup {id}
            /\ Standing(out.records, {"PublishSend"}) = Unsent \ {id}
         \/ /\ out.result.status # "Success" /\ out.result.sent = <<>>
            /\ Standing(out.records, {"PubAckPending"}) = Waiting
            /\ Unsent \subseteq Standing(out.records, {"PublishSend"})
  BY <1>2, <1>4, PublishOnQoS1
<1>6. ~ Holds(outgoing, id) => id \notin Waiting \cup Unsent
  BY <1>2, HeldOnQoS1, PendingStanding DEF Waiting, Unsent
<1> HIDE DEF outcome
<1>7. QED
  BY <1>1, <1>3, <1>4, <1>5, <1>6

(* ... or sends one again.                                                 *)
LEMMA ResendEffect ==
    ASSUME LibInv, NEW ok \in BOOLEAN, ResendPublish(ok)
    PROVE  /\ QoS1Only(outgoing')
           /\ Selected.packetId \in PacketIds
           /\ Selected.packetId \in Waiting \cup Unsent
           /\ Selected.packetId \notin resend.given
           /\ resend'.kind = resend.kind /\ resend'.given = resend.given \cup {Selected.packetId}
           /\ \/ /\ result' = Outcome("Success", <<PublishPacket(Selected.packetId, 1, TRUE)>>, <<>>)
                 /\ Waiting' = Waiting \cup {Selected.packetId}
                 /\ Unsent' = Unsent \ {Selected.packetId}
              \/ /\ result'.status # "Success" /\ result'.sent = <<>>
                 /\ Waiting' = Waiting /\ Unsent \subseteq Unsent'
<1> USE PacketIdAssumption
<1> DEFINE id      == Selected.packetId
           at      == FindInRecord(outgoing, id)
           outcome == PublishOutcome(id, outgoing[at].qos, TRUE, ok)
<1>1. /\ outgoing' = outcome.records /\ result' = outcome.result
      /\ resend' = [resend EXCEPT !.cursor = Selected.cursor, !.given = @ \cup {id}]
      /\ id # NoPacketId
  BY DEF ResendPublish
<1>2. /\ OutgoingOK(outgoing) /\ QoS1Only(outgoing) /\ IInv /\ GivenBehind
      /\ resend \in [kind : {"idle", "pubrel", "publish"}, cursor : 0..RecordCount,
                     given : SUBSET PacketIds]
  BY IInvParts DEF LibInv
<1>3. /\ id \in PacketIds /\ Holds(outgoing, id) /\ id \notin resend.given
  BY <1>1, <1>2, SelectedAhead, RoundStep DEF Holds
<1>4. resend'.kind = resend.kind /\ resend'.given = resend.given \cup {id}
  <2> HIDE DEF id
  <2>1. QED
    BY <1>1, <1>2
<1> HIDE DEF id
<1>5. outgoing[at].qos = 1
  BY <1>2, <1>3, SlotOnQoS1 DEF OutgoingOK
<1> HIDE DEF at
<1>6. Waiting' = Standing(outgoing', {"PubAckPending"}) /\ Unsent' = Standing(outgoing', {"PublishSend"})
  BY DEF Waiting, Unsent, Pending, Standing
<1>7. PICK out : out = outcome
  OBVIOUS
<1>8. /\ QoS1Only(out.records)
      /\ \/ /\ out.result = Outcome("Success", <<PublishPacket(id, 1, TRUE)>>, <<>>)
            /\ Standing(out.records, {"PubAckPending"}) = Waiting \cup {id}
            /\ Standing(out.records, {"PublishSend"}) = Unsent \ {id}
         \/ /\ out.result.status # "Success" /\ out.result.sent = <<>>
            /\ Standing(out.records, {"PubAckPending"}) = Waiting
            /\ Unsent \subseteq Standing(out.records, {"PublishSend"})
  BY <1>2, <1>3, <1>5, <1>7, PublishOnQoS1
<1>9. id \in Waiting \cup Unsent
  BY <1>2, <1>3, HeldOnQoS1, PendingStanding DEF Waiting, Unsent
<1> HIDE DEF outcome
<1>10. QED
  BY <1>1, <1>3, <1>4, <1>6, <1>7, <1>8, <1>9 DEF id

(* The broker acknowledges.                                                *)
LEMMA AckEffect ==
    ASSUME LibInv, NEW id \in PacketIds, NEW ack \in AckTypes, NEW ok \in BOOLEAN,
           ReceiveOutgoingAck(ack, id, ok)
    PROVE  /\ QoS1Only(outgoing')
           /\ \/ /\ ack = "PUBACK" /\ id \in Waiting
                 /\ result' = Outcome("Success", <<>>, <<AckPacket("PUBACK", id)>>)
                 /\ Waiting' = Waiting \ {id} /\ Unsent' = Unsent \ {id}
              \/ /\ ack # "PUBACK" \/ id \notin Waiting
                 /\ result'.status # "Success" /\ result'.event = <<>> /\ outgoing' = outgoing
<1> DEFINE updated == AckRecord(outgoing, id, ack, "RECEIVE")
           outcome == AckOutcome(outgoing, ack, id, ok)
           at      == FindInRecord(outgoing, id)
<1>1. outgoing' = outcome.records /\ result' = outcome.result
  BY DEF ReceiveOutgoingAck
<1>2. OutgoingOK(outgoing) /\ QoS1Only(outgoing)
  BY IInvParts DEF LibInv
<1>3. Waiting = Standing(outgoing, {"PubAckPending"}) /\ Unsent = Standing(outgoing, {"PublishSend"})
  BY DEF Waiting, Unsent, Pending, Standing
<1>4. Waiting' = Standing(outgoing', {"PubAckPending"}) /\ Unsent' = Standing(outgoing', {"PublishSend"})
  BY DEF Waiting, Unsent, Pending, Standing
<1>5. \/ /\ ack = "PUBACK" /\ id \in Waiting
         /\ updated = [records |-> DeleteRecord(outgoing, at), status |-> "Success"]
      \/ /\ ack # "PUBACK" \/ id \notin Waiting
         /\ updated.records = outgoing /\ updated.status # "Success"
  BY <1>2, <1>3, AckOnQoS1 DEF OutgoingOK, Operations
<1>6. CASE /\ ack = "PUBACK" /\ id \in Waiting
           /\ updated = [records |-> DeleteRecord(outgoing, at), status |-> "Success"]
  <2>1. CalculateStateAck("PUBACK", "RECEIVE", 1) = "PublishDone"
    BY DEF CalculateStateAck
  <2>2. SendPublishAck(updated.records, id, "PublishDone", ok) =
           [records |-> updated.records, status |-> "Success", sent |-> <<>>]
    BY DEF SendPublishAck, AckToSend
  <2> HIDE DEF updated
  <2>3. outcome = [records |-> updated.records,
                   result  |-> Outcome("Success", <<>>, <<AckPacket("PUBACK", id)>>)]
    BY <1>6, <2>1, <2>2 DEF AckOutcome, updated
  <2> HIDE DEF outcome, at
  <2>4. /\ outgoing' = DeleteRecord(outgoing, at)
        /\ result' = Outcome("Success", <<>>, <<AckPacket("PUBACK", id)>>)
    BY <1>1, <1>6, <2>3
  <2>5. at \in Slots /\ Live(outgoing, at) /\ outgoing[at].packetId = id
    BY <1>2, <1>3, <1>6, HeldOnQoS1, SlotOnQoS1 DEF OutgoingOK, at
  <2>6. QoS1Only(outgoing')
    BY <1>2, <2>4, <2>5, DeleteRecordKeeps DEF QoS1Only, OutgoingOK
  <2>7. Waiting' = Waiting \ {id} /\ Unsent' = Unsent \ {id}
    BY <1>2, <1>3, <1>4, <2>4, <2>5, DeleteRecordStanding DEF OutgoingOK
  <2>8. QED
    BY <1>6, <2>4, <2>6, <2>7
<1>7. CASE /\ ack # "PUBACK" \/ id \notin Waiting
           /\ updated.records = outgoing /\ updated.status # "Success"
  <2>1. outcome = [records |-> updated.records, result |-> Outcome(updated.status, <<>>, <<>>)]
    BY <1>7 DEF AckOutcome
  <2> HIDE DEF updated
  <2>2. outgoing' = outgoing /\ result'.status # "Success" /\ result'.event = <<>>
    BY <1>1, <1>7, <2>1 DEF Outcome
  <2>3. QED
    BY <1>2, <1>7, <2>2
<1>8. QED
  BY <1>5, <1>6, <1>7

(* What one publishes with QoS 1 needs no PUBREL.                          *)
LEMMA NoPubrelOnQoS1 ==
    ASSUME LibInv, NEW ok \in BOOLEAN, ResendPubrel(ok)
    PROVE  outgoing' = outgoing
<1>1. OutgoingOK(outgoing) /\ QoS1Only(outgoing) /\ IInv
  BY IInvParts DEF LibInv
<1>2. Selected.packetId \in PacketIds
  BY <1>1, SelectedAhead DEF ResendPubrel
<1> DEFINE id == Selected.packetId
<1>3. outgoing' = SendPublishAck(outgoing, id, "PubRelSend", ok).records
  BY DEF ResendPubrel
<1> HIDE DEF id
<1>4. AckRecord(outgoing, id, "PUBREL", "SEND").records = outgoing
  BY <1>1, <1>2, AckOnQoS1 DEF id, OutgoingOK, AckTypes, Operations
<1>5. SendPublishAck(outgoing, id, "PubRelSend", ok).records
         \in {outgoing, AckRecord(outgoing, id, "PUBREL", "SEND").records}
  BY DEF SendPublishAck, AckToSend
<1>6. QED
  BY <1>3, <1>4, <1>5

(* The invariant of the library under such an application.                 *)
LEMMA LibInit == Init => LibInv
<1> SUFFICES ASSUME Init PROVE LibInv
  OBVIOUS
<1>1. \A i \in Slots : ~ Live(outgoing, i)
  BY DEF Init, EmptyRecords, EmptyRecord, Live
<1>2. QED
  BY <1>1, InitInvariant DEF LibInv, GivenBehind, QoS1Only, Agree, Init, Idle

LEMMA LibStep ==
    ASSUME PublishQoS = {1}, LibInv, [Next]_vars
    PROVE  LibInv'
<1>1. IInv' /\ GivenBehind'
  BY StepInvariant, GivenBehindStep DEF LibInv
<1>2. QoS1Only(outgoing')
  <2>1. ASSUME NEW id \in PacketIds, NEW ok \in BOOLEAN, NEW qos \in PublishQoS,
               NEW dup \in BOOLEAN, Publish(id, qos, dup, ok)
        PROVE  QoS1Only(outgoing')
    BY <2>1, IInvParts, PublishOnQoS1 DEF Publish, LibInv
  <2>2. ASSUME NEW id \in PacketIds, NEW ok \in BOOLEAN, NEW ack \in AckTypes,
               ReceiveOutgoingAck(ack, id, ok)
        PROVE  QoS1Only(outgoing')
    BY <2>2, AckEffect
  <2>3. ASSUME NEW id, NEW ok \in BOOLEAN, NEW qos, NEW dup,
               ReceivePublish(id, qos, dup, ok) \/ ReceivePubrel(id, ok) \/ ResendPubrel(ok)
        PROVE  QoS1Only(outgoing')
    BY <2>3, NoPubrelOnQoS1 DEF ReceivePublish, ReceivePubrel, LibInv
  <2>4. ASSUME NEW ok \in BOOLEAN, ResendPublish(ok) PROVE QoS1Only(outgoing')
    BY <2>4, ResendEffect
  <2>5. CASE ConnectNewSession \/ Restart
    <3>1. \A i \in Slots : ~ Live(outgoing', i)
      BY <2>5 DEF ConnectNewSession, Restart, EmptyRecords, EmptyRecord, Live
    <3>2. QED
      BY <3>1 DEF QoS1Only, Agree
  <2>6. CASE ConnectSessionPresent \/ ResendEnd \/ ResendAbandon \/ LinkDown \/ UNCHANGED vars
    BY <2>6 DEF ConnectSessionPresent, ResendEnd, ResendAbandon, LinkDown, vars, LibInv
  <2>7. QED
    BY <2>1, <2>2, <2>3, <2>4, <2>5, <2>6 DEF Next
<1>3. QED
  BY <1>1, <1>2 DEF LibInv

-----------------------------------------------------------------------------
(* What arrives with QoS 1 alone.  A record of an incoming publish waits   *)
(* for its PUBACK to be sent: it is there as long as that send fails.      *)
AcksOnly(recs) == Agree(recs, IncomingQoS1, {})
Held == {k \in PacketIds : Holds(incoming, k)}

LEMMA HeldStanding ==
    ASSUME NEW recs, AcksOnly(recs)
    PROVE  {k \in PacketIds : Holds(recs, k)} = Standing(recs, {"PubAckSend"}) \cap PacketIds
BY PacketIdAssumption DEF AcksOnly, Agree, IncomingQoS1, Standing, Holds, Live

LEMMA PubackSentRecord ==
    ASSUME NEW recs \in Records, Unique(recs), AcksOnly(recs), NEW id \in PacketIds, Holds(recs, id)
    PROVE  LET new == AckRecord(recs, id, "PUBACK", "SEND")
           IN  /\ new.status = "Success" /\ AcksOnly(new.records)
               /\ Standing(new.records, {"PubAckSend"}) = Standing(recs, {"PubAckSend"}) \ {id}
<1> DEFINE i   == FindInRecord(recs, id)
           new == AckRecord(recs, id, "PUBACK", "SEND")
<1>1. i \in Slots /\ recs[i].packetId = id
  BY FoundSlot
<1>2. new = UpdateStateAck(recs, i, CalculateStateAck("PUBACK", "SEND", recs[i].qos))
  BY DEF AckRecord
<1> HIDE DEF i, new
<1>3. Live(recs, i) /\ recs[i].qos = 1 /\ recs[i].publishState = "PubAckSend"
  BY <1>1, PacketIdAssumption DEF Live, AcksOnly, Agree, IncomingQoS1
<1>4. CalculateStateAck("PUBACK", "SEND", recs[i].qos) = "PublishDone"
  BY <1>3 DEF CalculateStateAck
<1>5. new = [records |-> DeleteRecord(recs, i), status |-> "Success"]
  BY <1>2, <1>3, <1>4 DEF UpdateStateAck, ValidTransitionAck, AckTransitions
<1>6. AcksOnly(DeleteRecord(recs, i))
  BY <1>1, <1>3, DeleteRecordKeeps DEF AcksOnly
<1>7. Standing(DeleteRecord(recs, i), {"PubAckSend"}) = Standing(recs, {"PubAckSend"}) \ {id}
  BY <1>1, <1>3, DeleteRecordStanding
<1>8. QED
  BY <1>5, <1>6, <1>7 DEF new

(* handleIncomingPublish: it reports what it has no record of, it keeps a  *)
(* record while the PUBACK is not sent, and it only acknowledges what it   *)
(* reports or has reported.                                                *)
LEMMA ReceiveEffect ==
    ASSUME LibInv, AcksOnly(incoming), NEW id \in PacketIds, NEW dup \in BOOLEAN,
           NEW ok \in BOOLEAN, ReceivePublish(id, 1, dup, ok)
    PROVE  /\ AcksOnly(incoming')
           /\ \/ /\ id \notin Held /\ result'.event # <<>>
                 /\ \/ result'.sent = <<AckPacket("PUBACK", id)>> /\ Held' = Held
                    \/ result'.sent = <<>> /\ Held' = Held \cup {id}
              \/ /\ id \in Held /\ result'.event = <<>>
                 /\ \/ result'.sent = <<AckPacket("PUBACK", id)>> /\ Held' = Held \ {id}
                    \/ result'.sent = <<>> /\ Held' = Held
              \/ result'.event = <<>> /\ result'.sent = <<>> /\ Held' = Held
<1> DEFINE added == AddRecord(incoming, id, 1, "PubAckSend")
           recs  == added.records
           acked == SendPublishAck(recs, id, "PubAckSend", ok)
<1>1. IncomingOK(incoming) /\ 1 \in QoS /\ "PubAckSend" \in PublishStates
  BY IInvParts DEF LibInv, QoS, PublishStates, IncomingQoS1
<1>2. \/ /\ added.status \in {"Success", "StateCollision"} /\ incoming' = acked.records
         /\ result' = Outcome(acked.status, acked.sent,
                         IF added.status = "Success" THEN <<PublishPacket(id, 1, dup)>> ELSE <<>>)
      \/ /\ added.status \notin {"Success", "StateCollision"} /\ incoming' = recs
         /\ result' = Outcome(added.status, <<>>, <<>>)
  BY DEF ReceivePublish, ReceivedRecord, CalculateStatePublish
<1>3. /\ Extends(recs, incoming, NewRecord(id, 1, "PubAckSend"))
      /\ added.status \in {"Success", "StateCollision", "NoMemory"}
      /\ added.status \in {"Success", "StateCollision"} => Holds(recs, id)
      /\ added.status = "StateCollision" <=> Holds(incoming, id)
  BY <1>1, AddRecordKeeps, AddRecordStatus DEF IncomingOK
<1>4. Standing(recs, {"PubAckSend"}) =
         IF added.status = "Success" THEN Standing(incoming, {"PubAckSend"}) \cup {id}
         ELSE Standing(incoming, {"PubAckSend"})
  BY <1>1, AddRecordStanding DEF IncomingOK
<1>5. recs \in Records /\ Unique(recs) /\ AcksOnly(recs)
  <2> HIDE DEF added
  <2>1. "PubAckSend" \in IncomingQoS1
    BY DEF IncomingQoS1
  <2>2. QED
    BY <1>1, <1>3, <2>1, ExtendsAgree DEF Extends, AcksOnly, NewRecord, IncomingOK
<1>6. SendPublishAck(recs, id, "PubAckSend", ok) =
         IF ~ ok THEN [records |-> recs, status |-> "SendFailed", sent |-> <<>>]
         ELSE [records |-> AckRecord(recs, id, "PUBACK", "SEND").records,
               status  |-> AckRecord(recs, id, "PUBACK", "SEND").status,
               sent    |-> <<AckPacket("PUBACK", id)>>]
  BY DEF SendPublishAck, AckToSend
<1>7. Held = Standing(incoming, {"PubAckSend"}) \cap PacketIds
  BY HeldStanding DEF Held
<1>8. ASSUME AcksOnly(incoming')
      PROVE  Held' = Standing(incoming', {"PubAckSend"}) \cap PacketIds
  <2>1. \A new : AcksOnly(new) =>
           {k \in PacketIds : Holds(new, k)} = Standing(new, {"PubAckSend"}) \cap PacketIds
    BY HeldStanding
  <2>2. Held' = {k \in PacketIds : Holds(incoming', k)}
    BY DEF Held, Holds
  <2>3. QED
    BY <1>8, <2>1, <2>2
<1> HIDE DEF added, recs, acked
<1>9. CASE added.status \notin {"Success", "StateCollision"}
  <2>1. incoming' = recs /\ result'.event = <<>> /\ result'.sent = <<>>
    BY <1>2, <1>9 DEF Outcome
  <2>2. Held' = Held
    BY <1>4, <1>5, <1>7, <1>8, <1>9, <2>1
  <2>3. QED
    BY <1>5, <2>1, <2>2
<1>10. ASSUME added.status \in {"Success", "StateCollision"}, ~ ok
       PROVE  /\ AcksOnly(incoming') /\ result'.sent = <<>>
              /\ Held' = IF added.status = "Success" THEN Held \cup {id} ELSE Held
  <2>1. acked = [records |-> recs, status |-> "SendFailed", sent |-> <<>>]
    BY <1>6, <1>10 DEF acked
  <2>2. incoming' = recs /\ result'.sent = <<>>
    BY <1>2, <1>10, <2>1 DEF Outcome
  <2>3. QED
    BY <1>4, <1>5, <1>7, <1>8, <1>10, <2>2
<1>11. ASSUME added.status \in {"Success", "StateCollision"}, ok
       PROVE  /\ AcksOnly(incoming') /\ result'.sent = <<AckPacket("PUBACK", id)>>
              /\ Held' = Held \ {id}
  <2> DEFINE new == AckRecord(recs, id, "PUBACK", "SEND")
  <2>1. /\ AcksOnly(new.records)
        /\ Standing(new.records, {"PubAckSend"}) = Standing(recs, {"PubAckSend"}) \ {id}
    BY <1>3, <1>5, <1>11, PubackSentRecord
  <2>2. acked = [records |-> new.records, status |-> new.status, sent |-> <<AckPacket("PUBACK", id)>>]
    BY <1>6, <1>11 DEF acked
  <2> HIDE DEF new
  <2>3. incoming' = new.records /\ result'.sent = <<AckPacket("PUBACK", id)>>
    BY <1>2, <1>11, <2>2 DEF Outcome
  <2>4. Standing(incoming', {"PubAckSend"}) = Standing(incoming, {"PubAckSend"}) \ {id}
    BY <1>4, <2>1, <2>3
  <2>5. QED
    BY <1>7, <1>8, <2>1, <2>3, <2>4
<1>12. added.status \in {"Success", "StateCollision"} =>
          (result'.event # <<>> <=> added.status = "Success")
  <2>1. ASSUME added.status \in {"Success", "StateCollision"}
        PROVE  result'.event = IF added.status = "Success" THEN <<PublishPacket(id, 1, dup)>> ELSE <<>>
    BY <1>2, <2>1 DEF Outcome
  <2>2. CASE added.status = "Success"
    <3> DEFINE e == <<PublishPacket(id, 1, dup)>>
    <3>1. e # <<>>
      OBVIOUS
    <3>2. result'.event = e
      BY <2>1, <2>2
    <3> HIDE DEF e
    <3>3. QED
      BY <2>2, <3>1, <3>2
  <2>3. CASE added.status # "Success"
    BY <2>1, <2>3
  <2>4. QED
    BY <2>2, <2>3
<1>13. id \in Held <=> added.status = "StateCollision"
  BY <1>3 DEF Held
<1>14. CASE added.status = "Success"
  BY <1>10, <1>11, <1>12, <1>13, <1>14
<1>15. CASE added.status = "StateCollision"
  BY <1>10, <1>11, <1>12, <1>13, <1>15
<1>16. QED
  BY <1>3, <1>9, <1>14, <1>15

-----------------------------------------------------------------------------
(* The arrays as the ordered lists of HandshakeLists.                     *)

(* The rank of a slot counts the live slots up to it.                      *)
LEMMA RankStep ==
    ASSUME NEW recs \in Records
    PROVE  /\ Rank(recs, 0) = 0
           /\ \A i \in 0..RecordCount : Rank(recs, i) \in 0..i
           /\ \A i \in Slots :
                 Rank(recs, i) = Rank(recs, i - 1) + (IF Live(recs, i) THEN 1 ELSE 0)
<1> USE RecordCountAssumption
<1> DEFINE live(i) == {k \in 1..i : Live(recs, k)}
<1>1. \A i \in 0..RecordCount : /\ IsFiniteSet(live(i)) /\ Cardinality(live(i)) \in 0..i
                                /\ Rank(recs, i) = Cardinality(live(i))
  <2> SUFFICES ASSUME NEW i \in 0..RecordCount
               PROVE  IsFiniteSet(live(i)) /\ Cardinality(live(i)) \in 0..i
    BY DEF Rank
  <2>1. IsFiniteSet(1..i) /\ Cardinality(1..i) = i
    <3>1. i \in Nat /\ 1 \in Int /\ i \in Int
      OBVIOUS
    <3>2. IsFiniteSet(1..i) /\ Cardinality(1..i) = IF 1 > i THEN 0 ELSE i - 1 + 1
      BY <3>1, FS_Interval
    <3>3. QED
      BY <3>1, <3>2
  <2>2. live(i) \in SUBSET (1..i)
    OBVIOUS
  <2> HIDE DEF live
  <2>3. IsFiniteSet(live(i)) /\ Cardinality(live(i)) <= Cardinality(1..i)
    BY <2>1, <2>2, FS_Subset
  <2>4. Cardinality(live(i)) \in Nat
    BY <2>3, FS_CardinalityType
  <2>5. QED
    BY <2>1, <2>3, <2>4
<1>2. Rank(recs, 0) = 0
  <2>1. 0 \in 0..RecordCount
    OBVIOUS
  <2>2. Rank(recs, 0) \in 0..0
    BY <1>1, <2>1
  <2>3. QED
    BY <2>2
<1>3. ASSUME NEW i \in Slots
      PROVE  Rank(recs, i) = Rank(recs, i - 1) + (IF Live(recs, i) THEN 1 ELSE 0)
  <2>1. i \in 0..RecordCount /\ i - 1 \in 0..RecordCount /\ 1..i = (1..(i - 1)) \cup {i}
    BY DEF Slots
  <2>2. CASE Live(recs, i)
    <3>1. live(i) = live(i - 1) \cup {i} /\ i \notin live(i - 1)
      BY <2>1, <2>2
    <3>2. IsFiniteSet(live(i - 1))
      BY <1>1, <2>1
    <3>3. Cardinality(live(i - 1) \cup {i}) = Cardinality(live(i - 1)) + 1
      <4> HIDE DEF live
      <4>1. QED
        BY <3>1, <3>2, FS_AddElement
    <3>4. QED
      BY <1>1, <2>1, <2>2, <3>1, <3>3
  <2>3. CASE ~ Live(recs, i)
    <3>1. live(i) = live(i - 1)
      BY <2>1, <2>3
    <3>2. Rank(recs, i) = Rank(recs, i - 1) /\ Rank(recs, i - 1) \in 0..(i - 1)
      BY <1>1, <2>1, <3>1
    <3>3. QED
      BY <2>3, <3>2
  <2>4. QED
    BY <2>2, <2>3
<1>4. QED
  BY <1>1, <1>2, <1>3

(* Every rank up to that of the last slot is the rank of a live slot.      *)
LEMMA SlotOfRank ==
    ASSUME NEW recs \in Records, NEW n \in 1..Rank(recs, RecordCount)
    PROVE  /\ SlotAt(recs, n) \in Slots /\ Live(recs, SlotAt(recs, n))
           /\ Rank(recs, SlotAt(recs, n)) = n
<1> USE RecordCountAssumption
<1> DEFINE S == {i \in Slots : n <= Rank(recs, i)}
<1>1. S \in SUBSET (1..RecordCount) /\ RecordCount \in S
  BY RankStep DEF Slots
<1>2. PICK m \in S : \A k \in S : m <= k
  <2> HIDE DEF S
  <2>1. RecordCount \in Nat /\ S # {}
    BY <1>1
  <2>2. QED
    BY <1>1, <2>1, LeastElement
<1>3. m \in Slots /\ n <= Rank(recs, m)
  OBVIOUS
<1>4. Rank(recs, m - 1) < n
  <2>1. CASE m = 1
    BY <2>1, RankStep
  <2>2. CASE m # 1
    <3>1. m - 1 \in Slots /\ m - 1 < m /\ m - 1 \in 0..RecordCount
      BY <1>3, <2>2 DEF Slots
    <3>2. m - 1 \notin S
      BY <1>2, <1>3, <3>1 DEF Slots
    <3>3. QED
      BY <3>1, <3>2, RankStep
  <2>3. QED
    BY <2>1, <2>2
<1>5. Live(recs, m) /\ Rank(recs, m) = n
  <2>1. /\ Rank(recs, m) = Rank(recs, m - 1) + (IF Live(recs, m) THEN 1 ELSE 0)
        /\ Rank(recs, m - 1) \in Nat /\ Rank(recs, m) \in Nat
    <3>1. m - 1 \in 0..RecordCount /\ m \in 0..RecordCount
      BY <1>3 DEF Slots
    <3>2. QED
      BY <1>3, <3>1, RankStep
  <2>2. QED
    BY <1>3, <1>4, <2>1
<1>6. QED
  BY <1>3, <1>5 DEF SlotAt

(* LiveRecords is the sequence of the live records, each at its rank.      *)
LEMMA ListOfLive ==
    ASSUME NEW recs \in Records
    PROVE  /\ LiveRecords(recs) \in Seq(Record)
           /\ Len(LiveRecords(recs)) = Rank(recs, RecordCount)
           /\ Len(LiveRecords(recs)) \in 0..RecordCount
           /\ \A j \in Slots : Live(recs, j) =>
                 /\ Rank(recs, j) \in 1..Len(LiveRecords(recs))
                 /\ LiveRecords(recs)[Rank(recs, j)] = recs[j]
           /\ \A n \in 1..Len(LiveRecords(recs)) :
                 \E j \in Slots : /\ Live(recs, j) /\ Rank(recs, j) = n
                                  /\ LiveRecords(recs)[n] = recs[j]
<1> USE RecordCountAssumption
<1> DEFINE count == Rank(recs, RecordCount)
<1>1. count \in 0..RecordCount
  BY RankStep
<1>2. \A n \in 1..count : /\ SlotAt(recs, n) \in Slots /\ Live(recs, SlotAt(recs, n))
                          /\ Rank(recs, SlotAt(recs, n)) = n
                          /\ recs[SlotAt(recs, n)] \in Record
  BY SlotOfRank DEF Records
<1>3. LiveRecords(recs) = [n \in 1..count |-> recs[SlotAt(recs, n)]]
  BY DEF LiveRecords
<1> HIDE DEF count
<1>4. LiveRecords(recs) \in Seq(Record) /\ Len(LiveRecords(recs)) = count
  BY <1>1, <1>2, <1>3
<1>5. ASSUME NEW j \in Slots, Live(recs, j)
      PROVE  /\ Rank(recs, j) \in 1..count
             /\ LiveRecords(recs)[Rank(recs, j)] = recs[j]
  <2>1. Rank(recs, j) \in 1..j
    BY <1>5, RankOfLive
  <2>2. Rank(recs, j) <= count
    <3> DEFINE low == {k \in 1..j : Live(recs, k)}
               all == {k \in 1..RecordCount : Live(recs, k)}
    <3>1. low \in SUBSET all
      BY DEF Slots
    <3>2. IsFiniteSet(all)
      <4>1. IsFiniteSet(1..RecordCount) /\ all \in SUBSET (1..RecordCount)
        BY FS_Interval
      <4> HIDE DEF all
      <4>2. QED
        BY <4>1, FS_Subset
    <3>3. Cardinality(low) <= Cardinality(all)
      <4> HIDE DEF low, all
      <4>1. QED
        BY <3>1, <3>2, FS_Subset
    <3>4. QED
      BY <3>3 DEF Rank, count
  <2>3. Rank(recs, j) \in 1..count
    BY <1>1, <2>1, <2>2 DEF Slots
  <2>4. SlotAt(recs, Rank(recs, j)) = j
    BY <1>2, <1>5, <2>3, RankInjective
  <2>5. QED
    BY <1>3, <2>3, <2>4
<1>6. QED
  BY <1>1, <1>2, <1>3, <1>4, <1>5 DEF count

(* So it is any sequence that has them all in their place.                 *)
LEMMA ListIs ==
    ASSUME NEW recs \in Records, NEW list \in Seq(Record),
           Len(list) = Rank(recs, RecordCount),
           \A j \in Slots : Live(recs, j) => list[Rank(recs, j)] = recs[j]
    PROVE  LiveRecords(recs) = list
<1>1. /\ LiveRecords(recs) \in Seq(Record) /\ Len(LiveRecords(recs)) = Len(list)
      /\ \A n \in 1..Len(LiveRecords(recs)) :
            \E j \in Slots : /\ Live(recs, j) /\ Rank(recs, j) = n
                             /\ LiveRecords(recs)[n] = recs[j]
  BY ListOfLive
<1>2. \A n \in 1..Len(list) : LiveRecords(recs)[n] = list[n]
  BY <1>1
<1>3. QED
  BY <1>1, <1>2

LEMMA RankAgree ==
    ASSUME NEW old, NEW new, NEW i \in 0..RecordCount,
           \A k \in 1..i : Live(new, k) <=> Live(old, k)
    PROVE  Rank(new, i) = Rank(old, i)
<1>1. {k \in 1..i : Live(new, k)} = {k \in 1..i : Live(old, k)}
  OBVIOUS
<1>2. QED
  BY <1>1 DEF Rank

(* One live slot more raises the ranks from that slot on.                  *)
LEMMA RankMore ==
    ASSUME NEW old \in Records, NEW new \in Records, NEW i \in Slots, NEW j \in Slots,
           Live(new, i), ~ Live(old, i),
           \A k \in Slots : k # i => (Live(new, k) <=> Live(old, k))
    PROVE  /\ j < i => Rank(new, j) = Rank(old, j)
           /\ i <= j => Rank(new, j) = Rank(old, j) + 1
<1> USE RecordCountAssumption
<1>1. CASE j < i
  <2>1. j \in 0..RecordCount /\ i \in Nat /\ j \in Nat /\ \A k \in 1..j : k \in Slots /\ k # i
    BY <1>1 DEF Slots
  <2>2. Rank(new, j) = Rank(old, j)
    BY <2>1, RankAgree
  <2>3. QED
    BY <1>1, <2>1, <2>2
<1>2. CASE i <= j
  <2> DEFINE live(recs) == {k \in 1..j : Live(recs, k)}
  <2>1. live(new) = live(old) \cup {i} /\ i \notin live(old)
    BY <1>2 DEF Slots
  <2>2. IsFiniteSet(live(old))
    <3>1. IsFiniteSet(1..j) /\ live(old) \in SUBSET (1..j)
      BY FS_Interval DEF Slots
    <3> HIDE DEF live
    <3>2. QED
      BY <3>1, FS_Subset
  <2>3. Cardinality(live(new)) = Cardinality(live(old)) + 1
    <3> HIDE DEF live
    <3>1. QED
      BY <2>1, <2>2, FS_AddElement
  <2>4. Rank(new, j) = Rank(old, j) + 1
    BY <2>3 DEF Rank
  <2>5. i \in Nat /\ j \in Nat
    BY DEF Slots
  <2>6. QED
    BY <1>2, <2>4, <2>5
<1>3. QED
  BY <1>1, <1>2 DEF Slots

-----------------------------------------------------------------------------
(* What the operations on an array do to its list.                         *)
LEMMA SetRecordStateList ==
    ASSUME NEW recs \in Records, NEW i \in Slots, Live(recs, i), NEW state \in PublishStates
    PROVE  LiveRecords(SetRecordState(recs, i, state)) =
              [LiveRecords(recs) EXCEPT ![Rank(recs, i)].publishState = state]
<1> USE RecordCountAssumption
<1> DEFINE new  == SetRecordState(recs, i, state)
           old  == LiveRecords(recs)
           r    == Rank(recs, i)
           list == [old EXCEPT ![r].publishState = state]
<1>1. /\ new \in Records /\ \A j \in Slots : j # i => new[j] = recs[j]
      /\ new[i] = [packetId |-> recs[i].packetId, qos |-> recs[i].qos, publishState |-> state]
  BY SetRecordStateKeeps
<1>2. /\ old \in Seq(Record) /\ Len(old) = Rank(recs, RecordCount) /\ r \in 1..Len(old)
      /\ old[r] = recs[i] /\ \A j \in Slots : Live(recs, j) =>
                                Rank(recs, j) \in 1..Len(old) /\ old[Rank(recs, j)] = recs[j]
  BY ListOfLive
<1>3. recs[i] \in Record
  BY DEF Records
<1> HIDE DEF new, old
<1>4. \A k \in Slots : Live(new, k) <=> Live(recs, k)
  BY <1>1 DEF Live
<1>5. \A j \in 0..RecordCount : Rank(new, j) = Rank(recs, j)
  <2>1. \A j \in 0..RecordCount : \A k \in 1..j : k \in Slots
    BY DEF Slots
  <2>2. QED
    BY <1>4, <2>1, RankAgree
<1>6. \A j \in Slots : Live(recs, j) /\ Rank(recs, j) = r => j = i
  BY RankInjective
<1> HIDE DEF r
<1>7. [old[r] EXCEPT !.publishState = state] = new[i] /\ new[i] \in Record
  BY <1>1, <1>2, <1>3 DEF Record, Records
<1>8. /\ list \in Seq(Record) /\ Len(list) = Len(old) /\ list[r] = new[i]
      /\ \A n \in 1..Len(old) : n # r => list[n] = old[n]
  BY <1>2, <1>7
<1> HIDE DEF list
<1>9. ASSUME NEW j \in Slots, Live(new, j) PROVE list[Rank(new, j)] = new[j]
  <2>1. Live(recs, j) /\ Rank(new, j) = Rank(recs, j)
    BY <1>4, <1>5, <1>9 DEF Slots
  <2>2. CASE j = i
    BY <1>8, <2>1, <2>2 DEF r
  <2>3. CASE j # i
    BY <1>1, <1>2, <1>6, <1>8, <2>1, <2>3
  <2>4. QED
    BY <2>2, <2>3
<1>10. Len(list) = Rank(new, RecordCount)
  BY <1>2, <1>5, <1>8
<1>11. LiveRecords(new) = list
  BY <1>1, <1>8, <1>9, <1>10, ListIs
<1>12. QED
  BY <1>11 DEF new, list, old, r

LEMMA ConcatParts ==
    ASSUME NEW S, NEW a \in Seq(S), NEW b \in Seq(S)
    PROVE  /\ a \o b \in Seq(S) /\ Len(a \o b) = Len(a) + Len(b)
           /\ \A n \in 1..(Len(a) + Len(b)) :
                 (a \o b)[n] = IF n <= Len(a) THEN a[n] ELSE b[n - Len(a)]
OBVIOUS

(* The sequence without its k-th element.                                  *)
LEMMA WithoutParts ==
    ASSUME NEW S, NEW list \in Seq(S), NEW k \in 1..Len(list)
    PROVE  /\ Lists!Without(list, k) \in Seq(S)
           /\ Len(Lists!Without(list, k)) = Len(list) - 1
           /\ \A n \in 1..Len(list) : n < k => Lists!Without(list, k)[n] = list[n]
           /\ \A n \in 1..Len(list) : k < n => Lists!Without(list, k)[n - 1] = list[n]
<1> DEFINE front == SubSeq(list, 1, k - 1)
           back  == SubSeq(list, k + 1, Len(list))
<1>1. /\ front \in Seq(S) /\ Len(front) = k - 1 /\ \A n \in 1..(k - 1) : front[n] = list[n]
      /\ back \in Seq(S) /\ Len(back) = Len(list) - k
      /\ \A n \in 1..(Len(list) - k) : back[n] = list[k + n]
  OBVIOUS
<1>2. Lists!Without(list, k) = front \o back
  BY DEF Lists!Without
<1> HIDE DEF front, back
<1>3. /\ front \o back \in Seq(S) /\ Len(front \o back) = Len(list) - 1
      /\ \A n \in 1..(Len(list) - 1) :
            (front \o back)[n] = IF n <= k - 1 THEN front[n] ELSE back[n - (k - 1)]
  <2>1. Len(list) \in Nat /\ k \in Nat /\ Len(front) + Len(back) = Len(list) - 1
    BY <1>1
  <2>2. /\ front \o back \in Seq(S) /\ Len(front \o back) = Len(front) + Len(back)
        /\ \A n \in 1..(Len(front) + Len(back)) :
              (front \o back)[n] = IF n <= Len(front) THEN front[n] ELSE back[n - Len(front)]
    BY <1>1, ConcatParts
  <2>3. QED
    BY <1>1, <2>1, <2>2
<1>4. ASSUME NEW n \in 1..Len(list), n < k PROVE (front \o back)[n] = list[n]
  BY <1>1, <1>3, <1>4
<1>5. ASSUME NEW n \in 1..Len(list), k < n PROVE (front \o back)[n - 1] = list[n]
  <2>1. n - 1 \in 1..(Len(list) - 1) /\ ~ (n - 1 <= k - 1) /\ n - k \in 1..(Len(list) - k)
        /\ n - 1 - (k - 1) = n - k /\ k + (n - k) = n
    BY <1>5
  <2>2. QED
    BY <1>1, <1>3, <2>1
<1>6. QED
  BY <1>2, <1>3, <1>4, <1>5

LEMMA DeleteRecordList ==
    ASSUME NEW recs \in Records, NEW i \in Slots, Live(recs, i)
    PROVE  LiveRecords(DeleteRecord(recs, i)) =
              Lists!Without(LiveRecords(recs), Rank(recs, i))
<1> USE RecordCountAssumption
<1> DEFINE new  == DeleteRecord(recs, i)
           old  == LiveRecords(recs)
           r    == Rank(recs, i)
           list == Lists!Without(old, r)
<1>1. new \in Records /\ ~ Live(new, i) /\ \A j \in Slots : j # i => new[j] = recs[j]
  BY DeleteRecordKeeps
<1>2. /\ old \in Seq(Record) /\ Len(old) = Rank(recs, RecordCount) /\ r \in 1..Len(old)
      /\ \A j \in Slots : Live(recs, j) =>
            Rank(recs, j) \in 1..Len(old) /\ old[Rank(recs, j)] = recs[j]
  BY ListOfLive
<1> HIDE DEF new, old
<1>3. /\ list \in Seq(Record) /\ Len(list) = Len(old) - 1
      /\ \A n \in 1..Len(old) : n < r => list[n] = old[n]
      /\ \A n \in 1..Len(old) : r < n => list[n - 1] = old[n]
  <2> HIDE DEF r
  <2>1. QED
    BY <1>2, WithoutParts
<1>4. \A k \in Slots : k # i => (Live(recs, k) <=> Live(new, k))
  BY <1>1 DEF Live
<1>5. \A j \in Slots : /\ j < i => Rank(recs, j) = Rank(new, j)
                       /\ i <= j => Rank(recs, j) = Rank(new, j) + 1
  BY <1>1, <1>4, RankMore
<1>6. \A j \in Slots : Live(recs, j) => /\ j < i => Rank(recs, j) < r
                                        /\ i < j => r < Rank(recs, j)
  BY RankIncreases
<1> HIDE DEF r, list
<1>7. ASSUME NEW j \in Slots, Live(new, j) PROVE list[Rank(new, j)] = new[j]
  <2>1. j # i /\ Live(recs, j) /\ new[j] = recs[j] /\ j \in Nat /\ i \in Nat
    BY <1>1, <1>4, <1>7 DEF Slots
  <2>2. Rank(recs, j) \in 1..Len(old) /\ old[Rank(recs, j)] = recs[j]
    BY <1>2, <2>1
  <2>3. CASE j < i
    BY <1>3, <1>5, <1>6, <2>1, <2>2, <2>3
  <2>4. CASE i < j
    <3>1. r < Rank(recs, j) /\ Rank(recs, j) = Rank(new, j) + 1
      BY <1>5, <1>6, <2>1, <2>4
    <3>2. list[Rank(recs, j) - 1] = recs[j]
      BY <1>3, <2>2, <3>1
    <3>3. Rank(new, j) \in Nat
      BY <1>1, <1>7, RankOfLive
    <3>4. Rank(recs, j) - 1 = Rank(new, j)
      BY <3>1, <3>3
    <3>5. QED
      BY <2>1, <3>2, <3>4
  <2>5. QED
    BY <2>1, <2>3, <2>4
<1>8. Len(list) = Rank(new, RecordCount)
  <2>1. RecordCount \in Slots /\ i <= RecordCount /\ Rank(new, RecordCount) \in Nat
    BY <1>1, RankStep DEF Slots
  <2>2. QED
    BY <1>2, <1>3, <1>5, <2>1
<1>9. LiveRecords(new) = list
  BY <1>1, <1>3, <1>7, <1>8, ListIs
<1>10. QED
  BY <1>9 DEF new, list, old, r

(* Compaction moves records, and leaves their list as it is.               *)
LEMMA CompactRecordsList ==
    ASSUME NEW recs \in Records
    PROVE  LiveRecords(CompactRecords(recs)) = LiveRecords(recs)
<1> USE RecordCountAssumption
<1> DEFINE new  == CompactRecords(recs)
           list == LiveRecords(recs)
<1>1. new \in Records
  BY CompactRecordsType
<1>2. /\ list \in Seq(Record) /\ Len(list) = Rank(recs, RecordCount)
      /\ Len(list) \in 0..RecordCount
      /\ \A j \in Slots : Live(recs, j) =>
            Rank(recs, j) \in 1..Len(list) /\ list[Rank(recs, j)] = recs[j]
      /\ \A n \in 1..Len(list) :
            \E j \in Slots : Live(recs, j) /\ Rank(recs, j) = n /\ list[n] = recs[j]
  BY ListOfLive
<1>3. \A j \in Slots : Live(recs, j) => new[Rank(recs, j)] = recs[j]
  BY CompactedSlot
<1>4. \A i \in Slots : Live(new, i) => \E j \in Slots : Live(recs, j) /\ Rank(recs, j) = i
  BY CompactedOrigin
<1> HIDE DEF new, list
<1>5. \A i \in Slots : Live(new, i) <=> i <= Len(list)
  <2> SUFFICES ASSUME NEW i \in Slots PROVE Live(new, i) <=> i <= Len(list)
    OBVIOUS
  <2>1. Live(new, i) => i <= Len(list)
    BY <1>2, <1>4
  <2>2. ASSUME i <= Len(list) PROVE Live(new, i)
    <3>1. i \in 1..Len(list)
      BY <1>2, <2>2 DEF Slots
    <3>2. PICK j \in Slots : Live(recs, j) /\ Rank(recs, j) = i
      BY <1>2, <3>1
    <3>3. QED
      BY <1>3, <3>2 DEF Live
  <2>3. QED
    BY <2>1, <2>2
<1>6. \A i \in 0..Len(list) : Rank(new, i) = i
  <2> SUFFICES ASSUME NEW i \in 0..Len(list) PROVE Rank(new, i) = i
    OBVIOUS
  <2>1. {k \in 1..i : Live(new, k)} = 1..i
    <3>1. \A k \in 1..i : k \in Slots /\ k <= Len(list)
      BY <1>2 DEF Slots
    <3>2. \A k \in 1..i : Live(new, k)
      BY <1>5, <3>1
    <3>3. QED
      BY <3>2
  <2>2. i \in Int /\ i \in Nat /\ 1 \in Int
    BY <1>2
  <2>3. Cardinality(1..i) = IF 1 > i THEN 0 ELSE i - 1 + 1
    BY <2>2, FS_Interval
  <2>4. Cardinality(1..i) = i
    BY <2>2, <2>3
  <2>5. QED
    BY <2>1, <2>4 DEF Rank
<1>7. Rank(new, RecordCount) = Len(list)
  <2>1. {k \in 1..RecordCount : Live(new, k)} = {k \in 1..Len(list) : Live(new, k)}
    BY <1>2, <1>5 DEF Slots
  <2>2. Len(list) \in 0..Len(list)
    BY <1>2
  <2>3. QED
    BY <1>6, <2>1, <2>2 DEF Rank
<1>8. ASSUME NEW j \in Slots, Live(new, j) PROVE list[Rank(new, j)] = new[j]
  <2>1. j \in 1..Len(list) /\ j \in 0..Len(list)
    BY <1>2, <1>5, <1>8 DEF Slots
  <2>2. Rank(new, j) = j
    BY <1>6, <2>1
  <2>3. PICK i \in Slots : Live(recs, i) /\ Rank(recs, i) = j /\ list[j] = recs[i]
    BY <1>2, <2>1
  <2>4. QED
    BY <1>3, <2>2, <2>3
<1>9. LiveRecords(new) = list
  BY <1>1, <1>2, <1>7, <1>8, ListIs
<1>10. QED
  BY <1>9 DEF new, list

(* A record after every live one is at the end of the list.                *)
LEMMA AppendedList ==
    ASSUME NEW recs \in Records, NEW at \in Slots, NEW record \in Record,
           record.packetId # NoPacketId, \A j \in at..RecordCount : ~ Live(recs, j)
    PROVE  /\ LiveRecords([recs EXCEPT ![at] = record]) = Append(LiveRecords(recs), record)
           /\ Len(LiveRecords(recs)) < RecordCount
<1> USE RecordCountAssumption
<1> DEFINE new  == [recs EXCEPT ![at] = record]
           old  == LiveRecords(recs)
           list == Append(old, record)
<1>1. /\ new \in Records /\ new[at] = record /\ \A j \in Slots : j # at => new[j] = recs[j]
      /\ at \in at..RecordCount /\ ~ Live(recs, at)
  BY DEF Records, Slots
<1>2. /\ old \in Seq(Record) /\ Len(old) = Rank(recs, RecordCount)
      /\ \A j \in Slots : Live(recs, j) =>
            Rank(recs, j) \in 1..Len(old) /\ old[Rank(recs, j)] = recs[j]
  BY ListOfLive
<1> HIDE DEF new, old
<1>3. Live(new, at) /\ \A k \in Slots : k # at => (Live(new, k) <=> Live(recs, k))
  BY <1>1 DEF Live
<1>4. \A j \in Slots : /\ j < at => Rank(new, j) = Rank(recs, j)
                       /\ at <= j => Rank(new, j) = Rank(recs, j) + 1
  BY <1>1, <1>3, RankMore
<1>5. Rank(recs, at) = Rank(recs, RecordCount)
  <2>1. {k \in 1..at : Live(recs, k)} = {k \in 1..RecordCount : Live(recs, k)}
    BY DEF Slots
  <2>2. QED
    BY <2>1 DEF Rank
<1>6. /\ list \in Seq(Record) /\ Len(list) = Len(old) + 1 /\ list[Len(old) + 1] = record
      /\ \A n \in 1..Len(old) : list[n] = old[n]
  BY <1>2
<1> HIDE DEF list
<1>7. ASSUME NEW j \in Slots, Live(new, j) PROVE list[Rank(new, j)] = new[j]
  <2>1. CASE j = at
    <3>1. at <= j
      BY <2>1 DEF Slots
    <3>2. Rank(new, j) = Len(old) + 1
      BY <1>2, <1>4, <1>5, <2>1, <3>1
    <3>3. QED
      BY <1>1, <1>6, <2>1, <3>2
  <2>2. CASE j # at
    <3>1. Live(recs, j) /\ new[j] = recs[j]
      BY <1>1, <1>3, <1>7, <2>2
    <3>2. j < at
      BY <2>2, <3>1 DEF Slots
    <3>3. Rank(new, j) = Rank(recs, j)
      BY <1>4, <3>2
    <3>4. QED
      BY <1>2, <1>6, <3>1, <3>3
  <2>3. QED
    BY <2>1, <2>2
<1>8. Rank(new, RecordCount) = Len(list) /\ Len(list) <= RecordCount
  <2>1. RecordCount \in Slots /\ at <= RecordCount
    BY DEF Slots
  <2>2. Rank(new, RecordCount) = Rank(recs, RecordCount) + 1
    BY <1>4, <2>1
  <2>3. Rank(new, RecordCount) \in 0..RecordCount
    BY <1>1, RankStep
  <2>4. QED
    BY <1>2, <1>6, <2>2, <2>3
<1>9. LiveRecords(new) = list
  BY <1>1, <1>6, <1>7, <1>8, ListIs
<1>10. Len(old) < RecordCount
  BY <1>2, <1>6, <1>8
<1>11. QED
  BY <1>9, <1>10 DEF new, list, old

LEMMA AddRecordList ==
    ASSUME NEW recs \in Records, Unique(recs), NEW id \in PacketIds, NEW qos \in QoS,
           NEW state \in PublishStates
    PROVE  \/ /\ AddRecord(recs, id, qos, state).status = "Success"
              /\ LiveRecords(AddRecord(recs, id, qos, state).records) =
                    Append(LiveRecords(recs), NewRecord(id, qos, state))
              /\ Lists!Accepts(LiveRecords(recs), id)
              /\ ~ Holds(recs, id)
           \/ /\ AddRecord(recs, id, qos, state).status # "Success"
              /\ LiveRecords(AddRecord(recs, id, qos, state).records) = LiveRecords(recs)
              /\ AddRecord(recs, id, qos, state).status = "StateCollision" <=> Holds(recs, id)
<1> USE RecordCountAssumption, PacketIdAssumption
<1> DEFINE base  == IF Live(recs, RecordCount) THEN CompactRecords(recs) ELSE recs
           at    == FirstFree(base)
           new   == NewRecord(id, qos, state)
           added == AddRecord(recs, id, qos, state)
           list  == LiveRecords(recs)
<1>1. base \in Records /\ LiveRecords(base) = list
  BY CompactRecordsType, CompactRecordsList
<1>2. added.status = "StateCollision" <=> Holds(recs, id)
  BY AddRecordStatus
<1>3. CASE Holds(base, id)
  <2>1. added = [records |-> base, status |-> "StateCollision"]
    BY <1>3 DEF AddRecord
  <2> HIDE DEF base, list, added
  <2>2. LiveRecords(added.records) = list /\ added.status # "Success"
    BY <1>1, <2>1
  <2>3. QED
    BY <1>2, <2>2 DEF added, list
<1>4. CASE ~ Holds(base, id) /\ at > RecordCount
  <2>1. added = [records |-> base, status |-> "NoMemory"]
    BY <1>4 DEF AddRecord, AppendRecord
  <2> HIDE DEF base, list, added
  <2>2. LiveRecords(added.records) = list /\ added.status # "Success"
    BY <1>1, <2>1
  <2>3. QED
    BY <1>2, <2>2 DEF added, list
<1>5. CASE ~ Holds(base, id) /\ ~ (at > RecordCount)
  <2>1. added = [records |-> [base EXCEPT ![at] = new], status |-> "Success"]
    BY <1>5 DEF AddRecord, AppendRecord, NewRecord
  <2>2. at \in Slots /\ \A j \in at..RecordCount : ~ Live(base, j)
    <3>1. at \in 1..(RecordCount + 1) /\ \A j \in at..RecordCount : ~ Live(base, j)
      <4> HIDE DEF base
      <4>1. QED
        BY <1>1, FirstFreeSlot
    <3>2. QED
      BY <1>5, <3>1 DEF Slots
  <2>3. new \in Record /\ new.packetId # NoPacketId
    BY DEF Record, NewRecord
  <2> HIDE DEF base, at, new, list, added
  <2>4. LiveRecords([base EXCEPT ![at] = new]) = Append(list, new) /\ Len(list) < RecordCount
    BY <1>1, <2>2, <2>3, AppendedList
  <2>5. ~ Holds(recs, id)
    BY <1>2, <2>1
  <2>6. \A k \in 1..Len(list) : list[k].packetId # id
    <3>1. \A k \in 1..Len(list) : \E j \in Slots : list[k] = recs[j]
      BY ListOfLive DEF list
    <3>2. QED
      BY <2>5, <3>1 DEF Holds
  <2>7. Lists!Accepts(list, id)
    BY <2>4, <2>6 DEF Lists!Accepts
  <2>8. added.status = "Success" /\ LiveRecords(added.records) = Append(list, new)
    BY <2>1, <2>4
  <2>9. QED
    BY <2>5, <2>7, <2>8 DEF added, list, new
<1>6. QED
  BY <1>3, <1>4, <1>5

-----------------------------------------------------------------------------
(* The record of an id, in the array and in the list.                      *)
LEMMA HeldInList ==
    ASSUME NEW recs \in Records, Unique(recs), NEW id \in PacketIds, Holds(recs, id)
    PROVE  /\ FindInRecord(recs, id) \in Slots /\ Live(recs, FindInRecord(recs, id))
           /\ Rank(recs, FindInRecord(recs, id)) \in 1..Len(LiveRecords(recs))
           /\ LiveRecords(recs)[Rank(recs, FindInRecord(recs, id))]
                 = recs[FindInRecord(recs, id)]
           /\ recs[FindInRecord(recs, id)].packetId = id
<1>1. FindInRecord(recs, id) \in Slots /\ recs[FindInRecord(recs, id)].packetId = id
  BY FoundSlot
<1>2. Live(recs, FindInRecord(recs, id))
  BY <1>1, PacketIdAssumption DEF Live
<1>3. QED
  BY <1>1, <1>2, ListOfLive

LEMMA ListUnique ==
    ASSUME NEW recs \in Records, Unique(recs),
           NEW a \in 1..Len(LiveRecords(recs)), NEW b \in 1..Len(LiveRecords(recs)),
           LiveRecords(recs)[a].packetId = LiveRecords(recs)[b].packetId
    PROVE  a = b
<1>1. PICK i \in Slots : Live(recs, i) /\ Rank(recs, i) = a /\ LiveRecords(recs)[a] = recs[i]
  BY ListOfLive
<1>2. PICK j \in Slots : Live(recs, j) /\ Rank(recs, j) = b /\ LiveRecords(recs)[b] = recs[j]
  BY ListOfLive
<1>3. i = j
  BY <1>1, <1>2 DEF Unique
<1>4. QED
  BY <1>1, <1>2, <1>3

(* An array that agrees with a direction has a list that does.             *)
LEMMA ListAgrees ==
    ASSUME NEW recs \in Records, NEW one, NEW two, Agree(recs, one, two),
           NEW k \in 1..Len(LiveRecords(recs))
    PROVE  \/ LiveRecords(recs)[k].qos = 1 /\ LiveRecords(recs)[k].publishState \in one
           \/ LiveRecords(recs)[k].qos = 2 /\ LiveRecords(recs)[k].publishState \in two
<1>1. PICK i \in Slots : Live(recs, i) /\ LiveRecords(recs)[k] = recs[i]
  BY ListOfLive
<1>2. QED
  BY <1>1 DEF Agree

(* MQTT_UpdateStateAck on the list.                                        *)
Acked(list, new, id, ack, op) ==
    \E k \in 1..Len(list) :
        LET state == CalculateStateAck(ack, op, list[k].qos)
        IN  /\ list[k].packetId = id
            /\ ValidTransitionAck(list[k].publishState, state)
            /\ state = list[k].publishState => new = list
            /\ state # list[k].publishState =>
                  \/ state = "PublishDone" /\ new = Lists!Without(list, k)
                  \/ /\ state = "PubRelSend"
                     /\ new = Append(Lists!Without(list, k), NewRecord(id, 2, state))
                  \/ /\ state \notin {"PublishDone", "PubRelSend"}
                     /\ new = [list EXCEPT ![k].publishState = state]

LEMMA AckRecordList ==
    ASSUME NEW recs \in Records, Unique(recs), NEW id \in PacketIds,
           NEW ack \in AckTypes, NEW op \in Operations
    PROVE  \/ /\ AckRecord(recs, id, ack, op).status # "Success"
              /\ LiveRecords(AckRecord(recs, id, ack, op).records) = LiveRecords(recs)
           \/ /\ AckRecord(recs, id, ack, op).status = "Success"
              /\ Acked(LiveRecords(recs), LiveRecords(AckRecord(recs, id, ack, op).records),
                       id, ack, op)
<1> DEFINE i     == FindInRecord(recs, id)
           k     == Rank(recs, i)
           list  == LiveRecords(recs)
           state == CalculateStateAck(ack, op, recs[i].qos)
           done  == AckRecord(recs, id, ack, op)
<1>1. CASE ~ Holds(recs, id)
  BY <1>1 DEF AckRecord
<1>2. CASE Holds(recs, id)
  <2>1. /\ i \in Slots /\ Live(recs, i) /\ recs[i].packetId = id
        /\ k \in 1..Len(list) /\ list[k] = recs[i]
    BY <1>2, HeldInList
  <2>2. done = UpdateStateAck(recs, i, state)
    BY <1>2 DEF AckRecord
  <2>3. state \in PublishStates
    BY DEF CalculateStateAck, AckTypes, Operations, PublishStates, OutgoingQoS1, OutgoingQoS2,
           IncomingQoS1, IncomingQoS2
  <2>4. state = CalculateStateAck(ack, op, list[k].qos)
    BY <2>1
  <2> HIDE DEF i, k, state, list, done
  <2>5. CASE ~ ValidTransitionAck(recs[i].publishState, state)
    <3>1. done = [records |-> recs, status |-> "IllegalState"]
      BY <2>2, <2>5 DEF UpdateStateAck
    <3>2. QED
      BY <3>1 DEF done, list
  <2>6. CASE /\ ValidTransitionAck(recs[i].publishState, state)
             /\ recs[i].publishState = state
    <3>1. done = [records |-> recs, status |-> "Success"]
      BY <2>2, <2>6 DEF UpdateStateAck
    <3>2. Acked(list, LiveRecords(done.records), id, ack, op)
      BY <2>1, <2>4, <2>6, <3>1 DEF Acked, list
    <3>3. QED
      BY <3>1, <3>2 DEF done, list
  <2>7. CASE /\ ValidTransitionAck(recs[i].publishState, state)
             /\ recs[i].publishState # state
             /\ state = "PublishDone"
    <3>1. done = [records |-> DeleteRecord(recs, i), status |-> "Success"]
      BY <2>2, <2>7 DEF UpdateStateAck
    <3>2. LiveRecords(done.records) = Lists!Without(list, k)
      BY <2>1, <3>1, DeleteRecordList DEF list, k
    <3>3. Acked(list, LiveRecords(done.records), id, ack, op)
      BY <2>1, <2>4, <2>7, <3>2 DEF Acked
    <3>4. QED
      BY <3>1, <3>3 DEF done, list
  <2>8. CASE /\ ValidTransitionAck(recs[i].publishState, state)
             /\ recs[i].publishState # state
             /\ state = "PubRelSend"
    <3> DEFINE less == DeleteRecord(recs, i)
    <3>1. done = AddRecord(less, id, 2, "PubRelSend")
      BY <2>1, <2>2, <2>8 DEF UpdateStateAck
    <3>2. /\ less \in Records /\ Unique(less) /\ ~ Live(less, i)
          /\ \A j \in Slots : j # i => less[j] = recs[j]
      BY <2>1, DeleteRecordKeeps
    <3>3. LiveRecords(less) = Lists!Without(list, k)
      BY <2>1, DeleteRecordList DEF list, k
    <3> HIDE DEF less
    <3>4. ~ Holds(less, id)
      BY <2>1, <3>2, PacketIdAssumption DEF Holds, Live, Unique
    <3>5. /\ 2 \in QoS /\ "PubRelSend" \in PublishStates
          /\ done.status # "NoMemory" /\ done.status \in {"Success", "StateCollision", "NoMemory"}
      <4>1. 2 \in QoS /\ "PubRelSend" \in PublishStates
        BY DEF QoS, PublishStates, OutgoingQoS2
      <4>2. done.status # "NoMemory"
        BY AckRecordKept DEF done
      <4>3. done.status \in {"Success", "StateCollision", "NoMemory"}
        BY <3>1, <3>2, <4>1, AddRecordKeeps
      <4>4. QED
        BY <4>1, <4>2, <4>3
    <3>6. /\ done.status = "Success"
          /\ LiveRecords(done.records) =
                Append(Lists!Without(list, k), NewRecord(id, 2, "PubRelSend"))
      <4>1. \/ /\ done.status = "Success"
               /\ LiveRecords(done.records) =
                     Append(LiveRecords(less), NewRecord(id, 2, "PubRelSend"))
            \/ /\ done.status # "Success"
               /\ done.status = "StateCollision" <=> Holds(less, id)
        BY <3>1, <3>2, <3>5, AddRecordList
      <4>2. QED
        BY <3>3, <3>4, <3>5, <4>1
    <3>7. Acked(list, LiveRecords(done.records), id, ack, op)
      BY <2>1, <2>4, <2>8, <3>6 DEF Acked
    <3>8. QED
      BY <3>6, <3>7 DEF done, list
  <2>9. CASE /\ ValidTransitionAck(recs[i].publishState, state)
             /\ recs[i].publishState # state
             /\ state \notin {"PublishDone", "PubRelSend"}
    <3>1. done = [records |-> SetRecordState(recs, i, state), status |-> "Success"]
      BY <2>2, <2>9 DEF UpdateStateAck
    <3>2. LiveRecords(done.records) = [list EXCEPT ![k].publishState = state]
      BY <2>1, <2>3, <3>1, SetRecordStateList DEF list, k
    <3>3. Acked(list, LiveRecords(done.records), id, ack, op)
      BY <2>1, <2>4, <2>9, <3>2 DEF Acked
    <3>4. QED
      BY <3>1, <3>3 DEF done, list
  <2>10. QED
    BY <2>5, <2>6, <2>7, <2>8, <2>9
<1>3. QED
  BY <1>1, <1>2

(* MQTT_UpdateStatePublish on the list: a publish that was to be sent then *)
(* waits for its acknowledgement.                                          *)
AfterSend(qos) == IF qos = 1 THEN "PubAckPending" ELSE "PubRecPending"

PublishSent(list, new, id, qos) ==
    \E k \in 1..Len(list) :
        /\ list[k].packetId = id /\ list[k].qos = qos
        /\ list[k].publishState = "PublishSend"
        /\ new = [list EXCEPT ![k].publishState = AfterSend(qos)]

LEMMA SentRecordList ==
    ASSUME NEW recs \in Records, Unique(recs), NEW id \in PacketIds, NEW qos \in {1, 2}
    PROVE  \/ LiveRecords(SentRecord(recs, id, qos).records) = LiveRecords(recs)
           \/ PublishSent(LiveRecords(recs), LiveRecords(SentRecord(recs, id, qos).records),
                          id, qos)
<1> DEFINE i     == FindInRecord(recs, id)
           k     == Rank(recs, i)
           list  == LiveRecords(recs)
           state == CalculateStatePublish("SEND", qos)
           done  == SentRecord(recs, id, qos)
<1>1. state = AfterSend(qos) /\ state \in PublishStates /\ state # "PublishSend"
  BY DEF CalculateStatePublish, AfterSend, PublishStates, OutgoingQoS1, OutgoingQoS2
<1>2. CASE \/ ~ Holds(recs, id) \/ recs[i].qos # qos
           \/ ~ ValidTransitionPublish(recs[i].publishState, state, "SEND", qos)
  <2>1. done.records = recs
    BY <1>2 DEF SentRecord
  <2>2. QED
    BY <2>1
<1>3. CASE /\ Holds(recs, id) /\ recs[i].qos = qos
           /\ ValidTransitionPublish(recs[i].publishState, state, "SEND", qos)
  <2>1. /\ i \in Slots /\ Live(recs, i) /\ recs[i].packetId = id
        /\ k \in 1..Len(list) /\ list[k] = recs[i]
    BY <1>3, HeldInList
  <2>2. done.records = SetRecordState(recs, i, state)
    BY <1>3 DEF SentRecord
  <2>3. recs[i].publishState \in {"PublishSend", state}
    BY <1>3 DEF ValidTransitionPublish
  <2> HIDE DEF i, k, list, state, done
  <2>4. LiveRecords(done.records) = [list EXCEPT ![k].publishState = state]
    BY <1>1, <2>1, <2>2, SetRecordStateList DEF list, k
  <2>5. CASE recs[i].publishState = "PublishSend"
    <3>1. list[k].packetId = id /\ list[k].qos = qos /\ list[k].publishState = "PublishSend"
      BY <1>3, <2>1, <2>5
    <3>2. PublishSent(list, LiveRecords(done.records), id, qos)
      BY <1>1, <2>1, <2>4, <3>1 DEF PublishSent
    <3>3. QED
      BY <3>2 DEF done, list
  <2>6. CASE recs[i].publishState = state
    <3>1. list \in Seq(Record)
      BY ListOfLive DEF list
    <3>2. list[k] \in Record /\ list[k].publishState = state
      BY <2>1, <2>6, <3>1
    <3>3. [list[k] EXCEPT !.publishState = state] = list[k]
      BY <3>2 DEF Record
    <3>4. [list EXCEPT ![k].publishState = state] = list
      BY <2>1, <3>1, <3>3
    <3>5. QED
      BY <2>4, <3>4 DEF done, list
  <2>7. QED
    BY <2>3, <2>5, <2>6
<1>4. QED
  BY <1>2, <1>3

(* A list that has just been extended: its last entry moves on, or leaves. *)
LEMMA AppendedMoves ==
    ASSUME NEW list \in Seq(Record), NEW id, NEW qos, NEW from, NEW to, NEW k,
           NewRecord(id, qos, from) \in Record, NewRecord(id, qos, to) \in Record,
           k = Len(list) + 1
    PROVE  /\ [Append(list, NewRecord(id, qos, from)) EXCEPT ![k].publishState = to] =
                 Append(list, NewRecord(id, qos, to))
           /\ Lists!Without(Append(list, NewRecord(id, qos, from)), k) = list
           /\ k \in 1..Len(Append(list, NewRecord(id, qos, from)))
           /\ Append(list, NewRecord(id, qos, from))[k] = NewRecord(id, qos, from)
<1> DEFINE new == NewRecord(id, qos, from)
           longer == Append(list, new)
<1>1. [new EXCEPT !.publishState = to] = NewRecord(id, qos, to)
  BY DEF NewRecord
<1>2. /\ longer \in Seq(Record) /\ Len(longer) = Len(list) + 1 /\ longer[k] = new
      /\ \A n \in 1..Len(list) : longer[n] = list[n]
      /\ k \in 1..Len(longer) /\ Len(list) \in Nat
  <2> HIDE DEF new
  <2>1. QED
    BY DEF new
<1>3. [longer EXCEPT ![k].publishState = to] = Append(list, NewRecord(id, qos, to))
  <2> DEFINE last == NewRecord(id, qos, to)
             moved == [longer EXCEPT ![k] = last]
  <2>1. [longer EXCEPT ![k].publishState = to] = moved
    BY <1>1, <1>2
  <2> HIDE DEF last
  <2>2. last \in Record
    BY DEF last
  <2>3. /\ moved \in Seq(Record) /\ Len(moved) = Len(list) + 1 /\ moved[k] = last
        /\ \A n \in 1..Len(list) : moved[n] = list[n]
    <3> HIDE DEF longer
    <3>1. QED
      BY <1>2, <2>2
  <2>4. /\ Append(list, last) \in Seq(Record) /\ Len(Append(list, last)) = Len(list) + 1
        /\ Append(list, last)[k] = last
        /\ \A n \in 1..Len(list) : Append(list, last)[n] = list[n]
    BY <2>2
  <2>5. \A n \in 1..(Len(list) + 1) : n \in 1..Len(list) \/ n = k
    BY <1>2
  <2> HIDE DEF moved
  <2>6. moved = Append(list, last)
    BY <2>3, <2>4, <2>5
  <2>7. QED
    BY <2>1, <2>6 DEF last
<1>4. Lists!Without(longer, k) = list
  <2> HIDE DEF longer
  <2>1. /\ Lists!Without(longer, k) \in Seq(Record)
        /\ Len(Lists!Without(longer, k)) = Len(longer) - 1
        /\ \A n \in 1..Len(longer) : n < k => Lists!Without(longer, k)[n] = longer[n]
    BY <1>2, WithoutParts
  <2> DEFINE short == Lists!Without(longer, k)
  <2> HIDE DEF short
  <2>2. Len(short) = Len(list) /\ short \in Seq(Record)
    BY <1>2, <2>1 DEF short
  <2>3. \A n \in 1..Len(list) : short[n] = list[n]
    BY <1>2, <2>1 DEF short
  <2>4. short = list
    BY <2>2, <2>3
  <2>5. QED
    BY <2>4 DEF short
<1>5. QED
  BY <1>2, <1>3, <1>4

-----------------------------------------------------------------------------
(* The steps of HandshakeLists, on one list.                               *)
OutMove(list, new) ==
    \/ new \in {[list EXCEPT ![k].publishState = AfterSend(list[k].qos)] :
                   k \in {k \in 1..Len(list) : list[k].publishState = "PublishSend"}}
    \/ new \in Lists!MovedToEnd(list, "PubRecPending", "PubRelSend")
    \/ new \in Lists!MovedToEnd(list, "PubRecPending", "PubCompPending")
    \/ new \in Lists!Moved(list, "PubRelSend", "PubCompPending")
    \/ new \in Lists!Completed(list, {"PubAckPending", "PubCompPending"})

OutAdd(list, new, id, qos) ==
    /\ Lists!Accepts(list, id)
    /\ \E state \in {"PublishSend", AfterSend(qos)} :
          new = Append(list, NewRecord(id, qos, state))

InMove(list, new) ==
    \/ new \in Lists!Moved(list, "PubRecSend", "PubRelPending")
    \/ new \in Lists!Moved(list, "PubRelPending", "PubCompSend")
    \/ new \in Lists!Completed(list, {"PubAckSend", "PubRelPending", "PubCompSend"})

InAdd(list, new, id) ==
    /\ Lists!Accepts(list, id)
    /\ new \in {Append(list, NewRecord(id, 1, "PubAckSend")),
                Append(list, NewRecord(id, 2, "PubRecSend")),
                Append(list, NewRecord(id, 2, "PubRelPending"))}

(* What an acknowledgement can do at all, by its type and direction.       *)
LEMMA AckStates ==
    ASSUME NEW ack \in AckTypes, NEW op \in Operations, NEW qos, NEW from, NEW to,
           to = CalculateStateAck(ack, op, qos), ValidTransitionAck(from, to)
    PROVE  /\ ack = "PUBACK" => qos = 1
           /\ ack # "PUBACK" => qos = 2
           /\ ack \in {"PUBACK", "PUBCOMP"} =>
                 /\ to = "PublishDone"
                 /\ from \in {"PubAckSend", "PubAckPending", "PubCompSend", "PubCompPending"}
           /\ ack = "PUBREC" /\ op = "SEND" =>
                 to = "PubRelPending" /\ from \in {"PubRecSend", "PubRelPending"}
           /\ ack = "PUBREC" /\ op = "RECEIVE" => to = "PubRelSend" /\ from = "PubRecPending"
           /\ ack = "PUBREL" /\ op = "SEND" =>
                 to = "PubCompPending" /\ from \in {"PubRelSend", "PubCompPending"}
           /\ ack = "PUBREL" /\ op = "RECEIVE" =>
                 to = "PubCompSend" /\ from \in {"PubRelPending", "PubCompSend"}
<1>1. to # "Null"
  BY DEF ValidTransitionAck, AckTransitions
<1>2. qos = IF ack = "PUBACK" THEN 1 ELSE 2
  BY <1>1 DEF CalculateStateAck
<1>3. CASE ack \in {"PUBACK", "PUBCOMP"}
  <2>1. to = "PublishDone"
    BY <1>2, <1>3 DEF CalculateStateAck
  <2>2. QED
    BY <1>2, <1>3, <2>1 DEF ValidTransitionAck, AckTransitions
<1>4. CASE ack = "PUBREC"
  <2>1. to = IF op = "SEND" THEN "PubRelPending" ELSE "PubRelSend"
    BY <1>2, <1>4 DEF CalculateStateAck
  <2>2. QED
    BY <1>2, <1>4, <2>1 DEF ValidTransitionAck, AckTransitions
<1>5. CASE ack = "PUBREL"
  <2>1. to = IF op = "SEND" THEN "PubCompPending" ELSE "PubCompSend"
    BY <1>2, <1>5 DEF CalculateStateAck
  <2>2. QED
    BY <1>2, <1>5, <2>1 DEF ValidTransitionAck, AckTransitions
<1>6. QED
  BY <1>3, <1>4, <1>5 DEF AckTypes

(* A PUBREL that is sent moves the entry it is about, if it was due.       *)
PubrelMoved(list, new, id) ==
    \E k \in 1..Len(list) :
        /\ list[k].packetId = id /\ list[k].publishState = "PubRelSend"
        /\ new = [list EXCEPT ![k].publishState = "PubCompPending"]

LEMMA PubrelSentList ==
    ASSUME NEW recs \in Records, Unique(recs), NEW id \in PacketIds, NEW ok \in BOOLEAN,
           NEW list, list = LiveRecords(recs),
           NEW new, new = LiveRecords(SendPublishAck(recs, id, "PubRelSend", ok).records)
    PROVE  new = list \/ PubrelMoved(list, new, id)
<1>1. "PubRelSend" \in DOMAIN AckToSend /\ AckToSend["PubRelSend"] = "PUBREL"
  BY DEF AckToSend
<1>2. CASE ~ ok
  BY <1>1, <1>2 DEF SendPublishAck
<1>3. CASE ok
  <2>1. SendPublishAck(recs, id, "PubRelSend", ok).records =
           AckRecord(recs, id, "PUBREL", "SEND").records
    BY <1>1, <1>3 DEF SendPublishAck
  <2>2. "PUBREL" \in AckTypes /\ "SEND" \in Operations
    BY DEF AckTypes, Operations
  <2>3. new = list \/ Acked(list, new, id, "PUBREL", "SEND")
    BY <2>1, <2>2, AckRecordList
  <2>4. ASSUME Acked(list, new, id, "PUBREL", "SEND"), new # list
        PROVE  PubrelMoved(list, new, id)
    <3>1. PICK k \in 1..Len(list) :
             LET state == CalculateStateAck("PUBREL", "SEND", list[k].qos)
             IN  /\ list[k].packetId = id
                 /\ ValidTransitionAck(list[k].publishState, state)
                 /\ state = list[k].publishState => new = list
                 /\ state # list[k].publishState =>
                       \/ state = "PublishDone" /\ new = Lists!Without(list, k)
                       \/ /\ state = "PubRelSend"
                          /\ new = Append(Lists!Without(list, k), NewRecord(id, 2, state))
                       \/ /\ state \notin {"PublishDone", "PubRelSend"}
                          /\ new = [list EXCEPT ![k].publishState = state]
      BY <2>4 DEF Acked
    <3> DEFINE state == CalculateStateAck("PUBREL", "SEND", list[k].qos)
    <3>2. /\ state = "PubCompPending" /\ list[k].publishState \in {"PubRelSend", "PubCompPending"}
      BY <2>2, <3>1, AckStates
    <3> HIDE DEF state
    <3>3. list[k].publishState # state
      BY <2>4, <3>1 DEF state
    <3>4. new = [list EXCEPT ![k].publishState = state]
      BY <3>1, <3>2, <3>3 DEF state
    <3>5. QED
      BY <3>1, <3>2, <3>3, <3>4 DEF PubrelMoved
  <2>5. QED
    BY <2>3, <2>4
<1>4. QED
  BY <1>2, <1>3

(* A PUBACK, PUBREC or PUBCOMP that arrives.                               *)
LEMMA AckOutcomeList ==
    ASSUME NEW recs, OutgoingOK(recs), NEW id \in PacketIds, NEW ok \in BOOLEAN,
           NEW ack \in {"PUBACK", "PUBREC", "PUBCOMP"},
           NEW list, list = LiveRecords(recs),
           NEW new, new = LiveRecords(AckOutcome(recs, ack, id, ok).records)
    PROVE  new = list \/ OutMove(list, new)
<1> DEFINE updated == AckRecord(recs, id, ack, "RECEIVE")
           first   == LiveRecords(updated.records)
           state   == CalculateStateAck(ack, "RECEIVE", IF ack = "PUBACK" THEN 1 ELSE 2)
           sent    == SendPublishAck(updated.records, id, state, ok)
<1>1. recs \in Records /\ Unique(recs) /\ OutgoingAgree(recs) /\ list \in Seq(Record)
  BY ListOfLive DEF OutgoingOK
<1>2. ack \in AckTypes /\ "RECEIVE" \in Operations /\ updated.records \in Records
      /\ Unique(updated.records)
  BY <1>1, AckRecordKeeps DEF AckTypes, Operations
<1>3. \/ updated.status # "Success" /\ first = list
      \/ updated.status = "Success" /\ Acked(list, first, id, ack, "RECEIVE")
  BY <1>1, <1>2, AckRecordList
<1>4. /\ updated.status # "Success" => new = first
      /\ updated.status = "Success" => new = LiveRecords(sent.records)
  BY DEF AckOutcome
<1>5. state = IF ack = "PUBREC" THEN "PubRelSend" ELSE "PublishDone"
  BY DEF CalculateStateAck
<1>6. ASSUME NEW k \in 1..Len(list)
      PROVE  \/ list[k].qos = 1 /\ list[k].publishState \in OutgoingQoS1
             \/ list[k].qos = 2 /\ list[k].publishState \in OutgoingQoS2
  BY <1>1, ListAgrees DEF OutgoingAgree
<1>7. CASE updated.status # "Success"
  BY <1>3, <1>4, <1>7
<1>8. CASE updated.status = "Success"
  <2> HIDE DEF updated, first
  <2>1. Acked(list, first, id, ack, "RECEIVE")
    BY <1>3, <1>8
  <2>2. PICK k \in 1..Len(list) :
             LET to == CalculateStateAck(ack, "RECEIVE", list[k].qos)
             IN  /\ list[k].packetId = id
                 /\ ValidTransitionAck(list[k].publishState, to)
                 /\ to = list[k].publishState => first = list
                 /\ to # list[k].publishState =>
                       \/ to = "PublishDone" /\ first = Lists!Without(list, k)
                       \/ /\ to = "PubRelSend"
                          /\ first = Append(Lists!Without(list, k), NewRecord(id, 2, to))
                       \/ /\ to \notin {"PublishDone", "PubRelSend"}
                          /\ first = [list EXCEPT ![k].publishState = to]
    BY <2>1 DEF Acked
  <2> DEFINE to == CalculateStateAck(ack, "RECEIVE", list[k].qos)
  <2>3. /\ ack \in {"PUBACK", "PUBCOMP"} =>
              /\ to = "PublishDone"
              /\ list[k].publishState \in {"PubAckSend", "PubAckPending", "PubCompSend", "PubCompPending"}
        /\ ack = "PUBREC" => to = "PubRelSend" /\ list[k].publishState = "PubRecPending"
                             /\ list[k].qos = 2
    BY <1>2, <2>2, AckStates
  <2> HIDE DEF to
  <2>4. CASE ack \in {"PUBACK", "PUBCOMP"}
    <3>1. first = Lists!Without(list, k)
      BY <2>2, <2>3, <2>4 DEF to
    <3>2. list[k].publishState \in {"PubAckPending", "PubCompPending"}
      BY <1>6, <2>3, <2>4 DEF OutgoingQoS1, OutgoingQoS2
    <3>3. sent.records = updated.records
      BY <1>5, <2>4 DEF SendPublishAck, AckToSend
    <3>4. new = Lists!Without(list, k)
      BY <1>4, <1>8, <3>1, <3>3 DEF first
    <3>5. new \in Lists!Completed(list, {"PubAckPending", "PubCompPending"})
      BY <3>2, <3>4 DEF Lists!Completed
    <3>6. QED
      BY <3>5 DEF OutMove
  <2>5. CASE ack = "PUBREC"
    <3> DEFINE less == Lists!Without(list, k)
               n    == Len(less) + 1
    <3>1. first = Append(less, NewRecord(id, 2, "PubRelSend"))
      BY <2>2, <2>3, <2>5 DEF to
    <3>2. less \in Seq(Record)
      BY <1>1, WithoutParts
    <3>3. /\ NewRecord(id, 2, "PubRelSend") \in Record /\ NewRecord(id, 2, "PubCompPending") \in Record
      BY DEF NewRecord, Record, PublishStates, OutgoingQoS2, QoS
    <3>4. list[k] \in Record /\ list[k].packetId = id /\ list[k].qos = 2
          /\ list[k].publishState = "PubRecPending"
      BY <1>1, <2>2, <2>3, <2>5
    <3>5. \A s : [list[k] EXCEPT !.publishState = s] = NewRecord(id, 2, s)
      BY <3>4 DEF NewRecord, Record
    <3> HIDE DEF less
    <3>6. /\ [first EXCEPT ![n].publishState = "PubCompPending"] =
                Append(less, NewRecord(id, 2, "PubCompPending"))
          /\ n \in 1..Len(first) /\ first[n] = NewRecord(id, 2, "PubRelSend")
      BY <3>1, <3>2, <3>3, AppendedMoves
    <3>7. new = first \/ PubrelMoved(first, new, id)
      <4>1. sent = SendPublishAck(updated.records, id, "PubRelSend", ok)
        BY <1>5, <2>5
      <4>2. new = LiveRecords(SendPublishAck(updated.records, id, "PubRelSend", ok).records)
        BY <1>4, <1>8, <4>1
      <4> HIDE DEF n, sent, state, less
      <4>3. first = LiveRecords(updated.records)
        BY DEF first
      <4>4. QED
        BY <1>2, <4>2, <4>3, PubrelSentList
    <3>8. \A j \in 1..Len(first) : first[j].packetId = id => j = n
      <4>1. first[n].packetId = id
        BY <3>6 DEF NewRecord
      <4> HIDE DEF n
      <4>2. QED
        BY <1>2, <3>6, <4>1, ListUnique DEF first
    <3>9. new \in {Append(less, NewRecord(id, 2, "PubRelSend")),
                   Append(less, NewRecord(id, 2, "PubCompPending"))}
      BY <3>1, <3>6, <3>7, <3>8 DEF PubrelMoved
    <3>10. \/ new \in Lists!MovedToEnd(list, "PubRecPending", "PubRelSend")
           \/ new \in Lists!MovedToEnd(list, "PubRecPending", "PubCompPending")
      BY <3>4, <3>5, <3>9 DEF Lists!MovedToEnd, less
    <3>11. QED
      BY <3>10 DEF OutMove
  <2>6. QED
    BY <2>4, <2>5
<1>9. QED
  BY <1>7, <1>8

(* A publish of the application, new or again.                             *)
LEMMA PublishList ==
    ASSUME OutgoingOK(outgoing), NEW id \in PacketIds, NEW qos \in {1, 2},
           NEW dup \in BOOLEAN, NEW ok \in BOOLEAN,
           NEW list, list = LiveRecords(outgoing),
           NEW new, new = LiveRecords(PublishOutcome(id, qos, dup, ok).records)
    PROVE  new = list \/ OutMove(list, new) \/ OutAdd(list, new, id, qos)
<1> DEFINE reserved == AddRecord(outgoing, id, qos, "PublishSend")
           updated  == SentRecord(reserved.records, id, qos)
           first    == LiveRecords(reserved.records)
           n        == Len(list) + 1
<1>1. /\ outgoing \in Records /\ Unique(outgoing) /\ list \in Seq(Record)
      /\ qos \in QoS /\ "PublishSend" \in PublishStates
  BY ListOfLive DEF OutgoingOK, QoS, PublishStates, OutgoingQoS1
<1>2. reserved.records \in Records /\ Unique(reserved.records)
  BY <1>1, AddRecordKeeps DEF Extends
<1>3. \/ /\ reserved.status = "Success"
         /\ first = Append(list, NewRecord(id, qos, "PublishSend"))
         /\ Lists!Accepts(list, id)
      \/ reserved.status # "Success" /\ first = list
  BY <1>1, AddRecordList
<1>4. new = first \/ new = LiveRecords(updated.records)
  BY DEF PublishOutcome
<1>5. \/ LiveRecords(updated.records) = first
      \/ PublishSent(first, LiveRecords(updated.records), id, qos)
  BY <1>2, SentRecordList
<1>6. \A k, j \in 1..Len(first) : first[k].packetId = first[j].packetId => k = j
  BY <1>2, ListUnique
<1> HIDE DEF reserved, updated, first
<1>7. CASE reserved.status # "Success"
  <2>1. first = list
    BY <1>3, <1>7
  <2>2. CASE new = list
    BY <2>2
  <2>3. CASE new # list
    <3>1. PICK k \in 1..Len(list) :
             /\ list[k].qos = qos /\ list[k].publishState = "PublishSend"
             /\ new = [list EXCEPT ![k].publishState = AfterSend(qos)]
      BY <1>4, <1>5, <2>1, <2>3 DEF PublishSent
    <3>2. QED
      BY <3>1 DEF OutMove
  <2>4. QED
    BY <2>2, <2>3
<1>8. CASE reserved.status = "Success"
  <2>1. first = Append(list, NewRecord(id, qos, "PublishSend")) /\ Lists!Accepts(list, id)
    BY <1>3, <1>8
  <2>2. /\ NewRecord(id, qos, "PublishSend") \in Record
        /\ NewRecord(id, qos, AfterSend(qos)) \in Record
    BY <1>1 DEF NewRecord, Record, AfterSend, PublishStates, OutgoingQoS1, OutgoingQoS2
  <2>3. /\ [first EXCEPT ![n].publishState = AfterSend(qos)] =
              Append(list, NewRecord(id, qos, AfterSend(qos)))
        /\ n \in 1..Len(first) /\ first[n].packetId = id
    <3>1. NewRecord(id, qos, "PublishSend").packetId = id
      BY DEF NewRecord
    <3>2. QED
      BY <1>1, <2>1, <2>2, <3>1, AppendedMoves
  <2>4. \A k \in 1..Len(first) : first[k].packetId = id => k = n
    <3> HIDE DEF n
    <3>1. QED
      BY <1>6, <2>3
  <2>5. new \in {Append(list, NewRecord(id, qos, "PublishSend")),
                 Append(list, NewRecord(id, qos, AfterSend(qos)))}
    BY <1>4, <1>5, <2>1, <2>3, <2>4 DEF PublishSent
  <2>6. QED
    BY <2>1, <2>5 DEF OutAdd
<1>9. QED
  BY <1>7, <1>8

-----------------------------------------------------------------------------
(* A publish that arrives, with the acknowledgement the library sends.     *)
LEMMA ReceivedList ==
    ASSUME NEW recs, IncomingOK(recs), NEW id \in PacketIds, NEW qos \in {1, 2},
           NEW ok \in BOOLEAN, NEW received, received = ReceivedRecord(recs, id, qos),
           NEW list, list = LiveRecords(recs),
           NEW new, new = LiveRecords(SendPublishAck(received.records, id,
                                         CalculateStatePublish("RECEIVE", qos), ok).records)
    PROVE  /\ received.status # "Success" => LiveRecords(received.records) = list
           /\ new = list \/ InMove(list, new) \/ InAdd(list, new, id)
<1> DEFINE first == LiveRecords(received.records)
           state == CalculateStatePublish("RECEIVE", qos)
           ack   == IF qos = 1 THEN "PUBACK" ELSE "PUBREC"
           n     == Len(list) + 1
<1>1. recs \in Records /\ Unique(recs) /\ IncomingAgree(recs) /\ list \in Seq(Record) /\ qos \in QoS
  BY ListOfLive DEF IncomingOK, QoS
<1>2. /\ state = IF qos = 1 THEN "PubAckSend" ELSE "PubRecSend"
      /\ state \in PublishStates /\ state \in DOMAIN AckToSend /\ AckToSend[state] = ack
      /\ ack \in AckTypes /\ "SEND" \in Operations
  BY DEF CalculateStatePublish, PublishStates, IncomingQoS1, IncomingQoS2, AckToSend, AckTypes,
         Operations
<1>3. received = AddRecord(recs, id, qos, state)
  BY DEF ReceivedRecord
<1>4. received.records \in Records /\ Unique(received.records)
  BY <1>1, <1>2, <1>3, AddRecordKeeps DEF Extends
<1>5. \/ /\ received.status = "Success"
         /\ first = Append(list, NewRecord(id, qos, state))
         /\ Lists!Accepts(list, id)
      \/ received.status # "Success" /\ first = list
  BY <1>1, <1>2, <1>3, AddRecordList
<1> HIDE DEF state
<1>6. new = first \/ new = LiveRecords(AckRecord(received.records, id, ack, "SEND").records)
  BY <1>2 DEF SendPublishAck, state
<1> HIDE DEF ack
<1>7. new = first \/ Acked(first, new, id, ack, "SEND")
  BY <1>2, <1>4, <1>6, AckRecordList
<1>8. \A k, j \in 1..Len(first) : first[k].packetId = first[j].packetId => k = j
  BY <1>4, ListUnique
<1>9. \A k \in 1..Len(list) : \/ list[k].qos = 1 /\ list[k].publishState \in IncomingQoS1
                              \/ list[k].qos = 2 /\ list[k].publishState \in IncomingQoS2
  BY <1>1, ListAgrees DEF IncomingAgree
<1> HIDE DEF first
<1>10. ASSUME Acked(first, new, id, ack, "SEND"), new # first
       PROVE  \E k \in 1..Len(first) :
                 /\ first[k].packetId = id
                 /\ \/ /\ ack = "PUBACK" /\ first[k].qos = 1
                       /\ first[k].publishState \in
                             {"PubAckSend", "PubAckPending", "PubCompSend", "PubCompPending"}
                       /\ new = Lists!Without(first, k)
                    \/ /\ ack = "PUBREC" /\ first[k].qos = 2
                       /\ first[k].publishState = "PubRecSend"
                       /\ new = [first EXCEPT ![k].publishState = "PubRelPending"]
  <2>1. PICK k \in 1..Len(first) :
             LET to == CalculateStateAck(ack, "SEND", first[k].qos)
             IN  /\ first[k].packetId = id
                 /\ ValidTransitionAck(first[k].publishState, to)
                 /\ to = first[k].publishState => new = first
                 /\ to # first[k].publishState =>
                       \/ to = "PublishDone" /\ new = Lists!Without(first, k)
                       \/ /\ to = "PubRelSend"
                          /\ new = Append(Lists!Without(first, k), NewRecord(id, 2, to))
                       \/ /\ to \notin {"PublishDone", "PubRelSend"}
                          /\ new = [first EXCEPT ![k].publishState = to]
    BY <1>10 DEF Acked
  <2> DEFINE to == CalculateStateAck(ack, "SEND", first[k].qos)
  <2>2. /\ ack \in {"PUBACK", "PUBREC"}
        /\ ack = "PUBACK" => /\ to = "PublishDone" /\ first[k].qos = 1
                             /\ first[k].publishState \in
                                   {"PubAckSend", "PubAckPending", "PubCompSend", "PubCompPending"}
        /\ ack = "PUBREC" => /\ to = "PubRelPending" /\ first[k].qos = 2
                             /\ first[k].publishState \in {"PubRecSend", "PubRelPending"}
    <3>1. ack \in {"PUBACK", "PUBREC"}
      BY DEF ack
    <3>2. QED
      BY <1>2, <2>1, <3>1, AckStates
  <2>3. first[k].publishState # to
    BY <1>10, <2>1
  <2>4. /\ first[k].packetId = id
        /\ to = "PublishDone" => new = Lists!Without(first, k)
        /\ to = "PubRelPending" => new = [first EXCEPT ![k].publishState = "PubRelPending"]
    BY <2>1, <2>3
  <2> HIDE DEF to
  <2>5. QED
    BY <2>2, <2>3, <2>4
<1>11. CASE received.status # "Success"
  <2>1. first = list
    BY <1>5, <1>11
  <2>2. CASE new = list
    BY <1>11, <2>1, <2>2 DEF first
  <2>3. CASE new # list
    <3>1. PICK k \in 1..Len(list) :
                 \/ /\ ack = "PUBACK" /\ list[k].qos = 1
                    /\ new = Lists!Without(list, k)
                 \/ /\ ack = "PUBREC" /\ list[k].qos = 2
                    /\ list[k].publishState = "PubRecSend"
                    /\ new = [list EXCEPT ![k].publishState = "PubRelPending"]
      BY <1>7, <1>10, <2>1, <2>3
    <3>2. list[k].qos = 1 => list[k].publishState = "PubAckSend"
      BY <1>9 DEF IncomingQoS1
    <3>3. \/ new \in Lists!Moved(list, "PubRecSend", "PubRelPending")
          \/ new \in Lists!Completed(list, {"PubAckSend", "PubRelPending", "PubCompSend"})
      BY <3>1, <3>2 DEF Lists!Moved, Lists!Completed
    <3>4. QED
      BY <2>1, <3>3 DEF InMove, first
  <2>4. QED
    BY <2>2, <2>3
<1>12. CASE received.status = "Success"
  <2>1. first = Append(list, NewRecord(id, qos, state)) /\ Lists!Accepts(list, id)
    BY <1>5, <1>12
  <2>2. /\ NewRecord(id, qos, state) \in Record
        /\ NewRecord(id, qos, "PubRelPending") \in Record
    BY <1>1, <1>2 DEF NewRecord, Record, PublishStates, IncomingQoS2
  <2>3. /\ [first EXCEPT ![n].publishState = "PubRelPending"] =
              Append(list, NewRecord(id, qos, "PubRelPending"))
        /\ Lists!Without(first, n) = list
        /\ n \in 1..Len(first) /\ first[n].packetId = id /\ first[n].qos = qos
    <3>1. NewRecord(id, qos, state).packetId = id /\ NewRecord(id, qos, state).qos = qos
      BY DEF NewRecord
    <3>2. QED
      BY <1>1, <2>1, <2>2, <3>1, AppendedMoves
  <2>4. \A k \in 1..Len(first) : first[k].packetId = id => k = n
    <3> HIDE DEF n
    <3>1. QED
      BY <1>8, <2>3
  <2>5. CASE new = first
    <3>1. \/ new = Append(list, NewRecord(id, 1, "PubAckSend"))
          \/ new = Append(list, NewRecord(id, 2, "PubRecSend"))
      BY <1>2, <2>1, <2>5
    <3>2. QED
      BY <1>12, <2>1, <3>1 DEF InAdd
  <2>6. CASE new # first
    <3>1. \/ qos = 1 /\ new = Lists!Without(first, n)
          \/ qos = 2 /\ new = [first EXCEPT ![n].publishState = "PubRelPending"]
      BY <1>7, <1>10, <2>3, <2>4, <2>6
    <3>2. new = list \/ new = Append(list, NewRecord(id, 2, "PubRelPending"))
      BY <2>3, <3>1
    <3>3. QED
      BY <1>12, <2>1, <3>2 DEF InAdd
  <2>7. QED
    BY <2>5, <2>6
<1>13. QED
  BY <1>11, <1>12

(* A PUBREL that arrives, with the PUBCOMP the library sends.              *)
LEMMA PubrelList ==
    ASSUME NEW recs, IncomingOK(recs), NEW id \in PacketIds, NEW ok \in BOOLEAN,
           NEW list, list = LiveRecords(recs),
           NEW new, new = LiveRecords(AckOutcome(recs, "PUBREL", id, ok).records)
    PROVE  new = list \/ InMove(list, new)
<1> DEFINE updated == AckRecord(recs, id, "PUBREL", "RECEIVE")
           first   == LiveRecords(updated.records)
           sent    == SendPublishAck(updated.records, id, "PubCompSend", ok)
           second  == LiveRecords(sent.records)
<1>1. recs \in Records /\ Unique(recs) /\ IncomingAgree(recs) /\ list \in Seq(Record)
  BY ListOfLive DEF IncomingOK
<1>2. /\ "PUBREL" \in AckTypes /\ "PUBCOMP" \in AckTypes /\ "RECEIVE" \in Operations
      /\ "SEND" \in Operations /\ updated.records \in Records /\ Unique(updated.records)
  <2>1. /\ "PUBREL" \in AckTypes /\ "PUBCOMP" \in AckTypes /\ "RECEIVE" \in Operations
        /\ "SEND" \in Operations
    BY DEF AckTypes, Operations
  <2>2. QED
    BY <1>1, <2>1, AckRecordKeeps
<1>3. first = list \/ Acked(list, first, id, "PUBREL", "RECEIVE")
  BY <1>1, <1>2, AckRecordList
<1>4. new = first \/ new = second
  BY DEF AckOutcome, CalculateStateAck
<1>5. second = first \/ Acked(first, second, id, "PUBCOMP", "SEND")
  <2>1. sent.records \in {updated.records, AckRecord(updated.records, id, "PUBCOMP", "SEND").records}
    BY DEF SendPublishAck, AckToSend
  <2> HIDE DEF sent, updated
  <2>2. QED
    BY <1>2, <2>1, AckRecordList
<1>6. \A k, j \in 1..Len(first) : first[k].packetId = first[j].packetId => k = j
  BY <1>2, ListUnique
<1>7. \A k \in 1..Len(list) : \/ list[k].qos = 1 /\ list[k].publishState \in IncomingQoS1
                              \/ list[k].qos = 2 /\ list[k].publishState \in IncomingQoS2
  BY <1>1, ListAgrees DEF IncomingAgree
<1> HIDE DEF updated, first, sent, second
<1>8. ASSUME first # list
      PROVE  \E k \in 1..Len(list) : /\ list[k].packetId = id
                                     /\ list[k].publishState = "PubRelPending"
                                     /\ first = [list EXCEPT ![k].publishState = "PubCompSend"]
  <2>1. PICK k \in 1..Len(list) :
             LET to == CalculateStateAck("PUBREL", "RECEIVE", list[k].qos)
             IN  /\ list[k].packetId = id
                 /\ ValidTransitionAck(list[k].publishState, to)
                 /\ to = list[k].publishState => first = list
                 /\ to # list[k].publishState =>
                       \/ to = "PublishDone" /\ first = Lists!Without(list, k)
                       \/ /\ to = "PubRelSend"
                          /\ first = Append(Lists!Without(list, k), NewRecord(id, 2, to))
                       \/ /\ to \notin {"PublishDone", "PubRelSend"}
                          /\ first = [list EXCEPT ![k].publishState = to]
    BY <1>3, <1>8 DEF Acked
  <2> DEFINE to == CalculateStateAck("PUBREL", "RECEIVE", list[k].qos)
  <2>2. to = "PubCompSend" /\ list[k].publishState \in {"PubRelPending", "PubCompSend"}
    BY <1>2, <2>1, AckStates
  <2>3. list[k].packetId = id /\ list[k].publishState # to
        /\ (to = "PubCompSend" => first = [list EXCEPT ![k].publishState = "PubCompSend"])
    BY <1>8, <2>1
  <2> HIDE DEF to
  <2>4. QED
    BY <2>2, <2>3
<1>9. ASSUME second # first
      PROVE  \E k \in 1..Len(first) : /\ first[k].packetId = id
                                      /\ first[k].publishState \in
                                            {"PubAckSend", "PubAckPending", "PubCompSend",
                                             "PubCompPending"}
                                      /\ second = Lists!Without(first, k)
  <2>1. PICK k \in 1..Len(first) :
             LET to == CalculateStateAck("PUBCOMP", "SEND", first[k].qos)
             IN  /\ first[k].packetId = id
                 /\ ValidTransitionAck(first[k].publishState, to)
                 /\ to = first[k].publishState => second = first
                 /\ to # first[k].publishState =>
                       \/ to = "PublishDone" /\ second = Lists!Without(first, k)
                       \/ /\ to = "PubRelSend"
                          /\ second = Append(Lists!Without(first, k), NewRecord(id, 2, to))
                       \/ /\ to \notin {"PublishDone", "PubRelSend"}
                          /\ second = [first EXCEPT ![k].publishState = to]
    BY <1>5, <1>9 DEF Acked
  <2> DEFINE to == CalculateStateAck("PUBCOMP", "SEND", first[k].qos)
  <2>2. /\ to = "PublishDone"
        /\ first[k].publishState \in {"PubAckSend", "PubAckPending", "PubCompSend", "PubCompPending"}
    BY <1>2, <2>1, AckStates
  <2>3. first[k].packetId = id /\ (to = "PublishDone" => second = Lists!Without(first, k))
    BY <1>9, <2>1
  <2> HIDE DEF to
  <2>4. QED
    BY <2>2, <2>3
<1>10. CASE first = list
  <2>1. CASE new = list
    BY <2>1
  <2>2. CASE new # list
    <3>1. PICK k \in 1..Len(list) :
             /\ list[k].publishState \in {"PubAckSend", "PubAckPending", "PubCompSend", "PubCompPending"}
             /\ new = Lists!Without(list, k)
      BY <1>4, <1>9, <1>10, <2>2
    <3>2. list[k].publishState \in {"PubAckSend", "PubCompSend"}
      BY <1>7, <3>1 DEF IncomingQoS1, IncomingQoS2
    <3>3. new \in Lists!Completed(list, {"PubAckSend", "PubRelPending", "PubCompSend"})
      BY <3>1, <3>2 DEF Lists!Completed
    <3>4. QED
      BY <3>3 DEF InMove
  <2>3. QED
    BY <2>1, <2>2
<1>11. CASE first # list
  <2>1. PICK k \in 1..Len(list) : /\ list[k].packetId = id
                                  /\ list[k].publishState = "PubRelPending"
                                  /\ first = [list EXCEPT ![k].publishState = "PubCompSend"]
    BY <1>8, <1>11
  <2>2. CASE new = first
    BY <2>1, <2>2 DEF InMove, Lists!Moved
  <2>3. CASE new # first
    <3>1. /\ first \in Seq(Record) /\ Len(first) = Len(list) /\ first[k].packetId = id
          /\ \A n \in 1..Len(list) : n # k => first[n] = list[n]
      <4>1. list[k] \in Record /\ "PubCompSend" \in PublishStates
        BY <1>1 DEF PublishStates, IncomingQoS2
      <4>2. [list[k] EXCEPT !.publishState = "PubCompSend"] \in Record
            /\ [list[k] EXCEPT !.publishState = "PubCompSend"].packetId = id
        BY <2>1, <4>1 DEF Record
      <4>3. QED
        BY <1>1, <2>1, <4>2
    <3>2. PICK j \in 1..Len(first) : first[j].packetId = id /\ new = Lists!Without(first, j)
      BY <1>4, <1>9, <2>3
    <3>3. j = k /\ k \in 1..Len(first)
      BY <1>6, <3>1, <3>2
    <3>4. Lists!Without(first, k) = Lists!Without(list, k)
      <4> DEFINE one == Lists!Without(first, k)
                 two == Lists!Without(list, k)
      <4>1. /\ one \in Seq(Record) /\ Len(one) = Len(list) - 1
            /\ \A n \in 1..Len(list) : n < k => one[n] = first[n]
            /\ \A n \in 1..Len(list) : k < n => one[n - 1] = first[n]
        BY <3>1, <3>3, WithoutParts
      <4>2. /\ two \in Seq(Record) /\ Len(two) = Len(list) - 1
            /\ \A n \in 1..Len(list) : n < k => two[n] = list[n]
            /\ \A n \in 1..Len(list) : k < n => two[n - 1] = list[n]
        BY <1>1, WithoutParts
      <4> HIDE DEF one, two
      <4>3. ASSUME NEW n \in 1..Len(one) PROVE one[n] = two[n]
        <5>1. Len(list) \in Nat /\ k \in 1..Len(list) /\ n \in 1..(Len(list) - 1)
          BY <1>1, <4>1
        <5>2. CASE n < k
          BY <3>1, <4>1, <4>2, <5>1, <5>2
        <5>3. CASE ~ (n < k)
          <6>1. n + 1 \in 1..Len(list) /\ k < n + 1 /\ n + 1 - 1 = n /\ n + 1 # k
            BY <5>1, <5>3
          <6>2. one[n] = first[n + 1] /\ two[n] = list[n + 1]
            BY <4>1, <4>2, <6>1
          <6>3. QED
            BY <3>1, <6>1, <6>2
        <5>4. QED
          BY <5>2, <5>3
      <4>4. one = two
        BY <4>1, <4>2, <4>3
      <4>5. QED
        BY <4>4 DEF one, two
    <3>5. new \in Lists!Completed(list, {"PubAckSend", "PubRelPending", "PubCompSend"})
      BY <2>1, <3>2, <3>3, <3>4 DEF Lists!Completed
    <3>6. QED
      BY <3>5 DEF InMove
  <2>4. QED
    BY <2>2, <2>3
<1>12. QED
  BY <1>10, <1>11

-----------------------------------------------------------------------------
LEMMA EmptyList == LiveRecords(EmptyRecords) = <<>>
<1>1. EmptyRecords \in Records /\ \A i \in Slots : ~ Live(EmptyRecords, i)
  <2>1. EmptyRecords \in Records
    BY EmptyRecordsOK DEF OutgoingOK
  <2>2. QED
    BY <2>1 DEF EmptyRecords, EmptyRecord, Live
<1>2. /\ LiveRecords(EmptyRecords) \in Seq(Record)
      /\ \A n \in 1..Len(LiveRecords(EmptyRecords)) : \E j \in Slots : Live(EmptyRecords, j)
  BY <1>1, ListOfLive
<1>3. LiveRecords(EmptyRecords) \in Seq(Record) /\ Len(LiveRecords(EmptyRecords)) = 0
  <2>1. PICK list \in Seq(Record) : list = LiveRecords(EmptyRecords)
    BY <1>2
  <2>2. Len(list) \in Nat /\ ~ \E n \in 1..Len(list) : TRUE
    BY <1>1, <1>2, <2>1
  <2>3. Len(list) = 0
    BY <2>2
  <2>4. QED
    BY <2>1, <2>3
<1>4. QED
  BY <1>3

(* What a step does to the two lists: it changes one of them as the        *)
(* handshakes allow, or empties both.                                      *)
Stepped(o, newOut, i, newIn) ==
    \/ newOut = o /\ newIn = i
    \/ /\ newIn = i
       /\ OutMove(o, newOut) \/ \E id \in PacketIds, qos \in {1, 2} : OutAdd(o, newOut, id, qos)
    \/ /\ newOut = o
       /\ InMove(i, newIn) \/ \E id \in PacketIds : InAdd(i, newIn, id)
    \/ newOut = <<>> /\ newIn = <<>>

LEMMA NextStepped ==
    ASSUME IInv, [Next]_vars
    PROVE  Stepped(LiveRecords(outgoing), LiveRecords(outgoing'),
                   LiveRecords(incoming), LiveRecords(incoming'))
<1> DEFINE goal == Stepped(LiveRecords(outgoing), LiveRecords(outgoing'),
                           LiveRecords(incoming), LiveRecords(incoming'))
<1>1. OutgoingOK(outgoing) /\ IncomingOK(incoming)
  BY IInvParts
<1>2. CASE outgoing' = outgoing /\ incoming' = incoming
  BY <1>2 DEF Stepped
<1>3. ASSUME NEW id \in PacketIds, NEW ok \in BOOLEAN, NEW qos \in {1, 2}, NEW dup \in BOOLEAN,
             outgoing' = PublishOutcome(id, qos, dup, ok).records, incoming' = incoming
      PROVE  goal
  <2>1. PICK list : list = LiveRecords(outgoing)
    OBVIOUS
  <2>2. PICK new : new = LiveRecords(PublishOutcome(id, qos, dup, ok).records)
    OBVIOUS
  <2>3. new = list \/ OutMove(list, new) \/ OutAdd(list, new, id, qos)
    BY <1>1, <2>1, <2>2, PublishList
  <2>4. new = LiveRecords(outgoing')
    BY <1>3, <2>2
  <2>5. QED
    BY <1>3, <2>1, <2>3, <2>4 DEF Stepped
<1>4. ASSUME NEW id \in PacketIds, NEW ok \in BOOLEAN, NEW qos \in ReceiveQoS, NEW dup \in BOOLEAN,
             ReceivePublish(id, qos, dup, ok)
      PROVE  goal
  <2> DEFINE received == ReceivedRecord(incoming, id, qos)
             acked == SendPublishAck(received.records, id, CalculateStatePublish("RECEIVE", qos), ok)
  <2>1. /\ outgoing' = outgoing
        /\ \/ incoming' = acked.records
           \/ received.status # "Success" /\ incoming' = received.records
    BY <1>4 DEF ReceivePublish
  <2>2. qos \in {1, 2}
    BY QoSAssumption
  <2>3. PICK list : list = LiveRecords(incoming)
    OBVIOUS
  <2>4. PICK new : new = LiveRecords(acked.records)
    OBVIOUS
  <2>5. /\ received.status # "Success" => LiveRecords(received.records) = list
        /\ new = list \/ InMove(list, new) \/ InAdd(list, new, id)
    BY <1>1, <2>2, <2>3, <2>4, ReceivedList
  <2> HIDE DEF received, acked
  <2>6. LiveRecords(incoming') = new \/ LiveRecords(incoming') = list
    BY <2>1, <2>4, <2>5
  <2>7. QED
    BY <2>1, <2>3, <2>5, <2>6 DEF Stepped
<1>5. ASSUME NEW id \in PacketIds, NEW ok \in BOOLEAN, NEW ack \in AckTypes,
             ReceiveOutgoingAck(ack, id, ok)
      PROVE  goal
  <2>1. /\ outgoing' = AckOutcome(outgoing, ack, id, ok).records /\ incoming' = incoming
        /\ ack \in {"PUBACK", "PUBREC", "PUBCOMP"}
    BY <1>5 DEF ReceiveOutgoingAck, IsPublishOutgoing
  <2>2. PICK list : list = LiveRecords(outgoing)
    OBVIOUS
  <2>3. PICK new : new = LiveRecords(AckOutcome(outgoing, ack, id, ok).records)
    OBVIOUS
  <2>4. new = list \/ OutMove(list, new)
    BY <1>1, <2>1, <2>2, <2>3, AckOutcomeList
  <2>5. new = LiveRecords(outgoing')
    BY <2>1, <2>3
  <2>6. QED
    BY <2>1, <2>2, <2>4, <2>5 DEF Stepped
<1>6. ASSUME NEW id \in PacketIds, NEW ok \in BOOLEAN, ReceivePubrel(id, ok)
      PROVE  goal
  <2>1. incoming' = AckOutcome(incoming, "PUBREL", id, ok).records /\ outgoing' = outgoing
    BY <1>6 DEF ReceivePubrel
  <2>2. PICK list : list = LiveRecords(incoming)
    OBVIOUS
  <2>3. PICK new : new = LiveRecords(AckOutcome(incoming, "PUBREL", id, ok).records)
    OBVIOUS
  <2>4. new = list \/ InMove(list, new)
    BY <1>1, <2>2, <2>3, PubrelList
  <2>5. new = LiveRecords(incoming')
    BY <2>1, <2>3
  <2>6. QED
    BY <2>1, <2>2, <2>4, <2>5 DEF Stepped
<1>7. ASSUME ConnectNewSession \/ Restart PROVE goal
  <2>1. outgoing' = EmptyRecords /\ incoming' = EmptyRecords
    BY <1>7 DEF ConnectNewSession, Restart
  <2>2. LiveRecords(outgoing') = <<>> /\ LiveRecords(incoming') = <<>>
    BY <2>1, EmptyList
  <2>3. QED
    BY <2>2 DEF Stepped
<1>8. ASSUME NEW ok \in BOOLEAN, ResendPubrel(ok)
      PROVE  goal
  <2>1. PICK id : id = Selected.packetId
    OBVIOUS
  <2>2. /\ id \in PacketIds /\ incoming' = incoming
        /\ outgoing' = SendPublishAck(outgoing, id, "PubRelSend", ok).records
    <3>1. Selected.packetId # NoPacketId
      BY <1>8 DEF ResendPubrel
    <3>2. Selected.packetId \in PacketIds
      BY <3>1, SelectedAhead
    <3>3. QED
      BY <1>8, <2>1, <3>2 DEF ResendPubrel
  <2>3. PICK list : list = LiveRecords(outgoing)
    OBVIOUS
  <2>4. PICK new : new = LiveRecords(SendPublishAck(outgoing, id, "PubRelSend", ok).records)
    OBVIOUS
  <2>5. new = list \/ PubrelMoved(list, new, id)
    <3>1. outgoing \in Records /\ Unique(outgoing)
      BY <1>1 DEF OutgoingOK
    <3>2. QED
      BY <2>2, <2>3, <2>4, <3>1, PubrelSentList
  <2>6. PubrelMoved(list, new, id) => OutMove(list, new)
    BY DEF PubrelMoved, OutMove, Lists!Moved
  <2>7. new = LiveRecords(outgoing')
    BY <2>2, <2>4
  <2>8. QED
    BY <2>2, <2>3, <2>5, <2>6, <2>7 DEF Stepped
<1>9. ASSUME NEW ok \in BOOLEAN, ResendPublish(ok)
      PROVE  goal
  <2>1. PICK id : id = Selected.packetId
    OBVIOUS
  <2>2. PICK stored : stored = outgoing[FindInRecord(outgoing, id)].qos
    OBVIOUS
  <2>3. Selected.packetId # NoPacketId
    BY <1>9 DEF ResendPublish
  <2>4. id \in PacketIds /\ Holds(outgoing, id)
    BY <2>1, <2>3, SelectedAhead DEF Holds
  <2>5. stored \in {1, 2}
    <3>1. /\ FindInRecord(outgoing, id) \in Slots
          /\ outgoing[FindInRecord(outgoing, id)].packetId = id
      BY <1>1, <2>4, FoundSlot DEF OutgoingOK
    <3>2. Live(outgoing, FindInRecord(outgoing, id))
      BY <2>4, <3>1, PacketIdAssumption DEF Live
    <3>3. QED
      BY <1>1, <2>2, <3>1, <3>2 DEF OutgoingOK, OutgoingAgree, Agree
  <2>6. /\ outgoing' = PublishOutcome(id, stored, TRUE, ok).records
        /\ incoming' = incoming
    BY <1>9, <2>1, <2>2 DEF ResendPublish
  <2>7. QED
    BY <1>3, <2>4, <2>5, <2>6
<1>10. ASSUME NEW id \in PacketIds, NEW ok \in BOOLEAN, NEW qos \in PublishQoS,
              NEW dup \in BOOLEAN, Publish(id, qos, dup, ok)
       PROVE  goal
  <2>1. qos \in {1, 2}
    BY QoSAssumption
  <2>2. outgoing' = PublishOutcome(id, qos, dup, ok).records /\ incoming' = incoming
    BY <1>10 DEF Publish
  <2>3. QED
    BY <1>3, <2>1, <2>2
<1>11. ASSUME ConnectSessionPresent \/ ResendEnd \/ ResendAbandon \/ LinkDown \/ UNCHANGED vars
       PROVE  goal
  <2>1. outgoing' = outgoing /\ incoming' = incoming
    BY <1>11 DEF ConnectSessionPresent, ResendEnd, ResendAbandon, LinkDown, vars
  <2>2. QED
    BY <1>2, <2>1
<1> HIDE DEF goal
<1>12. goal
  <2>1. CASE Next
    <3>1. CASE \E id \in PacketIds, ok \in BOOLEAN :
                  \/ \E qos \in PublishQoS, dup \in BOOLEAN : Publish(id, qos, dup, ok)
                  \/ \E qos \in ReceiveQoS, dup \in BOOLEAN : ReceivePublish(id, qos, dup, ok)
                  \/ \E ack \in AckTypes : ReceiveOutgoingAck(ack, id, ok)
                  \/ ReceivePubrel(id, ok)
      BY <1>4, <1>5, <1>6, <1>10, <3>1
    <3>2. CASE \E ok \in BOOLEAN : ResendPubrel(ok) \/ ResendPublish(ok)
      BY <1>8, <1>9, <3>2
    <3>3. CASE ConnectNewSession \/ Restart
      BY <1>7, <3>3
    <3>4. CASE ConnectSessionPresent \/ ResendEnd \/ ResendAbandon \/ LinkDown
      BY <1>11, <3>4
    <3>5. QED
      BY <2>1, <3>1, <3>2, <3>3, <3>4 DEF Next
  <2>2. CASE UNCHANGED vars
    BY <1>11, <2>2
  <2>3. QED
    BY <2>1, <2>2
<1>13. QED
  BY <1>12 DEF goal

(* Those are steps of HandshakeLists.                                      *)
LEMMA SteppedLists ==
    ASSUME Stepped(LiveRecords(outgoing), LiveRecords(outgoing'),
                   LiveRecords(incoming), LiveRecords(incoming'))
    PROVE  [Lists!Next]_(Lists!lists)
<1>1. CASE LiveRecords(outgoing') = LiveRecords(outgoing) /\ LiveRecords(incoming') = LiveRecords(incoming)
  BY <1>1 DEF Lists!lists
<1>2. CASE LiveRecords(incoming') = LiveRecords(incoming) /\ OutMove(LiveRecords(outgoing), LiveRecords(outgoing'))
  <2>1. Lists!Send
    BY <1>2 DEF Lists!Send, OutMove, AfterSend
  <2>2. QED
    BY <2>1 DEF Lists!Next
<1>3. ASSUME NEW id \in PacketIds, NEW qos \in {1, 2}, LiveRecords(incoming') = LiveRecords(incoming),
             OutAdd(LiveRecords(outgoing), LiveRecords(outgoing'), id, qos)
      PROVE  Lists!Next
  <2>1. Lists!Publish(id, qos)
    BY <1>3 DEF Lists!Publish, OutAdd, AfterSend, NewRecord, Lists!Entry
  <2>2. QED
    BY <2>1 DEF Lists!Next
<1>4. CASE LiveRecords(outgoing') = LiveRecords(outgoing) /\ InMove(LiveRecords(incoming), LiveRecords(incoming'))
  <2>1. Lists!Receive
    BY <1>4 DEF Lists!Receive, InMove
  <2>2. QED
    BY <2>1 DEF Lists!Next
<1>5. ASSUME NEW id \in PacketIds, LiveRecords(outgoing') = LiveRecords(outgoing),
             InAdd(LiveRecords(incoming), LiveRecords(incoming'), id)
      PROVE  Lists!Next
  <2>1. Lists!Accept(id)
    BY <1>5 DEF Lists!Accept, InAdd, NewRecord, Lists!Entry
  <2>2. QED
    BY <2>1 DEF Lists!Next
<1>6. CASE LiveRecords(outgoing') = <<>> /\ LiveRecords(incoming') = <<>>
  BY <1>6 DEF Lists!NewSession, Lists!Next
<1>7. QED
  BY <1>1, <1>2, <1>3, <1>4, <1>5, <1>6 DEF Stepped

(* Whatever the application and the broker do, the two arrays behave as    *)
(* the ordered lists of HandshakeLists: holes, deletions, compaction and   *)
(* the delete-and-add-back of a PUBREC never show, for any number of       *)
(* slots, packet ids and QoS values.                                       *)
THEOREM ArraysAreLists == Spec => ImplementsLists
<1>1. Init => Lists!Init
  BY EmptyList DEF Init, Lists!Init
<1>2. IInv /\ [Next]_vars => [Lists!Next]_(Lists!lists)
  BY NextStepped, SteppedLists
<1>3. Spec => []IInv
  BY Invariance
<1>4. QED
  BY <1>1, <1>2, <1>3, PTL DEF Spec, ImplementsLists, Lists!Spec
=============================================================================
