-------------------------- MODULE MqttClientProofs --------------------------
(***************************************************************************)
(* What each operation of the publish state engine returns and preserves,  *)
(* for arrays of any size and any set of packet ids; then MqttClient keeps *)
(* its arrays well formed for every number of records, every set of packet *)
(* ids, every application and every broker.                                *)
(***************************************************************************)
EXTENDS MqttClient, NaturalRecursion, FiniteSetTheorems

(* A non-empty set of numbers from 1 to n has a least element.             *)
LEMMA LeastElement ==
    ASSUME NEW n \in Nat, NEW S \in SUBSET (1..n), S # {}
    PROVE  \E m \in S : \A k \in S : m <= k
<1>1. PICK i : i \in S
  OBVIOUS
<1>2. S \in SUBSET Nat
  OBVIOUS
<1>3. QED
  BY <1>1, <1>2, LeastNatural

-----------------------------------------------------------------------------
(* FirstFree is defined for every array: every slot from it on is empty    *)
(* and the one before it is not.                                           *)
LEMMA FirstFreeSlot ==
    ASSUME NEW recs \in Records
    PROVE  /\ FirstFree(recs) \in 1..(RecordCount + 1)
           /\ \A j \in FirstFree(recs)..RecordCount : ~ Live(recs, j)
           /\ FirstFree(recs) = 1 \/ Live(recs, FirstFree(recs) - 1)
<1> USE RecordCountAssumption
<1> DEFINE S == {i \in 1..(RecordCount + 1) : \A j \in i..RecordCount : ~ Live(recs, j)}
<1>1. RecordCount + 1 \in S
  OBVIOUS
<1>2. PICK m \in S : \A k \in S : m <= k
  <2>1. S \in SUBSET (1..(RecordCount + 1)) /\ S # {} /\ RecordCount + 1 \in Nat
    BY <1>1
  <2> HIDE DEF S
  <2>2. QED
    BY <2>1, LeastElement
<1>3. m = 1 \/ Live(recs, m - 1)
  <2> SUFFICES ASSUME m # 1, ~ Live(recs, m - 1) PROVE FALSE
    OBVIOUS
  <2>1. m - 1 \in S
    OBVIOUS
  <2>2. QED
    BY <1>2, <2>1
<1>4. /\ m \in 1..(RecordCount + 1)
      /\ \A j \in m..RecordCount : ~ Live(recs, j)
      /\ m = 1 \/ Live(recs, m - 1)
  BY <1>3
<1>5. QED
  BY <1>4 DEF FirstFree

(* findInRecord returns a slot that holds the id: with unique ids the only *)
(* one.                                                                    *)
LEMMA FoundSlot ==
    ASSUME NEW recs \in Records, NEW id \in PacketIds, Unique(recs), Holds(recs, id)
    PROVE  /\ FindInRecord(recs, id) \in Slots
           /\ recs[FindInRecord(recs, id)].packetId = id
<1> USE RecordCountAssumption, PacketIdAssumption
<1>1. PICK i \in Slots : recs[i].packetId = id
  BY DEF Holds
<1>2. \A j \in 1..(i - 1) : recs[j].packetId # id
  <2> SUFFICES ASSUME NEW j \in 1..(i - 1), recs[j].packetId = id PROVE FALSE
    OBVIOUS
  <2>1. j \in Slots /\ Live(recs, i)
    BY <1>1 DEF Slots, Live
  <2>2. QED
    BY <1>1, <2>1 DEF Unique, Slots
<1>3. QED
  BY <1>1, <1>2 DEF FindInRecord

-----------------------------------------------------------------------------
(* Compaction gives every live record a slot of its own and keeps order.   *)
LEMMA RankOfLive ==
    ASSUME NEW recs \in Records, NEW j \in Slots, Live(recs, j)
    PROVE  Rank(recs, j) \in 1..j
<1> USE RecordCountAssumption
<1> DEFINE below == {k \in 1..j : Live(recs, k)}
<1>1. j \in Nat /\ j \in 1..j
  BY DEF Slots
<1>2. IsFiniteSet(1..j) /\ Cardinality(1..j) = j
  BY <1>1, FS_Interval DEF Slots
<1>3. below \in SUBSET (1..j) /\ j \in below
  BY <1>1
<1>4. IsFiniteSet(below) /\ Cardinality(below) <= j /\ Cardinality(below) \in Nat
  <2> HIDE DEF below
  <2>1. IsFiniteSet(below) /\ Cardinality(below) <= Cardinality(1..j)
    BY <1>2, <1>3, FS_Subset
  <2>2. Cardinality(below) \in Nat
    BY <2>1, FS_CardinalityType
  <2>3. QED
    BY <1>2, <2>1, <2>2
<1>5. Cardinality(below) # 0
  <2> HIDE DEF below
  <2>1. QED
    BY <1>3, <1>4, FS_EmptySet
<1>6. Rank(recs, j) = Cardinality(below)
  BY DEF Rank
<1>7. QED
  BY <1>1, <1>4, <1>5, <1>6

LEMMA RankIncreases ==
    ASSUME NEW recs \in Records, NEW i \in Slots, NEW j \in Slots, i < j, Live(recs, j)
    PROVE  Rank(recs, i) < Rank(recs, j)
<1> USE RecordCountAssumption
<1> DEFINE lower == {k \in 1..i : Live(recs, k)}
           upper == {k \in 1..j : Live(recs, k)}
<1>1. i \in Nat /\ j \in Nat /\ j \in 1..j /\ j \notin 1..i
  BY DEF Slots
<1>2. lower \in SUBSET upper /\ lower # upper
  BY <1>1 DEF Slots
<1>3. IsFiniteSet(upper)
  <2>1. IsFiniteSet(1..j)
    BY <1>1, FS_Interval
  <2>2. upper \in SUBSET (1..j)
    OBVIOUS
  <2> HIDE DEF upper
  <2>3. QED
    BY <2>1, <2>2, FS_Subset
<1>4. /\ IsFiniteSet(lower)
      /\ Cardinality(lower) <= Cardinality(upper)
      /\ Cardinality(lower) # Cardinality(upper)
  <2> HIDE DEF lower, upper
  <2>1. QED
    BY <1>2, <1>3, FS_Subset
<1>5. Cardinality(lower) \in Nat /\ Cardinality(upper) \in Nat
  <2> HIDE DEF lower, upper
  <2>1. QED
    BY <1>3, <1>4, FS_CardinalityType
<1>6. Rank(recs, i) = Cardinality(lower) /\ Rank(recs, j) = Cardinality(upper)
  BY DEF Rank
<1>7. QED
  BY <1>4, <1>5, <1>6

(* Two live slots of equal rank are the same slot.                         *)
LEMMA RankInjective ==
    ASSUME NEW recs \in Records, NEW i \in Slots, NEW j \in Slots,
           Live(recs, i), Live(recs, j), Rank(recs, i) = Rank(recs, j)
    PROVE  i = j
<1>1. i \in Nat /\ j \in Nat
  BY RecordCountAssumption DEF Slots
<1>2. CASE i < j
  <2>1. Rank(recs, i) < Rank(recs, j)
    BY <1>2, RankIncreases
  <2>2. Rank(recs, i) \in Nat
    BY RankOfLive, <1>1
  <2>3. QED
    BY <2>1, <2>2
<1>3. CASE j < i
  <2>1. Rank(recs, j) < Rank(recs, i)
    BY <1>3, RankIncreases
  <2>2. Rank(recs, i) \in Nat
    BY RankOfLive, <1>1
  <2>3. QED
    BY <2>1, <2>2
<1>4. QED
  BY <1>1, <1>2, <1>3

(* The live records of the compacted array are those of the array, each    *)
(* once, at the slot its rank gives.                                       *)
LEMMA CompactedSlot ==
    ASSUME NEW recs \in Records, NEW j \in Slots, Live(recs, j)
    PROVE  /\ Rank(recs, j) \in Slots
           /\ CompactRecords(recs)[Rank(recs, j)] = recs[j]
<1>1. Rank(recs, j) \in Slots
  <2>1. Rank(recs, j) \in 1..j
    BY RankOfLive
  <2>2. QED
    BY <2>1, RecordCountAssumption DEF Slots
<1>2. \A i \in Slots : Live(recs, i) /\ Rank(recs, i) = Rank(recs, j) => i = j
  BY RankInjective
<1>3. (CHOOSE i \in Slots : Live(recs, i) /\ Rank(recs, i) = Rank(recs, j)) = j
  BY <1>2
<1>4. QED
  BY <1>1, <1>3 DEF CompactRecords

LEMMA CompactedOrigin ==
    ASSUME NEW recs \in Records, NEW i \in Slots, Live(CompactRecords(recs), i)
    PROVE  \E j \in Slots : /\ Live(recs, j)
                            /\ Rank(recs, j) = i
                            /\ CompactRecords(recs)[i] = recs[j]
<1>1. CASE \E j \in Slots : Live(recs, j) /\ Rank(recs, j) = i
  BY <1>1, CompactedSlot
<1>2. CASE ~ \E j \in Slots : Live(recs, j) /\ Rank(recs, j) = i
  <2>1. CompactRecords(recs)[i] = [recs[i] EXCEPT !.packetId = NoPacketId]
    BY <1>2 DEF CompactRecords
  <2>2. CompactRecords(recs)[i].packetId = NoPacketId
    BY <2>1 DEF Records, Record
  <2>3. QED
    BY <2>2 DEF Live
<1>3. QED
  BY <1>1, <1>2

LEMMA CompactRecordsType ==
    ASSUME NEW recs \in Records
    PROVE  CompactRecords(recs) \in Records
<1> SUFFICES ASSUME NEW i \in Slots PROVE CompactRecords(recs)[i] \in Record
  BY DEF CompactRecords, Records
<1>1. CASE Live(CompactRecords(recs), i)
  BY <1>1, CompactedOrigin DEF Records
<1>2. CASE ~ \E j \in Slots : Live(recs, j) /\ Rank(recs, j) = i
  <2>1. CompactRecords(recs)[i] = [recs[i] EXCEPT !.packetId = NoPacketId]
    BY <1>2 DEF CompactRecords
  <2>2. QED
    BY <2>1 DEF Records, Record
<1>3. CASE \E j \in Slots : Live(recs, j) /\ Rank(recs, j) = i
  BY <1>3, CompactedSlot DEF Records
<1>4. QED
  BY <1>2, <1>3

LEMMA CompactRecordsUnique ==
    ASSUME NEW recs \in Records, Unique(recs)
    PROVE  Unique(CompactRecords(recs))
<1> DEFINE compacted == CompactRecords(recs)
<1> SUFFICES ASSUME NEW i \in Slots, NEW k \in Slots, Live(compacted, i),
                    compacted[i].packetId = compacted[k].packetId
             PROVE  i = k
  BY DEF Unique
<1>1. Live(compacted, k)
  BY DEF Live
<1>2. PICK a \in Slots : Live(recs, a) /\ Rank(recs, a) = i /\ compacted[i] = recs[a]
  BY CompactedOrigin
<1>3. PICK b \in Slots : Live(recs, b) /\ Rank(recs, b) = k /\ compacted[k] = recs[b]
  BY <1>1, CompactedOrigin
<1>4. a = b
  BY <1>2, <1>3 DEF Unique
<1>5. QED
  BY <1>2, <1>3, <1>4

-----------------------------------------------------------------------------
(* addRecord: the array stays an array of records with unique ids; a live  *)
(* record of the result was live before or is the one added; no live       *)
(* record is lost.                                                         *)
Extends(new, old, record) ==
    /\ new \in Records
    /\ Unique(new)
    /\ \A i \in Slots : Live(new, i) =>
          new[i] = record \/ \E j \in Slots : Live(old, j) /\ new[i] = old[j]
    /\ \A j \in Slots : Live(old, j) => \E i \in Slots : new[i] = old[j]

NewRecord(id, qos, state) == [packetId |-> id, qos |-> qos, publishState |-> state]

LEMMA AddRecordKeeps ==
    ASSUME NEW recs \in Records, Unique(recs), NEW id \in PacketIds, NEW qos \in QoS,
           NEW state \in PublishStates
    PROVE  /\ Extends(AddRecord(recs, id, qos, state).records, recs,
                      NewRecord(id, qos, state))
           /\ AddRecord(recs, id, qos, state).status
                 \in {"Success", "StateCollision", "NoMemory"}
           /\ AddRecord(recs, id, qos, state).status \in {"Success", "StateCollision"}
                 => Holds(AddRecord(recs, id, qos, state).records, id)
<1> USE RecordCountAssumption, PacketIdAssumption
<1> DEFINE base  == IF Live(recs, RecordCount) THEN CompactRecords(recs) ELSE recs
           at    == FirstFree(base)
           new   == NewRecord(id, qos, state)
           added == AddRecord(recs, id, qos, state)
<1>1. Extends(base, recs, new)
  <2>1. CASE Live(recs, RecordCount)
    <3>1. base = CompactRecords(recs)
      BY <2>1
    <3>2. QED
      BY <3>1, CompactRecordsType, CompactRecordsUnique, CompactedOrigin, CompactedSlot
      DEF Extends
  <2>2. CASE ~ Live(recs, RecordCount)
    BY <2>2 DEF Extends
  <2>3. QED
    BY <2>1, <2>2
<1>2. CASE Holds(base, id)
  <2>1. added = [records |-> base, status |-> "StateCollision"]
    BY <1>2 DEF AddRecord, AppendRecord
  <2> HIDE DEF base
  <2>2. QED
    BY <1>1, <1>2, <2>1
<1>3. CASE ~ Holds(base, id) /\ at > RecordCount
  <2>1. added = [records |-> base, status |-> "NoMemory"]
    BY <1>3 DEF AddRecord, AppendRecord
  <2> HIDE DEF base
  <2>2. QED
    BY <1>1, <2>1
<1>4. CASE ~ Holds(base, id) /\ ~ (at > RecordCount)
  <2>1. added = [records |-> [base EXCEPT ![at] = new], status |-> "Success"]
    BY <1>4 DEF AddRecord, AppendRecord, NewRecord
  <2>2. base \in Records /\ Unique(base)
    BY <1>1 DEF Extends
  <2>3. at \in Slots /\ ~ Live(base, at)
    <3>1. at \in 1..(RecordCount + 1) /\ \A j \in at..RecordCount : ~ Live(base, j)
      <4> HIDE DEF base
      <4>1. QED
        BY <2>2, FirstFreeSlot
    <3>2. QED
      BY <1>4, <3>1 DEF Slots
  <2>4. new \in Record /\ new.packetId = id
    BY DEF Record, NewRecord
  <2> HIDE DEF base, at
  <2> DEFINE filled == [base EXCEPT ![at] = new]
  <2>5. filled \in Records
    BY <2>2, <2>3, <2>4 DEF Records
  <2>6. filled[at] = new /\ \A i \in Slots : i # at => filled[i] = base[i]
    BY <2>2, <2>3 DEF Records
  <2> HIDE DEF filled
  <2>7. Unique(filled)
    <3> SUFFICES ASSUME NEW i \in Slots, NEW k \in Slots, Live(filled, i),
                        filled[i].packetId = filled[k].packetId, i # k
                 PROVE  FALSE
      BY DEF Unique
    <3>1. CASE i = at
      BY <1>4, <2>4, <2>6, <3>1 DEF Holds
    <3>2. CASE k = at
      BY <1>4, <2>4, <2>6, <3>2 DEF Holds
    <3>3. CASE i # at /\ k # at
      BY <2>2, <2>6, <3>3 DEF Unique, Live
    <3>4. QED
      BY <3>1, <3>2, <3>3
  <2>8. \A i \in Slots : Live(filled, i) =>
            filled[i] = new \/ \E j \in Slots : Live(recs, j) /\ filled[i] = recs[j]
    <3> SUFFICES ASSUME NEW i \in Slots, Live(filled, i), i # at
                 PROVE  filled[i] = new \/ \E j \in Slots : Live(recs, j) /\ filled[i] = recs[j]
      BY <2>6
    <3>1. filled[i] = base[i] /\ Live(base, i)
      BY <2>6 DEF Live
    <3>2. QED
      BY <1>1, <3>1 DEF Extends
  <2>9. \A j \in Slots : Live(recs, j) => \E i \in Slots : filled[i] = recs[j]
    <3> SUFFICES ASSUME NEW j \in Slots, Live(recs, j)
                 PROVE  \E i \in Slots : filled[i] = recs[j]
      OBVIOUS
    <3>1. PICK i \in Slots : base[i] = recs[j]
      BY <1>1 DEF Extends
    <3>2. i # at
      BY <2>3, <3>1 DEF Live
    <3>3. QED
      BY <2>6, <3>1, <3>2
  <2>10. Holds(filled, id)
    BY <2>3, <2>4, <2>6 DEF Holds
  <2>11. added.records = filled /\ added.status = "Success"
    BY <2>1 DEF filled
  <2>12. QED
    BY <2>5, <2>7, <2>8, <2>9, <2>10, <2>11 DEF Extends
<1>5. QED
  BY <1>2, <1>3, <1>4

(* An added record that fits its direction leaves an array that fits.      *)
LEMMA ExtendsAgree ==
    ASSUME NEW new, NEW old \in Records, NEW record, Extends(new, old, record),
           NEW one, NEW two, Agree(old, one, two),
           \/ record.qos = 1 /\ record.publishState \in one
           \/ record.qos = 2 /\ record.publishState \in two
    PROVE  Agree(new, one, two)
<1> SUFFICES ASSUME NEW i \in Slots, Live(new, i)
             PROVE  \/ new[i].qos = 1 /\ new[i].publishState \in one
                    \/ new[i].qos = 2 /\ new[i].publishState \in two
  BY DEF Agree
<1>1. CASE new[i] = record
  BY <1>1
<1>2. CASE \E j \in Slots : Live(old, j) /\ new[i] = old[j]
  BY <1>2 DEF Agree
<1>3. QED
  BY <1>1, <1>2 DEF Extends

-----------------------------------------------------------------------------
(* updateRecord on a live slot.                                            *)
LEMMA DeleteRecordKeeps ==
    ASSUME NEW recs \in Records, NEW i \in Slots
    PROVE  /\ DeleteRecord(recs, i) \in Records
           /\ ~ Live(DeleteRecord(recs, i), i)
           /\ \A j \in Slots : j # i => DeleteRecord(recs, i)[j] = recs[j]
           /\ Unique(recs) => Unique(DeleteRecord(recs, i))
           /\ \A one, two : Agree(recs, one, two) => Agree(DeleteRecord(recs, i), one, two)
<1> DEFINE new == DeleteRecord(recs, i)
<1>1. /\ new \in Records
      /\ new[i].packetId = NoPacketId
      /\ \A j \in Slots : j # i => new[j] = recs[j]
  BY DEF DeleteRecord, Records, Record
<1> HIDE DEF new
<1>2. \A j \in Slots : Live(new, j) => Live(recs, j) /\ new[j] = recs[j]
  BY <1>1 DEF Live
<1>3. ASSUME Unique(recs) PROVE Unique(new)
  <2> SUFFICES ASSUME NEW j \in Slots, NEW k \in Slots, Live(new, j),
                      new[j].packetId = new[k].packetId
               PROVE  j = k
    BY DEF Unique
  <2>1. Live(new, k)
    BY DEF Live
  <2>2. QED
    BY <1>2, <1>3, <2>1 DEF Unique
<1>4. \A one, two : Agree(recs, one, two) => Agree(new, one, two)
  BY <1>2 DEF Agree
<1>5. QED
  BY <1>1, <1>3, <1>4 DEF Live, new

LEMMA SetRecordStateKeeps ==
    ASSUME NEW recs \in Records, NEW i \in Slots, NEW state \in PublishStates
    PROVE  /\ SetRecordState(recs, i, state) \in Records
           /\ \A j \in Slots : j # i => SetRecordState(recs, i, state)[j] = recs[j]
           /\ SetRecordState(recs, i, state)[i] =
                 [packetId |-> recs[i].packetId, qos |-> recs[i].qos, publishState |-> state]
           /\ Unique(recs) => Unique(SetRecordState(recs, i, state))
<1> DEFINE new == SetRecordState(recs, i, state)
<1>1. /\ new \in Records
      /\ \A j \in Slots : j # i => new[j] = recs[j]
      /\ new[i] = [packetId |-> recs[i].packetId, qos |-> recs[i].qos, publishState |-> state]
  BY DEF SetRecordState, Records, Record
<1> HIDE DEF new
<1>2. \A j \in Slots : new[j].packetId = recs[j].packetId
  BY <1>1
<1>3. Unique(recs) => Unique(new)
  BY <1>2 DEF Unique, Live
<1>4. QED
  BY <1>1, <1>3 DEF new

(* A state change within the slot's own QoS and direction.                 *)
LEMMA SetRecordStateAgree ==
    ASSUME NEW recs \in Records, NEW i \in Slots, NEW state \in PublishStates,
           NEW one, NEW two, Agree(recs, one, two),
           \/ recs[i].qos = 1 /\ state \in one
           \/ recs[i].qos = 2 /\ state \in two
    PROVE  Agree(SetRecordState(recs, i, state), one, two)
<1> DEFINE new == SetRecordState(recs, i, state)
<1>1. /\ \A j \in Slots : j # i => new[j] = recs[j]
      /\ new[i] = [packetId |-> recs[i].packetId, qos |-> recs[i].qos, publishState |-> state]
  BY SetRecordStateKeeps
<1> HIDE DEF new
<1>2. Agree(new, one, two)
  <2> SUFFICES ASSUME NEW j \in Slots, Live(new, j)
               PROVE  \/ new[j].qos = 1 /\ new[j].publishState \in one
                      \/ new[j].qos = 2 /\ new[j].publishState \in two
    BY DEF Agree
  <2>1. CASE j = i
    BY <1>1, <2>1
  <2>2. CASE j # i
    BY <1>1, <2>2 DEF Agree, Live
  <2>3. QED
    BY <2>1, <2>2
<1>3. QED
  BY <1>2 DEF new

-----------------------------------------------------------------------------
(* MQTT_UpdateStateAck, for every acknowledgement in every state.          *)
AckStatuses == {"Success", "BadResponse", "IllegalState", "NoMemory", "StateCollision"}

LEMMA AckRecordKeeps ==
    ASSUME NEW recs \in Records, Unique(recs), NEW id \in PacketIds,
           NEW ack \in AckTypes, NEW op \in Operations
    PROVE  /\ AckRecord(recs, id, ack, op).records \in Records
           /\ Unique(AckRecord(recs, id, ack, op).records)
           /\ AckRecord(recs, id, ack, op).status \in AckStatuses
           /\ OutgoingAgree(recs) /\ IsPublishOutgoing(ack, op) =>
                 OutgoingAgree(AckRecord(recs, id, ack, op).records)
           /\ IncomingAgree(recs) /\ ~ IsPublishOutgoing(ack, op) =>
                 IncomingAgree(AckRecord(recs, id, ack, op).records)
<1> USE RecordCountAssumption, PacketIdAssumption
<1> DEFINE i   == FindInRecord(recs, id)
           new == CalculateStateAck(ack, op, recs[i].qos)
           res == AckRecord(recs, id, ack, op)
<1>1. CASE ~ Holds(recs, id)
  <2>1. res = [records |-> recs, status |-> "BadResponse"]
    BY <1>1 DEF AckRecord
  <2>2. QED
    BY <2>1 DEF AckStatuses
<1>2. CASE Holds(recs, id)
  <2>1. i \in Slots /\ recs[i].packetId = id /\ recs[i] \in Record
    BY <1>2, FoundSlot DEF Records
  <2>2. res = UpdateStateAck(recs, i, new)
    BY <1>2 DEF AckRecord
  <2> HIDE DEF i, res
  <2>3. new \in PublishStates
    BY DEF CalculateStateAck, PublishStates, AckTypes, OutgoingQoS1, OutgoingQoS2,
           IncomingQoS1, IncomingQoS2
  <2>4. CASE \/ ~ ValidTransitionAck(recs[i].publishState, new)
             \/ recs[i].publishState = new
    <3>1. res.records = recs /\ res.status \in {"IllegalState", "Success"}
      BY <2>2, <2>4 DEF UpdateStateAck
    <3>2. QED
      BY <3>1 DEF res, AckStatuses
  <2>5. CASE /\ ValidTransitionAck(recs[i].publishState, new)
             /\ new = "PublishDone"
    <3>1. recs[i].publishState # new
      BY <2>5 DEF ValidTransitionAck, AckTransitions
    <3>2. res = [records |-> DeleteRecord(recs, i), status |-> "Success"]
      BY <2>2, <2>5, <3>1 DEF UpdateStateAck
    <3>3. QED
      BY <2>1, <3>2, DeleteRecordKeeps DEF res, AckStatuses, OutgoingAgree, IncomingAgree
  <2>6. CASE /\ ValidTransitionAck(recs[i].publishState, new)
             /\ new = "PubRelSend"
    <3> DEFINE old == DeleteRecord(recs, i)
    <3>1. recs[i].publishState # new
      BY <2>6 DEF ValidTransitionAck, AckTransitions
    <3>2. res = AddRecord(old, id, 2, "PubRelSend")
      BY <2>1, <2>2, <2>6, <3>1 DEF UpdateStateAck
    <3>3. old \in Records /\ Unique(old) /\ (OutgoingAgree(recs) => OutgoingAgree(old))
      BY <2>1, DeleteRecordKeeps DEF OutgoingAgree
    <3>4. IsPublishOutgoing(ack, op)
      BY <2>6 DEF CalculateStateAck, IsPublishOutgoing, AckTypes, Operations
    <3>5. 2 \in QoS /\ "PubRelSend" \in PublishStates
      BY DEF QoS, PublishStates, OutgoingQoS2
    <3>6. /\ Extends(res.records, old, NewRecord(id, 2, "PubRelSend"))
          /\ res.status \in {"Success", "StateCollision", "NoMemory"}
      <4> HIDE DEF old
      <4>1. QED
        BY <3>2, <3>3, <3>5, AddRecordKeeps
    <3>7. OutgoingAgree(recs) => OutgoingAgree(res.records)
      <4> HIDE DEF old
      <4>1. "PubRelSend" \in OutgoingQoS2
        BY DEF OutgoingQoS2
      <4>2. QED
        BY <3>3, <3>6, <4>1, ExtendsAgree DEF OutgoingAgree, NewRecord
    <3>8. QED
      BY <3>4, <3>6, <3>7 DEF Extends, res, AckStatuses
  <2>7. CASE /\ ValidTransitionAck(recs[i].publishState, new)
             /\ recs[i].publishState # new
             /\ new \notin {"PublishDone", "PubRelSend"}
    <3>1. res = [records |-> SetRecordState(recs, i, new), status |-> "Success"]
      BY <2>2, <2>7 DEF UpdateStateAck
    <3>2. /\ SetRecordState(recs, i, new) \in Records
          /\ Unique(SetRecordState(recs, i, new))
      BY <2>1, <2>3, SetRecordStateKeeps
    <3>3. recs[i].qos = 2 /\ new \in {"PubRelPending", "PubCompSend", "PubCompPending"}
      BY <2>7 DEF CalculateStateAck, AckTypes, ValidTransitionAck, AckTransitions
    <3>4. IsPublishOutgoing(ack, op) => new \in OutgoingQoS2
      BY <2>7, <3>3 DEF CalculateStateAck, IsPublishOutgoing, AckTypes, Operations, OutgoingQoS2
    <3>5. ~ IsPublishOutgoing(ack, op) => new \in IncomingQoS2
      BY <2>7, <3>3 DEF CalculateStateAck, IsPublishOutgoing, AckTypes, Operations, IncomingQoS2
    <3> HIDE DEF new
    <3>6. OutgoingAgree(recs) /\ IsPublishOutgoing(ack, op) =>
            OutgoingAgree(SetRecordState(recs, i, new))
      BY <2>1, <2>3, <3>3, <3>4, SetRecordStateAgree DEF OutgoingAgree
    <3>7. IncomingAgree(recs) /\ ~ IsPublishOutgoing(ack, op) =>
            IncomingAgree(SetRecordState(recs, i, new))
      BY <2>1, <2>3, <3>3, <3>5, SetRecordStateAgree DEF IncomingAgree
    <3>8. QED
      BY <3>1, <3>2, <3>6, <3>7 DEF res, AckStatuses
  <2>8. QED
    BY <2>4, <2>5, <2>6, <2>7
<1>3. QED
  BY <1>1, <1>2

(* MQTT_UpdateStatePublish after a send, with whatever QoS the caller says. *)
LEMMA SentRecordKeeps ==
    ASSUME NEW recs \in Records, Unique(recs), NEW id \in PacketIds, NEW qos \in {1, 2}
    PROVE  /\ SentRecord(recs, id, qos).records \in Records
           /\ Unique(SentRecord(recs, id, qos).records)
           /\ SentRecord(recs, id, qos).status \in {"Success", "BadParameter", "IllegalState"}
           /\ OutgoingAgree(recs) => OutgoingAgree(SentRecord(recs, id, qos).records)
<1> USE RecordCountAssumption, PacketIdAssumption
<1> DEFINE i   == FindInRecord(recs, id)
           new == CalculateStatePublish("SEND", qos)
           res == SentRecord(recs, id, qos)
<1>1. CASE \/ ~ Holds(recs, id) \/ recs[i].qos # qos
           \/ ~ ValidTransitionPublish(recs[i].publishState, new, "SEND", qos)
  <2>1. res.records = recs /\ res.status \in {"BadParameter", "IllegalState"}
    BY <1>1 DEF SentRecord
  <2>2. QED
    BY <2>1
<1>2. CASE /\ Holds(recs, id)
           /\ recs[i].qos = qos
           /\ ValidTransitionPublish(recs[i].publishState, new, "SEND", qos)
  <2>1. i \in Slots
    BY <1>2, FoundSlot
  <2>2. res = [records |-> SetRecordState(recs, i, new), status |-> "Success"]
    BY <1>2 DEF SentRecord
  <2>3. /\ new \in PublishStates
        /\ qos = 1 => new \in OutgoingQoS1
        /\ qos = 2 => new \in OutgoingQoS2
    BY DEF CalculateStatePublish, PublishStates, OutgoingQoS1, OutgoingQoS2
  <2> HIDE DEF i, new
  <2>4. OutgoingAgree(recs) => OutgoingAgree(SetRecordState(recs, i, new))
    BY <1>2, <2>1, <2>3, SetRecordStateAgree DEF OutgoingAgree
  <2>5. /\ SetRecordState(recs, i, new) \in Records
        /\ Unique(SetRecordState(recs, i, new))
    BY <2>1, <2>3, SetRecordStateKeeps
  <2>6. QED
    BY <2>2, <2>4, <2>5
<1>3. QED
  BY <1>1, <1>2

-----------------------------------------------------------------------------
(* An array that may stand for the outgoing, or the incoming, records.     *)
OutgoingOK(recs) == recs \in Records /\ Unique(recs) /\ OutgoingAgree(recs)
IncomingOK(recs) == recs \in Records /\ Unique(recs) /\ IncomingAgree(recs)

LEMMA EmptyRecordsOK == OutgoingOK(EmptyRecords) /\ IncomingOK(EmptyRecords)
<1>1. EmptyRecords \in Records
  BY DEF EmptyRecords, EmptyRecord, Records, Record, QoS, PublishStates
<1>2. \A i \in Slots : ~ Live(EmptyRecords, i)
  BY DEF EmptyRecords, EmptyRecord, Live
<1>3. QED
  BY <1>1, <1>2 DEF OutgoingOK, IncomingOK, Unique, OutgoingAgree, IncomingAgree, Agree

(* The resend iterators return slots of the array.                         *)
LEMMA StateSelectType ==
    ASSUME NEW recs \in Records, NEW states, NEW cursor \in 0..RecordCount
    PROVE  /\ StateSelect(recs, states, cursor).cursor \in 0..RecordCount
           /\ StateSelect(recs, states, cursor).packetId \in PacketIds \cup {NoPacketId}
           /\ StateSelect(recs, states, cursor).packetId # NoPacketId =>
                 /\ StateSelect(recs, states, cursor).cursor \in Slots
                 /\ recs[StateSelect(recs, states, cursor).cursor].packetId
                       = StateSelect(recs, states, cursor).packetId
                 /\ recs[StateSelect(recs, states, cursor).cursor].publishState \in states
<1> USE RecordCountAssumption, PacketIdAssumption
<1> DEFINE S   == Selectable(recs, states, cursor)
           sel == StateSelect(recs, states, cursor)
<1>1. CASE S = {}
  <2>1. sel = [packetId |-> NoPacketId, cursor |-> RecordCount]
    BY <1>1 DEF StateSelect, SelectStep
  <2>2. QED
    BY <2>1
<1>2. CASE S # {}
  <2>1. S \in SUBSET (1..RecordCount) /\ RecordCount \in Nat
    BY DEF Selectable, Slots
  <2>2. \E i \in S : \A j \in S : i <= j
    <3> HIDE DEF S
    <3>1. QED
      BY <1>2, <2>1, LeastElement
  <2> DEFINE first == CHOOSE i \in S : \A j \in S : i <= j
  <2>3. first \in S
    BY <2>2
  <2>4. sel = [packetId |-> recs[first].packetId, cursor |-> first]
    <3>1. sel = [packetId |-> recs[first].packetId, cursor |-> [i \in Slots |-> i][first]]
      BY <1>2 DEF StateSelect, SelectStep
    <3>2. first \in Slots
      BY <2>3 DEF Selectable
    <3> HIDE DEF first, sel
    <3>3. QED
      BY <3>1, <3>2
  <2> HIDE DEF first
  <2>5. first \in Slots /\ recs[first] \in Record /\ recs[first].publishState \in states
    BY <2>3 DEF Selectable, Records
  <2>6. QED
    BY <2>4, <2>5 DEF Slots, Record
<1>3. QED
  BY <1>1, <1>2

(* sendPublishAcks keeps the array it works on.                            *)
LEMMA SendPublishAckKeeps ==
    ASSUME NEW recs \in Records, Unique(recs), NEW id \in PacketIds,
           NEW state \in PublishStates, NEW ok \in BOOLEAN
    PROVE  /\ SendPublishAck(recs, id, state, ok).records \in Records
           /\ Unique(SendPublishAck(recs, id, state, ok).records)
           /\ SendPublishAck(recs, id, state, ok).status \in Handlers
           /\ SendPublishAck(recs, id, state, ok).sent \in AtMostOne(Packets)
           /\ OutgoingAgree(recs) /\ state \notin {"PubAckSend", "PubRecSend", "PubCompSend"} =>
                 OutgoingAgree(SendPublishAck(recs, id, state, ok).records)
           /\ IncomingAgree(recs) /\ state # "PubRelSend" =>
                 IncomingAgree(SendPublishAck(recs, id, state, ok).records)
<1> DEFINE res == SendPublishAck(recs, id, state, ok)
<1>1. DOMAIN AckToSend = {"PubAckSend", "PubRecSend", "PubRelSend", "PubCompSend"}
  BY DEF AckToSend
<1>2. CASE state \notin DOMAIN AckToSend \/ ~ ok
  <2>1. res.records = recs /\ res.status \in {"Success", "SendFailed"} /\ res.sent = <<>>
    BY <1>2 DEF SendPublishAck
  <2>2. QED
    BY <2>1 DEF Handlers, Statuses, AtMostOne
<1>3. CASE state \in DOMAIN AckToSend /\ ok
  <2> DEFINE ack     == AckToSend[state]
             updated == AckRecord(recs, id, ack, "SEND")
  <2>1. /\ ack \in AckTypes
        /\ IsPublishOutgoing(ack, "SEND") <=> state = "PubRelSend"
    BY <1>1, <1>3 DEF AckToSend, AckTypes, IsPublishOutgoing
  <2>2. res = [records |-> updated.records, status |-> updated.status,
               sent |-> <<AckPacket(ack, id)>>]
    BY <1>3 DEF SendPublishAck
  <2>3. AckPacket(ack, id) \in Packets
    BY <2>1 DEF AckPacket, Packets
  <2> HIDE DEF ack
  <2>4. /\ updated.records \in Records
        /\ Unique(updated.records)
        /\ updated.status \in AckStatuses
        /\ OutgoingAgree(recs) /\ IsPublishOutgoing(ack, "SEND") => OutgoingAgree(updated.records)
        /\ IncomingAgree(recs) /\ ~ IsPublishOutgoing(ack, "SEND") => IncomingAgree(updated.records)
    <3>1. "SEND" \in Operations
      BY DEF Operations
    <3>2. QED
      BY <2>1, <3>1, AckRecordKeeps
  <2> HIDE DEF updated
  <2>5. res.records = updated.records /\ res.status = updated.status
    BY <2>2
  <2>6. res.status \in Handlers
    BY <2>4, <2>5 DEF AckStatuses, Handlers, Statuses
  <2>7. res.sent \in AtMostOne(Packets)
    BY <2>2, <2>3 DEF AtMostOne
  <2>8. /\ state \notin {"PubAckSend", "PubRecSend", "PubCompSend"} => IsPublishOutgoing(ack, "SEND")
        /\ state # "PubRelSend" => ~ IsPublishOutgoing(ack, "SEND")
    BY <1>1, <1>3, <2>1
  <2>9. QED
    BY <2>4, <2>5, <2>6, <2>7, <2>8
<1>4. QED
  BY <1>2, <1>3

LEMMA OutcomeType ==
    ASSUME NEW status \in Handlers, NEW sent \in AtMostOne(Packets),
           NEW event \in AtMostOne(Packets)
    PROVE  Outcome(status, sent, event) \in Outcomes
BY DEF Outcome, Outcomes

LEMMA NoPacket == <<>> \in AtMostOne(Packets)
BY DEF AtMostOne

LEMMA OnePacket == ASSUME NEW p \in Packets PROVE <<p>> \in AtMostOne(Packets)
BY DEF AtMostOne

(* MQTT_Publish, new or resent.                                            *)
LEMMA PublishOutcomeKeeps ==
    ASSUME OutgoingOK(outgoing), NEW id \in PacketIds, NEW qos \in {1, 2},
           NEW dup \in BOOLEAN, NEW ok \in BOOLEAN
    PROVE  /\ OutgoingOK(PublishOutcome(id, qos, dup, ok).records)
           /\ PublishOutcome(id, qos, dup, ok).result \in Outcomes
<1> DEFINE reserved == AddRecord(outgoing, id, qos, "PublishSend")
           updated  == SentRecord(reserved.records, id, qos)
           outcome  == PublishOutcome(id, qos, dup, ok)
           refused  == reserved.status # "Success"
                          /\ ~ (reserved.status = "StateCollision" /\ dup)
<1>1. /\ OutgoingOK(reserved.records)
      /\ reserved.status \in {"Success", "StateCollision", "NoMemory"}
  <2>1. qos \in QoS /\ "PublishSend" \in PublishStates
    BY DEF QoS, PublishStates, OutgoingQoS1
  <2>2. /\ Extends(reserved.records, outgoing, NewRecord(id, qos, "PublishSend"))
        /\ reserved.status \in {"Success", "StateCollision", "NoMemory"}
    BY <2>1, AddRecordKeeps DEF OutgoingOK
  <2>3. OutgoingAgree(reserved.records)
    <3> HIDE DEF reserved
    <3>1. "PublishSend" \in OutgoingQoS1 /\ "PublishSend" \in OutgoingQoS2
      BY DEF OutgoingQoS1, OutgoingQoS2
    <3>2. QED
      BY <2>2, <3>1, ExtendsAgree DEF OutgoingOK, OutgoingAgree, NewRecord
  <2>4. QED
    BY <2>2, <2>3 DEF Extends, OutgoingOK
<1> HIDE DEF reserved
<1>2. /\ OutgoingOK(updated.records)
      /\ updated.status \in {"Success", "BadParameter", "IllegalState"}
  BY <1>1, SentRecordKeeps DEF OutgoingOK
<1> HIDE DEF updated
<1>3. PublishPacket(id, qos, dup) \in Packets
  BY DEF PublishPacket, Packets
<1>4. CASE refused
  <2>1. /\ outcome.records = reserved.records
        /\ outcome.result = Outcome(reserved.status, <<>>, <<>>)
    BY <1>4 DEF PublishOutcome, reserved
  <2>2. reserved.status \in Handlers
    BY <1>1 DEF Handlers, Statuses
  <2>3. QED
    BY <1>1, <2>1, <2>2, OutcomeType, NoPacket
<1>5. CASE ~ refused /\ ~ ok
  <2>1. /\ outcome.records = reserved.records
        /\ outcome.result = Outcome("SendFailed", <<>>, <<>>)
    BY <1>5 DEF PublishOutcome, reserved
  <2>2. "SendFailed" \in Handlers
    BY DEF Handlers
  <2>3. QED
    BY <1>1, <2>1, <2>2, OutcomeType, NoPacket
<1>6. CASE ~ refused /\ ok
  <2>1. /\ outcome.records = updated.records
        /\ outcome.result = Outcome(updated.status, <<PublishPacket(id, qos, dup)>>, <<>>)
    BY <1>6 DEF PublishOutcome, reserved, updated
  <2>2. updated.status \in Handlers
    BY <1>2 DEF Handlers, Statuses
  <2>3. QED
    BY <1>2, <1>3, <2>1, <2>2, OutcomeType, NoPacket, OnePacket
<1>7. QED
  BY <1>4, <1>5, <1>6

(* handlePublishAcks on either array.                                      *)
LEMMA AckOutcomeKeeps ==
    ASSUME NEW recs \in Records, Unique(recs), NEW ack \in AckTypes,
           NEW id \in PacketIds, NEW ok \in BOOLEAN
    PROVE  /\ AckOutcome(recs, ack, id, ok).records \in Records
           /\ Unique(AckOutcome(recs, ack, id, ok).records)
           /\ AckOutcome(recs, ack, id, ok).result \in Outcomes
           /\ OutgoingAgree(recs) /\ IsPublishOutgoing(ack, "RECEIVE") =>
                 OutgoingAgree(AckOutcome(recs, ack, id, ok).records)
           /\ IncomingAgree(recs) /\ ~ IsPublishOutgoing(ack, "RECEIVE") =>
                 IncomingAgree(AckOutcome(recs, ack, id, ok).records)
<1> DEFINE updated == AckRecord(recs, id, ack, "RECEIVE")
           state   == CalculateStateAck(ack, "RECEIVE", IF ack = "PUBACK" THEN 1 ELSE 2)
           acked   == SendPublishAck(updated.records, id, state, ok)
           outcome == AckOutcome(recs, ack, id, ok)
<1>1. /\ updated.records \in Records
      /\ Unique(updated.records)
      /\ updated.status \in AckStatuses
      /\ OutgoingAgree(recs) /\ IsPublishOutgoing(ack, "RECEIVE") => OutgoingAgree(updated.records)
      /\ IncomingAgree(recs) /\ ~ IsPublishOutgoing(ack, "RECEIVE") => IncomingAgree(updated.records)
  <2>1. "RECEIVE" \in Operations
    BY DEF Operations
  <2>2. QED
    BY <2>1, AckRecordKeeps
<1> HIDE DEF updated
<1>2. /\ state \in {"PublishDone", "PubRelSend", "PubCompSend"}
      /\ IsPublishOutgoing(ack, "RECEIVE") => state # "PubCompSend"
      /\ ~ IsPublishOutgoing(ack, "RECEIVE") => state # "PubRelSend"
  <2>1. CASE ack = "PUBACK"
    BY <2>1 DEF CalculateStateAck, IsPublishOutgoing
  <2>2. CASE ack = "PUBREC"
    BY <2>2 DEF CalculateStateAck, IsPublishOutgoing
  <2>3. CASE ack = "PUBREL"
    BY <2>3 DEF CalculateStateAck, IsPublishOutgoing
  <2>4. CASE ack = "PUBCOMP"
    BY <2>4 DEF CalculateStateAck, IsPublishOutgoing
  <2>5. QED
    BY <2>1, <2>2, <2>3, <2>4 DEF AckTypes
<1> HIDE DEF state
<1>3. state \in PublishStates
  BY <1>2 DEF PublishStates, OutgoingQoS2, IncomingQoS2
<1>4. /\ acked.records \in Records
      /\ Unique(acked.records)
      /\ acked.status \in Handlers
      /\ acked.sent \in AtMostOne(Packets)
      /\ OutgoingAgree(updated.records) /\ state # "PubCompSend" => OutgoingAgree(acked.records)
      /\ IncomingAgree(updated.records) /\ state # "PubRelSend" => IncomingAgree(acked.records)
  BY <1>1, <1>2, <1>3, SendPublishAckKeeps
<1> HIDE DEF acked
<1>5. CASE updated.status # "Success"
  <2>1. /\ outcome.records = updated.records
        /\ outcome.result = Outcome(updated.status, <<>>, <<>>)
    BY <1>5 DEF AckOutcome, updated
  <2>2. updated.status \in Handlers
    BY <1>1 DEF AckStatuses, Handlers, Statuses
  <2>3. QED
    BY <1>1, <2>1, <2>2, OutcomeType, NoPacket
<1>6. CASE updated.status = "Success"
  <2>1. /\ outcome.records = acked.records
        /\ outcome.result = Outcome(acked.status, acked.sent, <<AckPacket(ack, id)>>)
    BY <1>6 DEF AckOutcome, updated, acked, state
  <2>2. AckPacket(ack, id) \in Packets
    BY DEF AckPacket, Packets
  <2>3. outcome.result \in Outcomes
    BY <1>4, <2>1, <2>2, OutcomeType, OnePacket
  <2>4. QED
    BY <1>1, <1>2, <1>4, <2>1, <2>3
<1>7. QED
  BY <1>5, <1>6

-----------------------------------------------------------------------------
(* The inductive invariant: findInRecord is only well defined on arrays    *)
(* whose ids are unique, and the transition tables only keep direction and *)
(* QoS apart on records that already agree, so the three go together.      *)
IInv == TypeOK /\ UniquePacketIds /\ HandshakeAgrees

LEMMA IInvParts ==
    IInv <=> /\ OutgoingOK(outgoing)
             /\ IncomingOK(incoming)
             /\ linkUp \in BOOLEAN
             /\ resend \in [kind : {"idle", "pubrel", "publish"}, cursor : 0..RecordCount,
                            given : SUBSET PacketIds]
             /\ result \in Outcomes
BY DEF IInv, TypeOK, UniquePacketIds, HandshakeAgrees, OutgoingOK, IncomingOK

LEMMA QuietType == Outcome("Success", <<>>, <<>>) \in Outcomes
<1>1. "Success" \in Handlers
  BY DEF Handlers, Statuses
<1>2. QED
  BY <1>1, OutcomeType, NoPacket

LEMMA LoopType ==
    /\ Idle \in [kind : {"idle", "pubrel", "publish"}, cursor : 0..RecordCount,
                 given : SUBSET PacketIds]
    /\ \A k \in {"pubrel", "publish"} :
         Loop(k) \in [kind : {"idle", "pubrel", "publish"}, cursor : 0..RecordCount,
                     given : SUBSET PacketIds]
BY RecordCountAssumption DEF Idle, Loop

(* MQTT_Init establishes the invariant.                                    *)
LEMMA InitInvariant == Init => IInv
<1> SUFFICES ASSUME Init PROVE IInv
  OBVIOUS
<1>1. OutgoingOK(outgoing) /\ IncomingOK(incoming)
  BY EmptyRecordsOK DEF Init
<1>2. QED
  BY <1>1, QuietType, LoopType DEF Init, IInv, TypeOK, UniquePacketIds, HandshakeAgrees,
     OutgoingOK, IncomingOK

(* Every handler, and a step that changes nothing, keeps it.               *)
LEMMA StepInvariant == IInv /\ [Next]_vars => IInv'
<1> DEFINE Loops == [kind : {"idle", "pubrel", "publish"}, cursor : 0..RecordCount,
                     given : SUBSET PacketIds]
<1> SUFFICES ASSUME IInv, [Next]_vars PROVE IInv'
  OBVIOUS
<1>1. OutgoingOK(outgoing) /\ IncomingOK(incoming) /\ linkUp \in BOOLEAN
      /\ resend \in Loops /\ result \in Outcomes
  BY IInvParts
<1>2. SUFFICES OutgoingOK(outgoing') /\ IncomingOK(incoming') /\ linkUp' \in BOOLEAN
               /\ resend' \in Loops /\ result' \in Outcomes
  BY DEF IInv, TypeOK, UniquePacketIds, HandshakeAgrees, OutgoingOK, IncomingOK
<1> HIDE DEF Loops
<1>3. ASSUME NEW id \in PacketIds, NEW ok \in BOOLEAN, NEW qos \in PublishQoS,
             NEW dup \in BOOLEAN, Publish(id, qos, dup, ok)
      PROVE  OutgoingOK(outgoing') /\ IncomingOK(incoming') /\ linkUp' \in BOOLEAN
               /\ resend' \in Loops /\ result' \in Outcomes
  <2>1. qos \in {1, 2}
    BY QoSAssumption
  <2>2. QED
    BY <1>1, <1>3, <2>1, PublishOutcomeKeeps DEF Publish
<1>4. ASSUME NEW id \in PacketIds, NEW ok \in BOOLEAN, NEW qos \in ReceiveQoS,
             NEW dup \in BOOLEAN, ReceivePublish(id, qos, dup, ok)
      PROVE  OutgoingOK(outgoing') /\ IncomingOK(incoming') /\ linkUp' \in BOOLEAN
               /\ resend' \in Loops /\ result' \in Outcomes
  <2> DEFINE state    == CalculateStatePublish("RECEIVE", qos)
             received == ReceivedRecord(incoming, id, qos)
             acked    == SendPublishAck(received.records, id, state, ok)
             packet   == PublishPacket(id, qos, dup)
  <2>1. qos \in {1, 2} /\ qos \in QoS
    BY QoSAssumption DEF QoS
  <2>2. /\ state \in PublishStates
        /\ state # "PubRelSend"
        /\ qos = 1 => state \in IncomingQoS1
        /\ qos = 2 => state \in IncomingQoS2
    BY <2>1 DEF CalculateStatePublish, PublishStates, IncomingQoS1, IncomingQoS2
  <2>3. received = AddRecord(incoming, id, qos, state)
    BY DEF ReceivedRecord
  <2> HIDE DEF state, received
  <2>4. /\ Extends(received.records, incoming, NewRecord(id, qos, state))
        /\ received.status \in {"Success", "StateCollision", "NoMemory"}
    BY <1>1, <2>1, <2>2, <2>3, AddRecordKeeps DEF IncomingOK
  <2>5. IncomingOK(received.records)
    BY <1>1, <2>1, <2>2, <2>4, ExtendsAgree DEF IncomingOK, IncomingAgree, NewRecord, Extends
  <2>6. IncomingOK(acked.records) /\ acked.status \in Handlers /\ acked.sent \in AtMostOne(Packets)
    BY <2>2, <2>5, SendPublishAckKeeps DEF IncomingOK
  <2> HIDE DEF acked
  <2>7. <<packet>> \in AtMostOne(Packets)
    BY <2>1, OnePacket DEF PublishPacket, Packets
  <2>8. received.status \in Handlers
    BY <2>4 DEF Handlers, Statuses
  <2> HIDE DEF packet
  <2>9. /\ outgoing' = outgoing /\ linkUp' = linkUp /\ resend' = resend
        /\ \/ /\ incoming' = acked.records
              /\ result' = Outcome(acked.status, acked.sent,
                              IF received.status = "Success" THEN <<packet>> ELSE <<>>)
           \/ /\ incoming' = received.records
              /\ result' = Outcome(received.status, <<>>, <<>>)
    BY <1>4 DEF ReceivePublish, acked, received, state, packet
  <2>10. result' \in Outcomes
    BY <2>6, <2>7, <2>8, <2>9, OutcomeType, NoPacket
  <2>11. QED
    BY <1>1, <2>5, <2>6, <2>9, <2>10
<1>5. ASSUME NEW id \in PacketIds, NEW ok \in BOOLEAN, NEW ack \in AckTypes,
             ReceiveOutgoingAck(ack, id, ok)
      PROVE  OutgoingOK(outgoing') /\ IncomingOK(incoming') /\ linkUp' \in BOOLEAN
               /\ resend' \in Loops /\ result' \in Outcomes
  BY <1>1, <1>5, AckOutcomeKeeps DEF ReceiveOutgoingAck, OutgoingOK
<1>6. ASSUME NEW id \in PacketIds, NEW ok \in BOOLEAN, ReceivePubrel(id, ok)
      PROVE  OutgoingOK(outgoing') /\ IncomingOK(incoming') /\ linkUp' \in BOOLEAN
               /\ resend' \in Loops /\ result' \in Outcomes
  <2>1. "PUBREL" \in AckTypes /\ ~ IsPublishOutgoing("PUBREL", "RECEIVE")
    BY DEF AckTypes, IsPublishOutgoing
  <2>2. QED
    BY <1>1, <1>6, <2>1, AckOutcomeKeeps DEF ReceivePubrel, IncomingOK
<1>7. CASE ConnectNewSession
  BY <1>1, <1>7, EmptyRecordsOK, QuietType DEF ConnectNewSession
<1>8. CASE ConnectSessionPresent
  BY <1>1, <1>8, LoopType, QuietType DEF ConnectSessionPresent, Loops
<1>9. ASSUME NEW ok \in BOOLEAN, ResendPubrel(ok)
      PROVE  OutgoingOK(outgoing') /\ IncomingOK(incoming') /\ linkUp' \in BOOLEAN
               /\ resend' \in Loops /\ result' \in Outcomes
  <2> DEFINE sel   == Selected
             acked == SendPublishAck(outgoing, sel.packetId, "PubRelSend", ok)
  <2>1. sel.packetId \in PacketIds /\ sel.cursor \in 0..RecordCount
    BY <1>1, <1>9, StateSelectType DEF ResendPubrel, Selected, Loops, OutgoingOK
  <2> HIDE DEF sel
  <2>2. "PubRelSend" \in PublishStates
    BY DEF PublishStates, OutgoingQoS2
  <2>3. OutgoingOK(acked.records) /\ acked.status \in Handlers /\ acked.sent \in AtMostOne(Packets)
    BY <1>1, <2>1, <2>2, SendPublishAckKeeps DEF OutgoingOK
  <2> HIDE DEF acked
  <2>4. /\ outgoing' = acked.records
        /\ result' = Outcome(acked.status, acked.sent, <<>>)
        /\ \/ /\ linkUp' = linkUp
              /\ resend' = [resend EXCEPT !.cursor = sel.cursor, !.given = @ \cup {sel.packetId}]
           \/ linkUp' = FALSE /\ resend' = Idle
        /\ incoming' = incoming
    BY <1>9 DEF ResendPubrel, acked, sel
  <2>5. resend' \in Loops
    <3>1. CASE resend' = Idle
      BY <3>1, LoopType DEF Loops
    <3>2. CASE resend' = [resend EXCEPT !.cursor = sel.cursor, !.given = @ \cup {sel.packetId}]
      <4>1. resend.given \cup {sel.packetId} \in SUBSET PacketIds
        BY <1>1, <2>1 DEF Loops
      <4>2. QED
        BY <1>1, <2>1, <3>2, <4>1 DEF Loops
    <3>3. QED
      BY <2>4, <3>1, <3>2
  <2>6. QED
    BY <1>1, <2>3, <2>4, <2>5, OutcomeType, NoPacket
<1>10. ASSUME NEW ok \in BOOLEAN, ResendPublish(ok)
      PROVE  OutgoingOK(outgoing') /\ IncomingOK(incoming') /\ linkUp' \in BOOLEAN
               /\ resend' \in Loops /\ result' \in Outcomes
  <2> DEFINE sel     == Selected
             at      == FindInRecord(outgoing, sel.packetId)
             qos     == outgoing[at].qos
             outcome == PublishOutcome(sel.packetId, qos, TRUE, ok)
  <2>1. /\ sel.packetId \in PacketIds
        /\ sel.cursor \in Slots
        /\ sel.cursor \in 0..RecordCount
        /\ Live(outgoing, sel.cursor)
    BY <1>1, <1>10, StateSelectType, PacketIdAssumption
    DEF ResendPublish, Selected, Loops, OutgoingOK, Live
  <2> HIDE DEF sel
  <2>2. at \in Slots /\ Live(outgoing, at)
    <3>1. Holds(outgoing, sel.packetId)
      BY <1>1, <1>10, <2>1, StateSelectType, PacketIdAssumption
      DEF ResendPublish, Selected, Loops, OutgoingOK, Holds, sel
    <3>2. QED
      BY <1>1, <2>1, <3>1, FoundSlot, PacketIdAssumption DEF OutgoingOK, Live
  <2>2a. qos \in {1, 2}
    <3> HIDE DEF at
    <3>1. QED
      BY <1>1, <2>2 DEF OutgoingOK, OutgoingAgree, Agree
  <2> HIDE DEF qos
  <2>3. OutgoingOK(outcome.records) /\ outcome.result \in Outcomes
    BY <1>1, <2>1, <2>2a, PublishOutcomeKeeps
  <2> HIDE DEF outcome
  <2>4. /\ outgoing' = outcome.records
        /\ result' = outcome.result
        /\ resend' = [resend EXCEPT !.cursor = sel.cursor, !.given = @ \cup {sel.packetId}]
        /\ incoming' = incoming /\ linkUp' = linkUp
    BY <1>10 DEF ResendPublish, outcome, qos, at, sel
  <2>5. resend' \in Loops
    BY <1>1, <2>1, <2>4 DEF Loops
  <2>6. QED
    BY <1>1, <2>3, <2>4, <2>5
<1>11. CASE ResendEnd
  BY <1>1, <1>11, LoopType, QuietType DEF ResendEnd, Loops
<1>12. CASE LinkDown
  BY <1>1, <1>12, QuietType DEF LinkDown
<1>13. CASE ResendAbandon
  BY <1>1, <1>13, LoopType, QuietType DEF ResendAbandon, Loops
<1>14. CASE Restart
  BY <1>1, <1>14, EmptyRecordsOK, LoopType, QuietType DEF Restart, Loops
<1>15. CASE UNCHANGED vars
  BY <1>1, <1>15 DEF vars
<1>16. QED
  BY <1>3, <1>4, <1>5, <1>6, <1>7, <1>8, <1>9, <1>10, <1>11, <1>12, <1>13, <1>14, <1>15
  DEF Next

THEOREM Invariance == Spec => []IInv
<1>1. QED
  BY InitInvariant, StepInvariant, PTL DEF Spec

(* The library's arrays, cursor and packets keep their types.              *)
THEOREM TypeCorrect == Spec => []TypeOK
<1>1. IInv => TypeOK
  BY DEF IInv
<1>2. QED
  BY <1>1, Invariance, PTL

(* No packet id has two live records in an array, whatever the application *)
(* publishes and the broker answers, with any number of records.           *)
THEOREM NoDuplicateRecord == Spec => []UniquePacketIds
<1>1. IInv => UniquePacketIds
  BY DEF IInv
<1>2. QED
  BY <1>1, Invariance, PTL

(* No acknowledgement moves a record out of the states of its QoS and      *)
(* direction.                                                              *)
THEOREM HandshakesStayInOrder == Spec => []HandshakeAgrees
<1>1. IInv => HandshakeAgrees
  BY DEF IInv
<1>2. QED
  BY <1>1, Invariance, PTL
=============================================================================
