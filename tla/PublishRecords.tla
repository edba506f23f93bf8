--------------------------- MODULE PublishRecords ---------------------------
(***************************************************************************)
(* The publish state engine of coreMQTT, core_mqtt_state.c, as operators.  *)
(*                                                                         *)
(* The library keeps one array of records per direction.  A record holds   *)
(* the packet id of a QoS 1 or QoS 2 publish, its QoS and where its        *)
(* handshake stands; a slot whose packet id is MQTT_PACKET_ID_INVALID is    *)
(* empty.  Deleting a record erases only its packet id: the QoS and the    *)
(* state of the deleted record stay in the slot, here as in the code.      *)
(*                                                                         *)
(* C arrays start at 0, the functions here at 1.                           *)
(***************************************************************************)
EXTENDS Naturals, FiniteSets

CONSTANTS
    RecordCount,    (* MQTT_STATE_ARRAY_MAX_COUNT                          *)
    PacketIds,      (* the valid (non-zero) packet identifiers             *)
    NoPacketId      (* MQTT_PACKET_ID_INVALID                              *)

ASSUME RecordCountAssumption == RecordCount \in Nat \ {0}
ASSUME PacketIdAssumption    == NoPacketId \notin PacketIds

Slots == 1..RecordCount

-----------------------------------------------------------------------------
(* Handshake states, acknowledgement packets and return codes              *)

OutgoingQoS1 == {"PublishSend", "PubAckPending"}
OutgoingQoS2 == {"PublishSend", "PubRecPending", "PubRelSend", "PubCompPending"}
IncomingQoS1 == {"PubAckSend"}
IncomingQoS2 == {"PubRecSend", "PubRelPending", "PubCompSend"}

PublishStates == {"Null", "PublishDone"} \cup OutgoingQoS1 \cup OutgoingQoS2
                    \cup IncomingQoS1 \cup IncomingQoS2

AckTypes   == {"PUBACK", "PUBREC", "PUBREL", "PUBCOMP"}
Operations == {"SEND", "RECEIVE"}
QoS        == 0..2

Statuses == {"Success", "NoMemory", "StateCollision", "IllegalState",
             "BadParameter", "BadResponse"}

(* The searchStates bitmaps of the two resend iterators.                   *)
PublishResendStates == {"PublishSend", "PubAckPending", "PubRecPending"}
PubrelResendStates  == {"PubCompPending", "PubRelSend"}

-----------------------------------------------------------------------------
(* The record arrays                                                       *)

Record  == [packetId : PacketIds \cup {NoPacketId}, qos : QoS,
            publishState : PublishStates]
Records == [Slots -> Record]

EmptyRecord  == [packetId |-> NoPacketId, qos |-> 0, publishState |-> "Null"]
EmptyRecords == [i \in Slots |-> EmptyRecord]

Live(recs, i)   == recs[i].packetId # NoPacketId
Holds(recs, id) == \E i \in Slots : recs[i].packetId = id

(* The slot findInRecord stops at, when the array holds the id.            *)
FindInRecord(recs, id) ==
    CHOOSE i \in Slots : /\ recs[i].packetId = id
                         /\ \A j \in 1..(i - 1) : recs[j].packetId # id

(* How many live records there are up to slot i: where compaction puts it. *)
Rank(recs, i) == Cardinality({j \in 1..i : Live(recs, j)})

(* Mutant: emptyIndex is not advanced, every later record lands in one slot.*)
CompactWithoutAdvance(recs) ==
    LET Displaced(j) == Live(recs, j) /\ Rank(recs, j) < j
        AtHole(i)    == ~ Live(recs, i) /\ Rank(recs, i) = i - 1
    IN  [i \in Slots |->
            IF AtHole(i) /\ \E j \in Slots : Displaced(j)
            THEN recs[CHOOSE j \in Slots : Displaced(j) /\ \A k \in Slots : Displaced(k) => k <= j]
            ELSE IF Displaced(i) THEN [recs[i] EXCEPT !.packetId = NoPacketId]
            ELSE recs[i]]

(* Move the live records to the front, in order.  What is left behind them *)
(* only has its packet id erased.                                          *)
CompactRecords(recs) ==
    [i \in Slots |->
        IF \E j \in Slots : Live(recs, j) /\ Rank(recs, j) = i
        THEN recs[CHOOSE j \in Slots : Live(recs, j) /\ Rank(recs, j) = i]
        ELSE [recs[i] EXCEPT !.packetId = NoPacketId]]

(* The slot after the last live record, RecordCount + 1 when there is none.*)
FirstFree(recs) ==
    CHOOSE i \in 1..(RecordCount + 1) :
        /\ \A j \in i..RecordCount : ~ Live(recs, j)
        /\ i = 1 \/ Live(recs, i - 1)

AppendRecord(recs, at, id, qos, state) ==
    IF at > RecordCount
    THEN [records |-> recs, status |-> "NoMemory"]
    ELSE [records |-> [recs EXCEPT ![at] =
                          [packetId |-> id, qos |-> qos, publishState |-> state]],
          status  |-> "Success"]

(* Mutant: a full last slot is an array without room.                      *)
AddWithoutCompaction(recs, id, qos, state) ==
    IF Holds(recs, id)
    THEN [records |-> recs, status |-> "StateCollision"]
    ELSE AppendRecord(recs, FirstFree(recs), id, qos, state)

(* Mutant: the search from the end stops at the first live record.         *)
AddWithShortSearch(recs, id, qos, state) ==
    LET base == IF Live(recs, RecordCount) THEN CompactRecords(recs) ELSE recs
        at   == FirstFree(base)
    IN  IF at > 1 /\ base[at - 1].packetId = id
        THEN [records |-> base, status |-> "StateCollision"]
        ELSE AppendRecord(base, at, id, qos, state)

(* Mutant: the first empty slot is used, even one before a live record.    *)
AddInFirstHole(recs, id, qos, state) ==
    LET hole == CHOOSE i \in 1..(RecordCount + 1) :
                   /\ \A j \in 1..(i - 1) : Live(recs, j)
                   /\ i = RecordCount + 1 \/ ~ Live(recs, i)
    IN  IF Holds(recs, id)
        THEN [records |-> recs, status |-> "StateCollision"]
        ELSE AppendRecord(recs, hole, id, qos, state)

(* addRecord: a full last slot makes room by compaction first; the new     *)
(* record goes after every live one, so array order is the order of adding.*)
AddRecord(recs, id, qos, state) ==
    LET base == IF Live(recs, RecordCount) THEN CompactRecords(recs) ELSE recs
        at   == FirstFree(base)
    IN  IF Holds(base, id)
        THEN [records |-> base, status |-> "StateCollision"]
        ELSE AppendRecord(base, at, id, qos, state)

(* updateRecord, its shouldDelete flag split into two operators.           *)
DeleteRecord(recs, i) == [recs EXCEPT ![i].packetId = NoPacketId]
SetRecordState(recs, i, state) == [recs EXCEPT ![i].publishState = state]

-----------------------------------------------------------------------------
(* The transition tables                                                   *)

(* MQTT_CalculateStatePublish for a QoS 1 or QoS 2 publish.                *)
CalculateStatePublish(op, qos) ==
    CASE qos = 0 -> "PublishDone"
      [] qos = 1 -> IF op = "SEND" THEN "PubAckPending" ELSE "PubAckSend"
      [] qos = 2 -> IF op = "SEND" THEN "PubRecPending" ELSE "PubRecSend"

(* MQTT_CalculateStateAck: Null when the acknowledgement and QoS disagree. *)
CalculateStateAck(ack, op, qos) ==
    IF qos # (IF ack = "PUBACK" THEN 1 ELSE 2) THEN "Null"
    ELSE CASE ack \in {"PUBACK", "PUBCOMP"} -> "PublishDone"
           [] ack = "PUBREC" -> IF op = "SEND" THEN "PubRelPending" ELSE "PubRelSend"
           [] ack = "PUBREL" -> IF op = "SEND" THEN "PubCompPending" ELSE "PubCompSend"

(* validateTransitionPublish *)
ValidTransitionPublish(current, new, op, qos) ==
    \/ current = "Null" /\ op = "RECEIVE" /\ new \in {"PubAckSend", "PubRecSend"}
    \/ current = "PublishSend" /\ qos = 1 /\ new = "PubAckPending"
    \/ current = "PublishSend" /\ qos = 2 /\ new = "PubRecPending"
    \/ current \in {"PubAckPending", "PubRecPending"} /\ new = current

(* validateTransitionAck, as the set of its valid pairs.                   *)
AckTransitions ==
    { <<"PubAckSend", "PublishDone">>,       <<"PubAckPending", "PublishDone">>,
      <<"PubRecSend", "PubRelPending">>,     <<"PubRelPending", "PubCompSend">>,
      <<"PubRelPending", "PubRelPending">>,  <<"PubCompSend", "PublishDone">>,
      <<"PubCompSend", "PubCompSend">>,      <<"PubRecPending", "PubRelSend">>,
      <<"PubRelSend", "PubCompPending">>,    <<"PubCompPending", "PublishDone">>,
      <<"PubCompPending", "PubCompPending">> }

ValidTransitionAck(current, new) == <<current, new>> \in AckTransitions

(* Does this acknowledgement concern an outgoing publish?                  *)
IsPublishOutgoing(ack, op) ==
    \/ ack \in {"PUBACK", "PUBREC", "PUBCOMP"} /\ op = "RECEIVE"
    \/ ack = "PUBREL" /\ op = "SEND"

-----------------------------------------------------------------------------
(* The operations of the state engine on one array.  Each returns the new  *)
(* array and the status of the call; an id is a valid packet id.           *)

(* Mutant: the record of a received PUBREC is added back with QoS 1.        *)
UpdateAckWithQoS1(recs, i, new) ==
    IF ~ ValidTransitionAck(recs[i].publishState, new)
    THEN [records |-> recs, status |-> "IllegalState"]
    ELSE IF recs[i].publishState = new
    THEN [records |-> recs, status |-> "Success"]
    ELSE IF new = "PublishDone"
    THEN [records |-> DeleteRecord(recs, i), status |-> "Success"]
    ELSE IF new = "PubRelSend"
    THEN AddRecord(DeleteRecord(recs, i), recs[i].packetId, 1, "PubRelSend")
    ELSE [records |-> SetRecordState(recs, i, new), status |-> "Success"]

(* updateStateAck.  A completed handshake is deleted.  A received PUBREC    *)
(* moves its record behind all others, for PUBRELs are resent in the order *)
(* their PUBRECs came; that second half can fail on its own.               *)
UpdateStateAck(recs, i, new) ==
    IF ~ ValidTransitionAck(recs[i].publishState, new)
    THEN [records |-> recs, status |-> "IllegalState"]
    ELSE IF recs[i].publishState = new
    THEN [records |-> recs, status |-> "Success"]
    ELSE IF new = "PublishDone"
    THEN [records |-> DeleteRecord(recs, i), status |-> "Success"]
    ELSE IF new = "PubRelSend"
    THEN AddRecord(DeleteRecord(recs, i), recs[i].packetId, 2, "PubRelSend")
    ELSE [records |-> SetRecordState(recs, i, new), status |-> "Success"]

(* MQTT_UpdateStateAck on the array the acknowledgement is about.          *)
AckRecord(recs, id, ack, op) ==
    IF ~ Holds(recs, id)
    THEN [records |-> recs, status |-> "BadResponse"]
    ELSE LET i == FindInRecord(recs, id)
         IN  UpdateStateAck(recs, i, CalculateStateAck(ack, op, recs[i].qos))

(* Mutant: the state of a publish that was sent is not updated.            *)
SentWithoutUpdate(recs, id, qos) == [records |-> recs, status |-> "Success"]

(* MQTT_UpdateStatePublish for an outgoing publish that was just sent.     *)
SentRecord(recs, id, qos) ==
    LET i   == FindInRecord(recs, id)
        new == CalculateStatePublish("SEND", qos)
    IN  IF ~ Holds(recs, id) \/ recs[i].qos # qos
        THEN [records |-> recs, status |-> "BadParameter"]
        ELSE IF ~ ValidTransitionPublish(recs[i].publishState, new, "SEND", qos)
        THEN [records |-> recs, status |-> "IllegalState"]
        ELSE [records |-> SetRecordState(recs, i, new), status |-> "Success"]

(* Mutant: the incoming publish enters the state of an outgoing one.       *)
ReceivedAsSent(recs, id, qos) ==
    AddRecord(recs, id, qos, CalculateStatePublish("SEND", qos))

(* MQTT_UpdateStatePublish for an incoming publish: never looked up, the   *)
(* transition is from Null.                                                *)
ReceivedRecord(recs, id, qos) ==
    AddRecord(recs, id, qos, CalculateStatePublish("RECEIVE", qos))

(* stateSelect.  A cursor is the number of slots already passed.  The test *)
(* reads the state of a slot and not whether the slot is live.             *)
Selectable(recs, states, cursor) ==
    {i \in Slots : i > cursor /\ recs[i].publishState \in states}

SelectStep(recs, states, cursor, passed) ==
    IF Selectable(recs, states, cursor) = {}
    THEN [packetId |-> NoPacketId, cursor |-> RecordCount]
    ELSE LET i == CHOOSE i \in Selectable(recs, states, cursor) :
                     \A j \in Selectable(recs, states, cursor) : i <= j
         IN  [packetId |-> recs[i].packetId, cursor |-> passed[i]]

(* Mutants: the cursor is advanced twice past a match, or once per call.   *)
SelectAdvancingTwice(recs, states, cursor) ==
    SelectStep(recs, states, cursor, [i \in Slots |-> i + 1])
SelectAdvancingByCall(recs, states, cursor) ==
    SelectStep(recs, states, cursor, [i \in Slots |-> cursor + 1])

StateSelect(recs, states, cursor) ==
    SelectStep(recs, states, cursor, [i \in Slots |-> i])

-----------------------------------------------------------------------------
(* What the operations above keep of an array, whoever calls them.         *)

Unique(recs) ==
    \A i, j \in Slots :
        Live(recs, i) /\ recs[i].packetId = recs[j].packetId => i = j

Agree(recs, one, two) ==
    \A i \in Slots : Live(recs, i) =>
        \/ recs[i].qos = 1 /\ recs[i].publishState \in one
        \/ recs[i].qos = 2 /\ recs[i].publishState \in two

OutgoingAgree(recs) == Agree(recs, OutgoingQoS1, OutgoingQoS2)
IncomingAgree(recs) == Agree(recs, IncomingQoS1, IncomingQoS2)
=============================================================================
