--------------------------- MODULE HandshakeLists ---------------------------
(***************************************************************************)
(* What the publish records of an MQTT client promise, without arrays,     *)
(* empty slots or compaction: two ordered lists of unfinished handshakes,  *)
(* of at most Capacity entries each.  An entry is added at the end, moves  *)
(* along the handshake of its QoS and leaves when that handshake is over.  *)
(* Only a PUBREC changes the order: it sends its entry to the end.         *)
(***************************************************************************)
EXTENDS Naturals, Sequences

CONSTANTS Capacity, PacketIds

VARIABLES out, in

lists == <<out, in>>

Entry(id, qos, state) == [packetId |-> id, qos |-> qos, publishState |-> state]

Accepts(list, id) ==
    /\ Len(list) < Capacity
    /\ \A k \in 1..Len(list) : list[k].packetId # id

Without(list, k) == SubSeq(list, 1, k - 1) \o SubSeq(list, k + 1, Len(list))

(* The lists that differ from list by the step named, in one entry.        *)
Moved(list, from, to) ==
    {[list EXCEPT ![k].publishState = to] :
        k \in {k \in 1..Len(list) : list[k].publishState = from}}

MovedToEnd(list, from, to) ==
    {Append(Without(list, k), [list[k] EXCEPT !.publishState = to]) :
        k \in {k \in 1..Len(list) : list[k].publishState = from}}

Completed(list, from) ==
    {Without(list, k) : k \in {k \in 1..Len(list) : list[k].publishState \in from}}

-----------------------------------------------------------------------------
Init == out = <<>> /\ in = <<>>

(* An outgoing publish, sent at once or still to be sent.                  *)
Publish(id, qos) ==
    /\ Accepts(out, id)
    /\ \E state \in {"PublishSend", IF qos = 1 THEN "PubAckPending" ELSE "PubRecPending"} :
          out' = Append(out, Entry(id, qos, state))
    /\ UNCHANGED in

(* Its handshake: PUBLISH, PUBACK or PUBLISH, PUBREC, PUBREL, PUBCOMP.      *)
Send ==
    /\ \/ out' \in {[out EXCEPT ![k].publishState =
                        IF out[k].qos = 1 THEN "PubAckPending" ELSE "PubRecPending"] :
                     k \in {k \in 1..Len(out) : out[k].publishState = "PublishSend"}}
       \/ out' \in MovedToEnd(out, "PubRecPending", "PubRelSend")
       \/ out' \in MovedToEnd(out, "PubRecPending", "PubCompPending")
       \/ out' \in Moved(out, "PubRelSend", "PubCompPending")
       \/ out' \in Completed(out, {"PubAckPending", "PubCompPending"})
    /\ UNCHANGED in

(* An incoming publish whose acknowledgement does not end its handshake.   *)
Accept(id) ==
    /\ Accepts(in, id)
    /\ in' \in {Append(in, Entry(id, 1, "PubAckSend")),
                Append(in, Entry(id, 2, "PubRecSend")),
                Append(in, Entry(id, 2, "PubRelPending"))}
    /\ UNCHANGED out

Receive ==
    /\ \/ in' \in Moved(in, "PubRecSend", "PubRelPending")
       \/ in' \in Moved(in, "PubRelPending", "PubCompSend")
       \/ in' \in Completed(in, {"PubAckSend", "PubRelPending", "PubCompSend"})
    /\ UNCHANGED out

NewSession == out' = <<>> /\ in' = <<>>

Next ==
    \/ \E id \in PacketIds : Accept(id) \/ \E qos \in {1, 2} : Publish(id, qos)
    \/ Send
    \/ Receive
    \/ NewSession

Spec == Init /\ [][Next]_lists
=============================================================================
