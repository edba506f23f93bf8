----------------------------- MODULE MCPackets ------------------------------
(* An instance of Packets: every combination of the optional fields, at    *)
(* their shortest, and strings at the limits of one and two length bytes;  *)
(* every short stream over the bytes that decide something.                *)
EXTENDS Packets

LOCAL Text(n) == [i \in 1 .. n |-> 65]
LOCAL Words(alphabet, n) == UNION {[1 .. k -> alphabet] : k \in 0 .. n}

LOCAL Wills == {<<>>} \union
    {<<[topic |-> Text(1), payload |-> p, qos |-> q, retain |-> r]>> :
        p \in {<<>>, Text(2), Text(65535), Text(65536)}, q \in 0 .. 2, r \in BOOLEAN}

MCConnects ==
    [kind : {"CONNECT"}, cleanSession : BOOLEAN, keepAlive : {0, 60, 65535},
     clientId : {Text(1)}, will : Wills, userName : {<<>>, <<Text(1)>>}, password : {<<>>, <<Text(2)>>}]
    \union
    [kind : {"CONNECT"}, cleanSession : {TRUE}, keepAlive : {60},
     clientId : {<<>>, Text(115), Text(116)}, will : {<<>>}, userName : {<<>>}, password : {<<>>}]

LOCAL Filters(qos) == [filter : {<<>>, Text(1), Text(300)}, qos : qos]
LOCAL Lists(qos) == Words(Filters(qos), 2)
MCSubscriptions ==
    [kind : {"SUBSCRIBE"}, packetId : {0, 1, 256, 65535}, list : Lists({0, 2})]
    \union [kind : {"UNSUBSCRIBE"}, packetId : {0, 1, 65535}, list : Lists({0, 2})]

MCPublishes ==
    [kind : {"PUBLISH"}, packetId : {0, 1, 65535}, qos : {1, 2}, retain : BOOLEAN, dup : BOOLEAN,
     topic : {<<>>, Text(1), Text(259)}, payload : {<<>>, Text(1), Text(123)}]
    \union
    [kind : {"PUBLISH"}, packetId : {0, 7}, qos : {0}, retain : BOOLEAN, dup : BOOLEAN,
     topic : {<<>>, Text(1)}, payload : {<<>>, Text(124), Text(125), Text(16381)}]

MCAcks == [kind : {"ACK"}, type : PublishAcks \union {Type.UNSUBACK}, packetId : {0, 1, 256, 65535}]

(* Sums around the limits of each size of the length field.                *)
LOCAL Near == UNION {(n - 12) .. (n + 4) : n \in {128, 16384, 2097152, 268435455}}
MCLengths ==
    [kind : {"publish lengths"}, topic : {1, 65535}, payload : Near \union {n - 65539 : n \in Near \ 0 .. 65538},
     qos : 0 .. 2]
    \union
    [kind : {"subscription lengths"}, count : {1, 4096}, total : Near \union {n - 12290 : n \in Near \ 0 .. 12289},
     qosSize : {0, 1}]

LOCAL Framed(types, bodies) == {<<t>> \o EncodeRemainingLength(Len(b)) \o b : t \in types, b \in bodies}
MCStreams ==
    Framed(48 .. 63, Words({0, 1, 2}, 6))
    \union Framed({32, 33, 64, 67, 80, 98, 96, 106, 112, 144, 145, 176, 208, 224, 16},
                  Words({0, 1, 5, 6, 128}, 4))
    \union {<<48>> \o length \o <<0, 0, 0>> : length \in Words({0, 3, 127, 128, 131, 255}, 5)}
    \union {<<>>, <<48>>}

MCRooms == {-1, 0, 5}

MCTopicNames == Words({"a", "/", "$"}, 3) \ {<<>>}
MCTopicFilters == Words({"a", "/", "+", "#"}, 4) \ {<<>>}
=============================================================================
