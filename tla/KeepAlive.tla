------------------------------ MODULE KeepAlive ------------------------------
(* The part of core_mqtt.c that lives by the clock: sendPacket, recvExact, *)
(* discardPacket, receiveConnack, MQTT_Ping, handleKeepAlive and           *)
(* MQTT_ProcessLoop, under an application that calls them one at a time,   *)
(* over a connection whose other end may answer late, fall silent or close *)
(* it.  One tick is one unit of getTime, which wraps at ClockSize.         *)
EXTENDS Integers, Sequences, FiniteSetsExt

CONSTANTS
    ClockSize,            \* getTime counts modulo this (2^32 in the code)
    KeepAliveMs,          \* keepAliveIntervalSec, in ticks
    PingRespTimeout,      \* MQTT_PINGRESP_TIMEOUT_MS
    RecvPollingTimeout,   \* MQTT_RECV_POLLING_TIMEOUT_MS
    SendRetryTimeout,     \* MQTT_SEND_RETRY_TIMEOUT_MS
    ConnackTimeout,       \* timeoutMs of MQTT_Connect, above 0
    LoopTimeout,          \* timeoutMs of MQTT_ProcessLoop
    BufferSize,           \* networkBuffer.size
    Publishes,            \* incoming publishes: "PUBLISH1" (acknowledged) or "PUBLISH0", and their remaining length
    MaxUnread,            \* bound: packets waiting to be read
    MaxPause              \* bound: ticks between two steps of the device

ASSUME KeepAliveAssumption ==
    /\ ClockSize \in Nat \ {0}
    /\ {KeepAliveMs, PingRespTimeout, RecvPollingTimeout, SendRetryTimeout, ConnackTimeout,
        LoopTimeout, MaxUnread, MaxPause} \subseteq Nat
    /\ BufferSize \in Nat /\ BufferSize >= 2  \* a CONNACK fits
    /\ Publishes \subseteq [type: {"PUBLISH0", "PUBLISH1"}, length: Nat]

(* The values the configuration allows: positive time-outs, and publishes  *)
(* with a topic.                                                           *)
ASSUME OverrunAssumption ==
    /\ RecvPollingTimeout > 0 /\ SendRetryTimeout > 0 /\ LoopTimeout > 0
    /\ \A p \in Publishes : p.length > 0

OutgoingSize == 2         \* bytes of an outgoing packet (a PINGREQ has two)

VARIABLES
    now,                  \* getTime
    lastPacketTime, pingReqSendTimeMs, waitingForPingResp,
    connected,            \* MQTT_Connect succeeded, and the connection is still in use
    pc,                   \* where the running library call is, or "app"
    status,               \* what the last MQTT_Connect or MQTT_ProcessLoop returned
    entryTimeMs,          \* of the running loop or of receiveConnack
    remainingTimeMs,
    io,                   \* the running sendPacket or recvExact
    packet,               \* the packet being received
    stream,               \* packets whose first byte has arrived, unread
    requests,             \* answers the broker owes
    peer,                 \* the other end: "up", "silent" or "closed"
    sincePing,            \* history: ticks since the unanswered PINGREQ
    sinceEntry,           \* history: ticks since the process loop was entered
    torn,                 \* history: a packet was given up half read
    quiet                 \* ticks since the last step of the device

keepAlive == <<lastPacketTime, pingReqSendTimeMs, waitingForPingResp, connected>>
call == <<pc, status, entryTimeMs, remainingTimeMs, io, packet>>
network == <<stream, requests, peer>>
history == <<sincePing, sinceEntry, torn>>
vars == <<now, keepAlive, call, network, history, quiet>>

NoPacket == [type |-> "none", length |-> 0]
PacketTypes == {"CONNACK", "REFUSED", "PINGRESP", "PUBLISH0", "PUBLISH1"}
Sending == {"sendConnect", "sendPing", "sendAck", "sendPacket"}
Receiving == {"receive", "discard"}
Idle == [left |-> 0, done |-> 0, time |-> 0, start |-> 0]

(* Mutants: the difference taken without regard to the wrap.               *)
ElapsedUnsigned(later, start) == IF later >= start THEN later - start ELSE start - later
ElapsedSigned(later, start) == later - start

(* calculateElapsedTime: unsigned arithmetic, right across one wrap.       *)
Elapsed(later, start) == (later - start) % ClockSize

(* One run of sendPacket or recvExact over a number of bytes, from now on. *)
Transfer(size) == [left |-> size, done |-> 0, time |-> now, start |-> 0]

(* A call returns to the application; its locals are gone.                 *)
Return ==
    /\ pc' = "app"
    /\ io' = Idle
    /\ packet' = NoPacket
    /\ entryTimeMs' = 0
    /\ remainingTimeMs' = 0
    /\ sinceEntry' = 0
ReturnStatus(s) == Return /\ status' = s

Init ==
    /\ now = ClockSize - 1
    /\ lastPacketTime = 0 /\ pingReqSendTimeMs = 0
    /\ waitingForPingResp = FALSE /\ connected = FALSE
    /\ pc = "app" /\ status = "Success"
    /\ entryTimeMs = 0 /\ remainingTimeMs = 0
    /\ io = Idle /\ packet = NoPacket
    /\ stream = <<>> /\ requests = <<>> /\ peer = "closed"
    /\ sincePing = 0 /\ sinceEntry = 0 /\ torn = FALSE /\ quiet = 0

-----------------------------------------------------------------------------
(* The application: a connection, packets, process loops.  After a failed  *)
(* loop it gives the connection up, as subscribePublishLoop does; after a  *)
(* failed send it may still run a loop.                                    *)

Connect ==
    /\ pc = "app" /\ ~ connected
    /\ stream' = <<>> /\ requests' = <<>> /\ peer' = "up"
    /\ pc' = "sendConnect"
    /\ io' = Transfer(OutgoingSize)
    /\ torn' = FALSE
    /\ UNCHANGED <<keepAlive, status, entryTimeMs, remainingTimeMs, packet, sincePing, sinceEntry>>

SendPacket ==
    /\ pc = "app" /\ connected /\ status = "Success"
    /\ pc' = "sendPacket"
    /\ io' = Transfer(OutgoingSize)
    /\ UNCHANGED <<keepAlive, status, entryTimeMs, remainingTimeMs, packet, network, history>>

ProcessLoop ==
    /\ pc = "app" /\ connected /\ status = "Success"
    /\ pc' = "header"
    /\ entryTimeMs' = now
    /\ remainingTimeMs' = LoopTimeout
    /\ sinceEntry' = 0
    /\ UNCHANGED <<keepAlive, status, io, packet, network, sincePing, torn>>

(* MQTT_Disconnect, and the TLS connection closed after it.  The time that *)
(* sending the DISCONNECT may leave in lastPacketTime is set again by the  *)
(* CONNECT of the next connection before anything reads it.                *)
Disconnect ==
    /\ pc = "app" /\ connected
    /\ connected' = FALSE
    /\ stream' = <<>> /\ requests' = <<>> /\ peer' = "closed"
    /\ status' = "Success"
    /\ UNCHANGED <<lastPacketTime, pingReqSendTimeMs, waitingForPingResp, pc,
                   entryTimeMs, remainingTimeMs, io, packet, history>>

-----------------------------------------------------------------------------
(* sendPacket, one transport send at a time.                               *)

(* What the caller of sendPacket does once the whole packet is out.        *)
Sent ==
    \/ /\ pc = "sendConnect"
       /\ pc' = "connack"
       /\ entryTimeMs' = now
       /\ requests' = Append(requests, "CONNACK")
       /\ io' = Idle
       /\ UNCHANGED <<pingReqSendTimeMs, waitingForPingResp, remainingTimeMs, packet,
                      sincePing, sinceEntry>>
    \/ /\ pc = "sendPing"
       /\ pc' = "check"
       /\ pingReqSendTimeMs' = now
       /\ waitingForPingResp' = TRUE
       /\ requests' = Append(requests, "PINGRESP")
       /\ sincePing' = 0
       /\ io' = Idle
       /\ UNCHANGED <<entryTimeMs, remainingTimeMs, packet, sinceEntry>>
    \/ /\ pc = "sendAck"
       /\ pc' = "check"
       /\ io' = Idle
       /\ packet' = NoPacket
       /\ UNCHANGED <<pingReqSendTimeMs, waitingForPingResp, requests, entryTimeMs,
                      remainingTimeMs, sincePing, sinceEntry>>
    \/ /\ pc = "sendPacket"
       /\ Return
       /\ UNCHANGED <<pingReqSendTimeMs, waitingForPingResp, requests, sincePing>>

SendSome(k) ==
    /\ pc \in Sending /\ peer # "closed" /\ k <= io.left
    /\ IF k = io.left
       THEN Sent /\ lastPacketTime' = now
       ELSE /\ io' = [io EXCEPT !.left = @ - k, !.done = @ + k, !.time = now]
            /\ UNCHANGED <<lastPacketTime, pingReqSendTimeMs, waitingForPingResp, pc, requests,
                           entryTimeMs, remainingTimeMs, packet, sincePing, sinceEntry>>
    /\ UNCHANGED <<connected, status, stream, peer, torn>>

(* The packet is given up.  A failed packet of the application leaves what *)
(* the last loop returned; the others end their loop or MQTT_Connect.      *)
(* Behind a half-sent packet the broker understands nothing more.          *)
GiveUpSending ==
    /\ Return
    /\ status' = IF pc = "sendPacket" THEN status ELSE "SendFailed"
    /\ peer' = IF io.done > 0 /\ peer = "up" THEN "silent" ELSE peer
    /\ UNCHANGED <<pingReqSendTimeMs, waitingForPingResp, connected, stream, requests,
                   sincePing, torn>>

SendNothing ==
    /\ pc \in Sending
    /\ IF Elapsed(now, io.time) >= SendRetryTimeout
       THEN /\ GiveUpSending
            /\ lastPacketTime' = IF io.done > 0 THEN io.time ELSE lastPacketTime
       ELSE UNCHANGED <<keepAlive, call, network, history>>

SendFails == pc \in Sending /\ GiveUpSending /\ UNCHANGED lastPacketTime

-----------------------------------------------------------------------------
(* MQTT_GetIncomingPacketTypeAndLength, in receiveConnack ("connack") and  *)
(* in receiveSingleIteration ("header").                                   *)

ReadNothing ==
    /\ stream = <<>> /\ peer # "closed"
    /\ \/ /\ pc = "header"
          /\ pc' = "keepAlive"
          /\ UNCHANGED <<status, entryTimeMs, remainingTimeMs, io, packet, sinceEntry>>
       \/ /\ pc = "connack"
          /\ IF Elapsed(now, entryTimeMs) >= ConnackTimeout
             THEN ReturnStatus("NoDataAvailable")
             ELSE UNCHANGED <<call, sinceEntry>>
    /\ UNCHANGED <<keepAlive, network, sincePing, torn>>

ReadFails ==
    /\ pc \in {"header", "connack"} /\ stream = <<>> /\ peer = "closed"
    /\ ReturnStatus("RecvFailed")
    /\ UNCHANGED <<keepAlive, network, sincePing, torn>>

(* The type has arrived and the length has not, which is an error; as is,  *)
(* in receiveConnack, a packet that is no CONNACK.                         *)
ReadBadHeader ==
    /\ pc \in {"header", "connack"} /\ stream # <<>>
    /\ ReturnStatus("BadResponse")
    /\ torn' = TRUE
    /\ stream' = Tail(stream)
    /\ UNCHANGED <<keepAlive, requests, peer, sincePing>>

-----------------------------------------------------------------------------
(* A whole packet is in the buffer: deserialised and handled.              *)

(* Mutant: the flag of the connection before survives.                     *)
ConnackKeepsFlag ==
    /\ connected' = TRUE
    /\ pingReqSendTimeMs' = 0
    /\ ReturnStatus("Success")
    /\ UNCHANGED <<waitingForPingResp, sincePing>>

ConnackAccepted ==
    /\ connected' = TRUE
    /\ waitingForPingResp' = FALSE
    /\ pingReqSendTimeMs' = 0
    /\ sincePing' = 0
    /\ ReturnStatus("Success")

Handle(p) ==
    \/ /\ p.type = "CONNACK"
       /\ ConnackAccepted
    \/ /\ p.type = "REFUSED"
       /\ ReturnStatus("ServerRefused")
       /\ UNCHANGED <<pingReqSendTimeMs, waitingForPingResp, connected, sincePing>>
    \/ /\ p.type = "PINGRESP"
       /\ waitingForPingResp' = FALSE
       /\ sincePing' = 0
       /\ pc' = "check" /\ io' = Idle /\ packet' = NoPacket
       /\ UNCHANGED <<pingReqSendTimeMs, connected, status, entryTimeMs, remainingTimeMs, sinceEntry>>
    \/ /\ p.type \in {"PUBLISH0", "PUBLISH1"}
       /\ IF p.type = "PUBLISH1"
          THEN pc' = "sendAck" /\ io' = Transfer(OutgoingSize)
          ELSE pc' = "check" /\ io' = Idle
       /\ packet' = NoPacket
       /\ UNCHANGED <<pingReqSendTimeMs, waitingForPingResp, connected, status,
                      entryTimeMs, remainingTimeMs, sincePing, sinceEntry>>

(* receivePacket: what fits the buffer is read and handled, the rest is    *)
(* read through the buffer and dropped.                                    *)
ReadHeader ==
    /\ pc \in {"header", "connack"} /\ stream # <<>>
    /\ LET p == Head(stream) IN
       /\ pc = "connack" => p.type \in {"CONNACK", "REFUSED"}
       /\ IF p.length = 0
          THEN Handle(p)
          ELSE /\ packet' = p
               /\ pc' = IF p.length > BufferSize THEN "discard" ELSE "receive"
               /\ io' = [Transfer(Min({p.length, BufferSize})) EXCEPT
                             !.start = IF p.length > BufferSize THEN now ELSE 0]
               /\ UNCHANGED <<pingReqSendTimeMs, waitingForPingResp, connected, status,
                              entryTimeMs, remainingTimeMs, sincePing, sinceEntry>>
    /\ stream' = Tail(stream)
    /\ UNCHANGED <<lastPacketTime, requests, peer, torn>>

-----------------------------------------------------------------------------
(* recvExact, one transport recv at a time.  io.done counts the bytes of   *)
(* the packet, and io.start is when discardPacket was entered.             *)

(* Mutant: a packet that could not be dropped whole is no error.           *)
TearUnnoticed ==
    /\ IF pc = "discard" THEN /\ pc' = "check" /\ io' = Idle /\ packet' = NoPacket
                              /\ UNCHANGED <<status, entryTimeMs, remainingTimeMs, sinceEntry>>
                         ELSE ReturnStatus("RecvFailed")
    /\ torn' = TRUE
    /\ UNCHANGED <<keepAlive, network, sincePing>>

(* Reading stops within the packet.                                        *)
TearPacket ==
    /\ ReturnStatus("RecvFailed")
    /\ torn' = TRUE
    /\ UNCHANGED <<keepAlive, network, sincePing>>

(* recvExact has filled what it was asked for.                             *)
DiscardChunk(done) ==
    \/ /\ done = packet.length
       /\ pc' = "check" /\ io' = Idle /\ packet' = NoPacket
       /\ UNCHANGED <<keepAlive, status, entryTimeMs, remainingTimeMs, network, history>>
    \/ /\ done < packet.length
       /\ IF Elapsed(now, io.start) >= remainingTimeMs
          THEN TearPacket
          ELSE /\ io' = [left |-> Min({BufferSize, packet.length - done}), done |-> done,
                         time |-> now, start |-> io.start]
               /\ UNCHANGED <<keepAlive, pc, status, entryTimeMs, remainingTimeMs, packet,
                              network, history>>

RecvSome(k) ==
    /\ pc \in Receiving /\ k <= io.left
    /\ IF k < io.left
       THEN /\ io' = [io EXCEPT !.left = @ - k, !.done = @ + k, !.time = now]
            /\ UNCHANGED <<keepAlive, pc, status, entryTimeMs, remainingTimeMs, packet,
                           network, history>>
       ELSE \/ /\ pc = "receive"
               /\ Handle(packet)
               /\ UNCHANGED <<lastPacketTime, network, torn>>
            \/ /\ pc = "discard"
               /\ DiscardChunk(io.done + k)

(* Mutant: recvExact waits for ever for the rest of a packet.              *)
RecvNothingWaits ==
    /\ pc \in Receiving /\ peer # "closed"
    /\ UNCHANGED <<keepAlive, call, network, history>>

RecvNothing ==
    /\ pc \in Receiving /\ peer # "closed"
    /\ IF Elapsed(now, io.time) >= RecvPollingTimeout
       THEN TearPacket
       ELSE UNCHANGED <<keepAlive, call, network, history>>

RecvFails == pc \in Receiving /\ peer = "closed" /\ TearPacket

-----------------------------------------------------------------------------
(* Mutant: a PINGREQ without an answer is not looked at again.             *)
PingOnly ==
    /\ pc = "keepAlive"
    /\ IF waitingForPingResp \/ Elapsed(now, lastPacketTime) <= KeepAliveMs
       THEN pc' = "check" /\ UNCHANGED io
       ELSE pc' = "sendPing" /\ io' = Transfer(OutgoingSize)
    /\ UNCHANGED <<keepAlive, status, entryTimeMs, remainingTimeMs, packet, network, history>>

(* handleKeepAlive, after a read that found nothing.                       *)
HandleKeepAlive ==
    /\ pc = "keepAlive"
    /\ IF KeepAliveMs = 0 \/ Elapsed(now, lastPacketTime) <= KeepAliveMs
       THEN pc' = "check" /\ UNCHANGED <<status, entryTimeMs, remainingTimeMs, io, packet, sinceEntry>>
       ELSE \/ /\ ~ waitingForPingResp
               /\ pc' = "sendPing"
               /\ io' = Transfer(OutgoingSize)
               /\ UNCHANGED <<status, entryTimeMs, remainingTimeMs, packet, sinceEntry>>
            \/ /\ waitingForPingResp
               /\ IF Elapsed(now, pingReqSendTimeMs) > PingRespTimeout
                  THEN ReturnStatus("KeepAliveTimeout")
                  ELSE pc' = "check"
                       /\ UNCHANGED <<status, entryTimeMs, remainingTimeMs, io, packet, sinceEntry>>
    /\ UNCHANGED <<keepAlive, network, sincePing, torn>>

(* The end of an iteration of MQTT_ProcessLoop.                            *)
CheckTime ==
    /\ pc = "check"
    /\ LET elapsed == Elapsed(now, entryTimeMs) IN
       IF elapsed >= LoopTimeout
       THEN ReturnStatus("Success")
       ELSE /\ pc' = "header"
            /\ remainingTimeMs' = LoopTimeout - elapsed
            /\ UNCHANGED <<status, entryTimeMs, io, packet, sinceEntry>>
    /\ UNCHANGED <<keepAlive, network, sincePing, torn>>

-----------------------------------------------------------------------------
(* The other end, and time.                                                *)

Arrives(p) ==
    /\ peer = "up" /\ Len(stream) < MaxUnread
    /\ stream' = Append(stream, p)

Answer ==
    /\ requests # <<>>
    /\ \/ Head(requests) = "CONNACK" /\ \E t \in {"CONNACK", "REFUSED"} : Arrives([type |-> t, length |-> 2])
       \/ Head(requests) = "PINGRESP" /\ Arrives([type |-> "PINGRESP", length |-> 0])
    /\ requests' = Tail(requests)
    /\ UNCHANGED peer

Deliver ==
    /\ connected
    /\ \E p \in Publishes : Arrives(p)
    /\ UNCHANGED <<requests, peer>>

FallSilent == peer = "up" /\ peer' = "silent" /\ UNCHANGED <<stream, requests>>
Close == peer # "closed" /\ peer' = "closed" /\ UNCHANGED <<stream, requests>>

Broker ==
    /\ Answer \/ Deliver \/ FallSilent \/ Close
    /\ UNCHANGED <<now, keepAlive, call, history, quiet>>

Tick ==
    /\ quiet < MaxPause
    /\ quiet' = quiet + 1
    /\ now' = (now + 1) % ClockSize
    /\ sincePing' = IF waitingForPingResp THEN Min({sincePing + 1, ClockSize}) ELSE 0
    /\ sinceEntry' = IF pc \in {"app", "sendConnect", "connack", "sendPacket"} \/ ~ connected
                     THEN 0 ELSE Min({sinceEntry + 1, ClockSize})
    /\ UNCHANGED <<keepAlive, call, network, torn>>

(* A step of the running call, and a step of the device.                   *)
InCall ==
    \/ \E k \in 1..OutgoingSize : SendSome(k)
    \/ SendNothing \/ SendFails
    \/ ReadNothing \/ ReadFails \/ ReadBadHeader \/ ReadHeader
    \/ \E k \in 1..BufferSize : RecvSome(k)
    \/ RecvNothing \/ RecvFails
    \/ HandleKeepAlive \/ CheckTime

Timed(A) == A /\ quiet' = 0 /\ UNCHANGED now

Next ==
    \/ Timed(InCall) \/ Timed(Connect) \/ Timed(SendPacket)
    \/ Timed(ProcessLoop) \/ Timed(Disconnect)
    \/ Broker \/ Tick

Spec == Init /\ [][Next]_vars

(* The processor goes on with a running call, the application goes on      *)
(* calling the process loop and gives up a connection whose loop failed,   *)
(* and time passes.                                                        *)
FairSpec ==
    /\ Spec
    /\ WF_vars(Timed(InCall)) /\ WF_vars(Tick)
    /\ WF_vars(Timed(ProcessLoop))
    /\ WF_vars(Timed(Disconnect) /\ status # "Success")

-----------------------------------------------------------------------------
(* Every variable has its type, and no locals outlive their call.          *)
Times == 0..(ClockSize - 1)
TypeOK ==
    /\ now \in Times /\ lastPacketTime \in Times /\ pingReqSendTimeMs \in Times
    /\ waitingForPingResp \in BOOLEAN /\ connected \in BOOLEAN /\ torn \in BOOLEAN
    /\ pc \in {"app", "connack", "header", "keepAlive", "check"} \cup Sending \cup Receiving
    /\ status \in {"Success", "SendFailed", "RecvFailed", "BadResponse", "ServerRefused",
                   "NoDataAvailable", "KeepAliveTimeout"}
    /\ entryTimeMs \in Times /\ remainingTimeMs \in 0..LoopTimeout
    /\ io \in [left: Nat, done: Nat, time: Times, start: Times]
    /\ (io.left > 0) = (pc \in Sending \cup Receiving)
    /\ packet \in [type: PacketTypes \cup {"none"}, length: Nat]
    /\ (packet.type # "none") = (pc \in Receiving)
    /\ stream \in Seq([type: PacketTypes, length: Nat])
    /\ requests \in Seq({"CONNACK", "PINGRESP"})
    /\ peer \in {"up", "silent", "closed"}

(* The flag waitingForPingResp is set exactly while one PINGRESP is owed   *)
(* or on its way: handleKeepAlive never has two PINGREQs out, and a flag   *)
(* from the connection before never condemns a new one.                    *)
PingsMatch ==
    connected /\ ~ torn =>
        Cardinality({i \in DOMAIN requests : requests[i] = "PINGRESP"})
            + Cardinality({i \in DOMAIN stream : stream[i].type = "PINGRESP"})
        = IF waitingForPingResp THEN 1 ELSE 0

(* MQTT_GetIncomingPacketTypeAndLength never reads inside a packet that    *)
(* was given up half read: every such failure reaches the application.     *)
HeadersInStep == pc \in {"header", "connack"} => ~ torn

(* How long one iteration of a process loop may take.  There is a pause    *)
(* before it reads and one before it looks at its timeout; recvExact and   *)
(* sendPacket bound the wait for each byte of a publish and of what is     *)
(* sent; without a publish there is a pause before the keep-alive.         *)
ReceiveWait == RecvPollingTimeout - 1 + MaxPause
SendWait == SendRetryTimeout - 1 + MaxPause
Readings == {MaxPause} \cup {p.length * ReceiveWait : p \in Publishes}
IterationMayTake(n) ==
    \E reading \in Readings : n <= 2 * MaxPause + reading + OutgoingSize * SendWait

(* A process loop overruns its timeout by one iteration at the most.       *)
OverrunBounded == IterationMayTake(sinceEntry - (LoopTimeout - 1))

(* MQTT_ProcessLoop returns MQTTSuccess only after its timeout, by the     *)
(* real time and not by a clock that wrapped.                              *)
SuccessTakesTimeout ==
    [][pc = "check" /\ pc' = "app" => sinceEntry >= LoopTimeout]_vars

(* A loop fails with MQTTKeepAliveTimeout only after a PINGREQ of this     *)
(* connection went unanswered for longer than the timeout.                 *)
TimeoutJustified ==
    [][status # "KeepAliveTimeout" /\ status' = "KeepAliveTimeout" =>
           waitingForPingResp /\ sincePing > PingRespTimeout]_vars

(* An application that only runs process loops on a connection whose other *)
(* end fell silent is told so, and gives the connection up.                *)
SilenceNoticed ==
    (connected /\ peer = "silent") ~> (~ connected \/ pc = "sendPacket")

(* The comment of MQTT_PINGRESP_TIMEOUT_MS, core_mqtt_config_defaults.h    *)
(* lines 100-101: without an answer before this timeout, the process loop  *)
(* returns MQTTKeepAliveTimeout.                                           *)
PingTimeoutHonoured ==
    [][pc = "keepAlive" /\ pc' # "keepAlive" /\ waitingForPingResp
           /\ sincePing > PingRespTimeout => status' = "KeepAliveTimeout"]_vars
=============================================================================
