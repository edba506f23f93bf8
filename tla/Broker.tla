------------------------------- MODULE Broker -------------------------------
(***************************************************************************)
(* What the device talks to, none of it in the repository: a TLS           *)
(* connection and, at its other end, an MQTT 3.1.1 broker.                 *)
(*                                                                         *)
(* The connection delivers in order each way until it is lost.  What the   *)
(* device wrote before that may still reach the broker, until the device   *)
(* connects again; what the broker wrote is gone.  The broker keeps the    *)
(* session of a client that connected without asking for a clean one: its  *)
(* subscription, and the publishes that client has not acknowledged, which *)
(* it sends again on the next connection.                                  *)
(***************************************************************************)
EXTENDS Naturals, Sequences, FiniteSets, SequencesExt

CONSTANTS
    Inbound,        (* messages other clients publish on the topic         *)
    InboundIds,     (* packet ids the broker gives them                    *)
    Faults,         (* what the environment does wrong in this instance,   *)
    MaxFaults       (* and how often: a bound of the model                 *)

AllFaults ==
    {"break",       (* the connection is lost                              *)
     "send",        (* a send times out on a connection that stays up      *)
     "late",        (* an answer comes after the device stopped waiting    *)
     "connack",     (* a CONNACK does, or its connection is lost           *)
     "reject",      (* subscriptions may be refused, however often         *)
     "expire",      (* the broker drops the session of an absent client    *)
     "restart"}     (* the device loses power                              *)

ASSUME FaultsAssumption == Faults \subseteq AllFaults /\ MaxFaults \in Nat

VARIABLES
    connected,      (* the device holds a connection                       *)
    toBroker,       (* packets on their way to the broker                  *)
    toDevice,       (* packets on their way to the device                  *)
    session,        (* what the broker keeps of the client                 *)
    arrived,        (* messages of the device, in order of first arrival   *)
    settled,        (* inbound messages the broker got a PUBACK for        *)
    faultsLeft      (* faults still to come                                *)

brokerVars == <<connected, toBroker, toDevice, session, arrived, settled, faultsLeft>>

(* online: the connection got its CONNECT.  durable: the session outlives  *)
(* the connection.  unacked: inbound publishes, and whether each was sent  *)
(* on this connection.                                                     *)
NoSession == [online |-> FALSE, durable |-> FALSE, subscribed |-> FALSE,
              unacked |-> {}]

BrokerInit ==
    /\ connected = FALSE
    /\ toBroker = <<>>
    /\ toDevice = <<>>
    /\ session = NoSession
    /\ arrived = <<>>
    /\ settled = {}
    /\ faultsLeft = MaxFaults

-----------------------------------------------------------------------------
(* The connection, as the device's actions use it.                         *)

Open(packet) ==
    /\ connected' = TRUE
    /\ toBroker' = <<packet>>
    /\ toDevice' = <<>>
    /\ session' = [session EXCEPT !.online = FALSE]
    /\ UNCHANGED <<arrived, settled, faultsLeft>>

Close ==
    /\ connected' = FALSE
    /\ toDevice' = <<>>

Fault(f) == f \in Faults /\ faultsLeft > 0 /\ faultsLeft' = faultsLeft - 1
NoFault  == UNCHANGED faultsLeft

(* A send succeeds on a connection, and fails without one.                 *)
Sends(ok) ==
    \/ ok = connected /\ NoFault
    \/ ~ ok /\ connected /\ Fault("send")

-----------------------------------------------------------------------------
(* The broker                                                              *)

Offered == settled \cup {e.message : e \in session.unacked}

(* Answers reach a device that still holds the connection.                 *)
Answer(packets) == toDevice' = IF connected THEN toDevice \o packets ELSE toDevice

BrokerConnect(packet) ==
    LET present == ~ packet.clean /\ session.durable
    IN  /\ session' = [online     |-> TRUE,
                       durable    |-> ~ packet.clean,
                       subscribed |-> present /\ session.subscribed,
                       unacked    |-> IF present
                                      THEN {[e EXCEPT !.sent = FALSE] : e \in session.unacked}
                                      ELSE {}]
        /\ Answer(<<[type |-> "CONNACK", present |-> present]>>)
        /\ UNCHANGED <<arrived, settled>>

BrokerPublish(packet) ==
    /\ arrived' = IF \E i \in 1..Len(arrived) : arrived[i] = packet.message
                  THEN arrived
                  ELSE Append(arrived, packet.message)
    /\ Answer(<<[type |-> "PUBACK", packetId |-> packet.packetId]>>)
    /\ UNCHANGED <<session, settled>>

BrokerSubscribe(packet) ==
    \E accept \in BOOLEAN :
        /\ accept \/ "reject" \in Faults
        /\ session' = [session EXCEPT !.subscribed = @ \/ accept]
        /\ Answer(<<[type |-> "SUBACK", packetId |-> packet.packetId,
                     granted |-> accept]>>)
        /\ UNCHANGED <<arrived, settled>>

BrokerUnsubscribe(packet) ==
    /\ session' = [session EXCEPT !.subscribed = FALSE]
    /\ Answer(<<[type |-> "UNSUBACK", packetId |-> packet.packetId]>>)
    /\ UNCHANGED <<arrived, settled>>

BrokerPuback(packet) ==
    LET done == {e \in session.unacked : e.packetId = packet.packetId}
    IN  /\ session' = [session EXCEPT !.unacked = @ \ done]
        /\ settled' = settled \cup {e.message : e \in done}
        /\ UNCHANGED <<arrived, toDevice>>

(* Packets are taken in order, except that another request need not wait   *)
(* for a publish the broker is still storing.                              *)
Receivable(i) ==
    i = 1 \/ (/\ toBroker[i].type # "PUBLISH"
              /\ \A j \in 1..(i - 1) : toBroker[j].type = "PUBLISH")

BrokerReceive == \E i \in 1..Len(toBroker) :
    /\ Receivable(i)
    /\ LET packet == toBroker[i]
       IN  \/ packet.type = "CONNECT" /\ BrokerConnect(packet) /\ NoFault
           \/ packet.type = "PUBLISH" /\ BrokerPublish(packet) /\ NoFault
           \/ packet.type = "SUBSCRIBE" /\ BrokerSubscribe(packet) /\ NoFault
           \/ packet.type = "UNSUBSCRIBE" /\ BrokerUnsubscribe(packet) /\ NoFault
           \/ packet.type = "PUBACK" /\ BrokerPuback(packet) /\ NoFault
    /\ toBroker' = RemoveAt(toBroker, i)
    /\ UNCHANGED connected

(* A message for the subscribed client, under a packet id that is free.    *)
BrokerDeliver(message, id) ==
    /\ connected /\ session.online /\ session.subscribed
    /\ message \notin Offered
    /\ \A e \in session.unacked : e.packetId # id
    /\ session' = [session EXCEPT !.unacked = @ \cup
                      {[packetId |-> id, message |-> message, sent |-> TRUE]}]
    /\ Answer(<<[type |-> "PUBLISH", packetId |-> id, message |-> message,
                 dup |-> FALSE]>>)
    /\ UNCHANGED <<connected, toBroker, arrived, settled, faultsLeft>>

(* A publish the client did not acknowledge on an earlier connection.      *)
BrokerRedeliver ==
    /\ connected /\ session.online
    /\ \E e \in session.unacked :
          /\ ~ e.sent
          /\ session' = [session EXCEPT !.unacked = (@ \ {e}) \cup {[e EXCEPT !.sent = TRUE]}]
          /\ Answer(<<[type |-> "PUBLISH", packetId |-> e.packetId,
                       message |-> e.message, dup |-> TRUE]>>)
    /\ UNCHANGED <<connected, toBroker, arrived, settled, faultsLeft>>

BrokerExpire ==
    /\ Fault("expire")
    /\ ~ connected
    /\ session.durable
    /\ toBroker = <<>>
    /\ session' = NoSession
    /\ UNCHANGED <<connected, toBroker, toDevice, arrived, settled>>

BrokerNext ==
    \/ BrokerReceive
    \/ \E message \in Inbound, id \in InboundIds : BrokerDeliver(message, id)
    \/ BrokerRedeliver
    \/ BrokerExpire
=============================================================================
