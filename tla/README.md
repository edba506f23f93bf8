# Verification of the ESP32 MQTT sensor and dimmer firmware

This directory holds TLA+ specifications of the firmware in this repository,
the TLC configurations that check them and the proofs that TLAPS checks. The
firmware runs on an ESP32: it reads a DHT sensor, publishes each reading to
AWS IoT (a Greengrass core) over MQTT with QoS 1, and drives an AC dimmer from
mains zero-cross interrupts.

## Inventory

| Component | Source | State it keeps | Operations |
|---|---|---|---|
| Publish state engine of coreMQTT | `core_mqtt_state.c` | two record arrays (packet id, QoS, handshake state), one per direction | reserve, update on send, update on acknowledgement, two resend iterators |
| coreMQTT client | `core_mqtt.c` | record arrays, next packet id, keep-alive times and flag | connect, publish, subscribe, unsubscribe, disconnect, process loop and its packet handlers |
| MQTT task | `main.c` (`aws_iot_demo`), `mqtt_demo_mutual_auth.c` | table of stored publishes, ids of the last SUBSCRIBE and UNSUBSCRIBE, SUBACK status, session flag | one iteration: read, connect, resume, subscribe, publish, unsubscribe, disconnect; the event callback |
| Back-off | `backoff_algorithm.c` | attempts done, next jitter bound | initialise, next back-off |
| AC dimmer | `main.c` | level, enable flag, one-shot timer, event queue | start-up, zero-cross interrupt, timer interrupt, control task, set level |
| Wi-Fi start-up | `wifi.c` | retry count, event group with two bits, registered handlers | event handler, wait for the outcome, unregistration |
| DHT22 driver | `DHT22.c` | last temperature and humidity | read and decode 40 bits |
| TLS transport | `network_transport.c` | TLS handle, mutex | connect, disconnect, send, receive |
| Serializer | `core_mqtt_serializer.c` | none | sizes, bytes and validation of packets, both ways |
| Topic matching | `core_mqtt.c` | none | match a topic name against a filter |
| Application start | `main.c` (`app_main`, `DHT_reader_task`) | none of its own | dimmer, Wi-Fi, MQTT task, last change of the level; the document that is published |
| PID controller | `ac_dimmer.c` | PID terms | not called by the program |

How they interact. One FreeRTOS task runs `aws_iot_demo`. It calls the sensor
driver, then the TLS transport, then coreMQTT, which calls back into
`eventCallback` for each packet it receives while a process loop runs. There is
no second thread in the MQTT path: what makes it hard is the broker and the
network, which answer late, twice, in another order or not at all, and the two
tables, the library's records and the task's stored payloads, that must agree
over connections. The dimmer is the concurrent part: two interrupts and two
tasks share its variables.

What makes each part correct:

- *State engine*: no packet id has two live records; a record is always in a
  state of its own direction and QoS; it leaves only when its handshake is over;
  array order is the order of issue; the iterators return every pending packet.
- *MQTT task*: a payload reported as sent is stored or has arrived; what is
  stored can be found by the library and the other way round; iterations end;
  answers match requests.
- *Back-off*: each sleep is within the documented bound of its attempt; the
  attempts end; each connection loop starts afresh.
- *Dimmer*: dark until it is enabled; a half wave under unchanged settings is cut
  exactly where the level says, whatever alarm the one before left behind.
- *Wi-Fi*: the wait ends unless the station itself hangs, and with a failure
  only when the retries are used up; no late event touches the deleted event group.
- *Sensor*: a reading reported as good is what the sensor measured.
- *TLS handle*: no context is left without the handle that can destroy it.
- *Serializer*: what a broker reads is what the application gave; sizes and bytes
  agree; what is accepted from the wire has one form only.

## Modules

| Module | What it models |
|---|---|
| `PublishRecords` | every function of `core_mqtt_state.c`, as operators on a record array |
| `MqttClient` | the handlers of `core_mqtt.c` that use the records, as actions any application and any broker may drive |
| `HandshakeLists` | abstract: two ordered, bounded lists of unfinished handshakes |
| `KeepAlive` | the timed part of `core_mqtt.c`: sends and receives in pieces, packet reception, keep-alive, the process loop, over a clock that wraps |
| `Broker` | external: the TLS connection and an MQTT 3.1.1 broker with sessions |
| `DemoSession` | the MQTT task, over `MqttClient` (instanced) and `Broker` (extended) |
| `AtLeastOnce` | abstract: what the device promises about its payloads |
| `Dimmer` | `dimmer_init`, both interrupts, the hardware timer, the control task and `set_dimmer_level` |
| `Wifi` | `initialise_wifi` and its event handler, over a station driver that posts events |
| `Dht22` | `readDHT`, from counted pulses to values and status |
| `Backoff`, `TlsTransport` | the back-off context; the TLS handle |
| `Board` | `app_main` over all five: start-up, the connection loop, the iterations of the MQTT task |
| `RemainingLength`, `PacketBytes` | the length field; types, bits and 16-bit fields of packets |
| `Serializer`, `Deserializer` | the two halves of `core_mqtt_serializer.c` |
| `TopicMatch` | `MQTT_MatchTopic`, and what MQTT 3.1.1 says of filters |
| `WireReader` | external: how a broker reads a packet |
| `Packets` | the calls in their order: size, serialise, send; receive, frame, deserialise; match |
| `NaturalRecursion` | recursive functions over the naturals and over the rounds of a loop exist, for proofs |
| `MqttClientProofs`, `MqttClientStepProofs`, `DemoSessionProofs`, `KeepAliveProofs`, `BoardProofs`, `PacketsProofs`, `TopicMatchProofs` | theorems |
| `MCMqttClient`, `MCDemoSession`, `MCKeepAlive`, `MCBoard`, `MCPackets` | instances for TLC |

### State and actions

`PublishRecords`: a slot is a record of packet id, QoS and state, as
`MQTTPubAckInfo_t`. Deleting resets the packet id only, as `updateRecord` and
`compactRecords` do; the state that stays behind is what the resend iterators
trip over. A cursor is the number of slots passed.

`MqttClient`: `outgoing` and `incoming` are the two arrays; `resend` is the
resend loop that runs after CONNACK (first PUBRELs, inside `MQTT_Connect`, then
publishes, in the application), with its cursor; `linkUp` is the transport;
`result` records what the last handler returned, sent and reported. Each
handler is one action; the outcome of its send is the parameter `ok`. The
library is single threaded, so a handler is never interrupted.

`DemoSession`: `pc` names the call of `subscribePublishLoop` the task is in.
`table` is `outgoingPublishPackets` (a set: the slot a payload is in changes
nothing, as every search is by packet id); `payloads` numbers the payloads in
the order they were made; `accepted` remembers those `publishToTopic` reported
as sent. In the four process loops one packet is handled per step, and the loop
ends when nothing is on its way or, as a fault, before (the 1.5 s timeout).
`Client == INSTANCE MqttClient` supplies every change of the records, so the
task can reach them only through the library's own actions.

`Broker`: packets are taken in order, except that another request need not wait
for a publish the broker is still storing (MQTT orders PUBACKs among
themselves only). What the device wrote before a lost connection may still be
taken, until it connects again.

`KeepAlive`: `pc` names the place in the running call, at the grain of one
transport send or receive, so that time passes and the other end acts between
any two of them. `io` holds the locals of the running `sendPacket`, `recvExact`
or `discardPacket` (bytes left, bytes done, time of the last data, entry time).
The clock counts modulo `ClockSize`; `sincePing` and `sinceEntry` remember the
true times and are only read by properties, as is `torn`, which says that a
packet was given up half read. What a packet says is left to `MqttClient`; here
a publish is acknowledged or not and has a length. A header may have arrived in
part, which the code takes for a bad response. The application gives a
connection up after a failed loop and may go on after a failed send, as
`subscribePublishLoop` does. The resent PUBRELs of `MQTT_Connect` are in
`MqttClient`.

`Dimmer`: time is counted in ticks between falling edges of the zero-cross
input. `dimmer_init` is one action per step, so that an edge may fall between
any two of them: the interrupt is registered (inside `GpioInit`) before the
timer exists and before the flag is cleared. Both interrupts run on the core of
`app_main`, which registers them, so they do not nest and each is one action;
the task that sets the level takes the spinlock of the zero-cross interrupt.
`steady` remembers whether level and flag are still those of the last edge.

`Wifi`: `wifiEvents` is the queue of the default event loop, a task of its own:
the link may change, and `initialise_wifi` may unregister and delete, while an
event waits. `esp_wifi_connect` has no effect while a connection is on. `tries`
remembers the calls since the last address.

`Dht22`: a read is one action, as nothing else uses the sensor or its globals
meanwhile. An interrupt may take turns from one counted high pulse; a pulse that
is lost altogether, or a sensor that is absent, is a time-out.

`Board`: `taskStep` names where `aws_iot_demo` is. A session is one action here;
`DemoSession` is its inside. `reconnectParams` and `nextRetryBackOff` are locals
of the connection loop and are reset where it starts and ends. Sleeps are not
timed: their length never decides what happens next.

`Packets`: each call is an action and uses what the call before it gave, as the
callers in `core_mqtt.c` do. A string is a sequence of bytes; what may be NULL is
a sequence of at most one element. Arguments the code refuses as NULL are left
out: no caller in the library passes them. Requests of enormous length are
measured (`GetSizeOfLengths`) and not written out.

Mutants: an operator whose comment starts with "Mutant" is a broken form of the
definition after it. No specification uses them; they show that a property
would notice the bug.

## Runs

| Run | Instance | Result |
|---|---|---|
| `client` | 3 slots, 4 packet ids, QoS 1 and 2 both ways | types, unique ids, agreement of QoS and state, records leave when done, refused only when full, each packet once per resend round, refinement of `HandshakeLists` |
| `demo_publish` | 3 payloads, table of 2, 3 slots, 2 faults of any kind, refusals without bound | stored payloads have records, PUBACKs are expected, answers match requests, the task is a user `MqttClient` allows for, refinement of `AtLeastOnce`, each iteration ends |
| `demo_inbound` | 2 inbound messages under one packet id, table of 1, 3 faults | what was acknowledged was reported |
| `keep_alive` | clock of 9 ticks, keep-alive 3, PINGRESP timeout 1, a publish of 1 byte and one of 3 with a buffer of 2 | types, the flag agrees with the PINGRESP on its way, headers in step, bounded overrun, a loop that succeeds lasted its timeout, a keep-alive timeout was one |
| `keep_alive_silence` | clock of 11, keep-alive 1, no publishes, `FairSpec` | a silent connection is given up |
| `board` | half wave of 5 ticks, 2 Wi-Fi retries, 5 connection attempts, two sensor values, `FairSpec` | dimmer cuts where it should and is dark before, failure of Wi-Fi means failure, nothing touches the deleted group, nobody reconnects, good readings are true, back-off within its schedule, no TLS context is left, documents only of settings the dimmer runs at, the sensor is read for ever unless the station hangs in the wait for Wi-Fi |
| `packets` | every combination of optional fields at short and boundary lengths, streams of up to 8 bytes, names of 3 and filters of 4 characters | sizes and bytes agree and fit the buffer, a broker reads what was given, limits are exact, one form per accepted packet, SUBACK codes, topic matching |
| `ping_timeout` | as `keep_alive` | violated: see Findings |
| `demo_starved`, `demo_unstored`, `demo_resubscribe`, `demo_unseen` | only the faults the case needs | violated: see Findings |

`client` explores the two directions one at a time (`OneDirectionSpec`): no
handler touches both arrays, and the product would only repeat each of them.

Bounds. Three slots are the fewest with a hole before, between and after live
records, so that compaction moves a record over another's stale state; a fourth
packet id makes a full array refuse a publish. `MAX_OUTGOING_PUBLISHES` is 5 and
`MQTT_STATE_ARRAY_MAX_COUNT` 10 in the code: tables of 1 or 2 beside 2 or 3
slots keep the table the smaller one, as there. `MaxPacketId` (65535 in the
code) is 5 in `demo_publish`, so that ids wrap around onto stored ones.
`MaxPayloads` bounds the payloads; the iterations go on without one
(`PublishNothing`). `MaxFaults` bounds the faults of one behaviour; a refused
subscription is not counted. Two faults are enough for two payloads to be stored
at once, and for a power loss after each other fault; the findings need at most
three.

`KeepAlive`: a tick may pass before each step of the device (`MaxPause` 1), and
one packet waits unread at the most. The clock must be longer than any time the
code compares, as 2^32 ms is: in `keep_alive` 9 ticks exceed the longest process
loop (`OverrunBounded` gives 8), and the run starts on the last tick before the
wrap. In `keep_alive_silence` it is 11, since a wait that straddles a wrap is
seen as short for two ticks twice a round, after the last packet and after the
PINGREQ, and the idle iterations are up to four ticks apart; with fewer the
model finds a device that looks only at those moments, which takes 49.7 days of
it on the real clock.

`Board`: a half wave of 5 ticks with a least delay of 1 has a delay for each
tick, and levels 100, 50 and 35 fall on different ones; a queue of one event is
full as soon as the control task is late (10 in the code, where it takes a task
starved for 83 ms). Two edges stand for the 120 of each start-up delay: the
first is enough for what was armed before the flag was cleared to come due. Two
retries have a first, a last and a reset between; the base, maximum and attempts
of the back-off are those of the code, and the two random numbers the extremes
of `rand`. One hit bit (the sign of the temperature) over two frames and two cut
lengths, of which one turns a 1 into a 0.

`Packets`: topic names have up to three characters and filters up to four, over
the characters that are told apart; other strings are at most two bytes long, or
around the lengths where the length field grows, or of 65535 and 65536 bytes; the
measured lengths surround each limit up to 268435455. Streams hold every body of
up to six bytes over 0, 1 and 2 under each PUBLISH byte, every body of up to four
bytes over the values a CONNACK or SUBACK distinguishes under fifteen other type
bytes, and length fields of up to five bytes, complete or not.

Fairness (`FairSpec` of `Board`): tasks are scheduled, time passes (`Dimmer`
counts it between edges of the mains) and posted events are handled. Nothing is
assumed of the station, the access point or the server. The wait of
`initialise_wifi` has no time-out (`wifi.c:82-86`), so `SensorReadForever` names
its one exception, `HeldByStation`: a station that from some point on neither
fails nor gets an address, with an access point that never answers DHCP say,
keeps `app_main` from creating the MQTT task. Without the exception TLC shows
just that. A station that fails, or loses its link at any time, is no exception.

Fairness (`FairSpec` of `DemoSession`): weak fairness of the task, which is scheduled and whose
waits are all timed; weak fairness of the broker's answers; strong fairness of
the broker storing a payload that is sent to it again and again. Nothing is
assumed of faults: they are bounded, so they end, which is the condition of the
liveness properties. `EveryIterationEnds` would hold without the strong part.

Fairness (`FairSpec` of `KeepAlive`): a running call goes on, time passes, the
application calls the process loop again and gives up a connection whose loop
failed. Nothing is assumed of the other end.

`demo_inbound` excludes one fault on purpose, a CONNACK that is lost or late:
with it the property is false, which `demo_unseen` shows.

## Proofs

Every theorem holds for all values of the constants that the named assumptions
of the modules admit; the runs show the same properties on small instances.

### The client

For every number of slots, set of packet ids and choice of QoS
(`MqttClientProofs`):

- `TypeCorrect`: `Spec => []TypeOK` of `MqttClient`.
- `NoDuplicateRecord`: `Spec => []UniquePacketIds`.
- `HandshakesStayInOrder`: `Spec => []HandshakeAgrees`.

The inductive invariant `IInv` is the conjunction of the three. None is inductive
alone: that an acknowledgement keeps QoS and state in agreement needs that the
record found is the only one with its id (or a PUBREC's delete-and-add-back
could meet a twin), and that adding keeps ids unique needs the types, for the
free slot to exist. The first half of the module proves of each operator of
`PublishRecords` that it keeps types, uniqueness and agreement (compaction through
the strict growth of `Rank`); the second has one step per action on top of these
lemmas. The assumptions: at least one slot, the invalid packet id is not a packet
id, QoS is 1 or 2, and finiteness of nothing else.

Four action properties follow from that invariant (`MqttClientStepProofs`), each
by one lemma per handler:

- `NoRecordLost`: `Spec => RecordsLeaveWhenDone`. Compaction only moves records,
  and the PUBREC that deletes its record and adds it back has just freed the
  slot it needs.
- `NoRoomWasted`: `Spec => RefusedOnlyWhenFull`. After compaction the last slot is
  live only when every slot is.
- `NoPacketTwice`: `Spec => ResendsOncePerRound`. Compaction may move records
  under the cursor of a resend round, but only towards the front, so nothing that
  was returned gets before the cursor again. (That something may be *missed* this
  way is a finding.)
- `ArraysAreLists`: `Spec => ImplementsLists`, the refinement of `HandshakeLists`.
  The position of a record in the list is the `Rank` of its slot; each operator on
  arrays is shown to append, remove or step the element of that rank, and the
  states a handler leaves behind to be the ones the abstract step allows.

### The MQTT task

`DemoSessionProofs`, for any table and record sizes, payloads and faults:

- `TaskUsesLibrary`: `Spec => UsesLibraryAsModelled`. `DemoSession` with its broker
  implements `MqttClient`, so the theorems above hold of the device. What has to be
  shown is that ids stay in range all the way round: from `MQTT_GetPacketId` into
  the table and onto the wire, and back in the answers of the broker (`WireOK`,
  `IdsOK`). `LibraryInvariant` carries `IInv` over.
- `TaskTyped`: `TypeOK`, with the control state of the task (`Control`) and the
  table (`TableOK`: its types, its size and the bound on `payloads`).
- `AnswersAreOwn`: `AnswersMatchRequests`. The answers under way, the requests the
  broker owes and the ids the task waits for are tied together by `Requests`.
- `StoredPayloadsRecorded`: `StoredHasRecord`. No two stored payloads have one
  packet id, and the id of each is that of a record which waits for its PUBACK or
  has yet to be sent (`Backed`).
- `PubacksAwaited`: `PubacksExpected`. A packet id is on the connection at most
  once, in a PUBLISH or in its PUBACK, and its record waits for that PUBACK; a
  connection starts with none, and while a resend round runs those on it are the
  ones the round has been given (`Flight`).
- `DeliversAtLeastOnce`: `Spec => ImplementsAtLeastOnce`, the refinement of
  `AtLeastOnce`: what is stored was accepted and is stored once (`Accounted`), a
  publish under way carries the payload stored under its id, and a PUBACK under way
  is for one that has reached the broker (`OnItsWay`).
- `AcknowledgedIsReported`: `AcknowledgedWasSeen`, under the hypothesis of its run
  that no CONNACK is lost (with one lost it is false, `demo_unseen`). Each inbound
  publish under way is one the broker waits for, each PUBACK under way is for one
  that was reported and has no record left, and a record of the device is of the
  publish the broker has under its id (`Inbox`), provided both mean the same
  session (`SameSession`). That they do rests on the opening of a connection: the
  CONNECT is alone on it, and its CONNACK is the first to come and says truly
  whether the session is new (`Opening`). What the library does with the record is
  `ReceiveEffect` of `MqttClientStepProofs`.

### Time

For every clock size, timeout and buffer size (`KeepAliveProofs`, under
`KeepAliveAssumption`: the clock counts, a CONNACK fits the buffer):

- `KeepAliveTypes`, `NoTornHeader`, `PingsAgree`: `TypeOK`, `HeadersInStep` and
  `PingsMatch`.
- `TimeoutsAreTrue`, `SuccessIsTimely`: `TimeoutJustified` and
  `SuccessTakesTimeout`, across any wrap of the clock.
- `OverrunIsBounded`: `OverrunBounded`, under `OverrunAssumption`: the time-outs
  are positive and a publish has a length.

The invariant has five parts: the types; that a torn packet ends its call with a
status the application looks at (`TornOK`); that the elapsed time the library
computes is the real one until the clock has gone once round, for the PINGREQ
(`PingTime`) and for the loop (`LoopTime`); and that the PINGRESPs owed and under
way add up to the flag, which needs that nothing but the CONNACK is on a
connection before it was read (`PingsOK`, `Connecting`). `OverrunBounded` adds an
account of the running iteration: a publish that is being read is one of those the
broker sends (`FromBroker`), the bytes done and left add up to the packet
(`Transferred`), how long the device has waited for the next byte (`Waiting`), and
how far the iteration can have come by its pauses and the bytes done
(`IterationTakes`: each byte may wait its whole time-out, hence the one nonlinear
lemma, `MoreBytes`). If the bound exceeds the clock, `sinceEntry`, which stops at
`ClockSize`, meets it anyway; a clock that is longer than the longest loop is what gives it content.

### The board

For every length of the half wave, least delay, queue, start-up delay, retry
limit, target level, sensor and back-off (`BoardProofs`):

- `DimmerCuts`: `DimmerSpec => [](OnExactlyFromAngle /\ DarkUntilEnabled)`, under
  any sequence of levels; `BoardCuts` and `BoardDark`: the same of `Spec`.
- `BoardGroup`, `BoardTls`, `BoardDocument`: `NoBitAfterDelete`, `NoTlsLeak` and
  `DocumentAfterStart`; `BoardStaysDown`: the action property `NobodyReconnects`.
- `BoardFailure`: `FailOnlyWhenExhausted`, from what the event queue can hold at
  each state of the link while `initialise_wifi` waits (`WaitOK`).
- `BoardReading`: `GoodReadingIsMeasured`. A byte is the weighted sum of its bits;
  an interrupt takes at most one bit from one byte, which changes that byte's
  value, so that the sum modulo 256 and the checksum no longer agree.
- `BoardSchedule`: `BackoffWithinSchedule` (`ScheduleOK`, over `ParamsOK`). The
  doubling stays in 16 bits because it stops at half the maximum. It is proved
  under `ScheduleAssumption`: the base does not exceed the maximum, there is an
  end to the attempts, and the maximum is even; below an odd maximum the halving
  rounds down, and the bound may become the maximum where the doubled base is
  still one below it.
- `BoardTyped`: `TypeOK`; the queue never holds more than two events (`QueueOK`).

The invariant of the dimmer (`DimmerInv`) adds to its types what `dimmer_init`
has done at each step (`StartOK`), that an armed alarm was ahead of the counter
(`AlarmOK`: the reason why what is armed before the flag is cleared comes too
late), and what a half wave under unchanged settings has come to (`SteadyOK`:
either the alarm is on, ahead, and the TRIAC off, or it has fired on time).
`BoardInv` adds who is registered at each step of `initialise_wifi`, when the TLS
handle is set, and that nothing of the program runs ahead of `dimmer_init`; the
dimmer's part is kept by the lemmas about it alone. The assumptions are named
in `Dimmer`, `Wifi` and `Board`: the least delay lies within the half wave, the
queue holds something, the level is one byte.

### The packets

For strings, lists and bodies of any length (`PacketsProofs`, `TopicMatchProofs`,
under `PacketsAssumption`: the widths of the C fields, `size_t` being taken as
unbounded; and under `TopicsAssumption`: no name or filter is empty, which
`MQTT_MatchTopic` refuses, and no name has a wildcard, which `core_mqtt.h:754`
leaves to the caller):

- `LengthReadsBack`, what `encodeRemainingLength` writes is read back whatever
  follows it; `LengthHasOneForm`, what `getRemainingLength` accepts is what
  `encodeRemainingLength` writes, so no field longer than it need be passes.
- `PacketsTyped`, `BufferFits`, `SizesAreExact`: `TypeOK`, `FitsBuffer` and
  `SizesExact`. The size functions add up the lengths of the strings in a loop and
  the serializers write them one after the other; that the two agree
  (`Measured`, `SenderInv`) is an induction over the entries of a list.
- `InboundIsCanonical`, `SubacksAreTrue`: `CanonicalInbound` and `SubackTruth`
  (`ReceiverInv`).
- `BrokerReadsSent`: `BrokerUnderstands`, for every packet. `Sent` is the packet
  given, less the two fields that are never sent (the packet id of a publish at
  QoS 0, the QoS in the list of an UNSUBSCRIBE). The argument is one of places: if
  the bytes of a field stand at a place (`Stands`), the reader finds the field
  there and the place after it. For a CONNECT there are four such places, moved by
  the optional fields in front of them; for a list the entry k + 1 stands where
  entry k ends, and the list is read from its end to its front. The invariant
  (`ReadBackInv`) is about the header of a publish too: with its payload behind
  it, it is the packet.
- `MatchIsExact` (in `TopicMatchProofs`): `MatchExact`, for every filter and every
  name without a wildcard. The code goes through name and filter character by character, MQTT
  compares level by level, so the proof goes from one to the other in three
  steps. The recursion of `MatchTopicFilter` is a table of places, each decided by
  places further on (`Rules`). `Levels` numbers the separators by how many there
  are before each (`Ranks`), which gives the place where a level starts in name and
  filter (`Cut`); the table at these places obeys a rule for each kind of level, a
  wildcard, the same level or another (`TableRules`). Then, from the last level
  to the first, the rules come to what MQTT says of the levels that are left, less
  what is missed (`LevelsDecide`). `Missed` is exact: there is no other kind of
  filter on which code and MQTT differ.

The inductions, and the doubling of the back-off, rest on `NaturalRecursion`:
the induction and recursion theorems of the library take an operator as a
parameter, which the provers cannot instantiate, so it states them with a set and
with a function instead (`RecursionExists`, `LoopExists`), which is enough
wherever the recursion runs over a number and its values lie in a set.
`DescentExists` does the same for a recursion over any domain with a measure,
which the reading of a list is (from a place in the bytes to a later one), and
the matching of two strings (the measure is what is left of both).

### Only model-checked

- `EveryIterationEnds`, `SilenceNoticed` and `SensorReadForever`: liveness under
  fairness is beyond the prover.

## Findings

1. *Stale records end a resend round early* (`demo_starved`): `stateSelect`
   tests the state of deleted slots, for publishes and for PUBRELs, so a live
   record behind such a slot is not returned. The same happens when a resent
   publish compacts the array under the caller's cursor.
2. Its effect on the device (`demo_starved`): a stored payload may never be
   sent again, although every later connection succeeds.
3. *A failed send leaves an orphan record* (`demo_unstored`): while the broker
   keeps the session, every later iteration fails in `handlePublishResend`.
4. *Resubscription without a SUBACK* (`demo_resubscribe`) uses a packet id that
   is still in use.
5. *A new message taken for a duplicate* (`demo_unseen`), after a failed PUBACK
   and a lost CONNACK.
6. *A missing PINGRESP is noticed late* (`ping_timeout`): its timeout is looked
   at only once nothing was sent for a whole keep-alive interval.
7. *Filters `MQTT_MatchTopic` misses* (`packets`, `MatchExact`): `a` against
   `+/#`, `a/` against `+/+` and their like match by MQTT 3.1.1 and not by the
   code. `Missed` says exactly which.
8. *Publishes refused just below the limit* (`packets`, `SizesExact`): the whole
   packet is held against the largest remaining length, so up to five bytes of
   payload are given away.
9. *The end of `app_main`* (`board`): the comments wait 30 s for the connections
   and the log says 80 %; the code waits one second and sets 35 %.

Beside the runs, seen while modelling:

- `main.c:225` says the dimmer is first disabled for stability; the zero-cross
  interrupt is registered a few lines before, with the flag still set.
  `DarkUntilEnabled` shows that nothing comes of it.
- `initialise_wifi` waits for one of two bits without a time-out. The comment
  (`wifi.c:80-81`) names the two ways the wait ends; a station that stays
  associated without an address takes neither, and the device then never reads
  its sensor (`HeldByStation`).
- `readDHT` stores its values before it looks at the checksum, and keeps the old
  ones when it times out; `DHT_reader_task` publishes them either way, with the
  status in the log only. Two interrupts in one frame can also cut two pulses
  whose changes cancel in the checksum, so `GoodReadingIsMeasured` is about one.
- The string `cJSON_Print` returns (`main.c:350`) is never freed: each iteration
  leaks a document.
- After `initialise_wifi` has returned nothing reconnects a lost station
  (`NobodyReconnects`); the iterations go on and each of them fails.

## Not modelled

- `ac_dimmer.c`: not called by the program, and its controller is floating-point
  arithmetic, which TLC does not have.
- `posix_compat`: wrappers of clock and semaphore without logic of their own.
- `MQTT_ReceiveLoop`: never called here; it is the process loop without the
  keep-alive.
- NULL arguments, logging, the credentials, the text of the JSON document and of
  topics, the GPIO timing of the sensor beyond its pulse counts, vendored ESP-IDF
  code, `main_dimmer_backup.txt`.

Nothing is left unproved of the invariants and action properties of the runs;
the three liveness properties stay with TLC.
