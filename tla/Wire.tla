-------------------------------- MODULE Wire --------------------------------
(***************************************************************************)
(* Packets on their way: from what a fan measures, or the controller has   *)
(* to say, to the bytes the broker gets; and from what the broker sends to *)
(* what the controller makes of it.  The stream delivers a packet as a     *)
(* whole or cut, as TCP may.  Each packet starts from rest.                *)
(***************************************************************************)
EXTENDS FanSensor, Packets

CONSTANTS
  PayloadLengths,  \* lengths of payloads that are baked in or formatted elsewhere
  TextLengths,     \* lengths of texts that are: a topic, a password
  Shares, Maxima, Degrees, Humidities, MotorBits, WarningBits,
                   \* what a fan may measure
  Nothing          \* no packet, no measurement, nothing heard

\* What is published comes from a flash of two megabytes.  The length of a text is
\* written with two bytes.
ASSUME FlashAssumption ==
  /\ PayloadLengths \subseteq {n \in Nat : n <= 2097152}
  /\ TextLengths \subseteq {n \in Nat : n <= 65535}

\* A speed is a share of SpeedMax, a humidity one of WordMax + 1; a temperature is as far
\* below zero as a word of two's complement reaches, at most.
ASSUME MeasurementAssumption ==
  /\ Shares \subseteq Word /\ Humidities \subseteq Word
  /\ Maxima \subseteq Word \cup {NoFlow}
  /\ Degrees \subseteq {d \in Nat : 2 * d < WordMax}
  /\ MotorBits \subseteq SUBSET (0 .. 15) /\ WarningBits \subseteq SUBSET (0 .. 15)

VARIABLES
  phase,     \* where the packet is
  packet,    \* what one side means to tell the other
  measured,  \* what the fan measured, if that is what is told
  stream,    \* the bytes on the connection
  heard      \* what the controller made of them

vars == <<phase, packet, measured, stream, heard>>

Init ==
  /\ phase = "rest"
  /\ packet = Nothing
  /\ measured = Nothing
  /\ stream = <<>>
  /\ heard = Nothing

-----------------------------------------------------------------------------
(***************************************************************************)
(* Texts                                                                   *)
(***************************************************************************)

\* Letters are above every byte.
ON == <<256>>
OFF == <<257>>
NULL == <<258>>
Other == <<259>>
Name == <<260, 261, 262>>
NumberText(n) == <<300 + n>>
IsNumber(text) == Len(text) = 1 /\ text[1] >= 300
NumberIn(text) == text[1] - 300

\* What the controller subscribes to: itself, both fans and the relay.
SUBSCRIPTIONS ==
  << <<270>>, <<271, 272>>, <<271, 273>>, <<274, 272>>, <<274, 273>>, <<275, 272>> >>

STATE_COMMAND == {SUBSCRIPTIONS[2], SUBSCRIPTIONS[4], SUBSCRIPTIONS[6]}
PERCENTAGE_COMMAND == {SUBSCRIPTIONS[3], SUBSCRIPTIONS[5]}

SENSOR_STATE == <<271, 276>>
DISCOVERY == Repeat(277, 8)

-----------------------------------------------------------------------------
(***************************************************************************)
(* The controller tells                                                    *)
(***************************************************************************)

Publish(topic, payload, retained) ==
  [type |-> "publish", topic |-> topic, payload |-> payload, retained |-> retained]

Tell(p) ==
  LET sent == send(p)
  IN  /\ packet' = p
      /\ stream' = sent.value
      /\ phase' = IF sent.result \in {"ok", "panic"} THEN sent.result ELSE "refused"
      /\ UNCHANGED heard

Connect(length) ==
  [type |-> "connect", client_identifier |-> Name, username |-> Name,
   password |-> Repeat(263, length), keep_alive |-> 60]

Subscribe(count) ==
  [type |-> "subscribe", packet_identifier |-> 1, filters |-> SubSeq(SUBSCRIPTIONS, 1, count)]

\* What is known when the program is built, of any size: credentials, the number of
\* subscriptions, topics, the discovery payload.
Send ==
  /\ phase = "rest"
  /\ measured' = Nothing
  /\ \/ \E length \in TextLengths : Tell(Connect(length))
     \/ \E count \in DOMAIN SUBSCRIPTIONS : Tell(Subscribe(count))
     \/ \E topic \in {Name, DISCOVERY} \cup {Repeat(278, n) : n \in TextLengths},
           length \in PayloadLengths, retained \in {0, 1} :
          Tell(Publish(topic, Repeat(264, length), retained))
     \/ Tell([type |-> "ping_request"])

Temperature == Degrees \cup {-d - 1 : d \in Degrees}

\* What a fan may measure, with faults and warnings as the bits that are set.
Measurement ==
  [share : Shares, maximum : Maxima, motor : MotorBits, warning : WarningBits,
   temperature : Temperature, air : Temperature, humidity : Humidities, flow : {7}]

\* The fan's registers hold negative numbers as their complement.
Register(n) == IF n < 0 THEN n + WordMax + 1 ELSE n

Registers(m) ==
  [status |-> [speed |-> m.share, motor |-> m.motor, warning |-> m.warning,
               temperature |-> Register(m.temperature)],
   air |-> [temperature |-> Register(m.air), humidity |-> m.humidity, flow |-> m.flow]]

\* Names, and the rest of a word of flags, as one letter each, which is the set of its
\* bits; both are empty for "OK".
FlagsText(flags) ==
  IF flags.ok THEN <<{}, {}>> ELSE <<flags.names, flags.undocumented>>

TenthsText(t) == <<IF t.isNegative THEN -1 ELSE 1, t.whole, t.tenth>>

to_json(r, isBroken) ==
  (IF r.speed = NoFlow THEN NULL ELSE <<r.speed>>) \o <<r.motorTemperature>>
    \o FlagsText(r.motorStatus) \o FlagsText(r.warning) \o <<IF isBroken THEN 1 ELSE 0>>
    \o TenthsText(r.airTemperature) \o TenthsText(r.airHumidity) \o <<r.volumeFlow>>

\* A reading is decoded, formatted and published.
SendReading ==
  /\ phase = "rest"
  /\ \E m \in Measurement :
       LET registers == Registers(m)
           reading   == decode(registers.status, registers.air, m.maximum)
       IN  /\ measured' = m
           /\ Tell(Publish(SENSOR_STATE, to_json(reading, 10 \in registers.status.warning), 0))

-----------------------------------------------------------------------------
(***************************************************************************)
(* The broker                                                              *)
(***************************************************************************)

\* A length as the standard has it.
StandardLength(n) ==
  IF n < 128 THEN <<n>>
  ELSE IF n < 16384 THEN <<128 + (n % 128), n \div 128>>
  ELSE IF n < 2097152 THEN <<128 + (n % 128), 128 + ((n \div 128) % 128), n \div 16384>>
  ELSE <<128 + (n % 128), 128 + ((n \div 128) % 128), 128 + ((n \div 16384) % 128),
         n \div 2097152>>

Standard(first, rest) == <<first>> \o StandardLength(Len(rest)) \o rest

WithStandardLength(bytes) == StandardLength(Len(bytes)) \o bytes

Text(bytes) == <<Len(bytes) \div 256, Len(bytes) % 256>> \o bytes

\* The bytes of a packet of MQTT 5, sections 3.1 to 3.14.
StandardBytes(p) ==
  CASE p.type = "connect" ->
         Standard(16, Text(<<77, 81, 84, 84>>) \o <<5, 194, 0, p.keep_alive>> \o StandardLength(0)
                      \o Text(p.client_identifier) \o Text(p.username) \o Text(p.password))
    [] p.type = "subscribe" ->
         Standard(130, <<0, p.packet_identifier>> \o StandardLength(0)
                       \o FlattenSeq([i \in DOMAIN p.filters |-> Text(p.filters[i]) \o <<0>>]))
    [] p.type = "publish" ->
         Standard(48 + p.retained, Text(p.topic) \o StandardLength(0) \o p.payload)
    [] p.type = "ping_request" -> <<192, 0>>
    [] p.type = "connack" ->
         Standard(32, <<p.session, p.reason>> \o WithStandardLength(p.properties))
    [] p.type = "command" ->
         Standard(48 + p.retained,
                  Text(p.topic) \o WithStandardLength(p.properties) \o p.payload)
    [] p.type = "suback" ->
         Standard(144, <<p.identifier \div 256, p.identifier % 256>>
                       \o WithStandardLength(p.properties) \o p.codes)
    [] p.type = "ping_response" -> <<208, 0>>
    [] p.type = "disconnect" -> Standard(224, p.reason \o (IF p.reason = <<>> THEN <<>> ELSE <<0>>))

\* Properties of CONNACK: the maximum quality of service, the server's keep alive, the
\* topic aliases, the packet's size; and a client identifier, as a text.
ConnackProperties ==
  {<<>>, <<36, 0>> \o <<19, 0, 60>>, <<34, 0, 10>> \o <<39, 0, 0, 4, 0>> \o <<37, 1>>}

AssignedIdentifier == <<18>> \o Text(Name)

\* An expiry, a content type, and one that takes two bytes to give its length.
PublishProperties ==
  {<<>>, <<2, 0, 0, 0, 9>>, <<3>> \o Text(Repeat(265, 130))}

Payloads ==
  {ON, OFF, Other, <<>>}
    \cup {NumberText(n) : n \in {0, 1, SpeedMax, SpeedMax + 1, WordMax, WordMax + 1}}

\* What the broker sends to a client with these subscriptions.
Incoming ==
  [type : {"connack"}, session : {0, 1}, reason : {0, 128, 135, 159},
   properties : ConnackProperties \cup {AssignedIdentifier}]
  \cup [type : {"command"}, topic : {SUBSCRIPTIONS[i] : i \in DOMAIN SUBSCRIPTIONS},
        payload : Payloads, properties : PublishProperties, retained : {0, 1}]
  \cup [type : {"suback"}, identifier : {1}, properties : PublishProperties,
        codes : {Repeat(0, 6), <<0, 0, 0, 0, 0, 135>>}]
  \cup {[type |-> "ping_response"]}
  \cup [type : {"disconnect"}, reason : {<<>>, <<0>>, <<139>>, <<142>>}]

BrokerSends ==
  /\ phase = "rest"
  /\ \E p \in Incoming : packet' = p /\ stream' = StandardBytes(p)
  /\ phase' = "whole"
  /\ UNCHANGED <<measured, heard>>

\* What is read at once is only the beginning.
Cut ==
  /\ phase = "whole"
  /\ \E n \in 1 .. Len(stream) - 1 : stream' = SubSeq(stream, 1, n)
  /\ phase' = "cut"
  /\ UNCHANGED <<packet, measured, heard>>

-----------------------------------------------------------------------------
(***************************************************************************)
(* The controller reads                                                    *)
(***************************************************************************)

\* str::parse, and the bounds of a set point.
SetPointParsed(text) ==
  CASE ~IsNumber(text) \/ NumberIn(text) > WordMax -> Err("parse_int")
    [] IsNumber(text) /\ NumberIn(text) \in SpeedMax + 1 .. WordMax -> Err("out_of_bounds")
    [] OTHER -> Ok(NumberIn(text))

Command(topic, order) == Ok([topic |-> topic, order |-> order])

\* TryFrom<Publish> for IncomingPublish.  One topic that is subscribed to is not known.
IncomingPublish(p) ==
  CASE p.topic \in STATE_COMMAND /\ p.payload = ON -> Command(p.topic, "on")
    [] p.topic \in STATE_COMMAND /\ p.payload = OFF -> Command(p.topic, "off")
    [] p.topic \in STATE_COMMAND /\ p.payload \notin {ON, OFF} -> Err("invalid_state")
    [] p.topic \in PERCENTAGE_COMMAND ->
         AndThen(SetPointParsed(p.payload), LAMBDA n : Command(p.topic, <<n>>))
    [] OTHER -> Err("unknown_topic")

\* An acknowledgement that is not of a subscription is ignored.
Acknowledged(a) ==
  IF a.packet_identifier < Len(SUBSCRIPTIONS) THEN Ok(a.packet_identifier) ELSE Err("out_of_bounds")

\* connect: the first packet has to be the acknowledgement, and a good one.
Greeted(parts) ==
  IF parts.type # 2 THEN Err("invalid_response_packet_type")
  ELSE AndThen(ConnectAcknowledgementDecoded(parts.body),
         LAMBDA ack : IF ack.connect_reason_code = 0 THEN Ok("connected") ELSE Err("refused"))

\* listen.
Listened(parts) ==
  CASE parts.type = 3 -> AndThen(PublishDecoded(parts.flags, parts.body), IncomingPublish)
    [] parts.type = 9 -> AndThen(SubscribeAcknowledgementRead(parts.body), Acknowledged)
    [] parts.type = 13 -> Ok("ping_response")
    [] parts.type = 14 -> LET d == DisconnectDecoded(parts.body)
                          IN  IF d.result = "panic" THEN d ELSE Ok("disconnected")
    [] OTHER -> Err("unsupported_packet_type")

\* What is waited for first is the acknowledgement of the connection.
HeardIn(bytes, isGreeting) ==
  AndThen(get_parts(bytes), LAMBDA parts : IF isGreeting THEN Greeted(parts) ELSE Listened(parts))

Receive ==
  /\ phase \in {"whole", "cut"}
  /\ heard' = HeardIn(stream, packet.type = "connack")
  /\ phase' = IF phase = "whole" THEN "heard" ELSE "heard_cut"
  /\ UNCHANGED <<packet, measured, stream>>

Rested ==
  /\ phase \notin {"rest", "whole", "cut"}
  /\ phase' = "rest"
  /\ packet' = Nothing
  /\ measured' = Nothing
  /\ stream' = <<>>
  /\ heard' = Nothing

Next == Send \/ SendReading \/ BrokerSends \/ Cut \/ Receive \/ Rested

Spec == Init /\ [][Next]_vars

-----------------------------------------------------------------------------
(***************************************************************************)
(* Properties                                                              *)
(***************************************************************************)

\* Whatever is sent, its payload written apart, is the packet the standard describes:
\* the length it announces is the length it has.
SentAsStandard == phase = "ok" => stream = StandardBytes(packet)

\* The part that is copied into the buffer: a publish's payload is not.
Copied(p) == Len(StandardBytes(p)) - (IF p.type = "publish" THEN Len(p.payload) ELSE 0)

\* A publish is too large if what the buffer has to hold is, whatever the payload; the other
\* packets if they come within five bytes of its size.
IsLarge(p) ==
  IF p.type = "publish" THEN Copied(p) > SEND_BUFFER_SIZE ELSE Copied(p) + 5 > SEND_BUFFER_SIZE

\* No packet panics the encoder, and none that fits is refused, however close to the end of
\* the buffer it comes (mqtt/mod.rs:84).
RefusesOnlyLarge ==
  /\ phase # "panic"
  /\ phase = "refused" => IsLarge(packet)

\* The subscriptions that an acknowledgement refuses.
Refusals(p) == {i \in DOMAIN p.codes : p.codes[i] >= 128}

\* What the broker means by a packet, in the controller's terms.
Meaning(p) ==
  CASE p.type = "connack" -> IF p.reason = 0 THEN {"connected"} ELSE {}
    [] p.type = "command" ->
         IF p.topic \in STATE_COMMAND
         THEN {[topic |-> p.topic, order |-> IF p.payload = ON THEN "on" ELSE "off"]
                 : x \in {p.payload} \cap {ON, OFF}}
         ELSE {[topic |-> p.topic, order |-> <<n>>]
                 : n \in {s \in 0 .. SpeedMax : p.topic \in PERCENTAGE_COMMAND
                                                  /\ p.payload = NumberText(s)}}
    [] p.type = "suback" -> IF Refusals(p) = {} THEN {p.identifier} ELSE {}
    [] p.type = "ping_response" -> {"ping_response"}
    [] p.type = "disconnect" -> {"disconnected"}

\* Three kinds of packet are not understood: an acknowledgement of the connection that
\* carries a text, a disconnect that leaves its reason out, and an acknowledgement that
\* refuses a subscription, which counts as one that accepts them all.
IsMisread(p) ==
  \/ p.type = "connack" /\ p.properties = AssignedIdentifier
  \/ p.type = "disconnect" /\ p.reason = <<>>
  \/ p.type = "suback" /\ Refusals(p) # {}

\* Every packet of the broker that arrives as a whole is understood as it is meant,
\* past its properties, and no command is heard that was not given.
Understands ==
  phase = "heard" /\ ~IsMisread(packet) =>
    /\ heard.result # "panic"
    /\ {x \in {heard} : x.result = "ok"} = {Ok(meaning) : meaning \in Meaning(packet)}

\* The beginning of a packet is never taken for a packet.
CutIsNoticed ==
  phase = "heard_cut" =>
    heard.result \in {"missing_bytes", "end_of_buffer", "unexpected_end_of_buffer"}

\* A fraction is written without its remainder.
IsQuotient(q, n, d) == q * d <= n /\ n < (q + 1) * d

\* The speed to one revolution, signs and tenths kept, every bit that is set told by name
\* or number, except the one that has a field of its own.
Tells(told, m) ==
  /\ IF m.maximum = NoFlow THEN told[1] = NULL[1]
     ELSE \/ IsQuotient(told[1], m.share * m.maximum, SpeedMax)
          \/ told[1] = WordMax /\ m.share * m.maximum >= WordMax * SpeedMax
  /\ told[2] = m.temperature
  /\ told[3] \cup told[4] = m.motor
  /\ told[5] \cup told[6] = m.warning \ {10}
  /\ (told[7] = 1) <=> (10 \in m.warning)
  /\ told[8] * (10 * told[9] + told[10]) = m.air
  /\ IsQuotient(10 * told[12] + told[13], m.humidity * 1000, WordMax + 1)
  /\ told[14] = m.flow

\* What Home Assistant is told, in the last letters of what is sent, is what the fan
\* measured.
MeasurementsArrive ==
  phase = "ok" /\ measured # Nothing =>
    Tells(SubSeq(stream, Len(stream) - 13, Len(stream)), measured)
=============================================================================
