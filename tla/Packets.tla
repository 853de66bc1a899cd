------------------------------ MODULE Packets ------------------------------
(***************************************************************************)
(* The MQTT packets the controller writes and reads, as sequences of       *)
(* bytes.  A text (a topic, a name, a number in a payload) is a sequence   *)
(* of letters, which are numbers above every byte: how texts are spelled   *)
(* is left out, how long they are is not.  Operators only.                 *)
(***************************************************************************)
EXTENDS Integers, FiniteSets, SequencesExt

CONSTANTS
  SEND_BUFFER_SIZE, \* bytes a packet is encoded into
  OverflowChecks    \* whether the build panics when arithmetic wraps

\* The largest length a packet can announce.
MAX == 268435455

\* The buffer holds the smallest packets, which have two bytes.
ASSUME BuildAssumption ==
  /\ SEND_BUFFER_SIZE \in Nat /\ 2 <= SEND_BUFFER_SIZE /\ SEND_BUFFER_SIZE <= MAX
  /\ OverflowChecks \in BOOLEAN

Repeat(x, n) == [i \in 1 .. n |-> x]

\* Result, and the panic that ends the program.
Ok(value) == [result |-> "ok", value |-> value]
Err(error) == [result |-> error, value |-> <<>>]
Panic == Err("panic")

\* What follows ?: an error is passed on.
AndThen(r, next(_)) == IF r.result = "ok" THEN next(r.value) ELSE r

-----------------------------------------------------------------------------
(***************************************************************************)
(* Variable byte integers                                                  *)
(***************************************************************************)

\* What a digit counts for: the powers of 128.
Weight == <<1, 128, 16384, 2097152, 268435456>>

encoded_length(value) ==
  IF value <= 127 THEN 1
  ELSE IF value <= 16383 THEN 2
  ELSE IF value <= 2097151 THEN 3
  ELSE 4

\* Seven bits a byte, the lowest first; a byte that is followed by another says so.
Digits(value) ==
  LET n == CHOOSE k \in 1 .. 4 :
             value \div Weight[k + 1] = 0 /\ \A i \in 2 .. k : value \div Weight[i] > 0
  IN  [i \in 1 .. n |-> ((value \div Weight[i]) % 128) + (IF i < n THEN 128 ELSE 0)]

\* The bytes are written behind those in `buffer`, which has room for `size`.
encode(value, buffer, size) ==
  CASE value > MAX -> Err("too_large")
    [] value <= MAX /\ size <= Len(buffer) + encoded_length(value) -> Err("end_of_buffer")
    [] OTHER -> Ok(buffer \o Digits(value))

\* Whether the byte at `at` and those before it, from `from` on, all announce another.
Continues(buffer, from, at) == \A i \in from .. at : buffer[i] >= 128

\* The number whose digits are in the bytes at `at` to `last`.
NumberAt(buffer, at, last) ==
  LET part(k) == IF at + k <= last THEN (buffer[at + k] % 128) * Weight[k + 1] ELSE 0
  IN  part(0) + part(1) + part(2) + part(3)

\* A fifth byte is added before it is refused, in a number of 32 bits.
FifthByte(byte) ==
  IF OverflowChecks /\ byte % 128 >= 16 THEN Panic ELSE Err("malformed")

\* The number at `at`, and where the next byte is.
decode_integer(buffer, at) ==
  LET ends == {i \in at .. at + 3 :
                 i <= Len(buffer) /\ buffer[i] < 128 /\ Continues(buffer, at, i - 1)}
  IN  CASE at > Len(buffer) -> Err("end_of_buffer")
        [] ends # {} ->
             LET last == CHOOSE i \in ends : TRUE
             IN  Ok([number |-> NumberAt(buffer, at, last), next |-> last + 1])
        [] at <= Len(buffer) /\ ends = {} /\ at + 4 <= Len(buffer) -> FifthByte(buffer[at + 4])
        [] OTHER -> Err("unexpected_end_of_buffer")

-----------------------------------------------------------------------------
(***************************************************************************)
(* Encoding                                                                *)
(***************************************************************************)

\* The two low bytes of a number, the higher first.
Word16(n) == <<(n \div 256) % 256, n % 256>>

WithLength(text) == Word16(Len(text)) \o text

\* An index past the end of the buffer panics.
Written(bytes) == IF Len(bytes) > SEND_BUFFER_SIZE THEN Panic ELSE Ok(bytes)

\* Type and flags, and the length of what remains.
FixedHeader(first, remaining) == encode(remaining, <<first>>, SEND_BUFFER_SIZE)

OneTooMany(head, body, required) ==  \* mutated
  IF required > SEND_BUFFER_SIZE - Len(head) + 1
  THEN Err("buffer_too_small")
  ELSE Written(head \o body)

\* `body` behind a head, if there is room for `required` bytes there.
Behind(head, body, required) ==
  IF required > SEND_BUFFER_SIZE - Len(head)
  THEN Err("buffer_too_small")
  ELSE Written(head \o body)

\* A packet that is required to fit whole behind its own head.
WholeEncoded(first, body) ==
  AndThen(FixedHeader(first, Len(body)),
          LAMBDA head : Behind(head, body, Len(head) + Len(body)))

\* The protocol's name and version, clean start with a name and a password, and the
\* keep alive; no properties.
ConnectBody(p) ==
  <<0, 4, 77, 81, 84, 84, 5, 194>> \o Word16(p.keep_alive) \o <<0>>
    \o WithLength(p.client_identifier) \o WithLength(p.username) \o WithLength(p.password)

ConnectEncoded(p) == WholeEncoded(16, ConnectBody(p))

Options(maximum_quality_of_service) == maximum_quality_of_service

SubscribeBody(p) ==
  Word16(p.packet_identifier) \o <<0>>
    \o FlattenSeq([i \in DOMAIN p.filters |-> WithLength(p.filters[i]) \o <<Options(0)>>])

SubscribeEncoded(p) == WholeEncoded(130, SubscribeBody(p))

PublishHeader(p) == WithLength(p.topic) \o <<0>>

AnnouncesHeader(p) ==  \* mutated
  LET header == PublishHeader(p)
  IN  AndThen(FixedHeader(48 + p.retained, Len(header)),
              LAMBDA head : Behind(head, header, Len(header)))


\* Only the header goes through the buffer; the payload is announced and follows it.
PublishEncoded(p) ==
  LET header    == PublishHeader(p)
      remaining == Len(header) + Len(p.payload)
  IN  AndThen(FixedHeader(48 + p.retained, remaining),
              LAMBDA head : Behind(head, header, Len(header)))

PingRequestEncoded == Written(<<192, 0>>)

try_encode(p) ==
  CASE p.type = "connect" -> ConnectEncoded(p)
    [] p.type = "subscribe" -> SubscribeEncoded(p)
    [] p.type = "publish" -> PublishEncoded(p)
    [] p.type = "ping_request" -> PingRequestEncoded

trailing_payload(p) == IF p.type = "publish" THEN p.payload ELSE <<>>

\* What is written to the stream.
send(p) == AndThen(try_encode(p), LAMBDA head : Ok(head \o trailing_payload(p)))

-----------------------------------------------------------------------------
(***************************************************************************)
(* Decoding                                                                *)
(***************************************************************************)

\* The length of what is missing is the difference of two lengths, the smaller first.
MissingBytes == IF OverflowChecks THEN Panic ELSE Err("missing_bytes")

TakesWhatIsThere(buffer) ==  \* mutated
  IF buffer = <<>> THEN Err("empty_buffer")
  ELSE AndThen(decode_integer(buffer, 2),
         LAMBDA length : Ok([type |-> buffer[1] \div 16, flags |-> buffer[1] % 16,
                             body |-> SubSeq(buffer, length.next, Len(buffer))]))

\* The first packet in what was read.
get_parts(buffer) ==
  IF buffer = <<>> THEN Err("empty_buffer")
  ELSE AndThen(decode_integer(buffer, 2),
         LAMBDA length :
           LET end == length.next - 1 + length.number
           IN  IF Len(buffer) < end THEN MissingBytes
               ELSE Ok([type |-> buffer[1] \div 16, flags |-> buffer[1] % 16,
                        body |-> SubSeq(buffer, length.next, end)]))

\* Everything from `at` on.  A range that begins past the end panics.
Rest(body, at) ==
  IF at > Len(body) + 1 THEN Panic ELSE Ok(SubSeq(body, at, Len(body)))

KeepsProperties(body, at) ==  \* mutated
  AndThen(decode_integer(body, at), LAMBDA length : Rest(body, length.next))

\* The packet with what follows its properties, which are skipped unread.
AfterProperties(body, at) ==
  AndThen(decode_integer(body, at), LAMBDA length : Rest(body, length.next + length.number))

PublishDecoded(flags, body) ==
  LET length == body[1] * 256 + body[2]
  IN  CASE (flags \div 2) % 4 > 0 -> Err("unsupported_quality_of_service")
        [] (flags \div 2) % 4 = 0 /\ Len(body) < 2 -> Panic
        [] OTHER ->
             IF length = 0 THEN Err("zero_length_topic_name")
             ELSE IF Len(body) < 2 + length THEN Panic
             ELSE AndThen(AfterProperties(body, 3 + length),
                    LAMBDA payload : Ok([topic |-> SubSeq(body, 3, 2 + length),
                                         payload |-> payload]))

SubscribeAcknowledgementRead(body) ==
  IF Len(body) < 2 THEN Panic
  ELSE AndThen(AfterProperties(body, 3),
         LAMBDA codes : Ok([packet_identifier |-> body[1] * 256 + body[2],
                            reason_codes |-> codes]))

ConnectErrorReasonCode ==
  128 .. 138 \cup {140, 144, 149, 151} \cup 153 .. 157 \cup {159}

DisconnectReasonCode ==
  {0, 4} \cup 128 .. 131 \cup {135, 137, 139} \cup 141 .. 144 \cup 147 .. 162

\* How many bytes a property takes whose length its identifier implies.
FixedLength(identifier) ==
  CASE identifier \in {36, 37, 40, 41, 42} -> 1
    [] identifier \in {33, 34, 19} -> 2
    [] identifier \in {17, 39} -> 4
    [] OTHER -> 0

HasFixedLength(identifier) == FixedLength(identifier) > 0

\* The others are texts or bytes, whose length is read as a variable byte integer.
HasText(identifier) == identifier \in {18, 31, 26, 28, 21, 22}

USER_PROPERTY == 38

\* The loop over the properties, from `at` until `end`.
PropertiesSkipped(body, from, end) ==
  LET skipped[at \in Nat] ==
        IF at >= end THEN Ok(<<>>)
        ELSE IF at > Len(body) THEN Panic
        ELSE CASE HasFixedLength(body[at]) -> skipped[at + 1 + FixedLength(body[at])]
               [] HasText(body[at]) ->
                    AndThen(decode_integer(body, at + 1),
                            LAMBDA length : skipped[length.next + length.number])
               [] body[at] = USER_PROPERTY ->
                    AndThen(decode_integer(body, at + 1),
                            LAMBDA name : AndThen(decode_integer(body, name.next + name.number),
                              LAMBDA value : skipped[value.next + value.number]))
               [] OTHER -> Err("unknown_property_identifier")
  IN  skipped[from]

ConnectAcknowledgementDecoded(body) ==
  CASE Len(body) < 2 -> Panic
    [] Len(body) >= 2 /\ body[2] \notin {0} \cup ConnectErrorReasonCode ->
         Err("invalid_reason_code")
    [] OTHER ->
         AndThen(decode_integer(body, 3),
           LAMBDA length : AndThen(PropertiesSkipped(body, length.next, length.next + length.number),
             LAMBDA nothing : Ok([is_session_present |-> body[1] % 2 = 1,
                                  connect_reason_code |-> body[2]])))

DisconnectDecoded(body) ==
  CASE body = <<>> -> Panic
    [] body # <<>> /\ body[1] \notin DisconnectReasonCode -> Err("unknown_reason_code")
    [] OTHER -> Ok(body[1])
=============================================================================
