# Verification of the embedded fan controller

TLA+ models of the controller firmware in `src/fan-controller`, what TLC checks
about them on small instances, and what TLAPS proves about them for every value
of the constants.

## The system

A Raspberry Pi Pico W drives two ventilation fans over a shared RS-485 bus
(Modbus), a relay module over a second bus, two LEDs and a button, and talks to
Home Assistant through an MQTT broker. The firmware is a set of `embassy` tasks
on a cooperative executor: a task runs undisturbed from one `await` to the next,
and tasks communicate through

- a *Signal*, which keeps only the latest value and is emptied by the reader;
- a *Watch*, which keeps the latest value and tells each reader that it changed;
- a *Channel*, a bounded queue (`CHANNEL_SIZE` = 8);
- a *Mutex* around the Modbus client of the fans' bus.

| component | state | operations | hard part |
|---|---|---|---|
| `fan_control_routine` ×2, `read_set_point` (main.rs) | `current_set_point`, the attempt, the request in hand | read the fan on boot; take, write, retry, give up a request; push the other fan back | requests that arrive at any await, answers that are lost, two routines that signal each other |
| `input_routine`, `mqtt_brain_routine` (main.rs) | the last running speeds | button, set speed, on, off, relay command | they act on confirmed speeds, which lag behind |
| `display_routine`, `led_routine` (main.rs) | shown speeds, pending updates, debounce | receive, debounce, report, LED pattern | a full channel in the middle of a report, updates that overtake each other |
| `relay_routine`, `read_relay_state` (main.rs) | `current_state` | read on boot, write, retry, give up, report | writes carried out but not confirmed, newer requests, a blocking report |
| `sensor_routine` ×2 (main.rs), `Settling` (fan_sensor) | maximum speed, settling watcher | poll, follow a speed change | holding the shared mutex, ending the fast cadence |
| Modbus client (modbus/) | the receive buffer, the driver-enable pin | write, read, step over stray bytes, clear the line | late answers, noise, timeouts |
| MQTT session (task.rs) | writer lock, acknowledgements, last sent and received | listen, talk, keep alive, subscribe, reconnect | futures that are dropped, a peer that is silently gone |
| MQTT packets (mqtt/) | none | encode, decode | streams against packets, lengths |
| Wi-Fi link (task.rs) | none | join, rejoin, resolve | links that go away at any step |
| serial panel (serial/, TypeScript) | pending bytes, adapter echo, monitor role | request, retry, listen | echoes, late answers, resynchronising |

The tasks of the firmware meet in five places: the two fans' request signals
(button, brain and the *other* fan write them), the two confirmed-speed watches
(the fan routines write, the displays, button, brain and sensors read), the
mutex of the fans' bus, the channel `OUT` to the MQTT session (displays, relay
and sensors write), and the relay's request signal.

## Modules

- **`FanControl`** is the core: both `fan_control_routine`s, their signals, the
  mutex, the button, the Home Assistant commands and the fans. The program
  counter `pc` names the await a routine is at. `BeginRead`, `ReadSucceeds`,
  `ReadFails` are `read_set_point`; `TakeRequest`, `BeginWrite`, `BeginRetry`,
  `WriteSucceeds`, `WriteFails`, `GiveUp` are the signal loop. The outcome of a
  transaction is one of `acknowledged`, `unacknowledged` (the fan carried the
  write out, the answer was lost or late) and `lost`. The back-off before a
  retry is the time other actions take before the lock is asked for.
- **`ConfirmedSpeed`** is the abstract specification of what the speed control
  shows: a confirmed speed changes only to the speed the fan runs at, and can be
  wrong only for a fan that did something nobody acknowledged in time.
  `FanControl!ShowsConfirmedSpeed` states that the routines implement it.
- **`FanControlProofs`** proves it, and the safety properties, with TLAPS.
- **`Display`** is `display_routine` with the watches it reads, the LEDs, the
  channel `OUT` and what Home Assistant was told. Everything after the debounce
  is one step, because the routine only ever *tries* to send. **`DisplayProofs`**
  proves its safety.
- **`Session`** is `mqtt_with_connect`: the reconnect loop (`Dial`, `Greet`, the
  end of an attempt in phase `over`, where the aborted socket is flushed, and the
  back-off in phase `resting`, which `Redial` ends), and the five futures of a
  session. `FlushReturns` is only possible for a socket that was never connected;
  after any other it is the timeout, `ResetTimesOut`, that goes on. `Listen` is one read and what
  becomes of it; `Take`, `TalkLocks`, `TalkSends`, `TalkFails` are `talk`;
  `NoticesSent`, `NoticesReceived`, `Quiet`, `PingLocks`, `PingSends`,
  `PingAnswered`, `PingTimesOut` are `keep_alive`. `Dropped` is what happens to
  all of it when one future returns. An `Instant` is the number of ticks since;
  `Tick` lets time pass only when no future can go on and no timer is due
  (`Pending`), because a tick stands for half a minute and a poll for
  microseconds. The broker answers whenever it likes, or never.
  **`SessionProofs`** proves its safety.
- **`Relay`** is `relay_routine` with `read_relay_state`, the contact, the
  channel and what Home Assistant was told. **`RelayProofs`** proves its
  invariant.
- **`ModbusLink`** is the Modbus client and the line of the fans below it, one
  transaction after the other, a byte at a time. `Begin`, `SendSucceeds` and
  `SendFails` are `send_request`; `ReadHeader` and `ReadsOn` are `read_header` with
  `receive_past_errors`; `SearchHeader` and `StepOver` are the loop of
  `find_answer_start`; `ReadException` and `ReadBody` are the rest of an answer;
  `Discard` is `discard_incoming`, into which every failure (`Fails`) leads. A byte
  carries which answer it is part of, which only the properties and the checksum
  look at. The devices act on a request when it has been sent and answer when they
  like: undamaged, with a mangled or a wrong byte, cut short, or not at all. The
  functions differ in what they read, so one `Begin` and one `ReadBody` stand for
  all of them. **`ModbusLinkProofs`** proves its safety.
- **`FanSensor`** holds the operators of the crate `fan_sensor`: decoding of the two
  runs of registers, the words of flags, and the settling watcher (`at_interval`,
  `observe`, `Progress`). **`FanSensorProofs`** proves what decoding keeps of a word
  of any width.
- **`SensorPolling`** is `sensor_routine` with that watcher, next to a fan control
  that confirms speeds while it holds the mutex and to others that use the mutex
  and the channel. `EndPoll` is everything from the unlock to the next await; the
  `select` that follows returns at once if a speed was confirmed meanwhile.
  **`SensorPollingProofs`** proves its safety.
- **`Packets`** holds the operators of the MQTT codec, from the variable byte
  integers to the packets, over sequences of bytes and letters, with an explicit
  `Panic` where the code indexes past a slice.
- **`Wire`** runs them: the controller sends each kind of packet, among them the
  readings of `FanSensor`, and the broker sends each kind it may, whole or cut.
  `StandardBytes` is written from the standard and not from the code, so that the
  codec is compared with something else than itself. `Receive` is one read of the
  stream: by `connect` if it waits for its acknowledgement (`Greeted`), else by
  `listen` (`Listened`). **`WireProofs`** proves the codec for packets of any length.
- **`WifiLink`** is `set_up_network_stack` and `rejoin_wifi_routine` after it, the
  lookup of the broker, an access point that comes and goes, and DHCP.

How they fit together: `FanControl` and `Relay` take a transaction as one step with
a nondeterministic outcome (`acknowledged`, `unacknowledged`, `lost`). `ModbusLink`
shows which outcomes a transaction has: `OutcomeIsTrue` is what makes
`acknowledged` mean that the fan carried the write out, a failure says nothing of
it. `Display`, `Relay` and `SensorPolling` see the MQTT session as `Deliver` and
`Lose`; `Session` takes reading a packet as one step, whose bytes are `Wire`'s.

History variables (`wanted`, `unconfirmed`, `corrections`, `failed`, `apart`, `trouble`,
`doubtful`, `lost`, `ended`, `silence`, `unheard`, `left`, `noise`, `log`, `statusAt`)
are read by no guard of the code; they are there for properties to talk about what
happened, or bound what the environment does (`noise`).

## Runs

| run | shows |
|---|---|
| `fan_faults` | `IInv` (types, mutual exclusion on the bus, truthful displays, the budget of corrections, where the fans are heading); a command causes at most two corrections; "on" restores the last confirmed speed; the latest request wins as long as no write fails; fans that are only asked together stay at one speed through every failed write that is corrected; refinement of `ConfirmedSpeed` |
| `fan_settles` | the routines come to rest after the last command even if the bus never works again |
| `fan_last_attempt` | *violated*: fans left at different speeds are not always shown as such |
| `display_backpressure` | `IInv` (types, the bound of the channel, which speed and state of a fan is the last one underway); what Home Assistant is told stays consistent with what the routine believes it shows, no speed is sent twice in a row, the panicking arm is not reached, and the speeds are eventually shown |
| `relay_faults` | belief, reports and commands of the relay under every fault, and that the routine comes to rest |
| `session_faults` | with a broker that answers late or never, several packets at a time, or closes the connection: a silent connection is given up within `KEEP_ALIVE + MQTT_TIMEOUT`, the broker hears from the controller within 1.5 keep alives, no answer of an earlier session counts in a later one, and whenever the connection is closed, silent or over it is dialled again or something is heard after all, although the flush of an aborted socket never returns |
| `session_gone` | *violated*: silence is noticed even if the peer does not acknowledge segments any more |
| `modbus_faults` | between transactions nothing of an answer is left, however much of one had come when a transaction failed, an accepted answer is the one to this request, and what was confirmed or read is what the device holds, as long as no transaction failed before its answer came and no receive error cut the clearing short (`left`); even then no other device's answer, no answer to another function and no refusal is accepted; every transaction ends |
| `modbus_stray` | *violated*: an accepted answer is the one to this request, whatever the line does |
| `polling` | a reading is of one moment, every confirmed speed is followed, the quick readings end after the limit or once the flow held still for the whole span, and the ordinary cadence comes back even if the fan never answers |
| `codecs` | packets that are sent are the standard's, those that fit the buffer are sent and those that do not are refused (a CONNECT or SUBSCRIBE also if it comes within five bytes of the end), packets that are received mean what the standard says, the beginning of a packet is never taken for one, and measurements arrive with signs, tenths and every flag |
| `wifi_lost_again` | *violated*: an access point that is back for good is joined again |

Bounds, and why they are enough:

- `MaxInputs` (commands of the users): 2 in `fan_faults`, which lets a command
  arrive before, during and after any transaction of an earlier one and lets
  both fans fail for different commands; 1 where three attempts are made.
- `MaxAttempts` is 3 in the code. `fan_faults` uses 2: the first, a retry and
  the attempt after the last are all distinct. The other runs use 3.
- `Running`, what the fans run at on boot, each independently: full speed or a
  register value that is no set point in `fan_faults`, off or full speed in the
  other runs.
- `MaxConfirms` = 4 lets a speed change, change back and change again, or both
  fans change twice. `Capacity` is 3 in `display_backpressure`, so that a report
  of two messages fits, fits in part, or does not fit.
- `MaxCommands` = 4 with `MaxAttempts` = 3 and `Capacity` = 2 for the relay: a
  command during the boot read, one that supersedes, one after giving up.
- A tick is 30 s: `KeepAlive` and `Timeout` are 2 and `SubscribeTimeout` is 1, as
  in the code. `Outgoing` is 2 instead of 8, which fills while the keep alive
  holds the writer; `MaxInbound` = 2 lets two packets arrive together. Ages stop
  at `MaxAge`, just above what the properties allow, so that sessions, publishes
  and packets need no bound of their own.
- In `ModbusLink` a body is two bytes, three for an echo, one for an exception: the
  lengths differ where the code's do. `MaxStray` = 2 instead of 80 is spent in both
  loops and overdrawn; `MaxNoise` = 3 disturbances reach past that budget; the
  buffer holds a whole answer and two more bytes; a device that owes two answers is
  one whose transaction was ended early. One function that writes and one that
  reads stand for the five, two registers tell answers of one shape apart. Answers
  later than `FAN_TIMEOUT` are left to the proofs, whose `Faults` is any set.
- `MaxChanges` = 3 confirmed speeds: one before the first poll, one that is followed
  and one in the middle of that. Four flows make runs that are steady, move by the
  tolerance or by more. The cadence is 2 with spans of 5 and 11, so that two steady
  readings and five in all are asked for, and neither division is exact: there is
  room for a failed poll between a reading and the two that agree with it.
  `CounterMax` is 6, above the limit as the code's 60 readings are below its 255.
- In `codecs`, words have 8 bits instead of 16 (TLC's integers have 32) and the
  buffer 48 bytes instead of 1024. `TextLengths` are the lengths of topics and of
  the password, up to and past its end: what a publish copies fills the buffer
  exactly with a topic of 43, 42 or 41 letters, as its length takes one, two or
  three bytes, and with one letter more is refused; a CONNECT, which is required to
  fit behind its own head, is sent with a password of 21 and refused with one of
  22, and 60 is too long for either. With the topic `Name`, whose header has 6
  bytes, `PayloadLengths` makes remaining lengths of 127 and 128 (121 and 122),
  where a second byte is taken, and of 16383 and 16384 (16377 and 16378), where a
  third is, with a payload that is many buffers long. What a fan may measure are its limits and something in between: no
  speed, half and all of it (`Shares`) of a maximum that is unknown, small or the
  largest (`Maxima`); zero and the lowest and highest temperature of a word
  (`Degrees`, each with its complement); no moisture and the most; and flags with
  and without a name, and the one that has a field of its own. `OverflowChecks` is
  FALSE, a release build. Three kinds of packet are left out of `Understands`, by
  `IsMisread`; they are findings 12, 14 and 20.

## Fairness

A transaction always ends, by an answer or by its timeout (`FAN_TIMEOUT`): weak
fairness of the actions that end one. A task whose signal is set is polled: weak
fairness of `TakeRequest`. A task that waits for the mutex is woken when it is
released, but another task may lock it first; each of those waits for a back-off
or for a request before it asks again, so that the lock is free infinitely often
and the waiter gets it: strong fairness of the actions that lock. The sensors'
locking is not fair (they may stop), their unlocking is. Nothing is assumed of
users, and nothing of the bus: transactions may fail for ever. Where a
session takes messages (`Deliver`), fairness is the assumption that the broker
is reachable; the relay's blocking report comes to rest only under it, and
`Report` is strongly fair because waiting senders are served in turn.

In `Session` the executor polls the task when one of its futures can go on or a
timer fires, and then all five futures: each of them is weakly fair, and so are the
loop's two timers (`ResetTimesOut`, `Redial`) and the passing of time (`Tick`, which
waits for whatever can go on). An attempt that waits for the broker's acknowledgement
ends if the connection is closed (`GreetFails`), and may wait for ever if it is not
(finding 8). Nothing is assumed of the broker, of a dial, of a flush, nor of those who
publish; `Redials` only leaves out a behaviour in which the next publish is always at
hand before time passes (`<>[]~inHand`), which is a matter of the model's ticks, and
bounded by `NoticesSilence`. What else must happen in time is stated as a bound on
ages.

A transaction of `ModbusLink` goes on by weak fairness of all its steps together
(the UART wakes it, or a timer does), and a device sends what it has to send; that
the line disturbs finitely often is its bound `MaxNoise`, and the code needs it (see
finding 10). In `SensorPolling` timers expire and transactions end (weak), and the
mutex is a first-come-first-served queue of tasks that each give it back (strong
fairness of the two actions that lock, weak fairness of the others' unlock); nothing
is assumed of the channel's reader. In `WifiLink` the tasks run and an access point
that answers gives an address; `JoinsAgain` asks for nothing more than an access
point that is back for good.

## Proofs

`FanControlProofs` proves for any set of set points, any number of attempts and
commands and any set of outcomes: `Invariance` (`Spec => []IInv`),
`CorrectionsAreBounded`, `RestoresSpeed`, `LatestRequestIsCarriedOut`,
`FansStayInSync` and `Refinement`. None of the safety properties is inductive. The
strengthening is

- *Exclusion*: a routine is in a transaction exactly when it holds the mutex;
- *RequestInHand*: from taking a request to finishing it, there is one;
- *ReadsFirst*: until it has read its fan, a routine's fan was not written to;
- *ShowsBelief*: the watch and `current_set_point` agree at every await;
- *TruthfulDisplay*: a shown speed is the real one unless the fan acted
  unconfirmed;
- *CorrectionBudget*: the corrections made, and the user requests in a signal or
  in hand that can still turn into one, never exceed two per command. This is
  what makes the bound on corrections inductive: giving up a user request turns
  a unit of budget into a correction, and a correction carries no budget;
- *SameHeading*: a fan is heading for what is in its signal, else in its routine's
  hands, else what it is believed to run at. Until a step that `LeavesApart` names,
  both fans are heading for one speed: a command sets both headings, a write moves a
  request from hand to belief without changing them, and a routine that gives up puts
  the other one on its own fan's course. A fan at rest that did nothing unconfirmed
  runs at the speed it was heading for, which gives `StaysInSync`.

`LatestRequestIsCarriedOut` needs one more invariant, local to the proofs: while
no write has failed, the last request is in the signal, in hand or done.

`DisplayProofs` proves, for any speeds and borders between the LED patterns, any
size of the channel and any number of confirmed speeds: `Invariance`,
`TypeCorrect`, `NeverPanics`, `ShownIsTold`, `NeverToldTwice` and `StateFits`. The
strengthening is

- *UpdatesAreNews*: an update is a known speed that is not shown, and the debounce
  runs only for one. If it ends with room for everything, that update becomes a
  shown speed before the LEDs are set, so the panicking arm is out of reach;
- *LastSpeedIsShown*: the last speed of a fan in the channel, or the one told last if
  there is none, is the one shown. `HomeHasShownSpeed` is the case of an empty
  channel, and a new report differs from what is shown, so from what it follows;
- *LastStateIsShown*: the same of on and off, as long as no report was cut short.

What is hard is what a full channel leaves of two reports: `TrySendQueue` says which
message comes to stand at each place, `Reports` what this means for each fan, and the
three ends of the channel (the routine's own, the other routines', the session's) are
proved from the places alone.

`RelayProofs` proves the invariant of the relay routine (`DefiniteInHand`,
`CommandUnderway`, `BelievesContact`, and `Reported`: the last report on its way, or
told if there is none, is what is believed) and from it `BeliefIsTrue`,
`LatestCommandIsCarriedOut` and `BeliefIsTold`.

`SessionProofs` proves, for any keep alive, timeout (at most 1.5 keep alives, for
`BrokerIsKept`), capacity and number of packets on their way: `Invariance`,
`AnswersAreOwn`, `SilenceIsNoticed` and `BrokerIsKept`, the last two provided no
peer is gone (`session_gone` shows why). The strengthening is

- *StartsFresh*: outside of a session nothing of one is left, which is what
  dropping the futures is for;
- *OnePing*: the ping is owed, its answer on the way, signalled, or lost, and at
  most one of these; none while `keep_alive` is not waiting for it;
- *SubscribesOnce*: the same account for the request for subscriptions, which is
  first in the channel;
- *Timely*: what `keep_alive` knows is never fresher than what happened. This
  makes the bounds inductive: the silence and the broker's wait are bounded by
  the instants and signals, and these by the deadline.

`ModbusLinkProofs` proves, for any devices, functions, registers, values, faults
(late answers among them) and bounds: `Invariant`, and from it `LineIsAlwaysClean`,
`AlwaysAnswersOnCleanLine`, `AlwaysAnsweredByDevice` and `OutcomeIsAlwaysTrue`. The
strengthening is

- *HeaderFound*: what the search hands on is a header of the device that was asked.
  With a matching checksum it follows that the answer is this device's, which no
  assumption on the line is needed for;
- *OneAnswer*: unless a transaction was ended early, there is at most one answer,
  either still to come, and then none of its bytes is on the line, or in the buffer
  in its order (*InOrder*), and it tells the truth about the request under way
  (*ToCome*, `IsTrue`). A transaction that fails has to take the line to this state,
  which is what clearing it is for, unless nothing had come of the answer yet or a
  receive error ends the clearing: only these two set `left`, the one when the
  transaction fails and the other in `Discard`, so that a `Discard` that stopped for
  any other reason would violate the invariant;
- *Confirmed*: what was accepted, and that it stays true until the next request.

Sequences of bytes are the hard part: the lemmas about dropping a prefix of the
buffer and about frames are stated once and cited by name.

`SensorPollingProofs` proves, for any cadence and spans, any width of the counters,
any flows and any number of confirmed speeds: `Invariance`, `TypeCorrect`,
`ReadingsAreOfOneMoment`, `QuickReadingsAreBounded` and `StopsSettled`. The
strengthening is *Watching*: while a change is followed, the watcher has counted
every reading since, none of which reached a limit; the flow it compares with is the
last one that was read; and the readings it counts as steady do agree. That its
counters never saturate follows, because `readings_in` stays within them.

`FanSensorProofs` proves the decoding rules one by one, for words of any width, which
`codecs` runs with 8 bits: `TenthsKeepTheirValue`, `SignedIsTwosComplement`,
`HumidityIsAFraction`, `SpeedFitsWord`, `NoFlagIsSwallowed` and `HealthIsWritten`.
They are facts about operators and have no invariant.

`WireProofs` proves every invariant of `codecs`: `PacketsAreStandard`,
`OnlyLargeIsRefused`, `ReadingsArrive`, `BeginningIsNoPacket` and `BrokerIsUnderstood`,
for payloads of any length the flash holds and texts of any length up to 65535
(`FlashAssumption`), any size of the buffer
from two bytes to `MAX` (`BuildAssumption`), words of any width and any measurement a
register can hold (`MeasurementAssumption`). `BeginningIsNoPacket` is about the build that is
released (`~OverflowChecks`); the other build panics there, finding 13. The invariant,
`WireInvHolds`, is small, because each packet starts from rest:

- *Told*, *Sent*: what is on the connection is what `send` made of the packet, or what
  the standard makes of the broker's, or a proper beginning of that;
- *ReadingIsTold*: the packet of a reading is the text of what was measured;
- *IsHeard*: what was heard was decoded from what is on the connection.

What is hard is what the codec does with all these bytes:

- `SendsStandard` is stronger than the invariants it serves: a publish with a payload of
  any length, a CONNECT with any texts, a SUBSCRIBE to any number of topics; a publish
  is refused only if its header does not fit. Texts are
  `IsShort`: of the length of a longer one, `Word16` and the code write the low two
  bytes only, which a buffer of 1024 bytes keeps from happening. The theorem needs that
  seven bits a byte are the standard's form of a length up to `MAX`, and where in the
  buffer each part of a packet comes to lie;
- `DecodesStandard` reads such a length back from any place in a buffer, and
  `NoticesCutDigits` says what becomes of its beginning; `PartsOfWhole` and
  `PartsOfCut` carry both over to packets, of which no beginning is as long as it
  announces to be;
- `FixedAreSkipped` goes through any number of CONNACK properties of fixed length,
  whichever they are: each is skipped with its own length, and the end of the last one
  is the end of them all. The properties of the other packets are skipped as a whole
  (`SkipsProperties`);
- `ReadingTells` follows a measurement through `decode`, `to_json` and the packet,
  with the lemmas of `FanSensorProofs`.

Two operators recurse over a sequence, `FlattenSeq` and `PropertiesSkipped`. The
library's induction theorems are of no use (below); `Induction` states, of a set of
numbers instead of an operator, that a number outside of it would have to have a
smallest one before it, and `Flattened` and `FixedAreSkipped` are instances of it, as is
`SkippingEnds`, which shows that the recursive function exists. What TLC evaluates of all
this are the five consequences and not `WireInv`, whose set of letters mixes numbers
and sets of flags.

The assumptions are the named `ASSUME`s of the modules; TLC evaluates them in
the runs. Only model-checked is liveness under fairness (`Settles`,
`EventuallyShown`, `ComesToRest`, `Redials`, `Ends`, `FollowsChanges`, `ComesBack`),
which is out of the prover's reach as `ENABLED` is. So are recursive operators, of
which the modules have none, and the library's induction theorems, whose parameter is
an operator. Every safety property that a run checks is a theorem, except the ones
the code violates: `OutOfSyncIsShown`, `AnswersRequest`, and `NoticesSilence` with a peer
that is gone (`JoinsAgain`, which is liveness, is the fourth).

## Disagreements between the code and what is said of it

Four of them have a run that shows them (1, 6, 9, 17); the others were met while
modelling. `PROJECT.json` quotes the sentences.

1. `fan_control_routine` writes a fourth time after three attempts and treats
   that write as failed even when it is acknowledged (main.rs:1092, 1114).
2. An update that is overtaken by the speed it came from stays pending and is
   shown (main.rs:267-273).
3. A full channel keeps `display_routine` from updating the LEDs (main.rs:331).
4. A report lost with a session is not repeated (task.rs:820-822).
5. `relay_routine` keeps its belief when a newer request supersedes one that may
   have been carried out, and then skips a command (main.rs:1018).
6. `send` waits for the other end to acknowledge, without a timeout and with the
   writer locked: a broker that vanishes is not noticed (mqtt/task.rs:64).
7. `listen` takes one read for one packet and drops what follows, a ping response
   for instance (task.rs:182).
8. `connect` waits for the broker's acknowledgement without a timeout
   (mqtt/task.rs:95).
9. Stray bytes at the turnaround end a transaction after 5 ms, while the device
   still thinks; its answer is taken for the next one's (client.rs:778).
10. Clearing the line has no bound: a line that babbles holds the mutex for ever
    (client.rs:884).
11. Clearing the line stops at the first receive error, and a request that cannot be
    sent leaves the driver enabled (client.rs:893, 642).
12. A text property in the acknowledgement of CONNECT is read with a length of the
    wrong form, and the connection refused (connect_acknowledgement.rs:78).
13. The number of missing bytes is subtracted the wrong way round and panics in a
    debug build (packet/mod.rs:37).
14. A DISCONNECT without a reason panics (disconnect.rs:99).
15. Giving up on a fan is counted in readings of the cadence; a silent fan makes two
    minutes last ten (fan_sensor lib.rs:362).
16. The controller subscribes to a topic of its own whose commands it does not know
    (task.rs:462).
17. A Wi-Fi link that is lost while an address is awaited is never joined again
    (task.rs:589).
18. A fan that gives up pushes the other one back without looking at what waits for
    itself: a newer command is lost on one side, or two corrections cross, and the
    fans come to rest at different speeds without any correction having failed
    (main.rs:1133). `FanControl!StaysInSync` names these cases in `LeavesApart`.
19. The flow read after a failed poll is compared with the one before it and counts
    as steady, though the test of that case says the two are not consecutive
    (fan_sensor lib.rs:391). `SensorPolling!HeldStill` states what the code does.

20. An acknowledgement that refuses a subscription is recorded as one that accepts it
    (subscribe_acknowledgement.rs:34, task.rs:66).

## Not modelled, and the plan

- LED timing (`led_routine`, `blink`, `animate`) and the debouncer: durations of
  light and of a level, which no other part reads; `Display` models what is
  signalled to the LEDs and `FanControl!PressButton` a press that was long enough.
- Boot, reset cause, `gain_control`: spawning of tasks, logging and firmware of the
  radio, pure I/O.
- Topics, discovery and `build.rs`: strings put together at build time.
- How numbers are formatted and parsed as text: `Wire` has a number as one letter.
- The debug listener and the browser panel (`src/serial`): other programs, the
  latter in TypeScript, that share neither code nor state with the firmware.

What would come next: a refinement of `FanControl`'s transactions by `ModbusLink`;
the panel's connection and bus monitor.
