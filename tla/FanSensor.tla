----------------------------- MODULE FanSensor -----------------------------
(***************************************************************************)
(* What a fan reports about itself, decoded, and the watcher that decides  *)
(* when a fan has arrived at a new speed.  Operators only.                 *)
(***************************************************************************)
EXTENDS Integers, FiniteSets

CONSTANTS
  WordMax,     \* u16::MAX, scaled down so that products can be computed
  SpeedMax,    \* set_point::MAX, scaled with it
  CounterMax,  \* u8::MAX
  NoFlow       \* None: the poll failed

ASSUME WidthAssumption ==
  WordMax \in Nat \ {0} /\ SpeedMax \in 1 .. WordMax /\ CounterMax \in Nat \ {0}

ASSUME NoFlowAssumption == NoFlow \notin 0 .. WordMax

Word == 0 .. WordMax

Least(a, b) == IF a <= b THEN a ELSE b

-----------------------------------------------------------------------------
(***************************************************************************)
(* Decoding                                                                *)
(***************************************************************************)

\* The speed is a fraction of the maximum, which may be exceeded by some percent.
speed(reported, maximum) == Least((reported * maximum) \div SpeedMax, WordMax)

\* `as i16`: the upper half of the words stands for negative numbers.
Signed(word) == IF 2 * word > WordMax THEN word - (WordMax + 1) ELSE word

\* Tenths of a percent.
relative_humidity(raw) == (raw * 1000) \div (WordMax + 1)

SignOfWhole(t) ==  \* mutated
  LET magnitude == IF t < 0 THEN -t ELSE t
  IN  [isNegative |-> t <= -10, whole |-> magnitude \div 10, tenth |-> magnitude % 10]

\* The sign of tenths is written apart, so that a tenth below zero keeps it.
Tenths(t) ==
  LET magnitude == IF t < 0 THEN -t ELSE t
  IN  [isNegative |-> t < 0, whole |-> magnitude \div 10, tenth |-> magnitude % 10]

\* The bits with a name, the most significant first.
MotorStatusFlags == {12, 7, 5, 4, 3}

WarningFlags == {12, 10, 9, 6, 5, 4}

AnalogSetPointBreak == {10}

\* What is written of a word, given as the set of its bits: names, the others as
\* one number, and nothing but "OK" if there is neither.
write_flags(bits, flags, elsewhere) ==
  LET names        == (bits \cap flags) \ elsewhere
      undocumented == bits \ (flags \cup elsewhere)
  IN  [names |-> names, undocumented |-> undocumented,
       ok |-> names = {} /\ undocumented = {}]

MotorIsHealthy(bits) == bits = {}

WarningIsHealthy(bits) == bits \ AnalogSetPointBreak = {}

\* Both runs of registers, as far as each has a rule of its own.
decode(status, air, maximum) ==
  [ speed |-> IF maximum = NoFlow THEN NoFlow ELSE speed(status.speed, maximum),
    motorStatus |-> write_flags(status.motor, MotorStatusFlags, {}),
    warning |-> write_flags(status.warning, WarningFlags, AnalogSetPointBreak),
    motorTemperature |-> Signed(status.temperature),
    airTemperature |-> Tenths(Signed(air.temperature)),
    airHumidity |-> Tenths(relative_humidity(air.humidity)),
    volumeFlow |-> air.flow ]

-----------------------------------------------------------------------------
(***************************************************************************)
(* Settling                                                                *)
(***************************************************************************)

TOLERANCE == 1

\* Never fewer than one, never more than the counters hold.
readings_in(span, interval) ==
  LET n == span \div (IF interval < 1 THEN 1 ELSE interval)
  IN  IF n < 1 THEN 1 ELSE Least(n, CounterMax)

Settling ==
  [previous : Word \cup {NoFlow}, steady : 0 .. CounterMax, required : 1 .. CounterMax,
   taken : 0 .. CounterMax, limit : 1 .. CounterMax]

at_interval(steadyFor, giveUpAfter, interval) ==
  [previous |-> NoFlow, steady |-> 0, required |-> readings_in(steadyFor, interval),
   taken |-> 0, limit |-> readings_in(giveUpAfter, interval)]

saturating_add(n) == Least(n + 1, CounterMax)

IsSteady(a, b) == (IF a < b THEN b - a ELSE a - b) <= TOLERANCE

CountsAnswers(s, flow) ==  \* mutated
  [s EXCEPT
     !.taken = IF flow = NoFlow THEN @ ELSE saturating_add(@),
     !.previous = IF flow = NoFlow THEN @ ELSE flow,
     !.steady = CASE flow = NoFlow -> 0
                  [] flow # NoFlow /\ s.previous = NoFlow -> @
                  [] flow # NoFlow /\ s.previous # NoFlow ->
                       IF IsSteady(flow, s.previous) THEN saturating_add(@) ELSE 0]

SkipsFailures(s, flow) ==  \* mutated
  [s EXCEPT
     !.taken = saturating_add(@),
     !.previous = IF flow = NoFlow THEN @ ELSE flow,
     !.steady = CASE flow = NoFlow \/ s.previous = NoFlow -> @
                  [] flow # NoFlow /\ s.previous # NoFlow ->
                       IF IsSteady(flow, s.previous) THEN saturating_add(@) ELSE 0]

\* A failed poll keeps the flow to compare with, but breaks the run.
observe(s, flow) ==
  [s EXCEPT
     !.taken = saturating_add(@),
     !.previous = IF flow = NoFlow THEN @ ELSE flow,
     !.steady = CASE flow = NoFlow -> 0
                  [] flow # NoFlow /\ s.previous = NoFlow -> @
                  [] flow # NoFlow /\ s.previous # NoFlow ->
                       IF IsSteady(flow, s.previous) THEN saturating_add(@) ELSE 0]

NeverGivesUp(s) == IF s.steady >= s.required THEN "settled" ELSE "moving"  \* mutated

Progress(s) ==
  CASE s.steady >= s.required -> "settled"
    [] s.steady < s.required /\ s.taken >= s.limit -> "gave_up"
    [] OTHER -> "moving"
=============================================================================
