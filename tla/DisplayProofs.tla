--------------------------- MODULE DisplayProofs ---------------------------
(***************************************************************************)
(* What display_routine guarantees for any speeds and any borders between  *)
(* them, any room in the channel to the MQTT session, and any number of    *)
(* confirmed speeds.                                                       *)
(***************************************************************************)
EXTENDS Display, SequenceTheorems, TLAPS

-----------------------------------------------------------------------------
(***************************************************************************)
(* Messages and patterns                                                   *)
(***************************************************************************)

\* A message is another routine's, a fan's speed, or whether a fan is on.
LEMMA Kinds ==
  ASSUME NEW m \in Message
  PROVE  /\ m = OtherMessage <=> m.fan = 0
         /\ m # OtherMessage => m.fan \in Fan
         /\ \A f \in Fan :
              /\ IsSpeedOf(f, m) => m # OtherMessage /\ m.fan = f /\ m.speed \in SetPoint
              /\ IsStateOf(f, m) => m # OtherMessage /\ m.fan = f /\ m.isOn \in BOOLEAN
              /\ m.fan = f => (IsStateOf(f, m) <=> ~IsSpeedOf(f, m))
<1> USE DEF IsSpeedOf, IsStateOf, Fan, OtherMessage
<1>1. CASE m \in [fan : Fan, isOn : BOOLEAN]
  BY <1>1
<1>2. CASE m \in [fan : Fan, speed : SetPoint]
  BY <1>2
<1>3. CASE m = OtherMessage
  BY <1>3
<1> QED
  BY <1>1, <1>2, <1>3 DEF Message

\* The messages a report is made of.
LEMMA Made ==
  ASSUME NEW f \in Fan
  PROVE  /\ \A s \in SetPoint : /\ SpeedMessage(f, s) \in Message
                                /\ SpeedMessage(f, s).fan = f
                                /\ SpeedMessage(f, s).speed = s
                                /\ IsSpeedOf(f, SpeedMessage(f, s))
         /\ \A b \in BOOLEAN : /\ StateMessage(f, b) \in Message
                               /\ StateMessage(f, b).fan = f
                               /\ StateMessage(f, b).isOn = b
                               /\ IsStateOf(f, StateMessage(f, b))
         /\ OtherMessage \in Message
BY DEF Message, SpeedMessage, StateMessage, OtherMessage, IsSpeedOf, IsStateOf

\* An LED blinks at most three times for any speed.
LEMMA BlinkType == ASSUME NEW s \in Speed PROVE Blink(s) \in 0 .. 3
BY SetPointAssumption, LimitAssumption DEF Blink, Speed

\* The panicking arm is only taken when neither speed is known.
LEMMA LedStateType ==
  ASSUME NEW speed \in [Fan -> Speed]
  PROVE  /\ LedState(speed) \in Pattern
         /\ (\E f \in Fan : speed[f] # Unknown) => LedState(speed) # Unreachable
<1>1. /\ speed[1] \in Speed /\ speed[2] \in Speed
      /\ Blink(speed[1]) \in 0 .. 3 /\ Blink(speed[2]) \in 0 .. 3
  BY BlinkType DEF Fan
<1>2. CASE speed[1] = Unknown /\ speed[2] = Unknown
  BY <1>2 DEF LedState, Pattern, Unreachable, Fan
<1>3. CASE speed[1] = speed[2] /\ speed[1] # Unknown
  BY <1>1, <1>3 DEF LedState, Pattern, Unreachable
<1>4. CASE speed[1] # speed[2]
  BY <1>1, <1>4 DEF LedState, Pattern, Unreachable
<1> QED
  BY <1>2, <1>3, <1>4

-----------------------------------------------------------------------------
(***************************************************************************)
(* Reports                                                                 *)
(***************************************************************************)

\* The report of an update ends with the speed, after the state if that is told.
LEMMA ReportType ==
  ASSUME TypeOK, NEW f \in Fan
  PROVE  /\ Report(f) \in Seq(Message)
         /\ update[f] = Unknown => Len(Report(f)) = 0
         /\ update[f] # Unknown => Len(Report(f)) \in {1, 2}
         /\ update[f] # Unknown => (Len(Report(f)) = 2 <=> TellsState(f))
         /\ update[f] # Unknown => Report(f)[Len(Report(f))] = SpeedMessage(f, update[f])
         /\ update[f] # Unknown /\ TellsState(f) =>
              Report(f)[1] = StateMessage(f, update[f] # 0)
<1>1. CASE update[f] = Unknown
  BY <1>1, EmptySeq DEF Report
<1>2. CASE update[f] # Unknown
  <2> DEFINE state == StateMessage(f, update[f] # 0)
             speed == SpeedMessage(f, update[f])
  <2>1. update[f] \in SetPoint
    BY <1>2 DEF TypeOK, Speed
  <2>2. state \in Message /\ speed \in Message
    BY <2>1, Made
  <2> HIDE DEF state, speed
  <2>3. CASE TellsState(f)
    <3>1. Report(f) = <<state>> \o <<speed>>
      BY <1>2, <2>3 DEF Report, state, speed
    <3>2. /\ <<state>> \in Seq(Message) /\ <<speed>> \in Seq(Message)
          /\ Len(<<state>>) = 1 /\ Len(<<speed>>) = 1
          /\ <<state>>[1] = state /\ <<speed>>[1] = speed
      BY <2>2
    <3>3. /\ <<state>> \o <<speed>> \in Seq(Message)
          /\ Len(<<state>> \o <<speed>>) = 2
          /\ (<<state>> \o <<speed>>)[1] = state /\ (<<state>> \o <<speed>>)[2] = speed
      BY <3>2, ConcatProperties
    <3> QED
      BY <1>2, <2>3, <3>1, <3>3 DEF state, speed
  <2>4. CASE ~TellsState(f)
    <3>1. Report(f) = <<>> \o <<speed>>
      BY <1>2, <2>4 DEF Report, speed
    <3>2. <<>> \o <<speed>> = <<speed>>
      BY <2>2, ConcatEmptySeq
    <3> QED
      BY <1>2, <2>2, <2>4, <3>1, <3>2 DEF state, speed
  <2> QED
    BY <2>3, <2>4
<1> QED
  BY <1>1, <1>2

\* Where in the channel the report of fan f ends, if there is room, and where it begins.
End(f) == Len(out) + Len(Report(1)) + (IF f = 2 THEN Len(Report(2)) ELSE 0)

Start(f) == End(f) - Len(Report(f))

\* What trying to send leaves in the channel: as much of both reports as fits.
LEMMA TrySendQueue ==
  ASSUME TypeOK, out' = TrySend(out, Report(1) \o Report(2))
  PROVE  /\ out' \in Seq(Message)
         /\ Len(out') = IF End(2) <= Capacity THEN End(2) ELSE Capacity
         /\ \A i \in 1 .. Len(out) : out'[i] = out[i]
         /\ \A f \in Fan : \A i \in Start(f) + 1 .. End(f) :
              i <= Capacity => out'[i] = Report(f)[i - Start(f)]
<1> DEFINE ms == Report(1) \o Report(2)
           all == out \o ms
<1>1. /\ out \in Seq(Message) /\ Len(out) <= Capacity
      /\ Report(1) \in Seq(Message) /\ Report(2) \in Seq(Message)
  BY ReportType DEF TypeOK, Fan
<1>2. Len(out) \in Nat /\ Len(Report(1)) \in Nat /\ Len(Report(2)) \in Nat /\ Capacity \in Nat
  BY <1>1, LenProperties, BoundAssumption
<1>3. /\ ms \in Seq(Message) /\ Len(ms) = Len(Report(1)) + Len(Report(2))
      /\ \A i \in 1 .. Len(Report(1)) + Len(Report(2)) :
           ms[i] = IF i <= Len(Report(1)) THEN Report(1)[i] ELSE Report(2)[i - Len(Report(1))]
  BY <1>1, ConcatProperties
<1>4. /\ all \in Seq(Message) /\ Len(all) = Len(out) + Len(ms)
      /\ \A i \in 1 .. Len(out) + Len(ms) :
           all[i] = IF i <= Len(out) THEN out[i] ELSE ms[i - Len(out)]
  BY <1>1, <1>3, ConcatProperties
<1>5. End(2) = Len(all) /\ Start(1) = Len(out) /\ End(1) = Len(out) + Len(Report(1))
      /\ Start(2) = End(1)
  BY <1>2, <1>3, <1>4 DEF End, Start
<1> HIDE DEF ms, all
<1>6. /\ out' \in Seq(Message)
      /\ Len(out') = IF End(2) <= Capacity THEN End(2) ELSE Capacity
      /\ \A i \in 1 .. Len(all) : i <= Capacity => out'[i] = all[i]
  <2>1. CASE End(2) <= Capacity
    <3>1. out' = all
      BY <1>2, <1>4, <1>5, <2>1 DEF TrySend, Fits, ms, all
    <3> QED
      BY <1>4, <1>5, <2>1, <3>1
  <2>2. CASE ~(End(2) <= Capacity)
    <3>1. out' = SubSeq(all, 1, Capacity)
      BY <1>2, <1>4, <1>5, <2>2 DEF TrySend, Fits, ms, all
    <3>2. \A i \in 1 .. Capacity : all[i] \in Message
      BY <1>2, <1>3, <1>4, <1>5, <2>2, ElementOfSeq
    <3>3. Capacity \in Nat \ {0}
      BY BoundAssumption
    <3>4. /\ SubSeq(all, 1, Capacity) \in Seq(Message)
          /\ Len(SubSeq(all, 1, Capacity)) = Capacity
          /\ \A i \in 1 .. Capacity : SubSeq(all, 1, Capacity)[i] = all[i]
      BY <3>2, <3>3, SubSeqProperties
    <3>5. /\ out' \in Seq(Message) /\ Len(out') = Capacity
          /\ \A i \in 1 .. Capacity : out'[i] = all[i]
      BY <3>1, <3>4
    <3>6. \A i \in 1 .. Len(all) : i <= Capacity => i \in 1 .. Capacity
      BY <1>2
    <3> QED
      BY <2>2, <3>5, <3>6
  <2> QED
    BY <2>1, <2>2
<1>7. \A i \in 1 .. Len(out) : out'[i] = out[i]
  BY <1>1, <1>2, <1>3, <1>4, <1>6
<1>8. ASSUME NEW i \in Start(1) + 1 .. End(1), i <= Capacity
      PROVE  out'[i] = Report(1)[i - Start(1)]
  <2>1. /\ i \in 1 .. Len(all) /\ ~(i <= Len(out))
        /\ i - Len(out) \in 1 .. Len(Report(1)) /\ i - Len(out) <= Len(Report(1))
        /\ i - Len(out) \in 1 .. Len(Report(1)) + Len(Report(2))
    BY <1>2, <1>3, <1>4, <1>5, <1>8
  <2>2. out'[i] = all[i] /\ all[i] = ms[i - Len(out)]
    BY <1>4, <1>6, <1>8, <2>1
  <2>3. ms[i - Len(out)] = Report(1)[i - Len(out)]
    BY <1>3, <2>1
  <2> QED
    BY <1>5, <2>2, <2>3
<1>9. ASSUME NEW i \in Start(2) + 1 .. End(2), i <= Capacity
      PROVE  out'[i] = Report(2)[i - Start(2)]
  <2>1. /\ i \in 1 .. Len(all) /\ ~(i <= Len(out))
        /\ i - Len(out) \in 1 .. Len(Report(1)) + Len(Report(2))
        /\ ~(i - Len(out) <= Len(Report(1)))
        /\ (i - Len(out)) - Len(Report(1)) = i - Start(2)
    BY <1>2, <1>3, <1>4, <1>5, <1>9
  <2>2. out'[i] = all[i] /\ all[i] = ms[i - Len(out)]
    BY <1>4, <1>6, <1>9, <2>1
  <2>3. ms[i - Len(out)] = Report(2)[(i - Len(out)) - Len(Report(1))]
    BY <1>3, <2>1
  <2> QED
    BY <2>1, <2>2, <2>3
<1> QED
  BY <1>6, <1>7, <1>8, <1>9 DEF Fan

\* The places of the reports, and whether a report is sent to its end.
LEMMA Places ==
  ASSUME TypeOK
  PROVE  /\ Len(out) \in Nat /\ Start(1) = Len(out) /\ Start(2) = End(1)
         /\ \A f \in Fan :
              /\ Start(f) \in Nat /\ End(f) \in Nat
              /\ Len(out) <= Start(f) /\ Start(f) <= End(f) /\ End(f) <= End(2)
              /\ End(f) = Start(f) + Len(Report(f))
              /\ Sent(f) <=> update[f] # Unknown /\ End(f) <= Capacity
<1>1. /\ out \in Seq(Message) /\ Len(out) <= Capacity
      /\ Report(1) \in Seq(Message) /\ Report(2) \in Seq(Message)
  BY ReportType DEF TypeOK, Fan
<1>2. Len(out) \in Nat /\ Len(Report(1)) \in Nat /\ Len(Report(2)) \in Nat /\ Capacity \in Nat
  BY <1>1, LenProperties, BoundAssumption
<1>3. Len(out \o Report(1)) = Len(out) + Len(Report(1))
  BY <1>1, ConcatProperties
<1> QED
  BY <1>2, <1>3 DEF Start, End, Sent, Fits, Fan

\* The places of a report of one or two messages.
LEMMA OneOrTwo ==
  ASSUME NEW n \in {1, 2}, NEW a \in Nat, NEW e, e = a + n
  PROVE  /\ e \in Nat /\ e \in a + 1 .. e /\ e - a = n
         /\ a + 1 \in a + 1 .. e /\ a + 1 <= e /\ (a + 1) - a = 1
         /\ \A i \in a + 1 .. e : i # e => n = 2 /\ i = a + 1 /\ i - a = 1
OBVIOUS

\* What a message is that a report adds to the channel.
LEMMA Added ==
  ASSUME TypeOK, out' = TrySend(out, Report(1) \o Report(2)),
         NEW i \in Len(out) + 1 .. Len(out')
  PROVE  \E f \in Fan :
           /\ update[f] \in SetPoint
           /\ \/ i = End(f) /\ out'[i] = SpeedMessage(f, update[f])
              \/ /\ TellsState(f) /\ i = Start(f) + 1 /\ i # End(f)
                 /\ out'[i] = StateMessage(f, update[f] # 0)
<1>1. /\ Len(out') = IF End(2) <= Capacity THEN End(2) ELSE Capacity
      /\ \A f \in Fan : \A k \in Start(f) + 1 .. End(f) :
           k <= Capacity => out'[k] = Report(f)[k - Start(f)]
  BY TrySendQueue
<1>2. Len(out) \in Nat /\ Start(1) = Len(out) /\ Start(2) = End(1) /\ Capacity \in Nat
  BY Places, BoundAssumption
<1>3. \A f \in Fan : Start(f) \in Nat /\ End(f) \in Nat /\ End(f) = Start(f) + Len(Report(f))
  BY Places
<1>4. i \in Nat /\ i <= Capacity /\ i <= End(2)
  BY <1>1, <1>2, <1>3 DEF Fan
<1>5. PICK f \in Fan : i \in Start(f) + 1 .. End(f)
  <2>1. CASE i <= End(1)
    BY <1>2, <1>3, <1>4, <2>1 DEF Fan
  <2>2. CASE ~(i <= End(1))
    BY <1>2, <1>3, <1>4, <2>2 DEF Fan
  <2> QED
    BY <2>1, <2>2
<1>6. out'[i] = Report(f)[i - Start(f)]
  BY <1>1, <1>4, <1>5
<1>7. /\ update[f] = Unknown => Len(Report(f)) = 0
      /\ update[f] # Unknown => Len(Report(f)) \in {1, 2}
      /\ update[f] # Unknown => (Len(Report(f)) = 2 <=> TellsState(f))
      /\ update[f] # Unknown => Report(f)[Len(Report(f))] = SpeedMessage(f, update[f])
      /\ update[f] # Unknown /\ TellsState(f) =>
           Report(f)[1] = StateMessage(f, update[f] # 0)
  BY ReportType
<1>8. update[f] # Unknown
  BY <1>3, <1>5, <1>7
<1>9. update[f] \in SetPoint
  BY <1>8 DEF TypeOK, Speed
<1>10. /\ Len(Report(f)) \in {1, 2} /\ (Len(Report(f)) = 2 => TellsState(f))
       /\ Start(f) \in Nat /\ End(f) = Start(f) + Len(Report(f))
  BY <1>3, <1>7, <1>8
<1>11. CASE i = End(f)
  <2>1. i - Start(f) = Len(Report(f))
    BY <1>10, <1>11
  <2> QED
    BY <1>6, <1>7, <1>8, <1>9, <1>11, <2>1
<1>12. CASE i # End(f)
  <2>1. TellsState(f) /\ i = Start(f) + 1 /\ i - Start(f) = 1
    BY <1>5, <1>10, <1>12, OneOrTwo, Zenon
  <2> QED
    BY <1>6, <1>7, <1>8, <1>9, <1>12, <2>1
<1> QED
  BY <1>11, <1>12

\* What the end of the debounce adds to the channel: of each fan that is sent one speed,
\* its update, and before it the state if that is told; of one that is not sent no speed.
LEMMA Reports ==
  ASSUME TypeOK, out' = TrySend(out, Report(1) \o Report(2))
  PROVE  /\ out' \in Seq(Message) /\ Len(out') <= Capacity
         /\ Len(out) \in Nat /\ Len(out') \in Nat /\ Len(out) <= Len(out')
         /\ DOMAIN out = 1 .. Len(out) /\ DOMAIN out' = 1 .. Len(out')
         /\ \A i \in 1 .. Len(out) : out'[i] = out[i]
         /\ \A f \in Fan, i \in Len(out) + 1 .. Len(out') :
              /\ IsSpeedOf(f, out'[i]) => Sent(f) /\ i = End(f) /\ out'[i].speed = update[f]
              /\ IsStateOf(f, out'[i]) =>
                   /\ update[f] # Unknown /\ TellsState(f)
                   /\ i = Start(f) + 1 /\ out'[i].isOn = (update[f] # 0)
         /\ \A f \in Fan :
              Sent(f) =>
                /\ End(f) \in Len(out) + 1 .. Len(out') /\ IsSpeedOf(f, out'[End(f)])
                /\ TellsState(f) =>
                     /\ Start(f) + 1 \in Len(out) + 1 .. Len(out')
                     /\ IsStateOf(f, out'[Start(f) + 1])
<1>1. /\ out' \in Seq(Message)
      /\ Len(out') = IF End(2) <= Capacity THEN End(2) ELSE Capacity
      /\ \A i \in 1 .. Len(out) : out'[i] = out[i]
      /\ \A f \in Fan : \A i \in Start(f) + 1 .. End(f) :
           i <= Capacity => out'[i] = Report(f)[i - Start(f)]
  BY TrySendQueue
<1>2. /\ Len(out) \in Nat /\ Len(out) <= Capacity /\ Capacity \in Nat
      /\ Start(1) = Len(out) /\ Start(2) = End(1)
      /\ DOMAIN out = 1 .. Len(out)
  BY Places, BoundAssumption, LenProperties DEF TypeOK
<1>3. \A f \in Fan :
        /\ Start(f) \in Nat /\ End(f) \in Nat
        /\ Len(out) <= Start(f) /\ Start(f) <= End(f) /\ End(f) <= End(2)
        /\ End(f) = Start(f) + Len(Report(f))
        /\ Sent(f) <=> update[f] # Unknown /\ End(f) <= Capacity
  BY Places
<1>4. Len(out') \in Nat /\ Len(out') <= Capacity /\ Len(out) <= Len(out')
      /\ DOMAIN out' = 1 .. Len(out')
  BY <1>1, <1>2, <1>3, LenProperties DEF Fan
<1>5. ASSUME NEW f \in Fan, NEW i \in Len(out) + 1 .. Len(out')
      PROVE  /\ IsSpeedOf(f, out'[i]) => Sent(f) /\ i = End(f) /\ out'[i].speed = update[f]
             /\ IsStateOf(f, out'[i]) =>
                  /\ update[f] # Unknown /\ TellsState(f)
                  /\ i = Start(f) + 1 /\ out'[i].isOn = (update[f] # 0)
  <2>1. PICK g \in Fan :
          /\ update[g] \in SetPoint
          /\ \/ i = End(g) /\ out'[i] = SpeedMessage(g, update[g])
             \/ /\ TellsState(g) /\ i = Start(g) + 1 /\ i # End(g)
                /\ out'[i] = StateMessage(g, update[g] # 0)
    BY Added
  <2>2. i <= Capacity
    BY <1>2, <1>4
  <2>3. update[g] # Unknown
    BY <2>1, UnknownAssumption
  <2>4. CASE i = End(g) /\ out'[i] = SpeedMessage(g, update[g])
    <3>1. out'[i] \in Message /\ out'[i].fan = g /\ IsSpeedOf(g, out'[i]) /\ out'[i].speed = update[g]
      BY <2>1, <2>4, Made
    <3>2. ~IsStateOf(g, out'[i]) /\ (IsSpeedOf(f, out'[i]) => f = g) /\ (IsStateOf(f, out'[i]) => f = g)
      BY <3>1, Kinds
    <3> QED
      BY <1>3, <2>2, <2>3, <2>4, <3>1, <3>2
  <2>5. CASE /\ TellsState(g) /\ i = Start(g) + 1
             /\ out'[i] = StateMessage(g, update[g] # 0)
    <3> DEFINE isOn == update[g] # 0
    <3>1. /\ out'[i] \in Message /\ out'[i].fan = g /\ IsStateOf(g, out'[i])
          /\ out'[i].isOn = isOn
      <4>1. isOn \in BOOLEAN /\ out'[i] = StateMessage(g, isOn)
        BY <2>5
      <4> HIDE DEF isOn
      <4> QED
        BY <4>1, Made
    <3>2. ~IsSpeedOf(g, out'[i]) /\ (IsSpeedOf(f, out'[i]) => f = g) /\ (IsStateOf(f, out'[i]) => f = g)
      BY <3>1, Kinds
    <3> QED
      BY <2>3, <2>5, <3>1, <3>2
  <2> QED
    BY <2>1, <2>4, <2>5
<1>6. ASSUME NEW f \in Fan, Sent(f)
      PROVE  /\ End(f) \in Len(out) + 1 .. Len(out') /\ IsSpeedOf(f, out'[End(f)])
             /\ TellsState(f) =>
                  /\ Start(f) + 1 \in Len(out) + 1 .. Len(out')
                  /\ IsStateOf(f, out'[Start(f) + 1])
  <2>1. update[f] # Unknown /\ update[f] \in SetPoint /\ End(f) <= Capacity
    BY <1>3, <1>6 DEF TypeOK, Speed
  <2>2. /\ Len(Report(f)) \in {1, 2} /\ (Len(Report(f)) = 2 <=> TellsState(f))
        /\ Report(f)[Len(Report(f))] = SpeedMessage(f, update[f])
        /\ TellsState(f) => Report(f)[1] = StateMessage(f, update[f] # 0)
    BY <2>1, ReportType
  <2>3. /\ Len(Report(f)) \in {1, 2} /\ (TellsState(f) => Len(Report(f)) = 2)
        /\ Start(f) \in Nat /\ End(f) = Start(f) + Len(Report(f))
        /\ Len(out) <= Start(f) /\ End(f) <= End(2) /\ End(2) \in Nat
    BY <1>3, <2>2 DEF Fan
  <2>4. /\ End(f) \in Nat /\ End(f) \in Start(f) + 1 .. End(f)
        /\ End(f) - Start(f) = Len(Report(f))
        /\ Start(f) + 1 \in Start(f) + 1 .. End(f) /\ Start(f) + 1 <= End(f)
        /\ (Start(f) + 1) - Start(f) = 1
    BY <2>3, OneOrTwo, Zenon
  <2>5. /\ End(f) <= Len(out') /\ Start(f) + 1 <= Capacity
        /\ End(f) \in Len(out) + 1 .. Len(out')
        /\ Start(f) + 1 \in Len(out) + 1 .. Len(out')
    BY <1>1, <1>2, <1>4, <2>1, <2>3, <2>4
  <2>6. out'[End(f)] = SpeedMessage(f, update[f])
    BY <1>1, <2>1, <2>2, <2>4
  <2>7. IsSpeedOf(f, out'[End(f)])
    BY <2>1, <2>6, Made
  <2>8. ASSUME TellsState(f) PROVE IsStateOf(f, out'[Start(f) + 1])
    <3>1. out'[Start(f) + 1] = StateMessage(f, update[f] # 0)
      BY <1>1, <2>2, <2>4, <2>5, <2>8
    <3> QED
      BY <3>1, Made
  <2> QED
    BY <2>5, <2>7, <2>8
<1> QED
  BY <1>1, <1>2, <1>4, <1>5, <1>6

-----------------------------------------------------------------------------
(***************************************************************************)
(* The end of the debounce                                                 *)
(***************************************************************************)

\* A report is sent to its end when there is room for both.
LEMMA Complete ==
  ASSUME TypeOK, Fits(out, Report(1) \o Report(2)), NEW f \in Fan, update[f] # Unknown
  PROVE  Sent(f)
<1>1. Report(1) \in Seq(Message) /\ Report(2) \in Seq(Message)
  BY ReportType DEF Fan
<1>2. Len(Report(1) \o Report(2)) = Len(Report(1)) + Len(Report(2))
  BY <1>1, ConcatProperties
<1>3. Len(Report(1)) \in Nat /\ Len(Report(2)) \in Nat /\ Len(out) \in Nat
  BY <1>1, Places, LenProperties
<1>4. End(2) <= Capacity
  BY <1>2, <1>3, BoundAssumption DEF Fits, End
<1>5. End(f) \in Nat /\ End(2) \in Nat /\ End(f) <= End(2)
  BY Places DEF Fan
<1>6. End(f) <= Capacity
  BY <1>4, <1>5, BoundAssumption
<1> QED
  BY <1>6, Places

\* What the end of the debounce does, without the channel.
LEMMA Ended ==
  ASSUME IInv, DebounceEnds
  PROVE  /\ out' = TrySend(out, Report(1) \o Report(2))
         /\ \A f \in Fan :
              /\ Sent(f) => shown'[f] = update[f] /\ update'[f] = Unknown /\ update[f] # Unknown
              /\ ~Sent(f) => shown'[f] = shown[f] /\ update'[f] = update[f]
         /\ shown' \in [Fan -> Speed] /\ update' \in [Fan -> Speed]
         /\ UNCHANGED <<watch, changed, home, confirms>>
         /\ trouble \subseteq trouble' /\ ("lost" \in trouble' => "lost" \in trouble)
         /\ "full" \notin trouble' => \A f \in Fan : update[f] # Unknown => Sent(f)
<1>1. DebounceEnds
  OBVIOUS
<1>2. /\ out' = TrySend(out, Report(1) \o Report(2))
      /\ shown' = [f \in Fan |-> IF Sent(f) THEN update[f] ELSE shown[f]]
      /\ update' = [f \in Fan |-> IF Sent(f) THEN Unknown ELSE update[f]]
      /\ UNCHANGED <<watch, changed, home, confirms>>
      /\ trouble' = IF Fits(out, Report(1) \o Report(2)) THEN trouble ELSE trouble \cup {"full"}
  BY <1>1 DEF DebounceEnds
<1>3. shown \in [Fan -> Speed] /\ update \in [Fan -> Speed] /\ Unknown \in Speed
  BY DEF IInv, TypeOK, Speed
<1>4. ASSUME Fits(out, Report(1) \o Report(2)), NEW f \in Fan, update[f] # Unknown
      PROVE  Sent(f)
  BY <1>4, Complete DEF IInv
<1>5. \A f \in Fan : Sent(f) => update[f] # Unknown
  BY DEF Sent
<1> QED
  BY <1>2, <1>3, <1>4, <1>5

\* It keeps the types, and shows a known speed whenever it looks at the LEDs.
LEMMA EndedType ==
  ASSUME IInv, DebounceEnds
  PROVE  TypeOK' /\ NeverUnreachable' /\ UpdatesAreNews'
<1>1. TypeOK /\ NeverUnreachable /\ UpdatesAreNews
  BY DEF IInv
<1>2. /\ out' = TrySend(out, Report(1) \o Report(2))
      /\ \A f \in Fan :
           /\ Sent(f) => shown'[f] = update[f] /\ update'[f] = Unknown /\ update[f] # Unknown
           /\ ~Sent(f) => shown'[f] = shown[f] /\ update'[f] = update[f]
      /\ shown' \in [Fan -> Speed] /\ update' \in [Fan -> Speed]
      /\ UNCHANGED <<watch, changed, home, confirms>>
      /\ "full" \notin trouble' => \A f \in Fan : update[f] # Unknown => Sent(f)
  BY Ended
<1>3. out' \in Seq(Message) /\ Len(out') <= Capacity
  BY <1>1, <1>2, Reports
<1>4. /\ debouncing /\ debouncing' = FALSE
      /\ \/ led' = led
         \/ /\ led' = LedState(shown') /\ Fits(out, Report(1) \o Report(2))
            /\ trouble' = trouble
      /\ trouble' \subseteq trouble \cup {"full"}
  BY DEF DebounceEnds
<1>5. led' \in Pattern /\ led' # Unreachable
  <2>1. CASE led' = led
    BY <1>1, <2>1 DEF TypeOK, NeverUnreachable
  <2>2. CASE led' = LedState(shown') /\ Fits(out, Report(1) \o Report(2))
    <3>1. PICK f \in Fan : update[f] # Unknown
      BY <1>1, <1>4 DEF UpdatesAreNews
    <3>2. Sent(f)
      BY <1>1, <2>2, <3>1, Complete
    <3>3. shown'[f] # Unknown
      BY <1>2, <3>1, <3>2
    <3> QED
      BY <1>2, <2>2, <3>3, LedStateType
  <2> QED
    BY <1>4, <2>1, <2>2
<1>6. TypeOK'
  BY <1>1, <1>2, <1>3, <1>4, <1>5 DEF TypeOK
<1>7. UpdatesAreNews'
  BY <1>1, <1>2, <1>4 DEF UpdatesAreNews
<1> QED
  BY <1>5, <1>6, <1>7 DEF NeverUnreachable

\* A fan that is sent is told its update last; one that is not is told no speed.
LEMMA EndedSpeeds ==
  ASSUME IInv, DebounceEnds
  PROVE  LastSpeedIsShown' /\ NoSpeedTwice'
<1>1. TypeOK /\ UpdatesAreNews /\ LastSpeedIsShown /\ NoSpeedTwice
  BY DEF IInv
<1>2. /\ out' = TrySend(out, Report(1) \o Report(2))
      /\ \A f \in Fan :
           /\ Sent(f) => shown'[f] = update[f] /\ update[f] # Unknown
           /\ ~Sent(f) => shown'[f] = shown[f]
      /\ home' = home
      /\ "lost" \notin trouble' => "lost" \notin trouble
  BY Ended
<1>3. /\ Len(out) \in Nat /\ Len(out') \in Nat /\ Len(out) <= Len(out')
      /\ DOMAIN out = 1 .. Len(out) /\ DOMAIN out' = 1 .. Len(out')
      /\ \A i \in 1 .. Len(out) : out'[i] = out[i]
      /\ \A f \in Fan, i \in Len(out) + 1 .. Len(out') :
           IsSpeedOf(f, out'[i]) => Sent(f) /\ i = End(f) /\ out'[i].speed = update[f]
      /\ \A f \in Fan :
           Sent(f) => End(f) \in Len(out) + 1 .. Len(out') /\ IsSpeedOf(f, out'[End(f)])
  BY <1>1, <1>2, Reports
<1> SUFFICES ASSUME "lost" \notin trouble', NEW f \in Fan
             PROVE  /\ NoSpeed(f, 1, Len(out))' => home'[f].speed = shown'[f]
                    /\ \A i \in 1 .. Len(out') :
                         IsSpeedOf(f, out'[i]) /\ NoSpeed(f, i + 1, Len(out))'
                           => out'[i].speed = shown'[f]
                    /\ \A j \in 1 .. Len(out') :
                         IsSpeedOf(f, out'[j]) =>
                           /\ NoSpeed(f, 1, j - 1)' => home'[f].speed # out'[j].speed
                           /\ \A i \in 1 .. j - 1 :
                                IsSpeedOf(f, out'[i]) /\ NoSpeed(f, i + 1, j - 1)'
                                  => out'[i].speed # out'[j].speed
  BY <1>3 DEF LastSpeedIsShown, NoSpeedTwice
\* What the invariant says of the channel before.
<1>4. /\ (\A k \in 1 .. Len(out) : ~IsSpeedOf(f, out[k])) => home[f].speed = shown[f]
      /\ \A i \in 1 .. Len(out) :
           IsSpeedOf(f, out[i]) /\ (\A k \in i + 1 .. Len(out) : ~IsSpeedOf(f, out[k]))
             => out[i].speed = shown[f]
  BY <1>1, <1>2, <1>3 DEF LastSpeedIsShown, NoSpeed
<1>5. \A j \in 1 .. Len(out) :
        IsSpeedOf(f, out[j]) =>
          /\ (\A k \in 1 .. j - 1 : ~IsSpeedOf(f, out[k])) => home[f].speed # out[j].speed
          /\ \A i \in 1 .. j - 1 :
               IsSpeedOf(f, out[i]) /\ (\A k \in i + 1 .. j - 1 : ~IsSpeedOf(f, out[k]))
                 => out[i].speed # out[j].speed
  BY <1>1, <1>2, <1>3 DEF NoSpeedTwice, NoSpeed
\* Nothing was said of fan f in places a .. b of the channel as it is now.
<1>6. ASSUME NEW a \in 1 .. Len(out') + 1, NEW b \in 0 .. Len(out'), NoSpeed(f, a, b)',
             NEW c \in 0 .. Len(out), c <= b
      PROVE  \A k \in a .. c : ~IsSpeedOf(f, out[k])
  BY <1>3, <1>6 DEF NoSpeed
<1>7. NoSpeed(f, 1, Len(out))' => home'[f].speed = shown'[f]
  <2>1. CASE Sent(f)
    BY <1>3, <2>1 DEF NoSpeed
  <2>2. CASE ~Sent(f)
    BY <1>2, <1>3, <1>4, <1>6, <2>2
  <2> QED
    BY <2>1, <2>2
<1>8. ASSUME NEW i \in 1 .. Len(out'), IsSpeedOf(f, out'[i]), NoSpeed(f, i + 1, Len(out))'
      PROVE  out'[i].speed = shown'[f]
  <2>1. CASE Sent(f)
    <3>1. ~(i < End(f))
      BY <1>3, <1>8, <2>1 DEF NoSpeed
    <3>2. i \in Len(out) + 1 .. Len(out')
      BY <1>3, <2>1, <3>1
    <3> QED
      BY <1>2, <1>3, <1>8, <2>1, <3>2
  <2>2. CASE ~Sent(f)
    <3>1. i \in 1 .. Len(out)
      BY <1>3, <1>8, <2>2
    <3>2. \A k \in i + 1 .. Len(out) : k \in i + 1 .. Len(out') /\ out'[k] = out[k]
      BY <1>3, <3>1
    <3>3. \A k \in i + 1 .. Len(out') : ~IsSpeedOf(f, out'[k])
      BY <1>8 DEF NoSpeed
    <3>4. \A k \in i + 1 .. Len(out) : ~IsSpeedOf(f, out[k])
      BY <3>2, <3>3
    <3> QED
      BY <1>2, <1>3, <1>4, <1>8, <2>2, <3>1, <3>4
  <2> QED
    BY <2>1, <2>2
<1>9. ASSUME NEW j \in 1 .. Len(out'), IsSpeedOf(f, out'[j])
      PROVE  /\ NoSpeed(f, 1, j - 1)' => home'[f].speed # out'[j].speed
             /\ \A i \in 1 .. j - 1 :
                  IsSpeedOf(f, out'[i]) /\ NoSpeed(f, i + 1, j - 1)'
                    => out'[i].speed # out'[j].speed
  <2>1. CASE j \in 1 .. Len(out)
    <3>1. out'[j] = out[j] /\ \A i \in 1 .. j - 1 : out'[i] = out[i]
      BY <1>3, <2>1
    <3>2. ASSUME NoSpeed(f, 1, j - 1)' PROVE home'[f].speed # out'[j].speed
      <4>1. \A k \in 1 .. j - 1 : ~IsSpeedOf(f, out[k])
        BY <3>1, <3>2 DEF NoSpeed
      <4> QED
        BY <1>2, <1>5, <1>9, <2>1, <3>1, <4>1
    <3>3. ASSUME NEW i \in 1 .. j - 1, IsSpeedOf(f, out'[i]), NoSpeed(f, i + 1, j - 1)'
          PROVE  out'[i].speed # out'[j].speed
      <4>1. \A k \in i + 1 .. j - 1 : k \in 1 .. j - 1 /\ ~IsSpeedOf(f, out'[k])
        BY <3>3 DEF NoSpeed
      <4>2. \A k \in i + 1 .. j - 1 : ~IsSpeedOf(f, out[k])
        BY <3>1, <4>1
      <4> QED
        BY <1>5, <1>9, <2>1, <3>1, <3>3, <4>2
    <3> QED
      BY <3>2, <3>3
  <2>2. CASE j \in Len(out) + 1 .. Len(out')
    <3>1. Sent(f) /\ j = End(f) /\ out'[j].speed = update[f] /\ update[f] # shown[f]
      BY <1>1, <1>2, <1>3, <1>9, <2>2 DEF UpdatesAreNews
    <3>2. ASSUME NoSpeed(f, 1, j - 1)' PROVE home'[f].speed # out'[j].speed
      <4>1. \A k \in 1 .. Len(out) : ~IsSpeedOf(f, out[k])
        BY <1>3, <1>6, <2>2, <3>2
      <4> QED
        BY <1>2, <1>4, <3>1, <4>1
    <3>3. ASSUME NEW i \in 1 .. j - 1, IsSpeedOf(f, out'[i]), NoSpeed(f, i + 1, j - 1)'
          PROVE  out'[i].speed # out'[j].speed
      <4>1. i \in 1 .. Len(out)
        BY <1>3, <2>2, <3>1, <3>3
      <4>2. \A k \in i + 1 .. Len(out) : ~IsSpeedOf(f, out[k])
        BY <1>3, <1>6, <2>2, <3>3, <4>1
      <4> QED
        BY <1>3, <1>4, <3>1, <3>3, <4>1, <4>2
    <3> QED
      BY <3>2, <3>3
  <2> QED
    BY <1>3, <2>1, <2>2
<1> QED
  BY <1>7, <1>8, <1>9

\* Unless a report was cut short, a fan whose state is told is told its update's, and one whose
\* state is not told again is on exactly if it was.
LEMMA EndedStates ==
  ASSUME IInv, DebounceEnds
  PROVE  LastStateIsShown'
<1>1. TypeOK /\ LastStateIsShown
  BY DEF IInv
<1>2. /\ out' = TrySend(out, Report(1) \o Report(2))
      /\ \A f \in Fan :
           /\ Sent(f) => shown'[f] = update[f] /\ update[f] # Unknown
           /\ ~Sent(f) => shown'[f] = shown[f]
      /\ home' = home
      /\ trouble \subseteq trouble'
      /\ "full" \notin trouble' => \A f \in Fan : update[f] # Unknown => Sent(f)
  BY Ended
<1>3. /\ Len(out) \in Nat /\ Len(out') \in Nat /\ Len(out) <= Len(out')
      /\ DOMAIN out = 1 .. Len(out) /\ DOMAIN out' = 1 .. Len(out')
      /\ \A i \in 1 .. Len(out) : out'[i] = out[i]
      /\ \A f \in Fan, i \in Len(out) + 1 .. Len(out') :
           IsStateOf(f, out'[i]) =>
             /\ update[f] # Unknown /\ TellsState(f)
             /\ i = Start(f) + 1 /\ out'[i].isOn = (update[f] # 0)
      /\ \A f \in Fan :
           Sent(f) /\ TellsState(f) =>
             /\ Start(f) + 1 \in Len(out) + 1 .. Len(out')
             /\ IsStateOf(f, out'[Start(f) + 1])
  BY <1>1, <1>2, Reports
<1> SUFFICES ASSUME trouble' \subseteq {"overtaken"}, NEW f \in Fan, shown'[f] # Unknown
             PROVE  /\ NoState(f, 1, Len(out))' => home'[f].isOn = (shown'[f] # 0)
                    /\ \A i \in 1 .. Len(out') :
                         IsStateOf(f, out'[i]) /\ NoState(f, i + 1, Len(out))'
                           => out'[i].isOn = (shown'[f] # 0)
  BY <1>3 DEF LastStateIsShown
<1>4. /\ trouble \subseteq {"overtaken"}
      /\ update[f] # Unknown => Sent(f)
  BY <1>2
\* What the invariant says of the channel before.
<1>5. shown[f] # Unknown =>
        /\ (\A k \in 1 .. Len(out) : ~IsStateOf(f, out[k])) => home[f].isOn = (shown[f] # 0)
        /\ \A i \in 1 .. Len(out) :
             IsStateOf(f, out[i]) /\ (\A k \in i + 1 .. Len(out) : ~IsStateOf(f, out[k]))
               => out[i].isOn = (shown[f] # 0)
  BY <1>1, <1>3, <1>4 DEF LastStateIsShown, NoState
<1>6. CASE update[f] # Unknown /\ TellsState(f)
  <2>1. Sent(f) /\ shown'[f] = update[f]
    BY <1>2, <1>4, <1>6
  <2>2. /\ Start(f) + 1 \in Len(out) + 1 .. Len(out')
        /\ IsStateOf(f, out'[Start(f) + 1])
    BY <1>3, <1>6, <2>1
  <2>3. ~NoState(f, 1, Len(out))'
    BY <1>3, <2>2 DEF NoState
  <2>4. ASSUME NEW i \in 1 .. Len(out'), IsStateOf(f, out'[i]), NoState(f, i + 1, Len(out))'
        PROVE  out'[i].isOn = (shown'[f] # 0)
    <3>1. ~(i < Start(f) + 1)
      BY <1>3, <2>2, <2>4 DEF NoState
    <3>2. i \in Len(out) + 1 .. Len(out')
      BY <1>3, <2>2, <3>1
    <3>3. out'[i].isOn = (update[f] # 0)
      BY <1>3, <2>4, <3>2
    <3> QED
      BY <2>1, <3>3
  <2> QED
    BY <2>3, <2>4
<1>7. CASE ~(update[f] # Unknown /\ TellsState(f))
  <2>1. shown[f] # Unknown /\ (shown'[f] # 0) = (shown[f] # 0)
    <3>1. CASE Sent(f)
      BY <1>2, <1>7, <3>1 DEF TellsState
    <3>2. CASE ~Sent(f)
      BY <1>2, <3>2
    <3> QED
      BY <3>1, <3>2
  <2>2. \A i \in 1 .. Len(out') : IsStateOf(f, out'[i]) => i \in 1 .. Len(out)
    BY <1>3, <1>7
  <2>3. ASSUME NoState(f, 1, Len(out))' PROVE home'[f].isOn = (shown'[f] # 0)
    <3>1. \A k \in 1 .. Len(out') : ~IsStateOf(f, out'[k])
      BY <2>3 DEF NoState
    <3>2. \A k \in 1 .. Len(out) : k \in 1 .. Len(out') /\ out'[k] = out[k]
      BY <1>3
    <3>3. \A k \in 1 .. Len(out) : ~IsStateOf(f, out[k])
      BY <3>1, <3>2
    <3> QED
      BY <1>2, <1>5, <2>1, <3>3
  <2>4. ASSUME NEW i \in 1 .. Len(out'), IsStateOf(f, out'[i]), NoState(f, i + 1, Len(out))'
        PROVE  out'[i].isOn = (shown'[f] # 0)
    <3>1. i \in 1 .. Len(out) /\ out'[i] = out[i]
      BY <1>3, <2>2, <2>4
    <3>2. \A k \in i + 1 .. Len(out') : ~IsStateOf(f, out'[k])
      BY <2>4 DEF NoState
    <3>3. \A k \in i + 1 .. Len(out) : k \in i + 1 .. Len(out') /\ out'[k] = out[k]
      BY <1>3, <3>1
    <3>4. \A k \in i + 1 .. Len(out) : ~IsStateOf(f, out[k])
      BY <3>2, <3>3
    <3> QED
      BY <1>5, <2>1, <2>4, <3>1, <3>4
  <2> QED
    BY <2>3, <2>4
<1> QED
  BY <1>6, <1>7

-----------------------------------------------------------------------------
(***************************************************************************)
(* The other ends of the channel                                           *)
(***************************************************************************)

\* Another routine's message says nothing of a fan.
LEMMA OthersSendInv ==
  ASSUME IInv, OthersSend
  PROVE  IInv'
<1>1. /\ TypeOK /\ NeverUnreachable /\ UpdatesAreNews
      /\ LastSpeedIsShown /\ NoSpeedTwice /\ LastStateIsShown
  BY DEF IInv
<1>2. /\ Len(out) < Capacity /\ out' = Append(out, OtherMessage)
      /\ UNCHANGED <<watch, changed, shown, update, debouncing, led, home, confirms, trouble>>
  BY DEF OthersSend
<1>3. out \in Seq(Message) /\ OtherMessage \in Message /\ Len(out) \in Nat /\ Capacity \in Nat
  BY <1>1, Made, LenProperties, BoundAssumption DEF TypeOK, Fan
<1>4. /\ out' \in Seq(Message) /\ Len(out') = Len(out) + 1
      /\ \A i \in 1 .. Len(out) : out'[i] = out[i]
      /\ out'[Len(out) + 1] = OtherMessage
  BY <1>2, <1>3, AppendProperties
<1>5. DOMAIN out = 1 .. Len(out) /\ DOMAIN out' = 1 .. Len(out) + 1
  BY <1>3, <1>4, LenProperties
<1>6. \A f \in Fan : /\ ~IsSpeedOf(f, out'[Len(out) + 1])
                     /\ ~IsStateOf(f, out'[Len(out) + 1])
  BY <1>3, <1>4, Kinds
<1>7. TypeOK' /\ NeverUnreachable' /\ UpdatesAreNews'
  BY <1>1, <1>2, <1>3, <1>4 DEF TypeOK, NeverUnreachable, UpdatesAreNews
\* Nothing said of fan f in places a .. b now: nothing was said of it there before.
<1>8. ASSUME NEW f \in Fan, NEW a \in 1 .. Len(out) + 1, NEW b \in 0 .. Len(out) + 1,
             NEW c \in 0 .. Len(out), c <= b
      PROVE  /\ (\A k \in a .. b : ~IsSpeedOf(f, out'[k])) => NoSpeed(f, a, c)
             /\ (\A k \in a .. b : ~IsStateOf(f, out'[k])) => NoState(f, a, c)
  <2>1. \A k \in a .. c : k \in a .. b /\ out'[k] = out[k]
    BY <1>3, <1>4, <1>8
  <2> QED
    BY <2>1 DEF NoSpeed, NoState
<1>9. Len(out) + 1 \in 0 .. Len(out) + 1 /\ Len(out) \in 0 .. Len(out) /\ Len(out) <= Len(out) + 1
      /\ 1 \in 1 .. Len(out) + 1
  BY <1>3
<1>10. ASSUME NEW f \in Fan, NEW i \in 1 .. Len(out) + 1,
              IsSpeedOf(f, out'[i]) \/ IsStateOf(f, out'[i])
       PROVE  i \in 1 .. Len(out) /\ out'[i] = out[i] /\ i + 1 \in 1 .. Len(out) + 1
  BY <1>3, <1>4, <1>6, <1>10
<1>11. LastSpeedIsShown'
  <2> SUFFICES ASSUME "lost" \notin trouble, NEW f \in Fan
               PROVE  /\ (\A k \in 1 .. Len(out) + 1 : ~IsSpeedOf(f, out'[k]))
                           => home[f].speed = shown[f]
                      /\ \A i \in 1 .. Len(out) + 1 :
                           IsSpeedOf(f, out'[i])
                             /\ (\A k \in i + 1 .. Len(out) + 1 : ~IsSpeedOf(f, out'[k]))
                             => out'[i].speed = shown[f]
    BY <1>2, <1>4, <1>5 DEF LastSpeedIsShown, NoSpeed
  <2>1. /\ NoSpeed(f, 1, Len(out)) => home[f].speed = shown[f]
        /\ \A i \in 1 .. Len(out) :
             IsSpeedOf(f, out[i]) /\ NoSpeed(f, i + 1, Len(out)) => out[i].speed = shown[f]
    BY <1>1, <1>5 DEF LastSpeedIsShown
  <2>2. (\A k \in 1 .. Len(out) + 1 : ~IsSpeedOf(f, out'[k])) => NoSpeed(f, 1, Len(out))
    BY <1>8, <1>9
  <2>3. ASSUME NEW i \in 1 .. Len(out) + 1, IsSpeedOf(f, out'[i]),
               \A k \in i + 1 .. Len(out) + 1 : ~IsSpeedOf(f, out'[k])
        PROVE  out'[i].speed = shown[f]
    <3>1. i \in 1 .. Len(out) /\ out'[i] = out[i] /\ i + 1 \in 1 .. Len(out) + 1
      BY <1>10, <2>3
    <3>2. NoSpeed(f, i + 1, Len(out))
      BY <1>8, <1>9, <2>3, <3>1
    <3> QED
      BY <2>1, <2>3, <3>1, <3>2
  <2> QED
    BY <2>1, <2>2, <2>3
<1>12. LastStateIsShown'
  <2> SUFFICES ASSUME trouble \subseteq {"overtaken"}, NEW f \in Fan, shown[f] # Unknown
               PROVE  /\ (\A k \in 1 .. Len(out) + 1 : ~IsStateOf(f, out'[k]))
                           => home[f].isOn = (shown[f] # 0)
                      /\ \A i \in 1 .. Len(out) + 1 :
                           IsStateOf(f, out'[i])
                             /\ (\A k \in i + 1 .. Len(out) + 1 : ~IsStateOf(f, out'[k]))
                             => out'[i].isOn = (shown[f] # 0)
    BY <1>2, <1>4, <1>5 DEF LastStateIsShown, NoState
  <2>1. /\ NoState(f, 1, Len(out)) => home[f].isOn = (shown[f] # 0)
        /\ \A i \in 1 .. Len(out) :
             IsStateOf(f, out[i]) /\ NoState(f, i + 1, Len(out))
               => out[i].isOn = (shown[f] # 0)
    BY <1>1, <1>5 DEF LastStateIsShown
  <2>2. (\A k \in 1 .. Len(out) + 1 : ~IsStateOf(f, out'[k])) => NoState(f, 1, Len(out))
    BY <1>8, <1>9
  <2>3. ASSUME NEW i \in 1 .. Len(out) + 1, IsStateOf(f, out'[i]),
               \A k \in i + 1 .. Len(out) + 1 : ~IsStateOf(f, out'[k])
        PROVE  out'[i].isOn = (shown[f] # 0)
    <3>1. i \in 1 .. Len(out) /\ out'[i] = out[i] /\ i + 1 \in 1 .. Len(out) + 1
      BY <1>10, <2>3
    <3>2. NoState(f, i + 1, Len(out))
      BY <1>8, <1>9, <2>3, <3>1
    <3> QED
      BY <2>1, <2>3, <3>1, <3>2
  <2> QED
    BY <2>1, <2>2, <2>3
<1>13. NoSpeedTwice'
  <2> SUFFICES ASSUME "lost" \notin trouble, NEW f \in Fan, NEW j \in 1 .. Len(out) + 1,
                      IsSpeedOf(f, out'[j])
               PROVE  /\ (\A k \in 1 .. j - 1 : ~IsSpeedOf(f, out'[k]))
                           => home[f].speed # out'[j].speed
                      /\ \A i \in 1 .. j - 1 :
                           IsSpeedOf(f, out'[i])
                             /\ (\A k \in i + 1 .. j - 1 : ~IsSpeedOf(f, out'[k]))
                             => out'[i].speed # out'[j].speed
    BY <1>2, <1>5 DEF NoSpeedTwice, NoSpeed
  <2>1. j \in 1 .. Len(out) /\ out'[j] = out[j]
    BY <1>10
  <2>2. /\ NoSpeed(f, 1, j - 1) => home[f].speed # out[j].speed
        /\ \A i \in 1 .. j - 1 :
             IsSpeedOf(f, out[i]) /\ NoSpeed(f, i + 1, j - 1) => out[i].speed # out[j].speed
    BY <1>1, <1>5, <2>1 DEF NoSpeedTwice
  <2>3. /\ j - 1 \in 0 .. Len(out) + 1 /\ j - 1 \in 0 .. Len(out) /\ j - 1 <= j - 1
        /\ \A i \in 1 .. j - 1 : /\ i \in 1 .. Len(out) + 1 /\ i + 1 \in 1 .. Len(out) + 1
                                 /\ out'[i] = out[i]
    BY <1>3, <1>4, <2>1
  <2>4. (\A k \in 1 .. j - 1 : ~IsSpeedOf(f, out'[k])) => NoSpeed(f, 1, j - 1)
    BY <1>8, <1>9, <2>3
  <2>5. ASSUME NEW i \in 1 .. j - 1, IsSpeedOf(f, out'[i]),
               \A k \in i + 1 .. j - 1 : ~IsSpeedOf(f, out'[k])
        PROVE  out'[i].speed # out'[j].speed
    <3>1. NoSpeed(f, i + 1, j - 1)
      BY <1>8, <2>3, <2>5
    <3> QED
      BY <2>1, <2>2, <2>3, <2>5, <3>1
  <2> QED
    BY <2>1, <2>2, <2>4, <2>5
<1> QED
  BY <1>7, <1>11, <1>12, <1>13 DEF IInv

\* What Home Assistant makes of a message.
Told(m) ==
  \A f \in Fan :
    /\ home'[f].speed = IF IsSpeedOf(f, m) THEN m.speed ELSE home[f].speed
    /\ home'[f].isOn = IF IsStateOf(f, m) THEN m.isOn ELSE home[f].isOn

\* Taking the oldest message out of the channel moves what it says from the channel to
\* Home Assistant, unless it counts as lost.
LEMMA Taken ==
  ASSUME IInv, out # <<>>, out' = Tail(out), trouble \subseteq trouble',
         UNCHANGED <<shown, update>>,
         "lost" \notin trouble' => Told(Head(out))
  PROVE  LastSpeedIsShown' /\ NoSpeedTwice' /\ LastStateIsShown'
<1>1. TypeOK /\ LastSpeedIsShown /\ NoSpeedTwice /\ LastStateIsShown
  BY DEF IInv
<1>2. out \in Seq(Message) /\ out # <<>>
  BY <1>1 DEF TypeOK
<1>3. /\ Len(out) \in Nat /\ Len(out) >= 1 /\ Head(out) = out[1]
      /\ Len(out') = Len(out) - 1
      /\ \A i \in 1 .. Len(out) - 1 : out'[i] = out[i + 1]
      /\ DOMAIN out = 1 .. Len(out) /\ DOMAIN out' = 1 .. Len(out) - 1
  BY <1>2, HeadTailProperties, LenProperties, EmptySeq
<1>4. out[1] \in Message
  BY <1>2, <1>3
<1>5. \A f \in Fan : ~(IsSpeedOf(f, out[1]) /\ IsStateOf(f, out[1]))
  BY <1>4, Kinds
\* Nothing said of fan f in places a .. b now: nothing was said of it one place later.
<1>6. ASSUME NEW f \in Fan, NEW a \in 1 .. Len(out), NEW b \in 0 .. Len(out) - 1
      PROVE  /\ (\A k \in a .. b : ~IsSpeedOf(f, out'[k])) => NoSpeed(f, a + 1, b + 1)
             /\ (\A k \in a .. b : ~IsStateOf(f, out'[k])) => NoState(f, a + 1, b + 1)
  <2>1. \A k \in a + 1 .. b + 1 : k - 1 \in a .. b /\ out'[k - 1] = out[k]
    <3>1. \A k \in a + 1 .. b + 1 : k - 1 \in 1 .. Len(out) - 1 /\ k - 1 \in a .. b /\ (k - 1) + 1 = k
      BY <1>3, <1>6
    <3> QED
      BY <1>3, <3>1
  <2> QED
    BY <2>1 DEF NoSpeed, NoState
<1>7. ASSUME NEW f \in Fan, NEW b \in 0 .. Len(out) - 1
      PROVE  /\ (\A k \in 1 .. b : ~IsSpeedOf(f, out'[k])) =>
                  /\ NoSpeed(f, 2, b + 1)
                  /\ ~IsSpeedOf(f, out[1]) => NoSpeed(f, 1, b + 1)
             /\ (\A k \in 1 .. b : ~IsStateOf(f, out'[k])) =>
                  /\ NoState(f, 2, b + 1)
                  /\ ~IsStateOf(f, out[1]) => NoState(f, 1, b + 1)
  <2>1. 1 \in 1 .. Len(out) /\ 1 + 1 = 2
    BY <1>3
  <2>2. /\ (\A k \in 1 .. b : ~IsSpeedOf(f, out'[k])) => NoSpeed(f, 2, b + 1)
        /\ (\A k \in 1 .. b : ~IsStateOf(f, out'[k])) => NoState(f, 2, b + 1)
    BY <1>6, <2>1
  <2>3. \A k \in 1 .. b + 1 : k = 1 \/ k \in 2 .. b + 1
    BY <1>7
  <2> QED
    BY <2>2, <2>3 DEF NoSpeed, NoState
<1>8. LastSpeedIsShown'
  <2> SUFFICES ASSUME "lost" \notin trouble', NEW f \in Fan
               PROVE  /\ (\A k \in 1 .. Len(out) - 1 : ~IsSpeedOf(f, out'[k]))
                           => home'[f].speed = shown[f]
                      /\ \A i \in 1 .. Len(out) - 1 :
                           IsSpeedOf(f, out'[i])
                             /\ (\A k \in i + 1 .. Len(out) - 1 : ~IsSpeedOf(f, out'[k]))
                             => out'[i].speed = shown[f]
    BY <1>3 DEF LastSpeedIsShown, NoSpeed
  <2>1. /\ NoSpeed(f, 1, Len(out)) => home[f].speed = shown[f]
        /\ \A i \in 1 .. Len(out) :
             IsSpeedOf(f, out[i]) /\ NoSpeed(f, i + 1, Len(out)) => out[i].speed = shown[f]
    BY <1>1, <1>3 DEF LastSpeedIsShown
  <2>2. home'[f].speed = IF IsSpeedOf(f, out[1]) THEN out[1].speed ELSE home[f].speed
    BY <1>3 DEF Told
  <2>3. /\ Len(out) - 1 \in 0 .. Len(out) - 1 /\ (Len(out) - 1) + 1 = Len(out)
        /\ 1 \in 1 .. Len(out) /\ 1 + 1 = 2
    BY <1>3
  <2>4. ASSUME \A k \in 1 .. Len(out) - 1 : ~IsSpeedOf(f, out'[k])
        PROVE  home'[f].speed = shown[f]
    <3>1. NoSpeed(f, 2, Len(out)) /\ (~IsSpeedOf(f, out[1]) => NoSpeed(f, 1, Len(out)))
      BY <1>7, <2>3, <2>4
    <3>2. CASE IsSpeedOf(f, out[1])
      BY <2>1, <2>2, <2>3, <3>1, <3>2
    <3>3. CASE ~IsSpeedOf(f, out[1])
      BY <2>1, <2>2, <3>1, <3>3
    <3> QED
      BY <3>2, <3>3
  <2>5. ASSUME NEW i \in 1 .. Len(out) - 1, IsSpeedOf(f, out'[i]),
               \A k \in i + 1 .. Len(out) - 1 : ~IsSpeedOf(f, out'[k])
        PROVE  out'[i].speed = shown[f]
    <3>1. i + 1 \in 1 .. Len(out) /\ out'[i] = out[i + 1]
      BY <1>3
    <3>2. NoSpeed(f, (i + 1) + 1, Len(out))
      BY <1>6, <2>3, <2>5, <3>1
    <3> QED
      BY <2>1, <2>5, <3>1, <3>2
  <2> QED
    BY <2>4, <2>5
<1>9. NoSpeedTwice'
  <2> SUFFICES ASSUME "lost" \notin trouble', NEW f \in Fan, NEW j \in 1 .. Len(out) - 1,
                      IsSpeedOf(f, out'[j])
               PROVE  /\ (\A k \in 1 .. j - 1 : ~IsSpeedOf(f, out'[k]))
                           => home'[f].speed # out'[j].speed
                      /\ \A i \in 1 .. j - 1 :
                           IsSpeedOf(f, out'[i])
                             /\ (\A k \in i + 1 .. j - 1 : ~IsSpeedOf(f, out'[k]))
                             => out'[i].speed # out'[j].speed
    BY <1>3 DEF NoSpeedTwice, NoSpeed
  <2>1. /\ j + 1 \in 1 .. Len(out) /\ out'[j] = out[j + 1] /\ (j + 1) - 1 = j
        /\ j - 1 \in 0 .. Len(out) - 1 /\ (j - 1) + 1 = j
        /\ 1 \in 1 .. j /\ 1 + 1 = 2
        /\ \A i \in 1 .. j - 1 : /\ i + 1 \in 1 .. j /\ i + 1 \in 1 .. Len(out)
                                 /\ out'[i] = out[i + 1]
    BY <1>3
  <2>2. /\ NoSpeed(f, 1, j) => home[f].speed # out[j + 1].speed
        /\ \A i \in 1 .. j :
             IsSpeedOf(f, out[i]) /\ NoSpeed(f, i + 1, j) => out[i].speed # out[j + 1].speed
    <3>1. /\ NoSpeed(f, 1, (j + 1) - 1) => home[f].speed # out[j + 1].speed
          /\ \A i \in 1 .. (j + 1) - 1 :
               IsSpeedOf(f, out[i]) /\ NoSpeed(f, i + 1, (j + 1) - 1)
                 => out[i].speed # out[j + 1].speed
      BY <1>1, <1>3, <2>1 DEF NoSpeedTwice
    <3> QED
      BY <2>1, <3>1
  <2>3. home'[f].speed = IF IsSpeedOf(f, out[1]) THEN out[1].speed ELSE home[f].speed
    BY <1>3 DEF Told
  <2>4. ASSUME \A k \in 1 .. j - 1 : ~IsSpeedOf(f, out'[k])
        PROVE  home'[f].speed # out'[j].speed
    <3>1. NoSpeed(f, 2, j) /\ (~IsSpeedOf(f, out[1]) => NoSpeed(f, 1, j))
      BY <1>7, <2>1, <2>4
    <3>2. CASE IsSpeedOf(f, out[1])
      BY <2>1, <2>2, <2>3, <3>1, <3>2
    <3>3. CASE ~IsSpeedOf(f, out[1])
      BY <2>1, <2>2, <2>3, <3>1, <3>3
    <3> QED
      BY <3>2, <3>3
  <2>5. ASSUME NEW i \in 1 .. j - 1, IsSpeedOf(f, out'[i]),
               \A k \in i + 1 .. j - 1 : ~IsSpeedOf(f, out'[k])
        PROVE  out'[i].speed # out'[j].speed
    <3>1. NoSpeed(f, (i + 1) + 1, j)
      BY <1>6, <2>1, <2>5
    <3> QED
      BY <2>1, <2>2, <2>5, <3>1
  <2> QED
    BY <2>4, <2>5
<1>10. LastStateIsShown'
  <2> SUFFICES ASSUME trouble' \subseteq {"overtaken"}, NEW f \in Fan, shown[f] # Unknown
               PROVE  /\ (\A k \in 1 .. Len(out) - 1 : ~IsStateOf(f, out'[k]))
                           => home'[f].isOn = (shown[f] # 0)
                      /\ \A i \in 1 .. Len(out) - 1 :
                           IsStateOf(f, out'[i])
                             /\ (\A k \in i + 1 .. Len(out) - 1 : ~IsStateOf(f, out'[k]))
                             => out'[i].isOn = (shown[f] # 0)
    BY <1>3 DEF LastStateIsShown, NoState
  <2>1. /\ NoState(f, 1, Len(out)) => home[f].isOn = (shown[f] # 0)
        /\ \A i \in 1 .. Len(out) :
             IsStateOf(f, out[i]) /\ NoState(f, i + 1, Len(out))
               => out[i].isOn = (shown[f] # 0)
    BY <1>1, <1>3 DEF LastStateIsShown
  <2>2. home'[f].isOn = IF IsStateOf(f, out[1]) THEN out[1].isOn ELSE home[f].isOn
    BY <1>3 DEF Told
  <2>3. /\ Len(out) - 1 \in 0 .. Len(out) - 1 /\ (Len(out) - 1) + 1 = Len(out)
        /\ 1 \in 1 .. Len(out) /\ 1 + 1 = 2
    BY <1>3
  <2>4. ASSUME \A k \in 1 .. Len(out) - 1 : ~IsStateOf(f, out'[k])
        PROVE  home'[f].isOn = (shown[f] # 0)
    <3>1. NoState(f, 2, Len(out)) /\ (~IsStateOf(f, out[1]) => NoState(f, 1, Len(out)))
      BY <1>7, <2>3, <2>4
    <3>2. CASE IsStateOf(f, out[1])
      BY <2>1, <2>2, <2>3, <3>1, <3>2
    <3>3. CASE ~IsStateOf(f, out[1])
      BY <2>1, <2>2, <3>1, <3>3
    <3> QED
      BY <3>2, <3>3
  <2>5. ASSUME NEW i \in 1 .. Len(out) - 1, IsStateOf(f, out'[i]),
               \A k \in i + 1 .. Len(out) - 1 : ~IsStateOf(f, out'[k])
        PROVE  out'[i].isOn = (shown[f] # 0)
    <3>1. i + 1 \in 1 .. Len(out) /\ out'[i] = out[i + 1]
      BY <1>3
    <3>2. NoState(f, (i + 1) + 1, Len(out))
      BY <1>6, <2>3, <2>5, <3>1
    <3> QED
      BY <2>1, <2>5, <3>1, <3>2
  <2> QED
    BY <2>4, <2>5
<1> QED
  BY <1>8, <1>9, <1>10

\* The session publishes the message it takes.
LEMMA DeliverInv == ASSUME IInv, Deliver PROVE IInv'
<1>1. TypeOK /\ NeverUnreachable /\ UpdatesAreNews
  BY DEF IInv
<1>2. /\ out # <<>> /\ out' = Tail(out)
      /\ UNCHANGED <<watch, changed, shown, update, debouncing, led, confirms, trouble>>
  BY DEF Deliver
<1>3. out \in Seq(Message) /\ Len(out) <= Capacity
  BY <1>1 DEF TypeOK
<1>4. /\ Head(out) \in Message /\ out' \in Seq(Message) /\ Len(out') = Len(out) - 1
      /\ Len(out) \in Nat
  BY <1>2, <1>3, HeadTailProperties, LenProperties
<1> DEFINE m == Head(out)
<1>5. home' = CASE m = OtherMessage -> home
                [] m # OtherMessage /\ IsSpeedOf(m.fan, m) ->
                     [home EXCEPT ![m.fan].speed = m.speed]
                [] m # OtherMessage /\ ~IsSpeedOf(m.fan, m) ->
                     [home EXCEPT ![m.fan].isOn = m.isOn]
  BY DEF Deliver
<1>6. m \in Message
  BY <1>4
<1> HIDE DEF m
<1>7. /\ m # OtherMessage => m.fan \in Fan
      /\ \A f \in Fan :
           /\ IsSpeedOf(f, m) => m # OtherMessage /\ m.fan = f /\ m.speed \in SetPoint
           /\ IsStateOf(f, m) => m # OtherMessage /\ m.fan = f /\ m.isOn \in BOOLEAN
           /\ m.fan = f => (IsStateOf(f, m) <=> ~IsSpeedOf(f, m))
  BY <1>6, Kinds
<1>8. home \in [Fan -> [isOn : BOOLEAN \cup {Unknown}, speed : Speed]]
  BY <1>1 DEF TypeOK
<1>9. home' \in [Fan -> [isOn : BOOLEAN \cup {Unknown}, speed : Speed]] /\ Told(m)
  <2>1. CASE m = OtherMessage
    BY <1>5, <1>7, <1>8, <2>1 DEF Told
  <2>2. CASE m # OtherMessage /\ IsSpeedOf(m.fan, m)
    <3>1. home' = [home EXCEPT ![m.fan].speed = m.speed]
      BY <1>5, <2>2
    <3>2. m.fan \in Fan /\ m.speed \in Speed
      BY <1>7, <2>2 DEF Speed
    <3>3. \A f \in Fan : /\ IsSpeedOf(f, m) <=> f = m.fan
                         /\ ~IsStateOf(f, m)
      BY <1>7, <2>2
    <3> QED
      BY <1>8, <3>1, <3>2, <3>3 DEF Told
  <2>3. CASE m # OtherMessage /\ ~IsSpeedOf(m.fan, m)
    <3>1. home' = [home EXCEPT ![m.fan].isOn = m.isOn]
      BY <1>5, <2>3
    <3>2. m.fan \in Fan /\ m.isOn \in BOOLEAN
      BY <1>7, <2>3
    <3>3. \A f \in Fan : /\ IsStateOf(f, m) <=> f = m.fan
                         /\ ~IsSpeedOf(f, m)
      BY <1>7, <2>3
    <3> QED
      BY <1>8, <3>1, <3>2, <3>3 DEF Told
  <2> QED
    BY <2>1, <2>2, <2>3
<1>10. TypeOK' /\ NeverUnreachable' /\ UpdatesAreNews'
  BY <1>1, <1>2, <1>3, <1>4, <1>9, BoundAssumption DEF TypeOK, NeverUnreachable, UpdatesAreNews
<1>11. LastSpeedIsShown' /\ NoSpeedTwice' /\ LastStateIsShown'
  BY <1>2, <1>9, Taken DEF m
<1> QED
  BY <1>10, <1>11 DEF IInv

\* A message that is lost and says nothing of a fan was nothing to tell.
LEMMA LoseInv == ASSUME IInv, Lose PROVE IInv'
<1>1. TypeOK /\ NeverUnreachable /\ UpdatesAreNews
  BY DEF IInv
<1>2. /\ out # <<>> /\ out' = Tail(out)
      /\ trouble' = IF Head(out) = OtherMessage THEN trouble ELSE trouble \cup {"lost"}
      /\ UNCHANGED <<watch, changed, shown, update, debouncing, led, home, confirms>>
  BY DEF Lose
<1>3. out \in Seq(Message) /\ Len(out) <= Capacity
  BY <1>1 DEF TypeOK
<1>4. /\ Head(out) \in Message /\ out' \in Seq(Message) /\ Len(out') = Len(out) - 1
      /\ Len(out) \in Nat
  BY <1>2, <1>3, HeadTailProperties, LenProperties
<1>5. TypeOK' /\ NeverUnreachable' /\ UpdatesAreNews'
  BY <1>1, <1>2, <1>3, <1>4, BoundAssumption DEF TypeOK, NeverUnreachable, UpdatesAreNews
<1>6. "lost" \notin trouble' => Told(Head(out))
  <2>1. "lost" \notin trouble' => Head(out) = OtherMessage
    BY <1>2
  <2> QED
    BY <1>2, <1>4, <2>1, Kinds DEF Told
<1>7. LastSpeedIsShown' /\ NoSpeedTwice' /\ LastStateIsShown'
  BY <1>2, <1>6, Taken
<1> QED
  BY <1>5, <1>7 DEF IInv

-----------------------------------------------------------------------------
(***************************************************************************)
(* The inductive invariant                                                 *)
(***************************************************************************)

LEMMA InitInv == Init => IInv
<1> SUFFICES ASSUME Init PROVE IInv
  OBVIOUS
<1>1. out = <<>> /\ Len(out) = 0 /\ DOMAIN out = {} /\ out \in Seq(Message)
  BY EmptySeq DEF Init
<1>2. TypeOK /\ NeverUnreachable /\ UpdatesAreNews
  <2>1. led \in Pattern /\ led # Unreachable
    BY DEF Init, Pattern, Loading, Unreachable
  <2>2. /\ watch \in [Fan -> Speed] /\ shown \in [Fan -> Speed] /\ update \in [Fan -> Speed]
        /\ home \in [Fan -> [isOn : BOOLEAN \cup {Unknown}, speed : Speed]]
    BY DEF Init, Speed
  <2>3. /\ changed \subseteq Fan /\ debouncing = FALSE
        /\ confirms \in 0 .. MaxConfirms /\ trouble = {}
        /\ Len(out) <= Capacity
    BY <1>1, BoundAssumption DEF Init
  <2> QED
    BY <1>1, <2>1, <2>2, <2>3 DEF Init, TypeOK, NeverUnreachable, UpdatesAreNews
<1>3. LastSpeedIsShown /\ NoSpeedTwice /\ LastStateIsShown
  BY <1>1 DEF Init, LastSpeedIsShown, NoSpeedTwice, LastStateIsShown
<1> QED
  BY <1>2, <1>3 DEF IInv

\* A new speed waits in the watch; no message and no shown speed changes.
LEMMA ConfirmInv ==
  ASSUME IInv, NEW f \in Fan, NEW s \in SetPoint, Confirm(f, s)
  PROVE  IInv'
<1>1. /\ TypeOK /\ NeverUnreachable /\ UpdatesAreNews
      /\ LastSpeedIsShown /\ NoSpeedTwice /\ LastStateIsShown
  BY DEF IInv
<1>2. /\ confirms < MaxConfirms /\ confirms' = confirms + 1
      /\ watch' = [watch EXCEPT ![f] = s] /\ changed' = changed \cup {f}
      /\ UNCHANGED <<shown, update, debouncing, led, out, home, trouble>>
  BY DEF Confirm
<1>3. TypeOK' /\ NeverUnreachable'
  BY <1>1, <1>2, BoundAssumption DEF TypeOK, NeverUnreachable, Speed
<1>4. UpdatesAreNews'
  BY <1>1, <1>2, UnknownAssumption DEF UpdatesAreNews, TypeOK
<1>5. LastSpeedIsShown' /\ NoSpeedTwice' /\ LastStateIsShown'
  BY <1>1, <1>2 DEF LastSpeedIsShown, NoSpeedTwice, LastStateIsShown, NoSpeed, NoState
<1> QED
  BY <1>3, <1>4, <1>5 DEF IInv

\* Only a speed that differs from the one shown becomes an update.
LEMMA ReceiveInv ==
  ASSUME IInv, NEW f \in Fan, Receive(f)
  PROVE  IInv'
<1>1. /\ TypeOK /\ NeverUnreachable /\ UpdatesAreNews
      /\ LastSpeedIsShown /\ NoSpeedTwice /\ LastStateIsShown
  BY DEF IInv
<1>2. /\ f \in changed /\ changed' = changed \ {f}
      /\ \/ /\ shown[f] = watch[f]
            /\ trouble' = IF update[f] = Unknown THEN trouble ELSE trouble \cup {"overtaken"}
            /\ UNCHANGED <<update, debouncing>>
         \/ /\ shown[f] # watch[f]
            /\ update' = [update EXCEPT ![f] = watch[f]]
            /\ debouncing' = TRUE
            /\ UNCHANGED trouble
      /\ UNCHANGED <<watch, shown, led, out, home, confirms>>
  BY DEF Receive, IsShown
<1>3. watch[f] \in Speed /\ watch[f] # Unknown
  BY <1>1, <1>2 DEF TypeOK, UpdatesAreNews
<1>4. TypeOK' /\ NeverUnreachable' /\ UpdatesAreNews'
  <2>1. TypeOK' /\ NeverUnreachable'
    BY <1>1, <1>2, <1>3 DEF TypeOK, NeverUnreachable
  <2>2. f \in Fan /\ update \in [Fan -> Speed]
    BY <1>1 DEF TypeOK
  <2>3. UpdatesAreNews'
    BY <1>1, <1>2, <1>3, <2>2 DEF UpdatesAreNews
  <2> QED
    BY <2>1, <2>3
<1>5. /\ "lost" \in trouble => "lost" \in trouble'
      /\ trouble' \subseteq {"overtaken"} => trouble \subseteq {"overtaken"}
  BY <1>2
<1>6. LastSpeedIsShown' /\ NoSpeedTwice' /\ LastStateIsShown'
  BY <1>1, <1>2, <1>5 DEF LastSpeedIsShown, NoSpeedTwice, LastStateIsShown, NoSpeed, NoState
<1> QED
  BY <1>4, <1>6 DEF IInv

LEMMA NextInv == IInv /\ [Next]_vars => IInv'
<1> SUFFICES ASSUME IInv, [Next]_vars PROVE IInv'
  OBVIOUS
<1>1. ASSUME NEW f \in Fan, NEW s \in SetPoint, Confirm(f, s) PROVE IInv'
  BY <1>1, ConfirmInv
<1>2. ASSUME NEW f \in Fan, Receive(f) PROVE IInv'
  BY <1>2, ReceiveInv
<1>3. CASE DebounceEnds
  BY <1>3, EndedType, EndedSpeeds, EndedStates DEF IInv
<1>4. CASE OthersSend
  BY <1>4, OthersSendInv
<1>5. CASE Deliver
  BY <1>5, DeliverInv
<1>6. CASE Lose
  BY <1>6, LoseInv
<1>7. CASE UNCHANGED vars
  BY <1>7 DEF vars, IInv, TypeOK, NeverUnreachable, UpdatesAreNews, LastSpeedIsShown,
              NoSpeedTwice, LastStateIsShown, NoSpeed, NoState
<1> QED
  BY <1>1, <1>2, <1>3, <1>4, <1>5, <1>6, <1>7 DEF Next

-----------------------------------------------------------------------------
(***************************************************************************)
(* Theorems                                                                *)
(***************************************************************************)

\* At every moment the displays, the updates that wait and the messages that are
\* underway fit each other as IInv says.
THEOREM Invariance == Spec => []IInv
<1> QED
  BY InitInv, NextInv, PTL DEF Spec

\* The state of display_routine and of the channel keeps its types, and the channel
\* never holds more than CHANNEL_SIZE messages.
THEOREM TypeCorrect == Spec => []TypeOK
<1>1. IInv => TypeOK
  BY DEF IInv
<1> QED
  BY <1>1, Invariance, PTL

\* The arm of display_routine that panics is never taken: when the LEDs are set, at
\* least one fan's speed is known.
THEOREM NeverPanics == Spec => []NeverUnreachable
<1>1. IInv => NeverUnreachable
  BY DEF IInv
<1> QED
  BY <1>1, Invariance, PTL

\* Once nothing of a fan is underway, Home Assistant has the speed that
\* current_display_state holds, although a full channel cuts reports short, as long
\* as the session lost no message.
THEOREM ShownIsTold == Spec => []HomeHasShownSpeed
<1>1. IInv => HomeHasShownSpeed
  <2> SUFFICES ASSUME IInv, "lost" \notin trouble, NEW f \in Fan, Underway(f) = {}
               PROVE  home[f].speed = shown[f]
    BY DEF HomeHasShownSpeed
  <2>1. out \in Seq(Message) /\ LastSpeedIsShown
    BY DEF IInv, TypeOK
  <2>2. DOMAIN out = 1 .. Len(out)
    BY <2>1, LenProperties
  <2>3. \A k \in DOMAIN out : out[k].fan # f
    BY DEF Underway
  <2>4. NoSpeed(f, 1, Len(out))
    BY <2>2, <2>3 DEF NoSpeed, IsSpeedOf
  <2> QED
    BY <2>1, <2>4 DEF LastSpeedIsShown
<1> QED
  BY <1>1, Invariance, PTL

\* display_routine never reports a speed that Home Assistant already has or is about to
\* have: two successive speeds of a fan differ, unless a message was lost.
THEOREM NeverToldTwice == Spec => []NoSpeedTwice
<1>1. IInv => NoSpeedTwice
  BY DEF IInv
<1> QED
  BY <1>1, Invariance, PTL

\* Home Assistant never has a fan running at speed zero or stopped at another, once
\* nothing of it is underway and no report was cut short or lost.
THEOREM StateFits == Spec => []StateFitsSpeed
<1>1. IInv => StateFitsSpeed
  <2> SUFFICES ASSUME IInv, trouble \subseteq {"overtaken"}, NEW f \in Fan,
                      Underway(f) = {}, home[f].speed # Unknown
               PROVE  home[f].isOn = (home[f].speed # 0)
    BY DEF StateFitsSpeed
  <2>1. out \in Seq(Message) /\ LastSpeedIsShown /\ LastStateIsShown
    BY DEF IInv, TypeOK
  <2>2. DOMAIN out = 1 .. Len(out)
    BY <2>1, LenProperties
  <2>3. \A k \in DOMAIN out : out[k].fan # f
    BY DEF Underway
  <2>4. NoSpeed(f, 1, Len(out)) /\ NoState(f, 1, Len(out))
    BY <2>2, <2>3 DEF NoSpeed, NoState, IsSpeedOf, IsStateOf
  <2>5. home[f].speed = shown[f]
    BY <2>1, <2>4 DEF LastSpeedIsShown
  <2> QED
    BY <2>1, <2>4, <2>5 DEF LastStateIsShown
<1> QED
  BY <1>1, Invariance, PTL
=============================================================================
