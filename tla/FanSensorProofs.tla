-------------------------- MODULE FanSensorProofs --------------------------
(***************************************************************************)
(* What decoding a fan's registers keeps of them, for any width of a word. *)
(***************************************************************************)
EXTENDS FanSensor, TLAPS

\* Division rounds down.
LEMMA Divides ==
  ASSUME NEW a \in Nat, NEW d \in Nat \ {0}
  PROVE  /\ a \div d \in Nat
         /\ d * (a \div d) <= a
         /\ a < d * (a \div d) + d
OBVIOUS

\* What is less than d times n fits less than n times into d.
LEMMA LessThan ==
  ASSUME NEW a \in Nat, NEW d \in Nat \ {0}, NEW n \in Nat, a < d * n
  PROVE  a \div d < n
<1>1. a \div d \in Nat /\ d * (a \div d) <= a
  BY Divides
<1>2. SUFFICES ASSUME n <= a \div d PROVE FALSE
  BY <1>1
<1>3. d * n <= d * (a \div d)
  BY <1>1, <1>2
<1> QED
  BY <1>1, <1>3

\* The sign, the whole part and the tenth that are written of a number of tenths are its own,
\* also of those between -9 and -1, whose whole part is zero and cannot carry the sign.
THEOREM TenthsKeepTheirValue ==
  ASSUME NEW t \in Int
  PROVE  LET r == Tenths(t) IN
         /\ r.whole \in Nat /\ r.tenth \in 0 .. 9
         /\ t = IF r.isNegative THEN -(10 * r.whole + r.tenth) ELSE 10 * r.whole + r.tenth
<1> DEFINE m == IF t < 0 THEN -t ELSE t
<1>1. m \in Nat /\ (t = IF t < 0 THEN -m ELSE m)
  OBVIOUS
<1> HIDE DEF m
<1>2. m \div 10 \in Nat /\ m % 10 \in 0 .. 9 /\ m = 10 * (m \div 10) + (m % 10)
  BY <1>1
<1>3. Tenths(t) = [isNegative |-> t < 0, whole |-> m \div 10, tenth |-> m % 10]
  BY DEF Tenths, m
<1>4. Tenths(t).whole = m \div 10 /\ Tenths(t).tenth = m % 10 
  BY <1>3
<1>5. Tenths(t).isNegative <=> t < 0
  <2> DEFINE negative == t < 0
  <2>1. negative \in BOOLEAN /\ Tenths(t) = [isNegative |-> negative, whole |-> m \div 10, tenth |-> m % 10]
    BY <1>3
  <2> HIDE DEF negative
  <2>2. Tenths(t).isNegative = negative
    BY <2>1
  <2> QED
    BY <2>2 DEF negative
<1> QED
  BY <1>1, <1>2, <1>4, <1>5

\* A word read as a signed number is that number modulo the number of words: no two words
\* are read as the same number, and none is read as one that a word does not hold.
THEOREM SignedIsTwosComplement ==
  ASSUME NEW word \in Word
  PROVE  /\ Signed(word) \in Int
         /\ Signed(word) = word \/ Signed(word) = word - (WordMax + 1)
         /\ 2 * Signed(word) <= WordMax /\ -(WordMax + 1) <= 2 * Signed(word)
         /\ \A other \in Word : Signed(other) = Signed(word) => other = word
BY WidthAssumption DEF Signed, Word

\* "The largest raw value the register can hold gives 999": no humidity reaches 100 percent,
\* and none is negative.
THEOREM HumidityIsAFraction ==
  ASSUME NEW raw \in Word
  PROVE  relative_humidity(raw) \in 0 .. 999
<1>1. raw * 1000 \in Nat /\ WordMax + 1 \in Nat \ {0}
  BY WidthAssumption DEF Word
<1>2. raw * 1000 < (WordMax + 1) * 1000
  BY WidthAssumption DEF Word
<1>3. (raw * 1000) \div (WordMax + 1) \in Nat
  BY <1>1, Divides
<1>4. (raw * 1000) \div (WordMax + 1) < 1000
  BY <1>1, <1>2, LessThan
<1> QED
  BY <1>3, <1>4 DEF relative_humidity

\* A speed fits a word even if the fan reports more than its maximum; up to that, what is
\* shown is a speed the fan can have, and the maximum itself at the top of the range.
THEOREM SpeedFitsWord ==
  ASSUME NEW reported \in Word, NEW maximum \in Word
  PROVE  /\ speed(reported, maximum) \in Word
         /\ reported <= SpeedMax => speed(reported, maximum) <= maximum
         /\ reported = SpeedMax => speed(reported, maximum) = maximum
<1> DEFINE product == reported * maximum
           scaled == product \div SpeedMax
<1>1. /\ reported \in Nat /\ maximum \in Nat /\ maximum <= WordMax
      /\ SpeedMax \in Nat \ {0} /\ WordMax \in Nat
  BY WidthAssumption DEF Word
<1>2. product \in Nat
  BY <1>1
<1>3. scaled \in Nat /\ SpeedMax * scaled <= product /\ product < SpeedMax * scaled + SpeedMax
  BY <1>1, <1>2, Divides
<1>4. speed(reported, maximum) = Least(scaled, WordMax)
  BY DEF speed
<1>5. ASSUME reported <= SpeedMax PROVE scaled <= maximum
  <2>1. product < SpeedMax * (maximum + 1)
    <3>1. product <= SpeedMax * maximum
      BY <1>1, <1>5
    <3>2. SpeedMax * (maximum + 1) = SpeedMax * maximum + SpeedMax /\ SpeedMax * maximum \in Nat
      BY <1>1
    <3> QED
      BY <1>1, <1>2, <3>1, <3>2
  <2>2. scaled < maximum + 1
    BY <1>1, <1>2, <2>1, LessThan
  <2> QED
    BY <1>1, <1>3, <2>2
<1>6. ASSUME reported = SpeedMax PROVE maximum <= scaled
  <2>1. SpeedMax * maximum < SpeedMax * scaled + SpeedMax
    BY <1>3, <1>6
  <2>2. SpeedMax * scaled + SpeedMax = SpeedMax * (scaled + 1)
    BY <1>1, <1>3
  <2>3. SpeedMax * maximum < SpeedMax * (scaled + 1)
    BY <2>1, <2>2
  <2>4. maximum < scaled + 1
    <3>1. SUFFICES ASSUME scaled + 1 <= maximum PROVE FALSE
      BY <1>1, <1>3
    <3>2. SpeedMax * (scaled + 1) <= SpeedMax * maximum
      BY <1>1, <1>3, <3>1
    <3> QED
      BY <1>1, <1>3, <2>3, <3>2
  <2> QED
    BY <1>1, <1>3, <2>4
<1> HIDE DEF scaled, product
<1> QED
  BY <1>1, <1>3, <1>4, <1>5, <1>6 DEF Least, Word

\* "A bit set outside the documented ones is reported rather than swallowed": every bit is
\* written exactly once, by its name, in the number of the others, or elsewhere; and "OK" is
\* written when there is nothing to write, and only then.
THEOREM NoFlagIsSwallowed ==
  ASSUME NEW bits, NEW flags, NEW elsewhere
  PROVE  LET w == write_flags(bits, flags, elsewhere) IN
         /\ w.names \cup w.undocumented = bits \ elsewhere
         /\ w.names \cap w.undocumented = {}
         /\ w.names \subseteq flags /\ w.undocumented \cap flags = {}
         /\ w.ok <=> bits \subseteq elsewhere
BY DEF write_flags

\* is_healthy agrees with the text that is published: either word counts as healthy exactly
\* when it is written as "OK", the unwired set point input notwithstanding.
THEOREM HealthIsWritten ==
  ASSUME NEW status, NEW air, NEW maximum
  PROVE  LET reading == decode(status, air, maximum) IN
         /\ MotorIsHealthy(status.motor) <=> reading.motorStatus.ok
         /\ WarningIsHealthy(status.warning) <=> reading.warning.ok
<1> DEFINE motorText == write_flags(status.motor, MotorStatusFlags, {})
           warningText == write_flags(status.warning, WarningFlags, AnalogSetPointBreak)
<1>1. MotorIsHealthy(status.motor) <=> motorText.ok
  BY NoFlagIsSwallowed DEF MotorIsHealthy
<1>2. WarningIsHealthy(status.warning) <=> warningText.ok
  BY NoFlagIsSwallowed DEF WarningIsHealthy
<1> HIDE DEF motorText, warningText
<1>3. /\ decode(status, air, maximum).motorStatus = motorText
      /\ decode(status, air, maximum).warning = warningText
  BY DEF decode, motorText, warningText
<1> QED
  BY <1>1, <1>2, <1>3
=============================================================================
