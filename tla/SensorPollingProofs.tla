------------------------ MODULE SensorPollingProofs ------------------------
(***************************************************************************)
(* What sensor_routine and its watcher guarantee for any cadence and any   *)
(* spans, any width of the counters and of a flow, any size of the channel *)
(* and any number of confirmed speeds.                                     *)
(***************************************************************************)
EXTENDS SensorPolling, SequenceTheorems, TLAPS

\* The number of readings in a span is one that the counters hold.
LEMMA ReadingsIn ==
  ASSUME NEW span \in Nat, NEW interval \in Nat
  PROVE  readings_in(span, interval) \in 1 .. CounterMax
<1> DEFINE d == IF interval < 1 THEN 1 ELSE interval
           n == span \div d
<1>1. d \in Nat /\ d > 0
  OBVIOUS
<1>2. n \in Int
  BY <1>1
<1>3. CounterMax \in Nat \ {0}
  BY WidthAssumption
<1> HIDE DEF n
<1>4. (IF n < 1 THEN 1 ELSE Least(n, CounterMax)) \in 1 .. CounterMax
  BY <1>2, <1>3 DEF Least
<1> QED
  BY <1>4 DEF n, readings_in

\* The two counts of a watcher.
LEMMA Counts ==
  /\ readings_in(SteadyFor, SettleInterval) \in 1 .. CounterMax
  /\ readings_in(GiveUpAfter, SettleInterval) \in 1 .. CounterMax
BY ReadingsIn, TimesAssumption

\* A watcher that has seen nothing watches.
LEMMA FreshWatches ==
  /\ Fresh \in Settling
  /\ Fresh # NoWatcher
  /\ Fresh.required = readings_in(SteadyFor, SettleInterval)
  /\ Fresh.limit = readings_in(GiveUpAfter, SettleInterval)
  /\ Fresh.taken = 0 /\ Fresh.steady = 0 /\ Fresh.previous = NoFlow
  /\ Progress(Fresh) = "moving"
<1>1. CounterMax \in Nat \ {0}
  BY WidthAssumption
<1>2. Fresh \in Settling
  BY <1>1, Counts DEF Fresh, at_interval, Settling
<1>3. /\ Fresh.required = readings_in(SteadyFor, SettleInterval)
      /\ Fresh.limit = readings_in(GiveUpAfter, SettleInterval)
      /\ Fresh.taken = 0 /\ Fresh.steady = 0 /\ Fresh.previous = NoFlow
  BY DEF Fresh, at_interval
<1>4. Progress(Fresh) = "moving"
  BY <1>3, Counts DEF Progress
<1> QED
  BY <1>2, <1>3, <1>4, PollingAssumption

\* One reading: what observe does to a watcher that is still moving.
LEMMA Observes ==
  ASSUME NEW s \in Settling, NEW flow \in Word \cup {NoFlow}, Progress(s) = "moving"
  PROVE  /\ observe(s, flow) \in Settling
         /\ observe(s, flow).required = s.required
         /\ observe(s, flow).limit = s.limit
         /\ observe(s, flow).taken = s.taken + 1
         /\ s.taken < s.limit
         /\ s.steady < s.required
         /\ flow = NoFlow =>
              observe(s, flow).previous = s.previous /\ observe(s, flow).steady = 0
         /\ flow # NoFlow => observe(s, flow).previous = flow
         /\ flow # NoFlow /\ s.previous = NoFlow => observe(s, flow).steady = s.steady
         /\ flow # NoFlow /\ s.previous # NoFlow =>
              observe(s, flow).steady = IF IsSteady(flow, s.previous) THEN s.steady + 1 ELSE 0
<1> DEFINE o == observe(s, flow)
<1>1. CounterMax \in Nat \ {0}
  BY WidthAssumption
<1>2. /\ s.taken \in 0 .. CounterMax /\ s.steady \in 0 .. CounterMax
      /\ s.required \in 1 .. CounterMax /\ s.limit \in 1 .. CounterMax
      /\ s.previous \in Word \cup {NoFlow}
  BY DEF Settling
<1>3. s.taken < s.limit /\ s.steady < s.required
  BY <1>2 DEF Progress
<1>4. saturating_add(s.taken) = s.taken + 1 /\ saturating_add(s.steady) = s.steady + 1
  BY <1>1, <1>2, <1>3 DEF saturating_add, Least
<1>5. o.required = s.required /\ o.limit = s.limit /\ o.taken = s.taken + 1
  BY <1>4 DEF observe, Settling
<1>6. flow = NoFlow => o.previous = s.previous /\ o.steady = 0
  BY DEF observe, Settling
<1>7. flow # NoFlow => o.previous = flow
  BY DEF observe, Settling
<1>8. flow # NoFlow /\ s.previous = NoFlow => o.steady = s.steady
  BY DEF observe, Settling
<1>9. flow # NoFlow /\ s.previous # NoFlow =>
        o.steady = IF IsSteady(flow, s.previous) THEN s.steady + 1 ELSE 0
  BY <1>4 DEF observe, Settling
<1>10. o \in Settling
  <2> DEFINE p == IF flow = NoFlow THEN s.previous ELSE flow
             n == CASE flow = NoFlow -> 0
                    [] flow # NoFlow /\ s.previous = NoFlow -> s.steady
                    [] flow # NoFlow /\ s.previous # NoFlow ->
                         IF IsSteady(flow, s.previous) THEN saturating_add(s.steady) ELSE 0
  <2>1. p \in Word \cup {NoFlow}
    BY <1>2
  <2>2. n \in 0 .. CounterMax
    BY <1>1, <1>2, <1>3, <1>4
  <2>3. saturating_add(s.taken) \in 0 .. CounterMax
    BY <1>1, <1>2, <1>3, <1>4
  <2>4. o = [s EXCEPT !.taken = saturating_add(s.taken), !.previous = p, !.steady = n]
    BY DEF observe
  <2> HIDE DEF o, p, n
  <2> QED
    BY <2>1, <2>2, <2>3, <2>4 DEF Settling
<1> QED
  BY <1>3, <1>5, <1>6, <1>7, <1>8, <1>9, <1>10

\* Readings that come later change nothing about those before them.
LEMMA LastKnownStays ==
  ASSUME NEW S, NEW l \in Seq(S), NEW x \in S, NEW i \in 1 .. Len(l) + 1
  PROVE  LastKnown(Append(l, x), i) = LastKnown(l, i)
<1>1. \A k \in 1 .. Len(l) : Append(l, x)[k] = l[k]
  BY AppendProperties
<1>2. Len(l) \in Nat
  BY LenProperties
<1>3. \A j \in 1 .. i - 1 : \A k \in j + 1 .. i - 1 : j \in 1 .. Len(l) /\ k \in 1 .. Len(l)
  BY <1>2
<1>4. \A j \in 1 .. i - 1 : j \in 1 .. Len(l)
  BY <1>2
<1> QED
  BY <1>1, <1>3, <1>4 DEF LastKnown

\* The last reading that succeeded, after one more.
LEMMA LastKnownNow ==
  ASSUME NEW S, NEW l \in Seq(S), NEW x \in S
  PROVE  /\ x # NoFlow =>
              Len(l) + 1 \in LastKnown(Append(l, x), Len(Append(l, x)) + 1)
         /\ x = NoFlow =>
              LastKnown(l, Len(l) + 1) \subseteq LastKnown(Append(l, x), Len(Append(l, x)) + 1)
<1> DEFINE m == Append(l, x)
<1>1. /\ Len(m) = Len(l) + 1
      /\ \A k \in 1 .. Len(l) : m[k] = l[k]
      /\ m[Len(l) + 1] = x
  BY AppendProperties
<1>2. Len(l) \in Nat
  BY LenProperties
<1> HIDE DEF m
<1>3. x # NoFlow => Len(l) + 1 \in LastKnown(m, Len(m) + 1)
  BY <1>1, <1>2 DEF LastKnown
<1>4. ASSUME x = NoFlow, NEW j \in LastKnown(l, Len(l) + 1)
      PROVE  j \in LastKnown(m, Len(m) + 1)
  <2>1. /\ j \in 1 .. Len(l) /\ l[j] # NoFlow
        /\ \A k \in j + 1 .. Len(l) : l[k] = NoFlow
    BY <1>2, <1>4 DEF LastKnown
  <2>2. ASSUME NEW k \in j + 1 .. Len(m) PROVE m[k] = NoFlow
    <3>1. CASE k = Len(l) + 1
      BY <1>1, <1>4, <3>1
    <3>2. CASE k # Len(l) + 1
      <4>1. k \in j + 1 .. Len(l) /\ k \in 1 .. Len(l)
        BY <1>1, <1>2, <2>1, <3>2
      <4> QED
        BY <1>1, <2>1, <4>1
    <3> QED
      BY <3>1, <3>2
  <2> QED
    BY <1>1, <1>2, <2>1, <2>2 DEF LastKnown
<1> QED
  BY <1>3, <1>4 DEF m

\* One more reading that agrees with the one that succeeded last.
LEMMA HoldsStill ==
  ASSUME NEW S, NEW l \in Seq(S), NEW x \in S, NEW n \in Nat,
         n > 0 => HeldStill(l, n), x # NoFlow,
         NEW j \in LastKnown(l, Len(l) + 1), IsSteady(x, l[j])
  PROVE  HeldStill(Append(l, x), n + 1)
<1> DEFINE m == Append(l, x)
<1>1. /\ Len(m) = Len(l) + 1
      /\ \A k \in 1 .. Len(l) : m[k] = l[k]
      /\ m[Len(l) + 1] = x
  BY AppendProperties
<1>2. Len(l) \in Nat
  BY LenProperties
<1>3. \A i \in 1 .. Len(l) + 1 : LastKnown(m, i) = LastKnown(l, i)
  BY LastKnownStays
<1> HIDE DEF m
<1>4. j \in 1 .. Len(l)
  BY <1>2 DEF LastKnown
<1>5. Len(m) > n + 1
  BY <1>1, <1>2, <1>4 DEF HeldStill
<1>6. ASSUME NEW i \in Len(m) - (n + 1) + 1 .. Len(m)
      PROVE  m[i] # NoFlow /\ \E k \in LastKnown(m, i) : IsSteady(m[i], m[k])
  <2>1. CASE i = Len(l) + 1
    <3>1. j \in LastKnown(m, i) /\ m[j] = l[j] /\ m[i] = x
      BY <1>1, <1>2, <1>3, <1>4, <2>1
    <3> QED
      BY <3>1
  <2>2. CASE i # Len(l) + 1
    <3>1. n > 0 /\ i \in Len(l) - n + 1 .. Len(l) /\ i \in 1 .. Len(l)
      BY <1>1, <1>2, <1>5, <2>2
    <3>2. l[i] # NoFlow /\ \E k \in LastKnown(l, i) : IsSteady(l[i], l[k])
      BY <3>1 DEF HeldStill
    <3>3. PICK k \in LastKnown(l, i) : IsSteady(l[i], l[k])
      BY <3>2
    <3>4. k \in 1 .. Len(l)
      BY <1>2, <3>1, <3>3 DEF LastKnown
    <3>5. k \in LastKnown(m, i)
      <4>1. i \in 1 .. Len(l) + 1
        BY <1>2, <3>1
      <4> QED
        BY <1>3, <3>3, <4>1
    <3> QED
      BY <1>1, <3>1, <3>2, <3>3, <3>4, <3>5
  <2> QED
    BY <2>1, <2>2
<1> QED
  BY <1>5, <1>6 DEF HeldStill, m

\* One reading is observed: what the watcher keeps still is what was read.
LEMMA ReadingObserved ==
  ASSUME TypeOK, BoundedFastCadence, Watching, watcher # NoWatcher,
         NEW flow \in Flow \cup {NoFlow}
  PROVE  LET s == observe(watcher, flow)
             l == Append(log, flow)
         IN  /\ s \in Settling
             /\ s.required = readings_in(SteadyFor, SettleInterval)
             /\ s.limit = readings_in(GiveUpAfter, SettleInterval)
             /\ s.steady <= s.required /\ s.taken <= s.limit
             /\ Logged(flow) = l
             /\ l \in Seq(Flow \cup {NoFlow})
             /\ Len(l) = s.taken
             /\ s.steady > 0 => s.previous # NoFlow /\ HeldStill(l, s.steady)
             /\ s.previous # NoFlow =>
                  \E j \in LastKnown(l, Len(l) + 1) : l[j] = s.previous
<1> DEFINE s == observe(watcher, flow)
           l == Append(log, flow)
           S == Flow \cup {NoFlow}
<1>1. /\ watcher \in Settling /\ log \in Seq(S) /\ flow \in S
      /\ flow \in Word \cup {NoFlow}
      /\ Progress(watcher) = "moving"
  BY PollingAssumption DEF TypeOK, Watching
<1>2. /\ s \in Settling
      /\ s.required = watcher.required /\ s.limit = watcher.limit
      /\ s.taken = watcher.taken + 1
      /\ watcher.taken < watcher.limit /\ watcher.steady < watcher.required
      /\ flow = NoFlow => s.previous = watcher.previous /\ s.steady = 0
      /\ flow # NoFlow => s.previous = flow
      /\ flow # NoFlow /\ watcher.previous = NoFlow => s.steady = watcher.steady
      /\ flow # NoFlow /\ watcher.previous # NoFlow =>
           s.steady = IF IsSteady(flow, watcher.previous) THEN watcher.steady + 1 ELSE 0
  BY <1>1, Observes
<1>3. /\ watcher.taken \in Nat /\ watcher.steady \in Nat
      /\ watcher.required \in Nat /\ watcher.limit \in Nat /\ watcher.limit > 0
  BY <1>1, WidthAssumption DEF Settling
<1>4. /\ Len(l) = Len(log) + 1
      /\ l \in Seq(S)
      /\ \A k \in 1 .. Len(log) : l[k] = log[k]
      /\ l[Len(log) + 1] = flow
  BY <1>1, AppendProperties
<1>5. Len(log) \in Nat /\ Len(log) = watcher.taken
  BY <1>1, LenProperties DEF Watching
<1>6. /\ watcher.required = readings_in(SteadyFor, SettleInterval)
      /\ watcher.limit = readings_in(GiveUpAfter, SettleInterval)
  BY DEF Watching
<1> HIDE DEF s, l
<1>7. s.steady <= s.required /\ s.taken <= s.limit /\ Len(l) = s.taken
  BY <1>2, <1>3, <1>4, <1>5
<1>8. Logged(flow) = l
  <2>1. ~(Len(l) > readings_in(GiveUpAfter, SettleInterval) + 1)
    BY <1>2, <1>3, <1>6, <1>7
  <2> QED
    BY <2>1 DEF Logged, l
<1>9. watcher.previous # NoFlow =>
        \E j \in LastKnown(log, Len(log) + 1) : log[j] = watcher.previous
  BY DEF Watching
<1>10. ASSUME s.previous # NoFlow
       PROVE  \E j \in LastKnown(l, Len(l) + 1) : l[j] = s.previous
  <2>1. CASE flow # NoFlow
    BY <1>1, <1>2, <1>4, <2>1, LastKnownNow DEF l
  <2>2. CASE flow = NoFlow
    <3>1. PICK j \in LastKnown(log, Len(log) + 1) : log[j] = s.previous
      BY <1>2, <1>9, <1>10, <2>2
    <3>2. j \in LastKnown(l, Len(l) + 1)
      BY <1>1, <2>2, <3>1, LastKnownNow DEF l
    <3>3. j \in 1 .. Len(log)
      BY <1>5, <3>1 DEF LastKnown
    <3> QED
      BY <1>4, <3>1, <3>2, <3>3
  <2> QED
    BY <2>1, <2>2
<1>11. ASSUME s.steady > 0
       PROVE  s.previous # NoFlow /\ HeldStill(l, s.steady)
  <2>1. flow # NoFlow
    BY <1>2, <1>11
  <2>2. watcher.previous # NoFlow
    BY <1>2, <1>11, <2>1 DEF Watching
  <2>3. IsSteady(flow, watcher.previous) /\ s.steady = watcher.steady + 1
    BY <1>2, <1>11, <2>1, <2>2
  <2>4. PICK j \in LastKnown(log, Len(log) + 1) : log[j] = watcher.previous
    BY <1>9, <2>2
  <2>5. watcher.steady > 0 => HeldStill(log, watcher.steady)
    BY DEF Watching
  <2>6. IsSteady(flow, log[j])
    BY <2>3, <2>4
  <2>7. HeldStill(l, watcher.steady + 1)
    BY <1>1, <1>3, <2>1, <2>4, <2>5, <2>6, HoldsStill DEF l
  <2> QED
    BY <1>2, <2>1, <2>3, <2>7
<1> QED
  BY <1>2, <1>4, <1>6, <1>7, <1>8, <1>10, <1>11 DEF s, l

\* What a step does to what the watcher knows.
Follows == watcher' = Fresh /\ log' = <<>>

Observed(flow) == watcher' = Watched(flow) /\ log' = Logged(flow)

\* A change that is followed from here on.
LEMMA FollowsInv ==
  ASSUME Follows
  PROVE  /\ watcher' \in Settling /\ watcher' # NoWatcher
         /\ log' \in Seq(Flow \cup {NoFlow})
         /\ BoundedFastCadence' /\ Watching'
<1>1. log' \in Seq(Flow \cup {NoFlow}) /\ Len(log') = 0
  BY EmptySeq DEF Follows
<1>2. readings_in(GiveUpAfter, SettleInterval) \in Nat
  BY Counts, WidthAssumption
<1>3. Watching'
  BY <1>1, FreshWatches DEF Follows, Watching
<1> QED
  BY <1>1, <1>2, <1>3, FreshWatches DEF Follows, BoundedFastCadence

\* A reading, whether a change is followed or not, and when it ends the following.
LEMMA ObservedInv ==
  ASSUME TypeOK, BoundedFastCadence, Watching,
         NEW flow \in Flow \cup {NoFlow}, Observed(flow)
  PROVE  /\ watcher' \in Settling \cup {NoWatcher}
         /\ log' \in Seq(Flow \cup {NoFlow})
         /\ BoundedFastCadence' /\ Watching'
         /\ watcher # NoWatcher /\ watcher' = NoWatcher =>
              \/ HeldStill(log', readings_in(SteadyFor, SettleInterval))
              \/ Len(log') = readings_in(GiveUpAfter, SettleInterval)
<1>1. CASE watcher = NoWatcher
  <2>1. watcher' = NoWatcher /\ log' = log
    BY <1>1 DEF Observed, Watched, Logged
  <2> QED
    BY <1>1, <2>1 DEF TypeOK, BoundedFastCadence, Watching
<1>2. CASE watcher # NoWatcher
  <2> DEFINE s == observe(watcher, flow)
             l == Append(log, flow)
             required == readings_in(SteadyFor, SettleInterval)
             limit == readings_in(GiveUpAfter, SettleInterval)
  <2>1. /\ s \in Settling
        /\ s.required = required /\ s.limit = limit
        /\ s.steady <= s.required /\ s.taken <= s.limit
        /\ Logged(flow) = l
        /\ l \in Seq(Flow \cup {NoFlow})
        /\ Len(l) = s.taken
        /\ s.steady > 0 => s.previous # NoFlow /\ HeldStill(l, s.steady)
        /\ s.previous # NoFlow =>
             \E j \in LastKnown(l, Len(l) + 1) : l[j] = s.previous
    BY <1>2, ReadingObserved
  <2>2. log' = l /\ watcher' = IF Progress(s) = "moving" THEN s ELSE NoWatcher
    BY <1>2, <2>1 DEF Observed, Watched
  <2>3. /\ s.steady \in Nat /\ s.taken \in Nat /\ s.required \in Nat \ {0}
        /\ s.limit \in Nat \ {0}
    BY <2>1, WidthAssumption DEF Settling
  <2> HIDE DEF s, l, required, limit
  <2>4. Progress(s) # "moving" => HeldStill(l, required) \/ Len(l) = limit
    <3>1. CASE s.steady >= s.required
      <4>1. s.steady = required /\ s.steady > 0
        BY <2>1, <2>3, <3>1
      <4> QED
        BY <2>1, <4>1
    <3>2. CASE ~(s.steady >= s.required) /\ s.taken >= s.limit
      BY <2>1, <2>3, <3>2
    <3>3. CASE ~(s.steady >= s.required) /\ ~(s.taken >= s.limit)
      BY <2>3, <3>3 DEF Progress
    <3> QED
      BY <3>1, <3>2, <3>3
  <2>5. Len(log') <= limit
    BY <2>1, <2>2
  <2>6. Watching'
    <3>1. CASE Progress(s) = "moving"
      <4>1. watcher' = s
        BY <2>2, <3>1
      <4> QED
        BY <2>1, <2>2, <3>1, <4>1 DEF Watching, required, limit
    <3>2. CASE Progress(s) # "moving"
      BY <2>2, <3>2 DEF Watching
    <3> QED
      BY <3>1, <3>2
  <2>7. watcher' \in Settling \cup {NoWatcher}
    BY <2>1, <2>2
  <2>8. watcher' = NoWatcher => Progress(s) # "moving"
    BY <2>1, <2>2, PollingAssumption
  <2> QED
    BY <2>1, <2>2, <2>4, <2>5, <2>6, <2>7, <2>8
       DEF BoundedFastCadence, required, limit
<1> QED
  BY <1>1, <1>2

\* A published reading fits the channel.
LEMMA PublishedFits ==
  ASSUME TypeOK, NEW flow
  PROVE  Published(flow) \in 0 .. Capacity
BY PollingAssumption DEF TypeOK, Published

\* The routine starts out with nothing to follow.
LEMMA InitInv == Init => IInv
<1> SUFFICES ASSUME Init PROVE IInv
  OBVIOUS
<1>1. log \in Seq(Flow \cup {NoFlow}) /\ Len(log) = 0
  BY EmptySeq DEF Init
<1>2. TypeOK
  <2>1. 0 \in 0 .. MaxChanges /\ 0 \in 0 .. Capacity
    BY PollingAssumption
  <2>2. maximum \in BOOLEAN /\ unseen \in BOOLEAN /\ watcher \in Settling \cup {NoWatcher}
    BY Zenon DEF Init
  <2>3. /\ pc \in {"startup", "maximum", "reading_maximum", "lock", "status", "power", "waiting"}
        /\ holder \in {"nobody", "sensors", "others"}
        /\ (holder = "sensors") <=> pc \in {"reading_maximum", "status", "power"}
    BY DEF Init
  <2> QED
    BY <1>1, <2>1, <2>2, <2>3 DEF Init, TypeOK
<1>3. BoundedFastCadence
  BY <1>1, Counts, WidthAssumption DEF BoundedFastCadence
<1>4. SameMoment /\ Watching
  BY DEF Init, SameMoment, Watching
<1> QED
  BY <1>2, <1>3, <1>4 DEF IInv

\* The parts of the invariant that a step changes nothing about.
LEMMA WatchingStays ==
  ASSUME BoundedFastCadence, Watching, UNCHANGED <<watcher, log>>
  PROVE  BoundedFastCadence' /\ Watching'
BY DEF BoundedFastCadence, Watching

\* A poll ends.
LEMMA EndPollInv ==
  ASSUME IInv, pc \in {"status", "power"}, NEW flow \in Flow \cup {NoFlow},
         EndPoll(flow), UNCHANGED <<maximum, changes, statusAt>>
  PROVE  /\ IInv'
         /\ watcher # NoWatcher /\ watcher' = NoWatcher =>
              \/ HeldStill(log', readings_in(SteadyFor, SettleInterval))
              \/ Len(log') = readings_in(GiveUpAfter, SettleInterval)
<1> USE DEF IInv
<1>1. channel' \in 0 .. Capacity
  BY PublishedFits DEF EndPoll
<1>2. CASE unseen
  <2>1. Follows /\ unseen' = FALSE /\ pc' = "maximum" /\ holder' = "nobody"
    BY <1>2 DEF EndPoll, Follow, Follows
  <2>2. /\ watcher' \in Settling /\ watcher' # NoWatcher
        /\ log' \in Seq(Flow \cup {NoFlow})
        /\ BoundedFastCadence' /\ Watching'
    BY <2>1, FollowsInv
  <2>3. TypeOK' /\ SameMoment'
    BY <1>1, <2>1, <2>2 DEF TypeOK, SameMoment
  <2> QED
    BY <2>2, <2>3
<1>3. CASE ~unseen
  <2>1. Observed(flow) /\ unseen' = unseen /\ pc' = "waiting" /\ holder' = "nobody"
    BY <1>3 DEF EndPoll, Observed
  <2>2. /\ watcher' \in Settling \cup {NoWatcher}
        /\ log' \in Seq(Flow \cup {NoFlow})
        /\ BoundedFastCadence' /\ Watching'
        /\ watcher # NoWatcher /\ watcher' = NoWatcher =>
             \/ HeldStill(log', readings_in(SteadyFor, SettleInterval))
             \/ Len(log') = readings_in(GiveUpAfter, SettleInterval)
    BY <2>1, ObservedInv
  <2>3. TypeOK' /\ SameMoment'
    BY <1>1, <2>1, <2>2 DEF TypeOK, SameMoment
  <2> QED
    BY <2>2, <2>3
<1> QED
  BY <1>2, <1>3

\* Every step preserves the invariant, and ends the quick readings only when the
\* flow held still or the limit is reached.
LEMMA NextInv ==
  ASSUME IInv, [Next]_vars
  PROVE  /\ IInv'
         /\ watcher # NoWatcher /\ watcher' = NoWatcher =>
              \/ HeldStill(log', readings_in(SteadyFor, SettleInterval))
              \/ Len(log') = readings_in(GiveUpAfter, SettleInterval)
<1> USE DEF IInv
<1>1. CASE ReadStatusFails
  BY <1>1, EndPollInv DEF ReadStatusFails
<1>2. CASE ReadPower
  BY <1>2, EndPollInv DEF ReadPower
<1>3. CASE Changed
  <2>1. Follows
    BY <1>3 DEF Changed, Follow, Follows
  <2>2. /\ watcher' \in Settling /\ watcher' # NoWatcher
        /\ log' \in Seq(Flow \cup {NoFlow})
        /\ BoundedFastCadence' /\ Watching'
    BY <2>1, FollowsInv
  <2>3. TypeOK' /\ SameMoment'
    BY <1>3, <2>2 DEF Changed, Follow, TypeOK, SameMoment
  <2> QED
    BY <2>2, <2>3
<1>4. ASSUME UNCHANGED <<watcher, log>>, TypeOK', SameMoment'
      PROVE  /\ IInv'
             /\ ~(watcher # NoWatcher /\ watcher' = NoWatcher)
  BY <1>4, WatchingStays
<1>5. CASE Start
  BY <1>4, <1>5 DEF Start, TypeOK, SameMoment
<1>6. CASE BeginMaximum
  BY <1>4, <1>6 DEF BeginMaximum, Lock, TypeOK, SameMoment
<1>7. CASE EndMaximum
  BY <1>4, <1>7 DEF EndMaximum, TypeOK, SameMoment
<1>8. CASE LockRuns
  BY <1>4, <1>8 DEF LockRuns, Lock, TypeOK, SameMoment
<1>9. CASE ReadStatus
  BY <1>4, <1>9 DEF ReadStatus, TypeOK, SameMoment
<1>10. CASE TimerExpires
  BY <1>4, <1>10 DEF TimerExpires, TypeOK, SameMoment
<1>11. CASE Confirm
  BY <1>4, <1>11, PollingAssumption DEF Confirm, TypeOK, SameMoment
<1>12. CASE OthersLock
  BY <1>4, <1>12 DEF OthersLock, TypeOK, SameMoment
<1>13. CASE OthersUnlock
  BY <1>4, <1>13 DEF OthersUnlock, TypeOK, SameMoment
<1>14. CASE OthersSend
  BY <1>4, <1>14, PollingAssumption DEF OthersSend, TypeOK, SameMoment
<1>15. CASE Deliver
  BY <1>4, <1>15, PollingAssumption DEF Deliver, TypeOK, SameMoment
<1>16. CASE UNCHANGED vars
  BY <1>4, <1>16 DEF vars, TypeOK, SameMoment
<1> QED
  BY <1>1, <1>2, <1>3, <1>5, <1>6, <1>7, <1>8, <1>9, <1>10, <1>11, <1>12, <1>13,
     <1>14, <1>15, <1>16 DEF Next, Routine, Others

\* The inductive invariant: the types, and what the watcher knows of the readings.
THEOREM Invariance == Spec => []IInv
<1>1. IInv /\ [Next]_vars => IInv'
  BY NextInv
<1> QED
  BY InitInv, <1>1, PTL DEF Spec

\* Every variable of sensor_routine keeps its type: the counters of the watcher never
\* pass what a u8 holds, and the channel never holds more than it has room for.
THEOREM TypeCorrect == Spec => []TypeOK
<1>1. IInv => TypeOK
  BY DEF IInv
<1> QED
  BY Invariance, <1>1, PTL

\* Both runs of registers of a reading are of one moment, whoever else uses the bus.
THEOREM ReadingsAreOfOneMoment == Spec => []SameMoment
<1>1. IInv => SameMoment
  BY DEF IInv
<1> QED
  BY Invariance, <1>1, PTL

\* Whatever a fan answers, the quick readings after a change are bounded.
THEOREM QuickReadingsAreBounded == Spec => []BoundedFastCadence
<1>1. IInv => BoundedFastCadence
  BY DEF IInv
<1> QED
  BY Invariance, <1>1, PTL

\* The quick readings end early only when the flow held still for the whole span.
THEOREM StopsSettled == Spec => StopsOnlyWhenSteady
<1> DEFINE Ends ==
      watcher # NoWatcher /\ watcher' = NoWatcher =>
        \/ HeldStill(log', readings_in(SteadyFor, SettleInterval))
        \/ Len(log') = readings_in(GiveUpAfter, SettleInterval)
<1>1. IInv /\ [Next]_vars => [Ends]_vars
  BY NextInv
<1> HIDE DEF Ends
<1>2. Spec => [][Ends]_vars
  BY Invariance, <1>1, PTL DEF Spec
<1> QED
  BY <1>2 DEF StopsOnlyWhenSteady, Ends

=============================================================================
