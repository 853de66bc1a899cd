-------------------------- MODULE FanControlProofs --------------------------
(***************************************************************************)
(* Proofs about FanControl, for all set points, numbers of attempts, ways  *)
(* in which a transaction may end, and numbers of commands.                *)
(***************************************************************************)
EXTENDS FanControl, TLAPS

\* The other fan is a fan, and the two are different.
LEMMA OtherFan == \A f \in Fan : Other(f) \in Fan /\ Other(f) # f
BY DEF Fan, Other

\* A request made of a set point is a request of that set point.
LEMMA RequestType ==
  ASSUME NEW s \in SetPoint
  PROVE  /\ FromUser(s) \in Request /\ FromUser(s).origin = "user"
         /\ FromOtherFan(s) \in Request /\ FromOtherFan(s).origin # "user"
         /\ FromUser(s).setPoint = s /\ FromOtherFan(s).setPoint = s
BY DEF FromUser, FromOtherFan, Request

\* Counting a correction adds at most one to the count.
LEMMA CountedOnce ==
  ASSUME NEW n \in Nat PROVE Counted(n) \in Nat /\ Counted(n) <= n + 1
BY BoundAssumption DEF Counted

\* The button always advances to one of its settings.
LEMMA NextSettingType ==
  ASSUME NEW s \in SetPoint
  PROVE  NextSetting(s) \in SetPoint
<1>1. s \in Nat /\ LOW \in Nat /\ MEDIUM \in Nat
  BY SetPointAssumption
<1>2. s = 0 \/ (0 < s /\ s <= LOW) \/ (LOW < s /\ s <= MEDIUM) \/ s > MEDIUM
  BY <1>1, SetPointAssumption
<1>3. QED
  BY <1>1, <1>2, SetPointAssumption DEF NextSetting

\* A user's command is a call of Ask for a set point that exists.
LEMMA UserInputAsks ==
  ASSUME TypeOK, UserInput
  PROVE  \E fans \in SUBSET Fan, s \in SetPoint : Ask(fans, s)
<1>1. CASE PressButton
  <2>1. ConfirmedOrZero(1) \in SetPoint /\ ConfirmedOrZero(2) \in SetPoint
    BY SetPointAssumption DEF TypeOK, ConfirmedOrZero, Fan
  <2>2. PICK s \in SetPoint : Ask(Fan, NextSetting(s))
    BY <1>1, <2>1 DEF PressButton
  <2>3. QED
    BY <2>2, NextSettingType
<1>2. CASE \E f \in Fan : TurnOn(f) \/ TurnOff(f)
  BY <1>2, SetPointAssumption DEF TurnOn, TurnOff, TypeOK
<1>3. CASE \E f \in Fan, s \in SetPoint : SetSpeed(f, s)
  BY <1>3, OtherFan DEF SetSpeed
<1>4. QED
  BY <1>1, <1>2, <1>3 DEF UserInput

-----------------------------------------------------------------------------
(***************************************************************************)
(* Type correctness                                                        *)
(***************************************************************************)

LEMMA InitType == Init => TypeOK
<1> SUFFICES ASSUME Init PROVE TypeOK
  OBVIOUS
<1>1. 0 \in SetPoint /\ 0 \in 0 .. MaxInputs /\ 1 \in 1 .. MaxAttempts + 1
  BY SetPointAssumption, BoundAssumption
<1>2. actual \in [Fan -> SetPoint \cup {AboveMax}]
  BY RunningAssumption DEF Init
<1>3. QED
  BY <1>1, <1>2 DEF Init, TypeOK, Await, Nobody

\* Every step keeps the types: a routine that writes has a request to write, one
\* that reads has attempts left, and what is news to the brain is a speed.
LEMMA NextType ==
  ASSUME TypeOK, RequestInHand, ReadsFirst, ShowsBelief, [Next]_vars
  PROVE  TypeOK'
<1> USE DEF TypeOK, Await, routine, shown, user, history
<1>1. ASSUME NEW f \in Fan, BeginRead(f) PROVE TypeOK'
  BY <1>1 DEF BeginRead, Lock
<1>2. ASSUME NEW f \in Fan, ReadSucceeds(f) PROVE TypeOK'
  BY <1>2 DEF ReadSucceeds, Unlock, Show
<1>3. ASSUME NEW f \in Fan, ReadFails(f) PROVE TypeOK'
  <2>1. attempt[f] + 1 \in 1 .. MaxAttempts + 1
    BY <1>3, BoundAssumption DEF ReadFails, ReadsFirst
  <2>2. QED
    BY <1>3, <2>1 DEF ReadFails, Unlock
<1>4. ASSUME NEW f \in Fan, TakeRequest(f) PROVE TypeOK'
  BY <1>4, BoundAssumption DEF TakeRequest, Signaled
<1>5. ASSUME NEW f \in Fan, BeginWrite(f) PROVE TypeOK'
  BY <1>5 DEF BeginWrite, Lock, LatestRequest, Signaled
<1>6. ASSUME NEW f \in Fan, BeginRetry(f) PROVE TypeOK'
  BY <1>6 DEF BeginRetry, Lock
<1>7. ASSUME NEW f \in Fan, WriteEnds(f) PROVE TypeOK'
  <2>1. request[f].setPoint \in SetPoint
    BY <1>7 DEF WriteEnds, WriteSucceeds, WriteFails, GiveUp, RequestInHand, Request
  <2>2. ASSUME NEW o \in Outcomes, WriteSucceeds(f, o) PROVE TypeOK'
    BY <2>1, <2>2 DEF WriteSucceeds, Unlock, Show, CarryOut
  <2>3. ASSUME NEW o \in Outcomes, WriteFails(f, o) PROVE TypeOK'
    <3>1. attempt[f] + 1 \in 1 .. MaxAttempts + 1
      BY <2>3, BoundAssumption DEF WriteFails
    <3>2. QED
      BY <2>1, <2>3, <3>1 DEF WriteFails, Unlock, CarryOut
  <2>4. ASSUME NEW o \in Outcomes, GiveUp(f, o) PROVE TypeOK'
    BY <2>1, <2>4, OtherFan, RequestType, CountedOnce DEF GiveUp, Unlock, CarryOut
  <2>5. QED
    BY <1>7, <2>2, <2>3, <2>4 DEF WriteEnds
<1>8. ASSUME NEW f \in Fan, BrainObserves(f) PROVE TypeOK'
  <2>1. display[f] \in SetPoint
    BY <1>8 DEF BrainObserves, ShowsBelief
  <2>2. QED
    BY <1>8, <2>1 DEF BrainObserves
<1>9. CASE SensorsLock \/ SensorsUnlock
  BY <1>9 DEF SensorsLock, SensorsUnlock, Lock, Unlock
<1>10. CASE UserInput
  <2>1. PICK fans \in SUBSET Fan, s \in SetPoint : Ask(fans, s)
    BY <1>10, UserInputAsks
  <2>2. inputs' \in 0 .. MaxInputs
    BY <2>1, BoundAssumption DEF Ask
  <2>3. QED
    BY <2>1, <2>2, RequestType DEF Ask
<1>11. CASE UNCHANGED vars
  BY <1>11 DEF vars
<1>12. QED
  BY <1>1, <1>2, <1>3, <1>4, <1>5, <1>6, <1>7, <1>8, <1>9, <1>10, <1>11 DEF Next

-----------------------------------------------------------------------------
(***************************************************************************)
(* The inductive invariant                                                 *)
(***************************************************************************)

LEMMA InitInv == Init => IInv
<1> SUFFICES ASSUME Init PROVE IInv
  OBVIOUS
<1>1. TypeOK
  BY InitType
<1>2. Exclusion /\ RequestInHand
  BY DEF Init, Exclusion, RequestInHand, Fan, Nobody
<1>3. ReadsFirst
  BY BoundAssumption DEF Init, ReadsFirst
<1>4. ShowsBelief /\ TruthfulDisplay
  BY DEF Init, ShowsBelief, TruthfulDisplay
<1>5. CorrectionBudget
  BY DEF Init, CorrectionBudget, InSignal, InHand, Signaled, Fan
<1>6. SameHeading
  BY DEF Init, SameHeading, Heading, HasInHand, Signaled, Fan
<1>7. QED
  BY <1>1, <1>2, <1>3, <1>4, <1>5, <1>6 DEF IInv

\* One transaction at a time, and a request whenever there is one to write.
LEMMA NextExclusion ==
  ASSUME IInv, [Next]_vars
  PROVE  Exclusion' /\ RequestInHand'
<1> USE DEF IInv, TypeOK, Await, Exclusion, RequestInHand, routine, shown, user, history
<1>1. ASSUME NEW f \in Fan,
             BeginRead(f) \/ ReadSucceeds(f) \/ ReadFails(f) \/ BeginRetry(f)
      PROVE  Exclusion' /\ RequestInHand'
  BY <1>1 DEF BeginRead, ReadSucceeds, ReadFails, BeginRetry, Lock, Unlock, Fan, Nobody
<1>2. ASSUME NEW f \in Fan, TakeRequest(f) \/ BeginWrite(f)
      PROVE  Exclusion' /\ RequestInHand'
  BY <1>2 DEF TakeRequest, BeginWrite, LatestRequest, Signaled, Lock, Fan, Nobody
<1>3. ASSUME NEW f \in Fan, WriteEnds(f) PROVE Exclusion' /\ RequestInHand'
  BY <1>3 DEF WriteEnds, WriteSucceeds, WriteFails, GiveUp, Unlock, Fan, Nobody
<1>4. ASSUME NEW f \in Fan, BrainObserves(f) PROVE Exclusion' /\ RequestInHand'
  BY <1>4 DEF BrainObserves
<1>5. CASE SensorsLock \/ SensorsUnlock
  BY <1>5 DEF SensorsLock, SensorsUnlock, Lock, Unlock, Fan, Nobody, Sensors
<1>6. CASE UserInput
  BY <1>6, UserInputAsks DEF Ask
<1>7. CASE UNCHANGED vars
  BY <1>7 DEF vars
<1>8. QED
  BY <1>1, <1>2, <1>3, <1>4, <1>5, <1>6, <1>7 DEF Next

\* What is shown is what is believed, and true of a fan that is not in doubt.
LEMMA NextTruthful ==
  ASSUME IInv, [Next]_vars
  PROVE  ReadsFirst' /\ ShowsBelief' /\ TruthfulDisplay'
<1> DEFINE Goal == ReadsFirst /\ ShowsBelief /\ TruthfulDisplay
<1> USE DEF IInv, TypeOK, Await, ReadsFirst, ShowsBelief, TruthfulDisplay,
            routine, shown, user, history
<1>1. ASSUME NEW f \in Fan, BeginRead(f) \/ BeginRetry(f) PROVE Goal'
  BY <1>1 DEF BeginRead, BeginRetry
<1>2. ASSUME NEW f \in Fan, ReadSucceeds(f) PROVE Goal'
  BY <1>2, UnknownAssumption DEF ReadSucceeds, Show
<1>3. ASSUME NEW f \in Fan, ReadFails(f) PROVE Goal'
  BY <1>3, BoundAssumption DEF ReadFails
<1>4. ASSUME NEW f \in Fan, TakeRequest(f) \/ BeginWrite(f) PROVE Goal'
  BY <1>4 DEF TakeRequest, BeginWrite
<1>5. ASSUME NEW f \in Fan, WriteEnds(f) PROVE Goal'
  <2>1. request[f].setPoint \in SetPoint /\ pc[f] = "writing"
    BY <1>5 DEF WriteEnds, WriteSucceeds, WriteFails, GiveUp, RequestInHand, Request
  <2>2. ASSUME NEW o \in Outcomes, WriteSucceeds(f, o) PROVE Goal'
    BY <2>1, <2>2, UnknownAssumption DEF WriteSucceeds, IsSuccess, CarryOut, Show
  <2>3. ASSUME NEW o \in Outcomes, WriteFails(f, o) PROVE Goal'
    BY <2>1, <2>3 DEF WriteFails, CarryOut
  <2>4. ASSUME NEW o \in Outcomes, GiveUp(f, o) PROVE Goal'
    BY <2>1, <2>4 DEF GiveUp, CarryOut
  <2>5. QED
    BY <1>5, <2>2, <2>3, <2>4 DEF WriteEnds
<1>6. ASSUME NEW f \in Fan, BrainObserves(f) PROVE Goal'
  BY <1>6 DEF BrainObserves
<1>7. CASE SensorsLock \/ SensorsUnlock
  BY <1>7 DEF SensorsLock, SensorsUnlock
<1>8. CASE UserInput
  BY <1>8, UserInputAsks DEF Ask
<1>9. CASE UNCHANGED vars
  BY <1>9 DEF vars
<1>10. QED
  BY <1>1, <1>2, <1>3, <1>4, <1>5, <1>6, <1>7, <1>8, <1>9 DEF Next

\* A step that is no command adds no request of a user; one that pushes a fan
\* back uses one up.
LEMMA NextBudget ==
  ASSUME IInv, [Next]_vars
  PROVE  CorrectionBudget'
<1> USE DEF IInv, TypeOK, Await, RequestInHand, routine, shown, user, history
<1>1. /\ corrections \in Nat /\ inputs \in Nat
      /\ \A f \in Fan : /\ InSignal(f) \in 0 .. 1 /\ InHand(f) \in 0 .. 1
                        /\ InSignal(f)' \in 0 .. 1 /\ InHand(f)' \in 0 .. 1
  BY BoundAssumption DEF InSignal, InHand
\* It is enough to look at the fan that takes the step, and at the other one.
<1>2. ASSUME NEW f \in Fan, inputs' = inputs, corrections' \in Nat,
             corrections' + InSignal(f)' + InHand(f)'
               <= corrections + InSignal(f) + InHand(f),
             InSignal(Other(f))' <= InSignal(Other(f)),
             InHand(Other(f))' = InHand(Other(f))
      PROVE  CorrectionBudget'
  <2>1. /\ Fan = {f, Other(f)} /\ {f, Other(f)} = {1, 2}
        /\ 1 \in Fan /\ 2 \in Fan
        /\ (f = 1 /\ Other(f) = 2) \/ (f = 2 /\ Other(f) = 1)
    BY DEF Fan, Other
  <2>2. QED
    BY <1>1, <1>2, <2>1 DEF CorrectionBudget
<1>3. ASSUME UNCHANGED <<inputs, corrections, signal>>,
             \A f \in Fan : InHand(f)' = InHand(f)
      PROVE  CorrectionBudget'
  BY <1>3 DEF CorrectionBudget, InSignal, Signaled, Fan
<1>4. ASSUME NEW f \in Fan, BeginRead(f) \/ ReadSucceeds(f) \/ ReadFails(f) \/ BeginRetry(f)
      PROVE  CorrectionBudget'
  <2>1. \A g \in Fan : InHand(g)' = InHand(g)
    BY <1>4 DEF BeginRead, ReadSucceeds, ReadFails, BeginRetry, InHand
  <2>2. QED
    BY <1>3, <1>4, <2>1 DEF BeginRead, ReadSucceeds, ReadFails, BeginRetry
<1>5. ASSUME NEW f \in Fan, TakeRequest(f) \/ BeginWrite(f) PROVE CorrectionBudget'
  <2>1. /\ InSignal(f)' + InHand(f)' <= InSignal(f) + InHand(f)
        /\ UNCHANGED <<inputs, corrections>>
    BY <1>1, <1>5 DEF TakeRequest, BeginWrite, LatestRequest, InSignal, InHand, Signaled
  <2>2. UNCHANGED <<InSignal(Other(f)), InHand(Other(f))>>
    BY <1>5, OtherFan DEF TakeRequest, BeginWrite, InSignal, InHand, Signaled
  <2>3. QED
    BY <1>1, <1>2, <2>1, <2>2, OtherFan
<1>6. ASSUME NEW f \in Fan, WriteEnds(f) PROVE CorrectionBudget'
  <2>1. /\ corrections' \in Nat /\ inputs' = inputs
        /\ UNCHANGED InHand(Other(f))
        /\ InSignal(Other(f))' <= InSignal(Other(f))
    BY <1>1, <1>6, OtherFan, RequestType, CountedOnce
       DEF WriteEnds, WriteSucceeds, WriteFails, GiveUp, InSignal, InHand, Signaled
  <2>2. corrections' + InSignal(f)' + InHand(f)' <= corrections + InSignal(f) + InHand(f)
    <3>1. InSignal(f)' = InSignal(f)
      BY <1>6, OtherFan DEF WriteEnds, WriteSucceeds, WriteFails, GiveUp, InSignal, Signaled
    <3>2. corrections' + InHand(f)' <= corrections + InHand(f)
      BY <1>1, <1>6, CountedOnce
         DEF WriteEnds, WriteSucceeds, WriteFails, GiveUp, InHand, ShouldCorrectOtherFan
    <3>3. QED
      BY <1>1, <2>1, <3>1, <3>2
  <2>3. QED
    BY <1>2, <2>1, <2>2
<1>7. ASSUME NEW f \in Fan, BrainObserves(f) PROVE CorrectionBudget'
  BY <1>3, <1>7 DEF BrainObserves, InHand
<1>8. CASE SensorsLock \/ SensorsUnlock
  BY <1>3, <1>8 DEF SensorsLock, SensorsUnlock, InHand
<1>9. CASE UserInput
  <2>1. PICK fans \in SUBSET Fan, s \in SetPoint : Ask(fans, s)
    BY <1>9, UserInputAsks
  <2>2. inputs' = inputs + 1 /\ corrections' = corrections
    BY <2>1 DEF Ask
  <2>3. \A f \in Fan : InHand(f)' = InHand(f)
    BY <2>1 DEF Ask, InHand
  <2>4. QED
    BY <1>1, <2>2, <2>3 DEF CorrectionBudget, Fan
<1>10. CASE UNCHANGED vars
  BY <1>3, <1>10 DEF vars, InHand
<1>11. QED
  BY <1>4, <1>5, <1>6, <1>7, <1>8, <1>9, <1>10 DEF Next

\* A step of one fan's routine that is no correction leaves both fans heading where they
\* did: a request that is taken, latched, retried, carried out or dropped for a newer one
\* changes its place and not what it asks for.
LEMMA HeadingStays ==
  ASSUME IInv, NEW f \in Fan, NEW o \in Outcomes,
         \/ BeginRead(f) \/ ReadSucceeds(f) \/ ReadFails(f)
         \/ TakeRequest(f) \/ BeginWrite(f) \/ BeginRetry(f)
         \/ WriteSucceeds(f, o) \/ WriteFails(f, o) \/ BrainObserves(f)
  PROVE  /\ \A g \in Fan : Heading(g)' = Heading(g)
         /\ SameHeading => SameHeading'
<1> DEFINE Doubt == \A g \in unconfirmed : current[g] = Unknown => Signaled(g) \/ HasInHand(g)
           Goal == /\ \A g \in Fan : Heading(g)' = Heading(g)
                   /\ apart' = apart
                   /\ Doubt => Doubt'
<1> SUFFICES Goal
  BY DEF SameHeading, Fan
<1> USE DEF IInv, TypeOK, Await, routine, shown, user, history, Signaled, HasInHand
<1>1. CASE BeginRead(f)
  BY <1>1 DEF BeginRead, Heading
<1>2. CASE ReadSucceeds(f)
  <2>1. /\ f \notin unconfirmed /\ (current[f] # Unknown => current[f] = actual[f])
        /\ ~HasInHand(f)
    BY <1>2 DEF ReadSucceeds, ReadsFirst, ShowsBelief, TruthfulDisplay
  <2>2. /\ current' = current \/ current' = [current EXCEPT ![f] = actual[f]]
        /\ pc' = [pc EXCEPT ![f] = "waiting"]
        /\ UNCHANGED <<signal, request, actual, apart, unconfirmed>>
    BY <1>2 DEF ReadSucceeds
  <2>3. \A g \in Fan : Heading(g)' = Heading(g)
    BY <2>1, <2>2 DEF Heading
  <2>4. Doubt => Doubt'
    BY <2>1, <2>2
  <2> QED
    BY <2>2, <2>3, <2>4
<1>3. CASE ReadFails(f)
  BY <1>3 DEF ReadFails, Heading
<1>4. CASE TakeRequest(f)
  <2>1. signal[f].setPoint \in SetPoint
    BY <1>4 DEF TakeRequest, Request
  <2> QED
    BY <1>4, <2>1, UnknownAssumption DEF TakeRequest, IsSameState, Heading
<1>5. CASE BeginWrite(f)
  BY <1>5 DEF BeginWrite, LatestRequest, Heading
<1>6. CASE BeginRetry(f)
  BY <1>6 DEF BeginRetry, Heading
<1>7. CASE WriteSucceeds(f, o)
  <2>1. request[f].setPoint \in SetPoint
    BY <1>7 DEF WriteSucceeds, RequestInHand, Request
  <2> QED
    BY <1>7, <2>1, UnknownAssumption DEF WriteSucceeds, CarryOut, Heading
<1>8. CASE WriteFails(f, o)
  BY <1>8 DEF WriteFails, CarryOut, Heading
<1>9. CASE BrainObserves(f)
  BY <1>9 DEF BrainObserves, Heading
<1> QED
  BY <1>1, <1>2, <1>3, <1>4, <1>5, <1>6, <1>7, <1>8, <1>9

\* Every step keeps fans that were not driven apart heading for one speed.
LEMMA NextHeading ==
  ASSUME IInv, [Next]_vars
  PROVE  SameHeading'
<1> USE DEF IInv, TypeOK, Await, routine, shown, user, history
<1>1. ASSUME NEW f \in Fan,
             \/ BeginRead(f) \/ ReadSucceeds(f) \/ ReadFails(f)
             \/ TakeRequest(f) \/ BeginWrite(f) \/ BeginRetry(f) \/ BrainObserves(f)
      PROVE  SameHeading'
  BY <1>1, HeadingStays, OutcomesAssumption
<1>2. ASSUME NEW f \in Fan, NEW o \in Outcomes, GiveUp(f, o) PROVE SameHeading'
  <2> SUFFICES ASSUME ~apart' PROVE SameHeading'
    BY DEF SameHeading
  <2>1. /\ ~apart /\ current[f] # Unknown /\ request[f].origin # "other_fan"
        /\ Signaled(f) => signal[f].setPoint = current[f]
    BY <1>2 DEF GiveUp, LeavesApart
  <2>2. ShouldCorrectOtherFan(request[f])
    BY <1>2, <2>1 DEF GiveUp, RequestInHand, Request, ShouldCorrectOtherFan
  <2>3. /\ signal' = [signal EXCEPT ![Other(f)] = FromOtherFan(current[f])]
        /\ pc' = [pc EXCEPT ![f] = "waiting"]
        /\ unconfirmed' \subseteq unconfirmed \cup {f}
        /\ UNCHANGED <<request, current>>
    BY <1>2, <2>1, <2>2 DEF GiveUp
  <2>4. FromOtherFan(current[f]) \in Request /\ FromOtherFan(current[f]).setPoint = current[f]
    BY <2>1, RequestType
  <2>5. Signaled(Other(f))' /\ Heading(Other(f))' = current[f]
    BY <2>3, <2>4, OtherFan, NoRequestAssumption DEF Heading, Signaled
  <2>6. Heading(f)' = current[f]
    BY <2>1, <2>3, OtherFan DEF Heading, Signaled, HasInHand
  <2>7. \A g \in unconfirmed' : current'[g] = Unknown => Signaled(g)' \/ HasInHand(g)'
    BY <2>1, <2>3, <2>5, OtherFan DEF SameHeading, Signaled, HasInHand, Fan, Other
  <2>8. {f, Other(f)} = {1, 2}
    BY DEF Fan, Other
  <2> QED
    BY <2>5, <2>6, <2>7, <2>8 DEF SameHeading
<1>3. ASSUME NEW f \in Fan, WriteEnds(f) PROVE SameHeading'
  BY <1>2, <1>3, HeadingStays DEF WriteEnds
<1>4. CASE SensorsLock \/ SensorsUnlock \/ UNCHANGED vars
  BY <1>4 DEF SensorsLock, SensorsUnlock, vars, SameHeading, Heading, HasInHand, Signaled
<1>5. CASE UserInput
  <2>1. PICK fans \in SUBSET Fan, s \in SetPoint : Ask(fans, s)
    BY <1>5, UserInputAsks
  <2>2. CASE fans = Fan
    <3>1. \A f \in Fan : Signaled(f)' /\ Heading(f)' = s
      BY <2>1, <2>2, RequestType, NoRequestAssumption DEF Ask, Heading, Signaled
    <3>2. unconfirmed' \subseteq Fan /\ 1 \in Fan /\ 2 \in Fan
      BY <2>1 DEF Ask, Fan
    <3> QED
      BY <3>1, <3>2 DEF SameHeading
  <2>3. CASE fans # Fan
    BY <2>1, <2>3 DEF Ask, SameHeading
  <2> QED
    BY <2>2, <2>3
<1> QED
  BY <1>1, <1>3, <1>4, <1>5 DEF Next

\* The inductive invariant holds, for every number of attempts and commands.
THEOREM Invariance == Spec => []IInv
<1>1. IInv /\ [Next]_vars => IInv'
  BY NextType, NextExclusion, NextTruthful, NextBudget, NextHeading DEF IInv
<1>2. QED
  BY InitInv, <1>1, PTL DEF Spec

\* Every variable keeps its type.
THEOREM TypeCorrect == Spec => []TypeOK
<1>1. IInv => TypeOK
  BY DEF IInv
<1>2. QED
  BY Invariance, <1>1, PTL

\* A command is answered by two corrections at most, so the fans cannot go on
\* pushing each other back.
THEOREM CorrectionsAreBounded == Spec => []AtMostTwoCorrections
<1>1. IInv => AtMostTwoCorrections
  <2>1. ASSUME TypeOK
        PROVE  \A f \in Fan : InSignal(f) \in 0 .. 1 /\ InHand(f) \in 0 .. 1
    BY DEF InSignal, InHand
  <2>2. QED
    BY <2>1 DEF IInv, TypeOK, CorrectionBudget, AtMostTwoCorrections, Fan
<1>2. QED
  BY Invariance, <1>1, PTL

-----------------------------------------------------------------------------
(***************************************************************************)
(* The brain's memory                                                      *)
(***************************************************************************)

\* A confirmed running speed the brain has seen is the one "on" restores.
THEOREM RestoresSpeed == Spec => []RestoresRunningSpeed
<1>1. Init => RestoresRunningSpeed
  BY DEF Init, RestoresRunningSpeed
<1>2. IInv /\ RestoresRunningSpeed /\ [Next]_vars => RestoresRunningSpeed'
  <2> SUFFICES ASSUME IInv, RestoresRunningSpeed, [Next]_vars
               PROVE  RestoresRunningSpeed'
    OBVIOUS
  <2> USE DEF IInv, TypeOK, RestoresRunningSpeed, routine, shown, user, history
  <2>1. ASSUME UNCHANGED <<shown, last>> PROVE RestoresRunningSpeed'
    BY <2>1
  <2>2. ASSUME NEW f \in Fan,
               \/ BeginRead(f) \/ ReadFails(f) \/ TakeRequest(f)
               \/ BeginWrite(f) \/ BeginRetry(f)
        PROVE  RestoresRunningSpeed'
    BY <2>1, <2>2 DEF BeginRead, ReadFails, TakeRequest, BeginWrite, BeginRetry
  <2>3. ASSUME NEW f \in Fan, ReadSucceeds(f) PROVE RestoresRunningSpeed'
    BY <2>3 DEF ReadSucceeds, Show
  <2>4. ASSUME NEW f \in Fan, WriteEnds(f) PROVE RestoresRunningSpeed'
    BY <2>4 DEF WriteEnds, WriteSucceeds, WriteFails, GiveUp, Show
  <2>5. ASSUME NEW f \in Fan, BrainObserves(f) PROVE RestoresRunningSpeed'
    BY <2>5 DEF BrainObserves
  <2>6. CASE SensorsLock \/ SensorsUnlock
    BY <2>1, <2>6 DEF SensorsLock, SensorsUnlock
  <2>7. CASE UserInput
    BY <2>1, <2>7, UserInputAsks DEF Ask
  <2>8. CASE UNCHANGED vars
    BY <2>1, <2>8 DEF vars
  <2>9. QED
    BY <2>2, <2>3, <2>4, <2>5, <2>6, <2>7, <2>8 DEF Next
<1>3. QED
  BY Invariance, <1>1, <1>2, PTL DEF Spec

-----------------------------------------------------------------------------
(***************************************************************************)
(* FanControl implements ConfirmedSpeed                                    *)
(***************************************************************************)

LEMMA ConfirmedStep ==
  ASSUME IInv, [Next]_vars
  PROVE  [Confirmed!Next]_(Confirmed!vars)
<1> USE DEF IInv, TypeOK, routine, shown, user, history
<1>1. ASSUME UNCHANGED <<actual, display, unconfirmed>>
      PROVE  UNCHANGED Confirmed!vars
  BY <1>1 DEF Confirmed!vars
<1>2. ASSUME NEW f \in Fan,
             \/ BeginRead(f) \/ ReadFails(f) \/ TakeRequest(f) \/ BeginWrite(f)
             \/ BeginRetry(f) \/ BrainObserves(f)
      PROVE  UNCHANGED Confirmed!vars
  BY <1>1, <1>2
     DEF BeginRead, ReadFails, TakeRequest, BeginWrite, BeginRetry, BrainObserves
<1>3. ASSUME NEW f \in Fan, ReadSucceeds(f) PROVE [Confirmed!Next]_(Confirmed!vars)
  <2>1. CASE actual[f] \in SetPoint
    <3>1. Confirmed!Confirm(f, actual[f])
      BY <1>3, <2>1 DEF ReadSucceeds, Show, ReadsFirst, Confirmed!Confirm
    <3>2. QED
      BY <2>1, <3>1 DEF Confirmed!Next
  <2>2. CASE actual[f] \notin SetPoint
    BY <1>1, <1>3, <2>2 DEF ReadSucceeds
  <2>3. QED
    BY <2>1, <2>2
<1>4. ASSUME NEW f \in Fan, WriteEnds(f) PROVE [Confirmed!Next]_(Confirmed!vars)
  <2> DEFINE s == request[f].setPoint
  <2>1. s \in SetPoint
    BY <1>4 DEF WriteEnds, WriteSucceeds, WriteFails, GiveUp, RequestInHand, Request
  <2>2. ASSUME NEW o \in Outcomes, WriteSucceeds(f, o) PROVE Confirmed!Confirm(f, s)
    BY <2>1, <2>2, OutcomesAssumption
       DEF WriteSucceeds, IsSuccess, CarryOut, Show, Confirmed!Confirm
  <2>3. ASSUME NEW o \in Outcomes, WriteFails(f, o) \/ GiveUp(f, o)
        PROVE  Confirmed!ActSilently(f, s) \/ UNCHANGED Confirmed!vars
    BY <1>1, <2>3 DEF WriteFails, GiveUp, CarryOut, Confirmed!ActSilently
  <2>4. QED
    BY <1>4, <2>1, <2>2, <2>3 DEF WriteEnds, Confirmed!Next
<1>5. CASE SensorsLock \/ SensorsUnlock
  BY <1>1, <1>5 DEF SensorsLock, SensorsUnlock
<1>6. CASE UserInput
  BY <1>1, <1>6, UserInputAsks DEF Ask
<1>7. CASE UNCHANGED vars
  BY <1>1, <1>7 DEF vars
<1>8. QED
  BY <1>2, <1>3, <1>4, <1>5, <1>6, <1>7 DEF Next

\* A shown speed only ever changes to the speed the fan is running at.
THEOREM Refinement == Spec => ShowsConfirmedSpeed
<1>1. Init => Confirmed!Init
  BY DEF Init, Confirmed!Init
<1>2. QED
  BY Invariance, ConfirmedStep, <1>1, PTL DEF Spec, ShowsConfirmedSpeed, Confirmed!Spec

-----------------------------------------------------------------------------
(***************************************************************************)
(* The latest request                                                      *)
(***************************************************************************)

\* As long as no write fails, the latest command for a fan is in its signal, or
\* in hand, or carried out; and what a routine believes of its fan is true.
Underway ==
  \A f \in Fan :
    /\ pc[f] # "retry"
    /\ pc[f] \in {"locking", "writing"} => attempt[f] = 1
    /\ current[f] # Unknown => current[f] = actual[f]
    /\ Signaled(f) => signal[f].setPoint = wanted[f]
    /\ ~Signaled(f) /\ wanted[f] # Unknown =>
         \/ pc[f] \in {"locking", "writing"} /\ request[f].setPoint = wanted[f]
         \/ pc[f] = "waiting" /\ current[f] = wanted[f]

LEMMA NextUnderway ==
  ASSUME IInv, ~failed => Underway, [Next]_vars, ~failed'
  PROVE  Underway'
<1> USE DEF IInv, TypeOK, Await, Underway, routine, shown, user, history, Signaled
<1>1. ASSUME NEW f \in Fan, BeginRead(f) \/ BrainObserves(f) PROVE Underway'
  BY <1>1 DEF BeginRead, BrainObserves
<1>2. ASSUME NEW f \in Fan, ReadSucceeds(f) PROVE Underway'
  BY <1>2 DEF ReadSucceeds
<1>3. ASSUME NEW f \in Fan, ReadFails(f) PROVE Underway'
  BY <1>3 DEF ReadFails
<1>4. ASSUME NEW f \in Fan, TakeRequest(f) PROVE Underway'
  BY <1>4 DEF TakeRequest, IsSameState
<1>5. ASSUME NEW f \in Fan, BeginWrite(f) \/ BeginRetry(f) PROVE Underway'
  BY <1>5 DEF BeginWrite, BeginRetry, LatestRequest
<1>6. ASSUME NEW f \in Fan, WriteEnds(f) PROVE Underway'
  <2>1. PICK o \in Outcomes : WriteSucceeds(f, o)
    BY <1>6 DEF WriteEnds, WriteFails, GiveUp
  <2>2. request[f].setPoint \in SetPoint /\ o # "lost"
    BY <2>1 DEF WriteSucceeds, IsSuccess, RequestInHand, Request
  <2>3. QED
    BY <2>1, <2>2 DEF WriteSucceeds, CarryOut
<1>7. CASE SensorsLock \/ SensorsUnlock
  BY <1>7 DEF SensorsLock, SensorsUnlock
<1>8. CASE UserInput
  <2>1. PICK fans \in SUBSET Fan, s \in SetPoint : Ask(fans, s)
    BY <1>8, UserInputAsks
  <2>2. QED
    BY <2>1, RequestType, NoRequestAssumption DEF Ask
<1>9. CASE UNCHANGED vars
  BY <1>9 DEF vars
<1>10. QED
  BY <1>1, <1>2, <1>3, <1>4, <1>5, <1>6, <1>7, <1>8, <1>9 DEF Next

\* As long as no write fails, a fan whose routine rests is at the speed asked for
\* last, however commands, reads, writes and the waits for the lock interleave.
THEOREM LatestRequestIsCarriedOut == Spec => []LatestRequestWins
<1> DEFINE Inv == ~failed => Underway
<1>1. Init => Inv
  BY UnknownAssumption DEF Init, Underway, Signaled
<1>2. IInv /\ Inv /\ [Next]_vars => Inv'
  BY NextUnderway
<1>3. IInv /\ Inv => LatestRequestWins
  BY DEF IInv, ShowsBelief, Underway, LatestRequestWins, Idle
<1> HIDE DEF Inv
<1>4. QED
  BY Invariance, <1>1, <1>2, <1>3, PTL DEF Spec
\* Whatever writes fail, for any number of attempts and commands: fans that were at one
\* speed, were only asked together and were pushed back wherever one of them failed are
\* at one speed at rest, unless one of them did what was not acknowledged.
THEOREM FansStayInSync == Spec => []StaysInSync
<1>1. IInv => StaysInSync
  <2> SUFFICES ASSUME IInv, ~apart, unconfirmed = {}, \A f \in Fan : Idle(f)
               PROVE  actual[1] = actual[2]
    BY DEF StaysInSync
  <2>1. ASSUME NEW f \in Fan PROVE Heading(f) = actual[f]
    BY UnknownAssumption
       DEF IInv, TypeOK, Idle, Heading, HasInHand, ShowsBelief, TruthfulDisplay
  <2> QED
    BY <2>1 DEF IInv, SameHeading, Fan
<1> QED
  BY Invariance, <1>1, PTL

=============================================================================
