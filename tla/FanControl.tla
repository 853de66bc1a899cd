----------------------------- MODULE FanControl -----------------------------
(***************************************************************************)
(* The speed control of the two fans: the two fan_control_routine tasks,   *)
(* the latest-wins signals that feed them, the mutex around the fans'      *)
(* Modbus client, the button and the Home Assistant commands that ask for  *)
(* a speed, and the speeds the fans are really running at.                 *)
(*                                                                         *)
(* The executor is cooperative: a task runs undisturbed from one await to  *)
(* the next, and one action is one such stretch.  A Modbus write is the    *)
(* action that ends it; requests may arrive at any time before.            *)
(***************************************************************************)
EXTENDS Integers

CONSTANTS
  SetPoint,           \* the set points asked for; zero is "off"
  LOW, MEDIUM, HIGH,  \* the speeds the button rotates through
  Running,            \* what the fans may be set to when the controller boots
  Unknown,            \* a speed nobody has confirmed
  AboveMax,           \* a register value that is no set point
  NoRequest,          \* an empty signal
  MaxAttempts,        \* MAX_ATTEMPTS
  Outcomes,           \* what may become of a transaction on the bus
  MaxInputs           \* bound: how many commands the users give

ASSUME SetPointAssumption ==
  /\ SetPoint \subseteq Nat
  /\ {0, LOW, MEDIUM, HIGH} \subseteq SetPoint
  /\ 0 < LOW /\ LOW < MEDIUM /\ MEDIUM < HIGH

ASSUME RunningAssumption == Running \subseteq SetPoint \cup {AboveMax}

ASSUME UnknownAssumption == Unknown \notin SetPoint

ASSUME BoundAssumption == MaxAttempts \in Nat \ {0} /\ MaxInputs \in Nat

ASSUME OutcomesAssumption ==
  /\ Outcomes \subseteq {"acknowledged", "unacknowledged", "lost"}
  /\ Outcomes # {}

Fan == {1, 2}

Other(f) == 3 - f

\* Who may hold the mutex: a fan's routine, one of the sensor routines, nobody.
Nobody == 0
Sensors == 3

Request == [origin : {"user", "other_fan"}, setPoint : SetPoint]

ASSUME NoRequestAssumption == NoRequest \notin Request

FromUser(s) == [origin |-> "user", setPoint |-> s]

FromOtherFan(s) == [origin |-> "other_fan", setPoint |-> s]

VARIABLES
  signal,       \* per fan, the Signal its routine waits on
  pc,           \* per fan, the await its routine is at
  attempt,      \* per fan, the attempt its routine is at
  request,      \* per fan, the request its routine has in hand
  current,      \* per fan, its routine's current_set_point
  display,      \* per fan, the Watch the displays, button and brain read
  holder,       \* who holds the mutex of the Modbus client
  last,         \* per fan, the running speed the MQTT brain remembers
  unseen,       \* the fans whose display changed since the brain looked
  actual,       \* per fan, the speed it is really running at
  inputs,       \* how many commands the users have given
  wanted,       \* history: per fan, the speed a user asked for last
  unconfirmed,  \* history: fans that did what was not acknowledged in time
  corrections,  \* history: how often a fan has been pushed back
  failed,       \* history: whether any write has failed
  apart         \* history: whether the fans may have been driven apart

routine == <<pc, attempt, request, current>>
shown   == <<display, unseen>>
user    == <<inputs, wanted>>
history == <<unconfirmed, corrections, failed, apart>>
vars    == <<signal, routine, shown, holder, last, actual, user, history>>

\* Awaits of a fan_control_routine.  "start" and "retry" include the back-off
\* before the lock is asked for: it may take any time, and so may the lock.
Await == {"start", "reading", "waiting", "locking", "writing", "retry"}

TypeOK ==
  /\ signal \in [Fan -> Request \cup {NoRequest}]
  /\ pc \in [Fan -> Await]
  /\ attempt \in [Fan -> 1 .. MaxAttempts + 1]
  /\ request \in [Fan -> Request \cup {NoRequest}]
  /\ current \in [Fan -> SetPoint \cup {Unknown}]
  /\ display \in [Fan -> SetPoint \cup {Unknown}]
  /\ holder \in Fan \cup {Nobody, Sensors}
  /\ last \in [Fan -> SetPoint]
  /\ unseen \subseteq Fan
  /\ actual \in [Fan -> SetPoint \cup {AboveMax}]
  /\ inputs \in 0 .. MaxInputs
  /\ wanted \in [Fan -> SetPoint \cup {Unknown}]
  /\ unconfirmed \subseteq Fan
  /\ corrections \in Nat
  /\ failed \in BOOLEAN
  /\ apart \in BOOLEAN

\* The fans kept running while the controller restarted, at any speed.
Init ==
  /\ signal = [f \in Fan |-> NoRequest]
  /\ pc = [f \in Fan |-> "start"]
  /\ attempt = [f \in Fan |-> 1]
  /\ request = [f \in Fan |-> NoRequest]
  /\ current = [f \in Fan |-> Unknown]
  /\ display = [f \in Fan |-> Unknown]
  /\ holder = Nobody
  /\ last = [f \in Fan |-> 0]
  /\ unseen = {}
  /\ actual \in [Fan -> Running]
  /\ inputs = 0
  /\ wanted = [f \in Fan |-> Unknown]
  /\ unconfirmed = {}
  /\ corrections = 0
  /\ failed = FALSE
  /\ apart = (actual[1] # actual[2])

-----------------------------------------------------------------------------
(***************************************************************************)
(* What the routines are built from                                        *)
(***************************************************************************)

LockAtOnce(who) == holder' = who  \* mutated
Lock(who) == holder = Nobody /\ holder' = who

Unlock(who) == holder = who /\ holder' = Nobody

Signaled(f) == signal[f] # NoRequest

\* Only a user's request that failed pushes the other fan back.
AnyRequestCorrects(r) == TRUE  \* mutated
NeverCorrects(r) == FALSE  \* mutated
ShouldCorrectOtherFan(r) == r.origin = "user"

\* The Watch keeps the latest value; a receiver only learns that it changed.
Show(f, s) ==
  /\ display' = [display EXCEPT ![f] = s]
  /\ unseen' = unseen \cup {f}

\* An answer that arrived counts only while there are attempts left.
AnswerNeverMissed(outcome, n) == n <= MaxAttempts  \* mutated
IsSuccess(outcome, n) == outcome = "acknowledged" /\ n <= MaxAttempts

\* What the fan itself does with a write request: it carries it out unless
\* the request never reached it.
CarryOut(f, s, outcome) ==
  actual' = IF outcome = "lost" THEN actual ELSE [actual EXCEPT ![f] = s]

\* Bound: corrections are counted up to one more than there should ever be.
Counted(n) == IF n <= 2 * MaxInputs THEN n + 1 ELSE n

-----------------------------------------------------------------------------
(***************************************************************************)
(* read_set_point, and the first lines of fan_control_routine              *)
(***************************************************************************)

BeginRead(f) ==
  /\ pc[f] = "start"
  /\ Lock(f)
  /\ pc' = [pc EXCEPT ![f] = "reading"]
  /\ UNCHANGED <<signal, attempt, request, current, shown, last, actual, user,
                 history>>

ReadSucceeds(f) ==
  /\ pc[f] = "reading"
  /\ "acknowledged" \in Outcomes
  /\ Unlock(f)
  /\ pc' = [pc EXCEPT ![f] = "waiting"]
  /\ IF actual[f] \in SetPoint
     THEN current' = [current EXCEPT ![f] = actual[f]] /\ Show(f, actual[f])
     ELSE UNCHANGED <<current, shown>>
  /\ UNCHANGED <<signal, attempt, request, last, actual, user, history>>

\* A set point requested meanwhile is worth more than the one being read.
ReadFails(f) ==
  /\ pc[f] = "reading"
  /\ Outcomes \ {"acknowledged"} # {}
  /\ Unlock(f)
  /\ IF Signaled(f) \/ attempt[f] = MaxAttempts
     THEN pc' = [pc EXCEPT ![f] = "waiting"] /\ UNCHANGED attempt
     ELSE /\ pc' = [pc EXCEPT ![f] = "start"]
          /\ attempt' = [attempt EXCEPT ![f] = @ + 1]
  /\ UNCHANGED <<signal, request, current, shown, last, actual, user,
                 history>>

-----------------------------------------------------------------------------
(***************************************************************************)
(* The signal loop of fan_control_routine                                  *)
(***************************************************************************)

IsSameState(f, r) == current[f] = r.setPoint

TakeRequest(f) ==
  /\ pc[f] = "waiting"
  /\ Signaled(f)
  /\ signal' = [signal EXCEPT ![f] = NoRequest]
  /\ request' = [request EXCEPT ![f] = signal[f]]
  /\ attempt' = [attempt EXCEPT ![f] = 1]
  /\ pc' = [pc EXCEPT ![f] =
              IF IsSameState(f, signal[f]) THEN "waiting" ELSE "locking"]
  /\ UNCHANGED <<current, shown, holder, last, actual, user, history>>

\* A request that came in while the lock was awaited replaces the one in hand.
KeepInHand(f) == request[f]  \* mutated
LatestRequest(f) == IF Signaled(f) THEN signal[f] ELSE request[f]

BeginWrite(f) ==
  /\ pc[f] = "locking"
  /\ Lock(f)
  /\ pc' = [pc EXCEPT ![f] = "writing"]
  /\ request' = [request EXCEPT ![f] = LatestRequest(f)]
  /\ signal' = [signal EXCEPT ![f] = NoRequest]
  /\ UNCHANGED <<attempt, current, shown, last, actual, user, history>>

\* The retry waits for the lock again, but does not look for a newer request.
BeginRetry(f) ==
  /\ pc[f] = "retry"
  /\ Lock(f)
  /\ pc' = [pc EXCEPT ![f] = "writing"]
  /\ UNCHANGED <<signal, attempt, request, current, shown, last, actual, user,
                 history>>

WriteSucceeds(f, outcome) ==
  LET s == request[f].setPoint IN
  /\ pc[f] = "writing"
  /\ IsSuccess(outcome, attempt[f])
  /\ Unlock(f)
  /\ CarryOut(f, s, outcome)
  /\ IF display[f] = s THEN UNCHANGED shown ELSE Show(f, s)
  /\ current' = [current EXCEPT ![f] = s]
  /\ pc' = [pc EXCEPT ![f] = "waiting"]
  /\ unconfirmed' = unconfirmed \ {f}
  /\ UNCHANGED <<signal, attempt, request, last, user, corrections, failed, apart>>

\* A newer request makes the routine drop the one it was retrying.
WriteFails(f, outcome) ==
  /\ pc[f] = "writing"
  /\ attempt[f] <= MaxAttempts
  /\ outcome # "acknowledged"
  /\ Unlock(f)
  /\ CarryOut(f, request[f].setPoint, outcome)
  /\ attempt' = [attempt EXCEPT ![f] = @ + 1]
  /\ pc' = [pc EXCEPT ![f] = IF Signaled(f) THEN "waiting" ELSE "retry"]
  /\ unconfirmed' = IF outcome = "lost" THEN unconfirmed ELSE unconfirmed \cup {f}
  /\ failed' = TRUE
  /\ UNCHANGED <<signal, request, current, shown, last, user, corrections, apart>>

\* The fans stay apart when it is a correction that failed, when there is no speed to
\* push the other fan back to, and when this fan is about to take another speed itself:
\* a newer command, or a correction that crosses this one.
LeavesApart(f) ==
  \/ request[f].origin = "other_fan"
  \/ current[f] = Unknown
  \/ Signaled(f) /\ signal[f].setPoint # current[f]

\* The loop's condition writes once more before it looks at the attempt number,
\* and whatever became of that write the request has failed.
GiveUp(f, outcome) ==
  /\ pc[f] = "writing"
  /\ attempt[f] > MaxAttempts
  /\ Unlock(f)
  /\ CarryOut(f, request[f].setPoint, outcome)
  /\ pc' = [pc EXCEPT ![f] = "waiting"]
  /\ IF ShouldCorrectOtherFan(request[f]) /\ current[f] # Unknown
     THEN /\ signal' = [signal EXCEPT ![Other(f)] = FromOtherFan(current[f])]
          /\ corrections' = Counted(corrections)
     ELSE UNCHANGED <<signal, corrections>>
  /\ unconfirmed' = IF outcome = "lost" THEN unconfirmed ELSE unconfirmed \cup {f}
  /\ failed' = TRUE
  /\ apart' = (apart \/ LeavesApart(f))
  /\ UNCHANGED <<attempt, request, current, shown, last, user>>

\* The sensor routines lock the same client for their own transactions.
SensorsLock ==
  /\ Lock(Sensors)
  /\ UNCHANGED <<signal, routine, shown, last, actual, user, history>>

SensorsUnlock ==
  /\ Unlock(Sensors)
  /\ UNCHANGED <<signal, routine, shown, last, actual, user, history>>

-----------------------------------------------------------------------------
(***************************************************************************)
(* Who asks for a speed                                                    *)
(***************************************************************************)

\* A user asks for the speed s of the fans in the set fans.
Ask(fans, s) ==
  /\ inputs < MaxInputs
  /\ inputs' = inputs + 1
  /\ signal' = [f \in Fan |-> IF f \in fans THEN FromUser(s) ELSE signal[f]]
  /\ wanted' = [f \in Fan |-> IF f \in fans THEN s ELSE wanted[f]]
  /\ apart' = (apart \/ fans # Fan)
  /\ UNCHANGED <<routine, shown, holder, last, actual, unconfirmed, corrections, failed>>

\* The button advances from the slower of the two confirmed speeds.
ConfirmedOrZero(f) == IF display[f] = Unknown THEN 0 ELSE display[f]

NextSetting(s) ==
  CASE s = 0                  -> LOW
    [] 0 < s /\ s <= LOW      -> MEDIUM
    [] LOW < s /\ s <= MEDIUM -> HIGH
    [] s > MEDIUM             -> 0

PressButton ==
  LET a == ConfirmedOrZero(1)
      b == ConfirmedOrZero(2)
  IN  Ask(Fan, NextSetting(IF a <= b THEN a ELSE b))

\* Home Assistant sets one fan's speed; synchronization sets the other's too.
SetSpeed(fan, s) == Ask({fan, Other(fan)}, s)

\* Home Assistant turns one fan on or off; the other is left as it is.
TurnOn(fan) == Ask({fan}, last[fan])

TurnOff(fan) == Ask({fan}, 0)

\* The brain learns a confirmed speed, and remembers it unless it is zero.
ObservesOther(f) ==  \* mutated
  /\ f \in unseen
  /\ unseen' = unseen \ {f}
  /\ last' = IF display[f] = 0 THEN last ELSE [last EXCEPT ![Other(f)] = display[f]]
  /\ UNCHANGED <<signal, routine, display, holder, actual, user, history>>
BrainObserves(f) ==
  /\ f \in unseen
  /\ unseen' = unseen \ {f}
  /\ last' = IF display[f] = 0 THEN last ELSE [last EXCEPT ![f] = display[f]]
  /\ UNCHANGED <<signal, routine, display, holder, actual, user, history>>

UserInput ==
  \/ PressButton
  \/ \E f \in Fan : TurnOn(f) \/ TurnOff(f)
  \/ \E f \in Fan, s \in SetPoint : SetSpeed(f, s)

WriteEnds(f) ==
  \E outcome \in Outcomes :
    WriteSucceeds(f, outcome) \/ WriteFails(f, outcome) \/ GiveUp(f, outcome)

Next ==
  \/ \E f \in Fan :
       \/ BeginRead(f) \/ ReadSucceeds(f) \/ ReadFails(f)
       \/ TakeRequest(f) \/ BeginWrite(f) \/ BeginRetry(f) \/ WriteEnds(f)
       \/ BrainObserves(f)
  \/ SensorsLock \/ SensorsUnlock
  \/ UserInput

Spec == Init /\ [][Next]_vars

\* Every transaction ends: it has a timeout.  A task that waits for the lock
\* is polled whenever it is released, and every holder waits for at least the
\* first back-off, or for a request, before it asks again; users owe nothing.
Fairness ==
  /\ \A f \in Fan :
       /\ WF_vars(ReadSucceeds(f) \/ ReadFails(f))
       /\ WF_vars(TakeRequest(f))
       /\ WF_vars(WriteEnds(f))
       /\ SF_vars(BeginRead(f)) /\ SF_vars(BeginWrite(f)) /\ SF_vars(BeginRetry(f))
  /\ WF_vars(SensorsUnlock)

FairSpec == Spec /\ Fairness

-----------------------------------------------------------------------------
(***************************************************************************)
(* Properties                                                              *)
(***************************************************************************)

\* A fan's routine has nothing to do and nothing to look at.
Idle(f) == pc[f] = "waiting" /\ ~Signaled(f)

\* The mutex is held by exactly the routine that is in a transaction.
Exclusion == \A f \in Fan : pc[f] \in {"reading", "writing"} <=> holder = f

\* From the moment it leaves the signal until it is done, a request is there.
RequestInHand == \A f \in Fan : pc[f] \in {"locking", "writing", "retry"} => request[f] \in Request

\* Until it has read its fan, or given up, a routine has attempts left and its
\* fan has not been written to.
ReadsFirst ==
  \A f \in Fan :
    pc[f] \in {"start", "reading"} => attempt[f] <= MaxAttempts /\ f \notin unconfirmed

\* A routine shows what it believes; only a shown speed is news to the brain.
ShowsBelief == display = current /\ (\A f \in unseen : display[f] # Unknown)

\* A speed that is shown is the speed the fan runs at, unless the fan carried
\* out a write whose answer was lost or came on the attempt after the last.
TruthfulDisplay ==
  \A f \in Fan : display[f] # Unknown /\ f \notin unconfirmed => display[f] = actual[f]

\* How many user requests of fan f can still turn into a correction.
InSignal(f) == IF Signaled(f) /\ signal[f].origin = "user" THEN 1 ELSE 0

InHand(f) ==
  IF /\ pc[f] \in {"locking", "writing", "retry"}
     /\ request[f].origin = "user"
  THEN 1 ELSE 0

CorrectionBudget ==
  corrections + InSignal(1) + InHand(1) + InSignal(2) + InHand(2) <= 2 * inputs

\* A command of a user makes the fans push each other back at most twice, once
\* for each fan that failed: a correction never begets a correction, however
\* the failures, retries and further commands interleave.
AtMostTwoCorrections == corrections <= 2 * inputs

\* Once the brain has seen the latest confirmed speed of a fan and that speed
\* is not zero, "on" restores exactly that speed of exactly that fan.
RestoresRunningSpeed ==
  \A f \in Fan :
    f \notin unseen /\ display[f] \notin {0, Unknown} => last[f] = display[f]

\* A request leaves the signal for the routine's hands and, when it succeeds, becomes
\* what the routine believes; until it has read its fan, the fan runs as it did.
HasInHand(f) == pc[f] \in {"locking", "writing", "retry"}

Heading(f) ==
  CASE Signaled(f)                   -> signal[f].setPoint
    [] ~Signaled(f) /\ HasInHand(f)  -> request[f].setPoint
    [] ~Signaled(f) /\ ~HasInHand(f) -> IF current[f] = Unknown THEN actual[f] ELSE current[f]

\* Fans that may not have been driven apart are heading for one speed: where they
\* will be once they have carried out what is waiting for them.
SameHeading ==
  ~apart =>
    /\ Heading(1) = Heading(2)
    /\ \A f \in unconfirmed : current[f] = Unknown => Signaled(f) \/ HasInHand(f)

\* The inductive invariant behind the ones above.
IInv ==
  /\ TypeOK
  /\ Exclusion
  /\ RequestInHand
  /\ ReadsFirst
  /\ ShowsBelief
  /\ TruthfulDisplay
  /\ CorrectionBudget
  /\ SameHeading

\* As long as no write fails: a routine that has come to rest left its fan at
\* the speed the users asked for last, and shows it, whatever arrived while it
\* read the fan, waited for the lock or wrote.
LatestRequestWins ==
  ~failed =>
    \A f \in Fan :
      Idle(f) /\ wanted[f] # Unknown => actual[f] = wanted[f] /\ display[f] = wanted[f]

\* "Set other fan to current fan speed to avoid them getting out of sync": fans that
\* ran at one speed and were only ever asked together run at one speed whenever the
\* routines are at rest, whichever writes failed, unless a fan was left behind or did
\* what was not acknowledged.
StaysInSync ==
  ~apart /\ unconfirmed = {} /\ (\A f \in Fan : Idle(f)) => actual[1] = actual[2]

\* The controller's promise about the speeds it shows, as a refinement.
Confirmed ==
  INSTANCE ConfirmedSpeed
  WITH Fans <- Fan, Speeds <- SetPoint, running <- actual,
       confirmed <- display, doubtful <- unconfirmed

ShowsConfirmedSpeed == Confirmed!Spec

\* Even on a bus that never works again, the routines stop signalling each
\* other and come to rest once the users stop asking.
Settles == <>[](\A f \in Fan : Idle(f))

\* What TODO.md says of a fan left behind: "It is not silent".  When the
\* routines are at rest with the fans at different speeds, the two shown speeds
\* differ too, so that the LEDs blink the out-of-sync pattern.
OutOfSyncIsShown ==
  /\ \A f \in Fan : Idle(f) /\ display[f] # Unknown
  /\ actual[1] # actual[2]
  => display[1] # display[2]
=============================================================================
