--------------------------- MODULE SensorPolling ---------------------------
(***************************************************************************)
(* The routine that polls one fan for what it measures, next to the fan    *)
(* control that confirms new speeds and to the others that use the bus and *)
(* the channel to the MQTT session.                                        *)
(***************************************************************************)
EXTENDS FanSensor, Sequences

CONSTANTS
  SteadyFor,      \* Settling::STEADY_FOR_MILLISECONDS
  GiveUpAfter,    \* Settling::GIVE_UP_AFTER_MILLISECONDS
  SettleInterval, \* SENSOR_SETTLE_POLL_MILLISECONDS
  Capacity,       \* CHANNEL_SIZE
  MaxChanges,     \* bound: speeds that are confirmed
  Flow,           \* the flows that are read
  NoWatcher       \* None: no confirmed change is being followed

ASSUME TimesAssumption ==
  SteadyFor \in Nat /\ GiveUpAfter \in Nat /\ SettleInterval \in Nat

ASSUME PollingAssumption ==
  Capacity \in Nat /\ MaxChanges \in Nat /\ Flow \subseteq Word /\ NoWatcher \notin Settling

VARIABLES
  pc,        \* where sensor_routine waits
  maximum,   \* whether the fan's maximum speed is known
  watcher,   \* settling
  unseen,    \* whether the watch holds a confirmed speed the receiver has not seen
  holder,    \* who holds the Modbus mutex
  changes,   \* how many speeds have been confirmed
  statusAt,  \* how many had been when the status registers were read
  channel,   \* how many messages wait for the MQTT session
  log        \* history: what was read since the change that is being followed

vars == <<pc, maximum, watcher, unseen, holder, changes, statusAt, channel, log>>

TypeOK ==
  /\ pc \in {"startup", "maximum", "reading_maximum", "lock", "status", "power", "waiting"}
  /\ maximum \in BOOLEAN
  /\ watcher \in Settling \cup {NoWatcher}
  /\ unseen \in BOOLEAN
  /\ holder \in {"nobody", "sensors", "others"}
  /\ (holder = "sensors") <=> pc \in {"reading_maximum", "status", "power"}
  /\ changes \in 0 .. MaxChanges
  /\ statusAt \in 0 .. MaxChanges
  /\ channel \in 0 .. Capacity
  /\ log \in Seq(Flow \cup {NoFlow})

Init ==
  /\ pc = "startup"
  /\ maximum = FALSE
  /\ watcher = NoWatcher
  /\ unseen = FALSE
  /\ holder = "nobody"
  /\ changes = 0
  /\ statusAt = 0
  /\ channel = 0
  /\ log = <<>>

-----------------------------------------------------------------------------
\* SENSOR_POLL_STARTUP_DELAY is over.
Start ==
  /\ pc = "startup"
  /\ pc' = "maximum"
  /\ UNCHANGED <<maximum, watcher, unseen, holder, changes, statusAt, channel, log>>

Lock == holder = "nobody" /\ holder' = "sensors"

\* The maximum speed is only read until it is known, in a transaction of its own.
BeginMaximum ==
  /\ pc = "maximum"
  /\ ~maximum
  /\ Lock
  /\ pc' = "reading_maximum"
  /\ UNCHANGED <<maximum, watcher, unseen, changes, statusAt, channel, log>>

EndMaximum ==
  /\ pc = "reading_maximum"
  /\ maximum' \in BOOLEAN
  /\ holder' = "nobody"
  /\ pc' = "lock"
  /\ UNCHANGED <<watcher, unseen, changes, statusAt, channel, log>>

LockRuns ==
  /\ pc = "lock" \/ (pc = "maximum" /\ maximum)
  /\ Lock
  /\ pc' = "status"
  /\ UNCHANGED <<maximum, watcher, unseen, changes, statusAt, channel, log>>

UnlocksBetween ==  \* mutated
  /\ pc = "status"
  /\ statusAt' = changes
  /\ holder' = "nobody"
  /\ pc' = "power"
  /\ UNCHANGED <<maximum, watcher, unseen, changes, channel, log>>

ReadStatus ==
  /\ pc = "status"
  /\ statusAt' = changes
  /\ pc' = "power"
  /\ UNCHANGED <<maximum, watcher, unseen, holder, changes, channel, log>>

\* try_send: a reading that finds the channel full is dropped.
Published(flow) ==
  IF flow # NoFlow /\ channel < Capacity THEN channel + 1 ELSE channel

Fresh == at_interval(SteadyFor, GiveUpAfter, SettleInterval)

KeepsWatcher ==  \* mutated
  /\ unseen' = FALSE
  /\ watcher' = IF watcher = NoWatcher THEN Fresh ELSE watcher
  /\ log' = <<>>
  /\ pc' = "maximum"

\* A confirmed speed is followed by a watcher that has seen nothing yet.
Follow ==
  /\ unseen' = FALSE
  /\ watcher' = Fresh
  /\ log' = <<>>
  /\ pc' = "maximum"

\* The watcher is asked, and dropped unless the fan is still moving.
Watched(flow) ==
  IF watcher = NoWatcher THEN NoWatcher
  ELSE LET s == observe(watcher, flow)
       IN  IF Progress(s) = "moving" THEN s ELSE NoWatcher

\* As many readings as the properties look back at.
Logged(flow) ==
  LET readings == Append(log, flow)
  IN  IF watcher = NoWatcher THEN log
      ELSE IF Len(readings) > readings_in(GiveUpAfter, SettleInterval) + 1
           THEN Tail(readings) ELSE readings

ForgetsChange(flow) ==  \* mutated
  /\ holder' = "nobody"
  /\ channel' = Published(flow)
  /\ unseen' = FALSE
  /\ watcher' = Watched(flow)
  /\ log' = Logged(flow)
  /\ pc' = "waiting"

\* The lock is given back and the reading goes its ways.  The select that follows
\* returns at once if a speed was confirmed during the poll.
EndPoll(flow) ==
  /\ holder' = "nobody"
  /\ channel' = Published(flow)
  /\ IF unseen
     THEN Follow
     ELSE /\ watcher' = Watched(flow)
          /\ log' = Logged(flow)
          /\ pc' = "waiting"
          /\ UNCHANGED unseen

ReadStatusFails ==
  /\ pc = "status"
  /\ EndPoll(NoFlow)
  /\ UNCHANGED <<maximum, changes, statusAt>>

ReadPower ==
  /\ pc = "power"
  /\ \E flow \in Flow \cup {NoFlow} : EndPoll(flow)
  /\ UNCHANGED <<maximum, changes, statusAt>>

\* Timer::after(wait), at either cadence; it is looked at first.
TimerExpires ==
  /\ pc = "waiting"
  /\ pc' = "maximum"
  /\ UNCHANGED <<maximum, watcher, unseen, holder, changes, statusAt, channel, log>>

Changed ==
  /\ pc = "waiting"
  /\ unseen
  /\ Follow
  /\ UNCHANGED <<maximum, holder, changes, statusAt, channel>>

-----------------------------------------------------------------------------
\* fan_control_routine has written or read a set point, and shows it before it gives
\* the mutex back.
Confirm ==
  /\ holder = "others"
  /\ changes < MaxChanges
  /\ changes' = changes + 1
  /\ unseen' = TRUE
  /\ UNCHANGED <<pc, maximum, watcher, holder, statusAt, channel, log>>

OthersLock ==
  /\ holder = "nobody"
  /\ holder' = "others"
  /\ UNCHANGED <<pc, maximum, watcher, unseen, changes, statusAt, channel, log>>

OthersUnlock ==
  /\ holder = "others"
  /\ holder' = "nobody"
  /\ UNCHANGED <<pc, maximum, watcher, unseen, changes, statusAt, channel, log>>

OthersSend ==
  /\ channel < Capacity
  /\ channel' = channel + 1
  /\ UNCHANGED <<pc, maximum, watcher, unseen, holder, changes, statusAt, log>>

Deliver ==
  /\ channel > 0
  /\ channel' = channel - 1
  /\ UNCHANGED <<pc, maximum, watcher, unseen, holder, changes, statusAt, log>>

-----------------------------------------------------------------------------
Routine ==
  \/ Start \/ BeginMaximum \/ EndMaximum \/ LockRuns
  \/ ReadStatus \/ ReadStatusFails \/ ReadPower \/ TimerExpires \/ Changed

Others == Confirm \/ OthersLock \/ OthersUnlock \/ OthersSend \/ Deliver

Next == Routine \/ Others

Spec == Init /\ [][Next]_vars

\* Transactions end, timers expire, and whoever waits for the mutex gets it at some
\* time.  Nothing is asked of the MQTT session.
FairSpec ==
  /\ Spec
  /\ WF_vars(Start \/ EndMaximum \/ ReadStatus \/ ReadStatusFails \/ ReadPower \/ TimerExpires)
  /\ SF_vars(BeginMaximum \/ LockRuns)
  /\ WF_vars(OthersUnlock)

-----------------------------------------------------------------------------
(***************************************************************************)
(* Properties                                                              *)
(***************************************************************************)

\* Both runs of registers describe the same moment: no speed is confirmed between
\* the status registers and the power and air registers of one reading.
SameMoment == pc = "power" => statusAt = changes

\* The fast cadence is bounded, whatever the fan answers, if it answers at all:
\* after a confirmed change at most GIVE_UP_AFTER worth of readings are quick.
BoundedFastCadence ==
  Len(log) <= readings_in(GiveUpAfter, SettleInterval)

\* The reading before i that succeeded last.
LastKnown(readings, i) ==
  {j \in 1 .. i - 1 : readings[j] # NoFlow /\ \A k \in j + 1 .. i - 1 : readings[k] = NoFlow}

\* The last n readings succeeded, each within the tolerance of the one before it that did.
HeldStill(readings, n) ==
  /\ Len(readings) > n
  /\ \A i \in Len(readings) - n + 1 .. Len(readings) :
       /\ readings[i] # NoFlow
       /\ \E j \in LastKnown(readings, i) : IsSteady(readings[i], readings[j])

\* What the watcher keeps is what was read since the change it follows.
Watching ==
  watcher # NoWatcher =>
    /\ watcher.required = readings_in(SteadyFor, SettleInterval)
    /\ watcher.limit = readings_in(GiveUpAfter, SettleInterval)
    /\ Progress(watcher) = "moving"
    /\ Len(log) = watcher.taken
    /\ watcher.steady > 0 => watcher.previous # NoFlow /\ HeldStill(log, watcher.steady)
    /\ watcher.previous # NoFlow =>
         \E j \in LastKnown(log, Len(log) + 1) : log[j] = watcher.previous

\* The inductive invariant.  The watcher's counters tell its readings only while it
\* watches; the bound outlives it.
IInv == TypeOK /\ SameMoment /\ BoundedFastCadence /\ Watching

\* The quick readings stop early only when the flow held still for the whole of
\* STEADY_FOR since the change that is followed: a failed poll breaks the run, and the
\* reading after it has to agree with the one before it.
StopsOnlyWhenSteady ==
  [][ watcher # NoWatcher /\ watcher' = NoWatcher =>
        \/ HeldStill(log', readings_in(SteadyFor, SettleInterval))
        \/ Len(log') = readings_in(GiveUpAfter, SettleInterval) ]_vars

\* A speed confirmed during a poll, or while the routine waits, is followed.
FollowsChanges == unseen ~> (watcher # NoWatcher /\ ~unseen)

\* The ordinary cadence comes back after the last change, also on a silent fan.
ComesBack == <>[](watcher = NoWatcher)
=============================================================================
