------------------------------- MODULE Display -------------------------------
(***************************************************************************)
(* The display_routine: it waits until the confirmed speeds of the fans    *)
(* stop changing, reports them to Home Assistant through the bounded       *)
(* channel to the MQTT session, and sets the pattern of the two LEDs.      *)
(*                                                                         *)
(* The channel is shared with the sensor and relay routines.  The routine  *)
(* only ever tries to send, so everything after the debounce is one step.  *)
(***************************************************************************)
EXTENDS Integers, Sequences

CONSTANTS
  SetPoint,      \* the speeds a fan confirms; zero is "off"
  LOW, MEDIUM,   \* the borders between the LED patterns
  Unknown,       \* no speed
  Capacity,      \* CHANNEL_SIZE
  MaxConfirms    \* bound: how often a fan confirms a new speed

ASSUME SetPointAssumption == SetPoint \subseteq Nat /\ 0 \in SetPoint

ASSUME LimitAssumption == LOW \in Nat /\ MEDIUM \in Nat /\ 0 < LOW /\ LOW < MEDIUM

ASSUME UnknownAssumption == Unknown \notin SetPoint

ASSUME BoundAssumption == Capacity \in Nat \ {0} /\ MaxConfirms \in Nat

Fan == {1, 2}

Speed == SetPoint \cup {Unknown}

VARIABLES
  watch,       \* per fan, the Watch its fan_control_routine writes
  changed,     \* the fans whose watch the routine has not looked at
  shown,       \* current_display_state
  update,      \* display_update_state
  debouncing,  \* is_debounce_active
  led,         \* what was last signalled to led_routine
  out,         \* the channel OUT
  home,        \* per fan, what Home Assistant was told last
  confirms,    \* how often a fan confirmed a new speed
  trouble      \* history: how a confirmed speed may have missed the displays

vars == <<watch, changed, shown, update, debouncing, led, out, home, confirms,
          trouble>>

StateMessage(f, isOn) == [fan |-> f, isOn |-> isOn]

SpeedMessage(f, s) == [fan |-> f, speed |-> s]

OtherMessage == [fan |-> 0]

Message ==
  [fan : Fan, isOn : BOOLEAN] \cup [fan : Fan, speed : SetPoint] \cup {OtherMessage}

IsSpeedOf(f, m) == m.fan = f /\ "speed" \in DOMAIN m

IsStateOf(f, m) == m.fan = f /\ "isOn" \in DOMAIN m

-----------------------------------------------------------------------------
(***************************************************************************)
(* The LEDs: a steady picture when the speeds agree, blinking otherwise.   *)
(***************************************************************************)

\* How often an LED blinks for a speed; one that is not known counts as off.
Blink(s) ==
  CASE s \in {0, Unknown}                                 -> 0
    [] s \notin {0, Unknown} /\ s <= LOW                  -> 1
    [] s \notin {0, Unknown} /\ LOW < s /\ s <= MEDIUM    -> 2
    [] s \notin {0, Unknown} /\ LOW < s /\ MEDIUM < s     -> 3

Pattern == {"loading", "unreachable", "steady", "blinking"} \X (0 .. 3) \X (0 .. 3)

Loading == <<"loading", 0, 0>>

Unreachable == <<"unreachable", 0, 0>>

LedState(speed) ==
  CASE speed[1] = Unknown /\ speed[2] = Unknown -> Unreachable
    [] speed[1] = speed[2] /\ speed[1] # Unknown ->
         <<"steady", Blink(speed[1]), Blink(speed[2])>>
    [] speed[1] # speed[2] -> <<"blinking", Blink(speed[1]), Blink(speed[2])>>

TypeOK ==
  /\ watch \in [Fan -> Speed]
  /\ changed \subseteq Fan
  /\ shown \in [Fan -> Speed]
  /\ update \in [Fan -> Speed]
  /\ debouncing \in BOOLEAN
  /\ led \in Pattern
  /\ out \in Seq(Message) /\ Len(out) <= Capacity
  /\ home \in [Fan -> [isOn : BOOLEAN \cup {Unknown}, speed : Speed]]
  /\ confirms \in 0 .. MaxConfirms
  /\ trouble \subseteq {"overtaken", "full", "lost"}

Init ==
  /\ watch = [f \in Fan |-> Unknown]
  /\ changed = {}
  /\ shown = [f \in Fan |-> Unknown]
  /\ update = [f \in Fan |-> Unknown]
  /\ debouncing = FALSE
  /\ led = Loading
  /\ out = <<>>
  /\ home = [f \in Fan |-> [isOn |-> Unknown, speed |-> Unknown]]
  /\ confirms = 0
  /\ trouble = {}

-----------------------------------------------------------------------------
(***************************************************************************)
(* The routine                                                             *)
(***************************************************************************)

\* A fan_control_routine confirms a speed the fan did not have before.
Confirm(f, s) ==
  /\ confirms < MaxConfirms
  /\ s # watch[f]
  /\ watch' = [watch EXCEPT ![f] = s]
  /\ changed' = changed \cup {f}
  /\ confirms' = confirms + 1
  /\ UNCHANGED <<shown, update, debouncing, led, out, home, trouble>>

\* A speed that is already shown counts as no update.
IsNeverShown(f) == FALSE  \* mutated
IsShown(f) == shown[f] = watch[f]

\* The select polls fan 1 first.
Receive(f) ==
  /\ f \in changed
  /\ f = 2 => 1 \notin changed
  /\ changed' = changed \ {f}
  /\ IF IsShown(f)
     THEN /\ trouble' = IF update[f] = Unknown THEN trouble ELSE trouble \cup {"overtaken"}
          /\ UNCHANGED <<update, debouncing>>
     ELSE /\ update' = [update EXCEPT ![f] = watch[f]]
          /\ debouncing' = TRUE
          /\ UNCHANGED trouble
  /\ UNCHANGED <<watch, shown, led, out, home, confirms>>

\* A fan is reported on or off when that changes, and the first time.
OnlyChanges(f) ==  \* mutated
  shown[f] # Unknown /\ (update[f] = 0) # (shown[f] = 0)
TellsState(f) ==
  shown[f] = Unknown \/ (update[f] = 0) # (shown[f] = 0)

\* The messages that report fan f's update, in the order they are sent.
Report(f) ==
  IF update[f] = Unknown THEN <<>>
  ELSE (IF TellsState(f) THEN <<StateMessage(f, update[f] # 0)>> ELSE <<>>)
         \o <<SpeedMessage(f, update[f])>>

\* What of the messages ms there is room for behind the queue q.
Fits(q, ms) == Len(q) + Len(ms) <= Capacity

Unbounded(q, ms) == q \o ms  \* mutated
TrySend(q, ms) == IF Fits(q, ms) THEN q \o ms ELSE SubSeq(q \o ms, 1, Capacity)

\* Whether fan f's update was sent to its end, and so counts as shown: a full
\* channel ends the loop iteration, with the rest of it undone.
NeverPersisted(f) == FALSE  \* mutated
SentAnyway(f) == update[f] # Unknown  \* mutated
Sent(f) ==
  /\ Fits(out, Report(1))
  /\ f = 2 => Fits(out \o Report(1), Report(2))
  /\ update[f] # Unknown

DebounceEnds ==
  LET complete == Fits(out, Report(1) \o Report(2)) IN
  /\ debouncing
  /\ changed = {}
  /\ debouncing' = FALSE
  /\ out' = TrySend(out, Report(1) \o Report(2))
  /\ shown' = [f \in Fan |-> IF Sent(f) THEN update[f] ELSE shown[f]]
  /\ update' = [f \in Fan |-> IF Sent(f) THEN Unknown ELSE update[f]]
  /\ led' = IF complete THEN LedState(shown') ELSE led
  /\ trouble' = IF complete THEN trouble ELSE trouble \cup {"full"}
  /\ UNCHANGED <<watch, changed, home, confirms>>

\* The sensor and relay routines send through the same channel.
OthersSend ==
  /\ Len(out) < Capacity
  /\ out' = Append(out, OtherMessage)
  /\ UNCHANGED <<watch, changed, shown, update, debouncing, led, home, confirms,
                 trouble>>

\* The MQTT session takes the oldest message and publishes it.
Deliver ==
  /\ out # <<>>
  /\ out' = Tail(out)
  /\ LET m == Head(out) IN
       home' = CASE m = OtherMessage -> home
                 [] m # OtherMessage /\ IsSpeedOf(m.fan, m) ->
                      [home EXCEPT ![m.fan].speed = m.speed]
                 [] m # OtherMessage /\ ~IsSpeedOf(m.fan, m) ->
                      [home EXCEPT ![m.fan].isOn = m.isOn]
  /\ UNCHANGED <<watch, changed, shown, update, debouncing, led, confirms, trouble>>

\* The session ends with the oldest message in its hands, or fails to write it.
Lose ==
  /\ out # <<>>
  /\ out' = Tail(out)
  /\ trouble' = IF Head(out) = OtherMessage THEN trouble ELSE trouble \cup {"lost"}
  /\ UNCHANGED <<watch, changed, shown, update, debouncing, led, home, confirms>>

Next ==
  \/ \E f \in Fan, s \in SetPoint : Confirm(f, s)
  \/ \E f \in Fan : Receive(f)
  \/ DebounceEnds
  \/ OthersSend
  \/ Deliver \/ Lose

Spec == Init /\ [][Next]_vars

\* The timer of the debounce runs out, and a working session keeps taking
\* messages; whether anything else is sent or confirmed is nobody's duty.
FairSpec == Spec /\ WF_vars(\E f \in Fan : Receive(f)) /\ WF_vars(DebounceEnds) /\ WF_vars(Deliver)

-----------------------------------------------------------------------------
(***************************************************************************)
(* Properties                                                              *)
(***************************************************************************)

\* The messages of fan f that Home Assistant has yet to see.
Underway(f) == {i \in DOMAIN out : out[i].fan = f}

\* The arm that panics with "Reached invalid state" is never taken, however the
\* two fans' updates and a full channel interleave.
NeverUnreachable == led # Unreachable

\* Once nothing of a fan is underway, Home Assistant has exactly the speed the
\* routine believes is shown, however often the channel was full, as long as no
\* message was lost on its way out of the channel.
HomeHasShownSpeed ==
  "lost" \notin trouble => \A f \in Fan : Underway(f) = {} => home[f].speed = shown[f]

\* No message in places a .. b of the channel reports a speed, or a state, of fan f.
NoSpeed(f, a, b) == \A k \in a .. b : ~IsSpeedOf(f, out[k])

NoState(f, a, b) == \A k \in a .. b : ~IsStateOf(f, out[k])

\* Home Assistant is never told the speed it already has: unless one was lost,
\* two successive speeds of a fan differ, across what it was told and what is
\* underway.
NoSpeedTwice ==
  "lost" \notin trouble =>
    \A f \in Fan, j \in DOMAIN out :
      IsSpeedOf(f, out[j]) =>
        /\ NoSpeed(f, 1, j - 1) => home[f].speed # out[j].speed
        /\ \A i \in 1 .. j - 1 :
             IsSpeedOf(f, out[i]) /\ NoSpeed(f, i + 1, j - 1) => out[i].speed # out[j].speed

\* Unless the channel was full or a message was lost, what Home Assistant has been told agrees with
\* itself: a fan is on exactly when its speed is not zero.
StateFitsSpeed ==
  trouble \subseteq {"overtaken"} =>
    \A f \in Fan :
      Underway(f) = {} /\ home[f].speed # Unknown => home[f].isOn = (home[f].speed # 0)

\* Only a known speed is news, and only one that is not shown becomes an update; the
\* debounce runs only for an update.
UpdatesAreNews ==
  /\ \A f \in changed : watch[f] # Unknown
  /\ \A f \in Fan : update[f] # Unknown => update[f] # shown[f]
  /\ debouncing => \E f \in Fan : update[f] # Unknown

\* The last speed that is underway, or was told if none is, is the one shown.
LastSpeedIsShown ==
  "lost" \notin trouble =>
    \A f \in Fan :
      /\ NoSpeed(f, 1, Len(out)) => home[f].speed = shown[f]
      /\ \A i \in DOMAIN out :
           IsSpeedOf(f, out[i]) /\ NoSpeed(f, i + 1, Len(out)) => out[i].speed = shown[f]

\* As long as no report was cut short, the same goes for on and off.
LastStateIsShown ==
  trouble \subseteq {"overtaken"} =>
    \A f \in Fan :
      shown[f] # Unknown =>
        /\ NoState(f, 1, Len(out)) => home[f].isOn = (shown[f] # 0)
        /\ \A i \in DOMAIN out :
             IsStateOf(f, out[i]) /\ NoState(f, i + 1, Len(out)) => out[i].isOn = (shown[f] # 0)

\* The inductive invariant.
IInv ==
  /\ TypeOK
  /\ NeverUnreachable
  /\ UpdatesAreNews
  /\ LastSpeedIsShown
  /\ NoSpeedTwice
  /\ LastStateIsShown

\* When the speeds stop changing, Home Assistant and the routine end up with the
\* latest ones, unless the channel was full, a message was lost, or an update was
\* overtaken by the speed it came from.
EventuallyShown ==
  <>[](trouble # {} \/ \A f \in Fan : shown[f] = watch[f] /\ home[f].speed = watch[f])
=============================================================================
