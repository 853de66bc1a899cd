-------------------------------- MODULE Relay --------------------------------
(***************************************************************************)
(* The relay_routine: it drives the contact of the relay module over a bus *)
(* of its own, one command at a time, and reports confirmed states to Home *)
(* Assistant.  Unlike the displays it waits for room in the channel OUT.   *)
(*                                                                         *)
(* One action is one transaction on the bus.  The back-offs between them   *)
(* are the time other actions take.                                        *)
(***************************************************************************)
EXTENDS Integers, Sequences

CONSTANTS
  Unknown,      \* no state of the contact; also an empty signal
  Other,        \* a message of another routine in the channel OUT
  MaxAttempts,  \* MAX_ATTEMPTS
  Capacity,     \* CHANNEL_SIZE
  MaxCommands   \* bound: how many commands Home Assistant gives

ASSUME UnknownAssumption == Unknown \notin BOOLEAN /\ Other \notin BOOLEAN /\ Unknown # Other

ASSUME BoundAssumption ==
  MaxAttempts \in Nat \ {0} /\ Capacity \in Nat \ {0} /\ MaxCommands \in Nat

State == BOOLEAN \cup {Unknown}

Outcome == {"acknowledged", "unacknowledged", "lost"}

VARIABLES
  requested,  \* the Signal the routine waits on
  pc,         \* the await it is at
  attempt,    \* the attempt it is at
  isClosed,   \* the request it has in hand
  current,    \* current_state
  contact,    \* where the contact really is
  out,        \* the channel OUT
  home,       \* what Home Assistant was told last
  commands,   \* how many commands were given
  wanted,     \* history: the last command
  doubtful,   \* history: a write that was not confirmed has been dropped
  lost        \* history: a report was lost on its way to Home Assistant

task    == <<pc, attempt, isClosed, current>>
channel == <<out, home, lost>>
command == <<commands, wanted>>
vars    == <<requested, task, contact, channel, command, doubtful>>

TypeOK ==
  /\ requested \in State
  /\ pc \in {"reading", "waiting", "writing", "sending"}
  /\ attempt \in 1 .. MaxAttempts
  /\ isClosed \in State
  /\ current \in State
  /\ contact \in BOOLEAN
  /\ out \in Seq(BOOLEAN \cup {Other}) /\ Len(out) <= Capacity
  /\ home \in State
  /\ commands \in 0 .. MaxCommands
  /\ wanted \in State
  /\ doubtful \in BOOLEAN
  /\ lost \in BOOLEAN

\* The module held its contact while the controller restarted.
Init ==
  /\ requested = Unknown
  /\ pc = "reading"
  /\ attempt = 1
  /\ isClosed = Unknown
  /\ current = Unknown
  /\ contact \in BOOLEAN
  /\ out = <<>>
  /\ home = Unknown
  /\ commands = 0
  /\ wanted = Unknown
  /\ doubtful = FALSE
  /\ lost = FALSE

-----------------------------------------------------------------------------
(***************************************************************************)
(* read_relay_state, and the first lines of the routine                    *)
(***************************************************************************)

IsLastAttempt(n) == n >= MaxAttempts

ReadSucceeds ==
  /\ pc = "reading"
  /\ current' = contact
  /\ pc' = "sending"
  /\ UNCHANGED <<requested, attempt, isClosed, contact, channel, command, doubtful>>

ReadFails ==
  /\ pc = "reading"
  /\ IF IsLastAttempt(attempt)
     THEN pc' = "waiting" /\ UNCHANGED attempt
     ELSE attempt' = attempt + 1 /\ UNCHANGED pc
  /\ UNCHANGED <<requested, isClosed, current, contact, channel, command, doubtful>>

-----------------------------------------------------------------------------
(***************************************************************************)
(* The signal loop                                                         *)
(***************************************************************************)

Signaled == requested # Unknown

\* What waiting for the signal leaves in it.
LeftInPlace == requested  \* mutated
Taken == Unknown

TakeRequest ==
  /\ pc = "waiting"
  /\ Signaled
  /\ requested' = Taken
  /\ isClosed' = requested
  /\ attempt' = 1
  /\ pc' = IF current = requested THEN "waiting" ELSE "writing"
  /\ UNCHANGED <<current, contact, channel, command, doubtful>>

\* What the module does with a write: it moves the contact unless the request
\* never reached it.
CarryOut(outcome) == contact' = IF outcome = "lost" THEN contact ELSE isClosed

\* The routine's belief after a confirmed write.
Confirmed == isClosed

WriteSucceeds ==
  /\ pc = "writing"
  /\ CarryOut("acknowledged")
  /\ current' = Confirmed
  /\ doubtful' = FALSE
  /\ pc' = "sending"
  /\ UNCHANGED <<requested, attempt, isClosed, channel, command>>

\* The routine's belief after the last attempt failed.
StillCurrent == current  \* mutated
NotKnown == Unknown

GiveUp(outcome) ==
  /\ pc = "writing"
  /\ outcome # "acknowledged"
  /\ IsLastAttempt(attempt)
  /\ CarryOut(outcome)
  /\ current' = NotKnown
  /\ doubtful' = FALSE
  /\ pc' = "waiting"
  /\ UNCHANGED <<requested, attempt, isClosed, channel, command>>

\* A newer request makes the routine drop the one it was retrying, and keep
\* what it believed before it.
WriteFails(outcome) ==
  /\ pc = "writing"
  /\ outcome # "acknowledged"
  /\ ~IsLastAttempt(attempt)
  /\ CarryOut(outcome)
  /\ attempt' = attempt + 1
  /\ pc' = IF Signaled THEN "waiting" ELSE "writing"
  /\ doubtful' = (doubtful \/ Signaled)
  /\ UNCHANGED <<requested, isClosed, current, channel, command>>

\* Whether a report has to wait for the session to take an older message.
NeverFull == FALSE  \* mutated
IsFull == Len(out) >= Capacity

TriesToReport ==  \* mutated
  /\ pc = "sending"
  /\ out' = IF IsFull THEN out ELSE Append(out, current)
  /\ pc' = "waiting"
  /\ UNCHANGED <<requested, attempt, isClosed, current, contact, home, lost, command,
                 doubtful>>
Report ==
  /\ pc = "sending"
  /\ ~IsFull
  /\ out' = Append(out, current)
  /\ pc' = "waiting"
  /\ UNCHANGED <<requested, attempt, isClosed, current, contact, home, lost, command,
                 doubtful>>

-----------------------------------------------------------------------------
(***************************************************************************)
(* Its surroundings                                                        *)
(***************************************************************************)

\* A command replaces one that was not taken yet.
FirstRequest(c) == IF Signaled THEN requested ELSE c  \* mutated
LatestRequest(c) == c

Command(c) ==
  /\ commands < MaxCommands
  /\ commands' = commands + 1
  /\ requested' = LatestRequest(c)
  /\ wanted' = c
  /\ UNCHANGED <<task, contact, channel, doubtful>>

\* The displays and sensors send through the same channel.
OthersSend ==
  /\ Len(out) < Capacity
  /\ out' = Append(out, Other)
  /\ UNCHANGED <<requested, task, contact, home, lost, command, doubtful>>

\* The MQTT session takes the oldest message and publishes it, or loses it.
Deliver ==
  /\ out # <<>>
  /\ out' = Tail(out)
  /\ home' = IF Head(out) = Other THEN home ELSE Head(out)
  /\ UNCHANGED <<requested, task, contact, lost, command, doubtful>>

Lose ==
  /\ out # <<>>
  /\ out' = Tail(out)
  /\ lost' = (lost \/ Head(out) # Other)
  /\ UNCHANGED <<requested, task, contact, home, command, doubtful>>

Write ==
  WriteSucceeds \/ \E outcome \in Outcome : WriteFails(outcome) \/ GiveUp(outcome)

Next ==
  \/ ReadSucceeds \/ ReadFails
  \/ TakeRequest \/ Write \/ Report
  \/ \E c \in BOOLEAN : Command(c)
  \/ OthersSend \/ Deliver \/ Lose

Spec == Init /\ [][Next]_vars

\* Every transaction ends with its timeout, and a working session keeps taking
\* messages.  Waiting senders are served in turn, so that the room the session
\* makes is not taken by the others for ever.
Fairness ==
  /\ WF_vars(ReadSucceeds \/ ReadFails)
  /\ WF_vars(TakeRequest)
  /\ WF_vars(Write)
  /\ SF_vars(Report)
  /\ WF_vars(Deliver \/ Lose)

FairSpec == Spec /\ Fairness

-----------------------------------------------------------------------------
(***************************************************************************)
(* Properties                                                              *)
(***************************************************************************)

Idle == pc = "waiting" /\ ~Signaled

\* A write and a report are of a definite state.
DefiniteInHand ==
  /\ pc = "writing" => isClosed # Unknown
  /\ pc = "sending" => current # Unknown

\* The last command is in the signal, in hand, or reflected in what is believed.
CommandUnderway ==
  /\ Signaled => requested = wanted
  /\ ~Signaled /\ wanted # Unknown =>
       /\ pc # "reading"
       /\ pc = "writing" => isClosed = wanted
       /\ pc # "writing" => current \in {Unknown, wanted}

\* Between two commands the routine knows where the contact is, or knows that it
\* does not, unless it dropped a write that the module may have carried out.
BelievesContact ==
  pc # "writing" /\ ~doubtful => current \in {Unknown, contact}

\* What the routine believes, unless it has yet to report it, is what the last report
\* says that is on its way to Home Assistant, or what was told last if there is none.
Reported ==
  /\ pc = "reading" => current = Unknown
  /\ pc # "sending" /\ ~lost /\ current # Unknown =>
       /\ (\A i \in DOMAIN out : out[i] = Other) => home = current
       /\ \A i \in DOMAIN out :
            out[i] # Other /\ (\A k \in i + 1 .. Len(out) : out[k] = Other) => out[i] = current

\* The inductive invariant.
IInv == TypeOK /\ DefiniteInHand /\ CommandUnderway /\ BelievesContact /\ Reported

\* When the routine is idle, the contact is where Home Assistant wanted it last,
\* unless the routine gave up or a write was dropped on the way.
LatestCommandWins ==
  Idle /\ ~doubtful /\ current # Unknown /\ wanted # Unknown => contact = wanted

\* Home Assistant has been told every state the routine believes in, once the
\* reports underway have arrived and none was lost.
HomeHasBelief ==
  /\ pc \in {"waiting", "writing"}
  /\ \A i \in DOMAIN out : out[i] = Other
  /\ ~lost /\ current # Unknown
  => home = current

\* On a bus that never works again, and with the channel full again and again,
\* the routine comes to rest once the commands stop.
ComesToRest == <>[]Idle
=============================================================================
