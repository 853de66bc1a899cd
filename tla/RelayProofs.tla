----------------------------- MODULE RelayProofs -----------------------------
(***************************************************************************)
(* What the relay_routine guarantees for any number of attempts, any size  *)
(* of the channel and any number of commands.                              *)
(***************************************************************************)
EXTENDS Relay, SequenceTheorems, TLAPS

\* The routine starts out knowing nothing, with nothing asked of it.
LEMMA InitInv == Init => IInv
<1> SUFFICES ASSUME Init PROVE IInv
  OBVIOUS
<1> USE UnknownAssumption, BoundAssumption DEF Init, State
<1>1. out \in Seq(BOOLEAN \cup {Other}) /\ Len(out) <= Capacity
  <2>1. <<>> \in Seq(BOOLEAN \cup {Other}) /\ Len(<<>>) = 0
    BY EmptySeq
  <2> QED
    BY <2>1
<1>2. TypeOK
  <2>1. attempt \in 1 .. MaxAttempts /\ commands \in 0 .. MaxCommands
    BY SMT
  <2>2. /\ requested \in State /\ isClosed \in State /\ current \in State
        /\ home \in State /\ wanted \in State
        /\ contact \in BOOLEAN /\ doubtful \in BOOLEAN /\ lost \in BOOLEAN
    BY Zenon
  <2>3. pc \in {"reading", "waiting", "writing", "sending"}
    BY Zenon
  <2> QED
    BY <1>1, <2>1, <2>2, <2>3, Zenon DEF TypeOK
<1>3. DefiniteInHand /\ CommandUnderway /\ BelievesContact /\ Reported
  BY DEF DefiniteInHand, CommandUnderway, BelievesContact, Reported, Signaled
<1> QED
  BY <1>2, <1>3 DEF IInv

\* What arrives in, or leaves, the channel keeps it a bounded queue of messages.
LEMMA QueueStep ==
  ASSUME NEW m \in BOOLEAN \cup {Other}, TypeOK
  PROVE  /\ Len(out) < Capacity =>
              /\ Append(out, m) \in Seq(BOOLEAN \cup {Other})
              /\ Len(Append(out, m)) <= Capacity
         /\ out # <<>> =>
              /\ Head(out) \in BOOLEAN \cup {Other}
              /\ Tail(out) \in Seq(BOOLEAN \cup {Other})
              /\ Len(Tail(out)) <= Capacity
<1>1. out \in Seq(BOOLEAN \cup {Other}) /\ Len(out) <= Capacity
  BY DEF TypeOK
<1>2. Len(out) \in Nat /\ Capacity \in Nat
  BY <1>1, BoundAssumption, LenProperties
<1>3. Len(out) < Capacity =>
        /\ Append(out, m) \in Seq(BOOLEAN \cup {Other})
        /\ Len(Append(out, m)) <= Capacity
  BY <1>1, <1>2, AppendProperties
<1>4. out # <<>> =>
        /\ Head(out) \in BOOLEAN \cup {Other}
        /\ Tail(out) \in Seq(BOOLEAN \cup {Other})
        /\ Len(Tail(out)) <= Capacity
  BY <1>1, <1>2, HeadTailProperties
<1> QED
  BY <1>3, <1>4

\* Every step of the routine and its surroundings preserves what the invariant says of
\* the command and the contact.
LEMMA NextContact ==
  ASSUME IInv, [Next]_vars
  PROVE  TypeOK' /\ DefiniteInHand' /\ CommandUnderway' /\ BelievesContact'
<1> DEFINE Goal == TypeOK /\ DefiniteInHand /\ CommandUnderway /\ BelievesContact
<1> SUFFICES Goal'
  OBVIOUS
<1> USE UnknownAssumption, BoundAssumption
<1> USE DEF IInv, TypeOK, DefiniteInHand, CommandUnderway, BelievesContact, State,
            Signaled, task, channel, command
<1>1. CASE ReadSucceeds
  BY <1>1 DEF ReadSucceeds
<1>2. CASE ReadFails
  BY <1>2 DEF ReadFails, IsLastAttempt
<1>3. CASE TakeRequest
  BY <1>3 DEF TakeRequest, Taken
<1>4. CASE WriteSucceeds
  BY <1>4 DEF WriteSucceeds, CarryOut, Confirmed
<1>5. ASSUME NEW outcome \in Outcome, WriteFails(outcome) PROVE Goal'
  BY <1>5 DEF WriteFails, CarryOut, IsLastAttempt
<1>6. ASSUME NEW outcome \in Outcome, GiveUp(outcome) PROVE Goal'
  BY <1>6 DEF GiveUp, CarryOut, NotKnown
<1>7. CASE Report
  <2>1. current \in BOOLEAN
    BY <1>7 DEF Report
  <2>2. Len(out) < Capacity
    <3>1. Len(out) \in Nat
      BY LenProperties
    <3> QED
      BY <1>7, <3>1 DEF Report, IsFull
  <2>3. out' \in Seq(BOOLEAN \cup {Other}) /\ Len(out') <= Capacity
    BY <1>7, <2>1, <2>2, QueueStep DEF Report
  <2> QED
    BY <1>7, <2>3 DEF Report
<1>8. ASSUME NEW c \in BOOLEAN, Command(c) PROVE Goal'
  BY <1>8 DEF Command, LatestRequest
<1>9. CASE OthersSend
  <2>1. out' \in Seq(BOOLEAN \cup {Other}) /\ Len(out') <= Capacity
    BY <1>9, QueueStep DEF OthersSend
  <2> QED
    BY <1>9, <2>1 DEF OthersSend
<1>10. CASE Deliver
  <2>1. /\ out' \in Seq(BOOLEAN \cup {Other}) /\ Len(out') <= Capacity
        /\ Head(out) \in BOOLEAN \cup {Other}
    BY <1>10, QueueStep DEF Deliver
  <2> QED
    BY <1>10, <2>1 DEF Deliver
<1>11. CASE Lose
  <2>1. out' \in Seq(BOOLEAN \cup {Other}) /\ Len(out') <= Capacity
    BY <1>11, QueueStep DEF Lose
  <2>2. lost' \in BOOLEAN
    BY <1>11 DEF Lose
  <2> QED
    BY <1>11, <2>1, <2>2 DEF Lose
<1>12. CASE UNCHANGED vars
  BY <1>12 DEF vars
<1> QED
  BY <1>1, <1>2, <1>3, <1>4, <1>5, <1>6, <1>7, <1>8, <1>9, <1>10, <1>11, <1>12
     DEF Next, Write

\* What was told is not touched by a step that neither reports nor delivers.
LEMMA ReportedStays ==
  ASSUME Reported, UNCHANGED <<out, home, lost, current>>,
         pc = "sending" => pc' = "sending", pc' = "reading" => pc = "reading"
  PROVE  Reported'
BY DEF Reported

\* A queue and its tail: what is in one of them is in the other, one place apart.
LEMMA Shifted ==
  ASSUME TypeOK, out # <<>>, out' = Tail(out)
  PROVE  /\ Len(out) \in Nat \ {0}
         /\ DOMAIN out = 1 .. Len(out) /\ DOMAIN out' = 1 .. Len(out) - 1
         /\ Len(out') = Len(out) - 1
         /\ Head(out) = out[1]
         /\ \A i \in 1 .. Len(out) - 1 : out'[i] = out[i + 1]
<1>1. out \in Seq(BOOLEAN \cup {Other})
  BY DEF TypeOK
<1>2. Len(out) \in Nat \ {0} /\ DOMAIN out = 1 .. Len(out)
  BY <1>1, EmptySeq, LenProperties
<1>3. /\ Tail(out) \in Seq(BOOLEAN \cup {Other})
      /\ Len(Tail(out)) = Len(out) - 1
      /\ \A i \in 1 .. Len(Tail(out)) : Tail(out)[i] = out[i + 1]
  BY <1>1, HeadTailProperties
<1>4. DOMAIN Tail(out) = 1 .. Len(Tail(out))
  BY <1>3, LenProperties
<1>5. Head(out) = out[1]
  OBVIOUS
<1> QED
  BY <1>2, <1>3, <1>4, <1>5

\* The oldest message leaves the channel, and is told or counts as lost.
LEMMA Leaves ==
  ASSUME TypeOK, Reported, out # <<>>, out' = Tail(out),
         UNCHANGED <<pc, current>>,
         lost => lost',
         ~lost' => home' = IF Head(out) = Other THEN home ELSE Head(out)
  PROVE  Reported'
<1>1. /\ Len(out) \in Nat \ {0}
      /\ DOMAIN out = 1 .. Len(out) /\ DOMAIN out' = 1 .. Len(out) - 1
      /\ Len(out') = Len(out) - 1
      /\ Head(out) = out[1]
      /\ \A i \in 1 .. Len(out) - 1 : out'[i] = out[i + 1]
  BY Shifted
<1> SUFFICES ASSUME pc # "sending", ~lost', current # Unknown
             PROVE  /\ (\A i \in DOMAIN out' : out'[i] = Other) => home' = current
                    /\ \A i \in DOMAIN out' :
                         out'[i] # Other /\ (\A k \in i + 1 .. Len(out') : out'[k] = Other)
                           => out'[i] = current
  BY DEF Reported
<1>2. /\ (\A i \in 1 .. Len(out) : out[i] = Other) => home = current
      /\ \A i \in 1 .. Len(out) :
           out[i] # Other /\ (\A k \in i + 1 .. Len(out) : out[k] = Other) => out[i] = current
  BY <1>1 DEF Reported
<1>3. ASSUME \A i \in 1 .. Len(out) - 1 : out'[i] = Other
      PROVE  home' = current
  <2>1. \A k \in 2 .. Len(out) : out[k] = Other
    <3>1. ASSUME NEW k \in 2 .. Len(out) PROVE out[k] = Other
      <4>1. k - 1 \in 1 .. Len(out) - 1 /\ (k - 1) + 1 = k
        BY <1>1
      <4>2. out'[k - 1] = out[k]
        BY <1>1, <4>1
      <4> QED
        BY <1>3, <4>1, <4>2
    <3> QED
      BY <3>1
  <2>2. CASE out[1] = Other
    <3>1. \A i \in 1 .. Len(out) : out[i] = Other
      BY <1>1, <2>1, <2>2
    <3> QED
      BY <1>1, <1>2, <2>2, <3>1
  <2>3. CASE out[1] # Other
    <3>1. out[1] = current
      BY <1>1, <1>2, <2>1, <2>3
    <3> QED
      BY <1>1, <2>3, <3>1
  <2> QED
    BY <2>2, <2>3
<1>4. ASSUME NEW i \in 1 .. Len(out) - 1,
             out'[i] # Other, \A k \in i + 1 .. Len(out) - 1 : out'[k] = Other
      PROVE  out'[i] = current
  <2>1. i + 1 \in 1 .. Len(out) /\ out'[i] = out[i + 1]
    BY <1>1
  <2>2. ASSUME NEW k \in (i + 1) + 1 .. Len(out) PROVE out[k] = Other
    <3>1. k - 1 \in i + 1 .. Len(out) - 1 /\ k - 1 \in 1 .. Len(out) - 1 /\ (k - 1) + 1 = k
      BY <1>1
    <3>2. out'[k - 1] = out[k]
      BY <1>1, <3>1
    <3> QED
      BY <1>4, <3>1, <3>2
  <2> QED
    BY <1>2, <1>4, <2>1, <2>2
<1> QED
  BY <1>1, <1>3, <1>4

\* A message m joins the channel.
LEMMA Joins ==
  ASSUME TypeOK, NEW m \in BOOLEAN \cup {Other}, out' = Append(out, m)
  PROVE  /\ Len(out) \in Nat
         /\ DOMAIN out = 1 .. Len(out) /\ DOMAIN out' = 1 .. Len(out) + 1
         /\ Len(out') = Len(out) + 1
         /\ \A i \in 1 .. Len(out) : out'[i] = out[i]
         /\ out'[Len(out) + 1] = m
<1>1. out \in Seq(BOOLEAN \cup {Other})
  BY DEF TypeOK
<1>2. Len(out) \in Nat /\ DOMAIN out = 1 .. Len(out)
  BY <1>1, LenProperties
<1>3. /\ Append(out, m) \in Seq(BOOLEAN \cup {Other})
      /\ Len(Append(out, m)) = Len(out) + 1
      /\ \A i \in 1 .. Len(out) : Append(out, m)[i] = out[i]
      /\ Append(out, m)[Len(out) + 1] = m
  BY <1>1, AppendProperties
<1>4. DOMAIN Append(out, m) = 1 .. Len(Append(out, m))
  BY <1>3, LenProperties
<1> QED
  BY <1>2, <1>3, <1>4

\* Every step preserves what the invariant says of the reports.
LEMMA NextReported ==
  ASSUME IInv, [Next]_vars
  PROVE  Reported'
<1> USE DEF IInv, task, channel, command
<1>1. CASE ReadSucceeds
  BY <1>1 DEF ReadSucceeds, Reported
<1>2. CASE ReadFails
  <2>1. pc' \in {"reading", "waiting"}
    BY <1>2 DEF ReadFails
  <2> QED
    BY <1>2, <2>1, ReportedStays DEF ReadFails
<1>3. CASE TakeRequest
  BY <1>3, ReportedStays DEF TakeRequest
<1>4. CASE WriteSucceeds
  BY <1>4 DEF WriteSucceeds, Reported
<1>5. ASSUME NEW outcome \in Outcome, WriteFails(outcome) PROVE Reported'
  BY <1>5, ReportedStays DEF WriteFails
<1>6. ASSUME NEW outcome \in Outcome, GiveUp(outcome) PROVE Reported'
  BY <1>6 DEF GiveUp, NotKnown, Reported
<1>7. CASE Report
  <2>1. current \in BOOLEAN /\ current # Other
    BY <1>7, UnknownAssumption DEF Report, DefiniteInHand, TypeOK, State
  <2>2. /\ Len(out) \in Nat
        /\ DOMAIN out' = 1 .. Len(out) + 1 /\ Len(out') = Len(out) + 1
        /\ out'[Len(out) + 1] = current
    BY <1>7, <2>1, Joins DEF Report
  <2>3. ASSUME NEW i \in DOMAIN out', out'[i] # Other,
               \A k \in i + 1 .. Len(out') : out'[k] = Other
        PROVE  out'[i] = current
    <3>1. i = Len(out) + 1
      BY <2>1, <2>2, <2>3
    <3> QED
      BY <2>2, <3>1
  <2>4. ~ \A i \in DOMAIN out' : out'[i] = Other
    BY <2>1, <2>2
  <2>5. pc' = "waiting" /\ current' = current
    BY <1>7 DEF Report
  <2> QED
    BY <2>3, <2>4, <2>5 DEF Reported
<1>8. ASSUME NEW c \in BOOLEAN, Command(c) PROVE Reported'
  BY <1>8, ReportedStays DEF Command
<1>9. CASE OthersSend
  <2>1. /\ Len(out) \in Nat
        /\ DOMAIN out = 1 .. Len(out) /\ DOMAIN out' = 1 .. Len(out) + 1
        /\ Len(out') = Len(out) + 1
        /\ \A i \in 1 .. Len(out) : out'[i] = out[i]
        /\ out'[Len(out) + 1] = Other
    BY <1>9, Joins DEF OthersSend
  <2>2. UNCHANGED <<pc, current, home, lost>>
    BY <1>9 DEF OthersSend
  <2>3. ASSUME \A i \in DOMAIN out' : out'[i] = Other
        PROVE  \A i \in DOMAIN out : out[i] = Other
    BY <2>1, <2>3
  <2>4. ASSUME NEW i \in DOMAIN out', out'[i] # Other,
               \A k \in i + 1 .. Len(out') : out'[k] = Other
        PROVE  i \in DOMAIN out /\ out[i] = out'[i] /\ \A k \in i + 1 .. Len(out) : out[k] = Other
    BY <2>1, <2>4
  <2> QED
    BY <2>2, <2>3, <2>4 DEF Reported
<1>10. CASE Deliver
  BY <1>10, Leaves DEF Deliver
<1>11. CASE Lose
  <2>1. lost => lost'
    BY <1>11 DEF Lose
  <2>2. ~lost' => home' = IF Head(out) = Other THEN home ELSE Head(out)
    BY <1>11 DEF Lose
  <2> QED
    BY <1>11, <2>1, <2>2, Leaves DEF Lose
<1>12. CASE UNCHANGED vars
  BY <1>12, ReportedStays DEF vars
<1> QED
  BY <1>1, <1>2, <1>3, <1>4, <1>5, <1>6, <1>7, <1>8, <1>9, <1>10, <1>11, <1>12
     DEF Next, Write

\* Every step preserves the invariant.
LEMMA NextInv == IInv /\ [Next]_vars => IInv'
BY NextContact, NextReported DEF IInv

\* The invariant holds in every state the routine reaches.
THEOREM Invariance == Spec => []IInv
<1>1. Init => IInv
  BY InitInv
<1>2. IInv /\ [Next]_vars => IInv'
  BY NextInv
<1> QED
  BY <1>1, <1>2, PTL DEF Spec

\* Unless it dropped a write that was not confirmed, the routine never believes
\* in a state the contact is not in: on this rests skipping a satisfied command.
THEOREM BeliefIsTrue == Spec => []BelievesContact
<1>1. IInv => BelievesContact
  BY DEF IInv
<1> QED
  BY <1>1, Invariance, PTL

\* An idle routine that neither gave up nor dropped a write has put the contact
\* where Home Assistant wanted it last, whatever came in while it was retrying.
THEOREM LatestCommandIsCarriedOut == Spec => []LatestCommandWins
<1>1. IInv => LatestCommandWins
  BY DEF IInv, CommandUnderway, BelievesContact, LatestCommandWins, Idle
<1> QED
  BY <1>1, Invariance, PTL

\* Home Assistant has been told every state the routine believes in, for any room in
\* the channel and however many others use it, unless a report was lost on the way.
THEOREM BeliefIsTold == Spec => []HomeHasBelief
<1>1. IInv => HomeHasBelief
  BY DEF IInv, Reported, HomeHasBelief
<1> QED
  BY <1>1, Invariance, PTL
=============================================================================
