-------------------------- MODULE ModbusLinkProofs --------------------------
(***************************************************************************)
(* What the Modbus client guarantees for any devices, functions, registers *)
(* and values, any budget of stray bytes and any number of disturbances.   *)
(***************************************************************************)
EXTENDS ModbusLink, SequenceTheorems, TLAPS

\* The fields of requests and answers.
LEMMA Fields ==
  /\ \A q \in Request : /\ q.device \in Device /\ q.function \in Function
                        /\ q.register \in Register /\ q.value \in Value
  /\ \A a \in Answer : /\ a.device \in Device /\ a.function \in Function
                       /\ a.register \in Register /\ a.value \in Held
                       /\ a.exception \in BOOLEAN /\ a.fresh \in BOOLEAN
                       /\ Aged(a) \in Answer
  /\ \A s \in Received : s.byte \in Byte /\ s.of \in Answer \cup {Line} /\ s.at \in Nat
  BY DEF Request, Answer, Received, Aged

\* What is stored for a written value is among what registers hold.
LEMMA Stored ==
  /\ \A f \in Function, v \in Value : Masked(f, v) \in Held
  /\ Value \subseteq Held
  /\ 0 \in Held
  BY RequestAssumption DEF Masked, Held

\* The bytes of an answer say in their order whose they are.
LEMMA FrameShape ==
  ASSUME NEW a \in Answer
  PROVE  /\ Frame(a) \in Seq(Received)
         /\ FrameLength(a) \in Nat
         /\ Len(Frame(a)) = FrameLength(a)
         /\ FrameLength(a) > HEADER_LENGTH
         /\ \A i \in 1 .. FrameLength(a) : Frame(a)[i].of = a /\ Frame(a)[i].at = i
         /\ Frame(a)[1].byte = a.device
         /\ Frame(a)[2].byte = Code(a.function, a.exception)
<1>1. FrameLength(a) \in Nat /\ FrameLength(a) > 2
  BY DEF FrameLength, BodyLength, HEADER_LENGTH, EXCEPTION_LENGTH
<1>2. a.device \in Byte /\ Code(a.function, a.exception) \in Byte /\ Other \in Byte
  BY Fields DEF Byte
<1>3. ASSUME NEW i \in 1 .. FrameLength(a)
      PROVE  /\ Frame(a)[i].of = a /\ Frame(a)[i].at = i
             /\ Frame(a)[i].byte = CASE i = 1 -> a.device
                                     [] i = 2 -> Code(a.function, a.exception)
                                     [] OTHER -> Other
             /\ Frame(a)[i] \in Received
  BY <1>1, <1>2 DEF Frame, Received
<1>4. Frame(a) = [i \in 1 .. FrameLength(a) |-> Frame(a)[i]]
  BY DEF Frame
<1>5. Frame(a) \in Seq(Received) /\ Len(Frame(a)) = FrameLength(a)
  BY <1>1, <1>3, <1>4, IsASeq, LenProperties
<1>6. 1 \in 1 .. FrameLength(a) /\ 2 \in 1 .. FrameLength(a)
  BY <1>1
<1> QED
  BY <1>1, <1>3, <1>5, <1>6 DEF HEADER_LENGTH

\* What is left of the receive buffer when its first k bytes are gone.
LEMMA Rest ==
  ASSUME LineTypeOK, NEW k \in 0 .. Len(buffer)
  PROVE  /\ After(k) \in Seq(Received)
         /\ Len(buffer) \in Nat
         /\ Len(After(k)) = Len(buffer) - k
         /\ \A i \in 1 .. Len(buffer) - k : k + i \in 1 .. Len(buffer) /\ After(k)[i] = buffer[k + i]
<1>1. buffer \in Seq(Received) /\ Len(buffer) \in Nat
  BY LenProperties DEF LineTypeOK
<1>2. \A i \in k + 1 .. Len(buffer) : buffer[i] \in Received
  BY <1>1, ElementOfSeq
<1>3. /\ SubSeq(buffer, k + 1, Len(buffer)) \in Seq(Received)
      /\ Len(SubSeq(buffer, k + 1, Len(buffer))) =
           IF k + 1 <= Len(buffer) THEN Len(buffer) - (k + 1) + 1 ELSE 0
      /\ \A i \in 1 .. Len(buffer) - (k + 1) + 1 :
           SubSeq(buffer, k + 1, Len(buffer))[i] = buffer[k + 1 + i - 1]
  BY <1>1, <1>2, SubSeqProperties
<1>4. \A i \in 1 .. Len(buffer) - k : k + 1 + i - 1 = k + i /\ k + i \in 1 .. Len(buffer)
  BY <1>1
<1>5. Len(buffer) - (k + 1) + 1 = Len(buffer) - k
  BY <1>1
<1> QED
  BY <1>1, <1>3, <1>4, <1>5 DEF After

\* However a read ends, it takes a number of bytes from the front of the buffer.
LEMMA ReadsFromFront ==
  ASSUME LineTypeOK, NEW n \in Nat, Takes(n) \/ Errs(n) \/ GivesUpWaiting(n)
  PROVE  \E k \in 0 .. Len(buffer) : buffer' = After(k)
<1>1. buffer \in Seq(Received) /\ Len(buffer) \in Nat /\ DOMAIN buffer = 1 .. Len(buffer)
  BY LenProperties DEF LineTypeOK
<1>2. CASE Takes(n)
  BY <1>1, <1>2 DEF Takes, CanRead
<1>3. CASE Errs(n)
  BY <1>1, <1>3 DEF Errs
<1>4. CASE GivesUpWaiting(n)
  <2>0. Len(buffer) \in 0 .. Len(buffer) /\ Len(buffer) - Len(buffer) = 0
    BY <1>1
  <2>1. Len(After(Len(buffer))) = 0 /\ After(Len(buffer)) \in Seq(Received)
    BY <2>0, Rest
  <2>2. After(Len(buffer)) = <<>>
    BY <2>1, EmptySeq
  <2> QED
    BY <1>1, <1>4, <2>2 DEF GivesUpWaiting
<1> QED
  BY <1>2, <1>3, <1>4

\* Reading keeps the bytes of the one answer in their order, and adds none.
LEMMA ReadingKeepsOrder ==
  ASSUME LineTypeOK, InOrder, NEW k \in 0 .. Len(buffer), buffer' = After(k),
         UNCHANGED <<request, held>>
  PROVE  /\ InOrder'
         /\ buffer' \in Seq(Received)
         /\ NoAnswerBytes => NoAnswerBytes'
<1>1. /\ buffer' \in Seq(Received) /\ Len(buffer') = Len(buffer) - k
      /\ buffer \in Seq(Received) /\ Len(buffer) \in Nat
      /\ \A i \in 1 .. Len(buffer) - k :
           k + i \in 1 .. Len(buffer) /\ buffer'[i] = buffer[k + i]
  BY Rest DEF LineTypeOK
<1>2. DOMAIN buffer = 1 .. Len(buffer) /\ DOMAIN buffer' = 1 .. Len(buffer) - k
  BY <1>1, LenProperties
<1>3. ASSUME NEW i \in DOMAIN buffer'
      PROVE  (IsOfAnswer(buffer[i]) =>
                IsTrue(buffer[i].of) /\ buffer[i].at \in 1 .. FrameLength(buffer[i].of))'
  <2>1. k + i \in DOMAIN buffer /\ buffer'[i] = buffer[k + i]
    BY <1>1, <1>2
  <2>2. IsOfAnswer(buffer[k + i]) =>
          /\ IsTrue(buffer[k + i].of)
          /\ buffer[k + i].at \in 1 .. FrameLength(buffer[k + i].of)
    BY <2>1 DEF InOrder
  <2> QED
    BY <2>1, <2>2 DEF IsTrue, IsOfAnswer
<1>5. \A i, j \in DOMAIN buffer' :
        i < j /\ IsOfAnswer(buffer'[i]) /\ IsOfAnswer(buffer'[j])
          => buffer'[i].at < buffer'[j].at
  <2> SUFFICES ASSUME NEW i \in DOMAIN buffer', NEW j \in DOMAIN buffer', i < j,
                      IsOfAnswer(buffer'[i]), IsOfAnswer(buffer'[j])
               PROVE  buffer'[i].at < buffer'[j].at
    OBVIOUS
  <2>1. /\ k + i \in DOMAIN buffer /\ buffer'[i] = buffer[k + i]
        /\ k + j \in DOMAIN buffer /\ buffer'[j] = buffer[k + j]
        /\ k + i < k + j
    BY <1>1, <1>2
  <2> QED
    BY <2>1 DEF InOrder
<1>6. NoAnswerBytes => NoAnswerBytes'
  BY <1>1, <1>2 DEF NoAnswerBytes
<1> QED
  BY <1>1, <1>3, <1>5, <1>6 DEF InOrder, IsOfAnswer

-----------------------------------------------------------------------------
(***************************************************************************)
(* The devices                                                             *)
(***************************************************************************)

\* A device answers at most once, and truly.
LEMMA Reaction ==
  ASSUME NEW q \in Request, LineTypeOK, NEW r \in Reactions(q)
  PROVE  /\ r.registers \in [Register -> Held]
         /\ \/ r.answers = <<>>
            \/ \E a \in Answer :
                 /\ r.answers = <<a>>
                 /\ a.fresh /\ a.device = q.device /\ a.function = q.function
                 /\ a.register = q.register
                 /\ ~a.exception => r.registers[q.register] =
                      IF q.function \in Writes THEN Masked(q.function, q.value) ELSE a.value
<1> DEFINE answer(v) == [device |-> q.device, function |-> q.function, register |-> q.register,
                         value |-> v, exception |-> FALSE, fresh |-> TRUE]
           stored == [held[q.device] EXCEPT ![q.register] = Masked(q.function, q.value)]
           after  == IF q.function \in Writes THEN stored ELSE held[q.device]
<1>1. /\ q.device \in Device /\ q.function \in Function /\ q.register \in Register
      /\ q.value \in Held /\ Masked(q.function, q.value) \in Held /\ 0 \in Held
  BY Fields, Stored
<1>2. held[q.device] \in [Register -> Held] /\ held[q.device][q.register] \in Held
  BY <1>1 DEF LineTypeOK
<1>3. stored \in [Register -> Held] /\ stored[q.register] = Masked(q.function, q.value)
  BY <1>1, <1>2
<1>4. after \in [Register -> Held]
      /\ (q.function \in Writes => after[q.register] = Masked(q.function, q.value))
  BY <1>2, <1>3
<1>5. \A v \in Held : answer(v) \in Answer
                       /\ [answer(v) EXCEPT !.exception = TRUE] \in Answer
  BY <1>1 DEF Answer
<1>6. \/ \E v \in IF q.function \in Writes THEN {q.value, Masked(q.function, q.value)}
                   ELSE {held[q.device][q.register]} :
            r = [registers |-> after, answers |-> <<answer(v)>>]
      \/ r = [registers |-> held[q.device], answers |-> <<>>]
      \/ r = [registers |-> held[q.device],
              answers |-> <<[answer(0) EXCEPT !.exception = TRUE]>>]
      \/ r = [registers |-> after, answers |-> <<>>]
  BY DEF Reactions
<1> HIDE DEF after, stored
<1>7. CASE \E v \in IF q.function \in Writes THEN {q.value, Masked(q.function, q.value)}
                    ELSE {held[q.device][q.register]} :
             r = [registers |-> after, answers |-> <<answer(v)>>]
  <2>1. PICK v \in IF q.function \in Writes THEN {q.value, Masked(q.function, q.value)}
                   ELSE {held[q.device][q.register]} :
               r = [registers |-> after, answers |-> <<answer(v)>>]
    BY <1>7
  <2>2. v \in Held /\ (q.function \notin Writes => v = held[q.device][q.register])
    BY <1>1, <1>2, <2>1
  <2>3. q.function \notin Writes => after[q.register] = v
    BY <2>2 DEF after
  <2> QED
    BY <1>4, <1>5, <2>1, <2>2, <2>3
<1>8. CASE r = [registers |-> held[q.device],
                answers |-> <<[answer(0) EXCEPT !.exception = TRUE]>>]
  BY <1>1, <1>2, <1>5, <1>8
<1>9. CASE \E registers \in {after, held[q.device]} : r = [registers |-> registers, answers |-> <<>>]
  BY <1>2, <1>4, <1>9
<1> QED
  BY <1>6, <1>7, <1>8, <1>9

-----------------------------------------------------------------------------
(***************************************************************************)
(* The client                                                              *)
(***************************************************************************)

\* A read leaves the line as it has to be.
LEMMA ClientReads ==
  ASSUME LineTypeOK, NEW n \in Nat, Takes(n) \/ Errs(n) \/ GivesUpWaiting(n),
         UNCHANGED <<request, held, owed, noise>>
  PROVE  /\ LineTypeOK'
         /\ ToCome /\ InOrder => ToCome' /\ InOrder'
<1>1. PICK k \in 0 .. Len(buffer) : buffer' = After(k)
  BY ReadsFromFront
<1>2. LineTypeOK'
  BY <1>1, Rest DEF LineTypeOK
<1>3. ASSUME ToCome, InOrder PROVE ToCome' /\ InOrder'
  <2>1. InOrder' /\ (NoAnswerBytes => NoAnswerBytes')
    BY <1>1, <1>3, ReadingKeepsOrder
  <2> QED
    BY <1>3, <2>1 DEF ToCome, IsTrue
<1> QED
  BY <1>2, <1>3

\* A failure leaves the client as it has to be, whatever it had read.
LEMMA FailureClears ==
  ASSUME ClientTypeOK, Fails, UNCHANGED <<request, driver>>
  PROVE  /\ ClientTypeOK' /\ Budget' /\ HeaderFound' /\ Confirmed' /\ pc' = "clearing"
         /\ left' = {} => left = {} /\ NothingOwed
<1>1. <<>> \in Seq(Received)
  BY EmptySeq
<1>2. left' \subseteq {"early", "error"} /\ (left' = {} => left = {} /\ NothingOwed)
  BY DEF ClientTypeOK, Fails, Recorded
<1>3. ClientTypeOK'
  BY <1>1, <1>2, BoundAssumption DEF ClientTypeOK, Fails, Wait
<1> QED
  BY <1>2, <1>3, BoundAssumption DEF Fails, Budget, HeaderFound, Confirmed

\* Nothing is confirmed while a transaction goes on.
LEMMA GoesOn ==
  ASSUME Confirmed, pc # "idle", UNCHANGED outcome
  PROVE  Confirmed'
  BY DEF Confirmed

LEMMA ReadHeaderStep ==
  ASSUME IInv, ReadHeader
  PROVE  IInv'
<1> USE DEF ReadHeader
<1>1. /\ ClientTypeOK /\ LineTypeOK /\ Budget /\ HeaderFound /\ (left = {} => OneAnswer) /\ Confirmed
      /\ buffer \in Seq(Received)
  BY DEF IInv, LineTypeOK
<1>2. LineTypeOK' /\ (ToCome /\ InOrder => ToCome' /\ InOrder')
  <2>1. HEADER_LENGTH \in Nat
    BY DEF HEADER_LENGTH
  <2>2. Takes(HEADER_LENGTH) \/ Errs(HEADER_LENGTH) \/ GivesUpWaiting(HEADER_LENGTH)
    BY DEF ReadsOn
  <2> QED
    BY <1>1, <2>1, <2>2, ClientReads
<1>3. /\ ClientTypeOK' /\ Budget' /\ HeaderFound' /\ Confirmed' /\ pc' \notin {"idle", "sending"}
      /\ left' = {} => left = {} /\ (pc' = "clearing" => NothingOwed)
  <2>1. CASE Takes(HEADER_LENGTH) /\ response' = SubSeq(buffer, 1, HEADER_LENGTH)
             /\ Continues("search") /\ UNCHANGED stepped
    <3>1. Len(buffer) \in Nat /\ Len(buffer) >= 2
      BY <1>1, <2>1, LenProperties DEF Takes, CanRead, HEADER_LENGTH
    <3>2. \A i \in 1 .. 2 : buffer[i] \in Received
      BY <1>1, <3>1, ElementOfSeq
    <3>3. response' \in Seq(Received) /\ Len(response') = 2
      BY <1>1, <2>1, <3>1, <3>2, SubSeqProperties DEF HEADER_LENGTH
    <3>4. ClientTypeOK' /\ pc' = "search"
      BY <1>1, <2>1, <3>3 DEF ClientTypeOK, Continues, Wait
    <3> QED
      BY <1>1, <2>1, <3>3, <3>4, GoesOn DEF Continues, Budget, HeaderFound, HEADER_LENGTH
  <2>2. CASE ReadsOn(HEADER_LENGTH)
    <3>1. ClientTypeOK' /\ Budget' /\ HeaderFound' /\ pc' = "header"
      BY <1>1, <2>2, BoundAssumption DEF ClientTypeOK, ReadsOn, Budget, HeaderFound
    <3> QED
      BY <1>1, <2>2, <3>1, GoesOn DEF ReadsOn
  <2>3. CASE Fails
    BY <1>1, <2>3, FailureClears
  <2> QED
    BY <2>1, <2>2, <2>3
<1> QED
  BY <1>1, <1>2, <1>3 DEF IInv, OneAnswer, NothingOwed

LEMMA SearchHeaderStep ==
  ASSUME IInv, SearchHeader
  PROVE  IInv'
<1> USE DEF SearchHeader
<1>1. /\ ClientTypeOK /\ LineTypeOK /\ Budget /\ HeaderFound /\ (left = {} => OneAnswer) /\ Confirmed
  BY DEF IInv
<1>2. LineTypeOK' /\ (ToCome => ToCome') /\ (InOrder => InOrder')
  BY <1>1 DEF LineTypeOK, ToCome, InOrder, NoAnswerBytes, IsTrue, IsOfAnswer
<1>3. /\ ClientTypeOK' /\ Budget' /\ HeaderFound' /\ Confirmed' /\ pc' \notin {"idle", "sending"}
      /\ left' = {} => left = {} /\ (pc' = "clearing" => NothingOwed)
  <2>1. CASE Fails
    BY <1>1, <2>1, FailureClears
  <2>2. CASE StartsAnswer(response, request) /\ UNCHANGED <<response, stepped>>
             /\ Continues(IF IsException(response) THEN "exception" ELSE "body")
    <3>1. ClientTypeOK' /\ Budget' /\ pc' \in {"exception", "body"}
      BY <1>1, <2>2 DEF ClientTypeOK, Continues, Wait, Budget
    <3>2. HeaderFound'
      BY <1>1, <2>2 DEF HeaderFound, Continues, StartsAnswer, IsException
    <3> QED
      BY <1>1, <2>2, <3>1, <3>2, GoesOn DEF Continues
  <2>3. CASE stepped < MaxStray /\ Continues("stepping") /\ UNCHANGED <<response, stepped>>
    <3>1. ClientTypeOK' /\ Budget' /\ pc' = "stepping"
      BY <1>1, <2>3, BoundAssumption DEF ClientTypeOK, Continues, Wait, Budget
    <3>2. HeaderFound'
      BY <1>1, <2>3 DEF HeaderFound, Continues
    <3> QED
      BY <1>1, <2>3, <3>1, <3>2, GoesOn DEF Continues
  <2> QED
    BY <2>1, <2>2, <2>3
<1> QED
  BY <1>1, <1>2, <1>3 DEF IInv, OneAnswer, NothingOwed

LEMMA StepOverStep ==
  ASSUME IInv, StepOver
  PROVE  IInv'
<1> USE DEF StepOver
<1>1. /\ ClientTypeOK /\ LineTypeOK /\ Budget /\ HeaderFound /\ (left = {} => OneAnswer) /\ Confirmed
      /\ buffer \in Seq(Received)
  BY DEF IInv, LineTypeOK
<1>2. LineTypeOK' /\ (ToCome /\ InOrder => ToCome' /\ InOrder')
  <2>1. Takes(1) \/ Errs(1) \/ GivesUpWaiting(1)
    BY DEF ReadsOn
  <2> QED
    BY <1>1, <2>1, ClientReads
<1>3. /\ ClientTypeOK' /\ Budget' /\ HeaderFound' /\ Confirmed' /\ pc' \notin {"idle", "sending"}
      /\ left' = {} => left = {} /\ (pc' = "clearing" => NothingOwed)
  <2>1. CASE Takes(1) /\ response' = <<response[2], buffer[1]>> /\ stepped' = stepped + 1
             /\ Continues("search")
    <3>1. response \in Seq(Received) /\ Len(response) = 2
      BY <1>1, <2>1 DEF HeaderFound, ClientTypeOK, HEADER_LENGTH
    <3>2. response[2] \in Received /\ buffer[1] \in Received
      <4>1. Len(buffer) \in Nat /\ Len(buffer) >= 1
        BY <1>1, <2>1, LenProperties DEF Takes, CanRead
      <4>2. 2 \in 1 .. Len(response) /\ 1 \in 1 .. Len(buffer)
        BY <3>1, <4>1
      <4> QED
        BY <1>1, <3>1, <4>2, ElementOfSeq
    <3>3. response' \in Seq(Received) /\ Len(response') = 2
      BY <2>1, <3>2
    <3>4. stepped' \in 0 .. MaxStray + 1
      BY <1>1, <2>1, BoundAssumption DEF Budget, ClientTypeOK
    <3>5. ClientTypeOK' /\ pc' = "search"
      BY <1>1, <2>1, <3>3, <3>4 DEF ClientTypeOK, Continues, Wait
    <3> QED
      BY <1>1, <2>1, <3>3, <3>5, GoesOn DEF Continues, Budget, HeaderFound, HEADER_LENGTH
  <2>2. CASE ReadsOn(1)
    <3>1. ClientTypeOK' /\ Budget' /\ HeaderFound' /\ pc' = "stepping"
      BY <1>1, <2>2, BoundAssumption DEF ClientTypeOK, ReadsOn, Budget, HeaderFound
    <3> QED
      BY <1>1, <2>2, <3>1, GoesOn DEF ReadsOn
  <2>3. CASE Fails
    BY <1>1, <2>3, FailureClears
  <2> QED
    BY <2>1, <2>2, <2>3
<1> QED
  BY <1>1, <1>2, <1>3 DEF IInv, OneAnswer, NothingOwed

LEMMA ReadExceptionStep ==
  ASSUME IInv, ReadException
  PROVE  IInv'
<1> USE DEF ReadException
<1>1. /\ ClientTypeOK /\ LineTypeOK /\ (left = {} => OneAnswer)
  BY DEF IInv
<1>2. LineTypeOK' /\ (ToCome /\ InOrder => ToCome' /\ InOrder')
  <2>1. EXCEPTION_LENGTH \in Nat
    BY DEF EXCEPTION_LENGTH
  <2> QED
    BY <1>1, <2>1, ClientReads
<1>3. /\ ClientTypeOK' /\ Budget' /\ HeaderFound' /\ Confirmed' /\ pc' = "clearing"
      /\ left' = {} => left = {} /\ NothingOwed
  BY <1>1, FailureClears
<1> QED
  BY <1>1, <1>2, <1>3 DEF IInv, OneAnswer, NothingOwed

\* What is read to the end with a matching checksum is an answer of the device that
\* was asked, and on a clean line the only one: nothing of it is left behind.
LEMMA BodyIsAnswer ==
  ASSUME IInv, pc = "body", NEW n, n = BodyLength(request.function), Takes(n),
         NEW read, read = response \o SubSeq(buffer, 1, n), HasChecksum(read)
  PROVE  /\ read[1].of \in Answer
         /\ read[1].of.device = request.device
         /\ read[1].of.function = request.function
         /\ ~read[1].of.exception
         /\ OneAnswer => /\ IsTrue(read[1].of)
                         /\ NothingOwed
                         /\ \A i \in n + 1 .. Len(buffer) : ~IsOfAnswer(buffer[i])
<1>1. /\ response \in Seq(Received) /\ Len(response) = 2
      /\ StartsAnswer(response, request) /\ ~IsException(response)
      /\ buffer \in Seq(Received) /\ request \in Request
  BY DEF IInv, ClientTypeOK, LineTypeOK, HeaderFound, HEADER_LENGTH
<1>2. n \in Nat /\ n > 0 /\ n <= Len(buffer) /\ Len(buffer) \in Nat
  BY <1>1, LenProperties DEF BodyLength, Takes, CanRead
<1>3. /\ SubSeq(buffer, 1, n) \in Seq(Received) /\ Len(SubSeq(buffer, 1, n)) = n
      /\ \A i \in 1 .. n : SubSeq(buffer, 1, n)[i] = buffer[i]
  <2>1. \A i \in 1 .. n : buffer[i] \in Received
    BY <1>1, <1>2, ElementOfSeq
  <2> QED
    BY <1>1, <1>2, <2>1, SubSeqProperties
<1>4. /\ read \in Seq(Received) /\ Len(read) = 2 + n
      /\ read[1] = response[1] /\ read[2] = response[2]
      /\ \A i \in 1 .. n : read[2 + i] = buffer[i]
  <2>1. /\ read \in Seq(Received) /\ Len(read) = 2 + n
        /\ \A i \in 1 .. 2 + n :
             read[i] = IF i <= 2 THEN response[i] ELSE SubSeq(buffer, 1, n)[i - 2]
    <3> DEFINE window == SubSeq(buffer, 1, n)
    <3>1. window \in Seq(Received) /\ Len(window) = n /\ read = response \o window
      BY <1>3
    <3> HIDE DEF window
    <3>2. /\ response \o window \in Seq(Received)
          /\ Len(response \o window) = Len(response) + Len(window)
          /\ \A i \in 1 .. Len(response) + Len(window) : (response \o window)[i] =
               IF i <= Len(response) THEN response[i] ELSE window[i - Len(response)]
      BY <1>1, <3>1, ConcatProperties
    <3> QED
      BY <1>1, <3>1, <3>2 DEF window
  <2>2. 1 \in 1 .. 2 + n /\ 2 \in 1 .. 2 + n
    BY <1>2
  <2>3. ASSUME NEW i \in 1 .. n PROVE read[2 + i] = buffer[i]
    <3>1. 2 + i \in 1 .. 2 + n /\ ~(2 + i <= 2) /\ 2 + i - 2 = i
      BY <1>2
    <3> QED
      BY <1>3, <2>1, <3>1
  <2> QED
    BY <2>1, <2>2, <2>3
<1> DEFINE a == read[1].of
<1>5. a \in Answer /\ read = Frame(a)
  <2>1. read[1] \in Received
    BY <1>2, <1>4, ElementOfSeq
  <2> QED
    BY <2>1, Fields DEF HasChecksum
<1> HIDE DEF a
<1>6. /\ FrameLength(a) = 2 + n
      /\ \A i \in 1 .. 2 + n : read[i].of = a /\ read[i].at = i
      /\ read[1].byte = a.device /\ read[2].byte = Code(a.function, a.exception)
  BY <1>4, <1>5, FrameShape
<1>7. a.device = request.device /\ a.function = request.function /\ ~a.exception
  <2>1. /\ read[1].byte = request.device
        /\ read[2].byte \in {Code(request.function, FALSE), Code(request.function, TRUE)}
        /\ read[2].byte # Code(request.function, TRUE)
    BY <1>1, <1>4 DEF StartsAnswer, IsException
  <2>2. Code(a.function, a.exception) = Code(request.function, FALSE)
    BY <1>6, <2>1
  <2> QED
    BY <1>6, <2>1, <2>2 DEF Code
<1>8. ASSUME OneAnswer
      PROVE  /\ IsTrue(a) /\ NothingOwed
             /\ \A i \in n + 1 .. Len(buffer) : ~IsOfAnswer(buffer[i])
  <2>1. ToCome /\ InOrder
    BY <1>8 DEF OneAnswer
  <2>2. n \in DOMAIN buffer /\ buffer[n].of = a /\ buffer[n].at = 2 + n /\ IsOfAnswer(buffer[n])
    <3>1. 2 + n \in 1 .. 2 + n /\ n \in 1 .. n /\ n \in 1 .. Len(buffer)
      BY <1>2
    <3>2. a # Line
      BY <1>5, ModelValuesAssumption
    <3> QED
      BY <1>1, <1>4, <1>6, <3>1, <3>2, LenProperties DEF IsOfAnswer
  <2>3. IsTrue(a)
    BY <2>1, <2>2 DEF InOrder
  <2>4. NothingOwed
    BY <2>1, <2>2 DEF ToCome, NoAnswerBytes, NothingOwed
  <2>5. ASSUME NEW i \in n + 1 .. Len(buffer), IsOfAnswer(buffer[i])
        PROVE  FALSE
    <3>1. i \in DOMAIN buffer /\ n < i /\ buffer[i] \in Received /\ buffer[i].of \in Answer
      <4>1. i \in 1 .. Len(buffer) /\ n < i
        BY <1>2, <2>5
      <4>2. buffer[i] \in Received
        BY <1>1, <4>1, ElementOfSeq
      <4> QED
        BY <1>1, <2>5, <4>1, <4>2, LenProperties, Fields DEF IsOfAnswer
    <3>2. buffer[i].at > 2 + n /\ buffer[i].at <= FrameLength(buffer[i].of)
      BY <1>2, <2>1, <2>2, <2>5, <3>1, FrameShape DEF InOrder
    <3>3. IsTrue(buffer[i].of)
      BY <2>1, <2>5, <3>1 DEF InOrder
    <3>4. FrameLength(buffer[i].of) <= 2 + n
      BY <1>2, <3>1, <3>3 DEF FrameLength, IsTrue, HEADER_LENGTH, EXCEPTION_LENGTH
    <3>5. FrameLength(buffer[i].of) \in Nat /\ buffer[i].at \in Nat
      BY <3>1, FrameShape, Fields
    <3> QED
      BY <1>2, <3>2, <3>4, <3>5
  <2> QED
    BY <2>3, <2>4, <2>5
<1> QED
  BY <1>5, <1>7, <1>8 DEF a

LEMMA ReadBodyStep ==
  ASSUME IInv, ReadBody
  PROVE  IInv'
<1> USE DEF ReadBody
<1> DEFINE n    == BodyLength(request.function)
           read == response \o SubSeq(buffer, 1, n)
<1>1. /\ ClientTypeOK /\ LineTypeOK /\ (left = {} => OneAnswer) /\ buffer \in Seq(Received)
      /\ n \in Nat /\ Len(buffer) \in Nat
  BY LenProperties DEF IInv, LineTypeOK, BodyLength
<1>2. LineTypeOK' /\ (ToCome /\ InOrder => ToCome' /\ InOrder')
  BY <1>1, ClientReads
<1>3. CASE Fails
  <2>1. /\ ClientTypeOK' /\ Budget' /\ HeaderFound' /\ Confirmed' /\ pc' = "clearing"
        /\ left' = {} => left = {} /\ NothingOwed
    BY <1>1, <1>3, FailureClears
  <2> QED
    BY <1>1, <1>2, <2>1 DEF IInv, OneAnswer, NothingOwed
<1>4. CASE Takes(n) /\ Acceptable(request, read) /\ Succeeds(read[1].of)
  <2> HIDE DEF n, read
  <2>1. /\ read[1].of \in Answer
        /\ read[1].of.device = request.device
        /\ read[1].of.function = request.function
        /\ ~read[1].of.exception
        /\ OneAnswer => /\ IsTrue(read[1].of)
                        /\ NothingOwed
                        /\ \A i \in n + 1 .. Len(buffer) : ~IsOfAnswer(buffer[i])
    BY <1>4, BodyIsAnswer DEF n, read, Acceptable
  <2>2. ClientTypeOK' /\ Budget' /\ HeaderFound' /\ pc' = "idle"
    <3>1. <<>> \in Seq(Received)
      BY EmptySeq
    <3> QED
      BY <1>1, <1>4, <2>1, <3>1, BoundAssumption
         DEF ClientTypeOK, Succeeds, Wait, Budget, HeaderFound
  <2>3. Confirmed'
    BY <1>1, <1>4, <2>1 DEF Confirmed, Succeeds, IsTrue
  <2>4. ASSUME left = {}, OneAnswer PROVE OneAnswer'
    <3>1. NothingOwed'
      BY <2>1, <2>4 DEF NothingOwed
    <3>2. NoAnswerBytes'
      <4>1. n <= Len(buffer) /\ buffer' = After(n) /\ n \in 0 .. Len(buffer)
        BY <1>1, <1>4 DEF Takes, CanRead, n
      <4>2. /\ Len(buffer') = Len(buffer) - n /\ buffer' \in Seq(Received)
            /\ \A i \in 1 .. Len(buffer) - n : buffer'[i] = buffer[n + i]
        BY <1>1, <4>1, Rest
      <4>3. DOMAIN buffer' = 1 .. Len(buffer) - n
        BY <4>2, LenProperties
      <4>4. \A i \in 1 .. Len(buffer) - n : n + i \in n + 1 .. Len(buffer)
        BY <1>1, <4>1
      <4> QED
        BY <2>1, <2>4, <4>2, <4>3, <4>4 DEF NoAnswerBytes, IsOfAnswer
    <3> QED
      BY <1>2, <2>4, <3>1, <3>2 DEF OneAnswer
  <2>5. UNCHANGED left
    BY <1>4 DEF Succeeds
  <2> QED
    BY <1>1, <1>2, <2>2, <2>3, <2>4, <2>5 DEF IInv
<1> QED
  BY <1>3, <1>4

LEMMA DiscardStep ==
  ASSUME IInv, Discard
  PROVE  IInv'
<1> USE DEF Discard
<1>1. /\ ClientTypeOK /\ LineTypeOK /\ Budget /\ HeaderFound /\ (left = {} => OneAnswer) /\ Confirmed
      /\ buffer \in Seq(Received) /\ Len(buffer) \in Nat
  BY LenProperties DEF IInv, LineTypeOK
<1>2. \E k \in 0 .. Len(buffer) : buffer' = After(k)
  <2>1. CASE Errs(Len(buffer))
    BY <1>1, <2>1, ReadsFromFront
  <2>2. CASE buffer' = <<>>
    <3>1. Len(buffer) \in 0 .. Len(buffer) /\ Len(buffer) - Len(buffer) = 0
      BY <1>1
    <3>2. Len(After(Len(buffer))) = 0 /\ After(Len(buffer)) \in Seq(Received)
      BY <1>1, <3>1, Rest
    <3> QED
      BY <2>2, <3>1, <3>2, EmptySeq
  <2> QED
    BY <2>1, <2>2
<1>3. LineTypeOK' /\ (ToCome /\ InOrder => ToCome' /\ InOrder')
  <2>1. LineTypeOK'
    BY <1>1, <1>2, Rest DEF LineTypeOK
  <2>2. ASSUME ToCome, InOrder PROVE ToCome' /\ InOrder'
    <3>1. InOrder' /\ (NoAnswerBytes => NoAnswerBytes')
      BY <1>1, <1>2, <2>2, ReadingKeepsOrder
    <3> QED
      BY <2>2, <3>1 DEF ToCome, IsTrue
  <2> QED
    BY <2>1, <2>2
<1>4. \/ UNCHANGED <<pc, left>> /\ pc = "clearing"
      \/ buffer' = <<>> /\ pc = "clearing" /\ pc' = "idle" /\ UNCHANGED left
      \/ pc = "clearing" /\ pc' = "idle" /\ left' = left \cup {"error"}
  BY <1>1
<1>5. ClientTypeOK' /\ Budget' /\ HeaderFound'
  <2>1. left' \subseteq {"early", "error"} /\ pc' \in Wait
    BY <1>1, <1>4 DEF ClientTypeOK, Wait
  <2> QED
    BY <1>1, <1>4, <2>1 DEF ClientTypeOK, Budget, HeaderFound
<1>6. Confirmed' /\ (left' = {} => left = {})
  BY <1>1, <1>4, GoesOn
<1>7. left' = {} => OneAnswer'
  <2> SUFFICES ASSUME left' = {} PROVE OneAnswer'
    OBVIOUS
  <2>1. NothingOwed /\ NothingOwed' /\ ToCome' /\ InOrder'
    BY <1>1, <1>3, <1>4, <1>6 DEF OneAnswer, NothingOwed
  <2>2. CASE pc' = "clearing"
    BY <2>1, <2>2 DEF OneAnswer
  <2>3. CASE buffer' = <<>> /\ pc' = "idle"
    BY <2>1, <2>3, EmptySeq DEF OneAnswer, NoAnswerBytes
  <2> QED
    BY <1>4, <2>2, <2>3
<1> QED
  BY <1>3, <1>5, <1>6, <1>7 DEF IInv

LEMMA BeginStep ==
  ASSUME IInv, NEW q \in Request, Begin(q)
  PROVE  IInv'
<1> USE DEF Begin
<1>1. /\ ClientTypeOK /\ LineTypeOK /\ Budget /\ (left = {} => OneAnswer)
      /\ buffer \in Seq(Received) /\ Len(buffer) \in Nat /\ DOMAIN buffer = 1 .. Len(buffer)
  BY LenProperties DEF IInv, LineTypeOK
<1> DEFINE aged(s) == IF s.of = Line THEN s ELSE [s EXCEPT !.of = Aged(s.of)]
<1>2. /\ DOMAIN buffer' = DOMAIN buffer
      /\ \A i \in DOMAIN buffer : buffer'[i] = aged(buffer[i])
  OBVIOUS
<1>3. \A s \in Received : aged(s) \in Received /\ (s.of = Line => aged(s) = s)
  BY Fields DEF Received
<1>4. buffer' \in Seq(Received)
  <2>1. \A i \in 1 .. Len(buffer) : aged(buffer[i]) \in Received
    BY <1>1, <1>3, ElementOfSeq
  <2>2. buffer' = [i \in 1 .. Len(buffer) |-> aged(buffer[i])]
    BY <1>1
  <2> HIDE DEF aged
  <2> QED
    BY <1>1, <2>1, <2>2, IsASeq
<1>5. owed' \in [Device -> Seq(Answer)] /\ (NothingOwed => NothingOwed')
  <2>1. ASSUME NEW d \in Device
        PROVE  owed'[d] \in Seq(Answer) /\ (owed[d] = <<>> => owed'[d] = <<>>)
    <3>1. owed[d] \in Seq(Answer) /\ Len(owed[d]) \in Nat /\ DOMAIN owed[d] = 1 .. Len(owed[d])
      BY <1>1, LenProperties DEF LineTypeOK
    <3>2. \A i \in 1 .. Len(owed[d]) : Aged(owed[d][i]) \in Answer
      BY <3>1, ElementOfSeq, Fields
    <3>3. owed'[d] = [i \in 1 .. Len(owed[d]) |-> Aged(owed[d][i])]
      BY <3>1
    <3>4. owed'[d] \in Seq(Answer) /\ Len(owed'[d]) = Len(owed[d])
      BY <3>1, <3>2, <3>3, IsASeq, LenProperties
    <3> QED
      BY <3>4, EmptySeq
  <2> QED
    BY <2>1 DEF NothingOwed
<1>6. LineTypeOK'
  BY <1>1, <1>4, <1>5 DEF LineTypeOK
<1>7. ClientTypeOK' /\ Budget' /\ HeaderFound' /\ Confirmed'
  BY <1>1 DEF ClientTypeOK, Budget, HeaderFound, Confirmed, Wait
<1>8. left' = {} => OneAnswer'
  <2> SUFFICES ASSUME left = {} PROVE OneAnswer'
    OBVIOUS
  <2>1. NothingOwed /\ NoAnswerBytes
    BY <1>1 DEF OneAnswer
  <2>2. NothingOwed'
    BY <1>5, <2>1
  <2>3. NoAnswerBytes'
    <3>1. \A i \in DOMAIN buffer : buffer[i] \in Received /\ buffer[i].of = Line
      BY <1>1, <2>1, ElementOfSeq DEF NoAnswerBytes, IsOfAnswer
    <3>2. \A i \in DOMAIN buffer' : buffer'[i].of = Line
      BY <1>2, <1>3, <3>1
    <3> QED
      BY <3>2 DEF NoAnswerBytes, IsOfAnswer
  <2> QED
    BY <2>2, <2>3 DEF OneAnswer, ToCome, InOrder, NothingOwed, NoAnswerBytes
<1> QED
  BY <1>6, <1>7, <1>8 DEF IInv

LEMMA SendFailsStep ==
  ASSUME IInv, SendFails
  PROVE  IInv'
<1>1. /\ ClientTypeOK /\ LineTypeOK /\ Budget /\ HeaderFound /\ (left = {} => OneAnswer)
  BY DEF IInv
<1>2. /\ ClientTypeOK' /\ Budget' /\ HeaderFound' /\ Confirmed' /\ pc' = "clearing"
      /\ left' = {} => left = {} /\ NothingOwed
  BY <1>1, FailureClears DEF SendFails
<1>3. LineTypeOK' /\ (ToCome => ToCome') /\ (InOrder => InOrder') /\ UNCHANGED owed
  BY <1>1 DEF SendFails, LineTypeOK, ToCome, InOrder, NoAnswerBytes, IsTrue, IsOfAnswer
<1> QED
  BY <1>1, <1>2, <1>3 DEF IInv, OneAnswer, NothingOwed

\* The device's one answer to the request is the one to come.
LEMMA SendSucceedsStep ==
  ASSUME IInv, SendSucceeds
  PROVE  IInv'
<1>1. /\ ClientTypeOK /\ LineTypeOK /\ Budget /\ HeaderFound /\ (left = {} => OneAnswer) /\ Confirmed
      /\ request \in Request /\ request.device \in Device
  BY Fields DEF IInv, ClientTypeOK
<1> DEFINE d == request.device
<1>2. PICK r \in Reactions(request) :
        held' = [held EXCEPT ![d] = r.registers] /\ owed' = [owed EXCEPT ![d] = @ \o r.answers]
  BY DEF SendSucceeds
<1>3. /\ r.registers \in [Register -> Held]
      /\ \/ r.answers = <<>>
         \/ \E a \in Answer :
              /\ r.answers = <<a>>
              /\ a.fresh /\ a.device = request.device /\ a.function = request.function
              /\ a.register = request.register
              /\ ~a.exception => r.registers[request.register] =
                   IF request.function \in Writes
                   THEN Masked(request.function, request.value) ELSE a.value
  BY <1>1, Reaction
<1>4. r.answers \in Seq(Answer)
  <2>1. \A a \in Answer : <<a>> \in Seq(Answer)
    OBVIOUS
  <2> QED
    BY <1>3, <2>1, EmptySeq
<1>5. LineTypeOK'
  <2>1. owed[d] \in Seq(Answer)
    BY <1>1 DEF LineTypeOK
  <2>2. owed[d] \o r.answers \in Seq(Answer)
    BY <1>4, <2>1, ConcatProperties
  <2> QED
    BY <1>1, <1>2, <1>3, <2>2 DEF LineTypeOK, SendSucceeds
<1>6. /\ pc = "sending" /\ pc' = "header" /\ UNCHANGED <<request, response, stepped, buffer, left>>
      /\ UNCHANGED <<outcome, accepted>> /\ driver' = "low"
  BY DEF SendSucceeds, Continues
<1>7. ClientTypeOK' /\ Budget' /\ HeaderFound'
  BY <1>1, <1>6, BoundAssumption DEF ClientTypeOK, Budget, HeaderFound, Wait
<1>8. left' = {} => OneAnswer'
  <2> SUFFICES ASSUME left = {} PROVE OneAnswer'
    BY <1>6
  <2>1. NothingOwed /\ NoAnswerBytes
    BY <1>1, <1>6 DEF OneAnswer
  <2>2. NoAnswerBytes' /\ InOrder'
    BY <1>6, <2>1 DEF NoAnswerBytes, InOrder, IsOfAnswer
  <2>3. owed[d] = <<>> /\ <<>> \o r.answers = r.answers
    BY <1>1, <1>4, <2>1, ConcatEmptySeq DEF NothingOwed
  <2>4. owed' = [owed EXCEPT ![d] = r.answers]
    BY <1>2, <2>3
  <2>5. /\ held'[d] = r.registers /\ owed'[d] = r.answers
        /\ \A e \in Device : e # d => owed'[e] = <<>>
    BY <1>1, <1>2, <2>1, <2>4 DEF LineTypeOK, NothingOwed
  <2>6. ToCome'
    <3>1. CASE r.answers = <<>>
      BY <2>5, <3>1 DEF ToCome
    <3>2. ASSUME NEW a \in Answer, r.answers = <<a>>,
                 a.fresh, a.device = request.device, a.function = request.function,
                 a.register = request.register,
                 ~a.exception => r.registers[request.register] =
                   IF request.function \in Writes
                   THEN Masked(request.function, request.value) ELSE a.value
          PROVE  ToCome'
      <4>1. IsTrue(a)'
        BY <1>6, <2>5, <3>2 DEF IsTrue
      <4>2. owed'[d] = <<a>> /\ Len(owed'[d]) = 1 /\ owed'[d][1] = a
        BY <2>5, <3>2
      <4>3. IsTrue(owed[d][1])'
        BY <1>6, <4>1, <4>2 DEF IsTrue
      <4> QED
        BY <1>6, <2>2, <2>5, <4>2, <4>3 DEF ToCome
    <3> QED
      BY <1>3, <3>1, <3>2
  <2> QED
    BY <1>6, <2>2, <2>6 DEF OneAnswer
<1>9. Confirmed'
  BY <1>1, <1>6, GoesOn
<1> QED
  BY <1>5, <1>7, <1>8, <1>9 DEF IInv

-----------------------------------------------------------------------------
(***************************************************************************)
(* The line                                                                *)
(***************************************************************************)

\* Damage keeps what is left of an answer in order.
LEMMA DamagedShape ==
  ASSUME NEW a \in Answer, NEW burst, burst = Frame(a) \/ burst \in Damaged(Frame(a))
  PROVE  /\ burst \in Seq(Received)
         /\ \A i \in 1 .. Len(burst) : IsOfAnswer(burst[i]) =>
              burst[i].of = a /\ burst[i].at = i /\ i \in 1 .. FrameLength(a)
<1>1. /\ Frame(a) \in Seq(Received) /\ FrameLength(a) \in Nat
      /\ Len(Frame(a)) = FrameLength(a) /\ DOMAIN Frame(a) = 1 .. FrameLength(a)
      /\ \A i \in 1 .. FrameLength(a) :
           Frame(a)[i] \in Received /\ Frame(a)[i].of = a /\ Frame(a)[i].at = i
  BY FrameShape, LenProperties, ElementOfSeq
<1>2. Mangled \in Byte /\ Stray(Other) \in Received /\ ~IsOfAnswer(Stray(Other))
  BY DEF Byte, Stray, Received, IsOfAnswer
<1>3. CASE burst = Frame(a)
  BY <1>1, <1>3
<1>4. ASSUME NEW k \in 1 .. FrameLength(a), NEW s \in Received,
             IsOfAnswer(s) => s.of = a /\ s.at = k, burst = [Frame(a) EXCEPT ![k] = s]
      PROVE  /\ burst \in Seq(Received)
             /\ \A i \in 1 .. Len(burst) : IsOfAnswer(burst[i]) =>
                  burst[i].of = a /\ burst[i].at = i /\ i \in 1 .. FrameLength(a)
  BY <1>1, <1>4, ExceptSeq
<1>5. CASE \E k \in DOMAIN Frame(a) : burst = [Frame(a) EXCEPT ![k].byte = Mangled]
  <2>1. PICK k \in 1 .. FrameLength(a) :
          burst = [Frame(a) EXCEPT ![k] = [Frame(a)[k] EXCEPT !.byte = Mangled]]
    BY <1>1, <1>5
  <2>2. [Frame(a)[k] EXCEPT !.byte = Mangled] \in Received
    BY <1>1, <1>2 DEF Received
  <2>3. /\ [Frame(a)[k] EXCEPT !.byte = Mangled].of = a
        /\ [Frame(a)[k] EXCEPT !.byte = Mangled].at = k
    BY <1>1 DEF Received
  <2> QED
    BY <1>4, <2>1, <2>2, <2>3
<1>6. CASE \E k \in DOMAIN Frame(a) : burst = [Frame(a) EXCEPT ![k] = Stray(Other)]
  BY <1>1, <1>2, <1>4, <1>6
<1>7. CASE \E k \in DOMAIN Frame(a) : burst = SubSeq(Frame(a), 1, k - 1)
  <2>1. PICK k \in 1 .. FrameLength(a) : burst = SubSeq(Frame(a), 1, k - 1)
    BY <1>1, <1>7
  <2>2. /\ \A i \in 1 .. k - 1 : Frame(a)[i] \in Received /\ i \in 1 .. FrameLength(a)
        /\ k - 1 \in Nat
    BY <1>1
  <2>3. /\ burst \in Seq(Received) /\ Len(burst) = k - 1
        /\ \A i \in 1 .. k - 1 : burst[i] = Frame(a)[i]
    <3>1. /\ SubSeq(Frame(a), 1, k - 1) \in Seq(Received)
          /\ Len(SubSeq(Frame(a), 1, k - 1)) = IF 1 <= k - 1 THEN k - 1 - 1 + 1 ELSE 0
          /\ \A i \in 1 .. k - 1 - 1 + 1 : SubSeq(Frame(a), 1, k - 1)[i] = Frame(a)[1 + i - 1]
      BY <1>1, <2>2, SubSeqProperties
    <3>2. k - 1 - 1 + 1 = k - 1 /\ (~(1 <= k - 1) => k - 1 = 0)
      BY <2>2
    <3>3. \A i \in 1 .. k - 1 : 1 + i - 1 = i
      OBVIOUS
    <3> QED
      BY <2>1, <3>1, <3>2, <3>3
  <2> QED
    BY <1>1, <2>2, <2>3
<1> QED
  BY <1>3, <1>5, <1>6, <1>7 DEF Damaged

\* What arrives is appended in order.
LEMMA ArrivalKeepsOrder ==
  ASSUME LineTypeOK, NEW burst \in Seq(Received), Arrives(burst)
  PROVE  /\ buffer' \in Seq(Received)
         /\ Len(buffer) \in Nat /\ Len(burst) \in Nat /\ DOMAIN buffer = 1 .. Len(buffer)
         /\ DOMAIN buffer' \subseteq 1 .. Len(buffer) + Len(burst)
         /\ \A i \in DOMAIN buffer' :
              \/ i \in DOMAIN buffer /\ buffer'[i] = buffer[i]
              \/ /\ i - Len(buffer) \in 1 .. Len(burst) /\ i > Len(buffer)
                 /\ buffer'[i] = burst[i - Len(buffer)]
<1>1. /\ buffer \in Seq(Received) /\ Len(buffer) \in Nat /\ Len(burst) \in Nat
      /\ DOMAIN buffer = 1 .. Len(buffer)
  BY LenProperties DEF LineTypeOK
<1>2. CASE UNCHANGED buffer
  BY <1>1, <1>2
<1>3. CASE buffer' = buffer \o burst
  <2>1. /\ buffer' \in Seq(Received) /\ Len(buffer') = Len(buffer) + Len(burst)
        /\ \A i \in 1 .. Len(buffer) + Len(burst) :
             buffer'[i] = IF i <= Len(buffer) THEN buffer[i] ELSE burst[i - Len(buffer)]
    BY <1>1, <1>3, ConcatProperties
  <2>2. DOMAIN buffer' = 1 .. Len(buffer) + Len(burst)
    BY <2>1, LenProperties
  <2>3. ASSUME NEW i \in 1 .. Len(buffer) + Len(burst)
        PROVE  \/ i \in 1 .. Len(buffer) /\ i <= Len(buffer)
               \/ ~(i <= Len(buffer)) /\ i - Len(buffer) \in 1 .. Len(burst) /\ i > Len(buffer)
    BY <1>1
  <2> QED
    BY <1>1, <2>1, <2>2, <2>3
<1> QED
  BY <1>2, <1>3 DEF Arrives

LEMMA DisturbStep ==
  ASSUME IInv, NEW b \in Strays, Disturb(b)
  PROVE  IInv'
<1>1. /\ ClientTypeOK /\ LineTypeOK /\ Budget /\ HeaderFound /\ (left = {} => OneAnswer) /\ Confirmed
      /\ UNCHANGED <<pc, request, driver, response, stepped, outcome, accepted, held, owed, left>>
  BY DEF IInv, Disturb, client
<1>2. Stray(b) \in Received /\ ~IsOfAnswer(Stray(b))
  BY DEF Strays, Stray, Received, IsOfAnswer
<1>3. <<Stray(b)>> \in Seq(Received) /\ Len(<<Stray(b)>>) = 1 /\ <<Stray(b)>>[1] = Stray(b)
  BY <1>2
<1>4. /\ buffer' \in Seq(Received)
      /\ \A i \in DOMAIN buffer' :
           (i \in DOMAIN buffer /\ buffer'[i] = buffer[i]) \/ ~IsOfAnswer(buffer'[i])
  <2>1. Arrives(<<Stray(b)>>)
    BY DEF Disturb
  <2> DEFINE burst == <<Stray(b)>>
  <2>2. /\ burst \in Seq(Received) /\ Len(burst) = 1 /\ Arrives(burst)
        /\ \A i \in 1 .. Len(burst) : ~IsOfAnswer(burst[i])
    BY <1>2, <1>3, <2>1
  <2> HIDE DEF burst
  <2> QED
    BY <1>1, <2>2, ArrivalKeepsOrder
<1>5. LineTypeOK'
  BY <1>1, <1>4, BoundAssumption DEF LineTypeOK, Disturb
<1>6. /\ NoAnswerBytes => NoAnswerBytes'
      /\ InOrder => InOrder'
      /\ ToCome /\ (NoAnswerBytes => NoAnswerBytes') => ToCome'
  <2>1. NoAnswerBytes => NoAnswerBytes'
    BY <1>4 DEF NoAnswerBytes, IsOfAnswer
  <2>2. InOrder => InOrder'
    BY <1>1, <1>4 DEF InOrder, IsOfAnswer, IsTrue
  <2>3. ToCome /\ (NoAnswerBytes => NoAnswerBytes') => ToCome'
    BY <1>1 DEF ToCome, IsTrue
  <2> QED
    BY <2>1, <2>2, <2>3
<1>7. ClientTypeOK' /\ Budget' /\ HeaderFound' /\ Confirmed'
  BY <1>1 DEF ClientTypeOK, Budget, HeaderFound, Confirmed, IsTrue, IsException
<1>8. left' = {} => OneAnswer'
  BY <1>1, <1>6 DEF OneAnswer, NothingOwed
<1> QED
  BY <1>5, <1>7, <1>8 DEF IInv

LEMMA DeviceAnswersStep ==
  ASSUME IInv, NEW d \in Device, DeviceAnswers(d)
  PROVE  IInv'
<1> DEFINE a == Head(owed[d])
<1>1. /\ ClientTypeOK /\ LineTypeOK /\ Budget /\ HeaderFound /\ (left = {} => OneAnswer) /\ Confirmed
      /\ UNCHANGED <<pc, request, driver, response, stepped, outcome, accepted, held, left>>
  BY DEF IInv, DeviceAnswers, client
<1>2. /\ owed[d] # <<>> /\ owed[d] \in Seq(Answer) /\ a \in Answer /\ a = owed[d][1]
      /\ Tail(owed[d]) \in Seq(Answer) /\ Len(owed[d]) \in Nat
      /\ owed' = [owed EXCEPT ![d] = Tail(owed[d])]
  <2>1. owed[d] # <<>> /\ owed[d] \in Seq(Answer) /\ owed' = [owed EXCEPT ![d] = Tail(owed[d])]
    BY <1>1 DEF DeviceAnswers, LineTypeOK
  <2> QED
    BY <2>1, HeadTailProperties, LenProperties
<1> HIDE DEF a
<1>3. PICK burst : /\ burst = Frame(a) \/ burst \in Damaged(Frame(a))
                   /\ Arrives(burst)
  BY DEF DeviceAnswers, a
<1>4. /\ burst \in Seq(Received)
      /\ \A i \in 1 .. Len(burst) : IsOfAnswer(burst[i]) =>
           burst[i].of = a /\ burst[i].at = i /\ i \in 1 .. FrameLength(a)
  <2>1. a \in Answer /\ (burst = Frame(a) \/ burst \in Damaged(Frame(a)))
    BY <1>2, <1>3
  <2> QED
    BY ONLY <2>1, DamagedShape
<1>5. /\ buffer' \in Seq(Received)
      /\ Len(buffer) \in Nat /\ Len(burst) \in Nat /\ DOMAIN buffer = 1 .. Len(buffer)
      /\ DOMAIN buffer' \subseteq 1 .. Len(buffer) + Len(burst)
      /\ \A i \in DOMAIN buffer' :
           \/ i \in DOMAIN buffer /\ buffer'[i] = buffer[i]
           \/ /\ i - Len(buffer) \in 1 .. Len(burst) /\ i > Len(buffer)
              /\ buffer'[i] = burst[i - Len(buffer)]
  BY <1>1, <1>3, <1>4, ArrivalKeepsOrder
<1>6. LineTypeOK'
  <2>1. noise' \in 0 .. MaxNoise
    BY <1>1, BoundAssumption DEF LineTypeOK, DeviceAnswers
  <2>2. owed' \in [Device -> Seq(Answer)]
    BY <1>1, <1>2 DEF LineTypeOK
  <2> QED
    BY <1>1, <1>5, <2>1, <2>2 DEF LineTypeOK
<1>7. ClientTypeOK' /\ Budget' /\ HeaderFound' /\ Confirmed'
  BY <1>1 DEF ClientTypeOK, Budget, HeaderFound, Confirmed, IsTrue, IsException
<1>8. left' = {} => OneAnswer'
  <2> SUFFICES ASSUME left = {} PROVE OneAnswer'
    BY <1>1
  <2>1. ToCome /\ ~NothingOwed /\ OneAnswer
    BY <1>1, <1>2 DEF OneAnswer, NothingOwed
  <2>2. /\ d = request.device /\ Len(owed[d]) = 1 /\ IsTrue(a) /\ NoAnswerBytes
        /\ \A e \in Device : e # d => owed[e] = <<>>
    BY <1>2, <2>1 DEF ToCome
  <2>3. NothingOwed'
    <3>1. Tail(owed[d]) = <<>>
      <4>1. Len(Tail(owed[d])) = 0
        BY <1>2, <2>2, HeadTailProperties
      <4> QED
        BY <1>2, <4>1, EmptySeq
    <3> QED
      BY <1>1, <1>2, <2>2, <3>1 DEF NothingOwed, LineTypeOK
  <2>4. \A i \in DOMAIN buffer' : IsOfAnswer(buffer'[i]) =>
          /\ i - Len(buffer) \in 1 .. Len(burst) /\ i > Len(buffer)
          /\ buffer'[i].of = a /\ buffer'[i].at = i - Len(buffer)
          /\ i - Len(buffer) \in 1 .. FrameLength(a)
    BY <1>4, <1>5, <2>2 DEF NoAnswerBytes
  <2>5. InOrder'
    <3>1. ASSUME NEW i \in DOMAIN buffer', IsOfAnswer(buffer'[i])
          PROVE  (IsTrue(buffer[i].of) /\ buffer[i].at \in 1 .. FrameLength(buffer[i].of))'
      BY <1>1, <2>2, <2>4, <3>1 DEF IsTrue
    <3>2. ASSUME NEW i \in DOMAIN buffer', NEW j \in DOMAIN buffer', i < j,
                 IsOfAnswer(buffer'[i]), IsOfAnswer(buffer'[j])
          PROVE  buffer'[i].at < buffer'[j].at
      <4>1. i \in Int /\ j \in Int
        BY <1>5
      <4>2. buffer'[i].at = i - Len(buffer) /\ buffer'[j].at = j - Len(buffer)
        BY <2>4, <3>2
      <4> QED
        BY <1>5, <3>2, <4>1, <4>2
    <3> QED
      BY <3>1, <3>2 DEF InOrder, IsOfAnswer
  <2>6. pc' \notin {"idle", "sending", "clearing"}
    BY <1>1, <2>1 DEF OneAnswer
  <2> QED
    BY <2>3, <2>5, <2>6 DEF OneAnswer, ToCome, NothingOwed
<1> QED
  BY <1>6, <1>7, <1>8 DEF IInv

-----------------------------------------------------------------------------
LEMMA InitHolds == Init => IInv
<1> SUFFICES ASSUME Init PROVE IInv
  OBVIOUS
<1> USE DEF Init
<1>1. /\ <<>> \in Seq(Received) /\ <<>> \in Seq(Answer) /\ 0 \in Held
      /\ Len(<<>>) = 0 /\ DOMAIN <<>> = {}
  BY EmptySeq, Stored
<1>2. ClientTypeOK /\ Budget /\ HeaderFound /\ Confirmed
  <2>1. 0 \in 0 .. MaxStray + 1
    BY BoundAssumption
  <2>2. ClientTypeOK
    BY <1>1, <2>1 DEF ClientTypeOK, Wait
  <2> QED
    BY <2>2 DEF Budget, HeaderFound, Confirmed
<1>3. LineTypeOK
  BY <1>1, BoundAssumption DEF LineTypeOK
<1>4. OneAnswer
  BY <1>1 DEF OneAnswer, ToCome, InOrder, NothingOwed, NoAnswerBytes
<1> QED
  BY <1>2, <1>3, <1>4 DEF IInv

LEMMA StepHolds == IInv /\ [Next]_vars => IInv'
<1> SUFFICES ASSUME IInv, [Next]_vars PROVE IInv'
  OBVIOUS
<1>1. CASE \E q \in Request : Begin(q)
  BY <1>1, BeginStep
<1>2. CASE Transaction
  BY <1>2, SendFailsStep, SendSucceedsStep, ReadHeaderStep, SearchHeaderStep, StepOverStep,
     ReadExceptionStep, ReadBodyStep, DiscardStep DEF Transaction
<1>3. CASE \E d \in Device : DeviceAnswers(d)
  BY <1>3, DeviceAnswersStep
<1>4. CASE \E b \in Strays : Disturb(b)
  BY <1>4, DisturbStep
<1>5. CASE UNCHANGED vars
  <2>1. UNCHANGED <<pc, request, driver, response, stepped, buffer, outcome, accepted, held, owed,
                    noise, left>>
    BY <1>5 DEF vars, client
  <2>2. ClientTypeOK' /\ LineTypeOK' /\ Budget'
    BY <2>1 DEF IInv, ClientTypeOK, LineTypeOK, Budget
  <2>3. HeaderFound'
    BY <2>1 DEF IInv, HeaderFound, IsException
  <2>4. /\ NothingOwed' <=> NothingOwed
        /\ NoAnswerBytes' <=> NoAnswerBytes
    BY <2>1 DEF NothingOwed, NoAnswerBytes
  <2>5. (left = {} => OneAnswer)'
    <3>1. ToCome => ToCome'
      BY <2>1 DEF ToCome, IsTrue, NoAnswerBytes
    <3>2. InOrder => InOrder'
      BY <2>1 DEF InOrder, IsTrue
    <3> QED
      BY <2>1, <2>4, <3>1, <3>2 DEF IInv, OneAnswer
  <2>6. Confirmed'
    BY <2>1 DEF IInv, Confirmed, IsTrue
  <2> QED
    BY <2>2, <2>3, <2>5, <2>6 DEF IInv
<1> QED
  BY <1>1, <1>2, <1>3, <1>4, <1>5 DEF Next

\* The types hold, the search is within its budget and finds only headers of the
\* answer that was asked for, and on a clean line there is one true answer.
THEOREM Invariant == Spec => []IInv
<1> QED
  BY InitHolds, StepHolds, PTL DEF Spec

\* clear_line_after leaves nothing of a transaction to the next one, however much of an
\* answer had come when it failed, unless it failed before that (the answer is still owed)
\* or a receive error cut the clearing short.
THEOREM LineIsAlwaysClean == Spec => []LineIsClean
<1>1. IInv => LineIsClean
  BY DEF IInv, OneAnswer, LineIsClean
<1> QED
  BY <1>1, Invariant, PTL

\* With the same two exceptions an answer is taken for the request it was sent for.
THEOREM AlwaysAnswersOnCleanLine == Spec => []AnswersOnCleanLine
<1>1. IInv => AnswersOnCleanLine
  BY DEF IInv, Confirmed, IsTrue, AnswersOnCleanLine, AnswersRequest
<1> QED
  BY <1>1, Invariant, PTL

\* No answer of another device, to another function, or refusing counts, ever.
THEOREM AlwaysAnsweredByDevice == Spec => []AnsweredByDevice
<1>1. IInv => AnsweredByDevice
  BY DEF IInv, Confirmed, AnsweredByDevice
<1> QED
  BY <1>1, Invariant, PTL

\* What a transaction that succeeds says of the device's register is so.
THEOREM OutcomeIsAlwaysTrue == Spec => []OutcomeIsTrue
<1>1. IInv => OutcomeIsTrue
  BY DEF IInv, Confirmed, IsTrue, OutcomeIsTrue
<1> QED
  BY <1>1, Invariant, PTL
=============================================================================
