----------------------------- MODULE ModbusLink -----------------------------
(***************************************************************************)
(* The Modbus client on its line: one transaction after the other, the     *)
(* devices that answer them, and what else the line carries.               *)
(*                                                                         *)
(* A byte knows which answer it is part of, which the code cannot see: it  *)
(* sees the address, the function code, and whether a checksum matches.    *)
(* A checksum matches exactly when a whole answer was read from its first  *)
(* byte to its last.  The body of an answer is a few bytes that look like  *)
(* nothing in particular; bytes of the line may look like a header.        *)
(*                                                                         *)
(* An answer is fresh until the next transaction begins.  The times of the *)
(* code are an order: the devices answer within FAN_TIMEOUT unless late,   *)
(* and they may take longer than DISCARD_TIMEOUT.                          *)
(***************************************************************************)
EXTENDS Integers, Sequences

CONSTANTS
  Device,     \* the devices on the line
  Function,   \* the functions they are asked for
  Register,   \* the registers, or coils, they hold
  Writable,   \* those of them that are written
  Value,      \* the values written; a register holds them without ignored bits
  MaxStray,   \* MAX_STRAY_BYTES
  MaxBuffer,  \* bound: bytes that wait to be read
  MaxNoise,   \* bound: how often the line disturbs
  MaxOwed,    \* bound: answers one device has to send
  Faults,     \* what may go wrong besides disturbances
  Other,      \* a byte that is no address and no function code
  Mangled,    \* a byte that arrived with a receive error
  Line,       \* what bytes that belong to no answer are part of
  NoAnswer    \* nothing was accepted

Writes == {"write_register", "write_coil"}

Reads == {"read_register", "read_coils", "read_inputs"}

ASSUME RequestAssumption ==
  /\ Function \subseteq Writes \cup Reads
  /\ Writable \subseteq Register
  /\ Value \subseteq Nat
  /\ 0 \in Value

ASSUME BoundAssumption ==
  MaxStray \in Nat /\ MaxBuffer \in Nat /\ MaxNoise \in Nat /\ MaxOwed \in Nat

\* "unsent": the UART does not take the request.  "silent": a device does not
\* hear it.  "refused": it answers with an exception.  "mute": it acts, but its
\* answer is never sent.  "late": its answer takes longer than FAN_TIMEOUT.
ASSUME FaultsAssumption ==
  Faults \subseteq {"unsent", "silent", "refused", "mute", "late"}

-----------------------------------------------------------------------------
(***************************************************************************)
(* Requests, answers and the bytes they are made of                        *)
(***************************************************************************)

\* The fan ignores the last bits of a set point; here it is one bit.
IGNORED_SET_POINT_BITS == 2

Masked(function, v) ==
  IF function = "write_register" THEN v - (v % IGNORED_SET_POINT_BITS) ELSE v

Held == Value \cup {v - (v % IGNORED_SET_POINT_BITS) : v \in Value}

\* A read carries no value.
Request ==
  { q \in [device : Device, function : Function, register : Register, value : Value] :
      \/ q.function \in Writes /\ q.register \in Writable
      \/ q.function \in Reads /\ q.value = 0 }

\* A read's answer does not say which register it is about; here it does, for
\* the properties' sake.
Answer ==
  [device : Device, function : Function, register : Register, value : Held,
   exception : BOOLEAN, fresh : BOOLEAN]

ASSUME ModelValuesAssumption ==
  /\ Line \notin Answer
  /\ NoAnswer \notin Answer
  /\ Mangled # Other
  /\ Device \cap {Other, Mangled} = {}

\* The function code, with the bit that says the device refused.
Code(function, exception) == [function |-> function, exception |-> exception]

ASSUME CodeAssumption ==
  \A f \in Function, e \in BOOLEAN : Code(f, e) \notin Device \cup {Other, Mangled}

Byte == Device \cup {Code(f, e) : f \in Function, e \in BOOLEAN} \cup {Other, Mangled}

Received == [byte : Byte, of : Answer \cup {Line}, at : Nat]

HEADER_LENGTH == 2

EXCEPTION_LENGTH == 1

\* How many bytes follow the header; scaled down, but different where the code's
\* are: an exception is shorter than a read, a run of registers is longer.
BodyLength(function) ==
  CASE function \in Writes -> 3
    [] function = "read_inputs" -> 4
    [] OTHER -> 2

FrameLength(a) ==
  HEADER_LENGTH + (IF a.exception THEN EXCEPTION_LENGTH ELSE BodyLength(a.function))

Frame(a) ==
  [ i \in 1 .. FrameLength(a) |->
      [ byte |-> CASE i = 1 -> a.device
                   [] i = 2 -> Code(a.function, a.exception)
                   [] OTHER -> Other,
        of |-> a, at |-> i ] ]

Stray(b) == [byte |-> b, of |-> Line, at |-> 0]

-----------------------------------------------------------------------------
VARIABLES
  pc,         \* what the client waits for
  request,    \* the request of the transaction, or of the last one
  driver,     \* the driver_enable pin: "high" while the client drives the line
  response,   \* the bytes of the answer read so far
  stepped,    \* stepped_over: stray and mangled bytes of this transaction
  buffer,     \* the receive buffer of the UART
  outcome,    \* how the transaction ended
  accepted,   \* the answer it was ended with
  held,       \* per device, what its registers hold
  owed,       \* per device, the answers it is about to send
  noise,      \* how often the line may still disturb
  left        \* history: what may have left an answer to a later transaction

client == <<pc, request, driver, response, stepped, outcome, accepted>>
vars   == <<client, buffer, held, owed, noise, left>>

Wait == {"idle", "sending", "header", "search", "stepping", "exception", "body", "clearing"}

ClientTypeOK ==
  /\ pc \in Wait
  /\ request \in Request
  /\ driver \in {"low", "high"}
  /\ response \in Seq(Received)
  /\ stepped \in 0 .. MaxStray + 1
  /\ outcome \in {"none", "succeeded", "failed"}
  /\ accepted \in Answer \cup {NoAnswer}
  /\ left \subseteq {"early", "error"}

LineTypeOK ==
  /\ buffer \in Seq(Received)
  /\ held \in [Device -> [Register -> Held]]
  /\ owed \in [Device -> Seq(Answer)]
  /\ noise \in 0 .. MaxNoise

Init ==
  /\ pc = "idle"
  /\ request \in Request
  /\ driver = "low"
  /\ response = <<>>
  /\ stepped = 0
  /\ buffer = <<>>
  /\ outcome = "none"
  /\ accepted = NoAnswer
  /\ held \in [Device -> [Register -> {0}]]
  /\ owed = [d \in Device |-> <<>>]
  /\ noise = MaxNoise
  /\ left = {}

-----------------------------------------------------------------------------
(***************************************************************************)
(* Reading from the line                                                   *)
(***************************************************************************)

\* read_exact finds n bytes, or a receive error among them, or waits.
CanRead(n) ==
  /\ Len(buffer) >= n
  /\ \A i \in 1 .. n : buffer[i].byte # Mangled

Waits(n) ==
  /\ Len(buffer) < n
  /\ \A i \in DOMAIN buffer : buffer[i].byte # Mangled

After(k) == SubSeq(buffer, k + 1, Len(buffer))

\* What was read before the error is lost with it; reading goes on behind it.
Errs(n) ==
  \E k \in DOMAIN buffer :
    /\ k <= n
    /\ buffer[k].byte = Mangled
    /\ \A i \in 1 .. k - 1 : buffer[i].byte # Mangled
    /\ buffer' = After(k)

Takes(n) == CanRead(n) /\ buffer' = After(n)

\* The bytes that had been read when the wait ended are lost with it.
GivesUpWaiting(n) == Waits(n) /\ buffer' = <<>>

NothingOwed == \A d \in Device : owed[d] = <<>>

NoTimeout == FALSE  \* mutated

\* FAN_TIMEOUT is longer than any device thinks, unless it is late.
FanTimeout == NothingOwed \/ "late" \in Faults

FromAnyDevice(window, q) ==  \* mutated
  window[2].byte \in {Code(q.function, FALSE), Code(q.function, TRUE)}

StartsAnswer(window, q) ==
  /\ window[1].byte = q.device
  /\ window[2].byte \in {Code(q.function, FALSE), Code(q.function, TRUE)}

\* The checksum matches, and the answer is the kind that was asked for.
HasChecksum(read) == read[1].of # Line /\ read = Frame(read[1].of)

\* The ignored bits may be echoed or not.
Echoes(q, a) ==
  /\ q.register = a.register
  /\ Masked(q.function, q.value) = Masked(q.function, a.value)

Acceptable(q, read) ==
  /\ HasChecksum(read)
  /\ q.function \in Writes => Echoes(q, read[1].of)

-----------------------------------------------------------------------------
(***************************************************************************)
(* One transaction: write_holding_register, write_single_coil, read_coils, *)
(* read_input_registers, read_holding_register                             *)
(***************************************************************************)

\* A transaction that fails while its answer is still to come fails early.
Recorded == left' = IF NothingOwed THEN left ELSE left \cup {"early"}

NotCleared ==  \* mutated
  /\ pc' = "idle"
  /\ outcome' = "failed"
  /\ response' = <<>>
  /\ stepped' = 0
  /\ Recorded
  /\ UNCHANGED accepted

\* The locals of a transaction end with it.
Fails ==
  /\ pc' = "clearing"
  /\ outcome' = "failed"
  /\ response' = <<>>
  /\ stepped' = 0
  /\ Recorded
  /\ UNCHANGED accepted

Succeeds(a) ==
  /\ pc' = "idle"
  /\ outcome' = "succeeded"
  /\ accepted' = a
  /\ response' = <<>>
  /\ stepped' = 0
  /\ UNCHANGED left

Continues(next) ==
  /\ pc' = next
  /\ UNCHANGED <<outcome, accepted, left>>

Aged(a) == [a EXCEPT !.fresh = FALSE]

\* Whoever holds the mutex starts a transaction.
Begin(q) ==
  /\ pc = "idle"
  /\ pc' = "sending"
  /\ request' = q
  /\ driver' = "high"
  /\ outcome' = "none"
  /\ accepted' = NoAnswer
  /\ buffer' = [i \in DOMAIN buffer |->
                  IF buffer[i].of = Line THEN buffer[i]
                  ELSE [buffer[i] EXCEPT !.of = Aged(buffer[i].of)]]
  /\ owed' = [d \in Device |-> [i \in DOMAIN owed[d] |-> Aged(owed[d][i])]]
  /\ UNCHANGED <<response, stepped, held, noise, left>>

\* The `?` after write_all leaves before the line is handed back.
SendFails ==
  /\ pc = "sending"
  /\ "unsent" \in Faults
  /\ Fails
  /\ UNCHANGED <<request, driver, buffer, held, owed, noise>>

\* What a device does with a request, and what it is about to answer.
Reactions(q) ==
  LET answer(v) == [device |-> q.device, function |-> q.function, register |-> q.register,
                    value |-> v, exception |-> FALSE, fresh |-> TRUE]
      stored == [held[q.device] EXCEPT ![q.register] = Masked(q.function, q.value)]
      after  == IF q.function \in Writes THEN stored ELSE held[q.device]
      values == IF q.function \in Writes
                THEN {q.value, Masked(q.function, q.value)}
                ELSE {held[q.device][q.register]}
  IN  { [registers |-> after, answers |-> <<answer(v)>>] : v \in values }
      \cup { [registers |-> held[q.device], answers |-> <<>>] : f \in Faults \cap {"silent"} }
      \cup { [registers |-> held[q.device],
              answers |-> <<[answer(0) EXCEPT !.exception = TRUE]>>] :
                f \in Faults \cap {"refused"} }
      \cup { [registers |-> after, answers |-> <<>>] : f \in Faults \cap {"mute"} }

SendSucceeds ==
  /\ pc = "sending"
  /\ driver' = "low"
  /\ LET d == request.device
     IN  \E r \in Reactions(request) :
           /\ held' = [held EXCEPT ![d] = r.registers]
           /\ owed' = [owed EXCEPT ![d] = @ \o r.answers]
           /\ Len(owed'[d]) <= MaxOwed
  /\ Continues("header")
  /\ UNCHANGED <<request, response, stepped, buffer, noise>>

\* receive_past_errors counts a mangled byte as stepped over, and waits again.
ReadsOn(n) ==
  /\ Errs(n)
  /\ stepped < MaxStray
  /\ stepped' = stepped + 1
  /\ UNCHANGED <<pc, response, outcome, accepted, left>>

\* read_header waits for the first two bytes, reading on behind mangled ones.
ReadHeader ==
  /\ pc = "header"
  /\ \/ /\ Takes(HEADER_LENGTH)
        /\ response' = SubSeq(buffer, 1, HEADER_LENGTH)
        /\ Continues("search")
        /\ UNCHANGED stepped
     \/ ReadsOn(HEADER_LENGTH)
     \/ Errs(HEADER_LENGTH) /\ stepped >= MaxStray /\ Fails
     \/ GivesUpWaiting(HEADER_LENGTH) /\ FanTimeout /\ Fails
  /\ UNCHANGED <<request, driver, held, owed, noise>>

IsException(window) == window[2].byte = Code(request.function, TRUE)

UnboundedSearch ==  \* mutated
  /\ pc = "search"
  /\ Continues(IF ~StartsAnswer(response, request) THEN "stepping"
               ELSE IF IsException(response) THEN "exception" ELSE "body")
  /\ UNCHANGED <<request, driver, response, stepped, buffer, held, owed, noise>>

\* The head of the loop of find_answer_start, and what follows the loop.
SearchHeader ==
  /\ pc = "search"
  /\ \/ /\ StartsAnswer(response, request)
        /\ Continues(IF IsException(response) THEN "exception" ELSE "body")
        /\ UNCHANGED <<response, stepped>>
     \/ /\ ~StartsAnswer(response, request)
        /\ stepped < MaxStray
        /\ Continues("stepping")
        /\ UNCHANGED <<response, stepped>>
     \/ /\ ~StartsAnswer(response, request)
        /\ stepped >= MaxStray
        /\ Fails
  /\ UNCHANGED <<request, driver, buffer, held, owed, noise>>

\* The window moves on by a byte, which has to arrive within DISCARD_TIMEOUT:
\* whether the device still has an answer to send makes no difference.
StepOver ==
  /\ pc = "stepping"
  /\ \/ /\ Takes(1)
        /\ response' = <<response[2], buffer[1]>>
        /\ stepped' = stepped + 1
        /\ Continues("search")
     \/ ReadsOn(1)
     \/ Errs(1) /\ stepped >= MaxStray /\ Fails
     \/ GivesUpWaiting(1) /\ Fails
  /\ UNCHANGED <<request, driver, held, owed, noise>>

RefusalCounts ==  \* mutated
  /\ pc = "exception"
  /\ \/ Takes(EXCEPTION_LENGTH) /\ response[1].of # Line /\ Succeeds(response[1].of)
     \/ Errs(EXCEPTION_LENGTH) /\ Fails
     \/ GivesUpWaiting(EXCEPTION_LENGTH) /\ FanTimeout /\ Fails
  /\ UNCHANGED <<request, driver, held, owed, noise>>

\* An exception is a failure whether its checksum matches or not.
ReadException ==
  /\ pc = "exception"
  /\ \/ Takes(EXCEPTION_LENGTH)
     \/ Errs(EXCEPTION_LENGTH)
     \/ GivesUpWaiting(EXCEPTION_LENGTH) /\ FanTimeout
  /\ Fails
  /\ UNCHANGED <<request, driver, held, owed, noise>>

ReadBody ==
  /\ pc = "body"
  /\ LET n    == BodyLength(request.function)
         read == response \o SubSeq(buffer, 1, n)
     IN  \/ Takes(n) /\ Acceptable(request, read) /\ Succeeds(read[1].of)
         \/ Takes(n) /\ ~Acceptable(request, read) /\ Fails
         \/ Errs(n) /\ Fails
         \/ GivesUpWaiting(n) /\ FanTimeout /\ Fails
  /\ UNCHANGED <<request, driver, held, owed, noise>>

IsOfAnswer(symbol) == symbol.of # Line

DiscardsOnce ==  \* mutated
  /\ pc = "clearing"
  /\ pc' = "idle"
  /\ buffer' = After(HEADER_LENGTH)
  /\ UNCHANGED <<request, driver, response, stepped, outcome, accepted, held, owed, noise, left>>

\* discard_incoming drops what is there, until nothing came for DISCARD_TIMEOUT,
\* or until the UART reports an error: what waits behind that is not dropped.
Discard ==
  /\ pc = "clearing"
  /\ \/ /\ Waits(Len(buffer) + 1)
        /\ buffer # <<>>
        /\ buffer' = <<>>
        /\ UNCHANGED <<pc, left>>
     \/ /\ buffer = <<>>
        /\ pc' = "idle"
        /\ UNCHANGED <<buffer, left>>
     \/ /\ Errs(Len(buffer))
        /\ pc' = "idle"
        /\ left' = IF buffer' = <<>> THEN left ELSE left \cup {"error"}
  /\ UNCHANGED <<request, driver, response, stepped, outcome, accepted, held, owed, noise>>

-----------------------------------------------------------------------------
(***************************************************************************)
(* The line and the devices                                                *)
(***************************************************************************)

\* A burst as it arrives: as it was sent; with a byte that has a receive error,
\* or is another byte; or with its end missing.
Damaged(frame) ==
  { [frame EXCEPT ![k].byte = Mangled] : k \in DOMAIN frame }
    \cup { [frame EXCEPT ![k] = Stray(Other)] : k \in DOMAIN frame }
    \cup { SubSeq(frame, 1, k - 1) : k \in DOMAIN frame }

\* The receiver is off while the driver is on.
Arrives(burst) ==
  IF driver = "high" THEN UNCHANGED buffer
  ELSE /\ Len(buffer) + Len(burst) <= MaxBuffer
       /\ buffer' = buffer \o burst

DeviceAnswers(d) ==
  /\ owed[d] # <<>>
  /\ owed' = [owed EXCEPT ![d] = Tail(@)]
  /\ LET frame == Frame(Head(owed[d]))
     IN  \/ Arrives(frame) /\ UNCHANGED noise
         \/ /\ noise > 0
            /\ noise' = noise - 1
            /\ \E burst \in Damaged(frame) : Arrives(burst)
  /\ UNCHANGED <<client, held, left>>

\* A glitch, a phantom break, or a byte of a greeting.  One that looks like the
\* code of a refusal is left out: that transaction would fail as well.
Strays == Byte \ {Code(f, TRUE) : f \in Function}

Disturb(b) ==
  /\ noise > 0
  /\ noise' = noise - 1
  /\ driver = "low"
  /\ Arrives(<<Stray(b)>>)
  /\ UNCHANGED <<client, held, owed, left>>

-----------------------------------------------------------------------------
Transaction ==
  SendFails \/ SendSucceeds \/ ReadHeader \/ SearchHeader \/ StepOver
    \/ ReadException \/ ReadBody \/ Discard

Next ==
  \/ \E q \in Request : Begin(q)
  \/ Transaction
  \/ \E d \in Device : DeviceAnswers(d)
  \/ \E b \in Strays : Disturb(b)

Spec == Init /\ [][Next]_vars

FairSpec ==
  Spec /\ WF_vars(Transaction) /\ \A d \in Device : WF_vars(DeviceAnswers(d))

-----------------------------------------------------------------------------
(***************************************************************************)
(* Properties                                                              *)
(***************************************************************************)

\* An answer that tells the truth about the request under way.
IsTrue(a) ==
  /\ a.fresh
  /\ a.device = request.device
  /\ a.function = request.function
  /\ a.register = request.register
  /\ ~a.exception =>
       held[request.device][request.register] =
         IF request.function \in Writes
         THEN Masked(request.function, request.value) ELSE a.value

NoAnswerBytes == \A i \in DOMAIN buffer : ~IsOfAnswer(buffer[i])

\* The search ends where the answer of the device that was asked begins.
HeaderFound ==
  /\ pc \in {"search", "stepping", "exception", "body"} => Len(response) = HEADER_LENGTH
  /\ pc \in {"exception", "body"} => StartsAnswer(response, request)
  /\ pc = "body" => ~IsException(response)

\* One budget for mangled and for stray bytes, which one more may overdraw.
Budget ==
  /\ pc \in {"idle", "sending", "clearing"} => stepped = 0
  /\ pc \in {"header", "stepping"} => stepped <= MaxStray

\* The one answer is still to come, or its bytes are read in their order.
ToCome ==
  \A d \in Device : owed[d] # <<>> =>
    d = request.device /\ Len(owed[d]) = 1 /\ IsTrue(owed[d][1]) /\ NoAnswerBytes

InOrder ==
  /\ \A i \in DOMAIN buffer : IsOfAnswer(buffer[i]) =>
       IsTrue(buffer[i].of) /\ buffer[i].at \in 1 .. FrameLength(buffer[i].of)
  /\ \A i, j \in DOMAIN buffer :
       i < j /\ IsOfAnswer(buffer[i]) /\ IsOfAnswer(buffer[j]) => buffer[i].at < buffer[j].at

OneAnswer ==
  /\ pc \in {"idle", "sending", "clearing"} => NothingOwed
  /\ pc \in {"idle", "sending"} => NoAnswerBytes
  /\ ToCome
  /\ InOrder

\* What was accepted is the true answer of the device that was asked.
Confirmed ==
  outcome = "succeeded" =>
    /\ pc = "idle"
    /\ accepted \in Answer
    /\ accepted.device = request.device
    /\ accepted.function = request.function
    /\ ~accepted.exception
    /\ left = {} => IsTrue(accepted)

\* The inductive invariant.  Without what is said of the bytes on the line, a
\* transaction could not be shown to leave nothing behind.
IInv ==
  ClientTypeOK /\ LineTypeOK /\ Budget /\ HeaderFound /\ (left = {} => OneAnswer) /\ Confirmed

\* Between transactions nothing of an answer waits to be read and no device has
\* one to send: clear_line_after keeps a failed transaction from leaving its answer
\* to the next one, which may be the other fan's.  It is so unless a transaction
\* failed before its answer came, or a receive error cut the clearing short.
LineIsClean ==
  pc = "idle" /\ left = {} =>
    NothingOwed /\ NoAnswerBytes

\* An answer is taken for the request it was sent for, whatever the line does and
\* however the transactions before this one ended.
AnswersRequest ==
  outcome = "succeeded" =>
    accepted.fresh /\ accepted.register = request.register

\* That holds as long as no transaction failed before its answer came and no
\* clearing of the line was cut short by a receive error.
AnswersOnCleanLine == left = {} => AnswersRequest

\* Even then, no answer of the other fan, nor one to another function, nor a
\* refusal, counts: what was accepted was sent by the device that was asked.
AnsweredByDevice ==
  outcome = "succeeded" =>
    /\ accepted.device = request.device
    /\ accepted.function = request.function
    /\ ~accepted.exception

\* A write that was confirmed is held by the device, and a value that was read is
\* what it holds, also when an echo carries the bits the fan ignores: on a line that
\* was cleared as far as LineIsClean says.
OutcomeIsTrue ==
  outcome = "succeeded" /\ left = {} =>
    held[request.device][request.register] =
      IF request.function \in Writes
      THEN Masked(request.function, request.value)
      ELSE accepted.value

\* Every transaction ends, so the mutex is given back: the waits are bounded, and
\* so is what is stepped over, while a disturbance ends at some time.
Ends == pc # "idle" ~> pc = "idle"
=============================================================================
