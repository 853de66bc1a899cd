------------------------------- MODULE Session -------------------------------
(***************************************************************************)
(* mqtt_with_connect: one MQTT session after another.  A session is five   *)
(* futures in one task, polled in turn: listen, keep_alive, talk,          *)
(* set_up_subscriptions and handle_publish_send.  Talk and the keep alive  *)
(* share the writer through a mutex; what was sent and heard last reaches  *)
(* the keep alive through two signals.  When listen or keep_alive returns, *)
(* everything belonging to the session is dropped.                         *)
(*                                                                         *)
(* Time passes in ticks, and an Instant is how many ticks ago it was.  A   *)
(* tick is long next to what the executor takes to poll a future that can  *)
(* go on and to what a live peer takes to acknowledge a segment, so time   *)
(* only passes when nothing of the kind is pending and no timer is due.    *)
(* The broker may take any time to answer.                                 *)
(***************************************************************************)
EXTENDS Integers, Sequences

CONSTANTS
  None,              \* no instant, no message
  KeepAlive,         \* KEEP_ALIVE
  Timeout,           \* MQTT_TIMEOUT
  SubscribeTimeout,  \* TIMEOUT of set_up_subscriptions
  Outgoing,          \* capacity of the channel outgoing
  MaxInbound,        \* bound: packets of the broker that are not read yet
  Troubles           \* what a connection may become: "closed", "gone"

ASSUME NoneAssumption == None \notin Nat /\ None \notin {"subscribe", "publish"}

\* The server waits for 1.5 times the keep alive.
ASSUME TimeAssumption ==
  /\ KeepAlive \in Nat \ {0} /\ Timeout \in Nat \ {0} /\ SubscribeTimeout \in Nat
  /\ 2 * Timeout <= 3 * KeepAlive

ASSUME BoundAssumption ==
  Outgoing \in Nat \ {0} /\ MaxInbound \in Nat \ {0} /\ Troubles \subseteq {"closed", "gone"}

MaxAge == KeepAlive + Timeout + 1

Age     == 0 .. MaxAge
Packet  == {"publish", "suback", "pong", "disconnect"}
Message == {"subscribe", "publish"}

VARIABLES
  phase,           \* where mqtt_with_connect is
  peer,            \* the other end of the socket
  ended,           \* history: why the attempt or its session ended
  inbound,         \* packets of the broker that are not read yet
  owed,            \* requests the broker has not answered
  talking,         \* the await talk is at
  message,         \* the message talk has in hand
  outgoing,        \* the channel to talk
  inHand,          \* handle_publish_send has a message in hand
  setUp,           \* the await set_up_subscriptions is at
  setUpAge,        \* how long it has been waiting for the acknowledgement
  acknowledged,    \* the acknowledgement of the subscriptions was read
  alive,           \* the await keep_alive is at
  lastSentAt, lastReceivedAt,  \* its instants
  lastSent, lastReceived,      \* the Signals it waits on
  pingResponse,    \* the Signal that the answer to a ping arrived
  silence,         \* history: how long ago anything was read
  unheard          \* history: how long ago the broker was sent anything

network  == <<inbound, owed>>
talker   == <<talking, message>>
setter   == <<setUp, setUpAge, acknowledged>>
instants == <<lastSentAt, lastReceivedAt>>
signals  == <<lastSent, lastReceived>>
keeper   == <<alive, instants, signals, pingResponse>>
history  == <<silence, unheard>>
session  == <<network, talker, outgoing, inHand, setter, keeper, history>>
vars     == <<phase, peer, ended, session>>

LoopTypes ==
  /\ phase \in {"dialling", "greeting", "open", "over", "resting"}
  /\ peer \in {"none", "here", "closed", "gone"}
  /\ ended \in {"not yet", "not connected", "not greeted", "closed", "disconnected",
                "malformed", "ping failed", "ping timed out"}

NetworkTypes ==
  /\ inbound \in Seq(Packet) /\ Len(inbound) <= MaxInbound
  /\ owed \subseteq {"subscribe", "ping"}
  /\ silence \in Age /\ unheard \in Age

TalkerTypes ==
  /\ talking \in {"receiving", "locking", "sending"}
  /\ message \in Message \cup {None}
  /\ outgoing \in Seq(Message) /\ Len(outgoing) <= Outgoing
  /\ inHand \in BOOLEAN
  /\ setUp \in {"acknowledging", "subscribed", "given up"}
  /\ setUpAge \in 0 .. SubscribeTimeout
  /\ acknowledged \in BOOLEAN

KeeperTypes ==
  /\ alive \in {"waiting", "locking", "sending", "awaiting"}
  /\ lastSentAt \in Age /\ lastReceivedAt \in Age
  /\ lastSent \in Age \cup {None} /\ lastReceived \in Age \cup {None}
  /\ pingResponse \in BOOLEAN

TypeOK == LoopTypes /\ NetworkTypes /\ TalkerTypes /\ KeeperTypes

-----------------------------------------------------------------------------
(***************************************************************************)
(* The reconnect loop                                                      *)
(***************************************************************************)

Init ==
  /\ phase = "dialling" /\ peer = "none" /\ ended = "not yet"
  /\ inbound = <<>> /\ owed = {}
  /\ talking = "receiving" /\ message = None
  /\ outgoing = <<>> /\ inHand = FALSE
  /\ setUp = "acknowledging" /\ setUpAge = 0 /\ acknowledged = FALSE
  /\ alive = "waiting" /\ lastSentAt = 0 /\ lastReceivedAt = 0
  /\ lastSent = None /\ lastReceived = None /\ pingResponse = FALSE
  /\ silence = 0 /\ unheard = 0

\* What was read for them lives in the session.
InStatics  == UNCHANGED <<acknowledged, pingResponse>>  \* mutated
InSession  == acknowledged' = FALSE /\ pingResponse' = FALSE

\* The futures of a session and what they share are dropped with it.  What the
\* broker still owes is kept for the properties.
Dropped ==
  /\ inbound' = <<>>
  /\ talking' = "receiving" /\ message' = None
  /\ outgoing' = <<>> /\ inHand' = FALSE
  /\ setUp' = "acknowledging" /\ setUpAge' = 0
  /\ alive' = "waiting" /\ lastSentAt' = 0 /\ lastReceivedAt' = 0
  /\ lastSent' = None /\ lastReceived' = None
  /\ InSession

End(why) == phase' = "over" /\ ended' = why /\ Dropped

\* The name is resolved and the TCP connection established, or not.
Dial ==
  /\ phase = "dialling"
  /\ phase' = "greeting" /\ peer' = "here" /\ ended' = "not yet"
  /\ silence' = 0 /\ unheard' = 0
  /\ owed' = {}
  /\ UNCHANGED <<inbound, talker, outgoing, inHand, setter, keeper>>

DialFails ==
  /\ phase = "dialling"
  /\ phase' = "over" /\ ended' = "not connected"
  /\ UNCHANGED <<peer, session>>

\* The broker accepts the connection.  The five futures are polled for the first
\* time; set_up_subscriptions is polled before handle_publish_send, so that its
\* message is the first in the channel.
Greet ==
  /\ phase = "greeting" /\ peer = "here"
  /\ phase' = "open"
  /\ silence' = 0 /\ unheard' = 0
  /\ outgoing' = <<"subscribe">>
  /\ UNCHANGED <<peer, ended, network, talker, inHand, setter, keeper>>

\* It refuses, answers something else, or is no longer connected.
GreetFails ==
  /\ phase = "greeting" /\ peer \in {"here", "closed"}
  /\ phase' = "over" /\ ended' = "not greeted"
  /\ UNCHANGED <<peer, session>>

\* The socket is aborted and flushed.  A socket that was connected keeps its
\* remote endpoint, and nothing wakes its flush any more; one that never was has
\* nothing to flush.  Then the socket is dropped.
ReleaseSocket ==
  /\ phase' = "resting" /\ peer' = "none"
  /\ UNCHANGED <<ended, session>>

FlushReturns == phase = "over" /\ peer = "none" /\ ReleaseSocket

WaitsForFlush ==  \* mutated
  FlushReturns

ResetTimesOut == phase = "over" /\ ReleaseSocket

\* The back-off has passed.
Redial ==
  /\ phase = "resting"
  /\ phase' = "dialling"
  /\ UNCHANGED <<peer, ended, session>>

-----------------------------------------------------------------------------
(***************************************************************************)
(* The broker and the network                                              *)
(***************************************************************************)

IsOpen == phase = "open"

\* The connection is closed by the other end, or its packets go nowhere.
Trouble(trouble) ==
  /\ phase \in {"greeting", "open"} /\ peer \in {"here", "gone"}
  /\ peer # trouble
  /\ peer' = trouble
  /\ UNCHANGED <<phase, ended, session>>

\* A broker that is there sends something, unasked or as an answer.
Sends(packet) ==
  /\ IsOpen /\ peer = "here" /\ Len(inbound) < MaxInbound
  /\ inbound' = Append(inbound, packet)
  /\ UNCHANGED <<phase, peer, ended, talker, outgoing, inHand, setter, keeper, history>>

SendsUnasked ==
  \E packet \in {"publish", "disconnect"} : Sends(packet) /\ UNCHANGED owed

Answers(request) ==
  /\ request \in owed
  /\ Sends(IF request = "ping" THEN "pong" ELSE "suback")
  /\ owed' = owed \ {request}

-----------------------------------------------------------------------------
(***************************************************************************)
(* listen                                                                  *)
(***************************************************************************)

\* One read returns everything that has arrived, up to n packets, and listen
\* handles the first of them.  The consumer of publishes never waits.
Listen(n) ==
  /\ IsOpen /\ n \in 1 .. Len(inbound)
  /\ \/ /\ inbound[1] = "disconnect"
        /\ End("disconnected")
        /\ UNCHANGED history
     \/ /\ inbound[1] # "disconnect"
        /\ inbound' = SubSeq(inbound, n + 1, Len(inbound))
        /\ lastReceived' = 0
        /\ silence' = 0
        /\ acknowledged' = (acknowledged \/ inbound[1] = "suback")
        /\ pingResponse' = (pingResponse \/ inbound[1] = "pong")
        /\ UNCHANGED <<phase, ended, talker, outgoing, inHand, setUp, setUpAge,
                       alive, instants, lastSent, unheard>>
  /\ UNCHANGED <<peer, owed>>

\* A read returns less than a packet: the length of the rest is not waited for.
ListenMalformed ==
  /\ IsOpen /\ inbound # <<>>
  /\ End("malformed")
  /\ UNCHANGED <<peer, owed, history>>

\* A read returns nothing, or fails, which does not wait for what has arrived.
ListenClosed ==
  /\ IsOpen /\ peer = "closed"
  /\ End("closed")
  /\ UNCHANGED <<peer, owed, history>>

-----------------------------------------------------------------------------
(***************************************************************************)
(* talk, set_up_subscriptions and handle_publish_send                      *)
(***************************************************************************)

\* The mutex around the writer: keep_alive holds it until its ping is answered.
Locked == talking = "sending" \/ alive \in {"sending", "awaiting"}

Take ==
  /\ IsOpen /\ talking = "receiving" /\ outgoing # <<>>
  /\ talking' = "locking" /\ message' = Head(outgoing)
  /\ outgoing' = Tail(outgoing)
  /\ UNCHANGED <<phase, peer, ended, network, inHand, setter, keeper, history>>

TalkLocks ==
  /\ IsOpen /\ talking = "locking" /\ ~Locked
  /\ talking' = "sending"
  /\ UNCHANGED <<phase, peer, ended, message, network, outgoing, inHand, setter, keeper, history>>

\* The flush at the end of a send waits until the other end has everything.
TalkSends ==
  /\ IsOpen /\ talking = "sending" /\ peer = "here"
  /\ talking' = "receiving" /\ message' = None
  /\ lastSent' = 0
  /\ unheard' = 0
  /\ owed' = owed \cup ({message} \cap {"subscribe"})
  /\ UNCHANGED <<phase, peer, ended, inbound, outgoing, inHand, setter,
                 alive, instants, lastReceived, pingResponse, silence>>

\* A send fails when the connection is closed.  That a packet does not fit the
\* buffer is left out: those that talk is given do (Wire).
TalkFails ==
  /\ IsOpen /\ talking = "sending" /\ peer = "closed"
  /\ talking' = "receiving" /\ message' = None
  /\ UNCHANGED <<phase, peer, ended, network, outgoing, inHand, setter, keeper, history>>

SubscriptionsSetUp ==
  /\ IsOpen /\ setUp = "acknowledging" /\ acknowledged
  /\ setUp' = "subscribed"
  /\ UNCHANGED <<phase, peer, ended, network, talker, outgoing, inHand, setUpAge,
                 acknowledged, keeper, history>>

SubscriptionsTimeOut ==
  /\ IsOpen /\ setUp = "acknowledging" /\ ~acknowledged /\ setUpAge = SubscribeTimeout
  /\ setUp' = "given up"
  /\ UNCHANGED <<phase, peer, ended, network, talker, outgoing, inHand, setUpAge,
                 acknowledged, keeper, history>>

\* The routines publish whenever they like.
ReceivePublish ==
  /\ IsOpen /\ ~inHand
  /\ inHand' = TRUE
  /\ UNCHANGED <<phase, peer, ended, network, talker, outgoing, setter, keeper, history>>

PassOn ==
  /\ IsOpen /\ inHand /\ Len(outgoing) < Outgoing
  /\ inHand' = FALSE
  /\ outgoing' = Append(outgoing, "publish")
  /\ UNCHANGED <<phase, peer, ended, network, talker, setter, keeper, history>>

-----------------------------------------------------------------------------
(***************************************************************************)
(* keep_alive                                                              *)
(***************************************************************************)

\* The deadline belongs to whichever direction has been quiet longer.
SentOverdue     == lastSentAt >= KeepAlive      \* mutated
ReceivedOverdue == lastReceivedAt >= KeepAlive  \* mutated
Overdue == lastSentAt >= KeepAlive \/ lastReceivedAt >= KeepAlive

\* Of two signals the first is taken.
NoticesSent ==
  /\ IsOpen /\ alive = "waiting" /\ lastSent # None
  /\ lastSentAt' = lastSent
  /\ lastSent' = None
  /\ UNCHANGED <<phase, peer, ended, network, talker, outgoing, inHand, setter,
                 alive, lastReceivedAt, lastReceived, pingResponse, history>>

NoticesReceived ==
  /\ IsOpen /\ alive = "waiting" /\ lastSent = None /\ lastReceived # None
  /\ lastReceivedAt' = lastReceived
  /\ lastReceived' = None
  /\ UNCHANGED <<phase, peer, ended, network, talker, outgoing, inHand, setter,
                 alive, lastSentAt, lastSent, pingResponse, history>>

Quiet ==
  /\ IsOpen /\ alive = "waiting" /\ lastSent = None /\ lastReceived = None /\ Overdue
  /\ alive' = "locking"
  /\ UNCHANGED <<phase, peer, ended, network, talker, outgoing, inHand, setter,
                 instants, signals, pingResponse, history>>

WithoutLock == TRUE  \* mutated
MayWrite    == ~Locked

PingLocks ==
  /\ IsOpen /\ alive = "locking" /\ MayWrite
  /\ alive' = "sending"
  /\ UNCHANGED <<phase, peer, ended, network, talker, outgoing, inHand, setter,
                 instants, signals, pingResponse, history>>

PingSends ==
  /\ IsOpen /\ alive = "sending" /\ peer = "here"
  /\ alive' = "awaiting"
  /\ lastSentAt' = 0
  /\ unheard' = 0
  /\ owed' = owed \cup {"ping"}
  /\ UNCHANGED <<phase, peer, ended, inbound, talker, outgoing, inHand, setter,
                 lastReceivedAt, signals, pingResponse, silence>>

PingFails ==
  /\ IsOpen /\ alive = "sending" /\ peer = "closed"
  /\ End("ping failed")
  /\ UNCHANGED <<peer, owed, history>>

PingAnswered ==
  /\ IsOpen /\ alive = "awaiting" /\ pingResponse
  /\ alive' = "waiting"
  /\ lastReceivedAt' = 0
  /\ pingResponse' = FALSE
  /\ UNCHANGED <<phase, peer, ended, network, talker, outgoing, inHand, setter,
                 lastSentAt, signals, history>>

\* The timer started with the ping, at lastSentAt.  listen is polled before
\* keep_alive, and the answer looked for before the timer.
PingTimesOut ==
  /\ IsOpen /\ alive = "awaiting" /\ ~pingResponse /\ inbound = <<>>
  /\ lastSentAt >= Timeout
  /\ End("ping timed out")
  /\ UNCHANGED <<peer, owed, history>>

-----------------------------------------------------------------------------
(***************************************************************************)
(* Time                                                                    *)
(***************************************************************************)

\* A future that can go on, a segment to be acknowledged, a timer that is due.
Pending ==
  \/ inbound # <<>>
  \/ peer = "closed"
  \/ /\ ~Locked
     /\ "locking" \in {talking, alive}
  \/ /\ peer = "here"
     /\ "sending" \in {talking, alive}
  \/ talking = "receiving" /\ outgoing # <<>>
  \/ inHand /\ Len(outgoing) < Outgoing
  \/ setUp = "acknowledging" /\ (acknowledged \/ setUpAge = SubscribeTimeout)
  \/ alive = "waiting" /\ (lastSent # None \/ lastReceived # None \/ Overdue)
  \/ alive = "awaiting" /\ (pingResponse \/ lastSentAt >= Timeout)

Older(age) == IF age = MaxAge THEN age ELSE age + 1

OlderSignal(age) == IF age = None THEN None ELSE Older(age)

\* While it is greeting, a session has nothing but the socket.
Tick ==
  /\ \/ phase = "greeting" /\ peer # "closed"
     \/ IsOpen /\ ~Pending
  /\ silence' = Older(silence) /\ unheard' = Older(unheard)
  /\ IF IsOpen
     THEN /\ lastSentAt' = Older(lastSentAt) /\ lastReceivedAt' = Older(lastReceivedAt)
          /\ lastSent' = OlderSignal(lastSent) /\ lastReceived' = OlderSignal(lastReceived)
          /\ setUpAge' = IF setUp = "acknowledging" THEN setUpAge + 1 ELSE setUpAge
     ELSE UNCHANGED <<instants, signals, setUpAge>>
  /\ UNCHANGED <<phase, peer, ended, network, talker, outgoing, inHand, setUp,
                 acknowledged, alive, pingResponse>>

-----------------------------------------------------------------------------
Broker ==
  \/ \E trouble \in Troubles : Trouble(trouble)
  \/ SendsUnasked
  \/ \E request \in owed : Answers(request)

Loop ==
  Dial \/ DialFails \/ Greet \/ GreetFails \/ FlushReturns \/ ResetTimesOut \/ Redial

Listens == (\E n \in 1 .. MaxInbound : Listen(n)) \/ ListenMalformed \/ ListenClosed

Talks == Take \/ TalkLocks \/ TalkSends \/ TalkFails

SetsUp == SubscriptionsSetUp \/ SubscriptionsTimeOut

KeepsAlive ==
  \/ NoticesSent \/ NoticesReceived \/ Quiet
  \/ PingLocks \/ PingSends \/ PingFails \/ PingAnswered \/ PingTimesOut

Futures == Listens \/ Talks \/ SetsUp \/ ReceivePublish \/ PassOn \/ KeepsAlive

Next == Broker \/ Loop \/ Futures \/ Tick

\* The executor polls the task when one of its futures can go on or its timer
\* fires, and all five futures with it, and time passes.  Nothing is asked of the
\* broker, of the routines that publish, of a dial, or of the flush.
Spec ==
  /\ Init /\ [][Next]_vars
  /\ WF_vars(Listens) /\ WF_vars(Talks) /\ WF_vars(SetsUp) /\ WF_vars(PassOn)
  /\ WF_vars(KeepsAlive)
  /\ WF_vars(GreetFails /\ peer = "closed")
  /\ WF_vars(ResetTimesOut) /\ WF_vars(Redial)
  /\ WF_vars(Tick)

-----------------------------------------------------------------------------
(***************************************************************************)
(* Properties                                                              *)
(***************************************************************************)

\* Only one of talk and keep_alive writes to the socket (task.rs:786-788).
OneWriter == ~(talking = "sending" /\ alive \in {"sending", "awaiting"})

\* What a session takes for an answer is an answer to its own request: neither
\* an acknowledgement nor a ping response of an earlier session, whose futures
\* were dropped between reading it and acting on it, counts in the next one
\* (task.rs:771-778).
OwnAnswers ==
  /\ acknowledged => "subscribe" \notin owed
  /\ pingResponse => alive = "awaiting" /\ "ping" \notin owed

\* An open connection on which nothing was read for the keep alive and the
\* timeout together has been given up, whatever was sent meanwhile
\* (task.rs:382-390).
NoticesSilence == IsOpen => silence <= KeepAlive + Timeout

\* The broker, which drops a client it has not heard from for 1.5 times the keep
\* alive, always hears from this one, whatever it sends itself
\* (configuration.rs:42-43, task.rs:396-398).
BrokerKeepsClient == IsOpen => 2 * unheard <= 3 * KeepAlive

\* A connection that is closed, or on which nothing is heard any more, is not kept:
\* it is dialled again, unless something is heard after all, although the flush of
\* the aborted socket may never return (task.rs:686-691, 840-845).  A publish in
\* hand at every moment could keep time from passing in the model; that case is
\* NoticesSilence's.
IsLost  == phase = "over" \/ peer = "closed" \/ (IsOpen /\ silence > 0)
IsHeard == IsOpen /\ peer = "here" /\ silence = 0

Redials == <>[]~inHand => (IsLost ~> phase = "dialling" \/ IsHeard)

-----------------------------------------------------------------------------
(***************************************************************************)
(* The inductive invariant                                                 *)
(***************************************************************************)

Arrives(packet) == \E i \in 1 .. Len(inbound) : inbound[i] = packet

\* Outside of a session there is nothing of one, and a new one is owed nothing.
StartsFresh ==
  /\ phase # "open" =>
       /\ inbound = <<>> /\ ~acknowledged /\ ~pingResponse
       /\ talking = "receiving" /\ message = None /\ outgoing = <<>>
       /\ alive = "waiting" /\ lastSentAt = 0 /\ lastReceivedAt = 0
       /\ lastSent = None /\ lastReceived = None
       /\ setUp = "acknowledging" /\ setUpAge = 0
  /\ phase = "greeting" => owed = {}

\* There is at most one ping, and then at most one answer to it on its way.
OnePing ==
  IsOpen =>
    /\ alive # "awaiting" => "ping" \notin owed /\ ~Arrives("pong") /\ ~pingResponse
    /\ "ping" \in owed => ~Arrives("pong") /\ ~pingResponse
    /\ pingResponse => ~Arrives("pong")
    /\ \A i, j \in 1 .. Len(inbound) : inbound[i] = "pong" /\ inbound[j] = "pong" => i = j

\* The subscriptions are asked for once, before anything is published, and
\* acknowledged after that.
Asking == message = "subscribe" \/ (outgoing # <<>> /\ outgoing[1] = "subscribe")

SubscribesOnce ==
  IsOpen =>
    /\ \A i \in 2 .. Len(outgoing) : outgoing[i] # "subscribe"
    /\ message = "subscribe" => (outgoing = <<>> \/ outgoing[1] # "subscribe")
    /\ Asking => "subscribe" \notin owed
    /\ Asking \/ "subscribe" \in owed => ~acknowledged /\ ~Arrives("suback")

\* What keep_alive knows is never fresher than what happened, and it is waiting
\* only as long as both directions are within the keep alive.
Timely ==
  /\ lastReceived # None => silence <= lastReceived
  /\ lastSent # None => unheard <= lastSent
  /\ alive = "waiting" /\ lastReceived = None => silence <= lastReceivedAt
  /\ alive = "waiting" /\ lastSent = None => unheard <= lastSentAt
  /\ alive # "awaiting" => silence <= KeepAlive
  /\ alive = "awaiting" =>
       lastSentAt <= Timeout /\ silence <= KeepAlive + lastSentAt /\ unheard <= lastSentAt
  /\ pingResponse => silence = 0 /\ lastReceived # None
  /\ 2 * unheard <= 3 * KeepAlive

\* It is so as long as no peer is gone, which never lets a send come to its end.
Attentive ==
  "gone" \notin Troubles =>
    /\ peer # "gone"
    /\ phase \in {"greeting", "open"} => peer # "none"
    /\ IsOpen => Timely

\* Types, one writer, and the parts above: the invariant the proofs rest on.
IInv == TypeOK /\ OneWriter /\ StartsFresh /\ OnePing /\ SubscribesOnce /\ Attentive

===============================================================================
