---------------------------- MODULE SessionProofs ----------------------------
(***************************************************************************)
(* What an MQTT session guarantees for any keep alive and timeout, any     *)
(* capacity of its channel and any number of packets on their way.         *)
(***************************************************************************)
EXTENDS Session, SequenceTheorems, TLAPS

\* Ages remain ages as time passes.
LEMMA Ages ==
  /\ MaxAge \in Nat /\ 0 \in Age /\ KeepAlive + Timeout < MaxAge
  /\ \A age \in Age : Older(age) \in Age /\ Older(age) >= age
  /\ \A age \in Age : age < MaxAge => Older(age) = age + 1
  /\ \A younger, older \in Age : younger <= older => Older(younger) <= Older(older)
  /\ \A age \in Age \cup {None} : OlderSignal(age) \in Age \cup {None}
  /\ None \notin Age
  BY TimeAssumption, NoneAssumption DEF MaxAge, Age, Older, OlderSignal

\* What arrives from the broker, and what is left of it after a read.
LEMMA Inbound ==
  ASSUME NetworkTypes
  PROVE  /\ Len(inbound) \in Nat
         /\ \A i \in 1 .. Len(inbound) : inbound[i] \in Packet
         /\ \A packet \in Packet :
              /\ Append(inbound, packet) \in Seq(Packet)
              /\ Len(Append(inbound, packet)) = Len(inbound) + 1
              /\ \A i \in 1 .. Len(inbound) : Append(inbound, packet)[i] = inbound[i]
              /\ Append(inbound, packet)[Len(inbound) + 1] = packet
         /\ \A n \in 1 .. Len(inbound) :
              /\ SubSeq(inbound, n + 1, Len(inbound)) \in Seq(Packet)
              /\ Len(SubSeq(inbound, n + 1, Len(inbound))) = Len(inbound) - n
              /\ \A i \in 1 .. Len(inbound) - n :
                   SubSeq(inbound, n + 1, Len(inbound))[i] = inbound[n + i]
<1>1. inbound \in Seq(Packet)
  BY DEF NetworkTypes
<1>2. Len(inbound) \in Nat
  BY <1>1, LenProperties
<1>3. \A i \in 1 .. Len(inbound) : inbound[i] \in Packet
  BY <1>1, ElementOfSeq
<1>4. ASSUME NEW packet \in Packet
      PROVE  /\ Append(inbound, packet) \in Seq(Packet)
             /\ Len(Append(inbound, packet)) = Len(inbound) + 1
             /\ \A i \in 1 .. Len(inbound) : Append(inbound, packet)[i] = inbound[i]
             /\ Append(inbound, packet)[Len(inbound) + 1] = packet
  BY <1>1, AppendProperties
<1>5. ASSUME NEW n \in 1 .. Len(inbound)
      PROVE  /\ SubSeq(inbound, n + 1, Len(inbound)) \in Seq(Packet)
             /\ Len(SubSeq(inbound, n + 1, Len(inbound))) = Len(inbound) - n
             /\ \A i \in 1 .. Len(inbound) - n :
                  SubSeq(inbound, n + 1, Len(inbound))[i] = inbound[n + i]
  <2>1. n + 1 \in Int /\ Len(inbound) \in Int /\ n \in Nat /\ n <= Len(inbound)
    BY <1>2
  <2>2. \A i \in n + 1 .. Len(inbound) : inbound[i] \in Packet
    BY <1>3, <2>1
  <2>3. /\ SubSeq(inbound, n + 1, Len(inbound)) \in Seq(Packet)
        /\ Len(SubSeq(inbound, n + 1, Len(inbound)))
             = IF n + 1 <= Len(inbound) THEN Len(inbound) - (n + 1) + 1 ELSE 0
        /\ \A i \in 1 .. Len(inbound) - (n + 1) + 1 :
             SubSeq(inbound, n + 1, Len(inbound))[i] = inbound[n + 1 + i - 1]
    BY <2>1, <2>2, SubSeqProperties
  <2>4. Len(inbound) - (n + 1) + 1 = Len(inbound) - n
    BY <2>1
  <2>5. \A i \in 1 .. Len(inbound) - n : n + 1 + i - 1 = n + i
    BY <2>1
  <2>6. (n + 1 <= Len(inbound)) \/ Len(inbound) - n = 0
    BY <2>1
  <2> QED
    BY <2>3, <2>4, <2>5, <2>6
<1> QED
  BY <1>2, <1>3, <1>4, <1>5

\* The channel to talk, with a message more and with one less.
LEMMA Channel ==
  ASSUME TalkerTypes
  PROVE  /\ Len(outgoing) \in Nat
         /\ /\ Append(outgoing, "publish") \in Seq(Message)
            /\ Len(Append(outgoing, "publish")) = Len(outgoing) + 1
            /\ \A i \in 1 .. Len(outgoing) : Append(outgoing, "publish")[i] = outgoing[i]
            /\ Append(outgoing, "publish")[Len(outgoing) + 1] = "publish"
            /\ Append(outgoing, "publish") # <<>>
         /\ outgoing = <<>> <=> Len(outgoing) = 0
         /\ outgoing # <<>> =>
              /\ Head(outgoing) \in Message /\ Head(outgoing) = outgoing[1]
              /\ Tail(outgoing) \in Seq(Message)
              /\ Len(Tail(outgoing)) = Len(outgoing) - 1
              /\ \A i \in 1 .. Len(Tail(outgoing)) : Tail(outgoing)[i] = outgoing[i + 1]
              /\ Tail(outgoing) # <<>> => Len(Tail(outgoing)) # 0
<1>1. outgoing \in Seq(Message) /\ "publish" \in Message
  BY DEF TalkerTypes, Message
<1>2. Len(outgoing) \in Nat
  BY <1>1, LenProperties
<1>3. outgoing = <<>> <=> Len(outgoing) = 0
  BY <1>1, EmptySeq
<1>4. outgoing # <<>> =>
        /\ Head(outgoing) \in Message /\ Head(outgoing) = outgoing[1]
        /\ Tail(outgoing) \in Seq(Message)
        /\ Len(Tail(outgoing)) = Len(outgoing) - 1
        /\ \A i \in 1 .. Len(Tail(outgoing)) : Tail(outgoing)[i] = outgoing[i + 1]
  BY <1>1, HeadTailProperties
<1>5. outgoing # <<>> => (Tail(outgoing) # <<>> => Len(Tail(outgoing)) # 0)
  BY <1>4, EmptySeq
<1>6. /\ Append(outgoing, "publish") \in Seq(Message)
      /\ Len(Append(outgoing, "publish")) = Len(outgoing) + 1
      /\ \A i \in 1 .. Len(outgoing) : Append(outgoing, "publish")[i] = outgoing[i]
      /\ Append(outgoing, "publish")[Len(outgoing) + 1] = "publish"
      /\ Append(outgoing, "publish") # <<>>
  BY <1>1, AppendProperties
<1> QED
  BY <1>2, <1>3, <1>4, <1>5, <1>6

\* The queues of a session that starts.
LEMMA Empty ==
  /\ <<>> \in Seq(Packet) /\ <<>> \in Seq(Message) /\ Len(<<>>) = 0
  /\ <<"subscribe">> \in Seq(Message) /\ Len(<<"subscribe">>) = 1
  /\ <<"subscribe">>[1] = "subscribe" /\ <<"subscribe">> # <<>>
<1>1. "subscribe" \in Message
  BY DEF Message
<1>2. <<>> \in Seq(Packet) /\ <<>> \in Seq(Message) /\ Len(<<>>) = 0
  BY EmptySeq
<1>3. /\ <<"subscribe">> \in Seq(Message) /\ Len(<<"subscribe">>) = 1
      /\ <<"subscribe">>[1] = "subscribe" /\ <<"subscribe">> # <<>>
  BY <1>1
<1> QED
  BY <1>2, <1>3

\* A state of the loop and of the socket, and a reason.
LEMMA LoopStep == LoopTypes /\ [Next]_vars => LoopTypes'
<1> SUFFICES ASSUME LoopTypes, [Next]_vars PROVE LoopTypes'
  OBVIOUS
<1> USE DEF LoopTypes, network, talker, setter, instants, signals, keeper, history, session
<1>1. CASE Loop
  BY <1>1 DEF Loop, Dial, DialFails, Greet, GreetFails, FlushReturns, ResetTimesOut,
              ReleaseSocket, Redial
<1>2. CASE Broker
  BY <1>2, BoundAssumption DEF Broker, Trouble, SendsUnasked, Answers, Sends
<1>3. CASE Futures
  BY <1>3 DEF Futures, Listens, Talks, SetsUp, KeepsAlive, Listen, ListenMalformed,
              ListenClosed, End, Take, TalkLocks, TalkSends,
              TalkFails, SubscriptionsSetUp, SubscriptionsTimeOut, ReceivePublish, PassOn,
              NoticesSent, NoticesReceived, Quiet, PingLocks, PingSends, PingFails,
              PingAnswered, PingTimesOut
<1>4. CASE Tick \/ UNCHANGED vars
  BY <1>4 DEF Tick, vars
<1> QED
  BY <1>1, <1>2, <1>3, <1>4 DEF Next

\* Packets on their way, requests, ages.
LEMMA NetworkStep == NetworkTypes /\ [Next]_vars => NetworkTypes'
<1> SUFFICES ASSUME NetworkTypes, [Next]_vars PROVE NetworkTypes'
  OBVIOUS
<1> USE DEF NetworkTypes, network, talker, setter, instants, signals, keeper, history, session
<1>1. CASE Loop
  BY <1>1, Ages DEF Loop, Dial, DialFails, Greet, GreetFails, FlushReturns, ResetTimesOut,
                    ReleaseSocket, Redial
<1>2. CASE Broker
  <2>1. ASSUME NEW packet \in Packet,
  Sends(packet) PROVE inbound' \in Seq(Packet) /\ Len(inbound') <= MaxInbound
    BY <2>1, Inbound, BoundAssumption DEF Sends
  <2> QED
    BY <1>2, <2>1 DEF Broker, Trouble, SendsUnasked, Answers, Sends, Packet
<1>3. ASSUME NEW n \in 1 .. MaxInbound, Listen(n) PROVE NetworkTypes'
  <2>1. CASE End("disconnected") /\ UNCHANGED <<owed, history>>
    BY <2>1, Empty, BoundAssumption DEF End, Dropped
  <2>2. ASSUME n \in 1 .. Len(inbound), inbound' = SubSeq(inbound, n + 1, Len(inbound))
        PROVE  inbound' \in Seq(Packet) /\ Len(inbound') <= MaxInbound
    <3>1. inbound' \in Seq(Packet) /\ Len(inbound') = Len(inbound) - n /\ Len(inbound) \in Nat
      BY <2>2, Inbound
    <3> QED
      BY <3>1, BoundAssumption
  <2>3. CASE UNCHANGED <<owed, unheard>> /\ silence' = 0 /\ n \in 1 .. Len(inbound)
             /\ inbound' = SubSeq(inbound, n + 1, Len(inbound))
    BY <2>2, <2>3, Ages
  <2> QED
    BY <1>3, <2>1, <2>3 DEF Listen
<1>4. CASE TalkSends \/ PingSends
  BY <1>4, Ages DEF TalkSends, PingSends
<1>5. CASE ListenMalformed \/ ListenClosed \/ PingFails \/ PingTimesOut
  <2>1. inbound' = <<>> /\ UNCHANGED <<owed, history>>
    BY <1>5 DEF ListenMalformed, ListenClosed, PingFails, PingTimesOut, End, Dropped
  <2> QED
    BY <2>1, Empty, BoundAssumption
<1>6. CASE \/ Take \/ TalkLocks \/ TalkFails \/ SubscriptionsSetUp \/ SubscriptionsTimeOut
           \/ ReceivePublish \/ PassOn \/ NoticesSent \/ NoticesReceived \/ Quiet
           \/ PingLocks \/ PingAnswered
  BY <1>6 DEF Take, TalkLocks, TalkFails, SubscriptionsSetUp, SubscriptionsTimeOut,
              ReceivePublish,
              PassOn, NoticesSent, NoticesReceived, Quiet, PingLocks, PingAnswered
<1>7. CASE Tick
  BY <1>7, Ages DEF Tick
<1>8. CASE UNCHANGED vars
  BY <1>8 DEF vars
<1> QED
  BY <1>1, <1>2, <1>3, <1>4, <1>5, <1>6, <1>7, <1>8 DEF Next, Futures, Listens, Talks,
                                                        SetsUp, KeepsAlive

\* What talk, set_up_subscriptions and handle_publish_send have in hand.
LEMMA TalkerStep == TalkerTypes /\ [Next]_vars => TalkerTypes'
<1> SUFFICES ASSUME TalkerTypes, [Next]_vars PROVE TalkerTypes'
  OBVIOUS
<1>t. SubscribeTimeout \in Nat /\ Outgoing \in Nat /\ 1 <= Outgoing
  BY TimeAssumption, BoundAssumption
<1>o. outgoing \in Seq(Message) /\ Len(outgoing) <= Outgoing
  BY DEF TalkerTypes
<1> USE DEF network, talker, setter, instants, signals, keeper, history, session
<1>1. CASE Dial \/ DialFails \/ GreetFails \/ FlushReturns \/ ResetTimesOut \/ Redial
  BY <1>1 DEF TalkerTypes, Dial, DialFails, GreetFails, FlushReturns, ResetTimesOut,
              ReleaseSocket, Redial
<1>2. CASE Greet
  <2>1. outgoing' \in Seq(Message) /\ Len(outgoing') <= Outgoing
    BY <1>2, <1>t, Empty DEF Greet
  <2> QED
    BY <1>2, <2>1 DEF TalkerTypes, Greet
<1>3. CASE Broker
  BY <1>3 DEF TalkerTypes, Broker, Trouble, SendsUnasked, Answers, Sends
<1>4. ASSUME End(ended') PROVE TalkerTypes'
  <2>1. outgoing' \in Seq(Message) /\ Len(outgoing') <= Outgoing
    BY <1>4, <1>t, Empty DEF End, Dropped
  <2>2. setUpAge' \in 0 .. SubscribeTimeout
    BY <1>4, <1>t DEF End, Dropped
  <2> QED
    BY <1>4, <2>1, <2>2 DEF TalkerTypes, End, Dropped, InSession
<1>5. ASSUME NEW n \in 1 .. MaxInbound, Listen(n) PROVE TalkerTypes'
  <2>1. CASE End("disconnected")
    BY <2>1, <1>4 DEF End
  <2>2. CASE /\ acknowledged' = (acknowledged \/ inbound[1] = "suback")
             /\ UNCHANGED <<talker, outgoing, inHand, setUp, setUpAge>>
    BY <2>2 DEF TalkerTypes
  <2> QED
    BY <1>5, <2>1, <2>2 DEF Listen
<1>6. CASE ListenMalformed \/ ListenClosed \/ PingFails \/ PingTimesOut
  BY <1>6, <1>4 DEF ListenMalformed, ListenClosed, PingFails, PingTimesOut, End
<1>7. CASE Take
  <2>1. message' \in Message /\ outgoing' \in Seq(Message) /\ Len(outgoing') = Len(outgoing) - 1
    BY <1>7, Channel DEF Take
  <2>2. Len(outgoing') <= Outgoing
    BY <2>1, <1>t, <1>o, Channel
  <2> QED
    BY <1>7, <2>1, <2>2 DEF TalkerTypes, Take
<1>8. CASE PassOn
  <2>1. outgoing' \in Seq(Message) /\ Len(outgoing') = Len(outgoing) + 1 /\ Len(outgoing) < Outgoing
    BY <1>8, Channel DEF PassOn
  <2>2. Len(outgoing') <= Outgoing
    BY <2>1, <1>t, Channel
  <2> QED
    BY <1>8, <2>1, <2>2 DEF TalkerTypes, PassOn
<1>9. CASE \/ TalkLocks \/ TalkSends \/ TalkFails \/ SubscriptionsSetUp \/ SubscriptionsTimeOut
           \/ ReceivePublish \/ NoticesSent \/ NoticesReceived \/ Quiet
           \/ PingLocks \/ PingSends \/ PingAnswered
  BY <1>9 DEF TalkerTypes, TalkLocks, TalkSends, TalkFails, SubscriptionsSetUp,
              SubscriptionsTimeOut, ReceivePublish, NoticesSent, NoticesReceived, Quiet,
              PingLocks, PingSends, PingAnswered
<1>10. CASE Tick
  <2>1. setUp = "acknowledging" /\ IsOpen => setUpAge # SubscribeTimeout
    BY <1>10 DEF Tick, Pending, IsOpen
  <2>2. setUpAge \in 0 .. SubscribeTimeout
    BY DEF TalkerTypes
  <2>3. setUpAge' = IF setUp = "acknowledging" /\ IsOpen THEN setUpAge + 1 ELSE setUpAge
    BY <1>10 DEF Tick
  <2>4. setUpAge' \in 0 .. SubscribeTimeout
    BY <2>1, <2>2, <2>3, <1>t
  <2>5. UNCHANGED <<talker, outgoing, inHand, setUp, acknowledged>>
    BY <1>10 DEF Tick
  <2> QED
    BY <2>4, <2>5 DEF TalkerTypes
<1>11. CASE UNCHANGED vars
  BY <1>11 DEF TalkerTypes, vars
<1> QED
  BY <1>1, <1>2, <1>3, <1>5, <1>6, <1>7, <1>8, <1>9, <1>10, <1>11 DEF Next, Loop, Futures,
                                                                      Listens, Talks, SetsUp,
                                                                      KeepsAlive

\* What keep_alive knows.
LEMMA KeeperStep == KeeperTypes /\ [Next]_vars => KeeperTypes'
<1> SUFFICES ASSUME KeeperTypes, [Next]_vars PROVE KeeperTypes'
  OBVIOUS
<1> USE Ages DEF KeeperTypes, network, talker, setter, instants, signals, keeper, history,
                 session
<1>1. CASE Loop
  BY <1>1 DEF Loop, Dial, DialFails, Greet, GreetFails, FlushReturns, ResetTimesOut,
              ReleaseSocket, Redial
<1>2. CASE Broker
  BY <1>2 DEF Broker, Trouble, SendsUnasked, Answers, Sends
<1>3. ASSUME End(ended') PROVE KeeperTypes'
  BY <1>3 DEF End, Dropped, InSession
<1>4. ASSUME NEW n \in 1 .. MaxInbound, Listen(n) PROVE KeeperTypes'
  <2>1. CASE End("disconnected")
    BY <2>1, <1>3 DEF End
  <2> QED
    BY <1>4, <2>1 DEF Listen
<1>5. CASE ListenMalformed \/ ListenClosed \/ PingFails \/ PingTimesOut
  BY <1>5, <1>3 DEF ListenMalformed, ListenClosed, PingFails, PingTimesOut, End
<1>6. CASE \/ Take \/ TalkLocks \/ TalkSends \/ TalkFails \/ SubscriptionsSetUp \/ SubscriptionsTimeOut
           \/ ReceivePublish \/ PassOn
  BY <1>6 DEF Take, TalkLocks, TalkSends, TalkFails, SubscriptionsSetUp, SubscriptionsTimeOut,
              ReceivePublish, PassOn
<1>7. CASE NoticesSent \/ NoticesReceived \/ Quiet \/ PingLocks \/ PingSends \/ PingAnswered
  BY <1>7 DEF NoticesSent, NoticesReceived, Quiet, PingLocks, PingSends, PingAnswered
<1>8. CASE Tick
  BY <1>8 DEF Tick
<1>9. CASE UNCHANGED vars
  BY <1>9 DEF vars
<1> QED
  BY <1>1, <1>2, <1>4, <1>5, <1>6, <1>7, <1>8, <1>9 DEF Next, Futures, Listens, Talks,
                                                        SetsUp, KeepsAlive

\* The writer changes hands only when neither future holds it.
LEMMA WriterStep == OneWriter /\ [Next]_vars => OneWriter'
<1> SUFFICES ASSUME OneWriter, [Next]_vars PROVE OneWriter'
  OBVIOUS
<1> USE DEF OneWriter, Locked, network, talker, setter, instants, signals, keeper, history,
            session
<1>1. CASE Loop
  <2>1. UNCHANGED <<talking, alive>>
    BY <1>1 DEF Loop, Dial, DialFails, Greet, GreetFails, FlushReturns, ResetTimesOut,
                ReleaseSocket, Redial
  <2> QED
    BY <2>1
<1>2. CASE Broker
  BY <1>2 DEF Broker, Trouble, SendsUnasked, Answers, Sends
<1>3. CASE Futures
  BY <1>3 DEF Futures, Listens, Talks, SetsUp, KeepsAlive, Listen, ListenMalformed,
              ListenClosed, End, Dropped, Take, TalkLocks,
              TalkSends, TalkFails, SubscriptionsSetUp, SubscriptionsTimeOut, ReceivePublish,
              PassOn, NoticesSent, NoticesReceived, Quiet, PingLocks, MayWrite, PingSends,
              PingFails, PingAnswered, PingTimesOut
<1>4. CASE Tick \/ UNCHANGED vars
  BY <1>4 DEF Tick, vars
<1> QED
  BY <1>1, <1>2, <1>3, <1>4 DEF Next

\* A session leaves nothing behind that the next one could find.
LEMMA FreshStep == StartsFresh /\ [Next]_vars => StartsFresh'
<1> SUFFICES ASSUME StartsFresh, [Next]_vars PROVE StartsFresh'
  OBVIOUS
<1> USE DEF StartsFresh, IsOpen, network, talker, setter, instants, signals, keeper, history,
            session
<1>1. CASE Loop
  <2>1. CASE Greet
    BY <2>1 DEF Greet
  <2>2. CASE Dial \/ DialFails \/ GreetFails \/ FlushReturns \/ ResetTimesOut \/ Redial
    <3>1. /\ phase # "open"
          /\ UNCHANGED <<inbound, talker, outgoing, setter, keeper>>
          /\ phase' = "greeting" => owed' = {}
      BY <2>2 DEF Dial, DialFails, GreetFails, FlushReturns, ResetTimesOut, ReleaseSocket,
                  Redial
    <3> QED
      BY <3>1
  <2> QED
    BY <1>1, <2>1, <2>2 DEF Loop
<1>2. CASE Broker
  BY <1>2 DEF Broker, Trouble, SendsUnasked, Answers, Sends
<1>3. ASSUME End(ended') PROVE StartsFresh'
  BY <1>3 DEF End, Dropped, InSession
<1>4. ASSUME NEW n \in 1 .. MaxInbound, Listen(n) PROVE StartsFresh'
  <2>1. CASE End("disconnected")
    BY <2>1, <1>3 DEF End
  <2> QED
    BY <1>4, <2>1 DEF Listen
<1>5. CASE ListenMalformed \/ ListenClosed \/ PingFails \/ PingTimesOut
  BY <1>5, <1>3 DEF ListenMalformed, ListenClosed, PingFails, PingTimesOut, End
<1>6. CASE \/ Take \/ TalkLocks \/ TalkSends \/ TalkFails \/ SubscriptionsSetUp
           \/ SubscriptionsTimeOut \/ ReceivePublish \/ PassOn
  BY <1>6 DEF Take, TalkLocks, TalkSends, TalkFails, SubscriptionsSetUp, SubscriptionsTimeOut,
              ReceivePublish, PassOn
<1>7. CASE NoticesSent \/ NoticesReceived \/ Quiet \/ PingLocks \/ PingSends \/ PingAnswered
  BY <1>7 DEF NoticesSent, NoticesReceived, Quiet, PingLocks, PingSends, PingAnswered
<1>8. CASE Tick
  BY <1>8 DEF Tick
<1>9. CASE UNCHANGED vars
  BY <1>9 DEF vars
<1> QED
  BY <1>1, <1>2, <1>4, <1>5, <1>6, <1>7, <1>8, <1>9 DEF Next, Futures, Listens, Talks,
                                                        SetsUp, KeepsAlive

\* What a read leaves was on its way before, and not in front.
LEMMA ListenRest ==
  ASSUME NetworkTypes, NEW n \in 1 .. Len(inbound),
         inbound' = SubSeq(inbound, n + 1, Len(inbound))
  PROVE  /\ Len(inbound) \in Nat /\ Len(inbound') \in Nat /\ 1 \in 1 .. Len(inbound)
         /\ \A i \in 1 .. Len(inbound') :
              n + i \in 1 .. Len(inbound) /\ n + i # 1 /\ inbound'[i] = inbound[n + i]
<1>1. Len(inbound) \in Nat
  BY Inbound
<1>2. Len(inbound') = Len(inbound) - n
  BY Inbound
<1>3. \A i \in 1 .. Len(inbound) - n : inbound'[i] = inbound[n + i]
  BY Inbound
<1>4. \A i \in 1 .. Len(inbound) - n : n + i \in 1 .. Len(inbound) /\ n + i # 1
  BY <1>1
<1> QED
  BY <1>1, <1>2, <1>3, <1>4

\* What is sent arrives last.
LEMMA SendsLast ==
  ASSUME NetworkTypes, NEW packet \in Packet, inbound' = Append(inbound, packet)
  PROVE  /\ Len(inbound) \in Nat /\ Len(inbound') \in Nat
         /\ \A i \in 1 .. Len(inbound') :
              \/ i \in 1 .. Len(inbound) /\ inbound'[i] = inbound[i]
              \/ i = Len(inbound) + 1 /\ inbound'[i] = packet
<1>1. Len(inbound) \in Nat
  BY Inbound
<1>2. /\ Len(inbound') = Len(inbound) + 1
      /\ \A i \in 1 .. Len(inbound) : inbound'[i] = inbound[i]
      /\ inbound'[Len(inbound) + 1] = packet
  BY Inbound
<1> QED
  BY <1>1, <1>2

\* No step makes a second answer to a ping, or one without a ping.
LEMMA PingStep == NetworkTypes /\ StartsFresh /\ OnePing /\ [Next]_vars => OnePing'
<1> SUFFICES ASSUME NetworkTypes, StartsFresh, OnePing, [Next]_vars, IsOpen' PROVE OnePing'
  BY DEF OnePing
<1> USE DEF IsOpen
<1>a. CASE UNCHANGED <<phase, network, alive, pingResponse>>
  BY <1>a DEF OnePing, Arrives, network
<1>1. CASE Loop
  <2>1. Greet
    BY <1>1 DEF Loop, Dial, DialFails, GreetFails, FlushReturns, ResetTimesOut,
                ReleaseSocket, Redial
  <2>2. /\ phase = "greeting"
        /\ UNCHANGED <<inbound, owed, pingResponse, alive>>
    BY <2>1 DEF Greet, network, keeper
  <2>3. inbound' = <<>> /\ owed' = {} /\ ~pingResponse' /\ alive' = "waiting"
    BY <2>2 DEF StartsFresh
  <2> QED
    BY <2>3, Empty DEF OnePing, Arrives
<1>2. CASE Broker
  <2>1. CASE \E trouble \in Troubles : Trouble(trouble)
    BY <2>1, <1>a DEF Trouble, session, keeper
  <2>2. ASSUME NEW packet \in {"publish", "disconnect", "suback"}, Sends(packet),
               "ping" \in owed' <=> "ping" \in owed
        PROVE  OnePing'
    <3>1. /\ inbound' = Append(inbound, packet) /\ UNCHANGED <<phase, alive, pingResponse>>
          /\ packet \in Packet /\ packet # "pong"
      BY <2>2 DEF Sends, keeper, Packet
    <3>2. /\ Len(inbound) \in Nat /\ Len(inbound') \in Nat
          /\ \A i \in 1 .. Len(inbound') :
               inbound'[i] = "pong" => i \in 1 .. Len(inbound) /\ inbound[i] = "pong"
      BY <3>1, SendsLast
    <3>3. Arrives("pong")' => Arrives("pong")
      BY <3>2 DEF Arrives
    <3>4. \A i, j \in 1 .. Len(inbound') : inbound'[i] = "pong" /\ inbound'[j] = "pong" => i = j
      BY <3>2, <3>1 DEF OnePing
    <3> QED
      BY <2>2, <3>1, <3>3, <3>4 DEF OnePing
  <2>3. ASSUME Answers("ping") PROVE OnePing'
    <3>1. /\ inbound' = Append(inbound, "pong") /\ UNCHANGED <<phase, alive, pingResponse>>
          /\ "pong" \in Packet /\ "ping" \in owed /\ "ping" \notin owed'
      BY <2>3 DEF Answers, Sends, keeper, Packet
    <3>2. alive' = "awaiting" /\ ~pingResponse' /\ ~Arrives("pong")
      BY <3>1 DEF OnePing
    <3>3. \A i \in 1 .. Len(inbound') : inbound'[i] = "pong" => i = Len(inbound) + 1
      BY <3>1, <3>2, SendsLast DEF Arrives
    <3> QED
      BY <3>1, <3>2, <3>3 DEF OnePing
  <2>4. ASSUME NEW request \in owed, Answers(request) PROVE OnePing'
    <3>1. CASE request = "ping"
      BY <2>4, <3>1, <2>3
    <3>2. CASE request # "ping"
      <4>1. Sends("suback") /\ owed' = owed \ {request}
        BY <2>4, <3>2 DEF Answers
      <4> QED
        BY <4>1, <3>2, <2>2
    <3> QED
      BY <3>1, <3>2
  <2>5. CASE SendsUnasked
    BY <2>5, <2>2 DEF SendsUnasked
  <2> QED
    BY <1>2, <2>1, <2>4, <2>5 DEF Broker
<1>3. ASSUME NEW n \in 1 .. MaxInbound, Listen(n) PROVE OnePing'
  <2>1. /\ inbound' = SubSeq(inbound, n + 1, Len(inbound)) /\ n \in 1 .. Len(inbound)
        /\ pingResponse' = (pingResponse \/ inbound[1] = "pong")
        /\ UNCHANGED <<phase, alive, owed>>
    BY <1>3 DEF Listen, End
  <2>2. /\ 1 \in 1 .. Len(inbound)
        /\ \A i \in 1 .. Len(inbound') :
             n + i \in 1 .. Len(inbound) /\ n + i # 1 /\ inbound'[i] = inbound[n + i]
        /\ Len(inbound) \in Nat /\ Len(inbound') \in Nat
    BY <2>1, ListenRest
  <2>3. Arrives("pong")' => Arrives("pong") /\ inbound[1] # "pong"
    BY <2>1, <2>2 DEF Arrives, OnePing
  <2>4. inbound[1] = "pong" => Arrives("pong")
    BY <2>2 DEF Arrives
  <2>5. \A i, j \in 1 .. Len(inbound') : inbound'[i] = "pong" /\ inbound'[j] = "pong" => i = j
    <3> SUFFICES ASSUME NEW i \in 1 .. Len(inbound'), NEW j \in 1 .. Len(inbound'),
                        inbound'[i] = "pong", inbound'[j] = "pong"
                 PROVE  i = j
      OBVIOUS
    <3>1. n + i = n + j
      BY <2>1, <2>2 DEF OnePing
    <3> QED
      BY <3>1
  <2>6. IsOpen
    BY <2>1
  <2>7. pingResponse' => pingResponse \/ inbound[1] = "pong"
    BY <2>1
  <2>8. /\ alive' # "awaiting" => "ping" \notin owed' /\ ~Arrives("pong")' /\ ~pingResponse'
        /\ "ping" \in owed' => ~Arrives("pong")' /\ ~pingResponse'
        /\ pingResponse' => ~Arrives("pong")'
    BY <2>1, <2>3, <2>4, <2>6, <2>7 DEF OnePing
  <2> QED
    BY <2>5, <2>8 DEF OnePing
<1>4. CASE ListenMalformed \/ ListenClosed \/ PingFails \/ PingTimesOut
  BY <1>4 DEF ListenMalformed, ListenClosed, PingFails, PingTimesOut, End
<1>5. CASE \/ Take \/ TalkLocks \/ TalkFails \/ SubscriptionsSetUp \/ SubscriptionsTimeOut
           \/ ReceivePublish \/ PassOn \/ NoticesSent \/ NoticesReceived
  BY <1>5, <1>a DEF Take, TalkLocks, TalkFails, SubscriptionsSetUp, SubscriptionsTimeOut,
              ReceivePublish, PassOn, NoticesSent, NoticesReceived, keeper
<1>6. CASE TalkSends
  BY <1>6 DEF TalkSends, OnePing, Arrives
<1>7. CASE Quiet \/ PingLocks \/ PingSends \/ PingAnswered
  BY <1>7 DEF Quiet, PingLocks, PingSends, PingAnswered, OnePing, Arrives, network
<1>8. CASE Tick
  BY <1>8, <1>a DEF Tick
<1>9. CASE UNCHANGED vars
  BY <1>9, <1>a DEF vars, session, keeper
<1> QED
  BY <1>1, <1>2, <1>3, <1>4, <1>5, <1>6, <1>7, <1>8, <1>9 DEF Next, Futures, Listens, Talks,
                                                              SetsUp, KeepsAlive

\* The subscriptions are asked for once, and acknowledged only after that.
LEMMA SubscribeStep ==
  NetworkTypes /\ TalkerTypes /\ StartsFresh /\ SubscribesOnce /\ [Next]_vars => SubscribesOnce'
<1> SUFFICES ASSUME NetworkTypes, TalkerTypes, StartsFresh, SubscribesOnce, [Next]_vars, IsOpen'
             PROVE SubscribesOnce'
  BY DEF SubscribesOnce
<1> USE DEF IsOpen
<1>a. CASE UNCHANGED <<phase, network, message, outgoing, acknowledged>>
  BY <1>a DEF SubscribesOnce, Asking, Arrives, network
<1>1. CASE Loop
  <2>1. Greet
    BY <1>1 DEF Loop, Dial, DialFails, GreetFails, FlushReturns, ResetTimesOut,
                ReleaseSocket, Redial
  <2>2. /\ phase = "greeting" /\ outgoing' = <<"subscribe">>
        /\ UNCHANGED <<inbound, owed, message, acknowledged>>
    BY <2>1 DEF Greet, network, talker, setter
  <2>3. inbound' = <<>> /\ owed' = {} /\ message' = None /\ ~acknowledged'
    BY <2>2 DEF StartsFresh
  <2> QED
    BY <2>2, <2>3, Empty, NoneAssumption DEF SubscribesOnce, Asking, Arrives
<1>2. CASE Broker
  <2>1. CASE \E trouble \in Troubles : Trouble(trouble)
    BY <2>1, <1>a DEF Trouble, session, talker, setter
  <2>2. ASSUME NEW packet \in Packet, Sends(packet), owed' \subseteq owed,
               packet = "suback" => "subscribe" \in owed /\ "subscribe" \notin owed'
        PROVE  SubscribesOnce'
    <3>1. /\ inbound' = Append(inbound, packet)
          /\ UNCHANGED <<phase, message, outgoing, acknowledged>>
      BY <2>2 DEF Sends, talker, setter
    <3>2. Arrives("suback")' => Arrives("suback") \/ packet = "suback"
      BY <3>1, SendsLast DEF Arrives
    <3>3. Asking' <=> Asking
      BY <3>1 DEF Asking
    <3> QED
      BY <2>2, <3>1, <3>2, <3>3 DEF SubscribesOnce
  <2>3. ASSUME NEW request \in owed, Answers(request) PROVE SubscribesOnce'
    <3>1. request \in {"subscribe", "ping"} /\ owed' = owed \ {request}
      BY <2>3 DEF Answers, NetworkTypes
    <3>2. CASE request = "ping"
      BY <2>3, <3>1, <3>2, <2>2 DEF Answers, Packet
    <3>3. CASE request = "subscribe"
      BY <2>3, <3>1, <3>3, <2>2 DEF Answers, Packet
    <3> QED
      BY <3>1, <3>2, <3>3
  <2>4. CASE SendsUnasked
    BY <2>4, <2>2 DEF SendsUnasked, Packet
  <2> QED
    BY <1>2, <2>1, <2>3, <2>4 DEF Broker
<1>3. ASSUME NEW n \in 1 .. MaxInbound, Listen(n) PROVE SubscribesOnce'
  <2>1. /\ inbound' = SubSeq(inbound, n + 1, Len(inbound)) /\ n \in 1 .. Len(inbound)
        /\ acknowledged' = (acknowledged \/ inbound[1] = "suback")
        /\ UNCHANGED <<phase, message, outgoing, owed>>
    BY <1>3 DEF Listen, End, talker
  <2>2. /\ Arrives("suback")' => Arrives("suback")
        /\ inbound[1] = "suback" => Arrives("suback")
    BY <2>1, ListenRest DEF Arrives
  <2>3. acknowledged' => acknowledged \/ inbound[1] = "suback"
    BY <2>1
  <2>4. Asking' <=> Asking
    BY <2>1 DEF Asking
  <2> QED
    BY <2>1, <2>2, <2>3, <2>4 DEF SubscribesOnce
<1>4. CASE ListenMalformed \/ ListenClosed \/ PingFails \/ PingTimesOut
  BY <1>4 DEF ListenMalformed, ListenClosed, PingFails, PingTimesOut, End
<1>5. CASE Take
  <2>1. /\ outgoing # <<>> /\ message' = outgoing[1] /\ outgoing' = Tail(outgoing)
        /\ UNCHANGED <<phase, network, acknowledged>>
    BY <1>5, Channel DEF Take, setter
  <2>2. /\ Len(outgoing) \in Nat /\ Len(outgoing') = Len(outgoing) - 1
        /\ \A i \in 1 .. Len(outgoing') : outgoing'[i] = outgoing[i + 1]
        /\ outgoing' # <<>> => Len(outgoing') # 0
    BY <2>1, Channel
  <2>3. \A i \in 1 .. Len(outgoing') : i + 1 \in 2 .. Len(outgoing)
    BY <2>2
  <2>4. \A i \in 1 .. Len(outgoing') : outgoing'[i] # "subscribe"
    BY <2>1, <2>2, <2>3 DEF SubscribesOnce
  <2>5. \A i \in 2 .. Len(outgoing') : i \in 1 .. Len(outgoing')
    BY <2>2
  <2>6. outgoing' # <<>> => outgoing'[1] # "subscribe"
    BY <2>2, <2>4
  <2>7. Asking' => Asking
    BY <2>1, <2>6 DEF Asking
  <2> QED
    BY <2>1, <2>4, <2>5, <2>6, <2>7 DEF SubscribesOnce, Arrives, network
<1>6. CASE TalkSends
  <2>1. /\ message' = None /\ owed' = owed \cup ({message} \cap {"subscribe"})
        /\ UNCHANGED <<phase, inbound, outgoing, acknowledged>>
    BY <1>6 DEF TalkSends, setter
  <2>2. message' # "subscribe"
    BY <2>1, NoneAssumption
  <2>3. Asking' => Asking /\ message # "subscribe"
    BY <2>1, <2>2 DEF Asking, SubscribesOnce
  <2>4. "subscribe" \in owed' => "subscribe" \in owed \/ message = "subscribe"
    BY <2>1
  <2>5. message = "subscribe" => Asking
    BY DEF Asking
  <2> QED
    BY <2>1, <2>2, <2>3, <2>4, <2>5 DEF SubscribesOnce, Arrives
<1>7. CASE TalkFails
  <2>1. message' = None /\ UNCHANGED <<phase, network, outgoing, acknowledged>>
    BY <1>7 DEF TalkFails, setter
  <2>2. message' # "subscribe" /\ (Asking' => Asking)
    BY <2>1, NoneAssumption DEF Asking
  <2> QED
    BY <2>1, <2>2 DEF SubscribesOnce, Arrives, network
<1>8. CASE PassOn
  <2>1. /\ outgoing' = Append(outgoing, "publish")
        /\ UNCHANGED <<phase, network, message, acknowledged>>
    BY <1>8 DEF PassOn, talker, setter
  <2>2. /\ Len(outgoing) \in Nat /\ Len(outgoing') = Len(outgoing) + 1
        /\ \A i \in 1 .. Len(outgoing) : outgoing'[i] = outgoing[i]
        /\ outgoing'[Len(outgoing) + 1] = "publish"
        /\ outgoing = <<>> <=> Len(outgoing) = 0
    BY <2>1, Channel
  <2>3. \A i \in 2 .. Len(outgoing') : outgoing'[i] # "subscribe"
    <3>1. \A i \in 2 .. Len(outgoing') :
            i = Len(outgoing) + 1 \/ (i \in 2 .. Len(outgoing) /\ i \in 1 .. Len(outgoing))
      BY <2>2
    <3>2. \A i \in 2 .. Len(outgoing) : outgoing[i] # "subscribe"
      BY <2>1 DEF SubscribesOnce
    <3> QED
      BY <2>2, <3>1, <3>2
  <2>4. outgoing'[1] = "subscribe" => outgoing # <<>> /\ outgoing[1] = "subscribe"
    BY <2>2
  <2>5. Asking' => Asking
    BY <2>1, <2>4 DEF Asking
  <2> QED
    BY <2>1, <2>3, <2>4, <2>5 DEF SubscribesOnce, Arrives, network
<1>9. CASE \/ TalkLocks \/ SubscriptionsSetUp \/ SubscriptionsTimeOut \/ ReceivePublish
           \/ NoticesSent \/ NoticesReceived \/ Quiet \/ PingLocks \/ PingAnswered
  BY <1>9, <1>a DEF TalkLocks, SubscriptionsSetUp, SubscriptionsTimeOut, ReceivePublish,
              NoticesSent, NoticesReceived, Quiet, PingLocks, PingAnswered, talker, setter
<1>10. CASE PingSends
  BY <1>10 DEF PingSends, SubscribesOnce, Asking, Arrives, talker, setter
<1>11. CASE Tick
  BY <1>11, <1>a DEF Tick, talker
<1>12. CASE UNCHANGED vars
  BY <1>12, <1>a DEF vars, session, talker, setter
<1> QED
  BY <1>1, <1>2, <1>3, <1>4, <1>5, <1>6, <1>7, <1>8, <1>9, <1>10, <1>11, <1>12 DEF Next,
                                                                                   Futures,
                                                                                   Listens,
                                                                                   Talks,
                                                                                   SetsUp,
                                                                                   KeepsAlive

\* No step makes keep_alive miss that a direction has been quiet.
LEMMA TimelyStep ==
  ASSUME "gone" \notin Troubles, TypeOK, OnePing, StartsFresh, Attentive, [Next]_vars,
         IsOpen, IsOpen'
  PROVE  Timely'
<1>t. /\ KeepAlive \in Nat \ {0} /\ Timeout \in Nat \ {0} /\ 2 * Timeout <= 3 * KeepAlive
      /\ None \notin Nat /\ MaxAge = KeepAlive + Timeout + 1
  BY TimeAssumption, NoneAssumption DEF MaxAge
<1>k. /\ lastSentAt \in Nat /\ lastReceivedAt \in Nat /\ silence \in Nat /\ unheard \in Nat
      /\ lastSent # None => lastSent \in Nat
      /\ lastReceived # None => lastReceived \in Nat
  BY <1>t DEF TypeOK, KeeperTypes, NetworkTypes, Age
<1>b. Timely /\ peer \in {"here", "closed"}
  BY DEF Attentive, TypeOK, LoopTypes, IsOpen
<1>a. CASE UNCHANGED <<alive, instants, signals, pingResponse, history>>
  BY <1>a, <1>b DEF Timely, instants, signals, history
<1>1. ASSUME NEW n \in 1 .. MaxInbound, Listen(n) PROVE Timely'
  <2>1. /\ lastReceived' = 0 /\ silence' = 0
        /\ UNCHANGED <<alive, instants, lastSent, unheard>>
    BY <1>1 DEF Listen, End, IsOpen
  <2> QED
    BY <2>1, <1>b, <1>t, <1>k DEF Timely, instants
<1>2. CASE TalkSends
  <2>1. /\ lastSent' = 0 /\ unheard' = 0
        /\ UNCHANGED <<alive, instants, lastReceived, pingResponse, silence>>
    BY <1>2 DEF TalkSends
  <2> QED
    BY <2>1, <1>b, <1>t, <1>k DEF Timely, instants
<1>3. CASE NoticesSent
  <2>1. /\ lastSentAt' = lastSent /\ lastSent' = None /\ lastSent # None /\ alive = "waiting"
        /\ UNCHANGED <<alive, lastReceivedAt, lastReceived, pingResponse, silence, unheard>>
    BY <1>3 DEF NoticesSent, history
  <2> QED
    BY <2>1, <1>b, <1>t, <1>k DEF Timely
<1>4. CASE NoticesReceived
  <2>1. /\ lastReceivedAt' = lastReceived /\ lastReceived' = None /\ lastReceived # None
        /\ alive = "waiting"
        /\ UNCHANGED <<alive, lastSentAt, lastSent, pingResponse, silence, unheard>>
    BY <1>4 DEF NoticesReceived, history
  <2>2. ~pingResponse
    BY <2>1 DEF OnePing
  <2> QED
    BY <2>1, <2>2, <1>b, <1>t, <1>k DEF Timely
<1>5. CASE Quiet \/ PingLocks
  <2>1. /\ alive # "awaiting" /\ alive' \notin {"awaiting", "waiting"}
        /\ UNCHANGED <<instants, signals, pingResponse, history>>
    BY <1>5 DEF Quiet, PingLocks
  <2> QED
    BY <2>1, <1>b DEF Timely, instants, signals, history
<1>6. CASE PingSends
  <2>1. /\ alive = "sending" /\ alive' = "awaiting" /\ lastSentAt' = 0 /\ unheard' = 0
        /\ UNCHANGED <<lastSent, lastReceived, pingResponse, silence>>
    BY <1>6 DEF PingSends, signals
  <2> QED
    BY <2>1, <1>b, <1>t, <1>k DEF Timely
<1>7. CASE PingAnswered
  <2>1. /\ alive = "awaiting" /\ alive' = "waiting" /\ lastReceivedAt' = 0
        /\ pingResponse /\ ~pingResponse'
        /\ UNCHANGED <<lastSentAt, lastSent, lastReceived, silence, unheard>>
    BY <1>7 DEF PingAnswered, signals, history
  <2> QED
    BY <2>1, <1>b, <1>t, <1>k DEF Timely
<1>8. CASE Tick
  <2>1. /\ silence' = Older(silence) /\ unheard' = Older(unheard)
        /\ lastSentAt' = Older(lastSentAt) /\ lastReceivedAt' = Older(lastReceivedAt)
        /\ lastSent' = OlderSignal(lastSent) /\ lastReceived' = OlderSignal(lastReceived)
        /\ UNCHANGED <<alive, pingResponse>> /\ ~Pending
    BY <1>8 DEF Tick, IsOpen
  <2>2. /\ lastSent # None => lastSent \in Age /\ lastSent' = Older(lastSent)
        /\ lastSent = None => lastSent' = None
        /\ lastReceived # None => lastReceived \in Age /\ lastReceived' = Older(lastReceived)
        /\ lastReceived = None => lastReceived' = None
    BY <2>1 DEF OlderSignal, TypeOK, KeeperTypes
  <2>3. silence \in Age /\ unheard \in Age /\ lastSentAt \in Age /\ lastReceivedAt \in Age
    BY DEF TypeOK, KeeperTypes, NetworkTypes
  <2>4. /\ lastReceived' # None => silence' <= lastReceived'
        /\ lastSent' # None => unheard' <= lastSent'
    BY <2>1, <2>2, <2>3, <1>b, Ages DEF Timely
  <2>5. peer = "here" /\ alive # "sending" /\ talking # "sending"
    BY <1>b, <2>1 DEF Pending
  <2>6. alive # "locking"
    BY <2>1, <2>5 DEF Pending, Locked
  <2>7. alive \in {"waiting", "awaiting"}
    BY <2>5, <2>6 DEF TypeOK, KeeperTypes
  <2>8. CASE alive = "waiting"
    <3>1. /\ lastSent = None /\ lastReceived = None
          /\ lastSentAt < KeepAlive /\ lastReceivedAt < KeepAlive
      BY <2>1, <2>8, <1>k, <1>t DEF Pending, Overdue
    <3>2. silence <= lastReceivedAt /\ unheard <= lastSentAt
      BY <2>8, <3>1, <1>b DEF Timely
    <3>3. /\ silence' = silence + 1 /\ unheard' = unheard + 1
          /\ lastSentAt' = lastSentAt + 1 /\ lastReceivedAt' = lastReceivedAt + 1
      BY <2>1, <3>1, <3>2, <1>k, <1>t DEF Older
    <3>4. ~pingResponse' /\ alive' = "waiting"
      BY <2>1, <2>8 DEF OnePing
    <3> QED
      BY <2>4, <3>1, <3>2, <3>3, <3>4, <1>k, <1>t DEF Timely
  <2>9. CASE alive = "awaiting"
    <3>1. ~pingResponse /\ lastSentAt < Timeout
      BY <2>1, <2>9, <1>k, <1>t DEF Pending
    <3>2. silence <= KeepAlive + lastSentAt /\ unheard <= lastSentAt
      BY <2>9, <1>b DEF Timely
    <3>3. /\ silence' = silence + 1 /\ unheard' = unheard + 1 /\ lastSentAt' = lastSentAt + 1
      BY <2>1, <3>1, <3>2, <1>k, <1>t DEF Older
    <3>4. ~pingResponse' /\ alive' = "awaiting"
      BY <2>1, <2>9, <3>1
    <3> QED
      BY <2>4, <3>1, <3>2, <3>3, <3>4, <1>k, <1>t DEF Timely
  <2> QED
    BY <2>7, <2>8, <2>9
<1>9. CASE Loop
  BY <1>9 DEF Loop, Dial, DialFails, Greet, GreetFails, FlushReturns, ResetTimesOut,
              ReleaseSocket, Redial, IsOpen
<1>10. CASE Broker
  BY <1>10, <1>a DEF Broker, Trouble, SendsUnasked, Answers, Sends, session, keeper
<1>11. CASE \/ Take \/ TalkLocks \/ TalkFails \/ SubscriptionsSetUp \/ SubscriptionsTimeOut
            \/ ReceivePublish \/ PassOn
  BY <1>11, <1>a DEF Take, TalkLocks, TalkFails, SubscriptionsSetUp, SubscriptionsTimeOut,
                     ReceivePublish, PassOn, keeper
<1>12. CASE ListenMalformed \/ ListenClosed \/ PingFails \/ PingTimesOut
  BY <1>12 DEF ListenMalformed, ListenClosed, PingFails, PingTimesOut, End, IsOpen
<1>13. CASE UNCHANGED vars
  BY <1>13, <1>a DEF vars, session, keeper
<1> QED
  BY <1>1, <1>2, <1>3, <1>4, <1>5, <1>6, <1>7, <1>8, <1>9, <1>10, <1>11, <1>12, <1>13
     DEF Next, Futures, Listens, Talks, SetsUp, KeepsAlive

\* A session starts with nothing quiet, and with a peer that is there.
LEMMA AttentiveStep ==
  TypeOK /\ OnePing /\ StartsFresh /\ Attentive /\ [Next]_vars => Attentive'
<1> SUFFICES ASSUME TypeOK, OnePing, StartsFresh, Attentive, [Next]_vars,
                    "gone" \notin Troubles
             PROVE  Attentive'
  BY DEF Attentive
<1>1. peer' # "gone" /\ (phase' \in {"greeting", "open"} => peer' # "none")
  <2> USE DEF Attentive, session
  <2>1. CASE Loop
    BY <2>1 DEF Loop, Dial, DialFails, Greet, GreetFails, FlushReturns, ResetTimesOut,
                ReleaseSocket, Redial
  <2>2. CASE Broker
    BY <2>2, BoundAssumption DEF Broker, Trouble, SendsUnasked, Answers, Sends
  <2>3. CASE Futures
    BY <2>3 DEF Futures, Listens, Talks, SetsUp, KeepsAlive, Listen, ListenMalformed,
                ListenClosed, End, Take, TalkLocks, TalkSends,
                TalkFails, SubscriptionsSetUp, SubscriptionsTimeOut, ReceivePublish, PassOn,
                NoticesSent, NoticesReceived, Quiet, PingLocks, PingSends, PingFails,
                PingAnswered, PingTimesOut, IsOpen
  <2>4. CASE Tick \/ UNCHANGED vars
    BY <2>4 DEF Tick, vars
  <2> QED
    BY <2>1, <2>2, <2>3, <2>4 DEF Next
<1>2. ASSUME ~IsOpen, IsOpen' PROVE Timely'
  <2>1. Greet
    BY <1>2 DEF Next, Loop, Dial, DialFails, GreetFails, FlushReturns, ResetTimesOut,
                ReleaseSocket, Redial, Broker, Trouble, SendsUnasked,
                Answers, Sends, Futures, Listens, Talks, SetsUp, KeepsAlive, Listen,
                ListenMalformed, ListenClosed, End, Take,
                TalkLocks, TalkSends, TalkFails, SubscriptionsSetUp, SubscriptionsTimeOut,
                ReceivePublish, PassOn, NoticesSent, NoticesReceived, Quiet, PingLocks,
                PingSends, PingFails, PingAnswered, PingTimesOut, Tick, vars, IsOpen
  <2>2. /\ silence' = 0 /\ unheard' = 0
        /\ alive' = "waiting" /\ lastSentAt' = 0 /\ lastReceivedAt' = 0
        /\ lastSent' = None /\ lastReceived' = None /\ ~pingResponse'
    BY <2>1 DEF Greet, StartsFresh, keeper, instants, signals
  <2> QED
    BY <2>2, TimeAssumption DEF Timely
<1>3. IsOpen' => Timely'
  BY <1>2, TimelyStep
<1> QED
  BY <1>1, <1>3 DEF Attentive

\* The controller starts without a session.
LEMMA InitInv == Init => IInv
<1> SUFFICES ASSUME Init PROVE IInv
  OBVIOUS
<1>b. 0 \in 0 .. SubscribeTimeout /\ 0 <= Outgoing /\ 0 <= MaxInbound
  BY TimeAssumption, BoundAssumption
<1>i. /\ inbound = <<>> /\ outgoing = <<>> /\ owed = {} /\ silence = 0 /\ unheard = 0
      /\ setUpAge = 0 /\ inHand = FALSE /\ acknowledged = FALSE /\ setUp = "acknowledging"
      /\ talking = "receiving" /\ message = None
  BY DEF Init
<1>1. LoopTypes /\ KeeperTypes
  BY Ages DEF Init, LoopTypes, KeeperTypes
<1>2. NetworkTypes
  BY <1>b, <1>i, Ages, Empty DEF NetworkTypes
<1>3. TalkerTypes
  BY <1>b, <1>i, Empty DEF TalkerTypes
<1>4. OneWriter /\ StartsFresh
  BY DEF Init, OneWriter, StartsFresh
<1>5. OnePing /\ SubscribesOnce /\ Attentive
  BY DEF Init, OnePing, SubscribesOnce, Attentive, IsOpen
<1> QED
  BY <1>1, <1>2, <1>3, <1>4, <1>5 DEF IInv, TypeOK

\* Every step keeps every part of the invariant.
LEMMA NextInv == IInv /\ [Next]_vars => IInv'
  BY LoopStep, NetworkStep, TalkerStep, KeeperStep, WriterStep, FreshStep, PingStep,
     SubscribeStep, AttentiveStep
     DEF IInv, TypeOK

\* The types, the lock of the writer, and the accounts of the one ping and the
\* one request for subscriptions hold throughout (task.rs:289-448).
THEOREM Invariance == Spec => []IInv
  BY InitInv, NextInv, PTL DEF Spec

\* A session takes only answers to its own requests for answers, whatever the
\* sessions before it left unread (task.rs:771-778).
THEOREM AnswersAreOwn == Spec => []OwnAnswers
<1>1. IInv => OwnAnswers
  BY DEF IInv, OwnAnswers, OnePing, SubscribesOnce, StartsFresh, IsOpen
<1> QED
  BY <1>1, Invariance, PTL

\* For any keep alive and timeout: a connection whose other end acknowledges
\* segments but says nothing is given up after both together
\* (task.rs:382-390).
THEOREM SilenceIsNoticed == ASSUME "gone" \notin Troubles PROVE Spec => []NoticesSilence
<1>1. IInv => NoticesSilence
  <2> SUFFICES ASSUME IInv, IsOpen PROVE silence <= KeepAlive + Timeout
    BY DEF NoticesSilence
  <2>1. silence \in Nat /\ lastSentAt \in Nat
    BY Ages DEF IInv, TypeOK, NetworkTypes, KeeperTypes, Age
  <2>2. Timely
    BY DEF IInv, Attentive
  <2> QED
    BY <2>1, <2>2, TimeAssumption DEF Timely
<1> QED
  BY <1>1, Invariance, PTL

\* For any keep alive and timeout of at most one and a half times that: the
\* broker hears from the controller in time (configuration.rs:42-43).
THEOREM BrokerIsKept == ASSUME "gone" \notin Troubles PROVE Spec => []BrokerKeepsClient
<1>1. IInv => BrokerKeepsClient
  BY DEF IInv, Attentive, Timely, BrokerKeepsClient
<1> QED
  BY <1>1, Invariance, PTL
==============================================================================
