-------------------------- MODULE GatewayMqttProofs -------------------------
(***************************************************************************)
(* Proofs about GatewayMqtt, for every capacity of the two channels, every *)
(* range of the reconnect delay and any number of publishes.               *)
(***************************************************************************)
EXTENDS GatewayMqtt, SequenceTheorems, TLAPS

\* backoff keeps the delay between its first value and the cap.
LEMMA DoubledInRange ==
    ASSUME NEW d \in InitialReconnectDelay..MaxReconnectDelay
    PROVE  Doubled(d) \in InitialReconnectDelay..MaxReconnectDelay
BY DelayAssumption DEF Doubled

\* What the task's operations on the request channel do to its length.
LEMMA ChannelTypes ==
    ASSUME NEW q \in Seq(Request), NEW n \in Nat, Len(q) <= n
    PROVE  /\ Len(q) + 1 <= n => \A x \in Request : /\ Append(q, x) \in Seq(Request)
                                                   /\ Len(Append(q, x)) <= n
           /\ q # <<>> => Head(q) \in Request /\ Tail(q) \in Seq(Request) /\ Len(Tail(q)) <= n
<1>0. Len(q) \in Nat
  BY LenProperties
<1>1. ASSUME NEW x \in Request, Len(q) + 1 <= n
      PROVE  Append(q, x) \in Seq(Request) /\ Len(Append(q, x)) <= n
  <2>1. Append(q, x) \in Seq(Request) /\ Len(Append(q, x)) = Len(q) + 1
    BY AppendProperties
  <2>2. Len(Append(q, x)) <= n
    BY <2>1, <1>1
  <2> QED
    BY <2>1, <2>2, Zenon
<1>2. q # <<>> => Head(q) \in Request /\ Tail(q) \in Seq(Request) /\ Len(Tail(q)) = Len(q) - 1
  BY HeadTailProperties
<1>3. q # <<>> => Len(Tail(q)) <= n
  BY <1>0, <1>2
<1> QED
  BY <1>1, <1>2, <1>3, Zenon

\* The requests of on_connected come one after the other, and then the loop.
LEMMA NextRequestTypes ==
    /\ NextRequest["cmds"] = "connect"
    /\ NextRequest["connect"] = "alive"
    /\ NextRequest["alive"] = "loop"
BY DEF NextRequest

\* Every step of the task, its callers and the gateway keeps the state well
\* formed: the channels within their capacities, the delay within its range.
LEMMA TypeStep == ASSUME TypeOK, [Next]_vars PROVE TypeOK'
<1>c. /\ RequestCapacity \in Nat \ {0} /\ OutboundCapacity \in Nat \ {0}
      /\ MaxPublishes \in Nat
      /\ InitialReconnectDelay \in InitialReconnectDelay..MaxReconnectDelay
  BY DelayAssumption, CapacityAssumption
<1>q. requests \in Seq(Request) /\ Len(requests) <= RequestCapacity
  BY DEF TypeOK
<1>0. CASE UNCHANGED vars
  BY <1>0 DEF vars, client, callers, TypeOK
<1>1. CASE Publish
  BY <1>1, <1>c DEF Publish, client, TypeOK
<1>11. CASE Tell \/ Revoke
  BY <1>11 DEF Tell, Revoke, client, callers, TypeOK
<1>2. CASE Interrupted \/ LoginSucceeds \/ OptionsFail
  BY <1>2 DEF Interrupted, LoginSucceeds, OptionsFail, client, callers, TypeOK
<1>3. CASE LoginFails
  BY <1>3 DEF LoginFails, AfterError, client, callers, TypeOK
<1>4. CASE Connect
  <2>1. <<>> \in Seq(Request) /\ Len(<<>>) <= RequestCapacity
    BY <1>c, EmptySeq
  <2> QED
    BY <1>4, <1>c, <2>1 DEF Connect, callers, TypeOK
<1>5. CASE BackoffOver
  BY <1>5, DoubledInRange DEF BackoffOver, client, callers, TypeOK
<1>6. CASE Disconnect
  BY <1>6 DEF Disconnect, client, callers, TypeOK
<1>7. CASE Forward
  <2>1. requests' \in Seq(Request) /\ Len(requests') <= RequestCapacity
    BY <1>7, <1>q, <1>c, ChannelTypes DEF Forward, Put, Room, Request
  <2>2. outbound' \in 0..published' /\ outbound' <= OutboundCapacity
    BY <1>7, <1>c DEF Forward, TypeOK
  <2>3. at' \in {"loop", "request"}
    BY <1>7 DEF Forward, Put
  <2> QED
    BY <1>7, <2>1, <2>2, <2>3 DEF Forward, TypeOK
<1>8. CASE ConnAck
  BY <1>8, <1>c DEF ConnAck, callers, Announcing, Subscription, TypeOK
<1>12. CASE Announce \/ AnnounceFails
  <2>1. at \in Announcing /\ at \in Request /\ UNCHANGED <<delay, cached, connected, sent, callers>>
    BY <1>12 DEF Announce, AnnounceFails, Request
  <2>2. requests' \in Seq(Request) /\ Len(requests') <= RequestCapacity
    BY <1>12, <2>1, <1>q, <1>c, ChannelTypes DEF Announce, AnnounceFails, Put, Room
  <2>3. at' \in {"loop", "request", "connect", "alive"}
    BY <1>12, <2>1, NextRequestTypes DEF Announce, AnnounceFails, Put, Announcing, Subscription
  <2>4. refused' \subseteq Announcing
    BY <1>12, <2>1 DEF Announce, AnnounceFails, TypeOK
  <2> QED
    BY <2>1, <2>2, <2>3, <2>4 DEF callers, Announcing, Subscription, TypeOK
<1>9. CASE Poll
  <2>1. /\ requests' \in Seq(Request) /\ Len(requests') <= RequestCapacity
        /\ sent' \subseteq Request
    BY <1>9, <1>q, <1>c, ChannelTypes DEF Poll, TypeOK
  <2> QED
    BY <1>9, <2>1 DEF Poll, callers, TypeOK
<1>10. CASE Refused \/ ConnectionError
  BY <1>10 DEF Refused, Forgotten, ConnectionError, client, callers, TypeOK
<1> QED
  BY <1>0, <1>1, <1>2, <1>3, <1>4, <1>5, <1>6, <1>7, <1>8, <1>9, <1>10, <1>11,
     <1>12 DEF Next

\* Every reachable state of the task is well formed.
THEOREM TypeCorrect == Spec => []TypeOK
<1>c. /\ RequestCapacity \in Nat \ {0} /\ OutboundCapacity \in Nat \ {0}
      /\ MaxPublishes \in Nat
      /\ InitialReconnectDelay \in InitialReconnectDelay..MaxReconnectDelay
  BY DelayAssumption, CapacityAssumption
<1>1. Init => TypeOK
  <2>1. <<>> \in Seq(Request) /\ Len(<<>>) <= RequestCapacity
    BY <1>c, EmptySeq
  <2>2. 0 \in 0..MaxPublishes /\ 0 \in 0..0 /\ 0 <= OutboundCapacity
    BY <1>c
  <2> SUFFICES ASSUME Init PROVE TypeOK
    OBVIOUS
  <2>3. requests \in Seq(Request) /\ Len(requests) <= RequestCapacity
    BY <2>1 DEF Init
  <2> QED
    BY <1>c, <2>2, <2>3 DEF Init, TypeOK
<1> QED
  BY <1>1, TypeStep, PTL DEF Spec

(***************************************************************************)
(* The order of subscriptions and announcement.                            *)
(***************************************************************************)

\* A subscription that on_connected has asked for has been sent or refused, or it
\* waits in the first n places of the request channel.
Asked(t, n) == t \in sent \cup refused \/ \E j \in 1..n : requests[j] = t

\* on_connected asks for cmds, then for connect, then for alive.  An announcement
\* in the channel comes after the subscriptions.
OrderInv ==
    /\ at \in {"connect", "alive"} => Asked("cmds", Len(requests))
    /\ at = "alive" => Asked("connect", Len(requests))
    /\ \A i \in 1..Len(requests) : requests[i] = "alive" =>
          \A t \in Subscription : Asked(t, i - 1)
    /\ AliveAfterSubscriptions

\* A request that is appended to the channel keeps what is asked for.
LEMMA AppendAsked ==
    ASSUME NEW q \in Seq(Request), NEW x \in Request
    PROVE  /\ Len(Append(q, x)) = Len(q) + 1 /\ Len(q) \in Nat
           /\ \A i \in 1..Len(q) : Append(q, x)[i] = q[i]
           /\ Append(q, x)[Len(q) + 1] = x
BY AppendProperties, LenProperties

\* What a step that only adds to the channel, or refuses a request, keeps.
LEMMA AskedStays ==
    ASSUME TypeOK, OrderInv,
           sent' = sent, refused \subseteq refused',
           \/ requests' = requests
           \/ \E x \in Request : requests' = Append(requests, x)
    PROVE  /\ Len(requests) \in Nat /\ Len(requests') \in Nat /\ Len(requests) <= Len(requests')
           /\ \A i \in 1..Len(requests) : requests'[i] = requests[i]
           /\ \A t \in Subscription : \A n \in 0..Len(requests) :
                 Asked(t, n) => (t \in sent' \cup refused' \/ \E j \in 1..n : requests'[j] = t)
           /\ AliveAfterSubscriptions'
<1>1. requests \in Seq(Request) /\ Len(requests) \in Nat
  BY LenProperties DEF TypeOK
<1>2. /\ Len(requests') \in Nat /\ Len(requests) <= Len(requests')
      /\ \A i \in 1..Len(requests) : requests'[i] = requests[i]
  <2>1. CASE requests' = requests
    BY <2>1, <1>1
  <2>2. ASSUME NEW x \in Request, requests' = Append(requests, x)
        PROVE  /\ Len(requests') \in Nat /\ Len(requests) <= Len(requests')
               /\ \A i \in 1..Len(requests) : requests'[i] = requests[i]
    BY <2>2, <1>1, AppendAsked
  <2> QED
    BY <2>1, <2>2
<1>3. ASSUME NEW t \in Subscription, NEW n \in 0..Len(requests), Asked(t, n)
      PROVE  t \in sent' \cup refused' \/ \E j \in 1..n : requests'[j] = t
  <2>1. CASE t \in sent \cup refused
    BY <2>1
  <2>2. CASE \E j \in 1..n : requests[j] = t
    <3>1. PICK j \in 1..n : requests[j] = t
      BY <2>2
    <3>2. requests'[j] = t
      BY <3>1, <1>1, <1>2
    <3> QED
      BY <3>2
  <2> QED
    BY <1>3, <2>1, <2>2 DEF Asked
<1>4. AliveAfterSubscriptions'
  BY DEF OrderInv, AliveAfterSubscriptions
<1> QED
  BY <1>1, <1>2, <1>3, <1>4

\* A step that adds to the channel keeps the order, if an announcement that it
\* adds comes after both subscriptions.
LEMMA OrderAppend ==
    ASSUME TypeOK, OrderInv,
           sent' = sent, refused \subseteq refused',
           NEW x \in Request,
           requests' = Append(requests, x),
           x = "alive" => at = "alive",
           at' \in {"connect", "alive"} => x = "cmds" \/ at \in {"connect", "alive"},
           at' = "alive" => x = "connect" \/ at = "alive"
    PROVE  OrderInv'
<1>1. requests \in Seq(Request) /\ Len(requests) \in Nat
  BY LenProperties DEF TypeOK
<1>2. /\ Len(requests') = Len(requests) + 1
      /\ \A i \in 1..Len(requests) : requests'[i] = requests[i]
      /\ requests'[Len(requests) + 1] = x
  BY <1>1, AppendAsked
<1>3. /\ \A t \in Subscription : \A n \in 0..Len(requests) :
            Asked(t, n) => (t \in sent' \cup refused' \/ \E j \in 1..n : requests'[j] = t)
      /\ AliveAfterSubscriptions'
  BY AskedStays
<1>4. ASSUME NEW t \in Subscription, x = t \/ Asked(t, Len(requests))
      PROVE  t \in sent' \cup refused' \/ \E j \in 1..Len(requests') : requests'[j] = t
  <2>1. CASE x = t
    BY <2>1, <1>1, <1>2
  <2>2. CASE Asked(t, Len(requests))
    BY <2>2, <1>1, <1>2, <1>3
  <2> QED
    BY <1>4, <2>1, <2>2
<1>5. ASSUME NEW i \in 1..Len(requests'), requests'[i] = "alive", NEW t \in Subscription
      PROVE  t \in sent' \cup refused' \/ \E j \in 1..(i - 1) : requests'[j] = t
  <2>1. CASE i \in 1..Len(requests)
    <3>1. Asked(t, i - 1) /\ i - 1 \in 0..Len(requests)
      BY <2>1, <1>1, <1>2, <1>5 DEF OrderInv
    <3> QED
      BY <3>1, <1>3
  <2>2. CASE i = Len(requests) + 1
    <3>1. Asked(t, Len(requests)) /\ Len(requests) \in 0..Len(requests) /\ i - 1 = Len(requests)
      BY <2>2, <1>1, <1>2, <1>5 DEF OrderInv, Subscription
    <3> QED
      BY <3>1, <1>3
  <2> QED
    BY <2>1, <2>2, <1>1, <1>2
<1>6. at' \in {"connect", "alive"} => Asked("cmds", Len(requests))'
  BY <1>4 DEF OrderInv, Asked, Subscription
<1>7. at' = "alive" => Asked("connect", Len(requests))'
  BY <1>4 DEF OrderInv, Asked, Subscription
<1> QED
  BY <1>3, <1>5, <1>6, <1>7 DEF OrderInv, Asked

\* Only four kinds of step touch the request channel, and none breaks the order.
LEMMA OrderStep == ASSUME TypeOK, OrderInv, [Next]_vars PROVE OrderInv'
<1>q. requests \in Seq(Request) /\ Len(requests) \in Nat
  BY LenProperties DEF TypeOK
<1>0. CASE UNCHANGED client /\ (at' = at \/ at' \notin {"connect", "alive"})
  BY <1>0 DEF client, OrderInv, Asked, AliveAfterSubscriptions
<1>1. CASE Connect
  BY <1>1 DEF Connect, OrderInv, AliveAfterSubscriptions
<1>2. CASE Forward
  <2>1. UNCHANGED <<sent, refused>> /\ at' \notin {"connect", "alive"}
    BY <1>2 DEF Forward, Put
  <2>2. CASE UNCHANGED requests
    BY <2>1, <2>2 DEF OrderInv, Asked, AliveAfterSubscriptions
  <2>3. CASE requests' = Append(requests, "message")
    <3>1. "message" \in Request
      BY DEF Request
    <3> QED
      BY <2>1, <2>3, <3>1, OrderAppend
  <2> QED
    BY <1>2, <2>2, <2>3 DEF Forward, Put
<1>3. CASE ConnAck
  BY <1>3 DEF ConnAck, OrderInv, Asked, AliveAfterSubscriptions
<1>5. CASE Announce
  <2>1. at \in {"cmds", "connect", "alive"} /\ at \in Request /\ UNCHANGED <<sent, refused>>
    BY <1>5 DEF Announce, Announcing, Subscription, Request
  <2>2. CASE UNCHANGED requests /\ at' = "request"
    BY <2>1, <2>2 DEF OrderInv, Asked, AliveAfterSubscriptions
  <2>3. CASE requests' = Append(requests, at) /\ at' = NextRequest[at]
    <3>1. /\ at' \in {"connect", "alive"} => at = "cmds" \/ at \in {"connect", "alive"}
          /\ at' = "alive" => at = "connect" \/ at = "alive"
      BY <2>1, <2>3, NextRequestTypes
    <3> QED
      BY <2>1, <2>3, <3>1, OrderAppend
  <2> QED
    BY <1>5, <2>2, <2>3 DEF Announce, Put
<1>6. CASE AnnounceFails
  <2>1. /\ at \in {"cmds", "connect", "alive"} /\ at' = NextRequest[at]
        /\ UNCHANGED <<sent, requests>> /\ refused' = refused \cup {at}
    BY <1>6 DEF AnnounceFails, Announcing, Subscription
  <2>2. /\ at' \in {"connect", "alive"} => at = "cmds" \/ at \in {"connect", "alive"}
        /\ at' = "alive" => at = "connect" \/ at = "alive"
    BY <2>1, NextRequestTypes
  <2> QED
    BY <2>1, <2>2 DEF OrderInv, Asked, AliveAfterSubscriptions
<1>4. CASE Poll
  <2>1. /\ at = "loop" /\ at' = at /\ Len(requests) > 0
        /\ Len(requests') = Len(requests) - 1
        /\ \A i \in 1..Len(requests') : requests'[i] = requests[i + 1]
        /\ sent' = sent \cup {requests[1]} /\ refused' = refused
    BY <1>4, <1>q DEF Poll
  <2>2. AliveAfterSubscriptions'
    BY <2>1, <1>q DEF OrderInv, Asked, AliveAfterSubscriptions
  <2>3. ASSUME NEW i \in 1..Len(requests'), requests'[i] = "alive",
               NEW t \in Subscription, t \notin sent' \cup refused'
        PROVE  \E j \in 1..(i - 1) : requests'[j] = t
    <3>1. i + 1 \in 1..Len(requests) /\ requests[i + 1] = "alive"
      BY <2>1, <2>3, <1>q
    <3>2. PICK j \in 1..i : requests[j] = t
      BY <3>1, <2>1, <2>3 DEF OrderInv, Asked
    <3>3. j # 1
      BY <3>2, <2>1, <2>3
    <3>4. j - 1 \in 1..(i - 1) /\ requests'[j - 1] = t
      BY <2>1, <3>1, <3>2, <3>3, <1>q
    <3> QED
      BY <3>4
  <2> QED
    BY <2>1, <2>2, <2>3 DEF OrderInv, Asked
<1> QED
  BY <1>0, <1>1, <1>2, <1>3, <1>4, <1>5, <1>6
  DEF Next, vars, Publish, Tell, Revoke, Interrupted, LoginSucceeds, LoginFails, AfterError,
      OptionsFail, BackoffOver, Disconnect, Refused, ConnectionError

\* The gateway never hears that the device is alive before the device has
\* subscribed to its topics, except those whose subscription the client refused
\* (on_connected), for any capacities and any traffic.
THEOREM AliveLast == Spec => []AliveAfterSubscriptions
<1>1. Init => OrderInv
  BY DEF Init, OrderInv, Asked, AliveAfterSubscriptions
<1>2. OrderInv => AliveAfterSubscriptions
  BY DEF OrderInv
<1> QED
  BY <1>1, <1>2, TypeCorrect, OrderStep, PTL DEF Spec

(***************************************************************************)
(* Waiting for oneself.                                                    *)
(***************************************************************************)

\* The requests that on_connected may have put into the channel.
Announced ==
    IF ~connected \/ at = "cmds" THEN 0
    ELSE IF at = "connect" THEN 1
    ELSE IF at = "alive" THEN 2 ELSE 3

\* The request channel holds messages that callers have published, each once,
\* and after the ConnAck at most the three requests of on_connected.
RequestInv ==
    /\ at \in Announcing => connected
    /\ Len(requests) + outbound <= published + Announced
    /\ NoSelfWait

\* A step that finds less than four free places has more messages behind it
\* than callers may publish.
LEMMA RequestStep == ASSUME TypeOK, TypeOK', RequestInv, [Next]_vars PROVE RequestInv'
<1>t. /\ Len(requests) \in Nat /\ Len(requests') \in Nat
      /\ outbound \in Nat /\ published \in Nat /\ published <= MaxPublishes
      /\ connected \in BOOLEAN /\ requests \in Seq(Request)
      /\ Announced \in 0..3
  BY LenProperties, CapacityAssumption DEF TypeOK, Announced
<1>c. RequestCapacity \in Nat /\ MaxPublishes \in Nat
  BY CapacityAssumption
<1>a. Announcing = {"cmds", "connect", "alive"}
  BY DEF Announcing, Subscription
<1>r. MaxPublishes + 4 <= RequestCapacity => Room(1)
  BY <1>t, <1>c DEF Room, RequestInv
<1>1. CASE Publish
  <2>1. Announced' = Announced
    BY <1>1 DEF Publish, client, Announced
  <2> QED
    BY <1>1, <1>t, <2>1 DEF Publish, client, RequestInv, NoSelfWait
<1>2. CASE Connect
  <2>1. requests' = <<>> /\ outbound <= published /\ at' = "loop"
    BY <1>2 DEF Connect, TypeOK
  <2>2. Len(requests') = 0 /\ Announced' = 0
    BY <1>2, <2>1 DEF Connect, Announced
  <2> QED
    BY <1>2, <1>t, <1>a, <2>1, <2>2 DEF Connect, callers, RequestInv, NoSelfWait
<1>3. CASE Disconnect
  <2>1. Announced' = Announced /\ at' \in {"stopped", "request"}
    BY <1>3 DEF Disconnect, client, Announced
  <2> QED
    BY <1>3, <1>a, <1>r, <2>1 DEF Disconnect, client, callers, RequestInv, NoSelfWait
<1>4. CASE Forward
  <2>1. Len(requests') \in {Len(requests), Len(requests) + 1}
    BY <1>4, <1>t, AppendProperties DEF Forward, Put, Request
  <2>2. /\ outbound > 0 /\ outbound' = outbound - 1
        /\ UNCHANGED <<published, connected>>
        /\ at = "loop" /\ at' \in {"loop", "request"}
    BY <1>4 DEF Forward, Put
  <2>3. Announced' = Announced
    BY <2>2 DEF Announced
  <2>4. Len(requests') + outbound' <= published' + Announced'
    BY <1>t, <2>1, <2>2, <2>3 DEF RequestInv
  <2>5. NoSelfWait'
    BY <1>4, <1>r DEF Forward, Put, RequestInv, NoSelfWait
  <2> QED
    BY <1>a, <2>2, <2>4, <2>5 DEF RequestInv
<1>5. CASE ConnAck
  <2>1. Announced = 0 /\ Announced' = 0
    BY <1>5 DEF ConnAck, Announced
  <2> QED
    BY <1>5, <2>1 DEF ConnAck, callers, RequestInv, NoSelfWait
<1>8. CASE Announce
  <2>1. at \in {"cmds", "connect", "alive"} /\ UNCHANGED <<connected, outbound, published>> /\ connected
    BY <1>8, <1>a DEF Announce, callers, RequestInv
  <2>2. CASE Room(1)
    <3>1. requests' = Append(requests, at) /\ at' = NextRequest[at]
      BY <1>8, <2>2 DEF Announce, Put
    <3>2. Len(requests') = Len(requests) + 1
      BY <1>t, <1>a, <2>1, <3>1, AppendProperties DEF Request
    <3>3. Announced' = Announced + 1 /\ at' # "request"
      BY <2>1, <3>1, NextRequestTypes DEF Announced
    <3> QED
      BY <1>t, <2>1, <3>2, <3>3 DEF RequestInv, NoSelfWait
  <2>3. CASE ~Room(1)
    <3>1. requests' = requests /\ at' = "request"
      BY <1>8, <2>3 DEF Announce, Put
    <3>2. Announced' = 3
      BY <2>1, <3>1 DEF Announced
    <3> QED
      BY <1>t, <1>r, <1>a, <2>1, <2>3, <3>1, <3>2 DEF RequestInv, NoSelfWait
  <2> QED
    BY <2>2, <2>3
<1>9. CASE AnnounceFails
  <2>1. /\ at \in {"cmds", "connect", "alive"} /\ at' = NextRequest[at]
        /\ UNCHANGED <<requests, connected, outbound, published>> /\ connected
    BY <1>9, <1>a DEF AnnounceFails, callers, RequestInv
  <2>2. Announced' = Announced + 1 /\ at' # "request"
    BY <2>1, NextRequestTypes DEF Announced
  <2> QED
    BY <1>t, <2>1, <2>2 DEF RequestInv, NoSelfWait
<1>6. CASE Poll
  <2>1. Len(requests') = Len(requests) - 1
    BY <1>6, <1>t, HeadTailProperties DEF Poll
  <2>2. Announced' = Announced
    BY <1>6 DEF Poll, Announced
  <2> QED
    BY <1>6, <1>t, <1>a, <2>1, <2>2 DEF Poll, callers, RequestInv, NoSelfWait
<1>7. CASE /\ UNCHANGED <<client, published, outbound>>
           /\ \/ at' = at
              \/ at \notin Announcing /\ at' \notin Announcing \cup {"request"}
  <2>1. Announced' = Announced
    BY <1>7, <1>a DEF client, Announced
  <2> QED
    BY <1>7, <2>1 DEF client, RequestInv, NoSelfWait
<1> QED
  BY <1>1, <1>2, <1>3, <1>4, <1>5, <1>6, <1>7, <1>8, <1>9, <1>a
  DEF Next, vars, callers, Tell, Revoke, Interrupted, LoginSucceeds, LoginFails, AfterError,
      OptionsFail, BackoffOver, Refused, ConnectionError

\* With four places to spare in the request channel the task never waits for
\* itself: client.disconnect, client.publish and on_connected find room on every
\* connection, so from its loop the task can always answer the shutdown.
THEOREM NeverWaitsForItself == Spec => []NoSelfWait
<1>1. Init => RequestInv
  <2> SUFFICES ASSUME Init PROVE RequestInv
    OBVIOUS
  <2>1. Len(requests) = 0
    BY DEF Init
  <2> QED
    BY <2>1 DEF Init, RequestInv, NoSelfWait, Announced, Announcing, Subscription
<1>2. RequestInv => NoSelfWait
  BY DEF RequestInv
<1> QED
  BY <1>1, <1>2, TypeCorrect, RequestStep, PTL DEF Spec

(***************************************************************************)
(* Refinement, without its fairness.                                       *)
(***************************************************************************)

\* Every step of the task is a step of ConnectionTask or leaves its status
\* alone: the task ends only after it was told to, whatever logins, options and
\* connections fail.
THEOREM TaskRefines == Spec => Abstract!Init /\ [][Abstract!Next]_Status
<1>1. Init => Abstract!Init
  BY DEF Init, Abstract!Init, Status
<1>2. ASSUME TypeOK, [Next]_vars PROVE [Abstract!Next]_Status
  <2> USE DEF Abstract!Next, Abstract!Tell, Abstract!Stop, Status
  <2>0. CASE UNCHANGED <<at, told>>
    BY <2>0
  <2>1. CASE Tell
    BY <1>2, <2>1 DEF Tell, TypeOK
  <2>2. CASE Interrupted \/ Disconnect
    BY <2>2 DEF Interrupted, Disconnect, callers
  <2>3. CASE LoginSucceeds \/ LoginFails \/ Connect \/ OptionsFail \/ BackoffOver
    BY <2>3 DEF LoginSucceeds, LoginFails, AfterError, Connect, OptionsFail, BackoffOver, callers
  <2>4. CASE Forward \/ ConnAck \/ Refused \/ ConnectionError
    BY <2>4 DEF Forward, Put, ConnAck, Refused, ConnectionError, callers
  <2>5. CASE Announce \/ AnnounceFails
    <3>1. at \in {"cmds", "connect", "alive"} /\ told' = told
      BY <2>5 DEF Announce, AnnounceFails, Announcing, Subscription, callers
    <3>2. at' # "stopped"
      BY <2>5, <3>1, NextRequestTypes DEF Announce, AnnounceFails, Put
    <3> QED
      BY <3>1, <3>2
  <2> QED
    BY <1>2, <2>0, <2>1, <2>2, <2>3, <2>4, <2>5 DEF Next, vars, Publish, Revoke, Poll, callers
<1> QED
  BY <1>1, <1>2, TypeCorrect, PTL DEF Spec
=============================================================================
