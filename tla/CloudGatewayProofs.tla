-------------------------- MODULE CloudGatewayProofs ------------------------
(***************************************************************************)
(* Proofs about CloudGateway, for every capacity of the queue, every range *)
(* of the reconnect delay and any number of messages.                      *)
(***************************************************************************)
EXTENDS CloudGateway, SequenceTheorems, TLAPS

\* The delay stays between its first value and the cap.
LEMMA DoubledInRange ==
    ASSUME NEW d \in InitialReconnectDelay..MaxReconnectDelay
    PROVE  Doubled(d) \in InitialReconnectDelay..MaxReconnectDelay
BY DelayAssumption DEF Doubled

\* A frame that arrives is the first of its connection, and leaves a connection.
LEMMA ArrivalTypes ==
    ASSUME NEW w \in Seq(Frame), w # <<>>, delivered \in Seq(Msgs)
    PROVE  Tail(w) \in Seq(Frame) /\ Head(w) \in Frame /\ With(Head(w)) \in Seq(Msgs)
<1>1. Tail(w) \in Seq(Frame) /\ Head(w) \in Frame
  BY HeadTailProperties
<1>2. CASE Head(w) = Register
  BY <1>1, <1>2 DEF With
<1>3. CASE Head(w) # Register
  <2>1. Head(w) \in Msgs
    BY <1>1, <1>3 DEF Frame
  <2>2. Append(delivered, Head(w)) \in Seq(Msgs)
    BY <2>1, AppendProperties, Zenon
  <2> QED
    BY <1>1, <1>3, <2>2 DEF With
<1> QED
  BY <1>2, <1>3

\* What is left of a connection is a connection.
LEMMA HoldingTypes ==
    ASSUME NEW w \in Seq(Frame), NEW b \in BOOLEAN
    PROVE  Holding(w, b) \subseteq Connection
BY DEF Holding, Connection

\* Every step of the task, its callers and the gateway keeps the state well
\* formed: the queue within its capacity, the delay within its range.
LEMMA TypeStep == ASSUME TypeOK, [Next]_vars PROVE TypeOK'
<1>c. /\ OutboundCapacity \in Nat \ {0} /\ MaxMessages \in Nat
      /\ InitialReconnectDelay \in InitialReconnectDelay..MaxReconnectDelay
  BY DelayAssumption, QueueAssumption
<1>q. /\ outbound \in Seq(Msgs) /\ wire \in Seq(Frame) /\ delivered \in Seq(Msgs)
      /\ flight \in Frame /\ Register \in Frame /\ Msgs \subseteq Frame
      /\ Len(outbound) \in Nat
  BY LenProperties DEF TypeOK, Frame, Register
<1>e. <<>> \in Seq(Frame)
  BY EmptySeq
<1>0. CASE UNCHANGED vars
  BY <1>0 DEF vars, TypeOK
<1>1. CASE Send
  <2>1. enqueued + 1 \in Msgs /\ enqueued' \in 0..MaxMessages
    BY <1>1, <1>c DEF Send, TypeOK, Msgs
  <2>2. outbound' \in Seq(Msgs) /\ Len(outbound') = Len(outbound) + 1
    BY <1>1, <2>1, <1>q, AppendProperties DEF Send
  <2>3. Len(outbound') <= OutboundCapacity /\ Len(outbound') <= enqueued'
    BY <1>1, <2>2, <1>q, <1>c DEF Send, TypeOK
  <2> QED
    BY <1>1, <2>1, <2>2, <2>3 DEF Send, network, TypeOK
<1>2. CASE Tell \/ Shutdown \/ ConnectFails \/ RegisterFails \/ ConnectionLost
  BY <1>2
  DEF Tell, Shutdown, ConnectFails, RegisterFails, RegisterFailsNext, ConnectionLost,
      callers, network, TypeOK
<1>3. CASE ConnectSucceeds
  <2>1. Taken \in 0..MaxMessages
    BY <1>q, <1>c DEF Taken, TypeOK
  <2>2. old' \subseteq Connection
    BY <1>3, <1>q, HoldingTypes DEF ConnectSucceeds, TypeOK
  <2> QED
    BY <1>3, <1>c, <1>e, <2>1, <2>2 DEF ConnectSucceeds, callers, TypeOK
<1>4. CASE RegisterSent
  <2>1. wire' \in Seq(Frame)
    BY <1>4, <1>q, AppendProperties DEF RegisterSent
  <2> QED
    BY <1>4, <2>1 DEF RegisterSent, callers, TypeOK, Frame
<1>5. CASE TakeMessage
  <2>1. /\ outbound' \in Seq(Msgs) /\ flight' \in Msgs
        /\ Len(outbound') = Len(outbound) - 1
    BY <1>5, <1>q, HeadTailProperties DEF TakeMessage, Ready
  <2>2. Len(outbound') <= OutboundCapacity /\ Len(outbound') <= enqueued
    BY <2>1, <1>q, <1>c DEF TypeOK
  <2> QED
    BY <1>5, <2>1, <2>2 DEF TakeMessage, network, TypeOK
<1>11. CASE SerialiseFails
  <2>1. outbound' \in Seq(Msgs) /\ Len(outbound') = Len(outbound) - 1
    BY <1>11, <1>q, HeadTailProperties DEF SerialiseFails, Ready
  <2>2. Len(outbound') <= OutboundCapacity /\ Len(outbound') <= enqueued
    BY <2>1, <1>q, <1>c DEF TypeOK
  <2> QED
    BY <1>11, <2>1, <2>2 DEF SerialiseFails, network, TypeOK
<1>6. CASE MessageSent
  <2>1. wire' \in Seq(Frame)
    BY <1>6, <1>q, AppendProperties DEF MessageSent
  <2> QED
    BY <1>6, <2>1 DEF MessageSent, callers, TypeOK, Frame
<1>7. CASE MessageFails
  <2>1. wire' \in Seq(Frame)
    <3>1. Append(wire, flight) \in Seq(Frame)
      BY <1>q, AppendProperties
    <3> QED
      BY <1>7, <1>q, <3>1 DEF MessageFails
  <2> QED
    BY <1>7, <2>1 DEF MessageFails, Dropped, TypeOK, Frame
<1>8. CASE SleepOver
  BY <1>8, DoubledInRange DEF SleepOver, SleepNext, callers, network, TypeOK
<1>9. CASE Receive
  <2>1. wire' \in Seq(Frame) /\ delivered' \in Seq(Msgs)
    BY <1>9, <1>q, ArrivalTypes DEF Receive
  <2> QED
    BY <1>9, <2>1 DEF Receive, callers, TypeOK
<1>10. ASSUME NEW c \in old, ReceiveLate(c) PROVE TypeOK'
  <2>1. c.wire \in Seq(Frame) /\ c.wire # <<>> /\ c.registered \in BOOLEAN
    BY DEF TypeOK, Connection
  <2>2. Tail(c.wire) \in Seq(Frame) /\ delivered' \in Seq(Msgs)
    BY <1>10, <2>1, <1>q, ArrivalTypes DEF ReceiveLate
  <2>3. (c.registered \/ Head(c.wire) = Register) \in BOOLEAN
    OBVIOUS
  <2>4. old' \subseteq Connection
    BY <1>10, <2>2, <2>3, HoldingTypes DEF ReceiveLate, TypeOK
  <2> QED
    BY <1>10, <2>2, <2>4 DEF ReceiveLate, callers, TypeOK
<1> QED
  BY <1>0, <1>1, <1>2, <1>3, <1>4, <1>5, <1>6, <1>7, <1>8, <1>9, <1>10, <1>11 DEF Next

\* Every reachable state of the task and its connection is well formed.
THEOREM TypeCorrect == Spec => []TypeOK
<1>1. Init => TypeOK
  <2>c. /\ OutboundCapacity \in Nat \ {0} /\ MaxMessages \in Nat
        /\ InitialReconnectDelay \in InitialReconnectDelay..MaxReconnectDelay
        /\ 0 \in 0..MaxMessages
    BY DelayAssumption, QueueAssumption
  <2> SUFFICES ASSUME Init PROVE TypeOK
    OBVIOUS
  <2>1. outbound \in Seq(Msgs) /\ wire \in Seq(Frame) /\ delivered \in Seq(Msgs)
    BY EmptySeq DEF Init
  <2>2. Len(outbound) <= OutboundCapacity /\ Len(outbound) <= enqueued
    BY <2>c, EmptySeq DEF Init
  <2> QED
    BY <2>c, <2>1, <2>2 DEF Init, TypeOK
<1> QED
  BY <1>1, TypeStep, PTL DEF Spec

(***************************************************************************)
(* Register comes first.                                                   *)
(***************************************************************************)

\* A connection starts empty.  From the Register frame on there is something on
\* the wire until the gateway has that frame, and it is in front; a connection
\* that was given up keeps it there.
RegisterInv ==
    /\ at = "register" => wire = <<>> /\ ~registered
    /\ at \in {"loop", "send"} => registered \/ wire # <<>>
    /\ ~registered /\ wire # <<>> => Head(wire) = Register
    /\ \A c \in old : ~c.registered => Head(c.wire) = Register

\* Appending to a connection that is not empty leaves its front alone.
LEMMA AppendHead ==
    ASSUME NEW S, NEW q \in Seq(S), NEW x \in S
    PROVE  /\ Append(q, x) # <<>>
           /\ q # <<>> => Head(Append(q, x)) = Head(q)
           /\ q = <<>> => Head(Append(q, x)) = x
<1>1. /\ Append(q, x) # <<>> /\ Len(Append(q, x)) = Len(q) + 1
      /\ \A i \in 1..Len(q) : Append(q, x)[i] = q[i]
      /\ Append(q, x)[Len(q) + 1] = x
  BY AppendProperties
<1>2. Head(Append(q, x)) = Append(q, x)[1]
  BY <1>1
<1>3. ASSUME q # <<>> PROVE Head(Append(q, x)) = Head(q)
  <2>1. Len(q) \in Nat \ {0}
    BY <1>3, EmptySeq
  <2> QED
    BY <1>1, <1>2, <2>1
<1>4. ASSUME q = <<>> PROVE Head(Append(q, x)) = x
  BY <1>4
<1> QED
  BY <1>1, <1>3, <1>4

\* No step breaks it, whichever connections broke before.
LEMMA RegisterStep == ASSUME TypeOK, RegisterInv, [Next]_vars PROVE RegisterInv'
<1>q. wire \in Seq(Frame) /\ flight \in Frame /\ Register \in Frame
  BY DEF TypeOK, Frame, Register
<1>0. CASE UNCHANGED <<at, wire, registered, old>>
  BY <1>0 DEF RegisterInv
<1>1. CASE Shutdown \/ ConnectFails \/ RegisterFails \/ TakeMessage \/ ConnectionLost \/ SleepOver
  BY <1>1
  DEF Shutdown, ConnectFails, RegisterFails, RegisterFailsNext, TakeMessage, ConnectionLost,
      SleepOver, SleepNext, network, RegisterInv
<1>2. CASE ConnectSucceeds
  BY <1>2 DEF ConnectSucceeds, Holding, RegisterInv
<1>3. CASE RegisterSent
  <2>1. wire = <<>> /\ wire' = Append(wire, Register) /\ old' = old
    BY <1>3 DEF RegisterSent, RegisterInv
  <2>2. wire' # <<>> /\ Head(wire') = Register
    BY <2>1, <1>q, AppendHead
  <2> QED
    BY <1>3, <2>1, <2>2 DEF RegisterSent, RegisterInv
<1>4. CASE MessageSent \/ MessageFails
  <2>1. /\ at = "send" /\ at' \in {"loop", "sleep"} /\ UNCHANGED <<registered, old>>
        /\ wire' \in {wire, Append(wire, flight)}
        /\ at' = "loop" => wire' = Append(wire, flight)
    BY <1>4 DEF MessageSent, MessageFails
  <2>2. CASE wire' = wire
    BY <2>1, <2>2 DEF RegisterInv
  <2>3. CASE wire' = Append(wire, flight)
    <3>1. wire' # <<>> /\ (wire # <<>> => Head(wire') = Head(wire))
      BY <2>3, <1>q, AppendHead
    <3> QED
      BY <2>1, <3>1 DEF RegisterInv
  <2> QED
    BY <2>1, <2>2, <2>3
<1>5. CASE Receive
  BY <1>5 DEF Receive, RegisterInv
<1>6. ASSUME NEW c \in old, ReceiveLate(c) PROVE RegisterInv'
  <2>1. c.registered \/ Head(c.wire) = Register
    BY DEF RegisterInv
  <2>2. \A d \in old' : d \in old \/ d.registered
    <3>1. (c.registered \/ Head(c.wire) = Register) = TRUE
      BY <2>1
    <3>2. old' = (old \ {c}) \cup Holding(Tail(c.wire), TRUE)
      BY <1>6, <3>1 DEF ReceiveLate
    <3>3. \A d \in Holding(Tail(c.wire), TRUE) : d.registered
      BY DEF Holding
    <3> QED
      BY <3>2, <3>3
  <2> QED
    BY <1>6, <2>2 DEF ReceiveLate, RegisterInv
<1> QED
  BY <1>0, <1>1, <1>2, <1>3, <1>4, <1>5, <1>6 DEF Next, vars, Send, Tell, SerialiseFails, network

\* Whatever arrives, arrives over a connection that is registered.
LEMMA ArrivalRegistered ==
    ASSUME TypeOK, RegisterInv, [Next]_vars, delivered' # delivered
    PROVE  \E c \in Connections : c.registered /\ delivered' = With(Head(c.wire))
<1>1. CASE Receive
  <2>1. Head(wire) # Register /\ wire # <<>> /\ delivered' = With(Head(wire))
    BY <1>1 DEF Receive, With
  <2>2. registered
    BY <2>1 DEF RegisterInv
  <2> DEFINE c == [wire |-> wire, registered |-> registered]
  <2>3. c \in Connections /\ c.registered /\ c.wire = wire
    BY <2>1, <2>2 DEF Connections, Holding
  <2> QED
    BY <2>1, <2>3
<1>2. ASSUME NEW c \in old, ReceiveLate(c)
      PROVE  c \in Connections /\ c.registered /\ delivered' = With(Head(c.wire))
  <2>1. Head(c.wire) # Register /\ delivered' = With(Head(c.wire))
    BY <1>2 DEF ReceiveLate, With
  <2>2. c.registered
    BY <2>1 DEF RegisterInv
  <2> QED
    BY <2>1, <2>2 DEF Connections
<1>3. Receive \/ \E c \in old : ReceiveLate(c)
  BY DEF Next, vars, Send, Tell, Shutdown, ConnectFails, ConnectSucceeds, RegisterSent,
      RegisterFails, TakeMessage, SerialiseFails, MessageSent, MessageFails, ConnectionLost,
      SleepOver, network
<1> QED
  BY <1>1, <1>2, <1>3

\* The gateway receives no message of a connection before its Register frame
\* (spawn_connection_task sends it before it serves the queue), over however many
\* connections and however late.
THEOREM RegisteredFirst == Spec => RegisterFirst
<1>1. Init => RegisterInv
  BY DEF Init, RegisterInv
<1>2. TypeOK /\ RegisterInv /\ [Next]_vars =>
        [delivered' # delivered =>
           \E c \in Connections : c.registered /\ delivered' = With(Head(c.wire))]_vars
  BY ArrivalRegistered
<1>3. Spec => []RegisterInv
  BY <1>1, TypeCorrect, RegisterStep, PTL DEF Spec
<1>4. Spec => [][delivered' # delivered =>
           \E c \in Connections : c.registered /\ delivered' = With(Head(c.wire))]_vars
  BY <1>2, <1>3, TypeCorrect, PTL DEF Spec
<1> QED
  BY <1>4 DEF RegisterFirst

(***************************************************************************)
(* Messages arrive in order, at most once.                                 *)
(***************************************************************************)

\* The messages in a queue or on a connection, and the order among them.
Elems(q) == {q[i] : i \in DOMAIN q} \ {Register}
Increasing(q) ==
    \A i, j \in DOMAIN q : i < j /\ q[i] # Register /\ q[j] # Register => q[i] < q[j]
Before(S, T) == \A x \in S, y \in T : x < y

\* The members of T may arrive after those of S: they are later messages, or k
\* has a connection between the two.
Between(k, x, y) == \E c \in k : x <= c /\ c < y
Follows(k, S, T) == \A x \in S, y \in T : x < y \/ Between(k, y, x)
InOrder(k, d) == \A i, j \in DOMAIN d : i < j => d[i] < d[j] \/ Between(k, d[j], d[i])

\* The messages of the current connection, f being the one that is being sent.
On(w, f) == Elems(w) \cup ({f} \ {Register})

\* The order of what was delivered (d), is on the current connection (w and f) and
\* on earlier ones (o), when t messages have left the queue and k tells after how
\* many of them each connection was made.
Ordered(d, w, f, o, k, t) ==
    /\ InOrder(k, d)
    /\ Elems(d) \subseteq 1..t /\ On(w, f) \subseteq 1..t
    /\ \A c \in o : Elems(c.wire) \subseteq 1..t /\ Increasing(c.wire)
    /\ Increasing(w) /\ Before(Elems(w), {f} \ {Register})
    /\ Before(Elems(d), On(w, f))
    /\ \A c \in o : Follows(k, Elems(d), Elems(c.wire))
    /\ \A b, c \in o : b # c => Follows(k, Elems(b.wire), Elems(c.wire))
    /\ \A c \in o : \A y \in Elems(c.wire) :
          \E e \in k : y <= e /\ e <= t /\ \A x \in On(w, f) : e < x

\* The queue holds the messages that have not left it, in order.
OrderInv ==
    /\ at # "send" => flight = Register
    /\ \A i \in 1..Len(outbound) : outbound[i] = Taken + i
    /\ Ordered(delivered, wire, flight, old, cuts, Taken)

\* A message that goes to the end of a sequence, and comes after its members,
\* keeps it increasing.
LEMMA AppendOrder ==
    ASSUME NEW q \in Seq(Frame), NEW x \in Frame
    PROVE  /\ Elems(Append(q, x)) = Elems(q) \cup ({x} \ {Register})
           /\ Increasing(q) /\ Before(Elems(q), {x} \ {Register}) => Increasing(Append(q, x))
<1>1. /\ Append(q, x) \in Seq(Frame) /\ Len(Append(q, x)) = Len(q) + 1 /\ Len(q) \in Nat
      /\ \A i \in 1..Len(q) : Append(q, x)[i] = q[i]
      /\ Append(q, x)[Len(q) + 1] = x
  BY AppendProperties, LenProperties
<1>2. DOMAIN Append(q, x) = 1..(Len(q) + 1) /\ DOMAIN q = 1..Len(q)
  BY <1>1, LenProperties
<1> DEFINE a == Append(q, x)
<1> HIDE DEF a
<1>3. /\ \A i \in 1..Len(q) : a[i] = q[i]
      /\ a[Len(q) + 1] = x /\ DOMAIN a = 1..(Len(q) + 1)
  BY <1>1, <1>2 DEF a
<1>4. Elems(a) = Elems(q) \cup ({x} \ {Register})
  BY <1>1, <1>2, <1>3 DEF Elems
<1>5. ASSUME Increasing(q), Before(Elems(q), {x} \ {Register}) PROVE Increasing(a)
  <2> SUFFICES ASSUME NEW i \in 1..(Len(q) + 1), NEW j \in 1..(Len(q) + 1), i < j,
                      a[i] # Register, a[j] # Register
               PROVE  a[i] < a[j]
    BY <1>3 DEF Increasing
  <2>1. i \in 1..Len(q) /\ a[i] = q[i]
    BY <1>1, <1>3
  <2>2. CASE j \in 1..Len(q)
    BY <1>2, <1>3, <1>5, <2>1, <2>2 DEF Increasing
  <2>3. CASE j = Len(q) + 1
    <3>1. a[j] = x /\ x # Register
      BY <2>3, <1>3
    <3>2. a[i] \in Elems(q)
      BY <2>1, <1>2 DEF Elems
    <3> QED
      BY <3>1, <3>2, <1>5 DEF Before
  <2> QED
    BY <1>1, <2>2, <2>3
<1> QED
  BY <1>4, <1>5 DEF a

\* Taking the first of an increasing sequence leaves an increasing one, whose
\* messages all come after it.
LEMMA TailOrder ==
    ASSUME NEW q \in Seq(Frame), q # <<>>, Increasing(q)
    PROVE  /\ Increasing(Tail(q)) /\ Elems(Tail(q)) \subseteq Elems(q)
           /\ Head(q) # Register => Head(q) \in Elems(q) /\ Before({Head(q)}, Elems(Tail(q)))
<1> DEFINE t == Tail(q)
<1>1. /\ t \in Seq(Frame) /\ Len(t) = Len(q) - 1 /\ Len(q) \in Nat \ {0}
      /\ \A i \in 1..Len(t) : t[i] = q[i + 1]
  BY HeadTailProperties, EmptySeq
<1>2. DOMAIN t = 1..(Len(q) - 1) /\ DOMAIN q = 1..Len(q) /\ Head(q) = q[1]
  BY <1>1, LenProperties
<1>3. \A i \in DOMAIN t : i + 1 \in DOMAIN q /\ t[i] = q[i + 1] /\ i \in Nat /\ 1 < i + 1
  BY <1>1, <1>2
<1> HIDE DEF t
<1>4. Increasing(t)
  <2> SUFFICES ASSUME NEW i \in DOMAIN t, NEW j \in DOMAIN t, i < j,
                      t[i] # Register, t[j] # Register
               PROVE  t[i] < t[j]
    BY DEF Increasing
  <2>1. i + 1 < j + 1
    BY <1>3
  <2> QED
    BY <1>3, <2>1 DEF Increasing
<1>5. Elems(t) \subseteq Elems(q)
  BY <1>3 DEF Elems
<1>6. ASSUME Head(q) # Register PROVE Head(q) \in Elems(q) /\ Before({Head(q)}, Elems(t))
  <2>1. 1 \in DOMAIN q
    BY <1>1, <1>2
  <2>2. ASSUME NEW i \in DOMAIN t, t[i] # Register PROVE q[1] < t[i]
    BY <1>2, <1>3, <1>6, <2>1, <2>2 DEF Increasing
  <2> QED
    BY <1>2, <1>6, <2>1, <2>2 DEF Elems, Before
<1> QED
  BY <1>4, <1>5, <1>6 DEF t

\* A message that leaves the queue is later than all that left it before.
LEMMA OrderTake ==
    ASSUME NEW d, NEW w, NEW o, NEW k \in SUBSET Nat, NEW t \in Nat,
           Ordered(d, w, Register, o, k, t)
    PROVE  Ordered(d, w, t + 1, o, k, t + 1) /\ Ordered(d, w, Register, o, k, t + 1)
<1>1. On(w, Register) = Elems(w) /\ On(w, t + 1) = Elems(w) \cup {t + 1}
  BY DEF On, Register
<1>2. /\ Elems(d) \subseteq 1..t /\ Elems(w) \subseteq 1..t
      /\ \A c \in o : Elems(c.wire) \subseteq 1..t
  BY <1>1 DEF Ordered
<1>3. 1..t \subseteq 1..(t + 1) /\ t + 1 \in 1..(t + 1) /\ \A x \in 1..t : x < t + 1
  OBVIOUS
<1>4. \A c \in o : \A y \in Elems(c.wire) :
        \E e \in k : y <= e /\ e <= t + 1 /\ (\A x \in Elems(w) : e < x) /\ e < t + 1
  <2> SUFFICES ASSUME NEW c \in o, NEW y \in Elems(c.wire)
               PROVE  \E e \in k : y <= e /\ e <= t + 1 /\ (\A x \in Elems(w) : e < x) /\ e < t + 1
    OBVIOUS
  <2>1. PICK e \in k : y <= e /\ e <= t /\ \A x \in On(w, Register) : e < x
    BY DEF Ordered
  <2>2. e \in Nat /\ e <= t + 1 /\ e < t + 1
    BY <2>1
  <2> QED
    BY <2>1, <2>2, <1>1
<1>5. Before(Elems(w), {t + 1} \ {Register}) /\ Before(Elems(w), {Register} \ {Register})
  BY <1>2, <1>3 DEF Before
<1>6. Before(Elems(d), On(w, t + 1)) /\ Before(Elems(d), On(w, Register))
  BY <1>1, <1>2, <1>3 DEF Before, Ordered
<1>7. /\ Elems(d) \subseteq 1..(t + 1) /\ On(w, t + 1) \subseteq 1..(t + 1)
      /\ On(w, Register) \subseteq 1..(t + 1)
      /\ \A c \in o : Elems(c.wire) \subseteq 1..(t + 1)
  BY <1>1, <1>2, <1>3
<1>8. \A c \in o : \A y \in Elems(c.wire) :
        \E e \in k : y <= e /\ e <= t + 1 /\ \A x \in On(w, t + 1) : e < x
  BY <1>4, <1>1
<1>9. \A c \in o : \A y \in Elems(c.wire) :
        \E e \in k : y <= e /\ e <= t + 1 /\ \A x \in On(w, Register) : e < x
  BY <1>4, <1>1
<1> QED
  BY <1>5, <1>6, <1>7, <1>8, <1>9 DEF Ordered

\* A message that was written is the last of its connection, and one that was
\* dropped is on none.
LEMMA OrderSent ==
    ASSUME NEW d, NEW w \in Seq(Frame), NEW f \in Frame, NEW o, NEW k, NEW t,
           Ordered(d, w, f, o, k, t)
    PROVE  Ordered(d, Append(w, f), Register, o, k, t) /\ Ordered(d, w, Register, o, k, t)
<1>1. /\ Elems(Append(w, f)) = On(w, f)
      /\ Increasing(Append(w, f))
  BY AppendOrder DEF On, Ordered
<1>2. /\ On(Append(w, f), Register) = On(w, f)
      /\ On(w, Register) = Elems(w) /\ Elems(w) \subseteq On(w, f)
  BY <1>1 DEF On
<1>3. /\ Before(Elems(Append(w, f)), {Register} \ {Register})
      /\ Before(Elems(w), {Register} \ {Register})
  BY DEF Before
<1>4. Before(Elems(d), On(w, Register)) /\ On(w, Register) \subseteq 1..t
  BY <1>2 DEF Before, Ordered
<1>5. \A c \in o : \A y \in Elems(c.wire) :
        \E e \in k : y <= e /\ e <= t /\ \A x \in On(w, Register) : e < x
  BY <1>2 DEF Ordered
<1>6. Ordered(d, Append(w, f), Register, o, k, t)
  BY <1>1, <1>2, <1>3 DEF Ordered
<1> QED
  BY <1>3, <1>4, <1>5, <1>6 DEF Ordered

\* A new connection is made after all messages that left the queue so far.
LEMMA OrderConnect ==
    ASSUME NEW d, NEW w, NEW b, NEW o, NEW k \in SUBSET Nat, NEW t \in Nat,
           Ordered(d, w, Register, o, k, t)
    PROVE  Ordered(d, <<>>, Register, o \cup Holding(w, b), k \cup {t}, t)
<1> DEFINE j == k \cup {t}
           h == Holding(w, b)
<1>1. /\ Elems(<<>>) = {} /\ Increasing(<<>>) /\ On(<<>>, Register) = {}
      /\ On(w, Register) = Elems(w)
  BY DEF Elems, Increasing, On
<1>2. \A c \in h : c.wire = w
  BY DEF Holding
<1>3. \A x, y : Between(k, x, y) => Between(j, x, y)
  BY DEF Between
<1>4. \A S, T : Follows(k, S, T) => Follows(j, S, T)
  BY <1>3 DEF Follows
<1>5. \A S, T : Before(S, T) => Follows(j, S, T)
  BY DEF Before, Follows
<1>6. InOrder(j, d)
  BY <1>3 DEF InOrder, Ordered
<1>7. Elems(d) \subseteq 1..t /\ Elems(w) \subseteq 1..t /\ Before(Elems(d), Elems(w))
  BY <1>1 DEF Ordered
<1>8. \A c \in o \cup h : Elems(c.wire) \subseteq 1..t /\ Increasing(c.wire)
  BY <1>2, <1>7 DEF Ordered
<1>9. \A c \in o \cup h : Follows(j, Elems(d), Elems(c.wire))
  BY <1>2, <1>4, <1>5, <1>7 DEF Ordered
<1>10. ASSUME NEW c \in o
       PROVE  Follows(j, Elems(c.wire), Elems(w)) /\ Follows(j, Elems(w), Elems(c.wire))
  <2> SUFFICES ASSUME NEW y \in Elems(c.wire), NEW x \in Elems(w)
               PROVE  y < x /\ Between(j, y, x)
    BY DEF Follows
  <2>1. PICK e \in k : y <= e /\ e < x
    BY <1>1 DEF Ordered
  <2>2. y \in Nat /\ x \in Nat /\ e \in Nat
    BY <1>7 DEF Ordered
  <2> QED
    BY <2>1, <2>2 DEF Between
<1>11. \A a, c \in o \cup h : a # c => Follows(j, Elems(a.wire), Elems(c.wire))
  <2> SUFFICES ASSUME NEW a \in o \cup h, NEW c \in o \cup h, a # c
               PROVE  Follows(j, Elems(a.wire), Elems(c.wire))
    OBVIOUS
  <2>1. a \in o \/ c \in o
    BY DEF Holding
  <2>2. CASE a \in o /\ c \in o
    BY <2>2, <1>4 DEF Ordered
  <2>3. CASE a \in o /\ c \in h
    BY <2>3, <1>2, <1>10
  <2>4. CASE a \in h /\ c \in o
    BY <2>4, <1>2, <1>10
  <2> QED
    BY <2>1, <2>2, <2>3, <2>4
<1>12. \A c \in o \cup h : \A y \in Elems(c.wire) :
          \E e \in j : y <= e /\ e <= t /\ \A x \in On(<<>>, Register) : e < x
  <2> SUFFICES ASSUME NEW c \in o \cup h, NEW y \in Elems(c.wire)
               PROVE  y <= t /\ t \in j
    BY <1>1
  <2>1. y \in 1..t
    BY <1>8
  <2> QED
    BY <2>1
<1>13. /\ Before(Elems(<<>>), {Register} \ {Register}) /\ Before(Elems(d), On(<<>>, Register))
       /\ On(<<>>, Register) \subseteq 1..t
  BY <1>1 DEF Before
<1> HIDE DEF h, j
<1>14. Ordered(d, <<>>, Register, o \cup h, j, t)
  BY <1>1, <1>6, <1>7, <1>8, <1>9, <1>11, <1>12, <1>13 DEF Ordered
<1> QED
  BY <1>14 DEF h, j

\* A message may come after those delivered if each of them is earlier, or a
\* connection was made between the two.
LEMMA ArrivalOrder ==
    ASSUME NEW d \in Seq(Msgs), NEW x \in Msgs, NEW k,
           InOrder(k, d), Follows(k, Elems(d), {x})
    PROVE  Elems(Append(d, x)) = Elems(d) \cup {x} /\ InOrder(k, Append(d, x))
<1>m. /\ \A y \in Msgs : y # Register
      /\ d \in Seq(Frame) /\ x \in Frame
  <2>1. Msgs \subseteq Frame
    BY DEF Frame
  <2>2. \A q \in Seq(Msgs) : q \in Seq(Frame)
    BY <2>1
  <2>3. \A y \in Msgs : y # Register
    BY QueueAssumption DEF Msgs, Register
  <2> QED
    BY <2>1, <2>2, <2>3
<1>1. Elems(Append(d, x)) = Elems(d) \cup {x}
  <2>1. Elems(Append(d, x)) = Elems(d) \cup ({x} \ {Register})
    BY <1>m, AppendOrder
  <2> QED
    BY <2>1, <1>m
<1> DEFINE a == Append(d, x)
<1>2. /\ \A i \in 1..Len(d) : a[i] = d[i] /\ d[i] \in Msgs
      /\ a[Len(d) + 1] = x /\ DOMAIN a = 1..(Len(d) + 1)
      /\ Len(d) \in Nat /\ DOMAIN d = 1..Len(d)
  <2>1. /\ Len(a) = Len(d) + 1 /\ a \in Seq(Msgs) /\ a[Len(d) + 1] = x
        /\ \A i \in 1..Len(d) : a[i] = d[i]
    BY AppendProperties
  <2>2. /\ DOMAIN a = 1..Len(a) /\ DOMAIN d = 1..Len(d) /\ Len(d) \in Nat
        /\ \A i \in 1..Len(d) : d[i] \in Msgs
    BY <2>1, LenProperties, ElementOfSeq
  <2> QED
    BY <2>1, <2>2
<1> HIDE DEF a
<1>3. \A i \in 1..Len(d) : d[i] \in Elems(d)
  BY <1>2, <1>m DEF Elems
<1>4. InOrder(k, a)
  <2> SUFFICES ASSUME NEW i \in 1..(Len(d) + 1), NEW l \in 1..(Len(d) + 1), i < l
               PROVE  a[i] < a[l] \/ Between(k, a[l], a[i])
    BY <1>2 DEF InOrder
  <2>1. i \in 1..Len(d) /\ a[i] = d[i] /\ (l \in 1..Len(d) \/ l = Len(d) + 1)
    BY <1>2
  <2>2. CASE l \in 1..Len(d)
    <3>1. a[l] = d[l]
      BY <1>2, <2>2
    <3> QED
      BY <1>2, <2>1, <2>2, <3>1 DEF InOrder
  <2>3. CASE l = Len(d) + 1
    <3>1. a[l] = x
      BY <2>3, <1>2
    <3>2. a[i] \in Elems(d)
      BY <2>1, <1>3
    <3> QED
      BY <3>1, <3>2 DEF Follows
  <2> QED
    BY <2>1, <2>2, <2>3
<1> QED
  BY <1>1, <1>4 DEF a

\* The first frame of the current connection arrives.
LEMMA OrderReceive ==
    ASSUME NEW d \in Seq(Msgs), NEW w \in Seq(Frame), w # <<>>, NEW f \in Frame, NEW o,
           NEW k \in SUBSET Nat, NEW t \in Nat, Ordered(d, w, f, o, k, t)
    PROVE  /\ Head(w) = Register => Ordered(d, Tail(w), f, o, k, t)
           /\ Head(w) # Register => Ordered(Append(d, Head(w)), Tail(w), f, o, k, t)
<1>1. /\ Increasing(Tail(w)) /\ Elems(Tail(w)) \subseteq Elems(w)
      /\ Head(w) # Register => Head(w) \in Elems(w) /\ Before({Head(w)}, Elems(Tail(w)))
  BY TailOrder DEF Ordered
<1>2. On(Tail(w), f) \subseteq On(w, f) /\ Elems(w) \subseteq On(w, f)
  BY <1>1 DEF On
<1>3. /\ On(Tail(w), f) \subseteq 1..t /\ Before(Elems(Tail(w)), {f} \ {Register})
      /\ Before(Elems(d), On(Tail(w), f))
  BY <1>1, <1>2 DEF Ordered, Before
<1>4. \A c \in o : \A y \in Elems(c.wire) :
        \E e \in k : y <= e /\ e <= t /\ \A x \in On(Tail(w), f) : e < x
  BY <1>2 DEF Ordered
<1>5. Ordered(d, Tail(w), f, o, k, t)
  BY <1>1, <1>3, <1>4 DEF Ordered
<1>6. ASSUME Head(w) # Register PROVE Ordered(Append(d, Head(w)), Tail(w), f, o, k, t)
  <2> DEFINE z == Head(w)
  <2>1. z \in Elems(w) /\ z \in Msgs /\ z \in 1..t /\ Before({z}, Elems(Tail(w)))
    BY <1>1, <1>2, <1>6, HeadTailProperties DEF Ordered, Frame
  <2>2. Before({z}, On(Tail(w), f))
    BY <2>1 DEF On, Before, Ordered
  <2>3. Follows(k, Elems(d), {z})
    BY <2>1, <1>2 DEF Ordered, Before, Follows
  <2>4. Elems(Append(d, z)) = Elems(d) \cup {z} /\ InOrder(k, Append(d, z))
    BY <2>1, <2>3, ArrivalOrder DEF Ordered
  <2>5. \A c \in o : Follows(k, {z}, Elems(c.wire))
    <3> SUFFICES ASSUME NEW c \in o, NEW y \in Elems(c.wire) PROVE Between(k, y, z)
      BY DEF Follows
    <3>1. PICK e \in k : y <= e /\ \A x \in On(w, f) : e < x
      BY DEF Ordered
    <3>2. e < z
      BY <3>1, <2>1, <1>2
    <3> QED
      BY <3>1, <3>2 DEF Between
  <2>6. \A c \in o : Follows(k, Elems(Append(d, z)), Elems(c.wire))
    BY <2>4, <2>5 DEF Follows, Ordered
  <2>7. Before(Elems(Append(d, z)), On(Tail(w), f)) /\ Elems(Append(d, z)) \subseteq 1..t
    BY <2>1, <2>2, <2>4, <1>3 DEF Before, Ordered
  <2> HIDE DEF z
  <2>8. Ordered(Append(d, z), Tail(w), f, o, k, t)
    BY <1>5, <2>4, <2>6, <2>7 DEF Ordered
  <2> QED
    BY <2>8 DEF z
<1> QED
  BY <1>5, <1>6

\* A connection that was given up keeps its frames.
LEMMA HoldingOne ==
    ASSUME NEW w, NEW b
    PROVE  /\ \A a \in Holding(w, b) : a.wire = w
           /\ \A a, g \in Holding(w, b) : a = g
BY DEF Holding

\* The first frame of an earlier connection arrives late.
LEMMA OrderReceiveLate ==
    ASSUME NEW d \in Seq(Msgs), NEW w, NEW f, NEW o \in SUBSET Connection, NEW c \in o,
           NEW b, NEW k \in SUBSET Nat, NEW t \in Nat, Ordered(d, w, f, o, k, t)
    PROVE  LET p == (o \ {c}) \cup Holding(Tail(c.wire), b)
           IN  /\ Head(c.wire) = Register => Ordered(d, w, f, p, k, t)
               /\ Head(c.wire) # Register => Ordered(Append(d, Head(c.wire)), w, f, p, k, t)
<1> DEFINE q == c.wire
           h == Holding(Tail(q), b)
           p == (o \ {c}) \cup h
<1>0. q \in Seq(Frame) /\ q # <<>>
  BY DEF Connection
<1>1. /\ Increasing(Tail(q)) /\ Elems(Tail(q)) \subseteq Elems(q)
      /\ Head(q) # Register => Head(q) \in Elems(q) /\ Before({Head(q)}, Elems(Tail(q)))
  BY <1>0, TailOrder DEF Ordered
<1>2. \A a \in h : a.wire = Tail(q)
  BY HoldingOne
<1>3. \A a, g \in h : a = g
  BY HoldingOne
<1> HIDE DEF h, q
<1>4. \A a \in p : (a \in o /\ a # c) \/ (a \in h /\ a.wire = Tail(q))
  BY <1>2
<1>5. \A a \in p : \E g \in o : Elems(a.wire) \subseteq Elems(g.wire) /\ (a \in h => g = c)
                                /\ (a \notin h => g = a)
  <2> SUFFICES ASSUME NEW a \in p
               PROVE  \E g \in o : Elems(a.wire) \subseteq Elems(g.wire) /\ (a \in h => g = c)
                                 /\ (a \notin h => g = a)
    OBVIOUS
  <2>1. CASE a \in h
    <3>1. Elems(a.wire) \subseteq Elems(c.wire)
      BY <2>1, <1>1, <1>2 DEF q
    <3> QED
      BY <2>1, <3>1
  <2>2. CASE a \notin h
    BY <2>2, <1>4
  <2> QED
    BY <2>1, <2>2
<1>6. \A a \in p : Elems(a.wire) \subseteq 1..t /\ Increasing(a.wire)
  <2> SUFFICES ASSUME NEW a \in p PROVE Elems(a.wire) \subseteq 1..t /\ Increasing(a.wire)
    OBVIOUS
  <2>1. Elems(q) \subseteq 1..t
    BY DEF q, Ordered
  <2> QED
    BY <1>1, <1>4, <2>1 DEF Ordered
<1>7. \A a \in p : Follows(k, Elems(d), Elems(a.wire))
  BY <1>5 DEF Ordered, Follows
<1>8. \A a, g \in p : a # g => Follows(k, Elems(a.wire), Elems(g.wire))
  <2> SUFFICES ASSUME NEW a \in p, NEW g \in p, a # g,
                      NEW x \in Elems(a.wire), NEW y \in Elems(g.wire)
               PROVE  x < y \/ Between(k, y, x)
    BY DEF Follows
  <2>1. PICK a1 \in o : x \in Elems(a1.wire) /\ (a \in h => a1 = c) /\ (a \notin h => a1 = a)
    BY <1>5
  <2>2. PICK g1 \in o : y \in Elems(g1.wire) /\ (g \in h => g1 = c) /\ (g \notin h => g1 = g)
    BY <1>5
  <2>3. a1 # g1
    BY <2>1, <2>2, <1>3, <1>4
  <2> QED
    BY <2>1, <2>2, <2>3 DEF Ordered, Follows
<1>9. \A a \in p : \A y \in Elems(a.wire) :
        \E e \in k : y <= e /\ e <= t /\ \A x \in On(w, f) : e < x
  BY <1>5 DEF Ordered
<1> HIDE DEF p
<1>10. Ordered(d, w, f, p, k, t)
  BY <1>6, <1>7, <1>8, <1>9 DEF Ordered
<1>11. ASSUME Head(q) # Register PROVE Ordered(Append(d, Head(q)), w, f, p, k, t)
  <2> DEFINE z == Head(q)
  <2>1. z \in Elems(q) /\ z \in Msgs /\ Before({z}, Elems(Tail(q)))
    BY <1>0, <1>1, <1>11, HeadTailProperties DEF Frame
  <2> HIDE DEF z
  <2>2. z \in 1..t /\ Follows(k, Elems(d), {z})
    BY <2>1 DEF q, Ordered, Follows
  <2>3. Elems(Append(d, z)) = Elems(d) \cup {z} /\ InOrder(k, Append(d, z))
    BY <2>1, <2>2, ArrivalOrder DEF Ordered
  <2>4. \A x \in On(w, f) : z < x
    <3> SUFFICES ASSUME NEW x \in On(w, f) PROVE z < x
      OBVIOUS
    <3>1. PICK e \in k : z <= e /\ e < x
      BY <2>1 DEF q, Ordered
    <3>2. x \in Nat /\ e \in Nat /\ z \in Nat
      BY <2>2 DEF Ordered
    <3> QED
      BY <3>1, <3>2
  <2>5. \A a \in p : Follows(k, {z}, Elems(a.wire))
    <3> SUFFICES ASSUME NEW a \in p, NEW y \in Elems(a.wire)
                 PROVE  z < y \/ Between(k, y, z)
      BY DEF Follows
    <3>1. CASE a \in h
      BY <3>1, <1>2, <2>1 DEF Before
    <3>2. CASE a \in o /\ a # c
      BY <3>2, <2>1 DEF q, Ordered, Follows
    <3> QED
      BY <3>1, <3>2, <1>4 DEF p
  <2>6. \A a \in p : Follows(k, Elems(Append(d, z)), Elems(a.wire))
    BY <2>3, <2>5, <1>7 DEF Follows
  <2>7. Before(Elems(Append(d, z)), On(w, f)) /\ Elems(Append(d, z)) \subseteq 1..t
    BY <2>2, <2>3, <2>4 DEF Before, Ordered
  <2>8. Ordered(Append(d, z), w, f, p, k, t)
    BY <1>10, <2>3, <2>6, <2>7 DEF Ordered
  <2> QED
    BY <2>8 DEF z
<1> QED
  BY <1>10, <1>11 DEF p, h, q

\* No step breaks the order: a failed send drops its message and never puts it
\* back, and a new connection is counted with what left the queue before it.
LEMMA OrderStep == ASSUME TypeOK, OrderInv, [Next]_vars PROVE OrderInv'
<1>q. /\ outbound \in Seq(Msgs) /\ wire \in Seq(Frame) /\ delivered \in Seq(Msgs)
      /\ flight \in Frame /\ Register \in Frame /\ enqueued \in Nat
      /\ Len(outbound) \in Nat /\ old \in SUBSET Connection
  BY QueueAssumption, LenProperties DEF TypeOK, Frame, Register
<1>t. Taken \in Nat /\ cuts \in SUBSET Nat
  BY <1>q DEF Taken, TypeOK
<1>o. Ordered(delivered, wire, flight, old, cuts, Taken)
  BY DEF OrderInv
<1>0. CASE /\ UNCHANGED <<outbound, enqueued, flight, wire, old, cuts, delivered>>
           /\ at' # "send" => at # "send"
  BY <1>0 DEF OrderInv, Taken
<1>1. CASE Send
  <2>1. /\ Len(outbound') = Len(outbound) + 1
        /\ \A i \in 1..Len(outbound) : outbound'[i] = outbound[i]
        /\ outbound'[Len(outbound) + 1] = enqueued + 1
    BY <1>1, <1>q DEF Send
  <2>2. Taken' = Taken
    BY <1>1, <2>1, <1>q DEF Send, Taken
  <2>3. \A i \in 1..Len(outbound') : outbound'[i] = Taken' + i
    BY <2>1, <2>2, <1>q DEF OrderInv, Taken
  <2>4. UNCHANGED <<at, flight, delivered, wire, old, cuts>>
    BY <1>1 DEF Send, network
  <2> QED
    BY <2>2, <2>3, <2>4 DEF OrderInv
<1>2. CASE ConnectSucceeds
  <2>1. /\ at # "send" /\ wire' = <<>> /\ old' = old \cup Holding(wire, registered)
        /\ cuts' = cuts \cup {Taken} /\ UNCHANGED <<outbound, enqueued, flight, delivered>>
    BY <1>2 DEF ConnectSucceeds, callers
  <2>2. flight = Register /\ Taken' = Taken
    BY <2>1 DEF OrderInv, Taken
  <2>3. Ordered(delivered, <<>>, Register, old', cuts', Taken)
    BY <2>1, <2>2, <1>o, <1>t, OrderConnect
  <2> QED
    BY <2>1, <2>2, <2>3 DEF OrderInv
<1>3. CASE TakeMessage \/ SerialiseFails
  <2>1. /\ at = "loop" /\ outbound # <<>> /\ outbound' = Tail(outbound)
        /\ UNCHANGED <<enqueued, wire, old, cuts, delivered>>
        /\ TakeMessage => at' = "send" /\ flight' = Head(outbound)
        /\ SerialiseFails => UNCHANGED <<at, flight>>
    BY <1>3 DEF TakeMessage, SerialiseFails, Ready, network
  <2>2. /\ Len(outbound') = Len(outbound) - 1 /\ Len(outbound) > 0
        /\ \A i \in 1..Len(outbound') : outbound'[i] = outbound[i + 1]
        /\ Head(outbound) = outbound[1]
    BY <2>1, <1>q
  <2>3. Taken' = Taken + 1 /\ Head(outbound) = Taken + 1
    <3>1. Taken' = Taken + 1
      BY <2>1, <2>2, <1>q DEF Taken
    <3>2. 1 \in 1..Len(outbound)
      BY <2>2, <1>q
    <3> QED
      BY <2>2, <3>1, <3>2 DEF OrderInv
  <2>4. \A i \in 1..Len(outbound') : outbound'[i] = Taken' + i
    <3> SUFFICES ASSUME NEW i \in 1..Len(outbound') PROVE outbound'[i] = Taken' + i
      OBVIOUS
    <3>1. i + 1 \in 1..Len(outbound) /\ outbound'[i] = outbound[i + 1]
      BY <2>2, <1>q
    <3>2. outbound[i + 1] = Taken + (i + 1)
      BY <3>1 DEF OrderInv
    <3> QED
      BY <3>1, <3>2, <2>3, <1>t
  <2>5. flight = Register
    BY <2>1 DEF OrderInv
  <2>6. /\ Ordered(delivered, wire, Taken + 1, old, cuts, Taken + 1)
        /\ Ordered(delivered, wire, Register, old, cuts, Taken + 1)
    BY <2>5, <1>o, <1>t, OrderTake
  <2>7. CASE TakeMessage
    BY <2>1, <2>3, <2>4, <2>6, <2>7 DEF OrderInv
  <2>8. CASE SerialiseFails
    BY <2>1, <2>3, <2>4, <2>5, <2>6, <2>8 DEF OrderInv
  <2> QED
    BY <1>3, <2>7, <2>8
<1>4. CASE RegisterSent \/ MessageSent \/ MessageFails
  <2>1. /\ UNCHANGED <<outbound, enqueued, old, cuts, delivered>>
        /\ wire' \in {wire, Append(wire, flight)} /\ flight' = Register
    BY <1>4 DEF RegisterSent, MessageSent, MessageFails, Dropped, callers, Register, OrderInv
  <2>2. /\ Ordered(delivered, Append(wire, flight), Register, old, cuts, Taken)
        /\ Ordered(delivered, wire, Register, old, cuts, Taken)
    BY <1>o, <1>q, OrderSent
  <2>3. Ordered(delivered, wire', Register, old, cuts, Taken) /\ Taken' = Taken
    BY <2>1, <2>2 DEF Taken
  <2> QED
    BY <2>1, <2>3 DEF OrderInv
<1>5. CASE Receive
  <2>1. /\ wire # <<>> /\ wire' = Tail(wire)
        /\ UNCHANGED <<at, outbound, enqueued, flight, old, cuts>>
        /\ Head(wire) = Register => delivered' = delivered
        /\ Head(wire) # Register => delivered' = Append(delivered, Head(wire))
    BY <1>5 DEF Receive, With, callers
  <2>2. /\ Head(wire) = Register => Ordered(delivered, Tail(wire), flight, old, cuts, Taken)
        /\ Head(wire) # Register =>
              Ordered(Append(delivered, Head(wire)), Tail(wire), flight, old, cuts, Taken)
    BY <2>1, <1>o, <1>q, <1>t, OrderReceive
  <2>3. Ordered(delivered', wire', flight, old, cuts, Taken) /\ Taken' = Taken
    BY <2>1, <2>2 DEF Taken
  <2> QED
    BY <2>1, <2>3 DEF OrderInv
<1>6. ASSUME NEW c \in old, ReceiveLate(c) PROVE OrderInv'
  <2> DEFINE b == c.registered \/ Head(c.wire) = Register
             p == (old \ {c}) \cup Holding(Tail(c.wire), b)
  <2>1. /\ old' = p /\ UNCHANGED <<at, outbound, enqueued, flight, wire, cuts>>
        /\ Head(c.wire) = Register => delivered' = delivered
        /\ Head(c.wire) # Register => delivered' = Append(delivered, Head(c.wire))
    BY <1>6 DEF ReceiveLate, With, callers
  <2> HIDE DEF b
  <2>2. /\ Head(c.wire) = Register => Ordered(delivered, wire, flight, p, cuts, Taken)
        /\ Head(c.wire) # Register =>
              Ordered(Append(delivered, Head(c.wire)), wire, flight, p, cuts, Taken)
    BY <1>o, <1>q, <1>t, OrderReceiveLate
  <2> HIDE DEF p
  <2>3. Ordered(delivered', wire, flight, old', cuts, Taken) /\ Taken' = Taken
    BY <2>1, <2>2 DEF Taken
  <2> QED
    BY <2>1, <2>3 DEF OrderInv
<1> QED
  BY <1>0, <1>1, <1>2, <1>3, <1>4, <1>5, <1>6
  DEF Next, vars, Tell, Shutdown, ConnectFails, RegisterFails, RegisterFailsNext,
      ConnectionLost, SleepOver, SleepNext, callers, network

\* The gateway receives no message twice, and one before an earlier one only over
\* different connections, for any number of reconnects, failed sends and frames
\* that arrive late.
THEOREM DeliveredInOrder == Spec => []InOrderAtMostOnce
<1>1. Init => OrderInv
  <2> SUFFICES ASSUME Init PROVE OrderInv
    OBVIOUS
  <2>1. Elems(<<>>) = {} /\ Increasing(<<>>) /\ On(<<>>, Register) = {}
    BY DEF Elems, Increasing, On
  <2>2. /\ delivered = <<>> /\ wire = <<>> /\ flight = Register /\ old = {} /\ cuts = {}
        /\ outbound = <<>> /\ Len(outbound) = 0
    BY DEF Init, Register
  <2>3. InOrder({}, <<>>) /\ Before({}, {Register} \ {Register}) /\ Before({}, {})
    BY DEF InOrder, Before
  <2>4. Ordered(<<>>, <<>>, Register, {}, {}, Taken)
    BY <2>1, <2>3 DEF Ordered
  <2> QED
    BY <2>2, <2>4 DEF OrderInv
<1>2. OrderInv => InOrderAtMostOnce
  BY DEF OrderInv, Ordered, InOrder, Between, InOrderAtMostOnce, Apart
<1> QED
  BY <1>1, <1>2, TypeCorrect, OrderStep, PTL DEF Spec

(***************************************************************************)
(* Refinement, without its fairness.                                       *)
(***************************************************************************)

\* Every step of the task is a step of ConnectionTask or leaves its status
\* alone: it never ends before the shutdown sender was used or dropped.
THEOREM TaskRefines == Spec => Abstract!Init /\ [][Abstract!Next]_Status
<1>1. Init => Abstract!Init
  BY DEF Init, Abstract!Init, Status
<1>2. ASSUME TypeOK, [Next]_vars PROVE [Abstract!Next]_Status
  <2> USE DEF Abstract!Next, Abstract!Tell, Abstract!Stop, Status
  <2>0. CASE UNCHANGED <<at, told>>
    BY <2>0
  <2>1. CASE Tell
    BY <1>2, <2>1 DEF Tell, TypeOK
  <2>2. CASE Shutdown
    BY <2>2 DEF Shutdown, callers
  <2>3. CASE ConnectFails \/ ConnectSucceeds \/ RegisterSent \/ RegisterFails
    BY <2>3 DEF ConnectFails, ConnectSucceeds, RegisterSent, RegisterFails, RegisterFailsNext, callers
  <2>4. CASE TakeMessage \/ SerialiseFails \/ MessageSent \/ MessageFails \/ ConnectionLost \/ SleepOver
    BY <2>4 DEF TakeMessage, SerialiseFails, MessageSent, MessageFails, ConnectionLost, SleepOver, SleepNext, callers
  <2> QED
    BY <1>2, <2>0, <2>1, <2>2, <2>3, <2>4 DEF Next, vars, Send, Receive, ReceiveLate, callers
<1> QED
  BY <1>1, <1>2, TypeCorrect, PTL DEF Spec
=============================================================================
