-------------------------- MODULE MqttClientProofs --------------------------
(***************************************************************************)
(* Proofs about the local MQTT client, for every capacity of its three     *)
(* channels and any number of messages: its types, that the message loop   *)
(* never runs without its required subscriptions, and that replies and     *)
(* calls match.                                                            *)
(***************************************************************************)
EXTENDS MqttClient, SequenceTheorems, TLAPS

\* What Append and Tail do to the elements of a sequence.
LEMMA AppendRange ==
    ASSUME NEW S, NEW q \in Seq(S), NEW x \in S
    PROVE  /\ Append(q, x) \in Seq(S) /\ Len(Append(q, x)) = Len(q) + 1
           /\ Range(Append(q, x)) = Range(q) \cup {x}
<1>1. /\ Append(q, x) \in Seq(S) /\ Len(Append(q, x)) = Len(q) + 1 /\ Len(q) \in Nat
      /\ \A i \in 1..Len(q) : Append(q, x)[i] = q[i]
      /\ Append(q, x)[Len(q) + 1] = x
  BY AppendProperties, LenProperties
<1>2. DOMAIN q = 1..Len(q) /\ DOMAIN Append(q, x) = 1..(Len(q) + 1)
  BY <1>1, LenProperties
<1>3. 1..(Len(q) + 1) = 1..Len(q) \cup {Len(q) + 1}
  BY <1>1
<1>4. Range(Append(q, x)) = Range(q) \cup {x}
  BY <1>1, <1>2, <1>3 DEF Range
<1> QED
  BY <1>1, <1>4

\* Taking the head of a queue: what is left, where its members were, and the
\* members of both together.
LEMMA TailRange ==
    ASSUME NEW S, NEW q \in Seq(S), q # <<>>
    PROVE  /\ Tail(q) \in Seq(S) /\ Head(q) \in S
           /\ Len(q) \in Nat \ {0} /\ Len(Tail(q)) = Len(q) - 1
           /\ \A i \in 1..Len(Tail(q)) : Tail(q)[i] = q[i + 1]
           /\ Head(q) = q[1]
           /\ Range(q) = {Head(q)} \cup Range(Tail(q))
<1>1. /\ Tail(q) \in Seq(S) /\ Head(q) \in S /\ Head(q) = q[1]
      /\ Len(q) \in Nat \ {0} /\ Len(Tail(q)) = Len(q) - 1
      /\ \A i \in 1..Len(Tail(q)) : Tail(q)[i] = q[i + 1]
  BY HeadTailProperties, LenProperties, EmptySeq
<1>2. DOMAIN q = 1..Len(q) /\ DOMAIN Tail(q) = 1..(Len(q) - 1)
  BY <1>1, LenProperties
<1>3. Range(q) \subseteq {Head(q)} \cup Range(Tail(q))
  <2> SUFFICES ASSUME NEW i \in 1..Len(q), i # 1 PROVE q[i] \in Range(Tail(q))
    BY <1>1, <1>2 DEF Range
  <2>1. i - 1 \in 1..(Len(q) - 1) /\ Tail(q)[i - 1] = q[i]
    BY <1>1
  <2> QED
    BY <1>2, <2>1, Zenon DEF Range
<1>4. {Head(q)} \cup Range(Tail(q)) \subseteq Range(q)
  <2>1. 1 \in DOMAIN q
    BY <1>1, <1>2
  <2>2. \A i \in 1..(Len(q) - 1) : Tail(q)[i] = q[i + 1] /\ i + 1 \in DOMAIN q
    BY <1>1, <1>2
  <2> QED
    BY <1>1, <1>2, <2>1, <2>2 DEF Range
<1> QED
  BY <1>1, <1>3, <1>4

\* The channels of the client as numbers.
LEMMA Capacities == MsgCapacity \in Nat \ {0} /\ CmdCapacity \in Nat \ {0}
                    /\ RequestCapacity \in Nat \ {0} /\ MaxArrivals \in Nat
BY CapacityAssumption

LoopStates == {"connecting", "select", "lock"} \cup Sending \cup Awaiting

\* Every step of the message loop, the broadcast loop and the two tasks
\* preserves the type invariant, the capacities of the channels included.
LEMMA TypeStep ==
    ASSUME TypeOK, [Next]_vars
    PROVE  TypeOK'
<1>q. /\ cmds \in Seq(Request) /\ Len(cmds) \in Nat
      /\ requests \in Seq(Request) /\ Len(requests) \in Nat
  BY LenProperties DEF TypeOK
<1>c. /\ MsgCapacity \in Nat \ {0} /\ CmdCapacity \in Nat \ {0}
      /\ RequestCapacity \in Nat \ {0} /\ MaxArrivals \in Nat
  BY Capacities
<1>e. /\ <<>> \in Seq(Request) /\ Len(<<>>) = 0
      /\ 0 <= CmdCapacity /\ 0 <= RequestCapacity
  BY <1>c, EmptySeq
<1>a. ASSUME NEW r \in Request, Len(cmds) < CmdCapacity
      PROVE  Append(cmds, r) \in Seq(Request) /\ Len(Append(cmds, r)) <= CmdCapacity
  BY <1>a, <1>q, <1>c, AppendRange
<1>g. ASSUME NEW ok \in BOOLEAN, LoopGoesOn(ok) PROVE loop' \in LoopStates /\ bcast' = bcast
  BY <1>g DEF LoopGoesOn, LoopStates, Sending
<1>h. ASSUME BroadcastGoesOn PROVE loop' = loop /\ bcast' \in {"send", "idle"}
  BY <1>h DEF BroadcastGoesOn
<1>r. ASSUME NEW ok \in BOOLEAN, task \in Request, ReplyTo(task, ok)
      PROVE  loop' \in LoopStates /\ bcast' \in {"idle", "send", "await"}
  <2>1. CASE task \in Subscription
    <3>1. LoopGoesOn(ok)
      BY <1>r, <2>1, Zenon DEF ReplyTo, Subscription, Required
    <3> QED
      BY <1>g, <3>1 DEF TypeOK
  <2>2. CASE task = "publish"
    BY <1>r, <1>h, <2>2 DEF ReplyTo, TypeOK, LoopStates, Subscription, Required
  <2>3. CASE task = "unsubscribe"
    BY <1>r, <2>3 DEF ReplyTo, TypeOK, LoopStates, Subscription, Required
  <2> QED
    BY <1>r, <2>1, <2>2, <2>3 DEF Request
<1>0. CASE UNCHANGED vars
  BY <1>0 DEF TypeOK, vars, broker, bounds
<1>1. CASE TakeInbound
  BY <1>1, <1>c DEF TakeInbound, TypeOK, broker, bounds
<1>2. CASE RegisterListen \/ RegisterBroadcast \/ WriteTopics \/ BroadcastBegins
  BY <1>2 DEF RegisterListen, RegisterBroadcast, WriteTopics, BroadcastBegins, TypeOK, Sending,
              broker, bounds
<1>3. CASE SweepUnsubscribes
  BY <1>3, <1>a DEF SweepUnsubscribes, TypeOK, Request, broker, bounds
<1>4. CASE LoopSends
  <2>1. loop' \in LoopStates /\ \E r \in Request : cmds' = Append(cmds, r) /\ Len(cmds) < CmdCapacity
    BY <1>4 DEF LoopSends, SendCommand, SendRoom, LoopStates, Awaiting, Request, Subscription,
                Required
  <2> QED
    BY <1>4, <1>a, <2>1 DEF LoopSends, TypeOK, LoopStates, broker, bounds
<1>5. CASE BroadcastSends
  <2>1. bcast' = "await" /\ cmds' = Append(cmds, "publish") /\ Len(cmds) < CmdCapacity
    BY <1>5 DEF BroadcastSends, SendCommand, SendRoom
  <2>2. "publish" \in Request
    BY DEF Request
  <2> QED
    BY <1>5, <1>a, <2>1, <2>2 DEF BroadcastSends, TypeOK, broker, bounds
<1>6. CASE SendFails
  <2>1. loop' \in LoopStates /\ bcast' \in {"idle", "send", "await"}
    BY <1>6, <1>g, <1>h, Zenon DEF SendFails, TypeOK, LoopStates
  <2> QED
    BY <1>6, <2>1 DEF SendFails, TypeOK, LoopStates, broker, bounds
<1>7. CASE TakeCommand
  <2>1. Head(cmds) \in Request /\ Tail(cmds) \in Seq(Request) /\ Len(Tail(cmds)) = Len(cmds) - 1
    BY <1>7, <1>q, TailRange DEF TakeCommand
  <2>2. Len(Tail(cmds)) <= CmdCapacity
    BY <1>q, <1>c, <2>1 DEF TypeOK
  <2> QED
    BY <1>7, <2>1, <2>2 DEF TakeCommand, TypeOK, broker, bounds
<1>8. CASE QueueRequest
  <2>1. /\ task \in Request /\ Len(requests) < RequestCapacity
        /\ requests' = Append(requests, task) /\ ReplyTo(task, TRUE)
    BY <1>8, Zenon DEF QueueRequest, Queued
  <2>2. requests' \in Seq(Request) /\ Len(requests') <= RequestCapacity
    BY <1>q, <1>c, <2>1, AppendRange
  <2>3. loop' \in LoopStates /\ bcast' \in {"idle", "send", "await"}
    BY <1>r, <2>1, Zenon
  <2> QED
    BY <1>8, <2>2, <2>3 DEF QueueRequest, TypeOK, LoopStates, broker, bounds
<1>9. CASE RequestFails
  <2>1. loop' \in LoopStates /\ bcast' \in {"idle", "send", "await"}
    BY <1>9, <1>r, Zenon DEF RequestFails
  <2> QED
    BY <1>9, <2>1 DEF RequestFails, TypeOK, LoopStates, broker, bounds
<1>10. CASE CommandTaskEnds
  BY <1>10, <1>e DEF CommandTaskEnds, LoopReleased, TypeOK, broker, bounds
<1>11. CASE ConnAck
  BY <1>11 DEF ConnAck, Signalled, TypeOK, Sending, bounds
<1>12. CASE ConnectFails \/ Wake \/ Stop
  BY <1>12, Zenon DEF ConnectFails, Wake, Stop, TypeOK, broker, bounds
<1>13. CASE ConnectionLost
  BY <1>13, <1>e DEF ConnectionLost, TypeOK
<1>14. CASE PollRequest
  <2>1. Tail(requests) \in Seq(Request) /\ Len(Tail(requests)) = Len(requests) - 1
    BY <1>14, <1>q, TailRange DEF PollRequest
  <2>2. Len(Tail(requests)) <= RequestCapacity
    BY <1>q, <1>c, <2>1 DEF TypeOK
  <2> QED
    BY <1>14, <2>1, <2>2 DEF PollRequest, TypeOK, bounds
<1>15. CASE Arrive
  BY <1>15, <1>c DEF Arrive, TypeOK, broker
<1>16. CASE Forward
  BY <1>16, <1>c DEF Forward, InboundFull, TypeOK, broker, bounds
<1>17. CASE EventLoopEnds
  BY <1>17, <1>e, Zenon DEF EventLoopEnds, TypeOK
<1> QED
  BY <1>0, <1>1, <1>2, <1>3, <1>4, <1>5, <1>6, <1>7, <1>8, <1>9, <1>10, <1>11, <1>12, <1>13,
     <1>14, <1>15, <1>16, <1>17 DEF Next

\* The channels stay within their capacities and the tasks in their states.
THEOREM TypeCorrect == Spec => []TypeOK
<1>1. Init => TypeOK
  <2> SUFFICES ASSUME Init PROVE TypeOK
    OBVIOUS
  <2>1. /\ cmds \in Seq(Request) /\ Len(cmds) <= CmdCapacity
        /\ requests \in Seq(Request) /\ Len(requests) <= RequestCapacity
    BY Capacities, EmptySeq DEF Init
  <2>2. inbound \in 0..MsgCapacity /\ arrivals \in 0..MaxArrivals
    BY Capacities DEF Init
  <2> QED
    BY <2>1, <2>2, Zenon DEF Init, TypeOK
<1> QED
  BY <1>1, TypeStep, PTL DEF Spec

-----------------------------------------------------------------------------
(* The required subscriptions.                                             *)

WaitFor == [r \in Subscription |->
    CASE r = "registration" -> "await registration"
      [] r = "key-bridge" -> "await key-bridge"
      [] r = "listen" -> "await listen"]

\* A subscribe that is under way is the one its only caller waits for, and
\* there is no second one.
OneSubscribe ==
    /\ \A i \in 1..Len(cmds) : cmds[i] \in Subscription =>
          /\ loop = WaitFor[cmds[i]]
          /\ task \notin Subscription
          /\ \A j \in 1..Len(cmds) : cmds[j] \in Subscription => j = i
    /\ task \in Subscription => loop = WaitFor[task]

\* What the broker has been asked for, or will be.
Asked == subscribed \cup Range(requests)

RequestInv ==
    /\ OneSubscribe
    /\ ev \in {"disconnect", "done"} \/ task = "done" => told
    /\ ~lost /\ ~told =>
          /\ loop \in {"send key-bridge", "await key-bridge"} => "registration" \in Asked
          /\ Started => Required \subseteq Asked

\* Which answer the message loop awaits after which subscribe command.
LEMMA WaitForFacts ==
    /\ \A r \in Subscription : WaitFor[r] \in Awaiting
    /\ WaitFor["registration"] = "await registration"
    /\ WaitFor["key-bridge"] = "await key-bridge"
    /\ WaitFor["listen"] = "await listen"
BY DEF WaitFor, Subscription, Required, Awaiting

\* A command that is no subscription changes nothing for OneSubscribe.
LEMMA OtherCommand ==
    ASSUME TypeOK, OneSubscribe, NEW r \in Request \ Subscription,
           cmds' = Append(cmds, r), loop' = loop, task' = task
    PROVE  OneSubscribe'
<1>1. /\ Len(cmds) \in Nat /\ Len(cmds') = Len(cmds) + 1
      /\ \A i \in 1..Len(cmds) : cmds'[i] = cmds[i]
      /\ cmds'[Len(cmds) + 1] = r
  BY AppendProperties, LenProperties DEF TypeOK
<1>2. \A i \in 1..Len(cmds') : cmds'[i] \in Subscription => i \in 1..Len(cmds) /\ cmds'[i] = cmds[i]
  BY <1>1
<1> QED
  BY <1>2 DEF OneSubscribe

\* The caller sends a subscription when none is under way.
LEMMA SubscribeSent ==
    ASSUME TypeOK, OneSubscribe, loop \notin Awaiting, NEW r \in Subscription,
           cmds' = Append(cmds, r), loop' = WaitFor[r], task' = task
    PROVE  OneSubscribe'
<1>1. /\ Len(cmds) \in Nat /\ Len(cmds') = Len(cmds) + 1
      /\ \A i \in 1..Len(cmds) : cmds'[i] = cmds[i]
      /\ cmds'[Len(cmds) + 1] = r
  BY AppendProperties, LenProperties DEF TypeOK, Request
<1>2. task \notin Subscription /\ \A i \in 1..Len(cmds) : cmds[i] \notin Subscription
  BY WaitForFacts DEF OneSubscribe
<1>3. \A i \in 1..Len(cmds') : cmds'[i] \in Subscription => i = Len(cmds) + 1 /\ cmds'[i] = r
  BY <1>1, <1>2
<1> QED
  BY <1>2, <1>3 DEF OneSubscribe

\* The indices of a sequence and of its tail.
LEMMA Shifted ==
    ASSUME NEW n \in Nat \ {0}
    PROVE  /\ 1 \in 1..n
           /\ \A i \in 1..(n - 1) : i + 1 \in 1..n /\ i + 1 # 1
           /\ \A i, j \in 1..(n - 1) : j + 1 = i + 1 => j = i
OBVIOUS

\* The command task takes the next command.
LEMMA CommandTaken ==
    ASSUME TypeOK, OneSubscribe, TakeCommand
    PROVE  OneSubscribe' /\ task' \in Request
<1>q. cmds \in Seq(Request)
  BY DEF TypeOK
<1>1. task' = Head(cmds) /\ cmds' = Tail(cmds) /\ loop' = loop
  BY DEF TakeCommand
<1>2. /\ Head(cmds) \in Request /\ Head(cmds) = cmds[1] /\ 1 \in 1..Len(cmds)
      /\ Len(cmds) \in Nat \ {0} /\ Len(cmds') = Len(cmds) - 1
      /\ \A i \in 1..Len(cmds') : cmds'[i] = cmds[i + 1] /\ i + 1 \in 1..Len(cmds) /\ i + 1 # 1
  <2>1. /\ Head(cmds) \in Request /\ Head(cmds) = cmds[1]
        /\ Len(cmds) \in Nat \ {0} /\ Len(cmds') = Len(cmds) - 1
        /\ \A i \in 1..Len(cmds') : cmds'[i] = cmds[i + 1]
    BY <1>q, <1>1, TailRange DEF TakeCommand
  <2>2. 1 \in 1..Len(cmds)
    BY <2>1, Shifted
  <2>3. \A i \in 1..Len(cmds') : i + 1 \in 1..Len(cmds) /\ i + 1 # 1
    BY <2>1, Shifted
  <2> QED
    BY <2>1, <2>2, <2>3
<1>3. OneSubscribe'
  <2>1. task' \in Subscription => loop' = WaitFor[task']
    BY <1>1, <1>2 DEF OneSubscribe
  <2>2. ASSUME NEW i \in 1..Len(cmds'), cmds'[i] \in Subscription
        PROVE  /\ loop' = WaitFor[cmds'[i]]
               /\ task' \notin Subscription
               /\ \A j \in 1..Len(cmds') : cmds'[j] \in Subscription => j = i
    <3>1. cmds'[i] = cmds[i + 1] /\ i + 1 \in 1..Len(cmds) /\ i + 1 # 1
      BY <1>2
    <3>2. \A j \in 1..Len(cmds) : cmds[j] \in Subscription => j = i + 1
      BY <2>2, <3>1 DEF OneSubscribe
    <3>3. \A j \in 1..Len(cmds') : cmds'[j] \in Subscription => j + 1 = i + 1
      BY <1>2, <3>2
    <3>4. \A j \in 1..Len(cmds') : cmds'[j] \in Subscription => j = i
      <4>1. \A j \in 1..Len(cmds') : j + 1 = i + 1 => j = i
        BY <1>2, Shifted
      <4> QED
        BY <3>3, <4>1
    <3> QED
      BY <1>1, <1>2, <2>2, <3>1, <3>2, <3>4 DEF OneSubscribe
  <2> QED
    BY <2>1, <2>2 DEF OneSubscribe
<1> QED
  BY <1>1, <1>2, <1>3

\* The command task answers the command it works on.
LEMMA CommandAnswered ==
    ASSUME TypeOK, OneSubscribe, task \in Request, NEW ok \in BOOLEAN, ReplyTo(task, ok),
           task' = "select", cmds' = cmds
    PROVE  /\ OneSubscribe'
           /\ task \in Subscription => loop = WaitFor[task] /\ LoopGoesOn(ok)
           /\ task \notin Subscription => loop' = loop
<1>1. "select" \notin Subscription
  BY DEF Subscription, Required
<1>2. task \in Subscription => loop = WaitFor[task] /\ LoopGoesOn(ok)
  BY Zenon DEF OneSubscribe, ReplyTo, Subscription, Required
<1>3. task \notin Subscription => loop' = loop
  BY Zenon DEF ReplyTo, BroadcastGoesOn, Request
<1>4. CASE task \in Subscription
  <2>1. \A i \in 1..Len(cmds) : cmds[i] \notin Subscription
    BY <1>4 DEF OneSubscribe
  <2>2. \A i \in 1..Len(cmds') : cmds'[i] \notin Subscription
    BY <2>1
  <2>3. OneSubscribe'
    BY <1>1, <2>2 DEF OneSubscribe
  <2> QED
    BY <1>2, <1>3, <2>3
<1>5. CASE task \notin Subscription
  <2>1. OneSubscribe'
    BY <1>1, <1>3, <1>5 DEF OneSubscribe
  <2> QED
    BY <1>2, <1>3, <2>1
<1> QED
  BY <1>4, <1>5

\* The command task hands its request to the client: nothing else is asked for.
LEMMA AskedGrows ==
    ASSUME TypeOK, task \in Request, requests' = Append(requests, task), UNCHANGED broker
    PROVE  Asked' = Asked \cup {task}
<1>1. requests \in Seq(Request)
  BY DEF TypeOK
<1>2. Range(Append(requests, task)) = Range(requests) \cup {task}
  BY <1>1, AppendRange
<1> QED
  BY <1>2 DEF Asked, broker

\* OneSubscribe holds when the command channel is empty and the task idle.
LEMMA NothingUnderWay ==
    ASSUME Len(cmds') = 0, task' \notin Subscription
    PROVE  OneSubscribe'
<1>1. 1..0 = {}
  OBVIOUS
<1> QED
  BY <1>1 DEF OneSubscribe

\* With no subscription under way the loop is free to move.
LEMMA LoopMoves ==
    ASSUME OneSubscribe, loop \notin Awaiting, cmds' = cmds, task' = task
    PROVE  OneSubscribe'
<1>1. task \notin Subscription /\ \A i \in 1..Len(cmds) : cmds[i] \notin Subscription
  BY WaitForFacts DEF OneSubscribe
<1> QED
  BY <1>1 DEF OneSubscribe

\* Every step preserves RequestInv: a subscribe is answered only after its
\* request has been queued.
LEMMA RequestStep ==
    ASSUME TypeOK, RequestInv, [Next]_vars
    PROVE  RequestInv'
<1>o. OneSubscribe
  BY DEF RequestInv
<1>q. /\ cmds \in Seq(Request) /\ Len(cmds) \in Nat
      /\ requests \in Seq(Request) /\ Len(requests) \in Nat
  BY LenProperties DEF TypeOK
<1>s. /\ Required \subseteq Subscription /\ Subscription \subseteq Request
      /\ "done" \notin Request /\ "select" \notin Request
  BY DEF Subscription, Request, Required
<1> USE DEF RequestInv
\* Steps that touch neither the loop nor a subscription.
<1>0. CASE UNCHANGED <<loop, cmds, task, requests, broker, told, lost>>
           /\ (ev' \in {"disconnect", "done"} => ev \in {"disconnect", "done"})
  BY <1>0 DEF OneSubscribe, Asked, Started, broker
<1>1. CASE UNCHANGED vars \/ TakeInbound \/ BroadcastBegins \/ ConnectFails \/ Wake \/ Arrive
           \/ Forward
  BY <1>0, <1>1 DEF vars, TakeInbound, BroadcastBegins, ConnectFails, Wake, Arrive, Forward, bounds
<1>2. CASE RegisterListen \/ RegisterBroadcast \/ WriteTopics
  <2>1. /\ loop \in {"select", "lock"} /\ loop' \in {"select", "lock", "send listen"}
        /\ UNCHANGED <<cmds, task, requests, ev, broker, told, bounds>>
    BY <1>2 DEF RegisterListen, RegisterBroadcast, WriteTopics
  <2>2. OneSubscribe'
    BY <1>o, <2>1, LoopMoves DEF Awaiting
  <2> QED
    BY <2>1, <2>2 DEF Asked, Started, broker, bounds
<1>3. CASE SweepUnsubscribes
  <2>1. /\ cmds' = Append(cmds, "unsubscribe")
        /\ UNCHANGED <<loop, task, requests, ev, broker, told, bounds>>
    BY <1>3 DEF SweepUnsubscribes
  <2>2. "unsubscribe" \in Request \ Subscription
    BY DEF Request, Subscription, Required
  <2>3. OneSubscribe'
    BY <1>o, <2>1, <2>2, OtherCommand
  <2> QED
    BY <2>1, <2>3 DEF Asked, Started, broker, bounds
<1>4. CASE LoopSends
  <2>1. PICK r \in Subscription : /\ cmds' = Append(cmds, r) /\ loop' = WaitFor[r]
                                  /\ r = "registration" => loop = "send registration"
                                  /\ r = "key-bridge" => loop = "send key-bridge"
                                  /\ r = "listen" => loop = "send listen"
    BY <1>4, WaitForFacts DEF LoopSends, SendCommand, Subscription, Required
  <2>2. /\ r \in {"registration", "key-bridge", "listen"} /\ loop \notin Awaiting
    BY <2>1 DEF Subscription, Required, Awaiting
  <2>3. UNCHANGED <<task, requests, ev, broker, told, bounds>>
    BY <1>4 DEF LoopSends
  <2>4. OneSubscribe'
    BY <1>o, <2>1, <2>2, <2>3, SubscribeSent
  <2> QED
    BY <2>1, <2>2, <2>3, <2>4, WaitForFacts DEF Asked, Started, broker, bounds
<1>5. CASE BroadcastSends
  <2>1. cmds' = Append(cmds, "publish") /\ UNCHANGED <<loop, task, requests, ev, broker, told, bounds>>
    BY <1>5 DEF BroadcastSends, SendCommand
  <2>2. "publish" \in Request \ Subscription
    BY DEF Request, Subscription, Required
  <2>3. OneSubscribe'
    BY <1>o, <2>1, <2>2, OtherCommand
  <2> QED
    BY <2>1, <2>3 DEF Asked, Started, broker, bounds
<1>6. CASE SendFails
  <2>1. told' /\ UNCHANGED <<cmds, task, ev>> /\ (loop' = loop \/ loop \in Sending)
    BY <1>6, Zenon DEF SendFails, BroadcastGoesOn
  <2>2. OneSubscribe'
    <3>1. CASE loop' = loop
      BY <1>o, <2>1, <3>1 DEF OneSubscribe
    <3>2. CASE loop \in Sending
      BY <1>o, <2>1, <3>2, LoopMoves DEF Sending, Awaiting
    <3> QED
      BY <2>1, <3>1, <3>2
  <2> QED
    BY <2>1, <2>2
<1>7. CASE TakeCommand
  <2>1. OneSubscribe' /\ task' \in Request
    BY <1>7, <1>o, CommandTaken
  <2>2. UNCHANGED <<loop, requests, ev, broker, told, bounds>>
    BY <1>7 DEF TakeCommand
  <2> QED
    BY <1>s, <2>1, <2>2 DEF Asked, Started, broker, bounds
<1>8. CASE QueueRequest
  <2>1. /\ task \in Request /\ requests' = Append(requests, task) /\ ReplyTo(task, TRUE)
        /\ task' = "select" /\ UNCHANGED <<cmds, ev, broker, told, bounds>>
    BY <1>8 DEF QueueRequest, Queued
  <2>2. /\ OneSubscribe'
        /\ task \in Subscription => loop = WaitFor[task] /\ LoopGoesOn(TRUE)
        /\ task \notin Subscription => loop' = loop
    BY <1>o, <2>1, CommandAnswered
  <2>3. Asked' = Asked \cup {task}
    BY <2>1, AskedGrows
  <2>4. CASE task \notin Subscription
    BY <2>1, <2>2, <2>3, <2>4 DEF Started, bounds
  <2>5. CASE task = "registration"
    <3>1. loop = "await registration" /\ loop' = "send key-bridge"
      BY <2>2, <2>5, WaitForFacts DEF LoopGoesOn, Subscription, Required
    <3> QED
      BY <2>1, <2>2, <2>3, <2>5, <3>1 DEF Started
  <2>6. CASE task = "key-bridge"
    <3>1. loop = "await key-bridge" /\ loop' = "select"
      BY <2>2, <2>6, WaitForFacts DEF LoopGoesOn, Subscription, Required
    <3> QED
      BY <2>1, <2>2, <2>3, <2>6, <3>1 DEF Started, Required, bounds
  <2>7. CASE task = "listen"
    <3>1. loop = "await listen" /\ loop' = "select"
      BY <2>2, <2>7, WaitForFacts DEF LoopGoesOn, Subscription, Required
    <3> QED
      BY <2>1, <2>2, <2>3, <3>1 DEF Started, bounds
  <2> QED
    BY <2>4, <2>5, <2>6, <2>7 DEF Subscription, Required
<1>9. CASE RequestFails
  <2>1. /\ task \in Request /\ ReplyTo(task, FALSE) /\ told'
        /\ task' = "select" /\ cmds' = cmds /\ ev' = ev
    BY <1>9, Zenon DEF RequestFails
  <2>2. OneSubscribe'
    BY <1>o, <2>1, CommandAnswered
  <2> QED
    BY <2>1, <2>2
<1>10. CASE CommandTaskEnds
  <2>1. told' /\ task' = "done" /\ Len(cmds') = 0
    BY <1>10, EmptySeq DEF CommandTaskEnds
  <2>2. OneSubscribe'
    BY <1>s, <2>1, NothingUnderWay
  <2> QED
    BY <2>1, <2>2
<1>11. CASE ConnAck
  <2>1. /\ UNCHANGED <<cmds, task, requests, ev, subscribed, told, bounds>>
        /\ loop' = loop \/ (loop = "connecting" /\ loop' = "send registration")
    BY <1>11 DEF ConnAck, Signalled
  <2>2. OneSubscribe'
    <3>1. CASE loop' = loop
      BY <1>o, <2>1, <3>1 DEF OneSubscribe
    <3>2. CASE loop = "connecting"
      BY <1>o, <2>1, <3>2, LoopMoves DEF Awaiting
    <3> QED
      BY <2>1, <3>1, <3>2
  <2> QED
    BY <2>1, <2>2 DEF Asked, Started, bounds
<1>12. CASE ConnectionLost
  BY <1>12 DEF ConnectionLost, OneSubscribe
<1>13. CASE PollRequest
  <2>1. /\ UNCHANGED <<loop, cmds, task, ev, told, bounds>>
        /\ requests' = Tail(requests)
        /\ subscribed' = subscribed \cup ({Head(requests)} \cap Subscription)
    BY <1>13 DEF PollRequest
  <2>2. Range(requests) = {Head(requests)} \cup Range(requests')
    BY <1>13, <1>q, <2>1, TailRange DEF PollRequest
  <2>3. \A r \in Required : r \in Asked => r \in Asked'
    BY <1>s, <2>1, <2>2 DEF Asked
  <2>4. "registration" \in Required
    BY DEF Required
  <2> QED
    BY <2>1, <2>3, <2>4 DEF OneSubscribe, Started, bounds
<1>14. CASE EventLoopEnds
  <2>1. told' /\ UNCHANGED <<cmds, task>> /\ (loop' = loop \/ loop = "connecting")
    BY <1>14 DEF EventLoopEnds
  <2>2. OneSubscribe'
    <3>1. CASE loop' = loop
      BY <1>o, <2>1, <3>1 DEF OneSubscribe
    <3>2. CASE loop = "connecting"
      BY <1>o, <2>1, <3>2, LoopMoves DEF Awaiting
    <3> QED
      BY <2>1, <3>1, <3>2
  <2> QED
    BY <2>1, <2>2
<1>15. CASE Stop
  BY <1>15 DEF Stop, OneSubscribe
<1> QED
  BY <1>1, <1>2, <1>3, <1>4, <1>5, <1>6, <1>7, <1>8, <1>9, <1>10, <1>11, <1>12, <1>13,
     <1>14, <1>15 DEF Next

\* The message loop never runs without its subscriptions: initialize's replies
\* come from the command task's own queueing of the request, each reply belongs
\* to the subscribe its caller waits for, and nothing but a lost session or a
\* stop takes a request back.
THEOREM NeverUnsubscribed == Spec => []RequiredTopicsRequested
<1>1. Init => RequestInv
  <2> SUFFICES ASSUME Init PROVE RequestInv
    OBVIOUS
  <2>1. Len(cmds) = 0
    BY EmptySeq DEF Init
  <2>2. OneSubscribe
    BY <2>1 DEF Init, OneSubscribe, Subscription, Required
  <2> QED
    BY <2>2 DEF Init, RequestInv, Started
<1>2. RequestInv => RequiredTopicsRequested
  BY DEF RequestInv, RequiredTopicsRequested, Asked
<1> QED
  BY <1>1, <1>2, TypeCorrect, RequestStep, PTL DEF Spec

-----------------------------------------------------------------------------
(* Replies.                                                                *)

\* No command but the sweep's unsubscribe is twice in the channel.
NoRepeat(q) == \A i, j \in DOMAIN q : q[i] = q[j] /\ q[i] # "unsubscribe" => i = j

\* ... or both in the channel and with the command task.
ReplyInv ==
    /\ RepliesMatch
    /\ NoRepeat(cmds)
    /\ task \in Range(cmds) => task = "unsubscribe"

\* A caller sends a command of which none is in the channel.
LEMMA AppendNoRepeat ==
    ASSUME NEW q \in Seq(Request), NEW r \in Request, NoRepeat(q),
           r = "unsubscribe" \/ r \notin Range(q)
    PROVE  NoRepeat(Append(q, r))
<1> DEFINE p == Append(q, r)
           n == Len(q)
<1>1. /\ n \in Nat /\ DOMAIN q = 1..n /\ DOMAIN p = 1..(n + 1)
      /\ \A i \in 1..n : p[i] = q[i]
      /\ p[n + 1] = r
  BY AppendProperties, LenProperties
<1>2. DOMAIN p = DOMAIN q \cup {n + 1}
  BY <1>1
<1>3. \A i \in DOMAIN q : p[i] = q[i]
  BY <1>1
<1>4. p[n + 1] = r
  BY <1>1
<1> HIDE DEF p, n
<1>5. NoRepeat(p)
  BY <1>2, <1>3, <1>4 DEF NoRepeat, Range
<1> QED
  BY <1>5 DEF p

\* The command task takes the only command of its kind.
LEMMA TailNoRepeat ==
    ASSUME NEW q \in Seq(Request), q # <<>>, NoRepeat(q)
    PROVE  /\ NoRepeat(Tail(q))
           /\ Head(q) \in Range(Tail(q)) => Head(q) = "unsubscribe"
<1> DEFINE p == Tail(q)
           n == Len(q)
<1>1. /\ n \in Nat \ {0} /\ DOMAIN q = 1..n /\ DOMAIN p = 1..(n - 1)
      /\ \A i \in 1..(n - 1) : p[i] = q[i + 1]
      /\ Head(q) = q[1]
  BY TailRange, HeadTailProperties, LenProperties
<1>2. 1 \in DOMAIN q /\ Head(q) = q[1]
  BY <1>1
<1>3. \A i \in DOMAIN p : i + 1 \in DOMAIN q /\ p[i] = q[i + 1] /\ i + 1 # 1
  BY <1>1
<1>4. \A i, j \in DOMAIN p : i + 1 = j + 1 => i = j
  BY <1>1
<1> HIDE DEF p, n
<1>5. NoRepeat(p)
  BY <1>3, <1>4 DEF NoRepeat
<1>6. ASSUME Head(q) \in Range(p) PROVE Head(q) = "unsubscribe"
  <2>1. PICK i \in DOMAIN p : p[i] = Head(q)
    BY <1>6 DEF Range
  <2> QED
    BY <1>2, <1>3, <2>1 DEF NoRepeat
<1> QED
  BY <1>5, <1>6 DEF p

\* Which commands are awaited is decided by two of the callers' states.
LEMMA ReplyFrame ==
    ASSUME ReplyInv, UNCHANGED <<cmds, task>>,
           loop' = loop \/ (loop \notin Awaiting /\ loop' \notin Awaiting),
           bcast' = "await" <=> bcast = "await"
    PROVE  ReplyInv'
<1>1. \A r : AwaitsReply(r)' <=> AwaitsReply(r)
  BY DEF AwaitsReply, Awaiting
<1>2. RepliesMatch'
  BY <1>1 DEF ReplyInv, RepliesMatch, UnderWay
<1> QED
  BY <1>2 DEF ReplyInv

\* A caller sends its command and begins to wait for the reply.
LEMMA ReplySent ==
    ASSUME TypeOK, ReplyInv, NEW r \in Request \ {"unsubscribe"}, ~AwaitsReply(r),
           cmds' = Append(cmds, r), task' = task,
           \A s \in Request : AwaitsReply(s)' <=> AwaitsReply(s) \/ s = r
    PROVE  ReplyInv'
<1>1. cmds \in Seq(Request)
  BY DEF TypeOK
<1>2. r \notin UnderWay
  BY DEF ReplyInv, RepliesMatch
<1>3. Range(cmds') = Range(cmds) \cup {r} /\ NoRepeat(cmds')
  BY <1>1, <1>2, AppendRange, AppendNoRepeat DEF ReplyInv, UnderWay
<1>4. UnderWay' = UnderWay \cup {r}
  BY <1>3 DEF UnderWay
<1>5. RepliesMatch'
  BY <1>4 DEF ReplyInv, RepliesMatch
<1>6. task' \in Range(cmds') => task' = "unsubscribe"
  BY <1>2, <1>3 DEF ReplyInv, UnderWay
<1> QED
  BY <1>3, <1>5, <1>6 DEF ReplyInv

\* The command task replies to the caller that waits for it, and to nobody else.
LEMMA ReplyGiven ==
    ASSUME TypeOK, ReplyInv, task \in Request, NEW ok \in BOOLEAN, ReplyTo(task, ok),
           task' = "select", cmds' = cmds
    PROVE  ReplyInv'
<1>1. "select" \notin Request
  BY DEF Request, Subscription, Required
<1>2. UnderWay \ {"unsubscribe"} = {r \in Request : AwaitsReply(r)}
  BY DEF ReplyInv, RepliesMatch
<1>3. UnderWay' \ {"unsubscribe"} = UnderWay \ {"unsubscribe", task}
  BY <1>1 DEF UnderWay, ReplyInv
<1>4. task # "unsubscribe" => AwaitsReply(task)
  BY <1>2 DEF UnderWay
<1>5. \A r \in Request : AwaitsReply(r)' <=> AwaitsReply(r) /\ r # task
  <2>1. CASE task \in Subscription
    <3>1. LoopGoesOn(ok)
      BY <2>1, Zenon DEF ReplyTo, Subscription, Required
    <3>2. bcast' = bcast /\ loop' \in {"send key-bridge", "select"}
      BY <3>1 DEF LoopGoesOn
    <3>3. /\ task \in {"registration", "key-bridge", "listen"}
          /\ AwaitsReply(task)
      BY <1>4, <2>1 DEF Subscription, Required
    <3> QED
      BY <3>2, <3>3 DEF AwaitsReply
  <2>2. CASE task = "publish"
    <3>1. BroadcastGoesOn
      BY <2>2 DEF ReplyTo, Subscription, Required
    <3> QED
      BY <2>2, <3>1 DEF BroadcastGoesOn, AwaitsReply
  <2>3. CASE task = "unsubscribe"
    <3>1. UNCHANGED <<loop, bcast>>
      BY <2>3 DEF ReplyTo, Subscription, Required
    <3> QED
      BY <2>3, <3>1 DEF AwaitsReply
  <2> QED
    BY <2>1, <2>2, <2>3 DEF Request
<1>6. RepliesMatch'
  BY <1>2, <1>3, <1>5 DEF RepliesMatch
<1>7. task' \notin Range(cmds')
  <2>1. Range(cmds) \subseteq Request
    BY DEF TypeOK, Range
  <2> QED
    BY <1>1, <2>1
<1> QED
  BY <1>6, <1>7 DEF ReplyInv

\* Every step preserves ReplyInv: a wait begins with a command and ends with its
\* reply, or with the end of the command task.
LEMMA ReplyStep ==
    ASSUME TypeOK, ReplyInv, [Next]_vars
    PROVE  ReplyInv'
<1>q. cmds \in Seq(Request)
  BY DEF TypeOK
<1>1. CASE \/ UNCHANGED vars \/ TakeInbound \/ ConnectFails \/ Wake \/ ConnectionLost
           \/ PollRequest \/ Arrive \/ Forward \/ Stop
  BY <1>1, ReplyFrame DEF vars, TakeInbound, ConnectFails, Wake, ConnectionLost, PollRequest,
                          Arrive, Forward, Stop
<1>2. CASE RegisterListen \/ RegisterBroadcast \/ WriteTopics \/ BroadcastBegins
  BY <1>2, ReplyFrame DEF RegisterListen, RegisterBroadcast, WriteTopics, BroadcastBegins,
                          Awaiting
<1>3. CASE ConnAck \/ EventLoopEnds
  BY <1>3, ReplyFrame DEF ConnAck, Signalled, EventLoopEnds, Awaiting
<1>4. CASE SendFails
  <2>1. CASE loop \in Sending /\ LoopGoesOn(FALSE)
    BY <1>4, <2>1, ReplyFrame DEF SendFails, LoopGoesOn, Sending, Awaiting
  <2>2. CASE bcast = "send" /\ BroadcastGoesOn
    BY <1>4, <2>2, ReplyFrame DEF SendFails, BroadcastGoesOn
  <2> QED
    BY <1>4, <2>1, <2>2, Zenon DEF SendFails
<1>5. CASE SweepUnsubscribes
  <2>1. cmds' = Append(cmds, "unsubscribe") /\ UNCHANGED <<loop, bcast, task>>
    BY <1>5 DEF SweepUnsubscribes
  <2>2. "unsubscribe" \in Request
    BY DEF Request
  <2>3. Range(cmds') = Range(cmds) \cup {"unsubscribe"} /\ NoRepeat(cmds')
    BY <1>q, <2>1, <2>2, AppendRange, AppendNoRepeat DEF ReplyInv
  <2>4. UnderWay' \ {"unsubscribe"} = UnderWay \ {"unsubscribe"}
    BY <2>1, <2>3 DEF UnderWay
  <2>5. \A r : AwaitsReply(r)' <=> AwaitsReply(r)
    BY <2>1 DEF AwaitsReply
  <2>6. RepliesMatch'
    BY <2>4, <2>5 DEF ReplyInv, RepliesMatch
  <2> QED
    BY <2>1, <2>3, <2>6 DEF ReplyInv
<1>6. CASE LoopSends
  <2>1. PICK r \in {"registration", "key-bridge", "listen"} :
             cmds' = Append(cmds, r) /\ loop' = WaitFor[r]
    BY <1>6, WaitForFacts DEF LoopSends, SendCommand
  <2>2. loop \notin Awaiting /\ UNCHANGED <<bcast, task>>
    BY <1>6 DEF LoopSends, Awaiting
  <2>3. r \in Request \ {"unsubscribe"} /\ ~AwaitsReply(r)
    BY <2>1, <2>2 DEF Request, Subscription, Required, AwaitsReply, Awaiting
  <2>4. \A s \in Request : AwaitsReply(s)' <=> AwaitsReply(s) \/ s = r
    BY <2>1, <2>2, WaitForFacts DEF AwaitsReply, Awaiting
  <2> QED
    BY <2>1, <2>2, <2>3, <2>4, ReplySent
<1>7. CASE BroadcastSends
  <2>1. /\ bcast = "send" /\ bcast' = "await" /\ cmds' = Append(cmds, "publish")
        /\ UNCHANGED <<loop, task>>
    BY <1>7 DEF BroadcastSends, SendCommand
  <2>2. "publish" \in Request \ {"unsubscribe"} /\ ~AwaitsReply("publish")
    BY <2>1 DEF Request, AwaitsReply
  <2>3. \A s \in Request : AwaitsReply(s)' <=> AwaitsReply(s) \/ s = "publish"
    BY <2>1 DEF AwaitsReply
  <2> QED
    BY <2>1, <2>2, <2>3, ReplySent
<1>8. CASE TakeCommand
  <2>1. /\ task = "select" /\ cmds # <<>> /\ task' = Head(cmds) /\ cmds' = Tail(cmds)
        /\ UNCHANGED <<loop, bcast>>
    BY <1>8 DEF TakeCommand
  <2>2. "select" \notin Request
    BY DEF Request, Subscription, Required
  <2>3. Head(cmds) \in Request /\ Range(cmds) = {Head(cmds)} \cup Range(cmds')
    BY <1>q, <2>1, TailRange
  <2>4. UnderWay' = UnderWay
    BY <2>1, <2>2, <2>3 DEF UnderWay
  <2>5. \A r : AwaitsReply(r)' <=> AwaitsReply(r)
    BY <2>1 DEF AwaitsReply
  <2>6. RepliesMatch'
    BY <2>4, <2>5 DEF ReplyInv, RepliesMatch
  <2>7. NoRepeat(cmds') /\ (task' \in Range(cmds') => task' = "unsubscribe")
    BY <1>q, <2>1, TailNoRepeat DEF ReplyInv
  <2> QED
    BY <2>6, <2>7 DEF ReplyInv
<1>9. CASE QueueRequest \/ RequestFails
  BY <1>9, ReplyGiven, Zenon DEF QueueRequest, RequestFails
<1>10. CASE CommandTaskEnds
  <2>1. /\ task' = "done" /\ cmds' = <<>> /\ loop' \notin Awaiting /\ bcast' # "await"
    BY <1>10 DEF CommandTaskEnds, LoopReleased, Awaiting
  <2>2. DOMAIN cmds' = {} /\ "done" \notin Request
    BY <2>1 DEF Request, Subscription, Required
  <2>3. UnderWay' = {} /\ NoRepeat(cmds') /\ task' \notin Range(cmds')
    BY <2>1, <2>2 DEF UnderWay, NoRepeat, Range
  <2>4. \A r : ~AwaitsReply(r)'
    BY <2>1 DEF AwaitsReply, Awaiting
  <2> QED
    BY <2>3, <2>4 DEF ReplyInv, RepliesMatch
<1> QED
  BY <1>1, <1>2, <1>3, <1>4, <1>5, <1>6, <1>7, <1>8, <1>9, <1>10 DEF Next

\* For every capacity of the channels a caller waits exactly while its command is
\* under way: what CommandsAnswered adds is that the command task goes on.
THEOREM RepliesMatchCommands == Spec => []RepliesMatch
<1>1. Init => ReplyInv
  <2> SUFFICES ASSUME Init PROVE ReplyInv
    OBVIOUS
  <2>1. DOMAIN cmds = {} /\ "select" \notin Request
    BY DEF Init, Request, Subscription, Required
  <2>2. UnderWay = {} /\ NoRepeat(cmds) /\ task \notin Range(cmds)
    BY <2>1 DEF Init, UnderWay, NoRepeat, Range
  <2>3. \A r : ~AwaitsReply(r)
    BY DEF Init, AwaitsReply
  <2> QED
    BY <2>2, <2>3 DEF ReplyInv, RepliesMatch
<1>2. ReplyInv => RepliesMatch
  BY DEF ReplyInv
<1> QED
  BY <1>1, <1>2, TypeCorrect, ReplyStep, PTL DEF Spec

=============================================================================
