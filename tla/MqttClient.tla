----------------------------- MODULE MqttClient -----------------------------
(***************************************************************************)
(* The local MQTT client and the tasks around it: the event-loop task and  *)
(* the command task of MqttClientService, the beacon message loop, which   *)
(* consumes what the one forwards and asks the other to subscribe, and the *)
(* broadcast loop, which publishes while it holds the read lock of the     *)
(* broadcast-topic list.  Each of the four waits for another one:          *)
(*                                                                         *)
(*   - a caller for the reply of the command task;                         *)
(*   - the command task for room in the client's request channel, which    *)
(*     only the event-loop task's poll() makes;                            *)
(*   - the event-loop task for room in the inbound queue, which only the   *)
(*     message loop makes;                                                 *)
(*   - the message loop, to register a topic, for the write lock.          *)
(***************************************************************************)
EXTENDS Integers, Sequences, Functions

CONSTANTS MsgCapacity, CmdCapacity,    \* the channels of register_onto
          RequestCapacity,             \* AsyncClient::new(opts, 10)
          MaxArrivals,                 \* bound: messages the broker forwards
          MayStop                      \* whether the supervisor stops the service

ASSUME CapacityAssumption ==
    /\ {MsgCapacity, CmdCapacity, RequestCapacity} \subseteq Nat \ {0}
    /\ MaxArrivals \in Nat
    /\ MayStop \in BOOLEAN

VARIABLES loop,        \* App::initialize, then run_beacon_message_loop
          bcast,       \* run_broadcast_loop
          cmds,        \* the command channel
          task,        \* the command task, and the command it works on
          requests,    \* the request channel of the rumqttc client
          ev,          \* the event-loop task
          net,         \* whether the client has a connection to the broker
          subscribed,  \* the broker's subscriptions of this client
          inbound,     \* length of the inbound queue
          told,        \* both shutdown channels have fired
          arrivals,    \* messages forwarded so far
          lost         \* a session with the broker was lost since start

broker == <<net, subscribed>>
bounds == <<arrivals, lost>>
vars == <<loop, bcast, cmds, task, requests, ev, broker, inbound, told, bounds>>

\* required_subscriptions.
Required == {"registration", "key-bridge"}

\* What a command asks for: a subscription to a required topic or to a beacon's
\* listen topic, the sweep's unsubscribe, a publish of the broadcast loop.
Subscription == Required \cup {"listen"}
Request == Subscription \cup {"unsubscribe", "publish"}

\* initialize and the message loop in the middle of a subscribe.
Sending == {"send registration", "send key-bridge", "send listen"}
Awaiting == {"await registration", "await key-bridge", "await listen"}

TypeOK ==
    /\ loop \in {"connecting", "select", "lock"} \cup Sending \cup Awaiting
    /\ bcast \in {"idle", "send", "await"}
    /\ cmds \in Seq(Request) /\ Len(cmds) <= CmdCapacity
    /\ task \in {"select", "done"} \cup Request
    /\ requests \in Seq(Request) /\ Len(requests) <= RequestCapacity
    /\ ev \in {"poll", "send", "sleep", "disconnect", "done"}
    /\ net \in {"up", "down"}
    /\ subscribed \subseteq Subscription
    /\ inbound \in 0..MsgCapacity
    /\ told \in BOOLEAN
    /\ arrivals \in 0..MaxArrivals
    /\ lost \in BOOLEAN

\* MqttClientService::start has spawned both tasks.
Init ==
    /\ loop = "connecting"
    /\ bcast = "idle"
    /\ cmds = <<>>
    /\ task = "select"
    /\ requests = <<>>
    /\ ev = "poll"
    /\ net = "down"
    /\ subscribed = {}
    /\ inbound = 0
    /\ told = FALSE
    /\ arrivals = 0
    /\ lost = FALSE

-----------------------------------------------------------------------------
(* The message loop and the broadcast loop.                                *)

\* main spawns the loops when initialize has returned.
Started == loop \in {"select", "lock", "send listen", "await listen"}

TakeInbound ==
    /\ loop = "select" /\ inbound > 0
    /\ inbound' = inbound - 1
    /\ UNCHANGED <<loop, bcast, cmds, task, requests, ev, broker, told, bounds>>

\* register_channel for a listen topic: subscribe, outside the select!.
RegisterListen ==
    /\ loop = "select"
    /\ loop' = "send listen"
    /\ UNCHANGED <<bcast, cmds, task, requests, ev, broker, inbound, told, bounds>>

\* register_channel for a broadcast topic waits for the broadcast loop.
RegisterBroadcast ==
    /\ loop = "select" /\ bcast # "idle"
    /\ loop' = "lock"
    /\ UNCHANGED <<bcast, cmds, task, requests, ev, broker, inbound, told, bounds>>

WriteTopics ==
    /\ loop = "lock" /\ bcast = "idle"
    /\ loop' = "select"
    /\ UNCHANGED <<bcast, cmds, task, requests, ev, broker, inbound, told, bounds>>

\* check_timeouts sends its unsubscribe and is cancelled by another branch of
\* the select!, or gets its reply: the message loop never waits for it.
SweepUnsubscribes ==
    /\ loop = "select" /\ task # "done"
    /\ Len(cmds) < CmdCapacity
    /\ cmds' = Append(cmds, "unsubscribe")
    /\ UNCHANGED <<loop, bcast, task, requests, ev, broker, inbound, told, bounds>>

\* A cycle takes the read lock; tokio's lock lets a waiting writer go first.
ReadersFirst == FALSE
WriterWaits == loop = "lock"
BroadcastBegins ==
    /\ bcast = "idle" /\ Started /\ ~WriterWaits
    /\ bcast' = "send"
    /\ UNCHANGED <<loop, cmds, task, requests, ev, broker, inbound, told, bounds>>

\* A reply, or the error for a channel whose other end is gone, takes the
\* caller on: subscribe_all to its second topic, or after an error to its end,
\* register_channel to its end, and the broadcast loop to its next topic or to
\* the end of its cycle, where it gives the lock back.
LoopGoesOn(ok) ==
    /\ loop' = IF ok /\ loop = "await registration" THEN "send key-bridge"
                                                   ELSE "select"
    /\ UNCHANGED bcast
BroadcastGoesOn == bcast' \in {"send", "idle"} /\ UNCHANGED loop

\* MqttClientHandle: tx.send(..).await, which needs room, then rx.await.
SendRoom == task # "done" /\ Len(cmds) < CmdCapacity
SendCommand(req, caller, waiting) ==
    /\ SendRoom
    /\ cmds' = Append(cmds, req)
    /\ caller' = waiting

LoopSends ==
    /\ \/ /\ loop = "send registration"
          /\ SendCommand("registration", loop, "await registration")
       \/ /\ loop = "send key-bridge"
          /\ SendCommand("key-bridge", loop, "await key-bridge")
       \/ loop = "send listen" /\ SendCommand("listen", loop, "await listen")
    /\ UNCHANGED <<bcast, task, requests, ev, broker, inbound, told, bounds>>

BroadcastSends ==
    /\ bcast = "send" /\ SendCommand("publish", bcast, "await")
    /\ UNCHANGED <<loop, task, requests, ev, broker, inbound, told, bounds>>

SendFails ==
    /\ task = "done"
    /\ \/ loop \in Sending /\ LoopGoesOn(FALSE)
       \/ bcast = "send" /\ BroadcastGoesOn
    /\ UNCHANGED <<cmds, task, requests, ev, broker, inbound, told, bounds>>

-----------------------------------------------------------------------------
(* The command task.                                                       *)

ReplyTo(req, ok) ==
    CASE req \in Subscription -> LoopGoesOn(ok)
      [] req = "publish" -> BroadcastGoesOn
      [] req = "unsubscribe" -> UNCHANGED <<loop, bcast>>

TakeCommand ==
    /\ task = "select" /\ cmds # <<>>
    /\ task' = Head(cmds)
    /\ cmds' = Tail(cmds)
    /\ UNCHANGED <<loop, bcast, requests, ev, broker, inbound, told, bounds>>

\* client.subscribe(..).await and the like: the request is queued, not sent.
Unqueued == requests
Queued == Append(requests, task)
QueueRequest ==
    /\ task \in Request
    /\ ev # "done" /\ Len(requests) < RequestCapacity
    /\ requests' = Queued
    /\ ReplyTo(task, TRUE)
    /\ task' = "select"
    /\ UNCHANGED <<cmds, ev, broker, inbound, told, bounds>>

\* The event loop is gone, and with it the receiver of the requests.
RequestFails ==
    /\ task \in Request /\ ev = "done"
    /\ ReplyTo(task, FALSE)
    /\ task' = "select"
    /\ UNCHANGED <<cmds, requests, ev, broker, inbound, told, bounds>>

\* The task ends; the replies it owes are dropped with the command channel, and
\* a caller that waits for one gets an error.
LoopForgotten == loop
LoopReleased == IF loop \in Awaiting THEN "select" ELSE loop
CommandTaskEnds ==
    /\ task = "select" /\ told
    /\ task' = "done"
    /\ cmds' = <<>>
    /\ loop' = LoopReleased
    /\ IF bcast = "await" THEN bcast' \in {"send", "idle"} ELSE UNCHANGED bcast
    /\ UNCHANGED <<requests, ev, broker, inbound, told, bounds>>

-----------------------------------------------------------------------------
(* The event-loop task.  Only the select! watches the shutdown channel.    *)

\* poll() connects; the first ConnAck resolves connected_rx.
Unsignalled == "connecting"
Signalled == IF loop = "connecting" THEN "send registration" ELSE loop
ConnAck ==
    /\ ev = "poll" /\ net = "down"
    /\ net' = "up"
    /\ loop' = Signalled
    /\ UNCHANGED <<bcast, cmds, task, requests, ev, subscribed, inbound, told, bounds>>

ConnectFails ==
    /\ ev = "poll" /\ net = "down"
    /\ ev' = "sleep"
    /\ UNCHANGED <<loop, bcast, cmds, task, requests, broker, inbound, told, bounds>>

Wake ==
    /\ ev = "sleep"
    /\ ev' = "poll"
    /\ UNCHANGED <<loop, bcast, cmds, task, requests, broker, inbound, told, bounds>>

\* A connection error: poll() empties the request channel, and the next
\* connection, with a clean session, starts with no request and no subscription.
ConnectionLost ==
    /\ ev = "poll" /\ net = "up"
    /\ ev' = "sleep"
    /\ net' = "down"
    /\ requests' = <<>>
    /\ subscribed' = {}
    /\ lost' = TRUE
    /\ UNCHANGED <<loop, bcast, cmds, task, inbound, told, arrivals>>

\* poll() hands a request to the broker.
PollRequest ==
    /\ ev = "poll" /\ net = "up" /\ requests # <<>>
    /\ requests' = Tail(requests)
    /\ subscribed' = subscribed \cup ({Head(requests)} \cap Subscription)
    /\ UNCHANGED <<loop, bcast, cmds, task, ev, net, inbound, told, bounds>>

\* poll() returns a publish, for msg_tx.send(msg).await.
Arrive ==
    /\ ev = "poll" /\ net = "up" /\ subscribed # {}
    /\ arrivals < MaxArrivals
    /\ arrivals' = arrivals + 1
    /\ ev' = "send"
    /\ UNCHANGED <<loop, bcast, cmds, task, requests, broker, inbound, told, lost>>

InboundFull == inbound = MsgCapacity
Forward ==
    /\ ev = "send" /\ ~InboundFull
    /\ inbound' = inbound + 1
    /\ ev' = "poll"
    /\ UNCHANGED <<loop, bcast, cmds, task, requests, broker, told, bounds>>

\* client.disconnect().await takes a place in the request channel, too; when
\* there is none the task waits for its own poll().
EventLoopEnds ==
    /\ ev = "poll" /\ told
    /\ IF Len(requests) < RequestCapacity
       THEN /\ ev' = "done" /\ net' = "down"
            /\ requests' = <<>> /\ subscribed' = {} /\ lost' = TRUE
            /\ loop' = IF loop = "connecting" THEN "select" ELSE loop
       ELSE /\ ev' = "disconnect"
            /\ UNCHANGED <<net, requests, subscribed, lost, loop>>
    /\ UNCHANGED <<bcast, cmds, task, inbound, told, arrivals>>

\* MqttClientService::stop.
Stop ==
    /\ MayStop /\ ~told
    /\ told' = TRUE
    /\ UNCHANGED <<loop, bcast, cmds, task, requests, ev, broker, inbound, bounds>>

Next ==
    \/ TakeInbound \/ RegisterListen \/ RegisterBroadcast \/ WriteTopics
    \/ SweepUnsubscribes \/ BroadcastBegins
    \/ LoopSends \/ BroadcastSends \/ SendFails
    \/ TakeCommand \/ QueueRequest \/ RequestFails \/ CommandTaskEnds
    \/ ConnAck \/ ConnectFails \/ Wake \/ ConnectionLost
    \/ PollRequest \/ Arrive \/ Forward \/ EventLoopEnds
    \/ Stop

Spec == Init /\ [][Next]_vars

\* Tasks are scheduled and channels are fair.  select! in the message loop
\* and in poll() chooses at random among what is ready, so that an inbound
\* message and a request that wait are taken some time; the broker, a child
\* process on the same machine, can be reached again and again.  A broadcast
\* cycle has finitely many topics.
Fairness ==
    /\ SF_vars(TakeInbound)
    /\ WF_vars(WriteTopics)
    /\ SF_vars(LoopSends) /\ SF_vars(BroadcastSends) /\ WF_vars(SendFails)
    /\ WF_vars(TakeCommand) /\ WF_vars(QueueRequest) /\ WF_vars(RequestFails)
    /\ SF_vars(CommandTaskEnds)
    /\ SF_vars(ConnAck) /\ WF_vars(Wake)
    /\ SF_vars(PollRequest) /\ WF_vars(Forward)
    /\ SF_vars(EventLoopEnds)
    /\ SF_vars(QueueRequest /\ bcast # "idle" /\ bcast' = "idle")

FairSpec == Spec /\ Fairness

-----------------------------------------------------------------------------
(* Properties.                                                             *)

\* Once the message loop runs, the subscriptions it cannot do without are in
\* force or on their way to the broker, for as long as the first session with
\* the broker lasts and the client is not stopped: subscribe's reply is not
\* sent before the request is queued, and initialize waits for it.
RequiredTopicsRequested ==
    Started /\ ~lost /\ ~told
      => Required \subseteq subscribed \cup Range(requests)

\* A caller waits for a reply exactly while its command is in the channel or
\* with the command task: no reply is left over for the next call, and nobody
\* waits for a command that was dropped (the oneshot in each MqttCommand).
AwaitsReply(r) ==
    \/ r = "registration" /\ loop = "await registration"
    \/ r = "key-bridge" /\ loop = "await key-bridge"
    \/ r = "listen" /\ loop = "await listen"
    \/ r = "publish" /\ bcast = "await"
UnderWay == Range(cmds) \cup ({task} \cap Request)
RepliesMatch == UnderWay \ {"unsubscribe"} = {r \in Request : AwaitsReply(r)}

\* App::initialize gets past the wait for the first ConnAck and its required
\* subscriptions, whatever number of attempts fail before, unless it is stopped.
InitializeReturns == (loop = "connecting") ~> (Started \/ told)

\* "Subscribe, Unsubscribe, and Publish each return their result via a oneshot
\* reply channel" (spawn_command_task): neither of the loops waits for ever,
\* unless the client is stopped.
CommandsAnswered ==
    /\ (loop \in Awaiting \cup {"lock"}) ~> (loop \notin Awaiting \cup {"lock"} \/ told)
    /\ (bcast = "await") ~> (bcast # "await" \/ told)
=============================================================================
