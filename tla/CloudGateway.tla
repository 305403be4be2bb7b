---------------------------- MODULE CloudGateway ----------------------------
(***************************************************************************)
(* The WebSocket connection task of connect_to_gateway: spawn_connection_  *)
(* task with its queue of outbound messages, its reconnect delay and its   *)
(* shutdown channel, the connection to the gateway, and the gateway at the *)
(* other end as far as it receives frames.                                 *)
(*                                                                         *)
(* Messages are numbered in the order in which callers enqueue them.       *)
(* Inbound text, ping, pong and binary frames change no state of the task. *)
(* The task may give a connection up while frames it has written are still *)
(* on their way: a prefix of them may arrive at any later time, also after *)
(* frames of a newer connection, and the rest is lost.                     *)
(***************************************************************************)
EXTENDS Integers, Sequences, FiniteSets

CONSTANTS OutboundCapacity,        \* OUTBOUND_CAPACITY
          InitialReconnectDelay,   \* INITIAL_RECONNECT_DELAY, in seconds
          MaxReconnectDelay,       \* MAX_RECONNECT_DELAY
          MaxMessages              \* bound: messages enqueued in a behaviour

ASSUME DelayAssumption ==
    /\ InitialReconnectDelay \in Nat \ {0}
    /\ MaxReconnectDelay \in Nat
    /\ InitialReconnectDelay <= MaxReconnectDelay
ASSUME QueueAssumption ==
    OutboundCapacity \in Nat \ {0} /\ MaxMessages \in Nat

VARIABLES at,          \* where the task is
          told,        \* shutdown_rx has fired
          delay,
          outbound,    \* outbound_rx
          enqueued,    \* how many messages have been enqueued
          flight,      \* the message being sent, 0 if none
          wire,        \* frames written to the connection, not yet received
          registered,  \* the gateway has the Register frame of the connection
          old,         \* the earlier connections that still hold frames
          cuts,        \* how many messages had left the queue as each connection
                       \* was made; only the properties read it
          delivered    \* the messages the gateway has received

vars == <<at, told, delay, outbound, enqueued, flight, wire, registered, old,
          cuts, delivered>>

Msgs == 1..MaxMessages

\* 0 stands for the Register frame.
Register == 0
Frame == {Register} \cup Msgs

Connection == [wire : Seq(Frame) \ {<<>>}, registered : BOOLEAN]

TypeOK ==
    /\ at \in {"connect", "register", "loop", "send", "sleep", "stopped"}
    /\ told \in BOOLEAN
    /\ delay \in InitialReconnectDelay..MaxReconnectDelay
    /\ outbound \in Seq(Msgs) /\ Len(outbound) <= OutboundCapacity
    /\ enqueued \in 0..MaxMessages /\ Len(outbound) <= enqueued
    /\ flight \in {0} \cup Msgs
    /\ wire \in Seq(Frame)
    /\ registered \in BOOLEAN
    /\ old \subseteq Connection
    /\ cuts \subseteq 0..MaxMessages
    /\ delivered \in Seq(Msgs)

Init ==
    /\ at = "connect"
    /\ told = FALSE
    /\ delay = InitialReconnectDelay
    /\ outbound = <<>>
    /\ enqueued = 0
    /\ flight = 0
    /\ wire = <<>>
    /\ registered = FALSE
    /\ old = {}
    /\ cuts = {}
    /\ delivered = <<>>

network == <<wire, registered, old, cuts, delivered>>
callers == <<told, outbound, enqueued>>

-----------------------------------------------------------------------------
(* Callers.                                                                *)

\* CloudGatewayHandle::send waits for room; a stopped task gives an error.
Send ==
    /\ enqueued < MaxMessages
    /\ at # "stopped" /\ Len(outbound) < OutboundCapacity
    /\ enqueued' = enqueued + 1
    /\ outbound' = Append(outbound, enqueued + 1)
    /\ UNCHANGED <<at, told, delay, flight, network>>

\* The holder drops the shutdown sender, or sends on it.
Tell ==
    /\ ~told
    /\ told' = TRUE
    /\ UNCHANGED <<at, delay, outbound, enqueued, flight, network>>

-----------------------------------------------------------------------------
(* The task.                                                               *)

\* Both select!s watch the shutdown channel.
Shutdown ==
    /\ at \in {"connect", "loop"}
    /\ told
    /\ at' = "stopped"
    /\ UNCHANGED <<callers, delay, flight, network>>

ConnectFails ==
    /\ at = "connect"
    /\ at' = "sleep"
    /\ UNCHANGED <<callers, delay, flight, network>>

\* A connection with these frames, if there are any.
Holding(w, r) == IF w = <<>> THEN {} ELSE {[wire |-> w, registered |-> r]}

\* How many messages have left the queue.
Taken == enqueued - Len(outbound)

\* A new connection.  The old one keeps what has not arrived yet.
ConnectSucceeds ==
    /\ at = "connect"
    /\ at' = "register"
    /\ delay' = InitialReconnectDelay
    /\ wire' = <<>> /\ registered' = FALSE
    /\ old' = old \cup Holding(wire, registered)
    /\ cuts' = cuts \cup {Taken}
    /\ UNCHANGED <<callers, flight, delivered>>

RegisterSent ==
    /\ at = "register"
    /\ at' = "loop"
    /\ wire' = Append(wire, Register)
    /\ UNCHANGED <<callers, delay, flight, registered, old, cuts, delivered>>

\* A failed send or serialisation: continue 'reconnect, at once.
RegisterFailsLoop == at' = "loop"
RegisterFailsNext == at' = "connect"
RegisterFails ==
    /\ at = "register"
    /\ RegisterFailsNext
    /\ UNCHANGED <<callers, delay, flight, network>>

\* outbound_rx.recv() is ready.
ReadyOnceRegistered == outbound # <<>> /\ registered
Ready == outbound # <<>>

TakeMessage ==
    /\ at = "loop" /\ Ready
    /\ at' = "send" /\ flight' = Head(outbound)
    /\ outbound' = Tail(outbound)
    /\ UNCHANGED <<told, enqueued, delay, network>>

\* A message that cannot be serialised is dropped, and the loop goes on.
SerialiseFails ==
    /\ at = "loop" /\ Ready
    /\ outbound' = Tail(outbound)
    /\ UNCHANGED <<at, told, enqueued, delay, flight, network>>

MessageSent ==
    /\ at = "send"
    /\ at' = "loop" /\ flight' = 0
    /\ wire' = Append(wire, flight)
    /\ UNCHANGED <<callers, delay, registered, old, cuts, delivered>>

\* The message is dropped.  It may still have reached the connection.
Requeued == outbound' = IF Len(outbound) < OutboundCapacity
                        THEN Append(outbound, flight) ELSE outbound
Dropped == UNCHANGED outbound
MessageFails ==
    /\ at = "send"
    /\ at' = "sleep" /\ flight' = 0
    /\ wire' \in {wire, Append(wire, flight)}
    /\ Dropped
    /\ UNCHANGED <<told, enqueued, delay, registered, old, cuts, delivered>>

\* A Close frame, the end of the stream or an error.
ConnectionLost ==
    /\ at = "loop"
    /\ at' = "sleep"
    /\ UNCHANGED <<callers, delay, flight, network>>

\* (delay * 2).min(MAX_RECONNECT_DELAY)
Doubled(d) == IF 2 * d <= MaxReconnectDelay THEN 2 * d ELSE MaxReconnectDelay

\* The sleep after a failure, which shutdown does not interrupt, is over.
GiveUp == "stopped"
SleepNext == "connect"
SleepOver ==
    /\ at = "sleep"
    /\ at' = SleepNext
    /\ delay' = Doubled(delay)
    /\ UNCHANGED <<callers, flight, network>>

-----------------------------------------------------------------------------
(* The gateway.                                                            *)

With(f) == IF f = Register THEN delivered ELSE Append(delivered, f)

Receive ==
    /\ wire # <<>>
    /\ wire' = Tail(wire)
    /\ registered' = (registered \/ Head(wire) = Register)
    /\ delivered' = With(Head(wire))
    /\ UNCHANGED <<callers, at, delay, flight, old, cuts>>

\* A frame of an earlier connection arrives late.
ReceiveLate(c) ==
    /\ old' = (old \ {c}) \cup Holding(Tail(c.wire),
                                      c.registered \/ Head(c.wire) = Register)
    /\ delivered' = With(Head(c.wire))
    /\ UNCHANGED <<callers, at, delay, flight, wire, registered, cuts>>

Next ==
    \/ Send \/ Tell
    \/ Shutdown
    \/ ConnectFails \/ ConnectSucceeds
    \/ RegisterSent \/ RegisterFails
    \/ TakeMessage \/ SerialiseFails \/ MessageSent \/ MessageFails
    \/ ConnectionLost
    \/ SleepOver
    \/ Receive
    \/ \E c \in old : ReceiveLate(c)

Spec == Init /\ [][Next]_vars

\* Sleeps end and network calls return.  select! starts polling at a random
\* branch, so a channel that is ready time and again is eventually served; the
\* gateway is not unreachable for ever.  Nothing has to arrive there.
Fairness ==
    /\ WF_vars(ConnectFails \/ ConnectSucceeds)
    /\ WF_vars(RegisterSent \/ RegisterFails)
    /\ WF_vars(MessageSent \/ MessageFails)
    /\ WF_vars(SleepOver)
    /\ SF_vars(Shutdown)
    /\ SF_vars(ConnectSucceeds) /\ SF_vars(RegisterSent)
    /\ SF_vars(TakeMessage \/ SerialiseFails)

FairSpec == Spec /\ Fairness

-----------------------------------------------------------------------------
(* Properties.                                                             *)

\* The gateway receives a message only over a connection whose Register frame
\* it has ("after the Register frame is sent"), whichever connections broke
\* before and however late their frames arrive.
Connections == old \cup Holding(wire, registered)
RegisterFirst ==
    [][delivered' # delivered =>
         \E c \in Connections : c.registered /\ delivered' = With(Head(c.wire))]_vars

\* The gateway receives no message twice, over any number of reconnects, and
\* one before an earlier one only if a connection was made between the two: the
\* earlier one was left behind on a connection that the task had given up.
Apart(x, y) == \E c \in cuts : x <= c /\ c < y
InOrderAtMostOnce ==
    \A i, j \in DOMAIN delivered :
       i < j => delivered[i] < delivered[j] \/ Apart(delivered[j], delivered[i])

\* The queue drains: a message leaves it unless the task is told to stop.
QueueDrains ==
    \A m \in Msgs : (\E i \in DOMAIN outbound : outbound[i] = m)
                    ~> (told \/ \A i \in DOMAIN outbound : outbound[i] # m)

\* spawn_connection_task implements ConnectionTask: it persists while the
\* sender is kept, and stops once it is told to, whatever the network does.
Status == IF at = "stopped" THEN "stopped" ELSE IF told THEN "told" ELSE "open"
Abstract == INSTANCE ConnectionTask WITH status <- Status
ImplementsConnectionTask == Abstract!Spec
=============================================================================
