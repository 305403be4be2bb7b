--------------------------- MODULE BeaconRegistry ---------------------------
(***************************************************************************)
(* The beacon message loop (App::run_beacon_message_loop) and the registry *)
(* it owns (BeaconRegistry), together with everything that runs beside     *)
(* them: handshake handlers that queue topic channels, beacons whose MQTT  *)
(* messages arrive on the inbound queue, the broadcast loop that holds the *)
(* read lock of broadcast_topics, and the gateway connection tasks that    *)
(* live as long as somebody keeps their shutdown sender.                   *)
(*                                                                         *)
(* The loop is one task.  Its select! polls three branches; when one is    *)
(* ready the other futures are DROPPED.  recv() loses nothing when it is   *)
(* dropped, but check_timeouts() has side effects between its awaits, so   *)
(* the sweep is modelled await by await and is cancelled whenever another  *)
(* branch wins while it is suspended.  register_channel runs inside the    *)
(* chosen branch and cannot be cancelled.                                  *)
(*                                                                         *)
(* Time is relative: a record carries its age (now - last_seen), saturated *)
(* one past BeaconTimeout, and the interval its remaining delay, so no     *)
(* clock has to be bounded.                                                *)
(***************************************************************************)
EXTENDS Naturals, Sequences

CONSTANTS
    Beacons,          \* beacon ids: each handshake draws a fresh one
    Registration,     \* the fixed topics subscribed at start-up
    Gateways,         \* gateway URLs that beacons advertise
    Own,              \* this node's own gateway URL, or None
    Links,            \* identities of gateway connection tasks (bound)
    None,             \* Option::None
    BeaconTimeout,    \* BEACON_TIMEOUT
    CheckInterval,    \* BEACON_TIMEOUT_CHECK_INTERVAL
    TopicCapacity,    \* capacity of the handshake -> loop channel
    InboundCapacity,  \* capacity of the MQTT -> loop channel
    Broadcasting      \* whether the broadcast loop has cycles (bound)

ASSUME NoneAssumption ==
    None \notin Beacons \cup Gateways \cup Links
ASSUME RegistrationAssumption ==
    Registration \notin Beacons \cup {None}
ASSUME OwnAssumption ==
    Own \in Gateways \cup {None}
ASSUME BoundAssumption ==
    /\ BeaconTimeout \in Nat
    /\ CheckInterval \in Nat \ {0}
    /\ TopicCapacity \in Nat \ {0}
    /\ InboundCapacity \in Nat \ {0}
    /\ Broadcasting \in BOOLEAN

VARIABLES
    records,           \* registry.records, None where no record exists
    known_gateways,    \* registry.known_gateways
    broadcast_topics,  \* how often "<b>/cast" is in the shared list
    subscribed,        \* the topics the broker delivers to this node
    links,             \* the gateway connection tasks that are alive
    loop,              \* where the message loop is
    sweep,             \* the check_timeouts future
    tick_in,           \* time until timeout_tick is due
    reading,           \* the broadcast loop holds the read lock
    topic_queue,       \* beacon_topic_rx
    inbound,           \* beacon_inbound_rx
    shaking            \* handshakes between their two try_send calls

registry == <<records, known_gateways, links>>
task     == <<loop, sweep, tick_in>>
shared   == <<broadcast_topics, reading>>
queues   == <<topic_queue, inbound, shaking>>
vars     == <<registry, task, shared, queues, subscribed>>

-----------------------------------------------------------------------------
(* The shapes of the state.                                                *)

\* BeaconRecord: the topics are recorded as set or empty.  gateway_url and
\* gateway_shutdown_tx are always written together; the sender is named by
\* the connection task at its other end.
BeaconRecord ==
    [listen_topic: BOOLEAN, broadcast_topic: BOOLEAN,
     age: 0..(BeaconTimeout + 1),
     gateway_url: Gateways \cup {None},
     gateway_shutdown_tx: Links \cup {None}]

NewRecord ==
    [listen_topic |-> FALSE, broadcast_topic |-> FALSE, age |-> 0,
     gateway_url |-> None, gateway_shutdown_tx |-> None]

\* A connection task and whether its shutdown sender has been dropped.
LinkTask == [url: Gateways, told: BOOLEAN]

ASSUME NoneIsNoRecord == None \notin BeaconRecord \cup LinkTask

\* TopicChannel.  Handshakes build Listen and Broadcast channels; nothing in
\* the program builds a Hybrid one.
TopicChannel == [beacon: Beacons, topic_type: {"Listen", "Broadcast"}]

Message == [from: Beacons \cup {Registration},
            gateway_url: Gateways \cup {None}]

\* The sweep is "idle" while it waits for the tick, "unsub" while it awaits
\* the unsubscribe reply and "lock" while it is queued for the write lock:
\* the points at which it can be dropped.  "take", "retain" and "evict" run
\* without an await.
Sweep ==
         [at: {"idle", "take"},
          todo: SUBSET Beacons, cur: {None}, record: {None}]
    \cup [at: {"unsub", "retain", "lock", "evict"},
          todo: SUBSET Beacons, cur: Beacons, record: BeaconRecord]

\* The loop is at its select! or inside register_channel for a beacon.
Loop == [at: {"select"}, beacon: {None}]
        \cup [at: {"subscribe", "push"}, beacon: Beacons]

IdleSweep == [at |-> "idle", todo |-> {}, cur |-> None, record |-> None]

TypeOK ==
    /\ records \in [Beacons -> BeaconRecord \cup {None}]
    /\ known_gateways \subseteq Gateways
    /\ broadcast_topics \in [Beacons -> Nat]
    /\ subscribed \subseteq Beacons \cup {Registration}
    /\ links \in [Links -> LinkTask \cup {None}]
    /\ loop \in Loop
    /\ sweep \in Sweep
    /\ tick_in \in 0..CheckInterval
    /\ reading \in BOOLEAN
    /\ topic_queue \in Seq(TopicChannel)
    /\ inbound \in Seq(Message)
    /\ shaking \subseteq Beacons
    /\ Len(topic_queue) <= TopicCapacity /\ Len(inbound) <= InboundCapacity

\* BeaconRegistry::new: the own gateway URL, if there is one, is pre-seeded.
SeedNothing == {}
SeedGateways == {Own} \ {None}

Init ==
    /\ records = [b \in Beacons |-> None]
    /\ known_gateways = SeedGateways
    /\ broadcast_topics = [b \in Beacons |-> 0]
    /\ subscribed = {Registration}
    /\ links = [l \in Links |-> None]
    /\ loop = [at |-> "select", beacon |-> None]
    /\ sweep = IdleSweep
    /\ tick_in = 0
    /\ reading = FALSE
    /\ topic_queue = <<>>
    /\ inbound = <<>>
    /\ shaking = {}

-----------------------------------------------------------------------------
(* Device handshakes: the part of handle_device_init that reaches the      *)
(* loop.  A beacon id is a fresh UUID, so an identifier may be reused as   *)
(* soon as nothing in the system mentions it.                              *)

Fresh(b) ==
    /\ records[b] = None
    /\ broadcast_topics[b] = 0
    /\ b \notin subscribed \cup shaking
    /\ sweep.cur # b
    /\ loop.beacon # b
    /\ \A i \in DOMAIN topic_queue : topic_queue[i].beacon # b
    /\ \A i \in DOMAIN inbound : inbound[i].from # b

\* try_send: a full channel loses the TopicChannel with a warning.
TrySend(channel) ==
    topic_queue' = IF Len(topic_queue) < TopicCapacity
                   THEN Append(topic_queue, channel)
                   ELSE topic_queue

HandshakeListen(b) ==
    /\ Fresh(b)
    /\ TrySend([beacon |-> b, topic_type |-> "Listen"])
    /\ shaking' = shaking \cup {b}
    /\ UNCHANGED <<registry, task, shared, subscribed, inbound>>

HandshakeBroadcast(b) ==
    /\ b \in shaking
    /\ TrySend([beacon |-> b, topic_type |-> "Broadcast"])
    /\ shaking' = shaking \ {b}
    /\ UNCHANGED <<registry, task, shared, subscribed, inbound>>

-----------------------------------------------------------------------------
(* The select! of the message loop.                                        *)

\* The loop is at its select! and the sweep, if it has begun, is suspended.
Selecting == loop.at = "select" /\ sweep.at \in {"idle", "unsub", "lock"}

\* Dropping a shutdown sender tells the task at its other end to stop.
DropSenders(senders) ==
    [l \in Links |-> IF l \in senders /\ links[l] # None
                     THEN [links[l] EXCEPT !.told = TRUE] ELSE links[l]]

\* The sender in the record that the sweep has taken out of the registry.
SweptForgotten == {}
SweptSender ==
    IF sweep.record = None THEN {} ELSE {sweep.record.gateway_shutdown_tx}

\* Another branch of the select! won.  If the unsubscribe command had reached
\* the command channel it is still carried out, otherwise it never will be.
CancelSweep ==
    /\ sweep' = IdleSweep
    /\ subscribed' \in {subscribed} \cup
                       (IF sweep.at = "unsub"
                        THEN {subscribed \ {sweep.cur}} ELSE {})

\* records.entry(beacon_id).or_insert_with(...)
EnsureListedRecord(b) ==
    IF records[b] = None THEN [NewRecord EXCEPT !.broadcast_topic = TRUE]
    ELSE records[b]
EnsureRecord(b) ==
    IF records[b] = None THEN NewRecord ELSE records[b]

\* The beacon_topic_rx branch won with a channel of this type.
TakeChannel(type) ==
    /\ Selecting
    /\ topic_queue # <<>> /\ Head(topic_queue).topic_type = type
    /\ topic_queue' = Tail(topic_queue)
    /\ CancelSweep
    /\ links' = DropSenders(SweptSender)
    /\ UNCHANGED <<known_gateways, tick_in, reading, inbound, shaking>>

TakeListen ==
    /\ TakeChannel("Listen")
    /\ LET b == Head(topic_queue).beacon
       IN  /\ records' = [records EXCEPT ![b] = EnsureRecord(b)]
           /\ loop' = [at |-> "subscribe", beacon |-> b]
    /\ UNCHANGED broadcast_topics

\* The reply of mqtt_handle.subscribe: listen_topic is set only on success.
SubscribeReply(ok) ==
    /\ loop.at = "subscribe"
    /\ IF ok
       THEN /\ subscribed' = subscribed \cup {loop.beacon}
            /\ records' = [records EXCEPT ![loop.beacon] =
                             IF @ = None THEN None
                             ELSE [@ EXCEPT !.listen_topic = TRUE]]
       ELSE UNCHANGED <<subscribed, records>>
    /\ loop' = [at |-> "select", beacon |-> None]
    /\ UNCHANGED <<shared, queues, known_gateways, links, sweep, tick_in>>

\* broadcast_topics.push
PushNothing(b) == broadcast_topics
Pushed(b) == [broadcast_topics EXCEPT ![b] = @ + 1]

\* A broadcast channel needs the write lock.  It is free ...
TakeBroadcast ==
    /\ TakeChannel("Broadcast") /\ ~reading
    /\ LET b == Head(topic_queue).beacon
       IN  /\ records' = [records EXCEPT ![b] =
                            [EnsureRecord(b) EXCEPT !.broadcast_topic = TRUE]]
           /\ broadcast_topics' = Pushed(b)
    /\ UNCHANGED loop

\* ... or the broadcast loop holds its read lock, and the loop queues for it.
TakeBroadcastBlocked ==
    /\ TakeChannel("Broadcast") /\ reading
    /\ LET b == Head(topic_queue).beacon
       IN  /\ records' = [records EXCEPT ![b] = EnsureRecord(b)]
           /\ loop' = [at |-> "push", beacon |-> b]
    /\ UNCHANGED broadcast_topics

PushTopic ==
    /\ loop.at = "push" /\ ~reading
    /\ broadcast_topics' = Pushed(loop.beacon)
    /\ records' = [records EXCEPT ![loop.beacon] =
                     IF @ = None THEN None
                     ELSE [@ EXCEPT !.broadcast_topic = TRUE]]
    /\ loop' = [at |-> "select", beacon |-> None]
    /\ UNCHANGED <<queues, known_gateways, subscribed, links, sweep, tick_in,
                   reading>>

\* update_last_seen for the topic "<b>/rec"; other topics name no beacon.
SeenRecords(from) ==
    [b \in Beacons |-> IF b = from /\ records[b] # None
                       THEN [records[b] EXCEPT !.age = 0] ELSE records[b]]

\* A message without a gateway URL, or with one that is already known.
OnMessageKnown ==
    /\ Selecting
    /\ inbound # <<>>
    /\ Head(inbound).gateway_url \in known_gateways \cup {None}
    /\ inbound' = Tail(inbound)
    /\ records' = SeenRecords(Head(inbound).from)
    /\ CancelSweep
    /\ links' = DropSenders(SweptSender)
    /\ UNCHANGED <<shared, known_gateways, loop, tick_in, topic_queue,
                   shaking>>

\* insert_gateway
InsertNothing(url) == known_gateways' = known_gateways
InsertGateway(url) == known_gateways' = known_gateways \cup {url}

\* A message that advertises an unknown gateway: connect_to_gateway spawns
\* the task l, and associate_gateway stores its sender in the sender's record,
\* replacing (so dropping) the one that was there.  Without a record for the
\* topic the new sender itself is dropped.
OnMessageNewGateway(l) ==
    LET from  == Head(inbound).from
        url   == Head(inbound).gateway_url
        owned == from \in Beacons /\ records[from] # None
        old   == IF owned THEN {records[from].gateway_shutdown_tx} ELSE {}
    IN  /\ Selecting
        /\ inbound # <<>>
        /\ url \notin known_gateways \cup {None}
        /\ links[l] = None
        /\ inbound' = Tail(inbound)
        /\ InsertGateway(url)
        /\ records' = IF owned
                      THEN [SeenRecords(from) EXCEPT
                              ![from].gateway_url = url,
                              ![from].gateway_shutdown_tx = l]
                      ELSE records
        /\ CancelSweep
        /\ links' = [DropSenders(SweptSender \cup old) EXCEPT
                       ![l] = [url |-> url, told |-> ~owned]]
        /\ UNCHANGED <<shared, loop, tick_in, topic_queue, shaking>>

-----------------------------------------------------------------------------
(* check_timeouts, await by await.                                         *)

StaleAtLeast ==
    {b \in Beacons : records[b] # None /\ records[b].age >= BeaconTimeout}
StaleSubscribed ==
    {b \in Beacons : /\ records[b] # None /\ records[b].listen_topic
                     /\ records[b].age > BeaconTimeout}

Stale == {b \in Beacons : records[b] # None /\ records[b].age > BeaconTimeout}

SweepTick ==
    /\ loop.at = "select" /\ sweep.at = "idle"
    /\ tick_in = 0
    /\ tick_in' = CheckInterval
    /\ sweep' = IF Stale = {} THEN IdleSweep
                ELSE [IdleSweep EXCEPT !.at = "take", !.todo = Stale]
    /\ UNCHANGED <<registry, shared, queues, subscribed, loop>>

\* records.remove(&beacon_id), then on to the first await that applies.
SweepTake(b) ==
    /\ sweep.at = "take" /\ b \in sweep.todo /\ records[b] # None
    /\ records' = [records EXCEPT ![b] = None]
    /\ sweep' = [at |-> IF records[b].listen_topic THEN "unsub"
                        ELSE IF records[b].broadcast_topic THEN "retain"
                        ELSE "evict",
                 todo |-> sweep.todo \ {b}, cur |-> b, record |-> records[b]]
    /\ UNCHANGED <<shared, queues, known_gateways, subscribed, links, loop,
                   tick_in>>

\* The reply of mqtt_handle.unsubscribe; an error is only logged.
SweepUnsubscribed(ok) ==
    /\ loop.at = "select" /\ sweep.at = "unsub"
    /\ subscribed' = IF ok THEN subscribed \ {sweep.cur} ELSE subscribed
    /\ sweep' = [sweep EXCEPT !.at = IF sweep.record.broadcast_topic
                                     THEN "retain" ELSE "evict"]
    /\ UNCHANGED <<registry, shared, queues, loop, tick_in>>

\* broadcast_topics.write().await has to wait for the broadcast loop ...
SweepBlocked ==
    /\ sweep.at = "retain" /\ reading
    /\ sweep' = [sweep EXCEPT !.at = "lock"]
    /\ UNCHANGED <<registry, shared, queues, subscribed, loop, tick_in>>

\* ... or gets the lock, and retain() removes every copy of the topic.
SweepRetain ==
    /\ loop.at = "select" /\ sweep.at \in {"retain", "lock"} /\ ~reading
    /\ broadcast_topics' = [broadcast_topics EXCEPT ![sweep.cur] = 0]
    /\ sweep' = [sweep EXCEPT !.at = "evict"]
    /\ UNCHANGED <<registry, queues, subscribed, loop, tick_in, reading>>

\* The gateway URL is forgotten and the record goes out of scope.
SweepEvict ==
    /\ sweep.at = "evict"
    /\ known_gateways' = known_gateways \ {sweep.record.gateway_url}
    /\ links' = DropSenders(SweptSender)
    /\ sweep' = IF sweep.todo = {} THEN IdleSweep
                ELSE [IdleSweep EXCEPT !.at = "take", !.todo = sweep.todo]
    /\ UNCHANGED <<shared, queues, records, subscribed, loop, tick_in>>

-----------------------------------------------------------------------------
(* What runs beside the loop.                                              *)

\* The read lock is held while the broadcast loop publishes to every topic;
\* tokio's RwLock lets no reader pass a writer that is already queued.
BroadcastLock ==
    /\ Broadcasting /\ ~reading
    /\ loop.at # "push" /\ sweep.at # "lock"
    /\ reading' = TRUE
    /\ UNCHANGED <<registry, task, queues, broadcast_topics, subscribed>>

BroadcastUnlock ==
    /\ reading
    /\ reading' = FALSE
    /\ UNCHANGED <<registry, task, queues, broadcast_topics, subscribed>>

\* The MQTT event loop forwards a publish; msg_tx.send waits for room.
Deliver(from, url) ==
    /\ from \in subscribed
    /\ Len(inbound) < InboundCapacity
    /\ inbound' = Append(inbound, [from |-> from, gateway_url |-> url])
    /\ UNCHANGED <<registry, task, shared, subscribed, topic_queue, shaking>>

\* The MQTT connection was lost and made again: the session is clean and
\* only the first ConnAck leads to subscriptions.
BrokerReconnect ==
    /\ subscribed # {}
    /\ subscribed' = {}
    /\ UNCHANGED <<registry, task, shared, queues>>

\* A connection task that was told to stop ends.
LinkStop(l) ==
    /\ links[l] # None /\ links[l].told
    /\ links' = [links EXCEPT ![l] = None]
    /\ UNCHANGED <<task, shared, queues, records, known_gateways,
                   subscribed>>

\* Time passes: every record ages and the interval comes closer.
Tick ==
    /\ records' = [b \in Beacons |->
                     IF records[b] = None \/ records[b].age > BeaconTimeout
                     THEN records[b]
                     ELSE [records[b] EXCEPT !.age = @ + 1]]
    /\ tick_in' = IF tick_in = 0 THEN 0 ELSE tick_in - 1
    /\ UNCHANGED <<shared, queues, known_gateways, subscribed, links, loop,
                   sweep>>

-----------------------------------------------------------------------------

Next ==
    \/ \E b \in Beacons : HandshakeListen(b) \/ HandshakeBroadcast(b)
    \/ TakeListen
    \/ \E ok \in BOOLEAN : SubscribeReply(ok)
    \/ TakeBroadcast
    \/ TakeBroadcastBlocked
    \/ PushTopic
    \/ OnMessageKnown
    \/ \E l \in Links : OnMessageNewGateway(l)
    \/ SweepTick
    \/ \E b \in Beacons : SweepTake(b)
    \/ \E ok \in BOOLEAN : SweepUnsubscribed(ok)
    \/ SweepBlocked
    \/ SweepRetain
    \/ SweepEvict
    \/ BroadcastLock
    \/ BroadcastUnlock
    \/ \E from \in Beacons \cup {Registration}, url \in Gateways \cup {None} :
         Deliver(from, url)
    \/ BrokerReconnect
    \/ \E l \in Links : LinkStop(l)
    \/ Tick

Spec == Init /\ [][Next]_vars

\* The loop goes on behind an await, in register_channel or check_timeouts.
Proceed ==
    \/ \E ok \in BOOLEAN : SubscribeReply(ok) \/ SweepUnsubscribed(ok)
    \/ PushTopic
    \/ \E b \in Beacons : SweepTake(b)
    \/ SweepBlocked \/ SweepRetain \/ SweepEvict

\* Time passes and every await of the loop is eventually answered: the MQTT
\* command task replies and the broadcast loop ends its cycle.  select! starts
\* polling at a random branch, so a branch that is ready again and again is
\* eventually chosen (strong fairness); the order of a sweep depends on the
\* hash of fresh ids, so no beacon is always behind the one at which the sweep
\* is cancelled.
Fairness ==
    /\ WF_vars(Tick)
    /\ WF_vars(Proceed)
    /\ WF_vars(BroadcastUnlock)
    /\ SF_vars(SweepTick)
    /\ \A b \in Beacons : SF_vars(SweepTake(b))
    /\ SF_vars(TakeListen \/ TakeBroadcast \/ TakeBroadcastBlocked)

FairSpec == Spec /\ Fairness

-----------------------------------------------------------------------------
(* Properties.                                                             *)

Registered(b) == records[b] # None

\* A connection task that nobody has told to stop.
Open(l) == links[l] # None /\ ~links[l].told

\* The senders kept in the registry and in the record being swept.
RecordHolds(b, l) == Registered(b) /\ records[b].gateway_shutdown_tx = l
SweepHolds(l) ==
    sweep.record # None /\ sweep.record.gateway_shutdown_tx = l

\* The node's own gateway stays in known_gateways and is never dialled, even
\* after beacons that advertised it have timed out (new, check_timeouts).
OwnGatewayNeverDialled ==
    Own # None => /\ Own \in known_gateways
                  /\ \A l \in Links : links[l] # None => links[l].url # Own

\* "Prevents duplicate connections": however messages, timeouts and cancelled
\* sweeps interleave, two connection tasks that are both meant to persist
\* never serve the same gateway URL.
OneOpenLinkPerGateway ==
    \A l1, l2 \in Links :
      Open(l1) /\ Open(l2) /\ l1 # l2 => links[l1].url # links[l2].url

\* associate_gateway "so that timeout cleanup can tear down the connection":
\* every connection meant to persist has exactly one holder, a registered
\* beacon or the sweep that is deregistering it.  None is leaked.
OpenLinkHasOneHolder ==
    \A l \in Links : Open(l) =>
      \/ SweepHolds(l) /\ \A b \in Beacons : ~RecordHolds(b, l)
      \/ /\ ~SweepHolds(l)
         /\ \E b \in Beacons : /\ RecordHolds(b, l)
                               /\ \A c \in Beacons : RecordHolds(c, l) => c = b

\* A registered beacon whose broadcast topic is recorded is in the shared
\* list, and no topic is listed twice: each cycle publishes to it once.
RegisteredTopicListedOnce ==
    \A b \in Beacons :
      /\ broadcast_topics[b] <= 1
      /\ Registered(b) /\ records[b].broadcast_topic => broadcast_topics[b] = 1

\* A beacon is deregistered only when more than BEACON_TIMEOUT has passed
\* since the loop last handled one of its messages, although the stale list
\* is computed before the awaits of the sweep.
OnlyStaleDeregistered ==
    [][\A b \in Beacons : Registered(b) /\ ~Registered(b)'
                          => records[b].age > BeaconTimeout]_vars

\* A beacon that has fallen silent is deregistered, or heard from again,
\* however often its sweep is cancelled.
StaleIsSwept ==
    \A b \in Beacons :
      LET Silent == Registered(b) /\ records[b].age > BeaconTimeout
      IN  Silent ~> ~Silent

\* A broadcast channel that reached the queue ends up in the shared list,
\* although the loop may have to wait for the broadcast loop's lock.
QueuedBroadcastListed ==
    \A b \in Beacons :
      (\E i \in DOMAIN topic_queue :
          topic_queue[i] = [beacon |-> b, topic_type |-> "Broadcast"])
        ~> broadcast_topics[b] > 0

\* The comment on check_timeouts: for each stale entry it "Removes its
\* broadcast topic from the shared list".  A listed topic belongs to a beacon
\* that is registered or is just being deregistered.
ListedTopicRegistered ==
    \A b \in Beacons :
      broadcast_topics[b] > 0 => Registered(b) \/ sweep.cur = b
=============================================================================
