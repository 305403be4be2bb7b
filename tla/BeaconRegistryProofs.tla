------------------------ MODULE BeaconRegistryProofs ------------------------
(***************************************************************************)
(* Proofs about BeaconRegistry, for every set of beacons, gateways and     *)
(* connection tasks and every timeout and capacity.                        *)
(***************************************************************************)
EXTENDS BeaconRegistry, SequenceTheorems, TLAPS

-----------------------------------------------------------------------------
(* Type correctness.                                                       *)

\* What the select! branches read from the heads of the two channels, and
\* what they leave there, is well typed.
LEMMA QueueTypes ==
  ASSUME TypeOK
  PROVE  /\ topic_queue # <<>> =>
              /\ Head(topic_queue) \in TopicChannel
              /\ Tail(topic_queue) \in Seq(TopicChannel)
              /\ Len(Tail(topic_queue)) <= TopicCapacity
         /\ inbound # <<>> =>
              /\ Head(inbound) \in Message
              /\ Tail(inbound) \in Seq(Message)
              /\ Len(Tail(inbound)) <= InboundCapacity
<1> USE BoundAssumption
<1>1. ASSUME topic_queue # <<>>
      PROVE  /\ Head(topic_queue) \in TopicChannel
             /\ Tail(topic_queue) \in Seq(TopicChannel)
             /\ Len(Tail(topic_queue)) <= TopicCapacity
  BY <1>1, HeadTailProperties DEF TypeOK
<1>2. ASSUME inbound # <<>>
      PROVE  /\ Head(inbound) \in Message
             /\ Tail(inbound) \in Seq(Message)
             /\ Len(Tail(inbound)) <= InboundCapacity
  BY <1>2, HeadTailProperties DEF TypeOK
<1> QED BY <1>1, <1>2

\* Queueing a channel keeps the queue typed and within its capacity.
LEMMA TrySendTypes ==
  ASSUME TypeOK, NEW channel \in TopicChannel, TrySend(channel)
  PROVE  topic_queue' \in Seq(TopicChannel) /\ Len(topic_queue') <= TopicCapacity
<1>1. CASE Len(topic_queue) < TopicCapacity
  BY <1>1, AppendProperties, BoundAssumption DEF TypeOK, TrySend
<1>2. CASE ~(Len(topic_queue) < TopicCapacity)
  BY <1>2 DEF TypeOK, TrySend
<1> QED BY <1>1, <1>2

\* Dropping senders changes only the told flag of live tasks.
LEMMA DropSendersType ==
  ASSUME links \in [Links -> LinkTask \cup {None}],
         NEW S
  PROVE  DropSenders(S) \in [Links -> LinkTask \cup {None}]
BY Zenon DEF DropSenders, LinkTask

\* The updates that the handlers make to a record keep it a record.
LEMMA RecordUpdates ==
  ASSUME NEW r \in BeaconRecord
  PROVE  /\ [r EXCEPT !.listen_topic = TRUE] \in BeaconRecord
         /\ [r EXCEPT !.broadcast_topic = TRUE] \in BeaconRecord
         /\ [r EXCEPT !.age = 0] \in BeaconRecord
         /\ r.age <= BeaconTimeout => [r EXCEPT !.age = @ + 1] \in BeaconRecord
         /\ r.age \in Nat
         /\ \A g \in Gateways, l \in Links :
              [r EXCEPT !.gateway_url = g, !.gateway_shutdown_tx = l]
                \in BeaconRecord
<1> USE BoundAssumption DEF BeaconRecord
<1>1. [r EXCEPT !.listen_topic = TRUE] \in BeaconRecord  BY Zenon
<1>2. [r EXCEPT !.broadcast_topic = TRUE] \in BeaconRecord  BY Zenon
<1>3. [r EXCEPT !.age = 0] \in BeaconRecord  OBVIOUS
<1>4. ASSUME r.age <= BeaconTimeout
      PROVE  [r EXCEPT !.age = @ + 1] \in BeaconRecord
  BY <1>4
<1>5. r.age \in Nat  OBVIOUS
<1>6. ASSUME NEW g \in Gateways, NEW l \in Links
      PROVE  [r EXCEPT !.gateway_url = g, !.gateway_shutdown_tx = l]
               \in BeaconRecord
  BY Zenon
<1> HIDE DEF BeaconRecord
<1> QED BY <1>1, <1>2, <1>3, <1>4, <1>5, <1>6, Zenon

\* The record that or_insert_with makes is a record.
LEMMA NewRecordType == NewRecord \in BeaconRecord
BY BoundAssumption DEF NewRecord, BeaconRecord

\* A fresh or existing record is a record.
LEMMA EnsureRecordType ==
  ASSUME TypeOK, NEW b \in Beacons
  PROVE  EnsureRecord(b) \in BeaconRecord
BY NewRecordType DEF TypeOK, EnsureRecord

\* A check_timeouts future that waits for its tick is well typed.
LEMMA IdleSweepType == IdleSweep \in Sweep
BY DEF IdleSweep, Sweep

\* The state after BeaconRegistry::new is well typed.
LEMMA TypeInit == Init => TypeOK
<1> SUFFICES ASSUME Init PROVE TypeOK
  OBVIOUS
<1>1. topic_queue \in Seq(TopicChannel) /\ inbound \in Seq(Message)
      /\ Len(topic_queue) <= TopicCapacity /\ Len(inbound) <= InboundCapacity
  BY BoundAssumption DEF Init
<1>2. sweep \in Sweep
  BY IdleSweepType DEF Init
<1>3. loop \in Loop
  BY DEF Init, Loop
<1>4. known_gateways \subseteq Gateways
  BY OwnAssumption DEF Init, SeedGateways
<1>5. /\ records \in [Beacons -> BeaconRecord \cup {None}]
      /\ broadcast_topics \in [Beacons -> Nat]
      /\ links \in [Links -> LinkTask \cup {None}]
      /\ tick_in \in 0..CheckInterval
  BY BoundAssumption DEF Init
<1>6. reading \in BOOLEAN
  BY Zenon DEF Init
<1> QED BY <1>1, <1>2, <1>3, <1>4, <1>5, <1>6 DEF Init, TypeOK

\* Every step of the loop, of its sweep and of what runs beside them keeps the
\* types: one case per action.
LEMMA TypeNext == TypeOK /\ [Next]_vars => TypeOK'
<1> SUFFICES ASSUME TypeOK, [Next]_vars PROVE TypeOK'
  OBVIOUS
<1> USE BoundAssumption, NoneAssumption, RegistrationAssumption
<1>1. ASSUME NEW b \in Beacons, HandshakeListen(b) PROVE TypeOK'
  BY <1>1, TrySendTypes, Zenon
     DEF HandshakeListen, TypeOK, TopicChannel, registry, task, shared
<1>2. ASSUME NEW b \in Beacons, HandshakeBroadcast(b) PROVE TypeOK'
  BY <1>2, TrySendTypes, Zenon
     DEF HandshakeBroadcast, TypeOK, TopicChannel, registry, task, shared
<1>3. ASSUME NEW type, TakeChannel(type)
      PROVE  /\ topic_queue' \in Seq(TopicChannel)
             /\ Len(topic_queue') <= TopicCapacity
             /\ Head(topic_queue).beacon \in Beacons
             /\ sweep' \in Sweep
             /\ subscribed' \subseteq Beacons \cup {Registration}
             /\ links' \in [Links -> LinkTask \cup {None}]
             /\ UNCHANGED <<known_gateways, tick_in, reading, inbound, shaking>>
  <2>1. links' \in [Links -> LinkTask \cup {None}]
    BY <1>3, DropSendersType DEF TakeChannel, TypeOK
  <2>2. sweep' \in Sweep /\ subscribed' \subseteq Beacons \cup {Registration}
    BY <1>3 DEF TakeChannel, CancelSweep, IdleSweep, Sweep, TypeOK
  <2> QED BY <1>3, <2>1, <2>2, QueueTypes DEF TakeChannel, TopicChannel
<1>4. CASE TakeListen
  BY <1>3, <1>4, EnsureRecordType DEF TakeListen, TypeOK, Loop
<1>5. ASSUME NEW ok \in BOOLEAN, SubscribeReply(ok) PROVE TypeOK'
  <2>1. loop.beacon \in Beacons /\ loop' \in Loop
    BY <1>5 DEF SubscribeReply, TypeOK, Loop
  <2>2. records' \in [Beacons -> BeaconRecord \cup {None}]
    <3>1. CASE ok
      <4>1. records' = [records EXCEPT ![loop.beacon] =
                          IF @ = None THEN None
                          ELSE [@ EXCEPT !.listen_topic = TRUE]]
        BY <1>5, <3>1, Zenon DEF SubscribeReply
      <4> QED BY <2>1, <4>1, RecordUpdates, Zenon DEF TypeOK
    <3>2. CASE ~ok
      BY <1>5, <3>2 DEF SubscribeReply, TypeOK
    <3> QED BY <3>1, <3>2
  <2> QED BY <1>5, <2>1, <2>2 DEF SubscribeReply, TypeOK, shared, queues
<1>6. CASE TakeBroadcast
  <2>1. records' \in [Beacons -> BeaconRecord \cup {None}]
    BY <1>3, <1>6, EnsureRecordType, RecordUpdates, Zenon DEF TakeBroadcast, TypeOK
  <2> QED BY <1>3, <1>6, <2>1 DEF TakeBroadcast, TypeOK, Pushed
<1>7. CASE TakeBroadcastBlocked
  BY <1>3, <1>7, EnsureRecordType, Zenon DEF TakeBroadcastBlocked, TypeOK, Loop
<1>8. CASE PushTopic
  <2>1. loop.beacon \in Beacons /\ loop' \in Loop
    BY <1>8 DEF PushTopic, TypeOK, Loop
  <2>2. records' \in [Beacons -> BeaconRecord \cup {None}]
    BY <1>8, <2>1, RecordUpdates DEF PushTopic, TypeOK
  <2> QED BY <1>8, <2>1, <2>2 DEF PushTopic, TypeOK, Pushed, queues
<1>9. ASSUME NEW from
      PROVE  SeenRecords(from) \in [Beacons -> BeaconRecord \cup {None}]
  BY RecordUpdates, Zenon DEF SeenRecords, TypeOK
<1>10. ASSUME CancelSweep
       PROVE  /\ sweep' \in Sweep
              /\ subscribed' \subseteq Beacons \cup {Registration}
  BY <1>10 DEF CancelSweep, IdleSweep, Sweep, TypeOK
<1>11. CASE OnMessageKnown
  BY <1>9, <1>10, <1>11, QueueTypes, DropSendersType
     DEF OnMessageKnown, TypeOK, shared
<1>12. ASSUME NEW l \in Links, OnMessageNewGateway(l) PROVE TypeOK'
  <2> DEFINE from  == Head(inbound).from
             url   == Head(inbound).gateway_url
             owned == from \in Beacons /\ records[from] # None
             old   == IF owned THEN {records[from].gateway_shutdown_tx} ELSE {}
  <2>1. url \in Gateways
    BY <1>12, QueueTypes DEF OnMessageNewGateway, Message
  <2>2. links' \in [Links -> LinkTask \cup {None}]
    <3>1. DropSenders(SweptSender \cup old) \in [Links -> LinkTask \cup {None}]
      BY DropSendersType DEF TypeOK
    <3>2. [url |-> url, told |-> ~owned] \in LinkTask
      BY <2>1 DEF LinkTask
    <3>3. links' = [DropSenders(SweptSender \cup old) EXCEPT
                      ![l] = [url |-> url, told |-> ~owned]]
      BY <1>12 DEF OnMessageNewGateway
    <3> HIDE DEF url, owned, old
    <3> QED BY <3>1, <3>2, <3>3
  <2>3. records' \in [Beacons -> BeaconRecord \cup {None}]
    <3>1. CASE owned
      <4>1. SeenRecords(from)[from] \in BeaconRecord
        BY <3>1, RecordUpdates DEF SeenRecords, TypeOK
      <4>2. records' = [SeenRecords(from) EXCEPT
                          ![from].gateway_url = url,
                          ![from].gateway_shutdown_tx = l]
        BY <1>12, <3>1 DEF OnMessageNewGateway
      <4> HIDE DEF from, url
      <4>3. \A b \in Beacons :
              records'[b] = IF b = from
                            THEN [SeenRecords(from)[from] EXCEPT
                                    !.gateway_url = url,
                                    !.gateway_shutdown_tx = l]
                            ELSE SeenRecords(from)[b]
        BY <1>9, <4>2, Zenon
      <4>4. [SeenRecords(from)[from] EXCEPT !.gateway_url = url,
                                            !.gateway_shutdown_tx = l]
              \in BeaconRecord
        BY <2>1, <4>1, RecordUpdates, Zenon
      <4>5. DOMAIN records' = Beacons
        BY <1>9, <4>2
      <4>6. records' = [b \in Beacons |-> records'[b]]
        <5>1. SeenRecords(from) = [b \in Beacons |-> SeenRecords(from)[b]]
          BY <1>9
        <5> QED BY <4>2, <5>1, <4>5
      <4>7. \A b \in Beacons : records'[b] \in BeaconRecord \cup {None}
        BY <1>9, <4>3, <4>4
      <4> QED BY <4>6, <4>7
    <3>2. CASE ~owned
      BY <1>12, <3>2 DEF OnMessageNewGateway, TypeOK
    <3> QED BY <3>1, <3>2
  <2>4. known_gateways' \subseteq Gateways
    BY <1>12, <2>1 DEF OnMessageNewGateway, InsertGateway, TypeOK
  <2>5. /\ CancelSweep /\ inbound # <<>> /\ inbound' = Tail(inbound)
        /\ UNCHANGED <<broadcast_topics, reading, loop, tick_in, topic_queue,
                       shaking>>
    BY <1>12 DEF OnMessageNewGateway, shared
  <2> QED BY <1>10, <2>2, <2>3, <2>4, <2>5, QueueTypes DEF TypeOK
<1>13. CASE SweepTick
  <2>1. [IdleSweep EXCEPT !.at = "take", !.todo = Stale] \in Sweep
    BY Zenon DEF IdleSweep, Sweep, Stale
  <2>2. sweep' \in Sweep /\ tick_in' \in 0..CheckInterval
    BY <1>13, <2>1, IdleSweepType DEF SweepTick
  <2> QED BY <1>13, <2>2 DEF SweepTick, TypeOK, registry, shared, queues
<1>14. ASSUME NEW b \in Beacons, SweepTake(b) PROVE TypeOK'
  BY <1>14 DEF SweepTake, TypeOK, Sweep, shared, queues
<1>15. ASSUME NEW ok \in BOOLEAN, SweepUnsubscribed(ok) PROVE TypeOK'
  BY <1>15, Zenon DEF SweepUnsubscribed, TypeOK, Sweep, registry, shared, queues
<1>16. CASE SweepBlocked
  BY <1>16 DEF SweepBlocked, TypeOK, Sweep, registry, shared, queues
<1>17. CASE SweepRetain
  BY <1>17, Zenon DEF SweepRetain, TypeOK, Sweep, registry, queues
<1>18. CASE SweepEvict
  BY <1>18, DropSendersType, Zenon
     DEF SweepEvict, TypeOK, Sweep, IdleSweep, shared, queues
<1>19. CASE BroadcastLock \/ BroadcastUnlock
  BY <1>19, Zenon DEF BroadcastLock, BroadcastUnlock, TypeOK, registry, task, queues
<1>20. ASSUME NEW from \in Beacons \cup {Registration},
              NEW url \in Gateways \cup {None}, Deliver(from, url)
       PROVE  TypeOK'
  <2>1. inbound' \in Seq(Message) /\ Len(inbound') <= InboundCapacity
    BY <1>20, AppendProperties DEF Deliver, TypeOK, Message
  <2> QED BY <1>20, <2>1 DEF Deliver, TypeOK, registry, task, shared
<1>21. CASE BrokerReconnect
  BY <1>21 DEF BrokerReconnect, TypeOK, registry, task, shared, queues
<1>22. ASSUME NEW l \in Links, LinkStop(l) PROVE TypeOK'
  BY <1>22 DEF LinkStop, TypeOK, task, shared, queues
<1>23. CASE Tick
  <2>1. records' \in [Beacons -> BeaconRecord \cup {None}]
    <3>1. ASSUME NEW b \in Beacons
          PROVE  records'[b] \in BeaconRecord \cup {None}
      <4>1. CASE records[b] = None \/ records[b].age > BeaconTimeout
        BY <1>23, <4>1 DEF Tick, TypeOK
      <4>2. CASE ~(records[b] = None \/ records[b].age > BeaconTimeout)
        <5>1. records[b] \in BeaconRecord
          BY <4>2 DEF TypeOK
        <5>2. records[b].age \in Nat
          BY <5>1, RecordUpdates, Zenon
        <5>3. records[b].age <= BeaconTimeout
          BY <4>2, <5>2
        <5>4. [records[b] EXCEPT !.age = @ + 1] \in BeaconRecord
          BY <5>1, <5>3, RecordUpdates, Zenon
        <5> QED BY <1>23, <4>2, <5>4 DEF Tick
      <4> QED BY <4>1, <4>2
    <3> QED BY <1>23, <3>1 DEF Tick
  <2> QED BY <1>23, <2>1 DEF Tick, TypeOK, shared, queues
<1>24. CASE UNCHANGED vars
  BY <1>24 DEF vars, TypeOK, registry, task, shared, queues
<1> QED
  BY <1>1, <1>2, <1>4, <1>5, <1>6, <1>7, <1>8, <1>11, <1>12, <1>13, <1>14,
     <1>15, <1>16, <1>17, <1>18, <1>19, <1>20, <1>21, <1>22, <1>23, <1>24
     DEF Next

\* The state of the loop, the registry, the queues and the connection tasks is
\* well formed in every reachable state, and neither queue outgrows its bound.
THEOREM TypeCorrect == Spec => []TypeOK
BY TypeInit, TypeNext, PTL DEF Spec

-----------------------------------------------------------------------------
(* Gateway connections.                                                    *)

\* A record that carries a gateway URL carries the sender of an open
\* connection to it, and the URL is known.
HoldsOpenLink(r) ==
    /\ r.gateway_url = None <=> r.gateway_shutdown_tx = None
    /\ r.gateway_url # None =>
         /\ links[r.gateway_shutdown_tx] = [url |-> r.gateway_url, told |-> FALSE]
         /\ r.gateway_url \in known_gateways
         /\ r.gateway_url # Own

\* The inductive invariant: senders in the registry and in the record being
\* swept belong to open connections, no two of them name the same gateway,
\* no open connection is without such a sender, and no connection leads to
\* the own gateway, so evicting a swept URL never evicts the own one.
LinkInv ==
    /\ SeedGateways \subseteq known_gateways
    /\ \A l \in Links : links[l] # None => links[l].url # Own
    /\ \A b \in Beacons : Registered(b) => HoldsOpenLink(records[b])
    /\ sweep.record # None => HoldsOpenLink(sweep.record)
    /\ \A b, c \in Beacons :
         Registered(b) /\ Registered(c) /\ b # c /\ records[b].gateway_url # None
           => records[b].gateway_url # records[c].gateway_url
    /\ \A b \in Beacons :
         Registered(b) /\ sweep.record # None /\ sweep.record.gateway_url # None
           => records[b].gateway_url # sweep.record.gateway_url
    /\ \A l \in Links :
         Open(l) => SweepHolds(l) \/ \E b \in Beacons : RecordHolds(b, l)

\* The beacons a sweep still has to deregister are registered and stale.
StaleInv ==
    \A b \in sweep.todo : Registered(b) /\ records[b].age > BeaconTimeout

\* At start-up there is no connection and no sweep.
LEMMA LinkInit == Init => LinkInv /\ StaleInv
BY NoneAssumption
   DEF Init, LinkInv, StaleInv, IdleSweep, Registered, Open

\* Two records with the same gateway connection.
SameLink(r, q) == /\ r.gateway_url = q.gateway_url
                  /\ r.gateway_shutdown_tx = q.gateway_shutdown_tx

\* The other updates of a record keep its gateway connection.
LEMMA LinkFieldsKept ==
  ASSUME NEW r \in BeaconRecord
  PROVE  /\ SameLink([r EXCEPT !.listen_topic = TRUE], r)
         /\ SameLink([r EXCEPT !.broadcast_topic = TRUE], r)
         /\ SameLink([r EXCEPT !.age = 0], r)
         /\ SameLink([r EXCEPT !.age = @ + 1], r)
BY DEF BeaconRecord, SameLink

\* Steps that touch no link field of any record, no connection and no known
\* gateway preserve the invariant.
LEMMA LinkFrame ==
  ASSUME LinkInv,
         links' = links, known_gateways' = known_gateways,
         sweep'.record = sweep.record,
         \A b \in Beacons :
           /\ Registered(b)' <=> Registered(b)
           /\ Registered(b) => SameLink(records'[b], records[b])
  PROVE  LinkInv'
BY DEF SameLink, LinkInv, HoldsOpenLink, Registered, Open, SweepHolds, RecordHolds

\* Steps that drop the record held by the sweep, whether it was cancelled or
\* has finished with it, and at most add records without a gateway.
LEMMA LinkDrop ==
  ASSUME TypeOK, LinkInv,
         links' = DropSenders(SweptSender),
         sweep'.record = None,
         \/ known_gateways' = known_gateways
         \/ /\ sweep.record # None
            /\ known_gateways' = known_gateways \ {sweep.record.gateway_url},
         \A b \in Beacons :
           /\ Registered(b) =>
                Registered(b)' /\ SameLink(records'[b], records[b])
           /\ Registered(b)' /\ ~Registered(b) =>
                /\ records'[b].gateway_url = None
                /\ records'[b].gateway_shutdown_tx = None
  PROVE  LinkInv'
<1> USE NoneAssumption DEF Registered, SameLink
<1>1. ASSUME NEW l \in Links, links'[l] # None
      PROVE  links[l] # None /\ links'[l].url = links[l].url
  BY <1>1 DEF DropSenders, TypeOK, LinkTask
<1>2. ASSUME NEW l \in Links, l \notin SweptSender
      PROVE  links'[l] = links[l]
  BY <1>2 DEF DropSenders
<1>3. ASSUME NEW l \in Links, Open(l)'
      PROVE  Open(l) /\ l \notin SweptSender
  BY <1>3 DEF DropSenders, TypeOK, LinkTask, Open
<1>4. ASSUME NEW b \in Beacons, Registered(b), records[b].gateway_url # None
      PROVE  /\ records[b].gateway_shutdown_tx \in Links
             /\ records[b].gateway_shutdown_tx \notin SweptSender
             /\ records[b].gateway_url \in known_gateways'
  <2>1. HoldsOpenLink(records[b]) /\ records[b] \in BeaconRecord
    BY <1>4 DEF LinkInv, TypeOK
  <2>2. records[b].gateway_shutdown_tx \in Links
    BY <1>4, <2>1 DEF HoldsOpenLink, BeaconRecord
  <2>3. CASE sweep.record = None
    BY <2>1, <2>2, <2>3, <1>4 DEF SweptSender, HoldsOpenLink
  <2>4. CASE sweep.record # None
    <3>1. HoldsOpenLink(sweep.record)
      BY <2>4 DEF LinkInv
    <3>2. records[b].gateway_url # sweep.record.gateway_url
      BY <1>4, <2>4 DEF LinkInv
    <3>3. records[b].gateway_shutdown_tx # sweep.record.gateway_shutdown_tx
      BY <1>4, <2>1, <2>2, <3>1, <3>2 DEF HoldsOpenLink
    <3> QED BY <1>4, <2>1, <2>2, <2>4, <3>2, <3>3 DEF SweptSender, HoldsOpenLink
  <2> QED BY <2>3, <2>4
<1>5. SeedGateways \subseteq known_gateways'
  <2>1. CASE known_gateways' = known_gateways
    BY <2>1 DEF LinkInv
  <2>2. CASE /\ sweep.record # None
             /\ known_gateways' = known_gateways \ {sweep.record.gateway_url}
    <3>1. HoldsOpenLink(sweep.record)
      BY <2>2 DEF LinkInv
    <3> QED BY <2>2, <3>1 DEF LinkInv, SeedGateways, HoldsOpenLink
  <2> QED BY <2>1, <2>2
<1>6. \A l \in Links : links'[l] # None => links'[l].url # Own
  BY <1>1 DEF LinkInv
<1>7. ASSUME NEW b \in Beacons, Registered(b)'
      PROVE  HoldsOpenLink(records[b])'
  <2>1. CASE Registered(b)
    BY <1>2, <1>4, <1>7, <2>1 DEF LinkInv, HoldsOpenLink
  <2>2. CASE ~Registered(b)
    BY <1>7, <2>2 DEF HoldsOpenLink
  <2> QED BY <2>1, <2>2
<1>8. ASSUME NEW b \in Beacons, NEW c \in Beacons, Registered(b)',
             Registered(c)', b # c, records'[b].gateway_url # None
      PROVE  records'[b].gateway_url # records'[c].gateway_url
  BY <1>8 DEF LinkInv
<1>9. ASSUME NEW l \in Links, Open(l)'
      PROVE  \E b \in Beacons : RecordHolds(b, l)'
  <2>1. Open(l) /\ ~SweepHolds(l)
    BY <1>3, <1>9 DEF SweepHolds, SweptSender
  <2>2. PICK b \in Beacons : RecordHolds(b, l)
    BY <2>1 DEF LinkInv
  <2> QED BY <2>2 DEF RecordHolds
<1> QED BY <1>5, <1>6, <1>7, <1>8, <1>9 DEF LinkInv

\* Every step preserves the invariant on connections and their senders: one
\* case per action, those that touch no sender by LinkFrame and LinkDrop.
LEMMA LinkNext == TypeOK /\ LinkInv /\ StaleInv /\ [Next]_vars => LinkInv'
<1> SUFFICES ASSUME TypeOK, LinkInv, StaleInv, [Next]_vars PROVE LinkInv'
  OBVIOUS
<1> USE NoneAssumption, NoneIsNoRecord
<1>1. ASSUME UNCHANGED <<registry, sweep>> PROVE LinkInv'
  BY <1>1, LinkFrame DEF registry, Registered, SameLink
<1>2. ASSUME NEW b \in Beacons, HandshakeListen(b) \/ HandshakeBroadcast(b)
      PROVE  LinkInv'
  BY <1>1, <1>2 DEF HandshakeListen, HandshakeBroadcast, task
<1>3. ASSUME NEW b \in Beacons, NEW r \in BeaconRecord,
             SameLink(r, EnsureRecord(b)),
             records' = [records EXCEPT ![b] = r],
             links' = DropSenders(SweptSender), CancelSweep,
             known_gateways' = known_gateways
      PROVE  LinkInv'
  <2>1. sweep'.record = None
    BY <1>3 DEF CancelSweep, IdleSweep
  <2>2. \A c \in Beacons : records'[c] = IF c = b THEN r ELSE records[c]
    BY <1>3 DEF TypeOK
  <2>3. \A c \in Beacons :
          /\ Registered(c) => Registered(c)' /\ SameLink(records'[c], records[c])
          /\ Registered(c)' /\ ~Registered(c) =>
               /\ records'[c].gateway_url = None
               /\ records'[c].gateway_shutdown_tx = None
    BY <1>3, <2>2 DEF Registered, SameLink, EnsureRecord, NewRecord
  <2> QED BY <1>3, <2>1, <2>3, LinkDrop
<1>4. ASSUME NEW type, TakeChannel(type)
      PROVE  /\ Head(topic_queue).beacon \in Beacons
             /\ links' = DropSenders(SweptSender) /\ CancelSweep
             /\ known_gateways' = known_gateways
  BY <1>4, QueueTypes DEF TakeChannel, TopicChannel
<1>5. CASE TakeListen \/ TakeBroadcastBlocked
  <2> DEFINE b == Head(topic_queue).beacon
  <2>1. /\ b \in Beacons
        /\ links' = DropSenders(SweptSender) /\ CancelSweep
        /\ known_gateways' = known_gateways
        /\ records' = [records EXCEPT ![b] = EnsureRecord(b)]
    BY <1>4, <1>5 DEF TakeListen, TakeBroadcastBlocked
  <2>2. EnsureRecord(b) \in BeaconRecord /\ SameLink(EnsureRecord(b), EnsureRecord(b))
    BY <2>1, EnsureRecordType DEF SameLink
  <2> QED BY <1>3, <2>1, <2>2, Zenon
<1>6. CASE TakeBroadcast
  <2> DEFINE b == Head(topic_queue).beacon
             r == [EnsureRecord(b) EXCEPT !.broadcast_topic = TRUE]
  <2>1. /\ b \in Beacons
        /\ links' = DropSenders(SweptSender) /\ CancelSweep
        /\ known_gateways' = known_gateways
        /\ records' = [records EXCEPT ![b] = r]
    BY <1>4, <1>6 DEF TakeBroadcast
  <2>2. r \in BeaconRecord /\ SameLink(r, EnsureRecord(b))
    BY <2>1, EnsureRecordType, RecordUpdates, LinkFieldsKept, Zenon
  <2> HIDE DEF r
  <2> QED BY <1>3, <2>1, <2>2, Zenon
<1>7. ASSUME NEW b \in Beacons, NEW r,
             r \in {records[b], [records[b] EXCEPT !.listen_topic = TRUE],
                    [records[b] EXCEPT !.broadcast_topic = TRUE],
                    [records[b] EXCEPT !.age = 0]},
             records[b] = None => r = None
      PROVE  /\ r # None <=> Registered(b)
             /\ Registered(b) => SameLink(r, records[b])
  <2>1. CASE records[b] = None
    BY <1>7, <2>1 DEF Registered
  <2>2. CASE records[b] # None
    <3>1. records[b] \in BeaconRecord
      BY <2>2 DEF TypeOK
    <3>2. r \in BeaconRecord
      BY <1>7, <3>1, RecordUpdates, Zenon
    <3>3. SameLink(r, records[b])
      <4>1. SameLink(records[b], records[b])
        BY DEF SameLink
      <4> QED BY <1>7, <3>1, <4>1, LinkFieldsKept, Zenon
    <3>4. r # None
      BY <3>2
    <3> QED BY <2>2, <3>3, <3>4 DEF Registered
  <2> QED BY <2>1, <2>2
<1>8. ASSUME links' = links, known_gateways' = known_gateways, sweep' = sweep,
             \A b \in Beacons :
               /\ records'[b] \in
                    {records[b], [records[b] EXCEPT !.listen_topic = TRUE],
                     [records[b] EXCEPT !.broadcast_topic = TRUE]}
               /\ records[b] = None => records'[b] = None
      PROVE  LinkInv'
  <2>1. \A b \in Beacons :
          /\ Registered(b)' <=> Registered(b)
          /\ Registered(b) => SameLink(records'[b], records[b])
    BY <1>7, <1>8 DEF Registered
  <2> QED BY <1>8, <2>1, LinkFrame
<1>9. ASSUME NEW ok \in BOOLEAN, SubscribeReply(ok) PROVE LinkInv'
  <2>1. CASE ok
    <3>1. records' = [records EXCEPT ![loop.beacon] =
                        IF @ = None THEN None
                        ELSE [@ EXCEPT !.listen_topic = TRUE]]
      BY <1>9, <2>1, Zenon DEF SubscribeReply
    <3> QED BY <1>8, <1>9, <3>1, Zenon DEF SubscribeReply, TypeOK
  <2>2. CASE ~ok
    <3>1. UNCHANGED <<registry, sweep>>
      BY <1>9, <2>2, Zenon DEF SubscribeReply, registry
    <3> QED BY <1>1, <3>1
  <2> QED BY <2>1, <2>2
<1>10. CASE PushTopic
  BY <1>8, <1>10 DEF PushTopic, TypeOK
<1>11. ASSUME NEW from, NEW b \in Beacons
       PROVE  /\ SeenRecords(from)[b] # None <=> Registered(b)
              /\ Registered(b) => SameLink(SeenRecords(from)[b], records[b])
  BY <1>7 DEF SeenRecords
<1>12. CASE OnMessageKnown
  <2>1. sweep'.record = None
    BY <1>12 DEF OnMessageKnown, CancelSweep, IdleSweep
  <2>2. records' = SeenRecords(Head(inbound).from)
    BY <1>12 DEF OnMessageKnown
  <2>3. \A b \in Beacons :
          /\ Registered(b) => Registered(b)' /\ SameLink(records'[b], records[b])
          /\ Registered(b)' => Registered(b)
    BY <1>11, <2>2 DEF Registered
  <2> QED BY <1>12, <2>1, <2>3, LinkDrop DEF OnMessageKnown
<1>13. ASSUME NEW l \in Links, OnMessageNewGateway(l) PROVE LinkInv'
  <2> DEFINE from  == Head(inbound).from
             url   == Head(inbound).gateway_url
             owned == from \in Beacons /\ records[from] # None
             old   == IF owned THEN {records[from].gateway_shutdown_tx} ELSE {}
             gone  == SweptSender \cup old
  <2>1. /\ url \in Gateways /\ url \notin known_gateways /\ url # Own
        /\ links[l] = None
        /\ known_gateways' = known_gateways \cup {url}
        /\ sweep'.record = None
    <3>1. url \in Gateways \cup {None}
      BY <1>13, QueueTypes DEF OnMessageNewGateway, Message
    <3> QED BY <1>13, <3>1 DEF OnMessageNewGateway, InsertGateway, CancelSweep,
                               IdleSweep, LinkInv, SeedGateways
  <2>2. ASSUME NEW b \in Beacons
        PROVE  IF owned /\ b = from
               THEN /\ records'[b] # None
                    /\ records'[b].gateway_url = url
                    /\ records'[b].gateway_shutdown_tx = l
               ELSE /\ Registered(b)' <=> Registered(b)
                    /\ Registered(b) => SameLink(records'[b], records[b])
    <3>1. CASE owned
      <4>1. records' = [SeenRecords(from) EXCEPT
                          ![from].gateway_url = url,
                          ![from].gateway_shutdown_tx = l]
        BY <1>13, <3>1 DEF OnMessageNewGateway
      <4>2. DOMAIN SeenRecords(from) = Beacons
        BY DEF SeenRecords
      <4>3. CASE b = from
        <5>1. SeenRecords(from)[b] \in BeaconRecord
          BY <3>1, <4>3, RecordUpdates DEF SeenRecords, TypeOK
        <5>2. records'[b] = [SeenRecords(from)[b] EXCEPT
                               !.gateway_url = url, !.gateway_shutdown_tx = l]
          BY <4>1, <4>2, <4>3
        <5> HIDE DEF from, url
        <5>3. records'[b] \in BeaconRecord
          <6>1. \A r \in BeaconRecord :
                  [r EXCEPT !.gateway_url = url, !.gateway_shutdown_tx = l]
                    \in BeaconRecord
            BY <2>1, RecordUpdates, Zenon
          <6> QED BY <5>1, <5>2, <6>1, Zenon
        <5>4. records'[b].gateway_url = url /\ records'[b].gateway_shutdown_tx = l
          BY <5>1, <5>2 DEF BeaconRecord
        <5> QED BY <3>1, <4>3, <5>3, <5>4
      <4>4. CASE b # from
        <5>1. records'[b] = SeenRecords(from)[b]
          BY <4>1, <4>2, <4>4
        <5> QED BY <1>11, <4>4, <5>1 DEF Registered
      <4> QED BY <4>3, <4>4
    <3>2. CASE ~owned
      BY <1>13, <3>2 DEF OnMessageNewGateway, Registered, SameLink
    <3> QED BY <3>1, <3>2
  <2>3. links' = [DropSenders(gone) EXCEPT ![l] = [url |-> url, told |-> ~owned]]
    BY <1>13 DEF OnMessageNewGateway
  <2>4. DOMAIN DropSenders(gone) = Links
    BY DEF DropSenders
  <2>5. links'[l] = [url |-> url, told |-> ~owned]
    BY <2>3, <2>4
  <2>6. ASSUME NEW k \in Links, k # l
        PROVE  /\ k \notin gone => links'[k] = links[k]
               /\ links'[k] # None => links[k] # None /\ links'[k].url = links[k].url
               /\ Open(k)' => Open(k) /\ k \notin gone
    <3>1. links'[k] = DropSenders(gone)[k]
      BY <2>3, <2>4, <2>6
    <3> HIDE DEF gone
    <3> QED BY <3>1 DEF DropSenders, TypeOK, LinkTask, Open
  <2>7. ASSUME NEW b \in Beacons, Registered(b), ~(owned /\ b = from),
               records[b].gateway_url # None
        PROVE  /\ records[b].gateway_shutdown_tx \in Links \ ({l} \cup gone)
               /\ records[b].gateway_url # url
    <3> DEFINE tx == records[b].gateway_shutdown_tx
    <3>1. HoldsOpenLink(records[b]) /\ records[b] \in BeaconRecord
      BY <2>7 DEF LinkInv, TypeOK, Registered
    <3>2. /\ tx \in Links /\ records[b].gateway_url \in Gateways
          /\ links[tx] = [url |-> records[b].gateway_url, told |-> FALSE]
      BY <2>7, <3>1 DEF HoldsOpenLink, BeaconRecord
    <3>3. tx # l
      <4>1. [url |-> records[b].gateway_url, told |-> FALSE] \in LinkTask
        BY <3>2 DEF LinkTask
      <4> QED BY <2>1, <3>2, <4>1
    <3>4. tx \notin SweptSender
      <4>1. CASE sweep.record = None
        BY <4>1 DEF SweptSender
      <4>2. CASE sweep.record # None
        <5>1. HoldsOpenLink(sweep.record)
          BY <4>2 DEF LinkInv
        <5>2. records[b].gateway_url # sweep.record.gateway_url
          <6>1. CASE sweep.record.gateway_url = None
            BY <2>7, <6>1
          <6>2. CASE sweep.record.gateway_url # None
            BY <2>7, <4>2, <6>2 DEF LinkInv
          <6> QED BY <6>1, <6>2
        <5>3. tx # sweep.record.gateway_shutdown_tx
          <6>1. CASE sweep.record.gateway_url = None
            <7>1. sweep.record.gateway_shutdown_tx = None
              BY <5>1, <6>1 DEF HoldsOpenLink
            <7> QED BY <3>2, <7>1
          <6>2. CASE sweep.record.gateway_url # None
            <7>1. links[sweep.record.gateway_shutdown_tx].url
                    = sweep.record.gateway_url
              BY <5>1, <6>2 DEF HoldsOpenLink
            <7>2. links[tx].url = records[b].gateway_url
              BY <3>2
            <7> HIDE DEF tx
            <7> QED BY <5>2, <7>1, <7>2
          <6> QED BY <6>1, <6>2
        <5> QED BY <4>2, <5>3 DEF SweptSender
      <4> QED BY <4>1, <4>2
    <3>5. tx \notin old
      <4>1. CASE owned
        <5>1. /\ HoldsOpenLink(records[from]) /\ b # from
              /\ records[b].gateway_url # records[from].gateway_url
          BY <2>7, <4>1 DEF LinkInv, Registered
        <5>2. tx # records[from].gateway_shutdown_tx
          <6>1. CASE records[from].gateway_url = None
            <7>1. records[from].gateway_shutdown_tx = None
              BY <5>1, <6>1 DEF HoldsOpenLink
            <7> QED BY <3>2, <7>1
          <6>2. CASE records[from].gateway_url # None
            <7>1. links[records[from].gateway_shutdown_tx].url = records[from].gateway_url
              <8> HIDE DEF from
              <8>1. links[records[from].gateway_shutdown_tx]
                      = [url |-> records[from].gateway_url, told |-> FALSE]
                BY <5>1, <6>2 DEF HoldsOpenLink
              <8> QED BY <8>1
            <7>2. links[tx].url = records[b].gateway_url
              BY <3>2
            <7> HIDE DEF tx
            <7> QED BY <5>1, <7>1, <7>2
          <6> QED BY <6>1, <6>2
        <5> HIDE DEF tx
        <5> QED BY <4>1, <5>2
      <4>2. CASE ~owned
        BY <4>2
      <4> QED BY <4>1, <4>2
    <3>6. records[b].gateway_url # url
      BY <2>1, <2>7, <3>1 DEF HoldsOpenLink
    <3> QED BY <3>2, <3>3, <3>4, <3>5, <3>6
  <2>8. SeedGateways \subseteq known_gateways'
    BY <2>1 DEF LinkInv
  <2>9. ASSUME NEW k \in Links, links'[k] # None PROVE links'[k].url # Own
    <3>1. CASE k = l
      <4>1. links'[k].url = url
        BY <2>5, <3>1
      <4>2. url # Own
        BY <2>1
      <4> QED BY <4>1, <4>2
    <3>2. CASE k # l
      <4>1. links[k] # None /\ links'[k].url = links[k].url
        BY <2>6, <2>9, <3>2
      <4>2. links[k].url # Own
        BY <4>1 DEF LinkInv
      <4> QED BY <4>1, <4>2
    <3> QED BY <3>1, <3>2
  <2>10. ASSUME NEW b \in Beacons, Registered(b)' PROVE HoldsOpenLink(records[b])'
    <3>1. CASE owned /\ b = from
      BY <2>1, <2>2, <2>5, <3>1 DEF HoldsOpenLink
    <3>2. CASE ~(owned /\ b = from)
      <4>1. Registered(b) /\ SameLink(records'[b], records[b])
        BY <2>2, <2>10, <3>2
      <4>2. HoldsOpenLink(records[b])
        BY <4>1 DEF LinkInv
      <4>3. CASE records[b].gateway_url = None
        BY <4>1, <4>2, <4>3 DEF SameLink, HoldsOpenLink
      <4>4. CASE records[b].gateway_url # None
        <5>1. links'[records[b].gateway_shutdown_tx]
                = links[records[b].gateway_shutdown_tx]
          BY <2>6, <2>7, <3>2, <4>1, <4>4
        <5> QED BY <2>1, <4>1, <4>2, <4>4, <5>1 DEF SameLink, HoldsOpenLink
      <4> QED BY <4>3, <4>4
    <3> QED BY <3>1, <3>2
  <2>11. ASSUME NEW b \in Beacons, NEW c \in Beacons, Registered(b)',
                Registered(c)', b # c, records'[b].gateway_url # None
         PROVE  records'[b].gateway_url # records'[c].gateway_url
    <3>1. CASE owned /\ b = from
      BY <2>1, <2>2, <2>7, <2>11, <3>1 DEF SameLink
    <3>2. CASE owned /\ c = from
      BY <2>1, <2>2, <2>7, <2>11, <3>2 DEF SameLink
    <3>3. CASE ~(owned /\ b = from) /\ ~(owned /\ c = from)
      <4>1. /\ Registered(b) /\ SameLink(records'[b], records[b])
            /\ Registered(c) /\ SameLink(records'[c], records[c])
        BY <2>2, <2>11, <3>3
      <4> QED BY <2>11, <4>1 DEF SameLink, LinkInv
    <3> QED BY <3>1, <3>2, <3>3
  <2>12. ASSUME NEW k \in Links, Open(k)'
         PROVE  \E b \in Beacons : RecordHolds(b, k)'
    <3>1. CASE k = l
      <4>1. ASSUME ~owned PROVE FALSE
        <5>1. links'[l] = [url |-> url, told |-> TRUE]
          BY <2>5, <4>1, Zenon
        <5> QED BY <2>12, <3>1, <5>1 DEF Open
      <4> QED BY <2>2, <3>1, <4>1 DEF RecordHolds, Registered
    <3>2. CASE k # l
      <4>1. Open(k) /\ k \notin gone
        BY <2>6, <2>12, <3>2
      <4>2. ~SweepHolds(k)
        BY <4>1 DEF SweepHolds, SweptSender
      <4>3. PICK b \in Beacons : RecordHolds(b, k)
        BY <4>1, <4>2 DEF LinkInv
      <4>4. ~(owned /\ b = from)
        BY <4>1, <4>3 DEF RecordHolds
      <4> QED BY <2>2, <4>3, <4>4 DEF RecordHolds, SameLink
    <3> QED BY <3>1, <3>2
  <2> HIDE DEF from, url, owned, old, gone
  <2> QED BY <2>1, <2>8, <2>9, <2>10, <2>11, <2>12 DEF LinkInv
<1>14. CASE SweepTick
  <2>1. sweep.record = None
    BY <1>14 DEF SweepTick, TypeOK, Sweep
  <2>2. sweep'.record = None
    BY <1>14 DEF SweepTick, IdleSweep
  <2> QED BY <1>14, <2>1, <2>2, LinkFrame
          DEF SweepTick, registry, Registered, SameLink
<1>15. ASSUME NEW b \in Beacons, SweepTake(b) PROVE LinkInv'
  <2>1. /\ Registered(b) /\ sweep.record = None
        /\ sweep'.record = records[b]
        /\ links' = links /\ known_gateways' = known_gateways
    BY <1>15 DEF SweepTake, TypeOK, Sweep, Registered
  <2>2. \A c \in Beacons : records'[c] = IF c = b THEN None ELSE records[c]
    BY <1>15 DEF SweepTake, TypeOK
  <2>3. \A c \in Beacons : /\ Registered(c)' <=> Registered(c) /\ c # b
                           /\ Registered(c)' => records'[c] = records[c]
    BY <2>2 DEF Registered
  <2>h. \A r : HoldsOpenLink(r) =>
               /\ r.gateway_url = None <=> r.gateway_shutdown_tx = None
               /\ r.gateway_url # None =>
                    /\ links'[r.gateway_shutdown_tx] = [url |-> r.gateway_url, told |-> FALSE]
                    /\ r.gateway_url \in known_gateways'
                    /\ r.gateway_url # Own
    BY <2>1 DEF HoldsOpenLink
  <2>4. ASSUME NEW c \in Beacons, Registered(c)' PROVE HoldsOpenLink(records[c])'
    <3>1. HoldsOpenLink(records[c]) /\ records'[c] = records[c]
      BY <2>3, <2>4 DEF LinkInv
    <3> QED BY <2>h, <3>1 DEF HoldsOpenLink
  <2>5. HoldsOpenLink(sweep.record)'
    <3>1. HoldsOpenLink(records[b])
      BY <2>1 DEF LinkInv
    <3> QED BY <2>1, <2>h, <3>1 DEF HoldsOpenLink
  <2>6. \A c, d \in Beacons :
          Registered(c)' /\ Registered(d)' /\ c # d /\ records'[c].gateway_url # None
            => records'[c].gateway_url # records'[d].gateway_url
    BY <2>3 DEF LinkInv
  <2>7. \A c \in Beacons :
          Registered(c)' /\ sweep'.record.gateway_url # None
            => records'[c].gateway_url # sweep'.record.gateway_url
    BY <2>1, <2>3 DEF LinkInv
  <2>8. \A k \in Links : Open(k)' => SweepHolds(k)'
                                     \/ \E c \in Beacons : RecordHolds(c, k)'
    <3> SUFFICES ASSUME NEW k \in Links, Open(k)'
                 PROVE  SweepHolds(k)' \/ \E c \in Beacons : RecordHolds(c, k)'
      OBVIOUS
    <3>1. Open(k)
      BY <2>1 DEF Open
    <3>2. ~SweepHolds(k)
      BY <2>1 DEF SweepHolds
    <3>3. PICK c \in Beacons : RecordHolds(c, k)
      BY <3>1, <3>2 DEF LinkInv
    <3>4. CASE c = b
      BY <2>1, <3>3, <3>4 DEF SweepHolds, RecordHolds, Registered
    <3>5. CASE c # b
      BY <2>3, <3>3, <3>5 DEF RecordHolds, Registered
    <3> QED BY <3>4, <3>5
  <2> QED BY <2>1, <2>4, <2>5, <2>6, <2>7, <2>8 DEF LinkInv
<1>16. ASSUME NEW ok \in BOOLEAN, SweepUnsubscribed(ok) PROVE LinkInv'
  <2>1. sweep'.record = sweep.record
    BY <1>16 DEF SweepUnsubscribed, TypeOK, Sweep
  <2> QED
    BY <1>16, <2>1, LinkFrame
       DEF SweepUnsubscribed, registry, Registered, SameLink
<1>17. CASE SweepBlocked \/ SweepRetain
  <2>1. sweep'.record = sweep.record
    BY <1>17 DEF SweepBlocked, SweepRetain, TypeOK, Sweep
  <2> QED BY <1>17, <2>1, LinkFrame
          DEF SweepBlocked, SweepRetain, registry, Registered, SameLink
<1>18. CASE SweepEvict
  <2>1. sweep.record # None
    BY <1>18 DEF SweepEvict, TypeOK, Sweep
  <2>2. sweep'.record = None
    BY <1>18 DEF SweepEvict, IdleSweep
  <2> QED BY <1>18, <2>1, <2>2, LinkDrop
          DEF SweepEvict, Registered, SameLink
<1>19. CASE BroadcastLock \/ BroadcastUnlock
  BY <1>1, <1>19 DEF BroadcastLock, BroadcastUnlock, task
<1>20. ASSUME NEW from \in Beacons \cup {Registration},
              NEW url \in Gateways \cup {None}, Deliver(from, url)
       PROVE  LinkInv'
  BY <1>1, <1>20 DEF Deliver, task
<1>21. CASE BrokerReconnect
  BY <1>1, <1>21 DEF BrokerReconnect, task
<1>22. ASSUME NEW l \in Links, LinkStop(l) PROVE LinkInv'
  <2>1. /\ links[l].told
        /\ links' = [links EXCEPT ![l] = None]
        /\ UNCHANGED <<records, known_gateways, sweep>>
    BY <1>22 DEF LinkStop, task
  <2>2. \A k \in Links : links'[k] = IF k = l THEN None ELSE links[k]
    BY <2>1 DEF TypeOK
  <2>3. ASSUME NEW r \in BeaconRecord, HoldsOpenLink(r)
        PROVE  HoldsOpenLink(r)'
    <3>1. r.gateway_shutdown_tx \in Links \cup {None}
      BY <2>3 DEF BeaconRecord
    <3>2. r.gateway_url = None <=> r.gateway_shutdown_tx = None
      BY <2>3 DEF HoldsOpenLink
    <3>3. ASSUME r.gateway_url # None
          PROVE  /\ links'[r.gateway_shutdown_tx] = [url |-> r.gateway_url, told |-> FALSE]
                 /\ r.gateway_url \in known_gateways' /\ r.gateway_url # Own
      <4>1. /\ links[r.gateway_shutdown_tx] = [url |-> r.gateway_url, told |-> FALSE]
            /\ r.gateway_url \in known_gateways /\ r.gateway_url # Own
        BY <2>3, <3>3 DEF HoldsOpenLink
      <4>2. r.gateway_shutdown_tx \in Links \ {l}
        BY <2>1, <3>1, <3>2, <3>3, <4>1
      <4> QED BY <2>1, <2>2, <4>1, <4>2
    <3> QED BY <3>2, <3>3 DEF HoldsOpenLink
  <2>4. ASSUME NEW b \in Beacons, Registered(b)'
        PROVE  HoldsOpenLink(records[b])'
    BY <2>1, <2>3, <2>4 DEF LinkInv, TypeOK, Registered, HoldsOpenLink
  <2>5. ASSUME sweep'.record # None PROVE HoldsOpenLink(sweep.record)'
    <3>1. sweep.record \in BeaconRecord
      BY <2>1, <2>5 DEF TypeOK, Sweep
    <3>2. HoldsOpenLink(sweep.record)
      BY <2>1, <2>5 DEF LinkInv
    <3> DEFINE r == sweep.record
    <3>3. /\ r.gateway_url = None <=> r.gateway_shutdown_tx = None
          /\ r.gateway_url # None =>
               /\ links[r.gateway_shutdown_tx]
                    = [url |-> r.gateway_url, told |-> FALSE]
               /\ r.gateway_url \in known_gateways
               /\ r.gateway_url # Own
      BY <3>2 DEF HoldsOpenLink
    <3>4. r.gateway_shutdown_tx \in Links \cup {None}
      BY <3>1 DEF BeaconRecord
    <3>5. sweep'.record = r
      BY <2>1
    <3> HIDE DEF r
    <3>6. r.gateway_url # None => links'[r.gateway_shutdown_tx]
                                   = [url |-> r.gateway_url, told |-> FALSE]
      BY <2>1, <2>2, <3>3, <3>4
    <3> QED BY <2>1, <3>3, <3>5, <3>6, Zenon DEF HoldsOpenLink
  <2>6. \A k \in Links : Open(k)' => Open(k) /\ k # l
    BY <2>1, <2>2 DEF Open
  <2>7. SeedGateways \subseteq known_gateways'
    BY <2>1 DEF LinkInv
  <2>8. \A k \in Links : links'[k] # None => links'[k].url # Own
    BY <2>2 DEF LinkInv
  <2>9. /\ \A b, c \in Beacons :
              Registered(b)' /\ Registered(c)' /\ b # c /\ records'[b].gateway_url # None
              => records'[b].gateway_url # records'[c].gateway_url
        /\ \A b \in Beacons :
              Registered(b)' /\ sweep'.record # None /\ sweep'.record.gateway_url # None
              => records'[b].gateway_url # sweep'.record.gateway_url
    BY <2>1 DEF LinkInv, Registered
  <2>10. \A k \in Links : Open(k)' => SweepHolds(k)' \/ \E b \in Beacons : RecordHolds(b, k)'
    BY <2>1, <2>6 DEF LinkInv, SweepHolds, RecordHolds, Registered
  <2>11. sweep' = sweep
    BY <2>1
  <2> QED BY <2>4, <2>5, <2>7, <2>8, <2>9, <2>10, <2>11, Zenon DEF LinkInv
<1>23. CASE Tick
  <2>1. \A b \in Beacons :
          /\ Registered(b)' <=> Registered(b)
          /\ Registered(b) => SameLink(records'[b], records[b])
    <3> SUFFICES ASSUME NEW b \in Beacons
                 PROVE  /\ Registered(b)' <=> Registered(b)
                        /\ Registered(b) => SameLink(records'[b], records[b])
      OBVIOUS
    <3>1. CASE records[b] = None \/ records[b].age > BeaconTimeout
      BY <1>23, <3>1 DEF Tick, Registered, SameLink
    <3>2. CASE ~(records[b] = None \/ records[b].age > BeaconTimeout)
      <4>1. records[b] \in BeaconRecord
        BY <3>2 DEF TypeOK
      <4>2. records[b].age <= BeaconTimeout
        <5>1. records[b].age \in Nat
          BY <4>1, RecordUpdates, Zenon
        <5> QED BY <3>2, <5>1, BoundAssumption
      <4>3. records'[b] = [records[b] EXCEPT !.age = @ + 1]
        BY <1>23, <3>2 DEF Tick
      <4>4. records'[b] \in BeaconRecord
        BY <4>1, <4>2, <4>3, RecordUpdates, Zenon
      <4> QED BY <3>2, <4>1, <4>3, <4>4, LinkFieldsKept, Zenon DEF Registered
    <3> QED BY <3>1, <3>2
  <2> QED BY <1>23, <2>1, LinkFrame DEF Tick
<1>24. CASE UNCHANGED vars
  BY <1>1, <1>24 DEF vars, task
<1> QED
  BY <1>2, <1>5, <1>6, <1>9, <1>10, <1>12, <1>13, <1>14, <1>15, <1>16, <1>17,
     <1>18, <1>19, <1>20, <1>21, <1>22, <1>23, <1>24
     DEF Next

-----------------------------------------------------------------------------
(* Deregistration.                                                         *)

\* What a step may do to the registry: the action of OnlyStaleDeregistered.
DeregistersStale ==
    \A b \in Beacons : Registered(b) /\ ~Registered(b)'
                       => records[b].age > BeaconTimeout

\* Setting the topic flags of a record does not touch its age.
LEMMA AgeKept ==
  ASSUME NEW r \in BeaconRecord
  PROVE  /\ [r EXCEPT !.listen_topic = TRUE].age = r.age
         /\ [r EXCEPT !.broadcast_topic = TRUE].age = r.age
BY DEF BeaconRecord

\* Every step keeps the list of the running sweep to beacons that are stale:
\* a message could only refresh one after cancelling the sweep.
LEMMA StaleNext ==
  TypeOK /\ StaleInv /\ [Next]_vars => StaleInv' /\ DeregistersStale
<1> SUFFICES ASSUME TypeOK, StaleInv, [Next]_vars
             PROVE  StaleInv' /\ DeregistersStale
  OBVIOUS
<1> USE NoneAssumption, NoneIsNoRecord
<1> DEFINE Goal == StaleInv' /\ DeregistersStale
<1>1. sweep.todo \subseteq Beacons
  BY DEF TypeOK, Sweep
<1>2. ASSUME sweep'.todo \subseteq sweep.todo,
             \A b \in Beacons : Registered(b) =>
               /\ Registered(b)'
               /\ b \in sweep'.todo => records'[b].age = records[b].age
      PROVE  Goal
  BY <1>1, <1>2 DEF StaleInv, DeregistersStale
<1>3. ASSUME records' = records, sweep'.todo \subseteq sweep.todo PROVE Goal
  BY <1>2, <1>3 DEF Registered
<1>4. ASSUME sweep' = IdleSweep,
             \A b \in Beacons : Registered(b) => Registered(b)'
      PROVE  Goal
  BY <1>2, <1>4 DEF IdleSweep
<1>5. ASSUME NEW b \in Beacons, NEW r \in BeaconRecord,
             records' = [records EXCEPT ![b] = r], CancelSweep
      PROVE  Goal
  <2>1. \A c \in Beacons : Registered(c) => Registered(c)'
    BY <1>5 DEF Registered, TypeOK
  <2> QED BY <1>4, <1>5, <2>1 DEF CancelSweep
<1>6. ASSUME sweep' = sweep,
             \A b \in Beacons :
               /\ records'[b] \in
                    {records[b], [records[b] EXCEPT !.listen_topic = TRUE],
                     [records[b] EXCEPT !.broadcast_topic = TRUE]}
               /\ records[b] = None => records'[b] = None
      PROVE  Goal
  <2>1. ASSUME NEW b \in Beacons, Registered(b)
        PROVE  Registered(b)' /\ records'[b].age = records[b].age
    <3>1. records[b] \in BeaconRecord
      BY <2>1 DEF Registered, TypeOK
    <3>2. records'[b] \in BeaconRecord
      BY <1>6, <3>1, RecordUpdates, Zenon
    <3> QED BY <1>6, <3>1, <3>2, AgeKept, Zenon DEF Registered
  <2> QED BY <1>2, <1>6, <2>1
<1>7. ASSUME NEW b \in Beacons, HandshakeListen(b) \/ HandshakeBroadcast(b)
      PROVE  Goal
  BY <1>3, <1>7 DEF HandshakeListen, HandshakeBroadcast, registry, task
<1>8. CASE TakeListen \/ TakeBroadcast \/ TakeBroadcastBlocked
  <2> DEFINE b == Head(topic_queue).beacon
             r == [EnsureRecord(b) EXCEPT !.broadcast_topic = TRUE]
  <2>1. b \in Beacons /\ CancelSweep
    BY <1>8, QueueTypes
       DEF TakeListen, TakeBroadcast, TakeBroadcastBlocked, TakeChannel, TopicChannel
  <2>2. EnsureRecord(b) \in BeaconRecord
    BY <2>1, EnsureRecordType
  <2>3. r \in BeaconRecord
    BY <2>2, RecordUpdates, Zenon
  <2>4. \/ records' = [records EXCEPT ![b] = EnsureRecord(b)]
        \/ records' = [records EXCEPT ![b] = r]
    BY <1>8 DEF TakeListen, TakeBroadcast, TakeBroadcastBlocked
  <2> HIDE DEF b, r
  <2> QED BY <1>5, <2>1, <2>2, <2>3, <2>4
<1>9. ASSUME NEW ok \in BOOLEAN, SubscribeReply(ok) PROVE Goal
  <2>1. CASE ok
    <3>1. records' = [records EXCEPT ![loop.beacon] =
                        IF @ = None THEN None
                        ELSE [@ EXCEPT !.listen_topic = TRUE]]
      BY <1>9, <2>1, Zenon DEF SubscribeReply
    <3> QED BY <1>6, <1>9, <3>1, Zenon DEF SubscribeReply, TypeOK
  <2>2. CASE ~ok
    <3>1. records' = records /\ sweep' = sweep
      BY <1>9, <2>2, Zenon DEF SubscribeReply
    <3> QED BY <1>3, <3>1
  <2> QED BY <2>1, <2>2
<1>10. CASE PushTopic
  BY <1>6, <1>10, Zenon DEF PushTopic, TypeOK
<1>11. ASSUME NEW from, NEW b \in Beacons, Registered(b)
       PROVE  SeenRecords(from)[b] \in BeaconRecord
  BY <1>11, RecordUpdates, Zenon DEF SeenRecords, TypeOK, Registered
<1>12. CASE OnMessageKnown
  <2>1. records' = SeenRecords(Head(inbound).from) /\ CancelSweep
    BY <1>12 DEF OnMessageKnown
  <2> QED BY <1>4, <1>11, <2>1 DEF CancelSweep, Registered
<1>13. ASSUME NEW l \in Links, OnMessageNewGateway(l) PROVE Goal
  <2> DEFINE from == Head(inbound).from
             url  == Head(inbound).gateway_url
  <2>1. CancelSweep /\ url \in Gateways
    BY <1>13, QueueTypes DEF OnMessageNewGateway, Message
  <2>2. \/ records' = records
        \/ /\ records' = [SeenRecords(from) EXCEPT
                            ![from].gateway_url = url,
                            ![from].gateway_shutdown_tx = l]
           /\ DOMAIN SeenRecords(from) = Beacons
    BY <1>13, Zenon DEF OnMessageNewGateway, SeenRecords
  <2> HIDE DEF from, url
  <2>3. ASSUME NEW b \in Beacons, Registered(b) PROVE Registered(b)'
    <3> DEFINE q == SeenRecords(from)[b]
    <3>1. CASE records' = records
      BY <2>3, <3>1 DEF Registered
    <3>2. CASE records' # records
      <4>1. q \in BeaconRecord
        BY <1>11, <2>3
      <4>2. [q EXCEPT !.gateway_url = url, !.gateway_shutdown_tx = l]
              \in BeaconRecord
        BY <2>1, <4>1, RecordUpdates, Zenon
      <4>3. \/ records'[b] = q
            \/ records'[b] = [q EXCEPT !.gateway_url = url,
                                       !.gateway_shutdown_tx = l]
        BY <2>2, <3>2, Zenon
      <4> HIDE DEF q
      <4> QED BY <4>1, <4>2, <4>3 DEF Registered
    <3> QED BY <3>1, <3>2
  <2> QED BY <1>4, <2>1, <2>3 DEF CancelSweep
<1>14. CASE SweepTick
  <2>1. records' = records /\ sweep'.todo \subseteq Stale
    BY <1>14 DEF SweepTick, IdleSweep, registry
  <2>2. StaleInv'
    BY <2>1 DEF StaleInv, Stale, Registered
  <2>3. DeregistersStale
    BY <2>1 DEF DeregistersStale, Registered
  <2> QED BY <2>2, <2>3
<1>15. ASSUME NEW b \in Beacons, SweepTake(b) PROVE Goal
  <2>1. b \in sweep.todo /\ sweep'.todo = sweep.todo \ {b}
    BY <1>15 DEF SweepTake
  <2>2. \A c \in Beacons : c # b => records'[c] = records[c]
    BY <1>15 DEF SweepTake, TypeOK
  <2>3. StaleInv'
    BY <1>1, <2>1, <2>2 DEF StaleInv, Registered
  <2>4. DeregistersStale
    BY <2>1, <2>2 DEF DeregistersStale, StaleInv, Registered
  <2> QED BY <2>3, <2>4
<1>16. ASSUME NEW ok \in BOOLEAN, SweepUnsubscribed(ok) PROVE Goal
  <2>1. records' = records /\ sweep'.todo = sweep.todo
    BY <1>16 DEF SweepUnsubscribed, registry, TypeOK, Sweep
  <2> QED BY <1>3, <2>1
<1>17. CASE SweepBlocked \/ SweepRetain
  <2>1. records' = records /\ sweep'.todo = sweep.todo
    BY <1>17 DEF SweepBlocked, SweepRetain, registry, TypeOK, Sweep
  <2> QED BY <1>3, <2>1
<1>18. CASE SweepEvict
  <2>1. records' = records /\ sweep'.todo \subseteq sweep.todo
    BY <1>18 DEF SweepEvict, IdleSweep
  <2> QED BY <1>3, <2>1
<1>19. CASE BroadcastLock \/ BroadcastUnlock
  BY <1>3, <1>19 DEF BroadcastLock, BroadcastUnlock, registry, task
<1>20. ASSUME NEW from, NEW url, Deliver(from, url) PROVE Goal
  BY <1>3, <1>20 DEF Deliver, registry, task
<1>21. CASE BrokerReconnect
  BY <1>3, <1>21 DEF BrokerReconnect, registry, task
<1>22. ASSUME NEW l \in Links, LinkStop(l) PROVE Goal
  BY <1>3, <1>22 DEF LinkStop, task
<1>23. CASE Tick
  <2>1. ASSUME NEW b \in Beacons, Registered(b) PROVE Registered(b)'
    <3>1. CASE records[b].age > BeaconTimeout
      BY <1>23, <2>1, <3>1 DEF Tick, Registered
    <3>2. CASE ~(records[b].age > BeaconTimeout)
      <4>1. records[b] \in BeaconRecord
        BY <2>1 DEF TypeOK, Registered
      <4>2. records[b].age \in Nat
        BY <4>1, RecordUpdates, Zenon
      <4>3. records[b].age <= BeaconTimeout
        BY <3>2, <4>2, BoundAssumption
      <4>4. records'[b] = [records[b] EXCEPT !.age = @ + 1]
        BY <1>23, <2>1, <3>2 DEF Tick, Registered
      <4>5. records'[b] \in BeaconRecord
        BY <4>1, <4>3, <4>4, RecordUpdates, Zenon
      <4> QED BY <4>5 DEF Registered
    <3> QED BY <3>1, <3>2
  <2>2. ASSUME NEW b \in sweep.todo PROVE records'[b] = records[b]
    BY <1>1, <1>23 DEF Tick, StaleInv
  <2>3. sweep' = sweep
    BY <1>23 DEF Tick
  <2> QED BY <1>2, <2>1, <2>2, <2>3
<1>24. CASE UNCHANGED vars
  BY <1>3, <1>24 DEF vars, registry, task
<1> QED
  BY <1>7, <1>8, <1>9, <1>10, <1>12, <1>13, <1>14, <1>15, <1>16, <1>17, <1>18,
     <1>19, <1>20, <1>21, <1>22, <1>23, <1>24
     DEF Next

-----------------------------------------------------------------------------
(* The theorems.                                                           *)

\* The three parts together are an invariant of the message loop.
LEMMA Inductive == Spec => [](TypeOK /\ LinkInv /\ StaleInv)
<1>1. Init => TypeOK /\ LinkInv /\ StaleInv
  BY TypeInit, LinkInit
<1>2. TypeOK /\ LinkInv /\ StaleInv /\ [Next]_vars
        => (TypeOK /\ LinkInv /\ StaleInv)'
  BY TypeNext, LinkNext, StaleNext
<1> QED BY <1>1, <1>2, PTL DEF Spec

\* new and check_timeouts keep the node's own gateway among the known ones for
\* every number of beacons, gateways and connections, so the message loop never
\* dials it.
THEOREM OwnGateway == Spec => []OwnGatewayNeverDialled
<1>1. LinkInv => OwnGatewayNeverDialled
  BY DEF LinkInv, OwnGatewayNeverDialled, SeedGateways
<1> QED BY <1>1, Inductive, PTL

\* The holder of a sender names the gateway that its connection serves.
LEMMA HolderNamesGateway ==
  ASSUME LinkInv, NEW l \in Links
  PROVE  /\ SweepHolds(l) => /\ sweep.record # None
                             /\ links[l].url = sweep.record.gateway_url
                             /\ sweep.record.gateway_url # None
         /\ \A b \in Beacons :
              RecordHolds(b, l) => /\ Registered(b)
                                   /\ links[l].url = records[b].gateway_url
                                   /\ records[b].gateway_url # None
<1> USE NoneAssumption
<1>1. ASSUME NEW r, HoldsOpenLink(r), r.gateway_shutdown_tx = l
      PROVE  links[l].url = r.gateway_url /\ r.gateway_url # None
  BY <1>1 DEF HoldsOpenLink
<1>2. SweepHolds(l) => sweep.record # None /\ HoldsOpenLink(sweep.record)
  BY DEF LinkInv, SweepHolds
<1>3. \A b \in Beacons : RecordHolds(b, l) => HoldsOpenLink(records[b])
  BY DEF LinkInv, RecordHolds
<1> QED BY <1>1, <1>2, <1>3 DEF SweepHolds, RecordHolds

\* No two holders of a gateway connection name the same gateway.
LEMMA GatewaysDiffer ==
  ASSUME LinkInv
  PROVE  /\ \A b, c \in Beacons :
              Registered(b) /\ Registered(c) /\ b # c
                /\ records[b].gateway_url # None
                => records[b].gateway_url # records[c].gateway_url
         /\ \A b \in Beacons :
              Registered(b) /\ sweep.record # None
                /\ sweep.record.gateway_url # None
                => records[b].gateway_url # sweep.record.gateway_url
BY DEF LinkInv

\* is_gateway_known and insert_gateway prevent duplicate connections although a
\* sweep can be cancelled between its steps.
THEOREM NoDuplicateLink == Spec => []OneOpenLinkPerGateway
<1>1. TypeOK /\ LinkInv => OneOpenLinkPerGateway
  <2> SUFFICES ASSUME TypeOK, LinkInv, NEW l1 \in Links, NEW l2 \in Links,
                      Open(l1), Open(l2), links[l1].url = links[l2].url
               PROVE  l1 = l2
    BY DEF OneOpenLinkPerGateway
  <2>3. CASE SweepHolds(l1) /\ SweepHolds(l2)
    BY <2>3 DEF SweepHolds
  <2>4. ASSUME NEW b \in Beacons, NEW l \in Links, NEW k \in Links,
               SweepHolds(l), RecordHolds(b, k), links[l].url = links[k].url
        PROVE  FALSE
    <3>1. /\ sweep.record # None /\ sweep.record.gateway_url # None
          /\ links[l].url = sweep.record.gateway_url
      BY <2>4, HolderNamesGateway
    <3>2. Registered(b) /\ links[k].url = records[b].gateway_url
      BY <2>4, HolderNamesGateway
    <3>3. records[b].gateway_url # sweep.record.gateway_url
      BY <3>1, <3>2, GatewaysDiffer
    <3> QED BY <2>4, <3>1, <3>2, <3>3, Zenon
  <2>5. ASSUME NEW b \in Beacons, NEW c \in Beacons,
               RecordHolds(b, l1), RecordHolds(c, l2)
        PROVE  l1 = l2
    <3>1. b = c
      <4>1. /\ Registered(b) /\ links[l1].url = records[b].gateway_url
            /\ records[b].gateway_url # None
        BY <2>5, HolderNamesGateway
      <4>2. Registered(c) /\ links[l2].url = records[c].gateway_url
        BY <2>5, HolderNamesGateway
      <4> QED BY <4>1, <4>2, GatewaysDiffer, Zenon
    <3> QED BY <2>5, <3>1 DEF RecordHolds
  <2>6. /\ SweepHolds(l1) \/ \E b \in Beacons : RecordHolds(b, l1)
        /\ SweepHolds(l2) \/ \E b \in Beacons : RecordHolds(b, l2)
    BY DEF LinkInv
  <2> QED BY <2>3, <2>4, <2>5, <2>6
<1> QED BY <1>1, Inductive, PTL

\* associate_gateway and check_timeouts leak no connection: each open one can
\* be torn down by exactly one record.
THEOREM NoLeakedLink == Spec => []OpenLinkHasOneHolder
<1>1. TypeOK /\ LinkInv => OpenLinkHasOneHolder
  <2> SUFFICES ASSUME TypeOK, LinkInv, NEW l \in Links, Open(l)
               PROVE  \/ SweepHolds(l) /\ \A b \in Beacons : ~RecordHolds(b, l)
                      \/ /\ ~SweepHolds(l)
                         /\ \E b \in Beacons :
                              /\ RecordHolds(b, l)
                              /\ \A c \in Beacons : RecordHolds(c, l) => c = b
    BY DEF OpenLinkHasOneHolder
  <2>3. ASSUME NEW b \in Beacons, SweepHolds(l), RecordHolds(b, l) PROVE FALSE
    <3>1. /\ sweep.record # None /\ sweep.record.gateway_url # None
          /\ links[l].url = sweep.record.gateway_url
      BY <2>3, HolderNamesGateway
    <3>2. Registered(b) /\ links[l].url = records[b].gateway_url
      BY <2>3, HolderNamesGateway
    <3> QED BY <3>1, <3>2, GatewaysDiffer
  <2>4. ASSUME NEW b \in Beacons, NEW c \in Beacons, RecordHolds(b, l), RecordHolds(c, l)
        PROVE  b = c
    <3>1. /\ Registered(b) /\ links[l].url = records[b].gateway_url
          /\ records[b].gateway_url # None
      BY <2>4, HolderNamesGateway
    <3>2. Registered(c) /\ links[l].url = records[c].gateway_url
      BY <2>4, HolderNamesGateway
    <3> QED BY <3>1, <3>2, GatewaysDiffer, Zenon
  <2>5. SweepHolds(l) \/ \E b \in Beacons : RecordHolds(b, l)
    BY DEF LinkInv
  <2> QED BY <2>3, <2>4, <2>5
<1> QED BY <1>1, Inductive, PTL

\* check_timeouts computes its stale list before its awaits; no beacon on the
\* list can be heard from before it is removed, because handling a message
\* cancels the sweep.
THEOREM DeregistrationOfStale == Spec => OnlyStaleDeregistered
<1>1. TypeOK /\ LinkInv /\ StaleInv /\ [Next]_vars => [DeregistersStale]_vars
  BY StaleNext
<1>2. Spec => [][DeregistersStale]_vars
  BY <1>1, Inductive, PTL DEF Spec
<1> QED BY <1>2 DEF OnlyStaleDeregistered, DeregistersStale
-----------------------------------------------------------------------------
(* The shared list of broadcast topics.                                    *)

BroadcastQueued(q) == {q[i].beacon : i \in {j \in DOMAIN q : q[j].topic_type = "Broadcast"}}
OneBroadcastEach(q) ==
    \A i, j \in DOMAIN q :
      q[i].topic_type = "Broadcast" /\ q[j].topic_type = "Broadcast"
        /\ q[i].beacon = q[j].beacon => i = j
Pushing == IF loop.at = "push" THEN {loop.beacon} ELSE {}

\* A handshake gives its beacon the right to one push, which is with the
\* handler, then in the channel, then with the loop, and is used up when the
\* topic is listed; and a beacon that is being swept has no record.
ListInv ==
    /\ RegisteredTopicListedOnce
    /\ OneBroadcastEach(topic_queue)
    /\ \A b \in Beacons :
         /\ b \in shaking \cup Pushing => b \notin BroadcastQueued(topic_queue)
         /\ b \in Pushing => b \notin shaking
         /\ b \in shaking \cup Pushing \cup BroadcastQueued(topic_queue)
              => broadcast_topics[b] = 0
    /\ sweep.cur # None => records[sweep.cur] = None

\* try_send puts a channel at the end of the queue.
LEMMA AppendChannel ==
    ASSUME NEW q \in Seq(TopicChannel), NEW c \in TopicChannel, OneBroadcastEach(q)
    PROVE  /\ c.topic_type = "Listen" =>
                /\ BroadcastQueued(Append(q, c)) = BroadcastQueued(q)
                /\ OneBroadcastEach(Append(q, c))
           /\ c.topic_type = "Broadcast" =>
                /\ BroadcastQueued(Append(q, c)) = BroadcastQueued(q) \cup {c.beacon}
                /\ c.beacon \notin BroadcastQueued(q) => OneBroadcastEach(Append(q, c))
<1> DEFINE r == Append(q, c)
           n == Len(q)
<1>0. /\ r \in Seq(TopicChannel) /\ Len(r) = n + 1
      /\ \A i \in 1..n : r[i] = q[i]
      /\ r[n + 1] = c
  BY AppendProperties
<1> HIDE DEF r
<1>1. /\ n \in Nat /\ DOMAIN q = 1..n /\ DOMAIN r = 1..(n + 1)
      /\ \A i \in 1..n : r[i] = q[i]
      /\ r[n + 1] = c
  BY <1>0, LenProperties
<1>2. DOMAIN r = DOMAIN q \cup {n + 1} /\ n + 1 \notin DOMAIN q
  BY <1>1
<1>3. \A i \in DOMAIN q : r[i] = q[i]
  BY <1>1
<1>4. r[n + 1] = c
  BY <1>1
<1> HIDE DEF r, n
<1>5. ASSUME c.topic_type = "Listen"
      PROVE  BroadcastQueued(r) = BroadcastQueued(q) /\ OneBroadcastEach(r)
  <2>1. BroadcastQueued(r) = BroadcastQueued(q)
    BY <1>2, <1>3, <1>4, <1>5 DEF BroadcastQueued
  <2>2. OneBroadcastEach(r)
    BY <1>2, <1>3, <1>4, <1>5 DEF OneBroadcastEach
  <2> QED
    BY <2>1, <2>2
<1>6. ASSUME c.topic_type = "Broadcast"
      PROVE  /\ BroadcastQueued(r) = BroadcastQueued(q) \cup {c.beacon}
             /\ c.beacon \notin BroadcastQueued(q) => OneBroadcastEach(r)
  <2>1. BroadcastQueued(r) = BroadcastQueued(q) \cup {c.beacon}
    BY <1>2, <1>3, <1>4, <1>6 DEF BroadcastQueued
  <2>2. c.beacon \notin BroadcastQueued(q) => OneBroadcastEach(r)
    BY <1>2, <1>3, <1>4, <1>6 DEF BroadcastQueued, OneBroadcastEach
  <2> QED
    BY <2>1, <2>2
<1> QED
  BY <1>5, <1>6 DEF r

\* recv takes the channel at the front; a broadcast channel was the only one of
\* its beacon.
LEMMA TailChannel ==
    ASSUME NEW q \in Seq(TopicChannel), q # <<>>, OneBroadcastEach(q)
    PROVE  /\ OneBroadcastEach(Tail(q))
           /\ BroadcastQueued(Tail(q)) \subseteq BroadcastQueued(q)
           /\ Head(q).topic_type = "Broadcast" =>
                Head(q).beacon \in BroadcastQueued(q) \ BroadcastQueued(Tail(q))
<1> DEFINE r == Tail(q)
           n == Len(q)
<1>1. /\ n \in Nat /\ n > 0 /\ DOMAIN q = 1..n /\ DOMAIN r = 1..(n - 1)
      /\ \A i \in 1..(n - 1) : r[i] = q[i + 1]
      /\ Head(q) = q[1]
  BY HeadTailProperties, LenProperties, EmptySeq
<1>2. 1 \in DOMAIN q
  BY <1>1
<1>3. \A i \in DOMAIN r : i + 1 \in DOMAIN q /\ r[i] = q[i + 1] /\ i + 1 # 1
  BY <1>1
<1>4. \A i, j \in DOMAIN r : i + 1 = j + 1 => i = j
  BY <1>1
<1>5. Head(q) = q[1]
  BY <1>1
<1> HIDE DEF r, n
<1>6. OneBroadcastEach(r)
  <2> SUFFICES ASSUME NEW i \in DOMAIN r, NEW j \in DOMAIN r,
                      r[i].topic_type = "Broadcast", r[j].topic_type = "Broadcast",
                      r[i].beacon = r[j].beacon
               PROVE  i = j
    BY DEF OneBroadcastEach
  <2>1. i + 1 = j + 1
    BY <1>3 DEF OneBroadcastEach
  <2> QED
    BY <1>4, <2>1
<1>7. BroadcastQueued(r) \subseteq BroadcastQueued(q)
  BY <1>3 DEF BroadcastQueued
<1>8. ASSUME Head(q).topic_type = "Broadcast"
      PROVE  Head(q).beacon \in BroadcastQueued(q) \ BroadcastQueued(r)
  <2>1. Head(q).beacon \in BroadcastQueued(q)
    BY <1>2, <1>5, <1>8 DEF BroadcastQueued
  <2>2. ASSUME Head(q).beacon \in BroadcastQueued(r) PROVE FALSE
    <3>1. PICK i \in DOMAIN r : r[i].topic_type = "Broadcast" /\ r[i].beacon = Head(q).beacon
      BY <2>2 DEF BroadcastQueued
    <3> QED
      BY <1>2, <1>3, <1>5, <1>8, <3>1 DEF OneBroadcastEach
  <2> QED
    BY <2>1, <2>2
<1> QED
  BY <1>6, <1>7, <1>8 DEF r

\* A step that neither pushes nor moves a push, records no broadcast topic and
\* gives no record to a beacon being swept.
LEMMA ListFrame ==
    ASSUME ListInv, UNCHANGED <<broadcast_topics, topic_queue, shaking>>, Pushing' = Pushing,
           \A b \in Beacons : records'[b] # None /\ records'[b].broadcast_topic
                               => records[b] # None /\ records[b].broadcast_topic,
           sweep'.cur # None => records'[sweep'.cur] = None
    PROVE  ListInv'
<1>1. RegisteredTopicListedOnce'
  BY DEF ListInv, RegisteredTopicListedOnce, Registered
<1> QED
  BY <1>1 DEF ListInv

\* A step that takes the channel at the front cancels the sweep.
LEMMA TakeFacts ==
    ASSUME TypeOK, ListInv, NEW type, TakeChannel(type)
    PROVE  /\ Head(topic_queue) \in TopicChannel /\ Head(topic_queue).beacon \in Beacons
           /\ Head(topic_queue).topic_type = type
           /\ OneBroadcastEach(topic_queue')
           /\ BroadcastQueued(topic_queue') \subseteq BroadcastQueued(topic_queue)
           /\ type = "Broadcast" => Head(topic_queue).beacon
                 \in BroadcastQueued(topic_queue) \ BroadcastQueued(topic_queue')
           /\ Pushing = {} /\ sweep'.cur = None /\ shaking' = shaking
<1>1. /\ topic_queue \in Seq(TopicChannel) /\ topic_queue # <<>>
      /\ topic_queue' = Tail(topic_queue) /\ Head(topic_queue).topic_type = type
      /\ shaking' = shaking
  BY DEF TakeChannel, TypeOK
<1>2. Head(topic_queue) \in TopicChannel /\ Head(topic_queue).beacon \in Beacons
  <2>1. Head(topic_queue) \in TopicChannel
    BY <1>1, QueueTypes
  <2> QED BY <2>1 DEF TopicChannel
<1>3. OneBroadcastEach(topic_queue)
  BY DEF ListInv
<1>4. Pushing = {} /\ sweep'.cur = None
  BY DEF TakeChannel, Selecting, CancelSweep, IdleSweep, Pushing
<1> QED
  BY <1>1, <1>2, <1>3, <1>4, TailChannel

\* The updates of a record that leave its broadcast topic alone.
LEMMA TopicKept ==
  ASSUME NEW r \in BeaconRecord
  PROVE  /\ [r EXCEPT !.listen_topic = TRUE].broadcast_topic = r.broadcast_topic
         /\ [r EXCEPT !.age = 0].broadcast_topic = r.broadcast_topic
         /\ [r EXCEPT !.age = @ + 1].broadcast_topic = r.broadcast_topic
         /\ \A g, l : [r EXCEPT !.gateway_url = g, !.gateway_shutdown_tx = l].broadcast_topic
                       = r.broadcast_topic
<1> USE DEF BeaconRecord
<1>1. [r EXCEPT !.listen_topic = TRUE].broadcast_topic = r.broadcast_topic  OBVIOUS
<1>2. [r EXCEPT !.age = 0].broadcast_topic = r.broadcast_topic  OBVIOUS
<1>3. [r EXCEPT !.age = @ + 1].broadcast_topic = r.broadcast_topic  OBVIOUS
<1>4. ASSUME NEW g, NEW l
      PROVE  [r EXCEPT !.gateway_url = g, !.gateway_shutdown_tx = l].broadcast_topic
               = r.broadcast_topic
  OBVIOUS
<1> QED BY <1>1, <1>2, <1>3, <1>4

\* A step that changes what is listed of one beacon: it is listed once, or is
\* neither listed nor registered.
LEMMA ListedElsewhere ==
  ASSUME RegisteredTopicListedOnce, NEW b \in Beacons,
         broadcast_topics'[b] = 1 \/ (broadcast_topics'[b] = 0 /\ records'[b] = None),
         \A c \in Beacons \ {b} : /\ broadcast_topics'[c] = broadcast_topics[c]
                                  /\ records'[c] = records[c]
  PROVE  RegisteredTopicListedOnce'
<1> SUFFICES ASSUME NEW c \in Beacons
             PROVE  /\ broadcast_topics'[c] <= 1
                    /\ records'[c] # None /\ records'[c].broadcast_topic
                         => broadcast_topics'[c] = 1
  BY DEF RegisteredTopicListedOnce, Registered
<1>1. CASE c = b
  BY <1>1
<1>2. CASE c # b
  <2>1. broadcast_topics'[c] = broadcast_topics[c] /\ records'[c] = records[c]
    BY <1>2
  <2>2. /\ broadcast_topics[c] <= 1
        /\ records[c] # None /\ records[c].broadcast_topic => broadcast_topics[c] = 1
    BY DEF RegisteredTopicListedOnce, Registered
  <2> QED BY <2>1, <2>2
<1> QED BY <1>1, <1>2

\* Every step preserves ListInv: a push is used once, and a topic is taken off
\* the list only after its beacon's record.
LEMMA ListNext == TypeOK /\ ListInv /\ [Next]_vars => ListInv'
<1> SUFFICES ASSUME TypeOK, ListInv, [Next]_vars PROVE ListInv'
  OBVIOUS
<1> USE NoneAssumption, NoneIsNoRecord
<1>t. /\ topic_queue \in Seq(TopicChannel) /\ OneBroadcastEach(topic_queue)
      /\ records \in [Beacons -> BeaconRecord \cup {None}]
      /\ broadcast_topics \in [Beacons -> Nat]
  BY DEF TypeOK, ListInv
<1>c. sweep.cur \in Beacons \cup {None}
  BY DEF TypeOK, Sweep
<1>1. ASSUME UNCHANGED <<broadcast_topics, topic_queue, shaking, records>>,
             Pushing' = Pushing, sweep'.cur \in {None, sweep.cur}
      PROVE  ListInv'
  BY <1>1, ListFrame DEF ListInv
<1>2. ASSUME NEW b \in Beacons, HandshakeListen(b) PROVE ListInv'
  <2> DEFINE c == [beacon |-> b, topic_type |-> "Listen"]
  <2>1. c \in TopicChannel /\ c.topic_type = "Listen"
    BY DEF TopicChannel
  <2>2. topic_queue' \in {topic_queue, Append(topic_queue, c)}
    BY <1>2 DEF HandshakeListen, TrySend
  <2> HIDE DEF c
  <2>3. /\ BroadcastQueued(topic_queue') = BroadcastQueued(topic_queue)
        /\ OneBroadcastEach(topic_queue')
    <3>1. /\ BroadcastQueued(Append(topic_queue, c)) = BroadcastQueued(topic_queue)
          /\ OneBroadcastEach(Append(topic_queue, c))
      BY <1>t, <2>1, AppendChannel
    <3> QED BY <1>t, <2>2, <3>1, Zenon
  <2>4. /\ shaking' = shaking \cup {b} /\ Pushing' = Pushing
        /\ UNCHANGED <<records, broadcast_topics, sweep>>
    BY <1>2 DEF HandshakeListen, registry, task, shared, Pushing
  <2>5. b \notin BroadcastQueued(topic_queue) \cup Pushing /\ broadcast_topics[b] = 0
    BY <1>2 DEF HandshakeListen, Fresh, BroadcastQueued, Pushing
  <2>6. RegisteredTopicListedOnce'
    BY <2>4 DEF ListInv, RegisteredTopicListedOnce, Registered
  <2> QED BY <2>3, <2>4, <2>5, <2>6 DEF ListInv
<1>3. ASSUME NEW b \in Beacons, HandshakeBroadcast(b) PROVE ListInv'
  <2> DEFINE c == [beacon |-> b, topic_type |-> "Broadcast"]
  <2>1. c \in TopicChannel /\ c.topic_type = "Broadcast" /\ c.beacon = b
    BY DEF TopicChannel
  <2>2. topic_queue' \in {topic_queue, Append(topic_queue, c)}
    BY <1>3 DEF HandshakeBroadcast, TrySend
  <2> HIDE DEF c
  <2>3. /\ b \in shaking /\ shaking' = shaking \ {b} /\ Pushing' = Pushing
        /\ UNCHANGED <<records, broadcast_topics, sweep>>
    BY <1>3 DEF HandshakeBroadcast, registry, task, shared, Pushing
  <2>4. b \notin BroadcastQueued(topic_queue) \cup Pushing /\ broadcast_topics[b] = 0
    BY <2>3 DEF ListInv
  <2>5. /\ BroadcastQueued(topic_queue') \subseteq BroadcastQueued(topic_queue) \cup {b}
        /\ OneBroadcastEach(topic_queue')
    BY <1>t, <2>1, <2>2, <2>4, AppendChannel
  <2>6. RegisteredTopicListedOnce'
    BY <2>3 DEF ListInv, RegisteredTopicListedOnce, Registered
  <2> QED BY <2>3, <2>4, <2>5, <2>6 DEF ListInv
<1>4. CASE TakeListen
  <2> DEFINE b == Head(topic_queue).beacon
  <2>1. /\ TakeChannel("Listen") /\ UNCHANGED broadcast_topics
        /\ records' = [records EXCEPT ![b] = EnsureRecord(b)]
        /\ loop'.at = "subscribe"
    BY <1>4 DEF TakeListen
  <2>2. /\ OneBroadcastEach(topic_queue')
        /\ BroadcastQueued(topic_queue') \subseteq BroadcastQueued(topic_queue)
        /\ Pushing = {} /\ sweep'.cur = None /\ shaking' = shaking /\ b \in Beacons
    BY <2>1, TakeFacts
  <2>3. Pushing' = {}
    BY <2>1 DEF Pushing
  <2> HIDE DEF b
  <2>4. NewRecord.broadcast_topic = FALSE
    BY DEF NewRecord
  <2>5. RegisteredTopicListedOnce'
    BY <1>t, <2>1, <2>2, <2>4 DEF ListInv, RegisteredTopicListedOnce, Registered, EnsureRecord
  <2> QED BY <2>1, <2>2, <2>3, <2>5 DEF ListInv
<1>5. ASSUME NEW ok \in BOOLEAN, SubscribeReply(ok) PROVE ListInv'
  <2>1. /\ UNCHANGED <<broadcast_topics, topic_queue, shaking, sweep>>
        /\ loop.at = "subscribe" /\ loop'.at = "select"
    BY <1>5 DEF SubscribeReply, shared, queues
  <2>2. Pushing' = Pushing
    BY <2>1 DEF Pushing
  <2>3. \/ records' = records
        \/ records' = [records EXCEPT ![loop.beacon] =
                          IF @ = None THEN None ELSE [@ EXCEPT !.listen_topic = TRUE]]
    BY <1>5 DEF SubscribeReply
  <2>4. ASSUME NEW b \in Beacons
        PROVE  /\ records[b] = None => records'[b] = None
               /\ records'[b] # None /\ records'[b].broadcast_topic
                    => records[b] # None /\ records[b].broadcast_topic
    <3>1. \/ records'[b] = records[b]
          \/ records[b] # None /\ records'[b] = [records[b] EXCEPT !.listen_topic = TRUE]
      BY <1>t, <2>3
    <3>2. records[b] # None => records[b] \in BeaconRecord
      BY <1>t
    <3> QED BY <3>1, <3>2, TopicKept, Zenon
  <2>5. sweep'.cur # None => records'[sweep'.cur] = None
    BY <1>c, <2>1, <2>4 DEF ListInv
  <2> QED BY <2>1, <2>2, <2>4, <2>5, ListFrame
<1>6. CASE TakeBroadcast
  <2> DEFINE b == Head(topic_queue).beacon
             r == [EnsureRecord(b) EXCEPT !.broadcast_topic = TRUE]
  <2>1. /\ TakeChannel("Broadcast") /\ UNCHANGED loop
        /\ records' = [records EXCEPT ![b] = r]
        /\ broadcast_topics' = [broadcast_topics EXCEPT ![b] = @ + 1]
    BY <1>6 DEF TakeBroadcast, Pushed
  <2>2. /\ OneBroadcastEach(topic_queue') /\ b \in Beacons
        /\ BroadcastQueued(topic_queue') \subseteq BroadcastQueued(topic_queue)
        /\ b \in BroadcastQueued(topic_queue) \ BroadcastQueued(topic_queue')
        /\ Pushing = {} /\ sweep'.cur = None /\ shaking' = shaking
    BY <2>1, TakeFacts
  <2>3. Pushing' = {}
    BY <2>1, <2>2 DEF Pushing
  <2> HIDE DEF b, r
  <2>4. broadcast_topics[b] = 0 /\ b \notin shaking
    BY <2>2 DEF ListInv
  <2>5. /\ broadcast_topics'[b] = 1
        /\ \A c \in Beacons \ {b} : /\ broadcast_topics'[c] = broadcast_topics[c]
                                     /\ records'[c] = records[c]
    BY <1>t, <2>1, <2>2, <2>4
  <2>6. RegisteredTopicListedOnce'
    <3>1. RegisteredTopicListedOnce
      BY DEF ListInv
    <3> QED BY <2>2, <2>5, <3>1, ListedElsewhere
  <2> QED BY <2>2, <2>3, <2>4, <2>5, <2>6 DEF ListInv
<1>7. CASE TakeBroadcastBlocked
  <2> DEFINE b == Head(topic_queue).beacon
  <2>1. /\ TakeChannel("Broadcast") /\ UNCHANGED broadcast_topics
        /\ records' = [records EXCEPT ![b] = EnsureRecord(b)]
        /\ loop' = [at |-> "push", beacon |-> b]
    BY <1>7 DEF TakeBroadcastBlocked
  <2>2. /\ OneBroadcastEach(topic_queue') /\ b \in Beacons
        /\ BroadcastQueued(topic_queue') \subseteq BroadcastQueued(topic_queue)
        /\ b \in BroadcastQueued(topic_queue) \ BroadcastQueued(topic_queue')
        /\ Pushing = {} /\ sweep'.cur = None /\ shaking' = shaking
    BY <2>1, TakeFacts, Zenon
  <2>3. Pushing' = {b}
    BY <2>1 DEF Pushing
  <2> HIDE DEF b
  <2>4. broadcast_topics[b] = 0 /\ b \notin shaking
    BY <2>2 DEF ListInv
  <2>5. NewRecord.broadcast_topic = FALSE
    BY DEF NewRecord
  <2>6. RegisteredTopicListedOnce'
    BY <1>t, <2>1, <2>2, <2>5 DEF ListInv, RegisteredTopicListedOnce, Registered, EnsureRecord
  <2> QED BY <2>1, <2>2, <2>3, <2>4, <2>6 DEF ListInv
<1>8. CASE PushTopic
  <2> DEFINE b == loop.beacon
  <2>1. /\ Pushing = {b} /\ Pushing' = {} /\ b \in Beacons
        /\ UNCHANGED <<topic_queue, shaking, sweep>>
        /\ broadcast_topics' = [broadcast_topics EXCEPT ![b] = @ + 1]
    BY <1>8 DEF PushTopic, Pushing, Pushed, queues, TypeOK, Loop
  <2>2. records' = [records EXCEPT ![b] = IF @ = None THEN None
                                          ELSE [@ EXCEPT !.broadcast_topic = TRUE]]
    BY <1>8 DEF PushTopic
  <2> HIDE DEF b
  <2>3. /\ broadcast_topics[b] = 0 /\ b \notin shaking
        /\ b \notin BroadcastQueued(topic_queue)
    BY <2>1 DEF ListInv
  <2>4. /\ broadcast_topics'[b] = 1
        /\ records[b] = None => records'[b] = None
        /\ \A c \in Beacons \ {b} : /\ broadcast_topics'[c] = broadcast_topics[c]
                                     /\ records'[c] = records[c]
    BY <1>t, <2>1, <2>2, <2>3
  <2>5. RegisteredTopicListedOnce'
    <3>1. RegisteredTopicListedOnce
      BY DEF ListInv
    <3> QED BY <2>1, <2>4, <3>1, ListedElsewhere
  <2>6. sweep'.cur # None => records'[sweep'.cur] = None
    BY <1>c, <2>1, <2>4 DEF ListInv
  <2> QED BY <2>1, <2>3, <2>4, <2>5, <2>6 DEF ListInv
<1>9. ASSUME NEW from, NEW b \in Beacons
      PROVE  /\ SeenRecords(from)[b] = None <=> records[b] = None
             /\ records[b] # None =>
                  /\ SeenRecords(from)[b] \in BeaconRecord
                  /\ SeenRecords(from)[b].broadcast_topic = records[b].broadcast_topic
  <2>1. \/ SeenRecords(from)[b] = records[b]
        \/ records[b] # None /\ SeenRecords(from)[b] = [records[b] EXCEPT !.age = 0]
    BY DEF SeenRecords
  <2>2. records[b] # None => records[b] \in BeaconRecord
    BY <1>t
  <2> QED BY <2>1, <2>2, RecordUpdates, TopicKept, Zenon
<1>10. CASE OnMessageKnown
  <2>1. /\ UNCHANGED <<broadcast_topics, topic_queue, shaking, loop>>
        /\ records' = SeenRecords(Head(inbound).from) /\ sweep'.cur = None
    BY <1>10 DEF OnMessageKnown, shared, CancelSweep, IdleSweep
  <2>2. Pushing' = Pushing
    BY <2>1 DEF Pushing
  <2>3. \A b \in Beacons : records'[b] # None /\ records'[b].broadcast_topic
                           => records[b] # None /\ records[b].broadcast_topic
    BY <1>9, <2>1
  <2> QED BY <2>1, <2>2, <2>3, ListFrame
<1>11. ASSUME NEW l \in Links, OnMessageNewGateway(l) PROVE ListInv'
  <2> DEFINE from == Head(inbound).from
             url  == Head(inbound).gateway_url
  <2>1. UNCHANGED <<broadcast_topics, topic_queue, shaking, loop>> /\ sweep'.cur = None
    BY <1>11 DEF OnMessageNewGateway, shared, CancelSweep, IdleSweep
  <2>2. Pushing' = Pushing
    BY <2>1 DEF Pushing
  <2>3. \/ records' = records
        \/ /\ records' = [SeenRecords(from) EXCEPT
                            ![from].gateway_url = url,
                            ![from].gateway_shutdown_tx = l]
           /\ DOMAIN SeenRecords(from) = Beacons /\ records[from] # None
    BY <1>11, Zenon DEF OnMessageNewGateway, SeenRecords
  <2> HIDE DEF from, url
  <2>4. ASSUME NEW b \in Beacons, records'[b] # None, records'[b].broadcast_topic
        PROVE  records[b] # None /\ records[b].broadcast_topic
    <3> DEFINE q == SeenRecords(from)[b]
    <3>1. \/ records'[b] = records[b]
          \/ records'[b] = q
          \/ /\ records'[b] = [q EXCEPT !.gateway_url = url, !.gateway_shutdown_tx = l]
             /\ records[b] # None
      BY <2>3, Zenon
    <3>2. records[b] # None => q \in BeaconRecord /\ q.broadcast_topic = records[b].broadcast_topic
      BY <1>9
    <3>3. q = None <=> records[b] = None
      BY <1>9
    <3> HIDE DEF q
    <3>4. CASE records'[b] = records[b]
      BY <2>4, <3>4
    <3>5. CASE records'[b] = q
      BY <2>4, <3>2, <3>3, <3>5
    <3>6. CASE /\ records'[b] = [q EXCEPT !.gateway_url = url, !.gateway_shutdown_tx = l]
               /\ records[b] # None
      <4>1. records'[b].broadcast_topic = q.broadcast_topic
        BY <3>2, <3>6, TopicKept
      <4> QED BY <2>4, <3>2, <3>6, <4>1
    <3> QED BY <3>1, <3>4, <3>5, <3>6
  <2> QED BY <2>1, <2>2, <2>4, ListFrame
<1>12. ASSUME NEW b \in Beacons, SweepTake(b) PROVE ListInv'
  <2>1. /\ UNCHANGED <<broadcast_topics, topic_queue, shaking, loop>>
        /\ sweep'.cur = b /\ records' = [records EXCEPT ![b] = None]
    BY <1>12 DEF SweepTake, shared, queues
  <2>2. Pushing' = Pushing
    BY <2>1 DEF Pushing
  <2>3. /\ records'[b] = None
        /\ \A c \in Beacons : records'[c] # None => records'[c] = records[c]
    BY <1>t, <2>1
  <2> QED BY <2>1, <2>2, <2>3, ListFrame
<1>13. CASE SweepRetain
  <2> DEFINE b == sweep.cur
  <2>1. /\ b \in Beacons /\ sweep'.cur = b
        /\ UNCHANGED <<records, topic_queue, shaking, loop>>
        /\ broadcast_topics' = [broadcast_topics EXCEPT ![b] = 0]
    BY <1>13 DEF SweepRetain, registry, queues, TypeOK, Sweep
  <2>2. Pushing' = Pushing
    BY <2>1 DEF Pushing
  <2> HIDE DEF b
  <2>3. records[b] = None
    BY <2>1 DEF ListInv, b
  <2>4. broadcast_topics'[b] = 0 /\ \A c \in Beacons \ {b} :
           broadcast_topics'[c] = broadcast_topics[c]
    BY <1>t, <2>1
  <2>5. RegisteredTopicListedOnce'
    <3>1. RegisteredTopicListedOnce
      BY DEF ListInv
    <3> QED BY <2>1, <2>3, <2>4, <3>1, ListedElsewhere
  <2> QED BY <2>1, <2>2, <2>3, <2>4, <2>5, Zenon DEF ListInv
<1>14. CASE Tick
  <2>1. UNCHANGED <<broadcast_topics, topic_queue, shaking, loop, sweep>>
    BY <1>14 DEF Tick, shared, queues
  <2>2. Pushing' = Pushing
    BY <2>1 DEF Pushing
  <2>3. ASSUME NEW b \in Beacons
        PROVE  /\ records[b] = None => records'[b] = None
               /\ records'[b] # None /\ records'[b].broadcast_topic
                    => records[b] # None /\ records[b].broadcast_topic
    <3>1. \/ records'[b] = records[b]
          \/ records[b] # None /\ records'[b] = [records[b] EXCEPT !.age = @ + 1]
      BY <1>14 DEF Tick
    <3>2. records[b] # None => records[b] \in BeaconRecord
      BY <1>t
    <3> QED BY <3>1, <3>2, TopicKept, Zenon
  <2>4. sweep'.cur # None => records'[sweep'.cur] = None
    BY <1>c, <2>1, <2>3 DEF ListInv
  <2> QED BY <2>1, <2>2, <2>3, <2>4, ListFrame
<1>15. ASSUME NEW ok \in BOOLEAN, SweepUnsubscribed(ok) PROVE ListInv'
  <2>1. sweep'.cur = sweep.cur
    BY <1>15 DEF SweepUnsubscribed, TypeOK, Sweep
  <2> QED BY <1>1, <1>15, <2>1 DEF SweepUnsubscribed, registry, shared, queues, Pushing
<1>16. CASE SweepTick \/ SweepBlocked \/ SweepEvict
  <2>1. sweep'.cur \in {None, sweep.cur}
    <3>1. CASE SweepTick \/ SweepEvict
      <4>1. \/ sweep' = IdleSweep
            \/ \E S : sweep' = [IdleSweep EXCEPT !.at = "take", !.todo = S]
        BY <3>1, Zenon DEF SweepTick, SweepEvict
      <4>2. \A S : [IdleSweep EXCEPT !.at = "take", !.todo = S].cur = None
        BY DEF IdleSweep
      <4>3. IdleSweep.cur = None
        BY DEF IdleSweep
      <4> QED BY <4>1, <4>2, <4>3
    <3>2. CASE SweepBlocked
      BY <3>2 DEF SweepBlocked, TypeOK, Sweep
    <3> QED BY <1>16, <3>1, <3>2
  <2> QED
    BY <1>1, <1>16, <2>1
       DEF SweepTick, SweepBlocked, SweepEvict, registry, shared, queues, Pushing
<1>17. CASE BroadcastLock \/ BroadcastUnlock \/ BrokerReconnect \/ UNCHANGED vars
  BY <1>1, <1>17 DEF BroadcastLock, BroadcastUnlock, BrokerReconnect, vars,
                     registry, task, shared, queues, Pushing
<1>18. ASSUME NEW l \in Links, LinkStop(l) PROVE ListInv'
  BY <1>1, <1>18 DEF LinkStop, task, shared, queues, Pushing
<1>19. ASSUME NEW from, NEW url, Deliver(from, url) PROVE ListInv'
  BY <1>1, <1>19 DEF Deliver, registry, task, shared, Pushing
<1> QED
  BY <1>2, <1>3, <1>4, <1>5, <1>6, <1>7, <1>8, <1>10, <1>11, <1>12, <1>13, <1>14, <1>15,
     <1>16, <1>17, <1>18, <1>19
     DEF Next

\* For every number of beacons and every queue, the broadcast loop publishes to
\* a registered beacon's topic, and once per cycle: register_channel pushes a
\* topic once, and check_timeouts never takes it away from a beacon that stays.
THEOREM TopicListedOnce == Spec => []RegisteredTopicListedOnce
<1>1. Init => ListInv
  <2> SUFFICES ASSUME Init PROVE ListInv
    OBVIOUS
  <2>1. DOMAIN topic_queue = {} /\ sweep.cur = None
    BY DEF Init, IdleSweep
  <2>2. \A b \in Beacons : broadcast_topics[b] = 0 /\ records[b] = None
    BY DEF Init
  <2>3. shaking = {} /\ Pushing = {}
    BY DEF Init, Pushing
  <2>4. OneBroadcastEach(topic_queue) /\ RegisteredTopicListedOnce
    BY <2>1, <2>2 DEF OneBroadcastEach, RegisteredTopicListedOnce, Registered
  <2> QED BY <2>1, <2>2, <2>3, <2>4 DEF ListInv
<1>2. ListInv => RegisteredTopicListedOnce
  BY DEF ListInv
<1> QED
  BY <1>1, <1>2, TypeCorrect, ListNext, PTL DEF Spec

-----------------------------------------------------------------------------
(* The registry and the connection tasks.                                  *)

\* What the holder of the sender knows of the task l.
LinkStatus(l) == IF links[l] = None THEN "stopped" ELSE IF links[l].told THEN "told" ELSE "open"
Link(l) == INSTANCE ConnectionTask WITH status <- LinkStatus(l)

\* Every live connection task takes the steps of ConnectionTask, or none, and
\* serves the gateway it was spawned for.
LinksAreTasks ==
    \A l \in Links : links[l] # None =>
      /\ Link(l)!Next \/ LinkStatus(l)' = LinkStatus(l)
      /\ links'[l] # None => links'[l].url = links[l].url

\* Dropping senders tells tasks to stop and does nothing else to them.
LEMMA DropTells ==
  ASSUME TypeOK, NEW S, NEW l \in Links, links[l] # None, links'[l] = DropSenders(S)[l]
  PROVE  /\ Link(l)!Tell \/ LinkStatus(l)' = LinkStatus(l)
         /\ links'[l] # None /\ links'[l].url = links[l].url
<1>1. links[l] \in LinkTask
  BY DEF TypeOK
<1>2. links'[l] \in {links[l], [links[l] EXCEPT !.told = TRUE]}
  BY DEF DropSenders
<1>3. CASE links'[l] = links[l]
  BY <1>3 DEF LinkStatus
<1>4. CASE links'[l] = [links[l] EXCEPT !.told = TRUE]
  <2>1. links'[l] \in LinkTask /\ links'[l].told /\ links'[l].url = links[l].url
    BY <1>1, <1>4 DEF LinkTask
  <2>2. links'[l] # None
    BY <2>1, NoneIsNoRecord
  <2>3. LinkStatus(l)' = "told"
    BY <2>1, <2>2 DEF LinkStatus
  <2>4. LinkStatus(l) \in {"open", "told"}
    BY DEF LinkStatus
  <2> QED BY <2>1, <2>2, <2>3, <2>4 DEF Link!Tell
<1> QED BY <1>2, <1>3, <1>4, Zenon

\* The registry deals with its connection tasks as ConnectionTask allows, the
\* specification that spawn_connection_task and the GatewayMqtt task are shown to
\* implement: it tells a task to stop at most once and only by dropping its
\* sender, and a task that was not told stays.
THEOREM LinksFollowConnectionTask == Spec => [][LinksAreTasks]_vars
<1>1. ASSUME TypeOK, [Next]_vars PROVE [LinksAreTasks]_vars
  <2>1. ASSUME \A l \in Links : links'[l] = links[l] PROVE LinksAreTasks
    BY <2>1 DEF LinksAreTasks, LinkStatus
  <2>2. ASSUME NEW S, \A l \in Links : links[l] # None => links'[l] = DropSenders(S)[l]
        PROVE  LinksAreTasks
    BY <1>1, <2>2, DropTells DEF LinksAreTasks, Link!Next
  <2>3. CASE TakeListen \/ TakeBroadcast \/ TakeBroadcastBlocked \/ OnMessageKnown \/ SweepEvict
    BY <2>2, <2>3 DEF TakeListen, TakeBroadcast, TakeBroadcastBlocked, TakeChannel,
                      OnMessageKnown, SweepEvict
  <2>4. ASSUME NEW l \in Links, OnMessageNewGateway(l) PROVE LinksAreTasks
    <3>1. /\ links[l] = None
          /\ \E S, t : links' = [DropSenders(S) EXCEPT ![l] = t]
      BY <2>4, Zenon DEF OnMessageNewGateway
    <3>2. PICK S, t : links' = [DropSenders(S) EXCEPT ![l] = t]
      BY <3>1, Zenon
    <3>3. \A k \in Links : links[k] # None => links'[k] = DropSenders(S)[k]
      BY <3>1, <3>2 DEF DropSenders
    <3> QED BY <2>2, <3>3
  <2>5. ASSUME NEW l \in Links, LinkStop(l) PROVE LinksAreTasks
    <3>1. /\ links[l] # None /\ links[l].told /\ links'[l] = None
          /\ \A k \in Links \ {l} : links'[k] = links[k]
      BY <1>1, <2>5 DEF LinkStop, TypeOK
    <3>2. Link(l)!Next
      BY <3>1 DEF Link!Next, Link!Stop, LinkStatus
    <3> QED BY <3>1, <3>2 DEF LinksAreTasks, LinkStatus
  <2>6. ASSUME NEW b \in Beacons, HandshakeListen(b) \/ HandshakeBroadcast(b) \/ SweepTake(b)
        PROVE  LinksAreTasks
    BY <2>1, <2>6, Zenon DEF HandshakeListen, HandshakeBroadcast, SweepTake, registry
  <2>7. ASSUME NEW ok \in BOOLEAN, SubscribeReply(ok) \/ SweepUnsubscribed(ok) PROVE LinksAreTasks
    BY <2>1, <2>7 DEF SubscribeReply, SweepUnsubscribed, registry
  <2>8. ASSUME NEW from, NEW url, Deliver(from, url) PROVE LinksAreTasks
    BY <2>1, <2>8 DEF Deliver, registry
  <2>9. CASE PushTopic \/ SweepTick \/ SweepBlocked \/ SweepRetain \/ BroadcastLock
             \/ BroadcastUnlock \/ BrokerReconnect \/ Tick
    BY <2>1, <2>9 DEF PushTopic, SweepTick, SweepBlocked, SweepRetain, BroadcastLock,
                      BroadcastUnlock, BrokerReconnect, Tick, registry
  <2> QED BY <1>1, <2>3, <2>4, <2>5, <2>6, <2>7, <2>8, <2>9 DEF Next
<1> QED BY <1>1, TypeCorrect, PTL DEF Spec
=============================================================================
