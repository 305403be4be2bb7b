# PlaceNet Hamlet in TLA+

A Hamlet is one node of PlaceNet: a Rust process that runs a TLS gateway for
beacons and clients, keeps a Mosquitto broker as a child process, talks to it
as an MQTT client, announces itself to the beacons it knows, and connects to
the cloud gateways that they advertise. This directory holds TLA+ modules for
the parts of it that have state and concurrency, TLC configurations for small
instances, and TLAPS proofs about every component module. Source paths below
are relative to `src/src/`.

## The parts of the system

| Part | Code | State | Driven by |
|---|---|---|---|
| Beacon message loop and registry | `app.rs`, `services/beacon_management/registry.rs` | records, known gateways, shared list of broadcast topics | `select!` over topic channels, inbound MQTT messages and a timeout tick |
| Broadcast loop and keys | `app.rs`, `.../key_management.rs` | SQLite table `broadcast_keys` | an interval |
| Gateway and handshake handlers | `.../gateway_service.rs`, `.../handlers.rs`, `.../internals/` | listener, accept loop; effects on CA, files, topic channel | TCP connections |
| Certificate authority | `infra/ca/` | SQLite tables `ca_keys`, `node_identity`, `device_certs` | start-up, handlers |
| Mosquitto brokerage | `services/mqtt_brokerage/` | child process, config and password file, TLS files, device certificate files | supervisor, start-up, handlers |
| Local MQTT client | `services/mqtt_client/` | four channels, two tasks, a rumqttc client | loops above, broker |
| Cloud gateway WebSocket client | `services/cloud_gateway/` | one task per gateway URL, its queue | message loop, network |
| Cloud gateway MQTT client | `services/gateway_mqtt/` | one task, cached credentials | supervisor, network |
| Supervisor | `supervisor.rs` | status per service, command queue | handles |
| Start-up, configuration, capability detection | `app.rs`, `config.rs`, `services/capabilities.rs` | how far `App::initialize` is; settings that hold for one start | `main` |
| Reverse proxy, peer client, rendering | `.../internals/proxy.rs`, `services/peer/`, `rendering/` | none that changes | - |

How they interact. A handshake signs a certificate, writes it to a file and
puts two topic channels in the queue of the message loop. The message loop
subscribes to the one through the MQTT command task and adds the other to the
list under a write lock; the broadcast loop publishes to that list under a read
lock, through the same command task. MQTT messages come back over the inbound
queue, refresh the sender's record and may lead to a connection to a new cloud
gateway, which lasts as long as the record that keeps its shutdown sender.

What is hard to test here, and where: futures dropped by `select!` between two
side effects (`check_timeouts`); tasks that wait on each other through bounded
channels, or on themselves (the rumqttc request channel, which only `poll()`
drains); pairs of writes with no transaction (key rotation, certificate and key
files, database row and certificate file); state that outlives a restart or
does not (MQTT sessions, cached credentials, the port of a stopped gateway,
files that an earlier start with other settings has written);
statuses that repeat what a service itself believes (`shutdown_tx`, `child`).
`PROJECT.json` lists each hazard at its line with the properties on it.

## The modules

Every component module has its state as variables, one action per handler or,
where a handler awaits, one per stretch between two awaits. Small operators
such as `Stale`, `Swept` or `InsertGateway` are named for the one decision of
the code they translate; the operator in front of some of them, with a wrong
decision, is not used by the specification and serves to show that a property
notices the difference.

**`BeaconRegistry`** (`run_beacon_message_loop`, `BeaconRegistry`, the two
`try_send`s of `handle_device_init`). `records` is the map of records;
`sweep` is the `check_timeouts` future with the record it has taken out and the
await at which it is suspended. `CancelSweep` is the drop of that future when
another branch wins: the taken record, with the shutdown sender in it, goes out
of scope, and an unsubscribe that was already sent is still carried out. `loop`
is the position inside `register_channel`, which cannot be cancelled. A record
has an age that saturates past `BEACON_TIMEOUT`, so time needs no bound. A
beacon id is a fresh UUID: `Fresh` lets an id of the model be used again once
nothing mentions it. `Hybrid` channels are not modelled: nothing builds one.

**`BroadcastKeys`** (`BroadcastKeyManagement`, `run_broadcast_loop`). One step
per SQL statement; each may fail, and the process may crash between any two.
Rows hold the seconds left to `rotates_at` and `expires_at`. A token is its
slot: `slot_lag` counts the slots begun since it was derived.

**`CloudGateway`** (`connect_to_gateway`, `spawn_connection_task`). The task's
position, its queue, the frames on the wire, and what the gateway received. A
connection that the task gives up may still hold frames: some of them may arrive
late, between those of newer connections (`ReceiveLate`). `cuts` remembers how
many messages had left the queue as each connection was made, for the property.

**`GatewayMqtt`** (`gateway_mqtt/`). Login with its three outcomes, options, the
poll and publish loop and backoff. Every connection starts with a request
channel of its own. The three requests of `on_connected` are steps of their own,
and each may fail, which the code only logs: `refused` has those. A wait for room in that channel is the position
`"request"`, from which no action leads away, as in the program.

**`ConnectionTask`** is the abstract specification of both: a task persists
while its shutdown sender is kept, and ends after that. `BeaconRegistry` uses a
connection task exactly as this specification describes it, which
`LinksFollowConnectionTask` proves, so the registry and the tasks are composed
through it: what the registry relies on is what `CloudGateway` is shown to
implement.

**`Supervisor`** (`supervisor.rs`, and `start`/`stop` of the four services that
`App` registers). A service is its held sender or child, whether its
single-use channel ends are still there, and the instances it put into the
world, those told to stop but still running included. A caller is in `waiting`
from the command it sends to the reply; what the reply says decides nothing.

**`MqttClient`** (`mqtt_client/`, with both loops as its callers). The four
tasks that wait for one another, and the channels between them. The module
abstracts what the messages say, and keeps which of them needs which channel.
The outbound queue `out_rx` is absent: `App::initialize` drops its only sender.

**`CertAuthority`** (`infra/ca/`, the TLS file writes of the brokerage, the
handlers' use of both). A certificate is its key and its issuer's key. All
`.crt` files are in one directory, as with the default paths, which exists once
a start with TLS has made it; a device called like one of the node's own files
shares it. `fs::write` truncates before it writes, so a crash or a failure may
leave an empty file. A CSR has any key, that of an earlier one included. Database
and files survive a crash, the phase of `App::initialize` does not; each start
has a `mode` of its own, whether broker and client use TLS. A handshake is a
worker with an await between the database row and the certificate file. When
its connection closes the handler is dropped, but a file write that has begun
goes on in its own thread and may still land. `given` is who was sent a
certificate.

**`Startup`** (`App::initialize`, with what it calls in `config.rs`,
`capabilities.rs` and the brokerage). The environment may differ from one start
to the next; the files in `mosquitto.conf`, the password file and the TLS pairs
are what the last start that wrote them has left. Writes may fail, which the
code only logs; the node may end at any step, in the middle of a pair of files
too; its broker may outlive it for a moment, with its port. The module has the
order of the steps and the one wait without a timeout, for the first ConnAck.
What is in the TLS files is left to `CertAuthority`, what happens after the
ConnAck to `MqttClient`. A client that the broker of this start has accepted, and
not one that an earlier start left behind, is `"accepted"`.

External behaviour is modelled from how the code uses it: tokio's fair
`RwLock`, the bounded channels, rumqttc's request channel (drained by `poll()`,
emptied by a connection error) and clean sessions, the broker and the gateway
as receivers of frames, files that are truncated before they are written.

## The runs

`tlc -config <cfg> <MC module>`. Runs that pass:

| Configuration | States | What it shows |
|---|---|---|
| `RegistrySafety` | 1.3 million | No gateway is dialled twice or by the node that owns it, no connection is leaked, no live beacon is deregistered |
| `RegistryLive` | 100 thousand | The topic of a registered beacon is listed, and none twice; silent beacons are swept and queued broadcast topics are listed, although sweeps are cancelled and the lock is contended |
| `Keys` | 5.8 thousand | Never two active keys; the announced key is stored and active, its token is in an accepted slot; only a due key is retired; interrupted rotations are made up for, expired rows are deleted |
| `Cloud` | 70 thousand | Register first on every connection; no message arrives twice, nor before an earlier one of the same connection; the queue drains; the task implements `ConnectionTask` |
| `Gateway` | 108 thousand | While callers leave room, the task never waits for its own `poll()`; the alive notification is sent, also when a subscription was refused, and never overtakes one that was not; revoked credentials are replaced; the task implements `ConnectionTask` |
| `Supervisor` | 575 thousand | Between commands no status is left at `Starting`, a `Running` service can be stopped and a `Stopped` one started (nothing is said of a `Failed` one); one instance at a time; a restart gets past a broker that crashed; whoever waits has one command pending, and every command is answered; shutdown reaches every service |
| `Startup` | 500 thousand | The broker that a start brings up accepts that start's client, whatever earlier starts left behind; once it has accepted the client, the gateway tells devices the port it listens on, also if `mosquitto.conf` is an old one; `initialize` ends, or waits for a broker that died or does not fit |
| `Mqtt` | 20 thousand | The message loop does not run without its required subscriptions; callers wait exactly for commands that are under way; start-up completes, no caller waits for ever |
| `Ca` | 2.3 million | After any crash, provisioning leaves certificates, keys and CA that fit together, and serving keeps them so, but for a file that a device shares its name with; every certificate is signed by the stored CA; whoever got a certificate is in the database; the node identity is stable; only a handshake of the same device takes a revocation back |

The type invariants are not among these properties: every `TypeOK` is proved
(`TypeCorrect`), bounds of queues and delays included.

Runs in which TLC refutes what a comment says. Each one is a finding in
`PROJECT.json`, with the quotation:

| Configuration | Statement | What happens |
|---|---|---|
| `RegistryListed` | a sweep removes the broadcast topic of every stale entry | it is cancelled after removing the record |
| `MqttCircular` | every command gets its reply | message loop, command task and event loop wait in a circle once the inbound queue is full |
| `CaRecord` | the certificate file records the device's identity | of two handshakes of one host, file and database may keep different ones |

Other differences between comments, tests and code, which no run states because
an expression or a few steps show them:

- `known_gateways`, "already connected to (or own)", also keeps a URL that was
  advertised on a topic without a record, replaced by another, or left behind by
  a cancelled sweep. Such a URL is never dialled again.
- `key_expiry`, "how long a retired key is kept", counts from creation.
- A queued payload is dropped when its send fails (`MessageFails`), although
  `app.rs` says that the connection task will deliver it.
- A login is repeated after any refusal code (`Refused`), not only after an
  auth rejection.
- A broker that crashed stays `Running` (`ChildExits` changes no status), although
  `supervisor.rs:21-22` has `Failed` for a service that "failed to start or
  crashed". A plain start is then refused; `BrokerRestartable` is about restart.
- A gateway whose start fails at its TLS setup keeps `shutdown_tx`
  (`gateway_service.rs:63-67`): its status is `Failed`, and each later start says
  "already running" until it is stopped.
- A full command channel makes the caller wait; `supervisor.rs:102` speaks of
  "drops".
- A device that is called `ca`, `broker` or `client` shares a file with the node
  when the default paths are used: its handshake overwrites that file, which the
  next start writes again. `FilesMatchWhenServing` exempts it.
- Without the certificate directory, that is before the first start with TLS,
  `register_cert_identity` always fails and the handshake is answered with a 500.
- With a full request channel both MQTT tasks wait for their own `poll()`: the
  cloud client in a publish or a disconnect, the local one in a disconnect.
- A restart of a running gateway may fail, because the accept loop it has just
  told to stop still owns the port; `src/tests/supervisor.rs` expects `Running`
  after a restart, of a mock that owns no port.
- `MQTT_TLS_ENABLED` has opposite defaults: unset, the broker uses TLS
  (`config.rs:116-119`) and the client does not (`config.rs:42-45`), so
  `initialize` waits for a ConnAck that cannot come. `OwnClientAccepted` and
  `DevicesSentToBroker` therefore exclude the unset variable, by name.
- `.env.example` gives 30 s as the default of the broadcast interval, the code
  60 s; it asks for a key expiry above the rotation interval, and nothing checks
  that. `RetiredOnlyWhenDue` and `AnnouncedKeyStored` depend on it.

### Bounds

- Registry: two beacons, so that one is swept while the other interrupts, two
  foreign gateways and two connection tasks, so that each may be replaced or
  duplicated. Queues of one place are full as often as not, which is when
  `try_send` loses channels. A timeout of 0 means that one tick makes a record
  stale. When no connection task is free the message with a new gateway waits.
  The proofs remove all of these bounds. `RegistryLive` leaves gateways out:
  they add no wait to the loop. `Broadcasting` says whether the broadcast loop
  has cycles; without them, in `RegistrySafety`, the lock of the topic list is
  always free. Connections do not depend on that list, `RegistryLive` has the
  contended lock, and the proofs have both. Beacons, connection tasks and foreign gateways
  are interchangeable in `RegistrySafety`, which uses their symmetry.
- Keys: the expiry is the smallest that `AnnouncedKeyStored` admits. A full
  table of three ids is always swept, as the 2^32 of the code do not run out.
  `DbDelay` and `PublishDelay` bound how long one cycle may take.
- Cloud and gateway tasks: the request channel's 10 places are those of the code,
  and so are the delays of `Cloud`; in `Gateway` they are 2, 4 and a cap of 7, so
  that the delay doubles below the cap and into it. The outbound queues are cut
  from 64 to 2, which the three messages of `Cloud` overfill. `MaxPublishes` 6
  leaves room for the three requests of `on_connected` and for `disconnect`.
- Supervisor: all services and two callers; the queue has one place, so callers
  wait.
- MQTT: channels of one place (two in `MqttCircular`) instead of 10 and 64:
  what matters is that each can be full. `Mqtt` forwards no more messages than
  the inbound queue holds; `MqttCircular` shows why.
- CA: each purpose has more keys than can be mentioned when one is drawn, so
  that a fresh one is always there; a key that nothing mentions may be drawn
  again.
  Two workers handle a host with a file of its own and one called `broker`, each
  with the key it always uses; `CaRecord` has two keys for one host.
- Start-up: one user whose password changes between starts, and every
  combination of the other settings. A second user would add an entry to the
  password file that no start reads; the proofs have any number.

Deadlock is checked except where the modelled part may really stop: a task
that was told to, a supervisor that exited, or a wait of a task for itself or
in a circle, as above.

### Fairness

Tasks that can run do run (weak fairness of each task's own steps), sleeps and
network calls end. tokio's `select!` starts polling at a random branch, so a
branch that is ready time and again is taken: strong fairness of the branches.
An environment that fails is not assumed to fail every time: strong fairness of
a successful connection, and of the SQL statements. Nothing forces a
connection that is up to fail, or a caller to call. In `BeaconRegistry` the
order of a sweep depends on the hashes of fresh UUIDs, so a given beacon is not
for ever behind the one at which the sweep is cancelled. In `MqttClient` a
broadcast cycle has finitely many topics. `Startup` has weak fairness of
`initialize`, one task whose waits all end but that for the ConnAck, and the
client tries for that one again and again. Brokers, old ones included, need not
end.

## The proofs

One module of proofs per component, `<Module>Proofs`, each with `TypeCorrect`
(`Spec => []TypeOK`) and the theorems below. They hold for any sets of beacons,
gateways, keys, hosts, workers, callers, users and passwords, any capacities,
delays and timeouts. The assumptions are those named in the component modules:
`None` is none of the identifiers, records, rows, keys or passwords; capacities
and intervals are positive, and the first reconnect delay is at most the last;
the services are among the four that `App` registers. Conditions on the key
intervals are stated where they are needed.

| Module | Theorem | Property |
|---|---|---|
| `BeaconRegistryProofs` | `OwnGateway`, `NoDuplicateLink`, `NoLeakedLink`, `DeregistrationOfStale`, `TopicListedOnce`, `LinksFollowConnectionTask` | `OwnGatewayNeverDialled`, `OneOpenLinkPerGateway`, `OpenLinkHasOneHolder`, `OnlyStaleDeregistered`, `RegisteredTopicListedOnce`; the registry's connections take the steps of `ConnectionTask` |
| `BroadcastKeysProofs` | `OneActiveKey`, `NoEarlyRetirement`, `AnnouncedKeyActive`, `TokenFresh` | `AtMostOneActive`, `RetiredOnlyWhenDue`, `AnnouncedKeyStored`, `TokenSlotAccepted` |
| `CloudGatewayProofs` | `RegisteredFirst`, `DeliveredInOrder`, `TaskRefines` | `RegisterFirst`, `InOrderAtMostOnce`, the safety part of `ImplementsConnectionTask` |
| `GatewayMqttProofs` | `AliveLast`, `NeverWaitsForItself`, `TaskRefines` | `AliveAfterSubscriptions`, `NoSelfWait`, the safety part of `ImplementsConnectionTask` |
| `SupervisorProofs` | `Settled`, `BrokerStarts`, `NoSecondInstance`, `CallsPending`, `NothingLeftServing` | `SettledBetweenCommands`, `BrokerRestartable`, `OneInstance`, `EachCallPendingOnce`, the safety part of `ShutdownReachesAll` |
| `MqttClientProofs` | `NeverUnsubscribed`, `RepliesMatchCommands` | `RequiredTopicsRequested`, `RepliesMatch` |
| `CertAuthorityProofs` | `GivenStored`, `ChainsHold`, `FilesMatch`, `NodeIdentityKept`, `RevokedStays` | `GivenIsStored`, `ChainsToStoredCa`, `FilesMatchWhenServing`, `NodeIdentityStable`, `RevocationHolds` |
| `StartupProofs` | `ClientAccepted`, `DevicesFindBroker` | `OwnClientAccepted`, `DevicesSentToBroker` |

Few of these properties are inductive. The strengthenings, and why they are
needed:

- **Registry.** That two open connections serve different gateways depends on
  every one of them being held by some record whose URL is in `known_gateways`,
  because that membership is all that keeps the loop from dialling again. So
  `LinkInv` says: each sender in a record, or in the record the sweep has taken
  out, belongs to an open connection to the URL beside it, which is known and
  not the own one; these URLs differ from one another; every open connection
  has such a sender; and the own URL is known. A cancelled sweep preserves it
  because dropping the record tells its connection to stop in the same step,
  leaving a known URL without a connection but never the reverse. `StaleInv`
  says that what a sweep still has to do is registered and stale: messages
  refresh a record only in a branch that drops the sweep, and time only makes
  it older. `LinkFrame` and `LinkDrop` treat the actions that touch no sender
  or only drop some. `ListInv` follows the one push to which a handshake
  entitles its beacon: it is with the handler, in the channel or with the loop,
  never in two of these places, and the topic is not listed before it is used
  up; a beacon whose sweep is under way has no record that could miss it.
- **Keys.** `RotationInv` adds that a rotation was begun because no active key
  was usable, and that none is active between its two statements.
  `RetiredOnlyWhenDue` follows with `ExpiresLater`, for which the theorem
  assumes `KeyRotation <= KeyExpiry`. `AnnouncedKeyStored` needs
  `KeyRotation + DbDelay < KeyExpiry`, a hypothesis inside the property:
  `AnnounceInv` says that the two deadlines of a row stay that far apart, so the
  sweep of a cycle cannot delete the key the cycle is about to announce.
  `TokenInv` relates the seconds spent on publishing to the clock's position in
  its slot; it needs `PublishDelay <= SlotLength`, also inside the property.
- **Connection tasks.** `RegisterInv` follows the Register frame from the first
  write to the gateway, on connections that were given up too. `CloudGateway`'s
  `OrderInv` says of what was delivered, what is on each connection, the message
  in flight and the queue that no two have a message in common, and that one may
  arrive after a later one only if a connection was made between the two
  (`Ordered`). `GatewayMqtt`'s says, request by request of `on_connected`, that a
  subscription it has asked for was sent or refused on this connection, or is in
  the channel before the announcement (`Asked`). `RequestInv` counts: the channel
  and the outbound queue together hold no more than was published and what
  `on_connected` has asked for (`Announced`, at most three), because each
  connection begins with an empty channel; with four places to spare there is always room. `TaskRefines` shows that initial states
  map to initial states and steps to steps or stutters of `ConnectionTask`.
- **Supervisor.** `StatusInv` says that in the middle of a command only the
  service it is for may disagree with its status, and that a failed start of the
  broker leaves no child. `InstanceInv` has the reason why each kind of service
  runs once: single-use channel ends for the clients, the port for the gateway,
  the wait for the child for the broker. It also says that only what is held
  serves, and that after the shutdown loop nothing is held. `RestartInv` says that
  a restart has stopped a `Running` service before it starts it. `CallInv` adds to
  `EachCallPendingOnce` that who waits has a handle, and that the loop ends only
  when no handle is left, so nobody can be waiting then.
- **MQTT client.** `OneSubscribe` ties a subscribe that is under way to the one
  caller that awaits it, so that an answer is not taken for another's;
  `RequestInv` adds what has been asked for at each step of `initialize`.
  `ReplyInv` adds to `RepliesMatch` that no command but an unsubscribe is in the
  channel twice, or there and with the task: a reply would otherwise end the
  wait while a second command is left. An unsubscribe may be, since a cancelled
  sweep leaves its own behind.
- **Certificate authority.** `CaLoaded` is proved with the types: after its
  first step a start has a CA, and handshakes only run while serving.
  `ChainsToStoredCa` is inductive with it. `StoredInv` adds that a handshake
  under way has its row. `FilesInv` says, write by write, which of the files
  belong to this start, and `HandlersKeepFiles` that a handshake touches none but
  the file of its device.
- **Start-up.** `StartInv` says what is known of each file at each step of
  `initialize`, and that a running broker has read the files as they are now.
  `AcceptInv` needs none of this: the ConnAck itself shows that the broker listens
  for the client's transport.

Every safety invariant and action property of the passing runs is proved. Only
model-checked are the liveness properties and the liveness part of
`ConnectionTask`, because fairness and `ENABLED` are out of the prover's reach
here: `StaleIsSwept`, `QueuedBroadcastListed`, `KeyRecovers`, `ExpiredSwept`,
`QueueDrains`, `AliveNotified`, `RevokedReplaced`, `EveryCallAnswered`,
`ShutdownReachesAll`, `InitializeCompletes`, `InitializeReturns` and
`CommandsAnswered`; and the violations, which are counterexamples. Several of
the theorems are what such a property rests on: `CallsPending` and
`RepliesMatchCommands` leave of "every command is answered" only that the task
goes on, and `NeverWaitsForItself` excludes one way in which it would not.

## What is not modelled

- The reverse proxy and the HTTP and TLS plumbing of the gateway: connections
  share no state except through the handlers.
- Of `config.rs`, the parsing of numbers, paths and SAN lists, each with a
  default: sequential text processing, with tests of its own.
- Of `capabilities.rs`, the probing itself: only its result decides anything.
- `delete_user` of the brokerage, `list_devices` of the CA and `Hybrid`
  channels: nothing calls or builds them.
- `CloudGatewayService`: `App` never registers it.
- `peer_service.rs` and `rendering/`: not called, and empty.
- Contents of certificates beyond key and issuer; expiry dates are never read.
- What becomes of the tasks when `main` returns on Ctrl-C: the runtime drops
  them. `Startup` has what this leaves to the next start.
- One module with `BeaconRegistry` and full `CloudGateway` tasks side by side:
  the two meet only in the shutdown sender and in a `try_send` into the task's
  queue, and the refinement of `ConnectionTask` covers the first.
