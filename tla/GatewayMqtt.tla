----------------------------- MODULE GatewayMqtt ----------------------------
(***************************************************************************)
(* The cloud-gateway connection task of GatewayMqttService: log in over    *)
(* HTTPS, connect to the gateway's broker with the credentials, subscribe  *)
(* and announce the device, serve the outbound queue, and back off.        *)
(*                                                                         *)
(* A rumqttc client hands its requests to its event loop over a bounded    *)
(* channel that only poll() drains.  The task is client and poller at      *)
(* once: while it waits for room in that channel, nobody makes room.       *)
(***************************************************************************)
EXTENDS Integers, Sequences

CONSTANTS OutboundCapacity,        \* OUTBOUND_CAPACITY
          RequestCapacity,         \* AsyncClient::new(opts, 10)
          InitialReconnectDelay, MaxReconnectDelay,
          MaxPublishes             \* bound: calls of GatewayMqttHandle::publish

ASSUME DelayAssumption ==
    /\ InitialReconnectDelay \in Nat \ {0}
    /\ MaxReconnectDelay \in Nat
    /\ InitialReconnectDelay <= MaxReconnectDelay
ASSUME CapacityAssumption ==
    {OutboundCapacity, RequestCapacity} \subseteq Nat \ {0} /\ MaxPublishes \in Nat

VARIABLES at,         \* where the task is; inside on_connected, the request it makes
          told,       \* shutdown_rx has fired
          delay,
          cached,     \* the cached LoginResponse: "none", "valid", or "revoked"
                      \* when the broker no longer takes its credentials
          connected,  \* poll() has returned the ConnAck
          requests,   \* the client's request channel
          sent,       \* requests the broker has got on this connection
          refused,    \* requests of on_connected that failed on this connection
          published,  \* how many messages callers have published
          outbound    \* how many of them wait in outbound_rx

client == <<connected, requests, sent, refused>>
callers == <<told, published, outbound>>
vars == <<at, delay, cached, client, callers>>

\* on_connected subscribes to cmds and to connect, and publishes alive.
Subscription == {"cmds", "connect"}
Announcing == Subscription \cup {"alive"}
Request == Announcing \cup {"message"}

TypeOK ==
    /\ at \in {"login", "options", "loop", "request", "backoff", "stopped"} \cup Announcing
    /\ told \in BOOLEAN
    /\ delay \in InitialReconnectDelay..MaxReconnectDelay
    /\ cached \in {"none", "valid", "revoked"}
    /\ at = "login" => cached = "none"
    /\ connected \in BOOLEAN
    /\ requests \in Seq(Request) /\ Len(requests) <= RequestCapacity
    /\ sent \subseteq Request
    /\ refused \subseteq Announcing
    /\ published \in 0..MaxPublishes
    /\ outbound \in 0..published /\ outbound <= OutboundCapacity

Init ==
    /\ at = "login"
    /\ told = FALSE
    /\ delay = InitialReconnectDelay
    /\ cached = "none"
    /\ connected = FALSE
    /\ requests = <<>>
    /\ sent = {}
    /\ refused = {}
    /\ published = 0
    /\ outbound = 0

-----------------------------------------------------------------------------
(* The world around the task.                                              *)

\* GatewayMqttHandle::publish waits for room; a stopped task gives an error.
Publish ==
    /\ at # "stopped"
    /\ outbound < OutboundCapacity /\ published < MaxPublishes
    /\ published' = published + 1 /\ outbound' = outbound + 1
    /\ UNCHANGED <<at, told, delay, cached, client>>

\* GatewayMqttService::stop.
Tell ==
    /\ ~told
    /\ told' = TRUE
    /\ UNCHANGED <<at, delay, cached, client, published, outbound>>

\* The gateway withdraws the credentials it had issued.
Revoke ==
    /\ cached = "valid"
    /\ cached' = "revoked"
    /\ UNCHANGED <<at, delay, client, callers>>

-----------------------------------------------------------------------------
(* Login and options.                                                      *)

\* The select! around login and the one in backoff watch the shutdown channel.
Interrupted ==
    /\ at \in {"login", "backoff"}
    /\ told
    /\ at' = "stopped"
    /\ UNCHANGED <<delay, cached, client, callers>>

\* What login returns: a response that parsed, LoginError::Unauthorized for a
\* 401, and LoginError::Transient for a bad url, a failed connection or
\* handshake, any other status, and a body that does not parse.
LoginResult == {"Ok", "Unauthorized", "Transient"}

LoginSucceeds ==
    /\ at = "login"
    /\ cached' = "valid"
    /\ at' = "options"
    /\ UNCHANGED <<delay, client, callers>>

\* Both errors lead to the same backoff.
RejectedStops(r) == IF r = "Unauthorized" THEN "stopped" ELSE "backoff"
AfterError(r) == "backoff"

LoginFails ==
    /\ at = "login"
    /\ \E r \in LoginResult \ {"Ok"} : at' = AfterError(r)
    /\ UNCHANGED <<delay, cached, client, callers>>

\* build_mqtt_opts, then AsyncClient::new: every connection has a client of its
\* own, so requests left on a lost connection are gone.
Connect ==
    /\ at = "options"
    /\ at' = "loop"
    /\ connected' = FALSE /\ requests' = <<>> /\ sent' = {} /\ refused' = {}
    /\ UNCHANGED <<delay, cached, callers>>

OptionsFail ==
    /\ at = "options"
    /\ at' = "backoff"
    /\ UNCHANGED <<delay, cached, client, callers>>

\* backoff: sleep, then double the delay up to the cap.
Doubled(d) == IF 2 * d <= MaxReconnectDelay THEN 2 * d ELSE MaxReconnectDelay

BackoffOver ==
    /\ at = "backoff"
    /\ at' = IF cached = "none" THEN "login" ELSE "options"
    /\ delay' = Doubled(delay)
    /\ UNCHANGED <<cached, client, callers>>

-----------------------------------------------------------------------------
(* The inbound and outbound loop.  A step that has to wait for room in the *)
(* request channel goes to "request", from which no step leads away: only  *)
(* poll() makes room, and the task no longer polls.                        *)

SmallerRoom(n) == Len(requests) + n < RequestCapacity
Room(n) == Len(requests) + n <= RequestCapacity

\* client.disconnect().await, then the task ends.
Disconnect ==
    /\ at = "loop" /\ told
    /\ at' = IF Room(1) THEN "stopped" ELSE "request"
    /\ UNCHANGED <<delay, cached, client, callers>>

\* Waiting for room in the request channel, then a request is in it.
Put(q, next) ==
    IF Room(1) THEN requests' = Append(requests, q) /\ at' = next
               ELSE at' = "request" /\ UNCHANGED requests

\* A message from outbound_rx goes to client.publish(..).await.  The client may
\* refuse it, for its topic, and then it is dropped.
Forward ==
    /\ at = "loop" /\ outbound > 0
    /\ outbound' = outbound - 1
    /\ Put("message", "loop") \/ UNCHANGED <<at, requests>>
    /\ UNCHANGED <<told, published, delay, cached, connected, sent, refused>>

\* poll() returns the ConnAck, and on_connected begins.
ConnAck ==
    /\ at = "loop" /\ ~connected
    /\ cached = "valid"
    /\ connected' = TRUE
    /\ delay' = InitialReconnectDelay
    /\ at' = "cmds"
    /\ UNCHANGED <<cached, requests, sent, refused, callers>>

\* The order of on_connected's requests.
AliveEarly == [cmds |-> "alive", alive |-> "connect", connect |-> "loop"]
NoAlive == [cmds |-> "connect", connect |-> "loop", alive |-> "loop"]
NextRequest == [cmds |-> "connect", connect |-> "alive", alive |-> "loop"]

Announce ==
    /\ at \in Announcing
    /\ Put(at, NextRequest[at])
    /\ UNCHANGED <<delay, cached, connected, sent, refused, callers>>

\* The client refuses a topic, or alive cannot be serialised: a warning, and
\* on_connected goes on with the next request.
AnnounceFails ==
    /\ at \in Announcing
    /\ at' = NextRequest[at]
    /\ refused' = refused \cup {at}
    /\ UNCHANGED <<delay, cached, connected, requests, sent, callers>>

\* poll() hands a request to the broker.
Poll ==
    /\ at = "loop" /\ connected
    /\ requests # <<>>
    /\ requests' = Tail(requests)
    /\ sent' = sent \cup {Head(requests)}
    /\ UNCHANGED <<at, delay, cached, connected, refused, callers>>

\* ConnectionRefused, with any return code: the credentials are forgotten.
KeepCached == cached
Forgotten == "none"
Refused ==
    /\ at = "loop" /\ ~connected
    /\ cached' = Forgotten
    /\ at' = "backoff"
    /\ UNCHANGED <<delay, client, callers>>

\* Any other error of the connection.
ConnectionError ==
    /\ at = "loop"
    /\ at' = "backoff"
    /\ UNCHANGED <<delay, cached, client, callers>>

Next ==
    \/ Publish \/ Tell \/ Revoke
    \/ Interrupted
    \/ LoginSucceeds \/ LoginFails
    \/ Connect \/ OptionsFail
    \/ BackoffOver
    \/ Disconnect \/ Forward
    \/ ConnAck \/ Announce \/ AnnounceFails
    \/ Poll \/ Refused \/ ConnectionError

Spec == Init /\ [][Next]_vars

\* Waits end: HTTP calls and polls return, sleeps are over.  select! starts
\* polling at a random branch; the gateway and its broker can be reached again
\* and again, and the broker answers an attempt with credentials it refuses.
\* A connection that is up need not fail.
Fairness ==
    /\ WF_vars(LoginSucceeds \/ LoginFails)
    /\ WF_vars(Connect \/ OptionsFail)
    /\ WF_vars(BackoffOver)
    /\ WF_vars(Announce \/ AnnounceFails)
    /\ WF_vars(~connected /\ (ConnAck \/ Refused \/ ConnectionError))
    /\ SF_vars(Interrupted) /\ SF_vars(Disconnect)
    /\ SF_vars(Connect) /\ SF_vars(Poll)
    /\ SF_vars(cached = "revoked" /\ Refused)

FairSpec == Spec /\ Fairness

-----------------------------------------------------------------------------
(* Properties.                                                             *)

\* The gateway hears that the device is alive only after the device has
\* subscribed to the topics on which the gateway will answer, on every connection
\* and whatever callers publish meanwhile.  A subscription that the client has
\* refused is not waited for: on_connected only warns, and alive goes out.
AliveAfterSubscriptions == "alive" \in sent => Subscription \subseteq sent \cup refused

\* The task never waits for room that only its own poll() could make, however
\* many connections it goes through, as long as the callers' messages leave room
\* for on_connected's three requests and the disconnect.
NoSelfWait == MaxPublishes + 4 <= RequestCapacity => at # "request"

\* A ConnAck leads to the alive notification, even if a subscription fails,
\* unless the connection is lost or the notification itself is refused: nothing
\* repeats it on the same connection.
AliveNotified ==
    at \in Announcing ~> ("alive" \in sent \cup refused \/ at \in {"backoff", "stopped"})

\* Credentials that the broker no longer takes are replaced by a fresh login:
\* a device that lost its connection does not retry with them for ever.
RevokedReplaced ==
    (cached = "revoked" /\ ~connected)
      ~> (cached # "revoked" \/ connected \/ told)

\* The task implements ConnectionTask while callers leave room in the request
\* channel for on_connected and disconnect.  App::initialize never publishes.
Status == IF at = "stopped" THEN "stopped" ELSE IF told THEN "told" ELSE "open"
Abstract == INSTANCE ConnectionTask WITH status <- Status
ImplementsConnectionTask == Abstract!Spec
=============================================================================
