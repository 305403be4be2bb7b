----------------------------- MODULE Supervisor -----------------------------
(***************************************************************************)
(* The supervisor task: it owns the managed services, takes the commands   *)
(* of all SupervisorHandles from one bounded queue and runs them one after *)
(* the other, keeping a status per service.  A service is modelled by what *)
(* its start() and stop() do to the three things they own: the shutdown    *)
(* sender or child process they hold, the channel ends they can use only   *)
(* once, and the instances (accept loops, connection tasks, mosquitto      *)
(* processes) they have put into the world.                                *)
(***************************************************************************)
EXTENDS Integers, Sequences, FiniteSets

CONSTANTS ServiceId,        \* the services of interest
          Callers,          \* owners of a SupervisorHandle
          ChannelBuffer,    \* Supervisor.channel_buffer
          TlsEnabled        \* HttpConfig.tls_enabled

ASSUME ServiceAssumption ==
    ServiceId \subseteq {"Gateway", "Mosquitto", "MqttClient", "GatewayMqttClient"}
ASSUME BufferAssumption ==
    ChannelBuffer \in Nat \ {0} /\ TlsEnabled \in BOOLEAN

VARIABLES statuses,   \* ServiceStatus of each service, "none": not registered
          svc,        \* the services themselves
          queue,      \* the command channel
          at,         \* where the supervisor task is
          cur,        \* the command it works on
          handles,    \* callers that still own their handle
          waiting     \* callers that await the reply to their command

vars == <<statuses, svc, queue, at, cur, handles, waiting>>

Status == {"none", "unavailable", "stopped", "starting", "running", "failed"}
Op == {"start", "stop", "restart"}
ServiceCommand == [caller : Callers, op : Op, id : ServiceId]
StatusCommand == [caller : Callers, op : {"status"}]
Command == ServiceCommand \cup StatusCommand
NoCommand == [op |-> "none"]

\* held: shutdown_tx or child is Some.  unused: the receivers taken by start
\* are still there.  serving, leaving: instances that run, and those among
\* them that were told to stop.
Service == [held : BOOLEAN, unused : BOOLEAN, serving : Nat, leaving : Nat]

TypeOK ==
    /\ statuses \in [ServiceId -> Status]
    /\ svc \in [ServiceId -> Service]
    /\ queue \in Seq(Command) /\ Len(queue) <= ChannelBuffer
    /\ at \in {"idle", "stop", "wait", "start", "starting", "shutdown", "exited"}
    /\ cur \in ServiceCommand \cup {NoCommand}
    /\ at \in {"stop", "wait", "start", "starting"} <=> cur # NoCommand
    /\ handles \subseteq Callers
    /\ waiting \subseteq Callers

\* The brokers' services are available together, the gateway always is, and
\* the cloud client is registered only when it is configured.
Registered(broker, cloud) ==
    [id \in ServiceId |->
        CASE id = "Gateway" -> "stopped"
          [] id = "GatewayMqttClient" -> IF cloud THEN "stopped" ELSE "none"
          [] OTHER -> IF broker THEN "stopped" ELSE "unavailable"]

Init ==
    /\ \E broker, cloud \in BOOLEAN : statuses = Registered(broker, cloud)
    /\ svc = [id \in ServiceId |->
                [held |-> FALSE, unused |-> TRUE, serving |-> 0, leaving |-> 0]]
    /\ queue = <<>>
    /\ at = "idle"
    /\ cur = NoCommand
    /\ handles = Callers
    /\ waiting = {}

-----------------------------------------------------------------------------
(* Callers and the world.                                                  *)

Room == Len(queue) < ChannelBuffer

\* A SupervisorHandle method: send waits while the channel is full, then the
\* caller waits for the reply.
Call(c) ==
    /\ c \in handles
    /\ c \notin waiting
    /\ Room
    /\ \E cmd \in {m \in Command : m.caller = c} : queue' = Append(queue, cmd)
    /\ waiting' = waiting \cup {c}
    /\ UNCHANGED <<statuses, svc, at, cur, handles>>

DropHandle(c) ==
    /\ c \in handles
    /\ c \notin waiting
    /\ handles' = handles \ {c}
    /\ UNCHANGED <<statuses, svc, queue, at, cur, waiting>>

\* Mosquitto ends by itself, or on the SIGTERM it got.
ChildExits ==
    /\ "Mosquitto" \in ServiceId
    /\ \/ /\ svc["Mosquitto"].serving > 0
          /\ svc' = [svc EXCEPT !["Mosquitto"].serving = @ - 1]
       \/ /\ svc["Mosquitto"].leaving > 0
          /\ svc' = [svc EXCEPT !["Mosquitto"].leaving = @ - 1]
    /\ UNCHANGED <<statuses, queue, at, cur, handles, waiting>>

\* A spawned task that was told to stop ends and drops what it owns.
TaskEnds(id) ==
    /\ id # "Mosquitto"
    /\ svc[id].leaving > 0
    /\ svc' = [svc EXCEPT ![id].leaving = @ - 1]
    /\ UNCHANGED <<statuses, queue, at, cur, handles, waiting>>

-----------------------------------------------------------------------------
(* ManagedService::start and stop.                                         *)

Instances(s) == s.serving + s.leaving

\* The outcomes of start() for the service in state s.
StartFailed(s) == [ok |-> FALSE, then |-> s]
Spawned(s) == [ok |-> TRUE, then |-> [s EXCEPT !.held = TRUE, !.serving = @ + 1]]

\* bind fails when the port is taken, if only by the last accept loop, which
\* owns its listener until it ends; the sender is kept before TLS is set up.
GatewayStarts(s) ==
    {StartFailed(s)}
    \cup IF s.held \/ Instances(s) > 0 THEN {}
         ELSE {Spawned(s)}
              \cup IF TlsEnabled THEN {StartFailed([s EXCEPT !.held = TRUE])} ELSE {}

\* No config file or no process: start fails.
MosquittoHeldEarly(s) ==
    {StartFailed([s EXCEPT !.held = TRUE])} \cup IF s.held THEN {} ELSE {Spawned(s)}
MosquittoStarts(s) == {StartFailed(s)} \cup IF s.held THEN {} ELSE {Spawned(s)}

\* take_channels comes before build_mqtt_opts, which may fail.
MqttClientStarts(s) ==
    IF s.held \/ ~s.unused THEN {StartFailed(s)}
    ELSE LET taken == [s EXCEPT !.unused = FALSE]
         IN  {StartFailed(taken), Spawned(taken)}

GatewayMqttStarts(s) ==
    IF s.unused THEN {Spawned([s EXCEPT !.unused = FALSE])} ELSE {StartFailed(s)}

StartOutcomes(id) ==
    CASE id = "Gateway" -> GatewayStarts(svc[id])
      [] id = "Mosquitto" -> MosquittoStarts(svc[id])
      [] id = "MqttClient" -> MqttClientStarts(svc[id])
      [] id = "GatewayMqttClient" -> GatewayMqttStarts(svc[id])

\* stop() takes the sender or the child and tells the instance; only
\* GatewayMqttService::stop succeeds when there is nothing to stop.
StopSucceeds(id) == svc[id].held \/ id = "GatewayMqttClient"
ToldToStop(s) ==
    [s EXCEPT !.held = FALSE, !.serving = 0, !.leaving = @ + s.serving]

-----------------------------------------------------------------------------
(* The supervisor loop.                                                    *)

\* reply.send.  Whether the result is Ok or an error decides nothing here.
Answered(c) == waiting \ {c}

\* The command is done: the reply goes out and the next one may come.
Reply ==
    /\ at' = "idle"
    /\ cur' = NoCommand
    /\ waiting' = Answered(cur.caller)

\* handle_restart stops a service only when it is Running.
FirstStep(cmd) ==
    CASE cmd.op = "start" -> "start"
      [] cmd.op = "stop" -> "stop"
      [] cmd.op = "restart" -> IF statuses[cmd.id] = "running" THEN "stop" ELSE "start"

Recv ==
    /\ at = "idle" /\ queue # <<>>
    /\ LET cmd == Head(queue)
       IN  IF cmd.op = "status"
           THEN /\ waiting' = Answered(cmd.caller)
                /\ UNCHANGED <<at, cur>>
           ELSE /\ at' = FirstStep(cmd)
                /\ cur' = cmd
                /\ UNCHANGED waiting
    /\ queue' = Tail(queue)
    /\ UNCHANGED <<statuses, svc, handles>>

\* The early returns of handle_start.
StartRefused ==
    /\ at = "start"
    /\ statuses[cur.id] \in {"none", "unavailable", "running", "starting"}
    /\ Reply
    /\ UNCHANGED <<statuses, svc, queue, handles>>

StartBegins ==
    /\ at = "start"
    /\ statuses[cur.id] \in {"stopped", "failed"}
    /\ statuses' = [statuses EXCEPT ![cur.id] = "starting"]
    /\ at' = "starting"
    /\ UNCHANGED <<svc, queue, cur, handles, waiting>>

\* svc.start().await returns.
LeftStarting(ok) == IF ok THEN "running" ELSE "starting"
StartedStatus(ok) == IF ok THEN "running" ELSE "failed"
StartReturns ==
    /\ at = "starting"
    /\ \E o \in StartOutcomes(cur.id) :
          /\ svc' = [svc EXCEPT ![cur.id] = o.then]
          /\ statuses' = [statuses EXCEPT ![cur.id] = StartedStatus(o.ok)]
    /\ Reply
    /\ UNCHANGED <<queue, handles>>

\* The early returns of handle_stop.
StopRefused ==
    /\ at = "stop"
    /\ statuses[cur.id] \in {"none", "unavailable", "stopped"}
    /\ Reply
    /\ UNCHANGED <<statuses, svc, queue, handles>>

\* handle_restart goes on with handle_start, whatever handle_stop returned.
AnsweredEarly ==
    IF cur.op = "restart"
    THEN at' = "start" /\ waiting' = Answered(cur.caller) /\ UNCHANGED cur
    ELSE Reply
AfterStop ==
    IF cur.op = "restart" THEN at' = "start" /\ UNCHANGED <<cur, waiting>>
                          ELSE Reply

StopFails ==
    /\ at = "stop"
    /\ statuses[cur.id] \in {"starting", "running", "failed"}
    /\ ~StopSucceeds(cur.id)
    /\ AfterStop
    /\ UNCHANGED <<statuses, svc, queue, handles>>

\* The services made of tasks are told and left to themselves.
StopTask ==
    /\ at = "stop" /\ cur.id # "Mosquitto"
    /\ statuses[cur.id] \in {"starting", "running", "failed"}
    /\ StopSucceeds(cur.id)
    /\ svc' = [svc EXCEPT ![cur.id] = ToldToStop(@)]
    /\ statuses' = [statuses EXCEPT ![cur.id] = "stopped"]
    /\ AfterStop
    /\ UNCHANGED <<queue, handles>>

\* Mosquitto gets a SIGTERM, and stop waits for its exit.
StopChild ==
    /\ at = "stop" /\ cur.id = "Mosquitto"
    /\ statuses[cur.id] \in {"starting", "running", "failed"}
    /\ StopSucceeds(cur.id)
    /\ svc' = [svc EXCEPT !["Mosquitto"] = ToldToStop(@)]
    /\ at' = "wait"
    /\ UNCHANGED <<statuses, queue, cur, handles, waiting>>

\* child.wait() returns, or after five seconds the child is killed.
WaitOnly(s) == s.leaving = 0
WaitOrKill(s) == TRUE
LeftAlive(s) == s
Reaped(s) == [s EXCEPT !.leaving = 0]
ChildGone ==
    /\ at = "wait"
    /\ WaitOrKill(svc["Mosquitto"])
    /\ svc' = [svc EXCEPT !["Mosquitto"] = Reaped(@)]
    /\ statuses' = [statuses EXCEPT !["Mosquitto"] = "stopped"]
    /\ AfterStop
    /\ UNCHANGED <<queue, handles>>

\* All handles are dropped: the loop ends.
ChannelClosed ==
    /\ at = "idle" /\ queue = <<>> /\ handles = {}
    /\ at' = "shutdown"
    /\ UNCHANGED <<statuses, svc, queue, cur, handles, waiting>>

\* The loop over the services: each one that has something to stop is stopped,
\* in the order of the map, and Mosquitto is waited for.
RunningOnly(id) == statuses[id] = "running" /\ svc[id].serving > 0
Stoppable(id) == svc[id].held
ShutdownStop(id) ==
    /\ at = "shutdown"
    /\ Stoppable(id)
    /\ svc' = [svc EXCEPT ![id] =
                 IF id = "Mosquitto" THEN [@ EXCEPT !.held = FALSE, !.serving = 0]
                                     ELSE ToldToStop(@)]
    /\ UNCHANGED <<statuses, queue, at, cur, handles, waiting>>

Exit ==
    /\ at = "shutdown"
    /\ \A id \in ServiceId : ~Stoppable(id)
    /\ at' = "exited"
    /\ UNCHANGED <<statuses, svc, queue, cur, handles, waiting>>

Supervise ==
    \/ Recv
    \/ StartRefused \/ StartBegins \/ StartReturns
    \/ StopRefused \/ StopFails \/ StopTask \/ StopChild \/ ChildGone
    \/ ChannelClosed \/ Exit
    \/ \E id \in ServiceId : ShutdownStop(id)

Next ==
    \/ \E c \in Callers : Call(c) \/ DropHandle(c)
    \/ ChildExits
    \/ \E id \in ServiceId : TaskEnds(id)
    \/ Supervise

Spec == Init /\ [][Next]_vars

\* The supervisor task is scheduled, and start() and stop() return: they wait
\* for a bind, a spawn, a file, or the child's exit with a timeout.
FairSpec == Spec /\ WF_vars(Supervise)

-----------------------------------------------------------------------------
(* Properties.                                                             *)

\* Whatever went wrong before, between two commands no service is left
\* Starting, a Running one can be stopped, and a Stopped one holds nothing
\* that would make its next start say "already running" (handle_start and
\* handle_stop against the services' own state).
SettledBetweenCommands ==
    at = "idle" => \A id \in ServiceId :
        /\ statuses[id] # "starting"
        /\ statuses[id] = "running" => svc[id].held
        /\ statuses[id] \in {"none", "unavailable", "stopped"} => ~svc[id].held

\* At no time do two instances of a service run, one that was told to stop
\* included: two brokers or two gateways would fight for a port, two clients
\* for a client id.
OneInstance == \A id \in ServiceId : Instances(svc[id]) <= 1

\* Restart brings the broker back, whatever happened to it: as for any service it
\* gets past "already running" and "already starting", also when the broker
\* crashed behind a status that still says Running, and the start of the broker
\* then finds no old child in its way.  A plain Start has only the second half: it
\* is refused for as long as the status of a crashed broker stays Running.
CanStart(id) == \E o \in StartOutcomes(id) : o.ok
BrokerRestartable ==
    /\ at = "start" /\ cur.op = "restart" => statuses[cur.id] \notin {"running", "starting"}
    /\ at = "starting" /\ cur.id = "Mosquitto" => CanStart("Mosquitto")

\* No command is lost, also when it meets a full channel, run twice or answered
\* to the wrong caller or before it is done: who waits has one command, which is
\* in the queue or is the one being run, and nobody waits for a supervisor that
\* has left its loop (the oneshot in each command).
QueuedCallers(q) == {q[i].caller : i \in DOMAIN q}
CurrentCaller == IF cur = NoCommand THEN {} ELSE {cur.caller}
OncePerCaller(q) == \A i, j \in DOMAIN q : q[i].caller = q[j].caller => i = j
EachCallPendingOnce ==
    /\ waiting = QueuedCallers(queue) \cup CurrentCaller
    /\ OncePerCaller(queue) /\ CurrentCaller \cap QueuedCallers(queue) = {}
    /\ at \in {"shutdown", "exited"} => waiting = {}

\* Every command is answered: one that waits for a slow service delays the
\* others but never blocks them.
EveryCallAnswered ==
    \A c \in Callers : (c \in waiting) ~> (c \notin waiting)

\* When the last handle is dropped every instance is told to stop.
ShutdownReachesAll ==
    (handles = {}) ~> \A id \in ServiceId : svc[id].serving = 0 /\ ~svc[id].held
=============================================================================
