-------------------------- MODULE SupervisorProofs --------------------------
(***************************************************************************)
(* Proofs about the supervisor, for every set of services and callers and  *)
(* every buffer size: its types, that a service's status agrees with what  *)
(* the service itself holds between two commands, that no service ever has *)
(* two instances, that the broker can always be started again, that every  *)
(* call has one pending command, and that a supervisor that has exited     *)
(* leaves nothing serving.                                                 *)
(***************************************************************************)
EXTENDS Supervisor, SequenceTheorems, TLAPS

Busy == {"stop", "wait", "start", "starting"}

\* A command for a service is neither a status request nor "no command".
LEMMA Commands ==
    /\ NoCommand \notin ServiceCommand
    /\ \A c \in ServiceCommand : c.op \in Op /\ c.id \in ServiceId /\ c.caller \in Callers
    /\ \A c \in StatusCommand : c.op = "status" /\ c.caller \in Callers
    /\ \A c \in Command : c.caller \in Callers /\ (c.op # "status" => c \in ServiceCommand)
<1>1. \A c \in ServiceCommand : c.op \in Op /\ c.id \in ServiceId /\ c.caller \in Callers
  BY DEF ServiceCommand
<1>2. \A c \in StatusCommand : c.op = "status" /\ c.caller \in Callers
  BY DEF StatusCommand
<1>3. NoCommand.op = "none" /\ "none" \notin Op
  BY DEF NoCommand, Op
<1> QED
  BY <1>1, <1>2, <1>3 DEF Command

\* Setting one field of a service.
LEMMA ServiceFields ==
    ASSUME NEW s \in Service, NEW b \in BOOLEAN, NEW n \in Nat
    PROVE  /\ s.held \in BOOLEAN /\ s.unused \in BOOLEAN /\ s.serving \in Nat /\ s.leaving \in Nat
           /\ [s EXCEPT !.held = b] \in Service
           /\ [s EXCEPT !.unused = b] \in Service
           /\ [s EXCEPT !.serving = n] \in Service
           /\ [s EXCEPT !.leaving = n] \in Service
<1>1. s.held \in BOOLEAN /\ s.unused \in BOOLEAN /\ s.serving \in Nat /\ s.leaving \in Nat
  BY DEF Service
<1>2. [s EXCEPT !.held = b] \in Service
  BY Zenon DEF Service
<1>3. [s EXCEPT !.unused = b] \in Service
  BY Zenon DEF Service
<1>4. [s EXCEPT !.serving = n] \in Service
  BY Zenon DEF Service
<1>5. [s EXCEPT !.leaving = n] \in Service
  BY Zenon DEF Service
<1> QED
  BY <1>1, <1>2, <1>3, <1>4, <1>5

\* What start() may make of a service is again a service.
LEMMA Outcomes ==
    ASSUME TypeOK, NEW id \in ServiceId, NEW o \in StartOutcomes(id)
    PROVE  o.then \in Service /\ o.ok \in BOOLEAN
<1> DEFINE s == svc[id]
<1>1. s \in Service
  BY DEF TypeOK
<1>2. \A r \in Service : /\ [r EXCEPT !.held = TRUE] \in Service
                        /\ [r EXCEPT !.unused = FALSE] \in Service
                        /\ [r EXCEPT !.held = TRUE, !.serving = @ + 1] \in Service
  <2> TAKE r \in Service
  <2> DEFINE h == [r EXCEPT !.held = TRUE]
  <2>0. r.serving + 1 \in Nat
    BY DEF Service
  <2>1. h \in Service /\ [r EXCEPT !.unused = FALSE] \in Service
    BY ServiceFields, Zenon
  <2>2. [h EXCEPT !.serving = r.serving + 1] \in Service
    BY <2>0, <2>1, ServiceFields, Zenon
  <2>3. [r EXCEPT !.held = TRUE, !.serving = @ + 1] = [h EXCEPT !.serving = r.serving + 1]
    BY DEF Service
  <2> QED
    BY <2>1, <2>2, <2>3
<1>3. \A r \in Service : /\ StartFailed(r).then \in Service /\ StartFailed(r).ok \in BOOLEAN
                        /\ Spawned(r).then \in Service /\ Spawned(r).ok \in BOOLEAN
  BY <1>2, Zenon DEF StartFailed, Spawned
<1>4. CASE id = "Gateway"
  BY <1>1, <1>2, <1>3, <1>4 DEF StartOutcomes, GatewayStarts
<1>5. CASE id = "Mosquitto"
  BY <1>1, <1>2, <1>3, <1>5 DEF StartOutcomes, MosquittoStarts
<1>6. CASE id = "MqttClient"
  BY <1>1, <1>2, <1>3, <1>6 DEF StartOutcomes, MqttClientStarts
<1>7. CASE id = "GatewayMqttClient"
  BY <1>1, <1>2, <1>3, <1>7, Zenon DEF StartOutcomes, GatewayMqttStarts
<1> QED
  BY <1>4, <1>5, <1>6, <1>7, ServiceAssumption

\* A service that is told to stop, and a child process that has been waited for.
LEMMA StoppedService ==
    ASSUME NEW s \in Service
    PROVE  /\ ToldToStop(s) \in Service
           /\ ToldToStop(s).held = FALSE /\ ToldToStop(s).unused = s.unused
           /\ ToldToStop(s).serving = 0 /\ ToldToStop(s).leaving = s.leaving + s.serving
           /\ Reaped(s) \in Service
           /\ Reaped(s).held = s.held /\ Reaped(s).unused = s.unused
           /\ Reaped(s).serving = s.serving /\ Reaped(s).leaving = 0
<1> DEFINE h == [s EXCEPT !.held = FALSE]
            g == [h EXCEPT !.serving = 0]
<1>1. h \in Service /\ g \in Service
  BY ServiceFields, Zenon
<1>2. s.leaving + s.serving \in Nat
  BY DEF Service
<1>3. ToldToStop(s) = [g EXCEPT !.leaving = s.leaving + s.serving]
  BY DEF Service, ToldToStop
<1>4. ToldToStop(s) \in Service
  <2> HIDE DEF g
  <2>1. \A n \in Nat : [g EXCEPT !.leaving = n] \in Service
    BY <1>1, ServiceFields, Zenon
  <2> QED
    BY <1>2, <1>3, <2>1, Zenon
<1>7. Reaped(s) \in Service
  BY ServiceFields, Zenon DEF Reaped
<1>5. /\ ToldToStop(s).held = FALSE /\ ToldToStop(s).unused = s.unused
      /\ ToldToStop(s).serving = 0 /\ ToldToStop(s).leaving = s.leaving + s.serving
  BY DEF Service, ToldToStop
<1>6. /\ Reaped(s).held = s.held /\ Reaped(s).unused = s.unused
      /\ Reaped(s).serving = s.serving /\ Reaped(s).leaving = 0
  BY DEF Service, Reaped
<1> QED
  BY <1>4, <1>5, <1>6, <1>7

\* The end of one instance.
LEMMA InstanceEnds ==
    ASSUME TypeOK, ChildExits \/ \E id \in ServiceId : TaskEnds(id)
    PROVE  \E id \in ServiceId, t \in Service :
              /\ svc' = [svc EXCEPT ![id] = t]
              /\ t.held = svc[id].held /\ t.unused = svc[id].unused
              /\ t.serving <= svc[id].serving /\ t.leaving <= svc[id].leaving
<1> DEFINE fewer(id) == [svc[id] EXCEPT !.serving = @ - 1]
            gone(id) == [svc[id] EXCEPT !.leaving = @ - 1]
<1>1. ASSUME NEW id \in ServiceId
      PROVE  /\ svc[id] \in Service
             /\ svc[id].serving > 0 =>
                   /\ fewer(id) \in Service
                   /\ fewer(id).held = svc[id].held /\ fewer(id).unused = svc[id].unused
                   /\ fewer(id).serving <= svc[id].serving
                   /\ fewer(id).leaving <= svc[id].leaving
             /\ svc[id].leaving > 0 =>
                   /\ gone(id) \in Service
                   /\ gone(id).held = svc[id].held /\ gone(id).unused = svc[id].unused
                   /\ gone(id).serving <= svc[id].serving
                   /\ gone(id).leaving <= svc[id].leaving
  <2>1. svc[id] \in Service
    BY DEF TypeOK
  <2>2. /\ svc[id].serving \in Nat /\ svc[id].leaving \in Nat
        /\ svc[id].serving > 0 => svc[id].serving - 1 \in Nat
        /\ svc[id].leaving > 0 => svc[id].leaving - 1 \in Nat
    BY <2>1 DEF Service
  <2>3. /\ svc[id].serving > 0 => fewer(id) \in Service
        /\ svc[id].leaving > 0 => gone(id) \in Service
    BY <2>1, <2>2, ServiceFields, Zenon
  <2>4. /\ fewer(id).held = svc[id].held /\ fewer(id).unused = svc[id].unused
        /\ fewer(id).serving <= svc[id].serving /\ fewer(id).leaving <= svc[id].leaving
        /\ gone(id).held = svc[id].held /\ gone(id).unused = svc[id].unused
        /\ gone(id).serving <= svc[id].serving /\ gone(id).leaving <= svc[id].leaving
    BY <2>1, <2>2 DEF Service
  <2> QED
    BY <2>1, <2>3, <2>4
<1>2. PICK id \in ServiceId :
        \/ svc[id].serving > 0 /\ svc' = [svc EXCEPT ![id] = fewer(id)]
        \/ svc[id].leaving > 0 /\ svc' = [svc EXCEPT ![id] = gone(id)]
  BY DEF ChildExits, TaskEnds
<1> HIDE DEF fewer, gone
<1> QED
  BY <1>1, <1>2

\* The broker is waited for only when it is the one that is being stopped.
WaitsForBroker == at = "wait" => cur.id = "Mosquitto"

\* An answer ends the command in progress and reaches its caller.
LEMMA ReplyTypes ==
    ASSUME TypeOK, at \in Busy, Reply
    PROVE  /\ at' = "idle" /\ cur' = NoCommand
           /\ waiting' \subseteq Callers
BY Commands DEF TypeOK, Busy, Reply, Answered

\* After handle_stop, the command ends or handle_restart goes on to the start.
LEMMA AfterStopTypes ==
    ASSUME TypeOK, at \in Busy, AfterStop
    PROVE  /\ \/ at' = "idle" /\ cur' = NoCommand
              \/ at' = "start" /\ cur' = cur
           /\ waiting' \subseteq Callers
BY ReplyTypes DEF AfterStop, TypeOK

\* Every step of the callers, the services and the supervisor preserves the
\* type invariant.
LEMMA TypeStep ==
    ASSUME TypeOK, WaitsForBroker, [Next]_vars
    PROVE  TypeOK' /\ WaitsForBroker'
<1>b. at \in Busy => cur \in ServiceCommand /\ cur.id \in ServiceId /\ cur.op \in Op
  BY Commands DEF TypeOK, Busy
<1>0. CASE UNCHANGED vars
  BY <1>0 DEF TypeOK, WaitsForBroker, vars
<1>1. ASSUME NEW c \in Callers, Call(c) PROVE TypeOK' /\ WaitsForBroker'
  <2>1. PICK cmd \in Command : queue' = Append(queue, cmd)
    BY <1>1 DEF Call
  <2>2. queue' \in Seq(Command) /\ Len(queue') = Len(queue) + 1
    BY <2>1, AppendProperties DEF TypeOK
  <2>3. Len(queue) \in Nat /\ Len(queue) < ChannelBuffer
    BY <1>1, LenProperties DEF Call, Room, TypeOK
  <2>4. Len(queue') <= ChannelBuffer
    BY <2>2, <2>3, BufferAssumption
  <2> QED
    BY <1>1, <2>2, <2>4 DEF Call, TypeOK, WaitsForBroker
<1>2. ASSUME NEW c \in Callers, DropHandle(c) PROVE TypeOK' /\ WaitsForBroker'
  BY <1>2 DEF DropHandle, TypeOK, WaitsForBroker
<1>3. CASE ChildExits \/ \E id \in ServiceId : TaskEnds(id)
  <2>1. svc' \in [ServiceId -> Service]
    BY <1>3, InstanceEnds DEF TypeOK
  <2> QED
    BY <1>3, <2>1 DEF ChildExits, TaskEnds, TypeOK, WaitsForBroker
<1>5. CASE Recv
  <2>1. Head(queue) \in Command /\ Tail(queue) \in Seq(Command)
        /\ Len(Tail(queue)) = Len(queue) - 1 /\ Len(queue) \in Nat
    BY <1>5, HeadTailProperties, LenProperties DEF Recv, TypeOK
  <2>2. queue' \in Seq(Command) /\ Len(queue') <= ChannelBuffer
    BY <1>5, <2>1, BufferAssumption DEF Recv, TypeOK
  <2>3. CASE Head(queue).op = "status"
    BY <1>5, <2>1, <2>2, <2>3, Commands DEF Recv, Answered, TypeOK, WaitsForBroker
  <2>4. CASE Head(queue).op # "status"
    <3>1. cur' \in ServiceCommand /\ cur' # NoCommand /\ cur'.op \in Op
      BY <1>5, <2>1, <2>4, Commands DEF Recv
    <3>2. at' \in {"start", "stop"}
      BY <1>5, <2>4, <3>1 DEF Recv, FirstStep, Op
    <3> QED
      BY <1>5, <2>2, <2>4, <3>1, <3>2 DEF Recv, TypeOK, WaitsForBroker
  <2> QED
    BY <2>3, <2>4
<1>6. CASE StartRefused \/ StopRefused
  <2>1. at \in Busy /\ Reply
    BY <1>6 DEF StartRefused, StopRefused, Busy
  <2> QED
    BY <1>6, <2>1, ReplyTypes DEF StartRefused, StopRefused, TypeOK, WaitsForBroker
<1>7. CASE StartBegins
  <2>1. statuses' \in [ServiceId -> Status]
    BY <1>7, Zenon DEF StartBegins, TypeOK, Status
  <2> QED
    BY <1>7, <2>1 DEF StartBegins, TypeOK, WaitsForBroker
<1>8. CASE StartReturns
  <2>1. PICK o \in StartOutcomes(cur.id) :
          /\ svc' = [svc EXCEPT ![cur.id] = o.then]
          /\ statuses' = [statuses EXCEPT ![cur.id] = StartedStatus(o.ok)]
    BY <1>8, Zenon DEF StartReturns
  <2>2. at \in Busy
    BY <1>8 DEF StartReturns, Busy
  <2>3. svc' \in [ServiceId -> Service]
    BY <2>1, <2>2, <1>b, Outcomes DEF TypeOK
  <2>4. statuses' \in [ServiceId -> Status]
    BY <2>1, Zenon DEF TypeOK, StartedStatus, Status
  <2>5. /\ at' = "idle" /\ cur' = NoCommand
        /\ waiting' \subseteq Callers
    BY <1>8, <2>2, ReplyTypes DEF StartReturns
  <2> QED
    BY <1>8, <2>3, <2>4, <2>5 DEF StartReturns, TypeOK, WaitsForBroker
<1>9. CASE StopFails
  <2>1. at \in Busy /\ AfterStop
    BY <1>9 DEF StopFails, Busy
  <2> QED
    BY <1>9, <2>1, <1>b, AfterStopTypes, Commands DEF StopFails, TypeOK, WaitsForBroker
<1>10. CASE StopTask
  <2>1. at \in Busy /\ AfterStop
    BY <1>10 DEF StopTask, Busy
  <2>2. svc' \in [ServiceId -> Service] /\ statuses' \in [ServiceId -> Status]
    BY <1>10, <1>b, <2>1, StoppedService, Zenon DEF StopTask, TypeOK, Status
  <2> QED
    BY <1>10, <2>1, <2>2, <1>b, AfterStopTypes, Commands DEF StopTask, TypeOK, WaitsForBroker
<1>11. CASE StopChild
  <2>1. svc' \in [ServiceId -> Service]
    BY <1>11, StoppedService, Zenon DEF StopChild, TypeOK
  <2> QED
    BY <1>11, <2>1 DEF StopChild, TypeOK, WaitsForBroker
<1>12. CASE ChildGone
  <2>1. at \in Busy /\ AfterStop
    BY <1>12 DEF ChildGone, Busy
  <2>2. svc' \in [ServiceId -> Service] /\ statuses' \in [ServiceId -> Status]
    BY <1>12, StoppedService, Zenon DEF ChildGone, TypeOK, Status
  <2> QED
    BY <1>12, <2>1, <2>2, <1>b, AfterStopTypes, Commands DEF ChildGone, TypeOK, WaitsForBroker
<1>13. CASE ChannelClosed \/ Exit
  BY <1>13 DEF ChannelClosed, Exit, TypeOK, WaitsForBroker
<1>14. ASSUME NEW id \in ServiceId, ShutdownStop(id) PROVE TypeOK' /\ WaitsForBroker'
  <2>1. \A s \in Service : [s EXCEPT !.held = FALSE, !.serving = 0] \in Service
    BY Zenon DEF Service
  <2>2. svc' \in [ServiceId -> Service]
    BY <1>14, <2>1, StoppedService, Zenon DEF ShutdownStop, TypeOK
  <2> QED
    BY <1>14, <2>2 DEF ShutdownStop, TypeOK, WaitsForBroker
<1> QED
  BY <1>0, <1>1, <1>2, <1>3, <1>5, <1>6, <1>7, <1>8, <1>9, <1>10, <1>11, <1>12, <1>13,
     <1>14 DEF Next, Supervise

\* The supervisor's state keeps its types, the queue never exceeds its buffer,
\* and the loop works on a command exactly when it is not between commands.
THEOREM TypeCorrect == Spec => [](TypeOK /\ WaitsForBroker)
<1>1. Init => TypeOK /\ WaitsForBroker
  <2> SUFFICES ASSUME Init PROVE TypeOK /\ WaitsForBroker
    OBVIOUS
  <2>1. PICK broker, cloud \in BOOLEAN : statuses = Registered(broker, cloud)
    BY DEF Init
  <2>2. statuses \in [ServiceId -> Status]
    BY <2>1 DEF Registered, Status
  <2>3. [held |-> FALSE, unused |-> TRUE, serving |-> 0, leaving |-> 0] \in Service
    BY DEF Service
  <2>4. queue \in Seq(Command) /\ Len(queue) <= ChannelBuffer
    BY BufferAssumption, EmptySeq DEF Init
  <2> QED
    BY <2>2, <2>3, <2>4 DEF Init, TypeOK, WaitsForBroker
<1> QED
  BY <1>1, TypeStep, PTL DEF Spec

-----------------------------------------------------------------------------
(* Statuses against the services, and instances.                           *)

Agrees(id) ==
    /\ statuses[id] # "starting"
    /\ statuses[id] = "running" => svc[id].held
    /\ statuses[id] \in {"none", "unavailable", "stopped"} => ~svc[id].held

\* In the middle of a command only the service it is for may disagree; and a
\* start of the broker that failed has left no child behind.
StatusInv ==
    /\ at \in {"idle", "stop", "start"} => \A id \in ServiceId : Agrees(id)
    /\ at \in {"wait", "starting"} => \A id \in ServiceId \ {cur.id} : Agrees(id)
    /\ at = "starting" => statuses[cur.id] = "starting"
    /\ at = "starting" /\ cur.id = "Mosquitto" => ~svc["Mosquitto"].held
    /\ at = "wait" => ~svc["Mosquitto"].held
    /\ "Mosquitto" \in ServiceId /\ statuses["Mosquitto"] = "failed" => ~svc["Mosquitto"].held

\* The clients' channel ends are taken once, by the only start that can spawn a
\* task; the broker's child is reaped before another one is spawned; and what
\* serves is held by its service, until the shutdown has stopped them all.
InstanceInv ==
    /\ OneInstance
    /\ \A id \in ServiceId \cap {"MqttClient", "GatewayMqttClient"} :
          svc[id].unused => svc[id].serving = 0 /\ svc[id].leaving = 0
    /\ "Mosquitto" \in ServiceId /\ svc["Mosquitto"].leaving > 0 => at = "wait"
    /\ \A id \in ServiceId : ~svc[id].held => svc[id].serving = 0
    /\ at = "exited" => \A id \in ServiceId : ~svc[id].held

\* The two outcomes of a start(), field by field.
LEMMA SpawnFacts ==
    ASSUME NEW r \in Service
    PROVE  /\ Spawned(r).ok = TRUE /\ Spawned(r).then.held = TRUE
           /\ Spawned(r).then.unused = r.unused
           /\ Spawned(r).then.serving = r.serving + 1 /\ Spawned(r).then.leaving = r.leaving
           /\ StartFailed(r).ok = FALSE /\ StartFailed(r).then = r
BY Zenon DEF Spawned, StartFailed, Service

\* The outcomes of start() in terms of the service before it.
LEMMA OutcomeFacts ==
    ASSUME TypeOK, NEW id \in ServiceId, NEW o \in StartOutcomes(id)
    PROVE  /\ o.ok => /\ o.then.held
                      /\ o.then.serving = svc[id].serving + 1
                      /\ id = "Gateway" => svc[id].serving + svc[id].leaving = 0
                      /\ id = "Mosquitto" => ~svc[id].held
                      /\ id \in {"MqttClient", "GatewayMqttClient"} =>
                            svc[id].unused /\ ~o.then.unused
           /\ ~o.ok => /\ o.then.serving = svc[id].serving
                       /\ svc[id].held => o.then.held
                       /\ id = "Mosquitto" => o.then = svc[id]
           /\ o.then.leaving = svc[id].leaving
           /\ o.then.unused => svc[id].unused
<1> DEFINE s == svc[id]
            h == [s EXCEPT !.held = TRUE]
            u == [s EXCEPT !.unused = FALSE]
<1>1. s \in Service /\ h \in Service /\ u \in Service
  BY ServiceFields, Zenon DEF TypeOK
<1>2. /\ h.serving = s.serving /\ h.leaving = s.leaving /\ h.unused = s.unused
      /\ u.serving = s.serving /\ u.leaving = s.leaving /\ u.unused = FALSE
      /\ h.held /\ (s.held => u.held)
  BY <1>1 DEF Service
<1>3. s.serving \in Nat /\ s.leaving \in Nat
  BY <1>1 DEF Service
<1>4. CASE id = "Gateway"
  <2>1. \/ o = StartFailed(s)
        \/ o = StartFailed(h)
        \/ o = Spawned(s) /\ ~(s.serving + s.leaving > 0)
    BY <1>4 DEF StartOutcomes, GatewayStarts, Instances
  <2> HIDE DEF s, h, u
  <2>2. ~(s.serving + s.leaving > 0) => s.serving + s.leaving = 0
    BY <1>3
  <2>4. CASE o = StartFailed(s)
    BY <1>1, <1>4, <2>4, SpawnFacts, Zenon DEF s
  <2>5. CASE o = StartFailed(h)
    BY <1>1, <1>2, <1>4, <2>5, SpawnFacts, Zenon DEF s
  <2>6. CASE o = Spawned(s) /\ ~(s.serving + s.leaving > 0)
    BY <1>1, <1>4, <2>2, <2>6, SpawnFacts, Zenon DEF s
  <2> QED
    BY <2>1, <2>4, <2>5, <2>6
<1>5. CASE id = "Mosquitto"
  <2>1. \/ o = StartFailed(s)
        \/ o = Spawned(s) /\ ~s.held
    BY <1>5 DEF StartOutcomes, MosquittoStarts
  <2> HIDE DEF s, h, u
  <2>2. CASE o = StartFailed(s)
    BY <1>1, <1>5, <2>2, SpawnFacts, Zenon DEF s
  <2>3. CASE o = Spawned(s) /\ ~s.held
    BY <1>1, <1>5, <2>3, SpawnFacts, Zenon DEF s
  <2> QED
    BY <2>1, <2>2, <2>3
<1>6. CASE id \in {"MqttClient", "GatewayMqttClient"}
  <2>1. \/ o = StartFailed(s)
        \/ o = StartFailed(u)
        \/ o = Spawned(u) /\ s.unused
    BY <1>6 DEF StartOutcomes, MqttClientStarts, GatewayMqttStarts
  <2> HIDE DEF s, h, u
  <2>2. CASE o = StartFailed(s)
    BY <1>1, <1>6, <2>2, SpawnFacts, Zenon DEF s
  <2>3. CASE o = StartFailed(u)
    BY <1>1, <1>2, <1>6, <2>3, SpawnFacts, Zenon DEF s
  <2>4. CASE o = Spawned(u) /\ s.unused
    BY <1>1, <1>2, <1>6, <2>4, SpawnFacts, Zenon DEF s
  <2> QED
    BY <2>1, <2>2, <2>3, <2>4
<1> QED
  BY <1>4, <1>5, <1>6, ServiceAssumption

\* Every step preserves StatusInv: the status map follows what start and stop
\* of the services return.
LEMMA StatusStep ==
    ASSUME TypeOK, WaitsForBroker, StatusInv, [Next]_vars
    PROVE  StatusInv'
<1>b. at \in Busy => cur \in ServiceCommand /\ cur.id \in ServiceId
  BY Commands DEF TypeOK, Busy
<1>s. svc \in [ServiceId -> Service] /\ statuses \in [ServiceId -> Status]
  BY DEF TypeOK
<1>0. CASE UNCHANGED vars
  BY <1>0 DEF StatusInv, Agrees, vars
<1>1. ASSUME NEW c \in Callers, Call(c) \/ DropHandle(c) PROVE StatusInv'
  BY <1>1 DEF Call, DropHandle, StatusInv, Agrees
<1>2. CASE ChildExits \/ \E id \in ServiceId : TaskEnds(id)
  <2>1. statuses' = statuses /\ at' = at /\ cur' = cur
    BY <1>2 DEF ChildExits, TaskEnds
  <2>2. \A id \in ServiceId : svc'[id].held = svc[id].held
    BY <1>2, <1>s, InstanceEnds
  <2>3. \A id \in ServiceId : Agrees(id) => Agrees(id)'
    BY <2>1, <2>2 DEF Agrees
  <2>4. at \in {"wait"} => "Mosquitto" \in ServiceId
    BY <1>b DEF WaitsForBroker, Busy
  <2>5. at = "starting" /\ cur.id = "Mosquitto" => "Mosquitto" \in ServiceId
    BY <1>b DEF Busy
  <2> QED
    BY <2>1, <2>2, <2>3, <2>4, <2>5 DEF StatusInv
<1>3. CASE Recv
  <2>1. at = "idle" /\ statuses' = statuses /\ svc' = svc /\ at' \in {"idle", "start", "stop"}
    <3>1. Head(queue) \in Command
      BY <1>3, HeadTailProperties DEF Recv, TypeOK
    <3>2. Head(queue).op # "status" => FirstStep(Head(queue)) \in {"start", "stop"}
      BY <3>1, Commands DEF FirstStep, Op
    <3> QED
      BY <1>3, <3>2 DEF Recv
  <2> QED
    BY <2>1 DEF StatusInv, Agrees
<1>4. CASE StartRefused \/ StopRefused
  BY <1>4 DEF StartRefused, StopRefused, Reply, StatusInv, Agrees
<1>5. CASE StartBegins
  <2>1. \A id \in ServiceId \ {cur.id} : Agrees(id)'
    BY <1>5, <1>s DEF StartBegins, StatusInv, Agrees
  <2>2. cur.id = "Mosquitto" => ~svc["Mosquitto"].held
    BY <1>5, <1>b DEF StartBegins, StatusInv, Agrees, Busy
  <2>3. statuses'[cur.id] = "starting" /\ cur.id \in ServiceId
    BY <1>5, <1>s, <1>b DEF StartBegins, Busy
  <2>4. "Mosquitto" \in ServiceId /\ statuses'["Mosquitto"] = "failed" => ~svc["Mosquitto"].held
    BY <1>5, <1>s, <1>b, <2>3 DEF StartBegins, StatusInv
  <2> QED
    BY <1>5, <2>1, <2>2, <2>3, <2>4 DEF StartBegins, StatusInv
<1>6. CASE StartReturns
  <2>1. PICK o \in StartOutcomes(cur.id) :
          /\ svc' = [svc EXCEPT ![cur.id] = o.then]
          /\ statuses' = [statuses EXCEPT ![cur.id] = StartedStatus(o.ok)]
    BY <1>6, Zenon DEF StartReturns
  <2>2. cur.id \in ServiceId /\ at = "starting" /\ at' = "idle"
    BY <1>6, <1>b DEF StartReturns, Busy, Reply
  <2>3. svc'[cur.id] = o.then /\ statuses'[cur.id] = StartedStatus(o.ok)
    BY <2>1, <2>2, <1>s
  <2>4. o.ok => o.then.held
    BY <2>2, OutcomeFacts
  <2>5. \/ o.ok /\ StartedStatus(o.ok) = "running"
        \/ ~o.ok /\ StartedStatus(o.ok) = "failed"
    <3>1. o.ok \in BOOLEAN
      BY <2>2, Outcomes
    <3> QED
      BY <3>1 DEF StartedStatus
  <2>6. ASSUME NEW id \in ServiceId PROVE Agrees(id)'
    <3>1. CASE id = cur.id
      <4>1. svc'[id] = o.then /\ statuses'[id] = StartedStatus(o.ok)
        BY <2>3, <3>1
      <4>2. CASE o.ok
        BY <2>4, <2>5, <4>1, <4>2, Zenon DEF Agrees
      <4>3. CASE ~o.ok
        BY <2>5, <4>1, <4>3 DEF Agrees
      <4> QED
        BY <4>2, <4>3
    <3>2. CASE id # cur.id
      BY <1>s, <2>1, <2>2, <3>2 DEF StatusInv, Agrees
    <3> QED
      BY <3>1, <3>2
  <2>7. "Mosquitto" \in ServiceId /\ statuses'["Mosquitto"] = "failed" => ~svc'["Mosquitto"].held
    <3>1. CASE cur.id = "Mosquitto"
      <4>1. statuses'["Mosquitto"] = "failed" => ~o.ok
        BY <2>3, <2>5, <3>1
      <4>2. ~o.ok => o.then = svc["Mosquitto"]
        BY <2>2, <3>1, OutcomeFacts
      <4> QED
        BY <2>2, <2>3, <3>1, <4>1, <4>2 DEF StatusInv
    <3>2. CASE cur.id # "Mosquitto"
      BY <1>s, <2>1, <2>2, <3>2 DEF StatusInv
    <3> QED
      BY <3>1, <3>2
  <2> QED
    BY <2>2, <2>6, <2>7 DEF StatusInv
<1>7. CASE StopFails
  BY <1>7 DEF StopFails, AfterStop, Reply, StatusInv, Agrees
<1>8. CASE StopTask
  <2>1. at = "stop" /\ at' \in {"idle", "start"} /\ cur.id \in ServiceId /\ cur.id # "Mosquitto"
    BY <1>8, <1>b DEF StopTask, AfterStop, Reply, Busy
  <2>2. /\ statuses' = [statuses EXCEPT ![cur.id] = "stopped"]
        /\ svc' = [svc EXCEPT ![cur.id] = ToldToStop(svc[cur.id])]
        /\ ToldToStop(svc[cur.id]).held = FALSE
    BY <1>8, <1>s, <2>1, StoppedService, Zenon DEF StopTask
  <2>3. \A id \in ServiceId : Agrees(id)'
    BY <1>s, <2>1, <2>2 DEF StatusInv, Agrees
  <2> QED
    BY <1>s, <2>1, <2>2, <2>3 DEF StatusInv
<1>9. CASE StopChild
  <2>1. at = "stop" /\ at' = "wait" /\ cur' = cur /\ cur.id = "Mosquitto"
        /\ "Mosquitto" \in ServiceId /\ statuses' = statuses
    BY <1>9, <1>b DEF StopChild, Busy
  <2>2. /\ svc' = [svc EXCEPT !["Mosquitto"] = ToldToStop(svc["Mosquitto"])]
        /\ ToldToStop(svc["Mosquitto"]).held = FALSE
    BY <1>9, <1>s, <2>1, StoppedService, Zenon DEF StopChild
  <2>3. \A id \in ServiceId \ {"Mosquitto"} : Agrees(id)'
    BY <1>s, <2>1, <2>2 DEF StatusInv, Agrees
  <2> QED
    BY <1>s, <2>1, <2>2, <2>3 DEF StatusInv
<1>10. CASE ChildGone
  <2>1. at = "wait" /\ at' \in {"idle", "start"} /\ cur.id = "Mosquitto" /\ "Mosquitto" \in ServiceId
    BY <1>10, <1>b DEF ChildGone, AfterStop, Reply, Busy, WaitsForBroker
  <2>2. /\ statuses' = [statuses EXCEPT !["Mosquitto"] = "stopped"]
        /\ svc' = [svc EXCEPT !["Mosquitto"] = Reaped(svc["Mosquitto"])]
        /\ Reaped(svc["Mosquitto"]).held = svc["Mosquitto"].held
    BY <1>10, <1>s, <2>1, StoppedService, Zenon DEF ChildGone
  <2>3. \A id \in ServiceId : Agrees(id)'
    BY <1>s, <2>1, <2>2 DEF StatusInv, Agrees
  <2> QED
    BY <1>s, <2>1, <2>2, <2>3 DEF StatusInv
<1>11. CASE ChannelClosed \/ Exit
  BY <1>11 DEF ChannelClosed, Exit, StatusInv
<1>12. ASSUME NEW id \in ServiceId, ShutdownStop(id) PROVE StatusInv'
  <2>1. at' = "shutdown" /\ statuses' = statuses
    BY <1>12 DEF ShutdownStop
  <2>2. ~svc'["Mosquitto"].held \/ svc'["Mosquitto"] = svc["Mosquitto"] \/ "Mosquitto" \notin ServiceId
    <3>1. CASE id = "Mosquitto"
      BY <1>12, <1>s, <3>1 DEF ShutdownStop, Service
    <3>2. CASE id # "Mosquitto"
      BY <1>12, <1>s, <3>2 DEF ShutdownStop
    <3> QED
      BY <3>1, <3>2
  <2> QED
    BY <2>1, <2>2 DEF StatusInv
<1> QED
  BY <1>0, <1>1, <1>2, <1>3, <1>4, <1>5, <1>6, <1>7, <1>8, <1>9, <1>10, <1>11, <1>12
     DEF Next, Supervise

\* StatusInv holds throughout.
LEMMA StatusHolds == Spec => []StatusInv
<1>1. Init => StatusInv
  <2> SUFFICES ASSUME Init PROVE StatusInv
    OBVIOUS
  <2>1. PICK broker, cloud \in BOOLEAN : statuses = Registered(broker, cloud)
    BY DEF Init
  <2>2. \A id \in ServiceId : statuses[id] \in {"none", "unavailable", "stopped"} /\ ~svc[id].held
    BY <2>1 DEF Init, Registered
  <2> QED
    BY <2>2 DEF Init, StatusInv, Agrees
<1> QED
  BY <1>1, TypeCorrect, StatusStep, PTL DEF Spec

\* Between two commands the status map and the services agree, whichever
\* start or stop failed before and whichever process died.
THEOREM Settled == Spec => []SettledBetweenCommands
<1>1. StatusInv => SettledBetweenCommands
  BY DEF StatusInv, Agrees, SettledBetweenCommands
<1> QED
  BY <1>1, StatusHolds, PTL

\* handle_restart has stopped a Running service before it starts it.
RestartInv == at = "start" /\ cur.op = "restart" => statuses[cur.id] # "running"

\* A Running service is held, so the stop inside a restart does not fail.
LEMMA RestartStep == ASSUME TypeOK, WaitsForBroker, StatusInv, RestartInv, [Next]_vars PROVE RestartInv'
<1>1. CASE UNCHANGED <<statuses, at, cur>>
  BY <1>1 DEF RestartInv
<1>2. CASE at' # "start"
  BY <1>2 DEF RestartInv
<1>3. CASE Recv
  BY <1>3 DEF Recv, FirstStep, RestartInv
<1>4. CASE StopFails
  <2>1. at = "stop" /\ cur \in ServiceCommand
    BY <1>4 DEF StopFails, TypeOK
  <2>2. statuses[cur.id] # "running"
    BY <1>4, <2>1 DEF StopFails, StopSucceeds, StatusInv, Agrees, ServiceCommand
  <2> QED
    BY <1>2, <1>4, <2>2 DEF StopFails, AfterStop, Reply, RestartInv
<1>5. CASE StopTask
  <2>1. at = "stop" /\ cur \in ServiceCommand
    BY <1>5 DEF StopTask, TypeOK
  <2>2. statuses'[cur.id] = "stopped"
    BY <1>5, <2>1 DEF StopTask, TypeOK, ServiceCommand
  <2> QED
    BY <1>2, <1>5, <2>2 DEF StopTask, AfterStop, Reply, RestartInv
<1>6. CASE ChildGone
  <2>1. at = "wait" /\ cur \in ServiceCommand /\ cur.id = "Mosquitto"
    BY <1>6 DEF ChildGone, TypeOK, WaitsForBroker
  <2>2. statuses'[cur.id] = "stopped"
    BY <1>6, <2>1 DEF ChildGone, TypeOK, ServiceCommand
  <2> QED
    BY <1>2, <1>6, <2>2 DEF ChildGone, AfterStop, Reply, RestartInv
<1> QED
  BY <1>1, <1>2, <1>3, <1>4, <1>5, <1>6
  DEF Next, vars, Call, DropHandle, ChildExits, TaskEnds, Supervise, StartRefused, StartBegins,
      StartReturns, StopRefused, StopChild, ChannelClosed, Exit, ShutdownStop, Reply

\* A restart is never refused because the service counts as running, and when
\* MosquittoBrokerageService::start is called no child is held any more, so
\* "already running" is not among its outcomes either.
THEOREM BrokerStarts == Spec => []BrokerRestartable
<1>1. TypeOK /\ StatusInv /\ RestartInv => BrokerRestartable
  <2>1. ASSUME TypeOK, StatusInv, RestartInv, at = "start", cur.op = "restart"
        PROVE  statuses[cur.id] \notin {"running", "starting"}
    <3>1. cur.id \in ServiceId
      BY <2>1 DEF TypeOK, ServiceCommand
    <3> QED
      BY <2>1, <3>1 DEF StatusInv, Agrees, RestartInv
  <2>2. ASSUME TypeOK, StatusInv, at = "starting", cur.id = "Mosquitto"
        PROVE  CanStart("Mosquitto")
    <3>1. Spawned(svc["Mosquitto"]) \in StartOutcomes("Mosquitto")
      BY <2>2 DEF StatusInv, StartOutcomes, MosquittoStarts
    <3>2. Spawned(svc["Mosquitto"]).ok
      BY DEF Spawned
    <3> QED
      BY <3>1, <3>2 DEF CanStart
  <2> QED
    BY <2>1, <2>2 DEF BrokerRestartable
<1>2. Init => RestartInv
  BY DEF Init, RestartInv
<1> QED
  BY <1>1, <1>2, TypeCorrect, StatusHolds, RestartStep, PTL DEF Spec

\* What InstanceInv asks of one service in state t, while the supervisor is at a.
Sound(id, t, a) ==
    /\ t.serving + t.leaving <= 1
    /\ id \in {"MqttClient", "GatewayMqttClient"} /\ t.unused => t.serving = 0 /\ t.leaving = 0
    /\ id = "Mosquitto" /\ t.leaving > 0 => a = "wait"
    /\ ~t.held => t.serving = 0
    /\ a = "exited" => ~t.held

\* InstanceInv, service by service.
LEMMA SoundServices == InstanceInv <=> \A id \in ServiceId : Sound(id, svc[id], at)
BY DEF InstanceInv, OneInstance, Instances, Sound

\* The supervisor task ends at the end of its shutdown only.
LEMMA ExitOnly ==
    ASSUME TypeOK, [Next]_vars, at' = "exited"
    PROVE  Exit \/ at = "exited"
<1>1. CASE Recv
  <2>1. queue \in Seq(Command) /\ queue # <<>>
    BY <1>1 DEF Recv, TypeOK
  <2>2. Head(queue).op \in Op \cup {"status"}
    BY <2>1, HeadTailProperties, Commands
  <2> QED
    BY <1>1, <2>2 DEF Recv, FirstStep, Op
<1>2. CASE StartRefused \/ StartBegins \/ StartReturns \/ StopRefused \/ StopFails
           \/ StopTask \/ StopChild \/ ChildGone \/ ChannelClosed
  BY <1>2 DEF StartRefused, StartBegins, StartReturns, StopRefused, StopFails, StopTask,
              StopChild, ChildGone, ChannelClosed, AfterStop, Reply
<1> QED
  BY <1>1, <1>2, Zenon DEF Next, Supervise, Call, DropHandle, ChildExits, TaskEnds, ShutdownStop, vars

\* Every step preserves InstanceInv: a service gets a new instance only when it
\* has none.
LEMMA InstanceStep ==
    ASSUME TypeOK, WaitsForBroker, TypeOK', InstanceInv, [Next]_vars
    PROVE  InstanceInv'
<1>b. at \in Busy => cur \in ServiceCommand /\ cur.id \in ServiceId
  BY Commands DEF TypeOK, Busy
<1>s. /\ svc \in [ServiceId -> Service] /\ svc' \in [ServiceId -> Service]
      /\ \A id \in ServiceId : Sound(id, svc[id], at)
  BY SoundServices DEF TypeOK
<1>n. \A t \in Service : t.serving \in Nat /\ t.leaving \in Nat
  BY DEF Service
<1> SUFFICES ASSUME NEW id \in ServiceId PROVE Sound(id, svc'[id], at')
  <2>1. \A id \in ServiceId : Sound(id, svc'[id], at')
    OBVIOUS
  <2> QED
    BY <2>1 DEF InstanceInv, OneInstance, Instances, Sound
<1>x. at' = "exited" => ~svc[id].held
  BY <1>s, ExitOnly DEF Exit, Stoppable, Sound
<1>1. CASE svc'[id] = svc[id] /\ (id = "Mosquitto" => at # "wait")
  BY <1>1, <1>s, <1>x DEF Sound
<1>2. CASE svc'[id] = svc[id] /\ at' = at
  BY <1>2, <1>s
<1>3. CASE /\ at' = at
           /\ svc'[id].held = svc[id].held /\ svc'[id].unused = svc[id].unused
           /\ svc'[id].serving <= svc[id].serving /\ svc'[id].leaving <= svc[id].leaving
  <2>1. /\ svc[id].serving \in Nat /\ svc[id].leaving \in Nat
        /\ svc'[id].serving \in Nat /\ svc'[id].leaving \in Nat
    BY <1>s, <1>n
  <2> QED
    BY <1>3, <1>s, <2>1 DEF Sound
<1>4. CASE id # "Mosquitto" /\ svc'[id] = ToldToStop(svc[id])
  <2>1. svc[id].serving \in Nat /\ svc[id].leaving \in Nat /\ svc[id] \in Service
    BY <1>s, <1>n
  <2>2. /\ ToldToStop(svc[id]).unused = svc[id].unused
        /\ ToldToStop(svc[id]).held = FALSE /\ ToldToStop(svc[id]).serving = 0
        /\ ToldToStop(svc[id]).leaving = svc[id].leaving + svc[id].serving
    BY <2>1, StoppedService, Zenon
  <2>3. /\ svc'[id].unused = svc[id].unused /\ ~svc'[id].held
        /\ svc'[id].serving = 0 /\ svc'[id].leaving = svc[id].leaving + svc[id].serving
    BY <1>4, <2>2
  <2> QED
    BY <1>4, <1>s, <2>1, <2>3 DEF Sound
<1>5. CASE StartReturns /\ id = cur.id
  <2>1. PICK o \in StartOutcomes(id) : svc' = [svc EXCEPT ![id] = o.then]
    BY <1>5, Zenon DEF StartReturns
  <2>2. svc'[id] = o.then /\ at = "starting" /\ at' = "idle"
    BY <1>5, <1>s, <2>1 DEF StartReturns, Reply
  <2>3. svc[id].serving \in Nat /\ svc[id].leaving \in Nat
    BY <1>s, <1>n
  <2>4. Sound(id, svc[id], "starting")
    BY <1>s, <2>2
  <2>5. CASE o.ok
    <3>1. /\ o.then.held /\ o.then.serving = svc[id].serving + 1 /\ o.then.leaving = svc[id].leaving
          /\ id = "Gateway" => svc[id].serving + svc[id].leaving = 0
          /\ id = "Mosquitto" => ~svc[id].held
          /\ id \in {"MqttClient", "GatewayMqttClient"} => svc[id].unused /\ ~o.then.unused
      BY <2>5, OutcomeFacts
    <3>2. svc[id].serving = 0 /\ svc[id].leaving = 0
      <4>1. CASE id = "Gateway"
        BY <2>3, <3>1, <4>1
      <4>2. CASE id = "Mosquitto"
        BY <2>3, <2>4, <3>1, <4>2 DEF Sound
      <4>3. CASE id \in {"MqttClient", "GatewayMqttClient"}
        BY <2>4, <3>1, <4>3 DEF Sound
      <4> QED
        BY <4>1, <4>2, <4>3, ServiceAssumption
    <3> QED
      BY <2>2, <3>1, <3>2 DEF Sound
  <2>6. CASE ~o.ok
    <3>1. /\ o.then.serving = svc[id].serving /\ o.then.leaving = svc[id].leaving
          /\ id = "Mosquitto" => o.then = svc[id]
          /\ svc[id].held => o.then.held
          /\ o.then.unused => svc[id].unused
      BY <2>6, OutcomeFacts
    <3> QED
      BY <2>2, <2>3, <2>4, <3>1 DEF Sound
  <2> QED
    BY <2>5, <2>6
<1>6. CASE StopChild /\ id = "Mosquitto"
  <2>1. svc'[id] = ToldToStop(svc[id]) /\ at' = "wait"
    BY <1>6, <1>s DEF StopChild
  <2>2. svc[id].serving \in Nat /\ svc[id].leaving \in Nat /\ svc[id] \in Service
    BY <1>s, <1>n
  <2>3. svc'[id].serving = 0 /\ svc'[id].leaving = svc[id].leaving + svc[id].serving
    BY <2>1, <2>2, StoppedService
  <2>4. svc[id].serving + svc[id].leaving <= 1
    BY <1>s DEF Sound
  <2>5. svc'[id].serving + svc'[id].leaving <= 1
    BY <2>2, <2>3, <2>4
  <2>6. id = "Mosquitto"
    BY <1>6
  <2> QED
    BY <2>1, <2>3, <2>5, <2>6 DEF Sound
<1>7. CASE ChildGone /\ id = "Mosquitto"
  <2>1. svc'[id] = Reaped(svc[id]) /\ svc[id] \in Service
    BY <1>7, <1>s DEF ChildGone
  <2>2. /\ svc'[id].serving = svc[id].serving /\ svc'[id].leaving = 0
        /\ svc'[id].held = svc[id].held
    BY <2>1, StoppedService
  <2>3. svc[id].serving \in Nat /\ svc[id].leaving \in Nat
    BY <1>s, <1>n
  <2> QED
    BY <1>7, <1>s, <1>x, <2>2, <2>3 DEF Sound
<1>8. CASE ShutdownStop("Mosquitto") /\ id = "Mosquitto"
  <2>1. /\ at = "shutdown" /\ svc[id] \in Service
        /\ svc'[id] = [svc[id] EXCEPT !.held = FALSE, !.serving = 0]
    BY <1>8, <1>s DEF ShutdownStop
  <2>2. ~svc'[id].held /\ svc'[id].serving = 0 /\ svc'[id].leaving = svc[id].leaving
    BY <2>1 DEF Service
  <2>3. svc[id].serving \in Nat /\ svc[id].leaving \in Nat
    BY <1>s, <1>n
  <2> QED
    BY <1>8, <1>s, <2>1, <2>2, <2>3 DEF Sound
<1>9. CASE Supervise
  <2>1. CASE Recv \/ StartRefused \/ StartBegins \/ StopRefused \/ StopFails
             \/ ChannelClosed \/ Exit
    BY <1>1, <2>1 DEF Recv, StartRefused, StartBegins, StopRefused, StopFails,
                      ChannelClosed, Exit
  <2>2. CASE StartReturns
    <3>1. at = "starting" /\ (id # cur.id => svc'[id] = svc[id])
      BY <1>s, <2>2 DEF StartReturns
    <3> QED
      BY <1>1, <1>5, <2>2, <3>1
  <2>3. CASE StopTask
    BY <1>1, <1>4, <1>s, <1>b, <2>3 DEF StopTask, Busy
  <2>4. CASE StopChild
    BY <1>1, <1>6, <1>s, <2>4 DEF StopChild
  <2>5. CASE ChildGone
    BY <1>1, <1>7, <1>s, <2>5 DEF ChildGone
  <2>6. ASSUME NEW x \in ServiceId, ShutdownStop(x) PROVE Sound(id, svc'[id], at')
    <3>1. CASE x # id
      BY <1>1, <1>s, <2>6, <3>1 DEF ShutdownStop
    <3>2. CASE x = id /\ id = "Mosquitto"
      BY <1>8, <2>6, <3>2
    <3>3. CASE x = id /\ id # "Mosquitto"
      BY <1>4, <1>s, <2>6, <3>3 DEF ShutdownStop
    <3> QED
      BY <3>1, <3>2, <3>3
  <2> QED
    BY <1>9, <2>1, <2>2, <2>3, <2>4, <2>5, <2>6 DEF Supervise
<1>10. CASE ChildExits \/ \E x \in ServiceId : TaskEnds(x)
  <2>1. at' = at
    BY <1>10 DEF ChildExits, TaskEnds
  <2>2. PICK x \in ServiceId, t \in Service :
              /\ svc' = [svc EXCEPT ![x] = t]
              /\ t.held = svc[x].held /\ t.unused = svc[x].unused
              /\ t.serving <= svc[x].serving /\ t.leaving <= svc[x].leaving
    BY <1>10, InstanceEnds
  <2> QED
    BY <1>2, <1>3, <1>s, <2>1, <2>2
<1>11. CASE UNCHANGED vars \/ \E c \in Callers : Call(c) \/ DropHandle(c)
  BY <1>2, <1>11 DEF vars, Call, DropHandle
<1> QED
  BY <1>9, <1>10, <1>11 DEF Next

\* No service ever has two instances, in whatever order starts, stops, restarts
\* and exits come: the clients' one-shot channel ends, the gateway's port and
\* the wait for the broker's child each keep a second one from being spawned.
THEOREM NoSecondInstance == Spec => []OneInstance
<1>1. Init => InstanceInv
  BY DEF Init, InstanceInv, OneInstance, Instances
<1>2. InstanceInv => OneInstance
  BY DEF InstanceInv
<1> QED
  BY <1>1, <1>2, TypeCorrect, InstanceStep, PTL DEF Spec

\* What serves is held by its service, and when the supervisor task is over no
\* service serves or holds anything: the safety half of ShutdownReachesAll.
THEOREM NothingLeftServing ==
    Spec => []/\ \A id \in ServiceId : ~svc[id].held => svc[id].serving = 0
              /\ at = "exited" => \A id \in ServiceId : ~svc[id].held /\ svc[id].serving = 0
<1>1. Init => InstanceInv
  BY DEF Init, InstanceInv, OneInstance, Instances
<1>2. InstanceInv => /\ \A id \in ServiceId : ~svc[id].held => svc[id].serving = 0
                     /\ at = "exited" => \A id \in ServiceId : ~svc[id].held /\ svc[id].serving = 0
  BY DEF InstanceInv
<1> QED
  BY <1>1, <1>2, TypeCorrect, InstanceStep, PTL DEF Spec

-----------------------------------------------------------------------------
(* Callers and their commands.                                             *)

\* send puts a command at the end of the queue.
LEMMA AppendCallers ==
    ASSUME NEW q \in Seq(Command), NEW cmd \in Command
    PROVE  /\ QueuedCallers(Append(q, cmd)) = QueuedCallers(q) \cup {cmd.caller}
           /\ OncePerCaller(q) /\ cmd.caller \notin QueuedCallers(q)
                => OncePerCaller(Append(q, cmd))
<1> DEFINE r == Append(q, cmd)
           n == Len(q)
<1>1. /\ n \in Nat /\ DOMAIN q = 1..n /\ DOMAIN r = 1..(n + 1)
      /\ \A i \in 1..n : r[i] = q[i]
      /\ r[n + 1] = cmd
  BY AppendProperties, LenProperties
<1>2. DOMAIN r = DOMAIN q \cup {n + 1} /\ n + 1 \notin DOMAIN q
  BY <1>1
<1>3. \A i \in DOMAIN q : r[i] = q[i]
  BY <1>1
<1> HIDE DEF r, n
<1>4. QueuedCallers(r) = QueuedCallers(q) \cup {cmd.caller}
  BY <1>1, <1>2, <1>3 DEF QueuedCallers
<1>5. OncePerCaller(q) /\ cmd.caller \notin QueuedCallers(q) => OncePerCaller(r)
  BY <1>1, <1>2, <1>3 DEF QueuedCallers, OncePerCaller
<1> QED
  BY <1>4, <1>5 DEF r

\* recv takes the command at the front, and no other one of its caller is left.
LEMMA TailCallers ==
    ASSUME NEW q \in Seq(Command), q # <<>>, OncePerCaller(q)
    PROVE  /\ Head(q).caller \in QueuedCallers(q)
           /\ QueuedCallers(Tail(q)) = QueuedCallers(q) \ {Head(q).caller}
           /\ OncePerCaller(Tail(q))
<1> DEFINE r == Tail(q)
           n == Len(q)
<1>1. /\ n \in Nat /\ n > 0 /\ DOMAIN q = 1..n /\ DOMAIN r = 1..(n - 1)
      /\ \A i \in 1..(n - 1) : r[i] = q[i + 1]
      /\ Head(q) = q[1]
  BY HeadTailProperties, LenProperties, EmptySeq
<1>2. 1 \in DOMAIN q
  BY <1>1
<1>3. \A i \in DOMAIN r : i + 1 \in DOMAIN q /\ r[i] = q[i + 1] /\ i + 1 # 1
  BY <1>1
<1>4. \A i \in DOMAIN q : i # 1 => i - 1 \in DOMAIN r /\ r[i - 1] = q[i]
  <2> TAKE i \in DOMAIN q
  <2> HAVE i # 1
  <2>1. i \in 1..n /\ i - 1 \in 1..(n - 1) /\ (i - 1) + 1 = i
    BY <1>1
  <2> QED
    BY <1>1, <2>1
<1>5. \A i, j \in DOMAIN r : i + 1 = j + 1 => i = j
  BY <1>1
<1>6. Head(q).caller = q[1].caller
  BY <1>1
<1> HIDE DEF r, n
<1>7. Head(q).caller \in QueuedCallers(q)
  BY <1>2, <1>6 DEF QueuedCallers
<1>8. QueuedCallers(r) \subseteq QueuedCallers(q) \ {Head(q).caller}
  <2> SUFFICES ASSUME NEW i \in DOMAIN r
               PROVE  r[i].caller \in QueuedCallers(q) /\ r[i].caller # q[1].caller
    BY <1>6 DEF QueuedCallers
  <2>1. i + 1 \in DOMAIN q /\ r[i] = q[i + 1] /\ i + 1 # 1
    BY <1>3
  <2> QED
    BY <1>2, <2>1 DEF QueuedCallers, OncePerCaller
<1>9. QueuedCallers(q) \ {Head(q).caller} \subseteq QueuedCallers(r)
  <2> SUFFICES ASSUME NEW i \in DOMAIN q, q[i].caller # q[1].caller
               PROVE  q[i].caller \in QueuedCallers(r)
    BY <1>6 DEF QueuedCallers
  <2>1. i - 1 \in DOMAIN r /\ r[i - 1] = q[i]
    BY <1>4
  <2> QED
    BY <2>1 DEF QueuedCallers
<1>10. OncePerCaller(r)
  <2> SUFFICES ASSUME NEW i \in DOMAIN r, NEW j \in DOMAIN r, r[i].caller = r[j].caller
               PROVE  i = j
    BY DEF OncePerCaller
  <2>1. i + 1 = j + 1
    BY <1>3 DEF OncePerCaller
  <2> QED
    BY <1>5, <2>1
<1> QED
  BY <1>7, <1>8, <1>9, <1>10 DEF r

\* A caller keeps its handle while it waits, and the loop ends only when no
\* handle is left.
CallInv ==
    /\ EachCallPendingOnce
    /\ waiting \subseteq handles
    /\ at \in {"shutdown", "exited"} => handles = {}

\* Steps that leave the queue, the command in progress and the handles alone.
LEMMA CallFrame ==
    ASSUME CallInv, UNCHANGED <<queue, cur, waiting, handles>>,
           at' \in {"shutdown", "exited"} => handles = {}
    PROVE  CallInv'
BY DEF CallInv, EachCallPendingOnce, CurrentCaller

\* The reply ends the wait of the caller whose command was run.
LEMMA CallReply ==
    ASSUME TypeOK, CallInv, at \in Busy, Reply, UNCHANGED <<queue, handles>>
    PROVE  CallInv'
<1>1. cur # NoCommand /\ cur' = NoCommand /\ at' = "idle" /\ waiting' = waiting \ {cur.caller}
  BY DEF TypeOK, Busy, Reply, Answered
<1>2. CurrentCaller = {cur.caller} /\ CurrentCaller' = {}
  BY <1>1 DEF CurrentCaller
<1>3. waiting' = QueuedCallers(queue)
  BY <1>1, <1>2 DEF CallInv, EachCallPendingOnce
<1> QED
  BY <1>1, <1>2, <1>3 DEF CallInv, EachCallPendingOnce

\* Every step of the callers and of the supervisor keeps a call and its command
\* together.
LEMMA CallStep ==
    ASSUME TypeOK, CallInv, [Next]_vars
    PROVE  CallInv'
<1>q. queue \in Seq(Command) /\ waiting \subseteq Callers
  BY DEF TypeOK
<1>1. ASSUME NEW c \in Callers, Call(c) PROVE CallInv'
  <2>1. PICK cmd \in Command : cmd.caller = c /\ queue' = Append(queue, cmd)
    BY <1>1 DEF Call
  <2>2. /\ c \in handles /\ c \notin waiting /\ waiting' = waiting \cup {c}
        /\ UNCHANGED <<at, cur, handles>>
    BY <1>1 DEF Call
  <2>3. c \notin QueuedCallers(queue) \cup CurrentCaller
    BY <2>2 DEF CallInv, EachCallPendingOnce
  <2>4. QueuedCallers(queue') = QueuedCallers(queue) \cup {c} /\ OncePerCaller(queue')
    BY <1>q, <2>1, <2>3, AppendCallers DEF CallInv, EachCallPendingOnce
  <2>5. CurrentCaller' = CurrentCaller
    BY <2>2 DEF CurrentCaller
  <2>6. EachCallPendingOnce'
    BY <2>2, <2>3, <2>4, <2>5 DEF CallInv, EachCallPendingOnce
  <2> QED
    BY <2>2, <2>6 DEF CallInv
<1>2. ASSUME NEW c \in Callers, DropHandle(c) PROVE CallInv'
  BY <1>2 DEF DropHandle, CallInv, EachCallPendingOnce, CurrentCaller
<1>3. CASE Recv
  <2>1. /\ at = "idle" /\ queue # <<>> /\ queue' = Tail(queue) /\ UNCHANGED handles
        /\ cur = NoCommand
    BY <1>3 DEF Recv, TypeOK
  <2>2. CurrentCaller = {}
    BY <2>1 DEF CurrentCaller
  <2>3. /\ Head(queue).caller \in QueuedCallers(queue)
        /\ QueuedCallers(queue') = QueuedCallers(queue) \ {Head(queue).caller}
        /\ OncePerCaller(queue')
    BY <1>q, <2>1, TailCallers DEF CallInv, EachCallPendingOnce
  <2>4. waiting = QueuedCallers(queue)
    BY <2>2 DEF CallInv, EachCallPendingOnce
  <2>5. CASE Head(queue).op = "status"
    <3>1. at' = at /\ cur' = cur /\ waiting' = waiting \ {Head(queue).caller}
      BY <1>3, <2>5 DEF Recv, Answered
    <3>2. CurrentCaller' = {}
      BY <2>1, <3>1 DEF CurrentCaller
    <3> QED
      BY <2>1, <2>3, <2>4, <3>1, <3>2 DEF CallInv, EachCallPendingOnce
  <2>6. CASE Head(queue).op # "status"
    <3>1. Head(queue) \in Command
      BY <1>q, <2>1, HeadTailProperties
    <3>2. cur' = Head(queue) /\ waiting' = waiting /\ at' = FirstStep(Head(queue))
      BY <1>3, <2>6 DEF Recv
    <3>3. cur' # NoCommand /\ Head(queue).op \in Op
      BY <2>6, <3>1, <3>2, Commands
    <3>4. CurrentCaller' = {Head(queue).caller}
      BY <3>2, <3>3 DEF CurrentCaller
    <3>5. at' \in {"start", "stop"}
      BY <3>2, <3>3 DEF FirstStep, Op
    <3> QED
      BY <2>1, <2>3, <2>4, <3>2, <3>4, <3>5 DEF CallInv, EachCallPendingOnce
  <2> QED
    BY <2>5, <2>6
<1>4. CASE StartRefused \/ StopRefused \/ StartReturns
  BY <1>4, CallReply DEF StartRefused, StopRefused, StartReturns, Busy
<1>5. CASE StopFails \/ StopTask \/ ChildGone
  <2>1. at \in Busy /\ AfterStop /\ UNCHANGED <<queue, handles>>
    BY <1>5 DEF StopFails, StopTask, ChildGone, Busy
  <2>2. CASE cur.op = "restart"
    <3>1. at' = "start" /\ UNCHANGED <<cur, waiting>>
      BY <2>1, <2>2 DEF AfterStop
    <3> QED
      BY <2>1, <3>1, CallFrame
  <2>3. CASE cur.op # "restart"
    BY <2>1, <2>3, CallReply DEF AfterStop
  <2> QED
    BY <2>2, <2>3
<1>6. CASE StartBegins \/ StopChild \/ ChannelClosed
  BY <1>6, CallFrame DEF StartBegins, StopChild, ChannelClosed
<1>7. CASE Exit \/ ChildExits \/ UNCHANGED vars
           \/ \E id \in ServiceId : TaskEnds(id) \/ ShutdownStop(id)
  <2>1. /\ UNCHANGED <<queue, cur, waiting, handles>>
        /\ at' = at \/ at = "shutdown"
    BY <1>7, Zenon DEF Exit, ChildExits, TaskEnds, ShutdownStop, vars
  <2> QED
    BY <2>1, CallFrame DEF CallInv
<1> QED
  BY <1>1, <1>2, <1>3, <1>4, <1>5, <1>6, <1>7 DEF Next, Supervise

\* For any number of callers and any buffer no command is lost, run twice or
\* answered to the wrong caller, and nobody waits for a supervisor that left its
\* loop: what remains of EveryCallAnswered is that the supervisor goes on.
THEOREM CallsPending == Spec => []EachCallPendingOnce
<1>1. Init => CallInv
  <2> SUFFICES ASSUME Init PROVE CallInv
    OBVIOUS
  <2>1. queue = <<>> /\ cur = NoCommand /\ at = "idle" /\ waiting = {}
    BY DEF Init
  <2>2. DOMAIN queue = {}
    BY <2>1
  <2> QED
    BY <2>1, <2>2 DEF CallInv, EachCallPendingOnce, QueuedCallers, OncePerCaller, CurrentCaller
<1>2. CallInv => EachCallPendingOnce
  BY DEF CallInv
<1> QED
  BY <1>1, <1>2, TypeCorrect, CallStep, PTL DEF Spec
=============================================================================
