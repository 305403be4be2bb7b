---------------------------- MODULE StartupProofs ----------------------------
(***************************************************************************)
(* Proofs about App::initialize, for every set of users and passwords and  *)
(* any history of starts, crashes and changes of the environment: the      *)
(* broker it starts accepts the client it starts, and once it has done so  *)
(* devices are sent to the port on which that broker listens.              *)
(***************************************************************************)
EXTENDS Startup, TLAPS

\* The steps of initialize from a given one on.
FromStarted == {"client", "connack", "subscribe", "gateway", "cloud", "running"}
FromNode == {"mosquitto"} \cup FromStarted
FromRegistered == {"node"} \cup FromNode
FromProvisioned == {"register"} \cup FromRegistered

\* What is known of the files and of the broker at each of those steps.
StartInv ==
    /\ at \in FromProvisioned /\ BrokerTls => "broker" \in tlsFiles
    /\ at \in FromRegistered /\ IsAvailable("mosquitto") /\ "conf" \notin failed =>
          conf = WrittenListener
    /\ at \in FromRegistered /\ IsAvailable("mosquitto") /\ ~BrokerTls /\ "passwd" \notin failed =>
          passwd # None /\ passwd[env.user] = env.password
    /\ at \in FromNode /\ ClientTls => "node" \in tlsFiles
    /\ at \in {"client", "connack"} => IsAvailable("mosquitto")
    /\ broker # None =>
          /\ at \in FromStarted /\ IsAvailable("mosquitto")
          /\ broker.listener = conf /\ broker.passwd = passwd
          /\ broker.tls <=> "broker" \in tlsFiles

\* The settings that Config::from_env and the machine decide.
LEMMA EnvFields == \A e \in Env : /\ e.tls \in {"unset", "true", "false"}
                                 /\ e.user \in Users /\ e.password \in Passwords
                                 /\ e.binaries \subseteq Binaries
BY DEF Env

\* set_password leaves a password file in which the user has the password,
\* whatever was there before.
LEMMA PasswordSet ==
    ASSUME TypeOK
    PROVE  /\ SetPassword \in [Users -> Passwords \cup {None}]
           /\ SetPassword # None /\ SetPassword[env.user] = env.password
<1>1. env.user \in Users /\ env.password \in Passwords
  BY EnvFields DEF TypeOK
<1> DEFINE was == IF passwd = None THEN NoUser ELSE passwd
<1>2. was \in [Users -> Passwords \cup {None}]
  BY DEF TypeOK, PasswordFile, NoUser
<1>3. SetPassword = [was EXCEPT ![env.user] = env.password]
  BY DEF SetPassword
<1> HIDE DEF was
<1>4. /\ SetPassword \in [Users -> Passwords \cup {None}]
      /\ SetPassword[env.user] = env.password
  BY <1>1, <1>2, <1>3
<1> QED
  BY <1>4, NoneIsNoPassword

\* The process that start() spawns has read the files as they are.
LEMMA NewProcess ==
    ASSUME TypeOK, conf # None
    PROVE  LET p == [listener |-> conf, passwd |-> passwd, tls |-> "broker" \in tlsFiles]
           IN  /\ p \in Process /\ p.listener = conf /\ p.passwd = passwd
               /\ p.tls <=> "broker" \in tlsFiles
<1> DEFINE t == "broker" \in tlsFiles
            p == [listener |-> conf, passwd |-> passwd, tls |-> t]
<1>0. conf \in Listener /\ passwd \in PasswordFile
  BY DEF TypeOK
<1>1. t \in BOOLEAN
  <2>1. CASE "broker" \in tlsFiles
    BY <2>1
  <2>2. CASE "broker" \notin tlsFiles
    BY <2>2
  <2> QED
    BY <2>1, <2>2
<1> HIDE DEF t
<1>2. p \in Process
  BY <1>0, <1>1, Zenon DEF Process
<1>3. p.listener = conf /\ p.passwd = passwd /\ p.tls = t
  OBVIOUS
<1> QED
  BY <1>1, <1>2, <1>3 DEF t

\* Every step of initialize and of the world preserves the type invariant.
LEMMA TypeStep ==
    ASSUME TypeOK, [Next]_vars
    PROVE  TypeOK'
<1>0. CASE UNCHANGED vars
  BY <1>0 DEF TypeOK, vars, files
<1>1. CASE Boot
  BY <1>1 DEF Boot, TypeOK, files
<1>2. CASE RegisterCa \/ ProvisionBroker \/ ProvisionNode
  BY <1>2 DEF RegisterCa, ProvisionBroker, ProvisionNode, TypeOK, files
<1>3. CASE RegisterBroker
  <2>1. conf' \in Listener \cup {None}
    BY <1>3 DEF RegisterBroker, TypeOK, WrittenListener, Listener
  <2>2. passwd' \in PasswordFile
    BY <1>3, PasswordSet DEF RegisterBroker, TypeOK, PasswordFile
  <2>3. failed' \subseteq {"conf", "passwd"}
    BY <1>3 DEF RegisterBroker
  <2> QED
    BY <1>3, <2>1, <2>2, <2>3 DEF RegisterBroker, TypeOK
<1>4. CASE StartMosquitto
  <2>1. broker' \in Process \cup {None}
    BY <1>4, NewProcess DEF StartMosquitto, CanListen
  <2> QED
    BY <1>4, <2>1 DEF StartMosquitto, TypeOK, files
<1>5. CASE StartMqttClient \/ ConnAck \/ ConnectedTxDropped \/ SubscribeAll
  BY <1>5 DEF StartMqttClient, ConnAck, ConnectedTxDropped, SubscribeAll, ChannelsDropped,
              TypeOK, files
<1>6. CASE StartGateway \/ StartGatewayMqtt
  BY <1>6 DEF StartGateway, StartGatewayMqtt, TypeOK, files
<1>7. CASE BrokerDies \/ OldBrokerEnds
  BY <1>7 DEF BrokerDies, OldBrokerEnds, TypeOK, files
<1>8. CASE NodeEnds
  BY <1>8 DEF NodeEnds, TypeOK
<1> QED
  BY <1>0, <1>1, <1>2, <1>3, <1>4, <1>5, <1>6, <1>7, <1>8 DEF Next, Initialize

\* The node's files, processes and services keep their types.
THEOREM TypeCorrect == Spec => []TypeOK
<1>1. Init => TypeOK
  BY DEF Init, TypeOK, PasswordFile
<1> QED
  BY <1>1, TypeStep, PTL DEF Spec

\* Every step preserves StartInv: the files, the broker and the client follow
\* the configuration of this start as far as initialize has come.
LEMMA StartStep ==
    ASSUME TypeOK, StartInv, [Next]_vars
    PROVE  StartInv'
<1> USE DEF FromProvisioned, FromRegistered, FromNode, FromStarted
<1>0. CASE UNCHANGED vars
  BY <1>0 DEF StartInv, vars, files, BrokerTls, ClientTls, IsAvailable, WrittenListener
<1>1. CASE Boot
  BY <1>1 DEF Boot, StartInv, files
<1>2. CASE RegisterCa
  BY <1>2 DEF RegisterCa, StartInv, files, BrokerTls, ClientTls, IsAvailable, WrittenListener
<1>3. CASE ProvisionBroker
  BY <1>3 DEF ProvisionBroker, StartInv, BrokerTls, ClientTls, IsAvailable, WrittenListener
<1>4. CASE RegisterBroker
  <2>1. PICK ok \in SUBSET {"conf", "passwd"} :
          LET tried == IF ~IsAvailable("mosquitto") THEN {}
                       ELSE IF BrokerTls THEN {"conf"} ELSE {"conf", "passwd"}
              done == tried \cap (IF IsAvailable("mosquitto_passwd") THEN ok ELSE ok \ {"passwd"})
          IN  /\ conf' = IF "conf" \in done THEN WrittenListener ELSE conf
              /\ passwd' = IF "passwd" \in done THEN SetPassword ELSE passwd
              /\ failed' = tried \ done
    BY <1>4 DEF RegisterBroker
  <2>2. IsAvailable("mosquitto") /\ "conf" \notin failed' => conf' = WrittenListener
    BY <2>1
  <2>3. IsAvailable("mosquitto") /\ ~BrokerTls /\ "passwd" \notin failed' => passwd' = SetPassword
    BY <2>1
  <2>4. broker = None
    BY <1>4 DEF RegisterBroker, StartInv
  <2>5. /\ env' = env /\ tlsFiles' = tlsFiles /\ broker' = None
        /\ at = "register" /\ at' \in {"node", "mosquitto"} /\ (ClientTls => at' = "node")
    BY <1>4, <2>4 DEF RegisterBroker
  <2> QED
    BY <2>2, <2>3, <2>5, PasswordSet DEF StartInv, BrokerTls, ClientTls, IsAvailable, WrittenListener
<1>5. CASE ProvisionNode
  BY <1>5 DEF ProvisionNode, StartInv, BrokerTls, ClientTls, IsAvailable, WrittenListener
<1>6. CASE StartMosquitto
  <2>1. broker' # None =>
          /\ IsAvailable("mosquitto")
          /\ broker'.listener = conf /\ broker'.passwd = passwd
          /\ broker'.tls <=> "broker" \in tlsFiles
    BY <1>6, NewProcess DEF StartMosquitto, CanListen
  <2>2. /\ at = "mosquitto" /\ at' \in {"client", "gateway"} /\ (at' = "client" => IsAvailable("mosquitto"))
        /\ UNCHANGED <<env, conf, passwd, tlsFiles, failed>>
    BY <1>6 DEF StartMosquitto, files
  <2> QED
    BY <2>1, <2>2 DEF StartInv, BrokerTls, ClientTls, IsAvailable, WrittenListener
<1>7. CASE StartMqttClient \/ ConnAck \/ ConnectedTxDropped \/ SubscribeAll
  <2>1. /\ at \in {"client", "connack", "subscribe"}
        /\ at' \in {"connack", "subscribe", "gateway"} /\ (at' = "connack" => at = "client")
        /\ UNCHANGED <<env, conf, passwd, tlsFiles, failed, broker>>
    BY <1>7 DEF StartMqttClient, ConnAck, ConnectedTxDropped, SubscribeAll, files
  <2> QED
    BY <2>1 DEF StartInv, BrokerTls, ClientTls, IsAvailable, WrittenListener
<1>8. CASE StartGateway \/ StartGatewayMqtt
  <2>1. /\ at \in {"gateway", "cloud"} /\ at' \in {"cloud", "running"}
        /\ UNCHANGED <<env, conf, passwd, tlsFiles, failed, broker>>
    BY <1>8 DEF StartGateway, StartGatewayMqtt, files
  <2> QED
    BY <2>1 DEF StartInv, BrokerTls, ClientTls, IsAvailable, WrittenListener
<1>9. CASE BrokerDies \/ OldBrokerEnds
  BY <1>9 DEF BrokerDies, OldBrokerEnds, StartInv, files, BrokerTls, ClientTls, IsAvailable, WrittenListener
<1>10. CASE NodeEnds
  BY <1>10 DEF NodeEnds, StartInv
<1> QED
  BY <1>0, <1>1, <1>2, <1>3, <1>4, <1>5, <1>6, <1>7, <1>8, <1>9, <1>10 DEF Next, Initialize

\* StartInv holds throughout.
LEMMA StartHolds == Spec => []StartInv
<1>1. Init => StartInv
  BY DEF Init, StartInv, FromProvisioned, FromRegistered, FromNode, FromStarted
<1> QED
  BY <1>1, TypeCorrect, StartStep, PTL DEF Spec

\* The broker of this start accepts the client of this start, unless a file
\* could not be written or MQTT_TLS_ENABLED is unset: what earlier starts left
\* in the config file, the password file and the TLS files never matters.
THEOREM ClientAccepted == Spec => []OwnClientAccepted
<1>1. TypeOK /\ StartInv => OwnClientAccepted
  <2> SUFFICES ASSUME TypeOK, StartInv, at = "connack", broker # None, failed = {},
                      env.tls # "unset"
               PROVE  Accepts(broker)
    BY DEF OwnClientAccepted
  <2> USE DEF FromProvisioned, FromRegistered, FromNode, FromStarted
  <2>1. env.tls \in {"true", "false"}
    BY EnvFields DEF TypeOK
  <2>2. broker.listener = WrittenListener /\ broker.passwd = passwd /\ IsAvailable("mosquitto")
    BY DEF StartInv
  <2>3. CASE env.tls = "true"
    <3>1. BrokerTls /\ ClientTls
      BY <2>3 DEF BrokerTls, ClientTls
    <3>2. broker.tls /\ "node" \in tlsFiles
      BY <3>1 DEF StartInv
    <3> QED
      BY <2>2, <3>1, <3>2 DEF Accepts, WrittenListener
  <2>4. CASE env.tls = "false"
    <3>1. ~BrokerTls /\ ~ClientTls
      BY <2>4 DEF BrokerTls, ClientTls
    <3>2. passwd # None /\ passwd[env.user] = env.password
      BY <2>2, <3>1 DEF StartInv
    <3> QED
      BY <2>2, <3>1, <3>2 DEF Accepts, WrittenListener
  <2> QED
    BY <2>1, <2>3, <2>4
<1> QED
  BY <1>1, TypeCorrect, StartHolds, PTL

\* What the ConnAck says of the broker that sent it: its listener is the one for
\* the client's transport, whoever wrote the config file.
AcceptInv ==
    /\ client = "accepted" => at \in {"subscribe", "gateway", "cloud", "running"}
    /\ client = "accepted" /\ broker # None => (broker.listener = "tls" <=> ClientTls)

\* Every step preserves AcceptInv: no file and no setting matters to it once the
\* broker runs.
LEMMA AcceptStep ==
    ASSUME TypeOK, AcceptInv, [Next]_vars
    PROVE  AcceptInv'
<1>1. CASE ConnAck
  <2>1. PICK p \in old \cup ({broker} \ {None}) :
          Accepts(p) /\ client' = IF p = broker THEN "accepted" ELSE client
    BY <1>1 DEF ConnAck
  <2>2. client = "running" /\ at' = "subscribe" /\ broker' = broker /\ env' = env
    BY <1>1 DEF ConnAck
  <2>3. client' = "accepted" => (broker.listener = "tls" <=> ClientTls)
    BY <2>1, <2>2 DEF Accepts
  <2> QED
    BY <2>2, <2>3 DEF AcceptInv, ClientTls
<1>2. CASE Boot \/ NodeEnds \/ StartMqttClient \/ ConnectedTxDropped
  BY <1>2 DEF Boot, NodeEnds, StartMqttClient, ConnectedTxDropped, ChannelsDropped, AcceptInv
<1>3. CASE RegisterCa \/ ProvisionBroker \/ RegisterBroker \/ ProvisionNode \/ StartMosquitto
  BY <1>3 DEF RegisterCa, ProvisionBroker, RegisterBroker, ProvisionNode, StartMosquitto, AcceptInv
<1>4. CASE SubscribeAll \/ StartGateway \/ StartGatewayMqtt
  BY <1>4 DEF SubscribeAll, StartGateway, StartGatewayMqtt, AcceptInv, ClientTls
<1>5. CASE BrokerDies \/ OldBrokerEnds \/ UNCHANGED vars
  BY <1>5 DEF BrokerDies, OldBrokerEnds, vars, AcceptInv, ClientTls
<1> QED
  BY <1>1, <1>2, <1>3, <1>4, <1>5 DEF Next, Initialize

\* The port in the answer to a device is the one on which the broker listens that
\* has accepted the client, even on a config file that an earlier start wrote.
THEOREM DevicesFindBroker == Spec => []DevicesSentToBroker
<1>1. TypeOK /\ AcceptInv => DevicesSentToBroker
  <2> SUFFICES ASSUME TypeOK, AcceptInv, client = "accepted", broker # None, env.tls # "unset"
               PROVE  broker.listener = ToldListener
    BY DEF DevicesSentToBroker
  <2>1. broker.listener \in Listener /\ (broker.listener = "tls" <=> ClientTls)
    BY DEF TypeOK, AcceptInv, Process
  <2>2. BrokerTls <=> ClientTls
    BY EnvFields DEF TypeOK, BrokerTls, ClientTls
  <2> QED
    BY <2>1, <2>2 DEF ToldListener, Listener
<1>2. Init => AcceptInv
  BY DEF Init, AcceptInv
<1> QED
  BY <1>1, <1>2, TypeCorrect, AcceptStep, PTL DEF Spec
=============================================================================
