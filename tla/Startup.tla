------------------------------- MODULE Startup -------------------------------
(***************************************************************************)
(* App::initialize over restarts of the node: the configuration is read,   *)
(* the binaries are looked for, the broker's files are written, the four   *)
(* services are registered and started in order, and between two of them   *)
(* initialize waits for the MQTT client to be accepted by the broker.      *)
(*                                                                         *)
(* The operator may change the environment between two starts, writes may  *)
(* fail, the node may crash at any step and the broker may die at any      *)
(* time.  Files outlive the node, and so does the broker, for the moment   *)
(* it takes to act on the signal the kernel sends it.                      *)
(*                                                                         *)
(* Certificates are the business of CertAuthority.  Here the TLS files are *)
(* complete or not.                                                        *)
(***************************************************************************)
EXTENDS FiniteSets

CONSTANTS Users, Passwords,     \* MQTT_USERNAME, MQTT_PASSWORD
          None

ASSUME NoneIsNoPassword ==
    None \notin Passwords /\ None \notin [Users -> Passwords \cup {None}]

VARIABLES env,        \* the environment of this start
          at,         \* where initialize is
          conf,       \* the listener in mosquitto.conf, None: no such file
          passwd,     \* the password file, None: no such file
          tlsFiles,   \* whose certificate and key were written to the end
          failed,     \* which of the files could not be written in this start
          broker,     \* the Mosquitto process, None: there is none
          old,        \* those of earlier starts that have not ended yet
          client,     \* the MQTT client service, "accepted" by the broker of this start
          up          \* which of the other services have been started

files == <<conf, passwd, tlsFiles>>
vars == <<env, at, files, failed, broker, old, client, up>>

Listener == {"plain", "tls"}
PasswordFile == [Users -> Passwords \cup {None}] \cup {None}

\* Mosquitto reads its files when it starts.
Process == [listener : Listener, passwd : PasswordFile, tls : BOOLEAN]

\* What the environment and the machine decide.  tls: MQTT_TLS_ENABLED.
\* binaries: what `which` finds.  gateway: whether PLACENET_GATEWAY_URL is set,
\* and its _USERNAME and _PASSWORD too.
Binaries == {"mosquitto", "mosquitto_passwd"}
Env == [tls : {"unset", "true", "false"}, user : Users, password : Passwords,
        binaries : SUBSET Binaries, gateway : {"unset", "url only", "complete"}]

TypeOK ==
    /\ env \in Env
    /\ at \in {"down", "ca", "broker cert", "register", "node", "mosquitto", "client",
               "connack", "subscribe", "gateway", "cloud", "running"}
    /\ conf \in Listener \cup {None}
    /\ passwd \in PasswordFile
    /\ tlsFiles \subseteq {"broker", "node"}
    /\ failed \subseteq {"conf", "passwd"}
    /\ broker \in Process \cup {None} /\ old \subseteq Process
    /\ client \in {"stopped", "running", "accepted", "failed"}
    /\ up \subseteq {"Gateway", "GatewayMqttClient"}

Init ==
    /\ env \in Env
    /\ at = "down"
    /\ conf = None /\ passwd = None /\ tlsFiles = {}
    /\ failed = {}
    /\ broker = None /\ old = {}
    /\ client = "stopped"
    /\ up = {}

-----------------------------------------------------------------------------
(* The configuration.  Both structs read MQTT_TLS_ENABLED, each with a      *)
(* default of its own.                                                     *)

BrokerTls == env.tls # "false"      \* MqttBrokerageConfig::tls_enabled
ClientTls == env.tls = "true"       \* MqttClientConfig::tls_mode is Mutual

\* write_config: one listener, on mqtts_port or on port.
WrittenListener == IF BrokerTls THEN "tls" ELSE "plain"

\* build_brokerage_info: the listener devices are told to use.
ToldPlain == "plain"
ToldListener == IF BrokerTls THEN "tls" ELSE "plain"

\* detect_capabilities looks once for both programs; is_available.
IsAvailable(binary) == binary \in env.binaries

\* gateway_mqtt's register_onto returns a handle.
CloudRegistered == env.gateway = "complete"

-----------------------------------------------------------------------------
(* initialize.                                                             *)

\* main: the environment is read anew.
Boot ==
    /\ at = "down"
    /\ at' = "ca"
    /\ env' \in Env
    /\ UNCHANGED <<files, failed, broker, old, client, up>>

\* detect_capabilities, CaService::register and ca_cert_pem.
RegisterCa ==
    /\ at = "ca"
    /\ at' = IF BrokerTls THEN "broker cert" ELSE "register"
    /\ UNCHANGED <<env, files, failed, broker, old, client, up>>

\* provision_mqtt_broker_cert, whose failure ends the process.
ProvisionBroker ==
    /\ at = "broker cert"
    /\ at' = "register"
    /\ tlsFiles' = tlsFiles \cup {"broker"}
    /\ UNCHANGED <<env, conf, passwd, failed, broker, old, client, up>>

\* mosquitto_passwd -c creates the file, without -c it adds or updates a user.
NoUser == [u \in Users |-> None]
SetPasswordOnce ==
    IF passwd = None THEN [NoUser EXCEPT ![env.user] = env.password] ELSE passwd
SetPassword ==
    [(IF passwd = None THEN NoUser ELSE passwd) EXCEPT ![env.user] = env.password]

\* register_onto of the broker.  Errors of write_config and of set_password are
\* logged, and what an earlier start has written stays.
RegisterBroker ==
    /\ at = "register"
    /\ at' = IF ClientTls THEN "node" ELSE "mosquitto"
    /\ \E ok \in SUBSET {"conf", "passwd"} :
          LET tried == IF ~IsAvailable("mosquitto") THEN {}
                       ELSE IF BrokerTls THEN {"conf"} ELSE {"conf", "passwd"}
              done == tried \cap (IF IsAvailable("mosquitto_passwd") THEN ok ELSE ok \ {"passwd"})
          IN  /\ conf' = IF "conf" \in done THEN WrittenListener ELSE conf
              /\ passwd' = IF "passwd" \in done THEN SetPassword ELSE passwd
              /\ failed' = tried \ done
    /\ UNCHANGED <<env, tlsFiles, broker, old, client, up>>

\* provision_node_identity, whose failure ends the process.
ProvisionNode ==
    /\ at = "node"
    /\ at' = "mosquitto"
    /\ tlsFiles' = tlsFiles \cup {"node"}
    /\ UNCHANGED <<env, conf, passwd, failed, broker, old, client, up>>

\* start_mosquitto_brokerage.  start() fails without a config file; its error,
\* like every error from here on, is logged.  The new process ends at once when
\* the port is taken.  When Mosquitto is not installed the next service to be
\* started is the gateway.
CanListen == conf # None /\ \A p \in old : p.listener # conf
StartMosquitto ==
    /\ at = "mosquitto"
    /\ at' = IF IsAvailable("mosquitto") THEN "client" ELSE "gateway"
    /\ broker' \in {None} \cup
          IF IsAvailable("mosquitto") /\ CanListen
          THEN {[listener |-> conf, passwd |-> passwd, tls |-> "broker" \in tlsFiles]}
          ELSE {}
    /\ UNCHANGED <<env, files, failed, old, client, up>>

\* start_mqtt_client.  build_mqtt_opts reads files only for mutual TLS; when it
\* fails, the channel ends that start has taken are dropped.
ChannelsKept == "stopped"
ChannelsDropped == "failed"
StartMqttClient ==
    /\ at = "client"
    /\ at' = "connack"
    /\ client' \in {"running"} \cup (IF ClientTls THEN {ChannelsDropped} ELSE {})
    /\ UNCHANGED <<env, files, failed, broker, old, up>>

\* Whether process p takes the client: the transport fits its listener, and so
\* do the certificates or the password.
Accepts(p) ==
    IF p.listener = "tls" THEN ClientTls /\ p.tls /\ "node" \in tlsFiles
    ELSE ~ClientTls /\ p.passwd # None /\ p.passwd[env.user] = env.password

\* mqtt_connected_rx resolves on the first ConnAck ...
ConnAck ==
    /\ at = "connack"
    /\ client = "running"
    /\ \E p \in old \cup ({broker} \ {None}) :
          Accepts(p) /\ client' = IF p = broker THEN "accepted" ELSE client
    /\ at' = "subscribe"
    /\ UNCHANGED <<env, files, failed, broker, old, up>>

\* ... or with an error when its sender is gone.
ConnectedTxDropped ==
    /\ at = "connack"
    /\ client = "failed"
    /\ at' = "gateway"
    /\ UNCHANGED <<env, files, failed, broker, old, client, up>>

SubscribeAll ==
    /\ at = "subscribe"
    /\ at' = "gateway"
    /\ UNCHANGED <<env, files, failed, broker, old, client, up>>

StartGateway ==
    /\ at = "gateway"
    /\ at' = IF CloudRegistered THEN "cloud" ELSE "running"
    /\ up' \in {up, up \cup {"Gateway"}}
    /\ UNCHANGED <<env, files, failed, broker, old, client>>

StartGatewayMqtt ==
    /\ at = "cloud"
    /\ at' = "running"
    /\ up' = up \cup {"GatewayMqttClient"}
    /\ UNCHANGED <<env, files, failed, broker, old, client>>

-----------------------------------------------------------------------------
(* The world.                                                              *)

\* The broker dies: by itself, for want of a file, or because the port is taken.
BrokerDies ==
    /\ broker # None
    /\ broker' = None
    /\ UNCHANGED <<env, at, files, failed, old, client, up>>

\* The pair of files that this step of initialize writes one after the other.
Unfinished ==
    CASE at = "broker cert" -> {"broker"} [] at = "node" -> {"node"} [] OTHER -> {}

\* exit(1) after a failed step, Ctrl-C, or a crash, also in the middle of a
\* step.  PR_SET_PDEATHSIG and kill_on_drop end the broker, which may take it
\* some time.
NodeEnds ==
    /\ at # "down"
    /\ at' = "down"
    /\ tlsFiles' \in {tlsFiles, tlsFiles \ Unfinished}
    /\ failed' = {}
    /\ broker' = None /\ old' = old \cup ({broker} \ {None})
    /\ client' = "stopped" /\ up' = {}
    /\ UNCHANGED <<env, conf, passwd>>

OldBrokerEnds ==
    /\ \E p \in old : old' = old \ {p}
    /\ UNCHANGED <<env, at, files, failed, broker, client, up>>

Initialize ==
    \/ RegisterCa \/ ProvisionBroker \/ RegisterBroker \/ ProvisionNode
    \/ StartMosquitto \/ StartMqttClient
    \/ ConnAck \/ ConnectedTxDropped \/ SubscribeAll
    \/ StartGateway \/ StartGatewayMqtt

Next == Boot \/ Initialize \/ BrokerDies \/ NodeEnds \/ OldBrokerEnds

Spec == Init /\ [][Next]_vars

\* initialize is one task, and each of its waits ends but the one for the
\* ConnAck; the client tries again and again, so that a broker that is there
\* and would accept it does so.
FairSpec == Spec /\ WF_vars(Initialize)

-----------------------------------------------------------------------------
(* Properties.                                                             *)

\* The broker that initialize has started accepts the client that initialize
\* has started, so that its wait for the ConnAck ends: whatever earlier starts
\* have written, two structs that are read from the environment on their own,
\* the config file, the password file and the certificates agree.  The
\* exceptions are a file that could not be written, which is only logged, and
\* MQTT_TLS_ENABLED left unset, for which the two structs have opposite defaults.
OwnClientAccepted ==
    /\ at = "connack" /\ client = "running" /\ broker # None
    /\ failed = {} /\ env.tls # "unset"
    => Accepts(broker)

\* A mosquitto.conf that an earlier start has left and this one could not replace
\* sends no device to a port where nobody listens: the broker that runs on it
\* does not accept the client, so the gateway does not start, and once it hands
\* out the broker's port (build_brokerage_info) the broker of this start listens
\* there.  Not covered: a ConnAck from a broker of an earlier start, a client that
\* failed to start, for which nobody waits, and MQTT_TLS_ENABLED left unset.
DevicesSentToBroker ==
    "Gateway" \in up /\ client = "accepted" /\ broker # None /\ env.tls # "unset"
      => broker.listener = ToldListener

\* initialize returns, or the process ends, or it waits for a ConnAck that only
\* a broker that died or does not fit can fail to send.
InitializeCompletes ==
    (at = "ca") ~> \/ at \in {"running", "down"}
                   \/ at = "connack" /\ (broker = None \/ ~Accepts(broker))
=============================================================================
