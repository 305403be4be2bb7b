\* All services, two callers and a queue with room for one command.
SPECIFICATION FairSpec
CONSTANTS
    ServiceId = {"Gateway", "Mosquitto", "MqttClient", "GatewayMqttClient"}
    Callers = {c1, c2}
    ChannelBuffer = 1
    TlsEnabled = TRUE
INVARIANTS
    SettledBetweenCommands
    OneInstance
    BrokerRestartable
    EachCallPendingOnce
PROPERTIES
    EveryCallAnswered
    ShutdownReachesAll
CHECK_DEADLOCK FALSE
