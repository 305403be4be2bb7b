\* The same with more messages than the inbound queue holds: a circular wait.
SPECIFICATION FairSpec
CONSTANTS
    MsgCapacity = 2
    CmdCapacity = 2
    RequestCapacity = 2
    MaxArrivals = 4
    MayStop = FALSE
PROPERTIES
    CommandsAnswered
CHECK_DEADLOCK FALSE
