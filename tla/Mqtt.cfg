\* All tasks over small channels, with a stop at any time; the inbound queue has
\* room for all that arrives.
SPECIFICATION FairSpec
CONSTANTS
    MsgCapacity = 1
    CmdCapacity = 1
    RequestCapacity = 1
    MaxArrivals = 1
    MayStop = TRUE
INVARIANTS
    RequiredTopicsRequested
    RepliesMatch
PROPERTIES
    InitializeReturns
    CommandsAnswered
CHECK_DEADLOCK FALSE
