SPECIFICATION FairSpec
CONSTANTS
    CONNECT_TIMEOUT = 2
    RECONNECT_INTERVAL = 1
    RECONNECT_MAX_INTERVAL = 2
    RECONNECT_TRIES = 3
    MaxFd = 3
    MaxQueue = 2
INVARIANTS
    TypeOK
    ConnectedIsServed
    NothingInFlightWhileWaiting
    PolledIsOpen
    QueueDrainedOnceConnected
    TriesBounded
PROPERTIES
    AttemptResolves
    LossResolves
    GivenUpWhenExhausted
    NoOverlappingAttempts
    ImplementsLifecycle
