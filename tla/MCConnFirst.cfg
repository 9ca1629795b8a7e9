SPECIFICATION FairSpec
CONSTANTS
    CONNECT_TIMEOUT = 2
    RECONNECT_INTERVAL = 1
    RECONNECT_MAX_INTERVAL = 2
    RECONNECT_TRIES = 1
    MaxFd = 2
    MaxQueue = 1
PROPERTIES
    FirstAttemptEnds
