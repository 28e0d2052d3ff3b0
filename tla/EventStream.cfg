CONSTANTS
    s1 = s1
    c1 = c1
    Streams <- MCStreams
    Calls <- MCCalls
    QueueLimit = 2
    TTL = 0
    MaxNetworks = 2
    MaxPresses = 2
    MaxEvents = 3
    MaxTime = 1
SPECIFICATION Spec
INVARIANTS
    TypeOK
    ListedWhileConnected
    QueueIsNewest
    IdsNameOneQuery
    SpinnersAreExplained
PROPERTIES
    QueriesLiveTheirTime
