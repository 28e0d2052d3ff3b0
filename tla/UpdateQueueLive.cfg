CONSTANTS
    p1 = p1
    p2 = p2
    w1 = w1
    message = message
    chat_member = chat_member
    Pollers <- MCPollers
    Waiters <- MCWaiters
    Kinds <- MCKinds
    ExcludedByDefault <- MCExcluded
    Subscriptions <- MCSubscriptions
    Default = Default
    NotGiven = NotGiven
    NoPoll = NoPoll
    Offsets <- MCOffsets
    MaxUpdates = 1
SPECIFICATION FairSpec
INVARIANT NoStuckRequest
PROPERTY EveryRequestAnswered
