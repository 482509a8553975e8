SPECIFICATION Spec
CONSTANTS
    c1 = c1
    c2 = c2
    s1 = s1
    s2 = s2
    s3 = s3
    k1 = k1
    k2 = k2
    noOne = noOne
    NoOne <- noOne
    Calls <- TwoCalls
    Sessions <- ThreeSessions
    UserOf <- TwoUsers
    Threads <- TwoThreads
    MaxMessages = 2
    MaxRounds = 2
    MaxFailures = 1
SYMMETRY Anonymous
INVARIANTS TwinsOnlyByOverlap DeletedNeverOrders OneOrderPerCall
PROPERTY HeldUntilReleased
CHECK_DEADLOCK FALSE
