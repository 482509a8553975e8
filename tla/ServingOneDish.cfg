SPECIFICATION FairSpec
CONSTANTS
    dish = dish
    part = part
    s1 = s1
    s2 = s2
    t1 = t1
    t2 = t2
    k1 = k1
    k2 = k2
    nobody = nobody
    NoOne <- nobody
    Items <- OneItem
    Parts = {}
    Servers <- TwoServers
    SessionOf <- OwnSessions
    Tasks <- OneTask
    Threads <- TwoThreads
    MaxToSpring = 2
    MaxToDjango = 2
INVARIANT AgreeWhenSettled
PROPERTY CaughtStaysCaught Converges
