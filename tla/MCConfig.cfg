CONSTANTS
    Names = {1, 2}
    Servers <- MCServers
    BadAddr <- MCBadAddr
    Tables <- MCTables
    NoMessage = none
    MaxPublish = 3
    Keys = {1}
    Threads = {}
    Subscriber = sub
    Owner <- MCOwner
    NoJedis = null
    Timeout = 1
SPECIFICATION SpecRequests
INVARIANTS TypeOK FollowsConfig AlwaysHasOwner RepairsItself
PROPERTIES LooksAtomic
CHECK_DEADLOCK FALSE
