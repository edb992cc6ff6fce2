CONSTANTS
    Names = {1}
    Servers = {"s1", "s2"}
    BadAddr = "bad"
    Tables <- OneHost
    NoMessage = none
    MaxPublish = 2
    Keys = {1}
    Threads = {t1, t2}
    Subscriber = sub
    Owner <- MCOwner
    NoJedis = null
    Timeout = 1
SPECIFICATION MCFairSpec
INVARIANTS CommandSeesLiveJedis NoNullDereference
PROPERTIES OneViewPerCommand MessagesHandled
