CONSTANTS
    Names = {1}
    Servers = {"s1", "s2", "s3"}
    BadAddr = "bad"
    Tables <- OneHost
    NoMessage = none
    MaxPublish = 2
    Keys = {1}
    Threads = {t1}
    Subscriber = sub
    Owner <- MCOwner
    NoJedis = null
    Timeout = 1
SPECIFICATION Spec
PROPERTIES LookupsBlocked
