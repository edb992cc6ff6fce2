CONSTANTS
    Timed = TRUE
    Calls = 2
    MaxBuf = 2
SPECIFICATION FairSpec
INVARIANTS TypeOK ReplyIsOwn  StaysIfRefusedOrMoved
PROPERTIES CallReturns
