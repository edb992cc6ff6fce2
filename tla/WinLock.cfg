CONSTANTS
    Readers = {r1, r2, r3, w2}
    Writers = {w1, w2}
    Timed = {r1, w1}
SPECIFICATION FairSpec
INVARIANTS TypeOK CountsAreTrue NoLostWakeup
PROPERTIES ImplementsRWLock WriterGetsIn
