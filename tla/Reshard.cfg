CONSTANTS
    Clients = {c1, c2}
    Servers = {s1, s2}
    BadAddr = bad
    NoMessage = none
    NoServer = null
    NoItem = nil
    Expiring = expiring
    Abandoned = abandoned
    NoCommand = nocommand
    Used <- MCUsed
    Timeout = 1
    MaxPublish = 3
    MaxStarts = 3
SPECIFICATION MCSpec
SYMMETRY Symmetry
INVARIANTS TypeOK OneOwner RepeatsOnlyInResharding OnlyTheseStay
CHECK_DEADLOCK FALSE
