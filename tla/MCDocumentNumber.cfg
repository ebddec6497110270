SPECIFICATION NumbersSpec
CONSTANTS
    t1 = t1
    t2 = t2
    t3 = t3
    t4 = t4
    Nobody = Nobody
    Caller <- MCCaller
    Holder <- MCHolder
    MaxRetries = 3
INVARIANTS
    Numbered
    ParentStillLocked
    RaceLostOnce
PROPERTIES
    IssuedInOrder
    RequestsEnd
CHECK_DEADLOCK FALSE
