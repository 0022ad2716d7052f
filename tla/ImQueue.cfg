CONSTANTS
    i1 = i1
    i2 = i2
    u1 = u1
    u2 = u2
    None = None
    Instances = {i1, i2}
    Users = {u1, u2}
    From <- MCFrom
    MaxSize = 1
    MaxPerUser = 1
    Workers = 2
    GlobalMax = 1
    MaxRequests = 3
    MaxCommands = 1
    MaxTroubles = 1
SPECIFICATION LiveSpec
INVARIANT TypeOK
 
 
 
PROPERTY StoppedRequestsEnd
CHECK_DEADLOCK FALSE
