CONSTANTS
    i1 = i1
    i2 = i2
    NoOne = NoOne
    Instances = {i1, i2}
    MaxCalls = 2
    MaxTroubles = 1
    MaxCrashes = 1
SPECIFICATION LiveSpec
INVARIANT TypeOK
INVARIANT OneConnection
PROPERTY OneConnectionInTheEnd
PROPERTY StoppedIsDisconnected
PROPERTY WaiterTakesOver
CHECK_DEADLOCK FALSE
