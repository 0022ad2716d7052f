\* A click, its retry with another amount and another top-up; a maintenance
\* pass and a polling browser race to confirm them.
CONSTANTS
    r1 = r1
    r2 = r2
    r3 = r3
    Requests = {r1, r2, r3}
    RequestKey <- MCKey
    RequestAmount <- MCRetryAmount
    Replicas = {k1}
    Browsers = {b1}
    MaxPending = 1
    BatchSize = 1
    Merchants = {m1}
    FirstMerchant = m1
    NoOne = NoOne
SPECIFICATION Spec
INVARIANTS
    
    PendingCap
    PaidIffCredited
PROPERTY ImplementsTopUps
CHECK_DEADLOCK FALSE
