\* Two orders in one batch, two merchants; every notification may be lost.
CONSTANTS
    r1 = r1
    r2 = r2
    r3 = r3
    Requests = {r1, r2}
    RequestKey <- MCOwnKey
    RequestAmount <- MCEqualAmount
    Replicas = {k1}
    Browsers = {}
    MaxPending = 2
    BatchSize = 2
    Merchants = {m1, m2}
    FirstMerchant = m1
    NoOne = NoOne
SPECIFICATION FairSpec
PROPERTIES
    PaymentsAreCredited
CHECK_DEADLOCK FALSE
