\* Two replicas, three rows (one of the former scheme), batches of two; every send may be
\* lost or look lost, every transaction may be rolled back.
CONSTANTS
    Events = {1, 2, 3}
    Legacy = {1}
    Replicas = {f1, f2}
    Limit = 2
    MaxSends = 2
    Nobody = Nobody
SPECIFICATION FairSpec
INVARIANTS
    SentWasDelivered
    OneFlusherPerRow
PROPERTIES
    EventuallySent
CHECK_DEADLOCK FALSE
