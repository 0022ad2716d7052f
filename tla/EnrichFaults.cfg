\* One attempt; cancel, delete, a crash or a lost drain.
SPECIFICATION Live
CONSTANTS
    summary = summary
    graph1 = graph1
    graph2 = graph2
    wiki = wiki
    Subtasks = {summary, wiki}
    Summaries = {summary}
    WikiOps = {wiki}
    Plans <- AllOrNothing
    IndexedStatuses = {"processing"}
    MaxRequests = 1
    MaxRetries = 0
    MaxFaults = 1
    UserOps = {"cancel", "delete"}
    WikiInsertFails = TRUE
CHECK_DEADLOCK FALSE
INVARIANT CancelledHoldsNoSlots
PROPERTIES NeverStuck
