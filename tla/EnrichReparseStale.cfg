\* A reparse while the first attempt is still at work.
SPECIFICATION Spec
CONSTANTS
    summary = summary
    graph1 = graph1
    graph2 = graph2
    wiki = wiki
    Subtasks = {summary}
    Summaries = {summary}
    WikiOps = {}
    Plans <- Everything
    IndexedStatuses = {"processing"}
    MaxRequests = 2
    MaxRetries = 0
    MaxFaults = 0
    UserOps = {"reparse"}
    WikiInsertFails = FALSE
CHECK_DEADLOCK FALSE
INVARIANTS CompletedIsEnriched
