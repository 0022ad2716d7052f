\* Two attempts: a reparse or a cancel at any moment.
SPECIFICATION Live
CONSTANTS
    summary = summary
    graph1 = graph1
    graph2 = graph2
    wiki = wiki
    Subtasks = {summary}
    Summaries = {summary}
    WikiOps = {}
    Plans <- Everything
    IndexedStatuses = {"processing"}
    MaxRequests = 2
    MaxRetries = 0
    MaxFaults = 0
    UserOps = {"cancel", "reparse"}
    WikiInsertFails = FALSE
CHECK_DEADLOCK FALSE
PROPERTIES NeverStuck
