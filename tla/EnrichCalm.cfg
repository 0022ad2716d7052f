\* One upload, no crash and no API call.
SPECIFICATION CalmLive
CONSTANTS
    summary = summary
    graph1 = graph1
    graph2 = graph2
    wiki = wiki
    Subtasks = {summary, graph1, wiki}
    Summaries = {summary}
    WikiOps = {wiki}
    Plans <- SummaryOrAll
    IndexedStatuses = {"processing", "completed"}
    MaxRequests = 1
    MaxRetries = 1
    MaxFaults = 0
    UserOps = {}
    WikiInsertFails = FALSE
CHECK_DEADLOCK FALSE
INVARIANTS SlotsMatchOutstanding CompletedIsEnriched NoStrandedRow
PROPERTY EventuallyPromoted
