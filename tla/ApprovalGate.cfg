CONSTANTS
    r1 = r1
    r2 = r2
    tool = tool
    yes = yes
    no = no
    stranger = stranger
    Replicas <- TwoReplicas
    Requests <- OnlyTool
    Home <- OnFirst
    Dangerous <- OnlyTool
    FailClose = TRUE
    Calls <- AllCalls
    Target <- ToTool
    Approving <- Approvers
    Entitled <- Owners
    WithRedis = TRUE
SPECIFICATION FairSpec
INVARIANTS
    RunsAreApproved
    AnswersAreTrue
PROPERTIES
    WaitsEnd
    ImplementsDecision
CHECK_DEADLOCK FALSE
