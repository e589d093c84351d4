CONSTANTS
    Known = {"F0", "F1"}
    HeadlineMax = 30
    TotalMax = 300
    StatementMin = 1
    StatementMax = 4
    CardHeadlineMax = 20
    CardStatementMax = 100
    IdLength = 2
    Targets <- MCTargets
    MaxViolations = 2
    ItemMax = 30
    ReasonMax = 200
    MessageMax = 60
    Threshold = 80
    Certain = 100
    Category = {"food", "taxi"}
    NULL = NULL
    Odd = Odd
    None = None
    SmallUnits <- MCSmall
    LargeUnits <- MCLarge
    Window = 30
    BanterMax = 100
    RuleTexts <- MCRuleTexts
    CardTexts <- MCCardTexts
    Entries1 <- MCEntries
    MaxEntries = 3
    Checks <- MCChecks
    Requests <- MCRequests
    Replies <- MCReplies
    Tokens <- MCTokens
    MaxTokens = 5
    Posts <- MCPosts
    Snapshots <- MCSnapshots
    Resolutions <- MCResolutions
    Inferences <- MCInferences
    Candidates <- MCCandidates
    Limits = {1, 3, 8}
    MinLength = 21
    MaxLength = 200
    Pasts <- MCPasts
    Comments <- MCComments
    Currents <- MCCurrents
    Forgotten <- MCForgotten
    Nil = Nil
    RoleVendor <- MCRoleVendor
    DefaultModel <- MCDefaultModel
    Keyed = {"xai", "openai"}
    ModelAdapters = {"spare"}
    Price <- MCPrice
    TicksPerMicro = 10
    DegradedThreshold = 3
    DegradedWindow = 60
    AlertWindow = 300
    AgeLimit = 10
    CostLimit = 60
    DayLength = 1000
    Dawn = 850
    Events <- MCEvents
SPECIFICATION Spec
INVARIANTS RulesKeepWhatIsSound AssembledIsFit ReportsAreWeighed IntakeAlwaysAnswers ClaimsAreGrounded RecordsAreTrue
CHECK_DEADLOCK FALSE
