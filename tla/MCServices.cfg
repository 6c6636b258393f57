SPECIFICATION Spec
CONSTANTS
    w1 = w1
    w2 = w2
    Writers = {1, 2, 3}
    Tabs = {1}
    PageSize = 1
    MaxFeedFaults = 1
    Jobs = {1}
    Schedulers = {w1, w2}
    ClaimLimit = 1
    MaxOccurrence = 3
    MaxCronFaults = 1
    MaxJobEdits = 1
    Turns = {1, 2, 3}
    MaxConcurrency = 2
    MaxLogins = 2
    Pairings = {1, 2}
    MaxRcFaults = 1
    RelayDevices = {w1, w2}
    Requests = {1, 2}
    Streams = {1, 2}
    MaxPending = 1
    MaxStreams = 1
    MaxMessages = 2
    RoomSize = 1
    MaxRelayFaults = 1
    Configs = {1}
    MaxConfigChanges = 3
    MaxConnectorEnds = 3
    RestartDelays = 2
    TrainCases = {1}
    ValidationCases = {3, 4}
    TestCases = {5}
    MaxMetricCalls = 12
    MaxProposals = 1
    MinibatchSize = 1
    Evaluators = {w1, w2}
    MaxEvaluatorFaults = 1
    MaxPolicyEdits = 1
    Learners = {w1, w2}
    LearningSources = {1}
    MaxRecords = 2
    MaxGeneration = 2
    MaxLearningFaults = 1
    Events = {1}
    Preparers = {11}
    Publishers = {w1, w2}
    MaxConsentChanges = 2
    MaxHubRevision = 2
    MaxRetries = 1
    MaxBehaviorFaults = 1
    BrowserIds = {w1, w2}
    BrowserCalls = {1, 2}
    WorkflowSteps = 1
    MaxPermissionChanges = 1
    MaxBrowserFaults = 1
    MaxTurns = 2
    WindowSize = 2
    MaxGuidance = 2
SYMMETRY Symmetry
INVARIANTS
    TypeOK
    OneCommandPerOccurrence
    DoneOnce
    EndedIsGone
    InStep
    AsDecided
PROPERTIES
    FinalStaysFinal
CHECK_DEADLOCK FALSE
