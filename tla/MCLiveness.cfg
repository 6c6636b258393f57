SPECIFICATION Spec
CONSTANTS
    Writers = {1, 2}
    Tabs = {1}
    PageSize = 1
    MaxFeedFaults = 1
    Jobs = {1, 2}
    Schedulers = {1, 2}
    ClaimLimit = 1
    MaxOccurrence = 2
    MaxCronFaults = 1
    MaxJobEdits = 0
    Turns = {1, 2}
    MaxConcurrency = 1
    MaxLogins = 1
    Pairings = {1}
    MaxRcFaults = 2
    RelayDevices = {1}
    Requests = {1}
    Streams = {1}
    MaxPending = 1
    MaxStreams = 1
    MaxMessages = 1
    RoomSize = 1
    MaxRelayFaults = 1
    Configs = {1}
    MaxConfigChanges = 3
    MaxConnectorEnds = 3
    RestartDelays = 2
    TrainCases = {1}
    ValidationCases = {3}
    TestCases = {5}
    MaxMetricCalls = 8
    MaxProposals = 1
    MinibatchSize = 1
    Evaluators = {1}
    MaxEvaluatorFaults = 1
    MaxPolicyEdits = 1
    Learners = {1, 2}
    LearningSources = {1}
    MaxRecords = 1
    MaxGeneration = 1
    MaxLearningFaults = 1
    Events = {1}
    Preparers = {11}
    Publishers = {21}
    MaxConsentChanges = 2
    MaxHubRevision = 1
    MaxRetries = 1
    MaxBehaviorFaults = 1
    BrowserIds = {1}
    BrowserCalls = {1}
    WorkflowSteps = 1
    MaxPermissionChanges = 1
    MaxBrowserFaults = 1
    MaxTurns = 1
    WindowSize = 1
    MaxGuidance = 1
PROPERTIES
    WorkIsFinished
    StoppedWorkEnds
CHECK_DEADLOCK FALSE
