SPECIFICATION Spec
CONSTANTS
    Subs = {1, 2}
    Preps = {1}
    MaxInst = 2
    MaxRes = 2
    MaxHsFaults = 1
    Workspaces = {1, 2}
    Devices = {1, 2}
    MaxGen = 2
    MaxHeadless = 1
    MaxUnderWay = 2
    Companies = {1, 2, 3}
    Links = {1, 2, 3}
    MaxOutput = 5
    MaxAttach = 3
    BroadcastSize = 2
    ChannelSize = 1
    Attempts = {11, 12}
    Manuals = {21}
    Builders = {1, 2}
    Versions = {1, 2}
    SuiteSize = 2
    TrialBudget = 1
    HistoryLimit = 1
    MaxSettings = 2
    MaxCorpora = 2
    MaxAgentMessages = 2
    Files = {1, 2}
    ConcurrentFiles = {2}
    Statements = {1, 2}
    MaxLaunches = 3
    Clients = {1, 2, 3}
    PoolSize = 2
    MaxPoolRuns = 3
    PoolRoutes = {"accessible_workspace_ids"}
    HpCompanies = {1}
    PairingCodes = {1}
    Credentials = {1}
    HostNames = {1, 2}
    Joins = {1, 2}
    HarnessAccounts = {1}
    MaxHosts = 2
    MaxPairingRows = 2
    MaxJoins = 2
    MaxHpFaults = 1
    SshFiles = {1, 2, 3}
    SqlTexts <- MCSqlTexts
INVARIANTS
    TypeOK
    DoneOnce
    EndedIsGone
    NewestCounts
    NothingIsSkipped
PROPERTIES
    OthersKeepTheirs
CHECK_DEADLOCK FALSE
