SPECIFICATION Spec
CONSTANTS
    Commands = {1, 2}
    MaxOutboxFaults = 2
    ShipmentSize = 2
    MaxFileEdits = 1
    MaxMoves = 1
    KindsOf <- MCKindsOf
    MsgHumans = {"h"}
    MsgAgents = {"a"}
    MsgKeys = {1}
    Calls = {1, 2}
    MaxEvents = 3
    CvHuman = "h"
    CvAgents = {"a"}
    Creators = {1}
    MaxConvs = 2
    TkHumans = {9}
    TkAgents = {1, 2}
    TkCoordinator = 2
    TkCalls = {1, 2}
    KeyAttempts = 1
    MaxTasks = 2
    MaxTaskChanges = 2
    WfHumans = {1}
    WfAgents = {2, 3}
    WfCoordinator = 3
    WfCalls = {1}
    MaxWfVersion = 3
    MaxWfDepartures = 1
    MaxGivenRoles = 1
    Says = {1}
    MaxPosts = 1
    HistoryPage = 2
    MaxOnlineFaults = 1
    SharedAgents = {1}
    MaxShareChanges = 3
    MaxGroupPosts = 2
    MaxAgentReplies = 1
    MaxAgentFaults = 1
    ToolCallers = {1, 2, 3}
    MaxToolFaults = 2
    WalTurns = {1, 2}
    WalAttempts = {1}
    WalFiles = {1, 2}
    MaxWalFaults = 2
    Operator = 1
    WsUsers = {2}
    WsAgents = {3, 4}
    WsCompanies = {1, 5}
    DefaultCompany = 1
    Slugs = {"default", "acme"}
    WsRequests = {1, 2}
    MaxWsRequests = 2
    MaxWsFaults = 1
    Receivers = {1}
    MaxDeliverySeq = 3
    Flushes = {1, 2}
    MaxFlushes = 2
    MaxHookFaults = 1
    AttHumans = {1}
    AttAgents = {2, 3}
    AttIds = {1}
    AttConversations = {1, 2}
    AttCalls = {1, 2}
    MaxReferences = 2
    MaxMembershipChanges = 1
    MaxAttFaults = 1
INVARIANTS
    TypeOK
    DoneOnce
    
    RecordsAgree
    
PROPERTIES
    SettledStaysSettled
CHECK_DEADLOCK FALSE
