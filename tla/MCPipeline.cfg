SPECIFICATION Spec
CONSTANTS
    s1 = s1
    s2 = s2
    g1 = g1
    g2 = g2
    Commands = {1, 2, 3}
    Sessions = {s1, s2}
    Agents = {g1, g2}
    Hosts = {}
    Local = Local
    Accounted = {}
    SessionOf <- MCSessionOf
    AgentOf <- MCAgentOf
    MaxAttempts = 1
    MaxLease = 2
    MaxEpoch = 0
    MaxLetters = 1
    DispatchBatch = 2
    ChannelSize = 1
    ErrorKinds = {"auth"}
    MaxCrashes = 0
    MaxFaults = 0
INVARIANTS
    TypeOK
    OneBatchPerAgent
    ActiveIsWatched
    CommittedIsAnswered
PROPERTIES
    ImplementsStore
CHECK_DEADLOCK FALSE
