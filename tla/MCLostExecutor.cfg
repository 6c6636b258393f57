SPECIFICATION FairSpec
CONSTANTS
    s1 = s1
    s2 = s2
    g1 = g1
    g2 = g2
    Commands = {1, 2}
    Sessions = {s1}
    Agents = {g1}
    Hosts = {}
    Local = Local
    Accounted = {}
    SessionOf <- MCSessionOf
    AgentOf <- MCAgentOf
    MaxAttempts = 1
    MaxLease = 1
    MaxEpoch = 0
    MaxLetters = 1
    DispatchBatch = 2
    ChannelSize = 1
    ErrorKinds = {"auth"}
    MaxCrashes = 1
    MaxFaults = 0
PROPERTIES
    LostExecutorIsRecovered
CHECK_DEADLOCK FALSE
