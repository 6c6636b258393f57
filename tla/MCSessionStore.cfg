SPECIFICATION StoreSpec
CONSTANTS
    s1 = s1
    g1 = g1
    g2 = g2
    Commands = {1}
    Sessions = {s1}
    Agents = {g1, g2}
    Hosts = {"h1"}
    Local = Local
    Accounted = {g2}
    SessionOf <- MCSessionOf
    AgentOf <- MCAgentOf
    MaxAttempts = 1
    MaxLease = 3
    MaxEpoch = 3
    MaxLetters = 1
INVARIANTS
    StoreTypeOK
PROPERTIES
    RevokedStaysRevoked
CHECK_DEADLOCK FALSE
