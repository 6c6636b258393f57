SPECIFICATION FairSpec
CONSTANTS
  a1 = a1
  a2 = a2
  human = human
  n1 = n1
  Nobody = Nobody
  NoFlow = NoFlow
  NoEvent = NoEvent
  Agents = {a1, a2}
  Nodes = {n1}
  Messages <- MCMessages
  Settings <- MCSettings
  Events = {1}
  ClaimBatch = 1
  ChannelSize = 1
  DeadLetterAfter = 2
  MaxEdits = 1
  MaxEarlyLapses = 1
  MaxCrashes = 1
  MaxFaults = 1
INVARIANTS
    TypeOK
    TrailBeforeCommand
    PublishedIsRouted
    GivenUpOnce
    CoordinatorIsWoken
PROPERTIES
    DecisionsAreFinal
    EveryEventHandled
CHECK_DEADLOCK FALSE
