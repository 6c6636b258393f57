SPECIFICATION FeedSpec
CONSTANTS
    Writers = {1, 2}
    Tabs = {1}
    PageSize = 1
    MaxFeedFaults = 0
INVARIANTS
    NoChangeIsMissed
CHECK_DEADLOCK FALSE
