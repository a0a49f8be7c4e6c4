SPECIFICATION FairTCPSpec
CONSTANTS
    Clients = {"c1", "c2"}
    MsgLen = 2
    MaxMessages = 2
    MaxResponses = 1
    Congested = TRUE
INVARIANT RequestsAreWhole
PROPERTY EveryRequestPublished
