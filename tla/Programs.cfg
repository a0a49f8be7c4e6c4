SPECIFICATION FairSpec
CONSTANTS
    Prompt = TRUE
    MaxSignals = 1
    MaxArrivals = 2
    MaxRequests = 2
INVARIANT NoUseAfterFree
PROPERTY ProgramEnds
