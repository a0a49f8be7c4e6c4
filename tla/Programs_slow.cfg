\* Not among the runs: a thread that is slow to see that it is to end works
\* with a component that has been deleted.
SPECIFICATION Spec
CONSTANTS
    Prompt = FALSE
    MaxSignals = 1
    MaxArrivals = 0
    MaxRequests = 0
INVARIANT NoUseAfterFree
