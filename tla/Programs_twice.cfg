\* Not among the runs: a second SIGINT is handled by another thread while the
\* handler of the first sleeps, and both delete the components.
SPECIFICATION Spec
CONSTANTS
    Prompt = TRUE
    MaxSignals = 2
    MaxArrivals = 0
    MaxRequests = 0
INVARIANT NoUseAfterFree
