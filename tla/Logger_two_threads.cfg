\* Not among the runs: main and the trade engine's thread write to one
\* logger.  One element overwrites another, size() counts both, and the
\* destructor waits for ever.
SPECIFICATION FairLogSpec
CONSTANTS
    Threads = {"main", "engine"}
    Forms = {"percent"}
    Interrupts = FALSE
    Size = 4
    MaxCalls = 1
PROPERTY DestructorReturns
