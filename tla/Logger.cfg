SPECIFICATION FairLogSpec
CONSTANTS
    Threads = {"main"}
    Forms = {"usual", "percent", "default"}
    Interrupts = TRUE
    Size = 4
    MaxCalls = 3
INVARIANT FileIsLog
PROPERTY DestructorReturns
