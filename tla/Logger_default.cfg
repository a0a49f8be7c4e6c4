\* Not among the runs: TCPServer's default callbacks log with one argument
\* more than their format has "%", which ends the process.
SPECIFICATION LogSpec
CONSTANTS
    Threads = {"main"}
    Forms = {"default"}
    Interrupts = FALSE
    Size = 4
    MaxCalls = 1
INVARIANT NeverFatal
