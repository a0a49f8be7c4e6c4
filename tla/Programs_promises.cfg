\* Not among the runs (each is violated; tlc -continue shows all of them): a
\* new thread calls a function object whose owner has returned, and the
\* trade engine ends with updates still coming in.
SPECIFICATION Spec
CONSTANTS
    Prompt = TRUE
    MaxSignals = 1
    MaxArrivals = 2
    MaxRequests = 0
INVARIANTS FunctionExists AllConsumed
