\* Not among the runs: what the code's words promise of its sockets.  Responses
\* to a client that has gone pile up in the buffer of its socket, which nothing
\* empties any more; a connect that fails is not noticed by createSocket, so that
\* the client's gateway starts without a connection; and an accept that fails
\* leaves connections waiting without an event.  With -continue TLC shows all
\* three.
SPECIFICATION TCPSpec
CONSTANTS
    Clients = {"c1"}
    MsgLen = 2
    MaxMessages = 1
    MaxResponses = 2
    Congested = FALSE
INVARIANTS
    BuffersEmptied
    StartedIsConnected
    NoConnectionForgotten
