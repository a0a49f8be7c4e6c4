\* Not among the runs: what the code's words promise of the order server and do
\* not keep: a round with more requests than the limit ends the exchange, requests
\* of different rounds change places, and with no room to send responses are
\* lost.  With -continue TLC shows all three.
SPECIFICATION Spec
CONSTANTS
  c1 = c1
  c2 = c2
  receive_sockets <- AcceptOrder
  MaxRequests = 2
  MaxSessions = 1
  Restarting = {}
  MaxClock = 1
  ME_MAX_PENDING_REQUESTS = 3
  SortThreshold = 16
  WouldBlock = TRUE
INVARIANTS
  NoResponseRejected
  NotFatal
  ReceivedOrder
\* an exchange that has ended stops
CHECK_DEADLOCK FALSE
