SPECIFICATION FairSpec
CONSTANTS
  c1 = c1
  c2 = c2
  receive_sockets <- AcceptOrder
  MaxRequests = 2
  MaxSessions = 2
  Restarting = {c2}
  MaxClock = 1
  ME_MAX_PENDING_REQUESTS = 4
  SortThreshold = 16
  WouldBlock = FALSE
INVARIANTS
  ClientOrder
  ResponsesAccountedFor
PROPERTY
  EveryRequestProcessed
