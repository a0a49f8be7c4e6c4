SPECIFICATION Spec
CONSTANTS
  c1 = c1
  c2 = c2
  receive_sockets <- AcceptOrder
  MaxRequests = 2
  MaxSessions = 1
  Restarting = {}
  MaxClock = 1
  ME_MAX_PENDING_REQUESTS = 4
  SortThreshold = 1
  WouldBlock = FALSE
INVARIANT
  ClientOrder
