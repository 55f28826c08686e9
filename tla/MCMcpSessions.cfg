\* Three requests, room for two sessions, one subscriber.
SPECIFICATION Spec
CONSTANTS
    c1 = c1
    Requests = {1, 2, 3}
    Clients  = {c1}
    MaxSessions   = 2
    MaxSseClients = 1
    NoSession = 0
INVARIANTS
    SessionLimit
    ExpirySparesRequests
    ClosedOnce
    NoListenerLeaks
PROPERTIES
    RequestsEnd
    StalledSubscribersDropped
CHECK_DEADLOCK FALSE
