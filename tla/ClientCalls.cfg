SPECIFICATION FairSpec
CONSTANTS
    post = post
    get = get
    denied1 = denied1
    Nobody = Nobody
    Requests = {post, get, denied1}
    Retryable = {get}
    Denied = {denied1}
    MaxConcurrent = 2
    MaxRetries = 1
    SessionLimit = 2
    MaxTickets = 3
    MaxFaults = 2
    Faults <- CallFaults
INVARIANTS
    SessionsAccountedFor
    NothingLeftOpen
    GrantedNotRefused
PROPERTY
    EveryRequestReturns
CHECK_DEADLOCK FALSE
