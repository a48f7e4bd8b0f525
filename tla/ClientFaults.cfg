SPECIFICATION Spec
CONSTANTS
    post = post
    get = get
    denied1 = denied1
    Nobody = Nobody
    Requests = {post, get, denied1}
    Retryable = {get}
    Denied = {denied1}
    MaxConcurrent = 2
    MaxRetries = 1
    SessionLimit = 3
    MaxTickets = 5
    MaxFaults = 2
    Faults <- AllFaults
INVARIANTS
    TicketHasItsToken
    NoReloginStorm
PROPERTIES
    FreshTokenKept
    AtMostOnce
CHECK_DEADLOCK FALSE
