SPECIFICATION ApiFairSpec
CONSTANTS
    None = None
    Threads = {t1, t2}
    MaxCalls = 2
    MaxHistory = 0 \* not used by the endpoints
INVARIANTS NoAuditEventIsLost
PROPERTIES AnsweredOnceRequestsStop
CHECK_DEADLOCK FALSE
