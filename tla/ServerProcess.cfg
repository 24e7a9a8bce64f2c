\* Champion Data alone, and with a Glasgow feed that fails in part.
\* One socket among two matches, one request, and time for three polls.
SPECIFICATION ServerSpec
CONSTANTS
    POLL_SIM = 3
    POLL_LIVE = 3
    POLL_PRE_MATCH = 3
    POLL_MATCH_DAY = 3
    POLL_OFF_SEASON = 4
    MAX_ACTIVE_POLL = 3
    MaxLag = 1
    MaxClock = 7
    Never = Never
    Outcomes = {{"success"}, {"success", "partial"}}
    Sockets = {s1}
    Matches = {m1, m2}
    Malformed = none
    SHUTDOWN_TIMEOUT = 2
    MaxRequests = 1
INVARIANTS PunctualWorkerIsHealthy RoomsFollowRequests
PROPERTY ShutdownEnds
CHECK_DEADLOCK FALSE
