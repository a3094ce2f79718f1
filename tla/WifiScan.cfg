\* Two networks, of which a scan finds at most one; two datagrams each way, so
\* that a late reply and an event are under way at once.
\* The process may end by a failed assertion, so the system may stop.
SPECIFICATION FairSpec
CONSTANTS
    Networks = {n1, n2}
    Torn = Torn
    MaxFound = 1
    MaxQueue = 2
INVARIANTS
    TypeOK
    StatusFollows
    ListFollows
PROPERTIES
    NetworkAppears
CHECK_DEADLOCK FALSE
