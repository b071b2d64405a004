\* Two contexts on one client, results of up to three rows, one failing request.
SPECIFICATION Spec
CONSTANTS
    c1 = c1
    c2 = c2
    Consumers = {c1, c2}
    MaxRows = 3
    MaxOpens = 3
    MaxFaults = 1
INVARIANTS FetchesFollowTheResult ReadsFailForCause ClientsAreClosed
CHECK_DEADLOCK FALSE
