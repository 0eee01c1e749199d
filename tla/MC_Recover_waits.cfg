SPECIFICATION Spec
\* recover returns when the loop has gone through every snapshot: the
\* model stops there.
CHECK_DEADLOCK FALSE
CONSTANTS
    Primary = Primary
    t5 = t5
    t0 = t0
    t3 = t3
    t3b = t3b
    t3c = t3c
    t1 = t1
    t1b = t1b
    Snaps <- MCSnaps
    Count <- MCCount
    WaitsFor <- MCWaitLess
PROPERTY AllThreadsResumed
