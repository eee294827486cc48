\* One producer, two consumers; a second of three ticks, so that the bits of
\* the fraction (11b) include the whole second that the kernel refuses.
SPECIFICATION FairSpec
CONSTANTS
    Producers = {p1}
    Consumers = {c1, c2}
    MaxElements = 2
    Bulk = 2
    Second = 3
    Limits = {0, 2, Forever}
    Forever = Forever
    MaxSignals = 1
    None = None
    p1 = p1
    c1 = c1
    c2 = c2
INVARIANTS TypeOK SizeAgrees WaitsNear
PROPERTIES ImplementsDeque Delivered
CHECK_DEADLOCK FALSE
