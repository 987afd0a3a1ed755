\* Three targets, one of which may not answer; a timeout that is positive in 64 bits.
SPECIFICATION Spec
CONSTANTS
    Targets = {t1, t2, t3}
    Silent = {t1}
    Timeout = 5
    None = None
INVARIANT UnavailableIsReported
PROPERTY AvailableProceeds
CHECK_DEADLOCK FALSE
