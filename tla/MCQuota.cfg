CONSTANTS
    Threads = {t1, t2}
    Limit = 2
    Amounts = {1}
    MaxReservations = 1
    MaxTime = 1
    Ttl = 1
    Period = 1
    Free = Free
SPECIFICATION Spec
PROPERTY CallsReturn
CHECK_DEADLOCK FALSE
