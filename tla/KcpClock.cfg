SPECIFICATION Spec
CONSTANTS
    W = 32
    INTERVAL = 2
    RTO_DEF = 3
    RTO_MIN = 2
    RTO_MAX = 3
    SLACK = 3
    JUMP = 2
    PROBE_INIT = 2
    PROBE_LIMIT = 3
    Segs = {s1}
    Phases = {30}
    Ticks = {1, 3}
    Gap = 3
    Backs = {1, 6}
    Ages <- RoundTrips
    MaxXmit = 3
INVARIANTS ClockTypeOK FlushedInTime ResentInTime ProbedInTime CheckNeverLate
 
