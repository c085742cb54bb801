\* Three dashboards, two of which want the same port.
CONSTANTS
    Dashboards = {d1, d2, d3}
    Ports = {p1, p2}
    NoDashboard = NoDashboard
SPECIFICATION FairSpec
INVARIANT TypeOK
PROPERTIES FailedStartEnds
CHECK_DEADLOCK FALSE
