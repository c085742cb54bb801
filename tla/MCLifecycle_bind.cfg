\* Two dashboards that want the same port.
CONSTANTS
    Dashboards = {d1, d2}
    Ports = {p1}
    NoDashboard = NoDashboard
SPECIFICATION Spec
INVARIANT NoSilentDeadPage
CHECK_DEADLOCK FALSE
