\* Two threads publish one event each.
CONSTANTS
    Producers = {p1, p2}
    Queues = {q1, q2}
    Runs = {r1}
    Paths = {}
    NoPath = NoPath
    NoConnection = NoConnection
    BufferSize = 2
    QueueSize = 2
    MaxEvents = 2
SPECIFICATION StreamSpec
SYMMETRY Symmetry
INVARIANTS DropsOnlyDuplicates
CHECK_DEADLOCK FALSE
