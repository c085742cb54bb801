\* One thread publishes; the tab loses its connection and reconnects once.
CONSTANTS
    Producers = {p1}
    Queues = {q1, q2}
    Runs = {r1, r2}
    Paths = {}
    NoPath = NoPath
    NoConnection = NoConnection
    BufferSize = 1
    QueueSize = 1
    MaxEvents = 2
SPECIFICATION FairStreamSpec
INVARIANTS StreamTypeOK DropsOnlyDuplicates CaughtUp ReplayIsRecent
PROPERTIES StaleUnsubscribed EventuallyShown
CHECK_DEADLOCK FALSE
