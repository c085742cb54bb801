\* Two threads publish; the bus records and has one dashboard with room for one event.
CONSTANTS
    Producers = {p1, p2}
    Queues = {q1}
    Runs = {r1}
    Paths = {f1}
    NoPath = NoPath
    BufferSize = 1
    QueueSize = 1
    MaxEvents = 2
SPECIFICATION FairSpec
INVARIANTS TypeOK AtMostOnce NothingLostAtConnect ProducerOrder TapeComplete
PROPERTIES ImplementsFeed Recorded Delivery
CHECK_DEADLOCK FALSE
