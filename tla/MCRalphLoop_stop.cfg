\* One bare loop that another thread may stop at any moment.
CONSTANTS
    outer = outer
    inner = inner
    Loops = {outer}
    NoLoop = NoLoop
    plan = plan
    test = test
    PhaseList <- NoPhases
    NoPhase = NoPhase
    Signals <- NoSignals
    NoSignal = NoSignal
    Reasons = {"stopped"}
    MaxIters <- TwoPasses
    StallAfter <- None
    TimeLimit = {}
    StopFromOthers = TRUE
    MaxCalls <- None
    MaxRuns = 1
SPECIFICATION Spec
PROPERTY StopHeeded
CHECK_DEADLOCK FALSE
