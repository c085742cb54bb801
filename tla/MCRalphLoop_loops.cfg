\* A loop with phases, a signal and a deadline, and a bare one, in either nesting.
CONSTANTS
    outer = outer
    inner = inner
    Loops = {outer, inner}
    NoLoop = NoLoop
    plan = plan
    test = test
    PhaseList <- TwoPhases
    NoPhase = NoPhase
    Signals <- TwoSignals
    NoSignal = NoSignal
    Reasons = {"converged"}
    MaxIters <- TwoPasses
    StallAfter <- StallAtOnce
    TimeLimit <- OuterOnly
    StopFromOthers = FALSE
    MaxCalls <- TwoCalls
    MaxRuns = 1
SPECIFICATION Spec
INVARIANTS TypeOK ContextIsInnermost EndTellsWhy StallCountsPasses
PROPERTIES StopHeeded ImplementsTimeline
CHECK_DEADLOCK FALSE
