\* Three runs, nested in one another or not, and a ring that wraps.
CONSTANTS
    Runs = {r1, r2, r3}
    NoRun = NoRun
    Wrapper = wrapper
    Stage = stage1
    NoNode = NoNode
    BufferSize = 5
    MaxCols = 1
    MaxPasses = 2
    MaxOpen = 2
    MaxEvents = 9
SPECIFICATION Spec
SYMMETRY Symmetry
INVARIANTS TypeOK RunningIsTrue TapeIsTrue FreshTabReconstructs NothingInvented
CHECK_DEADLOCK FALSE
