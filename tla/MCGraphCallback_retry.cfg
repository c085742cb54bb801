\* A retry around invoke after the first one failed.
CONSTANTS
    Invocations = {r1, r2}
    Tasks = {t1}
    Program = Program
    Nodes = {a}
    Opaque = {}
    Start = Start
    End = End
    None = None
SPECIFICATION Spec
SYMMETRY Symmetry
INVARIANT RetryIsOneRun
CHECK_DEADLOCK FALSE
