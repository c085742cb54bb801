\* Every graph of four nodes and a stray name with up to MaxEdges edges.
SPECIFICATION Spec
CONSTANTS
    Nodes = {a, b, c, d}
    Strays = {s}
    MaxEdges = 5
SYMMETRY Symmetry
INVARIANTS TypeOK BackEdgesCloseCycles StagesAdvance
\* A layout is computed once.
CHECK_DEADLOCK FALSE
