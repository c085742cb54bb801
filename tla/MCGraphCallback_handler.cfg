\* Two invokes, one after the other or overlapping, two nodes, in parallel or twice the same,
\* of which one runs a graph that the topology does not expand.
CONSTANTS
    Invocations = {r1, r2}
    Tasks = {t1, t2}
    Program = Program
    Nodes = {a, b}
    Opaque = {b}
    Start = Start
    End = End
    None = None
SPECIFICATION Spec
SYMMETRY Symmetry
VIEW View
INVARIANTS TypeOK PassPerInvoke FiledUnderPass EdgesObserved VisitsBracketed ShapeIsLatest
CHECK_DEADLOCK FALSE
