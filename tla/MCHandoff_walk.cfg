\* Three graphs, one inside the other, with few edges.
SPECIFICATION Spec
CONSTANTS
    outer = outer
    inner = inner
    leaf = leaf
    a = a
    w = w
    Graphs <- Objects
    Root = outer
    NodesOf <- Nodes
    Runs <- Calling
    NoGraph = NoGraph
    Start = Start
    End = End
    None = None
    MaxEdges <- FewEdges
    MaxDepth = 3
    MaxPasses = 2
    MaxStrays = 1
INVARIANTS TypeOK TopologyIsFlat EmittedEdgesExist HandoffIsLast
CHECK_DEADLOCK FALSE
