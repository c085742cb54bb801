------------------------------ MODULE Topology ------------------------------
(***************************************************************************)
(* The topology of a graph and of the graphs its nodes run                 *)
(* (extract_topology in src/loopscope/langgraph.py).                       *)
(*                                                                         *)
(* A graph object's own picture merges what its builder says with what     *)
(* LangGraph draws; a node whose graph is known is then replaced by that   *)
(* graph's nodes, between an entry and an exit marker.  An id "w/x" is the *)
(* path <<w, x>> here, and the markers of w are <<w, Start>>, <<w, End>>.  *)
(*                                                                         *)
(* Routers: the destinations of a conditional edge are part of `flow',     *)
(* those of its path_map or those inferred from its function.  LangGraph   *)
(* draws a router without a path_map as an edge to End; such a node is in  *)
(* `stubs'.  Reading destinations out of a function is not modelled.  A    *)
(* terminal is drawn if an edge touches it.                                *)
(***************************************************************************)
EXTENDS Integers, SequencesExt, Functions

CONSTANTS
    Graphs,      \* graph objects
    Root,        \* the one that is attached
    NodesOf,     \* per graph, its work nodes
    Runs,        \* per graph and work node, the graph the node runs, or NoGraph
    NoGraph,
    Start, End   \* START_NODE, END_NODE

ASSUME GraphsAssumption ==
    /\ IsFiniteSet(Graphs) /\ Root \in Graphs /\ NoGraph \notin Graphs
    /\ DOMAIN NodesOf = Graphs /\ \A g \in Graphs : IsFiniteSet(NodesOf[g])
    /\ Start # End /\ \A g \in Graphs : {Start, End} \cap NodesOf[g] = {}
    /\ \A g \in Graphs : Runs[g] \in [NodesOf[g] -> Graphs \cup {NoGraph}]

VARIABLE graph   \* per graph object, what is known of it:
                 \*   flow: the edges its builder names
                 \*   stubs: the routers LangGraph draws to End
                 \*   declared: the nodes whose graph is known, compiled ones and
                 \*     those in loopscope_subgraphs

Sources(edges) == {e[1] : e \in edges}
Targets(edges) == {e[2] : e \in edges}
Successors(edges, n) == {e[2] : e \in {f \in edges : f[1] = n}}
Predecessors(edges, n) == {e[1] : e \in {f \in edges : f[2] = n}}

-----------------------------------------------------------------------------
(* _merge_topology and _ensure_terminals.                                  *)

\* What LangGraph draws: an edge to End for each router without a path_map
Drawn(g) == {e \in graph[g].flow : e[1] \notin graph[g].stubs} \cup (graph[g].stubs \X {End})

\* Bug: the drawing is believed.
DrawnAsIs(g) == graph[g].flow \cup Drawn(g)

\* A drawn edge to End is a stub when the builder knows where its source goes
Edges(g) ==
    graph[g].flow \cup
    {e \in Drawn(g) : e[2] = End /\ e[1] \in Sources(graph[g].flow) => e \in graph[g].flow}

\* Work nodes without a way out
Sinks(g) == NodesOf[g] \ Sources(Edges(g))

\* A graph's own picture: a sink leads to End
Merged(g) ==
    LET edges == IF Edges(g) = {} THEN {} ELSE Edges(g) \cup (Sinks(g) \X {End})
    IN  [nodes |-> NodesOf[g] \cup Sources(edges) \cup Targets(edges), edges |-> edges]

-----------------------------------------------------------------------------
(* extract_topology.                                                       *)

Below(name, node) == <<name>> \o node

\* The nodes of graph g that are replaced: their graph is known, by name or by
\* path, and does not run inside itself
Replaced(g, prefix, above, subgraphs) ==
    {n \in NodesOf[g] :
        /\ Runs[g][n] \notin above \cup {g, NoGraph}
        /\ n \in graph[g].declared \/ Append(prefix, n) \in subgraphs}

\* The topology, when the graphs of the paths in subgraphs are known too
Topology(subgraphs) ==
    LET extract[call \in Graphs \X Seq(UNION Range(NodesOf)) \X SUBSET Graphs] ==
            LET g == call[1]
                own == Merged(g)
                replaced == Replaced(g, call[2], call[3], subgraphs)
                child == [n \in replaced |-> extract[<<Runs[g][n], Append(call[2], n), call[3] \cup {g}>>]]
                Leave(n) == IF n \in replaced THEN <<n, End>> ELSE <<n>>
                Enter(n) == IF n \in replaced THEN <<n, Start>> ELSE <<n>>
            IN  [nodes |-> {<<n>> : n \in own.nodes \ replaced} \cup
                           UNION {{Below(n, m) : m \in child[n].nodes} : n \in replaced},
                 edges |-> {<<Leave(e[1]), Enter(e[2])>> : e \in own.edges} \cup
                           UNION {{<<Below(n, e[1]), Below(n, e[2])>> : e \in child[n].edges} : n \in replaced}]
    IN  extract[<<Root, <<>>, {}>>]

IsMarker(node) == Last(node) \in {Start, End}
Markers(t) == {n \in t.nodes : IsMarker(n)}
Work(t) == t.nodes \ Markers(t)

\* The nodes that are drawn as the graph they run
Containers(t) == {Front(n) : n \in {m \in t.nodes : Len(m) > 1 /\ Last(m) = Start}}
=============================================================================
