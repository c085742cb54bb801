------------------------------- MODULE Handoff ------------------------------
(***************************************************************************)
(* Walking through nested graphs: how the handler turns the start of a     *)
(* node into edge events (_transition in src/loopscope/langgraph.py), and  *)
(* how the page turns those into one hop between two work nodes            *)
(* (compactTopology, onEdge and declareHop in dashboard.html).             *)
(*                                                                         *)
(* The graph runs one node after the other here; what parallel branches do *)
(* to _last_node is module GraphCallback's subject.  Any node of a graph   *)
(* may follow any other: Command.goto and a router whose destinations      *)
(* could not be read go where no edge of the topology leads, and so does a *)
(* graph whose node skips the graph it is drawn as.  A node runs its graph *)
(* once at most, and may call include_subgraph() before.                   *)
(***************************************************************************)
EXTENDS Topology

CONSTANTS
    None,       \* Python's None
    MaxEdges,   \* bound: per graph, its edges
    MaxDepth,   \* bound: how deep graphs run inside graphs
    MaxPasses,  \* bound: top-level invokes
    MaxStrays   \* bound: steps along no edge

ASSUME NumbersAssumption ==
    /\ MaxEdges \in [Graphs -> Nat] /\ MaxPasses \in Nat /\ MaxStrays \in Nat
    /\ MaxDepth \in Nat /\ MaxDepth >= Cardinality(Graphs)
ASSUME NoneAssumption == None \notin BoundedSeq((UNION Range(NodesOf)) \cup {Start, End}, MaxDepth)

VARIABLES
    subgraphs, \* _subgraphs: the paths that were included
    topology,  \* the one published last: _edge_targets, _terminal_ids, _containers
    at,        \* the node that runs, as a path; <<>> between invokes
    done,      \* whether it has done its work
    lastNode,  \* _last_node
    emitted,   \* the edge events of the last callback
    page,      \* the page's links, markerSources and last handoff
    away,      \* history: no edges lead here from lastNode
    jump,      \* history: the last callback's hop, if no edges lead along it
    jumps,     \* history: those between drawn work nodes, since the topology
    hop,       \* history: the last hop between two drawn work nodes
    passes,    \* history: how many invokes there were
    strays     \* history: how many steps there were along no edge

shapeVars == <<subgraphs, topology>>
hopVars == <<away, jumps, hop>>
vars == <<graph, shapeVars, at, done, lastNode, emitted, page, jump, hopVars, passes, strays>>

Paths == BoundedSeq((UNION Range(NodesOf)) \cup {Start, End}, MaxDepth)
GraphAt(path) ==
    LET run[i \in 0..Len(path)] == IF i = 0 THEN Root ELSE Runs[run[i - 1]][path[i]]
    IN  run[Len(path)]
Calls(path) == ~IsMarker(path) /\ Runs[GraphAt(Front(path))][Last(path)] # NoGraph

-----------------------------------------------------------------------------
(* _transition.                                                            *)

\* The shortest walks from source to target that pass through markers only
Walks(source, target) ==
    LET onward(w) == (Successors(topology.edges, Last(w)) \cap Markers(topology)) \ Range(w)
        walk[k \in 0..Cardinality(Markers(topology))] ==
            IF k = 0 THEN {<<source>>}
            ELSE UNION {{Append(w, n) : n \in onward(w)} : w \in walk[k - 1]}
        arriving(k) == {w \in walk[k] : target \in Successors(topology.edges, Last(w))}
        lengths == {k \in 0..Cardinality(Markers(topology)) : arriving(k) # {}}
    IN  IF lengths = {} THEN {} ELSE {Append(w, target) : w \in arriving(Min(lengths))}

\* Bug: the markers are not walked through.
TransitionStraight(source, target) == {<<<<source, target>>>>}

\* The edges of such a walk; without one, an edge of its own, none to itself
Transition(source, target) ==
    IF Walks(source, target) = {}
      THEN {IF source = target THEN <<>> ELSE <<<<source, target>>>>}
      ELSE {[i \in 1..Len(w) - 1 |-> <<w[i], w[i + 1]>>] : w \in Walks(source, target)}

-----------------------------------------------------------------------------
(* The page.                                                               *)

\* Bug: a link may lead to a marker.
JoinedToMarkers(t) == {e \in t.edges : e[1] \in Work(t)}

\* compactTopology: the links between work nodes, joined across the markers
Joined(t) ==
    LET across(m, edges) == edges \cup (Predecessors(edges, m) \X Successors(edges, m))
    IN  FoldSet(across, t.edges, Markers(t)) \cap (Work(t) \X Work(t))

\* onTopology: a marker's source is kept when both are still there
Show(p, t) ==
    [p EXCEPT !.links = Joined(t), !.sources = @ \cap (Markers(t) \X Work(t))]

\* Bug: the first source a marker had is kept.
LearnOnce(p, marker, source) ==
    IF Successors(p.sources, marker) # {} THEN p
    ELSE [p EXCEPT !.sources = @ \cup ({<<marker, source>>} \ {<<marker, None>>})]

\* markerSources.set(marker, source), where the source may be undefined
Learn(p, marker, source) ==
    [p EXCEPT !.sources = {x \in @ : x[1] # marker} \cup ({<<marker, source>>} \ {<<marker, None>>})]

\* The work node behind an id, None if the page has not seen it
Behind(p, id) ==
    IF id \in Markers(topology) /\ Successors(p.sources, id) = {} THEN None
    ELSE IF id \in Markers(topology) THEN CHOOSE s \in Successors(p.sources, id) : TRUE
    ELSE id

\* onEdge, and declareHop for a link that is not drawn yet
OnEdge(p, e) ==
    LET link == <<Behind(p, e[1]), e[2]>> IN
    IF e[2] \in Markers(topology) THEN Learn(p, e[2], link[1])
    ELSE IF link \notin Work(topology) \X Work(topology) THEN p
    ELSE [p EXCEPT !.links = @ \cup {link}, !.handoff = link]

-----------------------------------------------------------------------------
(* Every graph has an entry; LangGraph refuses one without.  A router that  *)
(* may go to End is drawn with an edge that is there anyway.  Bounds: no node *)
(* has a way out only, and one graph has one such router.                   *)
Shapes(g) ==
    LET flows == UNION {kSubset(k, (NodesOf[g] \cup {Start}) \X (NodesOf[g] \cup {End})) : k \in 1..MaxEdges[g]}
    IN  {[flow |-> f, stubs |-> s, declared |-> d] :
            f \in {x \in flows : Start \in Sources(x)},
            s \in SUBSET (NodesOf[g] \cup {Start}),
            d \in SUBSET {n \in NodesOf[g] : Runs[g][n] # NoGraph}}

Valid(shape) ==
    /\ Sources(shape.flow) \subseteq Targets(shape.flow) \cup {Start}
    /\ \A n \in shape.stubs : n \in Sources(shape.flow) /\ <<n, End>> \notin shape.flow

With(f, g, s) == [h \in DOMAIN f \cup {g} |-> IF h = g THEN s ELSE f[h]]
Shaped == FoldSet(LAMBDA g, fs : {With(f, g, s) : f \in fs, s \in {x \in Shapes(g) : Valid(x)}}, {<<>>}, Graphs)

Init ==
    /\ graph \in Shaped
    /\ Cardinality(UNION {{<<g, n>> : n \in graph[g].stubs} : g \in Graphs}) <= 1
    /\ subgraphs = {} /\ topology = Topology({})
    /\ at = <<>> /\ done = FALSE /\ lastNode = None /\ emitted = <<>>
    /\ page = [links |-> Joined(topology), sources |-> {}, handoff |-> <<>>]
    /\ away = FALSE /\ jump = <<>> /\ jumps = {} /\ hop = <<>>
    /\ passes = 0 /\ strays = 0

-----------------------------------------------------------------------------
(* A callback's edge events reach the page one after the other.             *)
AfterEdges(p, edges) ==
    LET after[i \in 0..Len(edges)] == IF i = 0 THEN p ELSE OnEdge(after[i - 1], edges[i])
    IN  after[Len(edges)]

Emit(edges) ==
    /\ emitted' = edges
    /\ page' = AfterEdges(page, edges)

Silent == emitted' = <<>> /\ jump' = <<>> /\ UNCHANGED page

(* The invoke starts: on_chain_start of the root, and its iter.start.       *)
StartInvoke ==
    /\ at = <<>> /\ passes < MaxPasses
    /\ at' = <<Start>> /\ done' = TRUE
    /\ lastNode' = None
    /\ page' = [page EXCEPT !.sources = {}]
    /\ passes' = passes + 1
    /\ emitted' = <<>> /\ jump' = <<>>
    /\ away' = FALSE
    /\ UNCHANGED <<graph, shapeVars, jumps, hop, strays>>

LastOrStart == IF lastNode = None THEN <<Start>> ELSE lastNode

(* Where the edges lead from the node that runs                             *)
NextNames ==
    LET flow == graph[GraphAt(Front(at))].flow
    IN  IF Last(at) \in Sources(flow) THEN Successors(flow, Last(at)) ELSE {End}

(* To go there, no edges are taken: they end at another node, or already    *)
(* did on the way from lastNode.                                           *)
Strays(name) == away \/ name \notin NextNames

CountStray(stray) ==
    /\ stray => strays < MaxStrays
    /\ strays' = IF stray THEN strays + 1 ELSE strays

Hop(path) == <<LastOrStart, path>>
Jump(name, path) == IF Strays(name) THEN Hop(path) ELSE <<>>

(* on_chain_start of the next node: a container only holds other nodes.     *)
EnterNode(name) ==
    LET path == Append(Front(at), name)
        drawn == {LastOrStart, path} \subseteq Work(topology)
    IN
    /\ at # <<>> /\ done
    /\ name \in NodesOf[GraphAt(Front(at))]
    /\ CountStray(name \notin NextNames)
    /\ at' = path
    /\ done' = (~Calls(path) \/ Len(path) = MaxDepth)
    /\ IF path \in Containers(topology)
         THEN /\ Silent
              /\ away' = Strays(name)
              /\ UNCHANGED <<lastNode, jumps, hop>>
         ELSE /\ \E edges \in Transition(LastOrStart, path) :
                    /\ Emit(edges)
                    /\ IF drawn /\ edges # <<>>
                         THEN hop' = Hop(path) /\ jumps' = jumps \cup ({Jump(name, path)} \ {<<>>})
                         ELSE UNCHANGED <<hop, jumps>>
              /\ jump' = Jump(name, path)
              /\ lastNode' = path /\ away' = FALSE
    /\ UNCHANGED <<graph, shapeVars, passes>>

(* The node runs its graph: a chain the handler takes no notice of.         *)
EnterGraph ==
    /\ at # <<>> /\ ~done
    /\ at' = Append(at, Start) /\ done' = TRUE
    /\ Silent
    /\ UNCHANGED <<graph, shapeVars, lastNode, hopVars, passes, strays>>

(* include_subgraph(), before that.                                        *)
IncludeSubgraph ==
    /\ at # <<>> /\ ~done
    /\ at \notin Containers(topology)
    /\ subgraphs' = subgraphs \cup {at}
    /\ topology' = Topology(subgraphs')
    /\ page' = Show(page, topology')
    /\ emitted' = <<>> /\ jump' = <<>>
    /\ jumps' = {}
    /\ UNCHANGED <<graph, at, done, lastNode, away, hop, passes, strays>>

(* The inner graph ends, and on_chain_end of the node that ran it.          *)
LeaveGraph ==
    /\ Len(at) > 1 /\ done
    /\ CountStray(End \notin NextNames)
    /\ at' = Front(at) /\ done' = TRUE
    /\ IF at' \in Containers(topology)
         THEN away' = Strays(End) /\ UNCHANGED lastNode
         ELSE away' = FALSE /\ lastNode' = at'
    /\ Silent
    /\ UNCHANGED <<graph, shapeVars, jumps, hop, passes>>

(* The node returns without having run its graph.                          *)
Skip ==
    /\ at # <<>> /\ ~done
    /\ CountStray(at \in Containers(topology))
    /\ done' = TRUE /\ away' = (away \/ at \in Containers(topology))
    /\ Silent
    /\ UNCHANGED <<graph, shapeVars, at, lastNode, jumps, hop, passes>>

(* on_chain_end of the root.                                               *)
EndInvoke ==
    /\ Len(at) = 1 /\ done
    /\ CountStray(End \notin NextNames)
    /\ at' = <<>> /\ done' = FALSE
    /\ \E edges \in Transition(LastOrStart, <<End>>) : Emit(edges)
    /\ jump' = Jump(End, <<End>>)
    /\ UNCHANGED <<graph, shapeVars, lastNode, hopVars, passes>>

Next ==
    \/ StartInvoke \/ EndInvoke
    \/ \E name \in UNION Range(NodesOf) : EnterNode(name)
    \/ EnterGraph \/ LeaveGraph \/ Skip \/ IncludeSubgraph

Spec == Init /\ [][Next]_vars

-----------------------------------------------------------------------------
(* Type invariant; the page links work nodes only, and a marker has at most *)
(* one source, which may have become a container since.                    *)
TypeOK ==
    /\ subgraphs \subseteq Paths
    /\ topology.edges \subseteq Paths \X Paths
    /\ at \in Paths
    /\ lastNode \in Paths \cup {None}
    /\ emitted \in Seq(Paths \X Paths)
    /\ page.links \subseteq Work(topology) \X Work(topology)
    /\ page.sources \subseteq Markers(topology) \X (Work(topology) \cup Containers(topology))
    /\ \A m \in Markers(topology) : Cardinality(Successors(page.sources, m)) <= 1

(* The nodes under a path whose graph is known and is not one of those that *)
(* run already, outside of them.                                           *)
Known(path) ==
    LET g == GraphAt(path) IN
    {n \in NodesOf[g] :
        /\ Runs[g][n] # NoGraph
        /\ n \in graph[g].declared \/ Append(path, n) \in subgraphs
        /\ \A k \in 0..Len(path) : GraphAt(SubSeq(path, 1, k)) # Runs[g][n]}

Opened == {<<>>} \cup Containers(topology)

StepsAt(path) ==
    LET g == GraphAt(path)
        out(n) == IF Append(path, n) \in Opened THEN path \o <<n, End>> ELSE Append(path, n)
        in(n) == IF Append(path, n) \in Opened THEN path \o <<n, Start>> ELSE Append(path, n)
        ends == NodesOf[g] \ Sources(graph[g].flow)
    IN  {<<out(e[1]), in(e[2])>> : e \in graph[g].flow \cup (ends \X {End})}

(* A node is drawn as its graph if and only if that graph is known.  Every  *)
(* edge of the topology is a step of the nested graphs, and every step of   *)
(* the part that is known is an edge: into the entry marker and out of the  *)
(* exit marker of a node that is drawn as a graph, never to or from the     *)
(* node itself, at any depth.                                              *)
TopologyIsFlat ==
    /\ Containers(topology) = UNION {{Append(path, n) : n \in Known(path)} : path \in Opened}
    /\ topology.edges = UNION {StepsAt(path) : path \in Opened}

(* ADR-0008:10: "transitions walk through markers so emitted edges exist in *)
(* the expanded topology": true of edges between nodes of the topology but  *)
(* for one, the hop along which no edges lead, reported as it is.  A node   *)
(* that was discovered to be a graph while it ran is no longer one.        *)
EmittedEdgesExist ==
    \A i \in DOMAIN emitted :
        \/ emitted[i] \in topology.edges
        \/ ~(ToSet(emitted[i]) \subseteq topology.nodes)
        \/ emitted = <<jump>>

(* The hop the page shows is the last one between two drawn work nodes that *)
(* ran one after the other, across any number of markers, and the diagram   *)
(* has its link: the topology's, and one declared for each hop that took    *)
(* none, until the next topology is drawn.  No hop and no link is made up   *)
(* from what markers saw in another pass.                                   *)
HandoffIsLast ==
    /\ page.handoff = hop
    /\ page.links = Joined(topology) \cup jumps
=============================================================================
