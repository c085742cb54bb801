------------------------------- MODULE Layout -------------------------------
(***************************************************************************)
(* Laying out a cyclic graph (src/loopscope/layout.py): strip the edges a  *)
(* depth-first search finds going back, layer the rest by longest path,    *)
(* sweep the layers to order them, number the stages of the stepper.       *)
(*                                                                         *)
(* The lists of nodes and of edges are sets here, and a loop over one of   *)
(* them visits its members in any order.  Each adjacency list is walked    *)
(* once, so this covers exactly the orders the lists can be given in; the  *)
(* queue of the layering, first-in first-out in the code, is also a set.   *)
(* An edge may name a node that is not in the list: layer_index does not   *)
(* filter the edges as compute_layout does.                                *)
(***************************************************************************)
EXTENDS Integers, Sequences, FiniteSets, FiniteSetsExt, SequencesExt

CONSTANTS
    Nodes,    \* the nodes of the graph
    Strays,   \* names that only edges mention
    MaxEdges  \* bound: edges of a graph TLC looks at

ASSUME NodesAssumption ==
    /\ IsFiniteSet(Nodes) /\ IsFiniteSet(Strays)
    /\ Nodes # {} /\ Nodes \cap Strays = {}

VARIABLES
    pc,        \* "search", "layer", "order", "drawn" or "raised" (KeyError)
    edges,     \* the edges, pairs <<source, target>>
    color, stack, back, \* locals of _find_back_edges ...
    todo,      \* ... and of its iterators: what each one has yet to yield
    layer, ready, remaining, seen \* locals of _layer

graphVars == <<pc, edges>>
searchVars == <<color, stack, back, todo>>
layerVars == <<layer, ready, remaining, seen>>
vars == <<graphVars, searchVars, layerVars>>

Ends == Nodes \cup Strays
Adjacency(n) == {m \in Ends : <<n, m>> \in edges}

\* The edges that are layered: not going back, both ends known
Forward == {e \in edges : e \notin back /\ e[1] \in Nodes /\ e[2] \in Nodes}
Outgoing(n) == {m \in Nodes : <<n, m>> \in Forward}
Incoming(n) == {m \in Nodes : <<m, n>> \in Forward}

Init ==
    /\ pc = "search"
    /\ \E k \in 0..MaxEdges : edges \in kSubset(k, Ends \X Ends)
    /\ color = [n \in Ends |-> "white"] /\ stack = <<>> /\ back = {}
    /\ todo = [n \in Ends |-> {}]
    /\ layer = [n \in Nodes |-> 0] /\ ready = {} /\ seen = {}
    /\ remaining = [n \in Nodes |-> 0]

-----------------------------------------------------------------------------
(* _find_back_edges.                                                       *)

\* Colour a white node grey and push it, with a fresh iterator
Push(n) ==
    /\ color' = [color EXCEPT ![n] = "grey"]
    /\ stack' = Append(stack, n)
    /\ todo' = [todo EXCEPT ![n] = Adjacency(n)]

\* visit() is called on a node that is still white
Visit(n) ==
    /\ pc = "search" /\ stack = <<>> /\ color[n] = "white"
    /\ Push(n)
    /\ UNCHANGED <<graphVars, back, layerVars>>

\* Bug: any edge to a node already met goes back, the finished ones too.
GoesBackIfMet(node, child) == color[child] # "white"
\* Does the edge close a cycle?
GoesBack(node, child) == color[child] = "grey"

\* The iterator on top of the stack yields a child
Look(child) ==
    /\ pc = "search" /\ stack # <<>> /\ child \in todo[Last(stack)]
    /\ back' = IF GoesBack(Last(stack), child) THEN back \cup {<<Last(stack), child>>} ELSE back
    /\ IF color[child] = "white"
       THEN /\ color' = [color EXCEPT ![child] = "grey"]
            /\ stack' = Append(stack, child)
            /\ todo' = [todo EXCEPT ![Last(stack)] = @ \ {child}, ![child] = Adjacency(child)]
       ELSE /\ todo' = [todo EXCEPT ![Last(stack)] = @ \ {child}]
            /\ UNCHANGED <<color, stack>>
    /\ UNCHANGED <<graphVars, layerVars>>

\* The iterator on top is exhausted
Backtrack ==
    /\ pc = "search" /\ stack # <<>> /\ todo[Last(stack)] = {}
    /\ color' = [color EXCEPT ![Last(stack)] = "black"]
    /\ stack' = Front(stack)
    /\ UNCHANGED <<graphVars, back, todo, layerVars>>

-----------------------------------------------------------------------------
(* _layer.                                                                 *)

\* The search is over: count what comes in, start at the nodes without any
StartLayers ==
    /\ pc = "search" /\ stack = <<>> /\ \A n \in Nodes : color[n] # "white"
    /\ pc' = "layer"
    /\ remaining' = [n \in Nodes |-> Cardinality(Incoming(n))]
    /\ ready' = {n \in Nodes : Incoming(n) = {}}
    /\ UNCHANGED <<edges, searchVars, layer, seen>>

\* Bug: the first parent decides, a later, deeper one is not heard.
FirstParent(old, parent) == IF old = 0 THEN parent + 1 ELSE old
\* Bug: a layer is skipped between a parent and its child.
TwoBelow(old, parent) == IF old < parent + 1 THEN parent + 2 ELSE old
\* The layer of a child below this parent
Deeper(old, parent) == IF old < parent + 1 THEN parent + 1 ELSE old

\* A node is taken off the queue: its children sink below it, and the last
\* parent of a child makes it ready
TakeReady(n) ==
    /\ pc = "layer" /\ n \in ready
    /\ seen' = seen \cup {n}
    /\ layer' = [m \in Nodes |-> IF m \in Outgoing(n) THEN Deeper(layer[m], layer[n]) ELSE layer[m]]
    /\ remaining' = [m \in Nodes |-> IF m \in Outgoing(n) THEN remaining[m] - 1 ELSE remaining[m]]
    /\ ready' = (ready \ {n}) \cup {m \in Outgoing(n) : remaining[m] = 1}
    /\ UNCHANGED <<graphVars, searchVars>>

\* The queue is empty: what was never reached is parked below its parents
Park ==
    /\ pc = "layer" /\ ready = {}
    /\ pc' = "order"
    /\ layer' = [n \in Nodes |-> IF n \notin seen /\ Incoming(n) # {}
                                 THEN Max({layer[m] : m \in Incoming(n)}) + 1
                                 ELSE layer[n]]
    /\ UNCHANGED <<edges, searchVars, ready, remaining, seen>>

-----------------------------------------------------------------------------
(* _order_within_layers looks the layer above up for every layer but the   *)
(* first: a KeyError if there is none.                                     *)
Layers == {layer[n] : n \in Nodes}

OrderWithinLayers ==
    /\ pc = "order"
    /\ pc' = IF \A d \in Layers \ {Min(Layers)} : d - 1 \in Layers THEN "drawn" ELSE "raised"
    /\ UNCHANGED <<edges, searchVars, layerVars>>

\* stages_from: the number of a node's stage, given the nodes that are skipped
Stage(n, skip) == Cardinality({d \in {layer[m] : m \in Nodes \ skip} : d <= layer[n]})

Next ==
    \/ \E n \in Nodes : Visit(n)
    \/ \E n \in Ends : Look(n)
    \/ Backtrack
    \/ StartLayers
    \/ \E n \in Nodes : TakeReady(n)
    \/ Park
    \/ OrderWithinLayers

Spec == Init /\ [][Next]_vars

-----------------------------------------------------------------------------
(* The variables' types; a layer is at most the length of a path.          *)
TypeOK ==
    /\ pc \in {"search", "layer", "order", "drawn", "raised"}
    /\ edges \subseteq Ends \X Ends /\ back \subseteq edges
    /\ color \in [Ends -> {"white", "grey", "black"}]
    /\ stack \in Seq(Ends) /\ Len(stack) <= Cardinality(Ends)
    /\ todo \in [Ends -> SUBSET Ends]
    /\ layer \in [Nodes -> 0..Cardinality(Nodes) - 1]
    /\ remaining \in [Nodes -> 0..Cardinality(Nodes)]
    /\ ready \subseteq Nodes /\ seen \subseteq Nodes

(* Only cycles are drawn as return arcs ("those are the cycles we draw as  *)
(* return arcs"): from the target of an edge that goes back, edges that do *)
(* not lead on to its source.  A set closed under those edges that has the *)
(* one has the other.  Not a matter of the step that adds the edge alone:  *)
(* an edge of that path must not be found going back later.                *)
BackEdgesCloseCycles ==
    \A e \in back, S \in SUBSET Ends :
        e[2] \in S /\ (\A f \in edges \ back : f[1] \in S => f[2] \in S) => e[1] \in S

(* Every edge that is not a return arc leads down the page, and on to a    *)
(* later stage of the stepper whichever nodes it skips: every node is      *)
(* layered, after all of its parents, and none is parked.  The sweeps find  *)
(* the layer above every layer but the first.                              *)
StagesAdvance ==
    /\ pc # "raised"
    /\ pc = "drawn" =>
        \A e \in Forward :
            /\ layer[e[1]] < layer[e[2]]
            /\ \A skip \in SUBSET Nodes :
                   e[1] \notin skip /\ e[2] \notin skip => Stage(e[1], skip) < Stage(e[2], skip)
=============================================================================
