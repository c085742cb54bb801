----------------------------- MODULE RunTimeline ----------------------------
(***************************************************************************)
(* What every run promises the dashboard: the order of its events.         *)
(*                                                                         *)
(* A run starts and ends; its passes are numbered 1, 2, 3, ... and do not  *)
(* overlap; a node is visited inside a pass, perhaps inside other visits,  *)
(* and the visit entered last is left first; nothing is left open when a   *)
(* pass ends in good order; and a node's edge comes from the node the pass *)
(* left last, as does the edge that leads back to the start of the next.   *)
(***************************************************************************)
EXTENDS Integers, FiniteSets, SequencesExt

CONSTANTS
    Runs,
    Nodes,     \* the steps a pass may visit
    NoNode,
    Statuses,  \* how a pass or a run may end
    Orderly    \* those of a pass that left every node it entered

VARIABLES
    events,   \* per run, its events so far
    open      \* per run, the nodes of its pass that were entered and not left

timelineVars == <<events, open>>

\* One shape for every event; `edge' is the source of the edge drawn just before.
Run(type, status) ==
    [type |-> type, pass |-> 0, node |-> NoNode, edge |-> NoNode, status |-> status]
Pass(type, n, edge, status) ==
    [type |-> type, pass |-> n, node |-> NoNode, edge |-> edge, status |-> status]
Visit(type, n, node, edge) ==
    [type |-> type, pass |-> n, node |-> node, edge |-> edge, status |-> "none"]

RunTypes == {"run.start", "run.end"}
PassTypes == {"iter.start", "iter.end"}
LeaveTypes == {"node.end", "node.error"}

\* Where run r has events of these types, and the last one of some of its events
At(r, types) == {i \in DOMAIN events[r] : events[r][i].type \in types}
Newest(r, I) == events[r][CHOOSE i \in I : \A j \in I : j <= i]

Running(r) == At(r, RunTypes) # {} /\ Newest(r, At(r, RunTypes)).type = "run.start"
InPass(r) == At(r, PassTypes) # {} /\ Newest(r, At(r, PassTypes)).type = "iter.start"
Passes(r) == Cardinality(At(r, {"iter.start"}))

\* Where an edge may start: the node left last, until a new pass begins
Moves(r) == At(r, LeaveTypes \cup {"iter.start"})
Source(r) == IF Moves(r) = {} THEN NoNode ELSE Newest(r, Moves(r)).node

Publish(r, e) == events' = [events EXCEPT ![r] = Append(@, e)]

-----------------------------------------------------------------------------
Init == events = [r \in Runs |-> <<>>] /\ open = [r \in Runs |-> <<>>]

StartRun(r) == ~Running(r) /\ Publish(r, Run("run.start", "none")) /\ UNCHANGED open

StartPass(r) ==
    /\ Running(r)
    /\ ~InPass(r)
    /\ \E from \in {NoNode, Source(r)} : Publish(r, Pass("iter.start", Passes(r) + 1, from, "none"))
    /\ UNCHANGED open

EnterNode(r) ==
    /\ InPass(r)
    /\ \E node \in Nodes :
          /\ Publish(r, Visit("node.start", Passes(r), node,
                              IF Source(r) = node THEN NoNode ELSE Source(r)))
          /\ open' = [open EXCEPT ![r] = Append(@, node)]

LeaveNode(r) ==
    /\ open[r] # <<>>
    /\ \E type \in LeaveTypes : Publish(r, Visit(type, Passes(r), Last(open[r]), NoNode))
    /\ open' = [open EXCEPT ![r] = Front(@)]

EndPass(r) ==
    /\ InPass(r)
    /\ \E status \in Statuses :
          /\ status \in Orderly => open[r] = <<>>
          /\ Publish(r, Pass("iter.end", Passes(r), NoNode, status))
    /\ open' = [open EXCEPT ![r] = <<>>]

EndRun(r) ==
    /\ Running(r)
    /\ ~InPass(r)
    /\ \E status \in Statuses : Publish(r, Run("run.end", status))
    /\ UNCHANGED open

Next ==
    \E r \in Runs :
        StartRun(r) \/ StartPass(r) \/ EnterNode(r) \/ LeaveNode(r) \/ EndPass(r) \/ EndRun(r)

Spec == Init /\ [][Next]_timelineVars
=============================================================================
