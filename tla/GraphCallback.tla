---------------------------- MODULE GraphCallback ---------------------------
(***************************************************************************)
(* The LangGraph observer (src/loopscope/langgraph.py): LoopScopeCallback, *)
(* attach() and finish().                                                  *)
(*                                                                         *)
(* LangGraph calls the handler when a top-level invoke (an `invocation')   *)
(* or the execution of a node (a `task') starts, ends or fails.  Parallel  *)
(* tasks call it from several threads: a callback changes the handler's    *)
(* state under _mu and publishes after it let go, one event at a time, so  *)
(* every callback is split there.  What opens and closes passes and the    *)
(* run takes no lock, and is split wherever it looks, sets and publishes.  *)
(* A node that invokes another graph may register it with                  *)
(* include_subgraph() and becomes a container.                             *)
(*                                                                         *)
(* LangGraph itself is external: it starts tasks inside an invocation and  *)
(* ends the invocation when its tasks have ended.  An edge walked through  *)
(* the entry and exit markers of subgraphs is one EDGE here.               *)
(***************************************************************************)
EXTENDS Integers, FiniteSets, SequencesExt

CONSTANTS
    Invocations,    \* run ids of top-level invokes
    Tasks,          \* run ids of node executions
    Program,        \* the program's own thread, in finish() or set_iteration()
    Nodes,          \* work nodes of the graph
    Opaque,         \* those whose graph the extraction leaves out: it is one that
                    \* runs them, or it is empty (langgraph.py:108, 114)
    Start, End,     \* START_NODE, END_NODE
    None            \* Python's None

ASSUME NodesAssumption == {Start, End, None} \cap Nodes = {} /\ Start # End /\ Start # None
ASSUME RunsAssumption ==
    /\ None \notin Invocations \cup Tasks
    /\ Program \notin Invocations \cup Tasks
    /\ Invocations \cap Tasks = {}
    /\ IsFiniteSet(Invocations)

VARIABLES
    autoIteration, \* _auto_iteration: FALSE when a Ralph loop drives the graph
    at,           \* per invocation or task, how far its callbacks are; and the program
    nodeOf,       \* per task, its node (its entry in _open)
    within,       \* history: per task, the invocation it belongs to
    from,         \* per invocation or task, the local `last' of its callback
    lastNode,     \* _last_node
    root,         \* _root
    iteration,    \* _iteration
    iterOpen,     \* _iter_open
    ended,        \* _ended
    containers,   \* _containers
    subgraphs,    \* _subgraphs
    topologyLock, \* _topology_mu: the task in include_subgraph
    shape,        \* per task, the subgraphs its extract_topology drew
    finished,     \* the program called finish()
    failed,       \* the invocations that ended with an error
    overlap,      \* history: an invoke or set_iteration() came while an invoke was running
    early,        \* history: finish() came while an invoke was running, or the reverse
    passOf,       \* history: per invocation, the pass it opened or ran in
    timeline,     \* history: the run's and the passes' events, in order
    visits,       \* history: per task, its events, each with the pass then open
    edges,        \* history: the edges published, with the pass then open
    drawn         \* history: the containers of the last topology published

rootVars == <<root, iteration, iterOpen, ended, passOf>>
shapeVars == <<containers, subgraphs, topologyLock, shape>>
taskVars == <<nodeOf, within>>
ends == <<finished, failed, overlap, early>>
out == <<timeline, visits, edges, drawn>>
vars == <<autoIteration, at, taskVars, from, lastNode, rootVars, shapeVars, ends, out>>

\* The invocation that opened the pass that is open, if one is
OpenedBy ==
    LET marks == {i \in DOMAIN timeline : timeline[i].type # "run.end"}
    IN  IF marks # {} /\ timeline[Max(marks)].type = "iter.start"
          THEN timeline[Max(marks)].by ELSE None

Mark(type, by, pass) == [type |-> type, by |-> by, pass |-> pass]
PublishMark(mark) ==
    /\ timeline' = Append(timeline, mark)
    /\ UNCHANGED <<visits, edges, drawn>>
PublishVisit(type, t) ==
    /\ visits' = [visits EXCEPT ![t] = Append(@, [type |-> type, pass |-> iteration, during |-> OpenedBy])]
    /\ UNCHANGED <<timeline, edges, drawn>>
PublishEdge(x, target) ==
    /\ edges' = edges \cup {[by |-> x, source |-> IF from[x] = None THEN Start ELSE from[x],
                              target |-> target, during |-> OpenedBy]}
    /\ UNCHANGED <<timeline, visits, drawn>>

Move(x, here, there) == at[x] = here /\ at' = [at EXCEPT ![x] = there]

Running == {r \in Invocations : at[r] \notin {"new", "ended"}}
Finishing == at[Program] \notin {"idle", "forget"}
TasksOf(r) == {t \in Tasks : at[t] # "new" /\ within[t] = r}

(* After attach(): the topology and run.start are out.                      *)
Init ==
    /\ autoIteration \in BOOLEAN
    /\ at = [x \in Invocations \cup Tasks \cup {Program} |-> IF x = Program THEN "idle" ELSE "new"]
    /\ nodeOf = [t \in Tasks |-> None]
    /\ within = [t \in Tasks |-> None]
    /\ from = [x \in Invocations \cup Tasks |-> None]
    /\ lastNode = None
    /\ root = None /\ iteration = 0 /\ iterOpen = FALSE /\ ended = FALSE
    /\ containers = {} /\ subgraphs = {} /\ topologyLock = None
    /\ shape = [t \in Tasks |-> {}]
    /\ finished = FALSE /\ failed = {} /\ overlap = FALSE /\ early = FALSE
    /\ passOf = [r \in Invocations |-> 0]
    /\ timeline = <<>>
    /\ visits = [t \in Tasks |-> <<>>]
    /\ edges = {} /\ drawn = {}

-----------------------------------------------------------------------------
(* Invocations: on_chain_start ...  They are meant to come one after the    *)
(* other: the handler keeps one _root, and the latest invoke takes it.     *)

\* Bug: the last node of the pass before is not forgotten.
ForgetNothing == lastNode
\* What a new invocation leaves of _last_node
LastNodeAtRoot == None

RootStart(r) ==
    /\ Move(r, "new", IF autoIteration THEN "begin" ELSE "running")
    /\ root' = r
    /\ lastNode' = LastNodeAtRoot
    /\ passOf' = [passOf EXCEPT ![r] = iteration]
    /\ overlap' = (overlap \/ Running # {})
    /\ early' = (early \/ Finishing)
    /\ UNCHANGED <<autoIteration, taskVars, from, iteration, iterOpen, ended, shapeVars,
                   finished, failed, out>>

\* Bug: a number is skipped.
PassAfterNext == iteration + 2
\* The number of a new pass
NextPass == iteration + 1

(* ... and begin_iteration: the new pass ...                               *)
BeginIteration(r) ==
    /\ Move(r, "begin", "iter.start")
    /\ iteration' = NextPass
    /\ iterOpen' = TRUE
    /\ passOf' = [passOf EXCEPT ![r] = iteration + 1]
    /\ UNCHANGED <<autoIteration, taskVars, from, lastNode, root, ended, shapeVars, ends, out>>

(* ... and iter.start, with the number it has by then.                     *)
PublishPassStart(r) ==
    /\ Move(r, "iter.start", "running")
    /\ PublishMark(Mark("iter.start", r, iteration))
    /\ UNCHANGED <<autoIteration, taskVars, from, lastNode, rootVars, shapeVars, ends>>

(* on_chain_end and on_chain_error of an invocation: only the one that      *)
(* _root names counts, and it closes the pass if it opens passes.          *)
RootEnd(r, how) ==
    /\ \A t \in TasksOf(r) : at[t] = "done"
    /\ Move(r, "running", IF r # root THEN "ended" ELSE IF autoIteration THEN "close" ELSE "closed")
    /\ root' = IF r = root THEN None ELSE root
    /\ from' = [from EXCEPT ![r] = IF how = "ok" THEN lastNode ELSE @]
    /\ failed' = IF how = "ok" THEN failed ELSE failed \cup {r}
    /\ UNCHANGED <<autoIteration, taskVars, lastNode, iteration, iterOpen, ended, passOf, shapeVars,
                   finished, overlap, early, out>>

(* A normal end draws the edge to END.                                     *)
RootOk(r) ==
    /\ r \notin failed
    /\ Move(r, "closed", "ended")
    /\ PublishEdge(r, End)
    /\ UNCHANGED <<autoIteration, taskVars, from, lastNode, rootVars, shapeVars, ends>>

(* finish(): end_iteration and then _end_run.  Meant for when the program   *)
(* is done with its invokes; a time limit may call it earlier.  Bounded by *)
(* one call.                                                               *)
Finish ==
    /\ ~finished
    /\ Move(Program, "idle", "close")
    /\ finished' = TRUE
    /\ early' = (early \/ Running # {})
    /\ UNCHANGED <<autoIteration, taskVars, from, lastNode, rootVars, shapeVars, failed, overlap, out>>

(* set_iteration(), from the Ralph loop that drives the graph: the number   *)
(* and then _last_node.  Bounded by one pass per invocation.               *)
SetIteration ==
    /\ ~autoIteration
    /\ iteration < Cardinality(Invocations)
    /\ Move(Program, "idle", "forget")
    /\ iteration' = iteration + 1
    /\ overlap' = (overlap \/ Running # {})
    /\ UNCHANGED <<autoIteration, taskVars, from, lastNode, root, iterOpen, ended, passOf, shapeVars,
                   finished, failed, early, out>>

ForgetLastNode ==
    /\ Move(Program, "forget", "idle")
    /\ lastNode' = None
    /\ UNCHANGED <<autoIteration, taskVars, from, rootVars, shapeVars, ends, out>>

-----------------------------------------------------------------------------
(* end_iteration and _end_run, called by an invocation or by the program.   *)
Closers == Invocations \cup {Program}

(* end_iteration: nothing when no pass is open ...                         *)
CheckOpen(x) ==
    /\ Move(x, "close", IF iterOpen THEN "clear" ELSE "closed")
    /\ UNCHANGED <<autoIteration, taskVars, from, lastNode, rootVars, shapeVars, ends, out>>

\* Bug: the pass stays open.
StillOpen == iterOpen
\* What end_iteration leaves of _iter_open
NoLongerOpen == FALSE

ClearOpen(x) ==
    /\ Move(x, "clear", "iter.end")
    /\ iterOpen' = NoLongerOpen
    /\ UNCHANGED <<autoIteration, taskVars, from, lastNode, root, iteration, ended, passOf, shapeVars,
                   ends, out>>

PublishPassEnd(x) ==
    /\ Move(x, "iter.end", "closed")
    /\ PublishMark(Mark("iter.end", None, iteration))
    /\ UNCHANGED <<autoIteration, taskVars, from, lastNode, rootVars, shapeVars, ends>>

\* Where a thread goes when it is through
Through(x) == IF x = Program THEN "idle" ELSE "ended"

(* _end_run, of a failed invocation and of finish(): nothing when the run   *)
(* has ended ...                                                           *)
CheckEnded(x) ==
    /\ x = Program \/ x \in failed
    /\ Move(x, "closed", IF ended THEN Through(x) ELSE "end")
    /\ UNCHANGED <<autoIteration, taskVars, from, lastNode, rootVars, shapeVars, ends, out>>

SetEnded(x) ==
    /\ Move(x, "end", "run.end")
    /\ ended' = TRUE
    /\ UNCHANGED <<autoIteration, taskVars, from, lastNode, root, iteration, iterOpen, passOf, shapeVars,
                   ends, out>>

PublishRunEnd(x) ==
    /\ Move(x, "run.end", Through(x))
    /\ PublishMark(Mark("run.end", None, 0))
    /\ UNCHANGED <<autoIteration, taskVars, from, lastNode, rootVars, shapeVars, ends>>

-----------------------------------------------------------------------------
(* Tasks: on_chain_start of a node, under the lock ...                      *)
TaskStart(t, r, node) ==
    /\ at[r] = "running"
    /\ Move(t, "new", IF node \in containers THEN "running" ELSE "edge")
    /\ nodeOf' = [nodeOf EXCEPT ![t] = node]
    /\ within' = [within EXCEPT ![t] = r]
    /\ IF node \in containers THEN UNCHANGED <<from, lastNode>>
       ELSE from' = [from EXCEPT ![t] = lastNode] /\ lastNode' = node
    /\ UNCHANGED <<autoIteration, rootVars, shapeVars, ends, out>>

(* ... then the edge that led here: none to itself, unless the graph has one *)
TaskEdge(t) ==
    /\ Move(t, "edge", "start")
    /\ \/ PublishEdge(t, nodeOf[t])
       \/ from[t] = nodeOf[t] /\ UNCHANGED out
    /\ UNCHANGED <<autoIteration, taskVars, from, lastNode, rootVars, shapeVars, ends>>

(* ... and node.start.                                                     *)
TaskVisit(t) ==
    /\ Move(t, "start", "running")
    /\ PublishVisit("node.start", t)
    /\ UNCHANGED <<autoIteration, taskVars, from, lastNode, rootVars, shapeVars, ends>>

\* Bug: the end of a container is reported.
AlwaysReports(t) == TRUE
\* Whether the end of a task is reported
Reports(t) == nodeOf[t] \notin containers

(* on_chain_end and on_chain_error of a node: a container reports nothing   *)
(* (its failure is a log line); an end, not an error, makes it the last one.*)
TaskEnd(t, how) ==
    /\ Move(t, "running", IF Reports(t) THEN how ELSE "done")
    /\ lastNode' = IF how = "node.end" /\ Reports(t) THEN nodeOf[t] ELSE lastNode
    /\ UNCHANGED <<autoIteration, taskVars, from, rootVars, shapeVars, ends, out>>

TaskReport(t, how) ==
    /\ Move(t, how, "done")
    /\ PublishVisit(how, t)
    /\ UNCHANGED <<autoIteration, taskVars, from, lastNode, rootVars, shapeVars, ends>>

-----------------------------------------------------------------------------
(* include_subgraph(), from inside a node.                                  *)

\* Bug: no lock around the discovery.
AlwaysFree == TRUE
\* _topology_mu is free
TopologyFree == topologyLock = None

(* Under _topology_mu: a new path is remembered and the graph drawn again   *)
(* with it; one that is known is not.                                      *)
Discover(t) ==
    /\ TopologyFree
    /\ nodeOf[t] \notin containers
    /\ Move(t, "running", "including")
    /\ topologyLock' = t
    /\ subgraphs' = subgraphs \cup {nodeOf[t]}
    /\ shape' = [shape EXCEPT ![t] = subgraphs \cup {nodeOf[t]}]
    /\ UNCHANGED <<autoIteration, taskVars, from, lastNode, rootVars, containers, ends, out>>

\* The paths of a shape that are drawn as containers
Expanded(paths) == paths \ Opaque

(* The containers of the new shape, under _mu ...                          *)
SetContainers(t) ==
    /\ Move(t, "including", "drawing")
    /\ containers' = Expanded(shape[t])
    /\ UNCHANGED <<autoIteration, taskVars, from, lastNode, rootVars, subgraphs, topologyLock, shape,
                   ends, out>>

(* ... and the topology, before _topology_mu is released.                  *)
PublishTopology(t) ==
    /\ Move(t, "drawing", "running")
    /\ drawn' = Expanded(shape[t])
    /\ UNCHANGED <<timeline, visits, edges>>
    /\ topologyLock' = None
    /\ UNCHANGED <<autoIteration, taskVars, from, lastNode, rootVars, containers, subgraphs, shape, ends>>

Next ==
    \/ \E r \in Invocations :
          \/ RootStart(r) \/ BeginIteration(r) \/ PublishPassStart(r) \/ RootOk(r)
          \/ \E how \in {"ok", "failed"} : RootEnd(r, how)
    \/ \E x \in Closers :
          \/ CheckOpen(x) \/ ClearOpen(x) \/ PublishPassEnd(x)
          \/ CheckEnded(x) \/ SetEnded(x) \/ PublishRunEnd(x)
    \/ \E t \in Tasks :
          \/ \E r \in Invocations, node \in Nodes : TaskStart(t, r, node)
          \/ \E how \in {"node.end", "node.error"} : TaskEnd(t, how) \/ TaskReport(t, how)
          \/ TaskEdge(t) \/ TaskVisit(t)
          \/ Discover(t) \/ SetContainers(t) \/ PublishTopology(t)
    \/ Finish \/ SetIteration \/ ForgetLastNode

Spec == Init /\ [][Next]_vars

-----------------------------------------------------------------------------
(* Type invariant of the handler.                                          *)
Count == 0..Cardinality(Invocations)

ClosingPlaces == {"close", "clear", "iter.end", "closed", "end", "run.end"}
InvocationPlaces == {"new", "begin", "iter.start", "running", "ended"} \cup ClosingPlaces
ProgramPlaces == {"idle", "forget"} \cup ClosingPlaces
TaskPlaces ==
    {"new", "edge", "start", "running", "including", "drawing", "node.end", "node.error", "done"}

TypeOK ==
    /\ autoIteration \in BOOLEAN
    /\ DOMAIN at = Invocations \cup Tasks \cup {Program}
    /\ \A r \in Invocations : at[r] \in InvocationPlaces
    /\ \A t \in Tasks : at[t] \in TaskPlaces
    /\ at[Program] \in ProgramPlaces
    /\ nodeOf \in [Tasks -> Nodes \cup {None}]
    /\ within \in [Tasks -> Invocations \cup {None}]
    /\ from \in [Invocations \cup Tasks -> Nodes \cup {None}]
    /\ lastNode \in Nodes \cup {None}
    /\ root \in Invocations \cup {None}
    /\ iteration \in Count /\ iterOpen \in BOOLEAN /\ ended \in BOOLEAN
    /\ containers \subseteq Expanded(subgraphs) /\ subgraphs \subseteq Nodes
    /\ topologyLock \in Tasks \cup {None}
    /\ shape \in [Tasks -> SUBSET Nodes]
    /\ failed \subseteq Invocations
    /\ finished \in BOOLEAN /\ overlap \in BOOLEAN /\ early \in BOOLEAN
    /\ passOf \in [Invocations -> Count]
    /\ timeline \in Seq([type : {"iter.start", "iter.end", "run.end"},
                         by : Invocations \cup {None}, pass : Count])
    /\ visits \in [Tasks -> Seq([type : {"node.start", "node.end", "node.error"},
                                 pass : Count, during : Invocations \cup {None}])]
    /\ edges \subseteq [by : Invocations \cup Tasks, source : Nodes \cup {Start},
                        target : Nodes \cup {End}, during : Invocations \cup {None}]
    /\ drawn \subseteq Nodes

(* Each top-level invoke is one pass (QUICKSTART-INTEGRATION.md:132):       *)
(* unless invokes overlap, passes start in the order of their numbers,     *)
(* also when finish() comes in the middle of one.  If finish() waits for   *)
(* the invokes, each pass is opened and closed once and in this order, the *)
(* passes of the invokes that ran are 1, 2, ..., and the run ends once.    *)
Of(n) == {i \in DOMAIN timeline : timeline[i].pass = n}
Opens(i) == timeline[i].type = "iter.start"
Closes(i) == timeline[i].type = "iter.end"
EndsRun(i) == timeline[i].type = "run.end"

PassPerInvoke ==
    ~overlap =>
        /\ \A i, j \in DOMAIN timeline :
              Opens(i) /\ Opens(j) /\ i < j => timeline[i].pass < timeline[j].pass
        /\ ~early =>
              /\ \A i, j \in DOMAIN timeline : EndsRun(i) /\ EndsRun(j) => i = j
              /\ \A n \in 1..Cardinality(Invocations) :
                    /\ \/ Of(n) = {}
                       \/ \E i \in Of(n) : Of(n) = {i} /\ Opens(i)
                       \/ \E i, j \in Of(n) : i < j /\ Of(n) = {i, j} /\ Opens(i) /\ Closes(j)
                    /\ autoIteration /\ Running = {} =>
                          IF n <= Cardinality({r \in Invocations : at[r] # "new"})
                            THEN \E i \in Of(n) : Closes(i) ELSE Of(n) = {}

(* The visits of a task are filed under the pass of its own invocation,     *)
(* whoever counts passes, unless invokes overlap.  What it publishes comes *)
(* while that pass is open, unless finish() closed it.                     *)
FiledUnderPass ==
    ~overlap =>
        /\ \A t \in Tasks : \A i \in DOMAIN visits[t] :
              /\ visits[t][i].pass = passOf[within[t]]
              /\ autoIteration /\ ~early => visits[t][i].during = within[t]
        /\ \A e \in edges : autoIteration /\ ~early /\ e.by \in Tasks => e.during = within[e.by]

(* A node's execution is reported as a start and one end or error, in that  *)
(* order; one that turned into a container meanwhile has no end, and a      *)
(* container neither.  This holds of overlapping invokes too.              *)
VisitsBracketed ==
    \A t \in Tasks :
        LET types == [i \in DOMAIN visits[t] |-> visits[t][i].type] IN
        /\ types \in {<<>>, <<"node.start">>, <<"node.start", "node.end">>, <<"node.start", "node.error">>}
        /\ at[t] = "done" /\ nodeOf[t] \notin containers => Len(types) = 2

(* An edge leads from a node that the same invocation visited, or Start:    *)
(* never from the pass before; unless invokes overlap.                     *)
EdgesObserved ==
    ~overlap => \A e \in edges :
        LET r == IF e.by \in Tasks THEN within[e.by] ELSE e.by IN
        e.source = Start \/ \E t \in TasksOf(r) : nodeOf[t] = e.source

(* Parallel nodes that discover subgraphs lose none: while nobody is inside *)
(* include_subgraph, the last topology shows all of them.                   *)
ShapeIsLatest ==
    (\A t \in Tasks : at[t] \notin {"including", "drawing"}) =>
        containers = Expanded(subgraphs) /\ drawn = Expanded(subgraphs)

(* A retry around invoke is one run (QUICKSTART-INTEGRATION.md:131): as     *)
(* long as the program has not called finish() and its invokes come one    *)
(* after the other, no pass begins after the run's end.                    *)
RetryIsOneRun ==
    ~finished /\ ~overlap =>
        \A i, j \in DOMAIN timeline : EndsRun(i) /\ Opens(j) => j < i

=============================================================================
