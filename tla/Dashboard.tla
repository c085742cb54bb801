----------------------------- MODULE Dashboard ------------------------------
(***************************************************************************)
(* What a browser tab shows of the runs on the bus: the event handlers of  *)
(* src/loopscope/static/dashboard.html, folded over the events.            *)
(*                                                                         *)
(* One tab (`page') has been open from the start and handles every event   *)
(* in order.  At every moment FreshPage is what a tab opened now would     *)
(* show: the same handlers over the bus's replay.  Runs overlap freely:    *)
(* one may be nested in a node of another (its own attach()), or be a job   *)
(* of another thread.                                                      *)
(*                                                                         *)
(* Layout, feed, tokens, timings and edges are left out.  A wrapper node   *)
(* that discovers a subgraph is replaced by the stages inside it.          *)
(***************************************************************************)
EXTENDS Integers, FiniteSets, Sequences

CONSTANTS
    Runs,
    NoRun,       \* S.runId before the first topology
    Wrapper,     \* the node that turns out to contain a graph
    Stage,       \* the node it turns out to contain
    NoNode,
    BufferSize,  \* of the bus's ring
    MaxCols,     \* MAX_COLS: passes the tape keeps
    MaxPasses,   \* bound: passes of a run
    MaxOpen,     \* bound: overlapping executions of one node
    MaxEvents    \* bound: events published

ASSUME BoundsAssumption ==
    {BufferSize, MaxPasses, MaxOpen, MaxEvents} \subseteq Nat /\ MaxCols \in Nat \ {0}
ASSUME NamesAssumption == NoRun \notin Runs /\ Cardinality({Wrapper, Stage, NoNode}) = 3

Nodes == {Wrapper, Stage}
Exits == {"node.end", "node.error"}
PassNumbers == 1..MaxPasses

VARIABLES
    stage,   \* per run: "new", "attaching", "running" or "ended"
    drawn,   \* per run, the nodes of its last topology
    due,     \* per run, the node events decided on and not yet published
    open,    \* per run and node, the executions its events have begun and not ended
    passes,  \* per run, how many passes it began
    inPass,  \* per run, whether one is open
    crossed, \* history: the runs whose attach() overlapped another run
    outlived,\* history: the runs that ended before another one in progress
    overlaid,\* history: the runs whose attach() was under way when another began a pass
    events,  \* history: the events published, event n at position n
    page     \* the tab that was open all along

history == <<crossed, outlived, overlaid>>
published == <<stage, drawn, open, passes, inPass, history, events, page>>
vars == <<published, due>>

-----------------------------------------------------------------------------
(* The page, and what each kind of event does to it.                        *)

Idle == [state |-> "idle", active |-> 0, failed |-> FALSE, hits |-> 0]

EmptyPage == [
    run     |-> NoRun, \* S.runId
    started |-> FALSE, \* S.startedAt is set
    ended   |-> FALSE, \* S.endedAt is set
    nodes   |-> {},    \* S.nodes
    status  |-> [n \in Nodes |-> Idle],
    passes  |-> [i \in PassNumbers |-> "none"], \* S.iterations
    current |-> 0]     \* S.current

\* reset(): another run takes over; the mesh stays until its topology comes
Reset(p, run) == [EmptyPage EXCEPT !.run = run, !.nodes = p.nodes]

\* liveForeign: an event of another run while the shown one is in progress
LiveForeign(p, e) == p.run # NoRun /\ e.run # p.run /\ p.started /\ ~p.ended

\* currentRunEvent
CurrentRun(p, e) == p.run = NoRun \/ e.run = p.run

Shown(p, e) == IF e.run # p.run THEN Reset(p, e.run) ELSE p

\* Bug: the counters of a node that is no longer there stay.
TopologyKeepsStatus(p, e) ==
    IF LiveForeign(p, e) THEN p ELSE [Shown(p, e) EXCEPT !.nodes = e.nodes]

OnTopology(p, e) ==
    IF LiveForeign(p, e) THEN p
    ELSE [Shown(p, e) EXCEPT
            !.nodes = e.nodes,
            !.status = [n \in Nodes |-> IF n \in e.nodes THEN @[n] ELSE Idle]]

\* Bug: only a topology makes another run the shown one.
StartWithoutReset(p, e) ==
    IF LiveForeign(p, e) THEN p ELSE [p EXCEPT !.started = TRUE, !.ended = FALSE]

OnRunStart(p, e) ==
    IF LiveForeign(p, e) THEN p
    ELSE [Shown(p, e) EXCEPT !.started = TRUE, !.ended = FALSE]

\* What is still running when the run ends has been stopped.
Stopped(s) == [s EXCEPT !.state = IF @ = "running" THEN "stopped" ELSE @, !.active = 0]

OnRunEnd(p, e) ==
    IF e.run # p.run THEN p
    ELSE [p EXCEPT !.ended = TRUE, !.status = [n \in Nodes |-> Stopped(@[n])]]

\* while (S.iterations.size > MAX_COLS): the lowest numbers go.
Newest(tape) ==
    [i \in PassNumbers |->
        IF Cardinality({j \in PassNumbers : j > i /\ tape[j] # "none"}) < MaxCols THEN tape[i] ELSE "none"]

\* A pass that is not on the tape yet.
Begun(tape, i) == [tape EXCEPT ![i] = IF @ = "none" THEN "run" ELSE @]

\* Bug: a pass of any run is put on the tape.
AnyIterStart(p, e) == [p EXCEPT !.current = e.pass, !.passes = Newest(Begun(@, e.pass))]

OnIterStart(p, e) ==
    IF LiveForeign(p, e) THEN p
    ELSE [p EXCEPT !.current = e.pass, !.passes = Newest(Begun(@, e.pass))]

OnIterEnd(p, e) ==
    IF LiveForeign(p, e) \/ p.passes[e.pass] = "none" THEN p
    ELSE [p EXCEPT !.passes[e.pass] = IF e.status = "error" THEN "err" ELSE "done"]

\* An execution starts: the first one of its node forgets an old failure.
Started(s) == [s EXCEPT !.state = "running", !.active = @ + 1, !.failed = s.active > 0 /\ @]

OnNodeStart(p, e) ==
    IF ~CurrentRun(p, e) \/ p.ended THEN p ELSE [p EXCEPT !.status[e.node] = Started(@)]

\* Bug: the first end of a node is taken for the end of them all.
FinishAll(s, failed) ==
    [s EXCEPT !.active = 0, !.failed = @ \/ failed, !.hits = @ + 1,
              !.state = IF s.failed \/ failed THEN "error" ELSE "done"]

\* Bug: an end without a start is counted.
FinishUncounted(s, failed) ==
    LET left == s.active - 1 IN
    [s EXCEPT !.active = left, !.failed = @ \/ failed, !.hits = @ + 1,
              !.state = IF left > 0 THEN "running"
                        ELSE IF s.failed \/ failed THEN "error" ELSE "done"]

\* finishInvocation: the oldest execution of the node is the one that ended.
FinishInvocation(s, failed) ==
    LET left == IF s.active > 0 THEN s.active - 1 ELSE 0 IN
    [s EXCEPT !.active = left, !.failed = @ \/ failed, !.hits = @ + 1,
              !.state = IF left > 0 THEN "running"
                        ELSE IF s.failed \/ failed THEN "error" ELSE "done"]

\* cell(): an event of a pass the page has not seen begins it.
Cell(p, e) ==
    LET n == IF e.pass # 0 THEN e.pass ELSE IF p.current # 0 THEN p.current ELSE 1 IN
    [p EXCEPT !.passes = Begun(@, n)]

OnNodeEnd(p, e) ==
    IF ~CurrentRun(p, e) \/ p.ended THEN p
    ELSE [Cell(p, e) EXCEPT !.status[e.node] = FinishInvocation(@, FALSE)]

OnNodeError(p, e) ==
    IF ~CurrentRun(p, e) \/ p.ended THEN p
    ELSE LET n == IF e.pass # 0 THEN e.pass ELSE p.current
             q == [Cell(p, e) EXCEPT !.status[e.node] = FinishInvocation(@, TRUE)]
         IN  IF n = 0 THEN q ELSE [q EXCEPT !.passes[n] = IF @ = "none" THEN @ ELSE "err"]

\* handle(): the switch on the event's type
Handle(p, e) ==
    CASE e.type = "graph.topology" -> OnTopology(p, e)
      [] e.type = "run.start"      -> OnRunStart(p, e)
      [] e.type = "run.end"        -> OnRunEnd(p, e)
      [] e.type = "iter.start"     -> OnIterStart(p, e)
      [] e.type = "iter.end"       -> OnIterEnd(p, e)
      [] e.type = "node.start"     -> OnNodeStart(p, e)
      [] e.type = "node.end"       -> OnNodeEnd(p, e)
      [] e.type = "node.error"     -> OnNodeError(p, e)

-----------------------------------------------------------------------------
(* The runs, and the bus.                                                  *)
Event(type, run) ==
    [type |-> type, run |-> run, pass |-> 0, node |-> NoNode, nodes |-> {}, status |-> "none"]
Topology(run, nodes) == [Event("graph.topology", run) EXCEPT !.nodes = nodes]
Pass(type, run, status) == [Event(type, run) EXCEPT !.pass = passes'[run], !.status = status]
Visit(type, run, node) == [Event(type, run) EXCEPT !.node = node, !.pass = passes[run]]

Publish(e) ==
    /\ Len(events) < MaxEvents
    /\ events' = Append(events, e)
    /\ page' = Handle(page, e)

Init ==
    /\ stage = [r \in Runs |-> "new"]
    /\ drawn = [r \in Runs |-> {}]
    /\ due = [r \in Runs |-> {}]
    /\ open = [r \in Runs |-> [n \in Nodes |-> 0]]
    /\ passes = [r \in Runs |-> 0]
    /\ inPass = [r \in Runs |-> FALSE]
    /\ crossed = {}
    /\ outlived = {} /\ overlaid = {}
    /\ events = <<>>
    /\ page = EmptyPage

Others(r, in) == {x \in Runs \ {r} : stage[x] \in in}

(* attach(): first the topology ...                                         *)
AttachTopology(r, nodes) ==
    /\ stage[r] = "new"
    /\ stage' = [stage EXCEPT ![r] = "attaching"]
    /\ drawn' = [drawn EXCEPT ![r] = nodes]
    /\ crossed' = crossed \cup Others(r, {"attaching"})
                   \cup (IF Others(r, {"attaching", "running"}) = {} THEN {} ELSE {r})
    /\ Publish(Topology(r, nodes))
    /\ UNCHANGED <<due, open, passes, inPass, outlived, overlaid>>

(* ... then run.start.                                                      *)
AttachStart(r) ==
    /\ stage[r] = "attaching"
    /\ stage' = [stage EXCEPT ![r] = "running"]
    /\ Publish(Event("run.start", r))
    /\ UNCHANGED <<drawn, due, open, passes, inPass, history>>

StartPass(r) ==
    /\ stage[r] = "running" /\ ~inPass[r] /\ passes[r] < MaxPasses
    /\ inPass' = [inPass EXCEPT ![r] = TRUE]
    /\ passes' = [passes EXCEPT ![r] = @ + 1]
    /\ overlaid' = overlaid \cup Others(r, {"attaching"})
    /\ Publish(Pass("iter.start", r, "none"))
    /\ UNCHANGED <<stage, drawn, due, open, crossed, outlived>>

\* The pass of a graph ends after the callbacks of its nodes have returned.
EndPass(r, status) ==
    /\ stage[r] = "running" /\ inPass[r] /\ due[r] = {}
    /\ inPass' = [inPass EXCEPT ![r] = FALSE]
    /\ passes' = passes
    /\ Publish(Pass("iter.end", r, status))
    /\ UNCHANGED <<stage, drawn, due, open, history>>

(* The callback of a node first looks whether the node is a container,      *)
(* whose events are not reported (on_chain_start, on_chain_end) ...         *)
Working(r, node) == open[r][node] - Cardinality({how \in Exits : <<how, node>> \in due[r]})

Look(r, how, node) ==
    /\ inPass[r] /\ node \in drawn[r] /\ <<how, node>> \notin due[r]
    /\ \/ how = "node.start" /\ open[r][node] < MaxOpen
       \/ how \in Exits /\ Working(r, node) > 0
    /\ due' = [due EXCEPT ![r] = @ \cup {<<how, node>>}]
    /\ UNCHANGED published

Told(r, how, node) ==
    /\ inPass[r] /\ <<how, node>> \in due[r]
    /\ due' = [due EXCEPT ![r] = @ \ {<<how, node>>}]
    /\ Publish(Visit(how, r, node))
    /\ UNCHANGED <<stage, drawn, passes, inPass, history>>

(* ... and publishes without the lock: by then a topology may have dropped  *)
(* the node.                                                                *)
Enter(r, node) ==
    /\ Told(r, "node.start", node) /\ open[r][node] < MaxOpen
    /\ open' = [open EXCEPT ![r][node] = @ + 1]

Leave(r, node, how) ==
    /\ Told(r, how, node)
    /\ open' = [open EXCEPT ![r][node] = IF @ > 0 THEN @ - 1 ELSE 0]

(* include_subgraph(), called inside the wrapper, which is a container from *)
(* now on: the ends of its executions are not reported.                    *)
Discover(r) ==
    /\ inPass[r] /\ Wrapper \in drawn[r] /\ Working(r, Wrapper) > 0
    /\ drawn' = [drawn EXCEPT ![r] = {Stage}]
    /\ open' = [open EXCEPT ![r][Wrapper] = 0]
    /\ Publish(Topology(r, {Stage}))
    /\ UNCHANGED <<stage, due, passes, inPass, history>>

(* The run ends; what is still open is never reported.                      *)
EndRun(r) ==
    /\ stage[r] = "running" /\ ~inPass[r]
    /\ stage' = [stage EXCEPT ![r] = "ended"]
    /\ open' = [open EXCEPT ![r] = [n \in Nodes |-> 0]]
    /\ outlived' = IF Others(r, {"running"}) = {} THEN outlived ELSE outlived \cup {r}
    /\ Publish(Event("run.end", r))
    /\ UNCHANGED <<drawn, due, passes, inPass, crossed, overlaid>>

Next ==
    \E r \in Runs :
        \/ \E nodes \in {{Wrapper}, {Stage}} : AttachTopology(r, nodes)
        \/ AttachStart(r) \/ StartPass(r) \/ Discover(r) \/ EndRun(r)
        \/ \E status \in {"ok", "error"} : EndPass(r, status)
        \/ \E node \in Nodes :
              \/ \E how \in {"node.start"} \cup Exits : Look(r, how, node)
              \/ Enter(r, node) \/ \E how \in Exits : Leave(r, node, how)

Spec == Init /\ [][Next]_vars

\* The bus's replay: the last topology of each run, and the ring
IsTopology(i) == events[i].type = "graph.topology"
Pinned(i) == IsTopology(i) /\ \A j \in DOMAIN events : j > i /\ events[j].run = events[i].run => ~IsTopology(j)
InRing(i) == ~IsTopology(i) /\ Cardinality({j \in DOMAIN events : j > i /\ ~IsTopology(j)}) < BufferSize
InReplay(i) == Pinned(i) \/ InRing(i)

\* A tab opened now handles the replay, event by event.
FreshPage ==
    LET after[n \in 0..Len(events)] ==
            IF n = 0 THEN EmptyPage
            ELSE IF InReplay(n) THEN Handle(after[n - 1], events[n])
            ELSE after[n - 1]
    IN  after[Len(events)]

-----------------------------------------------------------------------------
(* Type invariant: of the page, and of what the replay makes a new one show *)
(* however much of the ring is gone.                                       *)
TypeOK ==
    {page, FreshPage} \subseteq
             [run : Runs \cup {NoRun}, started : BOOLEAN, ended : BOOLEAN,
              nodes : SUBSET Nodes,
              status : [Nodes -> [state : {"idle", "running", "done", "error", "stopped"},
                                  active : 0..MaxOpen, failed : BOOLEAN, hits : 0..MaxEvents]],
              passes : [PassNumbers -> {"none", "run", "done", "err"}],
              current : 0..MaxPasses]

(* While the shown run is in progress, a node of the mesh is lit exactly    *)
(* while it has an execution under way, however executions overlap and      *)
(* whatever the page forgot when a wrapper was replaced; and the mesh is    *)
(* the run's own, unless its attach() overlapped another run.               *)
Shows(r) == page.run = r /\ page.started
InProgress(r) == Shows(r) /\ stage[r] = "running"

RunningIsTrue ==
    \A r \in Runs : InProgress(r) =>
        /\ r \notin crossed => page.nodes = drawn[r]
        /\ \A n \in page.nodes :
              /\ page.status[n].active = open[r][n]
              /\ page.status[n].state = "running" <=> open[r][n] > 0

(* The tape shows the last MaxCols passes of the shown run and no pass of   *)
(* another one, those behind it closed: while the run is in progress, which *)
(* keeps the page whatever other runs do (dashboard.html:541), and after    *)
(* its end too, unless another run was still in progress then.  A pass that *)
(* a third run begins between the topology of r and its run.start is put on *)
(* the tape of r, which no run.start clears: such a run is excepted.       *)
TapeIsTrue ==
    \A r \in Runs : Shows(r) /\ r \notin overlaid /\ (stage[r] = "running" \/ r \notin outlived) =>
        /\ page.current = passes[r]
        /\ \A i \in PassNumbers :
              /\ page.passes[i] # "none" <=> i \in (passes[r] - MaxCols + 1)..passes[r]
              /\ page.passes[i] = "run" => inPass[r] /\ i = passes[r]

(* bus.py:168: the replay is everything a fresh browser needs to            *)
(* reconstruct the current run.  As long as the ring has evicted nothing, a *)
(* tab opened now shows what the tab that was open all along shows, even    *)
(* though the replay lacks the topologies that were replaced; unless the    *)
(* attach() of the shown run overlapped another run.                        *)
NothingEvicted == \A i \in DOMAIN events : ~IsTopology(i) => InRing(i)

FreshTabReconstructs == NothingEvicted /\ page.run \notin crossed => FreshPage = page

(* When the ring has wrapped, a new tab may miss work under way, but lights *)
(* no node of the run it shows that is not running.  The one exception is a *)
(* wrapper whose start was published after the topology that dropped it:    *)
(* its end is never reported, and the tab keeps it lit.                     *)
UnderWay(r, n) == n \in drawn[r] /\ open[r][n] > 0
CameLate(r, n) == n \notin drawn[r] /\ open[r][n] > 0

NothingInvented ==
    \A n \in Nodes :
        LET r == FreshPage.run
        IN  FreshPage.status[n].state = "running" => UnderWay(r, n) \/ CameLate(r, n)

=============================================================================
