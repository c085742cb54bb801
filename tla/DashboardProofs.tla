--------------------------- MODULE DashboardProofs --------------------------
(***************************************************************************)
(* Proofs about the page, for any number of runs that overlap in any way:  *)
(* first the one that was open all along, then that of a tab opened now,   *)
(* which handles only what the replay kept.                                *)
(***************************************************************************)
EXTENDS Dashboard, FiniteSetTheorems, WellFoundedInduction, TLAPS

-----------------------------------------------------------------------------
(* Types.                                                                  *)

NodeStatus == [state : {"idle", "running", "done", "error", "stopped"},
               active : Nat, failed : BOOLEAN, hits : Nat]
Marks == {"none", "run", "done", "err"}
Pages == [run : Runs \cup {NoRun}, started : BOOLEAN, ended : BOOLEAN, nodes : SUBSET Nodes,
          status : [Nodes -> NodeStatus], passes : [PassNumbers -> Marks], current : 0..MaxPasses]
Kinds == {"graph.topology", "run.start", "run.end", "iter.start", "iter.end",
          "node.start", "node.end", "node.error"}
Events == [type : Kinds, run : Runs, pass : 0..MaxPasses, node : Nodes \cup {NoNode},
           nodes : SUBSET Nodes, status : {"none", "ok", "error"}]

RunTypes ==
    /\ stage \in [Runs -> {"new", "attaching", "running", "ended"}]
    /\ drawn \in [Runs -> SUBSET Nodes]
    /\ open \in [Runs -> [Nodes -> 0..MaxOpen]]
    /\ passes \in [Runs -> 0..MaxPasses]
    /\ inPass \in [Runs -> BOOLEAN]
PageTypes == page \in Pages

(* Runs: what is open, and in which stage of the run.                      *)
RunInv ==
    \A r \in Runs :
        /\ inPass[r] => stage[r] = "running" /\ passes[r] >= 1
        /\ stage[r] \in {"new", "attaching"} => passes[r] = 0
        /\ stage[r] # "running" => \A n \in Nodes : open[r][n] = 0

(* What the page knows of the run it shows.                                *)
ShownInv ==
    /\ page.run = NoRun => ~page.started /\ ~page.ended /\ \A r \in Runs : stage[r] = "new"
    /\ \A r \in Runs : page.run = r =>
          /\ stage[r] # "new"
          /\ page.ended <=> stage[r] = "ended"
          /\ page.started => stage[r] \in {"running", "ended"}

(* A run that shared its attach() with no other is alone until it runs.    *)
AloneInv ==
    \A r \in Runs : stage[r] = "attaching" /\ r \notin crossed =>
        /\ page.run = r /\ page.nodes = drawn[r]
        /\ \A x \in Runs \ {r} : stage[x] \notin {"attaching", "running"}

(* The lights, from the topology on: of every node, drawn or not.          *)
LightsInv ==
    \A r \in Runs : page.run = r /\ (stage[r] = "attaching" \/ (page.started /\ stage[r] = "running")) =>
        \A n \in Nodes :
            /\ page.status[n].active = open[r][n]
            /\ page.status[n].state = "running" <=> open[r][n] > 0
MeshInv ==
    \A r \in Runs : InProgress(r) /\ r \notin crossed => page.nodes = drawn[r]

(* The tape, from the topology on.                                         *)
TapeOf(r) ==
    /\ page.current = passes[r]
    /\ \A i \in PassNumbers :
          /\ page.passes[i] # "none" <=> i \in (passes[r] - MaxCols + 1)..passes[r]
          /\ page.passes[i] = "run" => inPass[r] /\ i = passes[r]
TapeInv ==
    \A r \in Runs : page.run = r /\ r \notin overlaid =>
        /\ stage[r] = "attaching" => TapeOf(r)
        /\ page.started /\ stage[r] = "running" => TapeOf(r)
        /\ page.started /\ stage[r] = "ended" /\ r \notin outlived =>
              TapeOf(r) /\ \A x \in Runs : stage[x] # "running"

PageInv == ShownInv /\ AloneInv /\ LightsInv /\ MeshInv /\ TapeInv

-----------------------------------------------------------------------------
(* The events, and what a page makes of each kind.                         *)

LEMMA Constants ==
    /\ MaxCols \in Nat \ {0} /\ MaxPasses \in Nat /\ MaxOpen \in Nat /\ MaxEvents \in Nat
    /\ NoRun \notin Runs /\ Nodes = {Wrapper, Stage}
    /\ PassNumbers = 1..MaxPasses
BY BoundsAssumption, NamesAssumption DEF Nodes, PassNumbers

LEMMA DistinctNodes == Wrapper # Stage
<1> SUFFICES ASSUME Wrapper = Stage PROVE FALSE
  OBVIOUS
<1>1. {Wrapper, Stage, NoNode} = {Stage} \cup {NoNode}
  OBVIOUS
<1>2. IsFiniteSet({Stage}) /\ Cardinality({Stage}) = 1
  BY FS_Singleton
<1>3. \/ Cardinality({Stage} \cup {NoNode}) = Cardinality({Stage})
      \/ Cardinality({Stage} \cup {NoNode}) = Cardinality({Stage}) + 1
  BY <1>2, FS_AddElement
<1> QED BY <1>1, <1>2, <1>3, NamesAssumption DEF NamesAssumption

LEMMA EventFields ==
    ASSUME NEW type \in Kinds, NEW run \in Runs
    PROVE  Event(type, run) \in Events /\ Event(type, run).type = type /\ Event(type, run).run = run
BY Constants DEF Event, Events

LEMMA TopologyFields ==
    ASSUME NEW run \in Runs, NEW nodes \in SUBSET Nodes
    PROVE  LET e == Topology(run, nodes)
           IN  e \in Events /\ e.type = "graph.topology" /\ e.run = run /\ e.nodes = nodes
BY Constants DEF Topology, Event, Events, Kinds

LEMMA PassFields ==
    ASSUME NEW type \in Kinds, NEW run \in Runs, NEW status \in {"none", "ok", "error"},
           passes'[run] \in 0..MaxPasses
    PROVE  LET e == Pass(type, run, status)
           IN  e \in Events /\ e.type = type /\ e.run = run /\ e.pass = passes'[run] /\ e.status = status
BY Constants DEF Pass, Event, Events

LEMMA VisitFields ==
    ASSUME RunTypes, NEW type \in Kinds, NEW run \in Runs, NEW node \in Nodes
    PROVE  LET e == Visit(type, run, node)
           IN  e \in Events /\ e.type = type /\ e.run = run /\ e.pass = passes[run] /\ e.node = node
<1>1. passes[run] \in 0..MaxPasses
  BY DEF RunTypes
<1> QED BY <1>1, Constants DEF Visit, Event, Events

LEMMA HandlesKinds ==
    ASSUME NEW p, NEW e
    PROVE  /\ e.type = "graph.topology" => Handle(p, e) = OnTopology(p, e)
           /\ e.type = "run.start" => Handle(p, e) = OnRunStart(p, e)
           /\ e.type = "run.end" => Handle(p, e) = OnRunEnd(p, e)
           /\ e.type = "iter.start" => Handle(p, e) = OnIterStart(p, e)
           /\ e.type = "iter.end" => Handle(p, e) = OnIterEnd(p, e)
           /\ e.type = "node.start" => Handle(p, e) = OnNodeStart(p, e)
           /\ e.type = "node.end" => Handle(p, e) = OnNodeEnd(p, e)
           /\ e.type = "node.error" => Handle(p, e) = OnNodeError(p, e)
BY DEF Handle

(* The status of a node.                                                   *)
LEMMA StatusFacts ==
    /\ Idle \in NodeStatus /\ Idle.active = 0 /\ Idle.state # "running"
    /\ \A s \in NodeStatus : Stopped(s) \in NodeStatus
    /\ \A s \in NodeStatus :
          Started(s) \in NodeStatus /\ Started(s).active = s.active + 1 /\ Started(s).state = "running"
    /\ \A s \in NodeStatus, failed \in BOOLEAN :
          LET f == FinishInvocation(s, failed)
          IN  /\ f \in NodeStatus
              /\ f.active = IF s.active > 0 THEN s.active - 1 ELSE 0
              /\ f.state = "running" <=> f.active > 0
<1>1. Idle \in NodeStatus /\ Idle.active = 0 /\ Idle.state # "running"
  BY DEF Idle, NodeStatus
<1>2. ASSUME NEW s \in NodeStatus PROVE Stopped(s) \in NodeStatus
  BY DEF Stopped, NodeStatus
<1>3. ASSUME NEW s \in NodeStatus, NEW failed \in BOOLEAN
      PROVE  LET f == FinishInvocation(s, failed)
             IN  /\ f \in NodeStatus
                 /\ f.active = IF s.active > 0 THEN s.active - 1 ELSE 0
                 /\ f.state = "running" <=> f.active > 0
  <2>1. s.active \in Nat /\ s.hits \in Nat /\ s.failed \in BOOLEAN
    BY DEF NodeStatus
  <2> DEFINE left == IF s.active > 0 THEN s.active - 1 ELSE 0
             state == IF left > 0 THEN "running" ELSE IF s.failed \/ failed THEN "error" ELSE "done"
  <2>2. left \in Nat
    BY <2>1
  <2>3. state \in {"running", "done", "error"} /\ (state = "running" <=> left > 0)
    OBVIOUS
  <2> DEFINE f == FinishInvocation(s, failed)
  <2>4. f = [s EXCEPT !.active = left, !.failed = s.failed \/ failed, !.hits = s.hits + 1, !.state = state]
    BY DEF FinishInvocation
  <2> HIDE DEF left, state, f
  <2>5. (s.failed \/ failed) \in BOOLEAN /\ s.hits + 1 \in Nat
    BY <2>1
  <2>6. f \in NodeStatus /\ f.active = left /\ f.state = state
    BY <2>2, <2>3, <2>4, <2>5 DEF NodeStatus
  <2> QED BY <2>2, <2>3, <2>6 DEF f, left
<1>4. ASSUME NEW s \in NodeStatus
      PROVE  Started(s) \in NodeStatus /\ Started(s).active = s.active + 1 /\ Started(s).state = "running"
  <2> DEFINE failed == s.active > 0 /\ s.failed
             active == s.active + 1
  <2>1. Started(s) = [s EXCEPT !.state = "running", !.active = active, !.failed = failed]
    BY DEF Started, NodeStatus
  <2>2. active \in Nat /\ (failed = TRUE \/ failed = FALSE)
    BY DEF NodeStatus
  <2> HIDE DEF failed
  <2>3. failed \in BOOLEAN
    BY <2>2
  <2> HIDE DEF active
  <2>4. Started(s) \in NodeStatus /\ Started(s).active = active /\ Started(s).state = "running"
    BY <2>1, <2>2, <2>3 DEF NodeStatus
  <2> QED BY <2>4 DEF active
<1> QED BY <1>1, <1>2, <1>3, <1>4

LEMMA EmptyFacts ==
    /\ EmptyPage \in Pages /\ EmptyPage.run = NoRun /\ ~EmptyPage.started /\ ~EmptyPage.ended
    /\ EmptyPage.current = 0
    /\ \A n \in Nodes : EmptyPage.status[n] = Idle
    /\ \A i \in PassNumbers : EmptyPage.passes[i] = "none"
BY StatusFacts, Constants DEF EmptyPage, Pages, Marks

(* Another run takes the page over.                                        *)
LEMMA ShownFacts ==
    ASSUME NEW p \in Pages, NEW e \in Events
    PROVE  LET q == Shown(p, e) IN
           /\ q \in Pages /\ q.run = e.run /\ q.nodes = p.nodes
           /\ e.run = p.run => q = p
           /\ e.run # p.run =>
                /\ ~q.started /\ ~q.ended /\ q.current = 0
                /\ \A n \in Nodes : q.status[n] = Idle
                /\ \A i \in PassNumbers : q.passes[i] = "none"
<1>1. e.run \in Runs /\ p.nodes \in SUBSET Nodes
  BY DEF Events, Pages
<1>2. CASE e.run = p.run
  BY <1>1, <1>2 DEF Shown
<1>3. CASE e.run # p.run
  <2>1. Shown(p, e) = [EmptyPage EXCEPT !.run = e.run, !.nodes = p.nodes]
    BY <1>3 DEF Shown, Reset
  <2>2. EmptyPage \in Pages
    BY EmptyFacts
  <2> DEFINE q == Shown(p, e)
  <2>3. /\ q \in Pages /\ q.run = e.run /\ q.nodes = p.nodes
        /\ q.started = EmptyPage.started /\ q.ended = EmptyPage.ended /\ q.current = EmptyPage.current
        /\ q.status = EmptyPage.status /\ q.passes = EmptyPage.passes
    BY <1>1, <2>1, <2>2 DEF Pages
  <2> QED BY <1>3, <2>3, EmptyFacts
<1> QED BY <1>2, <1>3

LEMMA TopologyShown ==
    ASSUME NEW p \in Pages, NEW e \in Events
    PROVE  LET q == OnTopology(p, e) IN
           /\ q \in Pages
           /\ LiveForeign(p, e) => q = p
           /\ ~LiveForeign(p, e) =>
                /\ q.run = e.run /\ q.nodes = e.nodes
                /\ q.started = Shown(p, e).started /\ q.ended = Shown(p, e).ended
                /\ q.current = Shown(p, e).current /\ q.passes = Shown(p, e).passes
                /\ \A n \in Nodes : q.status[n] = IF n \in e.nodes THEN Shown(p, e).status[n] ELSE Idle
<1> DEFINE s == Shown(p, e)
           q == OnTopology(p, e)
           status == [n \in Nodes |-> IF n \in e.nodes THEN s.status[n] ELSE Idle]
<1>1. s \in Pages /\ s.run = e.run
  BY ShownFacts
<1>2. e.nodes \in SUBSET Nodes
  BY DEF Events
<1>3. CASE LiveForeign(p, e)
  BY <1>3 DEF OnTopology
<1>4. CASE ~LiveForeign(p, e)
  <2>1. q = [s EXCEPT !.nodes = e.nodes, !.status = status]
    BY <1>4 DEF OnTopology
  <2> HIDE DEF s, q
  <2>2. status \in [Nodes -> NodeStatus]
    BY <1>1, StatusFacts DEF Pages
  <2>3. \A n \in Nodes : status[n] = IF n \in e.nodes THEN s.status[n] ELSE Idle
    OBVIOUS
  <2> HIDE DEF status
  <2>4. /\ q \in Pages /\ q.run = s.run /\ q.nodes = e.nodes /\ q.started = s.started
        /\ q.ended = s.ended /\ q.current = s.current /\ q.passes = s.passes /\ q.status = status
    BY <1>1, <1>2, <2>1, <2>2 DEF Pages
  <2> QED BY <1>1, <1>4, <2>3, <2>4 DEF s, q
<1> QED BY <1>3, <1>4

LEMMA RunStartShown ==
    ASSUME NEW p \in Pages, NEW e \in Events
    PROVE  LET q == OnRunStart(p, e) IN
           /\ q \in Pages
           /\ LiveForeign(p, e) => q = p
           /\ ~LiveForeign(p, e) =>
                /\ q.run = e.run /\ q.nodes = p.nodes /\ q.started /\ ~q.ended
                /\ q.current = Shown(p, e).current /\ q.passes = Shown(p, e).passes
                /\ q.status = Shown(p, e).status
<1> DEFINE s == Shown(p, e)
           q == OnRunStart(p, e)
<1>1. s \in Pages /\ s.run = e.run /\ s.nodes = p.nodes
  BY ShownFacts
<1>2. CASE LiveForeign(p, e)
  BY <1>2 DEF OnRunStart
<1>3. CASE ~LiveForeign(p, e)
  <2>1. q = [s EXCEPT !.started = TRUE, !.ended = FALSE]
    BY <1>3 DEF OnRunStart
  <2> HIDE DEF s, q
  <2>2. /\ q \in Pages /\ q.run = s.run /\ q.nodes = s.nodes /\ q.started = TRUE /\ q.ended = FALSE
        /\ q.current = s.current /\ q.passes = s.passes /\ q.status = s.status
    BY <1>1, <2>1 DEF Pages
  <2> QED BY <1>1, <1>3, <2>2 DEF s, q
<1> QED BY <1>2, <1>3

LEMMA RunEndShown ==
    ASSUME NEW p \in Pages, NEW e \in Events
    PROVE  LET q == OnRunEnd(p, e) IN
           /\ q \in Pages
           /\ e.run # p.run => q = p
           /\ e.run = p.run =>
                /\ q.run = p.run /\ q.nodes = p.nodes /\ q.started = p.started /\ q.ended
                /\ q.current = p.current /\ q.passes = p.passes
<1> DEFINE q == OnRunEnd(p, e)
           status == [n \in Nodes |-> Stopped(p.status[n])]
<1>1. CASE e.run # p.run
  BY <1>1 DEF OnRunEnd
<1>2. CASE e.run = p.run
  <2>1. q = [p EXCEPT !.ended = TRUE, !.status = status]
    BY <1>2 DEF OnRunEnd
  <2>2. status \in [Nodes -> NodeStatus]
    BY StatusFacts DEF Pages
  <2> HIDE DEF q, status
  <2>3. /\ q \in Pages /\ q.run = p.run /\ q.nodes = p.nodes /\ q.started = p.started /\ q.ended = TRUE
        /\ q.current = p.current /\ q.passes = p.passes
    BY <2>1, <2>2 DEF Pages
  <2> QED BY <1>2, <2>3 DEF q
<1> QED BY <1>1, <1>2

(* The eviction of columns.                                                *)
LEMMA NewestFacts ==
    ASSUME NEW tape \in [PassNumbers -> Marks]
    PROVE  /\ Newest(tape) \in [PassNumbers -> Marks]
           /\ \A i \in PassNumbers :
                 Newest(tape)[i] = IF Cardinality({j \in PassNumbers : j > i /\ tape[j] # "none"}) < MaxCols
                                   THEN tape[i] ELSE "none"
BY DEF Newest, Marks

LEMMA BegunFacts ==
    ASSUME NEW tape \in [PassNumbers -> Marks], NEW i \in PassNumbers
    PROVE  /\ Begun(tape, i) \in [PassNumbers -> Marks]
           /\ \A j \in PassNumbers :
                 Begun(tape, i)[j] = IF j = i /\ tape[i] = "none" THEN "run" ELSE tape[j]
BY DEF Begun, Marks

LEMMA IterStartShown ==
    ASSUME NEW p \in Pages, NEW e \in Events, e.pass \in PassNumbers
    PROVE  LET q == OnIterStart(p, e) IN
           /\ q \in Pages
           /\ LiveForeign(p, e) => q = p
           /\ q.run = p.run /\ q.nodes = p.nodes /\ q.started = p.started /\ q.ended = p.ended
           /\ q.status = p.status
           /\ ~LiveForeign(p, e) =>
                /\ q.current = e.pass
                /\ q.passes = Newest(Begun(p.passes, e.pass))
<1> DEFINE q == OnIterStart(p, e)
           tape == Begun(p.passes, e.pass)
<1>1. CASE LiveForeign(p, e)
  BY <1>1 DEF OnIterStart
<1>2. CASE ~LiveForeign(p, e)
  <2>1. q = [p EXCEPT !.current = e.pass, !.passes = Newest(tape)]
    <3>1. [p EXCEPT !.current = e.pass].passes = p.passes
      BY DEF Pages
    <3> QED BY <1>2, <3>1 DEF OnIterStart
  <2>2. tape \in [PassNumbers -> Marks] /\ e.pass \in 0..MaxPasses
    BY Constants, BegunFacts DEF Pages
  <2> HIDE DEF q, tape
  <2>3. Newest(tape) \in [PassNumbers -> Marks]
    BY <2>2, NewestFacts
  <2>4. /\ q \in Pages /\ q.run = p.run /\ q.nodes = p.nodes /\ q.started = p.started
        /\ q.ended = p.ended /\ q.status = p.status /\ q.current = e.pass /\ q.passes = Newest(tape)
    BY <2>1, <2>2, <2>3 DEF Pages
  <2> QED BY <1>2, <2>4 DEF q, tape
<1> QED BY <1>1, <1>2

LEMMA IterEndShown ==
    ASSUME NEW p \in Pages, NEW e \in Events, e.pass \in PassNumbers
    PROVE  LET q == OnIterEnd(p, e) IN
           /\ q \in Pages
           /\ LiveForeign(p, e) \/ p.passes[e.pass] = "none" => q = p
           /\ q.run = p.run /\ q.nodes = p.nodes /\ q.started = p.started /\ q.ended = p.ended
           /\ q.status = p.status /\ q.current = p.current
           /\ ~LiveForeign(p, e) /\ p.passes[e.pass] # "none" =>
                \A i \in PassNumbers :
                    IF i = e.pass THEN q.passes[i] \in {"err", "done"} ELSE q.passes[i] = p.passes[i]
<1> DEFINE q == OnIterEnd(p, e)
           mark == IF e.status = "error" THEN "err" ELSE "done"
           tape == [p.passes EXCEPT ![e.pass] = mark]
<1>1. CASE LiveForeign(p, e) \/ p.passes[e.pass] = "none"
  BY <1>1 DEF OnIterEnd
<1>2. CASE ~(LiveForeign(p, e) \/ p.passes[e.pass] = "none")
  <2>1. q = [p EXCEPT !.passes = tape]
    BY <1>2 DEF OnIterEnd, Pages
  <2>2. tape \in [PassNumbers -> Marks]
    BY DEF Pages, Marks
  <2>3. \A i \in PassNumbers : IF i = e.pass THEN tape[i] \in {"err", "done"} ELSE tape[i] = p.passes[i]
    BY DEF Pages
  <2> HIDE DEF q, tape
  <2>4. /\ q \in Pages /\ q.run = p.run /\ q.nodes = p.nodes /\ q.started = p.started
        /\ q.ended = p.ended /\ q.status = p.status /\ q.current = p.current /\ q.passes = tape
    BY <2>1, <2>2 DEF Pages
  <2> QED BY <1>2, <2>3, <2>4 DEF q
<1> QED BY <1>1, <1>2

LEMMA NodeStartShown ==
    ASSUME NEW p \in Pages, NEW e \in Events, e.node \in Nodes
    PROVE  LET q == OnNodeStart(p, e) IN
           /\ q \in Pages
           /\ ~CurrentRun(p, e) \/ p.ended => q = p
           /\ q.run = p.run /\ q.nodes = p.nodes /\ q.started = p.started /\ q.ended = p.ended
           /\ q.current = p.current /\ q.passes = p.passes
           /\ CurrentRun(p, e) /\ ~p.ended =>
                \A n \in Nodes :
                    IF n = e.node THEN q.status[n].active = p.status[n].active + 1 /\ q.status[n].state = "running"
                                  ELSE q.status[n] = p.status[n]
<1> DEFINE q == OnNodeStart(p, e)
           new == Started(p.status[e.node])
           status == [p.status EXCEPT ![e.node] = new]
<1>1. CASE ~CurrentRun(p, e) \/ p.ended
  BY <1>1 DEF OnNodeStart
<1>2. CASE ~(~CurrentRun(p, e) \/ p.ended)
  <2>1. q = [p EXCEPT !.status = status]
    BY <1>2 DEF OnNodeStart
  <2>2. p.status \in [Nodes -> NodeStatus] /\ p.status[e.node] \in NodeStatus
    BY DEF Pages
  <2>3. new \in NodeStatus /\ new.active = p.status[e.node].active + 1 /\ new.state = "running"
    BY <2>2, StatusFacts
  <2> HIDE DEF q, new
  <2>4. /\ status \in [Nodes -> NodeStatus]
        /\ \A n \in Nodes : status[n] = IF n = e.node THEN new ELSE p.status[n]
    BY <2>2, <2>3
  <2> HIDE DEF status
  <2>5. /\ q \in Pages /\ q.run = p.run /\ q.nodes = p.nodes /\ q.started = p.started
        /\ q.ended = p.ended /\ q.status = status /\ q.current = p.current /\ q.passes = p.passes
    BY <2>1, <2>4 DEF Pages
  <2> QED BY <1>2, <2>3, <2>4, <2>5 DEF q
<1> QED BY <1>1, <1>2

(* The end of an execution, well or not: in the pass it belongs to.        *)
LEMMA NodeLeftShown ==
    ASSUME NEW p \in Pages, NEW e \in Events, e.node \in Nodes, e.pass \in PassNumbers,
           NEW q, q = OnNodeEnd(p, e) \/ q = OnNodeError(p, e)
    PROVE  /\ q \in Pages
           /\ ~CurrentRun(p, e) \/ p.ended => q = p
           /\ q.run = p.run /\ q.nodes = p.nodes /\ q.started = p.started /\ q.ended = p.ended
           /\ q.current = p.current
           /\ \A i \in PassNumbers :
                 /\ i # e.pass => q.passes[i] = p.passes[i]
                 /\ p.passes[i] # "none" => q.passes[i] # "none"
                 /\ p.passes[i] # "none" /\ q.passes[i] = "run" => p.passes[i] = "run"
           /\ CurrentRun(p, e) /\ ~p.ended =>
                \A n \in Nodes :
                    IF n = e.node
                      THEN \E failed \in BOOLEAN : q.status[n] = FinishInvocation(p.status[n], failed)
                      ELSE q.status[n] = p.status[n]
<1>1. CASE ~CurrentRun(p, e) \/ p.ended
  BY <1>1 DEF OnNodeEnd, OnNodeError
<1>2. CASE ~(~CurrentRun(p, e) \/ p.ended)
  <2> DEFINE begun == Begun(p.passes, e.pass)
             ended(failed) == [p.status EXCEPT ![e.node] = FinishInvocation(@, failed)]
  <2>1. e.pass # 0
    BY Constants
  <2>2. /\ begun \in [PassNumbers -> Marks]
        /\ \A i \in PassNumbers : begun[i] = IF i = e.pass /\ p.passes[i] = "none" THEN "run" ELSE p.passes[i]
    BY BegunFacts DEF Pages
  <2>3. Cell(p, e) = [p EXCEPT !.passes = begun]
    BY <2>1 DEF Cell, Pages
  <2>4. ASSUME NEW failed \in BOOLEAN
        PROVE  /\ ended(failed) \in [Nodes -> NodeStatus]
               /\ \A n \in Nodes : ended(failed)[n] =
                     IF n = e.node THEN FinishInvocation(p.status[n], failed) ELSE p.status[n]
    <3>1. p.status \in [Nodes -> NodeStatus] /\ FinishInvocation(p.status[e.node], failed) \in NodeStatus
      BY StatusFacts DEF Pages
    <3> QED BY <3>1
  <2> HIDE DEF begun, ended
  <2>5. /\ Cell(p, e) \in Pages /\ Cell(p, e).run = p.run /\ Cell(p, e).nodes = p.nodes
        /\ Cell(p, e).started = p.started /\ Cell(p, e).ended = p.ended /\ Cell(p, e).current = p.current
        /\ Cell(p, e).status = p.status /\ Cell(p, e).passes = begun
    BY <2>2, <2>3 DEF Pages
  <2>6. ASSUME NEW failed \in BOOLEAN, NEW c, c = [Cell(p, e) EXCEPT !.status = ended(failed)]
        PROVE  /\ c \in Pages /\ c.run = p.run /\ c.nodes = p.nodes /\ c.started = p.started
               /\ c.ended = p.ended /\ c.current = p.current /\ c.status = ended(failed)
               /\ c.passes = begun
    <3>1. ended(failed) \in [Nodes -> NodeStatus]
      BY <2>4
    <3> QED BY <2>5, <2>6, <3>1 DEF Pages
  <2>7. CASE q = OnNodeEnd(p, e)
    <3>1. q = [Cell(p, e) EXCEPT !.status = ended(FALSE)]
      BY <1>2, <2>5, <2>7 DEF OnNodeEnd, ended, Pages
    <3>2. /\ q \in Pages /\ q.run = p.run /\ q.nodes = p.nodes /\ q.started = p.started
          /\ q.ended = p.ended /\ q.current = p.current /\ q.status = ended(FALSE) /\ q.passes = begun
      BY <2>6, <3>1
    <3> QED BY <1>2, <2>2, <2>4, <3>2
  <2>8. CASE q = OnNodeError(p, e)
    <3> DEFINE c == [Cell(p, e) EXCEPT !.status = ended(TRUE)]
               marked == [begun EXCEPT ![e.pass] = IF @ = "none" THEN @ ELSE "err"]
    <3>1. /\ c \in Pages /\ c.run = p.run /\ c.nodes = p.nodes /\ c.started = p.started
          /\ c.ended = p.ended /\ c.current = p.current /\ c.status = ended(TRUE) /\ c.passes = begun
      BY <2>6
    <3>2. c = [Cell(p, e) EXCEPT !.status[e.node] = FinishInvocation(@, TRUE)]
      BY <2>5 DEF ended, Pages
    <3> HIDE DEF c
    <3>3. q = [c EXCEPT !.passes = marked]
      BY <1>2, <2>1, <2>8, <3>1, <3>2 DEF OnNodeError, Pages
    <3>4. /\ marked \in [PassNumbers -> Marks]
          /\ \A i \in PassNumbers : marked[i] = IF i = e.pass /\ begun[i] # "none" THEN "err" ELSE begun[i]
      BY <2>2 DEF Marks
    <3> HIDE DEF marked
    <3>5. /\ q \in Pages /\ q.run = p.run /\ q.nodes = p.nodes /\ q.started = p.started
          /\ q.ended = p.ended /\ q.current = p.current /\ q.status = ended(TRUE) /\ q.passes = marked
      BY <3>1, <3>3, <3>4 DEF Pages
    <3> QED BY <1>2, <2>2, <2>4, <3>4, <3>5
  <2> QED BY <2>7, <2>8
<1> QED BY <1>1, <1>2

-----------------------------------------------------------------------------
(* What a step does to the runs: it moves one of them.                     *)

SameRuns(x) ==
    \A r \in Runs \ {x} :
        /\ stage'[r] = stage[r] /\ drawn'[r] = drawn[r] /\ open'[r] = open[r]
        /\ passes'[r] = passes[r] /\ inPass'[r] = inPass[r]
HistoryGrows == crossed \subseteq crossed' /\ outlived \subseteq outlived' /\ overlaid \subseteq overlaid'
RunsMove(x) == RunTypes' /\ RunInv' /\ SameRuns(x) /\ HistoryGrows

LEMMA OpenTypes ==
    ASSUME RunTypes, NEW x \in Runs
    PROVE  open[x] \in [Nodes -> 0..MaxOpen] /\ \A n \in Nodes : open[x][n] \in 0..MaxOpen
<1>1. open[x] \in [Nodes -> 0..MaxOpen]
  BY DEF RunTypes
<1> QED BY <1>1

LEMMA AttachTopologyRuns ==
    ASSUME RunTypes, RunInv, NEW x \in Runs, NEW nodes \in SUBSET Nodes, AttachTopology(x, nodes)
    PROVE  /\ RunsMove(x) /\ stage[x] = "new" /\ stage'[x] = "attaching" /\ drawn'[x] = nodes
           /\ passes'[x] = 0 /\ \A n \in Nodes : open'[x][n] = 0
<1>1. /\ stage[x] = "new" /\ stage' = [stage EXCEPT ![x] = "attaching"]
      /\ drawn' = [drawn EXCEPT ![x] = nodes] /\ open' = open /\ passes' = passes /\ inPass' = inPass
  BY DEF AttachTopology
<1>2. HistoryGrows
  BY DEF AttachTopology, HistoryGrows
<1>3. RunTypes'
  BY <1>1 DEF RunTypes
<1>4. SameRuns(x) /\ stage'[x] = "attaching" /\ drawn'[x] = nodes
  BY <1>1 DEF SameRuns, RunTypes
<1>5. passes'[x] = 0 /\ ~inPass'[x] /\ \A n \in Nodes : open'[x][n] = 0
  BY <1>1 DEF RunInv
<1>6. RunInv'
  BY <1>4, <1>5 DEF RunInv, SameRuns
<1> QED BY <1>1, <1>2, <1>3, <1>4, <1>5, <1>6 DEF RunsMove

LEMMA AttachStartRuns ==
    ASSUME RunTypes, RunInv, NEW x \in Runs, AttachStart(x)
    PROVE  /\ RunsMove(x) /\ stage[x] = "attaching" /\ stage'[x] = "running"
           /\ drawn'[x] = drawn[x] /\ passes[x] = 0 /\ passes'[x] = 0
           /\ inPass'[x] = inPass[x]
           /\ \A n \in Nodes : open[x][n] = 0 /\ open'[x][n] = 0
           /\ overlaid' = overlaid /\ crossed' = crossed
<1>1. /\ stage[x] = "attaching" /\ stage' = [stage EXCEPT ![x] = "running"]
      /\ drawn' = drawn /\ open' = open /\ passes' = passes /\ inPass' = inPass
      /\ crossed' = crossed /\ outlived' = outlived /\ overlaid' = overlaid
  BY DEF AttachStart, history
<1>2. HistoryGrows
  BY <1>1 DEF HistoryGrows
<1>3. RunTypes'
  BY <1>1 DEF RunTypes
<1>4. SameRuns(x) /\ stage'[x] = "running"
  BY <1>1 DEF SameRuns, RunTypes
<1>5. passes[x] = 0 /\ ~inPass'[x] /\ \A n \in Nodes : open[x][n] = 0
  BY <1>1 DEF RunInv
<1>6. RunInv'
  BY <1>1, <1>4, <1>5 DEF RunInv, SameRuns
<1> QED BY <1>1, <1>2, <1>3, <1>4, <1>5, <1>6 DEF RunsMove

LEMMA StartPassRuns ==
    ASSUME RunTypes, RunInv, NEW x \in Runs, StartPass(x)
    PROVE  /\ RunsMove(x) /\ stage[x] = "running" /\ stage'[x] = "running" /\ ~inPass[x] /\ inPass'[x]
           /\ drawn'[x] = drawn[x] /\ open'[x] = open[x]
           /\ passes'[x] = passes[x] + 1 /\ passes[x] \in Nat /\ passes'[x] \in PassNumbers
           /\ \A y \in Runs \ {x} : stage[y] = "attaching" => y \in overlaid'
<1>1. /\ stage[x] = "running" /\ ~inPass[x] /\ passes[x] < MaxPasses /\ stage' = stage
      /\ inPass' = [inPass EXCEPT ![x] = TRUE] /\ passes' = [passes EXCEPT ![x] = @ + 1]
      /\ drawn' = drawn /\ open' = open
  BY DEF StartPass
<1>2. HistoryGrows /\ \A y \in Runs \ {x} : stage[y] = "attaching" => y \in overlaid'
  BY DEF StartPass, HistoryGrows, Others
<1>3. passes[x] \in Nat /\ passes[x] + 1 \in 1..MaxPasses /\ passes[x] + 1 \in 0..MaxPasses
  BY <1>1, Constants DEF RunTypes
<1>4. RunTypes'
  BY <1>1, <1>3 DEF RunTypes
<1>5. SameRuns(x) /\ inPass'[x] /\ passes'[x] = passes[x] + 1
  BY <1>1 DEF SameRuns, RunTypes
<1>6. RunInv'
  BY <1>1, <1>3, <1>5 DEF RunInv, SameRuns
<1> QED BY <1>1, <1>2, <1>3, <1>4, <1>5, <1>6, Constants DEF RunsMove

LEMMA EndPassRuns ==
    ASSUME RunTypes, RunInv, NEW x \in Runs, NEW status, EndPass(x, status)
    PROVE  /\ RunsMove(x) /\ stage[x] = "running" /\ stage'[x] = "running" /\ inPass[x] /\ ~inPass'[x]
           /\ drawn'[x] = drawn[x] /\ open'[x] = open[x]
           /\ passes'[x] = passes[x] /\ passes[x] \in PassNumbers
<1>1. /\ stage[x] = "running" /\ inPass[x] /\ stage' = stage
      /\ inPass' = [inPass EXCEPT ![x] = FALSE] /\ passes' = passes
      /\ drawn' = drawn /\ open' = open
      /\ crossed' = crossed /\ outlived' = outlived /\ overlaid' = overlaid
  BY DEF EndPass, history
<1>2. HistoryGrows
  BY <1>1 DEF HistoryGrows
<1>3. passes[x] \in 1..MaxPasses
  BY <1>1, Constants DEF RunTypes, RunInv
<1>4. RunTypes'
  BY <1>1 DEF RunTypes
<1>5. SameRuns(x) /\ ~inPass'[x]
  BY <1>1 DEF SameRuns, RunTypes
<1>6. RunInv'
  BY <1>1, <1>5 DEF RunInv, SameRuns
<1> QED BY <1>1, <1>2, <1>3, <1>4, <1>5, <1>6, Constants DEF RunsMove

LEMMA EnterRuns ==
    ASSUME RunTypes, RunInv, NEW x \in Runs, NEW node \in Nodes, Enter(x, node)
    PROVE  /\ RunsMove(x) /\ stage[x] = "running" /\ stage'[x] = "running" /\ inPass'[x] = inPass[x]
           /\ drawn'[x] = drawn[x] /\ passes'[x] = passes[x]
           /\ \A n \in Nodes : open'[x][n] = IF n = node THEN open[x][n] + 1 ELSE open[x][n]
<1>1. /\ inPass[x] /\ open[x][node] < MaxOpen /\ stage' = stage
      /\ inPass' = inPass /\ passes' = passes /\ drawn' = drawn
      /\ open' = [open EXCEPT ![x][node] = @ + 1]
      /\ crossed' = crossed /\ outlived' = outlived /\ overlaid' = overlaid
  BY DEF Enter, Told, history
<1>2. HistoryGrows
  BY <1>1 DEF HistoryGrows
<1>3. stage[x] = "running"
  BY <1>1 DEF RunInv
<1>4. open[x] \in [Nodes -> 0..MaxOpen] /\ open[x][node] + 1 \in 0..MaxOpen
  <2>1. open[x] \in [Nodes -> 0..MaxOpen] /\ open[x][node] \in 0..MaxOpen
    BY OpenTypes
  <2>2. MaxOpen \in Nat
    BY Constants
  <2> QED BY <1>1, <2>1, <2>2
<1>5. /\ open'[x] \in [Nodes -> 0..MaxOpen]
      /\ \A n \in Nodes : open'[x][n] = IF n = node THEN open[x][n] + 1 ELSE open[x][n]
  BY <1>1, <1>4 DEF RunTypes
<1>6. RunTypes'
  BY <1>1, <1>5 DEF RunTypes
<1>7. SameRuns(x)
  BY <1>1 DEF SameRuns, RunTypes
<1>8. RunInv'
  BY <1>1, <1>3, <1>5, <1>7 DEF RunInv, SameRuns
<1> QED BY <1>1, <1>2, <1>3, <1>5, <1>6, <1>7, <1>8 DEF RunsMove

LEMMA LeaveRuns ==
    ASSUME RunTypes, RunInv, NEW x \in Runs, NEW node \in Nodes, NEW how, Leave(x, node, how)
    PROVE  /\ RunsMove(x) /\ stage[x] = "running" /\ stage'[x] = "running" /\ inPass'[x] = inPass[x]
           /\ drawn'[x] = drawn[x] /\ passes'[x] = passes[x] /\ passes[x] \in PassNumbers
           /\ open[x] \in [Nodes -> Nat]
           /\ \A n \in Nodes : open'[x][n] = IF n = node /\ open[x][n] > 0 THEN open[x][n] - 1 ELSE open[x][n]
<1> DEFINE left == IF open[x][node] > 0 THEN open[x][node] - 1 ELSE 0
<1>1. /\ inPass[x] /\ stage' = stage
      /\ inPass' = inPass /\ passes' = passes /\ drawn' = drawn
      /\ open' = [open EXCEPT ![x][node] = left]
      /\ crossed' = crossed /\ outlived' = outlived /\ overlaid' = overlaid
  BY DEF Leave, Told, history
<1>2. HistoryGrows
  BY <1>1 DEF HistoryGrows
<1>3. stage[x] = "running" /\ passes[x] \in PassNumbers
  BY <1>1, Constants DEF RunInv, RunTypes
<1>4. /\ open[x] \in [Nodes -> 0..MaxOpen] /\ left \in 0..MaxOpen
      /\ left = IF open[x][node] > 0 THEN open[x][node] - 1 ELSE open[x][node]
  <2>1. open[x] \in [Nodes -> 0..MaxOpen] /\ open[x][node] \in 0..MaxOpen
    BY OpenTypes
  <2>2. MaxOpen \in Nat
    BY Constants
  <2> QED BY <2>1, <2>2
<1> HIDE DEF left
<1>5. /\ open'[x] \in [Nodes -> 0..MaxOpen]
      /\ \A n \in Nodes : open'[x][n] = IF n = node /\ open[x][n] > 0 THEN open[x][n] - 1 ELSE open[x][n]
  <2>1. open'[x] = [open[x] EXCEPT ![node] = left]
    BY <1>1 DEF RunTypes
  <2> QED BY <1>4, <2>1
<1>6. RunTypes'
  BY <1>1, <1>5 DEF RunTypes
<1>7. SameRuns(x)
  BY <1>1 DEF SameRuns, RunTypes
<1>9. RunInv'
  BY <1>1, <1>3, <1>7 DEF RunInv, SameRuns
<1>10. open[x] \in [Nodes -> Nat]
  BY <1>4, Constants
<1> QED BY <1>1, <1>2, <1>3, <1>5, <1>6, <1>7, <1>9, <1>10 DEF RunsMove

LEMMA DiscoverRuns ==
    ASSUME RunTypes, RunInv, NEW x \in Runs, Discover(x)
    PROVE  /\ RunsMove(x) /\ stage[x] = "running" /\ stage'[x] = "running" /\ inPass'[x] = inPass[x]
           /\ drawn'[x] = {Stage} /\ passes'[x] = passes[x]
           /\ \A n \in Nodes : open'[x][n] = IF n = Wrapper THEN 0 ELSE open[x][n]
<1>0. Wrapper \in Nodes /\ {Stage} \in SUBSET Nodes
  BY Constants
<1>1. /\ inPass[x] /\ stage' = stage
      /\ inPass' = inPass /\ passes' = passes /\ drawn' = [drawn EXCEPT ![x] = {Stage}]
      /\ open' = [open EXCEPT ![x][Wrapper] = 0]
      /\ crossed' = crossed /\ outlived' = outlived /\ overlaid' = overlaid
  BY DEF Discover, history
<1>2. HistoryGrows
  BY <1>1 DEF HistoryGrows
<1>3. stage[x] = "running"
  BY <1>1 DEF RunInv
<1>4. open[x] \in [Nodes -> 0..MaxOpen] /\ 0 \in 0..MaxOpen
  <2>1. open[x] \in [Nodes -> 0..MaxOpen]
    BY OpenTypes
  <2>2. MaxOpen \in Nat
    BY Constants
  <2> QED BY <2>1, <2>2
<1>5. /\ open'[x] \in [Nodes -> 0..MaxOpen]
      /\ \A n \in Nodes : open'[x][n] = IF n = Wrapper THEN 0 ELSE open[x][n]
  BY <1>1, <1>4 DEF RunTypes
<1>6. RunTypes'
  BY <1>0, <1>1, <1>5 DEF RunTypes
<1>7. SameRuns(x) /\ drawn'[x] = {Stage}
  BY <1>1 DEF SameRuns, RunTypes
<1>9. RunInv'
  BY <1>1, <1>3, <1>7 DEF RunInv, SameRuns
<1> QED BY <1>1, <1>2, <1>3, <1>5, <1>6, <1>7, <1>9 DEF RunsMove

LEMMA EndRunRuns ==
    ASSUME RunTypes, RunInv, NEW x \in Runs, EndRun(x)
    PROVE  /\ RunsMove(x) /\ stage[x] = "running" /\ stage'[x] = "ended" /\ inPass'[x] = inPass[x]
           /\ passes'[x] = passes[x]
           /\ x \notin outlived' => x \notin outlived /\ \A y \in Runs : stage'[y] # "running"
<1>1. /\ stage[x] = "running" /\ ~inPass[x] /\ stage' = [stage EXCEPT ![x] = "ended"]
      /\ inPass' = inPass /\ passes' = passes /\ drawn' = drawn
      /\ open' = [open EXCEPT ![x] = [n \in Nodes |-> 0]]
      /\ outlived' = (IF Others(x, {"running"}) = {} THEN outlived ELSE outlived \cup {x})
      /\ crossed' = crossed /\ overlaid' = overlaid
  BY DEF EndRun
<1>2. HistoryGrows
  BY <1>1 DEF HistoryGrows
<1>3. [n \in Nodes |-> 0] \in [Nodes -> 0..MaxOpen]
  BY Constants
<1>4. RunTypes'
  BY <1>1, <1>3 DEF RunTypes
<1>5. SameRuns(x) /\ stage'[x] = "ended" /\ \A n \in Nodes : open'[x][n] = 0
  BY <1>1 DEF SameRuns, RunTypes
<1>6. RunInv'
  BY <1>1, <1>5 DEF RunInv, SameRuns
<1>7. ASSUME x \notin outlived' PROVE x \notin outlived /\ \A y \in Runs : stage'[y] # "running"
  BY <1>1, <1>5, <1>7 DEF Others, SameRuns
<1> QED BY <1>1, <1>2, <1>4, <1>5, <1>6, <1>7 DEF RunsMove

-----------------------------------------------------------------------------
(* What a step does to the page.                                           *)

Inv == RunTypes /\ PageTypes /\ RunInv /\ PageInv

(* A run that has begun is shown, or another one is.                       *)
LEMMA SomeRunShown ==
    ASSUME PageTypes, ShownInv, NEW x \in Runs, stage[x] # "new"
    PROVE  page.run \in Runs /\ page.run # NoRun
BY Constants DEF PageTypes, Pages, ShownInv

(* While a run is attaching or running, no other has the page to itself.   *)
LEMMA NoneAlone ==
    ASSUME AloneInv, NEW x \in Runs, stage[x] \in {"attaching", "running"},
           NEW r \in Runs, r # x, stage[r] = "attaching"
    PROVE  r \in crossed
BY DEF AloneInv

(* Who keeps the page against an event of another run is in progress.      *)
LEMMA LiveIsRunning ==
    ASSUME PageTypes, ShownInv, NEW x \in Runs, NEW e, e.run = x
    PROVE  LiveForeign(page, e) => /\ page.run \in Runs /\ page.run # x
                                   /\ page.started /\ stage[page.run] = "running"
BY Constants DEF LiveForeign, PageTypes, Pages, ShownInv

(* A step of a run that is not shown leaves what is said of the shown one:  *)
(* it may put a pass on its tape only while nothing is said of that.        *)
LEMMA Unmoved ==
    ASSUME Inv, RunTypes', PageTypes', NEW x \in Runs, SameRuns(x), HistoryGrows,
           page.run \in Runs, page.run # x,
           page'.run = page.run, page'.started = page.started, page'.ended = page.ended,
           page'.nodes = page.nodes, page'.status = page.status,
           \/ page'.passes = page.passes /\ page'.current = page.current
           \/ page.run \in overlaid'
           \/ stage[page.run] = "ended" /\ (~page.started \/ page.run \in outlived)
           \/ stage[page.run] = "running" /\ ~page.started,
           stage'[x] = "attaching" => x \in crossed' \/ stage[x] = "attaching",
           stage'[x] \in {"attaching", "running"} =>
              stage[x] = stage'[x] \/ (page.started /\ stage[page.run] = "running")
    PROVE  PageInv'
<1>0. PICK y \in Runs : y = page.run
  OBVIOUS
<1>1. /\ stage'[y] = stage[y] /\ drawn'[y] = drawn[y] /\ open'[y] = open[y]
      /\ passes'[y] = passes[y] /\ inPass'[y] = inPass[y]
  BY <1>0 DEF SameRuns
<1>2. page'.run = y /\ y # NoRun /\ y \in Runs /\ y # x
  BY <1>0, Constants
<1>3. ShownInv /\ AloneInv /\ LightsInv /\ MeshInv /\ TapeInv
  BY DEF Inv, PageInv
<1>4. ShownInv'
  BY <1>0, <1>1, <1>2, <1>3 DEF ShownInv
<1>5. AloneInv'
  <2> SUFFICES ASSUME NEW r \in Runs, stage'[r] = "attaching", r \notin crossed'
               PROVE  /\ page'.run = r /\ page'.nodes = drawn'[r]
                      /\ \A z \in Runs \ {r} : stage'[z] \notin {"attaching", "running"}
    BY DEF AloneInv
  <2>1. r \notin crossed
    BY DEF HistoryGrows
  <2>2. r # x
    BY <1>0, <1>2, <1>3, <2>1 DEF AloneInv
  <2>3. stage[r] = "attaching" /\ drawn'[r] = drawn[r]
    BY <2>2 DEF SameRuns
  <2>4. /\ page.run = r /\ page.nodes = drawn[r]
        /\ \A z \in Runs \ {r} : stage[z] \notin {"attaching", "running"}
    BY <1>3, <2>1, <2>3 DEF AloneInv
  <2>5. stage'[x] \notin {"attaching", "running"}
    BY <2>2, <2>3, <2>4
  <2>6. \A z \in Runs \ {r} : stage'[z] \notin {"attaching", "running"}
    BY <2>4, <2>5 DEF SameRuns
  <2> QED BY <2>3, <2>4, <2>6
<1>6. LightsInv'
  BY <1>0, <1>1, <1>2, <1>3 DEF LightsInv
<1>7. MeshInv'
  BY <1>0, <1>1, <1>2, <1>3 DEF MeshInv, InProgress, Shows, HistoryGrows
<1>8. TapeInv'
  <2> SUFFICES ASSUME y \notin overlaid'
               PROVE  /\ stage'[y] = "attaching" => TapeOf(y)'
                      /\ page'.started /\ stage'[y] = "running" => TapeOf(y)'
                      /\ page'.started /\ stage'[y] = "ended" /\ y \notin outlived' =>
                            TapeOf(y)' /\ \A z \in Runs : stage'[z] # "running"
    BY <1>2 DEF TapeInv
  <2>1. y \notin overlaid /\ (y \notin outlived' => y \notin outlived)
    BY DEF HistoryGrows
  <2>2. /\ stage[y] = "attaching" => TapeOf(y)
        /\ page.started /\ stage[y] = "running" => TapeOf(y)
        /\ page.started /\ stage[y] = "ended" /\ y \notin outlived =>
              TapeOf(y) /\ \A z \in Runs : stage[z] # "running"
    BY <1>0, <1>2, <1>3, <2>1 DEF TapeInv
  <2>3. page'.passes = page.passes /\ page'.current = page.current /\ TapeOf(y) => TapeOf(y)'
    BY <1>1 DEF TapeOf
  <2>4. page.started /\ stage[y] = "ended" /\ (\A z \in Runs : stage[z] # "running") =>
           \A z \in Runs : stage'[z] # "running"
    BY <1>0, <1>2 DEF SameRuns
  <2> QED BY <1>0, <1>1, <2>1, <2>2, <2>3, <2>4
<1> QED BY <1>4, <1>5, <1>6, <1>7, <1>8 DEF PageInv

LEMMA AttachTopologyPage ==
    ASSUME Inv, NEW x \in Runs, NEW nodes \in SUBSET Nodes, AttachTopology(x, nodes)
    PROVE  PageTypes' /\ PageInv'
<1> DEFINE e == Topology(x, nodes)
<1>1. e \in Events /\ e.type = "graph.topology" /\ e.run = x /\ e.nodes = nodes
  BY TopologyFields
<1>2. RunTypes /\ RunInv /\ page \in Pages /\ ShownInv /\ AloneInv
  BY DEF Inv, PageInv, PageTypes
<1>3. page' = OnTopology(page, e)
  BY <1>1, HandlesKinds DEF AttachTopology, Publish
<1> HIDE DEF e
<1>4. /\ page' \in Pages
      /\ LiveForeign(page, e) => page' = page
      /\ ~LiveForeign(page, e) =>
           /\ page'.run = x /\ page'.nodes = nodes
           /\ page'.started = Shown(page, e).started /\ page'.ended = Shown(page, e).ended
           /\ page'.current = Shown(page, e).current /\ page'.passes = Shown(page, e).passes
           /\ \A n \in Nodes : page'.status[n] = IF n \in nodes THEN Shown(page, e).status[n] ELSE Idle
  BY <1>1, <1>2, <1>3, TopologyShown
<1>5. PageTypes'
  BY <1>4 DEF PageTypes
<1>6. /\ RunTypes' /\ SameRuns(x) /\ HistoryGrows /\ stage[x] = "new" /\ stage'[x] = "attaching"
      /\ drawn'[x] = nodes /\ passes'[x] = 0 /\ \A n \in Nodes : open'[x][n] = 0
  BY <1>2, AttachTopologyRuns DEF RunsMove
<1>7. /\ \A y \in Runs \ {x} : stage[y] = "attaching" => y \in crossed'
      /\ (\E y \in Runs \ {x} : stage[y] \in {"attaching", "running"}) => x \in crossed'
  BY DEF AttachTopology, Others
<1>8. CASE LiveForeign(page, e)
  <2>1. page.run \in Runs /\ page.run # x /\ page.started /\ stage[page.run] = "running"
    BY <1>1, <1>2, <1>8, LiveIsRunning DEF PageTypes
  <2>2. x \in crossed'
    BY <1>7, <2>1
  <2> QED BY <1>4, <1>5, <1>6, <1>8, <2>1, <2>2, Unmoved
<1>9. CASE ~LiveForeign(page, e)
  <2>1. page.run # x
    BY <1>2, <1>6 DEF ShownInv
  <2>2. /\ ~page'.started /\ ~page'.ended /\ page'.current = 0
        /\ \A n \in Nodes : page'.status[n] = Idle
        /\ \A i \in PassNumbers : page'.passes[i] = "none"
    BY <1>1, <1>2, <1>4, <1>9, <2>1, ShownFacts
  <2>3. page'.run = x /\ page'.nodes = nodes /\ x # NoRun
    BY <1>4, <1>9, Constants
  <2>4. ShownInv'
    BY <1>6, <2>2, <2>3 DEF ShownInv
  <2>5. AloneInv'
    BY <1>6, <1>7, <2>3 DEF AloneInv, SameRuns
  <2>6. LightsInv'
    BY <1>6, <2>2, <2>3, StatusFacts DEF LightsInv
  <2>7. MeshInv'
    BY <2>2 DEF MeshInv, InProgress, Shows
  <2>8. TapeOf(x)'
    BY <1>6, <2>2, Constants DEF TapeOf
  <2>9. TapeInv'
    BY <1>6, <2>3, <2>8 DEF TapeInv
  <2> QED BY <1>5, <2>4, <2>5, <2>6, <2>7, <2>9 DEF PageInv
<1> QED BY <1>8, <1>9

LEMMA AttachStartPage ==
    ASSUME Inv, NEW x \in Runs, AttachStart(x)
    PROVE  PageTypes' /\ PageInv'
<1> DEFINE e == Event("run.start", x)
<1>1. e \in Events /\ e.type = "run.start" /\ e.run = x
  BY EventFields DEF Kinds
<1>2. RunTypes /\ RunInv /\ page \in Pages /\ ShownInv /\ AloneInv /\ LightsInv /\ TapeInv
  BY DEF Inv, PageInv, PageTypes
<1>3. page' = OnRunStart(page, e)
  BY <1>1, HandlesKinds DEF AttachStart, Publish
<1> HIDE DEF e
<1>4. /\ page' \in Pages
      /\ LiveForeign(page, e) => page' = page
      /\ ~LiveForeign(page, e) =>
           /\ page'.run = x /\ page'.nodes = page.nodes /\ page'.started /\ ~page'.ended
           /\ page'.current = Shown(page, e).current /\ page'.passes = Shown(page, e).passes
           /\ page'.status = Shown(page, e).status
  BY <1>1, <1>2, <1>3, RunStartShown
<1>5. PageTypes'
  BY <1>4 DEF PageTypes
<1>6. /\ RunTypes' /\ SameRuns(x) /\ HistoryGrows /\ stage[x] = "attaching" /\ stage'[x] = "running"
      /\ drawn'[x] = drawn[x] /\ passes[x] = 0 /\ passes'[x] = 0 /\ inPass'[x] = inPass[x]
      /\ \A n \in Nodes : open[x][n] = 0 /\ open'[x][n] = 0
      /\ overlaid' = overlaid /\ crossed' = crossed
  BY <1>2, AttachStartRuns DEF RunsMove
<1>7. CASE LiveForeign(page, e)
  <2>1. page.run \in Runs /\ page.run # x /\ page.started /\ stage[page.run] = "running"
    BY <1>1, <1>2, <1>7, LiveIsRunning DEF PageTypes
  <2> QED BY <1>4, <1>5, <1>6, <1>7, <2>1, Unmoved
<1>8. CASE ~LiveForeign(page, e)
  <2>1. page'.run = x /\ page'.nodes = page.nodes /\ x # NoRun /\ page'.started /\ ~page'.ended
    BY <1>4, <1>8, Constants
  <2>2. /\ \A n \in Nodes : page'.status[n].active = 0 /\ page'.status[n].state # "running"
        /\ x \notin overlaid => TapeOf(x)'
    <3>1. CASE page.run = x
      <4>1. Shown(page, e) = page
        BY <1>1, <1>2, <3>1, ShownFacts
      <4>2. page'.current = page.current /\ page'.passes = page.passes /\ page'.status = page.status
        BY <1>4, <1>8, <4>1
      <4>3. \A n \in Nodes : page.status[n].active = 0 /\ page.status[n].state # "running"
        BY <1>2, <1>6, <3>1 DEF LightsInv
      <4>4. x \notin overlaid => TapeOf(x)
        BY <1>2, <1>6, <3>1 DEF TapeInv
      <4> QED BY <1>6, <4>2, <4>3, <4>4 DEF TapeOf
    <3>2. CASE page.run # x
      <4>1. /\ page'.current = 0
            /\ \A n \in Nodes : page'.status[n] = Idle
            /\ \A i \in PassNumbers : page'.passes[i] = "none"
        BY <1>1, <1>2, <1>4, <1>8, <3>2, ShownFacts
      <4>2. TapeOf(x)'
        BY <1>6, <4>1, Constants DEF TapeOf
      <4> QED BY <4>1, <4>2, StatusFacts
    <3> QED BY <3>1, <3>2
  <2>3. ShownInv'
    BY <1>6, <2>1 DEF ShownInv
  <2>4. AloneInv'
    <3> SUFFICES ASSUME NEW r \in Runs, stage'[r] = "attaching", r \notin crossed' PROVE FALSE
      BY DEF AloneInv
    <3>1. r # x /\ stage[r] = "attaching" /\ r \notin crossed
      BY <1>6 DEF SameRuns
    <3> QED BY <1>2, <1>6, <3>1, NoneAlone
  <2>5. LightsInv'
    BY <1>6, <2>1, <2>2 DEF LightsInv
  <2>6. MeshInv'
    BY <1>2, <1>6, <2>1 DEF MeshInv, AloneInv, InProgress, Shows
  <2>7. TapeInv'
    BY <1>6, <2>1, <2>2 DEF TapeInv
  <2> QED BY <1>5, <2>3, <2>4, <2>5, <2>6, <2>7 DEF PageInv
<1> QED BY <1>7, <1>8

(* A step of a running run that leaves the stages alone, while it is shown: *)
(* of the page only its lights, its mesh and its tape have to be looked at. *)
LEMMA StillShown ==
    ASSUME Inv, NEW x \in Runs, SameRuns(x), HistoryGrows, stage[x] = "running", stage'[x] = "running",
           page'.run = x, page'.ended = FALSE,
           LightsInv', MeshInv', x \notin overlaid' /\ page'.started => TapeOf(x)'
    PROVE  PageInv'
<1>1. RunTypes /\ ShownInv /\ AloneInv
  BY DEF Inv, PageInv
<1>2. ShownInv'
  BY Constants DEF ShownInv
<1>3. AloneInv'
  <2> SUFFICES ASSUME NEW r \in Runs, stage'[r] = "attaching", r \notin crossed' PROVE FALSE
    BY DEF AloneInv
  <2>1. r # x /\ stage[r] = "attaching" /\ r \notin crossed
    BY DEF SameRuns, HistoryGrows
  <2> QED BY <1>1, <2>1, NoneAlone
<1>4. TapeInv'
  BY DEF TapeInv
<1> QED BY <1>2, <1>3, <1>4 DEF PageInv

(* The window of the tape moves on with the pass that begins.               *)
LEMMA WindowMoves ==
    ASSUME NEW tape \in [PassNumbers -> Marks], NEW P \in Nat, P + 1 \in PassNumbers,
           \A i \in PassNumbers : tape[i] # "none" <=> i \in (P - MaxCols + 1)..P
    PROVE  \A i \in PassNumbers :
              /\ Newest(Begun(tape, P + 1))[i] # "none" <=> i \in (P + 1 - MaxCols + 1)..(P + 1)
              /\ Newest(Begun(tape, P + 1))[i] = "run" => i = P + 1 \/ tape[i] = "run"
<1> DEFINE begun == Begun(tape, P + 1)
           above(i) == {j \in PassNumbers : j > i /\ begun[j] # "none"}
<1>1. MaxCols \in Nat \ {0} /\ MaxPasses \in Nat /\ PassNumbers = 1..MaxPasses
  BY Constants
<1>2. /\ begun \in [PassNumbers -> Marks]
      /\ \A j \in PassNumbers : begun[j] = IF j = P + 1 /\ tape[P + 1] = "none" THEN "run" ELSE tape[j]
  BY BegunFacts
<1>3. \A i \in PassNumbers : Newest(begun)[i] = IF Cardinality(above(i)) < MaxCols THEN begun[i] ELSE "none"
  BY <1>2, NewestFacts
<1> HIDE DEF begun
<1>4. tape[P + 1] = "none"
  BY <1>1
<1>5. \A i \in PassNumbers : begun[i] # "none" <=> i \in (P - MaxCols + 1)..(P + 1)
  BY <1>1, <1>2, <1>4
<1>6. ASSUME NEW i \in PassNumbers, i \in (P - MaxCols + 1)..(P + 1)
      PROVE  Cardinality(above(i)) = P + 1 - i
  <2>1. above(i) = (i + 1)..(P + 1)
    <3>1. ASSUME NEW j \in above(i) PROVE j \in (i + 1)..(P + 1)
      BY <1>1, <1>5, <3>1
    <3>2. ASSUME NEW j \in (i + 1)..(P + 1) PROVE j \in above(i)
      <4>1. j \in PassNumbers /\ j > i /\ j \in (P - MaxCols + 1)..(P + 1)
        BY <1>1, <1>6, <3>2
      <4> QED BY <1>5, <4>1
    <3> QED BY <3>1, <3>2
  <2>2. i + 1 \in Int /\ P + 1 \in Int /\ i + 1 <= P + 2
    BY <1>1, <1>6
  <2>3. Cardinality((i + 1)..(P + 1)) = IF i + 1 > P + 1 THEN 0 ELSE (P + 1) - (i + 1) + 1
    BY <2>2, FS_Interval
  <2> HIDE DEF above
  <2>4. i \in Int /\ i <= P + 1
    BY <1>1, <1>6
  <2> QED BY <2>1, <2>3, <2>4
<1> HIDE DEF above
<1> SUFFICES ASSUME NEW i \in PassNumbers
             PROVE  /\ Newest(begun)[i] # "none" <=> i \in (P + 1 - MaxCols + 1)..(P + 1)
                    /\ Newest(begun)[i] = "run" => i = P + 1 \/ tape[i] = "run"
  BY DEF begun
<1>7. CASE i \in (P - MaxCols + 1)..(P + 1)
  <2>1. Cardinality(above(i)) < MaxCols <=> i \in (P + 1 - MaxCols + 1)..(P + 1)
    BY <1>1, <1>6, <1>7
  <2> QED BY <1>2, <1>3, <1>4, <1>5, <1>7, <2>1
<1>8. CASE i \notin (P - MaxCols + 1)..(P + 1)
  <2>1. i \notin (P + 1 - MaxCols + 1)..(P + 1)
    BY <1>1, <1>8
  <2>2. begun[i] = "none"
    BY <1>5, <1>8
  <2> QED BY <1>3, <2>1, <2>2
<1> QED BY <1>7, <1>8

LEMMA StartPassPage ==
    ASSUME Inv, NEW x \in Runs, StartPass(x)
    PROVE  PageTypes' /\ PageInv'
<1> DEFINE e == Pass("iter.start", x, "none")
<1>1. RunTypes /\ RunInv /\ page \in Pages /\ PageTypes /\ ShownInv /\ LightsInv /\ MeshInv /\ TapeInv
  BY DEF Inv, PageInv, PageTypes
<1>2. /\ RunTypes' /\ SameRuns(x) /\ HistoryGrows /\ stage[x] = "running" /\ stage'[x] = "running"
      /\ ~inPass[x] /\ inPass'[x] /\ drawn'[x] = drawn[x] /\ open'[x] = open[x]
      /\ passes'[x] = passes[x] + 1 /\ passes[x] \in Nat /\ passes'[x] \in PassNumbers
      /\ \A y \in Runs \ {x} : stage[y] = "attaching" => y \in overlaid'
  BY <1>1, StartPassRuns DEF RunsMove
<1>3. e \in Events /\ e.type = "iter.start" /\ e.run = x /\ e.pass = passes'[x]
  BY <1>2, PassFields DEF Kinds, RunTypes
<1>4. page' = OnIterStart(page, e)
  BY <1>3, HandlesKinds DEF StartPass, Publish
<1> HIDE DEF e
<1>5. /\ page' \in Pages
      /\ LiveForeign(page, e) => page' = page
      /\ page'.run = page.run /\ page'.nodes = page.nodes /\ page'.started = page.started
      /\ page'.ended = page.ended /\ page'.status = page.status
      /\ ~LiveForeign(page, e) =>
            page'.current = passes'[x] /\ page'.passes = Newest(Begun(page.passes, passes'[x]))
  BY <1>1, <1>2, <1>3, <1>4, IterStartShown
<1>6. PageTypes'
  BY <1>5 DEF PageTypes
<1>7. page.run \in Runs /\ page.run # NoRun
  BY <1>1, <1>2, SomeRunShown
<1>8. CASE page.run # x
  <2>1. PICK y \in Runs : y = page.run
    BY <1>7
  <2>2. \/ page'.passes = page.passes /\ page'.current = page.current
        \/ y \in overlaid'
        \/ stage[y] = "ended" /\ (~page.started \/ y \in outlived)
        \/ stage[y] = "running" /\ ~page.started
    <3>1. CASE LiveForeign(page, e)
      BY <1>5, <3>1
    <3>2. CASE ~LiveForeign(page, e)
      <4>1. ~page.started \/ page.ended
        BY <1>3, <1>7, <1>8, <3>2 DEF LiveForeign
      <4>2. stage[y] \in {"attaching", "running", "ended"} /\ (page.ended <=> stage[y] = "ended")
        BY <1>1, <2>1 DEF ShownInv, RunTypes
      <4>3. page.started /\ stage[y] = "ended" => y \in outlived \/ y \in overlaid
        BY <1>1, <1>2, <2>1 DEF TapeInv
      <4> QED BY <1>2, <1>8, <2>1, <4>1, <4>2, <4>3 DEF HistoryGrows
    <3> QED BY <3>1, <3>2
  <2> QED BY <1>2, <1>5, <1>6, <1>7, <1>8, <2>1, <2>2, Unmoved
<1>9. CASE page.run = x
  <2>1. ~LiveForeign(page, e)
    BY <1>3, <1>9 DEF LiveForeign
  <2>2. page.ended = FALSE
    BY <1>1, <1>2, <1>9 DEF ShownInv, Pages
  <2>3. LightsInv'
    BY <1>1, <1>2, <1>5, <1>9 DEF LightsInv
  <2>4. MeshInv'
    BY <1>1, <1>2, <1>5, <1>9 DEF MeshInv, InProgress, Shows, HistoryGrows
  <2>5. ASSUME x \notin overlaid', page'.started PROVE TapeOf(x)'
    <3>1. TapeOf(x)
      BY <1>1, <1>2, <1>5, <1>9, <2>5 DEF TapeInv, HistoryGrows
    <3>2. page.passes \in [PassNumbers -> Marks]
      BY <1>1 DEF Pages
    <3>3. \A i \in PassNumbers :
              /\ Newest(Begun(page.passes, passes[x] + 1))[i] # "none"
                    <=> i \in (passes[x] + 1 - MaxCols + 1)..(passes[x] + 1)
              /\ Newest(Begun(page.passes, passes[x] + 1))[i] = "run"
                    => i = passes[x] + 1 \/ page.passes[i] = "run"
      BY <1>2, <3>1, <3>2, WindowMoves DEF TapeOf
    <3>4. \A i \in PassNumbers : page.passes[i] # "run"
      BY <1>2, <3>1 DEF TapeOf
    <3>5. /\ page'.current = passes[x] + 1
          /\ page'.passes = Newest(Begun(page.passes, passes[x] + 1))
      BY <1>2, <1>5, <2>1
    <3>6. \A i \in PassNumbers :
              /\ page'.passes[i] # "none" <=> i \in (passes'[x] - MaxCols + 1)..passes'[x]
              /\ page'.passes[i] = "run" => i = passes'[x]
      <4> SUFFICES ASSUME NEW i \in PassNumbers
                   PROVE  /\ page'.passes[i] # "none" <=> i \in (passes'[x] - MaxCols + 1)..passes'[x]
                          /\ page'.passes[i] = "run" => i = passes'[x]
        OBVIOUS
      <4>1. /\ page'.passes[i] # "none" <=> i \in (passes[x] + 1 - MaxCols + 1)..(passes[x] + 1)
            /\ page'.passes[i] = "run" => i = passes[x] + 1 \/ page.passes[i] = "run"
        BY <3>3, <3>5
      <4>2. passes'[x] = passes[x] + 1 /\ passes[x] \in Nat /\ MaxCols \in Nat
        BY <1>2, Constants
      <4>3. i \in (passes[x] + 1 - MaxCols + 1)..(passes[x] + 1)
                <=> i \in (passes'[x] - MaxCols + 1)..passes'[x]
        BY <4>2
      <4> QED BY <3>4, <4>1, <4>2, <4>3
    <3>7. inPass'[x] /\ page'.current = passes'[x]
      BY <1>2, <3>5
    <3> QED BY <3>6, <3>7 DEF TapeOf
  <2> QED BY <1>2, <1>5, <1>6, <1>9, <2>2, <2>3, <2>4, <2>5, StillShown
<1> QED BY <1>8, <1>9

LEMMA EndPassPage ==
    ASSUME Inv, NEW x \in Runs, NEW status \in {"ok", "error"}, EndPass(x, status)
    PROVE  PageTypes' /\ PageInv'
<1> DEFINE e == Pass("iter.end", x, status)
<1>1. RunTypes /\ RunInv /\ page \in Pages /\ PageTypes /\ ShownInv /\ LightsInv /\ MeshInv /\ TapeInv
  BY DEF Inv, PageInv, PageTypes
<1>2. /\ RunTypes' /\ SameRuns(x) /\ HistoryGrows /\ stage[x] = "running" /\ stage'[x] = "running"
      /\ inPass[x] /\ ~inPass'[x] /\ drawn'[x] = drawn[x] /\ open'[x] = open[x]
      /\ passes'[x] = passes[x] /\ passes[x] \in PassNumbers
  BY <1>1, EndPassRuns DEF RunsMove
<1>3. e \in Events /\ e.type = "iter.end" /\ e.run = x /\ e.pass = passes[x]
  BY <1>2, PassFields DEF Kinds, RunTypes
<1>4. page' = OnIterEnd(page, e)
  BY <1>3, HandlesKinds DEF EndPass, Publish
<1> HIDE DEF e
<1>5. /\ page' \in Pages
      /\ LiveForeign(page, e) \/ page.passes[passes[x]] = "none" => page' = page
      /\ page'.run = page.run /\ page'.nodes = page.nodes /\ page'.started = page.started
      /\ page'.ended = page.ended /\ page'.status = page.status /\ page'.current = page.current
      /\ ~LiveForeign(page, e) /\ page.passes[passes[x]] # "none" =>
            \A i \in PassNumbers :
                IF i = passes[x] THEN page'.passes[i] \in {"err", "done"} ELSE page'.passes[i] = page.passes[i]
  BY <1>1, <1>2, <1>3, <1>4, IterEndShown
<1>6. PageTypes'
  BY <1>5 DEF PageTypes
<1>7. page.run \in Runs /\ page.run # NoRun
  BY <1>1, <1>2, SomeRunShown
<1>8. CASE page.run # x
  <2>1. PICK y \in Runs : y = page.run
    BY <1>7
  <2>2. \/ page'.passes = page.passes /\ page'.current = page.current
        \/ y \in overlaid'
        \/ stage[y] = "ended" /\ (~page.started \/ y \in outlived)
        \/ stage[y] = "running" /\ ~page.started
    <3>1. CASE LiveForeign(page, e)
      BY <1>5, <3>1
    <3>2. CASE ~LiveForeign(page, e)
      <4>1. ~page.started \/ page.ended
        BY <1>3, <1>7, <1>8, <3>2 DEF LiveForeign
      <4>2. stage[y] \in {"attaching", "running", "ended"} /\ (page.ended <=> stage[y] = "ended")
        BY <1>1, <2>1 DEF ShownInv, RunTypes
      <4>3. page.started /\ stage[y] = "ended" => y \in outlived \/ y \in overlaid
        BY <1>1, <1>2, <2>1 DEF TapeInv
      <4>4. stage[y] = "attaching" /\ y \notin overlaid => page'.passes = page.passes /\ page'.current = page.current
        <5> SUFFICES ASSUME stage[y] = "attaching", y \notin overlaid
                     PROVE  page' = page
          OBVIOUS
        <5>1. TapeOf(y) /\ passes[y] = 0
          BY <1>1, <2>1 DEF TapeInv, RunInv
        <5>2. page.passes[passes[x]] = "none"
          BY <1>2, <5>1, Constants DEF TapeOf
        <5> QED BY <1>5, <5>2
      <4> QED BY <1>2, <1>8, <2>1, <4>1, <4>2, <4>3, <4>4 DEF HistoryGrows
    <3> QED BY <3>1, <3>2
  <2> QED BY <1>2, <1>5, <1>6, <1>7, <1>8, <2>1, <2>2, Unmoved
<1>9. CASE page.run = x
  <2>1. ~LiveForeign(page, e)
    BY <1>3, <1>9 DEF LiveForeign
  <2>2. page.ended = FALSE
    BY <1>1, <1>2, <1>9 DEF ShownInv, Pages
  <2>3. LightsInv'
    BY <1>1, <1>2, <1>5, <1>9 DEF LightsInv
  <2>4. MeshInv'
    BY <1>1, <1>2, <1>5, <1>9 DEF MeshInv, InProgress, Shows, HistoryGrows
  <2>5. ASSUME x \notin overlaid', page'.started PROVE TapeOf(x)'
    <3>1. TapeOf(x)
      BY <1>1, <1>2, <1>5, <1>9, <2>5 DEF TapeInv, HistoryGrows
    <3>2. page.passes[passes[x]] # "none"
      <4>1. passes[x] \in (passes[x] - MaxCols + 1)..passes[x]
        BY <1>2, Constants
      <4> QED BY <1>2, <3>1, <4>1 DEF TapeOf
    <3>3. \A i \in PassNumbers :
              /\ page'.passes[i] # "none" <=> page.passes[i] # "none"
              /\ page'.passes[i] # "run"
      BY <1>2, <1>5, <2>1, <3>1, <3>2 DEF TapeOf
    <3> QED BY <1>2, <1>5, <3>1, <3>3 DEF TapeOf
  <2> QED BY <1>2, <1>5, <1>6, <1>9, <2>2, <2>3, <2>4, <2>5, StillShown
<1> QED BY <1>8, <1>9

LEMMA EnterPage ==
    ASSUME Inv, NEW x \in Runs, NEW node \in Nodes, Enter(x, node)
    PROVE  PageTypes' /\ PageInv'
<1> DEFINE e == Visit("node.start", x, node)
<1>1. RunTypes /\ RunInv /\ page \in Pages /\ PageTypes /\ ShownInv /\ LightsInv /\ MeshInv /\ TapeInv
  BY DEF Inv, PageInv, PageTypes
<1>2. /\ RunTypes' /\ SameRuns(x) /\ HistoryGrows /\ stage[x] = "running" /\ stage'[x] = "running"
      /\ inPass'[x] = inPass[x] /\ drawn'[x] = drawn[x] /\ passes'[x] = passes[x]
      /\ \A n \in Nodes : open'[x][n] = IF n = node THEN open[x][n] + 1 ELSE open[x][n]
  BY <1>1, EnterRuns DEF RunsMove
<1>3. e \in Events /\ e.type = "node.start" /\ e.run = x /\ e.node = node
  BY <1>1, VisitFields DEF Kinds
<1>4. page' = OnNodeStart(page, e)
  BY <1>3, HandlesKinds DEF Enter, Told, Publish
<1> HIDE DEF e
<1>5. /\ page' \in Pages
      /\ ~CurrentRun(page, e) \/ page.ended => page' = page
      /\ page'.run = page.run /\ page'.nodes = page.nodes /\ page'.started = page.started
      /\ page'.ended = page.ended /\ page'.current = page.current /\ page'.passes = page.passes
      /\ CurrentRun(page, e) /\ ~page.ended =>
            \A n \in Nodes :
                IF n = node THEN page'.status[n].active = page.status[n].active + 1 /\ page'.status[n].state = "running"
                            ELSE page'.status[n] = page.status[n]
  BY <1>1, <1>3, <1>4, NodeStartShown
<1>6. PageTypes'
  BY <1>5 DEF PageTypes
<1>7. page.run \in Runs /\ page.run # NoRun
  BY <1>1, <1>2, SomeRunShown
<1>8. CASE page.run # x
  <2>1. page' = page
    BY <1>3, <1>5, <1>7, <1>8 DEF CurrentRun
  <2> QED BY <1>2, <1>6, <1>7, <1>8, <2>1, Unmoved
<1>9. CASE page.run = x
  <2>1. page.ended = FALSE
    BY <1>1, <1>2, <1>9 DEF ShownInv, Pages
  <2>2. CurrentRun(page, e)
    BY <1>3, <1>9 DEF CurrentRun
  <2>3. LightsInv'
    <3> SUFFICES ASSUME page.started, NEW n \in Nodes
                 PROVE  /\ page'.status[n].active = open'[x][n]
                        /\ page'.status[n].state = "running" <=> open'[x][n] > 0
      BY <1>2, <1>5, <1>9 DEF LightsInv
    <3>1. /\ page.status[n].active = open[x][n]
          /\ page.status[n].state = "running" <=> open[x][n] > 0
      BY <1>1, <1>2, <1>9 DEF LightsInv
    <3>2. open[x][n] \in 0..MaxOpen /\ MaxOpen \in Nat
      BY <1>1, OpenTypes, Constants
    <3> QED BY <1>2, <1>5, <2>1, <2>2, <3>1, <3>2
  <2>4. MeshInv'
    BY <1>1, <1>2, <1>5, <1>9 DEF MeshInv, InProgress, Shows, HistoryGrows
  <2>5. ASSUME x \notin overlaid', page'.started PROVE TapeOf(x)'
    <3>1. TapeOf(x)
      BY <1>1, <1>2, <1>5, <1>9, <2>5 DEF TapeInv, HistoryGrows
    <3> QED BY <1>2, <1>5, <3>1 DEF TapeOf
  <2> QED BY <1>2, <1>5, <1>6, <1>9, <2>1, <2>3, <2>4, <2>5, StillShown
<1> QED BY <1>8, <1>9

LEMMA LeavePage ==
    ASSUME Inv, NEW x \in Runs, NEW node \in Nodes, NEW how \in Exits,
           Leave(x, node, how)
    PROVE  PageTypes' /\ PageInv'
<1> DEFINE e == Visit(how, x, node)
<1>1. RunTypes /\ RunInv /\ page \in Pages /\ PageTypes /\ ShownInv /\ LightsInv /\ MeshInv /\ TapeInv
  BY DEF Inv, PageInv, PageTypes
<1>2. /\ RunTypes' /\ SameRuns(x) /\ HistoryGrows /\ stage[x] = "running" /\ stage'[x] = "running"
      /\ inPass'[x] = inPass[x] /\ drawn'[x] = drawn[x] /\ passes'[x] = passes[x]
      /\ passes[x] \in PassNumbers /\ open[x] \in [Nodes -> Nat]
      /\ \A n \in Nodes : open'[x][n] = IF n = node /\ open[x][n] > 0 THEN open[x][n] - 1 ELSE open[x][n]
  BY <1>1, LeaveRuns DEF RunsMove
<1>3. e \in Events /\ e.type = how /\ e.run = x /\ e.node = node /\ e.pass = passes[x]
  BY <1>1, VisitFields DEF Kinds, Exits
<1>4. page' = OnNodeEnd(page, e) \/ page' = OnNodeError(page, e)
  BY <1>3, HandlesKinds DEF Leave, Told, Publish, Exits
<1> HIDE DEF e
<1>5. /\ page' \in Pages
      /\ ~CurrentRun(page, e) \/ page.ended => page' = page
      /\ page'.run = page.run /\ page'.nodes = page.nodes /\ page'.started = page.started
      /\ page'.ended = page.ended /\ page'.current = page.current
  BY <1>1, <1>2, <1>3, <1>4, NodeLeftShown
<1>6. PageTypes'
  BY <1>5 DEF PageTypes
<1>7. page.run \in Runs /\ page.run # NoRun
  BY <1>1, <1>2, SomeRunShown
<1>8. CASE page.run # x
  <2>1. page' = page
    BY <1>3, <1>5, <1>7, <1>8 DEF CurrentRun
  <2> QED BY <1>2, <1>6, <1>7, <1>8, <2>1, Unmoved
<1>9. CASE page.run = x
  <2>1. page.ended = FALSE
    BY <1>1, <1>2, <1>9 DEF ShownInv, Pages
  <2>2. CurrentRun(page, e)
    BY <1>3, <1>9 DEF CurrentRun
  <2>3. LightsInv'
    <3> SUFFICES ASSUME page.started, NEW n \in Nodes
                 PROVE  /\ page'.status[n].active = open'[x][n]
                        /\ page'.status[n].state = "running" <=> open'[x][n] > 0
      BY <1>2, <1>5, <1>9 DEF LightsInv
    <3>1. /\ page.status[n].active = open[x][n]
          /\ page.status[n].state = "running" <=> open[x][n] > 0
      BY <1>1, <1>2, <1>9 DEF LightsInv
    <3>2. IF n = node
            THEN \E failed \in BOOLEAN : page'.status[n] = FinishInvocation(page.status[n], failed)
            ELSE page'.status[n] = page.status[n]
      BY <1>1, <1>2, <1>3, <1>4, <2>1, <2>2, NodeLeftShown
    <3>3. CASE n # node
      BY <1>2, <3>1, <3>2, <3>3
    <3>4. CASE n = node
      <4>1. PICK failed \in BOOLEAN : page'.status[n] = FinishInvocation(page.status[n], failed)
        BY <3>2, <3>4
      <4>2. page.status[n] \in NodeStatus /\ open[x][n] \in Nat
        BY <1>1, <1>2 DEF Pages
      <4>3. /\ page'.status[n].active = IF page.status[n].active > 0 THEN page.status[n].active - 1 ELSE 0
            /\ page'.status[n].state = "running" <=> page'.status[n].active > 0
        BY <4>1, <4>2, StatusFacts
      <4> QED BY <1>2, <3>1, <3>4, <4>2, <4>3
    <3> QED BY <3>3, <3>4
  <2>4. MeshInv'
    BY <1>1, <1>2, <1>5, <1>9 DEF MeshInv, InProgress, Shows, HistoryGrows
  <2>5. ASSUME x \notin overlaid', page'.started PROVE TapeOf(x)'
    <3>1. TapeOf(x)
      BY <1>1, <1>2, <1>5, <1>9, <2>5 DEF TapeInv, HistoryGrows
    <3>2. \A i \in PassNumbers :
             /\ i # passes[x] => page'.passes[i] = page.passes[i]
             /\ page.passes[i] # "none" => page'.passes[i] # "none"
             /\ page.passes[i] # "none" /\ page'.passes[i] = "run" => page.passes[i] = "run"
      BY <1>1, <1>2, <1>3, <1>4, NodeLeftShown
    <3>3. page.passes[passes[x]] # "none"
      <4>1. passes[x] \in (passes[x] - MaxCols + 1)..passes[x]
        BY <1>2, Constants
      <4> QED BY <1>2, <3>1, <4>1 DEF TapeOf
    <3>4. \A i \in PassNumbers :
              /\ page'.passes[i] # "none" <=> page.passes[i] # "none"
              /\ page'.passes[i] = "run" => page.passes[i] = "run"
      BY <3>2, <3>3
    <3> QED BY <1>2, <1>5, <3>1, <3>4 DEF TapeOf
  <2> QED BY <1>2, <1>5, <1>6, <1>9, <2>1, <2>3, <2>4, <2>5, StillShown
<1> QED BY <1>8, <1>9

LEMMA DiscoverPage ==
    ASSUME Inv, NEW x \in Runs, Discover(x)
    PROVE  PageTypes' /\ PageInv'
<1> DEFINE e == Topology(x, {Stage})
<1>0. {Stage} \in SUBSET Nodes /\ Nodes = {Wrapper, Stage} /\ x # NoRun
  BY Constants
<1>1. RunTypes /\ RunInv /\ page \in Pages /\ PageTypes /\ ShownInv /\ LightsInv /\ MeshInv /\ TapeInv
  BY DEF Inv, PageInv, PageTypes
<1>2. /\ RunTypes' /\ SameRuns(x) /\ HistoryGrows /\ stage[x] = "running" /\ stage'[x] = "running"
      /\ inPass'[x] = inPass[x] /\ drawn'[x] = {Stage} /\ passes'[x] = passes[x]
      /\ \A n \in Nodes : open'[x][n] = IF n = Wrapper THEN 0 ELSE open[x][n]
  BY <1>1, DiscoverRuns DEF RunsMove
<1>3. e \in Events /\ e.type = "graph.topology" /\ e.run = x /\ e.nodes = {Stage}
  BY <1>0, TopologyFields
<1>4. page' = OnTopology(page, e)
  BY <1>3, HandlesKinds DEF Discover, Publish
<1> HIDE DEF e
<1>5. /\ page' \in Pages
      /\ LiveForeign(page, e) => page' = page
      /\ ~LiveForeign(page, e) =>
           /\ page'.run = x /\ page'.nodes = {Stage}
           /\ page'.started = Shown(page, e).started /\ page'.ended = Shown(page, e).ended
           /\ page'.current = Shown(page, e).current /\ page'.passes = Shown(page, e).passes
           /\ \A n \in Nodes : page'.status[n] = IF n \in {Stage} THEN Shown(page, e).status[n] ELSE Idle
  BY <1>1, <1>3, <1>4, TopologyShown
<1>6. PageTypes'
  BY <1>5 DEF PageTypes
<1>7. CASE LiveForeign(page, e)
  <2>1. page.run \in Runs /\ page.run # x
    BY <1>1, <1>3, <1>7, LiveIsRunning
  <2> QED BY <1>2, <1>5, <1>6, <1>7, <2>1, Unmoved
<1>8. CASE ~LiveForeign(page, e)
  <2>1. CASE page.run = x
    <3>1. Shown(page, e) = page
      BY <1>1, <1>3, <2>1, ShownFacts
    <3>2. /\ page'.run = x /\ page'.nodes = {Stage} /\ page'.started = page.started
          /\ page'.ended = page.ended /\ page'.current = page.current /\ page'.passes = page.passes
          /\ \A n \in Nodes : page'.status[n] = IF n \in {Stage} THEN page.status[n] ELSE Idle
      BY <1>5, <1>8, <3>1
    <3>3. page.ended = FALSE
      BY <1>1, <1>2, <2>1 DEF ShownInv, Pages
    <3>4. LightsInv'
      <4> SUFFICES ASSUME page.started, NEW n \in Nodes
                   PROVE  /\ page'.status[n].active = open'[x][n]
                          /\ page'.status[n].state = "running" <=> open'[x][n] > 0
        BY <1>2, <3>2 DEF LightsInv
      <4>1. /\ page.status[n].active = open[x][n]
            /\ page.status[n].state = "running" <=> open[x][n] > 0
        BY <1>1, <1>2, <2>1 DEF LightsInv
      <4>2. CASE n = Stage
        <5>1. open'[x][n] = open[x][n]
          BY <1>2, <4>2, DistinctNodes
        <5> QED BY <3>2, <4>1, <4>2, <5>1
      <4>3. CASE n # Stage
        BY <1>0, <1>2, <3>2, <4>3, StatusFacts
      <4> QED BY <4>2, <4>3
    <3>5. MeshInv'
      BY <1>2, <3>2 DEF MeshInv, InProgress, Shows
    <3>6. ASSUME x \notin overlaid', page'.started PROVE TapeOf(x)'
      <4>1. TapeOf(x)
        BY <1>1, <1>2, <2>1, <3>2, <3>6 DEF TapeInv, HistoryGrows
      <4> QED BY <1>2, <3>2, <4>1 DEF TapeOf
    <3> QED BY <1>2, <1>6, <3>2, <3>3, <3>4, <3>5, <3>6, StillShown
  <2>2. CASE page.run # x
    <3>1. page'.run = x /\ ~page'.started /\ page'.ended = FALSE
      BY <1>1, <1>3, <1>5, <1>8, <2>2, ShownFacts DEF Pages
    <3>2. LightsInv'
      BY <1>2, <3>1 DEF LightsInv
    <3>3. MeshInv'
      BY <1>2, <3>1 DEF MeshInv, InProgress, Shows
    <3> QED BY <1>2, <1>6, <3>1, <3>2, <3>3, StillShown
  <2> QED BY <2>1, <2>2
<1> QED BY <1>7, <1>8

LEMMA EndRunPage ==
    ASSUME Inv, NEW x \in Runs, EndRun(x)
    PROVE  PageTypes' /\ PageInv'
<1> DEFINE e == Event("run.end", x)
<1>1. RunTypes /\ RunInv /\ page \in Pages /\ PageTypes /\ ShownInv /\ AloneInv /\ TapeInv
  BY DEF Inv, PageInv, PageTypes
<1>2. /\ RunTypes' /\ SameRuns(x) /\ HistoryGrows /\ stage[x] = "running" /\ stage'[x] = "ended"
      /\ inPass'[x] = inPass[x] /\ passes'[x] = passes[x]
      /\ x \notin outlived' => x \notin outlived /\ \A y \in Runs : stage'[y] # "running"
  BY <1>1, EndRunRuns DEF RunsMove
<1>3. e \in Events /\ e.type = "run.end" /\ e.run = x
  BY EventFields DEF Kinds
<1>4. page' = OnRunEnd(page, e)
  BY <1>3, HandlesKinds DEF EndRun, Publish
<1> HIDE DEF e
<1>5. /\ page' \in Pages
      /\ x # page.run => page' = page
      /\ x = page.run =>
           /\ page'.run = x /\ page'.nodes = page.nodes /\ page'.started = page.started /\ page'.ended
           /\ page'.current = page.current /\ page'.passes = page.passes
  BY <1>1, <1>3, <1>4, RunEndShown
<1>6. PageTypes'
  BY <1>5 DEF PageTypes
<1>7. page.run \in Runs /\ page.run # NoRun
  BY <1>1, <1>2, SomeRunShown
<1>8. CASE page.run # x
  BY <1>2, <1>5, <1>6, <1>7, <1>8, Unmoved
<1>9. CASE page.run = x
  <2>1. /\ page'.run = x /\ page'.started = page.started /\ page'.ended
        /\ page'.current = page.current /\ page'.passes = page.passes
    BY <1>5, <1>9
  <2>2. ShownInv'
    BY <1>2, <1>7, <1>9, <2>1 DEF ShownInv
  <2>3. AloneInv'
    <3> SUFFICES ASSUME NEW r \in Runs, stage'[r] = "attaching", r \notin crossed' PROVE FALSE
      BY DEF AloneInv
    <3>1. r # x /\ stage[r] = "attaching" /\ r \notin crossed
      BY <1>2 DEF SameRuns, HistoryGrows
    <3> QED BY <1>1, <1>2, <3>1, NoneAlone
  <2>4. LightsInv' /\ MeshInv'
    BY <1>2, <2>1 DEF LightsInv, MeshInv, InProgress, Shows
  <2>5. ASSUME x \notin overlaid', page'.started PROVE TapeOf(x)'
    <3>1. TapeOf(x)
      BY <1>1, <1>2, <1>9, <2>1, <2>5 DEF TapeInv, HistoryGrows
    <3> QED BY <1>2, <2>1, <3>1 DEF TapeOf
  <2>6. TapeInv'
    BY <1>2, <2>1, <2>5 DEF TapeInv
  <2> QED BY <1>6, <2>2, <2>3, <2>4, <2>6 DEF PageInv
<1> QED BY <1>8, <1>9

-----------------------------------------------------------------------------
(* The invariant, and what a reader sees on the page.                       *)

LEMMA InitInv == Init => Inv
<1> SUFFICES ASSUME Init PROVE Inv
  OBVIOUS
<1>1. RunTypes
  BY Constants DEF Init, RunTypes
<1>2. PageTypes
  BY EmptyFacts DEF Init, PageTypes
<1>3. RunInv
  BY DEF Init, RunInv
<1>4. page.run = NoRun /\ ~page.started /\ ~page.ended /\ \A r \in Runs : stage[r] = "new" /\ page.run # r
  BY EmptyFacts, Constants DEF Init
<1>5. PageInv
  BY <1>4 DEF PageInv, ShownInv, AloneInv, LightsInv, MeshInv, TapeInv, InProgress, Shows
<1> QED BY <1>1, <1>2, <1>3, <1>5 DEF Inv

LEMMA NextInv == Inv /\ [Next]_vars => Inv'
<1> SUFFICES ASSUME Inv, [Next]_vars PROVE Inv'
  OBVIOUS
<1>0. RunTypes /\ RunInv
  BY DEF Inv
<1>1. ASSUME NEW r \in Runs, NEW nodes \in {{Wrapper}, {Stage}}, AttachTopology(r, nodes) PROVE Inv'
  <2>1. nodes \in SUBSET Nodes
    BY Constants
  <2> QED BY <1>0, <1>1, <2>1, AttachTopologyRuns, AttachTopologyPage DEF Inv, RunsMove
<1>2. ASSUME NEW r \in Runs, AttachStart(r) PROVE Inv'
  BY <1>0, <1>2, AttachStartRuns, AttachStartPage DEF Inv, RunsMove
<1>3. ASSUME NEW r \in Runs, StartPass(r) PROVE Inv'
  BY <1>0, <1>3, StartPassRuns, StartPassPage DEF Inv, RunsMove
<1>4. ASSUME NEW r \in Runs, Discover(r) PROVE Inv'
  BY <1>0, <1>4, DiscoverRuns, DiscoverPage DEF Inv, RunsMove
<1>5. ASSUME NEW r \in Runs, EndRun(r) PROVE Inv'
  BY <1>0, <1>5, EndRunRuns, EndRunPage DEF Inv, RunsMove
<1>6. ASSUME NEW r \in Runs, NEW status \in {"ok", "error"}, EndPass(r, status) PROVE Inv'
  BY <1>0, <1>6, EndPassRuns, EndPassPage DEF Inv, RunsMove
<1>7. ASSUME NEW r \in Runs, NEW node \in Nodes, Enter(r, node) PROVE Inv'
  BY <1>0, <1>7, EnterRuns, EnterPage DEF Inv, RunsMove
<1>8. ASSUME NEW r \in Runs, NEW node \in Nodes, NEW how \in Exits, Leave(r, node, how)
      PROVE  Inv'
  BY <1>0, <1>8, LeaveRuns, LeavePage DEF Inv, RunsMove
<1>9. CASE UNCHANGED published
  <2>1. /\ stage' = stage /\ drawn' = drawn /\ open' = open /\ passes' = passes /\ inPass' = inPass
        /\ crossed' = crossed /\ outlived' = outlived /\ overlaid' = overlaid /\ page' = page
    BY <1>9 DEF published, history
  <2>2. RunTypes' /\ PageTypes' /\ RunInv'
    BY <2>1 DEF Inv, RunTypes, PageTypes, RunInv
  <2>3. ShownInv' /\ AloneInv' /\ LightsInv' /\ MeshInv'
    BY <2>1 DEF Inv, PageInv, ShownInv, AloneInv, LightsInv, MeshInv, InProgress, Shows
  <2>4. TapeInv'
    BY <2>1 DEF Inv, PageInv, TapeInv, TapeOf
  <2> QED BY <2>2, <2>3, <2>4 DEF Inv, PageInv
<1>10. ASSUME NEW r \in Runs, NEW how, NEW node, Look(r, how, node) PROVE Inv'
  BY <1>9, <1>10 DEF Look
<1>11. CASE UNCHANGED vars
  BY <1>9, <1>11 DEF vars
<1> QED BY <1>1, <1>2, <1>3, <1>4, <1>5, <1>6, <1>7, <1>8, <1>10, <1>11 DEF Next

(* Inv is an invariant: of the runs, and of what the page knows of them.    *)
THEOREM PageCorrect == Spec => []Inv
<1>1. Init => Inv
  BY InitInv
<1>2. Inv /\ [Next]_vars => Inv'
  BY NextInv
<1> QED BY <1>1, <1>2, PTL DEF Spec

(* RunningIsTrue, for any number of overlapping runs: while the shown run   *)
(* is in progress, a node of the mesh is lit exactly while it has an        *)
(* execution under way, and the mesh is the run's own unless its attach()   *)
(* overlapped another run.                                                 *)
THEOREM LightsCorrect == Spec => []RunningIsTrue
<1>1. Inv => RunningIsTrue
  <2> SUFFICES ASSUME Inv, NEW r \in Runs, InProgress(r)
               PROVE  /\ r \notin crossed => page.nodes = drawn[r]
                      /\ \A n \in page.nodes :
                            /\ page.status[n].active = open[r][n]
                            /\ page.status[n].state = "running" <=> open[r][n] > 0
    BY DEF RunningIsTrue
  <2>1. r \notin crossed => page.nodes = drawn[r]
    BY DEF Inv, PageInv, MeshInv
  <2>2. page.nodes \subseteq Nodes
    BY DEF Inv, PageTypes, Pages
  <2>3. \A n \in Nodes :
            /\ page.status[n].active = open[r][n]
            /\ page.status[n].state = "running" <=> open[r][n] > 0
    BY DEF Inv, PageInv, LightsInv, InProgress, Shows
  <2> QED BY <2>1, <2>2, <2>3
<1> QED BY <1>1, PageCorrect, PTL

(* TapeIsTrue, for any number of overlapping runs and any MAX_COLS: the     *)
(* tape shows the last MaxCols passes of the shown run, those behind the    *)
(* last one closed, and no pass of another run.                             *)
THEOREM TapeCorrect == Spec => []TapeIsTrue
<1>1. Inv => TapeIsTrue
  <2> SUFFICES ASSUME Inv, NEW r \in Runs, Shows(r), r \notin overlaid,
                      stage[r] = "running" \/ r \notin outlived
               PROVE  TapeOf(r)
    BY DEF TapeIsTrue, TapeOf
  <2>1. page.run = r /\ page.started /\ stage[r] \in {"running", "ended"}
    BY DEF Inv, PageInv, ShownInv, Shows
  <2> QED BY <2>1 DEF Inv, PageInv, TapeInv
<1> QED BY <1>1, PageCorrect, PTL

-----------------------------------------------------------------------------
(* The page of a tab opened now, for any ring and any history.             *)
(*                                                                         *)
(* An invariant cannot speak of the events a fresh tab handles one by one: *)
(* they are in the past.  TraceInv says that a history explains the state: *)
(* a moment per event, each the outcome of the one before, and what the    *)
(* other invariants say holds at all of them.  Then the two pages are      *)
(* compared event by event along that history, by induction up to its      *)
(* length.                                                                 *)

-----------------------------------------------------------------------------
(* Induction up to a bound, for a set of numbers.                          *)
LEMMA UpTo ==
    ASSUME NEW N \in Nat, NEW T, 0 \in T, \A i \in 1..N : i - 1 \in T => i \in T
    PROVE  \A i \in 0..N : i \in T
<1> DEFINE bad == {i \in Nat : i <= N /\ i \notin T}
<1> SUFFICES ASSUME bad # {} PROVE FALSE
  OBVIOUS
<1>1. PICK m \in bad : \A x \in bad : <<x, m>> \notin OpToRel(<, Nat)
  BY NatLessThanWellFounded, WFMin
<1>2. m # 0 /\ m \in 1..N /\ m \notin T
  OBVIOUS
<1>3. m - 1 \in Nat /\ m - 1 < m /\ m - 1 <= N /\ m - 1 \notin T
  BY <1>2
<1>4. <<m - 1, m>> \in Nat \X Nat /\ <<m - 1, m>>[1] < <<m - 1, m>>[2]
  BY <1>3
<1> QED BY <1>1, <1>3, <1>4 DEF OpToRel

(* A page that handles the events at the positions of K, and no others.    *)
FoldOf(f, es, K) ==
    /\ f[0] = EmptyPage
    /\ \A n \in 1..Len(es) : f[n] = IF n \in K THEN Handle(f[n - 1], es[n]) ELSE f[n - 1]

(* The recursive function in FreshPage has a value.                        *)
LEMMA FreshFold ==
    ASSUME Len(events) \in Nat
    PROVE  \E f : FoldOf(f, events, {i \in 1..Len(events) : InReplay(i)}) /\ FreshPage = f[Len(events)]
<1> DEFINE N == Len(events)
           step(f, n) == IF n = 0 THEN EmptyPage
                         ELSE IF InReplay(n) THEN Handle(f[n - 1], events[n]) ELSE f[n - 1]
           next(v, n) == IF InReplay(n) THEN Handle(v, events[n]) ELSE v
           P(f) == f = [n \in 0..N |-> step(f, n)]
           T == {m \in Nat : \E f : f = [n \in 0..m |-> IF n = 0 THEN EmptyPage ELSE next(f[n - 1], n)]}
<1>1. 0 \in T
  <2>1. [n \in 0..0 |-> EmptyPage] = [n \in 0..0 |-> IF n = 0 THEN EmptyPage ELSE next([m \in 0..0 |-> EmptyPage][n - 1], n)]
    <3> HIDE DEF next
    <3> QED OBVIOUS
  <2> QED BY <2>1
<1>2. ASSUME NEW m \in 1..N, m - 1 \in T PROVE m \in T
  <2> HIDE DEF next
  <2>1. PICK f : f = [n \in 0..(m - 1) |-> IF n = 0 THEN EmptyPage ELSE next(f[n - 1], n)]
    BY <1>2
  <2> DEFINE g == [n \in 0..m |-> IF n = m THEN next(f[m - 1], m) ELSE f[n]]
  <2>2. g = [n \in 0..m |-> IF n = 0 THEN EmptyPage ELSE next(g[n - 1], n)]
    <3>1. \A n \in 0..m : g[n] = IF n = 0 THEN EmptyPage ELSE next(g[n - 1], n)
      <4> SUFFICES ASSUME NEW n \in 0..m PROVE g[n] = IF n = 0 THEN EmptyPage ELSE next(g[n - 1], n)
        OBVIOUS
      <4>1. CASE n = 0
        BY <2>1, <4>1
      <4>2. CASE n = m
        BY <2>1, <4>2
      <4>3. CASE n \in 1..(m - 1)
        <5>1. n - 1 \in 0..(m - 1) /\ n \in 0..(m - 1) /\ n # 0 /\ n # m /\ n - 1 # m /\ n - 1 \in 0..m
          BY <4>3
        <5>2. f[n] = next(f[n - 1], n)
          BY <2>1, <5>1
        <5> QED BY <5>1, <5>2
      <4> QED BY <4>1, <4>2, <4>3
    <3> QED BY <3>1
  <2>3. m \in Nat
    OBVIOUS
  <2> HIDE DEF g
  <2> QED BY <2>2, <2>3
<1>3. N \in T
  <2> HIDE DEF T
  <2>1. \A i \in 1..N : i - 1 \in T => i \in T
    BY <1>2
  <2>2. N \in Nat /\ N \in 0..N
    OBVIOUS
  <2> HIDE DEF N
  <2>3. \A i \in 0..N : i \in T
    BY <1>1, <2>1, <2>2, UpTo
  <2> QED BY <2>2, <2>3
<1>4. \E f : P(f)
  <2> DEFINE Q(f, m) == f = [n \in 0..m |-> IF n = 0 THEN EmptyPage ELSE next(f[n - 1], n)]
  <2>1. \A m \in T : \E f : Q(f, m)
    <3> HIDE DEF next
    <3> QED OBVIOUS
  <2>2. PICK f : Q(f, N)
    <3> HIDE DEF Q, T
    <3> QED BY <1>3, <2>1
  <2>3. P(f)
    BY <2>2
  <2> HIDE DEF P
  <2> QED BY <2>3
<1> DEFINE f == CHOOSE g : P(g)
<1>5. P(f)
  <2> HIDE DEF P
  <2> QED BY <1>4
<1>6. FreshPage = f[N]
  BY DEF FreshPage
<1>7. FoldOf(f, events, {i \in 1..N : InReplay(i)})
  <2> HIDE DEF f
  <2>1. f[0] = EmptyPage
    BY <1>5
  <2>2. ASSUME NEW n \in 1..N
        PROVE  f[n] = IF n \in {i \in 1..N : InReplay(i)} THEN Handle(f[n - 1], events[n]) ELSE f[n - 1]
    <3>1. n \in 0..N /\ n # 0
      OBVIOUS
    <3> HIDE DEF N
    <3>2. f[n] = step(f, n)
      BY <1>5, <3>1
    <3> QED BY <3>1, <3>2
  <2> QED BY <2>1, <2>2 DEF FoldOf
<1> QED BY <1>6, <1>7
-----------------------------------------------------------------------------
(* The moments of a behaviour: h[i] is the state after i events.           *)

Moments == [stage : [Runs -> {"new", "attaching", "running", "ended"}],
            open : [Runs -> [Nodes -> 0..MaxOpen]],
            page : Pages]
Now == [stage |-> stage, open |-> open, page |-> page]

\* What event e makes of moment s
Attaches(s, e, t) ==
    /\ e.type = "graph.topology" /\ s.stage[e.run] = "new"
    /\ t.stage = [s.stage EXCEPT ![e.run] = "attaching"] /\ t.open = s.open
Discovers(s, e, t) ==
    /\ e.type = "graph.topology" /\ s.stage[e.run] = "running" /\ e.nodes = {Stage}
    /\ t.stage = s.stage /\ t.open = [s.open EXCEPT ![e.run][Wrapper] = 0]
Starts(s, e, t) ==
    /\ e.type = "run.start" /\ s.stage[e.run] = "attaching"
    /\ t.stage = [s.stage EXCEPT ![e.run] = "running"] /\ t.open = s.open
Ends(s, e, t) ==
    /\ e.type = "run.end" /\ s.stage[e.run] = "running"
    /\ t.stage = [s.stage EXCEPT ![e.run] = "ended"]
    /\ t.open = [s.open EXCEPT ![e.run] = [n \in Nodes |-> 0]]
Iterates(s, e, t) ==
    /\ e.type \in {"iter.start", "iter.end"} /\ s.stage[e.run] = "running" /\ e.pass \in PassNumbers
    /\ t.stage = s.stage /\ t.open = s.open
Enters(s, e, t) ==
    /\ e.type = "node.start" /\ s.stage[e.run] = "running" /\ e.node \in Nodes
    /\ t.stage = s.stage /\ t.open = [s.open EXCEPT ![e.run][e.node] = @ + 1]
Leaves(s, e, t) ==
    /\ e.type \in {"node.end", "node.error"} /\ s.stage[e.run] = "running"
    /\ e.node \in Nodes /\ e.pass \in PassNumbers
    /\ t.stage = s.stage /\ t.open = [s.open EXCEPT ![e.run][e.node] = IF @ > 0 THEN @ - 1 ELSE 0]

StepAt(s, e, t) ==
    /\ t.page = Handle(s.page, e)
    /\ \/ Attaches(s, e, t) \/ Discovers(s, e, t) \/ Starts(s, e, t) \/ Ends(s, e, t)
       \/ Iterates(s, e, t) \/ Enters(s, e, t) \/ Leaves(s, e, t)

\* ShownInv at a moment
ShownAt(s) ==
    /\ s.page.run = NoRun => \A r \in Runs : s.stage[r] = "new"
    /\ \A r \in Runs : s.page.run = r =>
          /\ s.stage[r] # "new"
          /\ s.page.ended <=> s.stage[r] = "ended"
          /\ s.page.started => s.stage[r] \in {"running", "ended"}

\* A run whose attach() nothing crossed, as c says, finds an empty page and has it
\* until it ends.
UncrossedAt(s, c) ==
    \A r \in Runs \ c :
        /\ s.stage[r] = "attaching" =>
              /\ s.page = Reset(s.page, r)
              /\ \A x \in Runs \ {r} : s.stage[x] \notin {"attaching", "running"}
        /\ s.stage[r] = "running" => s.page.run = r /\ s.page.started
        /\ s.stage[r] = "ended" /\ s.page.run = r => s.page.started

TopologyAt(es, i) == es[i].type = "graph.topology"
LatestAt(es, i) ==
    /\ TopologyAt(es, i)
    /\ \A j \in 1..Len(es) : j > i /\ es[j].run = es[i].run => ~TopologyAt(es, j)

TraceOf(h, es, c) ==
    /\ es \in Seq(Events)
    /\ h \in [0..Len(es) -> Moments]
    /\ h[0].page = EmptyPage
    /\ \A i \in 1..Len(es) : StepAt(h[i - 1], es[i], h[i])
    /\ \A i \in 0..Len(es) : ShownAt(h[i]) /\ UncrossedAt(h[i], c)
    /\ \A i \in 0..Len(es) : \A j \in 1..i : h[i].stage[es[j].run] # "new"

\* A run that began has a last topology, and one that was drawn anew, as d says,
\* stays as it is.
LastTopologies(h, es, d) ==
    /\ \A r \in Runs : h[Len(es)].stage[r] # "new" =>
          \E i \in 1..Len(es) : es[i].run = r /\ LatestAt(es, i)
    /\ \A i \in 1..Len(es) : Discovers(h[i - 1], es[i], h[i]) =>
          LatestAt(es, i) /\ d[es[i].run] = {Stage}

TraceInv ==
    \E h : TraceOf(h, events, crossed) /\ h[Len(events)] = Now /\ LastTopologies(h, events, drawn)

(* One more event.                                                         *)
LEMMA TraceGrows ==
    ASSUME NEW h, NEW es, NEW c, NEW d, TraceOf(h, es, c), LastTopologies(h, es, d),
           NEW e \in Events, NEW t \in Moments, StepAt(h[Len(es)], e, t),
           NEW c2, c \subseteq c2, ShownAt(t), UncrossedAt(t, c2),
           NEW d2, \A r \in Runs \ {e.run} : d2[r] = d[r],
           Discovers(h[Len(es)], e, t) => d[e.run] # {Stage} /\ d2[e.run] = {Stage},
           e.type # "graph.topology" => d2[e.run] = d[e.run]
    PROVE  \E k : /\ TraceOf(k, Append(es, e), c2) /\ k[Len(es) + 1] = t
                  /\ LastTopologies(k, Append(es, e), d2)
<1> DEFINE N == Len(es)
           fs == Append(es, e)
           k == [i \in 0..(N + 1) |-> IF i = N + 1 THEN t ELSE h[i]]
<1>1. /\ N \in Nat /\ Len(fs) = N + 1 /\ fs \in Seq(Events)
      /\ \A i \in 1..N : fs[i] = es[i] /\ es[i] \in Events
      /\ fs[N + 1] = e
  BY DEF TraceOf
<1> HIDE DEF N, fs
<1>2. /\ \A i \in 0..N : k[i] = h[i] /\ h[i] \in Moments
      /\ k[N + 1] = t /\ k \in [0..(N + 1) -> Moments]
  <2>1. h \in [0..N -> Moments]
    BY DEF TraceOf, N
  <2>2. \A i \in 0..(N + 1) : i = N + 1 \/ i \in 0..N
    BY <1>1
  <2>3. N + 1 \in 0..(N + 1) /\ \A i \in 0..N : i \in 0..(N + 1) /\ i # N + 1
    BY <1>1
  <2> QED BY <2>1, <2>2, <2>3
<1> HIDE DEF k
<1>3. \A i \in 1..(N + 1) : i = N + 1 \/ (i \in 1..N /\ i \in 0..N /\ i - 1 \in 0..N)
  BY <1>1
<1>4. StepAt(k[(N + 1) - 1], fs[N + 1], k[N + 1])
  BY <1>1, <1>2 DEF N
<1>5. \A i \in 1..(N + 1) : StepAt(k[i - 1], fs[i], k[i])
  <2> SUFFICES ASSUME NEW i \in 1..N PROVE StepAt(k[i - 1], fs[i], k[i])
    BY <1>3, <1>4
  <2>1. StepAt(h[i - 1], es[i], h[i])
    BY DEF TraceOf, N
  <2> QED BY <1>1, <1>2, <1>3, <2>1
<1>6. \A i \in 0..(N + 1) : ShownAt(k[i]) /\ UncrossedAt(k[i], c2)
  <2>1. \A i \in 0..N : ShownAt(h[i]) /\ UncrossedAt(h[i], c2)
    BY DEF TraceOf, UncrossedAt, N
  <2> QED BY <1>1, <1>2, <2>1
<1>7. \A i \in 0..(N + 1) : \A j \in 1..i : k[i].stage[fs[j].run] # "new"
  <2>1. \A i \in 0..N : \A j \in 1..i : h[i].stage[es[j].run] # "new"
    BY DEF TraceOf, N
  <2>2. ASSUME NEW i \in 0..N, NEW j \in 1..i PROVE k[i].stage[fs[j].run] # "new"
    <3>1. j \in 1..N
      BY <1>1
    <3> QED BY <1>1, <1>2, <2>1, <3>1
  <2>3. ASSUME NEW r \in Runs, t.stage[r] = "new" PROVE h[N].stage[r] = "new" /\ r # e.run
    <3>1. h[N] \in Moments /\ e.run \in Runs
      BY <1>1, <1>2 DEF Events
    <3> QED BY <2>3, <3>1 DEF N, StepAt, Attaches, Discovers, Starts, Ends, Iterates, Enters, Leaves, Moments
  <2>4. ASSUME NEW j \in 1..(N + 1) PROVE k[N + 1].stage[fs[j].run] # "new"
    <3>1. CASE j = N + 1
      BY <1>1, <1>2, <2>3, <3>1 DEF Events
    <3>2. CASE j \in 1..N
      <4>1. N \in 0..N /\ es[j].run \in Runs /\ fs[j] = es[j]
        BY <1>1, <3>2 DEF Events
      <4> QED BY <1>2, <2>1, <2>3, <3>2, <4>1
    <3> QED BY <1>3, <3>1, <3>2
  <2> QED BY <1>1, <2>2, <2>4
<1>8. TraceOf(k, fs, c2)
  <2>1. k[0].page = EmptyPage
    BY <1>1, <1>2 DEF TraceOf
  <2> QED BY <1>1, <1>2, <1>5, <1>6, <1>7, <2>1 DEF TraceOf
<1>9. ASSUME NEW i \in 1..N, LatestAt(es, i), e.type # "graph.topology" \/ e.run # es[i].run
      PROVE  LatestAt(fs, i)
  <2> SUFFICES ASSUME NEW j \in 1..(N + 1), j > i, fs[j].run = fs[i].run PROVE ~TopologyAt(fs, j)
    BY <1>1, <1>9 DEF LatestAt, TopologyAt, N
  <2> QED BY <1>1, <1>3, <1>9 DEF LatestAt, TopologyAt, N
<1>10. TopologyAt(fs, N + 1) => LatestAt(fs, N + 1)
  BY <1>1 DEF LatestAt, TopologyAt
<1>11. ASSUME NEW r \in Runs, t.stage[r] # "new"
       PROVE  \E i \in 1..(N + 1) : fs[i].run = r /\ LatestAt(fs, i)
  <2>1. CASE e.type = "graph.topology" /\ e.run = r
    BY <1>1, <1>10, <2>1 DEF TopologyAt
  <2>2. CASE ~(e.type = "graph.topology" /\ e.run = r)
    <3>1. h[N] \in Moments /\ e.run \in Runs
      BY <1>1, <1>2 DEF Events
    <3>2. h[N].stage[r] # "new"
      BY <1>11, <2>2, <3>1 DEF N, StepAt, Attaches, Discovers, Starts, Ends, Iterates, Enters, Leaves, Moments
    <3>3. PICK i \in 1..N : es[i].run = r /\ LatestAt(es, i)
      BY <3>2 DEF LastTopologies, N
    <3> QED BY <1>1, <1>9, <2>2, <3>3
  <2> QED BY <2>1, <2>2
<1>12. ASSUME NEW i \in 1..(N + 1), Discovers(k[i - 1], fs[i], k[i])
       PROVE  LatestAt(fs, i) /\ d2[fs[i].run] = {Stage}
  <2>1. CASE i = N + 1
    <3>1. Discovers(h[N], e, t) /\ fs[i] = e
      BY <1>1, <1>2, <1>12, <2>1
    <3> QED BY <1>1, <1>10, <2>1, <3>1 DEF Discovers, TopologyAt, N
  <2>2. CASE i \in 1..N
    <3>1. Discovers(h[i - 1], es[i], h[i]) /\ fs[i] = es[i] /\ es[i].run \in Runs
      BY <1>1, <1>2, <1>3, <1>12, <2>2 DEF Events
    <3>2. LatestAt(es, i) /\ d[es[i].run] = {Stage}
      BY <2>2, <3>1 DEF LastTopologies, N
    <3>3. ~(e.type = "graph.topology" /\ e.run = es[i].run)
      <4> SUFFICES ASSUME e.type = "graph.topology", e.run = es[i].run PROVE FALSE
        OBVIOUS
      <4>1. ~Discovers(h[N], e, t)
        BY <3>2 DEF N
      <4>2. h[N].stage[e.run] = "new"
        BY <4>1 DEF N, StepAt, Attaches, Starts, Ends, Iterates, Enters, Leaves
      <4>3. N \in 0..N /\ i \in 1..N
        BY <1>1, <2>2
      <4> QED BY <3>1, <4>2, <4>3 DEF TraceOf, N
    <3> QED BY <1>9, <2>2, <3>1, <3>2, <3>3
  <2> QED BY <1>3, <2>1, <2>2
<1>13. LastTopologies(k, fs, d2)
  BY <1>1, <1>2, <1>11, <1>12 DEF LastTopologies
<1> QED BY <1>2, <1>8, <1>13 DEF fs, N
-----------------------------------------------------------------------------
(* The trace goes on with every step.                                      *)

(* Pages with the same fields are the same page.                           *)
LEMMA SamePage ==
    ASSUME NEW p \in Pages, NEW q \in Pages,
           p.run = q.run, p.started = q.started, p.ended = q.ended, p.nodes = q.nodes,
           p.status = q.status, p.passes = q.passes, p.current = q.current
    PROVE  p = q
BY DEF Pages

(* What reset() leaves.                                                    *)
LEMMA ResetFacts ==
    ASSUME NEW p \in Pages, NEW r \in Runs
    PROVE  LET q == Reset(p, r) IN
           /\ q \in Pages /\ q.run = r /\ ~q.started /\ ~q.ended /\ q.nodes = p.nodes
           /\ q.status = EmptyPage.status /\ q.passes = EmptyPage.passes /\ q.current = EmptyPage.current
<1>1. p.nodes \in SUBSET Nodes /\ EmptyPage \in Pages
  BY EmptyFacts DEF Pages
<1>2. Reset(p, r) = [EmptyPage EXCEPT !.run = r, !.nodes = p.nodes]
  BY DEF Reset
<1> QED BY <1>1, <1>2, EmptyFacts DEF Pages

(* Whose event leaves the page to whom.                                    *)
LEMMA RunAndStarted ==
    ASSUME NEW s \in Moments, NEW t \in Moments, NEW e \in Events, StepAt(s, e, t)
    PROVE  /\ s.page \in Pages /\ t.page \in Pages /\ e.run \in Runs
           /\ Attaches(s, e, t) \/ Discovers(s, e, t) =>
                IF LiveForeign(s.page, e) THEN t.page = s.page
                ELSE t.page.run = e.run /\ (e.run = s.page.run => t.page.started = s.page.started)
           /\ Starts(s, e, t) =>
                IF LiveForeign(s.page, e) THEN t.page = s.page
                ELSE t.page.run = e.run /\ t.page.started
           /\ Ends(s, e, t) => t.page.run = s.page.run /\ t.page.started = s.page.started
           /\ Iterates(s, e, t) \/ Enters(s, e, t) \/ Leaves(s, e, t) =>
                t.page.run = s.page.run /\ t.page.started = s.page.started
<1> DEFINE p == s.page
           q == t.page
<1>1. p \in Pages /\ q \in Pages /\ e.run \in Runs /\ q = Handle(p, e)
  BY DEF Moments, Events, StepAt
<1>2. Attaches(s, e, t) \/ Discovers(s, e, t) => q = OnTopology(p, e)
  BY <1>1, HandlesKinds DEF Attaches, Discovers
<1>3. Starts(s, e, t) => q = OnRunStart(p, e)
  BY <1>1, HandlesKinds DEF Starts
<1>4. Ends(s, e, t) => q = OnRunEnd(p, e)
  BY <1>1, HandlesKinds DEF Ends
<1>5. Iterates(s, e, t) => e.pass \in PassNumbers /\ (q = OnIterStart(p, e) \/ q = OnIterEnd(p, e))
  BY <1>1, HandlesKinds DEF Iterates
<1>6. Enters(s, e, t) => e.node \in Nodes /\ q = OnNodeStart(p, e)
  BY <1>1, HandlesKinds DEF Enters
<1>7. Leaves(s, e, t) => /\ e.node \in Nodes /\ e.pass \in PassNumbers
                         /\ q = OnNodeEnd(p, e) \/ q = OnNodeError(p, e)
  BY <1>1, HandlesKinds DEF Leaves
<1> HIDE DEF p, q
<1>8. Attaches(s, e, t) \/ Discovers(s, e, t) =>
        IF LiveForeign(p, e) THEN q = p ELSE q.run = e.run /\ (e.run = p.run => q.started = p.started)
  BY <1>1, <1>2, TopologyShown, ShownFacts
<1>9. Starts(s, e, t) => IF LiveForeign(p, e) THEN q = p ELSE q.run = e.run /\ q.started
  BY <1>1, <1>3, RunStartShown
<1>10. Ends(s, e, t) => q.run = p.run /\ q.started = p.started
  BY <1>1, <1>4, RunEndShown
<1>11. Iterates(s, e, t) => q.run = p.run /\ q.started = p.started
  BY <1>1, <1>5, IterStartShown, IterEndShown
<1>12. Enters(s, e, t) => q.run = p.run /\ q.started = p.started
  BY <1>1, <1>6, NodeStartShown
<1>13. Leaves(s, e, t) => q.run = p.run /\ q.started = p.started
  BY <1>1, <1>7, NodeLeftShown
<1> QED BY <1>1, <1>8, <1>9, <1>10, <1>11, <1>12, <1>13 DEF p, q

(* Who keeps the page at a moment is in progress, and the other way round. *)
LEMMA LiveAt ==
    ASSUME NEW s \in Moments, NEW e \in Events, ShownAt(s)
    PROVE  /\ LiveForeign(s.page, e) =>
                s.page.run \in Runs /\ s.page.run # e.run /\ s.stage[s.page.run] = "running"
           /\ \A r \in Runs : s.page.run = r /\ r # e.run /\ s.page.started /\ s.stage[r] = "running" =>
                LiveForeign(s.page, e)
BY Constants DEF ShownAt, LiveForeign, Moments, Pages

(* A topology that finds nobody in progress empties the page of others.    *)
LEMMA FirstTopology ==
    ASSUME NEW p \in Pages, NEW e \in Events, e.run # p.run, ~LiveForeign(p, e)
    PROVE  OnTopology(p, e) = Reset(OnTopology(p, e), e.run) /\ OnTopology(p, e).nodes = e.nodes
<1> DEFINE q == OnTopology(p, e)
           z == Reset(q, e.run)
<1>1. e.run \in Runs
  BY DEF Events
<1>2. Shown(p, e) = Reset(p, e.run)
  BY DEF Shown
<1>3. /\ q \in Pages /\ q.run = e.run /\ q.nodes = e.nodes
      /\ q.started = Shown(p, e).started /\ q.ended = Shown(p, e).ended
      /\ q.current = Shown(p, e).current /\ q.passes = Shown(p, e).passes
      /\ \A n \in Nodes : q.status[n] = IF n \in e.nodes THEN Shown(p, e).status[n] ELSE Idle
  BY TopologyShown
<1>4. /\ Shown(p, e).status = EmptyPage.status /\ Shown(p, e).passes = EmptyPage.passes
      /\ Shown(p, e).current = EmptyPage.current /\ Shown(p, e).started \in BOOLEAN
      /\ ~Shown(p, e).started /\ ~Shown(p, e).ended /\ Shown(p, e).ended \in BOOLEAN
  BY <1>1, <1>2, ResetFacts DEF Pages
<1> HIDE DEF q
<1>5. /\ z \in Pages /\ z.run = e.run /\ ~z.started /\ ~z.ended /\ z.nodes = q.nodes
      /\ z.status = EmptyPage.status /\ z.passes = EmptyPage.passes /\ z.current = EmptyPage.current
  BY <1>1, <1>3, ResetFacts
<1>6. \A n \in Nodes : q.status[n] = EmptyPage.status[n]
  BY <1>3, <1>4, EmptyFacts
<1>7. q.status = z.status
  BY <1>3, <1>5, <1>6 DEF Pages
<1> HIDE DEF z
<1>8. q.started = z.started /\ q.ended = z.ended
  BY <1>3, <1>4, <1>5 DEF Pages
<1>9. q = z
  BY <1>3, <1>4, <1>5, <1>7, <1>8, SamePage
<1> QED BY <1>3, <1>9 DEF q, z

(* A run that attached alone keeps the page until it ends.                 *)
LEMMA UncrossedStep ==
    ASSUME NEW s \in Moments, NEW t \in Moments, NEW e \in Events, StepAt(s, e, t),
           NEW c, NEW c2, c \subseteq c2, ShownAt(s), UncrossedAt(s, c),
           Attaches(s, e, t) => \A x \in Runs \ {e.run} :
                /\ s.stage[x] = "attaching" => x \in c2
                /\ s.stage[x] \in {"attaching", "running"} => e.run \in c2
    PROVE  UncrossedAt(t, c2)
<1> SUFFICES ASSUME NEW r \in Runs \ c2
             PROVE  /\ t.stage[r] = "attaching" =>
                          /\ t.page = Reset(t.page, r)
                          /\ \A x \in Runs \ {r} : t.stage[x] \notin {"attaching", "running"}
                    /\ t.stage[r] = "running" => t.page.run = r /\ t.page.started
                    /\ t.stage[r] = "ended" /\ t.page.run = r => t.page.started
  BY DEF UncrossedAt
<1>1. /\ s.stage[r] = "attaching" =>
            /\ s.page = Reset(s.page, r)
            /\ \A x \in Runs \ {r} : s.stage[x] \notin {"attaching", "running"}
      /\ s.stage[r] = "running" => s.page.run = r /\ s.page.started
      /\ s.stage[r] = "ended" /\ s.page.run = r => s.page.started
  BY DEF UncrossedAt
<1>2. s.page \in Pages /\ t.page \in Pages /\ e.run \in Runs /\ DOMAIN s.stage = Runs /\ r \in Runs
  BY DEF Moments, Events
<1>3. s.stage[r] = "attaching" => s.page.run = r
  BY <1>1, <1>2, ResetFacts
<1>4. CASE Attaches(s, e, t)
  <2>1. /\ t.stage[e.run] = "attaching" /\ s.stage[e.run] = "new"
        /\ \A x \in Runs \ {e.run} : t.stage[x] = s.stage[x]
    BY <1>2, <1>4 DEF Attaches
  <2>2. CASE r = e.run
    <3>1. ~LiveForeign(s.page, e) /\ s.page.run # e.run
      BY <1>2, <1>4, <2>1, <2>2, LiveAt DEF ShownAt
    <3>2. t.page = OnTopology(s.page, e)
      BY <1>4, HandlesKinds DEF StepAt, Attaches
    <3>3. t.page = Reset(t.page, r)
      BY <1>2, <2>2, <3>1, <3>2, FirstTopology
    <3> QED BY <1>4, <2>1, <2>2, <3>3
  <2>3. CASE r # e.run
    <3>1. t.stage[r] = s.stage[r] /\ s.stage[r] # "attaching"
      BY <1>4, <2>1, <2>3
    <3>2. s.stage[r] = "running" => LiveForeign(s.page, e)
      BY <1>1, <2>3, LiveAt
    <3> QED BY <1>1, <1>4, <2>3, <3>1, <3>2, RunAndStarted
  <2> QED BY <2>2, <2>3
<1>5. CASE Discovers(s, e, t)
  <2>1. t.stage = s.stage /\ s.stage[e.run] = "running"
    BY <1>5 DEF Discovers
  <2>2. t.stage[r] # "attaching"
    BY <1>1, <1>2, <2>1
  <2>3. r # e.run /\ s.stage[r] = "running" => LiveForeign(s.page, e)
    BY <1>1, LiveAt
  <2>4. r = e.run => ~LiveForeign(s.page, e)
    BY <1>1, <1>2, <2>1, LiveAt
  <2> QED BY <1>1, <1>2, <1>5, <2>1, <2>2, <2>3, <2>4, RunAndStarted
<1>6. CASE Starts(s, e, t)
  <2>1. /\ t.stage[e.run] = "running" /\ s.stage[e.run] = "attaching"
        /\ \A x \in Runs \ {e.run} : t.stage[x] = s.stage[x]
    BY <1>2, <1>6 DEF Starts
  <2>2. t.stage[r] # "attaching"
    BY <1>1, <1>2, <2>1
  <2>3. r # e.run /\ s.stage[r] = "running" => LiveForeign(s.page, e)
    BY <1>1, LiveAt
  <2>4. r = e.run => ~LiveForeign(s.page, e)
    BY <1>2, <1>3, <2>1, LiveAt
  <2> QED BY <1>1, <1>2, <1>6, <2>1, <2>2, <2>3, <2>4, RunAndStarted
<1>7. CASE Ends(s, e, t)
  <2>1. /\ t.stage[e.run] = "ended" /\ s.stage[e.run] = "running"
        /\ \A x \in Runs \ {e.run} : t.stage[x] = s.stage[x]
    BY <1>2, <1>7 DEF Ends
  <2>2. t.stage[r] # "attaching"
    BY <1>1, <1>2, <2>1
  <2> QED BY <1>1, <1>2, <1>7, <2>1, <2>2, RunAndStarted
<1>8. CASE Iterates(s, e, t) \/ Enters(s, e, t) \/ Leaves(s, e, t)
  <2>1. t.stage = s.stage /\ s.stage[e.run] = "running"
    BY <1>8 DEF Iterates, Enters, Leaves
  <2>2. t.stage[r] # "attaching"
    BY <1>1, <1>2, <2>1
  <2> QED BY <1>1, <1>2, <1>8, <2>1, <2>2, RunAndStarted
<1> QED BY <1>4, <1>5, <1>6, <1>7, <1>8 DEF StepAt

(* A step that publishes one event.                                        *)
LEMMA TraceStep ==
    ASSUME Inv, Inv', TraceInv, NEW e \in Events, events' = Append(events, e),
           StepAt(Now, e, Now'), crossed \subseteq crossed',
           Attaches(Now, e, Now') => \A x \in Runs \ {e.run} :
                /\ stage[x] = "attaching" => x \in crossed'
                /\ stage[x] \in {"attaching", "running"} => e.run \in crossed',
           \A r \in Runs \ {e.run} : drawn'[r] = drawn[r],
           Discovers(Now, e, Now') => drawn[e.run] # {Stage} /\ drawn'[e.run] = {Stage},
           e.type # "graph.topology" => drawn'[e.run] = drawn[e.run]
    PROVE  TraceInv'
<1>1. Now \in Moments /\ Now' \in Moments
  BY DEF Now, Moments, Inv, RunTypes, PageTypes
<1>2. ShownAt(Now) /\ ShownAt(Now')
  BY DEF ShownAt, Now, Inv, PageInv, ShownInv
<1>3. PICK h : TraceOf(h, events, crossed) /\ h[Len(events)] = Now /\ LastTopologies(h, events, drawn)
  BY DEF TraceInv
<1>4. Len(events) \in Nat /\ Len(events') = Len(events) + 1
  BY <1>3 DEF TraceOf
<1>5. UncrossedAt(Now, crossed)
  BY <1>3, <1>4 DEF TraceOf
<1>6. stage = Now.stage
  BY DEF Now
<1>7. UncrossedAt(Now', crossed')
  BY <1>1, <1>2, <1>5, <1>6, UncrossedStep
<1>8. \E k : /\ TraceOf(k, Append(events, e), crossed') /\ k[Len(events) + 1] = Now'
             /\ LastTopologies(k, Append(events, e), drawn')
  BY <1>1, <1>2, <1>3, <1>7, TraceGrows
<1> QED BY <1>4, <1>8 DEF TraceInv

(* The trace of no event.                                                  *)
LEMMA InitTrace == Init => TraceInv
<1> SUFFICES ASSUME Init PROVE TraceInv
  OBVIOUS
<1> DEFINE h == [i \in 0..0 |-> Now]
<1>1. Len(events) = 0 /\ events \in Seq(Events) /\ page = EmptyPage /\ \A r \in Runs : stage[r] = "new"
  BY DEF Init
<1>2. Inv
  BY InitInv
<1>3. Now \in Moments
  BY <1>2 DEF Now, Moments, Inv, RunTypes, PageTypes
<1>4. h[0] = Now /\ h \in [0..0 -> Moments]
  BY <1>3
<1> HIDE DEF h
<1>5. ShownAt(Now)
  BY <1>2 DEF ShownAt, Now, Inv, PageInv, ShownInv
<1>6. UncrossedAt(Now, crossed)
  BY <1>1 DEF UncrossedAt, Now
<1>7. Now.page = EmptyPage
  BY <1>1 DEF Now
<1>8. TraceOf(h, events, crossed)
  BY <1>1, <1>4, <1>5, <1>6, <1>7 DEF TraceOf
<1>9. LastTopologies(h, events, drawn)
  BY <1>1, <1>4 DEF LastTopologies, Now
<1> QED BY <1>1, <1>4, <1>8, <1>9 DEF TraceInv

(* Every action publishes an event that explains it.                       *)
LEMMA NextTrace == Inv /\ TraceInv /\ [Next]_vars => TraceInv'
<1> SUFFICES ASSUME Inv, TraceInv, [Next]_vars PROVE TraceInv'
  OBVIOUS
<1>0. Inv' /\ RunTypes /\ RunInv /\ RunTypes' /\ Nodes = {Wrapper, Stage}
  BY NextInv, Constants DEF Inv
<1>1. Now.stage = stage /\ Now.open = open /\ Now.page = page
  BY DEF Now
<1>2. (Now').stage = stage' /\ (Now').open = open' /\ (Now').page = page'
  BY DEF Now
<1>3. ASSUME NEW r \in Runs, NEW nodes \in {{Wrapper}, {Stage}}, AttachTopology(r, nodes) PROVE TraceInv'
  <2> DEFINE e == Topology(r, nodes)
  <2>1. e \in Events /\ e.type = "graph.topology" /\ e.run = r
    BY <1>0, TopologyFields
  <2>2. events' = Append(events, e) /\ page' = Handle(page, e)
    BY <1>3 DEF AttachTopology, Publish
  <2> HIDE DEF e
  <2>3. Attaches(Now, e, Now')
    BY <1>1, <1>2, <1>3, <2>1 DEF Attaches, AttachTopology
  <2>4. ~Discovers(Now, e, Now')
    BY <2>3 DEF Attaches, Discovers
  <2>5. \A y \in Runs \ {r} : drawn'[y] = drawn[y]
    BY <1>0, <1>3 DEF AttachTopology, RunTypes
  <2>6. /\ crossed \subseteq crossed'
        /\ \A x \in Runs \ {r} :
              /\ stage[x] = "attaching" => x \in crossed'
              /\ stage[x] \in {"attaching", "running"} => r \in crossed'
    BY <1>3 DEF AttachTopology, Others
  <2> QED BY <1>0, <1>1, <1>2, <2>1, <2>2, <2>3, <2>4, <2>5, <2>6, TraceStep DEF StepAt
<1>4. ASSUME NEW r \in Runs, AttachStart(r) PROVE TraceInv'
  <2> DEFINE e == Event("run.start", r)
  <2>1. e \in Events /\ e.type = "run.start" /\ e.run = r
    BY EventFields DEF Kinds
  <2>2. events' = Append(events, e) /\ page' = Handle(page, e)
    BY <1>4 DEF AttachStart, Publish
  <2> HIDE DEF e
  <2>3. Starts(Now, e, Now') /\ drawn' = drawn /\ crossed' = crossed
    BY <1>1, <1>2, <1>4, <2>1 DEF Starts, AttachStart, history
  <2> QED BY <1>0, <1>1, <1>2, <2>1, <2>2, <2>3, TraceStep DEF StepAt, Attaches, Discovers
<1>5. ASSUME NEW r \in Runs, StartPass(r) PROVE TraceInv'
  <2> DEFINE e == Pass("iter.start", r, "none")
  <2>0. passes'[r] \in PassNumbers /\ passes'[r] \in 0..MaxPasses
    BY <1>0, <1>5, StartPassRuns, Constants
  <2>1. e \in Events /\ e.type = "iter.start" /\ e.run = r /\ e.pass \in PassNumbers
    BY <2>0, PassFields DEF Kinds
  <2>2. events' = Append(events, e) /\ page' = Handle(page, e)
    BY <1>5 DEF StartPass, Publish
  <2> HIDE DEF e
  <2>3. Iterates(Now, e, Now') /\ drawn' = drawn /\ crossed' = crossed
    BY <1>1, <1>2, <1>5, <2>1 DEF Iterates, StartPass
  <2> QED BY <1>0, <1>1, <1>2, <2>1, <2>2, <2>3, TraceStep DEF StepAt, Attaches, Discovers
<1>6. ASSUME NEW r \in Runs, NEW status \in {"ok", "error"}, EndPass(r, status) PROVE TraceInv'
  <2> DEFINE e == Pass("iter.end", r, status)
  <2>0. passes'[r] \in PassNumbers /\ passes'[r] \in 0..MaxPasses
    BY <1>0, <1>6, EndPassRuns, Constants
  <2>1. e \in Events /\ e.type = "iter.end" /\ e.run = r /\ e.pass \in PassNumbers
    BY <2>0, PassFields DEF Kinds
  <2>2. events' = Append(events, e) /\ page' = Handle(page, e)
    BY <1>6 DEF EndPass, Publish
  <2> HIDE DEF e
  <2>3. Iterates(Now, e, Now') /\ drawn' = drawn /\ crossed' = crossed
    BY <1>1, <1>2, <1>6, <2>1 DEF Iterates, EndPass, history
  <2> QED BY <1>0, <1>1, <1>2, <2>1, <2>2, <2>3, TraceStep DEF StepAt, Attaches, Discovers
<1>7. ASSUME NEW r \in Runs, NEW node \in Nodes, Enter(r, node) PROVE TraceInv'
  <2> DEFINE e == Visit("node.start", r, node)
  <2>1. e \in Events /\ e.type = "node.start" /\ e.run = r /\ e.node = node
    BY <1>0, VisitFields DEF Kinds
  <2>2. events' = Append(events, e) /\ page' = Handle(page, e) /\ stage[r] = "running"
    BY <1>0, <1>7, EnterRuns DEF Enter, Told, Publish
  <2> HIDE DEF e
  <2>3. Enters(Now, e, Now') /\ drawn' = drawn /\ crossed' = crossed
    BY <1>1, <1>2, <1>7, <2>1, <2>2 DEF Enters, Enter, Told, history
  <2> QED BY <1>0, <1>1, <1>2, <2>1, <2>2, <2>3, TraceStep DEF StepAt, Attaches, Discovers
<1>8. ASSUME NEW r \in Runs, NEW node \in Nodes, NEW how \in Exits, Leave(r, node, how)
      PROVE  TraceInv'
  <2> DEFINE e == Visit(how, r, node)
  <2>0. stage[r] = "running" /\ passes[r] \in PassNumbers
    BY <1>0, <1>8, LeaveRuns
  <2>1. e \in Events /\ e.type = how /\ e.run = r /\ e.node = node /\ e.pass \in PassNumbers
    BY <1>0, <2>0, VisitFields DEF Kinds, Exits
  <2>2. events' = Append(events, e) /\ page' = Handle(page, e)
    BY <1>8 DEF Leave, Told, Publish
  <2> HIDE DEF e
  <2>3. drawn' = drawn /\ crossed' = crossed /\ stage' = stage
    BY <1>8 DEF Leave, Told, history
  <2>4. open' = [open EXCEPT ![r][node] = IF @ > 0 THEN @ - 1 ELSE 0] /\ how \in {"node.end", "node.error"}
    BY <1>8 DEF Leave, Exits
  <2>5. Leaves(Now, e, Now')
    BY <1>1, <1>2, <2>0, <2>1, <2>3, <2>4 DEF Leaves
  <2> QED BY <1>0, <1>1, <1>2, <2>1, <2>2, <2>3, <2>4, <2>5, TraceStep DEF StepAt, Attaches, Discovers
<1>9. ASSUME NEW r \in Runs, Discover(r) PROVE TraceInv'
  <2> DEFINE e == Topology(r, {Stage})
  <2>1. e \in Events /\ e.type = "graph.topology" /\ e.run = r /\ e.nodes = {Stage}
    BY <1>0, TopologyFields
  <2>2. events' = Append(events, e) /\ page' = Handle(page, e) /\ stage[r] = "running" /\ drawn'[r] = {Stage}
    BY <1>0, <1>9, DiscoverRuns DEF Discover, Publish
  <2> HIDE DEF e
  <2>3. Discovers(Now, e, Now') /\ crossed' = crossed
    BY <1>1, <1>2, <1>9, <2>1, <2>2 DEF Discovers, Discover, history
  <2>4. ~Attaches(Now, e, Now')
    BY <2>3 DEF Attaches, Discovers
  <2>5. drawn[r] # {Stage}
    BY <1>9, DistinctNodes DEF Discover
  <2>6. \A y \in Runs \ {r} : drawn'[y] = drawn[y]
    BY <1>0, <1>9 DEF Discover, RunTypes
  <2> QED BY <1>0, <1>1, <1>2, <2>1, <2>2, <2>3, <2>4, <2>5, <2>6, TraceStep DEF StepAt
<1>10. ASSUME NEW r \in Runs, EndRun(r) PROVE TraceInv'
  <2> DEFINE e == Event("run.end", r)
  <2>1. e \in Events /\ e.type = "run.end" /\ e.run = r
    BY EventFields DEF Kinds
  <2>2. events' = Append(events, e) /\ page' = Handle(page, e)
    BY <1>10 DEF EndRun, Publish
  <2> HIDE DEF e
  <2>3. Ends(Now, e, Now') /\ drawn' = drawn /\ crossed' = crossed
    BY <1>1, <1>2, <1>10, <2>1 DEF Ends, EndRun
  <2> QED BY <1>0, <1>1, <1>2, <2>1, <2>2, <2>3, TraceStep DEF StepAt, Attaches, Discovers
<1>11. CASE UNCHANGED published
  <2>1. /\ stage' = stage /\ drawn' = drawn /\ open' = open
        /\ crossed' = crossed /\ page' = page /\ events' = events
    BY <1>11 DEF published, history
  <2>2. Now' = Now
    BY <2>1 DEF Now
  <2> QED BY <2>1, <2>2 DEF TraceInv
<1>12. ASSUME NEW r \in Runs, NEW how, NEW node, Look(r, how, node) PROVE TraceInv'
  BY <1>11, <1>12 DEF Look
<1>13. CASE UNCHANGED vars
  BY <1>11, <1>13 DEF vars
<1> QED BY <1>3, <1>4, <1>5, <1>6, <1>7, <1>8, <1>9, <1>10, <1>12, <1>13 DEF Next
-----------------------------------------------------------------------------
(* What no page of a tab shows, whichever events it missed.                *)

(* The counters of a node, and whether it is lit.                          *)
LEMMA StatusCounts ==
    /\ \A s \in NodeStatus :
          /\ Started(s).hits = s.hits
          /\ Stopped(s).active = 0 /\ Stopped(s).state # "running" /\ Stopped(s).hits = s.hits
    /\ \A s \in NodeStatus, failed \in BOOLEAN :
          LET f == FinishInvocation(s, failed)
          IN  /\ f.active = IF s.active > 0 THEN s.active - 1 ELSE 0
              /\ f.state = "running" <=> f.active > 0
              /\ f.hits = s.hits + 1
    /\ Idle.hits = 0
<1>1. ASSUME NEW s \in NodeStatus
      PROVE  /\ Started(s).hits = s.hits
             /\ Stopped(s).active = 0 /\ Stopped(s).state # "running" /\ Stopped(s).hits = s.hits
  BY DEF Started, Stopped, NodeStatus
<1>2. ASSUME NEW s \in NodeStatus, NEW failed \in BOOLEAN
      PROVE  LET f == FinishInvocation(s, failed)
             IN  /\ f.active = IF s.active > 0 THEN s.active - 1 ELSE 0
                 /\ f.state = "running" <=> f.active > 0
                 /\ f.hits = s.hits + 1
  <2> DEFINE left == IF s.active > 0 THEN s.active - 1 ELSE 0
             state == IF left > 0 THEN "running" ELSE IF s.failed \/ failed THEN "error" ELSE "done"
             bad == s.failed \/ failed
             f == FinishInvocation(s, failed)
  <2>1. f = [s EXCEPT !.active = left, !.failed = bad, !.hits = s.hits + 1, !.state = state]
    BY DEF FinishInvocation, NodeStatus
  <2>2. state = "running" <=> left > 0
    OBVIOUS
  <2> HIDE DEF f, left, state, bad
  <2>3. f.active = left /\ f.state = state /\ f.hits = s.hits + 1
    BY <2>1 DEF NodeStatus
  <2> QED BY <2>2, <2>3 DEF f, left
<1> QED BY <1>1, <1>2 DEF Idle

(* The end of the shown run stops its nodes.                               *)
LEMMA RunEndStatus ==
    ASSUME NEW p \in Pages, NEW e \in Events, e.run = p.run
    PROVE  \A n \in Nodes : OnRunEnd(p, e).status[n] = Stopped(p.status[n])
<1> DEFINE status == [n \in Nodes |-> Stopped(p.status[n])]
<1>1. OnRunEnd(p, e) = [p EXCEPT !.ended = TRUE, !.status = status]
  BY DEF OnRunEnd, Pages
<1> HIDE DEF status
<1>2. OnRunEnd(p, e).status = status
  BY <1>1 DEF Pages
<1> QED BY <1>2 DEF status

(* The start of an execution is one more of its node.                      *)
LEMMA NodeStartStatus ==
    ASSUME NEW p \in Pages, NEW e \in Events, e.node \in Nodes, CurrentRun(p, e), ~p.ended
    PROVE  \A n \in Nodes :
              OnNodeStart(p, e).status[n] = IF n = e.node THEN Started(p.status[n]) ELSE p.status[n]
<1> DEFINE new == Started(p.status[e.node])
           status == [p.status EXCEPT ![e.node] = new]
<1>1. OnNodeStart(p, e) = [p EXCEPT !.status = status]
  BY DEF OnNodeStart, Pages
<1>2. p.status \in [Nodes -> NodeStatus]
  BY DEF Pages
<1> HIDE DEF new
<1>3. \A n \in Nodes : status[n] = IF n = e.node THEN new ELSE p.status[n]
  BY <1>2
<1> HIDE DEF status
<1>4. OnNodeStart(p, e).status = status
  BY <1>1 DEF Pages
<1> QED BY <1>3, <1>4 DEF new

\* Of page g, after at most i events, the last of them at moment s
AllQuiet(g) == \A n \in Nodes : g.status[n].active = 0
SaneAt(g, s, i) ==
    /\ g \in Pages
    /\ \A n \in Nodes :
          /\ g.status[n].hits <= i
          /\ g.status[n].state = "running" => g.status[n].active > 0
    /\ g.ended => AllQuiet(g)
    /\ \A r \in Runs : g.run = r => \A n \in Nodes : g.status[n].active <= s.open[r][n]

(* A page of known statuses is sane.                                       *)
LEMMA SaneStep ==
    ASSUME NEW s \in Moments, NEW t \in Moments, NEW e \in Events, StepAt(s, e, t),
           NEW i \in Nat, NEW g, SaneAt(g, s, i)
    PROVE  /\ SaneAt(Handle(g, e), t, i + 1)
           /\ g.run \in Runs \/ e.type = "graph.topology" => Handle(g, e).run \in Runs
           /\ AllQuiet(g) /\ e.type = "graph.topology" => AllQuiet(Handle(g, e))
<1> DEFINE q == Handle(g, e)
<1>1. /\ g \in Pages /\ e.run \in Runs /\ NoRun \notin Runs /\ Nodes = {Wrapper, Stage} /\ MaxOpen \in Nat
      /\ g.status \in [Nodes -> NodeStatus]
  BY Constants DEF SaneAt, Pages, Events
<1>2. \A n \in Nodes : /\ g.status[n] \in NodeStatus /\ g.status[n].active \in Nat /\ g.status[n].hits \in Nat
                       /\ g.status[n].hits <= i
                       /\ g.status[n].state = "running" => g.status[n].active > 0
  BY <1>1 DEF NodeStatus, SaneAt
<1>3. \A r \in Runs : \A n \in Nodes : s.open[r][n] \in 0..MaxOpen /\ t.open[r][n] \in 0..MaxOpen
  <2>1. s.open \in [Runs -> [Nodes -> 0..MaxOpen]] /\ t.open \in [Runs -> [Nodes -> 0..MaxOpen]]
    BY DEF Moments
  <2>2. \A r \in Runs : s.open[r] \in [Nodes -> 0..MaxOpen] /\ t.open[r] \in [Nodes -> 0..MaxOpen]
    BY <2>1
  <2> QED BY <2>2
<1>4. \A r \in Runs : g.run = r => \A n \in Nodes : g.status[n].active <= s.open[r][n]
  BY DEF SaneAt
<1>5. g.ended => AllQuiet(g)
  BY DEF SaneAt
<1>6. CASE Attaches(s, e, t) \/ Discovers(s, e, t)
  <2>1. e.type = "graph.topology" /\ q = OnTopology(g, e)
    BY <1>6, HandlesKinds DEF Attaches, Discovers
  <2>2. /\ q \in Pages
        /\ LiveForeign(g, e) => q = g
        /\ ~LiveForeign(g, e) =>
             /\ q.run = e.run /\ q.ended = Shown(g, e).ended
             /\ \A n \in Nodes : q.status[n] = IF n \in e.nodes THEN Shown(g, e).status[n] ELSE Idle
    BY <1>1, <2>1, TopologyShown
  <2>3. /\ e.run = g.run => Shown(g, e) = g
        /\ e.run # g.run => ~Shown(g, e).ended /\ \A n \in Nodes : Shown(g, e).status[n] = Idle
    BY <1>1, ShownFacts
  <2>4. \A r \in Runs : \A n \in Nodes :
            t.open[r][n] = s.open[r][n] \/ (r = e.run /\ n = Wrapper /\ n \notin e.nodes)
    BY <1>1, <1>6, DistinctNodes DEF Attaches, Discovers, Moments
  <2>5. LiveForeign(g, e) => g.run \in Runs /\ g.run # e.run
    BY <1>1 DEF LiveForeign, Pages
  <2>6. Idle.active = 0 /\ Idle.hits = 0 /\ Idle.state # "running"
    BY StatusFacts, StatusCounts
  <2> HIDE DEF q
  <2>7. \A n \in Nodes : /\ q.status[n].hits <= i + 1
                         /\ q.status[n].state = "running" => q.status[n].active > 0
    BY <1>2, <2>2, <2>3, <2>6
  <2>8. q.ended => AllQuiet(q)
    BY <1>5, <2>2, <2>3, <2>6 DEF AllQuiet
  <2>9. ASSUME NEW r \in Runs, q.run = r, NEW n \in Nodes PROVE q.status[n].active <= t.open[r][n]
    <3>1. CASE LiveForeign(g, e)
      BY <1>4, <2>2, <2>4, <2>5, <2>9, <3>1
    <3>2. CASE ~LiveForeign(g, e) /\ e.run = g.run
      BY <1>3, <1>4, <2>2, <2>3, <2>4, <2>6, <2>9, <3>2
    <3>3. CASE ~LiveForeign(g, e) /\ e.run # g.run
      BY <1>3, <2>2, <2>3, <2>6, <2>9, <3>3
    <3> QED BY <3>1, <3>2, <3>3
  <2>10. q.run \in Runs /\ (AllQuiet(g) => AllQuiet(q))
    BY <1>1, <2>2, <2>3, <2>5, <2>6 DEF AllQuiet
  <2> QED BY <2>2, <2>7, <2>8, <2>9, <2>10 DEF SaneAt, q
<1>7. CASE Starts(s, e, t)
  <2>1. e.type = "run.start" /\ q = OnRunStart(g, e) /\ t.open = s.open
    BY <1>7, HandlesKinds DEF Starts
  <2>2. /\ q \in Pages
        /\ LiveForeign(g, e) => q = g
        /\ ~LiveForeign(g, e) => q.run = e.run /\ ~q.ended /\ q.status = Shown(g, e).status
    BY <1>1, <2>1, RunStartShown
  <2>3. /\ e.run = g.run => Shown(g, e) = g
        /\ e.run # g.run => \A n \in Nodes : Shown(g, e).status[n] = Idle
    BY <1>1, ShownFacts
  <2>4. LiveForeign(g, e) => g.run \in Runs
    BY <1>1 DEF LiveForeign, Pages
  <2>5. Idle.active = 0 /\ Idle.hits = 0 /\ Idle.state # "running"
    BY StatusFacts, StatusCounts
  <2> HIDE DEF q
  <2>6. \A n \in Nodes : /\ q.status[n].hits <= i + 1
                         /\ q.status[n].state = "running" => q.status[n].active > 0
    BY <1>2, <2>2, <2>3, <2>5
  <2>7. q.ended => AllQuiet(q)
    BY <1>5, <2>2
  <2>8. ASSUME NEW r \in Runs, q.run = r, NEW n \in Nodes PROVE q.status[n].active <= t.open[r][n]
    BY <1>3, <1>4, <2>1, <2>2, <2>3, <2>5, <2>8
  <2> QED BY <1>1, <2>1, <2>2, <2>4, <2>6, <2>7, <2>8 DEF SaneAt, q
<1>8. CASE Ends(s, e, t)
  <2>1. e.type = "run.end" /\ q = OnRunEnd(g, e)
    BY <1>8, HandlesKinds DEF Ends
  <2>2. /\ q \in Pages /\ q.run = g.run
        /\ e.run # g.run => q = g
        /\ e.run = g.run => \A n \in Nodes : q.status[n] = Stopped(g.status[n])
    BY <1>1, <2>1, RunEndShown, RunEndStatus
  <2>3. /\ \A r \in Runs \ {e.run} : t.open[r] = s.open[r]
        /\ \A n \in Nodes : t.open[e.run][n] = 0
    BY <1>1, <1>8 DEF Ends, Moments
  <2>4. \A n \in Nodes : Stopped(g.status[n]).active = 0 /\ Stopped(g.status[n]).state # "running"
                         /\ Stopped(g.status[n]).hits = g.status[n].hits
    BY <1>2, StatusCounts
  <2> HIDE DEF q
  <2>5. \A n \in Nodes : /\ q.status[n].hits <= i + 1
                         /\ q.status[n].state = "running" => q.status[n].active > 0
    BY <1>2, <2>2, <2>4
  <2>6. q.ended => AllQuiet(q)
    BY <1>5, <2>2, <2>4 DEF AllQuiet
  <2>7. ASSUME NEW r \in Runs, q.run = r, NEW n \in Nodes PROVE q.status[n].active <= t.open[r][n]
    BY <1>3, <1>4, <2>2, <2>3, <2>4, <2>7
  <2> QED BY <1>1, <2>1, <2>2, <2>5, <2>6, <2>7 DEF SaneAt, q
<1>9. CASE Iterates(s, e, t)
  <2>1. e.type # "graph.topology" /\ (q = OnIterStart(g, e) \/ q = OnIterEnd(g, e)) /\ t.open = s.open
    BY <1>9, HandlesKinds DEF Iterates
  <2>2. q \in Pages /\ q.run = g.run /\ q.ended = g.ended /\ q.status = g.status
    BY <1>1, <1>9, <2>1, IterStartShown, IterEndShown DEF Iterates
  <2> HIDE DEF q
  <2>3. \A n \in Nodes : q.status[n].hits <= i + 1
    BY <1>2, <2>2
  <2> QED BY <1>2, <1>4, <1>5, <2>1, <2>2, <2>3 DEF SaneAt, AllQuiet, q
<1>10. CASE Enters(s, e, t)
  <2>1. e.type # "graph.topology" /\ q = OnNodeStart(g, e) /\ e.node \in Nodes
    BY <1>10, HandlesKinds DEF Enters
  <2>2. /\ q \in Pages /\ q.run = g.run /\ q.ended = g.ended
        /\ ~CurrentRun(g, e) \/ g.ended => q = g
        /\ CurrentRun(g, e) /\ ~g.ended =>
             \A n \in Nodes : q.status[n] = IF n = e.node THEN Started(g.status[n]) ELSE g.status[n]
    BY <1>1, <2>1, NodeStartShown, NodeStartStatus
  <2>3. \A r \in Runs : \A n \in Nodes :
            t.open[r][n] = IF r = e.run /\ n = e.node THEN s.open[r][n] + 1 ELSE s.open[r][n]
    <3>1. s.open[e.run] \in [Nodes -> 0..MaxOpen] /\ s.open \in [Runs -> [Nodes -> 0..MaxOpen]]
      BY <1>1 DEF Moments
    <3> QED BY <1>1, <1>10, <3>1 DEF Enters
  <2>4. \A n \in Nodes : /\ Started(g.status[n]).active = g.status[n].active + 1
                         /\ Started(g.status[n]).hits = g.status[n].hits
    BY <1>2, StatusFacts, StatusCounts
  <2> HIDE DEF q
  <2>5. \A n \in Nodes : /\ q.status[n].hits <= i + 1
                         /\ q.status[n].state = "running" => q.status[n].active > 0
    BY <1>2, <2>2, <2>4
  <2>6. q.ended => AllQuiet(q)
    BY <1>5, <2>2
  <2>7. ASSUME NEW r \in Runs, q.run = r, NEW n \in Nodes PROVE q.status[n].active <= t.open[r][n]
    <3>1. g.status[n].active <= s.open[r][n] /\ g.status[n].active \in Nat /\ s.open[r][n] \in Nat
      BY <1>2, <1>3, <1>4, <2>2, <2>7
    <3>2. CASE CurrentRun(g, e) /\ ~g.ended
      <4>1. r = e.run
        BY <1>1, <2>2, <2>7, <3>2 DEF CurrentRun
      <4> QED BY <2>2, <2>3, <2>4, <2>7, <3>1, <3>2, <4>1
    <3>3. CASE ~(CurrentRun(g, e) /\ ~g.ended)
      BY <2>2, <2>3, <3>1, <3>3
    <3> QED BY <3>2, <3>3
  <2> QED BY <2>1, <2>2, <2>5, <2>6, <2>7 DEF SaneAt, q
<1>11. CASE Leaves(s, e, t)
  <2>1. /\ e.type # "graph.topology" /\ e.node \in Nodes /\ e.pass \in PassNumbers
        /\ q = OnNodeEnd(g, e) \/ q = OnNodeError(g, e)
    BY <1>11, HandlesKinds DEF Leaves
  <2> HIDE DEF q
  <2>2. /\ q \in Pages /\ q.run = g.run /\ q.ended = g.ended
        /\ ~CurrentRun(g, e) \/ g.ended => q = g
        /\ CurrentRun(g, e) /\ ~g.ended =>
             \A n \in Nodes :
                IF n = e.node THEN \E failed \in BOOLEAN : q.status[n] = FinishInvocation(g.status[n], failed)
                              ELSE q.status[n] = g.status[n]
    BY <1>1, <2>1, NodeLeftShown
  <2>3. \A r \in Runs : \A n \in Nodes :
            t.open[r][n] = IF r = e.run /\ n = e.node
                             THEN IF s.open[r][n] > 0 THEN s.open[r][n] - 1 ELSE 0
                             ELSE s.open[r][n]
    <3>1. s.open[e.run] \in [Nodes -> 0..MaxOpen] /\ s.open \in [Runs -> [Nodes -> 0..MaxOpen]]
      BY <1>1 DEF Moments
    <3> DEFINE left == IF s.open[e.run][e.node] > 0 THEN s.open[e.run][e.node] - 1 ELSE 0
    <3>2. t.open = [s.open EXCEPT ![e.run][e.node] = left] /\ e.node \in Nodes /\ e.run \in Runs
      BY <1>1, <1>11 DEF Leaves
    <3>3. left = IF s.open[e.run][e.node] > 0 THEN s.open[e.run][e.node] - 1 ELSE 0
      OBVIOUS
    <3> HIDE DEF left
    <3>4. \A r \in Runs : \A n \in Nodes :
             t.open[r][n] = IF r = e.run /\ n = e.node THEN left ELSE s.open[r][n]
      BY <3>1, <3>2
    <3> QED BY <3>3, <3>4
  <2>4. ASSUME NEW n \in Nodes, n = e.node, CurrentRun(g, e), ~g.ended
        PROVE  /\ q.status[n].active = IF g.status[n].active > 0 THEN g.status[n].active - 1 ELSE 0
               /\ q.status[n].state = "running" => q.status[n].active > 0
               /\ q.status[n].hits = g.status[n].hits + 1
    <3>1. PICK failed \in BOOLEAN : q.status[n] = FinishInvocation(g.status[n], failed)
      BY <2>2, <2>4
    <3> QED BY <1>2, <3>1, StatusCounts
  <2>5. \A n \in Nodes : /\ q.status[n].hits <= i + 1
                         /\ q.status[n].state = "running" => q.status[n].active > 0
    BY <1>2, <2>2, <2>4
  <2>6. q.ended => AllQuiet(q)
    BY <1>5, <2>2
  <2>7. ASSUME NEW r \in Runs, q.run = r, NEW n \in Nodes PROVE q.status[n].active <= t.open[r][n]
    <3>1. g.status[n].active <= s.open[r][n] /\ g.status[n].active \in Nat /\ s.open[r][n] \in Nat
      BY <1>2, <1>3, <1>4, <2>2, <2>7
    <3>2. CASE CurrentRun(g, e) /\ ~g.ended /\ n = e.node
      <4>1. r = e.run
        BY <1>1, <2>2, <2>7, <3>2 DEF CurrentRun
      <4> QED BY <2>3, <2>4, <3>1, <3>2, <4>1
    <3>3. CASE CurrentRun(g, e) /\ ~g.ended /\ n # e.node
      BY <2>2, <2>3, <3>1, <3>3
    <3>4. CASE ~CurrentRun(g, e) \/ g.ended
      <4>1. q = g
        BY <2>2, <3>4
      <4>2. CASE r = e.run
        <5>1. g.status[n].active = 0
          BY <1>5, <2>7, <3>4, <4>1, <4>2 DEF AllQuiet, CurrentRun
        <5> QED BY <2>3, <3>1, <4>1, <4>2, <5>1
      <4>3. CASE r # e.run
        BY <2>3, <3>1, <4>1, <4>3
      <4> QED BY <4>2, <4>3
    <3> QED BY <3>2, <3>3, <3>4
  <2> QED BY <2>1, <2>2, <2>5, <2>6, <2>7 DEF SaneAt, q
<1> QED BY <1>6, <1>7, <1>8, <1>9, <1>10, <1>11 DEF StepAt, q

(* A page that misses an event stays sane if nothing runs on it.           *)
LEMMA SaneSkip ==
    ASSUME NEW s \in Moments, NEW t \in Moments, NEW e \in Events,
           NEW i \in Nat, NEW g, SaneAt(g, s, i), Attaches(s, e, t) \/ AllQuiet(g)
    PROVE  SaneAt(g, t, i + 1)
<1>1. g \in Pages /\ MaxOpen \in Nat
  BY Constants DEF SaneAt
<1>2. \A n \in Nodes : g.status[n].hits \in Nat /\ g.status[n].active \in Nat
  BY <1>1 DEF Pages, NodeStatus
<1>3. \A r \in Runs : \A n \in Nodes : t.open[r][n] \in 0..MaxOpen
  <2>1. t.open \in [Runs -> [Nodes -> 0..MaxOpen]]
    BY DEF Moments
  <2>2. \A r \in Runs : t.open[r] \in [Nodes -> 0..MaxOpen]
    BY <2>1
  <2> QED BY <2>2
<1>4. \A n \in Nodes : g.status[n].hits <= i + 1
  BY <1>2 DEF SaneAt
<1>5. \A r \in Runs : g.run = r => \A n \in Nodes : g.status[n].active <= t.open[r][n]
  BY <1>1, <1>2, <1>3 DEF SaneAt, Attaches, AllQuiet
<1> QED BY <1>4, <1>5 DEF SaneAt

\* What a tab that handles the events of K alone may miss: the first topology of a
\* run, and an event that nothing but topologies precedes.
Misses(h, es, K) ==
    \A i \in 1..Len(es) \ K :
        \/ Attaches(h[i - 1], es[i], h[i])
        \/ ~TopologyAt(es, i) /\ \A j \in 1..(i - 1) : j \in K => TopologyAt(es, j)

(* No tab ever shows more than its run has under way.                      *)
LEMMA SaneFold ==
    ASSUME NEW h, NEW es, NEW c, TraceOf(h, es, c), NEW K, Misses(h, es, K), NEW f, FoldOf(f, es, K)
    PROVE  \A i \in 0..Len(es) :
              /\ SaneAt(f[i], h[i], i)
              /\ (\E j \in 1..i : j \in K /\ TopologyAt(es, j)) => f[i].run \in Runs
<1> DEFINE N == Len(es)
           T == {i \in 0..N : /\ SaneAt(f[i], h[i], i)
                              /\ (\E j \in 1..i : j \in K /\ TopologyAt(es, j)) => f[i].run \in Runs
                              /\ (\A j \in 1..i : j \in K => TopologyAt(es, j)) => AllQuiet(f[i])}
<1>1. /\ N \in Nat /\ es \in Seq(Events) /\ h \in [0..N -> Moments] /\ h[0].page = EmptyPage
      /\ \A i \in 1..N : es[i] \in Events /\ StepAt(h[i - 1], es[i], h[i])
      /\ f[0] = EmptyPage
      /\ \A i \in 1..N : f[i] = IF i \in K THEN Handle(f[i - 1], es[i]) ELSE f[i - 1]
  BY DEF TraceOf, FoldOf
<1> HIDE DEF N
<1>2. h \in [0..N -> Moments]
  BY <1>1
<1>3. \A i \in 0..N : h[i] \in Moments
  BY <1>2
<1>4. 0 \in T
  <2>1. \A n \in Nodes : EmptyPage.status[n].active = 0 /\ EmptyPage.status[n].hits = 0
                         /\ EmptyPage.status[n].state # "running"
    BY EmptyFacts, StatusFacts, StatusCounts
  <2>2. SaneAt(EmptyPage, h[0], 0) /\ AllQuiet(EmptyPage)
    BY <2>1, EmptyFacts, Constants DEF SaneAt, AllQuiet
  <2>3. 0 \in 0..N /\ ~(\E j \in 1..0 : TRUE)
    BY <1>1
  <2> QED BY <1>1, <2>2, <2>3
<1>5. ASSUME NEW i \in 1..N, i - 1 \in T PROVE i \in T
  <2> DEFINE g == f[i - 1]
             s == h[i - 1]
             t == h[i]
             e == es[i]
  <2>1. /\ SaneAt(g, s, i - 1)
        /\ (\E j \in 1..(i - 1) : j \in K /\ TopologyAt(es, j)) => g.run \in Runs
        /\ (\A j \in 1..(i - 1) : j \in K => TopologyAt(es, j)) => AllQuiet(g)
    BY <1>5
  <2>2. /\ i - 1 \in Nat /\ i - 1 \in 0..N /\ i \in 0..N /\ (i - 1) + 1 = i
        /\ s \in Moments /\ t \in Moments /\ e \in Events /\ StepAt(s, e, t)
        /\ f[i] = IF i \in K THEN Handle(g, e) ELSE g
        /\ TopologyAt(es, i) <=> e.type = "graph.topology"
    BY <1>1, <1>3 DEF TopologyAt
  <2> HIDE DEF T, g, s, t, e
  <2>3. \A j \in 1..i : j = i \/ j \in 1..(i - 1)
    BY <2>2
  <2>4. \A j \in 1..(i - 1) : j \in 1..i
    BY <2>2
  <2>5. i \in 1..i
    OBVIOUS
  <2>6. CASE i \in K
    <3>1. /\ SaneAt(f[i], t, i)
          /\ g.run \in Runs \/ e.type = "graph.topology" => f[i].run \in Runs
          /\ AllQuiet(g) /\ e.type = "graph.topology" => AllQuiet(f[i])
      BY <2>1, <2>2, <2>6, SaneStep
    <3>2. (\E j \in 1..i : j \in K /\ TopologyAt(es, j)) => f[i].run \in Runs
      BY <2>1, <2>2, <2>3, <3>1
    <3>3. (\A j \in 1..i : j \in K => TopologyAt(es, j)) => AllQuiet(f[i])
      BY <2>1, <2>2, <2>5, <2>6, <3>1
    <3> QED BY <2>2, <3>1, <3>2, <3>3 DEF T, t
  <2>7. CASE i \notin K
    <3>1. f[i] = g
      BY <2>2, <2>7
    <3>2. Attaches(s, e, t) \/ \A j \in 1..(i - 1) : j \in K => TopologyAt(es, j)
      BY <2>2, <2>7 DEF Misses, N, s, t, e
    <3>3. Attaches(s, e, t) \/ AllQuiet(g)
      BY <2>1, <2>2, <3>2
    <3>4. SaneAt(f[i], t, i)
      BY <2>1, <2>2, <3>1, <3>3, SaneSkip
    <3>5. (\E j \in 1..i : j \in K /\ TopologyAt(es, j)) => f[i].run \in Runs
      BY <2>1, <2>3, <2>7, <3>1
    <3>6. (\A j \in 1..i : j \in K => TopologyAt(es, j)) => AllQuiet(f[i])
      BY <2>1, <2>4, <3>1
    <3> QED BY <2>2, <3>4, <3>5, <3>6 DEF T, t
  <2> QED BY <2>6, <2>7
<1>6. \A i \in 0..N : i \in T
  <2> HIDE DEF T
  <2> QED BY <1>1, <1>4, <1>5, UpTo
<1> QED BY <1>6 DEF N

(* The replay misses nothing else.                                         *)
LEMMA RingGrows ==
    ASSUME Len(events) \in Nat, DOMAIN events = 1..Len(events), BufferSize \in Nat,
           NEW i \in 1..Len(events), NEW j \in 1..Len(events), j <= i,
           InRing(j), ~IsTopology(i)
    PROVE  InRing(i)
<1> DEFINE after(k) == {m \in DOMAIN events : m > k /\ ~IsTopology(m)}
<1>1. IsFiniteSet(DOMAIN events)
  BY FS_Interval
<1>2. after(i) \subseteq after(j) /\ after(j) \subseteq DOMAIN events
  BY <1>1
<1>3. Cardinality(after(i)) <= Cardinality(after(j)) /\ Cardinality(after(i)) \in Nat /\ Cardinality(after(j)) \in Nat
  <2> HIDE DEF after
  <2>1. IsFiniteSet(after(j)) /\ IsFiniteSet(after(i))
    BY <1>1, <1>2, FS_Subset
  <2> QED BY <1>2, <2>1, FS_Subset, FS_CardinalityType
<1>4. Cardinality(after(j)) < BufferSize
  BY DEF InRing
<1>5. Cardinality(after(i)) < BufferSize
  <2> HIDE DEF after
  <2> QED BY <1>3, <1>4
<1> QED BY <1>5 DEF InRing

(* The replay misses replaced topologies, and what is behind the ring.     *)
LEMMA ReplayMisses ==
    ASSUME NEW h, NEW c, TraceOf(h, events, c), LastTopologies(h, events, drawn)
    PROVE  Misses(h, events, {i \in 1..Len(events) : InReplay(i)})
<1>1. events \in Seq(Events) /\ Len(events) \in Nat /\ DOMAIN events = 1..Len(events) /\ BufferSize \in Nat
  BY BoundsAssumption DEF TraceOf
<1>2. SUFFICES ASSUME NEW i \in 1..Len(events), ~InReplay(i)
               PROVE  \/ Attaches(h[i - 1], events[i], h[i])
                      \/ /\ ~TopologyAt(events, i)
                         /\ \A j \in 1..(i - 1) :
                               j \in {k \in 1..Len(events) : InReplay(k)} => TopologyAt(events, j)
  BY DEF Misses
<1>3. CASE TopologyAt(events, i)
  <2>1. ~LatestAt(events, i)
    BY <1>1, <1>2, <1>3 DEF InReplay, Pinned, IsTopology, LatestAt, TopologyAt
  <2>2. StepAt(h[i - 1], events[i], h[i])
    BY DEF TraceOf
  <2>3. ~Discovers(h[i - 1], events[i], h[i])
    BY <2>1 DEF LastTopologies
  <2>4. events[i].type = "graph.topology"
    BY <1>3 DEF TopologyAt
  <2> QED BY <2>2, <2>3, <2>4 DEF StepAt, Starts, Ends, Iterates, Enters, Leaves
<1>4. CASE ~TopologyAt(events, i)
  <2> SUFFICES ASSUME NEW j \in 1..(i - 1), j \in 1..Len(events), InReplay(j), ~TopologyAt(events, j) PROVE FALSE
    BY <1>4
  <2>1. InRing(j) /\ ~IsTopology(i) /\ j <= i
    BY <1>4 DEF InReplay, Pinned, IsTopology, TopologyAt
  <2>2. InRing(i)
    BY <1>1, <2>1, RingGrows
  <2> QED BY <1>2, <2>2 DEF InReplay
<1> QED BY <1>3, <1>4

(* What the replay shows at the end, and the tab that was open all along.  *)
LEMMA FinalPages ==
    ASSUME TraceInv, Inv
    PROVE  /\ events \in Seq(Events)
           /\ SaneAt(page, Now, Len(events)) /\ SaneAt(FreshPage, Now, Len(events))
           /\ Len(events) # 0 => page.run \in Runs /\ FreshPage.run \in Runs
           /\ Len(events) = 0 => page = EmptyPage /\ FreshPage = EmptyPage
<1> DEFINE N == Len(events)
           K == {i \in 1..N : InReplay(i)}
<1>1. PICK h : TraceOf(h, events, crossed) /\ h[N] = Now /\ LastTopologies(h, events, drawn)
  BY DEF TraceInv
<1>2. /\ N \in Nat /\ events \in Seq(Events) /\ h[0].page = EmptyPage
      /\ \A i \in 1..N : StepAt(h[i - 1], events[i], h[i])
      /\ \A i \in 0..N : \A j \in 1..i : h[i].stage[events[j].run] # "new"
  BY <1>1 DEF TraceOf
<1>3. PICK f : FoldOf(f, events, K) /\ FreshPage = f[N]
  BY <1>2, FreshFold
<1> DEFINE g == [i \in 0..N |-> h[i].page]
<1>4. FoldOf(g, events, 1..N) /\ g[N] = page
  <2>1. \A i \in 0..N : g[i] = h[i].page
    OBVIOUS
  <2>2. \A i \in 1..N : i \in 0..N /\ i - 1 \in 0..N
    BY <1>2
  <2>3. 0 \in 0..N /\ N \in 0..N /\ Now.page = page
    BY <1>2 DEF Now
  <2> HIDE DEF g
  <2>4. g[0] = EmptyPage /\ g[N] = page
    BY <1>1, <1>2, <2>1, <2>3
  <2>5. \A i \in 1..N : g[i] = Handle(g[i - 1], events[i])
    BY <1>2, <2>1, <2>2 DEF StepAt
  <2> QED BY <2>4, <2>5 DEF FoldOf
<1>5. Misses(h, events, K)
  BY <1>1, ReplayMisses
<1>6. Misses(h, events, 1..N)
  BY DEF Misses
<1> HIDE DEF g, K
<1>7. SaneAt(page, Now, N) /\ ((\E j \in 1..N : j \in 1..N /\ TopologyAt(events, j)) => page.run \in Runs)
  <2>1. N \in 0..N
    BY <1>2
  <2> HIDE DEF N
  <2> QED BY <1>1, <1>4, <1>6, <2>1, SaneFold DEF N
<1>8. SaneAt(FreshPage, Now, N) /\ ((\E j \in 1..N : j \in K /\ TopologyAt(events, j)) => FreshPage.run \in Runs)
  <2>1. N \in 0..N
    BY <1>2
  <2> HIDE DEF N
  <2> QED BY <1>1, <1>3, <1>5, <2>1, SaneFold DEF N
<1>9. ASSUME N # 0 PROVE \E j \in 1..N : LatestAt(events, j)
  <2>1. N \in 0..N /\ N \in 1..N /\ events[N].run \in Runs
    <3>1. N \in 0..N /\ N \in 1..N
      BY <1>2, <1>9
    <3>2. events[N] \in Events
      BY <1>2, <3>1
    <3> QED BY <3>1, <3>2 DEF Events
  <2>2. h[N].stage[events[N].run] # "new"
    <3> HIDE DEF N
    <3>1. \A j \in 1..N : h[N].stage[events[j].run] # "new"
      BY <1>2, <2>1
    <3> QED BY <2>1, <3>1
  <2>3. PICK j \in 1..N : events[j].run = events[N].run /\ LatestAt(events, j)
    BY <1>1, <2>1, <2>2 DEF LastTopologies
  <2> QED BY <2>3
<1>10. \A j \in 1..N : LatestAt(events, j) => j \in K /\ TopologyAt(events, j)
  BY <1>2 DEF K, InReplay, Pinned, IsTopology, LatestAt, TopologyAt
<1>11. N = 0 => page = EmptyPage /\ FreshPage = EmptyPage
  BY <1>3, <1>4 DEF FoldOf
<1> QED BY <1>2, <1>7, <1>8, <1>9, <1>10, <1>11

-----------------------------------------------------------------------------
(* Theorems.                                                               *)

LengthInv == events \in Seq(Events) => Len(events) <= MaxEvents
WholeInv == Inv /\ TraceInv /\ LengthInv

(* A history explains every state: the page is its events handled in order, *)
(* every run that began has a last topology, and a run that attached alone  *)
(* had the page to itself.                                                 *)
THEOREM TraceCorrect == Spec => []WholeInv
<1>1. Init => WholeInv
  <2> SUFFICES ASSUME Init PROVE WholeInv
    OBVIOUS
  <2>1. LengthInv
    BY Constants DEF Init, LengthInv
  <2> QED BY <2>1, InitInv, InitTrace DEF WholeInv
<1>2. WholeInv /\ [Next]_vars => WholeInv'
  <2> SUFFICES ASSUME WholeInv, [Next]_vars PROVE WholeInv'
    OBVIOUS
  <2>1. Inv' /\ TraceInv'
    BY NextInv, NextTrace DEF WholeInv
  <2>2. events \in Seq(Events)
    BY DEF WholeInv, TraceInv, TraceOf
  <2>3. events' = events \/ (Len(events) < MaxEvents /\ \E e : events' = Append(events, e))
    <3>1. CASE UNCHANGED published
      BY <3>1 DEF published
    <3>2. ASSUME NEW r \in Runs, NEW how, NEW node, Look(r, how, node) PROVE UNCHANGED published
      BY <3>2 DEF Look
    <3>3. CASE UNCHANGED vars
      BY <3>1, <3>3 DEF vars
    <3>4. ASSUME NEW r \in Runs, NEW node, Enter(r, node) \/ \E how \in Exits : Leave(r, node, how)
          PROVE  Len(events) < MaxEvents /\ \E e : events' = Append(events, e)
      BY <3>4 DEF Enter, Leave, Told, Publish
    <3> QED BY <3>1, <3>2, <3>3, <3>4
            DEF Next, AttachTopology, AttachStart, StartPass, Discover, EndRun, EndPass, Publish
  <2>4. LengthInv'
    BY <2>2, <2>3, Constants DEF WholeInv, LengthInv
  <2> QED BY <2>1, <2>4 DEF WholeInv
<1> QED BY <1>1, <1>2, PTL DEF Spec

(* Who shows a run shows no more executions of a node than are under way.  *)
LEMMA SaneTypes ==
    ASSUME Inv, NEW g, SaneAt(g, Now, Len(events)), Len(events) \in Nat, Len(events) <= MaxEvents,
           g.run \in Runs \/ g = EmptyPage
    PROVE  /\ g \in [run : Runs \cup {NoRun}, started : BOOLEAN, ended : BOOLEAN,
                     nodes : SUBSET Nodes,
                     status : [Nodes -> [state : {"idle", "running", "done", "error", "stopped"},
                                         active : 0..MaxOpen, failed : BOOLEAN, hits : 0..MaxEvents]],
                     passes : [PassNumbers -> {"none", "run", "done", "err"}],
                     current : 0..MaxPasses]
           /\ \A n \in Nodes : g.status[n].state = "running" => g.run \in Runs /\ open[g.run][n] > 0
<1> DEFINE Bounded == [state : {"idle", "running", "done", "error", "stopped"},
                       active : 0..MaxOpen, failed : BOOLEAN, hits : 0..MaxEvents]
<1>1. g \in Pages /\ MaxOpen \in Nat /\ MaxEvents \in Nat /\ g.status \in [Nodes -> NodeStatus]
  BY Constants DEF SaneAt, Pages
<1>2. ASSUME NEW n \in Nodes
      PROVE  /\ g.status[n] \in Bounded
             /\ g.status[n].state = "running" => g.run \in Runs /\ open[g.run][n] > 0
  <2>1. /\ g.status[n] \in NodeStatus /\ g.status[n].active \in Nat /\ g.status[n].hits \in Nat
        /\ g.status[n].hits <= Len(events)
        /\ g.status[n].state = "running" => g.status[n].active > 0
    BY <1>1 DEF NodeStatus, SaneAt
  <2>2. CASE g.run \in Runs
    <3>1. g.status[n].active <= open[g.run][n] /\ open[g.run][n] \in 0..MaxOpen
      BY <2>2, OpenTypes DEF SaneAt, Now, Inv
    <3>2. g.status[n].active \in 0..MaxOpen /\ g.status[n].hits \in 0..MaxEvents
      BY <1>1, <2>1, <3>1
    <3>3. g.status[n] \in Bounded
      BY <2>1, <3>2 DEF NodeStatus
    <3>4. g.status[n].state = "running" => open[g.run][n] > 0
      BY <1>1, <2>1, <3>1
    <3> QED BY <2>2, <3>3, <3>4
  <2>3. CASE g = EmptyPage
    <3>1. g.status[n] = Idle /\ Idle.active = 0 /\ Idle.state # "running" /\ Idle.hits = 0
      BY <2>3, EmptyFacts, StatusFacts, StatusCounts
    <3>2. g.status[n] \in Bounded
      BY <1>1, <2>1, <3>1 DEF NodeStatus
    <3> QED BY <3>1, <3>2
  <2> QED BY <2>2, <2>3
<1> HIDE DEF Bounded
<1>3. g.status \in [Nodes -> Bounded]
  BY <1>1, <1>2
<1>4. g \in [run : Runs \cup {NoRun}, started : BOOLEAN, ended : BOOLEAN, nodes : SUBSET Nodes,
             status : [Nodes -> Bounded], passes : [PassNumbers -> Marks], current : 0..MaxPasses]
  BY <1>1, <1>3 DEF Pages
<1> QED BY <1>2, <1>4 DEF Bounded, Marks

(* TypeOK, for any bounds: of the page, and of what the replay makes a new  *)
(* one show however much of the ring is gone, no counter of a node exceeds  *)
(* what its run has under way or what was published.                       *)
THEOREM FreshTypesCorrect == Spec => []TypeOK
<1>1. WholeInv => TypeOK
  <2> SUFFICES ASSUME WholeInv PROVE TypeOK
    OBVIOUS
  <2>1. /\ Inv /\ events \in Seq(Events) /\ Len(events) <= MaxEvents
        /\ SaneAt(page, Now, Len(events)) /\ SaneAt(FreshPage, Now, Len(events))
        /\ Len(events) # 0 => page.run \in Runs /\ FreshPage.run \in Runs
        /\ Len(events) = 0 => page = EmptyPage /\ FreshPage = EmptyPage
    BY FinalPages DEF WholeInv, LengthInv
  <2>2. Len(events) \in Nat
    BY <2>1
  <2> QED BY <2>1, <2>2, SaneTypes DEF TypeOK
<1> QED BY <1>1, TraceCorrect, PTL

(* NothingInvented, for any runs and any ring: a new tab lights no node of  *)
(* the run it shows that is not running, whatever the ring has evicted,     *)
(* except a wrapper whose start came after the topology that dropped it.    *)
THEOREM NothingInventedCorrect == Spec => []NothingInvented
<1>1. WholeInv => NothingInvented
  <2> SUFFICES ASSUME WholeInv PROVE NothingInvented
    OBVIOUS
  <2>1. /\ Inv /\ events \in Seq(Events) /\ Len(events) <= MaxEvents
        /\ SaneAt(FreshPage, Now, Len(events))
        /\ Len(events) # 0 => FreshPage.run \in Runs
        /\ Len(events) = 0 => FreshPage = EmptyPage
    BY FinalPages DEF WholeInv, LengthInv
  <2>2. Len(events) \in Nat
    BY <2>1
  <2>3. \A n \in Nodes : FreshPage.status[n].state = "running" => open[FreshPage.run][n] > 0
    BY <2>1, <2>2, SaneTypes
  <2> QED BY <2>3 DEF NothingInvented, UnderWay, CameLate
<1> QED BY <1>1, TraceCorrect, PTL
-----------------------------------------------------------------------------
(* A fresh page that missed nothing but topologies: it is the other page,  *)
(* except for the mesh as long as it has not seen the topology.            *)

Alike(p, q) ==
    /\ p.run = q.run /\ p.started = q.started /\ p.ended = q.ended
    /\ p.status = q.status /\ p.passes = q.passes /\ p.current = q.current

(* Alike pages take events from the same runs.                             *)
LEMMA AlikeLive ==
    ASSUME NEW p, NEW q, Alike(p, q), NEW e
    PROVE  /\ LiveForeign(p, e) <=> LiveForeign(q, e)
           /\ CurrentRun(p, e) <=> CurrentRun(q, e)
BY DEF Alike, LiveForeign, CurrentRun

(* What the end of a pass and of an execution leave, exactly.              *)
LEMMA IterEndPasses ==
    ASSUME NEW p \in Pages, NEW e \in Events, e.pass \in PassNumbers,
           ~LiveForeign(p, e), p.passes[e.pass] # "none"
    PROVE  OnIterEnd(p, e).passes = [p.passes EXCEPT ![e.pass] = IF e.status = "error" THEN "err" ELSE "done"]
<1> DEFINE tape == [p.passes EXCEPT ![e.pass] = IF e.status = "error" THEN "err" ELSE "done"]
<1>1. OnIterEnd(p, e) = [p EXCEPT !.passes = tape]
  BY DEF OnIterEnd, Pages
<1> HIDE DEF tape
<1>2. OnIterEnd(p, e).passes = tape
  BY <1>1 DEF Pages
<1> QED BY <1>2 DEF tape

(* The end of an execution, exactly: its node and its pass.                *)
LEMMA NodeLeft ==
    ASSUME NEW p \in Pages, NEW e \in Events, e.node \in Nodes, e.pass \in PassNumbers,
           CurrentRun(p, e), ~p.ended
    PROVE  LET begun == Begun(p.passes, e.pass)
           IN  /\ OnNodeEnd(p, e).status = [p.status EXCEPT ![e.node] = FinishInvocation(p.status[e.node], FALSE)]
               /\ OnNodeEnd(p, e).passes = begun
               /\ OnNodeError(p, e).status = [p.status EXCEPT ![e.node] = FinishInvocation(p.status[e.node], TRUE)]
               /\ OnNodeError(p, e).passes =
                     [begun EXCEPT ![e.pass] = IF begun[e.pass] = "none" THEN "none" ELSE "err"]
<1> DEFINE begun == Begun(p.passes, e.pass)
           left(failed) == [p.status EXCEPT ![e.node] = FinishInvocation(p.status[e.node], failed)]
           marked == [begun EXCEPT ![e.pass] = IF begun[e.pass] = "none" THEN "none" ELSE "err"]
<1>1. e.pass # 0
  BY Constants
<1>2. begun \in [PassNumbers -> Marks]
  BY BegunFacts DEF Pages
<1>3. Cell(p, e) = [p EXCEPT !.passes = begun]
  BY <1>1 DEF Cell, Pages
<1>4. OnNodeEnd(p, e) = [Cell(p, e) EXCEPT !.status = left(FALSE)]
  <2>1. Cell(p, e).status = p.status
    BY <1>3 DEF Pages
  <2>2. OnNodeEnd(p, e) = [Cell(p, e) EXCEPT !.status[e.node] = FinishInvocation(@, FALSE)]
    BY DEF OnNodeEnd
  <2>3. Cell(p, e) \in [run : {p.run}, started : {p.started}, ended : {p.ended}, nodes : {p.nodes},
                        status : {p.status}, passes : {begun}, current : {p.current}]
    <3> HIDE DEF begun
    <3> QED BY <1>3 DEF Pages
  <2> QED BY <2>1, <2>2, <2>3
<1>5. OnNodeEnd(p, e).status = left(FALSE) /\ OnNodeEnd(p, e).passes = begun
  <2> HIDE DEF left, begun
  <2> QED BY <1>3, <1>4 DEF Pages
<1> DEFINE c == [Cell(p, e) EXCEPT !.status = left(TRUE)]
<1>6. c = [Cell(p, e) EXCEPT !.status[e.node] = FinishInvocation(@, TRUE)]
  <2>1. Cell(p, e).status = p.status
    BY <1>3 DEF Pages
  <2>2. Cell(p, e) \in [run : {p.run}, started : {p.started}, ended : {p.ended}, nodes : {p.nodes},
                        status : {p.status}, passes : {begun}, current : {p.current}]
    <3> HIDE DEF begun
    <3> QED BY <1>3 DEF Pages
  <2> QED BY <2>1, <2>2
<1>7. c.status = left(TRUE) /\ c.passes = begun /\ c = [p EXCEPT !.passes = begun, !.status = left(TRUE)]
  <2> HIDE DEF left, begun
  <2> QED BY <1>3 DEF Pages
<1> HIDE DEF c
<1>8. OnNodeError(p, e) = [c EXCEPT !.passes[e.pass] = IF @ = "none" THEN @ ELSE "err"]
  BY <1>1, <1>6 DEF OnNodeError
<1>9. [c EXCEPT !.passes[e.pass] = IF @ = "none" THEN @ ELSE "err"] = [c EXCEPT !.passes = marked]
  <2> HIDE DEF left, begun
  <2> QED BY <1>2, <1>7 DEF Pages
<1>10. OnNodeError(p, e).status = left(TRUE) /\ OnNodeError(p, e).passes = marked
  <2> HIDE DEF left, begun, marked
  <2> QED BY <1>7, <1>8, <1>9 DEF Pages
<1> QED BY <1>5, <1>10

(* The mesh has no part in what the other events do.                       *)
LEMMA AlikeStep ==
    ASSUME NEW s, NEW t, NEW e \in Events, StepAt(s, e, t), e.type # "graph.topology",
           NEW p \in Pages, NEW q \in Pages, Alike(p, q),
           Starts(s, e, t) => e.run = p.run \/ LiveForeign(p, e)
    PROVE  Alike(Handle(p, e), Handle(q, e))
<1>1. CASE Starts(s, e, t)
  <2>1. Handle(p, e) = OnRunStart(p, e) /\ Handle(q, e) = OnRunStart(q, e)
    BY <1>1, HandlesKinds DEF Starts
  <2>2. CASE LiveForeign(p, e)
    BY <2>1, <2>2, AlikeLive, RunStartShown
  <2>3. CASE ~LiveForeign(p, e)
    <3>1. e.run = p.run /\ e.run = q.run /\ ~LiveForeign(q, e)
      BY <1>1, <2>3, AlikeLive DEF Alike
    <3>2. Shown(p, e) = p /\ Shown(q, e) = q
      BY <3>1, ShownFacts
    <3>3. /\ OnRunStart(p, e) \in Pages /\ OnRunStart(q, e) \in Pages
          /\ OnRunStart(p, e).run = e.run /\ OnRunStart(q, e).run = e.run
          /\ OnRunStart(p, e).started /\ OnRunStart(q, e).started
          /\ ~OnRunStart(p, e).ended /\ ~OnRunStart(q, e).ended
          /\ OnRunStart(p, e).status = p.status /\ OnRunStart(q, e).status = q.status
          /\ OnRunStart(p, e).passes = p.passes /\ OnRunStart(q, e).passes = q.passes
          /\ OnRunStart(p, e).current = p.current /\ OnRunStart(q, e).current = q.current
      BY <2>3, <3>1, <3>2, RunStartShown
    <3>4. OnRunStart(p, e).started = OnRunStart(q, e).started /\ OnRunStart(p, e).ended = OnRunStart(q, e).ended
      BY <3>3 DEF Pages
    <3> QED BY <2>1, <3>3, <3>4 DEF Alike
  <2> QED BY <2>2, <2>3
<1>2. CASE Ends(s, e, t)
  <2>1. Handle(p, e) = OnRunEnd(p, e) /\ Handle(q, e) = OnRunEnd(q, e)
    BY <1>2, HandlesKinds DEF Ends
  <2>2. CASE e.run # p.run
    BY <2>1, <2>2, RunEndShown DEF Alike
  <2>3. CASE e.run = p.run
    <3>1. e.run = q.run
      BY <2>3 DEF Alike
    <3>2. /\ OnRunEnd(p, e) \in Pages /\ OnRunEnd(q, e) \in Pages
          /\ OnRunEnd(p, e).run = p.run /\ OnRunEnd(q, e).run = q.run
          /\ OnRunEnd(p, e).started = p.started /\ OnRunEnd(q, e).started = q.started
          /\ OnRunEnd(p, e).ended /\ OnRunEnd(q, e).ended
          /\ OnRunEnd(p, e).passes = p.passes /\ OnRunEnd(q, e).passes = q.passes
          /\ OnRunEnd(p, e).current = p.current /\ OnRunEnd(q, e).current = q.current
      BY <2>3, <3>1, RunEndShown
    <3>3. \A n \in Nodes : OnRunEnd(p, e).status[n] = OnRunEnd(q, e).status[n]
      BY <2>3, <3>1, RunEndStatus DEF Alike
    <3>4. OnRunEnd(p, e).status = OnRunEnd(q, e).status /\ OnRunEnd(p, e).ended = OnRunEnd(q, e).ended
      BY <3>2, <3>3 DEF Pages
    <3> QED BY <2>1, <3>2, <3>4 DEF Alike
  <2> QED BY <2>2, <2>3
<1>3. CASE Iterates(s, e, t) /\ e.type = "iter.start"
  <2>1. Handle(p, e) = OnIterStart(p, e) /\ Handle(q, e) = OnIterStart(q, e) /\ e.pass \in PassNumbers
    BY <1>3, HandlesKinds DEF Iterates
  <2> QED BY <2>1, AlikeLive, IterStartShown DEF Alike
<1>4. CASE Iterates(s, e, t) /\ e.type = "iter.end"
  <2>1. Handle(p, e) = OnIterEnd(p, e) /\ Handle(q, e) = OnIterEnd(q, e) /\ e.pass \in PassNumbers
    BY <1>4, HandlesKinds DEF Iterates
  <2>2. p.passes = q.passes /\ (LiveForeign(p, e) <=> LiveForeign(q, e))
    BY AlikeLive DEF Alike
  <2>3. CASE LiveForeign(p, e) \/ p.passes[e.pass] = "none"
    BY <2>1, <2>2, <2>3, IterEndShown
  <2>4. CASE ~LiveForeign(p, e) /\ p.passes[e.pass] # "none"
    <3>1. OnIterEnd(p, e).passes = OnIterEnd(q, e).passes
      <4>1. OnIterEnd(p, e).passes = [p.passes EXCEPT ![e.pass] = IF e.status = "error" THEN "err" ELSE "done"]
        BY <2>1, <2>4, IterEndPasses
      <4>2. ~LiveForeign(q, e) /\ q.passes[e.pass] # "none"
        BY <2>2, <2>4
      <4>3. OnIterEnd(q, e).passes = [q.passes EXCEPT ![e.pass] = IF e.status = "error" THEN "err" ELSE "done"]
        BY <2>1, <4>2, IterEndPasses
      <4> QED BY <2>2, <4>1, <4>3
    <3> QED BY <2>1, <3>1, IterEndShown DEF Alike
  <2> QED BY <2>3, <2>4
<1>5. CASE Enters(s, e, t)
  <2>1. Handle(p, e) = OnNodeStart(p, e) /\ Handle(q, e) = OnNodeStart(q, e) /\ e.node \in Nodes
    BY <1>5, HandlesKinds DEF Enters
  <2>2. CASE ~CurrentRun(p, e) \/ p.ended
    <3>1. ~CurrentRun(q, e) \/ q.ended
      BY <2>2, AlikeLive DEF Alike
    <3> QED BY <2>1, <2>2, <3>1, NodeStartShown
  <2>3. CASE CurrentRun(p, e) /\ ~p.ended
    <3>1. CurrentRun(q, e) /\ ~q.ended
      BY <2>3, AlikeLive DEF Alike
    <3>2. \A n \in Nodes : OnNodeStart(p, e).status[n] = OnNodeStart(q, e).status[n]
      BY <2>1, <2>3, <3>1, NodeStartStatus DEF Alike
    <3>3. OnNodeStart(p, e) \in Pages /\ OnNodeStart(q, e) \in Pages
      BY <2>1, NodeStartShown
    <3>4. OnNodeStart(p, e).status = OnNodeStart(q, e).status
      BY <3>2, <3>3 DEF Pages
    <3> QED BY <2>1, <3>4, NodeStartShown DEF Alike
  <2> QED BY <2>2, <2>3
<1>6. CASE Leaves(s, e, t)
  <2>1. /\ e.node \in Nodes /\ e.pass \in PassNumbers
        /\ \/ Handle(p, e) = OnNodeEnd(p, e) /\ Handle(q, e) = OnNodeEnd(q, e)
           \/ Handle(p, e) = OnNodeError(p, e) /\ Handle(q, e) = OnNodeError(q, e)
    BY <1>6, HandlesKinds DEF Leaves
  <2>2. CASE ~CurrentRun(p, e) \/ p.ended
    <3>1. ~CurrentRun(q, e) \/ q.ended
      BY <2>2, AlikeLive DEF Alike
    <3> QED BY <2>1, <2>2, <3>1, NodeLeftShown
  <2>3. CASE CurrentRun(p, e) /\ ~p.ended
    <3>1. CurrentRun(q, e) /\ ~q.ended
      BY <2>3, AlikeLive DEF Alike
    <3>2. /\ OnNodeEnd(p, e).status = OnNodeEnd(q, e).status /\ OnNodeEnd(p, e).passes = OnNodeEnd(q, e).passes
          /\ OnNodeError(p, e).status = OnNodeError(q, e).status
          /\ OnNodeError(p, e).passes = OnNodeError(q, e).passes
      <4> DEFINE Left(z) ==
              LET begun == Begun(z.passes, e.pass)
              IN  /\ OnNodeEnd(z, e).status = [z.status EXCEPT ![e.node] = FinishInvocation(z.status[e.node], FALSE)]
                  /\ OnNodeEnd(z, e).passes = begun
                  /\ OnNodeError(z, e).status =
                        [z.status EXCEPT ![e.node] = FinishInvocation(z.status[e.node], TRUE)]
                  /\ OnNodeError(z, e).passes =
                        [begun EXCEPT ![e.pass] = IF begun[e.pass] = "none" THEN "none" ELSE "err"]
      <4>1. Left(p)
        BY <2>1, <2>3, NodeLeft
      <4>2. Left(q)
        BY <2>1, <3>1, NodeLeft
      <4>3. p.status = q.status /\ p.passes = q.passes
        BY DEF Alike
      <4> QED BY <4>1, <4>2, <4>3
    <3>3. /\ Handle(p, e).run = p.run /\ Handle(p, e).started = p.started
          /\ Handle(p, e).ended = p.ended /\ Handle(p, e).current = p.current
          /\ Handle(q, e).run = q.run /\ Handle(q, e).started = q.started
          /\ Handle(q, e).ended = q.ended /\ Handle(q, e).current = q.current
      BY <2>1, NodeLeftShown
    <3> QED BY <2>1, <3>2, <3>3 DEF Alike
  <2> QED BY <2>2, <2>3
<1>7. ~Attaches(s, e, t) /\ ~Discovers(s, e, t) /\ (Iterates(s, e, t) => e.type \in {"iter.start", "iter.end"})
  BY DEF Attaches, Discovers, Iterates
<1> QED BY <1>1, <1>2, <1>3, <1>4, <1>5, <1>6, <1>7 DEF StepAt

(* Whose page it is after an event, and whether that run is in progress.   *)
LEMMA RunAfter ==
    ASSUME NEW s, NEW t, NEW e \in Events, StepAt(s, e, t), NEW p \in Pages
    PROVE  LET q == Handle(p, e) IN
           /\ q \in Pages
           /\ e.type = "graph.topology" =>
                /\ LiveForeign(p, e) => q = p
                /\ ~LiveForeign(p, e) =>
                     /\ q.run = e.run
                     /\ IF e.run = p.run THEN q.started = p.started /\ q.ended = p.ended
                                         ELSE ~q.started /\ ~q.ended
           /\ Starts(s, e, t) =>
                /\ LiveForeign(p, e) => q = p
                /\ ~LiveForeign(p, e) => q.run = e.run /\ q.started
           /\ Ends(s, e, t) =>
                /\ q.run = p.run /\ q.started = p.started
                /\ IF e.run = p.run THEN q.ended ELSE q = p
           /\ e.type # "graph.topology" /\ ~Starts(s, e, t) /\ ~Ends(s, e, t) =>
                q.run = p.run /\ q.started = p.started /\ q.ended = p.ended
<1> DEFINE q == Handle(p, e)
<1>1. CASE Attaches(s, e, t) \/ Discovers(s, e, t)
  <2>1. e.type = "graph.topology" /\ q = OnTopology(p, e) /\ ~Starts(s, e, t) /\ ~Ends(s, e, t)
    BY <1>1, HandlesKinds DEF Attaches, Discovers, Starts, Ends
  <2> HIDE DEF q
  <2> QED BY <2>1, TopologyShown, ShownFacts DEF q
<1>2. CASE Starts(s, e, t)
  <2>1. e.type # "graph.topology" /\ q = OnRunStart(p, e) /\ ~Ends(s, e, t)
    BY <1>2, HandlesKinds DEF Starts, Ends
  <2> HIDE DEF q
  <2> QED BY <1>2, <2>1, RunStartShown DEF q
<1>3. CASE Ends(s, e, t)
  <2>1. e.type # "graph.topology" /\ q = OnRunEnd(p, e) /\ ~Starts(s, e, t)
    BY <1>3, HandlesKinds DEF Starts, Ends
  <2> HIDE DEF q
  <2> QED BY <1>3, <2>1, RunEndShown DEF q
<1>4. CASE Iterates(s, e, t)
  <2>1. /\ e.type # "graph.topology" /\ ~Starts(s, e, t) /\ ~Ends(s, e, t) /\ e.pass \in PassNumbers
        /\ q = OnIterStart(p, e) \/ q = OnIterEnd(p, e)
    BY <1>4, HandlesKinds DEF Iterates, Starts, Ends
  <2> HIDE DEF q
  <2> QED BY <2>1, IterStartShown, IterEndShown DEF q
<1>5. CASE Enters(s, e, t)
  <2>1. /\ e.type # "graph.topology" /\ ~Starts(s, e, t) /\ ~Ends(s, e, t) /\ e.node \in Nodes
        /\ q = OnNodeStart(p, e)
    BY <1>5, HandlesKinds DEF Enters, Starts, Ends
  <2> HIDE DEF q
  <2> QED BY <2>1, NodeStartShown DEF q
<1>6. CASE Leaves(s, e, t)
  <2>1. /\ e.type # "graph.topology" /\ ~Starts(s, e, t) /\ ~Ends(s, e, t) /\ e.node \in Nodes
        /\ e.pass \in PassNumbers /\ (q = OnNodeEnd(p, e) \/ q = OnNodeError(p, e))
    BY <1>6, HandlesKinds DEF Leaves, Starts, Ends
  <2> HIDE DEF q
  <2> QED BY <2>1, NodeLeftShown DEF q
<1> QED BY <1>1, <1>2, <1>3, <1>4, <1>5, <1>6 DEF StepAt

(* What an event makes of the stages.                                      *)
LEMMA StagesAfter ==
    ASSUME NEW s \in Moments, NEW t \in Moments, NEW e \in Events, StepAt(s, e, t)
    PROVE  /\ e.run \in Runs
           /\ \A r \in Runs \ {e.run} : t.stage[r] = s.stage[r]
           /\ Attaches(s, e, t) => s.stage[e.run] = "new" /\ t.stage[e.run] = "attaching"
           /\ Starts(s, e, t) => s.stage[e.run] = "attaching" /\ t.stage[e.run] = "running"
           /\ Ends(s, e, t) => s.stage[e.run] = "running" /\ t.stage[e.run] = "ended"
           /\ ~Attaches(s, e, t) /\ ~Starts(s, e, t) /\ ~Ends(s, e, t) =>
                s.stage[e.run] = "running" /\ t.stage[e.run] = "running"
           /\ e.type = "graph.topology" <=> Attaches(s, e, t) \/ Discovers(s, e, t)
<1>1. e.run \in Runs /\ DOMAIN s.stage = Runs
  BY DEF Events, Moments
<1> QED BY <1>1 DEF StepAt, Attaches, Discovers, Starts, Ends, Iterates, Enters, Leaves

\* What a page that saw the topologies of the runs in Z tells of them: the shown one
\* has begun, its topology was seen unless it runs, and it is in progress as shown.
KnownAt(g, s, Z) ==
    /\ g \in Pages
    /\ \A r \in Runs : g.run = r =>
          /\ s.stage[r] # "new"
          /\ s.stage[r] = "attaching" => r \in Z
          /\ g.started /\ ~g.ended => s.stage[r] = "running"

Seen(Z, e) == IF e.type = "graph.topology" THEN Z \cup {e.run} ELSE Z

(* The page handles an event.                                              *)
LEMMA KnownStep ==
    ASSUME NEW s \in Moments, NEW t \in Moments, NEW e \in Events, StepAt(s, e, t),
           NEW g, NEW Z, KnownAt(g, s, Z)
    PROVE  KnownAt(Handle(g, e), t, Seen(Z, e))
<1> DEFINE q == Handle(g, e)
<1>1. g \in Pages /\ q \in Pages
  BY RunAfter DEF KnownAt
<1> SUFFICES ASSUME NEW r \in Runs, q.run = r
             PROVE  /\ t.stage[r] # "new"
                    /\ t.stage[r] = "attaching" => r \in Seen(Z, e)
                    /\ q.started /\ ~q.ended => t.stage[r] = "running"
  BY <1>1 DEF KnownAt
<1>2. Z \subseteq Seen(Z, e) /\ (e.type = "graph.topology" => e.run \in Seen(Z, e))
  BY DEF Seen
<1>3. g.run = r => /\ s.stage[r] # "new"
                   /\ s.stage[r] = "attaching" => r \in Z
                   /\ g.started /\ ~g.ended => s.stage[r] = "running"
  BY DEF KnownAt
<1>4. LiveForeign(g, e) => g.run # e.run
  BY DEF LiveForeign
<1> HIDE DEF q
<1>5. CASE e.type = "graph.topology"
  <2>1. /\ LiveForeign(g, e) => q = g
        /\ ~LiveForeign(g, e) =>
             /\ q.run = e.run
             /\ IF e.run = g.run THEN q.started = g.started /\ q.ended = g.ended ELSE ~q.started /\ ~q.ended
    BY <1>1, <1>5, RunAfter DEF q
  <2>2. ~Starts(s, e, t) /\ ~Ends(s, e, t)
    BY <1>5 DEF Starts, Ends
  <2>3. /\ t.stage[e.run] # "new" /\ e.run \in Runs
        /\ s.stage[e.run] = "new" \/ t.stage[e.run] = s.stage[e.run]
        /\ \A x \in Runs \ {e.run} : t.stage[x] = s.stage[x]
    BY <2>2, StagesAfter
  <2>4. CASE g.run = r
    BY <1>2, <1>3, <1>4, <2>1, <2>3, <2>4
  <2>5. CASE g.run # r
    BY <1>2, <1>5, <2>1, <2>3, <2>5
  <2> QED BY <2>4, <2>5
<1>6. CASE Starts(s, e, t)
  <2>1. /\ LiveForeign(g, e) => q = g
        /\ ~LiveForeign(g, e) => q.run = e.run /\ q.started
    BY <1>1, <1>6, RunAfter DEF q
  <2> QED BY <1>2, <1>3, <1>4, <1>6, <2>1, StagesAfter
<1>7. CASE Ends(s, e, t)
  <2>1. q.run = g.run /\ q.started = g.started /\ IF e.run = g.run THEN q.ended ELSE q = g
    BY <1>1, <1>7, RunAfter DEF q
  <2> QED BY <1>2, <1>3, <1>7, <2>1, StagesAfter
<1>8. CASE e.type # "graph.topology" /\ ~Starts(s, e, t) /\ ~Ends(s, e, t)
  <2>1. q.run = g.run /\ q.started = g.started /\ q.ended = g.ended
    BY <1>1, <1>8, RunAfter DEF q
  <2>2. ~Attaches(s, e, t)
    BY <1>8 DEF Attaches
  <2> QED BY <1>2, <1>3, <1>8, <2>1, <2>2, StagesAfter
<1> QED BY <1>5, <1>6, <1>7, <1>8

(* The page misses the first topology of a run.                            *)
LEMMA KnownSkip ==
    ASSUME NEW s \in Moments, NEW t \in Moments, NEW e \in Events, StepAt(s, e, t), Attaches(s, e, t),
           NEW g, NEW Z, KnownAt(g, s, Z)
    PROVE  KnownAt(g, t, Z)
BY StagesAfter DEF KnownAt

\* Of page g, while the page that saw everything shows x
RebuiltAt(g, s, Z, x) ==
    s.page.run = x =>
        /\ x \in Z => g = s.page
        /\ s.page.started => Alike(g, s.page)

(* The fresh page misses the first topology of a run.                      *)
LEMMA RebuiltSkip ==
    ASSUME NEW s \in Moments, NEW t \in Moments, NEW e \in Events, StepAt(s, e, t), Attaches(s, e, t),
           NEW g, NEW Z, NEW x \in Runs, RebuiltAt(g, s, Z, x), ShownAt(s),
           x \in Z => s.stage[x] # "new"
    PROVE  RebuiltAt(g, t, Z, x)
<1>1. SUFFICES ASSUME t.page.run = x
               PROVE  /\ x \in Z => g = t.page
                      /\ t.page.started => Alike(g, t.page)
  BY DEF RebuiltAt
<1>2. /\ s.page \in Pages /\ t.page = Handle(s.page, e) /\ e.type = "graph.topology"
      /\ e.run \in Runs /\ s.stage[e.run] = "new"
  BY StagesAfter DEF Moments, StepAt, Attaches
<1>3. s.page.run # e.run
  BY <1>2 DEF ShownAt
<1>4. CASE LiveForeign(s.page, e)
  <2>1. t.page = s.page
    BY <1>2, <1>4, RunAfter
  <2> QED BY <1>1, <2>1 DEF RebuiltAt
<1>5. CASE ~LiveForeign(s.page, e)
  <2>1. t.page.run = e.run /\ ~t.page.started
    BY <1>2, <1>3, <1>5, RunAfter
  <2> QED BY <1>1, <1>2, <2>1
<1> QED BY <1>4, <1>5

(* Both pages handle an event.                                             *)
LEMMA RebuiltStep ==
    ASSUME NEW s \in Moments, NEW t \in Moments, NEW e \in Events, StepAt(s, e, t),
           NEW c, ShownAt(s), UncrossedAt(s, c), UncrossedAt(t, c),
           NEW g, NEW Z, KnownAt(g, s, Z), NEW x \in Runs \ c, RebuiltAt(g, s, Z, x),
           x \in Z => s.stage[x] # "new"
    PROVE  RebuiltAt(Handle(g, e), t, Seen(Z, e), x)
<1> DEFINE p == s.page
           q == Handle(g, e)
<1>1. /\ p \in Pages /\ g \in Pages /\ t.page = Handle(p, e) /\ t.page \in Pages /\ q \in Pages
      /\ e.run \in Runs /\ x \in Runs /\ NoRun \notin Runs
  BY RunAfter, Constants DEF KnownAt, Moments, StepAt, Events
<1>2. SUFFICES ASSUME t.page.run = x
               PROVE  /\ x \in Seen(Z, e) => q = t.page
                      /\ t.page.started => Alike(q, t.page)
  BY DEF RebuiltAt
<1>3. /\ s.stage[x] = "attaching" =>
            /\ p = Reset(p, x)
            /\ \A y \in Runs \ {x} : s.stage[y] \notin {"attaching", "running"}
      /\ s.stage[x] = "running" => p.run = x /\ p.started
      /\ s.stage[x] = "ended" /\ p.run = x => p.started
      /\ t.stage[x] = "attaching" => \A y \in Runs \ {x} : t.stage[y] \notin {"attaching", "running"}
  BY DEF UncrossedAt
<1>4. /\ g.run \in Runs =>
            /\ s.stage[g.run] # "new"
            /\ s.stage[g.run] = "attaching" => g.run \in Z
            /\ g.started /\ ~g.ended => s.stage[g.run] = "running"
      /\ g.run = NoRun \/ g.run \in Runs
  BY <1>1 DEF KnownAt, Pages
<1>5. LiveForeign(g, e) => g.run \in Runs /\ g.run # e.run /\ s.stage[g.run] = "running"
  BY <1>1, <1>4 DEF LiveForeign
<1>6. p.run = x => /\ s.stage[x] # "new"
                   /\ x \in Z => g = p
                   /\ p.started => Alike(g, p)
                   /\ p.ended <=> s.stage[x] = "ended"
  BY <1>1 DEF ShownAt, RebuiltAt
<1>7. s.stage[x] \in {"new", "attaching", "running", "ended"} /\ DOMAIN s.stage = Runs
  BY <1>1 DEF Moments
<1> HIDE DEF p, q
<1>8. CASE p.run # x
  (* Only the topology of x brings its page.                               *)
  <2>1. Attaches(s, e, t) /\ e.run = x /\ ~LiveForeign(p, e)
    <3>1. s.stage[x] # "attaching"
      <4> SUFFICES ASSUME s.stage[x] = "attaching" PROVE FALSE
        OBVIOUS
      <4> QED BY <1>1, <1>3, <1>8, ResetFacts
    <3>2. s.stage[x] # "running"
      BY <1>3, <1>8
    <3>3. e.run = x /\ ~LiveForeign(p, e)
      BY <1>1, <1>2, <1>8, RunAfter, StagesAfter DEF p
    <3> QED BY <3>1, <3>2, <3>3, StagesAfter
  <2>2. s.stage[x] = "new" /\ t.stage[x] = "attaching" /\ e.type = "graph.topology"
    BY <2>1, StagesAfter
  <2>3. g.run # x /\ ~LiveForeign(g, e)
    <3>1. g.run # x
      BY <1>1, <1>4, <2>2
    <3>2. LiveForeign(g, e) => t.stage[g.run] = "running" /\ g.run \in Runs \ {x}
      BY <1>5, <2>1, StagesAfter
    <3> QED BY <1>3, <2>2, <3>1, <3>2
  <2>4. t.page = OnTopology(p, e) /\ q = OnTopology(g, e)
    BY <1>1, <2>2, HandlesKinds DEF q
  <2>5. /\ t.page = Reset(t.page, x) /\ t.page.nodes = e.nodes
        /\ q = Reset(q, x) /\ q.nodes = e.nodes
    BY <1>1, <1>8, <2>1, <2>3, <2>4, FirstTopology
  <2>6. q = t.page
    BY <2>5 DEF Reset
  <2> QED BY <2>6 DEF Alike
<1>9. CASE p.run = x /\ p.started
  <2>1. Alike(g, p)
    BY <1>6, <1>9
  <2>2. LiveForeign(g, e) <=> LiveForeign(p, e)
    BY <2>1, AlikeLive
  <2>3. CASE e.type = "graph.topology" /\ e.run = x
    <3>1. ~LiveForeign(p, e) /\ ~LiveForeign(g, e) /\ g.run = p.run /\ e.run = p.run /\ e.run = g.run
      BY <1>9, <2>1, <2>2, <2>3 DEF LiveForeign, Alike
    <3>2. t.page = OnTopology(p, e) /\ q = OnTopology(g, e) /\ Shown(p, e) = p /\ Shown(g, e) = g
      BY <1>1, <2>3, <3>1, HandlesKinds, ShownFacts DEF q
    <3>3. /\ t.page.run = e.run /\ t.page.nodes = e.nodes
          /\ t.page.started = p.started /\ t.page.ended = p.ended
          /\ t.page.current = p.current /\ t.page.passes = p.passes
          /\ \A n \in Nodes : t.page.status[n] = IF n \in e.nodes THEN p.status[n] ELSE Idle
      BY <1>1, <3>1, <3>2, TopologyShown
    <3>4. /\ q.run = e.run /\ q.nodes = e.nodes
          /\ q.started = g.started /\ q.ended = g.ended
          /\ q.current = g.current /\ q.passes = g.passes
          /\ \A n \in Nodes : q.status[n] = IF n \in e.nodes THEN g.status[n] ELSE Idle
      BY <1>1, <3>1, <3>2, TopologyShown
    <3>5. \A n \in Nodes : q.status[n] = t.page.status[n]
      BY <2>1, <3>3, <3>4 DEF Alike
    <3>6. q.status = t.page.status
      BY <1>1, <3>5 DEF Pages
    <3>7. q = t.page
      BY <1>1, <2>1, <3>3, <3>4, <3>6, SamePage DEF Alike
    <3> QED BY <3>7 DEF Alike
  <2>4. CASE e.type = "graph.topology" /\ e.run # x
    <3>1. LiveForeign(p, e)
      BY <1>1, <1>2, <2>4, RunAfter
    <3>2. t.page = p /\ q = g
      BY <1>1, <2>2, <2>4, <3>1, RunAfter DEF q
    <3>3. x \in Seen(Z, e) => x \in Z
      BY <2>4 DEF Seen
    <3> QED BY <1>6, <1>9, <2>1, <3>2, <3>3
  <2>5. CASE e.type # "graph.topology"
    <3>1. Seen(Z, e) = Z
      BY <2>5 DEF Seen
    <3>2. g = p => q = t.page
      BY <1>1 DEF q
    <3>3. Starts(s, e, t) => e.run = p.run \/ LiveForeign(p, e)
      BY <1>1, <1>2, <1>9, RunAfter
    <3>4. Alike(q, t.page)
      <4>1. g.run = p.run
        BY <2>1 DEF Alike
      <4>2. Starts(s, e, t) => e.run = g.run \/ LiveForeign(g, e)
        BY <2>2, <3>3, <4>1
      <4> QED BY <1>1, <2>1, <2>5, <4>2, AlikeStep DEF q
    <3> QED BY <1>6, <1>9, <3>1, <3>2, <3>4
  <2> QED BY <2>3, <2>4, <2>5
<1>10. CASE p.run = x /\ ~p.started
  (* Nobody else is in progress: what comes is the run.start of x.         *)
  <2>1. s.stage[x] = "attaching" /\ p = Reset(p, x)
    BY <1>3, <1>6, <1>7, <1>10
  <2>2. ~Attaches(s, e, t)
    <3> SUFFICES ASSUME Attaches(s, e, t) PROVE FALSE
      OBVIOUS
    <3>1. e.run # x /\ t.stage[e.run] = "attaching" /\ t.stage[x] = "attaching"
      BY <1>1, <2>1, StagesAfter
    <3> QED BY <1>1, <1>3, <3>1
  <2>3. Starts(s, e, t) /\ e.run = x
    BY <1>1, <1>3, <2>1, <2>2, StagesAfter
  <2>4. ~LiveForeign(p, e) /\ ~LiveForeign(g, e)
    BY <1>3, <1>5, <1>10, <2>1, <2>3 DEF LiveForeign
  <2>5. t.page = OnRunStart(p, e) /\ q = OnRunStart(g, e) /\ Seen(Z, e) = Z
    BY <1>1, <2>3, HandlesKinds DEF q, Starts, Seen
  <2>6. x \in Z => q = t.page
    BY <1>6, <1>10, <2>5
  <2>7. CASE x \in Z
    BY <2>6, <2>7 DEF Alike
  <2>8. CASE x \notin Z
    <3>1. g.run # x /\ Shown(g, e) = Reset(g, x)
      BY <1>1, <1>4, <2>1, <2>3, <2>8 DEF Shown
    <3>2. Shown(p, e) = p
      BY <1>1, <1>10, <2>3, ShownFacts
    <3>3. /\ Reset(g, x).status = EmptyPage.status /\ p.status = EmptyPage.status
          /\ Reset(g, x).passes = EmptyPage.passes /\ p.passes = EmptyPage.passes
          /\ Reset(g, x).current = EmptyPage.current /\ p.current = EmptyPage.current
      BY <1>1, <2>1, ResetFacts
    <3>4. /\ t.page.run = x /\ t.page.started /\ ~t.page.ended
          /\ t.page.current = p.current /\ t.page.passes = p.passes /\ t.page.status = p.status
      BY <1>1, <2>3, <2>4, <2>5, <3>2, RunStartShown
    <3>5. /\ q.run = x /\ q.started /\ ~q.ended
          /\ q.current = Reset(g, x).current /\ q.passes = Reset(g, x).passes
          /\ q.status = Reset(g, x).status
      BY <1>1, <2>3, <2>4, <2>5, <3>1, RunStartShown
    <3>6. q.started = t.page.started /\ q.ended = t.page.ended
      BY <1>1, <3>4, <3>5 DEF Pages
    <3>7. Alike(q, t.page)
      BY <3>3, <3>4, <3>5, <3>6 DEF Alike
    <3> QED BY <2>5, <2>8, <3>7
  <2> QED BY <2>7, <2>8
<1> QED BY <1>8, <1>9, <1>10

(* What the runs' topologies tell, and what the page makes of them, event   *)
(* by event.                                                               *)
LEMMA RebuiltFold ==
    ASSUME NEW h, NEW es, NEW c, TraceOf(h, es, c), NEW K, NEW f, FoldOf(f, es, K),
           \A i \in 1..Len(es) \ K : Attaches(h[i - 1], es[i], h[i]),
           NEW x \in Runs \ c, h[Len(es)].page.run = x,
           \E j \in 1..Len(es) : j \in K /\ TopologyAt(es, j) /\ es[j].run = x
    PROVE  f[Len(es)] = h[Len(es)].page
<1> DEFINE N == Len(es)
           Z(i) == {r \in Runs : \E j \in 1..i : j \in K /\ TopologyAt(es, j) /\ es[j].run = r}
           T == {i \in 0..N : KnownAt(f[i], h[i], Z(i)) /\ RebuiltAt(f[i], h[i], Z(i), x)}
<1>1. /\ N \in Nat /\ es \in Seq(Events) /\ h \in [0..N -> Moments] /\ h[0].page = EmptyPage
      /\ \A i \in 1..N : es[i] \in Events /\ StepAt(h[i - 1], es[i], h[i])
      /\ \A i \in 0..N : ShownAt(h[i]) /\ UncrossedAt(h[i], c)
      /\ \A i \in 0..N : \A j \in 1..i : h[i].stage[es[j].run] # "new"
      /\ f[0] = EmptyPage
      /\ \A i \in 1..N : f[i] = IF i \in K THEN Handle(f[i - 1], es[i]) ELSE f[i - 1]
  BY DEF TraceOf, FoldOf
<1> HIDE DEF N
<1>2. h \in [0..N -> Moments]
  BY <1>1
<1>3. \A i \in 0..N : h[i] \in Moments
  BY <1>2
<1>4. \A i \in 0..N : \A r \in Z(i) : h[i].stage[r] # "new"
  BY <1>1
<1>5. 0 \in T
  <2>1. EmptyPage \in Pages /\ EmptyPage.run = NoRun /\ \A r \in Runs : r # NoRun
    BY EmptyFacts, Constants
  <2>2. KnownAt(EmptyPage, h[0], Z(0)) /\ RebuiltAt(EmptyPage, h[0], Z(0), x)
    BY <1>1, <2>1 DEF KnownAt, RebuiltAt
  <2> HIDE DEF Z
  <2> QED BY <1>1, <2>2
<1>6. ASSUME NEW i \in 1..N, i - 1 \in T PROVE i \in T
  <2> DEFINE g == f[i - 1]
             s == h[i - 1]
             t == h[i]
             e == es[i]
  <2>1. KnownAt(g, s, Z(i - 1)) /\ RebuiltAt(g, s, Z(i - 1), x)
    BY <1>6
  <2>2. i - 1 \in 0..N /\ i \in 0..N
    BY <1>1
  <2>3. /\ s \in Moments /\ t \in Moments /\ e \in Events /\ StepAt(s, e, t)
        /\ ShownAt(s) /\ UncrossedAt(s, c) /\ UncrossedAt(t, c)
        /\ x \in Z(i - 1) => s.stage[x] # "new"
        /\ f[i] = IF i \in K THEN Handle(g, e) ELSE g
    <3> HIDE DEF Z, T
    <3> QED BY <1>1, <1>3, <1>4, <2>2
  <2>4. IF i \in K THEN Z(i) = Seen(Z(i - 1), e) ELSE Z(i) = Z(i - 1)
    <3>1. \A j : j \in 1..i <=> j = i \/ j \in 1..(i - 1)
      BY <1>1
    <3>2. e.run \in Runs
      BY <2>3 DEF Events
    <3> QED BY <3>1, <3>2 DEF Seen, TopologyAt
  <2> HIDE DEF T, Z, g, s, t, e
  <2>5. CASE i \in K
    <3>1. KnownAt(f[i], t, Z(i))
      BY <2>1, <2>3, <2>4, <2>5, KnownStep
    <3>2. RebuiltAt(f[i], t, Z(i), x)
      BY <2>1, <2>3, <2>4, <2>5, RebuiltStep
    <3> QED BY <2>2, <3>1, <3>2 DEF T, t
  <2>6. CASE i \notin K
    <3>1. Attaches(s, e, t)
      BY <2>6 DEF s, e, t, N
    <3>2. KnownAt(f[i], t, Z(i))
      BY <2>1, <2>3, <2>4, <2>6, <3>1, KnownSkip
    <3>3. RebuiltAt(f[i], t, Z(i), x)
      BY <2>1, <2>3, <2>4, <2>6, <3>1, RebuiltSkip
    <3> QED BY <2>2, <3>2, <3>3 DEF T, t
  <2> QED BY <2>5, <2>6
<1>7. N \in T
  <2> HIDE DEF T
  <2>1. \A i \in 0..N : i \in T
    BY <1>1, <1>5, <1>6, UpTo
  <2> QED BY <1>1, <2>1
<1>8. RebuiltAt(f[N], h[N], Z(N), x)
  <2> HIDE DEF Z
  <2> QED BY <1>7
<1>9. x \in Z(N)
  BY DEF N
<1> HIDE DEF Z
<1> QED BY <1>8, <1>9 DEF RebuiltAt, N

(* FreshTabReconstructs, for any runs that overlap in any way, and any ring *)
(* that has evicted nothing: a tab opened now shows what the tab that was  *)
(* open all along shows, though the replay lacks the topologies that were  *)
(* replaced; unless the attach() of the shown run overlapped another run.  *)
THEOREM FreshTabCorrect == Spec => []FreshTabReconstructs
<1>1. WholeInv => FreshTabReconstructs
  <2> SUFFICES ASSUME WholeInv, NothingEvicted, page.run \notin crossed PROVE FreshPage = page
    BY DEF FreshTabReconstructs
  <2> DEFINE N == Len(events)
             K == {i \in 1..N : InReplay(i)}
  <2>1. PICK h : TraceOf(h, events, crossed) /\ h[N] = Now /\ LastTopologies(h, events, drawn)
    BY DEF WholeInv, TraceInv
  <2>2. N \in Nat /\ events \in Seq(Events) /\ DOMAIN events = 1..N
    BY <2>1 DEF TraceOf
  <2>3. PICK f : FoldOf(f, events, K) /\ FreshPage = f[N]
    BY <2>2, FreshFold
  <2>4. Misses(h, events, K)
    BY <2>1, ReplayMisses
  <2>5. \A i \in 1..N : ~TopologyAt(events, i) => i \in K
    BY <2>2 DEF NothingEvicted, InReplay, IsTopology, TopologyAt
  <2>6. \A i \in 1..N : LatestAt(events, i) => i \in K /\ TopologyAt(events, i)
    BY <2>2 DEF InReplay, Pinned, IsTopology, LatestAt, TopologyAt
  <2> HIDE DEF K
  <2>7. \A i \in 1..N \ K : Attaches(h[i - 1], events[i], h[i])
    BY <2>4, <2>5 DEF Misses
  <2>8. page.run = NoRun \/ page.run \in Runs
    BY DEF WholeInv, Inv, PageTypes, Pages
  <2>9. CASE page.run \in Runs
    <3>1. stage[page.run] # "new"
      BY <2>9 DEF WholeInv, Inv, PageInv, ShownInv
    <3>2. PICK j \in 1..N : events[j].run = page.run /\ LatestAt(events, j)
      BY <2>1, <2>9, <3>1 DEF LastTopologies, Now
    <3>3. h[N].page = page
      BY <2>1 DEF Now
    <3>4. j \in K /\ TopologyAt(events, j)
      BY <2>6, <3>2
    <3> QED BY <2>1, <2>3, <2>7, <2>9, <3>2, <3>3, <3>4, RebuiltFold
  <2>10. CASE page.run = NoRun
    <3>1. page.run \notin Runs
      BY <2>10, Constants
    <3> QED BY <3>1, FinalPages DEF WholeInv
  <2> QED BY <2>8, <2>9, <2>10
<1> QED BY <1>1, TraceCorrect, PTL
=============================================================================
