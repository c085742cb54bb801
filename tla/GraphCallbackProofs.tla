------------------------- MODULE GraphCallbackProofs ------------------------
(***************************************************************************)
(* Proofs about the LangGraph observer, for any number of invokes, of node *)
(* executions and of nodes, overlapping in any way.                        *)
(***************************************************************************)
EXTENDS GraphCallback, SequenceTheorems, FiniteSetTheorems, TLAPS

-----------------------------------------------------------------------------
(* Steps of the handler, and what each kind leaves alone.                  *)
InvocationStep(r) ==
    \/ RootStart(r) \/ BeginIteration(r) \/ PublishPassStart(r) \/ RootOk(r)
    \/ \E how \in {"ok", "failed"} : RootEnd(r, how)

CloserStep(x) ==
    \/ CheckOpen(x) \/ ClearOpen(x) \/ PublishPassEnd(x)
    \/ CheckEnded(x) \/ SetEnded(x) \/ PublishRunEnd(x)

ProgramStep == Finish \/ SetIteration \/ ForgetLastNode

\* A step of an invocation's thread or of the program's own
OuterStep(x) ==
    \/ x \in Invocations /\ InvocationStep(x)
    \/ CloserStep(x)
    \/ x = Program /\ ProgramStep

TaskStep(t) ==
    \/ \E r \in Invocations, node \in Nodes : TaskStart(t, r, node)
    \/ \E how \in {"node.end", "node.error"} : TaskEnd(t, how) \/ TaskReport(t, how)
    \/ TaskEdge(t) \/ TaskVisit(t)
    \/ Discover(t) \/ SetContainers(t) \/ PublishTopology(t)

(* Every step is one of an invocation, of a task or of the program.        *)
LEMMA StepKinds ==
    [Next]_vars <=> \/ \E x \in Closers : OuterStep(x)
                    \/ \E t \in Tasks : TaskStep(t)
                    \/ UNCHANGED vars
    BY DEF Next, InvocationStep, CloserStep, ProgramStep, OuterStep, TaskStep, Closers

(* A callback moves its own invocation or task only.                       *)
LEMMA MoveFacts ==
    ASSUME TypeOK, NEW x \in Closers \cup Tasks, NEW here, NEW there, Move(x, here, there)
    PROVE  /\ DOMAIN at' = Invocations \cup Tasks \cup {Program}
           /\ at[x] = here /\ at'[x] = there
           /\ \A y \in Closers \cup Tasks : y # x => at'[y] = at[y]
    BY DEF Move, TypeOK, Closers

\* Where the thread of an invocation, or the program, may be
Places(x) == IF x = Program THEN ProgramPlaces ELSE InvocationPlaces

(* Where a step of one of them leads.                                      *)
LEMMA OuterMoves ==
    ASSUME TypeOK, NEW x \in Closers, OuterStep(x)
    PROVE  /\ DOMAIN at' = Invocations \cup Tasks \cup {Program}
           /\ at'[x] \in Places(x)
           /\ \A y \in Closers : y # x => at'[y] = at[y]
           /\ \A t \in Tasks : at'[t] = at[t]
           /\ UNCHANGED <<autoIteration, taskVars, shapeVars, visits, drawn>>
<1>1. ASSUME NEW here, NEW there, there \in Places(x), Move(x, here, there)
      PROVE  /\ DOMAIN at' = Invocations \cup Tasks \cup {Program}
             /\ at'[x] \in Places(x)
             /\ \A y \in Closers : y # x => at'[y] = at[y]
             /\ \A t \in Tasks : at'[t] = at[t]
  BY <1>1, MoveFacts, RunsAssumption DEF Closers
<1>2. \E here, there : there \in Places(x) /\ Move(x, here, there)
  <2>1. ASSUME x \in Invocations, InvocationStep(x) PROVE \E here, there : there \in Places(x) /\ Move(x, here, there)
    BY <2>1, RunsAssumption DEF InvocationStep, RootStart, BeginIteration, PublishPassStart, RootOk, RootEnd, Places,
       InvocationPlaces, ClosingPlaces
  <2>2. ASSUME CloserStep(x) PROVE \E here, there : there \in Places(x) /\ Move(x, here, there)
    BY <2>2 DEF CloserStep, CheckOpen, ClearOpen, PublishPassEnd, CheckEnded, SetEnded, PublishRunEnd, Through,
       Places, InvocationPlaces, ProgramPlaces, ClosingPlaces
  <2>3. ASSUME x = Program, ProgramStep PROVE \E here, there : there \in Places(x) /\ Move(x, here, there)
    BY <2>3 DEF ProgramStep, Finish, SetIteration, ForgetLastNode, Places, ProgramPlaces, ClosingPlaces
  <2> QED BY <2>1, <2>2, <2>3 DEF OuterStep
<1>3. UNCHANGED <<autoIteration, taskVars, shapeVars, visits, drawn>>
  <2>1. InvocationStep(x) => UNCHANGED <<autoIteration, taskVars, shapeVars, visits, drawn>>
    BY DEF InvocationStep, RootStart, BeginIteration, PublishPassStart, RootOk, RootEnd, PublishMark, PublishEdge, out
  <2>2. CloserStep(x) => UNCHANGED <<autoIteration, taskVars, shapeVars, visits, drawn>>
    BY DEF CloserStep, CheckOpen, ClearOpen, PublishPassEnd, CheckEnded, SetEnded, PublishRunEnd, PublishMark, out
  <2>3. ProgramStep => UNCHANGED <<autoIteration, taskVars, shapeVars, visits, drawn>>
    BY DEF ProgramStep, Finish, SetIteration, ForgetLastNode, out
  <2> QED BY <2>1, <2>2, <2>3 DEF OuterStep
<1> QED BY <1>1, <1>2, <1>3

(* Where a task's step leads.                                              *)
LEMMA TaskMoves ==
    ASSUME TypeOK, NEW t \in Tasks, TaskStep(t)
    PROVE  /\ DOMAIN at' = Invocations \cup Tasks \cup {Program}
           /\ at'[t] \in TaskPlaces
           /\ \A u \in Tasks : u # t => at'[u] = at[u]
           /\ \A x \in Closers : at'[x] = at[x]
           /\ UNCHANGED <<autoIteration, rootVars, ends, timeline>>
<1>1. ASSUME NEW here, NEW there \in TaskPlaces, Move(t, here, there)
      PROVE  /\ DOMAIN at' = Invocations \cup Tasks \cup {Program}
             /\ at'[t] \in TaskPlaces
             /\ \A u \in Tasks : u # t => at'[u] = at[u]
             /\ \A x \in Closers : at'[x] = at[x]
  BY <1>1, MoveFacts, RunsAssumption DEF Closers
<1>2. \E here, there : there \in TaskPlaces /\ Move(t, here, there)
  BY DEF TaskStep, TaskStart, TaskEdge, TaskVisit, TaskEnd, TaskReport, Discover, SetContainers,
         PublishTopology, TaskPlaces
<1>3. UNCHANGED <<autoIteration, rootVars, ends, timeline>>
  BY DEF TaskStep, TaskStart, TaskEdge, TaskVisit, TaskEnd, TaskReport, Discover, SetContainers,
         PublishTopology, PublishEdge, PublishVisit, out
<1> QED BY <1>1, <1>2, <1>3

-----------------------------------------------------------------------------
(* Discovery: who holds the lock, and what it will draw.                   *)
Exploring(t) == at[t] \in {"including", "drawing"}

Locked ==
    /\ \A t \in Tasks : Exploring(t) => topologyLock = t /\ shape[t] = subgraphs
    /\ \A t \in Tasks : at[t] = "drawing" => containers = Expanded(subgraphs)
    /\ ShapeIsLatest

LEMMA LockInit == Init => Locked
    BY DEF Init, Locked, Exploring, ShapeIsLatest, Expanded

(* A step of a task that is no part of include_subgraph.                   *)
LEMMA NotExploring ==
    ASSUME TypeOK, NEW t \in Tasks,
           \/ \E r \in Invocations, node \in Nodes : TaskStart(t, r, node)
           \/ \E how \in {"node.end", "node.error"} : TaskEnd(t, how) \/ TaskReport(t, how)
           \/ TaskEdge(t) \/ TaskVisit(t)
    PROVE  ~Exploring(t) /\ ~Exploring(t)' /\ UNCHANGED <<shapeVars, drawn>>
<1>1. ASSUME NEW here \in TaskPlaces \ {"including", "drawing"},
             NEW there \in TaskPlaces \ {"including", "drawing"}, Move(t, here, there)
      PROVE  ~Exploring(t) /\ ~Exploring(t)'
  BY <1>1, MoveFacts DEF Exploring
<1>2. \E here, there \in TaskPlaces \ {"including", "drawing"} : Move(t, here, there)
  BY DEF TaskStart, TaskEdge, TaskVisit, TaskEnd, TaskReport, TaskPlaces
<1>3. UNCHANGED <<shapeVars, drawn>>
  BY DEF TaskStart, TaskEdge, TaskVisit, TaskEnd, TaskReport, PublishEdge, PublishVisit, out
<1> QED BY <1>1, <1>2, <1>3

LEMMA LockStep == TypeOK /\ Locked /\ [Next]_vars => Locked'
<1> SUFFICES ASSUME TypeOK, Locked, [Next]_vars PROVE Locked'
  OBVIOUS
<1> USE DEF Exploring
<1>1. ASSUME UNCHANGED <<shapeVars, drawn>>, \A t \in Tasks : at'[t] = at[t] PROVE Locked'
  BY <1>1 DEF Locked, ShapeIsLatest, Expanded, shapeVars
<1>2. ASSUME NEW t \in Tasks, Discover(t) PROVE Locked'
  <2>1. /\ at'[t] = "including" /\ \A u \in Tasks : u # t => at'[u] = at[u]
    BY <1>2, MoveFacts DEF Discover
  <2>2. \A u \in Tasks : ~Exploring(u)
    BY <1>2, RunsAssumption DEF Discover, TopologyFree, Locked
  <2>3. topologyLock' = t /\ shape'[t] = subgraphs'
    BY <1>2 DEF Discover, TypeOK
  <2> QED BY <2>1, <2>2, <2>3 DEF Locked, ShapeIsLatest, Expanded
<1>3. ASSUME NEW t \in Tasks, SetContainers(t) PROVE Locked'
  <2>1. /\ at[t] = "including" /\ at'[t] = "drawing" /\ \A u \in Tasks : u # t => at'[u] = at[u]
    BY <1>3, MoveFacts DEF SetContainers
  <2>2. /\ containers' = Expanded(subgraphs) /\ subgraphs' = subgraphs /\ shape' = shape
        /\ topologyLock' = topologyLock /\ topologyLock = t
    BY <1>3, <2>1 DEF SetContainers, Locked
  <2> QED BY <2>1, <2>2 DEF Locked, ShapeIsLatest, Expanded
<1>4. ASSUME NEW t \in Tasks, PublishTopology(t) PROVE Locked'
  <2>1. /\ at[t] = "drawing" /\ at'[t] = "running" /\ \A u \in Tasks : u # t => at'[u] = at[u]
    BY <1>4, MoveFacts DEF PublishTopology
  <2>2. /\ drawn' = Expanded(subgraphs) /\ subgraphs' = subgraphs /\ containers' = Expanded(subgraphs)
        /\ topologyLock = t
    BY <1>4, <2>1 DEF PublishTopology, Locked
  <2> QED BY <2>1, <2>2 DEF Locked, ShapeIsLatest, Expanded
<1>5. ASSUME NEW t \in Tasks, TaskStep(t) PROVE Locked'
  <2>1. CASE Discover(t) \/ SetContainers(t) \/ PublishTopology(t)
    BY <1>2, <1>3, <1>4, <2>1
  <2>2. CASE ~(Discover(t) \/ SetContainers(t) \/ PublishTopology(t))
    <3>1. ~Exploring(t) /\ ~Exploring(t)' /\ UNCHANGED <<shapeVars, drawn>>
      BY <1>5, <2>2, NotExploring DEF TaskStep
    <3>2. \A u \in Tasks : u # t => at'[u] = at[u]
      BY <1>5, TaskMoves
    <3> QED BY <3>1, <3>2 DEF Locked, ShapeIsLatest, Expanded, shapeVars
  <2> QED BY <2>1, <2>2
<1> QED BY <1>1, <1>5, StepKinds, OuterMoves DEF vars, out

-----------------------------------------------------------------------------
(* Type correctness.  Passes are counted by invokes, and a task that has   *)
(* started has a node and an invoke it belongs to.                         *)
Begun == {r \in Invocations : at[r] \notin {"new", "begin"}}

\* Where only a handler that opens passes gets to
Opening == {"begin", "iter.start", "clear", "iter.end"}

Counted ==
    /\ autoIteration => iteration = Cardinality(Begun)
    /\ \A x \in Closers : at[x] \in Opening => autoIteration
    /\ iterOpen => autoIteration

Tasked ==
    \A t \in Tasks : at[t] # "new" => nodeOf[t] \in Nodes /\ within[t] \in Invocations

\* The events about passes, and the last of them
Marks(s) == {i \in 1..Len(s) : s[i].type # "run.end"}
IsLast(i, s) == i \in Marks(s) /\ \A j \in Marks(s) : j <= i

HasLast(s) == Marks(s) # {} => \E i \in Marks(s) : IsLast(i, s)

Marked == HasLast(timeline)

MarkTypes ==
    [type : {"iter.start", "iter.end", "run.end"}, by : Invocations \cup {None}, pass : Count]

LEMMA AppendFacts ==
    ASSUME NEW S, NEW s \in Seq(S), NEW e \in S
    PROVE  /\ s \o <<e>> \in Seq(S) /\ Len(s) \in Nat /\ Len(s \o <<e>>) = Len(s) + 1
           /\ \A i \in 1..Len(s) : (s \o <<e>>)[i] = s[i]
           /\ (s \o <<e>>)[Len(s) + 1] = e
           /\ s \o <<e>> = Append(s, e)
    OBVIOUS

(* Another event: run.end changes nothing about passes, any other comes    *)
(* last.                                                                   *)
LEMMA MarkFacts ==
    ASSUME NEW s \in Seq(MarkTypes), NEW e \in MarkTypes
    PROVE  /\ e.type = "run.end" => Marks(s \o <<e>>) = Marks(s)
           /\ e.type # "run.end" => IsLast(Len(s) + 1, s \o <<e>>)
<1> DEFINE n == Len(s) + 1
           u == s \o <<e>>
<1>1. /\ Len(s) \in Nat /\ n \in Nat /\ Len(u) = n /\ u[n] = e
      /\ \A i \in 1..Len(s) : u[i] = s[i]
  BY AppendFacts
<1>2. 1..n = (1..Len(s)) \cup {n}
  BY <1>1
<1> HIDE DEF u, n
<1> QED BY <1>1, <1>2 DEF Marks, IsLast, n, u

\* The invoke that opened the pass that is open at the end of a timeline
OpenerIn(s) ==
    IF Marks(s) # {} /\ s[Max(Marks(s))].type = "iter.start" THEN s[Max(Marks(s))].by ELSE None

(* Where a pass is open, its last event tells which invoke opened it.      *)
LEMMA OpenerFacts ==
    ASSUME NEW s \in Seq(MarkTypes)
    PROVE  /\ Marks(s) = {} => OpenerIn(s) = None
           /\ \A i \in Marks(s) : IsLast(i, s) =>
                 OpenerIn(s) = IF s[i].type = "iter.start" THEN s[i].by ELSE None
<1>1. ASSUME NEW i \in Marks(s), IsLast(i, s) PROVE Max(Marks(s)) = i
  <2>1. Marks(s) \subseteq Int /\ \A j \in Marks(s) : i >= j
    BY <1>1 DEF Marks, IsLast
  <2>2. \A k \in Marks(s) : (\A j \in Marks(s) : k >= j) => k = i
    BY <2>1
  <2> HIDE DEF Marks
  <2> QED BY <2>1, <2>2 DEF Max
<1> QED BY <1>1 DEF OpenerIn

LEMMA OpenedByFacts ==
    ASSUME TypeOK
    PROVE  timeline \in Seq(MarkTypes) /\ OpenedBy = OpenerIn(timeline)
<1>1. timeline \in Seq(MarkTypes)
  BY DEF TypeOK, MarkTypes
<1>2. Marks(timeline) = {i \in DOMAIN timeline : timeline[i].type # "run.end"}
  BY <1>1 DEF Marks
<1> QED BY <1>1, <1>2 DEF OpenedBy, OpenerIn

LEMMA OpenedByNext ==
    timeline' \in Seq(MarkTypes) => OpenedBy' = OpenerIn(timeline')
<1> SUFFICES ASSUME timeline' \in Seq(MarkTypes) PROVE OpenedBy' = OpenerIn(timeline')
  OBVIOUS
<1>1. Marks(timeline') = {i \in DOMAIN timeline' : timeline'[i].type # "run.end"}
  BY DEF Marks
<1> QED BY <1>1 DEF OpenedBy, OpenerIn

LEMMA OpenedByType == TypeOK /\ Marked => OpenedBy \in Invocations \cup {None}
<1> SUFFICES ASSUME TypeOK, Marked PROVE OpenedBy \in Invocations \cup {None}
  OBVIOUS
<1>1. timeline \in Seq(MarkTypes)
  BY OpenedByFacts
<1>2. \A i \in Marks(timeline) : timeline[i].by \in Invocations \cup {None}
  <2>1. \A i \in Marks(timeline) : timeline[i] \in MarkTypes
    BY <1>1 DEF Marks
  <2> QED BY <2>1 DEF MarkTypes
<1>3. CASE Marks(timeline) = {}
  BY <1>1, <1>3, OpenedByFacts, OpenerFacts
<1>4. CASE Marks(timeline) # {}
  <2>1. PICK i \in Marks(timeline) : IsLast(i, timeline)
    BY <1>4 DEF Marked, HasLast
  <2>2. OpenedBy = IF timeline[i].type = "iter.start" THEN timeline[i].by ELSE None
    BY <1>1, <2>1, OpenedByFacts, OpenerFacts
  <2> QED BY <1>2, <2>1, <2>2
<1> QED BY <1>3, <1>4

\* The start of a pass, its end, and the end of the run
PassStart(r) == Mark("iter.start", r, iteration)
PassEnd == Mark("iter.end", None, iteration)
RunEnd == Mark("run.end", None, 0)

(* What a step adds to the run's events: one at most.                      *)
LEMMA TimelineSteps ==
    ASSUME TypeOK, [Next]_vars
    PROVE  \/ timeline' = timeline
           \/ iteration' = iteration /\ \E x \in Closers :
                 \/ PublishPassEnd(x) /\ timeline' = timeline \o <<PassEnd>>
                 \/ PublishRunEnd(x) /\ timeline' = timeline \o <<RunEnd>>
                 \/ x \in Invocations /\ PublishPassStart(x) /\ timeline' = timeline \o <<PassStart(x)>>
<1>1. timeline \in Seq(MarkTypes)
  BY OpenedByFacts
<1>2. ASSUME NEW e, PublishMark(e) PROVE timeline' = timeline \o <<e>>
  <2>1. timeline' = Append(timeline, e)
    BY <1>2 DEF PublishMark
  <2> QED BY <1>1, <2>1
<1>3. ASSUME NEW x \in Closers, OuterStep(x)
      PROVE  \/ timeline' = timeline
             \/ iteration' = iteration /\
                 (\/ PublishPassEnd(x) /\ timeline' = timeline \o <<PassEnd>>
                  \/ PublishRunEnd(x) /\ timeline' = timeline \o <<RunEnd>>
                  \/ x \in Invocations /\ PublishPassStart(x) /\ timeline' = timeline \o <<PassStart(x)>>)
  <2>1. PublishPassEnd(x) => timeline' = timeline \o <<PassEnd>> /\ iteration' = iteration
    BY <1>2 DEF PublishPassEnd, PassEnd, rootVars
  <2>2. PublishRunEnd(x) => timeline' = timeline \o <<RunEnd>> /\ iteration' = iteration
    BY <1>2 DEF PublishRunEnd, RunEnd, rootVars
  <2>3. PublishPassStart(x) => timeline' = timeline \o <<PassStart(x)>> /\ iteration' = iteration
    BY <1>2 DEF PublishPassStart, PassStart, rootVars
  <2>4. \/ PublishPassEnd(x) \/ PublishRunEnd(x)
        \/ x \in Invocations /\ PublishPassStart(x)
        \/ timeline' = timeline
    <3>1. InvocationStep(x) => PublishPassStart(x) \/ timeline' = timeline
      BY DEF InvocationStep, RootStart, BeginIteration, RootOk, RootEnd, PublishEdge, out
    <3>2. CloserStep(x) => PublishPassEnd(x) \/ PublishRunEnd(x) \/ timeline' = timeline
      BY DEF CloserStep, CheckOpen, ClearOpen, CheckEnded, SetEnded, out
    <3>3. ProgramStep => timeline' = timeline
      BY DEF ProgramStep, Finish, SetIteration, ForgetLastNode, out
    <3> QED BY <1>3, <3>1, <3>2, <3>3 DEF OuterStep
  <2> QED BY <2>1, <2>2, <2>3, <2>4
<1>4. UNCHANGED vars => timeline' = timeline
  BY DEF vars, out
<1>5. ASSUME NEW t \in Tasks, TaskStep(t) PROVE timeline' = timeline
  BY <1>5, TaskMoves
<1> QED BY <1>3, <1>4, <1>5, StepKinds

(* What a step does to the number of the pass and to the note that one is  *)
(* open.                                                                   *)
LEMMA NumberSteps ==
    ASSUME TypeOK, [Next]_vars
    PROVE  \/ iteration' = iteration /\ iterOpen' = iterOpen
           \/ iteration' = iteration /\ iterOpen' = FALSE /\ \E x \in Closers : ClearOpen(x)
           \/ iteration' = iteration + 1 /\ iterOpen' = TRUE /\ \E r \in Invocations : BeginIteration(r)
           \/ iteration' = iteration + 1 /\ iterOpen' = iterOpen /\ SetIteration
<1>1. ASSUME NEW x \in Closers, OuterStep(x)
      PROVE  \/ iteration' = iteration /\ iterOpen' = iterOpen
             \/ iteration' = iteration /\ iterOpen' = FALSE /\ ClearOpen(x)
             \/ iteration' = iteration + 1 /\ iterOpen' = TRUE /\ x \in Invocations /\ BeginIteration(x)
             \/ iteration' = iteration + 1 /\ iterOpen' = iterOpen /\ SetIteration
  BY <1>1 DEF OuterStep, InvocationStep, RootStart, BeginIteration, PublishPassStart, RootOk, RootEnd, CloserStep,
     CheckOpen, ClearOpen, PublishPassEnd, CheckEnded, SetEnded, PublishRunEnd, ProgramStep, Finish, SetIteration,
     ForgetLastNode, NextPass, NoLongerOpen, rootVars
<1>2. UNCHANGED vars => iteration' = iteration /\ iterOpen' = iterOpen
  BY DEF vars, rootVars
<1>3. ASSUME NEW t \in Tasks, TaskStep(t) PROVE iteration' = iteration /\ iterOpen' = iterOpen
  BY <1>3, TaskMoves DEF rootVars
<1> QED BY <1>1, <1>2, <1>3, StepKinds

(* The number of the pass an invoke opens.                                 *)
LEMMA CountStep ==
    ASSUME TypeOK, Counted, [Next]_vars
    PROVE  Counted' /\ iteration' \in Count
<1>1. Cardinality(Invocations) \in Nat
  BY RunsAssumption, FS_CardinalityType
<1>2. iteration' \in Count /\ (autoIteration' => iteration' = Cardinality(Begun'))
  <2>1. ASSUME NEW r \in Invocations, BeginIteration(r)
        PROVE  iteration' \in Count /\ (autoIteration' => iteration' = Cardinality(Begun'))
    <3>1. /\ at[r] = "begin" /\ at'[r] = "iter.start" /\ iteration' = iteration + 1
          /\ \A s \in Invocations : s # r => at'[s] = at[s]
          /\ autoIteration
      <4>1. Move(r, "begin", "iter.start") /\ iteration' = iteration + 1
        BY <2>1 DEF BeginIteration, NextPass
      <4>2. at[r] = "begin" /\ at'[r] = "iter.start" /\ \A s \in Invocations : s # r => at'[s] = at[s]
        BY <4>1, MoveFacts DEF Closers
      <4> QED BY <4>1, <4>2 DEF Counted, Closers, Opening
    <3>2. r \notin Begun /\ Begun' = Begun \cup {r} /\ Begun' \subseteq Invocations
      BY <3>1 DEF Begun
    <3>3. IsFiniteSet(Begun) /\ IsFiniteSet(Begun')
      BY <3>2, RunsAssumption, FS_Subset
    <3>4. Cardinality(Begun') = Cardinality(Begun) + 1
      BY <3>2, <3>3, FS_AddElement
    <3>5. Cardinality(Begun') <= Cardinality(Invocations)
      BY <3>2, RunsAssumption, FS_Subset
    <3>6. iteration' = Cardinality(Begun')
      BY <3>1, <3>4 DEF Counted
    <3> QED BY <1>1, <3>1, <3>5, <3>6 DEF Count, TypeOK
  <2>2. ASSUME NEW x \in Closers, OuterStep(x), iteration' = iteration
        PROVE  iteration' \in Count /\ (autoIteration' => iteration' = Cardinality(Begun'))
    <3>1. autoIteration' = autoIteration /\ \A s \in Invocations : s # x => at'[s] = at[s]
      BY <2>2, OuterMoves DEF Closers
    <3>2. x \in Invocations => \/ at[x] = "new" /\ (autoIteration => at'[x] = "begin")
                               \/ at[x] \notin {"new", "begin"} /\ at'[x] \notin {"new", "begin"}
      <4>1. CASE x \in Invocations /\ RootStart(x)
        BY <4>1, MoveFacts DEF RootStart, Closers
      <4>2. CASE ~(x \in Invocations /\ RootStart(x)) /\ x \in Invocations
        <5>1. ASSUME NEW here, NEW there, here \notin {"new", "begin"}, there \notin {"new", "begin"},
                     Move(x, here, there)
              PROVE  at[x] \notin {"new", "begin"} /\ at'[x] \notin {"new", "begin"}
          BY <5>1, MoveFacts
        <5>2. ~BeginIteration(x)
          BY <1>1, <2>2 DEF BeginIteration, NextPass, TypeOK, Count
        <5>3. \E here, there : /\ here \notin {"new", "begin"} /\ there \notin {"new", "begin"}
                                /\ Move(x, here, there)
          BY <2>2, <4>2, <5>2, RunsAssumption DEF OuterStep, InvocationStep, PublishPassStart, RootOk, RootEnd, CloserStep,
             CheckOpen, ClearOpen, PublishPassEnd, CheckEnded, SetEnded, PublishRunEnd, Through
        <5> QED BY <5>1, <5>3
      <4> QED BY <4>1, <4>2
    <3>3. autoIteration => Begun' = Begun
      BY <3>1, <3>2 DEF Begun
    <3> QED BY <2>2, <3>1, <3>3 DEF Counted, TypeOK
  <2>3. CASE SetIteration
    <3>1. ~autoIteration' /\ iteration' = iteration + 1 /\ iteration < Cardinality(Invocations)
      BY <2>3 DEF SetIteration
    <3> QED BY <1>1, <3>1 DEF Count, TypeOK
  <2>4. ASSUME autoIteration' = autoIteration, \A s \in Invocations : at'[s] = at[s], iteration' = iteration
        PROVE  iteration' \in Count /\ (autoIteration' => iteration' = Cardinality(Begun'))
    BY <2>4 DEF Counted, Begun, TypeOK
  <2>5. ASSUME NEW t \in Tasks, TaskStep(t)
        PROVE  autoIteration' = autoIteration /\ iteration' = iteration /\ \A s \in Invocations : at'[s] = at[s]
    BY <2>5, TaskMoves DEF rootVars, Closers
  <2>6. UNCHANGED vars =>
          autoIteration' = autoIteration /\ iteration' = iteration /\ \A s \in Invocations : at'[s] = at[s]
    BY DEF vars, rootVars
  <2> QED BY <2>1, <2>2, <2>3, <2>4, <2>5, <2>6, StepKinds, NumberSteps
<1>3. (\A x \in Closers : at[x] \in Opening => autoIteration)'
  <2>1. ASSUME NEW x \in Closers, OuterStep(x)
        PROVE  autoIteration' = autoIteration /\ \A y \in Closers : at'[y] \in Opening => autoIteration
    <3>1. autoIteration' = autoIteration /\ \A y \in Closers : y # x => at'[y] = at[y]
      BY <2>1, OuterMoves
    <3>2. ASSUME at'[x] \in Opening PROVE autoIteration
      <4>1. ASSUME NEW here, NEW there, Move(x, here, there),
                   there \in Opening => here \in Opening \/ autoIteration
            PROVE  autoIteration
        BY <3>2, <4>1, MoveFacts DEF Counted
      <4>2. CASE x \in Invocations /\ InvocationStep(x)
        BY <4>1, <4>2 DEF InvocationStep, RootStart, BeginIteration, PublishPassStart, RootOk, RootEnd, Opening
      <4>3. CASE CloserStep(x)
        <5>1. CASE CheckOpen(x)
          BY <4>1, <5>1 DEF CheckOpen, Counted, Opening
        <5>2. CASE CheckEnded(x)
          BY <4>1, <5>2 DEF CheckEnded, Through, Opening
        <5>3. CASE PublishRunEnd(x)
          BY <4>1, <5>3 DEF PublishRunEnd, Through, Opening
        <5> QED BY <4>1, <4>3, <5>1, <5>2, <5>3 DEF CloserStep, ClearOpen, PublishPassEnd, SetEnded, Opening
      <4>4. CASE x = Program /\ ProgramStep
        BY <4>1, <4>4 DEF ProgramStep, Finish, SetIteration, ForgetLastNode, Opening
      <4> QED BY <2>1, <4>2, <4>3, <4>4 DEF OuterStep
    <3> QED BY <3>1, <3>2 DEF Counted
  <2>2. ASSUME autoIteration' = autoIteration, \A y \in Closers : at'[y] = at[y]
        PROVE  \A y \in Closers : at'[y] \in Opening => autoIteration'
    BY <2>2 DEF Counted
  <2>3. UNCHANGED vars => autoIteration' = autoIteration /\ \A y \in Closers : at'[y] = at[y]
    BY DEF vars
  <2> QED BY <2>1, <2>2, <2>3, StepKinds, TaskMoves
<1>4. iterOpen' => autoIteration'
  <2>1. autoIteration' = autoIteration
    BY StepKinds, OuterMoves, TaskMoves DEF vars
  <2>2. ASSUME NEW r \in Invocations, BeginIteration(r) PROVE autoIteration
    BY <2>2 DEF BeginIteration, Move, Counted, Closers, Opening
  <2> QED BY <2>1, <2>2, NumberSteps DEF Counted
<1> QED BY <1>2, <1>3, <1>4 DEF Counted

(* The run's events stay well formed, and the pass events have a last one. *)
LEMMA AppendMark ==
    ASSUME NEW s \in Seq(MarkTypes), HasLast(s), NEW e \in MarkTypes
    PROVE  s \o <<e>> \in Seq(MarkTypes) /\ HasLast(s \o <<e>>)
<1> DEFINE u == s \o <<e>>
<1>1. u \in Seq(MarkTypes)
  BY AppendFacts
<1>2. CASE e.type = "run.end"
  <2>1. Marks(u) = Marks(s)
    BY <1>2, MarkFacts
  <2> QED BY <1>1, <2>1 DEF HasLast, IsLast
<1>3. CASE e.type # "run.end"
  BY <1>1, <1>3, MarkFacts DEF HasLast, IsLast
<1> QED BY <1>2, <1>3

LEMMA EndTypes ==
    TypeOK => /\ PassEnd \in MarkTypes /\ RunEnd \in MarkTypes
              /\ \A r \in Invocations : PassStart(r) \in MarkTypes
<1>1. 0 \in Count
  BY RunsAssumption, FS_CardinalityType DEF Count
<1> QED BY <1>1 DEF PassStart, PassEnd, RunEnd, Mark, MarkTypes, TypeOK

LEMMA MarkStep ==
    ASSUME TypeOK, Marked, [Next]_vars
    PROVE  timeline' \in Seq(MarkTypes) /\ Marked'
<1>1. timeline \in Seq(MarkTypes) /\ HasLast(timeline)
  BY OpenedByFacts DEF Marked
<1>2. \A e \in MarkTypes : timeline \o <<e>> \in Seq(MarkTypes) /\ HasLast(timeline \o <<e>>)
  BY <1>1, AppendMark
<1>3. timeline' \in Seq(MarkTypes) /\ HasLast(timeline')
  BY <1>1, <1>2, EndTypes, TimelineSteps
<1> QED BY <1>3 DEF Marked, HasLast, Marks, IsLast

TypeInv == TypeOK /\ Counted /\ Tasked /\ Marked /\ Locked

VisitTypes ==
    [type : {"node.start", "node.end", "node.error"}, pass : Count, during : Invocations \cup {None}]

EdgeTypes ==
    [by : Invocations \cup Tasks, source : Nodes \cup {Start}, target : Nodes \cup {End},
     during : Invocations \cup {None}]

(* A visit and an edge are published as what they are.                     *)
LEMMA VisitFacts ==
    ASSUME TypeOK, OpenedBy \in Invocations \cup {None}, NEW t \in Tasks,
           NEW type \in {"node.start", "node.end", "node.error"}, PublishVisit(type, t)
    PROVE  /\ visits' \in [Tasks -> Seq(VisitTypes)]
           /\ visits'[t] = Append(visits[t], [type |-> type, pass |-> iteration, during |-> OpenedBy])
           /\ \A u \in Tasks : u # t => visits'[u] = visits[u]
           /\ UNCHANGED <<timeline, edges, drawn>>
<1> DEFINE e == [type |-> type, pass |-> iteration, during |-> OpenedBy]
<1>1. e \in VisitTypes
  BY DEF VisitTypes, TypeOK
<1>2. visits \in [Tasks -> Seq(VisitTypes)]
  BY DEF TypeOK, VisitTypes
<1>3. visits' = [visits EXCEPT ![t] = Append(@, e)] /\ UNCHANGED <<timeline, edges, drawn>>
  BY DEF PublishVisit
<1> HIDE DEF e
<1>4. Append(visits[t], e) \in Seq(VisitTypes)
  BY <1>1, <1>2
<1>5. visits'[t] = Append(visits[t], e)
  BY <1>2, <1>3
<1> QED BY <1>2, <1>3, <1>4, <1>5 DEF e

LEMMA EdgeFacts ==
    ASSUME TypeOK, OpenedBy \in Invocations \cup {None}, NEW x \in Invocations \cup Tasks,
           NEW target \in Nodes \cup {End}, PublishEdge(x, target)
    PROVE  /\ edges' \subseteq EdgeTypes
           /\ UNCHANGED <<timeline, visits, drawn>>
<1> DEFINE source == IF from[x] = None THEN Start ELSE from[x]
<1>1. source \in Nodes \cup {Start}
  BY DEF TypeOK
<1>2. edges' = edges \cup {[by |-> x, source |-> source, target |-> target, during |-> OpenedBy]}
  BY DEF PublishEdge
<1> HIDE DEF source
<1>3. [by |-> x, source |-> source, target |-> target, during |-> OpenedBy] \in EdgeTypes
  BY <1>1 DEF EdgeTypes
<1>4. edges \subseteq EdgeTypes
  BY DEF TypeOK, EdgeTypes
<1> QED BY <1>2, <1>3, <1>4 DEF PublishEdge

LEMMA TypeInit == Init => TypeInv
<1> SUFFICES ASSUME Init PROVE TypeInv
  OBVIOUS
<1>1. 0 \in Count
  BY RunsAssumption, FS_CardinalityType DEF Count
<1>2. TypeOK
  <2>1. timeline \in Seq(MarkTypes) /\ visits \in [Tasks -> Seq(VisitTypes)] /\ edges \subseteq EdgeTypes
    BY DEF Init
  <2>2. iteration \in Count /\ passOf \in [Invocations -> Count]
    BY <1>1 DEF Init
  <2>3. /\ DOMAIN at = Invocations \cup Tasks \cup {Program}
        /\ \A r \in Invocations : at[r] \in InvocationPlaces
        /\ \A t \in Tasks : at[t] \in TaskPlaces
        /\ at[Program] \in ProgramPlaces
    BY RunsAssumption DEF Init, InvocationPlaces, TaskPlaces, ProgramPlaces
  <2>4. from \in [Invocations \cup Tasks -> Nodes \cup {None}] /\ shape \in [Tasks -> SUBSET Nodes]
    BY DEF Init
  <2>5. containers \subseteq Expanded(subgraphs) /\ subgraphs \subseteq Nodes
    BY DEF Init, Expanded
  <2> QED BY <2>1, <2>2, <2>3, <2>4, <2>5 DEF Init, TypeOK, MarkTypes, VisitTypes, EdgeTypes
<1>3. Counted
  <2>1. \A x \in Closers : at[x] \in {"idle", "new"}
    BY DEF Init, Closers
  <2>2. \A r \in Invocations : at[r] = "new"
    BY RunsAssumption DEF Init
  <2>3. Begun = {} /\ \A x \in Closers : at[x] \notin Opening
    BY <2>1, <2>2 DEF Begun, Opening
  <2> QED BY <2>3, FS_EmptySet DEF Init, Counted
<1>4. Tasked /\ Marked /\ Locked
  BY LockInit, RunsAssumption DEF Init, Tasked, Marked, HasLast, Marks
<1> QED BY <1>2, <1>3, <1>4 DEF TypeInv

LEMMA TypeOfOuter ==
    ASSUME TypeInv, NEW x \in Closers, OuterStep(x)
    PROVE  TypeOK' /\ Tasked'
<1> USE DEF TypeInv
<1>1. [Next]_vars
  BY StepKinds
<1>2. iteration' \in Count /\ timeline' \in Seq(MarkTypes)
  BY <1>1, CountStep, MarkStep
<1>3. OpenedBy \in Invocations \cup {None}
  BY OpenedByType
<1>4. /\ DOMAIN at' = Invocations \cup Tasks \cup {Program}
      /\ \A s \in Invocations : at'[s] \in InvocationPlaces
      /\ at'[Program] \in ProgramPlaces
      /\ \A t \in Tasks : at'[t] = at[t]
      /\ UNCHANGED <<autoIteration, taskVars, shapeVars, visits, drawn>>
  BY OuterMoves, RunsAssumption DEF TypeOK, Places, Closers
<1>5. edges' \subseteq EdgeTypes
  <2>1. CASE x \in Invocations /\ RootOk(x)
    BY <1>3, <2>1, EdgeFacts DEF RootOk
  <2>2. CASE ~(x \in Invocations /\ RootOk(x))
    <3>1. edges' = edges
      BY <2>2 DEF OuterStep, InvocationStep, RootStart, BeginIteration, PublishPassStart, RootEnd, CloserStep,
         CheckOpen, ClearOpen, PublishPassEnd, CheckEnded, SetEnded, PublishRunEnd, ProgramStep, Finish,
         SetIteration, ForgetLastNode, PublishMark, out
    <3> QED BY <3>1 DEF TypeOK, EdgeTypes
  <2> QED BY <2>1, <2>2
<1>6. /\ root' \in Invocations \cup {None} /\ lastNode' \in Nodes \cup {None}
      /\ ended' \in BOOLEAN
  BY DEF TypeOK, OuterStep, InvocationStep, RootStart, BeginIteration, PublishPassStart, RootOk, RootEnd, CloserStep,
     CheckOpen, ClearOpen, PublishPassEnd, CheckEnded, SetEnded, PublishRunEnd, ProgramStep, Finish,
     SetIteration, ForgetLastNode, LastNodeAtRoot, rootVars
<1>7. /\ overlap' \in BOOLEAN /\ early' \in BOOLEAN /\ finished' \in BOOLEAN
      /\ failed' \subseteq Invocations
  BY DEF TypeOK, OuterStep, InvocationStep, RootStart, BeginIteration, PublishPassStart, RootOk, RootEnd, CloserStep,
     CheckOpen, ClearOpen, PublishPassEnd, CheckEnded, SetEnded, PublishRunEnd, ProgramStep, Finish,
     SetIteration, ForgetLastNode, ends
<1>8. iterOpen' \in BOOLEAN
  BY <1>1, NumberSteps DEF TypeOK
<1>9. from' \in [Invocations \cup Tasks -> Nodes \cup {None}]
  BY DEF TypeOK, OuterStep, InvocationStep, RootStart, BeginIteration, PublishPassStart, RootOk, RootEnd, CloserStep,
     CheckOpen, ClearOpen, PublishPassEnd, CheckEnded, SetEnded, PublishRunEnd, ProgramStep, Finish,
     SetIteration, ForgetLastNode
<1>10. passOf' \in [Invocations -> Count]
  <2>1. CASE x \in Invocations /\ BeginIteration(x)
    BY <1>2, <2>1 DEF BeginIteration, NextPass, TypeOK
  <2>2. CASE ~(x \in Invocations /\ BeginIteration(x))
    BY <2>2 DEF TypeOK, OuterStep, InvocationStep, RootStart, PublishPassStart, RootOk, RootEnd, CloserStep,
     CheckOpen, ClearOpen, PublishPassEnd, CheckEnded, SetEnded, PublishRunEnd, ProgramStep, Finish,
     SetIteration, ForgetLastNode, rootVars
  <2> QED BY <2>1, <2>2
<1>11. TypeOK'
  BY <1>2, <1>4, <1>5, <1>6, <1>7, <1>8, <1>9, <1>10
     DEF TypeOK, MarkTypes, EdgeTypes, VisitTypes, taskVars, shapeVars, Count, InvocationPlaces, TaskPlaces, Expanded
<1>12. Tasked'
  BY <1>4 DEF Tasked, taskVars
<1> QED BY <1>11, <1>12

LEMMA TypeOfTask ==
    ASSUME TypeInv, NEW t \in Tasks, TaskStep(t)
    PROVE  TypeOK' /\ Tasked'
<1> USE DEF TypeInv
<1>1. OpenedBy \in Invocations \cup {None}
  BY OpenedByType
<1>2. /\ DOMAIN at' = Invocations \cup Tasks \cup {Program}
      /\ \A u \in Tasks : at'[u] \in TaskPlaces
      /\ \A u \in Tasks : u # t => at'[u] = at[u]
      /\ at'[Program] = at[Program] /\ \A r \in Invocations : at'[r] = at[r]
      /\ UNCHANGED <<autoIteration, rootVars, ends, timeline>>
  BY TaskMoves DEF TypeOK, Closers
<1>3. CASE \E r \in Invocations, node \in Nodes : TaskStart(t, r, node)
  <2>1. PICK r \in Invocations, node \in Nodes : TaskStart(t, r, node)
    BY <1>3
  <2>2. /\ nodeOf' \in [Tasks -> Nodes \cup {None}] /\ nodeOf'[t] = node
        /\ within' \in [Tasks -> Invocations \cup {None}] /\ within'[t] = r
        /\ \A u \in Tasks : u # t => nodeOf'[u] = nodeOf[u] /\ within'[u] = within[u]
        /\ from' \in [Invocations \cup Tasks -> Nodes \cup {None}]
        /\ lastNode' \in Nodes \cup {None}
    BY <2>1 DEF TaskStart, TypeOK
  <2>3. UNCHANGED <<shapeVars, visits, edges, drawn>>
    BY <2>1 DEF TaskStart, out
  <2>4. TypeOK'
    BY <1>2, <2>2, <2>3 DEF TypeOK, rootVars, ends, shapeVars, Count, Expanded
  <2>5. Tasked'
    BY <1>2, <2>2 DEF Tasked
  <2> QED BY <2>4, <2>5
<1>4. CASE ~(\E r \in Invocations, node \in Nodes : TaskStart(t, r, node))
  <2>1. nodeOf' = nodeOf /\ within' = within /\ from' = from
    BY <1>4 DEF TaskStep, TaskEdge, TaskVisit, TaskEnd, TaskReport, Discover, SetContainers,
                PublishTopology, taskVars
  <2>2. at[t] # "new"
    <3>1. ASSUME NEW here, NEW there, here # "new", Move(t, here, there) PROVE at[t] # "new"
      BY <3>1, MoveFacts
    <3>2. \E here, there : here # "new" /\ Move(t, here, there)
      BY <1>4 DEF TaskStep, TaskEdge, TaskVisit, TaskEnd, TaskReport, Discover, SetContainers, PublishTopology
    <3> QED BY <3>1, <3>2
  <2>3. nodeOf[t] \in Nodes
    BY <2>2 DEF Tasked
  <2>4. Tasked'
    BY <1>2, <2>1, <2>2 DEF Tasked
  <2>5. lastNode' \in Nodes \cup {None}
    BY <1>4, <2>3 DEF TypeOK, TaskStep, TaskEdge, TaskVisit, TaskEnd, TaskReport, Discover, SetContainers,
                      PublishTopology
  <2>6. visits' \in [Tasks -> Seq(VisitTypes)] /\ edges' \subseteq EdgeTypes
    <3>1. visits \in [Tasks -> Seq(VisitTypes)] /\ edges \subseteq EdgeTypes
      BY DEF TypeOK, VisitTypes, EdgeTypes
    <3>2. ASSUME NEW type \in {"node.start", "node.end", "node.error"}, PublishVisit(type, t)
          PROVE  visits' \in [Tasks -> Seq(VisitTypes)] /\ edges' \subseteq EdgeTypes
      BY <1>1, <3>1, <3>2, VisitFacts
    <3>3. ASSUME PublishEdge(t, nodeOf[t])
          PROVE  visits' \in [Tasks -> Seq(VisitTypes)] /\ edges' \subseteq EdgeTypes
      BY <1>1, <2>3, <3>1, <3>3, EdgeFacts
    <3>4. \/ \E type \in {"node.start", "node.end", "node.error"} : PublishVisit(type, t)
          \/ PublishEdge(t, nodeOf[t])
          \/ visits' = visits /\ edges' = edges
      BY <1>4 DEF TaskStep, TaskEdge, TaskVisit, TaskEnd, TaskReport, Discover, SetContainers,
                  PublishTopology, out
    <3> QED BY <3>1, <3>2, <3>3, <3>4
  <2>7. /\ containers' \subseteq Expanded(subgraphs') /\ subgraphs' \subseteq Nodes
        /\ topologyLock' \in Tasks \cup {None} /\ shape' \in [Tasks -> SUBSET Nodes]
        /\ drawn' \subseteq Nodes
    <3>1. CASE Discover(t)
      BY <2>3, <3>1 DEF Discover, TypeOK, out, Expanded
    <3>2. CASE SetContainers(t)
      <4>1. at[t] = "including"
        BY <3>2 DEF SetContainers, Move
      <4>2. shape[t] = subgraphs
        BY <4>1 DEF Locked, Exploring
      <4> QED BY <3>2, <4>2 DEF SetContainers, TypeOK, out, Expanded
    <3>3. CASE PublishTopology(t)
      BY <3>3 DEF PublishTopology, TypeOK, out, Expanded
    <3>4. CASE ~(Discover(t) \/ SetContainers(t) \/ PublishTopology(t))
      <4>1. UNCHANGED <<shapeVars, drawn>>
        BY <3>4, NotExploring DEF TaskStep
      <4> QED BY <4>1 DEF TypeOK, shapeVars, Expanded
    <3> QED BY <3>1, <3>2, <3>3, <3>4
  <2>8. TypeOK'
    BY <1>2, <2>1, <2>5, <2>6, <2>7 DEF TypeOK, rootVars, ends, VisitTypes, EdgeTypes, Count, Expanded
  <2> QED BY <2>4, <2>8
<1> QED BY <1>3, <1>4

LEMMA TypeStep == TypeInv /\ [Next]_vars => TypeInv'
<1> SUFFICES ASSUME TypeInv, [Next]_vars PROVE TypeInv'
  OBVIOUS
<1>1. TypeOK' /\ Tasked'
  <2>1. CASE UNCHANGED vars
    BY <2>1 DEF TypeInv, TypeOK, Tasked, vars, taskVars, rootVars, shapeVars, ends, out, Count, Expanded
  <2> QED BY <2>1, StepKinds, TypeOfOuter, TypeOfTask
<1>2. Counted' /\ Marked'
  BY CountStep, MarkStep DEF TypeInv
<1>3. Locked'
  BY LockStep DEF TypeInv
<1> QED BY <1>1, <1>2, <1>3 DEF TypeInv

LEMMA TypeInvariant == Spec => []TypeInv
    BY TypeInit, TypeStep, PTL DEF Spec

(* The handler's state keeps its types, and no invoke opens a pass that    *)
(* the invokes do not account for.                                         *)
THEOREM TypeCorrect == Spec => []TypeOK
    BY TypeInvariant, PTL DEF TypeInv

(* Tasks that discover subgraphs at the same time lose none of them: the   *)
(* lock around the discovery is what the last topology needs.              *)
THEOREM ShapeCorrect == Spec => []ShapeIsLatest
    BY TypeInvariant, PTL DEF TypeInv, Locked

-----------------------------------------------------------------------------
(* What a task has published so far, by where it is.                       *)
Entered(t) == Len(visits[t]) = 1 /\ visits[t][1].type = "node.start"
Left(t) ==
    /\ Len(visits[t]) = 2
    /\ visits[t][1].type = "node.start" /\ visits[t][2].type \in {"node.end", "node.error"}

Bracketed(t) ==
    \/ at[t] \in {"new", "edge", "start"} /\ visits[t] = <<>>
    \/ at[t] \in {"running", "including", "drawing", "node.end", "node.error"} /\ Entered(t)
    \/ at[t] = "running" /\ visits[t] = <<>> /\ nodeOf[t] \in containers
    \/ at[t] = "done" /\ Left(t)
    \/ at[t] = "done" /\ (visits[t] = <<>> \/ Entered(t)) /\ nodeOf[t] \in containers

AllBracketed == \A t \in Tasks : Bracketed(t)

(* A container stays one.                                                  *)
LEMMA ContainersGrow == TypeInv /\ [Next]_vars => containers \subseteq containers'
<1> SUFFICES ASSUME TypeInv, [Next]_vars PROVE containers \subseteq containers'
  OBVIOUS
<1> USE DEF TypeInv
<1>1. ASSUME NEW t \in Tasks, SetContainers(t) PROVE containers \subseteq containers'
  <2>1. shape[t] = subgraphs
    BY <1>1 DEF SetContainers, Move, Locked, Exploring
  <2> QED BY <1>1, <2>1 DEF SetContainers, TypeOK
<1>2. ASSUME NEW t \in Tasks, TaskStep(t), ~SetContainers(t) PROVE containers' = containers
  BY <1>2 DEF TaskStep, TaskStart, TaskEdge, TaskVisit, TaskEnd, TaskReport, Discover,
              PublishTopology, shapeVars
<1>3. UNCHANGED shapeVars => containers' = containers
  BY DEF shapeVars
<1> QED BY <1>1, <1>2, <1>3, StepKinds, OuterMoves DEF vars

(* One more visit of a task.                                               *)
LEMMA VisitGrows ==
    ASSUME TypeInv, NEW t \in Tasks,
           NEW type \in {"node.start", "node.end", "node.error"}, PublishVisit(type, t)
    PROVE  /\ visits[t] = <<>> /\ type = "node.start" => Entered(t)'
           /\ Entered(t) /\ type # "node.start" => Left(t)'
           /\ \A u \in Tasks : u # t => visits'[u] = visits[u]
<1> DEFINE e == [type |-> type, pass |-> iteration, during |-> OpenedBy]
<1>1. /\ visits'[t] = Append(visits[t], e)
      /\ \A u \in Tasks : u # t => visits'[u] = visits[u]
  BY VisitFacts, OpenedByType DEF TypeInv
<1>2. visits[t] \in Seq(VisitTypes)
  BY DEF TypeInv, TypeOK, VisitTypes
<1>3. e.type = type
  OBVIOUS
<1> HIDE DEF e
<1>4. /\ Len(visits[t]) \in Nat /\ Len(visits'[t]) = Len(visits[t]) + 1
      /\ visits'[t][Len(visits[t]) + 1] = e
      /\ \A i \in 1..Len(visits[t]) : visits'[t][i] = visits[t][i]
  BY <1>1, <1>2
<1>5. ASSUME visits[t] = <<>>, type = "node.start" PROVE Entered(t)'
  <2>1. Len(visits[t]) = 0
    BY <1>5
  <2> QED BY <1>3, <1>4, <1>5, <2>1 DEF Entered
<1>6. ASSUME Entered(t), type # "node.start" PROVE Left(t)'
  BY <1>3, <1>4, <1>6 DEF Entered, Left
<1> QED BY <1>1, <1>5, <1>6

LEMMA BracketedStep == TypeInv /\ AllBracketed /\ [Next]_vars => AllBracketed'
<1> SUFFICES ASSUME TypeInv, AllBracketed, [Next]_vars PROVE AllBracketed'
  OBVIOUS
<1>1. TypeOK /\ containers \subseteq containers'
  BY ContainersGrow DEF TypeInv
<1>2. ASSUME NEW t \in Tasks, at'[t] = at[t], visits'[t] = visits[t],
             nodeOf'[t] = nodeOf[t] \/ at[t] = "new"
      PROVE  Bracketed(t)'
  BY <1>1, <1>2 DEF AllBracketed, Bracketed, Entered, Left
<1>3. ASSUME NEW t \in Tasks, TaskStep(t) PROVE AllBracketed'
  <2>1. /\ at'[t] \in TaskPlaces
        /\ \A u \in Tasks : u # t => at'[u] = at[u]
    BY <1>1, <1>3, TaskMoves
  <2>2. /\ \A u \in Tasks : u # t => nodeOf'[u] = nodeOf[u] /\ visits'[u] = visits[u]
    <3>1. \A u \in Tasks : u # t => nodeOf'[u] = nodeOf[u]
      BY <1>1, <1>3 DEF TaskStep, TaskStart, TaskEdge, TaskVisit, TaskEnd, TaskReport, Discover,
         SetContainers, PublishTopology, taskVars, TypeOK
    <3>2. \/ visits' = visits
          \/ \E type \in {"node.start", "node.end", "node.error"} : PublishVisit(type, t)
      BY <1>3 DEF TaskStep, TaskStart, TaskEdge, TaskVisit, TaskEnd, TaskReport, Discover,
         SetContainers, PublishTopology, PublishEdge, out
    <3> QED BY <3>1, <3>2, VisitGrows
  <2>3. Bracketed(t)'
    <3>1. CASE \E r \in Invocations, node \in Nodes : TaskStart(t, r, node)
      <4>1. PICK r \in Invocations, node \in Nodes : TaskStart(t, r, node)
        BY <3>1
      <4>2. at[t] = "new" /\ at'[t] = IF node \in containers THEN "running" ELSE "edge"
        BY <1>1, <4>1, MoveFacts DEF TaskStart
      <4>3. visits' = visits /\ containers' = containers /\ nodeOf'[t] = node
        BY <1>1, <4>1 DEF TaskStart, out, shapeVars, TypeOK
      <4> QED BY <4>2, <4>3 DEF AllBracketed, Bracketed
    <3>2. CASE TaskEdge(t)
      <4>1. at[t] = "edge" /\ at'[t] = "start"
        BY <1>1, <3>2, MoveFacts DEF TaskEdge
      <4>2. visits' = visits
        BY <3>2 DEF TaskEdge, PublishEdge, out
      <4> QED BY <4>1, <4>2 DEF AllBracketed, Bracketed
    <3>3. CASE TaskVisit(t)
      <4>1. at[t] = "start" /\ at'[t] = "running"
        BY <1>1, <3>3, MoveFacts DEF TaskVisit
      <4>2. Entered(t)'
        BY <3>3, <4>1, VisitGrows DEF TaskVisit, AllBracketed, Bracketed
      <4> QED BY <4>1, <4>2 DEF Bracketed
    <3>4. ASSUME NEW how \in {"node.end", "node.error"}, TaskEnd(t, how) PROVE Bracketed(t)'
      <4>1. at[t] = "running" /\ at'[t] = IF nodeOf[t] \notin containers THEN how ELSE "done"
        BY <1>1, <3>4, MoveFacts DEF TaskEnd, Reports
      <4>2. visits' = visits /\ containers' = containers /\ nodeOf' = nodeOf
        BY <3>4 DEF TaskEnd, out, shapeVars, taskVars
      <4>3. Entered(t)' <=> Entered(t)
        BY <4>2 DEF Entered
      <4> QED BY <4>1, <4>2, <4>3 DEF AllBracketed, Bracketed
    <3>5. ASSUME NEW how \in {"node.end", "node.error"}, TaskReport(t, how) PROVE Bracketed(t)'
      <4>1. at[t] = how /\ at'[t] = "done"
        BY <1>1, <3>5, MoveFacts DEF TaskReport
      <4>2. Left(t)'
        BY <3>5, <4>1, VisitGrows DEF TaskReport, AllBracketed, Bracketed
      <4> QED BY <4>1, <4>2 DEF Bracketed
    <3>6. CASE Discover(t) \/ SetContainers(t) \/ PublishTopology(t)
      <4>1. /\ at[t] \in {"running", "including", "drawing"}
            /\ at'[t] \in {"running", "including", "drawing"}
            /\ at[t] = "running" => nodeOf[t] \notin containers
        BY <1>1, <3>6, MoveFacts DEF Discover, SetContainers, PublishTopology
      <4>2. visits' = visits
        BY <3>6 DEF Discover, SetContainers, PublishTopology, out
      <4>3. Entered(t)
        BY <4>1 DEF AllBracketed, Bracketed
      <4>4. Entered(t)'
        BY <4>2, <4>3 DEF Entered
      <4> QED BY <4>1, <4>4 DEF Bracketed
    <3> QED BY <1>3, <3>1, <3>2, <3>3, <3>4, <3>5, <3>6 DEF TaskStep
  <2> QED BY <1>2, <2>1, <2>2, <2>3 DEF AllBracketed
<1>4. ASSUME NEW x \in Closers, OuterStep(x) PROVE AllBracketed'
  BY <1>1, <1>2, <1>4, OuterMoves DEF AllBracketed, taskVars
<1>5. CASE UNCHANGED vars
  BY <1>2, <1>5 DEF AllBracketed, vars, taskVars, out
<1> QED BY <1>3, <1>4, <1>5, StepKinds

LEMMA BracketedInvariant == Spec => [](TypeInv /\ AllBracketed)
<1>1. Init => AllBracketed
  BY RunsAssumption DEF Init, AllBracketed, Bracketed
<1> QED BY <1>1, TypeInit, TypeStep, BracketedStep, PTL DEF Spec

(* A node's execution is reported as one start and one end, whichever      *)
(* sibling turns out to be a graph in between.                             *)
THEOREM BracketsCorrect == Spec => []VisitsBracketed
<1>1. TypeInv /\ AllBracketed => VisitsBracketed
  <2> SUFFICES ASSUME TypeInv, AllBracketed, NEW t \in Tasks
               PROVE  LET types == [i \in DOMAIN visits[t] |-> visits[t][i].type] IN
                      /\ types \in {<<>>, <<"node.start">>, <<"node.start", "node.end">>,
                                    <<"node.start", "node.error">>}
                      /\ at[t] = "done" /\ nodeOf[t] \notin containers => Len(types) = 2
    BY DEF VisitsBracketed
  <2> DEFINE types == [i \in DOMAIN visits[t] |-> visits[t][i].type]
  <2>1. visits[t] \in Seq(VisitTypes)
    BY DEF TypeInv, TypeOK, VisitTypes
  <2>2. DOMAIN visits[t] = 1..Len(visits[t])
    BY <2>1
  <2>3. visits[t] = <<>> => types = <<>>
    BY <2>2
  <2>4. ASSUME Entered(t) PROVE types = <<"node.start">>
    <3>1. types = [i \in 1..1 |-> visits[t][i].type] /\ visits[t][1].type = "node.start"
      BY <2>2, <2>4 DEF Entered
    <3>2. [i \in 1..1 |-> visits[t][i].type] = <<visits[t][1].type>>
      OBVIOUS
    <3> QED BY <3>1, <3>2
  <2>5. ASSUME Left(t) PROVE types = <<"node.start", visits[t][2].type>>
    <3>1. types = [i \in 1..2 |-> visits[t][i].type] /\ visits[t][1].type = "node.start"
      BY <2>2, <2>5 DEF Left
    <3>2. [i \in 1..2 |-> visits[t][i].type] = <<visits[t][1].type, visits[t][2].type>>
      OBVIOUS
    <3> QED BY <3>1, <3>2
  <2> HIDE DEF types
  <2>6. \/ Left(t)
        \/ (visits[t] = <<>> \/ Entered(t)) /\ (at[t] = "done" => nodeOf[t] \in containers)
    BY DEF AllBracketed, Bracketed
  <2>7. CASE Left(t)
    <3>1. PICK type \in {"node.end", "node.error"} : types = <<"node.start", type>>
      BY <2>5, <2>7 DEF Left
    <3> QED BY <3>1 DEF types
  <2>8. CASE ~Left(t)
    BY <2>3, <2>4, <2>6, <2>8 DEF types
  <2> QED BY <2>7, <2>8
<1> QED BY <1>1, BracketedInvariant, PTL


-----------------------------------------------------------------------------
(* Passes: the events of pass n, in a timeline s.                          *)
PosOf(s, n) == {i \in 1..Len(s) : s[i].pass = n}

OpenIn(s, n, i) == i \in PosOf(s, n) /\ PosOf(s, n) = {i} /\ s[i].type = "iter.start"
OverIn(s, n) ==
    \E i, j \in PosOf(s, n) :
        i < j /\ PosOf(s, n) = {i, j} /\ s[i].type = "iter.start" /\ s[j].type = "iter.end"
OnceIn(s, n) == PosOf(s, n) = {} \/ (\E i \in PosOf(s, n) : OpenIn(s, n, i)) \/ OverIn(s, n)
ClosedIn(s, n) == \E i \in PosOf(s, n) : s[i].type = "iter.end"

(* An event of one pass says nothing of another; it opens its own pass, or *)
(* it closes it.                                                           *)
LEMMA PassFacts ==
    ASSUME NEW s \in Seq(MarkTypes), NEW e \in MarkTypes, NEW n
    PROVE  LET u == s \o <<e>> IN
           /\ e.pass # n => /\ OnceIn(s, n) => OnceIn(u, n)
                            /\ \A i : OpenIn(s, n, i) => OpenIn(u, n, i)
           /\ ClosedIn(s, n) => ClosedIn(u, n)
           /\ e.pass = n /\ e.type = "iter.start" /\ PosOf(s, n) = {} => OpenIn(u, n, Len(s) + 1)
           /\ e.pass = n /\ e.type = "iter.end" =>
                 ClosedIn(u, n) /\ \A i : OpenIn(s, n, i) => OverIn(u, n)
<1> DEFINE k == Len(s) + 1
           u == s \o <<e>>
<1>1. /\ Len(s) \in Nat /\ k \in Nat /\ Len(u) = k /\ u[k] = e
      /\ \A i \in 1..Len(s) : u[i] = s[i]
  BY AppendFacts
<1>2. 1..k = (1..Len(s)) \cup {k}
  BY <1>1
<1> HIDE DEF u, k
<1>3. /\ PosOf(u, n) = IF e.pass = n THEN PosOf(s, n) \cup {k} ELSE PosOf(s, n)
      /\ \A i \in PosOf(s, n) : i \in Int /\ i < k /\ u[i] = s[i]
  BY <1>1, <1>2 DEF PosOf, k
<1> SUFFICES
      /\ e.pass # n => /\ OnceIn(s, n) => OnceIn(u, n)
                       /\ \A i : OpenIn(s, n, i) => OpenIn(u, n, i)
      /\ ClosedIn(s, n) => ClosedIn(u, n)
      /\ e.pass = n /\ e.type = "iter.start" /\ PosOf(s, n) = {} => OpenIn(u, n, k)
      /\ e.pass = n /\ e.type = "iter.end" =>
            ClosedIn(u, n) /\ \A i : OpenIn(s, n, i) => OverIn(u, n)
  BY DEF u, k
<1> HIDE DEF PosOf
<1>4. ASSUME e.pass # n
      PROVE  /\ OnceIn(s, n) => OnceIn(u, n)
             /\ \A i : OpenIn(s, n, i) => OpenIn(u, n, i)
  <2>1. PosOf(u, n) = PosOf(s, n) /\ \A i \in PosOf(s, n) : u[i] = s[i]
    BY <1>3, <1>4
  <2>2. \A i : OpenIn(s, n, i) => OpenIn(u, n, i)
    BY <2>1 DEF OpenIn
  <2>3. OverIn(s, n) => OverIn(u, n)
    BY <2>1 DEF OverIn
  <2> QED BY <2>1, <2>2, <2>3 DEF OnceIn
<1>5. ClosedIn(s, n) => ClosedIn(u, n)
  BY <1>3 DEF ClosedIn
<1>6. e.pass = n /\ e.type = "iter.start" /\ PosOf(s, n) = {} => OpenIn(u, n, k)
  BY <1>1, <1>3 DEF OpenIn
<1>7. ASSUME e.pass = n, e.type = "iter.end"
      PROVE  ClosedIn(u, n) /\ \A i : OpenIn(s, n, i) => OverIn(u, n)
  <2>1. ClosedIn(u, n)
    BY <1>1, <1>3, <1>7 DEF ClosedIn
  <2>2. ASSUME NEW i, OpenIn(s, n, i) PROVE OverIn(u, n)
    <3>1. i \in PosOf(u, n) /\ k \in PosOf(u, n) /\ PosOf(u, n) = {i, k} /\ i < k
      BY <1>3, <1>7, <2>2 DEF OpenIn
    <3>2. u[i].type = "iter.start" /\ u[k].type = "iter.end"
      BY <1>1, <1>3, <1>7, <2>2 DEF OpenIn
    <3> QED BY <3>1, <3>2 DEF OverIn
  <2> QED BY <2>1, <2>2
<1> QED BY <1>4, <1>5, <1>6, <1>7

(* The passes so far: their numbers, their starts, and the one that is open. *)
Numbered(s, n) == \A i \in 1..Len(s) : s[i].pass <= n
AllOnce(s) == \A n \in Count \ {0} : OnceIn(s, n)
IsOpen(s, n) == \E i \in PosOf(s, n) : OpenIn(s, n, i) /\ IsLast(i, s)
StartsRise(s) ==
    \A i, j \in 1..Len(s) :
        s[i].type = "iter.start" /\ s[j].type = "iter.start" /\ i < j => s[i].pass < s[j].pass
StartsBelow(s, n) == \A i \in 1..Len(s) : s[i].type = "iter.start" => s[i].pass < n

LEMMA NumberFacts == TypeOK => timeline \in Seq(MarkTypes) /\ iteration \in Nat
<1>1. TypeOK => iteration \in Nat
  BY DEF TypeOK, Count
<1> QED BY <1>1, OpenedByFacts

LEMMA NumberedMore ==
    ASSUME NEW s \in Seq(MarkTypes), NEW e \in MarkTypes, NEW m \in Nat, NEW n \in Nat,
           Numbered(s, m), m <= n, e.pass <= n
    PROVE  Numbered(s \o <<e>>, n)
<1>1. Count \subseteq Int /\ \A i \in 1..Len(s) : s[i].pass \in Count
  <2>1. \A i \in 1..Len(s) : s[i] \in MarkTypes
    OBVIOUS
  <2> QED BY <2>1 DEF MarkTypes, Count
<1> DEFINE u == s \o <<e>>
<1>2. /\ Len(s) \in Nat /\ Len(u) = Len(s) + 1 /\ u[Len(s) + 1] = e
      /\ \A i \in 1..Len(s) : u[i] = s[i]
  BY AppendFacts
<1> HIDE DEF u
<1>3. ASSUME NEW i \in 1..Len(u) PROVE u[i].pass <= n
  <2>1. CASE i = Len(s) + 1
    BY <1>2, <2>1
  <2>2. CASE i # Len(s) + 1
    <3>1. i \in 1..Len(s)
      BY <1>2, <2>2
    <3>2. s[i].pass \in Int /\ s[i].pass <= m
      BY <1>1, <3>1 DEF Numbered
    <3> QED BY <1>2, <3>1, <3>2
  <2> QED BY <2>1, <2>2
<1> QED BY <1>3 DEF Numbered, u

(* Another event: the starts of passes rise if it is none or a later one.  *)
LEMMA RiseMore ==
    ASSUME NEW s \in Seq(MarkTypes), NEW e \in MarkTypes, StartsRise(s),
           e.type = "iter.start" => StartsBelow(s, e.pass)
    PROVE  /\ StartsRise(s \o <<e>>)
           /\ e.type # "iter.start" => \A n : StartsBelow(s, n) => StartsBelow(s \o <<e>>, n)
<1> DEFINE u == s \o <<e>>
           k == Len(s) + 1
<1>1. /\ Len(s) \in Nat /\ Len(u) = k /\ u[k] = e
      /\ \A i \in 1..Len(s) : u[i] = s[i]
  BY AppendFacts
<1>2. \A i \in 1..Len(u) : i \in 1..Len(s) \/ i = k
  BY <1>1
<1>3. \A i \in 1..Len(s) : i \in Int /\ i < k
  BY <1>1
<1>4. ~(k < k) /\ \A i \in 1..Len(s) : ~(k < i)
  BY <1>1
<1> HIDE DEF u, k
<1>5. ASSUME NEW i \in 1..Len(u), NEW j \in 1..Len(u), u[i].type = "iter.start", u[j].type = "iter.start",
             i < j
      PROVE  u[i].pass < u[j].pass
  <2>1. i \in 1..Len(s)
    BY <1>2, <1>4, <1>5
  <2>2. CASE j = k
    BY <1>1, <1>5, <2>1, <2>2 DEF StartsBelow
  <2>3. CASE j # k
    BY <1>1, <1>2, <1>5, <2>1, <2>3 DEF StartsRise
  <2> QED BY <2>2, <2>3
<1>6. ASSUME e.type # "iter.start", NEW n, StartsBelow(s, n) PROVE StartsBelow(u, n)
  BY <1>1, <1>2, <1>6 DEF StartsBelow
<1>7. StartsRise(u)
  BY <1>5 DEF StartsRise
<1> QED BY <1>6, <1>7 DEF u

LEMMA NumberedStep ==
    ASSUME TypeInv, Numbered(timeline, iteration), [Next]_vars
    PROVE  Numbered(timeline', iteration')
<1>1. /\ timeline \in Seq(MarkTypes) /\ iteration \in Nat /\ TypeOK
      /\ iteration' \in Nat /\ iteration <= iteration'
  <2>1. iteration' = iteration \/ iteration' = iteration + 1
    BY NumberSteps DEF TypeInv
  <2> QED BY <2>1, NumberFacts DEF TypeInv
<1>2. CASE timeline' = timeline
  <2>1. \A i \in 1..Len(timeline) : timeline[i].pass \in Int
    <3>1. \A i \in 1..Len(timeline) : timeline[i] \in MarkTypes
      BY <1>1
    <3> QED BY <3>1 DEF MarkTypes, Count
  <2> QED BY <1>1, <1>2, <2>1 DEF Numbered
<1>3. ASSUME NEW e \in MarkTypes, e.pass <= iteration', timeline' = timeline \o <<e>>
      PROVE  Numbered(timeline', iteration')
  BY <1>1, <1>3, NumberedMore
<1>4. /\ PassEnd.pass <= iteration' /\ RunEnd.pass <= iteration'
      /\ \A r : PassStart(r).pass <= iteration'
  BY <1>1 DEF PassEnd, RunEnd, PassStart, Mark
<1>5. \/ timeline' \in {timeline, timeline \o <<PassEnd>>, timeline \o <<RunEnd>>}
      \/ \E r \in Invocations : timeline' = timeline \o <<PassStart(r)>>
  BY <1>1, TimelineSteps
<1>6. /\ PassEnd \in MarkTypes /\ RunEnd \in MarkTypes
      /\ \A r \in Invocations : PassStart(r) \in MarkTypes
  BY <1>1, EndTypes
<1> HIDE DEF PassEnd, RunEnd, PassStart
<1> QED BY <1>2, <1>3, <1>4, <1>5, <1>6

-----------------------------------------------------------------------------
(* As long as invokes do not overlap, the one that is running owns _root,  *)
(* and the number of the pass is that of its own.                          *)
Sole ==
    /\ \A r, s \in Running : r = s
    /\ \A r \in Invocations : at[r] \in {"begin", "iter.start", "running"} => root = r
    /\ \A r \in Invocations : at[r] \in {"iter.start", "running"} => passOf[r] = iteration
    /\ StartsRise(timeline)
    /\ \A r \in Invocations : at[r] = "iter.start" => StartsBelow(timeline, iteration)

LEMMA SoleNext ==
    Sole' <=> /\ \A r, s \in Running' : r = s
              /\ \A r \in Invocations : at'[r] \in {"begin", "iter.start", "running"} => root' = r
              /\ \A r \in Invocations : at'[r] \in {"iter.start", "running"} => passOf'[r] = iteration'
              /\ StartsRise(timeline')
              /\ \A r \in Invocations : at'[r] = "iter.start" => StartsBelow(timeline', iteration')
    BY DEF Sole, StartsRise, StartsBelow

(* Overlap is never forgotten, and found where it begins; the same of a    *)
(* finish() that comes early.                                              *)
LEMMA OverlapFacts ==
    ASSUME TypeOK, [Next]_vars
    PROVE  /\ overlap => overlap'
           /\ early => early'
           /\ ~overlap' => ((SetIteration \/ \E r \in Invocations : RootStart(r)) => Running = {})
           /\ ~early' => /\ Finish => Running = {}
                         /\ (\E r \in Invocations : RootStart(r)) => ~Finishing
<1> overlap \in BOOLEAN /\ early \in BOOLEAN
  BY DEF TypeOK
<1>1. ASSUME NEW x \in Closers, OuterStep(x) PROVE (overlap => overlap') /\ (early => early')
  <2>1. InvocationStep(x) => (overlap => overlap') /\ (early => early')
    BY DEF InvocationStep, RootStart, BeginIteration, PublishPassStart, RootOk, RootEnd, ends
  <2>2. CloserStep(x) => (overlap => overlap') /\ (early => early')
    BY DEF CloserStep, CheckOpen, ClearOpen, PublishPassEnd, CheckEnded, SetEnded, PublishRunEnd, ends
  <2>3. ProgramStep => (overlap => overlap') /\ (early => early')
    BY DEF ProgramStep, Finish, SetIteration, ForgetLastNode, ends
  <2> QED BY <1>1, <2>1, <2>2, <2>3 DEF OuterStep
<1>2. ASSUME NEW t \in Tasks, TaskStep(t) PROVE (overlap => overlap') /\ (early => early')
  BY <1>2 DEF TaskStep, TaskStart, TaskEdge, TaskVisit, TaskEnd, TaskReport, Discover, SetContainers,
              PublishTopology, ends
<1>3. (overlap => overlap') /\ (early => early')
  BY <1>1, <1>2, StepKinds DEF vars, ends
<1>4. ~overlap' => ((SetIteration \/ \E r \in Invocations : RootStart(r)) => Running = {})
  BY DEF SetIteration, RootStart
<1>5. ~early' => (Finish => Running = {}) /\ ((\E r \in Invocations : RootStart(r)) => ~Finishing)
  BY DEF Finish, RootStart
<1> QED BY <1>3, <1>4, <1>5

\* An invoke, or finish(), is on its way
Busy(x) == at[x] \notin {"new", "ended", "idle", "forget"}

(* Only an invoke or a finish() that begins moves without being on its way. *)
LEMMA BusyStep ==
    ASSUME TypeOK, NEW x \in Closers, OuterStep(x)
    PROVE  \/ Busy(x)
           \/ x \in Invocations /\ RootStart(x)
           \/ x = Program /\ ProgramStep
<1>1. ASSUME NEW here, NEW there, here \notin {"new", "ended", "idle", "forget"}, Move(x, here, there)
      PROVE  Busy(x)
  BY <1>1, MoveFacts DEF Busy
<1>2. ASSUME InvocationStep(x), ~RootStart(x)
      PROVE  \E here, there : here \notin {"new", "ended", "idle", "forget"} /\ Move(x, here, there)
  BY <1>2 DEF InvocationStep, BeginIteration, PublishPassStart, RootOk, RootEnd
<1>3. ASSUME CloserStep(x)
      PROVE  \E here, there : here \notin {"new", "ended", "idle", "forget"} /\ Move(x, here, there)
  BY <1>3 DEF CloserStep, CheckOpen, ClearOpen, PublishPassEnd, CheckEnded, SetEnded, PublishRunEnd
<1> QED BY <1>1, <1>2, <1>3 DEF OuterStep

LEMMA RunningFacts ==
    TypeOK => /\ \A r \in Invocations : r \in Running <=> Busy(r)
              /\ Finishing <=> Busy(Program)
    BY DEF TypeOK, Running, Finishing, Busy, InvocationPlaces, ProgramPlaces, ClosingPlaces

LEMMA SoleOthers ==
    ASSUME TypeOK, Sole, [Next]_vars, ~overlap', NEW x \in Invocations, OuterStep(x)
    PROVE  \A s \in Invocations : s # x => at[s] \in {"new", "ended"} /\ at'[s] = at[s]
<1>1. \A s \in Invocations : s # x => at'[s] = at[s]
  BY OuterMoves DEF Closers
<1>2. \A s \in Running : s = x
  <2>1. CASE Busy(x)
    BY <2>1, RunningFacts DEF Sole
  <2>2. CASE RootStart(x)
    BY <2>2, OverlapFacts
  <2> QED BY <2>1, <2>2, BusyStep, RunsAssumption DEF Closers
<1> QED BY <1>1, <1>2 DEF Running

(* What end_iteration and _end_run publish, if anything.                   *)
LEMMA CloserMarks ==
    ASSUME TypeOK, NEW x, CloserStep(x)
    PROVE  timeline' \in {timeline, timeline \o <<PassEnd>>, timeline \o <<RunEnd>>}
<1>1. ASSUME NEW e, PublishMark(e) PROVE timeline' = timeline \o <<e>>
  <2>1. timeline' = Append(timeline, e)
    BY <1>1 DEF PublishMark
  <2> QED BY <2>1, NumberFacts
<1>2. CASE PublishPassEnd(x)
  BY <1>1, <1>2 DEF PublishPassEnd, PassEnd
<1>3. CASE PublishRunEnd(x)
  BY <1>1, <1>3 DEF PublishRunEnd, RunEnd
<1>4. CASE CheckOpen(x) \/ ClearOpen(x) \/ CheckEnded(x) \/ SetEnded(x)
  BY <1>4 DEF CheckOpen, ClearOpen, CheckEnded, SetEnded, out
<1> QED BY <1>2, <1>3, <1>4 DEF CloserStep

(* Where an invoke's own step leaves it, and what it says of its pass.     *)
LEMMA SoleOwn ==
    ASSUME TypeInv, Numbered(timeline, iteration), Sole, [Next]_vars, ~overlap',
           NEW r \in Invocations, OuterStep(r)
    PROVE  /\ at'[r] \in {"begin", "iter.start", "running"} => root' = r
           /\ at'[r] \in {"iter.start", "running"} => passOf'[r] = iteration'
           /\ at'[r] = "iter.start" => StartsBelow(timeline', iteration')
           /\ StartsRise(timeline')
<1>1. /\ TypeOK /\ timeline \in Seq(MarkTypes) /\ iteration \in Nat
      /\ r # Program /\ r \in Closers
  BY NumberFacts, RunsAssumption DEF TypeInv, Closers
<1>2. CASE RootStart(r)
  <2>1. at'[r] \in {"begin", "running"}
    BY <1>1, <1>2, MoveFacts DEF RootStart
  <2>2. /\ root' = r /\ passOf'[r] = iteration /\ iteration' = iteration /\ timeline' = timeline
    BY <1>1, <1>2 DEF RootStart, TypeOK, out
  <2> QED BY <2>1, <2>2 DEF Sole
<1>3. CASE BeginIteration(r)
  <2>1. at[r] = "begin" /\ at'[r] = "iter.start"
    BY <1>1, <1>3, MoveFacts DEF BeginIteration
  <2>2. /\ root' = root /\ passOf'[r] = iteration + 1 /\ iteration' = iteration + 1 /\ timeline' = timeline
    BY <1>1, <1>3 DEF BeginIteration, NextPass, TypeOK, out
  <2>3. StartsBelow(timeline, iteration + 1)
    <3>1. \A i \in 1..Len(timeline) : timeline[i].pass \in Int
      <4>1. \A i \in 1..Len(timeline) : timeline[i] \in MarkTypes
        BY <1>1
      <4> QED BY <4>1 DEF MarkTypes, Count
    <3> QED BY <1>1, <3>1 DEF StartsBelow, Numbered
  <2> QED BY <2>1, <2>2, <2>3 DEF Sole
<1>4. CASE PublishPassStart(r)
  <2>1. at[r] = "iter.start" /\ at'[r] = "running"
    BY <1>1, <1>4, MoveFacts DEF PublishPassStart
  <2>2. /\ root' = root /\ passOf' = passOf /\ iteration' = iteration
        /\ timeline' = timeline \o <<PassStart(r)>>
    BY <1>1, <1>4 DEF PublishPassStart, PublishMark, PassStart, rootVars
  <2>3. PassStart(r) \in MarkTypes /\ PassStart(r).pass = iteration
    BY <1>1, EndTypes DEF PassStart, Mark
  <2>4. StartsRise(timeline')
    <3> HIDE DEF PassStart
    <3> QED BY <1>1, <2>1, <2>2, <2>3, RiseMore DEF Sole
  <2> QED BY <2>1, <2>2, <2>4 DEF Sole
<1>5. CASE RootOk(r) \/ (\E how \in {"ok", "failed"} : RootEnd(r, how)) \/ CloserStep(r)
  <2>1. at'[r] \notin {"begin", "iter.start", "running"}
    <3>1. ASSUME NEW here, NEW there, there \notin {"begin", "iter.start", "running"}, Move(r, here, there)
          PROVE  at'[r] \notin {"begin", "iter.start", "running"}
      BY <1>1, <3>1, MoveFacts
    <3>2. RootOk(r) \/ (\E how \in {"ok", "failed"} : RootEnd(r, how)) =>
             \E here, there : there \notin {"begin", "iter.start", "running"} /\ Move(r, here, there)
      BY DEF RootOk, RootEnd
    <3>3. CloserStep(r) =>
             \E here, there : there \notin {"begin", "iter.start", "running"} /\ Move(r, here, there)
      BY <1>1 DEF CloserStep, CheckOpen, ClearOpen, PublishPassEnd, CheckEnded, SetEnded, PublishRunEnd, Through
    <3> QED BY <1>5, <3>1, <3>2, <3>3
  <2>2. timeline' \in {timeline, timeline \o <<PassEnd>>, timeline \o <<RunEnd>>}
    <3>1. RootOk(r) \/ (\E how \in {"ok", "failed"} : RootEnd(r, how)) => timeline' = timeline
      BY DEF RootOk, RootEnd, PublishEdge, out
    <3>2. CloserStep(r) => timeline' \in {timeline, timeline \o <<PassEnd>>, timeline \o <<RunEnd>>}
      BY <1>1, CloserMarks
    <3> QED BY <1>5, <3>1, <3>2
  <2>3. StartsRise(timeline')
    <3>1. PassEnd \in MarkTypes /\ RunEnd \in MarkTypes /\ PassEnd.type = "iter.end" /\ RunEnd.type = "run.end"
      BY <1>1, EndTypes DEF PassEnd, RunEnd, Mark
    <3> HIDE DEF PassEnd, RunEnd
    <3>2. StartsRise(timeline \o <<PassEnd>>) /\ StartsRise(timeline \o <<RunEnd>>)
      BY <1>1, <3>1, RiseMore DEF Sole
    <3> QED BY <2>2, <3>2 DEF Sole
  <2> QED BY <2>1, <2>3
<1> QED BY <1>1, <1>2, <1>3, <1>4, <1>5 DEF OuterStep, InvocationStep

LEMMA SoleStep ==
    ASSUME TypeInv, Numbered(timeline, iteration), Sole, [Next]_vars, ~overlap'
    PROVE  Sole'
<1>1. TypeOK /\ timeline \in Seq(MarkTypes)
  BY NumberFacts DEF TypeInv
<1>2. ASSUME NEW r \in Invocations, OuterStep(r) PROVE Sole'
  <2>1. \A s \in Invocations : s # r => at'[s] \in {"new", "ended"}
    BY <1>1, <1>2, SoleOthers
  <2>2. \A q, s \in Running' : q = s
    BY <2>1 DEF Running
  <2> QED BY <1>2, <2>1, <2>2, SoleOwn, SoleNext
<1>3. ASSUME UNCHANGED <<iteration, root, passOf, timeline>>, \A r \in Invocations : at'[r] = at[r]
      PROVE  Sole'
  <2>1. Running' = Running
    BY <1>3 DEF Running
  <2> QED BY <1>3, <2>1, SoleNext DEF Sole
<1>4. ASSUME NEW t \in Tasks, TaskStep(t) PROVE Sole'
  BY <1>1, <1>3, <1>4, TaskMoves DEF Closers, rootVars
<1>5. CASE UNCHANGED vars
  BY <1>3, <1>5 DEF vars, out, rootVars
<1>6. CASE OuterStep(Program)
  <2>1. \A r \in Invocations : at'[r] = at[r]
    BY <1>1, <1>6, OuterMoves, RunsAssumption DEF Closers
  <2>2. CASE SetIteration
    <3>1. Running = {} /\ root' = root /\ timeline' = timeline
      BY <1>1, <2>2, OverlapFacts DEF SetIteration, out
    <3>2. \A r \in Invocations : at'[r] \in {"new", "ended"}
      BY <2>1, <3>1 DEF Running
    <3>3. Running' = {}
      BY <3>2 DEF Running
    <3> QED BY <3>1, <3>2, <3>3, SoleNext DEF Sole
  <2>3. CASE Finish \/ ForgetLastNode
    BY <1>3, <2>1, <2>3 DEF Finish, ForgetLastNode, rootVars, out
  <2>4. CASE CloserStep(Program)
    <3>1. UNCHANGED <<iteration, root, passOf>>
      BY <2>4 DEF CloserStep, CheckOpen, ClearOpen, PublishPassEnd, CheckEnded, SetEnded, PublishRunEnd, rootVars
    <3>2. timeline' \in {timeline, timeline \o <<PassEnd>>, timeline \o <<RunEnd>>}
      BY <1>1, <2>4, CloserMarks
    <3>3. PassEnd \in MarkTypes /\ RunEnd \in MarkTypes /\ PassEnd.type = "iter.end" /\ RunEnd.type = "run.end"
      BY <1>1, EndTypes DEF PassEnd, RunEnd, Mark
    <3> HIDE DEF PassEnd, RunEnd
    <3>4. ASSUME NEW s \in {timeline, timeline \o <<PassEnd>>, timeline \o <<RunEnd>>}
          PROVE  StartsRise(s) /\ (StartsBelow(timeline, iteration) => StartsBelow(s, iteration))
      BY <1>1, <3>3, RiseMore DEF Sole
    <3>5. Running' = Running
      BY <2>1 DEF Running
    <3>6. StartsRise(timeline') /\ (StartsBelow(timeline, iteration) => StartsBelow(timeline', iteration))
      BY <3>2, <3>4
    <3> QED BY <2>1, <3>1, <3>5, <3>6, SoleNext DEF Sole
  <2> QED BY <1>6, <2>2, <2>3, <2>4, RunsAssumption DEF OuterStep, ProgramStep
<1> QED BY <1>2, <1>4, <1>5, <1>6, StepKinds DEF Closers

-----------------------------------------------------------------------------
(* Three more events: the run's end, a pass's end and a pass's start.      *)
LEMMA MoreRunEnd ==
    ASSUME TypeOK, NEW s \in Seq(MarkTypes), AllOnce(s)
    PROVE  AllOnce(s \o <<RunEnd>>) /\ \A n : ClosedIn(s, n) => ClosedIn(s \o <<RunEnd>>, n)
<1>1. RunEnd \in MarkTypes /\ RunEnd.pass = 0
  BY EndTypes DEF RunEnd, Mark
<1> DEFINE u == s \o <<RunEnd>>
<1>2. /\ \A n \in Count \ {0} : OnceIn(s, n) => OnceIn(u, n)
      /\ \A n : ClosedIn(s, n) => ClosedIn(u, n)
  BY <1>1, PassFacts
<1> HIDE DEF u
<1>3. AllOnce(u)
  BY <1>2 DEF AllOnce
<1> QED BY <1>2, <1>3 DEF u

LEMMA MorePassEnd ==
    ASSUME TypeOK, AllOnce(timeline), IsOpen(timeline, iteration)
    PROVE  /\ AllOnce(timeline \o <<PassEnd>>)
           /\ \A n : ClosedIn(timeline, n) => ClosedIn(timeline \o <<PassEnd>>, n)
           /\ ClosedIn(timeline \o <<PassEnd>>, iteration)
<1> DEFINE u == timeline \o <<PassEnd>>
<1>1. timeline \in Seq(MarkTypes) /\ iteration \in Nat
  BY NumberFacts
<1>2. PassEnd \in MarkTypes /\ PassEnd.type = "iter.end" /\ PassEnd.pass = iteration
  BY EndTypes DEF PassEnd, Mark
<1>3. /\ \A n : ClosedIn(timeline, n) => ClosedIn(u, n)
      /\ ClosedIn(u, iteration)
      /\ \A i : OpenIn(timeline, iteration, i) => OverIn(u, iteration)
      /\ \A n : n # iteration => (OnceIn(timeline, n) => OnceIn(u, n))
  BY <1>1, <1>2, PassFacts
<1> HIDE DEF u
<1>4. AllOnce(u)
  BY <1>3 DEF AllOnce, OnceIn, IsOpen
<1> QED BY <1>3, <1>4 DEF u

LEMMA MorePassStart ==
    ASSUME TypeOK, AllOnce(timeline), PosOf(timeline, iteration) = {}, NEW r \in Invocations
    PROVE  /\ AllOnce(timeline \o <<PassStart(r)>>)
           /\ \A n : ClosedIn(timeline, n) => ClosedIn(timeline \o <<PassStart(r)>>, n)
           /\ IsOpen(timeline \o <<PassStart(r)>>, iteration)
           /\ OpenerIn(timeline \o <<PassStart(r)>>) = r
<1> DEFINE e == PassStart(r)
           u == timeline \o <<e>>
           k == Len(timeline) + 1
<1>1. timeline \in Seq(MarkTypes) /\ iteration \in Nat
  BY NumberFacts
<1>2. e \in MarkTypes /\ e.type = "iter.start" /\ e.pass = iteration /\ e.by = r
  BY EndTypes DEF PassStart, Mark
<1> HIDE DEF e
<1>3. u \in Seq(MarkTypes) /\ u[k] = e
  BY <1>1, <1>2, AppendFacts
<1>4. /\ \A n : ClosedIn(timeline, n) => ClosedIn(u, n)
      /\ OpenIn(u, iteration, k)
      /\ \A n : n # iteration => (OnceIn(timeline, n) => OnceIn(u, n))
  BY <1>1, <1>2, PassFacts
<1>5. IsLast(k, u)
  BY <1>1, <1>2, MarkFacts
<1> HIDE DEF u, k
<1>6. AllOnce(u) /\ IsOpen(u, iteration)
  BY <1>4, <1>5 DEF AllOnce, OnceIn, OpenIn, IsOpen
<1>7. OpenerIn(u) = r
  BY <1>2, <1>3, <1>5, OpenerFacts DEF IsLast
<1> QED BY <1>4, <1>6, <1>7 DEF u, e

-----------------------------------------------------------------------------
(* As long as finish() does not come in the middle of an invoke either, at *)
(* most one of them is on its way, and its place tells what is open.       *)
Alone == \A x, y \in Closers : Busy(x) /\ Busy(y) => x = y

AllClosed(s, m) == \A n \in 1..m : ClosedIn(s, n)
Rest(s, m, open) == ~open /\ AllClosed(s, m)
Announced(s, m, open) == open /\ m # 0 /\ PosOf(s, m) = {} /\ AllClosed(s, m - 1)
Opened(s, m, open, r) == open /\ m # 0 /\ IsOpen(s, m) /\ OpenerIn(s) = r /\ AllClosed(s, m - 1)
Shut(s, m, open) == ~open /\ m # 0 /\ IsOpen(s, m) /\ AllClosed(s, m - 1)

InPass(place) == place \in {"running", "close", "clear"}
Engaged(place) == InPass(place) \/ place \in {"iter.start", "iter.end"}

Standing(s, m, open, place, r) ==
    /\ place = "iter.start" => Announced(s, m, open)
    /\ InPass(place) => Opened(s, m, open, r)
    /\ place = "iter.end" => Shut(s, m, open)

Passes ==
    /\ AllOnce(timeline)
    /\ at[Program] \notin {"clear", "iter.end"}
    /\ autoIteration =>
          /\ \A r \in Invocations : Standing(timeline, iteration, iterOpen, at[r], r)
          /\ (\A r \in Invocations : ~Engaged(at[r])) => Rest(timeline, iteration, iterOpen)

LEMMA PassesNext ==
    Passes' <=>
        /\ AllOnce(timeline')
        /\ at'[Program] \notin {"clear", "iter.end"}
        /\ autoIteration' =>
              /\ \A r \in Invocations : Standing(timeline', iteration', iterOpen', at'[r], r)
              /\ (\A r \in Invocations : ~Engaged(at'[r])) => Rest(timeline', iteration', iterOpen')
<1>1. AllOnce(timeline)' <=> AllOnce(timeline')
  BY DEF AllOnce, OnceIn, OpenIn, OverIn, PosOf, Count
<1>2. \A r : Standing(timeline, iteration, iterOpen, at[r], r)' <=>
                Standing(timeline', iteration', iterOpen', at'[r], r)
  <2>1. \A r : Announced(timeline, iteration, iterOpen)' <=> Announced(timeline', iteration', iterOpen')
    BY DEF Announced, AllClosed, ClosedIn, PosOf
  <2>2. \A r : Opened(timeline, iteration, iterOpen, r)' <=> Opened(timeline', iteration', iterOpen', r)
    BY DEF Opened, AllClosed, ClosedIn, PosOf, IsOpen, OpenIn, IsLast, Marks, OpenerIn
  <2>3. Shut(timeline, iteration, iterOpen)' <=> Shut(timeline', iteration', iterOpen')
    BY DEF Shut, AllClosed, ClosedIn, PosOf, IsOpen, OpenIn, IsLast, Marks
  <2> QED BY <2>1, <2>2, <2>3 DEF Standing, InPass
<1>3. Rest(timeline, iteration, iterOpen)' <=> Rest(timeline', iteration', iterOpen')
  BY DEF Rest, AllClosed, ClosedIn, PosOf
<1>4. \A r : Engaged(at[r])' <=> Engaged(at'[r])
  BY DEF Engaged, InPass
<1> QED BY <1>1, <1>2, <1>3, <1>4 DEF Passes

(* Whoever takes a step that counts is alone.                              *)
LEMMA AloneOthers ==
    ASSUME TypeOK, Alone, [Next]_vars, ~overlap', ~early', NEW x \in Closers, OuterStep(x),
           ~(x = Program /\ ForgetLastNode)
    PROVE  \A y \in Closers : y # x => ~Busy(y) /\ at'[y] = at[y]
<1>1. \A y \in Closers : y # x => at'[y] = at[y]
  BY OuterMoves
<1>2. ASSUME NEW y \in Closers, y # x PROVE ~Busy(y)
  <2>1. CASE Busy(x)
    BY <1>2, <2>1 DEF Alone
  <2>2. CASE x \in Invocations /\ RootStart(x)
    BY <2>2, OverlapFacts, RunningFacts DEF Closers
  <2>3. CASE x = Program /\ (Finish \/ SetIteration)
    BY <1>2, <2>3, OverlapFacts, RunningFacts DEF Closers
  <2> QED BY <2>1, <2>2, <2>3, BusyStep DEF ProgramStep
<1> QED BY <1>1, <1>2

LEMMA AloneStep ==
    ASSUME TypeOK, Alone, [Next]_vars, ~overlap', ~early'
    PROVE  Alone'
<1>1. ASSUME NEW x \in Closers, \A y \in Closers : y # x => ~Busy(y) /\ at'[y] = at[y] PROVE Alone'
  BY <1>1 DEF Alone, Busy
<1>2. ASSUME \A x \in Closers : Busy(x)' => Busy(x) PROVE Alone'
  BY <1>2 DEF Alone
<1>3. CASE ForgetLastNode
  <2>1. at'[Program] = "idle" /\ \A y \in Closers : y # Program => at'[y] = at[y]
    BY <1>3, MoveFacts DEF ForgetLastNode, Closers
  <2> QED BY <1>2, <2>1 DEF Busy
<1>4. ASSUME NEW t \in Tasks, TaskStep(t) PROVE Alone'
  <2>1. \A x \in Closers : at'[x] = at[x]
    BY <1>4, TaskMoves
  <2> QED BY <1>2, <2>1 DEF Busy
<1>5. CASE UNCHANGED vars
  BY <1>2, <1>5 DEF Busy, vars
<1> QED BY <1>1, <1>3, <1>4, <1>5, AloneOthers, StepKinds

(* A step that opens and closes nothing.                                   *)
LEMMA PassesKept ==
    ASSUME Passes, UNCHANGED <<autoIteration, timeline, iteration, iterOpen>>,
           at'[Program] \notin {"clear", "iter.end"},
           \A r \in Invocations :
              \/ at'[r] = at[r]
              \/ InPass(at[r]) /\ InPass(at'[r])
              \/ ~Engaged(at[r]) /\ ~Engaged(at'[r])
    PROVE  Passes'
<1>1. ASSUME autoIteration, NEW r \in Invocations
      PROVE  Standing(timeline, iteration, iterOpen, at'[r], r)
  BY <1>1 DEF Passes, Standing, InPass, Engaged
<1>2. (\A r \in Invocations : ~Engaged(at'[r])) => \A r \in Invocations : ~Engaged(at[r])
  BY DEF Engaged
<1> QED BY <1>1, <1>2, PassesNext DEF Passes

(* A step of an invoke that is the only one on its way.                    *)
LEMMA PassesOwn ==
    ASSUME NEW r \in Invocations, \A s \in Invocations : s # r => ~Engaged(at'[s]),
           at'[Program] \notin {"clear", "iter.end"}, AllOnce(timeline'),
           autoIteration' => /\ Standing(timeline', iteration', iterOpen', at'[r], r)
                             /\ ~Engaged(at'[r]) => Rest(timeline', iteration', iterOpen')
    PROVE  Passes'
<1>1. ASSUME autoIteration', NEW s \in Invocations PROVE Standing(timeline', iteration', iterOpen', at'[s], s)
  <2>1. CASE s = r
    BY <1>1, <2>1
  <2>2. CASE s # r
    BY <2>2 DEF Standing, Engaged
  <2> QED BY <2>1, <2>2
<1> QED BY <1>1, PassesNext

LEMMA BusyPlaces == \A x : ~Busy(x) => ~Engaged(at[x])
    BY DEF Busy, Engaged, InPass

LEMMA PassesInvocation ==
    ASSUME TypeInv, Numbered(timeline, iteration), Sole, Alone, Passes, [Next]_vars, ~overlap', ~early',
           NEW r \in Invocations, OuterStep(r)
    PROVE  Passes'
<1>1. /\ TypeOK /\ r \in Closers /\ r # Program /\ Program \in Closers
      /\ timeline \in Seq(MarkTypes) /\ iteration \in Nat
      /\ iteration \in Count /\ iterOpen \in BOOLEAN
  <2>1. iteration \in Count /\ iterOpen \in BOOLEAN
    BY DEF TypeInv, TypeOK
  <2> QED BY <2>1, RunsAssumption, NumberFacts DEF TypeInv, Closers
<1>2. \A y \in Closers : y # r => ~Busy(y) /\ at'[y] = at[y] /\ ~Engaged(at'[y])
  BY <1>1, AloneOthers, BusyPlaces
<1>3. /\ \A s \in Invocations : s # r => ~Engaged(at'[s]) /\ ~Engaged(at[s])
      /\ at'[Program] \notin {"clear", "iter.end"}
      /\ autoIteration' = autoIteration
  <2>1. at'[Program] = at[Program] /\ autoIteration' = autoIteration
    BY <1>1, <1>2, OuterMoves
  <2> QED BY <1>2, <2>1 DEF Closers, Passes
<1>4. AllOnce(timeline)
  BY DEF Passes
<1>5. ASSUME autoIteration
      PROVE  /\ Standing(timeline, iteration, iterOpen, at[r], r)
             /\ ~Engaged(at[r]) => Rest(timeline, iteration, iterOpen)
  BY <1>3, <1>5 DEF Passes
<1>6. ASSUME NEW here, NEW there, Move(r, here, there),
             UNCHANGED <<timeline, iteration, iterOpen>>,
             \/ InPass(here) /\ InPass(there)
             \/ ~Engaged(here) /\ ~Engaged(there)
             \/ ~autoIteration
      PROVE  Passes'
  <2>1. at[r] = here /\ at'[r] = there
    BY <1>1, <1>6, MoveFacts
  <2>2. CASE ~autoIteration
    BY <1>3, <1>4, <1>6, <2>2, PassesNext
  <2>3. CASE autoIteration
    <3>1. \A s \in Invocations : at'[s] = at[s] \/ s = r
      BY <1>2 DEF Closers
    <3> QED BY <1>3, <1>6, <2>1, <2>3, <3>1, PassesKept
  <2> QED BY <2>2, <2>3
<1>7. CASE RootStart(r)
  <2>1. UNCHANGED <<timeline, iteration, iterOpen>>
    BY <1>7 DEF RootStart, out
  <2>2. Move(r, "new", IF autoIteration THEN "begin" ELSE "running")
    BY <1>7 DEF RootStart
  <2> QED BY <1>6, <2>1, <2>2 DEF Engaged, InPass
<1>8. CASE BeginIteration(r)
  <2>1. at[r] = "begin" /\ at'[r] = "iter.start"
    BY <1>1, <1>8, MoveFacts DEF BeginIteration
  <2>2. iteration' = iteration + 1 /\ iterOpen' = TRUE /\ timeline' = timeline
    BY <1>8 DEF BeginIteration, NextPass, out
  <2>3. autoIteration => Rest(timeline, iteration, iterOpen)
    BY <1>5, <2>1 DEF Engaged, InPass
  <2>4. PosOf(timeline, iteration + 1) = {}
    <3>1. \A i \in 1..Len(timeline) : timeline[i].pass # iteration + 1
      BY <1>1 DEF Numbered
    <3> QED BY <3>1 DEF PosOf
  <2>5. (iteration + 1) - 1 = iteration /\ iteration + 1 # 0
    BY <1>1
  <2>6. autoIteration => Announced(timeline, iteration + 1, TRUE)
    BY <2>3, <2>4, <2>5 DEF Announced, Rest
  <2>7. Standing(timeline, iteration + 1, TRUE, "iter.start", r) \/ ~autoIteration
    BY <2>6 DEF Standing, InPass
  <2> QED BY <1>3, <1>4, <2>1, <2>2, <2>7, PassesOwn DEF Engaged
<1>9. CASE PublishPassStart(r)
  <2>1. at[r] = "iter.start" /\ at'[r] = "running" /\ autoIteration
    BY <1>1, <1>9, MoveFacts DEF PublishPassStart, TypeInv, Counted, Opening
  <2>2. iteration' = iteration /\ iterOpen' = iterOpen /\ timeline' = timeline \o <<PassStart(r)>>
    <3>1. PublishMark(PassStart(r)) /\ UNCHANGED rootVars
      BY <1>9 DEF PublishPassStart, PassStart
    <3>2. timeline' = Append(timeline, PassStart(r))
      BY <3>1 DEF PublishMark
    <3> QED BY <1>1, <3>1, <3>2 DEF rootVars
  <2>3. Announced(timeline, iteration, iterOpen)
    BY <1>5, <2>1 DEF Standing
  <2>4. /\ AllOnce(timeline')
        /\ \A n : ClosedIn(timeline, n) => ClosedIn(timeline', n)
        /\ IsOpen(timeline', iteration) /\ OpenerIn(timeline') = r
    BY <1>1, <1>4, <2>2, <2>3, MorePassStart DEF Announced
  <2>5. Opened(timeline', iteration, iterOpen, r)
    BY <2>3, <2>4 DEF Opened, Announced, AllClosed
  <2>6. Standing(timeline', iteration, iterOpen, "running", r)
    BY <2>5 DEF Standing
  <2> QED BY <1>3, <2>1, <2>2, <2>4, <2>6, PassesOwn DEF Engaged, InPass
<1>10. CASE ClearOpen(r)
  <2>1. at[r] = "clear" /\ at'[r] = "iter.end" /\ autoIteration
    BY <1>1, <1>10, MoveFacts DEF ClearOpen, TypeInv, Counted, Opening
  <2>2. iteration' = iteration /\ iterOpen' = FALSE /\ timeline' = timeline
    BY <1>10 DEF ClearOpen, NoLongerOpen, out
  <2>3. Opened(timeline, iteration, iterOpen, r)
    BY <1>5, <2>1 DEF Standing, InPass
  <2>4. Standing(timeline, iteration, FALSE, "iter.end", r)
    BY <2>3 DEF Standing, Opened, Shut, InPass
  <2> QED BY <1>3, <1>4, <2>1, <2>2, <2>4, PassesOwn DEF Engaged
<1>11. CASE PublishPassEnd(r)
  <2>1. at[r] = "iter.end" /\ at'[r] = "closed" /\ autoIteration
    BY <1>1, <1>11, MoveFacts DEF PublishPassEnd, TypeInv, Counted, Opening
  <2>2. iteration' = iteration /\ iterOpen' = iterOpen /\ timeline' = timeline \o <<PassEnd>>
    <3>1. PublishMark(PassEnd) /\ UNCHANGED rootVars
      BY <1>11 DEF PublishPassEnd, PassEnd
    <3>2. timeline' = Append(timeline, PassEnd)
      BY <3>1 DEF PublishMark
    <3> QED BY <1>1, <3>1, <3>2 DEF rootVars
  <2>3. Shut(timeline, iteration, iterOpen)
    BY <1>5, <2>1 DEF Standing, InPass
  <2>4. /\ AllOnce(timeline')
        /\ \A n : ClosedIn(timeline, n) => ClosedIn(timeline', n)
        /\ ClosedIn(timeline', iteration)
    BY <1>1, <1>4, <2>2, <2>3, MorePassEnd DEF Shut
  <2>5. \A n \in 1..iteration : n = iteration \/ n \in 1..(iteration - 1)
    BY <1>1
  <2>6. Rest(timeline', iteration, iterOpen)
    BY <2>3, <2>4, <2>5 DEF Rest, Shut, AllClosed
  <2>7. Standing(timeline', iteration, iterOpen, "closed", r)
    BY DEF Standing, InPass
  <2> QED BY <1>3, <2>1, <2>2, <2>4, <2>6, <2>7, PassesOwn
<1>12. CASE PublishRunEnd(r)
  <2>1. at[r] = "run.end" /\ at'[r] = "ended"
    BY <1>1, <1>12, MoveFacts DEF PublishRunEnd, Through
  <2>2. iteration' = iteration /\ iterOpen' = iterOpen /\ timeline' = timeline \o <<RunEnd>>
    <3>1. PublishMark(RunEnd) /\ UNCHANGED rootVars
      BY <1>12 DEF PublishRunEnd, RunEnd
    <3>2. timeline' = Append(timeline, RunEnd)
      BY <3>1 DEF PublishMark
    <3> QED BY <1>1, <3>1, <3>2 DEF rootVars
  <2>3. autoIteration => Rest(timeline, iteration, iterOpen)
    BY <1>5, <2>1 DEF Engaged, InPass
  <2>4. AllOnce(timeline') /\ \A n : ClosedIn(timeline, n) => ClosedIn(timeline', n)
    BY <1>1, <1>4, <2>2, MoreRunEnd
  <2>5. autoIteration => Rest(timeline', iteration, iterOpen)
    BY <2>3, <2>4 DEF Rest, AllClosed
  <2>6. Standing(timeline', iteration, iterOpen, "ended", r)
    BY DEF Standing, InPass
  <2> QED BY <1>3, <2>1, <2>2, <2>4, <2>5, <2>6, PassesOwn
<1>13. ASSUME NEW how \in {"ok", "failed"}, RootEnd(r, how) PROVE Passes'
  <2>1. UNCHANGED <<timeline, iteration, iterOpen>> /\ at[r] = "running"
    BY <1>13 DEF RootEnd, Move, out
  <2>2. Move(r, "running", IF autoIteration THEN "close" ELSE "closed")
    BY <1>13, <2>1 DEF RootEnd, Sole
  <2>3. InPass("running") /\ InPass("close")
    BY DEF InPass
  <2>4. CASE autoIteration
    <3>1. Move(r, "running", "close")
      BY <2>2, <2>4
    <3> QED BY <1>6, <2>1, <2>3, <3>1
  <2>5. CASE ~autoIteration
    BY <1>6, <2>1, <2>2, <2>5
  <2> QED BY <2>4, <2>5
<1>14. CASE RootOk(r)
  <2>1. UNCHANGED <<timeline, iteration, iterOpen>>
    BY <1>14 DEF RootOk, PublishEdge, rootVars
  <2> QED BY <1>6, <1>14, <2>1 DEF RootOk, Engaged, InPass
<1>15. CASE CheckOpen(r)
  <2>1. UNCHANGED <<timeline, iteration, iterOpen>>
    BY <1>15 DEF CheckOpen, rootVars, out
  <2>2. at[r] = "close" /\ (autoIteration => iterOpen)
    BY <1>5, <1>15 DEF CheckOpen, Move, Standing, InPass, Opened
  <2>3. CASE autoIteration
    <3>1. Move(r, "close", "clear")
      BY <1>15, <2>2, <2>3 DEF CheckOpen
    <3>2. InPass("close") /\ InPass("clear")
      BY DEF InPass
    <3> QED BY <1>6, <2>1, <3>1, <3>2
  <2>4. CASE ~autoIteration
    BY <1>6, <1>15, <2>1, <2>4 DEF CheckOpen
  <2> QED BY <2>3, <2>4
<1>16. CASE CheckEnded(r)
  <2>1. UNCHANGED <<timeline, iteration, iterOpen>>
    BY <1>16 DEF CheckEnded, rootVars, out
  <2>2. Move(r, "closed", IF ended THEN "ended" ELSE "end")
    BY <1>1, <1>16 DEF CheckEnded, Through
  <2> QED BY <1>6, <2>1, <2>2 DEF Engaged, InPass
<1>17. CASE SetEnded(r)
  <2>1. UNCHANGED <<timeline, iteration, iterOpen>>
    BY <1>17 DEF SetEnded, out
  <2> QED BY <1>6, <1>17, <2>1 DEF SetEnded, Engaged, InPass
<1> QED BY <1>1, <1>7, <1>8, <1>9, <1>10, <1>11, <1>12, <1>13, <1>14, <1>15, <1>16, <1>17
        DEF OuterStep, InvocationStep, CloserStep

LEMMA PassesStep ==
    ASSUME TypeInv, Numbered(timeline, iteration), Sole, Alone, Passes, [Next]_vars, ~overlap', ~early'
    PROVE  Passes'
<1>1. TypeOK /\ Program \in Closers /\ timeline \in Seq(MarkTypes) /\ AllOnce(timeline)
      /\ at[Program] \notin {"clear", "iter.end"} /\ iterOpen \in BOOLEAN
  <2>1. iterOpen \in BOOLEAN
    BY DEF TypeInv, TypeOK
  <2> QED BY <2>1, NumberFacts DEF TypeInv, Closers, Passes
<1>2. ASSUME UNCHANGED <<autoIteration, timeline, iteration, iterOpen>>, \A x \in Closers : at'[x] = at[x]
      PROVE  Passes'
  BY <1>1, <1>2, PassesKept DEF Closers
<1>3. ASSUME NEW t \in Tasks, TaskStep(t) PROVE Passes'
  BY <1>1, <1>2, <1>3, TaskMoves DEF rootVars
<1>4. CASE UNCHANGED vars
  BY <1>2, <1>4 DEF vars, out, rootVars
<1>5. CASE OuterStep(Program)
  <2>1. /\ \A r \in Invocations : at'[r] = at[r]
        /\ autoIteration' = autoIteration
    BY <1>1, <1>5, OuterMoves, RunsAssumption DEF Closers
  <2>2. ASSUME NEW here, NEW there, Move(Program, here, there), there \notin {"clear", "iter.end"},
               UNCHANGED <<timeline, iteration, iterOpen>>
        PROVE  Passes'
    <3>1. at'[Program] = there
      BY <1>1, <2>2, MoveFacts
    <3> QED BY <2>1, <2>2, <3>1, PassesKept
  <2>3. CASE SetIteration
    <3>1. ~autoIteration /\ timeline' = timeline /\ Move(Program, "idle", "forget")
      BY <2>3 DEF SetIteration, out
    <3>2. at'[Program] = "forget"
      BY <1>1, <3>1, MoveFacts
    <3> QED BY <1>1, <2>1, <3>1, <3>2, PassesNext
  <2>4. CASE Finish
    <3>1. Move(Program, "idle", "close") /\ UNCHANGED <<timeline, iteration, iterOpen>>
      BY <2>4 DEF Finish, rootVars, out
    <3> QED BY <2>2, <3>1
  <2>5. CASE ForgetLastNode
    <3>1. Move(Program, "forget", "idle") /\ UNCHANGED <<timeline, iteration, iterOpen>>
      BY <2>5 DEF ForgetLastNode, rootVars, out
    <3> QED BY <2>2, <3>1
  <2>6. ASSUME Busy(Program) PROVE autoIteration => Rest(timeline, iteration, iterOpen)
    <3>1. \A r \in Invocations : ~Busy(r)
      BY <2>6, RunsAssumption DEF Alone, Closers
    <3> QED BY <3>1, BusyPlaces DEF Passes
  <2>7. CASE CheckOpen(Program)
    <3>1. at[Program] = "close" /\ UNCHANGED <<timeline, iteration, iterOpen>>
      BY <2>7 DEF CheckOpen, Move, rootVars, out
    <3>2. ~iterOpen
      BY <2>6, <3>1 DEF Busy, Rest, TypeInv, Counted
    <3>3. Move(Program, "close", "closed")
      BY <2>7, <3>2 DEF CheckOpen
    <3> QED BY <2>2, <3>1, <3>3
  <2>8. CASE CheckEnded(Program)
    <3>1. Move(Program, "closed", IF ended THEN "idle" ELSE "end") /\ UNCHANGED <<timeline, iteration, iterOpen>>
      BY <2>8 DEF CheckEnded, Through, rootVars, out
    <3> QED BY <2>2, <3>1
  <2>9. CASE SetEnded(Program)
    <3>1. Move(Program, "end", "run.end") /\ UNCHANGED <<timeline, iteration, iterOpen>>
      BY <2>9 DEF SetEnded, out
    <3> QED BY <2>2, <3>1
  <2>10. CASE PublishRunEnd(Program)
    <3>1. at[Program] = "run.end" /\ at'[Program] = "idle"
      BY <1>1, <2>10, MoveFacts DEF PublishRunEnd, Through
    <3>2. iteration' = iteration /\ iterOpen' = iterOpen /\ timeline' = timeline \o <<RunEnd>>
      <4>1. PublishMark(RunEnd) /\ UNCHANGED rootVars
        BY <2>10 DEF PublishRunEnd, RunEnd
      <4>2. timeline' = Append(timeline, RunEnd)
        BY <4>1 DEF PublishMark
      <4> QED BY <1>1, <4>1, <4>2 DEF rootVars
    <3>3. /\ autoIteration => Rest(timeline, iteration, iterOpen)
          /\ \A r \in Invocations : ~Engaged(at[r])
      BY <2>6, <3>1, BusyPlaces, RunsAssumption DEF Busy, Alone, Closers
    <3>4. AllOnce(timeline') /\ \A n : ClosedIn(timeline, n) => ClosedIn(timeline', n)
      BY <1>1, <3>2, MoreRunEnd
    <3>5. autoIteration => Rest(timeline', iteration, iterOpen)
      BY <3>3, <3>4 DEF Rest, AllClosed
    <3>6. \A r \in Invocations : Standing(timeline', iteration, iterOpen, at[r], r)
      BY <3>3 DEF Standing, Engaged
    <3> QED BY <2>1, <3>1, <3>2, <3>4, <3>5, <3>6, PassesNext
  <2>11. ~ClearOpen(Program) /\ ~PublishPassEnd(Program)
    BY <1>1 DEF ClearOpen, PublishPassEnd, Move
  <2> QED BY <1>5, <2>3, <2>4, <2>5, <2>7, <2>8, <2>9, <2>10, <2>11, RunsAssumption
          DEF OuterStep, CloserStep, ProgramStep
<1> QED BY <1>3, <1>4, <1>5, PassesInvocation, StepKinds DEF Closers

-----------------------------------------------------------------------------
(* The run ends once, by the same account.                                 *)
NoEnd(s) == \A i \in 1..Len(s) : s[i].type # "run.end"
EndsOnce(s) == \A i, j \in 1..Len(s) : s[i].type = "run.end" /\ s[j].type = "run.end" => i = j

Ends ==
    /\ EndsOnce(timeline)
    /\ ~ended => NoEnd(timeline)
    /\ \A x \in Closers : at[x] = "end" => ~ended
    /\ \A x \in Closers : at[x] = "run.end" => ended /\ NoEnd(timeline)

LEMMA EndsNext ==
    Ends' <=> /\ EndsOnce(timeline')
              /\ ~ended' => NoEnd(timeline')
              /\ \A x \in Closers : at'[x] = "end" => ~ended'
              /\ \A x \in Closers : at'[x] = "run.end" => ended' /\ NoEnd(timeline')
    BY DEF Ends, EndsOnce, NoEnd

LEMMA EndsMore ==
    ASSUME NEW s \in Seq(MarkTypes), NEW e \in MarkTypes
    PROVE  /\ e.type # "run.end" => /\ NoEnd(s) => NoEnd(s \o <<e>>)
                                    /\ EndsOnce(s) => EndsOnce(s \o <<e>>)
           /\ NoEnd(s) => EndsOnce(s \o <<e>>)
<1> DEFINE u == s \o <<e>>
           k == Len(s) + 1
<1>1. /\ Len(s) \in Nat /\ Len(u) = k /\ u[k] = e
      /\ \A i \in 1..Len(s) : u[i] = s[i]
  BY AppendFacts
<1>2. \A i \in 1..Len(u) : i \in 1..Len(s) \/ i = k
  BY <1>1
<1> HIDE DEF u, k
<1>3. ASSUME e.type # "run.end" PROVE (NoEnd(s) => NoEnd(u)) /\ (EndsOnce(s) => EndsOnce(u))
  <2>1. \A i \in 1..Len(u) : u[i].type = "run.end" => i \in 1..Len(s) /\ s[i].type = "run.end"
    BY <1>1, <1>2, <1>3
  <2> QED BY <2>1 DEF NoEnd, EndsOnce
<1>4. NoEnd(s) => EndsOnce(u)
  BY <1>1, <1>2 DEF NoEnd, EndsOnce
<1> QED BY <1>3, <1>4 DEF u

LEMMA EndsStep ==
    ASSUME TypeInv, Alone, Ends, [Next]_vars, ~overlap', ~early'
    PROVE  Ends'
<1>1. TypeOK /\ timeline \in Seq(MarkTypes) /\ ended \in BOOLEAN
  <2>1. ended \in BOOLEAN
    BY DEF TypeInv, TypeOK
  <2> QED BY <2>1, NumberFacts DEF TypeInv
<1>2. /\ PassEnd \in MarkTypes /\ RunEnd \in MarkTypes
      /\ PassEnd.type # "run.end"
      /\ \A r \in Invocations : PassStart(r) \in MarkTypes /\ PassStart(r).type # "run.end"
  BY <1>1, EndTypes DEF PassEnd, PassStart, Mark
<1>3. ASSUME ended' = ended, \A x \in Closers : at'[x] = at[x] \/ at'[x] \notin {"end", "run.end"},
             /\ NoEnd(timeline) => NoEnd(timeline')
             /\ EndsOnce(timeline) => EndsOnce(timeline')
      PROVE  Ends'
  BY <1>3, EndsNext DEF Ends
<1>4. ASSUME NEW t \in Tasks, TaskStep(t) PROVE Ends'
  BY <1>1, <1>3, <1>4, TaskMoves DEF rootVars
<1>5. CASE UNCHANGED vars
  BY <1>3, <1>5 DEF vars, out, rootVars
<1>6. ASSUME NEW x \in Closers, OuterStep(x) PROVE Ends'
  <2>1. \A y \in Closers : y # x => at'[y] = at[y]
    BY <1>1, <1>6, OuterMoves
  <2>2. CASE SetEnded(x)
    <3>1. at[x] = "end" /\ at'[x] = "run.end" /\ ended' = TRUE /\ timeline' = timeline
      BY <1>1, <2>2, MoveFacts DEF SetEnded, out
    <3>2. \A y \in Closers : y # x => at'[y] \notin {"end", "run.end"}
      BY <1>6, <2>1, <3>1 DEF Alone, Busy
    <3>3. NoEnd(timeline) /\ EndsOnce(timeline)
      BY <1>6, <3>1 DEF Ends
    <3> QED BY <3>1, <3>2, <3>3, EndsNext
  <2>3. CASE PublishRunEnd(x)
    <3>1. at[x] = "run.end" /\ at'[x] \in {"idle", "ended"} /\ ended' = ended
      BY <1>1, <2>3, MoveFacts DEF PublishRunEnd, Through, rootVars
    <3>2. \A y \in Closers : y # x => at'[y] \notin {"end", "run.end"}
      BY <1>6, <2>1, <3>1 DEF Alone, Busy
    <3>3. NoEnd(timeline) /\ ended
      BY <1>6, <3>1 DEF Ends
    <3>4. timeline' = timeline \o <<RunEnd>>
      <4>1. PublishMark(RunEnd)
        BY <2>3 DEF PublishRunEnd, RunEnd
      <4>2. timeline' = Append(timeline, RunEnd)
        BY <4>1 DEF PublishMark
      <4> QED BY <1>1, <4>2
    <3>5. EndsOnce(timeline')
      BY <1>1, <1>2, <3>3, <3>4, EndsMore
    <3>6. \A y \in Closers : at'[y] \notin {"end", "run.end"}
      BY <3>1, <3>2
    <3> QED BY <3>1, <3>3, <3>5, <3>6, EndsNext
  <2>4. CASE CheckEnded(x)
    <3>1. at'[x] \in {Through(x), "end"} /\ (at'[x] = "end" => ~ended)
      BY <1>1, <2>4, MoveFacts DEF CheckEnded, Through
    <3>2. ended' = ended /\ timeline' = timeline
      BY <2>4 DEF CheckEnded, rootVars, out
    <3>3. \A y \in Closers : at'[y] = "end" => ~ended
      BY <2>1, <3>1 DEF Ends
    <3>4. \A y \in Closers : at'[y] = "run.end" => at[y] = "run.end"
      BY <2>1, <3>1 DEF Through
    <3> QED BY <3>2, <3>3, <3>4, EndsNext DEF Ends
  <2>5. CASE ~SetEnded(x) /\ ~PublishRunEnd(x) /\ ~CheckEnded(x)
    <3>1. at'[x] \notin {"end", "run.end"}
      <4>1. ASSUME NEW here, NEW there, there \notin {"end", "run.end"}, Move(x, here, there)
            PROVE  at'[x] \notin {"end", "run.end"}
        BY <1>1, <4>1, MoveFacts
      <4>2. InvocationStep(x) => \E here, there : there \notin {"end", "run.end"} /\ Move(x, here, there)
        BY DEF InvocationStep, RootStart, BeginIteration, PublishPassStart, RootOk, RootEnd
      <4>3. CloserStep(x) => \E here, there : there \notin {"end", "run.end"} /\ Move(x, here, there)
        BY <2>5 DEF CloserStep, CheckOpen, ClearOpen, PublishPassEnd
      <4>4. x = Program /\ ProgramStep => \E here, there : there \notin {"end", "run.end"} /\ Move(x, here, there)
        BY DEF ProgramStep, Finish, SetIteration, ForgetLastNode
      <4> QED BY <1>6, <4>1, <4>2, <4>3, <4>4 DEF OuterStep
    <3>2. ended' = ended
      <4>1. InvocationStep(x) => ended' = ended
        BY DEF InvocationStep, RootStart, BeginIteration, PublishPassStart, RootOk, RootEnd, rootVars
      <4>2. CloserStep(x) => ended' = ended
        BY <2>5 DEF CloserStep, CheckOpen, ClearOpen, PublishPassEnd, rootVars
      <4>3. ProgramStep => ended' = ended
        BY DEF ProgramStep, Finish, SetIteration, ForgetLastNode, rootVars
      <4> QED BY <1>6, <4>1, <4>2, <4>3 DEF OuterStep
    <3>3. /\ NoEnd(timeline) => NoEnd(timeline')
          /\ EndsOnce(timeline) => EndsOnce(timeline')
      <4>1. \/ timeline' = timeline
            \/ timeline' = timeline \o <<PassEnd>>
            \/ \E r \in Invocations : timeline' = timeline \o <<PassStart(r)>>
        <5>1. ~(\E y \in Closers : PublishRunEnd(y))
          <6>1. ASSUME NEW y \in Closers, PublishRunEnd(y) PROVE FALSE
            <7>1. at[y] = "run.end" /\ at'[y] \in {"idle", "ended"}
              BY <1>1, <6>1, MoveFacts DEF PublishRunEnd, Through
            <7>2. y # x
              BY <2>5, <6>1
            <7> QED BY <2>1, <7>1, <7>2
          <6> QED BY <6>1
        <5> QED BY <1>1, <5>1, TimelineSteps
      <4> HIDE DEF PassEnd, PassStart
      <4> QED BY <1>1, <1>2, <4>1, EndsMore
    <3> QED BY <1>3, <2>1, <3>1, <3>2, <3>3
  <2> QED BY <2>2, <2>3, <2>4, <2>5
<1> QED BY <1>4, <1>5, <1>6, StepKinds

-----------------------------------------------------------------------------
(* All that is known of passes, by what has not happened so far.           *)
PassInv ==
    /\ Numbered(timeline, iteration)
    /\ ~overlap => Sole
    /\ ~overlap /\ ~early => Alone /\ Passes /\ Ends

LEMMA PassInvStep == TypeInv /\ PassInv /\ [Next]_vars => PassInv'
<1> SUFFICES ASSUME TypeInv, PassInv, [Next]_vars PROVE PassInv'
  OBVIOUS
<1>1. TypeOK /\ overlap \in BOOLEAN /\ early \in BOOLEAN
  BY DEF TypeInv, TypeOK
<1>2. Numbered(timeline', iteration')
  BY NumberedStep DEF PassInv
<1>3. Numbered(timeline, iteration)'
  BY <1>2 DEF Numbered
<1>4. ASSUME ~overlap' PROVE Sole'
  BY <1>1, <1>4, OverlapFacts, SoleStep DEF PassInv
<1>5. ASSUME ~overlap', ~early' PROVE Alone' /\ Passes' /\ Ends'
  BY <1>1, <1>5, OverlapFacts, AloneStep, PassesStep, EndsStep DEF PassInv
<1> QED BY <1>3, <1>4, <1>5 DEF PassInv

-----------------------------------------------------------------------------
(* Whose task is whose: a task runs inside an invoke that is running, and  *)
(* one that has not started has left no trace.                             *)
Members ==
    \A t \in Tasks :
        /\ at[t] \notin {"new", "done"} => at[within[t]] = "running"
        /\ at[t] # "new" => at[within[t]] \notin {"new", "begin", "iter.start"}
        /\ at[t] = "new" => from[t] = None /\ \A e \in edges : e.by # t

(* What a step of a task adds to the edges.                                *)
LEMMA TaskEdges ==
    ASSUME TypeInv, NEW t \in Tasks, TaskStep(t)
    PROVE  /\ at'[t] # "new"
           /\ \A u \in Tasks : u # t => within'[u] = within[u] /\ nodeOf'[u] = nodeOf[u]
           /\ \A x \in Invocations \cup Tasks : x # t => from'[x] = from[x]
           /\ \A e \in edges' : e \in edges \/ e.by = t
           /\ at[t] # "new" => within'[t] = within[t] /\ nodeOf'[t] = nodeOf[t] /\ from'[t] = from[t]
           /\ at[t] = "new" => \E r \in Invocations, node \in Nodes : TaskStart(t, r, node)
<1> USE DEF TypeInv
<1>1. CASE \E r \in Invocations, node \in Nodes : TaskStart(t, r, node)
  <2>1. PICK r \in Invocations, node \in Nodes : TaskStart(t, r, node)
    BY <1>1
  <2>2. at[t] = "new" /\ at'[t] # "new"
    BY <2>1, MoveFacts DEF TaskStart
  <2> QED BY <2>1, <2>2 DEF TaskStart, TypeOK, out
<1>2. CASE ~(\E r \in Invocations, node \in Nodes : TaskStart(t, r, node))
  <2>1. nodeOf' = nodeOf /\ within' = within /\ from' = from
    BY <1>2 DEF TaskStep, TaskEdge, TaskVisit, TaskEnd, TaskReport, Discover, SetContainers,
                PublishTopology, taskVars
  <2>2. at[t] # "new" /\ at'[t] # "new"
    <3>1. ASSUME NEW here, NEW there, here # "new", there # "new", Move(t, here, there)
          PROVE  at[t] # "new" /\ at'[t] # "new"
      BY <3>1, MoveFacts
    <3>2. \E here, there : here # "new" /\ there # "new" /\ Move(t, here, there)
      BY <1>2 DEF TaskStep, TaskEdge, TaskVisit, TaskEnd, TaskReport, Discover, SetContainers, PublishTopology
    <3> QED BY <3>1, <3>2
  <2>3. \A e \in edges' : e \in edges \/ e.by = t
    BY <1>2 DEF TaskStep, TaskEdge, TaskVisit, TaskEnd, TaskReport, Discover, SetContainers,
                PublishTopology, PublishEdge, PublishVisit, out
  <2> QED BY <2>1, <2>2, <2>3
<1> QED BY <1>1, <1>2

(* What a step of an invoke, or of the program, adds to the edges.         *)
LEMMA OuterEdges ==
    ASSUME NEW x \in Closers, OuterStep(x)
    PROVE  /\ \/ edges' = edges
              \/ x \in Invocations /\ PublishEdge(x, End)
           /\ \A e \in edges' : e \in edges \/ e.by = x
<1>1. \/ edges' = edges
      \/ x \in Invocations /\ PublishEdge(x, End)
  <2>1. InvocationStep(x) => edges' = edges \/ PublishEdge(x, End)
    BY DEF InvocationStep, RootStart, BeginIteration, PublishPassStart, RootOk, RootEnd, PublishMark, out
  <2>2. CloserStep(x) => edges' = edges
    BY DEF CloserStep, CheckOpen, ClearOpen, PublishPassEnd, CheckEnded, SetEnded, PublishRunEnd, PublishMark, out
  <2>3. ProgramStep => edges' = edges
    BY DEF ProgramStep, Finish, SetIteration, ForgetLastNode, out
  <2> QED BY <2>1, <2>2, <2>3 DEF OuterStep
<1>2. PublishEdge(x, End) => \A e \in edges' : e \in edges \/ e.by = x
  BY DEF PublishEdge
<1> QED BY <1>1, <1>2

(* What it does to the places its tasks depend on.                         *)
LEMMA OuterPlaces ==
    ASSUME TypeInv, NEW x \in Closers, OuterStep(x)
    PROVE  /\ \A t \in Tasks : from'[t] = from[t]
           /\ \A r \in Invocations : r # x => passOf'[r] = passOf[r]
           /\ x \in Invocations => \/ at[x] \in {"new", "begin", "iter.start"}
                                   \/ /\ at'[x] \notin {"new", "begin", "iter.start"}
                                      /\ passOf' = passOf
                                      /\ at[x] = "running" => \A t \in TasksOf(x) : at[t] = "done"
<1>1. TypeOK
  BY DEF TypeInv
<1>2. \A t \in Tasks : from'[t] = from[t]
  <2>1. from' = from \/ (x \in Invocations /\ \E node : from' = [from EXCEPT ![x] = node])
    <3>1. InvocationStep(x) => from' = from \/ \E node : from' = [from EXCEPT ![x] = node]
      BY <1>1 DEF InvocationStep, RootStart, BeginIteration, PublishPassStart, RootOk, RootEnd, TypeOK
    <3>2. CloserStep(x) => from' = from
      BY DEF CloserStep, CheckOpen, ClearOpen, PublishPassEnd, CheckEnded, SetEnded, PublishRunEnd
    <3>3. ProgramStep => from' = from
      BY DEF ProgramStep, Finish, SetIteration, ForgetLastNode
    <3> QED BY <3>1, <3>2, <3>3 DEF OuterStep
  <2> QED BY <1>1, <2>1, RunsAssumption DEF TypeOK
<1>3. CASE x \in Invocations /\ (RootStart(x) \/ BeginIteration(x) \/ PublishPassStart(x))
  <2>1. at[x] \in {"new", "begin", "iter.start"}
    BY <1>3 DEF RootStart, BeginIteration, PublishPassStart, Move
  <2>2. \A r \in Invocations : r # x => passOf'[r] = passOf[r]
    BY <1>1, <1>3 DEF RootStart, BeginIteration, PublishPassStart, rootVars, TypeOK
  <2> QED BY <1>2, <2>1, <2>2
<1>4. CASE ~(x \in Invocations /\ (RootStart(x) \/ BeginIteration(x) \/ PublishPassStart(x)))
  <2>1. passOf' = passOf
    <3>1. InvocationStep(x) => RootStart(x) \/ BeginIteration(x) \/ PublishPassStart(x) \/ passOf' = passOf
      BY DEF InvocationStep, RootOk, RootEnd, rootVars
    <3>2. CloserStep(x) => passOf' = passOf
      BY DEF CloserStep, CheckOpen, ClearOpen, PublishPassEnd, CheckEnded, SetEnded, PublishRunEnd, rootVars
    <3>3. ProgramStep => passOf' = passOf
      BY DEF ProgramStep, Finish, SetIteration, ForgetLastNode, rootVars
    <3> QED BY <1>4, <3>1, <3>2, <3>3 DEF OuterStep
  <2>2. ASSUME x \in Invocations
        PROVE  /\ at'[x] \notin {"new", "begin", "iter.start"}
               /\ at[x] = "running" => \A t \in TasksOf(x) : at[t] = "done"
    <3>1. ASSUME NEW here, NEW there, there \notin {"new", "begin", "iter.start"}, Move(x, here, there)
          PROVE  at[x] = here /\ at'[x] \notin {"new", "begin", "iter.start"}
      BY <1>1, <3>1, MoveFacts
    <3>2. ASSUME NEW how \in {"ok", "failed"}, RootEnd(x, how)
          PROVE  /\ at'[x] \notin {"new", "begin", "iter.start"}
                 /\ \A t \in TasksOf(x) : at[t] = "done"
      BY <3>1, <3>2 DEF RootEnd
    <3>3. CASE RootOk(x)
      BY <3>1, <3>3 DEF RootOk
    <3>4. CASE CloserStep(x)
      <4>1. \E here, there : /\ here # "running" /\ there \notin {"new", "begin", "iter.start"}
                             /\ Move(x, here, there)
        BY <2>2, <3>4, RunsAssumption DEF CloserStep, CheckOpen, ClearOpen, PublishPassEnd, CheckEnded, SetEnded, PublishRunEnd,
           Through
      <4> QED BY <3>1, <4>1
    <3> QED BY <1>4, <2>2, <3>2, <3>3, <3>4, RunsAssumption DEF OuterStep, InvocationStep
  <2> QED BY <1>2, <2>1, <2>2
<1> QED BY <1>3, <1>4

(* An invoke waits for its tasks.                                          *)
LEMMA MembersRun ==
    ASSUME TypeInv, NEW x \in Invocations, OuterStep(x), at[x] = "running",
           NEW t \in Tasks, at[t] \notin {"new", "done"}, within[t] = x
    PROVE  FALSE
<1>1. at[x] \in {"new", "begin", "iter.start"} \/ \A u \in TasksOf(x) : at[u] = "done"
  BY OuterPlaces DEF Closers
<1> QED BY <1>1 DEF TasksOf

LEMMA MembersStep == TypeInv /\ Members /\ [Next]_vars => Members'
<1> SUFFICES ASSUME TypeInv, Members, [Next]_vars PROVE Members'
  OBVIOUS
<1>1. TypeOK /\ Tasked
  BY DEF TypeInv
<1>2. ASSUME NEW t \in Tasks, TaskStep(t) PROVE Members'
  <2>1. /\ at'[t] # "new"
        /\ \A u \in Tasks : u # t => within'[u] = within[u]
        /\ \A u \in Tasks : u # t => from'[u] = from[u]
        /\ \A e \in edges' : e \in edges \/ e.by = t
    BY <1>2, TaskEdges
  <2>2. /\ \A u \in Tasks : u # t => at'[u] = at[u]
        /\ \A r \in Invocations : at'[r] = at[r]
    BY <1>1, <1>2, TaskMoves DEF Closers
  <2>3. within'[t] \in Invocations /\ at[within'[t]] \notin {"new", "begin", "iter.start"}
        /\ (at'[t] # "done" => at[within'[t]] = "running")
    <3>1. ASSUME NEW r \in Invocations, NEW node \in Nodes, TaskStart(t, r, node)
          PROVE  within'[t] = r /\ at[r] = "running"
      BY <1>1, <3>1 DEF TaskStart, TypeOK
    <3>2. ASSUME at[t] # "new"
          PROVE  within'[t] = within[t] /\ within[t] \in Invocations /\ at[t] # "done"
      <4>1. at[t] # "done"
        <5>1. ASSUME NEW here, NEW there, here # "done", Move(t, here, there) PROVE at[t] # "done"
          BY <1>1, <5>1, MoveFacts
        <5>2. \E here, there : here # "done" /\ Move(t, here, there)
          BY <1>2 DEF TaskStep, TaskStart, TaskEdge, TaskVisit, TaskEnd, TaskReport, Discover,
                      SetContainers, PublishTopology
        <5> QED BY <5>1, <5>2
      <4> QED BY <1>1, <1>2, <3>2, <4>1, TaskEdges DEF Tasked
    <3> QED BY <1>2, <3>1, <3>2, TaskEdges DEF Members
  <2> QED BY <1>1, <2>1, <2>2, <2>3 DEF Members, Tasked
<1>3. ASSUME NEW x \in Closers, OuterStep(x) PROVE Members'
  <2>1. /\ \A s \in Invocations : s # x => at'[s] = at[s]
        /\ \A t \in Tasks : at'[t] = at[t]
        /\ within' = within
    BY <1>1, <1>3, OuterMoves DEF taskVars, Closers
  <2>2. \A t \in Tasks : from'[t] = from[t]
    BY <1>3, OuterPlaces
  <2>3. \A t \in Tasks : \A e \in edges' : e.by = t => e \in edges
    BY <1>3, OuterEdges, RunsAssumption DEF Closers
  <2>4. x \in Invocations => \/ at[x] \in {"new", "begin", "iter.start"}
                            \/ /\ at'[x] \notin {"new", "begin", "iter.start"}
                               /\ at[x] = "running" => \A t \in TasksOf(x) : at[t] = "done"
    BY <1>3, OuterPlaces
  <2>5. ASSUME NEW t \in Tasks, at[t] # "new"
        PROVE  /\ at'[within[t]] \notin {"new", "begin", "iter.start"}
               /\ at[t] # "done" => at'[within[t]] = "running"
    <3>1. /\ within[t] \in Invocations /\ at[within[t]] \notin {"new", "begin", "iter.start"}
          /\ at[t] # "done" => at[within[t]] = "running"
      BY <1>1, <2>5 DEF Members, Tasked
    <3>2. CASE within[t] = x /\ at[t] # "done"
      BY <1>1, <1>3, <2>4, <2>5, <3>1, <3>2, MembersRun
    <3>3. CASE within[t] = x /\ at[t] = "done"
      BY <2>4, <3>1, <3>3
    <3>4. CASE within[t] # x
      BY <2>1, <3>1, <3>4
    <3> QED BY <3>2, <3>3, <3>4
  <2> QED BY <2>1, <2>2, <2>3, <2>5 DEF Members
<1>4. CASE UNCHANGED vars
  BY <1>4 DEF Members, vars, taskVars, out
<1> QED BY <1>2, <1>3, <1>4, StepKinds

-----------------------------------------------------------------------------
(* Each thing a task publishes, under the pass of its invoke.              *)
Calm == ~early /\ autoIteration

Filed(t) ==
    /\ \A i \in DOMAIN visits[t] :
          /\ visits[t][i].pass = passOf[within[t]]
          /\ Calm => visits[t][i].during = within[t]
    /\ \A e \in edges : Calm /\ e.by = t => e.during = within[t]

FiledInv == ~overlap => \A t \in Tasks : Filed(t)

\* All that is known of the handler when FiledInv is kept
Known == TypeInv /\ AllBracketed /\ Members /\ PassInv

(* A task publishes while the pass of its invoke is open.                  *)
LEMMA TaskInPass ==
    ASSUME Known, ~overlap, NEW t \in Tasks, at[t] \notin {"new", "done"}
    PROVE  /\ within[t] \in Invocations /\ iteration = passOf[within[t]]
           /\ Calm => OpenedBy = within[t]
<1>1. within[t] \in Invocations /\ at[within[t]] = "running"
  BY DEF Known, Members, TypeInv, Tasked
<1>2. iteration = passOf[within[t]]
  BY <1>1 DEF Known, PassInv, Sole
<1>3. ASSUME Calm PROVE OpenedBy = within[t]
  <2>1. Standing(timeline, iteration, iterOpen, at[within[t]], within[t])
    BY <1>1, <1>3 DEF Known, PassInv, Passes, Calm
  <2>2. OpenerIn(timeline) = within[t]
    BY <1>1, <2>1 DEF Standing, InPass, Opened
  <2> QED BY <2>2, OpenedByFacts DEF Known, TypeInv
<1> QED BY <1>1, <1>2, <1>3

LEMMA FiledStep == Known /\ FiledInv /\ [Next]_vars => FiledInv'
<1> SUFFICES ASSUME Known, FiledInv, [Next]_vars, ~overlap', NEW t \in Tasks PROVE Filed(t)'
  BY DEF FiledInv
<1>1. ~overlap /\ Filed(t) /\ TypeInv /\ TypeOK
  <2>1. overlap \in BOOLEAN /\ TypeInv /\ TypeOK
    BY DEF Known, TypeInv, TypeOK
  <2> QED BY <2>1, OverlapFacts DEF FiledInv
<1>0. Calm' => Calm
  <2>1. early \in BOOLEAN /\ autoIteration' = autoIteration
    BY <1>1, StepKinds, OuterMoves, TaskMoves DEF TypeOK, vars
  <2> QED BY <1>1, <2>1, OverlapFacts DEF Calm
<1>2. ASSUME visits'[t] = visits[t], within'[t] = within[t],
             \A e \in edges' : e.by = t => e \in edges,
             \/ passOf'[within[t]] = passOf[within[t]]
             \/ visits[t] = <<>>
      PROVE  Filed(t)'
  BY <1>0, <1>1, <1>2 DEF Filed
<1>3. ASSUME NEW u \in Tasks, TaskStep(u) PROVE Filed(t)'
  <2>1. /\ at'[u] # "new" /\ \A e \in edges' : e \in edges \/ e.by = u
        /\ u # t => within'[t] = within[t] /\ visits'[t] = visits[t]
        /\ passOf' = passOf
    <3>1. u # t => visits'[t] = visits[t]
      <4>1. \/ visits' = visits
            \/ \E type \in {"node.start", "node.end", "node.error"} : PublishVisit(type, u)
        BY <1>3 DEF TaskStep, TaskStart, TaskEdge, TaskVisit, TaskEnd, TaskReport, Discover,
           SetContainers, PublishTopology, PublishEdge, out
      <4> QED BY <1>1, <4>1, VisitGrows
    <3> QED BY <1>1, <1>3, <3>1, TaskEdges, TaskMoves DEF rootVars
  <2>2. CASE u # t
    BY <1>2, <2>1, <2>2
  <2>3. ASSUME NEW r \in Invocations, NEW node \in Nodes, TaskStart(t, r, node) PROVE Filed(t)'
    <3>1. at[t] = "new" /\ visits' = visits /\ edges' = edges
      BY <2>3 DEF TaskStart, Move, out
    <3>2. visits[t] = <<>> /\ \A e \in edges : e.by # t
      BY <3>1 DEF Known, AllBracketed, Bracketed, Members
    <3> QED BY <3>1, <3>2 DEF Filed
  <2>4. ASSUME NEW type \in {"node.start", "node.end", "node.error"}, PublishVisit(type, t),
               at[t] \notin {"new", "done"}, within' = within, passOf' = passOf
        PROVE  Filed(t)'
    <3> DEFINE e == [type |-> type, pass |-> iteration, during |-> OpenedBy]
    <3>1. /\ visits'[t] = Append(visits[t], e) /\ edges' = edges
      BY <1>1, <2>4, VisitFacts, OpenedByType DEF TypeInv
    <3>2. visits[t] \in Seq(VisitTypes)
      BY <1>1 DEF TypeOK, VisitTypes
    <3>3. e.pass = passOf[within[t]] /\ (Calm => e.during = within[t])
      BY <1>1, <2>4, TaskInPass
    <3> HIDE DEF e
    <3>4. \A i \in DOMAIN visits'[t] : visits'[t][i] = e \/ (i \in DOMAIN visits[t] /\ visits'[t][i] = visits[t][i])
      BY <3>1, <3>2
    <3> QED BY <1>0, <1>1, <2>4, <3>1, <3>3, <3>4 DEF Filed
  <2>5. ASSUME PublishEdge(t, nodeOf[t]), at[t] \notin {"new", "done"}, within' = within, passOf' = passOf
        PROVE  Filed(t)'
    <3>1. visits' = visits /\ \A e \in edges' : e \in edges \/ e.during = OpenedBy
      BY <2>5 DEF PublishEdge
    <3>2. Calm => OpenedBy = within[t]
      BY <1>1, <2>5, TaskInPass
    <3> QED BY <1>0, <1>1, <2>5, <3>1, <3>2 DEF Filed
  <2>6. ASSUME u = t, ~(\E r \in Invocations, node \in Nodes : TaskStart(t, r, node))
        PROVE  Filed(t)'
    <3>1. within' = within /\ at[t] \notin {"new", "done"}
      <4>1. within' = within
        BY <1>3, <2>6 DEF TaskStep, TaskEdge, TaskVisit, TaskEnd, TaskReport, Discover, SetContainers,
                    PublishTopology, taskVars
      <4>2. ASSUME NEW here, NEW there, here \notin {"new", "done"}, Move(t, here, there)
            PROVE  at[t] \notin {"new", "done"}
        BY <1>1, <4>2, MoveFacts
      <4>3. \E here, there : here \notin {"new", "done"} /\ Move(t, here, there)
        BY <1>3, <2>6 DEF TaskStep, TaskEdge, TaskVisit, TaskEnd, TaskReport, Discover, SetContainers, PublishTopology
      <4> QED BY <4>1, <4>2, <4>3
    <3>2. \/ \E type \in {"node.start", "node.end", "node.error"} : PublishVisit(type, t)
          \/ PublishEdge(t, nodeOf[t])
          \/ visits' = visits /\ edges' = edges
      BY <1>3, <2>6 DEF TaskStep, TaskEdge, TaskVisit, TaskEnd, TaskReport, Discover, SetContainers,
                  PublishTopology, out
    <3> QED BY <1>2, <2>1, <2>4, <2>5, <3>1, <3>2
  <2> QED BY <1>3, <2>2, <2>3, <2>6 DEF TaskStep
<1>4. ASSUME NEW x \in Closers, OuterStep(x) PROVE Filed(t)'
  <2>1. visits' = visits /\ within' = within
    BY <1>1, <1>4, OuterMoves DEF taskVars
  <2>2. \A e \in edges' : e.by = t => e \in edges
    BY <1>4, OuterEdges, RunsAssumption DEF Closers
  <2>3. passOf'[within[t]] = passOf[within[t]] \/ visits[t] = <<>>
    <3>1. CASE at[t] = "new"
      BY <3>1 DEF Known, AllBracketed, Bracketed
    <3>2. CASE at[t] # "new"
      <4>1. within[t] \in Invocations /\ at[within[t]] \notin {"new", "begin", "iter.start"}
        BY <1>1, <3>2 DEF Known, Members, Tasked, TypeInv
      <4> QED BY <1>1, <1>4, <4>1, OuterPlaces
    <3> QED BY <3>1, <3>2
  <2> QED BY <1>2, <2>1, <2>2, <2>3
<1>5. CASE UNCHANGED vars
  BY <1>2, <1>5 DEF vars, taskVars, rootVars, out
<1> QED BY <1>3, <1>4, <1>5, StepKinds

-----------------------------------------------------------------------------
(* Nodes an invoke has seen: the ends of the edges drawn on its behalf.    *)
Seen(r, node) == node # None => \E t \in TasksOf(r) : nodeOf[t] = node

SeenEdge(e) ==
    LET r == IF e.by \in Tasks THEN within[e.by] ELSE e.by IN
    e.source = Start \/ \E t \in TasksOf(r) : nodeOf[t] = e.source

SeenInv ==
    ~overlap =>
        /\ \A r \in Running : Seen(r, lastNode)
        /\ \A t \in Tasks : at[t] # "new" => Seen(within[t], from[t])
        /\ \A r \in Invocations : Seen(r, from[r])
        /\ \A e \in edges : SeenEdge(e)

\* After the step, a task of invoke r has run this node
SeenNext(r, node) == \E t \in Tasks : at'[t] # "new" /\ within'[t] = r /\ nodeOf'[t] = node
SeenLater(r, node) == node # None => SeenNext(r, node)

(* What an invoke has seen stays seen.                                     *)
LEMMA SeenStays ==
    ASSUME TypeInv, [Next]_vars
    PROVE  \A r, node : (\E t \in TasksOf(r) : nodeOf[t] = node) => SeenNext(r, node)
<1>1. ASSUME NEW t \in Tasks, at[t] # "new"
      PROVE  at'[t] # "new" /\ within'[t] = within[t] /\ nodeOf'[t] = nodeOf[t]
  <2>1. ASSUME NEW u \in Tasks, TaskStep(u)
        PROVE  at'[t] # "new" /\ within'[t] = within[t] /\ nodeOf'[t] = nodeOf[t]
    BY <1>1, <2>1, TaskEdges, TaskMoves DEF TypeInv
  <2>2. ASSUME NEW x \in Closers, OuterStep(x)
        PROVE  at'[t] # "new" /\ within'[t] = within[t] /\ nodeOf'[t] = nodeOf[t]
    BY <1>1, <2>2, OuterMoves DEF TypeInv, taskVars
  <2>3. ASSUME UNCHANGED vars
        PROVE  at'[t] # "new" /\ within'[t] = within[t] /\ nodeOf'[t] = nodeOf[t]
    BY <1>1, <2>3 DEF vars, taskVars
  <2> QED BY <2>1, <2>2, <2>3, StepKinds
<1> QED BY <1>1 DEF TasksOf, SeenNext

(* An edge that was seen stays so: the task it is drawn for has started.   *)
LEMMA SeenEdgeStays ==
    ASSUME TypeInv, Members, [Next]_vars, NEW e \in edges, SeenEdge(e)
    PROVE  SeenEdge(e)'
<1>1. e.by \in Tasks => within'[e.by] = within[e.by]
  <2>1. e.by \in Tasks => at[e.by] # "new"
    BY DEF Members
  <2>2. ASSUME NEW u \in Tasks, TaskStep(u) PROVE e.by \in Tasks => within'[e.by] = within[e.by]
    BY <2>1, <2>2, TaskEdges
  <2> QED BY <2>2, StepKinds, OuterMoves DEF TypeInv, taskVars, vars
<1> DEFINE r == IF e.by \in Tasks THEN within[e.by] ELSE e.by
<1>2. r = IF e.by \in Tasks THEN within'[e.by] ELSE e.by
  BY <1>1
<1>3. e.source = Start \/ \E t \in TasksOf(r) : nodeOf[t] = e.source
  BY DEF SeenEdge
<1>4. e.source = Start \/ SeenNext(r, e.source)
  BY <1>3, SeenStays
<1> HIDE DEF r
<1> QED BY <1>2, <1>4 DEF SeenEdge, TasksOf, SeenNext

(* The edge a task, or an invoke that ends, draws starts at a node it saw. *)
LEMMA SeenEdgeNew ==
    ASSUME TypeInv, [Next]_vars, NEW x \in Invocations \cup Tasks, NEW target, PublishEdge(x, target),
           x \in Tasks => within' = within,
           Seen(IF x \in Tasks THEN within[x] ELSE x, from[x]),
           NEW e \in edges', e \notin edges
    PROVE  SeenEdge(e)'
<1> DEFINE r == IF x \in Tasks THEN within[x] ELSE x
<1>1. e = [by |-> x, source |-> IF from[x] = None THEN Start ELSE from[x],
           target |-> target, during |-> OpenedBy]
  BY DEF PublishEdge
<1>2. e.by = x /\ e.source = IF from[x] = None THEN Start ELSE from[x]
  BY <1>1
<1>3. from[x] # None => SeenNext(r, from[x])
  BY SeenStays DEF Seen
<1>4. e.source = Start \/ SeenNext(r, e.source)
  BY <1>2, <1>3
<1>5. r = IF e.by \in Tasks THEN within'[e.by] ELSE e.by
  BY <1>2
<1> HIDE DEF r
<1> QED BY <1>4, <1>5 DEF SeenEdge, TasksOf, SeenNext

LEMMA SeenStep == Known /\ SeenInv /\ [Next]_vars => SeenInv'
<1> SUFFICES ASSUME Known, SeenInv, [Next]_vars, ~overlap'
             PROVE  /\ \A r \in Running' : SeenLater(r, lastNode')
                    /\ \A t \in Tasks : at'[t] # "new" => SeenLater(within'[t], from'[t])
                    /\ \A r \in Invocations : SeenLater(r, from'[r])
                    /\ \A e \in edges' : SeenEdge(e)'
  BY DEF SeenInv, Seen, SeenLater, SeenNext, TasksOf
<1>1. /\ TypeInv /\ TypeOK /\ Members /\ Tasked /\ Sole /\ ~overlap /\ ~overlap'
      /\ \A r \in Running : Seen(r, lastNode)
      /\ \A t \in Tasks : at[t] # "new" => Seen(within[t], from[t])
      /\ \A r \in Invocations : Seen(r, from[r])
      /\ \A e \in edges : SeenEdge(e)
  <2>1. overlap \in BOOLEAN /\ TypeInv /\ TypeOK /\ Members /\ Tasked
    BY DEF Known, TypeInv, TypeOK
  <2>2. ~overlap
    BY <2>1, OverlapFacts
  <2> QED BY <2>1, <2>2 DEF SeenInv, Known, PassInv
<1>2. \A r, node : Seen(r, node) => SeenLater(r, node)
  BY <1>1, SeenStays DEF Seen, SeenLater
<1>3. \A e \in edges : SeenEdge(e)'
  BY <1>1, SeenEdgeStays
<1>4. ASSUME NEW u \in Tasks, TaskStep(u)
      PROVE  /\ \A r \in Running' : SeenLater(r, lastNode')
             /\ \A t \in Tasks : at'[t] # "new" => SeenLater(within'[t], from'[t])
             /\ \A r \in Invocations : SeenLater(r, from'[r])
             /\ \A e \in edges' : SeenEdge(e)'
  <2>1. /\ \A t \in Tasks : t # u => at'[t] = at[t] /\ within'[t] = within[t]
        /\ \A x \in Invocations \cup Tasks : x # u => from'[x] = from[x]
        /\ \A r \in Invocations : at'[r] = at[r] /\ from'[r] = from[r]
        /\ Running' = Running
        /\ at'[u] # "new"
    <3>1. \A r \in Invocations : at'[r] = at[r] /\ r # u
      BY <1>1, <1>4, TaskMoves, RunsAssumption DEF Closers
    <3>2. Running' = Running
      BY <3>1 DEF Running
    <3> QED BY <1>1, <1>4, <3>1, <3>2, TaskEdges, TaskMoves
  <2>2. \A r \in Invocations : SeenLater(r, from'[r])
    BY <1>1, <1>2, <2>1 DEF SeenLater
  <2>3. \A t \in Tasks : t # u /\ at'[t] # "new" => SeenLater(within'[t], from'[t])
    <3>1. ASSUME NEW t \in Tasks, t # u, at'[t] # "new" PROVE SeenLater(within'[t], from'[t])
      <4>1. Seen(within[t], from[t]) /\ from'[t] = from[t] /\ within'[t] = within[t]
        BY <1>1, <2>1, <3>1
      <4> QED BY <1>2, <4>1 DEF SeenLater
    <3> QED BY <3>1
  <2>4. CASE \E r \in Invocations, node \in Nodes : TaskStart(u, r, node)
    <3>1. PICK r \in Invocations, node \in Nodes : TaskStart(u, r, node)
      BY <2>4
    <3>2. /\ at[r] = "running" /\ at[u] = "new" /\ within'[u] = r /\ nodeOf'[u] = node
          /\ edges' = edges
          /\ \/ from' = from /\ lastNode' = lastNode
             \/ from'[u] = lastNode /\ lastNode' = node
      BY <1>1, <3>1 DEF TaskStart, Move, TypeOK, out
    <3>3. r \in Running /\ \A s \in Running : s = r
      BY <1>1, <3>2 DEF Running, Sole
    <3>4. SeenNext(r, node)
      BY <2>1, <3>2 DEF SeenNext
    <3>5. \A s \in Running' : SeenLater(s, lastNode')
      BY <1>1, <1>2, <2>1, <3>2, <3>3, <3>4 DEF SeenLater
    <3>6. SeenLater(within'[u], from'[u])
      <4>1. from'[u] # None => SeenNext(r, from'[u])
        BY <1>1, <1>2, <3>2, <3>3 DEF Members, Seen, SeenLater
      <4> QED BY <3>2, <4>1 DEF SeenLater
    <3> QED BY <1>3, <2>2, <2>3, <3>2, <3>5, <3>6
  <2>5. CASE ~(\E r \in Invocations, node \in Nodes : TaskStart(u, r, node))
    <3>1. /\ at[u] # "new" /\ at[u] # "done"
          /\ within' = within /\ nodeOf' = nodeOf /\ from' = from
      <4>1. within' = within /\ nodeOf' = nodeOf /\ from' = from
        BY <1>4, <2>5 DEF TaskStep, TaskEdge, TaskVisit, TaskEnd, TaskReport, Discover, SetContainers,
                    PublishTopology, taskVars
      <4>2. ASSUME NEW here, NEW there, here \notin {"new", "done"}, Move(u, here, there)
            PROVE  at[u] \notin {"new", "done"}
        BY <1>1, <4>2, MoveFacts
      <4>3. \E here, there : here \notin {"new", "done"} /\ Move(u, here, there)
        BY <1>4, <2>5 DEF TaskStep, TaskEdge, TaskVisit, TaskEnd, TaskReport, Discover, SetContainers, PublishTopology
      <4> QED BY <4>1, <4>2, <4>3
    <3>2. within[u] \in Running /\ \A s \in Running : s = within[u]
      BY <1>1, <3>1 DEF Members, Tasked, Running, Sole
    <3>3. \A s \in Running' : SeenLater(s, lastNode')
      <4>1. lastNode' = lastNode \/ lastNode' = nodeOf[u]
        BY <1>4, <2>5 DEF TaskStep, TaskEdge, TaskVisit, TaskEnd, TaskReport, Discover, SetContainers,
                    PublishTopology
      <4>2. SeenNext(within[u], nodeOf[u])
        BY <2>1, <3>1 DEF SeenNext
      <4> QED BY <1>1, <1>2, <2>1, <3>1, <3>2, <4>1, <4>2 DEF SeenLater
    <3>4. SeenLater(within'[u], from'[u])
      BY <1>1, <1>2, <3>1 DEF SeenLater
    <3>5. \A e \in edges' : SeenEdge(e)'
      <4>1. edges' = edges \/ PublishEdge(u, nodeOf[u])
        BY <1>4, <2>5 DEF TaskStep, TaskEdge, TaskVisit, TaskEnd, TaskReport, Discover, SetContainers,
                    PublishTopology, PublishVisit, out
      <4>2. Seen(within[u], from[u])
        BY <1>1, <3>1
      <4>3. ASSUME PublishEdge(u, nodeOf[u]), NEW e \in edges', e \notin edges PROVE SeenEdge(e)'
        BY <1>1, <3>1, <4>2, <4>3, SeenEdgeNew
      <4> QED BY <1>3, <4>1, <4>3
    <3> QED BY <2>2, <2>3, <3>3, <3>4, <3>5
  <2> QED BY <2>4, <2>5
<1>5. ASSUME NEW x \in Closers, OuterStep(x)
      PROVE  /\ \A r \in Running' : SeenLater(r, lastNode')
             /\ \A t \in Tasks : at'[t] # "new" => SeenLater(within'[t], from'[t])
             /\ \A r \in Invocations : SeenLater(r, from'[r])
             /\ \A e \in edges' : SeenEdge(e)'
  <2>1. /\ \A r \in Invocations : r # x => at'[r] = at[r]
        /\ \A t \in Tasks : at'[t] = at[t]
        /\ within' = within
    BY <1>1, <1>5, OuterMoves DEF taskVars, Closers
  <2>2. \A r \in Invocations : from'[r] = from[r] \/ (r = x /\ r \in Running /\ from'[r] = lastNode)
    <3>1. InvocationStep(x) /\ x \in Invocations =>
             \A r \in Invocations : from'[r] = from[r] \/ (r = x /\ r \in Running /\ from'[r] = lastNode)
      BY <1>1 DEF InvocationStep, RootStart, BeginIteration, PublishPassStart, RootOk, RootEnd, Move, Running, TypeOK
    <3>2. CloserStep(x) => from' = from
      BY DEF CloserStep, CheckOpen, ClearOpen, PublishPassEnd, CheckEnded, SetEnded, PublishRunEnd
    <3>3. ProgramStep => from' = from
      BY DEF ProgramStep, Finish, SetIteration, ForgetLastNode
    <3> QED BY <1>5, <3>1, <3>2, <3>3 DEF OuterStep
  <2>3. \A r \in Invocations : SeenLater(r, from'[r])
    BY <1>1, <1>2, <2>2 DEF SeenLater
  <2>4. ASSUME NEW t \in Tasks, at'[t] # "new" PROVE SeenLater(within'[t], from'[t])
    <3>1. from'[t] = from[t]
      BY <1>1, <1>5, OuterPlaces
    <3> QED BY <1>1, <1>2, <2>1, <2>4, <3>1 DEF SeenLater
  <2>5. \A r \in Running' : SeenLater(r, lastNode')
    <3>1. lastNode' = lastNode \/ lastNode' = None
      <4>1. InvocationStep(x) => lastNode' = lastNode \/ lastNode' = None
        BY DEF InvocationStep, RootStart, BeginIteration, PublishPassStart, RootOk, RootEnd, LastNodeAtRoot
      <4>2. CloserStep(x) => lastNode' = lastNode
        BY DEF CloserStep, CheckOpen, ClearOpen, PublishPassEnd, CheckEnded, SetEnded, PublishRunEnd
      <4>3. ProgramStep => lastNode' = lastNode \/ lastNode' = None
        BY DEF ProgramStep, Finish, SetIteration, ForgetLastNode
      <4> QED BY <1>5, <4>1, <4>2, <4>3 DEF OuterStep
    <3>2. CASE lastNode' = None
      BY <3>2 DEF SeenLater
    <3>3. CASE ~(x \in Invocations /\ RootStart(x))
      <4>1. \A r \in Running' : r \in Running
        <5>1. Busy(x) \/ x = Program
          BY <1>1, <1>5, <3>3, BusyStep
        <5> QED BY <1>1, <2>1, <5>1, RunningFacts, RunsAssumption DEF Running
      <4> QED BY <1>1, <1>2, <3>1, <4>1 DEF SeenLater
    <3>4. CASE x \in Invocations /\ RootStart(x)
      BY <3>4 DEF RootStart, LastNodeAtRoot, SeenLater
    <3> QED BY <3>3, <3>4
  <2>6. \A e \in edges' : SeenEdge(e)'
    <3>1. \/ edges' = edges
          \/ x \in Invocations /\ PublishEdge(x, End)
      BY <1>5, OuterEdges
    <3>2. x \notin Tasks
      BY RunsAssumption DEF Closers
    <3>3. ASSUME x \in Invocations, PublishEdge(x, End), NEW e \in edges', e \notin edges PROVE SeenEdge(e)'
      BY <1>1, <3>2, <3>3, SeenEdgeNew
    <3> QED BY <1>3, <3>1, <3>3
  <2> QED BY <2>3, <2>4, <2>5, <2>6
<1>6. ASSUME UNCHANGED vars
      PROVE  /\ \A r \in Running' : SeenLater(r, lastNode')
             /\ \A t \in Tasks : at'[t] # "new" => SeenLater(within'[t], from'[t])
             /\ \A r \in Invocations : SeenLater(r, from'[r])
             /\ \A e \in edges' : SeenEdge(e)'
  <2>1. UNCHANGED <<at, within, from, edges, lastNode, Running>>
    BY <1>6 DEF vars, taskVars, out, Running
  <2> QED BY <1>1, <1>2, <1>3, <2>1 DEF SeenLater
<1> QED BY <1>4, <1>5, <1>6, StepKinds

-----------------------------------------------------------------------------
(* All of it, in every state.                                              *)
LEMMA KnownInit == Init => Known /\ FiledInv /\ SeenInv
<1> SUFFICES ASSUME Init PROVE Known /\ FiledInv /\ SeenInv
  OBVIOUS
<1>1. /\ \A x \in Invocations \cup Tasks : at[x] = "new" /\ from[x] = None
      /\ at[Program] = "idle" /\ ended = FALSE
      /\ lastNode = None /\ edges = {} /\ timeline = <<>> /\ iteration = 0 /\ iterOpen = FALSE
      /\ \A t \in Tasks : visits[t] = <<>>
  BY RunsAssumption DEF Init
<1>2. AllBracketed
  BY <1>1 DEF AllBracketed, Bracketed
<1>3. Members
  BY <1>1 DEF Members
<1>4. Running = {} /\ Len(timeline) = 0 /\ \A i \in 1..Len(timeline) : FALSE
  BY <1>1 DEF Running
<1>5. PassInv
  <2>1. Numbered(timeline, iteration) /\ Sole
    BY <1>1, <1>4 DEF Numbered, Sole, StartsRise
  <2>2. \A x \in Closers : at[x] \in {"new", "idle"} /\ ~Busy(x)
    BY <1>1 DEF Closers, Busy
  <2>3. Alone /\ Ends
    BY <1>4, <2>2 DEF Alone, Ends, EndsOnce, NoEnd
  <2>4. Passes
    <3>1. AllOnce(timeline)
      BY <1>4 DEF AllOnce, OnceIn, PosOf
    <3>2. Rest(timeline, iteration, iterOpen)
      BY <1>1 DEF Rest, AllClosed
    <3>3. \A r \in Invocations : Standing(timeline, iteration, iterOpen, at[r], r)
      BY <1>1 DEF Standing, InPass
    <3> QED BY <1>1, <3>1, <3>2, <3>3 DEF Passes
  <2> QED BY <2>1, <2>3, <2>4 DEF PassInv
<1>6. FiledInv
  BY <1>1 DEF FiledInv, Filed
<1>7. SeenInv
  BY <1>1, <1>4 DEF SeenInv, Seen
<1> QED BY <1>2, <1>3, <1>4, <1>5, <1>6, <1>7, TypeInit DEF Known

LEMMA KnownInvariant == Spec => [](Known /\ FiledInv /\ SeenInv)
<1>1. Known /\ [Next]_vars => Known'
  BY TypeStep, BracketedStep, MembersStep, PassInvStep DEF Known
<1>2. Known /\ FiledInv /\ SeenInv /\ [Next]_vars => (Known /\ FiledInv /\ SeenInv)'
  BY <1>1, FiledStep, SeenStep
<1> QED BY <1>2, KnownInit, PTL DEF Spec

(* What a task publishes is filed under the pass of its own invoke, as     *)
(* long as invokes do not overlap: its pass is open and has its number.    *)
THEOREM FiledCorrect == Spec => []FiledUnderPass
<1>1. Known /\ FiledInv => FiledUnderPass
  BY DEF FiledInv, Filed, FiledUnderPass, Calm
<1> QED BY <1>1, KnownInvariant, PTL

(* An edge leads from a node its own invoke visited: the last node of one  *)
(* pass never leads into the next one.                                     *)
THEOREM EdgesCorrect == Spec => []EdgesObserved
<1>1. Known /\ SeenInv => EdgesObserved
  BY DEF SeenInv, SeenEdge, EdgesObserved
<1> QED BY <1>1, KnownInvariant, PTL

(* Each invoke is one pass: passes start in the order of their numbers     *)
(* unless invokes overlap; and where finish() waits for them, each is      *)
(* opened once and closed once, and the run ends once.                     *)
THEOREM PassCorrect == Spec => []PassPerInvoke
<1> SUFFICES ASSUME Known PROVE PassPerInvoke
  BY KnownInvariant, PTL
<1>1. /\ TypeInv /\ TypeOK /\ PassInv
      /\ timeline \in Seq(MarkTypes) /\ iteration \in Nat /\ Cardinality(Invocations) \in Nat
      /\ DOMAIN timeline = 1..Len(timeline)
  <2>1. timeline \in Seq(MarkTypes) /\ iteration \in Nat
    BY NumberFacts DEF Known, TypeInv
  <2> QED BY <2>1, RunsAssumption, FS_CardinalityType DEF Known, TypeInv
<1>2. \A n : Of(n) = PosOf(timeline, n)
  BY <1>1 DEF Of, PosOf
<1>3. ASSUME ~overlap, NEW i \in DOMAIN timeline, NEW j \in DOMAIN timeline, Opens(i), Opens(j), i < j
      PROVE  timeline[i].pass < timeline[j].pass
  BY <1>1, <1>3 DEF PassInv, Sole, StartsRise, Opens
<1>4. ASSUME ~overlap, ~early, NEW i \in DOMAIN timeline, NEW j \in DOMAIN timeline, EndsRun(i), EndsRun(j)
      PROVE  i = j
  BY <1>1, <1>4 DEF PassInv, Ends, EndsOnce, EndsRun
<1>5. ASSUME ~overlap, ~early, NEW n \in 1..Cardinality(Invocations)
      PROVE  \/ Of(n) = {}
             \/ \E i \in Of(n) : Of(n) = {i} /\ Opens(i)
             \/ \E i, j \in Of(n) : i < j /\ Of(n) = {i, j} /\ Opens(i) /\ Closes(j)
  <2>1. n \in Count \ {0}
    BY <1>1 DEF Count
  <2>2. OnceIn(timeline, n)
    BY <1>1, <1>5, <2>1 DEF PassInv, Passes, AllOnce
  <2> QED BY <1>2, <2>2 DEF OnceIn, OpenIn, OverIn, Opens, Closes
<1>6. ASSUME ~overlap, ~early, NEW n \in 1..Cardinality(Invocations), autoIteration, Running = {}
      PROVE  IF n <= Cardinality({r \in Invocations : at[r] # "new"})
               THEN \E i \in Of(n) : Closes(i) ELSE Of(n) = {}
  <2>1. {r \in Invocations : at[r] # "new"} = Begun
    BY <1>6 DEF Running, Begun
  <2>2. iteration = Cardinality(Begun)
    BY <1>1, <1>6 DEF TypeInv, Counted
  <2>3. AllClosed(timeline, iteration)
    <3>1. \A r \in Invocations : ~Engaged(at[r])
      BY <1>1, <1>6, RunningFacts, BusyPlaces
    <3> QED BY <1>1, <1>6, <3>1 DEF PassInv, Passes, Rest
  <2>4. n \in Nat /\ n >= 1
    BY <1>1
  <2>5. CASE n <= iteration
    <3>1. ClosedIn(timeline, n)
      BY <1>1, <2>3, <2>4, <2>5 DEF AllClosed
    <3>2. \E i \in Of(n) : Closes(i)
      BY <1>2, <3>1 DEF ClosedIn, Closes
    <3> QED BY <2>1, <2>2, <2>5, <3>2
  <2>6. CASE ~(n <= iteration)
    <3>1. \A i \in 1..Len(timeline) : timeline[i].pass # n
      BY <1>1, <2>6 DEF PassInv, Numbered
    <3>2. Of(n) = {}
      BY <1>2, <3>1 DEF PosOf
    <3> QED BY <2>1, <2>2, <2>6, <3>2
  <2> QED BY <2>5, <2>6
<1> QED BY <1>3, <1>4, <1>5, <1>6 DEF PassPerInvoke

=============================================================================
