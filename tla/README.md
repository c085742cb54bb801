# A verification project for loopscope

loopscope instruments a looping LLM program (a LangGraph graph, or a hand-written
"Ralph" loop), and shows it live in a browser page. This directory holds TLA+
models of its moving parts, the TLC configurations that check them on small
instances, and proofs, checked by TLAPS, of every safety property that holds, for
every value of the constants.

Line numbers below are those of `src/loopscope/`.

## The system

```
 program's threads                 dashboard's thread (one asyncio loop)      browser
 ─────────────────                 ─────────────────────────────────────      ───────
 RalphLoop ─────┐
                ├─ publish ─► EventBus ─ call_soon_threadsafe ─► _fanout ─► Queue ─► stream
 LoopScopeCallback ┘            │                                                  handler
   (LangGraph's callbacks,      ├─ deque + pinned topologies ─ replay ─────────────► │
    from several threads)       └─ SimpleQueue ─► writer thread ─► JSONL tape        ▼
                                                                                WebSocket ─► page
 attach() ─► extract_topology ─► layout.pack ─► GRAPH_TOPOLOGY event
 Dashboard.start()/stop() ─► uvicorn thread ─► lifespan ─► bus.bind_loop
```

| component | state it keeps | operations | who it interacts with |
|---|---|---|---|
| Event bus (`bus.py`) | replay deque, one pinned topology per run, subscribers, event loop, next `seq`, recorder's queue and path | `publish`, `_fanout`, `subscribe_and_replay`, `unsubscribe`, `clear`, `bind_loop`, `set_jsonl`, the writer thread | called by every instrumented thread; schedules callbacks on the server's loop; feeds the stream handlers and the tape |
| Live stream (`server.py`, socket code of `dashboard.html`) | per connection: a queue, `last_seq`; per tab: highest `seq` applied | accept, replay, live send, clean-up; connect, hard reset, handle, reconnect | the bus, over its queues; the page, over the socket |
| Server lifecycle (`server.py`) | thread, uvicorn server, `should_exit` | `start`, `_wait_until_up`, `stop`, `hold`, the lifespan hook | rebinds the bus to its own event loop |
| Ralph loop (`ralph.py`) | iteration, reason, signals, best, stall counter, last phase, the current pass, the ContextVar `_current_loop` | the generator, `phase`, `signal`, `done`, `stop`, `StopLoop` | publishes; drives an attached graph's passes; nests |
| LangGraph callback (`langgraph.py`) | root run, open tasks, last node, pass number, containers, run-end latch | root and node callbacks, `include_subgraph`, `set_iteration`, `finish` | called from LangGraph's threads; publishes |
| Topology extraction (`langgraph.py`) | none | `extract_topology`, `_merge_topology`, router inference, subgraph expansion | feeds layout and the handler's containers |
| Layout (`layout.py`, `topology.py`) | none between calls | back edges, layering, ordering sweeps, stages, `pack` | feeds the topology event |
| Page state (`dashboard.html`) | run shown, mesh, node states, passes, ended | a handler for each event type, hard reset | fed by the socket |
| Replay command (`replay.py`) | none | reads a tape, skips torn lines, publishes the rest again | the recorder's tape; the bus |
| Painting, event schema and redaction, CLI | output only | | |

What is hard here, and what makes each component correct:

- **Bus.** A publish is not atomic: it stamps under the lock and hands the event
  over after it, from many threads, to a loop on another thread that may close
  meanwhile. Correct means: one thread's events stay in order, nothing is
  delivered twice or between replay and live, an event is lost only to a full
  queue or a closed loop, the tape misses only what failed to be written, and the
  record next to it.
- **Live stream.** A socket that breaks is noticed only at the next send; a
  reconnecting tab gets a replay that overlaps what it shows, or comes from a program
  that was started again and counts from 1. Correct means:
  the filter drops duplicates only, a tab is caught up when it is quiet, a dead
  connection does not stay subscribed.
- **Lifecycle.** Two threads and two deadlines. Correct means: calls return, a
  failed start leaves nothing running, no dashboard loses its bus.
- **Ralph loop.** A generator can be left in five ways, nested in another one,
  and stopped by another thread. Correct means: its events are a well-formed
  timeline, the context is restored, the reason given for the end is the true
  one, a request to stop is heeded, the stall counter counts passes.
- **LangGraph callback.** Callbacks of parallel nodes interleave between state
  change and publish; what opens and closes passes takes no lock at all, and `finish()`
  may fall into it; a node can turn out to be a subgraph while it runs; invokes may
  overlap, though the handler keeps one root.
  Correct means: one pass per invoke, each visit filed under its pass, edges
  that were walked, no discovery lost.
- **Topology and handoffs.** What LangGraph draws hides edges behind routers;
  graphs run inside graphs, some known beforehand, some discovered, some running
  themselves; a program may go where no edge leads (`Command.goto`). Correct means: the
  topology is exactly the known graphs laid flat, and a step of the program, across any
  number of markers or along no edge, is one hop on the page.
- **Layout.** Cyclic graphs, edges to unknown nodes. Correct means: return arcs
  close cycles, all other edges go down, the sweeps never look up a missing layer.
- **Page.** Parallel executions of one node, other runs' events in the same stream,
  an `attach()` of two events with others in between, a mesh replaced while it runs,
  a replay with holes. Correct means: lit means running, the tape is the run's own,
  and a new tab shows what an old one shows.

`PROJECT.json` lists each hazard at its line, with the properties aimed at it.

## The modules

| module | models | composed with |
|---|---|---|
| `EventFeed` | what the bus promises a consumer, without its machinery | refined by `EventBus` |
| `EventBus` | `bus.py` with its recorder | |
| `LiveStream` | the stream handler, the socket and the tab's filter | extends `EventBus` |
| `RunTimeline` | the order of a run's events that the dashboard relies on | refined by `RalphLoop` |
| `RalphLoop` | `ralph.py`: generators, passes, phases, nesting | |
| `GraphCallback` | `LoopScopeCallback`, `finish()`, LangGraph as its environment | |
| `Dashboard` | the page's handlers, the runs that feed it and the bus's replay | |
| `Topology` | `extract_topology`: builder overlay, terminals, nested graphs laid flat | |
| `Handoff` | edge events through nested graphs, from LangGraph's step to the page's hop | extends `Topology` |
| `Layout` | the graph algorithms of `layout.py` | |
| `Lifecycle` | `Dashboard.start/stop`, the server thread, the bus's binding | |

`MC<module>` extends a module for TLC (functions and sequences a `.cfg` cannot write).
`<module>Proofs` extends one with its theorems, inductive invariants and lemmas:
`EventBusProofs`, `LiveStreamProofs` (which also extends `EventBusProofs`: the bus's
invariants hold under the stream), `RalphLoopProofs`, `GraphCallbackProofs`,
`DashboardProofs`, `LayoutProofs`, `LifecycleProofs`, `HandoffProofs`.

### EventBus

State and code: `log` is the history of stamped events, its length `_seq`;
`buffer` and `topology` are `_buffer` and `_topology`; `ready` is the part of the
loop's callback queue that `call_soon_threadsafe` fills; `queue[q]` is one
`asyncio.Queue`; `recordQ` is `_record_q`. `publish()` is three actions, because
other threads run between them: `Stamp` (the `with self._lock` block),
`PutRecord` and `Schedule`. `_fanout`, `subscribe_and_replay`, `unsubscribe`,
`clear`, `bind_loop`, `set_jsonl` and a turn of `_jsonl_writer` are one action each,
since each is one critical section or one callback. `joined`, `cut`,
`received`, `overflow`, `unwritten`, `cleared` and `recordedFrom` are history only.

The loop's life is `unbound → open → closed`: a loop that closes loses the
callbacks it had, and `call_soon_threadsafe` raises, which `publish` swallows.
One loop is modelled here; rebinding to a second one is `Lifecycle`'s subject.

The tape is a sequence of whole records and `Torn` pieces of lines. A write succeeds,
fails without a trace, or leaves a piece; `SetJsonl` finds an empty file or one that a
process which died in a write left with a piece at its end. `Played` is `replay.py`'s
`load_events`: the record after a piece shares its line, and both are skipped.

`EventFeed` is the contract: an event becomes due to all members at once when it
is published, and leaves `due` by delivery, by overflow or because the feed was
shut. `ImplementsFeed` maps the four places an event can be (held by its
publisher, scheduled, queued, taken) to it.

### LiveStream

`stream[q]` is the place of the handler in `server.py`'s `/ws` endpoint; `connection` is
the tab's open socket, `wire` the messages on it. A broken connection is not told to the
handler: `SendReplay` and `SendEvent` find out. `Handle` and `HardReset` are the page's
`handle` and `hardReset`, reduced to what decides whether an event is applied: `Handle`
takes a whole message off the wire, the replay or one event, and `page.applied` is the
set of what got through. `Restart` is the program's death and next start: the bus is a
new one, the page stays. The recorder takes no part (`Paths = {}`, an assumption of the
module), nor does `clear()`, which nothing in the package calls: it belongs to the bus's
own run.

### RalphLoop and RunTimeline

`nest` is the stack of `for` statements, `context` the ContextVar, `token[l]` what
its token restores. The generator's body is cut where it publishes: `Begin`,
`GiveUp`/`StartPass` (the head of the `while`), `Resume` (code after the
`yield`), `Check`, `Break`/`Escape` (GeneratorExit), `Finish` (the `finally`). The
body's actions are `EnterPhase`, `LeavePhase`, `Signal`, `Done`, raising. `phase[l]`
is the stack of `with it.phase(...)` blocks the body is inside of: a phase may be
entered inside another, or inside itself, and `_last_phase`, from which the next edge
is drawn, is the one left last, not the one around. A `StopLoop` that a worker thread
made has stopped nothing (`StopLoopFromWorker`). An exception leaves phases and loops
one step at a time. `StopFromOthers` lets another thread call `stop()` between any two
steps.

`RunTimeline` says what a reader of the event stream may count on: passes
numbered from 1 that do not overlap, visits that nest (the node entered last is left
first), nothing open after a pass that ended in good order, and an edge from the node
left last, if any, to each other node entered. With nested phases that edge may start at a node
left before the one around was entered; the contract says so and promises no more.

### GraphCallback

`at[x]` is how far the callbacks of an invocation or task are, or, for `Program`, the
program's own call of `finish()` or `set_iteration()`. A node's callback is one action
for what it does under `_mu` and one for each event it publishes. What opens and closes
passes and the run takes no lock, and is an action wherever it looks, sets or publishes:
`RootStart`, `BeginIteration` (the number and `_iter_open`), `PublishPassStart` (which
reads the number again), `RootEnd`, `RootOk`; and, for an invocation or for the program,
`CheckOpen`, `ClearOpen`, `PublishPassEnd` (`end_iteration`) and `CheckEnded`,
`SetEnded`, `PublishRunEnd` (`_end_run`). `Finish` starts the program on these, and
`SetIteration` and `ForgetLastNode` are the two assignments of `set_iteration()`. One
thing is coarser than the code: `_iteration += 1` and `_iter_open = True`, two adjacent
assignments with nothing published between, are one action.

LangGraph is the environment: it starts tasks inside a running invocation, in any number
and order, and ends the invocation after them. `Opaque` are the nodes whose graph the
extraction leaves as it is, because it is one of those that run them or is empty
(langgraph.py:108, 114): including such a node makes it no container. `timeline`,
`visits`, `edges` and `drawn` are the history of what was published: marks of passes and
run in order, visits per task, edges as a set. Nothing reads the order of the rest.

Invocations may overlap, which `overlap` remembers, and `finish()` may come while one
runs or one may start while it runs, which `early` remembers. The handler has one
`_root`, so a pass of overlapping invokes may stay open, and visits and edges may be
filed under the other one's: `FiledUnderPass`, `EdgesObserved` and `PassPerInvoke` speak
of programs that do not overlap them. With `finish()` in the middle of `begin_iteration`
the pass closes before it opens (`_iter_open` is set before `iter.start` is published);
what is left is that passes start in the order of their numbers. Without it each pass
opens and closes once, in this order, and the run ends once. `VisitsBracketed` and
`ShapeIsLatest` hold regardless.

The run takes invocations and tasks as interchangeable, and its `VIEW` leaves out, once
invokes have overlapped, the histories that only properties of programs without overlap
read, and `lastNode` and `from`, which no guard reads.

### Dashboard

`page` is the `S` object as far as run, mesh, node states and passes go; `Handle` is
the switch on the event type, `Newest` the eviction of tape columns. The program's
side is the producer of the stream: runs that attach in two steps, open passes, enter
and leave nodes, discover a subgraph, end, each independent of the others. A node's
callback looks whether the node is a container (`Look`, which notes it in `due`) and
publishes later (`Enter`, `Leave`), as langgraph.py:671 and 685 do; in between
`Discover` may drop the node from the mesh, and its start then comes late. A pass ends
after the callbacks of its nodes have returned. Two callbacks of one kind for one node are
not under way at the same time (`due` is a set). `Discover` sets the containers and
publishes the topology in one step: a callback that looks in between reports nothing of
the wrapper, like one that looks after the topology, and one that looked before may
publish before or after it.
`FreshPage` is the same `Handle` applied to the events of the bus's replay (`InReplay`)
one after the other, a recursive function of the position. Not in it: logs and metrics;
edges and markers are in `Handoff`.

`crossed` holds the runs whose `attach()` overlapped another run. The page promises
those less: between its topology and its `run.start` a run is not yet in progress, and
another one may take the mesh from it. `outlived` holds the runs that ended while
another was still in progress, whose passes then show on the ended run's tape, as the
guard `liveForeign` lets them. `overlaid` holds the runs during whose `attach()`
another run opened a pass: the page shows the attaching run by then, puts the
foreign pass on its tape, and `run.start` of the same run clears no tape
(dashboard.html:620, 658, 692). It takes three runs to see, and came out of the
attempt to prove `TapeIsTrue` without it. `RunningIsTrue`, `TapeIsTrue` and
`FreshTabReconstructs` name these exceptions; outside them all three hold of any
number of runs. `NothingInvented` has one of its own, `CameLate`: a wrapper whose start was
published after the topology that dropped it stays lit, against the comment at
dashboard.html:640. It is no node of the mesh any more; the page's lists and counts of
running nodes (dashboard.html:857, 1512) keep it.

### Topology and Handoff

`Topology` keeps no state but what is known of each graph object, `graph`: the edges
its builder names, the routers LangGraph draws as an edge to the end (`stubs`), the
nodes declared or compiled with a graph. `Merged` is `_merge_topology` with
`_ensure_terminals`, `Topology(subgraphs)` is `extract_topology`; an id `w/x` is the
path `<<w, x>>`.

In `Handoff` one program walks through the graphs: `at` is the node that runs, as a
path, and LangGraph is the environment, which may run any node of a graph after any
other. `EnterNode` and `LeaveGraph` are `on_chain_start` and `on_chain_end`, with
`_transition`; the page's `compactTopology`, `onEdge` and `declareHop` receive the edge
events in the same step. `IncludeSubgraph` may come before a node runs its graph, and
`Skip` is a node that returns without running it. Which of two equally short walks
through markers `_transition` finds depends on the order of the edges: either.

`NextNames` are the nodes the edges lead to; a step to another one is a `Command.goto`, or
a router whose destinations could not be read. `Strays` says that a hop follows no edges:
its last step does not, or one before it that drew no edge event did not (into a
container, out of a graph, past the graph of a container that was skipped; `away`
remembers). Such a hop is a *jump*. `_transition` may find a walk for it all the same, or
reports it as it is (langgraph.py:584); between two drawn nodes the page then declares a
link (dashboard.html:789). `jumps` are those hops since the last topology, whose drawing
drops the declared links again.

Assumed: nodes run one at a time, and a node runs its graph once at most per visit; there
are finitely many graph objects, with finitely many nodes, and `MaxDepth` is no less than
their number, so that it cuts off no path the topology draws (a graph that runs inside
itself is not expanded). With parallel branches `_last_node` may belong to a sibling, and
with a graph run twice to the pass before of the same graph; `_transition` and
`declareHop` would treat either as a hop along no edge. `EmittedEdgesExist` says nothing
of an edge whose source is a node that was discovered to be a graph after it started: that
node is no longer in the topology, and the page ignores the edge.

### Layout

One action for each turn of a loop in `_find_back_edges` and `_layer`. Lists are
sets, and any member may come next, which covers every order the lists can have.
The ordering sweeps are reduced to the look-up that can raise.

### Lifecycle

The caller's thread (`call`, `callee`) and each server's thread (`server[d]`). The
five-second deadline of `_wait_until_up` may strike at any moment before the
server is up, and after `start()` has given up the server may still come up.

## The runs

| run | bounds | what it shows |
|---|---|---|
| `bus` | 2 threads, 1 consumer, ring and queue of 1, 2 events, 1 tape, torn or not | `AtMostOnce`, `NothingLostAtConnect`, `ProducerOrder`, `TapeComplete`, refinement of `EventFeed`; under fairness `Delivery`, `Recorded` |
| `tab` | 1 thread, 2 connections, 2 runs, 2 events, any number of restarts | the tab drops only duplicates, is caught up when quiet; the replay is the recent past; stale connections go, events are shown in the end |
| `tab_threads` | 2 threads, 2 events | *violated*: `DropsOnlyDuplicates` |
| `ralph_loops` | 2 loops, each inside the other or not; one with 2 phases that may nest, 2 calls of `phase` and `signal` together, 2 passes, stall detection and a deadline, one with a bare pass | the current loop is the innermost one; the end tells why; the stall counter; a stop request is heeded; the timeline |
| `ralph_stop` | 1 loop, `stop()` from another thread | *violated*: `StopHeeded` |
| `graph_handler` | 2 invokes, overlapping or not, 2 tasks, 2 nodes (one with a graph that is not expanded), 1 call of `finish()`, as many calls of `set_iteration()` as invokes | passes, visits, edges, containers; the run ends once |
| `graph_retry` | 2 invokes, one after the other, 1 task, no `finish()` | *violated*: `RetryIsOneRun` |
| `page` | 3 runs, 2 passes, 2 executions per node, ring of 5, tape of 1 column, 9 events | lit is running, the tape is the run's own, a new tab reconstructs the page or at least invents nothing, but for a start that came late |
| `server_calls` | 3 dashboards, 2 ports | when `start()` returned the port was open; a failed start ends |
| `server_bind` | 2 dashboards, 1 port | *violated*: `NoSilentDeadPage` |
| `layout` | every graph of 4 nodes, 1 stray name, at most 5 edges | return arcs, layers, stages, no `KeyError` |
| `handoff` | 3 graphs nested 3 deep, the innermost running the outermost again; 3, 1 and 1 edges; 2 invokes; 1 step along no edge | the topology is the known graphs laid flat; edge events follow it, but for the hop along no edge; the page's last hop is the program's, and it declares no other link |

Why the bounds are enough to be worth something. A queue of 1 and a ring of 1 overflow
with the second event, so both the full and the roomy case occur in every position. Two
threads with one event each are the shortest race between stamping and scheduling. In
`tab` the second connection is the reconnect. Two nested loops leave and restore a
context that is not the default one. Two passes have a boundary between them, and
`StallAfter = 1` fires within them. Two phases may nest or follow each other; an edge into
a nested phase from one that was left before takes three and is the theorem's. Two invokes
are what overlaps, two tasks what runs in parallel, and one call of `finish()` falls
between any two steps of them. A ring of 5 against 9 events wraps in the middle of
a run, and a tape of one column evicts at the second pass; the third run is the one that
opens a pass inside another's `attach()`. A restart needs no bound: it takes the bus
back to where it began. Four nodes hold two disjoint cycles, nested cycles and a diamond
with a short cut; five edges are one more than a cycle of all four. Three levels of
graphs put two markers in a row, an inner graph that leads straight from its start to
its end joins four, and three edges of the outer graph make a loop around the nested
one. One step along no edge leads from any node to any other, before, between and after
steps along edges, and a second pass shows whether the link it drew is kept. What lies beyond is the theorems' business.

Deadlock is not checked: a bounded program may stop (all events published, all
passes done, the layout computed), and that is not an error of it.

### The violations

Each is a place where the code and a sentence about it disagree:

1. `tab_threads`: `publish` schedules after it released the lock (bus.py:122),
   so two threads' events can reach the loop in the other order; the page drops
   the late, smaller number as a duplicate, though it never showed it.
2. `ralph_stop`: `stop()` marks the pass handed out last; between two passes that
   is one that is over, and the loop goes on. In the same thread (run
   `ralph_loops`) the property holds.
3. `graph_retry`: a failed invoke ends the run, so a retry is not one run.
4. `server_bind`: a dashboard that cannot bind its port has rebound the bus before
   it fails, and the dashboard that serves goes silent.

### Fairness

- `EventBus!Fairness`: a thread inside `publish` runs on (it holds no lock and does
  not wait); an open event loop runs its callbacks; a consumer keeps reading
  its queue; the writer thread runs. Nothing is assumed of whoever
  publishes, subscribes, leaves or closes the loop.
- `LiveStream!StreamFairness`: the same, and the handler's coroutine and the tab's
  `onmessage` run. A break of the connection is never assumed away: the
  liveness properties have it as an alternative.
- `Lifecycle!ServerFairness`: the server's thread runs. Nothing is assumed of the
  caller, which may wait as long as its deadlines let it.

## What is proved

Each theorem holds for every value of the constants that the named assumptions of its
module allow. `TypeCorrect` (`StreamTypeCorrect`) is the type invariant; it carries the
bounds of ring, queues, stacks and counters. Each other theorem rests on an inductive
invariant, a conjunction of named parts, with a lemma for each action that
disturbs a part.

**`EventBusProofs`**, from `SizesAssumption` (sizes are natural, ring and queue not
empty) and `PathAssumption` (`None` is no path):

- `OrderKept`: `[]ProducerOrder`, which speaks of pairs of events in one place
  and is not inductive: nothing in it says whose event a publisher holds or that a
  dropped event is older than those behind it. `OrderInv` adds this: `HeldIsOwn`
  (what a thread holds it stamped itself), and for each place, and each pair of places
  along the path, that it is in every thread's order.
- `DeliveredOnce`: `[]AtMostOnce`. Besides `OrderInv` it needs `LiveAfterCut`:
  what is on its way to a queue was stamped after it registered, and its
  snapshot holds what was stamped before. That is why registration and snapshot
  share one critical section.
- `ConnectLosesNothing`: `[]NothingLostAtConnect`, from the same invariants and
  `UnboundUnheard` (nobody is subscribed while there is no loop, so the shortcut
  "no loop, no audience" of `publish` loses nothing).
- `RefinesFeed`: `ImplementsFeed`, the safety part of the contract. The lemmas take one
  action each: a step of the bus is a step of the feed, or leaves the feed's
  variables alone. An event that is due has to be in one place only, or its delivery
  would not remove it; that is `OrderInv` and `LiveAfterCut` again.
- `TapeKept`: `[]TapeComplete`. `TapeInv` is `TapeOrder`, `TapeWhole` (each event is
  held, queued, on the tape, or failed) and `TapeGlue`: each torn piece costs the record
  behind it, the last piece none as yet.
- `ReplayCorrect`: `[]ReplayIsRecent`. `BufferInv`: the ring's entry `i` of `n` has
  `n - i` ordinary events stamped after it (`Ranked`), entries ascend, and an ordinary
  event since the last `clear()` is missing only when the ring is full of later ones
  (`Recalled`); `PinnedInv`: what is pinned for a run is its last topology.

**`LiveStreamProofs`**: `DropsCorrect` (`[]DropsOnlyDuplicates`) and `CaughtUpCorrect`
(`[]CaughtUp`), across any number of reconnects, overflows and restarts. A step of the
stream is a step of the bus, leaves the bus alone, or is `Restart`, which ends in the
bus's initial state; so the bus's invariants hold here (`BusInv`). On top of them
`LiveInv`: the wire is the end of what the handler took from its queue (`IsLast`), with
the replay in front or not, and the rest is on the page (`IsRest`). Since the
queue is in the publisher's order, whatever arrives is above all that is on the
page, and `NoneSkipped` is inductive. The hypothesis `OneThread` (one thread publishes)
is not for convenience: with two the properties are false, as run `tab_threads` shows.

**`RalphLoopProofs`**, for any number of loops in any nesting:

- `ContextCorrect`: `[]ContextIsInnermost`. `Chain`: the token of each loop of
  the nest is the loop below it. That is what survives leaving loops one at a time.
- `StopCorrect`: `StopHeeded`; `EndCorrect`: `[]EndTellsWhy`. `Told` is
  `Heeded` (a loop asked to end starts no pass) and `FirstRun` (while a loop object runs
  for the first time, its reason is what made it end). Hypotheses: `~StopFromOthers`,
  without which run `ralph_stop` refutes it; for `EndCorrect` also `MaxRuns = 1`, for an
  object iterated again keeps its old reason. `FirstEndCorrect` says what remains
  without the second hypothesis: the end of the first run is always told correctly.
- `StallCorrect`: `StallCountsPasses`, with no hypothesis.
- `RefinesTimeline`: `ImplementsTimeline`. `Reported` ties the timeline's state (pass
  open, stack of open nodes, node left last) to the loop's own fields; each action is then
  a step of `RunTimeline` or a stutter, however phases nest, also with stops from other
  threads.

**`GraphCallbackProofs`**, from `RunsAssumption` (invocations and tasks are different
things, and there are finitely many invocations, as few or many as one likes):

- `ShapeCorrect`: `[]ShapeIsLatest`, by `Locked`: while a task explores it holds the
  topology lock and its draft of the subgraphs is the handler's own.
- `BracketsCorrect`: `[]VisitsBracketed`, from where each task's callbacks are.
- `PassCorrect`: `[]PassPerInvoke`. `PassInv` says less the more has happened. Always, no
  mark has a number above the handler's counter (`Numbered`). Until invokes overlap, one
  invoke at most runs, its number is the handler's, and starts rise (`Sole`).
  Until `finish()` also comes early, one thread at most is busy opening or closing
  anything (`Alone`), so what was looked at is still true when it is acted on: `Passes`
  says by where that thread stands whether the last pass is announced but not published,
  open, or shut but not published (`Announced`, `Opened`, `Shut`, `Rest`), and `Ends` that
  `_ended` is set before the one `run.end`.
- `FiledCorrect`, `EdgesCorrect`: `[]FiledUnderPass`, `[]EdgesObserved`. `Members`: a task
  runs inside an invoke that runs; with `Sole` the handler's number, and, unless `finish()`
  came early, the pass that is open, are that invoke's; `FiledInv` and `SeenInv` follow a
  task from its start to its report.

**`DashboardProofs`**, for any number of runs, from `BoundsAssumption`
(the tape has a column) and `NamesAssumption`: `LightsCorrect`
(`[]RunningIsTrue`), `TapeCorrect` (`[]TapeIsTrue`), `PageCorrect` (the invariant
itself). `ShownInv` says which stage the shown run can be in, `AloneInv` that a run
whose `attach()` nothing crossed is alone until it runs, `LightsInv` and `TapeInv` carry
the two properties from the topology on, before `InProgress` is true.

Its second half is about a tab opened now, for any ring size and any history:

- `FreshTabCorrect`: `[]FreshTabReconstructs`. The events a new tab handles are in the
  past, where no invariant of the current state can speak of them. `TraceInv`
  says that some history explains the state: a moment per event, each the outcome of
  the one before (`StepAt`), at each of which the page showed what the other invariants say
  (`ShownAt`, `UncrossedAt`), and in which the topologies seen last are the bus's
  pinned ones (`LastTopologies`). `TraceCorrect` proves it. Then two pages walk along that
  history, the one that handled all events and the one that handles the replay's.
  `Alike` compares them: before the ring's first event they differ in what the ring lost
  (`KnownAt`), and after the shown run's topology in nothing (`RebuiltAt`).
- `NothingInventedCorrect`: `[]NothingInvented`, by `SaneAt`: a page that skipped events
  counts no more executions than are open, also those of a wrapper whose start came late.
- `FreshTypesCorrect`: `[]TypeOK`, whose last conjunct is about the new tab's page.

Both pages are values of a recursive function. What it returns is proved here, and in
`HandoffProofs`, by induction over a set of positions up to the history's length (`UpTo`, from the
library's well-foundedness of `<`), which takes no operator as a parameter.

**`LayoutProofs`**, for every finite graph (`NodesAssumption`) and every order of its
lists:

- `CyclesCorrect`: `[]BackEdgesCloseCycles`. A path is never written
  down, which spares a recursion over it: a set of nodes closed under a set of edges has what is
  reachable from its members. `SearchInv`: the stack holds the grey nodes once each,
  a tree edge leads to a black node or up the stack (`TreeLeadsOn`), whatever is
  closed under tree edges and has an entry of the stack has all entries above it
  (`ReachInv`).
- `StagesCorrect`: `[]StagesAdvance`. The search leaves no cycle among the other edges
  (`NoCycle(Tree)`: every set of nodes has one that no edge from the set enters), so
  Kahn's layering gets to every node, and a layer is below the number of nodes.

**`HandoffProofs`**, for any finite set of graph objects that run one another in any way,
themselves included (`GraphsAssumption`, `NumbersAssumption`, `NoneAssumption`: `None` is
no path):

- `FlatCorrect`: `[]TopologyIsFlat`. `extract_topology` is a recursive function on calls
  (graph, prefix, graphs above). It has a value because each recursion leaves one graph
  less to go to (`Room`, `ExtractExists`). That value is then described without
  recursion: a path is *open* when every node along it is replaced where it stands
  (`Open`), and a call returns the nodes that are not open in graphs that are, and the
  steps of these graphs between what stands for their ends (`Extract`, by induction over
  `Room` in `TopologyIsExtract`). `Flat` says this of the root, and `OpenKnown` that the
  open paths are the ones whose graph is known and does not run around them; on the way
  `MergedIs` shows that whatever LangGraph draws, the overlay keeps the builder's edges
  and adds one to `End` for each sink.
- `EmittedCorrect`: `[]EmittedEdgesExist`. What has to be known is where `_last_node` is:
  `FollowInv` says that, if the topology still has it and no step strayed since (`away`),
  markers alone lead from it to what stands for the running node (`Leads`): the node
  itself, or its entry or exit marker. The next step of the graph is then one more edge (`PointNext`), and
  `_transition` finds a walk, because the shortest one has no more markers than there
  are and repeats none (`WalksFound`). So the edge it makes up otherwise has an end that
  is not drawn (`TransitionIs`), or is the hop of a step that strayed (`Jumps`).
- `HandoffCorrect`: `[]HandoffIsLast`. Along a walk the page hands what is behind the
  first node from marker to marker (`WalkPage`), and only the last edge can be a hop;
  `SourceIs`: this is `_last_node` if that is drawn, and no drawn node
  otherwise, whatever the markers saw before. That a hop along edges is already a link is
  a fact about `compactTopology`: joining across the markers one by one, in any order,
  leaves a link wherever markers alone lead on (`AcrossCloses`, `JoinedHas`). So what
  `declareHop` adds are the jumps.
- `TypesCorrect`: `[]TypeOK`, from these.

**`LifecycleProofs`**: `TypeCorrect`, which has that `start()` returned only after the port
was open; `FailedStartAsked`, the safety half of `FailedStartEnds`: whoever
raised has asked its server to exit, also the server that came up in the same moment.

### What is only model-checked

- Liveness (`Delivery`, `Recorded`, `StaleUnsubscribed`, `EventuallyShown`,
  `FailedStartEnds`): fairness and `ENABLED` are out of the prover's reach.

Every invariant and every action property that a passing run checks is a theorem, under
the hypotheses named above.

## What is not modelled

- Painting, the stepper, keyboard handling, the CLI and argument parsing: output.
- Event formatting, truncation, redaction, state deltas, token and cost metrics:
  conversions of payloads nothing here tells apart.
- `topology.pack`, coordinates, barycentre order, colours, the radial mesh and the
  choice of hub and pane: functions from a finished graph to a drawing, each of which
  fixes what it returns in one pass over its input. A property of them would restate
  their bodies.
- Reading a router's destinations out of its bytecode and annotations.
- Two processes that append to one tape at the same time; only one after the other.
- `_topology` of the bus keeps one event per run for good (bus.py:108), so memory and
  replay grow with the number of runs: no state is wrong, and no bounded run shows it.
- A loop object iterated a second time. It keeps reason, best signal and iteration
  (ralph.py:211), and may report the first run's reason; with `MaxRuns = 2` TLC shows
  it. Nothing in the repository says that this is supported, so the runs take 1.
- Phases that concurrent tasks or threads of one pass's body enter (`asyncio.gather`, a
  pool): the body of `RalphLoop` is one thread, so its phases nest. Concurrent ones are
  left in any order, and their edges start at whichever was left last; neither a doc nor a
  test of the repository does this.
- Parallel branches in `Handoff`, and a node that runs its graph more than once per visit.
  What becomes of `_last_node` with parallel branches is in `GraphCallback`.

## The plan

In order of weight; the first three are done.

1. Done: `EventFeed`, `EventBus`, `EventBusProofs`, `LiveStream`, `RunTimeline`,
   `RalphLoop`, `GraphCallback`, `Dashboard`, `Lifecycle`, `Layout`, `Topology`,
   `Handoff`.
2. Done: torn writes and the records a replay plays; the restart of the program under
   an open tab; overlapping invokes of one handler; runs that attach in two steps and
   overlap freely; the eviction of tape columns; a StopLoop from a worker thread.
3. Done: proofs of every safety invariant and of the safety part of both refinements,
   the nested graphs included.
4. `Handoff` with parallel branches and with a graph that a node runs twice: what is
   still true of the edges then; a Ralph loop with concurrent phases; a Ralph loop and an
   attached graph in one model.
