------------------------------ MODULE EventBus ------------------------------
(***************************************************************************)
(* loopscope's in-process pub/sub spine (src/loopscope/bus.py).            *)
(*                                                                         *)
(* Threads of the instrumented program publish.  A publish stamps the      *)
(* event with the next sequence number and remembers it for replay under   *)
(* the bus lock, then, with the lock released, hands a record to the JSONL *)
(* writer and the event to the dashboard's event loop.  The loop fans each *)
(* event out to the queues that were subscribed when it was stamped; a     *)
(* full queue drops its oldest event.  A consumer registers and takes its  *)
(* replay snapshot in one critical section.                                *)
(*                                                                         *)
(* An event is its sequence number; `log' is the history of what was       *)
(* stamped.  A queue identifier stands for one asyncio.Queue object: one   *)
(* subscription, never reused.  One event loop is modelled.                *)
(***************************************************************************)
EXTENDS Integers, FiniteSets, SequencesExt

CONSTANTS
    Producers,   \* threads that call publish()
    Queues,      \* asyncio.Queue objects, one per subscription
    Runs,        \* run ids
    Paths,       \* paths given to set_jsonl(); {} for a bus that never records
    NoPath,      \* _jsonl is None
    BufferSize,  \* maxlen of the replay deque
    QueueSize,   \* maxsize of a subscriber's queue
    MaxEvents    \* bound: number of events published

ASSUME SizesAssumption ==
    /\ BufferSize \in Nat \ {0}
    /\ QueueSize \in Nat \ {0}
    /\ MaxEvents \in Nat
ASSUME PathAssumption == NoPath \notin Paths

VARIABLES
    log,          \* history: the events stamped, event n at position n
    buffer,       \* _buffer: the bounded replay deque, as sequence numbers
    topology,     \* _topology: per run, its pinned topology event (0: none)
    loop,         \* _loop: "unbound" (None), "open", or "closed"
    subscribers,  \* _subscribers
    publishing,   \* per thread, what it still holds of the event it stamped
    ready,        \* _fanout calls scheduled on the loop, FIFO
    queue,        \* contents of each subscriber's queue
    jsonl,        \* _jsonl
    recordQ,      \* _record_q, what waits for the writer thread
    tape,         \* the file: the records written whole, and Torn pieces of others
    joined,       \* history: the queues ever subscribed
    cut,          \* history: per queue, how many events preceded it
    snapshot,     \* per queue, the replay it was given (its list is in seq order)
    received,     \* history: per queue, the events its consumer took
    overflow,     \* history: per queue, the events dropped because it was full
    cleared,      \* history: how many events preceded the last clear()
    recordedFrom, \* history: how many events preceded set_jsonl()
    unwritten     \* history: the records whose write failed, wholly or midway

feedVars == <<queue, received, overflow>>
joinVars == <<subscribers, joined, cut, snapshot>>
tapeVars == <<jsonl, recordQ, tape, recordedFrom, unwritten>>
replayVars == <<buffer, topology, cleared>>
vars == <<log, replayVars, loop, publishing, ready, feedVars, joinVars, tapeVars>>

Types == {"topology", "other"}
Torn == 0
Event == [type: Types, run: Runs, by: Producers]

-----------------------------------------------------------------------------
(* What a publish still has to do after it released the lock.              *)

Idle == [seq |-> 0, record |-> FALSE, to |-> {}]

\* Bug: the early return for "nobody listens" comes before the record is queued.
HoldingForSubscribersOnly(n, rec, to) ==
    IF to # {} THEN [seq |-> n, record |-> rec, to |-> to] ELSE [seq |-> 0, record |-> FALSE, to |-> {}]

\* A publish with nothing left to hand over returns.
Holding(n, rec, to) ==
    IF rec \/ to # {} THEN [seq |-> n, record |-> rec, to |-> to] ELSE Idle

\* Bug: the ring keeps its oldest entries and loses the new one.
RememberOldest(s, n) == IF Len(s) < BufferSize THEN Append(s, n) ELSE s

\* deque(maxlen=BufferSize).append
Remember(s, n) == IF Len(s) < BufferSize THEN Append(s, n) ELSE Append(Tail(s), n)

\* Bugs: one entry too many; the oldest dropped and the new one forgotten.
OfferUnbounded(s, n) == IF Len(s) <= QueueSize THEN Append(s, n) ELSE Append(Tail(s), n)
OfferForgetsNew(s, n) == IF Len(s) < QueueSize THEN Append(s, n) ELSE Tail(s)

\* put_nowait, dropping the oldest entry of a full queue
Offer(s, n) == IF Len(s) < QueueSize THEN Append(s, n) ELSE Append(Tail(s), n)

\* The entry that Offer drops, as a set
Dropped(s) == IF Len(s) < QueueSize THEN {} ELSE {Head(s)}

\* The events a replay holds: every pinned topology and the deque
Replay == ToSet(buffer) \cup {topology[r] : r \in {x \in Runs : topology[x] # 0}}

\* Bug: a full queue is skipped.
RoomyRecipients == {q \in Head(ready).to : Len(queue[q]) < QueueSize}

\* The queues the next scheduled fanout puts its event in
Recipients == Head(ready).to

\* Bug: the event also goes to those who register after it was stamped.
AnyQueue == IF loop = "unbound" THEN {} ELSE Queues

\* The queues a publish will fan out to: none without a loop
Audience == IF loop = "unbound" THEN {} ELSE subscribers

\* What load_events() yields, in the file's order: the writer ends a line but
\* never begins one, so the record after a torn piece is on the same line.
Played == {i \in DOMAIN tape : tape[i] # Torn /\ (i > 1 => tape[i - 1] # Torn)}

-----------------------------------------------------------------------------
Init ==
    /\ log = <<>>
    /\ buffer = <<>>
    /\ topology = [r \in Runs |-> 0]
    /\ cleared = 0
    /\ loop = "unbound"
    /\ publishing = [p \in Producers |-> Idle]
    /\ ready = <<>>
    /\ queue = [q \in Queues |-> <<>>]
    /\ received = [q \in Queues |-> <<>>]
    /\ overflow = [q \in Queues |-> {}]
    /\ subscribers = {}
    /\ joined = {}
    /\ cut = [q \in Queues |-> 0]
    /\ snapshot = [q \in Queues |-> {}]
    /\ jsonl = NoPath
    /\ recordQ = <<>>
    /\ tape = <<>>
    /\ recordedFrom = 0
    /\ unwritten = {}

(* publish(), the part under the lock: stamp, remember, capture.           *)
Stamp(p, type, run) ==
    LET n == Len(log) + 1 IN
    /\ publishing[p] = Idle
    /\ Len(log) < MaxEvents
    /\ log' = Append(log, [type |-> type, run |-> run, by |-> p])
    /\ IF type = "topology"
         THEN topology' = [topology EXCEPT ![run] = n] /\ buffer' = buffer
         ELSE buffer' = Remember(buffer, n) /\ topology' = topology
    /\ publishing' = [publishing EXCEPT ![p] = Holding(n, jsonl # NoPath, Audience)]
    /\ UNCHANGED <<cleared, loop, ready, feedVars, joinVars, tapeVars>>

(* publish(), after the lock: the record goes to the writer's queue ...    *)
PutRecord(p) ==
    /\ publishing[p].record
    /\ recordQ' = Append(recordQ, publishing[p].seq)
    /\ publishing' = [publishing EXCEPT
                        ![p] = Holding(publishing[p].seq, FALSE, publishing[p].to)]
    /\ UNCHANGED <<log, replayVars, loop, ready, feedVars, joinVars,
                   jsonl, tape, recordedFrom, unwritten>>

(* ... and then call_soon_threadsafe, whose RuntimeError on a closed loop  *)
(* is swallowed: the event is not delivered.                               *)
Schedule(p) ==
    /\ ~publishing[p].record
    /\ publishing[p].to # {}
    /\ ready' = IF loop = "open"
                  THEN Append(ready, [seq |-> publishing[p].seq, to |-> publishing[p].to])
                  ELSE ready
    /\ publishing' = [publishing EXCEPT ![p] = Idle]
    /\ UNCHANGED <<log, replayVars, loop, feedVars, joinVars, tapeVars>>

(* Bug: the newest scheduled call runs first.                              *)
FanoutNewest ==
    /\ loop = "open"
    /\ ready # <<>>
    /\ LET last == Last(ready)
       IN  /\ queue' = [q \in Queues |-> IF q \in last.to THEN Offer(queue[q], last.seq) ELSE queue[q]]
           /\ overflow' = [q \in Queues |->
                             overflow[q] \cup (IF q \in last.to THEN Dropped(queue[q]) ELSE {})]
    /\ ready' = Front(ready)
    /\ UNCHANGED <<log, replayVars, loop, publishing, received, joinVars, tapeVars>>

(* _fanout, on the event loop: every captured queue, subscribed still or not. *)
Fanout ==
    /\ loop = "open"
    /\ ready # <<>>
    /\ LET n == Head(ready).seq
           to == Recipients
       IN  /\ queue' = [q \in Queues |-> IF q \in to THEN Offer(queue[q], n) ELSE queue[q]]
           /\ overflow' = [q \in Queues |->
                             overflow[q] \cup (IF q \in to THEN Dropped(queue[q]) ELSE {})]
    /\ ready' = Tail(ready)
    /\ UNCHANGED <<log, replayVars, loop, publishing, received, joinVars, tapeVars>>

(* subscribe_and_replay(): register and snapshot under one lock.  Called    *)
(* from the stream handler, so on the open loop.                           *)
SubscribeAndReplay(q) ==
    /\ loop = "open"
    /\ q \notin joined
    /\ subscribers' = subscribers \cup {q}
    /\ joined' = joined \cup {q}
    /\ snapshot' = [snapshot EXCEPT ![q] = Replay]
    /\ cut' = [cut EXCEPT ![q] = Len(log)]
    /\ UNCHANGED <<log, replayVars, loop, publishing, ready, feedVars, tapeVars>>

(* The consumer's `await queue.get()'.                                      *)
Get(q) ==
    /\ loop = "open"
    /\ q \in subscribers
    /\ queue[q] # <<>>
    /\ received' = [received EXCEPT ![q] = Append(@, Head(queue[q]))]
    /\ queue' = [queue EXCEPT ![q] = Tail(@)]
    /\ UNCHANGED <<log, replayVars, loop, publishing, ready, overflow, joinVars, tapeVars>>

(* Bug: the handler ends without its `finally' clause.                      *)
UnsubscribeForgotten(q) == q \in subscribers /\ UNCHANGED vars

Unsubscribe(q) ==
    /\ q \in subscribers
    /\ subscribers' = subscribers \ {q}
    /\ UNCHANGED <<log, replayVars, loop, publishing, ready, feedVars,
                   joined, cut, snapshot, tapeVars>>

Clear ==
    /\ buffer' = <<>>
    /\ topology' = [r \in Runs |-> 0]
    /\ cleared' = Len(log)
    /\ UNCHANGED <<log, loop, publishing, ready, feedVars, joinVars, tapeVars>>

(* bind_loop(), from the server's lifespan.                                 *)
BindLoop ==
    /\ loop = "unbound"
    /\ loop' = "open"
    /\ UNCHANGED <<log, replayVars, publishing, ready, feedVars, joinVars, tapeVars>>

(* The server's thread ends: the calls still scheduled never run.           *)
CloseLoop ==
    /\ loop = "open"
    /\ loop' = "closed"
    /\ ready' = <<>>
    /\ UNCHANGED <<log, replayVars, publishing, feedVars, joinVars, tapeVars>>

(* set_jsonl().  The same path again is a no-op and another one raises: a   *)
(* bus that records changes nothing.  The file may be one to which a        *)
(* process that died in the middle of a write was appending.                *)
SetJsonl(path) ==
    /\ jsonl = NoPath
    /\ jsonl' = path
    /\ recordedFrom' = Len(log)
    /\ tape' \in {<<>>, <<Torn>>}
    /\ UNCHANGED <<log, replayVars, loop, publishing, ready, feedVars, joinVars,
                   recordQ, unwritten>>

(* Bug: a failed write ends the writer thread.                             *)
WriterDiesOnError ==
    /\ recordQ # <<>>
    /\ unwritten = {}
    /\ recordQ' = Tail(recordQ)
    /\ \/ /\ tape' = Append(tape, Head(recordQ))
          /\ unwritten' = unwritten
       \/ /\ tape' \in {tape, Append(tape, Torn)}
          /\ unwritten' = unwritten \cup {Head(recordQ)}
    /\ UNCHANGED <<log, replayVars, loop, publishing, ready, feedVars, joinVars,
                   jsonl, recordedFrom>>

(* _jsonl_writer, one turn; a write that fails, before or after a part of  *)
(* the line reached the file, is swallowed and its record lost.  (A piece   *)
(* that lacks only its newline is taken as torn too.)                      *)
WriteRecord ==
    /\ recordQ # <<>>
    /\ recordQ' = Tail(recordQ)
    /\ \/ /\ tape' = Append(tape, Head(recordQ))
          /\ unwritten' = unwritten
       \/ /\ tape' \in {tape, Append(tape, Torn)}
          /\ unwritten' = unwritten \cup {Head(recordQ)}
    /\ UNCHANGED <<log, replayVars, loop, publishing, ready, feedVars, joinVars,
                   jsonl, recordedFrom>>

Next ==
    \/ \E p \in Producers, type \in Types, run \in Runs : Stamp(p, type, run)
    \/ \E p \in Producers : PutRecord(p)
    \/ \E p \in Producers : Schedule(p)
    \/ Fanout
    \/ \E q \in Queues : SubscribeAndReplay(q)
    \/ \E q \in Queues : Get(q)
    \/ \E q \in Queues : Unsubscribe(q)
    \/ Clear
    \/ BindLoop
    \/ CloseLoop
    \/ \E path \in Paths : SetJsonl(path)
    \/ WriteRecord

Spec == Init /\ [][Next]_vars

(* A thread inside publish() runs on, the open loop runs what is scheduled, *)
(* a consumer keeps reading, and the writer is a thread of its own.         *)
Fairness ==
    /\ \A p \in Producers : WF_vars(PutRecord(p)) /\ WF_vars(Schedule(p))
    /\ WF_vars(Fanout)
    /\ \A q \in Queues : WF_vars(Get(q))
    /\ WF_vars(WriteRecord)

FairSpec == Spec /\ Fairness

-----------------------------------------------------------------------------
(* Where an event on its way to queue q can be.                            *)
InFlight(q) == {publishing[p].seq : p \in {x \in Producers : q \in publishing[x].to}}
Scheduled(q) == {ready[i].seq : i \in {j \in DOMAIN ready : q \in ready[j].to}}
Due(q) == InFlight(q) \cup Scheduled(q) \cup ToSet(queue[q])

(* Type invariant of the bus: every queue within its bound, every sequence *)
(* number one that was stamped.                                            *)
Seqs == 1..Len(log)
Pending == [seq : Seqs, record : BOOLEAN, to : SUBSET Queues]

TypeOK ==
    /\ log \in Seq(Event) /\ Len(log) \leq MaxEvents
    /\ buffer \in Seq(Seqs) /\ Len(buffer) \leq BufferSize
    /\ topology \in [Runs -> Seqs \cup {0}]
    /\ cleared \in Seqs \cup {0}
    /\ loop \in {"unbound", "open", "closed"}
    /\ publishing \in [Producers -> Pending \cup {Idle}]
    /\ ready \in Seq([seq : Seqs, to : SUBSET Queues])
    /\ queue \in [Queues -> Seq(Seqs)] /\ \A q \in Queues : Len(queue[q]) \leq QueueSize
    /\ received \in [Queues -> Seq(Seqs)]
    /\ overflow \in [Queues -> SUBSET Seqs]
    /\ subscribers \subseteq joined /\ joined \subseteq Queues
    /\ cut \in [Queues -> Seqs \cup {0}]
    /\ snapshot \in [Queues -> SUBSET Seqs]
    /\ jsonl \in Paths \cup {NoPath}
    /\ recordQ \in Seq(Seqs) /\ tape \in Seq(Seqs \cup {Torn})
    /\ recordedFrom \in Seqs \cup {0}
    /\ unwritten \subseteq Seqs

(* An event reaches a consumer at most once: what is in its snapshot is    *)
(* never delivered live, and a live event is in one place only.  So the    *)
(* stream's `event.seq <= last_seq' filter never has anything to drop.     *)
AtMostOnce ==
    \A q \in joined :
        LET live == received[q] \o queue[q] IN
        /\ snapshot[q] \cap (Due(q) \cup ToSet(received[q]) \cup overflow[q]) = {}
        /\ InFlight(q) \cap Scheduled(q) = {}
        /\ (InFlight(q) \cup Scheduled(q)) \cap (ToSet(live) \cup overflow[q]) = {}
        /\ ToSet(live) \cap overflow[q] = {}
        /\ \A i, j \in DOMAIN live : live[i] = live[j] => i = j

(* Nothing is lost at connect time: every event stamped after a consumer   *)
(* registered is on its way to it, was taken by it, or was dropped because *)
(* its queue was full, for as long as it is subscribed and the loop runs.  *)
NothingLostAtConnect ==
    \A q \in subscribers : loop = "open" =>
        (cut[q] + 1)..Len(log) \subseteq Due(q) \cup ToSet(received[q]) \cup overflow[q]

(* Events that one thread published reach each consumer in the order it    *)
(* published them, whatever the other threads do: along the whole path,    *)
(* taken, queued, scheduled and in flight.                                 *)
Before(m, n) == log[m].by = log[n].by => m < n

ProducerOrder ==
    \A q \in Queues :
        LET line == received[q] \o queue[q] IN
        /\ \A i, j \in DOMAIN line : i < j => Before(line[i], line[j])
        /\ \A m \in ToSet(line), n \in Scheduled(q) \cup InFlight(q) : Before(m, n)
        /\ \A i, j \in DOMAIN ready : i < j => Before(ready[i].seq, ready[j].seq)
        /\ \A m \in Scheduled(q), n \in InFlight(q) : Before(m, n)

(* replay() holds exactly the last topology of every run and the last      *)
(* BufferSize other events, counted since the last clear().                *)
Ordinary(n) == log[n].type = "other"

ReplayIsRecent ==
    \A n \in Seqs : n \in Replay <=>
        /\ n > cleared
        /\ IF Ordinary(n)
             THEN Cardinality({m \in Seqs : m > n /\ Ordinary(m)}) < BufferSize
             ELSE \A m \in Seqs : m > n /\ log[m].run = log[n].run => Ordinary(m)

(* Every event stamped while the bus records is in exactly one place: held *)
(* by its publisher, queued for the writer, among the records a later       *)
(* replay of the file plays, in each thread's order and once, or lost.  A   *)
(* failed write costs its own record and at most the next one; so does the  *)
(* piece an earlier process left.                                          *)
Unrecorded == {publishing[p].seq : p \in {x \in Producers : publishing[x].record}}

TapeComplete ==
    LET entry == tape \o recordQ
        whole == {i \in DOMAIN entry : entry[i] # Torn}
        played == {tape[i] : i \in Played}
        glued == ToSet(tape) \ (played \cup {Torn})
    IN
    /\ jsonl # NoPath => (recordedFrom + 1)..Len(log)
                           = Unrecorded \cup ToSet(recordQ) \cup played \cup unwritten \cup glued
    /\ Cardinality(glued) <= Cardinality(unwritten) + (IF tape # <<>> /\ tape[1] = Torn THEN 1 ELSE 0)
    /\ Unrecorded \cap ({entry[i] : i \in whole} \cup unwritten) = {}
    /\ {entry[i] : i \in whole} \cap unwritten = {}
    /\ \A i, j \in whole : i < j => Before(entry[i], entry[j]) /\ entry[i] # entry[j]

(* Every event a publisher holds for a queue is delivered to its consumer  *)
(* in the end, unless the queue overflowed, the consumer left, or the      *)
(* dashboard went away.                                                    *)
Delivery ==
    \A q \in Queues : \A n \in 1..MaxEvents :
        n \in InFlight(q) ~> \/ n \in ToSet(received[q]) \cup overflow[q]
                             \/ q \notin subscribers
                             \/ loop = "closed"

(* Every event stamped while the bus records ends up on the tape, or in a  *)
(* failed write of its own: no failure stops the ones behind it.           *)
Recorded ==
    \A n \in 1..MaxEvents :
        n \in Unrecorded ~> n \in ToSet(tape) \cup unwritten

(* The bus implements the feed a consumer is promised.                      *)
Feed == INSTANCE EventFeed WITH
    Consumers <- Queues,
    Capacity  <- QueueSize,
    published <- Len(log),
    open      <- loop = "open",
    members   <- subscribers,
    due       <- [q \in Queues |-> Due(q)],
    delivered <- received

ImplementsFeed == Feed!Spec

=============================================================================
