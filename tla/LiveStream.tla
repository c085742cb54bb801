------------------------------ MODULE LiveStream ------------------------------
(***************************************************************************)
(* One browser tab watching the bus: the stream handler of                 *)
(* src/loopscope/server.py, the websocket, and the part of dashboard.html  *)
(* that decides whether to apply an event.                                 *)
(*                                                                         *)
(* A queue of the bus is one connection.  The handler sends the replay     *)
(* snapshot and then what its queue yields; messages arrive in order.  The *)
(* tab drops its state when a replay arrives, and ignores an event whose   *)
(* number is not above the highest one it applied.  A lost connection is   *)
(* noticed by the handler when it next sends; the tab reconnects.  The     *)
(* program may die and be started again while the tab stays open: the new  *)
(* process has a bus of its own, whose numbers start over.                 *)
(*                                                                         *)
(* The recorder takes no part here: Paths is empty.                        *)
(***************************************************************************)
EXTENDS EventBus

CONSTANT NoConnection

ASSUME NotRecordingAssumption == Paths = {}
ASSUME ConnectionAssumption == NoConnection \notin Queues

VARIABLES
    connection, \* the queue behind the tab's open socket, or NoConnection
    stream,     \* per queue, its handler: "new", "accepted", "live" or "done"
    wire,       \* messages of the open socket not yet handled by the tab
    page        \* the tab: what it applied since its last reset

streamVars == <<connection, stream, wire, page>>
allVars == <<vars, streamVars>>

\* What the tab applied since its last reset, its highest number, what it ignored
EmptyPage == [applied |-> {}, appliedSeq |-> 0, skipped |-> {}]

-----------------------------------------------------------------------------

(* handle(), for the events of a message, which are in order: those at or   *)
(* below the highest number applied are ignored.                            *)
Handle(p, seqs) ==
    LET new == {n \in seqs : n > p.appliedSeq} IN
    [p EXCEPT !.applied = @ \cup new, !.appliedSeq = Max(new \cup {@}), !.skipped = @ \cup (seqs \ new)]

\* Bug: the reset keeps the highest number applied.
HardResetKeepsSeq(p) == [p EXCEPT !.applied = {}, !.skipped = {}]

\* hardReset(), on every replay message
HardReset(p) == EmptyPage

\* Bug: off by one.
LastSeqAndOne(q) == Max(snapshot[q] \cup {0}) + 1

\* last_seq of the snapshot
LastSeq(q) == Max(snapshot[q] \cup {0})

StreamInit ==
    /\ Init
    /\ connection = NoConnection
    /\ stream = [q \in Queues |-> "new"]
    /\ wire = <<>>
    /\ page = EmptyPage

(* What the bus does by itself.  (Nothing in the package calls clear().)    *)
Publishing ==
    /\ \/ \E p \in Producers, type \in Types, run \in Runs : Stamp(p, type, run)
       \/ \E p \in Producers : Schedule(p)
       \/ Fanout
       \/ BindLoop
    /\ UNCHANGED streamVars

(* The tab's (re)connect reaches the handler: accept, then subscribe.       *)
Connect(q) ==
    /\ connection = NoConnection
    /\ SubscribeAndReplay(q)
    /\ connection' = q
    /\ stream' = [stream EXCEPT ![q] = "accepted"]
    /\ wire' = <<>>
    /\ UNCHANGED page

(* Bug: a failed send does not end the handler's loop.                      *)
HandlerGoesOn(q) == UNCHANGED streamVars

(* A send on a lost connection raises, and the handler unsubscribes.        *)
HandlerEnds(q) ==
    /\ stream' = [stream EXCEPT ![q] = "done"]
    /\ UNCHANGED <<connection, wire, page>>

SendReplay(q) ==
    /\ loop = "open"
    /\ stream[q] = "accepted"
    /\ IF connection = q
         THEN /\ wire' = Append(wire, [replay |-> TRUE, seqs |-> snapshot[q]])
              /\ stream' = [stream EXCEPT ![q] = "live"]
              /\ UNCHANGED <<vars, connection, page>>
         ELSE Unsubscribe(q) /\ HandlerEnds(q)

(* One turn of the handler's loop: take, filter on last_seq, send.  On a    *)
(* failed send the event taken is gone with the subscription.               *)
SendEvent(q) ==
    /\ stream[q] = "live"
    /\ LET n == Head(queue[q]) IN
       \/ /\ Get(q)
          /\ connection = q \/ n <= LastSeq(q)
          /\ wire' = IF n <= LastSeq(q) THEN wire
                                        ELSE Append(wire, [replay |-> FALSE, seqs |-> {n}])
          /\ UNCHANGED <<connection, stream, page>>
       \/ /\ loop = "open"
          /\ queue[q] # <<>>
          /\ connection # q /\ n > LastSeq(q)
          /\ Unsubscribe(q)
          /\ HandlerEnds(q)

(* onmessage                                                               *)
Receive ==
    /\ wire # <<>>
    /\ LET message == Head(wire)
       IN  page' = Handle(IF message.replay THEN HardReset(page) ELSE page, message.seqs)
    /\ wire' = Tail(wire)
    /\ UNCHANGED <<vars, connection, stream>>

(* The connection breaks: what was on the way is lost, the page stays.      *)
Disconnect ==
    /\ connection # NoConnection
    /\ connection' = NoConnection
    /\ wire' = <<>>
    /\ UNCHANGED <<vars, stream, page>>

(* The program dies, with its bus, its server and the connection, and is    *)
(* started again: the tab keeps what it shows and its highest number.       *)
Restart ==
    /\ log' = <<>> /\ buffer' = <<>> /\ ready' = <<>> /\ cleared' = 0
    /\ topology' = [r \in Runs |-> 0]
    /\ loop' = "unbound"
    /\ publishing' = [p \in Producers |-> Idle]
    /\ subscribers' = {} /\ joined' = {}
    /\ queue' = [q \in Queues |-> <<>>] /\ received' = queue'
    /\ overflow' = [q \in Queues |-> {}] /\ snapshot' = overflow'
    /\ cut' = [q \in Queues |-> 0]
    /\ stream' = [q \in Queues |-> "new"]
    /\ connection' = NoConnection
    /\ wire' = <<>>
    /\ UNCHANGED <<page, tapeVars>>

StreamNext ==
    \/ Publishing
    \/ \E q \in Queues : Connect(q) \/ SendReplay(q) \/ SendEvent(q)
    \/ Receive
    \/ Disconnect
    \/ Restart

StreamSpec == StreamInit /\ [][StreamNext]_allVars

(* The bus's own fairness, and the handler and the tab keep running.        *)
StreamFairness ==
    /\ \A p \in Producers : WF_allVars(Schedule(p) /\ UNCHANGED streamVars)
    /\ WF_allVars(Fanout /\ UNCHANGED streamVars)
    /\ \A q \in Queues : WF_allVars(SendReplay(q)) /\ WF_allVars(SendEvent(q))
    /\ WF_allVars(Receive)

FairStreamSpec == StreamSpec /\ StreamFairness

-----------------------------------------------------------------------------
(* Type invariant: a page's events are numbers stamped; the subscribers are *)
(* the queues whose handler runs, and only an open socket carries messages. *)
StreamTypeOK ==
    /\ connection \in Queues \cup {NoConnection}
    /\ stream \in [Queues -> {"new", "accepted", "live", "done"}]
    /\ subscribers = {q \in Queues : stream[q] \in {"accepted", "live"}}
    /\ wire \in Seq([replay : BOOLEAN, seqs : SUBSET Seqs])
    /\ connection = NoConnection => wire = <<>>
    /\ page \in [applied : SUBSET (1..MaxEvents), appliedSeq : 0..MaxEvents, skipped : SUBSET (1..MaxEvents)]

(* ADR-0011: "applies a replay snapshot then live events with seq           *)
(* de-duplication": the filter only ever drops an event the page already    *)
(* shows.                                                                  *)
DropsOnlyDuplicates == page.skipped \subseteq page.applied

(* Once nothing is on its way, the connected tab shows exactly its replay   *)
(* and every event published since, but those its full queue dropped.       *)
Quiet(q) ==
    /\ connection = q /\ stream[q] = "live" /\ wire = <<>>
    /\ Due(q) = {}

CaughtUp ==
    \A q \in Queues : Quiet(q) =>
        page.applied = (snapshot[q] \cup (cut[q] + 1)..Len(log)) \ overflow[q]

(* A connection that broke does not stay subscribed: the handler finds out  *)
(* with the next event that reaches its queue.                              *)
StaleUnsubscribed ==
    \A q \in Queues :
        (q \in subscribers /\ connection # q /\ queue[q] # <<>>) ~> q \notin subscribers

(* Every event due to a connected tab is shown by it in the end, unless its *)
(* queue overflowed or the connection broke.                                *)
EventuallyShown ==
    \A q \in Queues : \A n \in 1..MaxEvents :
        (connection = q /\ n \in InFlight(q)) ~>
            n \in page.applied \/ n \in overflow[q] \/ connection # q

=============================================================================
