-------------------------- MODULE LiveStreamProofs --------------------------
(***************************************************************************)
(* Proofs about the live stream, for any number of connections and         *)
(* restarts and any sizes: what a tab shows, given that one thread         *)
(* publishes.  (With two it may drop an event it never showed.)            *)
(*                                                                         *)
(* A step of the stream is a step of the bus, or leaves the bus alone, or  *)
(* is a restart, which puts the bus into its initial state: so the bus's   *)
(* invariants hold here too.                                               *)
(***************************************************************************)
EXTENDS LiveStream, EventBusProofs, WellFoundedInduction

OneThread == \A p, x \in Producers : p = x

-----------------------------------------------------------------------------
(* The bus under the stream.                                                *)

BusInv == TypeOK /\ OrderInv /\ LiveAfterCut /\ UnboundUnheard /\ NothingLostAtConnect

\* Nothing in the package closes the loop while a tab is served, and no recorder runs.
LoopLives == loop # "closed"
NoTape == jsonl = NoPath /\ recordQ = <<>> /\ tape = <<>> /\ recordedFrom = 0 /\ unwritten = {}

-----------------------------------------------------------------------------
(* The stream.                                                              *)

Message == [replay : BOOLEAN, seqs : SUBSET Seqs]

HandlerInv ==
    /\ connection \in Queues \cup {NoConnection}
    /\ stream \in [Queues -> {"new", "accepted", "live", "done"}]
    /\ subscribers = {q \in Queues : stream[q] \in {"accepted", "live"}}
    /\ joined = {q \in Queues : stream[q] # "new"}
    /\ \A q \in Queues : connection = q => stream[q] \in {"accepted", "live"}
WireTypes ==
    /\ wire \in Seq(Message)
    /\ connection = NoConnection => wire = <<>>
PageTypes ==
    page \in [applied : SUBSET (1..MaxEvents), appliedSeq : 0..MaxEvents, skipped : SUBSET (1..MaxEvents)]

\* An open socket that the handler has only accepted carries nothing yet.
NothingSentYet ==
    \A q \in Queues : connection = q /\ stream[q] = "accepted" => wire = <<>> /\ received[q] = <<>>

\* A wire w is the end of what the handler took, r, or all of it behind the replay s.
IsLast(w, r, s) ==
    /\ Len(w) <= Len(r) + 1
    /\ \A i \in 1..Len(w) :
          w[i] = IF Len(w) = Len(r) + 1 /\ i = 1
                   THEN [replay |-> TRUE, seqs |-> s]
                   ELSE [replay |-> FALSE, seqs |-> {r[Len(r) - Len(w) + i]}]

\* The rest, when the replay is not on the wire any more, is on the page p.
IsRest(p, w, r, s) ==
    Len(w) <= Len(r) =>
        /\ p.applied = s \cup {r[j] : j \in 1..(Len(r) - Len(w))}
        /\ p.appliedSeq \in p.applied \cup {0}

LiveInv ==
    \A q \in Queues : connection = q /\ stream[q] = "live" =>
        IsLast(wire, received[q], snapshot[q]) /\ IsRest(page, wire, received[q], snapshot[q])
NoneSkipped == page.skipped = {}

StreamInv == HandlerInv /\ WireTypes /\ PageTypes
OrderedInv == NothingSentYet /\ LiveInv /\ NoneSkipped

-----------------------------------------------------------------------------
(* The largest of a bounded set of numbers.                                 *)
LEMMA MaxFacts ==
    ASSUME NEW N \in Nat, NEW S \in SUBSET (0..N), S # {}
    PROVE  Max(S) \in S /\ \A n \in S : n <= Max(S)
<1> DEFINE gaps == {g \in Nat : \E n \in S : g = N - n}
<1>1. gaps \subseteq Nat /\ gaps # {}
  <2>1. PICK n \in S : TRUE
    OBVIOUS
  <2>2. N - n \in gaps
    BY <2>1
  <2> QED BY <2>2
<1>2. PICK g \in gaps : \A x \in gaps : <<x, g>> \notin OpToRel(<, Nat)
  BY <1>1, NatLessThanWellFounded, WFMin
<1>3. PICK m \in S : g = N - m
  OBVIOUS
<1>4. \A n \in S : m >= n
  <2> SUFFICES ASSUME NEW n \in S, ~(m >= n) PROVE FALSE
    OBVIOUS
  <2>1. n \in 0..N /\ m \in 0..N /\ N - n \in gaps /\ N - n < g
    BY <1>3
  <2>2. <<N - n, g>> \in Nat \X Nat /\ <<N - n, g>>[1] < <<N - n, g>>[2]
    BY <1>1, <2>1
  <2> QED BY <1>2, <2>1, <2>2 DEF OpToRel
<1> QED BY <1>3, <1>4 DEF Max

-----------------------------------------------------------------------------
(* The bus under the stream.                                                *)

LEMMA InitBus == Init => BusInv /\ LoopLives /\ NoTape
<1> SUFFICES ASSUME Init PROVE BusInv /\ LoopLives /\ NoTape
  OBVIOUS
<1>1. TypeOK
  BY SizesAssumption DEF Init, TypeOK, Seqs, Event, Pending
<1>2. /\ Len(ready) = 0
      /\ \A p \in Producers : ~Held(p)
      /\ \A q \in Queues : Settled(q) = {} /\ Gone(q) = {} /\ Len(queue[q]) = 0
                           /\ Len(received[q]) = 0 /\ overflow[q] = {}
  BY DEF Init, Held, Idle, Settled, Gone, ToSet
<1>3. OrderInv
  BY <1>2 DEF OrderInv, HeldIsOwn, ReadyInOrder, ReadyBeforeHeld, SettledBeforeReady,
              SettledBeforeHeld, GoneBeforeQueued, QueueInOrder, TakenInOrder, TakenOrDropped
<1>4. LiveAfterCut /\ UnboundUnheard
  BY DEF Init, LiveAfterCut, UnboundUnheard, Settled, ToSet, Idle
<1>5. NothingLostAtConnect /\ LoopLives /\ NoTape
  BY DEF Init, NothingLostAtConnect, LoopLives, NoTape
<1> QED BY <1>1, <1>3, <1>4, <1>5 DEF BusInv

(* A restart makes everything of the bus as new; the tape, which is not     *)
(* used, was never anything else.                                          *)
LEMMA RestartBus == NoTape /\ Restart => Init'
BY DEF NoTape, Restart, Init, tapeVars

LEMMA BusMoves ==
    [StreamNext]_allVars => [Next]_vars \/ Restart
<1> SUFFICES ASSUME [StreamNext]_allVars, ~Restart PROVE [Next]_vars
  OBVIOUS
<1>1. CASE Publishing
  BY <1>1 DEF Publishing, Next
<1>2. ASSUME NEW q \in Queues, Connect(q) PROVE [Next]_vars
  BY <1>2 DEF Connect, Next
<1>3. ASSUME NEW q \in Queues, SendReplay(q) PROVE [Next]_vars
  BY <1>3 DEF SendReplay, Next
<1>4. ASSUME NEW q \in Queues, SendEvent(q) PROVE [Next]_vars
  BY <1>4 DEF SendEvent, Next
<1>5. CASE Receive
  BY <1>5 DEF Receive
<1>6. CASE Disconnect
  BY <1>6 DEF Disconnect
<1>7. CASE UNCHANGED allVars
  BY <1>7 DEF allVars
<1> QED BY <1>1, <1>2, <1>3, <1>4, <1>5, <1>6, <1>7 DEF StreamNext

LEMMA LoopStep ==
    LoopLives /\ NoTape /\ [StreamNext]_allVars => LoopLives' /\ NoTape'
<1> SUFFICES ASSUME LoopLives, NoTape, [StreamNext]_allVars PROVE LoopLives' /\ NoTape'
  OBVIOUS
<1> USE DEF LoopLives, NoTape, tapeVars, vars
<1>1. CASE Publishing
  BY <1>1 DEF Publishing, Stamp, Schedule, Fanout, BindLoop
<1>2. ASSUME NEW q \in Queues, Connect(q) PROVE LoopLives' /\ NoTape'
  BY <1>2 DEF Connect, SubscribeAndReplay
<1>3. ASSUME NEW q \in Queues, SendReplay(q) PROVE LoopLives' /\ NoTape'
  BY <1>3 DEF SendReplay, Unsubscribe
<1>4. ASSUME NEW q \in Queues, SendEvent(q) PROVE LoopLives' /\ NoTape'
  BY <1>4 DEF SendEvent, Get, Unsubscribe
<1>5. CASE Receive
  BY <1>5 DEF Receive
<1>6. CASE Disconnect
  BY <1>6 DEF Disconnect
<1>7. CASE Restart
  BY <1>7 DEF Restart
<1>8. CASE UNCHANGED allVars
  BY <1>8 DEF allVars
<1> QED BY <1>1, <1>2, <1>3, <1>4, <1>5, <1>6, <1>7, <1>8 DEF StreamNext

LEMMA BusInvariant == StreamSpec => [](BusInv /\ LoopLives /\ NoTape)
<1>1. StreamInit => BusInv /\ LoopLives /\ NoTape
  BY InitBus DEF StreamInit
<1>2. BusInv /\ [Next]_vars => BusInv'
  BY TypeStep, OrderStep, CutStep, LossStep DEF BusInv
<1>3. LoopLives /\ NoTape /\ [StreamNext]_allVars => LoopLives' /\ NoTape'
  BY LoopStep
<1>4. [StreamNext]_allVars => [Next]_vars \/ Restart
  BY BusMoves
<1>5. NoTape /\ Restart => Init'
  BY RestartBus
<1>6. Init => BusInv
  BY InitBus
<1>7. BusInv /\ LoopLives /\ NoTape /\ [StreamNext]_allVars => (BusInv /\ LoopLives /\ NoTape)'
  BY <1>2, <1>3, <1>4, <1>5, <1>6, PTL
<1> QED BY <1>1, <1>7, PTL DEF StreamSpec

-----------------------------------------------------------------------------
(* The handlers, the wire and the page: types.                              *)

LEMMA HandlerStep ==
    HandlerInv /\ [StreamNext]_allVars => HandlerInv'
<1> SUFFICES ASSUME HandlerInv, [StreamNext]_allVars PROVE HandlerInv'
  OBVIOUS
<1> USE DEF HandlerInv
<1>1. ASSUME UNCHANGED <<connection, stream, subscribers, joined>> PROVE HandlerInv'
  BY <1>1
<1>2. CASE Publishing
  BY <1>1, <1>2 DEF Publishing, Stamp, Schedule, Fanout, BindLoop, streamVars, joinVars
<1>3. ASSUME NEW q \in Queues, Connect(q) PROVE HandlerInv'
  BY <1>3, ConnectionAssumption DEF Connect, SubscribeAndReplay
<1>4. ASSUME NEW q \in Queues, Unsubscribe(q), HandlerEnds(q), connection # q PROVE HandlerInv'
  BY <1>4 DEF Unsubscribe, HandlerEnds
<1>5. ASSUME NEW q \in Queues, SendReplay(q) PROVE HandlerInv'
  <2>1. CASE connection = q
    BY <1>5, <2>1 DEF SendReplay, vars, joinVars
  <2>2. CASE connection # q
    BY <1>4, <1>5, <2>2 DEF SendReplay
  <2> QED BY <2>1, <2>2
<1>6. ASSUME NEW q \in Queues, SendEvent(q) PROVE HandlerInv'
  <2>1. CASE Get(q) /\ UNCHANGED <<connection, stream, page>>
    BY <1>1, <2>1 DEF Get, joinVars
  <2>2. CASE connection # q /\ Unsubscribe(q) /\ HandlerEnds(q)
    BY <1>4, <2>2
  <2> QED BY <1>6, <2>1, <2>2 DEF SendEvent
<1>7. CASE Receive
  BY <1>1, <1>7 DEF Receive, vars, joinVars
<1>8. CASE Disconnect
  BY <1>8, ConnectionAssumption DEF Disconnect, vars, joinVars
<1>9. CASE Restart
  BY <1>9, ConnectionAssumption DEF Restart
<1>10. CASE UNCHANGED allVars
  BY <1>1, <1>10 DEF allVars, streamVars, vars, joinVars
<1> QED BY <1>2, <1>3, <1>5, <1>6, <1>7, <1>8, <1>9, <1>10 DEF StreamNext

(* What the filter does to a page, whatever the message.                    *)
LEMMA HandleFacts ==
    ASSUME NEW p \in [applied : SUBSET (1..MaxEvents), appliedSeq : 0..MaxEvents, skipped : SUBSET (1..MaxEvents)],
           NEW seqs \in SUBSET (1..MaxEvents)
    PROVE  LET new == {n \in seqs : n > p.appliedSeq}
               h == Handle(p, seqs)
           IN  /\ h \in [applied : SUBSET (1..MaxEvents), appliedSeq : 0..MaxEvents,
                         skipped : SUBSET (1..MaxEvents)]
               /\ h.applied = p.applied \cup new
               /\ h.skipped = p.skipped \cup (seqs \ new)
               /\ h.appliedSeq \in new \cup {p.appliedSeq}
               /\ \A n \in new : n <= h.appliedSeq
<1> DEFINE new == {n \in seqs : n > p.appliedSeq}
           top == Max(new \cup {p.appliedSeq})
<1>1. MaxEvents \in Nat /\ p.appliedSeq \in 0..MaxEvents
  BY SizesAssumption
<1>2. new \cup {p.appliedSeq} \in SUBSET (0..MaxEvents) /\ new \cup {p.appliedSeq} # {}
  <2>1. new \subseteq seqs
    OBVIOUS
  <2>2. seqs \subseteq 0..MaxEvents
    BY <1>1
  <2> HIDE DEF new
  <2> QED BY <1>1, <2>1, <2>2
<1> HIDE DEF new
<1>3. top \in new \cup {p.appliedSeq} /\ \A n \in new \cup {p.appliedSeq} : n <= top
  BY <1>1, <1>2, MaxFacts
<1>4. Handle(p, seqs) = [p EXCEPT !.applied = p.applied \cup new, !.appliedSeq = top,
                                  !.skipped = p.skipped \cup (seqs \ new)]
  BY DEF Handle, new
<1> HIDE DEF top
<1>5. new \subseteq 1..MaxEvents
  BY DEF new
<1>6. top \in 0..MaxEvents
  BY <1>2, <1>3
<1>7. /\ p.applied \cup new \in SUBSET (1..MaxEvents)
      /\ p.skipped \cup (seqs \ new) \in SUBSET (1..MaxEvents)
  BY <1>5
<1>8. /\ Handle(p, seqs) \in [applied : SUBSET (1..MaxEvents), appliedSeq : 0..MaxEvents,
                              skipped : SUBSET (1..MaxEvents)]
      /\ Handle(p, seqs).applied = p.applied \cup new
      /\ Handle(p, seqs).skipped = p.skipped \cup (seqs \ new)
      /\ Handle(p, seqs).appliedSeq = top
  BY <1>4, <1>6, <1>7
<1> QED BY <1>3, <1>8 DEF new

LEMMA EmptyPageTypes ==
    EmptyPage \in [applied : SUBSET (1..MaxEvents), appliedSeq : 0..MaxEvents, skipped : SUBSET (1..MaxEvents)]
BY SizesAssumption DEF EmptyPage

(* What is stamped stays stamped, until a restart.                          *)
LEMMA LogGrows ==
    ASSUME TypeOK, [StreamNext]_allVars, ~Restart
    PROVE  Seqs \subseteq Seqs'
<1>1. log' = log \/ Len(log') = Len(log) + 1
  <2>1. ASSUME NEW p \in Producers, NEW type \in Types, NEW run \in Runs, Stamp(p, type, run)
        PROVE  Len(log') = Len(log) + 1
    BY <2>1, StampOrder
  <2>2. CASE Publishing
    BY <2>1, <2>2 DEF Publishing, Schedule, Fanout, BindLoop
  <2>3. ASSUME NEW q \in Queues, Connect(q) \/ SendReplay(q) \/ SendEvent(q) PROVE log' = log
    BY <2>3 DEF Connect, SendReplay, SendEvent, SubscribeAndReplay, Unsubscribe, Get, vars
  <2>4. CASE Receive \/ Disconnect \/ UNCHANGED allVars
    BY <2>4 DEF Receive, Disconnect, allVars, vars
  <2> QED BY <2>2, <2>3, <2>4 DEF StreamNext
<1>2. Len(log) \in Nat
  BY PathTypes
<1> QED BY <1>1, <1>2 DEF Seqs

LEMMA StampedBound ==
    ASSUME TypeOK
    PROVE  Seqs \subseteq 1..MaxEvents /\ \A q \in Queues : snapshot[q] \in SUBSET Seqs
BY PathTypes, SizesAssumption DEF TypeOK, Seqs

LEMMA WireStep ==
    TypeOK /\ HandlerInv /\ WireTypes /\ PageTypes /\ [StreamNext]_allVars => WireTypes' /\ PageTypes'
<1> SUFFICES ASSUME TypeOK, HandlerInv, WireTypes, PageTypes, [StreamNext]_allVars
             PROVE  WireTypes' /\ PageTypes'
  OBVIOUS
<1>1. CASE Restart
  BY <1>1 DEF Restart, WireTypes, PageTypes
<1>2. CASE ~Restart
  <2>1. Message \subseteq Message'
    BY <1>2, LogGrows DEF Message
  <2>2. wire \in Seq(Message)'
    BY <2>1, SeqMonotone DEF WireTypes
  <2>3. ASSUME NEW m \in Message, wire' = Append(wire, m), page' = page, connection' # NoConnection
        PROVE  WireTypes' /\ PageTypes'
    <3>1. wire' \in Seq(Message')
      BY <2>1, <2>2, <2>3, AppendFacts
    <3> QED BY <2>3, <3>1 DEF WireTypes, PageTypes
  <2>4. ASSUME wire' = wire \/ wire' = <<>>, connection' = connection \/ wire' = <<>>, page' = page
        PROVE  WireTypes' /\ PageTypes'
    <3>1. wire' \in Seq(Message')
      <4>1. <<>> \in Seq(Message')
        OBVIOUS
      <4> QED BY <2>2, <2>4, <4>1
    <3>2. connection' = NoConnection => wire' = <<>>
      BY <2>4 DEF WireTypes
    <3> QED BY <2>4, <3>1, <3>2 DEF WireTypes, PageTypes
  <2>5. CASE Publishing
    BY <2>4, <2>5 DEF Publishing, streamVars
  <2>6. ASSUME NEW q \in Queues, Connect(q) PROVE WireTypes' /\ PageTypes'
    BY <2>4, <2>6 DEF Connect
  <2>7. ASSUME NEW q \in Queues, SendReplay(q) PROVE WireTypes' /\ PageTypes'
    <3>1. CASE connection = q
      <4>1. [replay |-> TRUE, seqs |-> snapshot[q]] \in Message
        BY StampedBound DEF Message
      <4> QED BY <2>3, <2>7, <3>1, <4>1, ConnectionAssumption DEF SendReplay
    <3>2. CASE connection # q
      BY <2>4, <2>7, <3>2 DEF SendReplay, HandlerEnds
    <3> QED BY <3>1, <3>2
  <2>8. ASSUME NEW q \in Queues, SendEvent(q) PROVE WireTypes' /\ PageTypes'
    <3> DEFINE n == Head(queue[q])
    <3>1. CASE /\ Get(q)
               /\ connection = q \/ n <= LastSeq(q)
               /\ wire' = IF n <= LastSeq(q) THEN wire ELSE Append(wire, [replay |-> FALSE, seqs |-> {n}])
               /\ UNCHANGED <<connection, stream, page>>
      <4>1. queue[q] \in Seq(Seqs) /\ queue[q] # <<>>
        <5>1. queue \in [Queues -> Seq(Seqs)]
          BY DEF TypeOK
        <5> QED BY <3>1, <5>1 DEF Get
      <4>2. n \in Seqs
        <5>1. \A s \in Seq(Seqs) : s # <<>> => Head(s) \in Seqs
          BY TailFacts
        <5> QED BY <4>1, <5>1
      <4>3. [replay |-> FALSE, seqs |-> {n}] \in Message
        BY <4>2 DEF Message
      <4> HIDE DEF n
      <4>4. CASE n <= LastSeq(q)
        BY <2>4, <3>1, <4>4
      <4>5. CASE ~(n <= LastSeq(q))
        BY <2>3, <3>1, <4>3, <4>5, ConnectionAssumption
      <4> QED BY <4>4, <4>5
    <3>2. CASE HandlerEnds(q)
      BY <2>4, <3>2 DEF HandlerEnds
    <3> QED BY <2>8, <3>1, <3>2 DEF SendEvent
  <2>9. CASE Receive
    <3>1. wire # <<>> /\ wire' = Tail(wire) /\ connection' = connection
      BY <2>9 DEF Receive
    <3>2. wire' \in Seq(Message') /\ Head(wire) \in Message
      <4>1. Tail(wire) \in Seq(Message')
        BY <2>2, <3>1, TailFacts
      <4>2. Head(wire) \in Message
        BY <3>1, TailFacts DEF WireTypes
      <4> QED BY <3>1, <4>1, <4>2
    <3>3. connection' # NoConnection
      BY <3>1 DEF WireTypes
    <3> DEFINE p == IF Head(wire).replay THEN HardReset(page) ELSE page
    <3>4. p \in [applied : SUBSET (1..MaxEvents), appliedSeq : 0..MaxEvents, skipped : SUBSET (1..MaxEvents)]
      BY EmptyPageTypes DEF HardReset, PageTypes
    <3>5. Head(wire).seqs \in SUBSET (1..MaxEvents)
      BY <3>2, StampedBound DEF Message
    <3>6. page' = Handle(p, Head(wire).seqs)
      BY <2>9 DEF Receive
    <3> HIDE DEF p
    <3>7. PageTypes'
      BY <3>4, <3>5, <3>6, HandleFacts DEF PageTypes
    <3> QED BY <3>2, <3>3, <3>7 DEF WireTypes
  <2>10. CASE Disconnect
    BY <2>4, <2>10 DEF Disconnect
  <2>11. CASE UNCHANGED allVars
    BY <2>4, <2>11 DEF allVars, streamVars
  <2> QED BY <1>2, <2>5, <2>6, <2>7, <2>8, <2>9, <2>10, <2>11 DEF StreamNext
<1> QED BY <1>1, <1>2

LEMMA StreamInvariant == StreamSpec => []StreamInv
<1>1. StreamInit => StreamInv
  <2>1. StreamInit => HandlerInv
    BY ConnectionAssumption DEF StreamInit, Init, HandlerInv
  <2>2. StreamInit => WireTypes /\ PageTypes
    BY EmptyPageTypes DEF StreamInit, WireTypes, PageTypes
  <2> QED BY <2>1, <2>2 DEF StreamInv
<1>2. BusInv /\ StreamInv /\ [StreamNext]_allVars => StreamInv'
  BY HandlerStep, WireStep DEF StreamInv, BusInv
<1> QED BY <1>1, <1>2, BusInvariant, PTL DEF StreamSpec

(* Type correctness of the stream: a page shows numbers that can be         *)
(* stamped, the subscribers are exactly the queues whose handler runs, and  *)
(* only an open socket carries messages, whatever breaks and restarts.      *)
THEOREM StreamTypeCorrect == StreamSpec => []StreamTypeOK
<1>1. StreamInv => StreamTypeOK
  BY DEF StreamInv, HandlerInv, WireTypes, PageTypes, Message, StreamTypeOK
<1> QED BY <1>1, StreamInvariant, PTL

-----------------------------------------------------------------------------
(* What a tab shows, when one thread publishes.                             *)

(* The wire and the page after one more event was sent.                     *)
LEMMA SendLast ==
    ASSUME NEW M, NEW w \in Seq(M), NEW r \in Seq(Nat), NEW s, NEW n \in Nat,
           [replay |-> FALSE, seqs |-> {n}] \in M, IsLast(w, r, s)
    PROVE  IsLast(Append(w, [replay |-> FALSE, seqs |-> {n}]), Append(r, n), s)
<1> DEFINE m == [replay |-> FALSE, seqs |-> {n}]
           w2 == Append(w, m)
           r2 == Append(r, n)
<1>1. /\ Len(w) \in Nat /\ Len(w2) = Len(w) + 1
      /\ \A i \in 1..Len(w) : w2[i] = w[i]
      /\ w2[Len(w) + 1] = m
  BY AppendFacts
<1>2. /\ Len(r) \in Nat /\ Len(r2) = Len(r) + 1
      /\ \A i \in 1..Len(r) : r2[i] = r[i]
      /\ r2[Len(r) + 1] = n
  BY AppendFacts
<1> HIDE DEF w2, r2
<1>3. Len(w2) <= Len(r2) + 1
  BY <1>1, <1>2 DEF IsLast
<1>4. ASSUME NEW i \in 1..Len(w2)
      PROVE  w2[i] = IF Len(w2) = Len(r2) + 1 /\ i = 1
                       THEN [replay |-> TRUE, seqs |-> s]
                       ELSE [replay |-> FALSE, seqs |-> {r2[Len(r2) - Len(w2) + i]}]
  <2>1. i \in Nat /\ i >= 1 /\ i <= Len(w) + 1
    BY <1>1
  <2>2. CASE i = Len(w) + 1
    <3>1. ~(Len(w2) = Len(r2) + 1 /\ i = 1)
      BY <1>1, <1>2, <2>2
    <3>2. Len(r2) - Len(w2) + i = Len(r) + 1
      BY <1>1, <1>2, <2>2
    <3>3. w2[i] = m /\ r2[Len(r) + 1] = n
      BY <1>1, <1>2, <2>2
    <3> QED BY <3>1, <3>2, <3>3
  <2>3. CASE i <= Len(w)
    <3>1. w2[i] = w[i]
      BY <1>1, <2>1, <2>3
    <3>2. CASE Len(w) = Len(r) + 1 /\ i = 1
      BY <1>1, <1>2, <2>1, <2>3, <3>1, <3>2 DEF IsLast
    <3>3. CASE ~(Len(w) = Len(r) + 1 /\ i = 1)
      <4>1. w[i] = [replay |-> FALSE, seqs |-> {r[Len(r) - Len(w) + i]}]
        <5>1. i \in 1..Len(w)
          BY <1>1, <2>1, <2>3
        <5> QED BY <3>3, <5>1 DEF IsLast
      <4>2. Len(r2) - Len(w2) + i = Len(r) - Len(w) + i
        BY <1>1, <1>2, <2>1
      <4>3. Len(r) - Len(w) + i \in 1..Len(r)
        BY <1>1, <1>2, <2>1, <2>3, <3>3 DEF IsLast
      <4>4. r2[Len(r) - Len(w) + i] = r[Len(r) - Len(w) + i]
        BY <1>2, <4>3
      <4>5. ~(Len(w2) = Len(r2) + 1 /\ i = 1)
        BY <1>1, <1>2, <3>3
      <4> QED BY <3>1, <4>1, <4>2, <4>4, <4>5
    <3> QED BY <3>2, <3>3
  <2> QED BY <1>1, <2>1, <2>2, <2>3
<1>5. IsLast(w2, r2, s)
  BY <1>3, <1>4 DEF IsLast
<1> QED BY <1>5 DEF w2, r2

LEMMA SendRest ==
    ASSUME NEW M, NEW w \in Seq(M), NEW r \in Seq(Nat), NEW s, NEW n \in Nat, NEW m \in M, NEW p,
           IsRest(p, w, r, s)
    PROVE  IsRest(p, Append(w, m), Append(r, n), s)
<1> DEFINE w2 == Append(w, m)
           r2 == Append(r, n)
<1>1. Len(w) \in Nat /\ Len(w2) = Len(w) + 1
  BY AppendFacts
<1>2. /\ Len(r) \in Nat /\ Len(r2) = Len(r) + 1
      /\ \A i \in 1..Len(r) : r2[i] = r[i]
  BY AppendFacts
<1> HIDE DEF w2, r2
<1>3. Len(r2) - Len(w2) = Len(r) - Len(w) /\ (Len(w2) <= Len(r2) => Len(w) <= Len(r))
  BY <1>1, <1>2
<1>4. \A j \in 1..(Len(r) - Len(w)) : r2[j] = r[j]
  <2>1. \A j \in 1..(Len(r) - Len(w)) : j \in 1..Len(r)
    BY <1>1, <1>2
  <2> QED BY <1>2, <2>1
<1>5. {r2[j] : j \in 1..(Len(r2) - Len(w2))} = {r[j] : j \in 1..(Len(r) - Len(w))}
  BY <1>3, <1>4
<1>6. IsRest(p, w2, r2, s)
  BY <1>3, <1>5 DEF IsRest
<1> QED BY <1>6 DEF w2, r2

(* The head of the wire is the replay, or the next event the handler took;  *)
(* what remains is again the end of it.                                     *)
LEMMA ReceiveLast ==
    ASSUME NEW M, NEW w \in Seq(M), NEW r \in Seq(Nat), NEW s, w # <<>>, IsLast(w, r, s)
    PROVE  /\ IsLast(Tail(w), r, s)
           /\ Len(Tail(w)) = Len(w) - 1
           /\ IF Len(w) = Len(r) + 1 THEN Head(w) = [replay |-> TRUE, seqs |-> s]
              ELSE /\ Head(w) = [replay |-> FALSE, seqs |-> {r[Len(r) - Len(w) + 1]}]
                   /\ Len(w) <= Len(r)
<1> DEFINE w2 == Tail(w)
<1>1. /\ Len(w) \in Nat /\ Len(w) > 0 /\ Len(w2) = Len(w) - 1
      /\ \A i \in 1..(Len(w) - 1) : w2[i] = w[i + 1]
      /\ Head(w) = w[1]
  BY TailFacts
<1>2. Len(r) \in Nat /\ Len(w) <= Len(r) + 1
  BY DEF IsLast
<1> HIDE DEF w2
<1>3. ASSUME NEW i \in 1..Len(w2)
      PROVE  w2[i] = IF Len(w2) = Len(r) + 1 /\ i = 1
                       THEN [replay |-> TRUE, seqs |-> s]
                       ELSE [replay |-> FALSE, seqs |-> {r[Len(r) - Len(w2) + i]}]
  <2>1. i \in 1..(Len(w) - 1) /\ i + 1 \in 1..Len(w) /\ i + 1 # 1
    BY <1>1
  <2>2. w2[i] = w[i + 1]
    BY <1>1, <2>1
  <2>3. w[i + 1] = [replay |-> FALSE, seqs |-> {r[Len(r) - Len(w) + (i + 1)]}]
    BY <2>1 DEF IsLast
  <2>4. Len(r) - Len(w) + (i + 1) = Len(r) - Len(w2) + i /\ Len(w2) # Len(r) + 1
    BY <1>1, <1>2, <2>1
  <2> QED BY <2>2, <2>3, <2>4
<1>4. IsLast(w2, r, s)
  <2>1. Len(w2) <= Len(r) + 1
    BY <1>1, <1>2
  <2> QED BY <1>3, <2>1 DEF IsLast
<1>5. 1 \in 1..Len(w)
  BY <1>1
<1>6. CASE Len(w) = Len(r) + 1
  <2>1. Head(w) = [replay |-> TRUE, seqs |-> s]
    BY <1>1, <1>5, <1>6 DEF IsLast
  <2> QED BY <1>1, <1>4, <1>6, <2>1 DEF w2
<1>7. CASE Len(w) # Len(r) + 1
  <2>1. Head(w) = [replay |-> FALSE, seqs |-> {r[Len(r) - Len(w) + 1]}]
    BY <1>1, <1>5, <1>7 DEF IsLast
  <2>2. Len(w) <= Len(r)
    BY <1>1, <1>2, <1>7
  <2> QED BY <1>1, <1>4, <1>7, <2>1, <2>2 DEF w2
<1> QED BY <1>6, <1>7

(* A replay is shown as it is: nothing of it is ignored.                    *)
LEMMA ReplayShown ==
    ASSUME NEW seqs \in SUBSET (1..MaxEvents)
    PROVE  LET h == Handle(EmptyPage, seqs) IN
           h.applied = seqs /\ h.appliedSeq \in seqs \cup {0} /\ h.skipped = {}
<1>1. EmptyPage.applied = {} /\ EmptyPage.appliedSeq = 0 /\ EmptyPage.skipped = {}
  BY DEF EmptyPage
<1> DEFINE new == {n \in seqs : n > EmptyPage.appliedSeq}
<1>2. new = seqs
  <2>1. \A n \in seqs : n > 0
    BY SizesAssumption
  <2> QED BY <1>1, <2>1
<1>3. /\ Handle(EmptyPage, seqs).applied = EmptyPage.applied \cup new
      /\ Handle(EmptyPage, seqs).skipped = EmptyPage.skipped \cup (seqs \ new)
      /\ Handle(EmptyPage, seqs).appliedSeq \in new \cup {EmptyPage.appliedSeq}
  BY EmptyPageTypes, HandleFacts
<1> HIDE DEF new
<1> QED BY <1>1, <1>2, <1>3

(* An event above all the page shows is shown, and not ignored.             *)
LEMMA NextShown ==
    ASSUME NEW p \in [applied : SUBSET (1..MaxEvents), appliedSeq : 0..MaxEvents, skipped : SUBSET (1..MaxEvents)],
           p.appliedSeq \in p.applied \cup {0}, NEW n \in 1..MaxEvents, \A m \in p.applied : m < n
    PROVE  LET h == Handle(p, {n}) IN
           /\ h.applied = p.applied \cup {n}
           /\ h.appliedSeq \in h.applied \cup {0}
           /\ h.skipped = p.skipped
<1> DEFINE new == {x \in {n} : x > p.appliedSeq}
<1>1. n > p.appliedSeq
  BY SizesAssumption
<1>2. new = {n}
  BY <1>1
<1>3. {n} \in SUBSET (1..MaxEvents)
  OBVIOUS
<1>4. /\ Handle(p, {n}).applied = p.applied \cup new
      /\ Handle(p, {n}).skipped = p.skipped \cup ({n} \ new)
      /\ Handle(p, {n}).appliedSeq \in new \cup {p.appliedSeq}
  BY <1>3, HandleFacts
<1> HIDE DEF new
<1> QED BY <1>2, <1>4

(* With one thread, what reached a queue first was stamped first.           *)
LEMMA OneOrder ==
    ASSUME TypeOK, OneThread, NEW m \in Seqs, NEW n \in Seqs, Before(m, n)
    PROVE  m < n
<1>1. log \in Seq(Event) /\ m \in 1..Len(log) /\ n \in 1..Len(log)
  BY DEF TypeOK, Seqs
<1>2. log[m] \in Event /\ log[n] \in Event
  BY <1>1, ElementOf
<1>3. log[m].by = log[n].by
  BY <1>2 DEF Event, OneThread
<1> QED BY <1>3 DEF Before

LEMMA SettledMembers ==
    ASSUME TypeOK, NEW q \in Queues
    PROVE  /\ received[q] \in Seq(Nat) /\ received[q] \in Seq(Seqs)
           /\ \A j \in 1..Len(received[q]) : received[q][j] \in Settled(q) /\ received[q][j] \in Seqs
           /\ \A j \in 1..Len(queue[q]) : queue[q][j] \in Settled(q) /\ queue[q][j] \in Seqs
           /\ snapshot[q] \subseteq Seqs /\ cut[q] \in Nat
<1>1. /\ received[q] \in Seq(Seqs) /\ queue[q] \in Seq(Seqs) /\ snapshot[q] \subseteq Seqs
      /\ cut[q] \in Seqs \cup {0}
  BY DEF TypeOK
<1>2. Seqs \subseteq Nat /\ Len(received[q]) \in Nat /\ Len(queue[q]) \in Nat
  BY PathTypes DEF Seqs
<1>3. received[q] \in Seq(Nat)
  BY <1>1, <1>2, SeqMonotone
<1>4. DOMAIN received[q] = 1..Len(received[q]) /\ DOMAIN queue[q] = 1..Len(queue[q])
  BY <1>1
<1>5. /\ \A j \in 1..Len(received[q]) : received[q][j] \in Settled(q)
      /\ \A j \in 1..Len(queue[q]) : queue[q][j] \in Settled(q)
  BY <1>4 DEF Settled, ToSet
<1>6. /\ \A j \in 1..Len(received[q]) : received[q][j] \in Seqs
      /\ \A j \in 1..Len(queue[q]) : queue[q][j] \in Seqs
  BY PathTypes
<1>7. cut[q] \in Nat
  <2>1. 0 \in Nat
    OBVIOUS
  <2> QED BY <1>1, <1>2, <2>1, Zenon
<1>8. /\ \A j \in 1..Len(received[q]) : received[q][j] \in Settled(q) /\ received[q][j] \in Seqs
      /\ \A j \in 1..Len(queue[q]) : queue[q][j] \in Settled(q) /\ queue[q][j] \in Seqs
  BY <1>5, <1>6, Zenon
<1> HIDE DEF Settled
<1> QED BY <1>1, <1>3, <1>7, <1>8, Zenon

(* The handler's filter on last_seq lets every event of its queue through.  *)
LEMMA FilterPasses ==
    ASSUME TypeOK, LiveAfterCut, NEW q \in Queues, queue[q] # <<>>
    PROVE  Head(queue[q]) \in Seqs /\ ~(Head(queue[q]) <= LastSeq(q))
<1>1. queue[q] \in Seq(Seqs)
  BY DEF TypeOK
<1>2. Head(queue[q]) = queue[q][1] /\ 1 \in 1..Len(queue[q])
  <2>1. \A s \in Seq(Seqs) : s # <<>> => Head(s) = s[1] /\ Len(s) \in Nat /\ Len(s) > 0
    BY TailFacts
  <2> QED BY <1>1, <2>1
<1>3. Head(queue[q]) \in Settled(q) /\ Head(queue[q]) \in Seqs
  BY <1>2, SettledMembers
<1>4. Head(queue[q]) > cut[q]
  BY <1>3 DEF LiveAfterCut
<1>5. /\ MaxEvents \in Nat /\ snapshot[q] \cup {0} \in SUBSET (0..MaxEvents)
      /\ snapshot[q] \cup {0} # {}
  <2>1. Seqs \subseteq 1..MaxEvents /\ snapshot[q] \subseteq Seqs
    BY StampedBound
  <2>2. MaxEvents \in Nat
    BY SizesAssumption
  <2>3. 1..MaxEvents \subseteq 0..MaxEvents /\ 0 \in 0..MaxEvents
    BY <2>2
  <2> QED BY <2>1, <2>2, <2>3
<1>6. LastSeq(q) \in snapshot[q] \cup {0}
  BY <1>5, MaxFacts DEF LastSeq
<1>7. LastSeq(q) <= cut[q] /\ LastSeq(q) \in Nat /\ cut[q] \in Nat
  <2>1. \A m \in snapshot[q] \cup {0} : m <= cut[q]
    BY SettledMembers DEF LiveAfterCut
  <2> QED BY <1>5, <1>6, <2>1, SettledMembers
<1>8. Head(queue[q]) \in Nat
  BY <1>3 DEF Seqs
<1> QED BY <1>3, <1>4, <1>7, <1>8

LEMMA ReceiveOrdered ==
    ASSUME OneThread, TypeOK, OrderInv, LiveAfterCut, HandlerInv, WireTypes, PageTypes, OrderedInv, Receive
    PROVE  OrderedInv'
<1>1. /\ wire # <<>> /\ wire' = Tail(wire)
      /\ connection' = connection /\ stream' = stream
      /\ received' = received /\ snapshot' = snapshot
  BY DEF Receive, vars, feedVars, joinVars
<1>2. PICK q \in Queues : connection = q /\ stream[q] = "live"
  BY <1>1 DEF HandlerInv, WireTypes, OrderedInv, NothingSentYet
<1>3. IsLast(wire, received[q], snapshot[q]) /\ IsRest(page, wire, received[q], snapshot[q])
  BY <1>2 DEF OrderedInv, LiveInv
<1>4. wire \in Seq(Message) /\ received[q] \in Seq(Nat)
  BY SettledMembers DEF WireTypes
<1>5. /\ Len(wire) \in Nat /\ Len(wire) > 0 /\ Len(received[q]) \in Nat
  BY <1>1, <1>4, TailFacts
<1>6. /\ IsLast(Tail(wire), received[q], snapshot[q])
      /\ Len(Tail(wire)) = Len(wire) - 1
      /\ IF Len(wire) = Len(received[q]) + 1 THEN Head(wire) = [replay |-> TRUE, seqs |-> snapshot[q]]
         ELSE /\ Head(wire) = [replay |-> FALSE, seqs |-> {received[q][Len(received[q]) - Len(wire) + 1]}]
              /\ Len(wire) <= Len(received[q])
  BY <1>1, <1>3, <1>4, ReceiveLast
<1>7. page' = Handle(IF Head(wire).replay THEN HardReset(page) ELSE page, Head(wire).seqs)
  BY DEF Receive
<1>8. IsRest(page', Tail(wire), received[q], snapshot[q]) /\ page'.skipped = {}
  <2>1. CASE Len(wire) = Len(received[q]) + 1
    <3>1. page' = Handle(EmptyPage, snapshot[q])
      BY <1>6, <1>7, <2>1 DEF HardReset
    <3>2. snapshot[q] \in SUBSET (1..MaxEvents)
      BY StampedBound
    <3>3. page'.applied = snapshot[q] /\ page'.appliedSeq \in page'.applied \cup {0} /\ page'.skipped = {}
      BY <3>1, <3>2, ReplayShown
    <3>4. Len(received[q]) - Len(Tail(wire)) = 0
      BY <1>5, <1>6, <2>1
    <3>5. 1..0 = {}
      OBVIOUS
    <3>6. {received[q][j] : j \in 1..(Len(received[q]) - Len(Tail(wire)))} = {}
      BY <3>4, <3>5
    <3> QED BY <3>3, <3>6 DEF IsRest
  <2>2. CASE Len(wire) # Len(received[q]) + 1
    <3> DEFINE shown == Len(received[q]) - Len(wire)
               n == received[q][shown + 1]
    <3>1. shown \in Nat /\ shown + 1 \in 1..Len(received[q]) /\ Len(received[q]) - Len(Tail(wire)) = shown + 1
      <4>1. Len(wire) <= Len(received[q]) /\ Len(Tail(wire)) = Len(wire) - 1
        BY <1>6, <2>2, Zenon
      <4>2. shown \in Nat /\ shown + 1 \in 1..Len(received[q])
        BY <1>5, <4>1
      <4>3. Len(received[q]) - Len(Tail(wire)) = shown + 1
        <5>1. \A r, w \in Nat : r - (w - 1) = r - w + 1
          OBVIOUS
        <5> QED BY <1>5, <4>1, <5>1, Zenon
      <4> QED BY <4>2, <4>3
    <3>2. Head(wire).replay = FALSE /\ Head(wire).seqs = {n}
      BY <1>6, <2>2
    <3>3. page' = Handle(page, {n})
      <4> HIDE DEF n
      <4> QED BY <1>7, <3>2
    <3>4. n \in Settled(q) /\ n \in Seqs
      BY <3>1, SettledMembers
    <3>5. page.applied = snapshot[q] \cup {received[q][j] : j \in 1..shown}
          /\ page.appliedSeq \in page.applied \cup {0}
      BY <1>3, <1>6, <2>2 DEF IsRest
    <3>6. \A m \in snapshot[q] : m < n
      <4>1. n > cut[q] /\ \A m \in snapshot[q] : m <= cut[q]
        <5> HIDE DEF n
        <5> QED BY <3>4 DEF LiveAfterCut
      <4>2. n \in Nat /\ cut[q] \in Nat /\ \A m \in snapshot[q] : m \in Nat
        BY <3>4, SettledMembers DEF Seqs
      <4> HIDE DEF n
      <4> QED BY <4>1, <4>2
    <3>7. \A j \in 1..shown : received[q][j] < n
      <4> SUFFICES ASSUME NEW j \in 1..shown PROVE received[q][j] < n
        OBVIOUS
      <4>1. j \in 1..Len(received[q]) /\ j < shown + 1
        BY <3>1
      <4>2. Before(received[q][j], n)
        BY <3>1, <4>1 DEF OrderInv, TakenInOrder
      <4>3. received[q][j] \in Seqs
        BY <4>1, SettledMembers
      <4> QED BY <3>4, <4>2, <4>3, OneOrder
    <3>8. n \in 1..MaxEvents
      BY <3>4, StampedBound
    <3> HIDE DEF n
    <3>9. \A m \in page.applied : m < n
      BY <3>5, <3>6, <3>7
    <3>10. /\ page'.applied = page.applied \cup {n}
           /\ page'.appliedSeq \in page'.applied \cup {0}
           /\ page'.skipped = page.skipped
      BY <3>3, <3>5, <3>8, <3>9, NextShown DEF PageTypes
    <3>11. {received[q][j] : j \in 1..(shown + 1)} = {received[q][j] : j \in 1..shown} \cup {n}
      <4>1. 1..(shown + 1) = 1..shown \cup {shown + 1}
        BY <3>1
      <4> QED BY <4>1 DEF n
    <3>12. page'.applied = snapshot[q] \cup {received[q][j] : j \in 1..(shown + 1)}
      BY <3>5, <3>10, <3>11
    <3>13. page'.skipped = {}
      BY <3>10 DEF OrderedInv, NoneSkipped
    <3> QED BY <3>1, <3>10, <3>12, <3>13 DEF IsRest
  <2> QED BY <2>1, <2>2
<1>9. \A x \in Queues : connection' = x => x = q
  BY <1>1, <1>2
<1>10. LiveInv'
  BY <1>1, <1>6, <1>8, <1>9 DEF LiveInv
<1>11. NothingSentYet'
  BY <1>1, <1>2 DEF NothingSentYet
<1> QED BY <1>8, <1>10, <1>11 DEF OrderedInv, NoneSkipped

LEMMA SendReplayOrdered ==
    ASSUME NEW q \in Queues, TypeOK, HandlerInv, OrderedInv, SendReplay(q), connection = q
    PROVE  OrderedInv'
<1>1. /\ wire' = Append(wire, [replay |-> TRUE, seqs |-> snapshot[q]])
      /\ stream[q] = "accepted" /\ connection' = q /\ page' = page
      /\ received' = received /\ snapshot' = snapshot
  BY DEF SendReplay, vars, feedVars, joinVars
<1>2. wire = <<>> /\ received[q] = <<>>
  BY <1>1 DEF OrderedInv, NothingSentYet
<1>3. wire' = <<[replay |-> TRUE, seqs |-> snapshot[q]]>>
  BY <1>1, <1>2
<1>4. Len(wire') = 1 /\ wire'[1] = [replay |-> TRUE, seqs |-> snapshot[q]] /\ Len(received[q]) = 0
  BY <1>2, <1>3
<1>5. IsLast(wire', received[q], snapshot[q])
  BY <1>4 DEF IsLast
<1>6. IsRest(page, wire', received[q], snapshot[q])
  BY <1>4 DEF IsRest
<1>7. LiveInv'
  BY <1>1, <1>5, <1>6 DEF LiveInv
<1>8. NothingSentYet'
  <2>1. stream'[q] = "live"
    BY DEF SendReplay, HandlerInv
  <2> QED BY <1>1, <2>1 DEF NothingSentYet
<1> QED BY <1>1, <1>7, <1>8 DEF OrderedInv, NoneSkipped

LEMMA SendEventOrdered ==
    ASSUME NEW q \in Queues, TypeOK, LiveAfterCut, WireTypes, OrderedInv, stream[q] = "live",
           connection = q, SendEvent(q)
    PROVE  OrderedInv'
<1> DEFINE n == Head(queue[q])
           m == [replay |-> FALSE, seqs |-> {n}]
<1>1. /\ Get(q)
      /\ wire' = IF n <= LastSeq(q) THEN wire ELSE Append(wire, m)
      /\ UNCHANGED <<connection, stream, page>>
  BY DEF SendEvent
<1>2. queue[q] # <<>> /\ received'[q] = Append(received[q], n) /\ snapshot' = snapshot
  BY <1>1 DEF Get, joinVars, TypeOK
<1>3. n \in Seqs /\ ~(n <= LastSeq(q))
  BY <1>2, FilterPasses
<1>4. wire' = Append(wire, m)
  BY <1>1, <1>3
<1>5. /\ wire \in Seq(Message) /\ received[q] \in Seq(Nat)
      /\ IsLast(wire, received[q], snapshot[q]) /\ IsRest(page, wire, received[q], snapshot[q])
  BY SettledMembers DEF WireTypes, OrderedInv, LiveInv
<1>6. n \in Nat /\ m \in Message
  BY <1>3 DEF Seqs, Message
<1> HIDE DEF n
<1>7. /\ IsLast(Append(wire, m), Append(received[q], n), snapshot[q])
      /\ IsRest(page, Append(wire, m), Append(received[q], n), snapshot[q])
  BY <1>5, <1>6, SendLast, SendRest
<1>8. /\ IsLast(wire', received'[q], snapshot'[q])
      /\ IsRest(page', wire', received'[q], snapshot'[q])
  BY <1>1, <1>2, <1>4, <1>7
<1>9. LiveInv'
  BY <1>1, <1>8 DEF LiveInv
<1>10. NothingSentYet' /\ NoneSkipped'
  BY <1>1 DEF OrderedInv, NothingSentYet, NoneSkipped
<1> QED BY <1>9, <1>10 DEF OrderedInv

LEMMA OrderedStep ==
    ASSUME OneThread
    PROVE  BusInv /\ StreamInv /\ OrderedInv /\ [StreamNext]_allVars => OrderedInv'
<1> SUFFICES ASSUME BusInv, StreamInv, OrderedInv, [StreamNext]_allVars PROVE OrderedInv'
  OBVIOUS
<1> USE DEF BusInv, StreamInv
\* What another queue's handler does is nothing to the open socket.
<1>1. ASSUME connection' = connection, wire' = wire, page' = page,
             \A x \in Queues : connection = x =>
                 stream'[x] = stream[x] /\ received'[x] = received[x] /\ snapshot'[x] = snapshot[x]
      PROVE  OrderedInv'
  <2>1. NothingSentYet'
    BY <1>1 DEF OrderedInv, NothingSentYet
  <2>2. LiveInv'
    BY <1>1 DEF OrderedInv, LiveInv
  <2> QED BY <1>1, <2>1, <2>2 DEF OrderedInv, NoneSkipped
<1>2. ASSUME connection' = NoConnection, page' = page PROVE OrderedInv'
  BY <1>2, ConnectionAssumption DEF OrderedInv, NothingSentYet, LiveInv, NoneSkipped
<1>3. CASE Publishing
  <2>1. received' = received /\ snapshot' = snapshot
    BY <1>3 DEF Publishing, Stamp, Schedule, Fanout, BindLoop, feedVars, joinVars
  <2> QED BY <1>1, <1>3, <2>1 DEF Publishing, streamVars
<1>4. ASSUME NEW q \in Queues, Connect(q) PROVE OrderedInv'
  <2>1. /\ q \notin joined /\ received' = received /\ connection' = q /\ wire' = <<>> /\ page' = page
        /\ stream' = [stream EXCEPT ![q] = "accepted"]
    BY <1>4 DEF Connect, SubscribeAndReplay, feedVars
  <2>2. received[q] = <<>>
    <3>1. Settled(q) = {}
      BY <2>1 DEF LiveAfterCut
    <3>2. received[q] \in Seq(Seqs) /\ Len(received[q]) \in Nat
      BY PathTypes DEF TypeOK
    <3>3. 1 \notin 1..Len(received[q])
      BY <3>1, SettledMembers
    <3> QED BY <3>2, <3>3
  <2>3. stream'[q] = "accepted"
    BY <2>1 DEF HandlerInv
  <2>4. NothingSentYet' /\ LiveInv'
    BY <2>1, <2>2, <2>3 DEF NothingSentYet, LiveInv
  <2> QED BY <2>1, <2>4 DEF OrderedInv, NoneSkipped
<1>5. ASSUME NEW q \in Queues, Unsubscribe(q), HandlerEnds(q), connection # q PROVE OrderedInv'
  <2>1. /\ connection' = connection /\ wire' = wire /\ page' = page
        /\ received' = received /\ snapshot' = snapshot
        /\ \A x \in Queues : x # q => stream'[x] = stream[x]
    BY <1>5 DEF Unsubscribe, HandlerEnds, feedVars, HandlerInv
  <2> QED BY <1>1, <1>5, <2>1
<1>6. ASSUME NEW q \in Queues, SendReplay(q) PROVE OrderedInv'
  <2>1. CASE connection = q
    BY <1>6, <2>1, SendReplayOrdered
  <2>2. CASE connection # q
    BY <1>5, <1>6, <2>2 DEF SendReplay
  <2> QED BY <2>1, <2>2
<1>7. ASSUME NEW q \in Queues, SendEvent(q) PROVE OrderedInv'
  <2>1. CASE connection = q
    BY <1>7, <2>1, SendEventOrdered DEF SendEvent
  <2>2. CASE connection # q /\ Unsubscribe(q) /\ HandlerEnds(q)
    BY <1>5, <2>2
  <2>3. CASE connection # q /\ Get(q) /\ Head(queue[q]) <= LastSeq(q)
    <3>1. queue[q] # <<>>
      BY <2>3 DEF Get
    <3> QED BY <2>3, <3>1, FilterPasses
  <2> QED BY <1>7, <2>1, <2>2, <2>3 DEF SendEvent
<1>8. CASE Receive
  BY <1>8, ReceiveOrdered
<1>9. CASE Disconnect
  BY <1>2, <1>9 DEF Disconnect
<1>10. CASE Restart
  BY <1>2, <1>10 DEF Restart
<1>11. CASE UNCHANGED allVars
  BY <1>1, <1>11 DEF allVars, streamVars, vars, feedVars, joinVars
<1> QED BY <1>3, <1>4, <1>6, <1>7, <1>8, <1>9, <1>10, <1>11 DEF StreamNext

LEMMA OrderedInvariant ==
    ASSUME OneThread
    PROVE  StreamSpec => []OrderedInv
<1>1. StreamInit => OrderedInv
  <2> SUFFICES ASSUME StreamInit PROVE OrderedInv
    OBVIOUS
  <2>1. NothingSentYet /\ LiveInv
    BY ConnectionAssumption DEF StreamInit, NothingSentYet, LiveInv
  <2>2. NoneSkipped
    BY DEF StreamInit, EmptyPage, NoneSkipped
  <2> QED BY <2>1, <2>2 DEF OrderedInv
<1>2. BusInv /\ StreamInv /\ OrderedInv /\ [StreamNext]_allVars => OrderedInv'
  BY OrderedStep
<1> QED BY <1>1, <1>2, BusInvariant, StreamInvariant, PTL DEF StreamSpec

(* With one thread publishing, the tab's filter drops nothing it does not   *)
(* already show: it never drops anything, across any number of reconnects,  *)
(* overflowing queues and restarts of the program.                          *)
THEOREM DropsCorrect ==
    ASSUME OneThread
    PROVE  StreamSpec => []DropsOnlyDuplicates
<1>1. OrderedInv => DropsOnlyDuplicates
  BY DEF OrderedInv, NoneSkipped, DropsOnlyDuplicates
<1> QED BY <1>1, OrderedInvariant, PTL

(* And once nothing is on its way, the tab shows exactly its replay and     *)
(* every event stamped since, but those its full queue dropped.             *)
THEOREM CaughtUpCorrect ==
    ASSUME OneThread
    PROVE  StreamSpec => []CaughtUp
<1>1. BusInv /\ LoopLives /\ StreamInv /\ OrderedInv => CaughtUp
  <2> SUFFICES ASSUME BusInv, LoopLives, StreamInv, OrderedInv, NEW q \in Queues, Quiet(q)
               PROVE  page.applied = (snapshot[q] \cup (cut[q] + 1)..Len(log)) \ overflow[q]
    BY DEF CaughtUp
  <2> USE DEF BusInv, StreamInv
  <2>1. connection = q /\ stream[q] = "live" /\ wire = <<>> /\ Due(q) = {}
    BY DEF Quiet
  <2>2. IsRest(page, wire, received[q], snapshot[q])
    BY <2>1 DEF OrderedInv, LiveInv
  <2>3. /\ received[q] \in Seq(Seqs) /\ snapshot[q] \subseteq Seqs /\ cut[q] \in Nat
        /\ Len(received[q]) \in Nat /\ Len(log) \in Nat
    BY SettledMembers, PathTypes
  <2>4. page.applied = snapshot[q] \cup ToSet(received[q])
    <3>1. Len(wire) = 0 /\ Len(received[q]) - 0 = Len(received[q])
      BY <2>1, <2>3
    <3>2. page.applied = snapshot[q] \cup {received[q][j] : j \in 1..Len(received[q])}
      BY <2>2, <2>3, <3>1 DEF IsRest
    <3>3. DOMAIN received[q] = 1..Len(received[q])
      BY <2>3
    <3> QED BY <3>2, <3>3 DEF ToSet
  <2>5. q \in subscribers /\ loop = "open"
    <3>1. q \in subscribers /\ q \in joined
      BY <2>1 DEF HandlerInv
    <3> QED BY <3>1 DEF LoopLives, UnboundUnheard, TypeOK
  <2>6. (cut[q] + 1)..Len(log) \subseteq ToSet(received[q]) \cup overflow[q]
    BY <2>1, <2>5 DEF NothingLostAtConnect
  <2>7. ToSet(received[q]) \cup overflow[q] \subseteq (cut[q] + 1)..Len(log)
    <3>1. ToSet(received[q]) \cup overflow[q] \subseteq Settled(q)
      BY DEF Settled
    <3>2. \A m \in Settled(q) : m > cut[q] /\ m \in 1..Len(log)
      BY PathTypes DEF LiveAfterCut, Seqs
    <3>3. \A m \in 1..Len(log) : m > cut[q] => m \in (cut[q] + 1)..Len(log)
      BY <2>3
    <3> QED BY <3>1, <3>2, <3>3
  <2>8. ToSet(received[q]) \cap overflow[q] = {}
    BY DEF OrderInv, TakenOrDropped
  <2>9. snapshot[q] \cap overflow[q] = {}
    <3>1. \A m \in snapshot[q] : m <= cut[q] /\ m \in Nat
      BY <2>3 DEF LiveAfterCut, Seqs
    <3>2. \A m \in overflow[q] : m > cut[q]
      BY DEF LiveAfterCut, Settled
    <3> QED BY <2>3, <3>1, <3>2
  <2> QED BY <2>4, <2>6, <2>7, <2>8, <2>9
<1> QED BY <1>1, BusInvariant, StreamInvariant, OrderedInvariant, PTL

=============================================================================
