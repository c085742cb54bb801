--------------------------- MODULE EventBusProofs ---------------------------
(***************************************************************************)
(* Proofs about the bus for any number of threads, dashboards, runs and    *)
(* events, and any buffer and queue size.                                  *)
(***************************************************************************)
EXTENDS EventBus, SequenceTheorems, FiniteSetTheorems, TLAPS

-----------------------------------------------------------------------------
(* Sequences.                                                              *)

LEMMA SeqMonotone ==
    ASSUME NEW S, NEW T, S \subseteq T, NEW s \in Seq(S)
    PROVE  s \in Seq(T)
    OBVIOUS

LEMMA ElementOf ==
    ASSUME NEW S, NEW s \in Seq(S), NEW i \in 1..Len(s)
    PROVE  s[i] \in S
    OBVIOUS

LEMMA AppendFacts ==
    ASSUME NEW S, NEW s \in Seq(S), NEW e \in S
    PROVE  /\ Append(s, e) \in Seq(S)
           /\ Len(Append(s, e)) = Len(s) + 1
           /\ \A i \in 1..Len(s) : Append(s, e)[i] = s[i]
           /\ Append(s, e)[Len(s) + 1] = e
    OBVIOUS

LEMMA TailFacts ==
    ASSUME NEW S, NEW s \in Seq(S), s # <<>>
    PROVE  /\ Tail(s) \in Seq(S)
           /\ Len(s) \in Nat /\ Len(s) > 0
           /\ Len(Tail(s)) = Len(s) - 1
           /\ \A i \in 1..(Len(s) - 1) : Tail(s)[i] = s[i + 1]
           /\ Head(s) = s[1]
           /\ Head(s) \in S
    OBVIOUS

LEMMA RememberFacts ==
    ASSUME NEW S, NEW s \in Seq(S), NEW n \in S, Len(s) \leq BufferSize
    PROVE  /\ Remember(s, n) \in Seq(S)
           /\ Len(Remember(s, n)) \leq BufferSize
    BY SizesAssumption DEF Remember

(* A full queue shifts by one (d = 1) and loses its first entry; either    *)
(* way the new event becomes the last entry.                               *)
LEMMA OfferFacts ==
    ASSUME NEW S, NEW s \in Seq(S), NEW n \in S, Len(s) \leq QueueSize
    PROVE  /\ Offer(s, n) \in Seq(S)
           /\ Len(Offer(s, n)) \leq QueueSize
           /\ \E d \in {0, 1} :
                /\ Len(s) \geq d
                /\ Len(Offer(s, n)) = Len(s) + 1 - d
                /\ \A i \in 1..(Len(s) - d) : Offer(s, n)[i] = s[i + d]
                /\ Offer(s, n)[Len(s) + 1 - d] = n
                /\ Dropped(s) = IF d = 0 THEN {} ELSE {s[1]}
<1>1. CASE Len(s) < QueueSize
  <2>1. Offer(s, n) = Append(s, n) /\ Dropped(s) = {}
    BY <1>1 DEF Offer, Dropped
  <2>2. Len(s) \in Nat
    OBVIOUS
  <2> QED BY <1>1, <2>1, <2>2, AppendFacts, SizesAssumption
<1>2. CASE ~(Len(s) < QueueSize)
  <2>1. Offer(s, n) = Append(Tail(s), n) /\ Dropped(s) = {Head(s)}
    BY <1>2 DEF Offer, Dropped
  <2>2. s # <<>> /\ Len(s) \in Nat
    BY <1>2, SizesAssumption
  <2>3. Tail(s) \in Seq(S) /\ Len(Tail(s)) = Len(s) - 1 /\ Head(s) = s[1] /\ Head(s) \in S
        /\ \A i \in 1..(Len(s) - 1) : Tail(s)[i] = s[i + 1]
    BY <2>2, TailFacts
  <2>4. Append(Tail(s), n) \in Seq(S) /\ Len(Append(Tail(s), n)) = Len(s)
        /\ (\A i \in 1..(Len(s) - 1) : Append(Tail(s), n)[i] = Tail(s)[i])
        /\ Append(Tail(s), n)[Len(s)] = n
    BY <2>2, <2>3
  <2>5. \A i \in 1..(Len(s) - 1) : Offer(s, n)[i] = s[i + 1]
    BY <2>1, <2>3, <2>4
  <2>6. /\ Len(s) \geq 1
        /\ Len(Offer(s, n)) = Len(s) + 1 - 1
        /\ \A i \in 1..(Len(s) - 1) : Offer(s, n)[i] = s[i + 1]
        /\ Offer(s, n)[Len(s) + 1 - 1] = n
        /\ Dropped(s) = IF 1 = 0 THEN {} ELSE {s[1]}
    BY <1>2, <2>1, <2>2, <2>3, <2>4, <2>5, SizesAssumption
  <2>7. Offer(s, n) \in Seq(S) /\ Len(Offer(s, n)) \leq QueueSize
    BY <1>2, <2>1, <2>2, <2>3, <2>4, SizesAssumption
  <2>8. 1 \in {0, 1}
    OBVIOUS
  <2> QED BY <2>6, <2>7, <2>8, Zenon
<1> QED BY <1>1, <1>2

-----------------------------------------------------------------------------
(* Type correctness.                                                       *)

(* The part of TypeOK that does not mention what a stamp changes, stated   *)
(* for a log that may have grown.                                          *)
LEMMA StampTypes ==
    ASSUME TypeOK, NEW p \in Producers, NEW type \in Types, NEW run \in Runs,
           Stamp(p, type, run)
    PROVE  TypeOK'
<1> DEFINE n == Len(log) + 1
<1>1. /\ log' \in Seq(Event) /\ Len(log') = n /\ n \leq MaxEvents
      /\ Len(log) \in Nat /\ n \in Nat
  BY SizesAssumption DEF Stamp, TypeOK, Event
<1>2. Seqs \subseteq Seqs' /\ n \in Seqs'
  BY <1>1 DEF Seqs
<1>3. buffer' \in Seq(Seqs') /\ Len(buffer') \leq BufferSize
  <2>1. buffer \in Seq(Seqs') /\ Len(buffer) \leq BufferSize
    BY <1>2, SeqMonotone DEF TypeOK
  <2>2. buffer' = buffer \/ buffer' = Remember(buffer, n)
    BY DEF Stamp
  <2> QED BY <1>2, <2>1, <2>2, RememberFacts
<1>4. topology' \in [Runs -> Seqs' \cup {0}]
  BY <1>1, <1>2 DEF Stamp, TypeOK, replayVars
<1>5. publishing' \in [Producers -> Pending' \cup {Idle}]
  <2>1. Audience \subseteq Queues
    BY DEF TypeOK, Audience
  <2>2. Holding(n, jsonl # NoPath, Audience) \in Pending' \cup {Idle}
    BY <1>2, <2>1 DEF Holding, Pending
  <2>3. publishing \in [Producers -> Pending' \cup {Idle}]
    BY <1>2 DEF TypeOK, Pending
  <2> QED BY <2>2, <2>3 DEF Stamp
<1>6. ready' \in Seq([seq : Seqs', to : SUBSET Queues])
  <2>1. [seq : Seqs, to : SUBSET Queues] \subseteq [seq : Seqs', to : SUBSET Queues]
    BY <1>2
  <2> QED BY <2>1, SeqMonotone DEF Stamp, TypeOK
<1>7. /\ queue' \in [Queues -> Seq(Seqs')]
      /\ \A q \in Queues : Len(queue'[q]) \leq QueueSize
      /\ received' \in [Queues -> Seq(Seqs')]
  <2>1. \A q \in Queues : queue[q] \in Seq(Seqs') /\ received[q] \in Seq(Seqs')
    BY <1>2, SeqMonotone DEF TypeOK
  <2> QED BY <2>1 DEF Stamp, TypeOK, feedVars
<1>8. overflow' \in [Queues -> SUBSET Seqs'] /\ snapshot' \in [Queues -> SUBSET Seqs']
  BY <1>2 DEF Stamp, TypeOK, feedVars, joinVars
<1>9. recordQ' \in Seq(Seqs') /\ tape' \in Seq(Seqs' \cup {Torn})
  <2>1. Seqs \cup {Torn} \subseteq Seqs' \cup {Torn}
    BY <1>2
  <2> QED BY <1>2, <2>1, SeqMonotone DEF Stamp, TypeOK, tapeVars
<1>10. /\ cleared' \in Seqs' \cup {0} /\ recordedFrom' \in Seqs' \cup {0}
       /\ cut' \in [Queues -> Seqs' \cup {0}] /\ unwritten' \subseteq Seqs'
  BY <1>2 DEF Stamp, TypeOK, joinVars, tapeVars
<1>11. /\ loop' \in {"unbound", "open", "closed"}
       /\ subscribers' \subseteq joined' /\ joined' \subseteq Queues
       /\ jsonl' \in Paths \cup {NoPath}
  BY DEF Stamp, TypeOK, joinVars, tapeVars
<1> QED
  BY <1>1, <1>3, <1>4, <1>5, <1>6, <1>7, <1>8, <1>9, <1>10, <1>11 DEF TypeOK

LEMMA FanoutTypes ==
    ASSUME TypeOK, Fanout
    PROVE  TypeOK'
<1>1. Seqs' = Seqs
  BY DEF Fanout, Seqs
<1>2. /\ Head(ready) \in [seq : Seqs, to : SUBSET Queues]
      /\ ready' \in Seq([seq : Seqs, to : SUBSET Queues])
  BY TailFacts DEF Fanout, TypeOK
<1>3. \A q \in Queues : /\ queue'[q] \in Seq(Seqs) /\ Len(queue'[q]) \leq QueueSize
                        /\ overflow'[q] \subseteq Seqs
  <2> TAKE q \in Queues
  <2>1. queue[q] \in Seq(Seqs) /\ Len(queue[q]) \leq QueueSize /\ overflow[q] \subseteq Seqs
    BY DEF TypeOK
  <2>2. Offer(queue[q], Head(ready).seq) \in Seq(Seqs)
        /\ Len(Offer(queue[q], Head(ready).seq)) \leq QueueSize
    BY <1>2, <2>1, OfferFacts
  <2>3. Dropped(queue[q]) \subseteq Seqs
    BY <2>1, SizesAssumption DEF Dropped
  <2> QED BY <2>1, <2>2, <2>3 DEF Fanout
<1>4. queue' \in [Queues -> Seq(Seqs)] /\ overflow' \in [Queues -> SUBSET Seqs]
  BY <1>3 DEF Fanout
<1> QED
  BY <1>1, <1>2, <1>3, <1>4
  DEF TypeOK, Fanout, Pending, replayVars, joinVars, tapeVars

LEMMA TypeStep ==
    ASSUME TypeOK, [Next]_vars
    PROVE  TypeOK'
<1> USE DEF replayVars, feedVars, joinVars, tapeVars
<1>1. ASSUME NEW p \in Producers, NEW type \in Types, NEW run \in Runs, Stamp(p, type, run)
      PROVE  TypeOK'
  BY <1>1, StampTypes
<1>2. ASSUME NEW p \in Producers, PutRecord(p) PROVE TypeOK'
  <2>1. Seqs' = Seqs /\ Pending' = Pending
    BY <1>2 DEF PutRecord, Seqs, Pending
  <2>2. publishing[p] \in Pending
    BY <1>2 DEF PutRecord, TypeOK, Idle
  <2>3. recordQ' \in Seq(Seqs)
    BY <1>2, <2>2 DEF PutRecord, TypeOK, Pending
  <2>4. publishing' \in [Producers -> Pending \cup {Idle}]
    BY <1>2, <2>2 DEF PutRecord, TypeOK, Pending, Holding
  <2> QED BY <1>2, <2>1, <2>3, <2>4 DEF PutRecord, TypeOK
<1>3. ASSUME NEW p \in Producers, Schedule(p) PROVE TypeOK'
  <2>1. Seqs' = Seqs /\ Pending' = Pending
    BY <1>3 DEF Schedule, Seqs, Pending
  <2>2. publishing[p] \in Pending
    BY <1>3 DEF Schedule, TypeOK, Idle
  <2>3. ready' \in Seq([seq : Seqs, to : SUBSET Queues])
    <3>1. [seq |-> publishing[p].seq, to |-> publishing[p].to] \in [seq : Seqs, to : SUBSET Queues]
      BY <2>2 DEF Pending
    <3>2. ready \in Seq([seq : Seqs, to : SUBSET Queues])
      BY DEF TypeOK
    <3> QED BY <1>3, <3>1, <3>2, AppendFacts DEF Schedule
  <2>4. publishing' \in [Producers -> Pending \cup {Idle}]
    BY <1>3 DEF Schedule, TypeOK
  <2> QED BY <1>3, <2>1, <2>3, <2>4 DEF Schedule, TypeOK
<1>4. CASE Fanout
  BY <1>4, FanoutTypes
<1>5. ASSUME NEW q \in Queues, SubscribeAndReplay(q) PROVE TypeOK'
  <2>1. Seqs' = Seqs /\ Pending' = Pending
    BY <1>5 DEF SubscribeAndReplay, Seqs, Pending
  <2>2. Replay \subseteq Seqs
    BY DEF Replay, ToSet, TypeOK
  <2>3. Len(log) \in Seqs \cup {0}
    BY DEF Seqs, TypeOK
  <2>4. cut' \in [Queues -> Seqs \cup {0}] /\ snapshot' \in [Queues -> SUBSET Seqs]
    BY <1>5, <2>2, <2>3 DEF SubscribeAndReplay, TypeOK
  <2> QED BY <1>5, <2>1, <2>4 DEF SubscribeAndReplay, TypeOK
<1>6. ASSUME NEW q \in Queues, Get(q) PROVE TypeOK'
  <2>1. Seqs' = Seqs /\ Pending' = Pending
    BY <1>6 DEF Get, Seqs, Pending
  <2>2. /\ queue[q] \in Seq(Seqs) /\ received[q] \in Seq(Seqs)
        /\ queue[q] # <<>> /\ Len(queue[q]) \leq QueueSize
    BY <1>6 DEF Get, TypeOK
  <2>3. /\ Tail(queue[q]) \in Seq(Seqs) /\ Len(Tail(queue[q])) \leq QueueSize
        /\ Append(received[q], Head(queue[q])) \in Seq(Seqs)
    BY <2>2, TailFacts, AppendFacts, SizesAssumption
  <2>4. /\ queue' \in [Queues -> Seq(Seqs)] /\ received' \in [Queues -> Seq(Seqs)]
        /\ \A x \in Queues : Len(queue'[x]) \leq QueueSize
    BY <1>6, <2>3 DEF Get, TypeOK
  <2> QED BY <1>6, <2>1, <2>4 DEF Get, TypeOK
<1>7. ASSUME NEW q \in Queues, Unsubscribe(q) PROVE TypeOK'
  BY <1>7 DEF Unsubscribe, TypeOK, Seqs, Pending
<1>8. CASE Clear
  <2>1. Seqs' = Seqs /\ Pending' = Pending /\ Len(log) \in Seqs \cup {0}
    BY <1>8 DEF Clear, Seqs, Pending, TypeOK
  <2>2. buffer' \in Seq(Seqs) /\ Len(buffer') \leq BufferSize
    BY <1>8, SizesAssumption DEF Clear
  <2> QED BY <1>8, <2>1, <2>2 DEF Clear, TypeOK
<1>9. CASE BindLoop
  BY <1>9 DEF BindLoop, TypeOK, Seqs, Pending
<1>10. CASE CloseLoop
  <2>1. ready' \in Seq([seq : Seqs, to : SUBSET Queues])
    BY <1>10 DEF CloseLoop
  <2> QED BY <1>10, <2>1 DEF CloseLoop, TypeOK, Seqs, Pending
<1>11. ASSUME NEW path \in Paths, SetJsonl(path) PROVE TypeOK'
  <2>1. Seqs' = Seqs /\ Pending' = Pending /\ Len(log) \in Seqs \cup {0}
    BY <1>11 DEF SetJsonl, Seqs, Pending, TypeOK
  <2>2. tape' \in Seq(Seqs \cup {Torn})
    <3>1. <<>> \in Seq(Seqs \cup {Torn}) /\ Append(<<>>, Torn) \in Seq(Seqs \cup {Torn})
      BY AppendFacts
    <3>2. <<Torn>> = Append(<<>>, Torn)
      OBVIOUS
    <3> QED BY <1>11, <3>1, <3>2 DEF SetJsonl
  <2> QED BY <1>11, <2>1, <2>2 DEF SetJsonl, TypeOK
<1>12. CASE WriteRecord
  <2>1. Seqs' = Seqs /\ Pending' = Pending
    BY <1>12 DEF WriteRecord, Seqs, Pending
  <2>2. Tail(recordQ) \in Seq(Seqs) /\ Head(recordQ) \in Seqs
    BY <1>12, TailFacts DEF WriteRecord, TypeOK
  <2>3. tape' \in Seq(Seqs \cup {Torn}) /\ unwritten' \subseteq Seqs
    <3>1. tape \in Seq(Seqs \cup {Torn}) /\ unwritten \subseteq Seqs
      BY DEF TypeOK
    <3>2. Append(tape, Head(recordQ)) \in Seq(Seqs \cup {Torn})
      BY <2>2, <3>1, AppendFacts
    <3>3. Append(tape, Torn) \in Seq(Seqs \cup {Torn})
      BY <3>1, AppendFacts
    <3> QED BY <1>12, <2>2, <3>1, <3>2, <3>3 DEF WriteRecord
  <2> QED BY <1>12, <2>1, <2>2, <2>3 DEF WriteRecord, TypeOK
<1>13. CASE UNCHANGED vars
  BY <1>13 DEF vars, TypeOK, Seqs, Pending
<1> QED
  BY <1>1, <1>2, <1>3, <1>4, <1>5, <1>6, <1>7, <1>8, <1>9, <1>10, <1>11, <1>12, <1>13
  DEF Next

(* Every state of the bus has its type: in particular no queue and no      *)
(* replay buffer outgrows its size, and every number is one stamped.       *)
THEOREM TypeCorrect == Spec => []TypeOK
<1>1. Init => TypeOK
  BY SizesAssumption DEF Init, TypeOK, Seqs, Event, Pending
<1>2. TypeOK /\ [Next]_vars => TypeOK'
  BY TypeStep
<1> QED BY <1>1, <1>2, PTL DEF Spec

-----------------------------------------------------------------------------
(* The path of an event to a consumer.                                     *)
(*                                                                         *)
(* ProducerOrder is not inductive by itself: it forgets that a publisher   *)
(* holds an event of its own, and what became of the events a full queue   *)
(* dropped.  PathInv orders every place an event can be in against every   *)
(* later one.                                                              *)

Held(p) == publishing[p].to # {}
Settled(q) == ToSet(received[q]) \cup ToSet(queue[q]) \cup overflow[q]
Gone(q) == ToSet(received[q]) \cup overflow[q]

\* A publisher holds an event it stamped itself, later than all it scheduled.
HeldIsOwn == \A p \in Producers : Held(p) => log[publishing[p].seq].by = p
ReadyInOrder ==
    \A i, j \in 1..Len(ready) : i < j => Before(ready[i].seq, ready[j].seq)
ReadyBeforeHeld ==
    \A i \in 1..Len(ready), p \in Producers :
        Held(p) => Before(ready[i].seq, publishing[p].seq)

\* What reached a queue precedes what is scheduled, which precedes what is held.
SettledBeforeReady ==
    \A q \in Queues : \A m \in Settled(q), i \in 1..Len(ready) : Before(m, ready[i].seq)
SettledBeforeHeld ==
    \A q \in Queues : \A m \in Settled(q), p \in Producers :
        Held(p) => Before(m, publishing[p].seq)

\* What left a queue precedes what is in it.
GoneBeforeQueued ==
    \A q \in Queues : \A m \in Gone(q), i \in 1..Len(queue[q]) : Before(m, queue[q][i])
QueueInOrder ==
    \A q \in Queues : \A i, j \in 1..Len(queue[q]) : i < j => Before(queue[q][i], queue[q][j])
TakenInOrder ==
    \A q \in Queues : \A i, j \in 1..Len(received[q]) :
        i < j => Before(received[q][i], received[q][j])
TakenOrDropped == \A q \in Queues : ToSet(received[q]) \cap overflow[q] = {}

OrderInv ==
    /\ HeldIsOwn /\ ReadyInOrder /\ ReadyBeforeHeld
    /\ SettledBeforeReady /\ SettledBeforeHeld
    /\ GoneBeforeQueued /\ QueueInOrder /\ TakenInOrder /\ TakenOrDropped

\* Only what was stamped after a queue registered is ever on its way to it.
LiveAfterCut ==
    \A q \in Queues :
        /\ q \notin joined => Settled(q) = {}
        /\ \A m \in Settled(q) : m > cut[q]
        /\ \A i \in 1..Len(ready) : q \in ready[i].to => q \in joined /\ ready[i].seq > cut[q]
        /\ \A p \in Producers : q \in publishing[p].to => q \in joined /\ publishing[p].seq > cut[q]
        /\ \A m \in snapshot[q] : m \leq cut[q]

UnboundUnheard == loop = "unbound" => joined = {}

(* Everything on the path is a number that was stamped.                    *)
LEMMA PathTypes ==
    ASSUME TypeOK
    PROVE  /\ Len(log) \in Nat /\ Len(ready) \in Nat
           /\ \A i \in 1..Len(ready) : ready[i].seq \in Seqs /\ ready[i].to \subseteq Queues
           /\ \A p \in Producers : Held(p) => publishing[p].seq \in Seqs
           /\ \A q \in Queues :
                /\ Len(queue[q]) \in Nat /\ Len(received[q]) \in Nat
                /\ \A i \in 1..Len(queue[q]) : queue[q][i] \in Seqs
                /\ \A i \in 1..Len(received[q]) : received[q][i] \in Seqs
                /\ Settled(q) \subseteq Seqs
<1>1. /\ Len(log) \in Nat /\ Len(ready) \in Nat
      /\ \A i \in 1..Len(ready) : ready[i].seq \in Seqs /\ ready[i].to \subseteq Queues
  <2>1. log \in Seq(Event) /\ ready \in Seq([seq : Seqs, to : SUBSET Queues])
    BY DEF TypeOK
  <2>2. Len(log) \in Nat /\ Len(ready) \in Nat
    BY <2>1
  <2>3. ASSUME NEW i \in 1..Len(ready)
        PROVE  ready[i].seq \in Seqs /\ ready[i].to \subseteq Queues
    <3>1. ready[i] \in [seq : Seqs, to : SUBSET Queues]
      BY <2>1, ElementOf
    <3> QED BY <3>1
  <2> QED BY <2>2, <2>3
<1>2. \A p \in Producers : Held(p) => publishing[p].seq \in Seqs
  BY DEF TypeOK, Held, Pending, Idle
<1>3. ASSUME NEW q \in Queues
      PROVE  /\ Len(queue[q]) \in Nat /\ Len(received[q]) \in Nat
             /\ \A i \in 1..Len(queue[q]) : queue[q][i] \in Seqs
             /\ \A i \in 1..Len(received[q]) : received[q][i] \in Seqs
             /\ Settled(q) \subseteq Seqs
  <2>1. queue[q] \in Seq(Seqs) /\ received[q] \in Seq(Seqs) /\ overflow[q] \subseteq Seqs
    BY DEF TypeOK
  <2> QED BY <2>1 DEF Settled, ToSet
<1> QED BY <1>1, <1>2, <1>3

(* A stamped event comes after every event there was.                      *)
LEMMA StampOrder ==
    ASSUME TypeOK, NEW p \in Producers, NEW type \in Types, NEW run \in Runs,
           Stamp(p, type, run)
    PROVE  /\ \A m, n \in Seqs : Before(m, n)' <=> Before(m, n)
           /\ \A m \in Seqs : m < Len(log) + 1
           /\ \A m \in Seqs : log'[m] = log[m]
           /\ log'[Len(log) + 1].by = p
           /\ Len(log') = Len(log) + 1
<1>1. [type |-> type, run |-> run, by |-> p] \in Event
  BY DEF Event
<1>2. /\ log \in Seq(Event)
      /\ log' = Append(log, [type |-> type, run |-> run, by |-> p])
  BY DEF TypeOK, Stamp
<1>3. /\ Len(log) \in Nat /\ Len(log') = Len(log) + 1
      /\ \A m \in Seqs : log'[m] = log[m]
      /\ log'[Len(log) + 1] = [type |-> type, run |-> run, by |-> p]
  BY <1>1, <1>2, AppendFacts DEF Seqs
<1>4. \A m \in Seqs : m < Len(log) + 1
  BY <1>3 DEF Seqs
<1>5. log'[Len(log) + 1].by = p
  BY <1>3
<1>6. \A m, n \in Seqs : Before(m, n)' <=> Before(m, n)
  BY <1>3 DEF Before
<1>8. Len(log') = Len(log) + 1
  BY <1>3
<1> QED BY <1>3, <1>4, <1>5, <1>6, <1>8, Zenon

LEMMA StampPath ==
    ASSUME TypeOK, OrderInv, NEW p \in Producers, NEW type \in Types, NEW run \in Runs,
           Stamp(p, type, run)
    PROVE  OrderInv'
<1> USE DEF feedVars
<1>1. /\ ready' = ready /\ queue' = queue /\ received' = received /\ overflow' = overflow
      /\ \A q \in Queues : Settled(q)' = Settled(q) /\ Gone(q)' = Gone(q)
      /\ \A q \in Queues : Gone(q) \subseteq Settled(q)
  BY DEF Stamp, Settled, Gone
<1>2. \A x \in Producers :
        Held(x)' => \/ x = p /\ publishing'[x].seq = Len(log) + 1
                    \/ x # p /\ Held(x) /\ publishing'[x] = publishing[x]
  BY DEF Stamp, Held, Holding, Idle, TypeOK
<1>3. HeldIsOwn'
  BY <1>2, StampOrder, PathTypes DEF OrderInv, HeldIsOwn
<1>4. ReadyInOrder'
  BY <1>1, StampOrder, PathTypes DEF OrderInv, ReadyInOrder
<1>5. ReadyBeforeHeld'
  <2> SUFFICES ASSUME NEW i \in 1..Len(ready), NEW x \in Producers, Held(x)'
               PROVE  Before(ready[i].seq, publishing[x].seq)'
    BY <1>1 DEF ReadyBeforeHeld
  <2>1. ready[i].seq \in Seqs /\ ready' = ready
    BY <1>1, PathTypes
  <2>2. CASE publishing'[x].seq = Len(log) + 1
    BY <2>1, <2>2, StampOrder DEF Before
  <2>3. CASE Held(x) /\ publishing'[x] = publishing[x]
    <3>1. publishing[x].seq \in Seqs /\ Before(ready[i].seq, publishing[x].seq)
      BY <2>3, PathTypes DEF OrderInv, ReadyBeforeHeld
    <3> QED BY <2>1, <2>3, <3>1, StampOrder DEF Before
  <2> QED BY <1>2, <2>2, <2>3
<1>6. SettledBeforeReady'
  BY <1>1, StampOrder, PathTypes DEF OrderInv, SettledBeforeReady
<1>7. SettledBeforeHeld'
  <2> SUFFICES ASSUME NEW q \in Queues, NEW m \in Settled(q), NEW x \in Producers, Held(x)'
               PROVE  Before(m, publishing[x].seq)'
    BY <1>1 DEF SettledBeforeHeld
  <2>1. m \in Seqs
    BY PathTypes
  <2>2. CASE publishing'[x].seq = Len(log) + 1
    BY <2>1, <2>2, StampOrder DEF Before
  <2>3. CASE Held(x) /\ publishing'[x] = publishing[x]
    <3>1. publishing[x].seq \in Seqs /\ Before(m, publishing[x].seq)
      BY <2>3, PathTypes DEF OrderInv, SettledBeforeHeld
    <3> QED BY <2>1, <2>3, <3>1, StampOrder DEF Before
  <2> QED BY <1>2, <2>2, <2>3
<1>8. GoneBeforeQueued'
  BY <1>1, StampOrder, PathTypes DEF OrderInv, GoneBeforeQueued
<1>9. QueueInOrder'
  BY <1>1, StampOrder, PathTypes DEF OrderInv, QueueInOrder
<1>10. TakenInOrder' /\ TakenOrDropped'
  BY <1>1, StampOrder, PathTypes DEF OrderInv, TakenInOrder, TakenOrDropped
<1> QED BY <1>3, <1>4, <1>5, <1>6, <1>7, <1>8, <1>9, <1>10 DEF OrderInv

(* Scheduling moves what a publisher held behind all that is scheduled.     *)
LEMMA SchedulePath ==
    ASSUME TypeOK, OrderInv, NEW p \in Producers, Schedule(p)
    PROVE  OrderInv'
<1> USE DEF feedVars
<1>1. /\ log' = log /\ queue' = queue /\ received' = received /\ overflow' = overflow
      /\ \A q \in Queues : Settled(q)' = Settled(q) /\ Gone(q)' = Gone(q)
      /\ \A m, n : Before(m, n)' <=> Before(m, n)
  BY DEF Schedule, Settled, Gone, Before
<1>2. /\ Held(p) /\ ~Held(p)'
      /\ \A x \in Producers : Held(x)' => x # p /\ Held(x) /\ publishing'[x] = publishing[x]
  BY DEF Schedule, Held, Idle, TypeOK
<1>3. HeldIsOwn' /\ SettledBeforeHeld' /\ GoneBeforeQueued' /\ QueueInOrder'
      /\ TakenInOrder' /\ TakenOrDropped'
  BY <1>1, <1>2 DEF OrderInv, HeldIsOwn, SettledBeforeHeld, GoneBeforeQueued, QueueInOrder,
                     TakenInOrder, TakenOrDropped
<1>4. CASE ready' = ready
  BY <1>1, <1>2, <1>3, <1>4
  DEF OrderInv, ReadyInOrder, ReadyBeforeHeld, SettledBeforeReady
<1>5. CASE ready' = Append(ready, [seq |-> publishing[p].seq, to |-> publishing[p].to])
  <2>1. /\ Len(ready) \in Nat /\ Len(ready') = Len(ready) + 1
        /\ \A i \in 1..Len(ready) : ready'[i] = ready[i]
        /\ ready'[Len(ready) + 1].seq = publishing[p].seq
    <3>1. /\ [seq |-> publishing[p].seq, to |-> publishing[p].to] \in [seq : Seqs, to : SUBSET Queues]
          /\ ready \in Seq([seq : Seqs, to : SUBSET Queues])
      <4>1. publishing[p] \in Pending
        BY <1>2 DEF TypeOK, Idle, Held
      <4> QED BY <4>1 DEF TypeOK, Pending
    <3> QED BY <1>5, <3>1, AppendFacts
  <2>2. \A i \in 1..Len(ready') :
           \/ i \in 1..Len(ready) /\ ready'[i].seq = ready[i].seq
           \/ i = Len(ready) + 1 /\ ready'[i].seq = publishing[p].seq
    BY <2>1
  <2>3. ReadyInOrder'
    <3>1. \A i, j \in 1..Len(ready') : i < j => i \in 1..Len(ready)
      BY <2>1
    <3> QED BY <1>1, <1>2, <2>2, <3>1 DEF OrderInv, ReadyInOrder, ReadyBeforeHeld
  <2>4. ReadyBeforeHeld'
    <3>1. \A x \in Producers : Held(x)' => ~(log[publishing[p].seq].by = log[publishing[x].seq].by)
      BY <1>2 DEF OrderInv, HeldIsOwn
    <3>2. \A x \in Producers : Held(x)' => Before(publishing[p].seq, publishing[x].seq)
      BY <3>1 DEF Before
    <3> QED BY <1>1, <1>2, <2>2, <3>2 DEF OrderInv, ReadyBeforeHeld
  <2>5. SettledBeforeReady'
    BY <1>1, <1>2, <2>2 DEF OrderInv, SettledBeforeReady, SettledBeforeHeld
  <2> QED BY <1>3, <2>3, <2>4, <2>5 DEF OrderInv
<1> QED BY <1>4, <1>5 DEF Schedule

(* What a fanout does to one queue.                                        *)
LEMMA FanoutQueue ==
    ASSUME TypeOK, Fanout, NEW q \in Queues
    PROVE  \/ /\ q \notin ready[1].to
              /\ queue'[q] = queue[q] /\ overflow'[q] = overflow[q]
           \/ /\ q \in ready[1].to
              /\ \E d \in {0, 1} :
                   /\ Len(queue[q]) \geq d
                   /\ Len(queue'[q]) = Len(queue[q]) + 1 - d
                   /\ \A i \in 1..(Len(queue[q]) - d) : queue'[q][i] = queue[q][i + d]
                   /\ queue'[q][Len(queue[q]) + 1 - d] = ready[1].seq
                   /\ overflow'[q] = overflow[q] \cup (IF d = 0 THEN {} ELSE {queue[q][1]})
<1>1. Head(ready) = ready[1] /\ ready[1].seq \in Seqs
  <2>1. ready \in Seq([seq : Seqs, to : SUBSET Queues]) /\ ready # <<>>
    BY DEF TypeOK, Fanout
  <2>2. Head(ready) = ready[1] /\ 1 \in 1..Len(ready)
    BY <2>1, TailFacts
  <2> QED BY <2>2, PathTypes
<1>2. queue[q] \in Seq(Seqs) /\ Len(queue[q]) \leq QueueSize
  BY DEF TypeOK
<1>3. CASE q \notin ready[1].to
  BY <1>1, <1>3 DEF Fanout, Recipients, TypeOK
<1>4. CASE q \in ready[1].to
  <2>1. queue'[q] = Offer(queue[q], ready[1].seq)
    BY <1>1, <1>4 DEF Fanout, Recipients
  <2>2. overflow'[q] = overflow[q] \cup Dropped(queue[q])
    BY <1>1, <1>4 DEF Fanout, Recipients
  <2>3. PICK d \in {0, 1} :
          /\ Len(queue[q]) \geq d
          /\ Len(Offer(queue[q], ready[1].seq)) = Len(queue[q]) + 1 - d
          /\ \A i \in 1..(Len(queue[q]) - d) :
                Offer(queue[q], ready[1].seq)[i] = queue[q][i + d]
          /\ Offer(queue[q], ready[1].seq)[Len(queue[q]) + 1 - d] = ready[1].seq
          /\ Dropped(queue[q]) = IF d = 0 THEN {} ELSE {queue[q][1]}
    BY <1>1, <1>2, OfferFacts
  <2> QED BY <1>4, <2>1, <2>2, <2>3
<1> QED BY <1>3, <1>4

(* The event fanned out follows what reached the queue before and precedes *)
(* what is scheduled behind it; the one it drops joins those that are gone. *)
LEMMA FanoutPath ==
    ASSUME TypeOK, OrderInv, Fanout
    PROVE  OrderInv'
<1> DEFINE n == ready[1].seq
<1>1. /\ log' = log /\ received' = received /\ publishing' = publishing
      /\ \A m, k : Before(m, k)' <=> Before(m, k)
      /\ \A p \in Producers : Held(p)' <=> Held(p)
  BY DEF Fanout, Before, Held
<1>2. /\ Len(ready) \in Nat /\ Len(ready) > 0
      /\ Len(ready') = Len(ready) - 1
      /\ \A i \in 1..(Len(ready) - 1) : ready'[i] = ready[i + 1]
  <2>1. ready \in Seq([seq : Seqs, to : SUBSET Queues]) /\ ready # <<>> /\ ready' = Tail(ready)
    BY DEF TypeOK, Fanout
  <2> QED BY <2>1, TailFacts
<1>3. n \in Seqs /\ 1 \in 1..Len(ready)
  BY <1>2, PathTypes
<1>4. \A i \in 1..Len(ready') : i + 1 \in 1..Len(ready) /\ ready'[i] = ready[i + 1]
  BY <1>2
<1>5. ASSUME NEW q \in Queues
      PROVE  /\ Settled(q)' \subseteq Settled(q) \cup {n}
             /\ \A m \in Gone(q)', i \in 1..Len(queue'[q]) : Before(m, queue'[q][i])
             /\ \A i, j \in 1..Len(queue'[q]) : i < j => Before(queue'[q][i], queue'[q][j])
             /\ ToSet(received[q]) \cap overflow'[q] = {}
  <2>1. /\ Len(queue[q]) \in Nat
        /\ \A i \in 1..Len(queue[q]) : queue[q][i] \in Settled(q) /\ queue[q][i] \in Seqs
        /\ queue[q] \in Seq(Seqs) /\ Gone(q) \subseteq Settled(q)
    BY PathTypes DEF Settled, Gone, ToSet, TypeOK
  <2>2. /\ \A m \in Settled(q) : Before(m, n)
        /\ \A m \in Gone(q), i \in 1..Len(queue[q]) : Before(m, queue[q][i])
        /\ \A i, j \in 1..Len(queue[q]) : i < j => Before(queue[q][i], queue[q][j])
        /\ ToSet(received[q]) \cap overflow[q] = {}
    BY <1>3 DEF OrderInv, SettledBeforeReady, GoneBeforeQueued, QueueInOrder, TakenOrDropped
  <2>3. CASE queue'[q] = queue[q] /\ overflow'[q] = overflow[q]
    BY <1>1, <2>2, <2>3 DEF Settled, Gone
  <2>4. ASSUME NEW d \in {0, 1},
               Len(queue[q]) \geq d,
               Len(queue'[q]) = Len(queue[q]) + 1 - d,
               \A i \in 1..(Len(queue[q]) - d) : queue'[q][i] = queue[q][i + d],
               queue'[q][Len(queue[q]) + 1 - d] = n,
               overflow'[q] = overflow[q] \cup (IF d = 0 THEN {} ELSE {queue[q][1]})
        PROVE  /\ Settled(q)' \subseteq Settled(q) \cup {n}
               /\ \A m \in Gone(q)', i \in 1..Len(queue'[q]) : Before(m, queue'[q][i])
               /\ \A i, j \in 1..Len(queue'[q]) : i < j => Before(queue'[q][i], queue'[q][j])
               /\ ToSet(received[q]) \cap overflow'[q] = {}
    <3>1. \A i \in 1..Len(queue'[q]) :
            \/ i + d \in 1..Len(queue[q]) /\ queue'[q][i] = queue[q][i + d]
            \/ i = Len(queue'[q]) /\ queue'[q][i] = n
      <4>1. ASSUME NEW i \in 1..Len(queue'[q]), i # Len(queue'[q])
            PROVE  i \in 1..(Len(queue[q]) - d) /\ i + d \in 1..Len(queue[q])
        BY <2>1, <2>4, <4>1
      <4>2. queue'[q][Len(queue'[q])] = n
        BY <2>4
      <4> QED BY <2>4, <4>1, <4>2
    <3>2. queue'[q] \in Seq(Seqs')
      BY FanoutTypes DEF TypeOK
    <3>3. \A m \in ToSet(queue'[q]) : m \in Settled(q) \cup {n}
      BY <2>1, <3>1, <3>2 DEF ToSet
    <3>4. \A m \in Gone(q)' : m \in Gone(q) \/ (d = 1 /\ m = queue[q][1])
      BY <1>1, <2>4 DEF Gone
    <3>5. d = 1 => 1 \in 1..Len(queue[q]) /\ queue[q][1] \in Settled(q)
      BY <2>1, <2>4
    <3>6. Settled(q)' \subseteq Settled(q) \cup {n}
      BY <1>1, <2>4, <3>3, <3>5 DEF Settled
    <3>7. ASSUME NEW m \in Gone(q)', NEW i \in 1..Len(queue'[q])
          PROVE  Before(m, queue'[q][i])
      <4>1. CASE i + d \in 1..Len(queue[q]) /\ queue'[q][i] = queue[q][i + d]
        <5>1. CASE m \in Gone(q)
          BY <2>2, <4>1, <5>1
        <5>2. CASE d = 1 /\ m = queue[q][1]
          <6>1. 1 \in 1..Len(queue[q]) /\ 1 < i + d
            BY <3>5, <5>2
          <6> QED BY <2>2, <4>1, <5>2, <6>1
        <5> QED BY <3>4, <5>1, <5>2
      <4>2. CASE queue'[q][i] = n
        BY <2>1, <2>2, <3>4, <3>5, <4>2
      <4> QED BY <3>1, <4>1, <4>2
    <3>8. ASSUME NEW i \in 1..Len(queue'[q]), NEW j \in 1..Len(queue'[q]), i < j
          PROVE  Before(queue'[q][i], queue'[q][j])
      <4>1. i + d \in 1..Len(queue[q]) /\ queue'[q][i] = queue[q][i + d]
        BY <2>1, <2>4, <3>1, <3>8
      <4>2. CASE j + d \in 1..Len(queue[q]) /\ queue'[q][j] = queue[q][j + d]
        <5>1. i + d < j + d
          BY <3>8, <2>4
        <5> QED BY <2>2, <4>1, <4>2, <5>1
      <4>3. CASE queue'[q][j] = n
        BY <2>1, <2>2, <4>1, <4>3
      <4> QED BY <3>1, <4>2, <4>3
    <3>9. d = 1 => queue[q][1] \notin ToSet(received[q])
      <4> SUFFICES ASSUME d = 1, queue[q][1] \in ToSet(received[q]) PROVE FALSE
        OBVIOUS
      <4>1. Before(queue[q][1], queue[q][1]) /\ queue[q][1] \in Seqs
        BY <2>1, <2>2, <3>5 DEF Gone
      <4> QED BY <4>1, PathTypes DEF Before, Seqs
    <3> QED BY <2>2, <2>4, <3>6, <3>7, <3>8, <3>9
  <2> QED BY <2>3, <2>4, FanoutQueue
<1>6. ReadyInOrder'
  BY <1>1, <1>2, <1>4 DEF OrderInv, ReadyInOrder
<1>7. HeldIsOwn' /\ ReadyBeforeHeld'
  BY <1>1, <1>4 DEF OrderInv, HeldIsOwn, ReadyBeforeHeld
<1>8. SettledBeforeReady'
  <2>1. \A i \in 1..Len(ready') : Before(n, ready'[i].seq)
    BY <1>2, <1>3, <1>4 DEF OrderInv, ReadyInOrder
  <2> QED BY <1>1, <1>4, <1>5, <2>1 DEF OrderInv, SettledBeforeReady
<1>9. SettledBeforeHeld'
  BY <1>1, <1>3, <1>5 DEF OrderInv, SettledBeforeHeld, ReadyBeforeHeld
<1>10. GoneBeforeQueued' /\ QueueInOrder' /\ TakenOrDropped'
  BY <1>1, <1>5 DEF GoneBeforeQueued, QueueInOrder, TakenOrDropped
<1>11. TakenInOrder'
  BY <1>1 DEF OrderInv, TakenInOrder
<1> QED BY <1>6, <1>7, <1>8, <1>9, <1>10, <1>11 DEF OrderInv

(* The consumer takes the oldest entry: later than all it took.             *)
LEMMA GetPath ==
    ASSUME TypeOK, OrderInv, NEW q \in Queues, Get(q)
    PROVE  OrderInv'
<1>1. /\ log' = log /\ publishing' = publishing /\ ready' = ready /\ overflow' = overflow
      /\ \A m, k : Before(m, k)' <=> Before(m, k)
      /\ \A p \in Producers : Held(p)' <=> Held(p)
      /\ \A x \in Queues : x # q => queue'[x] = queue[x] /\ received'[x] = received[x]
  BY DEF Get, Before, Held, TypeOK
<1>2. /\ queue[q] \in Seq(Seqs) /\ received[q] \in Seq(Seqs) /\ queue[q] # <<>>
      /\ queue'[q] = Tail(queue[q]) /\ received'[q] = Append(received[q], Head(queue[q]))
  BY DEF Get, TypeOK
<1>3. /\ Len(queue[q]) \in Nat /\ Len(queue[q]) > 0
      /\ queue'[q] \in Seq(Seqs) /\ Len(queue'[q]) = Len(queue[q]) - 1
      /\ \A i \in 1..(Len(queue[q]) - 1) : queue'[q][i] = queue[q][i + 1]
      /\ Head(queue[q]) = queue[q][1] /\ queue[q][1] \in Seqs
  BY <1>2, TailFacts
<1>4. /\ Len(received[q]) \in Nat /\ Len(received'[q]) = Len(received[q]) + 1
      /\ received'[q] \in Seq(Seqs)
      /\ \A i \in 1..Len(received[q]) : received'[q][i] = received[q][i]
      /\ received'[q][Len(received[q]) + 1] = queue[q][1]
  BY <1>2, <1>3, AppendFacts
<1>5. \A i \in 1..Len(queue'[q]) :
         i + 1 \in 1..Len(queue[q]) /\ 1 < i + 1 /\ queue'[q][i] = queue[q][i + 1]
  BY <1>3
<1>6. \A i \in 1..Len(received'[q]) :
         \/ i \in 1..Len(received[q]) /\ received'[q][i] = received[q][i]
         \/ i = Len(received[q]) + 1 /\ received'[q][i] = queue[q][1]
  BY <1>4
<1>7. \A m \in ToSet(received'[q]) : m \in ToSet(received[q]) \/ m = queue[q][1]
  BY <1>2, <1>4, <1>6 DEF ToSet
<1>8. \A m \in ToSet(queue'[q]) : m \in ToSet(queue[q])
  BY <1>2, <1>3, <1>5 DEF ToSet
<1>9. 1 \in 1..Len(queue[q]) /\ queue[q][1] \in ToSet(queue[q])
  BY <1>2, <1>3 DEF ToSet
<1>10. \A x \in Queues : Settled(x)' \subseteq Settled(x)
  BY <1>1, <1>7, <1>8, <1>9 DEF Settled
<1>11. HeldIsOwn' /\ ReadyInOrder' /\ ReadyBeforeHeld'
  BY <1>1 DEF OrderInv, HeldIsOwn, ReadyInOrder, ReadyBeforeHeld
<1>12. SettledBeforeReady' /\ SettledBeforeHeld'
  BY <1>1, <1>10 DEF OrderInv, SettledBeforeReady, SettledBeforeHeld
<1>13. GoneBeforeQueued'
  <2>1. \A m \in Gone(q)' : m \in Gone(q) \/ m = queue[q][1]
    BY <1>1, <1>7 DEF Gone
  <2>2. \A m \in Gone(q)', i \in 1..Len(queue'[q]) : Before(m, queue'[q][i])
    BY <1>5, <1>9, <2>1 DEF OrderInv, GoneBeforeQueued, QueueInOrder
  <2> QED BY <1>1, <2>2 DEF OrderInv, GoneBeforeQueued, Gone
<1>14. QueueInOrder'
  <2>1. \A i, j \in 1..Len(queue'[q]) : i < j => Before(queue'[q][i], queue'[q][j])
    <3>1. \A i, j \in 1..Len(queue'[q]) : i < j => i + 1 < j + 1
      BY <1>3
    <3> QED BY <1>5, <3>1 DEF OrderInv, QueueInOrder
  <2> QED BY <1>1, <2>1 DEF OrderInv, QueueInOrder
<1>15. TakenInOrder'
  <2>1. \A i, j \in 1..Len(received'[q]) : i < j => Before(received'[q][i], received'[q][j])
    <3>1. \A i \in 1..Len(received[q]) : Before(received[q][i], queue[q][1])
      <4>1. \A i \in 1..Len(received[q]) : received[q][i] \in Gone(q)
        BY <1>2 DEF Gone, ToSet
      <4> QED BY <1>9, <4>1 DEF OrderInv, GoneBeforeQueued
    <3>2. \A i, j \in 1..Len(received'[q]) : i < j => i \in 1..Len(received[q])
      BY <1>4
    <3> QED BY <1>6, <3>1, <3>2 DEF OrderInv, TakenInOrder
  <2> QED BY <1>1, <2>1 DEF OrderInv, TakenInOrder
<1>16. TakenOrDropped'
  <2>1. queue[q][1] \notin overflow[q]
    <3> SUFFICES ASSUME queue[q][1] \in overflow[q] PROVE FALSE
      OBVIOUS
    <3>1. Before(queue[q][1], queue[q][1])
      BY <1>9 DEF OrderInv, GoneBeforeQueued, Gone
    <3> QED BY <1>3, <3>1, PathTypes DEF Before, Seqs
  <2> QED BY <1>1, <1>7, <2>1 DEF OrderInv, TakenOrDropped
<1> QED BY <1>11, <1>12, <1>13, <1>14, <1>15, <1>16 DEF OrderInv

LEMMA OrderStep ==
    TypeOK /\ OrderInv /\ [Next]_vars => OrderInv'
<1> SUFFICES ASSUME TypeOK, OrderInv, [Next]_vars PROVE OrderInv'
  OBVIOUS
<1> USE DEF feedVars, vars
<1> DEFINE Same == /\ log' = log /\ ready' = ready /\ queue' = queue
                   /\ received' = received /\ overflow' = overflow
           Kept == \A p \in Producers : Held(p)' => Held(p) /\ publishing'[p].seq = publishing[p].seq
<1>1. ASSUME Same, Kept PROVE OrderInv'
  <2>1. \A m, n : Before(m, n)' <=> Before(m, n)
    BY <1>1 DEF Before
  <2>2. \A q \in Queues : Settled(q)' = Settled(q) /\ Gone(q)' = Gone(q)
    BY <1>1 DEF Settled, Gone
  <2> QED
    BY <1>1, <2>1, <2>2
    DEF OrderInv, HeldIsOwn, ReadyInOrder, ReadyBeforeHeld, SettledBeforeReady,
        SettledBeforeHeld, GoneBeforeQueued, QueueInOrder, TakenInOrder, TakenOrDropped
<1>2. ASSUME Same, publishing' = publishing PROVE OrderInv'
  BY <1>1, <1>2 DEF Held
<1>3. ASSUME NEW p \in Producers, NEW type \in Types, NEW run \in Runs, Stamp(p, type, run)
      PROVE  OrderInv'
  BY <1>3, StampPath
<1>4. ASSUME NEW p \in Producers, PutRecord(p) PROVE OrderInv'
  <2>1. Kept
    BY <1>4 DEF PutRecord, Held, Holding, Idle, TypeOK
  <2> QED BY <1>1, <1>4, <2>1 DEF PutRecord
<1>5. ASSUME NEW p \in Producers, Schedule(p) PROVE OrderInv'
  BY <1>5, SchedulePath
<1>6. CASE Fanout
  BY <1>6, FanoutPath
<1>7. ASSUME NEW q \in Queues, SubscribeAndReplay(q) PROVE OrderInv'
  BY <1>2, <1>7 DEF SubscribeAndReplay
<1>8. ASSUME NEW q \in Queues, Get(q) PROVE OrderInv'
  BY <1>8, GetPath
<1>9. ASSUME NEW q \in Queues, Unsubscribe(q) PROVE OrderInv'
  BY <1>2, <1>9 DEF Unsubscribe
<1>10. CASE Clear
  BY <1>2, <1>10 DEF Clear
<1>11. CASE BindLoop
  BY <1>2, <1>11 DEF BindLoop
<1>12. CASE CloseLoop
  <2>1. /\ log' = log /\ queue' = queue /\ received' = received /\ overflow' = overflow
        /\ publishing' = publishing /\ Len(ready') = 0
    BY <1>12 DEF CloseLoop
  <2>2. /\ \A m, n : Before(m, n)' <=> Before(m, n)
        /\ \A q \in Queues : Settled(q)' = Settled(q) /\ Gone(q)' = Gone(q)
        /\ \A p \in Producers : Held(p)' <=> Held(p)
    BY <2>1 DEF Before, Settled, Gone, Held
  <2> QED
    BY <2>1, <2>2
    DEF OrderInv, HeldIsOwn, ReadyInOrder, ReadyBeforeHeld, SettledBeforeReady,
        SettledBeforeHeld, GoneBeforeQueued, QueueInOrder, TakenInOrder, TakenOrDropped
<1>13. ASSUME NEW path \in Paths, SetJsonl(path) PROVE OrderInv'
  BY <1>2, <1>13 DEF SetJsonl
<1>14. CASE WriteRecord
  BY <1>2, <1>14 DEF WriteRecord
<1>15. CASE UNCHANGED vars
  BY <1>2, <1>15
<1> QED
  BY <1>3, <1>4, <1>5, <1>6, <1>7, <1>8, <1>9, <1>10, <1>11, <1>12, <1>13, <1>14, <1>15
  DEF Next

LEMMA OrderInvariant == Spec => []OrderInv
<1>1. Init => OrderInv
  <2> SUFFICES ASSUME Init PROVE OrderInv
    OBVIOUS
  <2>1. /\ Len(ready) = 0
        /\ \A p \in Producers : ~Held(p)
        /\ \A q \in Queues : Settled(q) = {} /\ Gone(q) = {} /\ Len(queue[q]) = 0
                             /\ Len(received[q]) = 0 /\ overflow[q] = {}
    BY DEF Init, Held, Idle, Settled, Gone, ToSet
  <2> QED
    BY <2>1 DEF OrderInv, HeldIsOwn, ReadyInOrder, ReadyBeforeHeld, SettledBeforeReady,
                SettledBeforeHeld, GoneBeforeQueued, QueueInOrder, TakenInOrder, TakenOrDropped
<1>2. TypeOK /\ OrderInv /\ [Next]_vars => OrderInv'
  BY OrderStep
<1> QED BY <1>1, <1>2, TypeCorrect, PTL DEF Spec

(* The line in front of a consumer: what it took, then what is queued.      *)
LEMMA LineLength ==
    ASSUME NEW S, NEW s \in Seq(S), NEW t \in Seq(S)
    PROVE  /\ Len(s \o t) = Len(s) + Len(t)
           /\ Len(s) \in Nat /\ Len(t) \in Nat
           /\ DOMAIN (s \o t) = 1..(Len(s) + Len(t))
           /\ DOMAIN s = 1..Len(s) /\ DOMAIN t = 1..Len(t)
    OBVIOUS

LEMMA LineElement ==
    ASSUME NEW S, NEW s \in Seq(S), NEW t \in Seq(S), NEW i \in 1..(Len(s) + Len(t))
    PROVE  \/ i \in 1..Len(s) /\ (s \o t)[i] = s[i]
           \/ i - Len(s) \in 1..Len(t) /\ (s \o t)[i] = t[i - Len(s)]
<1>1. (s \o t)[i] = IF i \leq Len(s) THEN s[i] ELSE t[i - Len(s)]
  BY ConcatProperties
<1>2. CASE i \leq Len(s)
  BY <1>1, <1>2, LineLength
<1>3. CASE ~(i \leq Len(s))
  BY <1>1, <1>3, LineLength
<1> QED BY <1>2, <1>3

LEMMA LineMembers ==
    ASSUME NEW S, NEW s \in Seq(S), NEW t \in Seq(S)
    PROVE  ToSet(s \o t) = ToSet(s) \cup ToSet(t)
<1> DEFINE line == s \o t
<1>1. /\ Len(s) \in Nat /\ DOMAIN s = 1..Len(s)
      /\ Len(t) \in Nat /\ DOMAIN t = 1..Len(t)
      /\ DOMAIN line = 1..(Len(s) + Len(t))
  BY LineLength
<1>2. ASSUME NEW i \in DOMAIN line
      PROVE  line[i] \in ToSet(s) \cup ToSet(t)
  <2>1. \/ i \in 1..Len(s) /\ line[i] = s[i]
        \/ i - Len(s) \in 1..Len(t) /\ line[i] = t[i - Len(s)]
    BY <1>1, LineElement
  <2> HIDE DEF line
  <2> QED BY <1>1, <2>1 DEF ToSet
<1>3. ASSUME NEW i \in 1..Len(s)
      PROVE  s[i] \in ToSet(line)
  <2>1. i \in DOMAIN line /\ line[i] = s[i]
    BY <1>1, ConcatProperties
  <2> HIDE DEF line
  <2> QED BY <2>1 DEF ToSet
<1>4. ASSUME NEW i \in 1..Len(t)
      PROVE  t[i] \in ToSet(line)
  <2>1. i + Len(s) \in DOMAIN line /\ line[i + Len(s)] = t[i]
    BY <1>1, ConcatProperties
  <2> HIDE DEF line
  <2> QED BY <2>1 DEF ToSet
<1> HIDE DEF line
<1>5. ToSet(line) \subseteq ToSet(s) \cup ToSet(t)
  <2> SUFFICES ASSUME NEW e \in ToSet(line) PROVE e \in ToSet(s) \cup ToSet(t)
    OBVIOUS
  <2> QED BY <1>2 DEF ToSet
<1>6. ToSet(s) \subseteq ToSet(line)
  <2> SUFFICES ASSUME NEW e \in ToSet(s) PROVE e \in ToSet(line)
    OBVIOUS
  <2>1. PICK i \in 1..Len(s) : e = s[i]
    BY <1>1 DEF ToSet
  <2> QED BY <1>3, <2>1
<1>7. ToSet(t) \subseteq ToSet(line)
  <2> SUFFICES ASSUME NEW e \in ToSet(t) PROVE e \in ToSet(line)
    OBVIOUS
  <2>1. PICK i \in 1..Len(t) : e = t[i]
    BY <1>1 DEF ToSet
  <2> QED BY <1>4, <2>1
<1> QED BY <1>5, <1>6, <1>7 DEF line

LEMMA LineOrder ==
    ASSUME TypeOK, OrderInv, NEW q \in Queues,
           NEW i \in DOMAIN (received[q] \o queue[q]),
           NEW j \in DOMAIN (received[q] \o queue[q]), i < j
    PROVE  Before((received[q] \o queue[q])[i], (received[q] \o queue[q])[j])
<1> DEFINE k == Len(received[q])
           line == received[q] \o queue[q]
<1>1. received[q] \in Seq(Seqs) /\ queue[q] \in Seq(Seqs)
  BY DEF TypeOK
<1>2. /\ i \in 1..(k + Len(queue[q])) /\ j \in 1..(k + Len(queue[q]))
      /\ k \in Nat /\ Len(queue[q]) \in Nat
  <2>1. DOMAIN (received[q] \o queue[q]) = 1..(k + Len(queue[q]))
    BY <1>1, LineLength
  <2>2. k \in Nat /\ Len(queue[q]) \in Nat
    BY <1>1
  <2> QED BY <2>1, <2>2, Zenon
<1>3. \/ i \in 1..k /\ line[i] = received[q][i]
      \/ i - k \in 1..Len(queue[q]) /\ line[i] = queue[q][i - k]
  BY <1>1, <1>2, LineElement
<1>4. \/ j \in 1..k /\ line[j] = received[q][j]
      \/ j - k \in 1..Len(queue[q]) /\ line[j] = queue[q][j - k]
  BY <1>1, <1>2, LineElement
<1> HIDE DEF line
<1>5. CASE j \in 1..k /\ line[j] = received[q][j]
  <2>1. i \in 1..k /\ line[i] = received[q][i]
    BY <1>2, <1>3, <1>5
  <2> QED BY <1>5, <2>1 DEF OrderInv, TakenInOrder, line
<1>6. CASE j - k \in 1..Len(queue[q]) /\ line[j] = queue[q][j - k]
  <2>1. CASE i \in 1..k /\ line[i] = received[q][i]
    <3>1. line[i] \in Gone(q)
      BY <1>1, <2>1 DEF Gone, ToSet
    <3>2. Before(line[i], line[j])
      BY <1>6, <3>1 DEF OrderInv, GoneBeforeQueued
    <3> QED BY <3>2 DEF line
  <2>2. CASE i - k \in 1..Len(queue[q]) /\ line[i] = queue[q][i - k]
    <3>1. i - k < j - k
      BY <1>2
    <3>2. Before(line[i], line[j])
      BY <1>6, <2>2, <3>1 DEF OrderInv, QueueInOrder
    <3> QED BY <3>2 DEF line
  <2> QED BY <1>3, <2>1, <2>2
<1> QED BY <1>4, <1>5, <1>6

(* Each thread's events keep their order on the way to every consumer, for *)
(* any number of threads and whatever is dropped on the way.               *)
THEOREM OrderKept == Spec => []ProducerOrder
<1>1. TypeOK /\ OrderInv => ProducerOrder
  <2> SUFFICES ASSUME TypeOK, OrderInv, NEW q \in Queues
               PROVE  LET line == received[q] \o queue[q] IN
                      /\ \A i, j \in DOMAIN line : i < j => Before(line[i], line[j])
                      /\ \A m \in ToSet(line), n \in Scheduled(q) \cup InFlight(q) : Before(m, n)
                      /\ \A i, j \in DOMAIN ready : i < j => Before(ready[i].seq, ready[j].seq)
                      /\ \A m \in Scheduled(q), n \in InFlight(q) : Before(m, n)
    BY DEF ProducerOrder
  <2> DEFINE line == received[q] \o queue[q]
  <2>1. DOMAIN ready = 1..Len(ready)
    BY DEF TypeOK
  <2>2. ToSet(line) = ToSet(received[q]) \cup ToSet(queue[q])
    <3>1. received[q] \in Seq(Seqs) /\ queue[q] \in Seq(Seqs)
      BY DEF TypeOK
    <3> QED BY <3>1, LineMembers
  <2>3. ToSet(line) \subseteq Settled(q)
    BY <2>2 DEF Settled
  <2>4. /\ \A n \in Scheduled(q) : \E i \in 1..Len(ready) : n = ready[i].seq
        /\ \A n \in InFlight(q) : \E p \in Producers : Held(p) /\ n = publishing[p].seq
    BY <2>1 DEF Scheduled, InFlight, Held
  <2>5. \A m \in ToSet(line), n \in Scheduled(q) \cup InFlight(q) : Before(m, n)
    BY <2>3, <2>4 DEF OrderInv, SettledBeforeReady, SettledBeforeHeld
  <2>6. \A m \in Scheduled(q), n \in InFlight(q) : Before(m, n)
    BY <2>4 DEF OrderInv, ReadyBeforeHeld
  <2>7. \A i, j \in DOMAIN ready : i < j => Before(ready[i].seq, ready[j].seq)
    BY <2>1 DEF OrderInv, ReadyInOrder
  <2>8. \A i, j \in DOMAIN line : i < j => Before(line[i], line[j])
    BY LineOrder
  <2> QED BY <2>5, <2>6, <2>7, <2>8
<1> QED BY <1>1, TypeCorrect, OrderInvariant, PTL

(* A fanout settles its event with the queues it addresses, and no event   *)
(* that was settled gets lost: what a full queue drops is counted.         *)
LEMMA FanoutSettles ==
    ASSUME TypeOK, Fanout, NEW q \in Queues
    PROVE  Settled(q)' = IF q \in ready[1].to THEN Settled(q) \cup {ready[1].seq}
                                              ELSE Settled(q)
<1> DEFINE n == ready[1].seq
<1>1. /\ queue[q] \in Seq(Seqs) /\ queue'[q] \in Seq(Seqs') /\ received' = received
      /\ Len(queue[q]) \in Nat
      /\ DOMAIN queue[q] = 1..Len(queue[q]) /\ DOMAIN queue'[q] = 1..Len(queue'[q])
  <2>1. queue[q] \in Seq(Seqs) /\ queue'[q] \in Seq(Seqs')
    BY FanoutTypes DEF TypeOK
  <2> QED BY <2>1 DEF Fanout
<1>2. CASE q \notin ready[1].to
  BY <1>1, <1>2, FanoutQueue DEF Settled
<1>3. CASE q \in ready[1].to
  <2>1. PICK d \in {0, 1} :
          /\ Len(queue[q]) \geq d
          /\ Len(queue'[q]) = Len(queue[q]) + 1 - d
          /\ \A i \in 1..(Len(queue[q]) - d) : queue'[q][i] = queue[q][i + d]
          /\ queue'[q][Len(queue[q]) + 1 - d] = n
          /\ overflow'[q] = overflow[q] \cup (IF d = 0 THEN {} ELSE {queue[q][1]})
    BY <1>3, FanoutQueue
  <2>2. ASSUME NEW i \in 1..Len(queue'[q])
        PROVE  queue'[q][i] \in ToSet(queue[q]) \cup {n}
    <3>1. CASE i \in 1..(Len(queue[q]) - d)
      <4>1. i + d \in 1..Len(queue[q]) /\ queue'[q][i] = queue[q][i + d]
        BY <1>1, <2>1, <3>1
      <4> QED BY <1>1, <4>1 DEF ToSet
    <3>2. CASE i = Len(queue[q]) + 1 - d
      BY <2>1, <3>2
    <3> QED BY <1>1, <2>1, <3>1, <3>2
  <2>3. ASSUME NEW i \in 1..Len(queue[q])
        PROVE  queue[q][i] \in ToSet(queue'[q]) \cup overflow'[q]
    <3>1. CASE i - d \in 1..(Len(queue[q]) - d)
      <4>1. i - d \in DOMAIN queue'[q] /\ queue'[q][i - d] = queue[q][i]
        BY <1>1, <2>1, <3>1
      <4> QED BY <4>1 DEF ToSet
    <3>2. CASE d = 1 /\ i = 1
      BY <2>1, <3>2
    <3> QED BY <1>1, <3>1, <3>2
  <2>4. n \in ToSet(queue'[q])
    <3>1. Len(queue[q]) + 1 - d \in DOMAIN queue'[q]
      BY <1>1, <2>1
    <3> QED BY <2>1, <3>1 DEF ToSet
  <2>5. \A e \in overflow'[q] : e \in overflow[q] \cup ToSet(queue[q])
    <3>1. d = 1 => queue[q][1] \in ToSet(queue[q])
      BY <1>1, <2>1 DEF ToSet
    <3> QED BY <2>1, <3>1
  <2>6. overflow[q] \subseteq overflow'[q]
    BY <2>1
  <2>7. ToSet(queue'[q]) \subseteq ToSet(queue[q]) \cup {n}
    BY <1>1, <2>2 DEF ToSet
  <2>8. ToSet(queue[q]) \subseteq ToSet(queue'[q]) \cup overflow'[q]
    BY <1>1, <2>3 DEF ToSet
  <2> QED BY <1>1, <1>3, <2>4, <2>5, <2>6, <2>7, <2>8 DEF Settled
<1> QED BY <1>2, <1>3

(* Taking an event moves it: nothing appears and nothing is lost.          *)
LEMMA HeadTailMembers ==
    ASSUME NEW S, NEW s \in Seq(S), s # <<>>
    PROVE  ToSet(s) = {Head(s)} \cup ToSet(Tail(s))
<1>1. /\ DOMAIN s = 1..Len(s) /\ Len(s) \in Nat /\ Len(s) > 0
      /\ DOMAIN Tail(s) = 1..(Len(s) - 1) /\ Head(s) = s[1]
      /\ \A i \in 1..(Len(s) - 1) : Tail(s)[i] = s[i + 1]
  BY TailFacts
<1>2. ASSUME NEW i \in 1..Len(s)
      PROVE  s[i] \in {Head(s)} \cup ToSet(Tail(s))
  <2>1. CASE i = 1
    BY <1>1, <2>1
  <2>2. CASE i - 1 \in 1..(Len(s) - 1)
    <3>1. Tail(s)[i - 1] = s[i]
      BY <1>1, <2>2
    <3> QED BY <1>1, <2>2, <3>1 DEF ToSet
  <2> QED BY <1>1, <2>1, <2>2
<1>3. ASSUME NEW i \in 1..(Len(s) - 1)
      PROVE  Tail(s)[i] \in ToSet(s)
  <2>1. i + 1 \in DOMAIN s /\ Tail(s)[i] = s[i + 1]
    BY <1>1
  <2> QED BY <2>1 DEF ToSet
<1>4. Head(s) \in ToSet(s)
  BY <1>1 DEF ToSet
<1>5. ToSet(s) \subseteq {Head(s)} \cup ToSet(Tail(s))
  BY <1>1, <1>2 DEF ToSet
<1>6. ToSet(Tail(s)) \subseteq ToSet(s)
  BY <1>1, <1>3 DEF ToSet
<1> QED BY <1>4, <1>5, <1>6

LEMMA AppendMembers ==
    ASSUME NEW S, NEW s \in Seq(S), NEW e \in S
    PROVE  ToSet(Append(s, e)) = ToSet(s) \cup {e}
<1>1. /\ DOMAIN s = 1..Len(s) /\ Len(s) \in Nat
      /\ DOMAIN Append(s, e) = 1..(Len(s) + 1)
      /\ \A i \in 1..Len(s) : Append(s, e)[i] = s[i]
      /\ Append(s, e)[Len(s) + 1] = e
  BY AppendFacts
<1>2. \A i \in 1..(Len(s) + 1) : i \in 1..Len(s) \/ i = Len(s) + 1
  BY <1>1
<1>3. ToSet(Append(s, e)) \subseteq ToSet(s) \cup {e}
  BY <1>1, <1>2 DEF ToSet
<1>4. ASSUME NEW i \in 1..Len(s) PROVE s[i] \in ToSet(Append(s, e))
  <2>1. i \in DOMAIN Append(s, e)
    BY <1>1
  <2> QED BY <1>1, <2>1 DEF ToSet
<1>5. e \in ToSet(Append(s, e))
  <2>1. Len(s) + 1 \in DOMAIN Append(s, e)
    BY <1>1
  <2> QED BY <1>1, <2>1 DEF ToSet
<1>6. ToSet(s) \subseteq ToSet(Append(s, e))
  BY <1>1, <1>4 DEF ToSet
<1> QED BY <1>3, <1>5, <1>6

LEMMA GetSettles ==
    ASSUME TypeOK, NEW q \in Queues, Get(q), NEW x \in Queues
    PROVE  Settled(x)' = Settled(x)
<1>1. CASE x # q
  BY <1>1 DEF Get, Settled, TypeOK
<1>2. CASE x = q
  <2>1. /\ queue[q] \in Seq(Seqs) /\ received[q] \in Seq(Seqs) /\ queue[q] # <<>>
        /\ queue'[q] = Tail(queue[q]) /\ received'[q] = Append(received[q], Head(queue[q]))
        /\ overflow' = overflow
    BY DEF Get, TypeOK
  <2>2. Head(queue[q]) \in Seqs
    BY <2>1, TailFacts
  <2>3. ToSet(queue[q]) = {Head(queue[q])} \cup ToSet(queue'[q])
    BY <2>1, HeadTailMembers
  <2>4. ToSet(received'[q]) = ToSet(received[q]) \cup {Head(queue[q])}
    BY <2>1, <2>2, AppendMembers
  <2> QED BY <1>2, <2>1, <2>3, <2>4 DEF Settled
<1> QED BY <1>1, <1>2

-----------------------------------------------------------------------------
(* Where a consumer's live events begin.                                   *)

LEMMA CutStep ==
    TypeOK /\ LiveAfterCut /\ UnboundUnheard /\ [Next]_vars => LiveAfterCut' /\ UnboundUnheard'
<1> SUFFICES ASSUME TypeOK, LiveAfterCut, UnboundUnheard, [Next]_vars
             PROVE  LiveAfterCut' /\ UnboundUnheard'
  OBVIOUS
<1> USE DEF feedVars, joinVars, vars
<1> DEFINE
      Path == ready' = ready /\ \A q \in Queues : Settled(q)' = Settled(q)
      Joins == joined' = joined /\ cut' = cut /\ snapshot' = snapshot
      Kept == \A p \in Producers, q \in Queues :
                 q \in publishing'[p].to => /\ q \in publishing[p].to
                                            /\ publishing'[p].seq = publishing[p].seq
      Bound == loop' = "unbound" => loop = "unbound"
<1>1. ASSUME Path, Joins, Kept, Bound PROVE LiveAfterCut' /\ UnboundUnheard'
  BY <1>1 DEF LiveAfterCut, UnboundUnheard
<1>2. ASSUME UNCHANGED <<ready, feedVars, publishing, loop, joined, cut, snapshot>>
      PROVE  LiveAfterCut' /\ UnboundUnheard'
  BY <1>1, <1>2 DEF Settled
<1>3. ASSUME NEW p \in Producers, NEW type \in Types, NEW run \in Runs, Stamp(p, type, run)
      PROVE  LiveAfterCut' /\ UnboundUnheard'
  <2>1. Path /\ Joins /\ Bound
    BY <1>3 DEF Stamp, Settled
  <2>2. \A x \in Producers, q \in Queues :
           q \in publishing'[x].to =>
              \/ q \in publishing[x].to /\ publishing'[x].seq = publishing[x].seq
              \/ q \in joined /\ publishing'[x].seq = Len(log) + 1
    BY <1>3 DEF Stamp, Holding, Idle, Audience, TypeOK
  <2>3. \A q \in Queues : Len(log) + 1 > cut[q]
    <3>1. \A q \in Queues : cut[q] \in (1..Len(log)) \cup {0}
      BY DEF TypeOK, Seqs
    <3> QED BY <3>1, PathTypes
  <2> QED BY <2>1, <2>2, <2>3 DEF LiveAfterCut, UnboundUnheard
<1>4. ASSUME NEW p \in Producers, PutRecord(p) PROVE LiveAfterCut' /\ UnboundUnheard'
  <2>1. Path /\ Joins /\ Bound
    BY <1>4 DEF PutRecord, Settled
  <2>2. Kept
    BY <1>4 DEF PutRecord, Holding, Idle, TypeOK
  <2> QED BY <1>1, <2>1, <2>2
<1>5. ASSUME NEW p \in Producers, Schedule(p) PROVE LiveAfterCut' /\ UnboundUnheard'
  <2>1. Joins /\ Bound /\ \A q \in Queues : Settled(q)' = Settled(q)
    BY <1>5 DEF Schedule, Settled
  <2>2. Kept
    BY <1>5 DEF Schedule, Idle, TypeOK
  <2>3. CASE ready' = ready
    BY <1>1, <2>1, <2>2, <2>3
  <2>4. CASE ready' = Append(ready, [seq |-> publishing[p].seq, to |-> publishing[p].to])
    <3>1. /\ [seq |-> publishing[p].seq, to |-> publishing[p].to] \in [seq : Seqs, to : SUBSET Queues]
          /\ ready \in Seq([seq : Seqs, to : SUBSET Queues])
      <4>1. publishing[p] \in Pending
        BY <1>5 DEF TypeOK, Idle, Schedule
      <4> QED BY <4>1 DEF TypeOK, Pending
    <3>2. /\ Len(ready) \in Nat /\ Len(ready') = Len(ready) + 1
          /\ \A i \in 1..Len(ready) : ready'[i] = ready[i]
          /\ ready'[Len(ready) + 1] = [seq |-> publishing[p].seq, to |-> publishing[p].to]
      BY <2>4, <3>1, AppendFacts
    <3>3. \A i \in 1..Len(ready') :
             \/ i \in 1..Len(ready) /\ ready'[i] = ready[i]
             \/ /\ ready'[i].seq = publishing[p].seq
                /\ ready'[i].to = publishing[p].to
      BY <3>2
    <3> QED BY <2>1, <2>2, <3>3 DEF LiveAfterCut, UnboundUnheard
  <2> QED BY <1>5, <2>3, <2>4 DEF Schedule
<1>6. CASE Fanout
  <2>1. Joins /\ Bound /\ publishing' = publishing
    BY <1>6 DEF Fanout
  <2>2. ready \in Seq([seq : Seqs, to : SUBSET Queues]) /\ ready # <<>> /\ ready' = Tail(ready)
    BY <1>6 DEF TypeOK, Fanout
  <2>3. /\ 1 \in 1..Len(ready)
        /\ \A i \in 1..Len(ready') : i + 1 \in 1..Len(ready) /\ ready'[i] = ready[i + 1]
    BY <2>2, TailFacts
  <2>4. \A q \in Queues : \A m \in Settled(q)' :
           m \in Settled(q) \/ (q \in ready[1].to /\ m = ready[1].seq)
    BY <1>6, FanoutSettles
  <2> QED BY <2>1, <2>3, <2>4 DEF LiveAfterCut, UnboundUnheard
<1>7. ASSUME NEW q \in Queues, SubscribeAndReplay(q) PROVE LiveAfterCut' /\ UnboundUnheard'
  <2>1. /\ ready' = ready /\ publishing' = publishing /\ loop' = loop /\ loop = "open"
        /\ q \notin joined /\ joined' = joined \cup {q}
        /\ \A x \in Queues : Settled(x)' = Settled(x)
        /\ \A x \in Queues : x # q => cut'[x] = cut[x] /\ snapshot'[x] = snapshot[x]
        /\ cut'[q] = Len(log) /\ snapshot'[q] = Replay
    BY <1>7 DEF SubscribeAndReplay, Settled, TypeOK
  <2>2. \A m \in Replay : m \leq Len(log)
    BY DEF Replay, ToSet, TypeOK, Seqs
  <2>3. Settled(q) = {} /\ (\A i \in 1..Len(ready) : q \notin ready[i].to)
        /\ (\A p \in Producers : q \notin publishing[p].to)
    BY <2>1 DEF LiveAfterCut
  <2> QED BY <2>1, <2>2, <2>3 DEF LiveAfterCut, UnboundUnheard
<1>8. ASSUME NEW q \in Queues, Get(q) PROVE LiveAfterCut' /\ UnboundUnheard'
  <2>1. Path
    BY <1>8, GetSettles DEF Get
  <2> QED BY <1>1, <1>8, <2>1 DEF Get
<1>9. ASSUME NEW q \in Queues, Unsubscribe(q) PROVE LiveAfterCut' /\ UnboundUnheard'
  BY <1>2, <1>9 DEF Unsubscribe
<1>10. CASE Clear
  BY <1>2, <1>10 DEF Clear
<1>11. CASE BindLoop
  BY <1>1, <1>11 DEF BindLoop, Settled
<1>12. CASE CloseLoop
  <2>1. /\ Joins /\ Kept /\ Bound /\ Len(ready') = 0
        /\ \A q \in Queues : Settled(q)' = Settled(q)
    BY <1>12 DEF CloseLoop, Settled
  <2> QED BY <2>1 DEF LiveAfterCut, UnboundUnheard
<1>13. ASSUME NEW path \in Paths, SetJsonl(path) PROVE LiveAfterCut' /\ UnboundUnheard'
  BY <1>2, <1>13 DEF SetJsonl
<1>14. CASE WriteRecord
  BY <1>2, <1>14 DEF WriteRecord
<1>15. CASE UNCHANGED vars
  BY <1>2, <1>15
<1> QED
  BY <1>3, <1>4, <1>5, <1>6, <1>7, <1>8, <1>9, <1>10, <1>11, <1>12, <1>13, <1>14, <1>15
  DEF Next

LEMMA CutInvariant == Spec => [](LiveAfterCut /\ UnboundUnheard)
<1>1. Init => LiveAfterCut /\ UnboundUnheard
  BY DEF Init, LiveAfterCut, UnboundUnheard, Settled, ToSet, Idle
<1>2. TypeOK /\ LiveAfterCut /\ UnboundUnheard /\ [Next]_vars => LiveAfterCut' /\ UnboundUnheard'
  BY CutStep
<1> QED BY <1>1, <1>2, TypeCorrect, PTL DEF Spec

(* An event reaches a consumer at most once, replayed or live, for any     *)
(* number of threads and consumers and any queue size.                     *)
THEOREM DeliveredOnce == Spec => []AtMostOnce
<1>1. TypeOK /\ OrderInv /\ LiveAfterCut => AtMostOnce
  <2> SUFFICES ASSUME TypeOK, OrderInv, LiveAfterCut, NEW q \in joined
               PROVE  LET live == received[q] \o queue[q] IN
                      /\ snapshot[q] \cap (Due(q) \cup ToSet(received[q]) \cup overflow[q]) = {}
                      /\ InFlight(q) \cap Scheduled(q) = {}
                      /\ (InFlight(q) \cup Scheduled(q)) \cap (ToSet(live) \cup overflow[q]) = {}
                      /\ ToSet(live) \cap overflow[q] = {}
                      /\ \A i, j \in DOMAIN live : live[i] = live[j] => i = j
    BY DEF AtMostOnce
  <2> DEFINE live == received[q] \o queue[q]
  <2>1. /\ q \in Queues /\ received[q] \in Seq(Seqs) /\ queue[q] \in Seq(Seqs)
        /\ snapshot[q] \subseteq Seqs /\ cut[q] \in Seqs \cup {0} /\ Len(log) \in Nat
    BY PathTypes DEF TypeOK
  <2>2. ToSet(live) = ToSet(received[q]) \cup ToSet(queue[q])
    BY <2>1, LineMembers
  <2>3. Settled(q) \subseteq Seqs
    BY <2>1, PathTypes
  <2>4. DOMAIN ready = 1..Len(ready)
    BY DEF TypeOK
  <2>5. /\ \A n \in Scheduled(q) : \E i \in 1..Len(ready) : q \in ready[i].to /\ n = ready[i].seq
        /\ \A n \in InFlight(q) : \E p \in Producers : q \in publishing[p].to /\ Held(p)
                                                       /\ n = publishing[p].seq
    BY <2>4 DEF Scheduled, InFlight, Held
  <2>6. \A n \in Scheduled(q) \cup InFlight(q) : n \in Seqs
    BY <2>5, PathTypes
  <2>7. \A n \in Seqs : ~Before(n, n)
    BY <2>1 DEF Before, Seqs
  <2>8. InFlight(q) \cap Scheduled(q) = {}
    <3>1. \A m \in Scheduled(q), n \in InFlight(q) : Before(m, n)
      BY <2>5 DEF OrderInv, ReadyBeforeHeld
    <3> QED BY <2>6, <2>7, <3>1
  <2>9. (InFlight(q) \cup Scheduled(q)) \cap Settled(q) = {}
    <3>1. \A m \in Settled(q), n \in Scheduled(q) \cup InFlight(q) : Before(m, n)
      BY <2>1, <2>5 DEF OrderInv, SettledBeforeReady, SettledBeforeHeld
    <3> QED BY <2>6, <2>7, <3>1
  <2>10. ToSet(queue[q]) \cap overflow[q] = {}
    <3>1. \A m \in overflow[q], n \in ToSet(queue[q]) : Before(m, n)
      <4>1. \A n \in ToSet(queue[q]) : \E i \in 1..Len(queue[q]) : n = queue[q][i]
        BY <2>1 DEF ToSet
      <4> QED BY <2>1, <4>1 DEF OrderInv, GoneBeforeQueued, Gone
    <3>2. overflow[q] \subseteq Seqs
      BY <2>3 DEF Settled
    <3> QED BY <2>7, <3>1, <3>2
  <2>11. ToSet(received[q]) \cap overflow[q] = {}
    BY <2>1 DEF OrderInv, TakenOrDropped
  <2>12. \A m \in snapshot[q], n \in Settled(q) \cup Scheduled(q) \cup InFlight(q) : m # n
    <3>1. \A n \in Settled(q) \cup Scheduled(q) \cup InFlight(q) : n > cut[q]
      BY <2>1, <2>5 DEF LiveAfterCut
    <3>2. \A m \in snapshot[q] : m \leq cut[q]
      BY <2>1 DEF LiveAfterCut
    <3> QED BY <2>1, <2>3, <2>6, <3>1, <3>2 DEF Seqs
  <2>13. \A i, j \in DOMAIN live : live[i] = live[j] => i = j
    <3>1. \A i, j \in DOMAIN live : i < j => Before(live[i], live[j])
      BY <2>1, LineOrder
    <3>2. \A i \in DOMAIN live : live[i] \in Seqs
      <4>1. \A i \in DOMAIN live : live[i] \in ToSet(live)
        BY DEF ToSet
      <4> QED BY <2>2, <2>3, <4>1 DEF Settled
    <3>3. DOMAIN live \subseteq Nat
      <4>1. DOMAIN live = 1..(Len(received[q]) + Len(queue[q]))
        BY <2>1, LineLength
      <4>2. Len(received[q]) \in Nat /\ Len(queue[q]) \in Nat
        BY <2>1
      <4>3. \A i \in 1..(Len(received[q]) + Len(queue[q])) : i \in Nat
        BY <4>2
      <4> QED BY <4>1, <4>3, Zenon
    <3> HIDE DEF live
    <3> QED BY <2>7, <3>1, <3>2, <3>3
  <2> HIDE DEF live
  <2>14. snapshot[q] \cap (Due(q) \cup ToSet(received[q]) \cup overflow[q]) = {}
    BY <2>12 DEF Due, Settled
  <2>15. (InFlight(q) \cup Scheduled(q)) \cap (ToSet(live) \cup overflow[q]) = {}
    BY <2>2, <2>9 DEF Settled
  <2>16. ToSet(live) \cap overflow[q] = {}
    BY <2>2, <2>10, <2>11
  <2> QED BY <2>8, <2>13, <2>14, <2>15, <2>16 DEF live
<1> QED BY <1>1, TypeCorrect, OrderInvariant, CutInvariant, PTL

\* Where an event for a queue can be, from its stamp on.
Live(q) == InFlight(q) \cup Scheduled(q) \cup Settled(q)

LEMMA LossStep ==
    TypeOK /\ UnboundUnheard /\ NothingLostAtConnect /\ [Next]_vars => NothingLostAtConnect'
<1> DEFINE NL == \A q \in subscribers : loop = "open" => (cut[q] + 1)..Len(log) \subseteq Live(q)
<1>a. NothingLostAtConnect <=> NL
  BY DEF NothingLostAtConnect, Due, Settled, Live
<1>b. NothingLostAtConnect' <=> NL'
  BY DEF NothingLostAtConnect, Due, Settled, Live
<1> SUFFICES ASSUME TypeOK, UnboundUnheard, NL, [Next]_vars,
                    NEW q \in subscribers', loop' = "open"
             PROVE  ((cut[q] + 1)..Len(log))' \subseteq Live(q)'
  BY <1>a, <1>b
<1> USE DEF feedVars, joinVars, vars, Live
<1> HIDE DEF NL
<1>0. q \in Queues
  <2>1. TypeOK'
    BY TypeStep
  <2> QED BY <2>1 DEF TypeOK
<1> DEFINE Old == q \in subscribers /\ loop = "open" /\ log' = log /\ cut'[q] = cut[q]
<1>1. ASSUME Old, Live(q) \subseteq Live(q)'
      PROVE  ((cut[q] + 1)..Len(log))' \subseteq Live(q)'
  BY <1>1 DEF NL
<1>2. ASSUME Old, UNCHANGED <<ready, feedVars, publishing>>
      PROVE  ((cut[q] + 1)..Len(log))' \subseteq Live(q)'
  BY <1>1, <1>2 DEF Settled, InFlight, Scheduled
<1>3. ASSUME NEW p \in Producers, NEW type \in Types, NEW run \in Runs, Stamp(p, type, run)
      PROVE  ((cut[q] + 1)..Len(log))' \subseteq Live(q)'
  <2>1. /\ q \in subscribers /\ loop = "open" /\ cut' = cut /\ Len(log') = Len(log) + 1
        /\ q \in Audience
    BY <1>3, StampOrder DEF Stamp, Audience
  <2>2. Scheduled(q)' = Scheduled(q) /\ Settled(q)' = Settled(q)
    BY <1>3 DEF Stamp, Scheduled, Settled
  <2>3. /\ publishing'[p].seq = Len(log) + 1 /\ q \in publishing'[p].to
        /\ \A x \in Producers : q \in publishing[x].to => publishing'[x] = publishing[x]
    BY <1>3, <2>1 DEF Stamp, Holding, Idle, TypeOK
  <2>4. InFlight(q) \cup {Len(log) + 1} \subseteq InFlight(q)'
    BY <2>3 DEF InFlight
  <2>5. \A n \in (cut[q] + 1)..(Len(log) + 1) : n \in (cut[q] + 1)..Len(log) \/ n = Len(log) + 1
    BY <1>0, PathTypes DEF TypeOK, Seqs
  <2> QED BY <2>1, <2>2, <2>4, <2>5 DEF NL
<1>4. ASSUME NEW p \in Producers, PutRecord(p)
      PROVE  ((cut[q] + 1)..Len(log))' \subseteq Live(q)'
  <2>1. Old /\ Scheduled(q)' = Scheduled(q) /\ Settled(q)' = Settled(q)
    BY <1>4 DEF PutRecord, Scheduled, Settled
  <2>2. \A x \in Producers : q \in publishing[x].to =>
           q \in publishing'[x].to /\ publishing'[x].seq = publishing[x].seq
    BY <1>4 DEF PutRecord, Holding, TypeOK
  <2>3. InFlight(q) \subseteq InFlight(q)'
    BY <2>2 DEF InFlight
  <2> QED BY <1>1, <2>1, <2>3
<1>5. ASSUME NEW p \in Producers, Schedule(p)
      PROVE  ((cut[q] + 1)..Len(log))' \subseteq Live(q)'
  <2>1. Old /\ Settled(q)' = Settled(q)
    BY <1>5 DEF Schedule, Settled
  <2>2. /\ [seq |-> publishing[p].seq, to |-> publishing[p].to] \in [seq : Seqs, to : SUBSET Queues]
        /\ ready \in Seq([seq : Seqs, to : SUBSET Queues])
    <3>1. publishing[p] \in Pending
      BY <1>5 DEF TypeOK, Idle, Schedule
    <3> QED BY <3>1 DEF TypeOK, Pending
  <2>3. /\ Len(ready) \in Nat /\ DOMAIN ready = 1..Len(ready)
        /\ DOMAIN ready' = 1..(Len(ready) + 1)
        /\ \A i \in 1..Len(ready) : ready'[i] = ready[i]
        /\ ready'[Len(ready) + 1] = [seq |-> publishing[p].seq, to |-> publishing[p].to]
    BY <1>5, <2>1, <2>2, AppendFacts DEF Schedule
  <2>4. Scheduled(q) \subseteq Scheduled(q)'
    BY <2>3 DEF Scheduled
  <2>5. q \in publishing[p].to => publishing[p].seq \in Scheduled(q)'
    <3>1. Len(ready) + 1 \in DOMAIN ready'
      BY <2>3
    <3> QED BY <2>3, <3>1 DEF Scheduled
  <2>6. \A x \in Producers : x # p => publishing'[x] = publishing[x]
    BY <1>5 DEF Schedule, TypeOK
  <2>7. InFlight(q) \subseteq InFlight(q)' \cup Scheduled(q)'
    BY <2>5, <2>6 DEF InFlight
  <2> QED BY <1>1, <2>1, <2>4, <2>7
<1>6. CASE Fanout
  <2>1. Old /\ InFlight(q)' = InFlight(q)
    BY <1>6 DEF Fanout, InFlight
  <2>2. ready \in Seq([seq : Seqs, to : SUBSET Queues]) /\ ready # <<>> /\ ready' = Tail(ready)
    BY <1>6 DEF TypeOK, Fanout
  <2>3. /\ Len(ready) \in Nat /\ DOMAIN ready = 1..Len(ready)
        /\ DOMAIN ready' = 1..(Len(ready) - 1)
        /\ \A i \in 1..(Len(ready) - 1) : ready'[i] = ready[i + 1]
    BY <2>2, TailFacts
  <2>4. ASSUME NEW i \in DOMAIN ready, q \in ready[i].to
        PROVE  ready[i].seq \in Scheduled(q)' \/ (i = 1 /\ ready[i].seq \in Settled(q)')
    <3>1. CASE i = 1
      BY <1>0, <1>6, <2>4, <3>1, FanoutSettles
    <3>2. CASE i - 1 \in 1..(Len(ready) - 1)
      <4>1. i - 1 \in DOMAIN ready' /\ ready'[i - 1] = ready[i]
        BY <2>3, <3>2
      <4> QED BY <2>4, <4>1 DEF Scheduled
    <3> QED BY <2>3, <3>1, <3>2
  <2>5. Scheduled(q) \subseteq Scheduled(q)' \cup Settled(q)'
    BY <2>4 DEF Scheduled
  <2>6. Settled(q) \subseteq Settled(q)'
    BY <1>0, <1>6, FanoutSettles
  <2> QED BY <1>1, <2>1, <2>5, <2>6
<1>7. ASSUME NEW x \in Queues, SubscribeAndReplay(x)
      PROVE  ((cut[q] + 1)..Len(log))' \subseteq Live(q)'
  <2>1. CASE x = q
    <3>1. cut'[q] = Len(log) /\ log' = log
      BY <1>7, <2>1 DEF SubscribeAndReplay, TypeOK
    <3>2. \A n \in ((cut[q] + 1)..Len(log))' : FALSE
      BY <3>1, PathTypes
    <3> QED BY <3>2
  <2>2. CASE x # q
    <3>1. Old /\ UNCHANGED <<ready, feedVars, publishing>>
      BY <1>0, <1>7, <2>2 DEF SubscribeAndReplay, TypeOK
    <3> QED BY <1>2, <3>1
  <2> QED BY <2>1, <2>2
<1>8. ASSUME NEW x \in Queues, Get(x)
      PROVE  ((cut[q] + 1)..Len(log))' \subseteq Live(q)'
  <2>1. Old /\ InFlight(q)' = InFlight(q) /\ Scheduled(q)' = Scheduled(q)
    BY <1>8 DEF Get, InFlight, Scheduled
  <2>2. Settled(q)' = Settled(q)
    BY <1>0, <1>8, GetSettles
  <2> QED BY <1>1, <2>1, <2>2
<1>9. ASSUME NEW x \in Queues, Unsubscribe(x)
      PROVE  ((cut[q] + 1)..Len(log))' \subseteq Live(q)'
  BY <1>2, <1>9 DEF Unsubscribe
<1>10. CASE Clear
  BY <1>2, <1>10 DEF Clear
<1>11. CASE BindLoop
  BY <1>11 DEF BindLoop, UnboundUnheard, TypeOK
<1>12. CASE CloseLoop
  BY <1>12 DEF CloseLoop
<1>13. ASSUME NEW path \in Paths, SetJsonl(path)
      PROVE  ((cut[q] + 1)..Len(log))' \subseteq Live(q)'
  BY <1>2, <1>13 DEF SetJsonl
<1>14. CASE WriteRecord
  BY <1>2, <1>14 DEF WriteRecord
<1>15. CASE UNCHANGED vars
  BY <1>2, <1>15
<1> QED
  BY <1>3, <1>4, <1>5, <1>6, <1>7, <1>8, <1>9, <1>10, <1>11, <1>12, <1>13, <1>14, <1>15
  DEF Next

(* Nothing is lost at connect time: once a consumer is registered, every   *)
(* event stamped is due to it, taken, or dropped by its own full queue.    *)
THEOREM ConnectLosesNothing == Spec => []NothingLostAtConnect
<1>1. Init => NothingLostAtConnect
  BY DEF Init, NothingLostAtConnect
<1>2. TypeOK /\ UnboundUnheard /\ NothingLostAtConnect /\ [Next]_vars => NothingLostAtConnect'
  BY LossStep
<1> QED BY <1>1, <1>2, TypeCorrect, CutInvariant, PTL DEF Spec

-----------------------------------------------------------------------------
(* The bus implements the feed that EventFeed promises a consumer.  What    *)
(* is due to it is spread over publishers, the loop and its queue.         *)

(* An event is in one place only on its way to a consumer.                 *)
LEMMA Apart ==
    ASSUME TypeOK, OrderInv, NEW q \in Queues
    PROVE  /\ Due(q) \subseteq Seqs
           /\ InFlight(q) \cap Scheduled(q) = {}
           /\ (InFlight(q) \cup Scheduled(q)) \cap Settled(q) = {}
           /\ ToSet(queue[q]) \cap Gone(q) = {}
<1>1. /\ received[q] \in Seq(Seqs) /\ queue[q] \in Seq(Seqs) /\ Settled(q) \subseteq Seqs
      /\ DOMAIN ready = 1..Len(ready) /\ Len(log) \in Nat
  BY PathTypes DEF TypeOK
<1>2. /\ \A n \in Scheduled(q) : \E i \in 1..Len(ready) : q \in ready[i].to /\ n = ready[i].seq
      /\ \A n \in InFlight(q) : \E p \in Producers : q \in publishing[p].to /\ Held(p)
                                                     /\ n = publishing[p].seq
  BY <1>1 DEF Scheduled, InFlight, Held
<1>3. \A n \in Scheduled(q) \cup InFlight(q) : n \in Seqs
  BY <1>2, PathTypes
<1>4. \A n \in Seqs : ~Before(n, n)
  BY <1>1 DEF Before, Seqs
<1>5. InFlight(q) \cap Scheduled(q) = {}
  <2>1. \A m \in Scheduled(q), n \in InFlight(q) : Before(m, n)
    BY <1>2 DEF OrderInv, ReadyBeforeHeld
  <2> QED BY <1>3, <1>4, <2>1
<1>6. (InFlight(q) \cup Scheduled(q)) \cap Settled(q) = {}
  <2>1. \A m \in Settled(q), n \in Scheduled(q) \cup InFlight(q) : Before(m, n)
    BY <1>2 DEF OrderInv, SettledBeforeReady, SettledBeforeHeld
  <2> QED BY <1>3, <1>4, <2>1
<1>7. ToSet(queue[q]) \cap Gone(q) = {}
  <2>1. \A n \in ToSet(queue[q]) : \E i \in 1..Len(queue[q]) : n = queue[q][i]
    BY <1>1 DEF ToSet
  <2>2. \A m \in Gone(q), n \in ToSet(queue[q]) : Before(m, n)
    BY <2>1 DEF OrderInv, GoneBeforeQueued
  <2>3. Gone(q) \subseteq Seqs
    BY <1>1 DEF Settled, Gone
  <2> QED BY <1>4, <2>2, <2>3
<1>8. Due(q) \subseteq Seqs
  BY <1>1, <1>3 DEF Due, Settled
<1> QED BY <1>5, <1>6, <1>7, <1>8

(* A queue that is full when another event comes for it: its consumer has  *)
(* more due than the queue can hold.                                       *)
LEMMA FullQueue ==
    ASSUME TypeOK, OrderInv, NEW q \in Queues, Len(queue[q]) = QueueSize,
           NEW n \in Due(q), n \notin ToSet(queue[q])
    PROVE  Cardinality(Due(q)) > QueueSize
<1>1. /\ queue[q] \in Seq(Seqs) /\ Len(log) \in Nat /\ Due(q) \subseteq Seqs
      /\ DOMAIN queue[q] = 1..QueueSize /\ \A i \in 1..QueueSize : queue[q][i] \in Seqs
      /\ QueueSize \in Nat
  BY PathTypes, Apart, SizesAssumption DEF TypeOK
<1>2. IsFiniteSet(Due(q)) /\ Cardinality(Due(q)) \in Nat
  <2>1. IsFiniteSet(Seqs)
    <3>1. 1 \in Int /\ Len(log) \in Int
      BY <1>1
    <3>2. IsFiniteSet(1..Len(log))
      BY <3>1, FS_Interval
    <3> QED BY <3>2 DEF Seqs
  <2> QED BY <1>1, <2>1, FS_Subset, FS_CardinalityType
<1>3. /\ IsFiniteSet(Due(q) \ {n})
      /\ Cardinality(Due(q) \ {n}) = Cardinality(Due(q)) - 1
  BY <1>2, FS_RemoveElement
<1>4. queue[q] \in Injection(1..QueueSize, Due(q) \ {n})
  <2>1. \A i \in 1..QueueSize : queue[q][i] \in Due(q) \ {n}
    <3>1. \A i \in 1..QueueSize : queue[q][i] \in ToSet(queue[q])
      BY <1>1 DEF ToSet
    <3> QED BY <3>1 DEF Due
  <2>2. \A i, j \in 1..QueueSize : queue[q][i] = queue[q][j] => i = j
    <3>1. \A i, j \in 1..QueueSize : i < j => Before(queue[q][i], queue[q][j])
      BY DEF OrderInv, QueueInOrder
    <3>2. \A m \in Seqs : ~Before(m, m)
      BY <1>1 DEF Before, Seqs
    <3>3. \A i, j \in 1..QueueSize : i < j => queue[q][i] # queue[q][j]
      BY <1>1, <3>1, <3>2
    <3>4. \A i, j \in 1..QueueSize : i < j \/ j < i \/ i = j
      BY <1>1
    <3> QED BY <3>3, <3>4
  <2>3. queue[q] \in [1..QueueSize -> Due(q) \ {n}]
    BY <1>1, <2>1
  <2> QED BY <1>1, <2>2, <2>3 DEF Injection, IsInjective
<1>5. Cardinality(1..QueueSize) = QueueSize
  BY <1>1, FS_Interval
<1>6. QueueSize <= Cardinality(Due(q)) - 1
  BY <1>3, <1>4, <1>5, FS_Injection
<1> QED BY <1>1, <1>2, <1>6

(* How the bus and its feed correspond, whatever the step.                 *)
DueMap == [q \in Queues |-> Due(q)]

LEMMA FeedFrame ==
    ASSUME log' = log, loop' = loop, subscribers' = subscribers, received' = received,
           \A q \in Queues : Due(q)' = Due(q)
    PROVE  UNCHANGED Feed!vars
<1>1. DueMap' = DueMap
  BY DEF DueMap
<1> QED BY <1>1 DEF Feed!vars, DueMap

(* A publish makes its event due to every subscriber.                      *)
LEMMA FeedPublish ==
    ASSUME TypeOK, UnboundUnheard, NEW p \in Producers, NEW type \in Types, NEW run \in Runs,
           Stamp(p, type, run)
    PROVE  Feed!Publish
<1>1. /\ Len(log') = Len(log) + 1 /\ loop' = loop
      /\ subscribers' = subscribers /\ received' = received /\ queue' = queue /\ ready' = ready
  BY StampOrder DEF Stamp, joinVars, feedVars
<1>2. Audience = subscribers
  BY DEF Audience, UnboundUnheard, TypeOK
<1>3. \A q \in Queues : Due(q)' = IF q \in subscribers THEN Due(q) \cup {Len(log) + 1} ELSE Due(q)
  <2> TAKE q \in Queues
  <2>1. Scheduled(q)' = Scheduled(q) /\ ToSet(queue[q])' = ToSet(queue[q])
    BY <1>1 DEF Scheduled
  <2>2. /\ publishing[p].to = {}
        /\ publishing'[p].to = subscribers
        /\ subscribers # {} => publishing'[p].seq = Len(log) + 1
        /\ \A x \in Producers : x # p => publishing'[x] = publishing[x]
    BY <1>2 DEF Stamp, Holding, Idle, TypeOK
  <2>3. InFlight(q)' = IF q \in subscribers THEN InFlight(q) \cup {Len(log) + 1} ELSE InFlight(q)
    BY <2>2 DEF InFlight
  <2> QED BY <2>1, <2>3 DEF Due
<1>4. DueMap' = [q \in Queues |-> IF q \in subscribers THEN DueMap[q] \cup {Len(log) + 1} ELSE DueMap[q]]
  BY <1>3 DEF DueMap
<1> QED BY <1>1, <1>4 DEF Feed!Publish, DueMap

(* A loop that is closed loses what is handed to it, and what it holds.    *)
LEMMA FeedShut ==
    ASSUME TypeOK, OrderInv, log' = log, loop' # "open", subscribers' = subscribers,
           received' = received, \A q \in Queues : Due(q)' \subseteq Due(q)
    PROVE  Feed!Shut
<1>1. \A q \in Queues : Due(q)' \in SUBSET (1..Len(log))
  BY Apart DEF Seqs
<1>2. DueMap' \in [Queues -> SUBSET (1..Len(log))] /\ \A q \in Queues : DueMap'[q] \subseteq DueMap[q]
  BY <1>1 DEF DueMap
<1> QED BY <1>2 DEF Feed!Shut, DueMap

(* Handing an event to the open loop leaves it due; to a closed one, loses *)
(* it.                                                                     *)
LEMMA FeedSchedule ==
    ASSUME TypeOK, OrderInv, NEW p \in Producers, Schedule(p)
    PROVE  Feed!Shut \/ UNCHANGED Feed!vars
<1>1. /\ log' = log /\ loop' = loop /\ subscribers' = subscribers /\ received' = received
      /\ queue' = queue
      /\ publishing'[p].to = {} /\ \A x \in Producers : x # p => publishing'[x] = publishing[x]
  BY DEF Schedule, joinVars, feedVars, TypeOK, Idle
<1>2. \A q \in Queues :
         /\ InFlight(q)' \subseteq InFlight(q)
         /\ InFlight(q) \subseteq InFlight(q)' \cup (IF q \in publishing[p].to THEN {publishing[p].seq} ELSE {})
         /\ q \in publishing[p].to => publishing[p].seq \in InFlight(q)
  BY <1>1 DEF InFlight
<1>3. CASE loop # "open"
  <2>1. ready' = ready
    BY <1>3 DEF Schedule
  <2>2. \A q \in Queues : Due(q)' \subseteq Due(q)
    BY <1>1, <1>2, <2>1 DEF Due, Scheduled
  <2> QED BY <1>1, <1>3, <2>2, FeedShut
<1>4. CASE loop = "open"
  <2> DEFINE e == [seq |-> publishing[p].seq, to |-> publishing[p].to]
  <2>1. e \in [seq : Seqs, to : SUBSET Queues] /\ ready \in Seq([seq : Seqs, to : SUBSET Queues])
    <3>1. publishing[p] \in Pending
      BY DEF TypeOK, Idle, Schedule
    <3> QED BY <3>1 DEF TypeOK, Pending
  <2>2. ready' = Append(ready, e)
    BY <1>4 DEF Schedule
  <2>3. /\ DOMAIN ready = 1..Len(ready) /\ DOMAIN ready' = 1..(Len(ready) + 1) /\ Len(ready) \in Nat
        /\ \A i \in 1..Len(ready) : ready'[i] = ready[i]
        /\ ready'[Len(ready) + 1] = e
    BY <2>1, <2>2, AppendFacts
  <2>4. e.seq = publishing[p].seq /\ e.to = publishing[p].to
    OBVIOUS
  <2> HIDE DEF e
  <2>5. ASSUME NEW q \in Queues PROVE Due(q)' = Due(q)
    <3>1. Scheduled(q)' = Scheduled(q) \cup (IF q \in publishing[p].to THEN {publishing[p].seq} ELSE {})
      <4>1. DOMAIN ready' = DOMAIN ready \cup {Len(ready) + 1}
        BY <2>3
      <4> QED BY <2>3, <2>4, <4>1 DEF Scheduled
    <3> QED BY <1>1, <1>2, <3>1 DEF Due
  <2> QED BY <1>1, <2>5, FeedFrame
<1> QED BY <1>3, <1>4

(* A fanout leaves its event due, in the queue; a queue that was full      *)
(* sheds its oldest.                                                       *)
LEMMA FeedFanout ==
    ASSUME TypeOK, OrderInv, Fanout
    PROVE  Feed!Shed
<1>1. /\ log' = log /\ loop' = loop /\ subscribers' = subscribers /\ received' = received
      /\ publishing' = publishing
  BY DEF Fanout, joinVars
<1>2. /\ ready # <<>> /\ 1 \in DOMAIN ready
      /\ DOMAIN ready = {1} \cup {i + 1 : i \in DOMAIN ready'}
      /\ \A i \in DOMAIN ready' : ready'[i] = ready[i + 1]
  <2>1. ready \in Seq([seq : Seqs, to : SUBSET Queues]) /\ ready # <<>> /\ ready' = Tail(ready)
    BY DEF TypeOK, Fanout
  <2>2. /\ Len(ready) \in Nat /\ Len(ready) > 0
        /\ DOMAIN ready = 1..Len(ready)
        /\ DOMAIN ready' = 1..(Len(ready) - 1)
        /\ \A i \in 1..(Len(ready) - 1) : ready'[i] = ready[i + 1]
    BY <2>1, TailFacts
  <2>3. \A i \in 1..Len(ready) : i = 1 \/ (i - 1 \in 1..(Len(ready) - 1) /\ i = (i - 1) + 1)
    BY <2>2
  <2>4. \A i \in 1..(Len(ready) - 1) : i + 1 \in 1..Len(ready)
    BY <2>2
  <2>5. 1 \in 1..Len(ready)
    BY <2>2
  <2>6. 1..Len(ready) = {1} \cup {i + 1 : i \in 1..(Len(ready) - 1)}
    BY <2>3, <2>4, <2>5
  <2> QED BY <2>1, <2>2, <2>5, <2>6
<1> DEFINE n == ready[1].seq
<1>3. TypeOK' /\ OrderInv'
  BY FanoutTypes, FanoutPath
<1>4. ASSUME NEW q \in Queues
      PROVE  \/ Due(q)' = Due(q)
             \/ /\ Cardinality(Due(q)) > QueueSize
                /\ \E m \in Due(q) : Due(q)' = Due(q) \ {m}
  <2>1. InFlight(q)' = InFlight(q)
    BY <1>1 DEF InFlight
  <2>2. Scheduled(q) = Scheduled(q)' \cup (IF q \in ready[1].to THEN {n} ELSE {})
    BY <1>2 DEF Scheduled
  <2>3. CASE q \notin ready[1].to
    <3>1. queue'[q] = queue[q]
      BY <2>3, FanoutQueue
    <3> QED BY <2>1, <2>2, <2>3, <3>1 DEF Due
  <2>4. CASE q \in ready[1].to
    <3>1. Settled(q)' = Settled(q) \cup {n}
      BY <2>4, FanoutSettles
    <3>2. PICK d \in {0, 1} :
            /\ Len(queue[q]) >= d
            /\ Len(queue'[q]) = Len(queue[q]) + 1 - d
            /\ overflow'[q] = overflow[q] \cup (IF d = 0 THEN {} ELSE {queue[q][1]})
      BY <2>4, FanoutQueue
    <3> DEFINE D == IF d = 0 THEN {} ELSE {queue[q][1]}
    <3>3. D \subseteq ToSet(queue[q])
      <4>1. d = 1 => 1 \in DOMAIN queue[q]
        BY <3>2 DEF TypeOK
      <4> QED BY <4>1 DEF ToSet
    <3>4. n \in Scheduled(q) /\ n \notin Settled(q)
      BY <2>2, <2>4, Apart
    <3>5. ToSet(queue'[q]) = (ToSet(queue[q]) \cup {n}) \ D
      <4>1. /\ ToSet(queue'[q]) \cap (ToSet(received[q]) \cup overflow'[q]) = {}
            /\ ToSet(queue'[q]) \cup ToSet(received[q]) \cup overflow'[q]
                  = ToSet(queue[q]) \cup ToSet(received[q]) \cup overflow[q] \cup {n}
        <5>1. (ToSet(queue[q]) \cap Gone(q) = {})'
          BY <1>3, Apart, PTL
        <5> QED BY <1>1, <3>1, <5>1 DEF Settled, Gone
      <4>2. ToSet(queue[q]) \cap (ToSet(received[q]) \cup overflow[q]) = {}
        BY Apart DEF Gone
      <4>3. n \notin ToSet(received[q]) \cup overflow[q] \cup ToSet(queue[q])
        BY <3>4 DEF Settled
      <4>4. overflow'[q] = overflow[q] \cup D
        BY <3>2
      <4> HIDE DEF D, n
      <4> QED BY <3>3, <4>1, <4>2, <4>3, <4>4
    <3>6. D \cap (InFlight(q) \cup Scheduled(q)) = {}
      BY <3>3, Apart DEF Settled
    <3>7. Due(q)' = Due(q) \ D
      <4> HIDE DEF D, n
      <4> QED BY <2>1, <2>2, <2>4, <3>3, <3>4, <3>5, <3>6 DEF Due
    <3>8. CASE d = 0
      BY <3>7, <3>8
    <3>9. CASE d = 1
      <4>1. Len(queue[q]) = QueueSize
        <5>1. Head(ready).seq = n /\ q \in Recipients
          BY <1>2, <2>4, TailFacts DEF Recipients, TypeOK
        <5>2. queue'[q] = Offer(queue[q], n)
          BY <5>1 DEF Fanout
        <5>3. queue[q] \in Seq(Seqs) /\ Len(queue[q]) <= QueueSize /\ Len(queue[q]) \in Nat
              /\ Len(queue'[q]) = Len(queue[q])
          BY <3>2, <3>9 DEF TypeOK
        <5>4. ~(Len(queue[q]) < QueueSize)
          BY <5>2, <5>3, AppendProperties DEF Offer
        <5> QED BY <5>3, <5>4, SizesAssumption
      <4>2. Cardinality(Due(q)) > QueueSize
        BY <3>4, <4>1, FullQueue DEF Due, Settled
      <4>3. queue[q][1] \in Due(q) /\ Due(q)' = Due(q) \ {queue[q][1]}
        BY <3>3, <3>7, <3>9 DEF Due
      <4> QED BY <4>2, <4>3
    <3> QED BY <3>8, <3>9
  <2> QED BY <2>3, <2>4
<1>5. \A q \in Queues : Due(q)' \in SUBSET (1..Len(log))
  BY <1>4, Apart DEF Seqs
<1>6. \A A : Feed!Cardinality(A) = Cardinality(A)
  BY DEF Feed!Cardinality, Cardinality
<1>7. /\ DueMap' \in [Queues -> SUBSET (1..Len(log))]
      /\ \A q \in Queues : \/ DueMap'[q] = DueMap[q]
                           \/ /\ Feed!Cardinality(DueMap[q]) > QueueSize
                              /\ \E m \in DueMap[q] : DueMap'[q] = DueMap[q] \ {m}
  BY <1>4, <1>5, <1>6 DEF DueMap
<1> QED BY <1>1, <1>7 DEF Feed!Shed, DueMap

(* Taking an event from the queue delivers it: it was due once.            *)
LEMMA FeedDeliver ==
    ASSUME TypeOK, OrderInv, NEW q \in Queues, Get(q)
    PROVE  Feed!Deliver(q)
<1>1. /\ log' = log /\ loop' = loop /\ subscribers' = subscribers /\ publishing' = publishing
      /\ ready' = ready /\ overflow' = overflow /\ q \in subscribers
      /\ queue[q] \in Seq(Seqs) /\ queue[q] # <<>> /\ received[q] \in Seq(Seqs)
      /\ queue'[q] = Tail(queue[q])
      /\ \A x \in Queues : x # q => queue'[x] = queue[x]
      /\ received' = [received EXCEPT ![q] = Append(@, Head(queue[q]))]
      /\ received \in [Queues -> Seq(Seqs)]
  BY DEF Get, joinVars, TypeOK
<1> DEFINE n == Head(queue[q])
<1>2. ToSet(queue[q]) = {n} \cup ToSet(queue'[q]) /\ n \in Seqs
  BY <1>1, HeadTailMembers, TailFacts
<1>3. n \notin ToSet(queue'[q])
  <2>1. \A i \in 2..Len(queue[q]) : Before(queue[q][1], queue[q][i])
    <3>1. 1 \in 1..Len(queue[q]) /\ \A i \in 2..Len(queue[q]) : i \in 1..Len(queue[q]) /\ 1 < i
      BY <1>1, TailFacts
    <3> QED BY <3>1 DEF OrderInv, QueueInOrder
  <2>2. \A i \in DOMAIN queue'[q] : i + 1 \in 2..Len(queue[q]) /\ queue'[q][i] = queue[q][i + 1]
    <3>1. DOMAIN queue'[q] = 1..(Len(queue[q]) - 1) /\ Len(queue[q]) \in Nat
      BY <1>1, TailFacts
    <3>2. \A i \in 1..(Len(queue[q]) - 1) : i + 1 \in 2..Len(queue[q])
      BY <3>1
    <3> QED BY <1>1, <3>1, <3>2, TailFacts
  <2>3. n = queue[q][1] /\ ~Before(n, n)
    <3>1. n = queue[q][1]
      BY <1>1, TailFacts
    <3>2. \A m \in Seqs : ~Before(m, m)
      BY PathTypes DEF Seqs, Before
    <3> QED BY <1>2, <3>1, <3>2
  <2>4. \A i \in DOMAIN queue'[q] : queue'[q][i] # n
    BY <2>1, <2>2, <2>3
  <2> HIDE DEF n
  <2> QED BY <2>4 DEF ToSet
<1>4. n \notin InFlight(q) \cup Scheduled(q)
  BY <1>2, Apart DEF Settled
<1>5. n \in Due(q) /\ Due(q)' = Due(q) \ {n}
  <2>1. InFlight(q)' = InFlight(q) /\ Scheduled(q)' = Scheduled(q)
    BY <1>1 DEF InFlight, Scheduled
  <2> HIDE DEF n
  <2> QED BY <1>2, <1>3, <1>4, <2>1 DEF Due
<1>6. \A x \in Queues : x # q => Due(x)' = Due(x)
  BY <1>1 DEF Due, InFlight, Scheduled
<1>7. DueMap' = [DueMap EXCEPT ![q] = @ \ {n}] /\ n \in DueMap[q]
  BY <1>5, <1>6 DEF DueMap
<1> QED BY <1>1, <1>7 DEF Feed!Deliver, DueMap

(* Every step of the bus is a step of the feed, or leaves it alone.        *)
LEMMA FeedStep ==
    ASSUME TypeOK, OrderInv, LiveAfterCut, UnboundUnheard, [Next]_vars
    PROVE  [Feed!Next]_(Feed!vars)
<1> USE DEF joinVars, feedVars
<1>1. ASSUME NEW p \in Producers, NEW type \in Types, NEW run \in Runs, Stamp(p, type, run)
      PROVE  [Feed!Next]_(Feed!vars)
  BY <1>1, FeedPublish DEF Feed!Next
<1>2. ASSUME NEW p \in Producers, PutRecord(p) PROVE [Feed!Next]_(Feed!vars)
  <2>1. \A x \in Producers : /\ publishing'[x].to = publishing[x].to
                             /\ publishing[x].to # {} => publishing'[x].seq = publishing[x].seq
    BY <1>2 DEF PutRecord, Holding, Idle, TypeOK
  <2>2. \A q \in Queues : InFlight(q)' = InFlight(q)
    BY <2>1 DEF InFlight
  <2> QED BY <1>2, <2>2, FeedFrame DEF PutRecord, Due, Scheduled
<1>3. ASSUME NEW p \in Producers, Schedule(p) PROVE [Feed!Next]_(Feed!vars)
  BY <1>3, FeedSchedule DEF Feed!Next
<1>4. CASE Fanout
  BY <1>4, FeedFanout DEF Feed!Next
<1>5. ASSUME NEW q \in Queues, SubscribeAndReplay(q) PROVE [Feed!Next]_(Feed!vars)
  <2>1. /\ log' = log /\ loop' = loop /\ subscribers' = subscribers \cup {q} /\ q \notin subscribers
        /\ UNCHANGED <<queue, received, publishing, ready>> /\ q \notin joined
    BY <1>5 DEF SubscribeAndReplay, TypeOK
  <2>2. Due(q) = {} /\ received[q] = <<>>
    <3>1. Settled(q) = {} /\ (\A i \in 1..Len(ready) : q \notin ready[i].to)
          /\ (\A p \in Producers : q \notin publishing[p].to)
      BY <2>1 DEF LiveAfterCut
    <3>2. DOMAIN ready = 1..Len(ready)
      BY DEF TypeOK
    <3>3. received[q] \in Seq(Seqs) /\ ToSet(received[q]) = {}
      BY <3>1 DEF TypeOK, Settled
    <3>4. received[q] = <<>>
      <4>1. received[q] # <<>> => Head(received[q]) \in ToSet(received[q])
        BY <3>3, HeadTailMembers
      <4> QED BY <3>3, <4>1
    <3>5. InFlight(q) = {} /\ Scheduled(q) = {}
      BY <3>1, <3>2 DEF InFlight, Scheduled
    <3> QED BY <3>1, <3>4, <3>5 DEF Due, Settled
  <2>3. DueMap' = DueMap
    BY <2>1 DEF DueMap, Due, InFlight, Scheduled
  <2>4. DueMap[q] = {}
    BY <2>2 DEF DueMap
  <2>5. Feed!Join(q)
    BY <2>1, <2>2, <2>3, <2>4 DEF Feed!Join, DueMap
  <2> QED BY <2>5 DEF Feed!Next
<1>6. ASSUME NEW q \in Queues, Get(q) PROVE [Feed!Next]_(Feed!vars)
  BY <1>6, FeedDeliver DEF Feed!Next
<1>7. ASSUME NEW q \in Queues, Unsubscribe(q) PROVE [Feed!Next]_(Feed!vars)
  <2>1. DueMap' = DueMap
    BY <1>7 DEF Unsubscribe, DueMap, Due, InFlight, Scheduled
  <2>2. Feed!Leave(q)
    BY <1>7, <2>1 DEF Unsubscribe, Feed!Leave, DueMap
  <2> QED BY <2>2 DEF Feed!Next
<1>8. CASE Clear
  BY <1>8, FeedFrame DEF Clear, Due, InFlight, Scheduled
<1>9. CASE BindLoop
  <2>1. DueMap' = DueMap
    BY <1>9 DEF BindLoop, DueMap, Due, InFlight, Scheduled
  <2>2. Feed!Open
    BY <1>9, <2>1 DEF BindLoop, Feed!Open, DueMap
  <2> QED BY <2>2 DEF Feed!Next
<1>10. CASE CloseLoop
  <2>1. \A q \in Queues : Due(q)' \subseteq Due(q)
    BY <1>10 DEF CloseLoop, Due, InFlight, Scheduled
  <2> QED BY <1>10, <2>1, FeedShut DEF CloseLoop, Feed!Next
<1>11. ASSUME NEW path \in Paths, SetJsonl(path) PROVE [Feed!Next]_(Feed!vars)
  BY <1>11, FeedFrame DEF SetJsonl, Due, InFlight, Scheduled
<1>12. CASE WriteRecord
  BY <1>12, FeedFrame DEF WriteRecord, Due, InFlight, Scheduled
<1>13. CASE UNCHANGED vars
  BY <1>13, FeedFrame DEF vars, Due, InFlight, Scheduled
<1> QED
  BY <1>1, <1>2, <1>3, <1>4, <1>5, <1>6, <1>7, <1>8, <1>9, <1>10, <1>11, <1>12, <1>13 DEF Next

(* The bus keeps the promise of the feed: from the moment a consumer joins *)
(* every event is due to it once, and only a full queue or a closed loop   *)
(* takes one away.                                                         *)
THEOREM RefinesFeed == Spec => ImplementsFeed
<1>1. Init => Feed!Init
  BY DEF Init, Feed!Init, Due, InFlight, Scheduled, Idle, ToSet
<1> QED BY <1>1, FeedStep, TypeCorrect, OrderInvariant, CutInvariant, PTL
        DEF Spec, ImplementsFeed, Feed!Spec

-----------------------------------------------------------------------------
(* The path of a record to the tape.  As on the way to a consumer, each    *)
(* place comes before the next; and the records are all those stamped      *)
(* since the bus began to record.                                          *)
Recording(p) == publishing[p].record
Written == ToSet(tape) \ {Torn}
Past == Written \cup unwritten
Glued == Written \ {tape[i] : i \in Played}
EndsTorn(s) == s # <<>> /\ s[Len(s)] = Torn
BeginsTorn(s) == s # <<>> /\ s[1] = Torn

TapeInOrder ==
    \A i, j \in 1..Len(tape) : i < j /\ tape[i] # Torn /\ tape[j] # Torn => Before(tape[i], tape[j])
RecordsInOrder == \A i, j \in 1..Len(recordQ) : i < j => Before(recordQ[i], recordQ[j])
PastBeforeQueued == \A m \in Past, i \in 1..Len(recordQ) : Before(m, recordQ[i])
QueuedBeforeHeld ==
    \A m \in Past \cup ToSet(recordQ), p \in Producers : Recording(p) => Before(m, publishing[p].seq)

TapeOrder ==
    /\ \A p \in Producers : Recording(p) => log[publishing[p].seq].by = p
    /\ TapeInOrder /\ RecordsInOrder /\ PastBeforeQueued /\ QueuedBeforeHeld
    /\ Written \cap unwritten = {}

TapeWhole ==
    /\ jsonl # NoPath => (recordedFrom + 1)..Len(log) = Unrecorded \cup ToSet(recordQ) \cup Past
    /\ jsonl = NoPath => /\ tape = <<>> /\ recordQ = <<>> /\ unwritten = {}
                         /\ \A p \in Producers : ~Recording(p)

\* Each torn piece costs the record behind it; the last one has cost none yet.
TapeGlue ==
    Cardinality(Glued) + (IF EndsTorn(tape) THEN 1 ELSE 0)
        <= Cardinality(unwritten) + (IF BeginsTorn(tape) THEN 1 ELSE 0)

TapeInv == TapeOrder /\ TapeWhole /\ TapeGlue

LEMMA TapeTypes ==
    ASSUME TypeOK
    PROVE  /\ Len(log) \in Nat /\ Len(tape) \in Nat /\ Len(recordQ) \in Nat
           /\ DOMAIN tape = 1..Len(tape) /\ DOMAIN recordQ = 1..Len(recordQ)
           /\ \A i \in 1..Len(tape) : tape[i] \in Seqs \cup {Torn}
           /\ \A i \in 1..Len(recordQ) : recordQ[i] \in Seqs
           /\ \A p \in Producers : Recording(p) => publishing[p] \in Pending
           /\ Written \subseteq Seqs /\ unwritten \subseteq Seqs /\ Past \subseteq Seqs
           /\ ToSet(recordQ) \subseteq Seqs /\ Torn \notin Seqs
<1>1. tape \in Seq(Seqs \cup {Torn}) /\ recordQ \in Seq(Seqs) /\ log \in Seq(Event) /\ unwritten \subseteq Seqs
  BY DEF TypeOK
<1>2. \A p \in Producers : Recording(p) => publishing[p] \in Pending
  BY DEF TypeOK, Recording, Idle
<1>3. Torn \notin Seqs
  BY <1>1 DEF Seqs, Torn
<1>4. ToSet(tape) \subseteq Seqs \cup {Torn} /\ ToSet(recordQ) \subseteq Seqs
  BY <1>1 DEF ToSet
<1>5. Written \subseteq Seqs /\ Past \subseteq Seqs
  BY <1>1, <1>4 DEF Written, Past
<1> QED BY <1>1, <1>2, <1>3, <1>4, <1>5, ElementOf

(* A step that leaves the records where they are.                          *)
LEMMA TapeFrame ==
    ASSUME TapeInv, log' = log, UNCHANGED tapeVars,
           \A p \in Producers : /\ Recording(p)' <=> Recording(p)
                                /\ Recording(p) => publishing'[p].seq = publishing[p].seq
    PROVE  TapeInv'
<1>1. /\ Written' = Written /\ Past' = Past /\ Glued' = Glued
      /\ UNCHANGED <<tape, recordQ, unwritten, recordedFrom, jsonl>>
  BY DEF tapeVars, Written, Past, Glued, Played
<1>2. TapeOrder'
  <2>1. \A p \in Producers : Recording(p)' => log'[publishing'[p].seq].by = p
    BY DEF TapeInv, TapeOrder
  <2>2. TapeInOrder' /\ RecordsInOrder' /\ PastBeforeQueued'
    BY <1>1 DEF TapeInv, TapeOrder, TapeInOrder, RecordsInOrder, PastBeforeQueued, Before
  <2>3. QueuedBeforeHeld'
    BY <1>1 DEF TapeInv, TapeOrder, QueuedBeforeHeld, Before
  <2> QED BY <1>1, <2>1, <2>2, <2>3 DEF TapeInv, TapeOrder
<1>3. Unrecorded' = Unrecorded
  <2>1. \A n : n \in Unrecorded <=> \E p \in Producers : Recording(p) /\ publishing[p].seq = n
    BY DEF Unrecorded, Recording
  <2>2. \A n : n \in Unrecorded' <=> \E p \in Producers : Recording(p)' /\ publishing'[p].seq = n
    BY DEF Unrecorded, Recording
  <2> QED BY <2>1, <2>2
<1>4. TapeWhole'
  <2>1. \A p \in Producers : Recording(p)' => Recording(p)
    OBVIOUS
  <2> QED BY <1>1, <1>3, <2>1 DEF TapeInv, TapeWhole
<1>5. TapeGlue'
  BY <1>1 DEF TapeInv, TapeGlue, EndsTorn, BeginsTorn
<1> QED BY <1>2, <1>4, <1>5 DEF TapeInv

(* A stamp: the new record comes after all others, and is held by its      *)
(* publisher.                                                              *)
LEMMA TapeStamp ==
    ASSUME TypeOK, TapeInv, NEW p \in Producers, NEW type \in Types, NEW run \in Runs,
           Stamp(p, type, run)
    PROVE  TapeInv'
<1>1. /\ Written' = Written /\ Past' = Past /\ Glued' = Glued
      /\ UNCHANGED <<tape, recordQ, unwritten, recordedFrom, jsonl>>
  BY DEF Stamp, tapeVars, Written, Past, Glued, Played
<1>2. /\ ~Recording(p)
      /\ Recording(p)' <=> jsonl # NoPath
      /\ Recording(p)' => publishing'[p].seq = Len(log) + 1
      /\ \A x \in Producers : x # p => publishing'[x] = publishing[x]
  <2>1. /\ publishing[p] = Idle
        /\ publishing' = [publishing EXCEPT ![p] = Holding(Len(log) + 1, jsonl # NoPath, Audience)]
        /\ p \in DOMAIN publishing
    BY DEF Stamp, TypeOK
  <2>2. publishing'[p] = Holding(Len(log) + 1, jsonl # NoPath, Audience)
    BY <2>1
  <2>3. ~Recording(p) /\ \A x \in Producers : x # p => publishing'[x] = publishing[x]
    BY <2>1 DEF Recording, Idle, TypeOK
  <2>4. CASE jsonl # NoPath
    <3>1. publishing'[p] = [seq |-> Len(log) + 1, record |-> TRUE, to |-> Audience]
      BY <2>2, <2>4 DEF Holding
    <3>2. publishing'[p].record = TRUE /\ publishing'[p].seq = Len(log) + 1
      BY <3>1
    <3>3. Recording(p)'
      BY <3>2 DEF Recording
    <3> QED BY <2>3, <2>4, <3>2, <3>3
  <2>5. CASE jsonl = NoPath
    <3>1. publishing'[p].record = FALSE
      <4>1. (jsonl # NoPath) = FALSE
        BY <2>5
      <4>2. publishing'[p] = Holding(Len(log) + 1, FALSE, Audience)
        BY <2>2, <4>1, Zenon
      <4> QED BY <4>2 DEF Holding, Idle
    <3>2. ~Recording(p)'
      BY <3>1 DEF Recording
    <3> QED BY <2>3, <2>5, <3>2
  <2> QED BY <2>4, <2>5
<1>3. TapeOrder'
  <2>1. \A x \in Producers : Recording(x)' => log'[publishing'[x].seq].by = x
    <3>1. \A x \in Producers : Recording(x) => publishing[x].seq \in Seqs
      BY TapeTypes DEF Pending
    <3> QED BY <1>2, <3>1, StampOrder DEF TapeInv, TapeOrder, Recording
  <2>2. TapeInOrder' /\ RecordsInOrder' /\ PastBeforeQueued'
    BY <1>1, StampOrder, TapeTypes
       DEF TapeInv, TapeOrder, TapeInOrder, RecordsInOrder, PastBeforeQueued
  <2>3. QueuedBeforeHeld'
    <3> SUFFICES ASSUME NEW m \in Past \cup ToSet(recordQ), NEW x \in Producers, Recording(x)'
                 PROVE  Before(m, publishing[x].seq)'
      BY <1>1 DEF QueuedBeforeHeld
    <3>1. m \in Seqs
      BY TapeTypes
    <3>2. CASE x = p
      BY <1>2, <3>1, <3>2, StampOrder DEF Before
    <3>3. CASE x # p
      <4>1. Recording(x) /\ publishing'[x] = publishing[x] /\ publishing[x].seq \in Seqs
        BY <1>2, <3>3, TapeTypes DEF Recording, Pending
      <4>2. Before(m, publishing[x].seq)
        BY <4>1 DEF TapeInv, TapeOrder, QueuedBeforeHeld
      <4> QED BY <3>1, <4>1, <4>2, StampOrder DEF Before
    <3> QED BY <3>2, <3>3
  <2> QED BY <1>1, <2>1, <2>2, <2>3 DEF TapeInv, TapeOrder
<1>4. TapeWhole'
  <2>1. Unrecorded' = IF jsonl # NoPath THEN Unrecorded \cup {Len(log) + 1} ELSE Unrecorded
    <3>1. \A n : n \in Unrecorded <=> \E x \in Producers : Recording(x) /\ publishing[x].seq = n
      BY DEF Unrecorded, Recording
    <3>2. \A n : n \in Unrecorded' <=> \E x \in Producers : Recording(x)' /\ publishing'[x].seq = n
      BY DEF Unrecorded, Recording
    <3>3. \A x \in Producers : x # p => (Recording(x)' <=> Recording(x))
      BY <1>2 DEF Recording
    <3> QED BY <1>2, <3>1, <3>2, <3>3
  <2>2. Len(log') = Len(log) + 1 /\ Len(log) \in Nat /\ recordedFrom \in 0..Len(log)
    <3>1. recordedFrom \in Seqs \cup {0} /\ Len(log) \in Nat
      BY TapeTypes DEF TypeOK
    <3> QED BY <3>1, StampOrder DEF Seqs
  <2>3. (recordedFrom + 1)..Len(log') = (recordedFrom + 1)..Len(log) \cup {Len(log) + 1}
    BY <2>2
  <2>4. CASE jsonl # NoPath
    <3>1. (recordedFrom + 1)..Len(log) = Unrecorded \cup ToSet(recordQ) \cup Past
      BY <2>4 DEF TapeInv, TapeWhole
    <3>2. (recordedFrom + 1)..Len(log') = Unrecorded' \cup ToSet(recordQ) \cup Past
      BY <2>1, <2>3, <2>4, <3>1
    <3> QED BY <1>1, <2>4, <3>2 DEF TapeWhole
  <2>5. CASE jsonl = NoPath
    <3>1. \A x \in Producers : ~Recording(x)'
      BY <1>2, <2>5 DEF TapeInv, TapeWhole, Recording
    <3> QED BY <1>1, <2>5, <3>1 DEF TapeInv, TapeWhole
  <2> QED BY <2>4, <2>5
<1>5. TapeGlue'
  BY <1>1 DEF TapeInv, TapeGlue, EndsTorn, BeginsTorn
<1> QED BY <1>3, <1>4, <1>5 DEF TapeInv

(* A publisher queues the record it holds behind all that are queued.      *)
LEMMA TapePut ==
    ASSUME TypeOK, TapeInv, NEW p \in Producers, PutRecord(p)
    PROVE  TapeInv'
<1> DEFINE n == publishing[p].seq
<1>1. /\ Written' = Written /\ Past' = Past /\ Glued' = Glued /\ log' = log
      /\ UNCHANGED <<tape, unwritten, recordedFrom, jsonl>>
  BY DEF PutRecord, tapeVars, Written, Past, Glued, Played
<1>2. /\ Recording(p) /\ n \in Seqs /\ ~Recording(p)'
      /\ \A x \in Producers : x # p => publishing'[x] = publishing[x]
      /\ recordQ' = Append(recordQ, n)
  <2>1. Recording(p) /\ ~Recording(p)' /\ recordQ' = Append(recordQ, n)
    BY DEF PutRecord, Recording, Holding, Idle, TypeOK
  <2> QED BY <2>1, TapeTypes DEF PutRecord, TypeOK, Pending
<1> HIDE DEF n
<1>3. /\ Len(recordQ) \in Nat /\ Len(recordQ') = Len(recordQ) + 1
      /\ \A i \in 1..Len(recordQ) : recordQ'[i] = recordQ[i]
      /\ recordQ'[Len(recordQ) + 1] = n
      /\ ToSet(recordQ') = ToSet(recordQ) \cup {n}
  <2>1. recordQ \in Seq(Seqs)
    BY DEF TypeOK
  <2> QED BY <1>2, <2>1, AppendFacts, AppendMembers
<1>4. \A m \in Past \cup ToSet(recordQ) : Before(m, n)
  BY <1>2 DEF TapeInv, TapeOrder, QueuedBeforeHeld, n
<1>5. \A i \in 1..Len(recordQ) : recordQ[i] \in ToSet(recordQ)
  BY TapeTypes DEF ToSet
<1>6. TapeOrder'
  <2>1. \A x \in Producers : Recording(x)' => log'[publishing'[x].seq].by = x
    BY <1>1, <1>2 DEF TapeInv, TapeOrder, Recording
  <2>2. TapeInOrder'
    BY <1>1 DEF TapeInv, TapeOrder, TapeInOrder, Before
  <2>3. RecordsInOrder'
    BY <1>1, <1>3, <1>4, <1>5 DEF TapeInv, TapeOrder, RecordsInOrder, Before
  <2>4. PastBeforeQueued'
    BY <1>1, <1>3, <1>4 DEF TapeInv, TapeOrder, PastBeforeQueued, Before
  <2>5. QueuedBeforeHeld'
    <3> SUFFICES ASSUME NEW m \in Past \cup ToSet(recordQ'), NEW x \in Producers, Recording(x)'
                 PROVE  Before(m, publishing[x].seq)'
      BY <1>1 DEF QueuedBeforeHeld
    <3>1. x # p /\ Recording(x) /\ publishing'[x] = publishing[x]
      BY <1>2 DEF Recording
    <3>2. CASE m \in Past \cup ToSet(recordQ)
      BY <1>1, <3>1, <3>2 DEF TapeInv, TapeOrder, QueuedBeforeHeld, Before
    <3>3. CASE m = n
      <4>1. log[n].by = p /\ log[publishing[x].seq].by = x
        BY <1>2, <3>1 DEF TapeInv, TapeOrder, n
      <4> QED BY <1>1, <3>1, <3>3, <4>1 DEF Before
    <3> QED BY <1>3, <3>2, <3>3
  <2> QED BY <1>1, <2>1, <2>2, <2>3, <2>4, <2>5 DEF TapeInv, TapeOrder
<1>7. TapeWhole'
  <2>1. Unrecorded' \cup {n} = Unrecorded
    BY <1>2 DEF Unrecorded, Recording, n
  <2> QED BY <1>1, <1>2, <1>3, <2>1 DEF TapeInv, TapeWhole
<1>8. TapeGlue'
  BY <1>1 DEF TapeInv, TapeGlue, EndsTorn, BeginsTorn
<1> QED BY <1>6, <1>7, <1>8 DEF TapeInv

(* The writer's turn: the head record ends up on the tape, or lost with a   *)
(* torn piece or none.                                                     *)
LEMMA TapeWrite ==
    ASSUME TypeOK, TapeInv, WriteRecord
    PROVE  TapeInv'
<1> DEFINE n == Head(recordQ)
<1>1. /\ log' = log /\ publishing' = publishing /\ jsonl' = jsonl /\ recordedFrom' = recordedFrom
      /\ recordQ' = Tail(recordQ) /\ recordQ \in Seq(Seqs) /\ recordQ # <<>>
      /\ tape \in Seq(Seqs \cup {Torn}) /\ n \in Seqs /\ unwritten \subseteq Seqs
      /\ \A p \in Producers : Recording(p)' = Recording(p)
      /\ Unrecorded' = Unrecorded
  <2>1. /\ log' = log /\ publishing' = publishing /\ jsonl' = jsonl /\ recordedFrom' = recordedFrom
        /\ recordQ' = Tail(recordQ) /\ recordQ \in Seq(Seqs) /\ recordQ # <<>>
        /\ tape \in Seq(Seqs \cup {Torn}) /\ unwritten \subseteq Seqs
    BY DEF WriteRecord, TypeOK
  <2> QED BY <2>1, TailFacts DEF Recording, Unrecorded
<1>2. \/ tape' = Append(tape, n) /\ unwritten' = unwritten
      \/ tape' = tape /\ unwritten' = unwritten \cup {n}
      \/ tape' = Append(tape, Torn) /\ unwritten' = unwritten \cup {n}
  BY DEF WriteRecord
<1>3. /\ n = recordQ[1] /\ 1 \in 1..Len(recordQ)
      /\ \A i \in 1..Len(recordQ') : i + 1 \in 1..Len(recordQ) /\ 1 < i + 1 /\ recordQ'[i] = recordQ[i + 1]
      /\ ToSet(recordQ) = {n} \cup ToSet(recordQ')
      /\ Len(recordQ') \in Nat
  BY <1>1, TailFacts, HeadTailMembers
<1> HIDE DEF n
<1>4. Past' = Past \cup {n}
  <2>1. \A e \in Seqs \cup {Torn} : ToSet(Append(tape, e)) = ToSet(tape) \cup {e}
    BY <1>1, AppendMembers
  <2> QED BY <1>1, <1>2, <2>1, TapeTypes DEF Past, Written
<1>5. \A m \in Past : Before(m, n) /\ m # n
  <2>1. \A m \in Past : Before(m, n)
    BY <1>3 DEF TapeInv, TapeOrder, PastBeforeQueued
  <2>2. ~Before(n, n)
    BY <1>1, TapeTypes DEF Before, Seqs
  <2> QED BY <2>1, <2>2
<1>6. TapeOrder'
  <2>1. \A p \in Producers : Recording(p)' => log'[publishing'[p].seq].by = p
    BY <1>1 DEF TapeInv, TapeOrder
  <2>2. TapeInOrder'
    <3> SUFFICES ASSUME NEW i \in 1..Len(tape'), NEW j \in 1..Len(tape'), i < j,
                        tape'[i] # Torn, tape'[j] # Torn
                 PROVE  Before(tape'[i], tape'[j])
      BY <1>1 DEF TapeInOrder, Before
    <3>1. CASE i \in 1..Len(tape) /\ j \in 1..Len(tape) /\ tape'[i] = tape[i] /\ tape'[j] = tape[j]
      BY <3>1 DEF TapeInv, TapeOrder, TapeInOrder
    <3>2. CASE i \in 1..Len(tape) /\ tape'[i] = tape[i] /\ tape'[j] = n
      <4>1. tape[i] \in Past
        BY <3>2, TapeTypes DEF Past, Written, ToSet
      <4> QED BY <1>5, <3>2, <4>1
    <3>3. ASSUME NEW e \in Seqs \cup {Torn}, tape' = Append(tape, e)
          PROVE  /\ i \in 1..Len(tape) /\ tape'[i] = tape[i]
                 /\ \/ j \in 1..Len(tape) /\ tape'[j] = tape[j]
                    \/ tape'[j] = e
      <4>1. /\ Len(tape) \in Nat /\ Len(tape') = Len(tape) + 1
            /\ \A k \in 1..Len(tape) : tape'[k] = tape[k]
            /\ tape'[Len(tape) + 1] = e
        BY <1>1, <3>3, AppendFacts
      <4>2. i \in 1..Len(tape) /\ (j \in 1..Len(tape) \/ j = Len(tape) + 1)
        BY <4>1
      <4> QED BY <4>1, <4>2
    <3> QED BY <1>1, <1>2, <3>1, <3>2, <3>3
  <2>3. RecordsInOrder'
    <3> SUFFICES ASSUME NEW i \in 1..Len(recordQ'), NEW j \in 1..Len(recordQ'), i < j
                 PROVE  Before(recordQ'[i], recordQ'[j])
      BY <1>1 DEF RecordsInOrder, Before
    <3>1. i + 1 < j + 1
      BY <1>3
    <3> QED BY <1>3, <3>1 DEF TapeInv, TapeOrder, RecordsInOrder
  <2>4. PastBeforeQueued'
    <3> SUFFICES ASSUME NEW m \in Past \cup {n}, NEW i \in 1..Len(recordQ')
                 PROVE  Before(m, recordQ'[i])
      BY <1>1, <1>4 DEF PastBeforeQueued, Before
    <3>1. i + 1 \in 1..Len(recordQ) /\ 1 < i + 1 /\ recordQ'[i] = recordQ[i + 1]
      BY <1>3
    <3>2. m \in Past => Before(m, recordQ[i + 1])
      BY <3>1 DEF TapeInv, TapeOrder, PastBeforeQueued
    <3>3. Before(n, recordQ[i + 1])
      BY <1>3, <3>1 DEF TapeInv, TapeOrder, RecordsInOrder
    <3> QED BY <3>1, <3>2, <3>3
  <2>5. QueuedBeforeHeld'
    <3>1. Past' \cup ToSet(recordQ') = Past \cup ToSet(recordQ)
      BY <1>3, <1>4
    <3> QED BY <1>1, <3>1 DEF TapeInv, TapeOrder, QueuedBeforeHeld, Before
  <2>6. Written' \cap unwritten' = {}
    <3>1. \A e \in Seqs \cup {Torn} : ToSet(Append(tape, e)) = ToSet(tape) \cup {e}
      BY <1>1, AppendMembers
    <3>2. Written \cap unwritten = {} /\ n \notin Written /\ n \notin unwritten
      BY <1>5 DEF TapeInv, TapeOrder, Past
    <3>3. tape' = Append(tape, n) => Written' = Written \cup {n}
      BY <1>1, <3>1, TapeTypes DEF Written
    <3>4. tape' = Append(tape, Torn) \/ tape' = tape => Written' = Written
      BY <1>1, <3>1 DEF Written
    <3> QED BY <1>2, <3>2, <3>3, <3>4
  <2> QED BY <2>1, <2>2, <2>3, <2>4, <2>5, <2>6 DEF TapeOrder
<1>7. TapeWhole'
  <2>1. jsonl # NoPath
    BY <1>1 DEF TapeInv, TapeWhole
  <2>2. (recordedFrom + 1)..Len(log) = Unrecorded \cup ToSet(recordQ) \cup Past
    BY <2>1 DEF TapeInv, TapeWhole
  <2>3. Unrecorded \cup ToSet(recordQ') \cup Past' = Unrecorded \cup ToSet(recordQ) \cup Past
    BY <1>3, <1>4
  <2> QED BY <1>1, <2>1, <2>2, <2>3 DEF TapeWhole
<1>8. TapeGlue'
  <2>1. /\ IsFiniteSet(Glued) /\ IsFiniteSet(unwritten)
        /\ Cardinality(Glued) \in Nat /\ Cardinality(unwritten) \in Nat
        /\ Glued \subseteq Written
    <3>1. IsFiniteSet(Seqs)
      <4>1. 1 \in Int /\ Len(log) \in Int
        BY TapeTypes
      <4>2. IsFiniteSet(1..Len(log))
        BY <4>1, FS_Interval
      <4> QED BY <4>2 DEF Seqs
    <3>2. Glued \subseteq Seqs /\ unwritten \subseteq Seqs /\ Glued \subseteq Written
      BY TapeTypes DEF Glued
    <3> QED BY <3>1, <3>2, FS_Subset, FS_CardinalityType
  <2>2. n \notin unwritten /\ n \notin Written
    BY <1>5 DEF Past
  <2>3. Cardinality(unwritten \cup {n}) = Cardinality(unwritten) + 1
    BY <2>1, <2>2, FS_AddElement
  <2>4. ASSUME NEW e \in Seqs \cup {Torn}, tape' = Append(tape, e)
        PROVE  /\ BeginsTorn(tape) => BeginsTorn(tape')
               /\ EndsTorn(tape') <=> e = Torn
               /\ Glued' \subseteq Glued \cup {e}
               /\ e = Torn \/ ~EndsTorn(tape) => Glued' \subseteq Glued
    <3>1. /\ Len(tape) \in Nat /\ Len(tape') = Len(tape) + 1 /\ tape' # <<>>
          /\ \A i \in 1..Len(tape) : tape'[i] = tape[i]
          /\ tape'[Len(tape) + 1] = e
          /\ DOMAIN tape = 1..Len(tape) /\ DOMAIN tape' = 1..(Len(tape) + 1)
          /\ tape = <<>> <=> Len(tape) = 0
          /\ ToSet(tape') = ToSet(tape) \cup {e}
      BY <1>1, <2>4, AppendFacts, AppendMembers
    <3>2. BeginsTorn(tape) => BeginsTorn(tape')
      BY <3>1 DEF BeginsTorn
    <3>3. EndsTorn(tape') <=> e = Torn
      BY <3>1 DEF EndsTorn
    <3>4. \A i \in Played : i \in Played' /\ tape'[i] = tape[i]
      <4>1. ASSUME NEW i \in Played PROVE i \in Played' /\ tape'[i] = tape[i]
        <5>1. i \in 1..Len(tape) /\ i \in 1..(Len(tape) + 1) /\ tape'[i] = tape[i]
          BY <3>1 DEF Played
        <5>2. i > 1 => i - 1 \in 1..Len(tape) /\ tape'[i - 1] = tape[i - 1]
          BY <3>1, <5>1
        <5> QED BY <3>1, <5>1, <5>2 DEF Played
      <4> QED BY <4>1
    <3>5. Written' \subseteq Written \cup ({e} \ {Torn})
      BY <3>1 DEF Written
    <3>6. Glued' \subseteq Glued \cup ({e} \ {Torn})
      BY <3>4, <3>5 DEF Glued
    <3>7. ASSUME ~EndsTorn(tape), e # Torn PROVE e \notin Glued'
      <4>1. Len(tape) + 1 > 1 => Len(tape) \in 1..Len(tape) /\ tape'[Len(tape)] # Torn
        BY <3>1, <3>7 DEF EndsTorn
      <4>2. Len(tape) + 1 \in Played'
        BY <3>1, <3>7, <4>1 DEF Played
      <4> QED BY <3>1, <4>2 DEF Glued
    <3> QED BY <3>2, <3>3, <3>6, <3>7
  <2>5. CASE tape' = tape /\ unwritten' = unwritten \cup {n}
    <3>1. Glued' = Glued
      BY <2>5 DEF Glued, Written, Played
    <3> QED BY <2>1, <2>3, <2>5, <3>1 DEF TapeInv, TapeGlue, EndsTorn, BeginsTorn
  <2>6. CASE tape' = Append(tape, Torn) /\ unwritten' = unwritten \cup {n}
    <3>1. Cardinality(Glued') <= Cardinality(Glued) /\ Cardinality(Glued') \in Nat
      BY <2>1, <2>4, <2>6, FS_Subset, FS_CardinalityType
    <3>2. (BeginsTorn(tape) => BeginsTorn(tape')) /\ EndsTorn(tape')
      BY <2>4, <2>6
    <3> QED BY <2>1, <2>3, <2>6, <3>1, <3>2 DEF TapeInv, TapeGlue
  <2>7. CASE tape' = Append(tape, n) /\ unwritten' = unwritten
    <3>1. /\ BeginsTorn(tape) => BeginsTorn(tape')
          /\ ~EndsTorn(tape')
          /\ Glued' \subseteq Glued \cup {n}
          /\ ~EndsTorn(tape) => Glued' \subseteq Glued
      BY <1>1, <2>4, <2>7, TapeTypes
    <3>2. Cardinality(Glued') \in Nat
          /\ Cardinality(Glued') <= Cardinality(Glued) + (IF EndsTorn(tape) THEN 1 ELSE 0)
      <4>1. IsFiniteSet(Glued \cup {n}) /\ Cardinality(Glued \cup {n}) <= Cardinality(Glued) + 1
            /\ Cardinality(Glued \cup {n}) \in Nat
        <5>1. /\ IsFiniteSet(Glued \cup {n})
              /\ Cardinality(Glued \cup {n}) = IF n \in Glued THEN Cardinality(Glued) ELSE Cardinality(Glued) + 1
          BY <2>1, FS_AddElement
        <5> QED BY <2>1, <5>1
      <4>2. Cardinality(Glued') <= Cardinality(Glued \cup {n}) /\ Cardinality(Glued') \in Nat
        BY <3>1, <4>1, FS_Subset, FS_CardinalityType
      <4>3. CASE EndsTorn(tape)
        BY <2>1, <4>1, <4>2, <4>3
      <4>4. CASE ~EndsTorn(tape)
        <5>1. Cardinality(Glued') <= Cardinality(Glued)
          BY <2>1, <3>1, <4>4, FS_Subset
        <5> QED BY <2>1, <4>2, <4>4, <5>1
      <4> QED BY <4>3, <4>4
    <3> QED BY <2>1, <2>7, <3>1, <3>2 DEF TapeInv, TapeGlue
  <2> QED BY <1>2, <2>5, <2>6, <2>7
<1> QED BY <1>6, <1>7, <1>8 DEF TapeInv

(* The bus begins to record, on a file that may end in a torn piece.       *)
LEMMA TapeOpen ==
    ASSUME TypeOK, TapeInv, NEW path \in Paths, SetJsonl(path)
    PROVE  TapeInv'
<1>1. /\ log' = log /\ publishing' = publishing /\ recordQ' = <<>> /\ unwritten' = {}
      /\ jsonl' # NoPath /\ recordedFrom' = Len(log) /\ (tape' = <<>> \/ tape' = <<Torn>>)
      /\ \A p \in Producers : ~Recording(p)
      /\ Unrecorded' = {}
  <2>1. /\ log' = log /\ publishing' = publishing /\ recordQ' = <<>> /\ unwritten' = {}
        /\ jsonl' # NoPath /\ recordedFrom' = Len(log) /\ (tape' = <<>> \/ tape' = <<Torn>>)
        /\ \A p \in Producers : ~Recording(p)
    BY PathAssumption DEF SetJsonl, TapeInv, TapeWhole
  <2> QED BY <2>1 DEF Recording, Unrecorded
<1>2. ToSet(recordQ') = {} /\ ToSet(tape') \subseteq {Torn} /\ Written' = {} /\ Past' = {} /\ Glued' = {}
  <2>1. ToSet(recordQ') = {} /\ ToSet(tape') \subseteq {Torn}
    BY <1>1 DEF ToSet
  <2> QED BY <1>1, <2>1 DEF Written, Past, Glued
<1>3. TapeOrder'
  <2>1. (\A p \in Producers : Recording(p) => log[publishing[p].seq].by = p)'
    BY <1>1 DEF Recording
  <2>2. TapeInOrder' /\ RecordsInOrder'
    BY <1>1 DEF TapeInOrder, RecordsInOrder
  <2>3. PastBeforeQueued' /\ QueuedBeforeHeld'
    BY <1>2 DEF PastBeforeQueued, QueuedBeforeHeld
  <2> QED BY <1>2, <2>1, <2>2, <2>3 DEF TapeOrder
<1>4. TapeWhole'
  <2>1. (recordedFrom' + 1)..Len(log') = {}
    BY <1>1, TapeTypes
  <2> QED BY <1>1, <1>2, <2>1 DEF TapeWhole
<1>5. TapeGlue'
  <2>1. EndsTorn(tape') <=> BeginsTorn(tape')
    BY <1>1 DEF EndsTorn, BeginsTorn
  <2> QED BY <1>1, <1>2, <2>1, FS_EmptySet DEF TapeGlue
<1> QED BY <1>3, <1>4, <1>5 DEF TapeInv

LEMMA TapeStep ==
    ASSUME TypeOK, TapeInv, [Next]_vars
    PROVE  TapeInv'
<1>1. ASSUME NEW p \in Producers, Schedule(p) PROVE TapeInv'
  <2>1. log' = log /\ UNCHANGED tapeVars
    BY <1>1 DEF Schedule
  <2>2. ~Recording(p) /\ ~Recording(p)' /\ \A x \in Producers : x # p => publishing'[x] = publishing[x]
    BY <1>1 DEF Schedule, Recording, Idle, TypeOK
  <2>3. \A x \in Producers : x # p => (Recording(x)' <=> Recording(x))
    BY <2>2 DEF Recording
  <2> QED BY <2>1, <2>2, <2>3, TapeFrame
<1>2. ASSUME log' = log, UNCHANGED tapeVars, publishing' = publishing PROVE TapeInv'
  BY <1>2, TapeFrame DEF Recording
<1>3. CASE \/ Fanout \/ Clear \/ BindLoop \/ CloseLoop \/ UNCHANGED vars
           \/ \E q \in Queues : SubscribeAndReplay(q) \/ Get(q) \/ Unsubscribe(q)
  BY <1>2, <1>3 DEF Fanout, Clear, BindLoop, CloseLoop, SubscribeAndReplay, Get, Unsubscribe, vars
<1> QED BY <1>1, <1>3, TapeStamp, TapePut, TapeWrite, TapeOpen DEF Next

LEMMA TapeInvariant == Spec => []TapeInv
<1>1. Init => TapeInv
  <2> SUFFICES ASSUME Init PROVE TapeInv
    OBVIOUS
  <2>1. /\ tape = <<>> /\ recordQ = <<>> /\ unwritten = {} /\ jsonl = NoPath
        /\ \A p \in Producers : ~Recording(p)
    BY DEF Init, Recording, Idle
  <2>2. ToSet(recordQ) = {} /\ Written = {} /\ Past = {} /\ Glued = {}
    <3>1. ToSet(recordQ) = {} /\ ToSet(tape) = {}
      BY <2>1 DEF ToSet
    <3> QED BY <2>1, <3>1 DEF Written, Past, Glued
  <2>3. TapeOrder
    BY <2>1, <2>2 DEF TapeOrder, TapeInOrder, RecordsInOrder, PastBeforeQueued, QueuedBeforeHeld
  <2>4. TapeGlue
    BY <2>1, <2>2, FS_EmptySet DEF TapeGlue, EndsTorn, BeginsTorn
  <2> QED BY <2>1, <2>3, <2>4 DEF TapeInv, TapeWhole
<1> QED BY <1>1, TapeStep, TypeCorrect, PTL DEF Spec

(* Every event stamped while the bus records is in exactly one place: held *)
(* by its publisher, queued, on the tape in its thread's order, or lost;   *)
(* and no failed write costs more than its own record and the next.        *)
THEOREM TapeKept == Spec => []TapeComplete
<1> SUFFICES ASSUME TypeOK, TapeInv PROVE TapeComplete
  BY TypeCorrect, TapeInvariant, PTL
<1> DEFINE entry == tape \o recordQ
           whole == {i \in DOMAIN entry : entry[i] # Torn}
           played == {tape[i] : i \in Played}
           glued == ToSet(tape) \ (played \cup {Torn})
<1>1. /\ tape \in Seq(Seqs \cup {Torn}) /\ recordQ \in Seq(Seqs \cup {Torn})
      /\ Len(tape) \in Nat /\ Len(recordQ) \in Nat
      /\ DOMAIN entry = 1..(Len(tape) + Len(recordQ))
  <2>1. tape \in Seq(Seqs \cup {Torn}) /\ recordQ \in Seq(Seqs \cup {Torn})
    BY SeqMonotone DEF TypeOK
  <2> QED BY <2>1, LineLength
<1>2. \A i \in whole : \/ /\ i \in 1..Len(tape) /\ entry[i] = tape[i]
                          /\ tape[i] # Torn /\ entry[i] \in Written
                       \/ /\ i - Len(tape) \in 1..Len(recordQ) /\ entry[i] = recordQ[i - Len(tape)]
                          /\ entry[i] \in ToSet(recordQ)
  <2>1. ASSUME NEW i \in whole
        PROVE  \/ i \in 1..Len(tape) /\ entry[i] = tape[i] /\ tape[i] # Torn
               \/ i - Len(tape) \in 1..Len(recordQ) /\ entry[i] = recordQ[i - Len(tape)]
    BY <1>1, <2>1, LineElement
  <2> HIDE DEF entry, whole
  <2> QED BY <2>1, TapeTypes DEF Written, ToSet
<1>3. \A i \in whole : i \in Int /\ entry[i] \in Seqs
  <2>1. \A i \in whole : i \in Int
    BY <1>1
  <2> QED BY <1>2, <2>1, TapeTypes
<1>4. glued = Glued /\ played \subseteq Written
  <2>1. \A i \in Played : tape[i] \in Written
    BY TapeTypes DEF Played, Written, ToSet
  <2> QED BY <2>1 DEF Glued, Written
<1>5. jsonl # NoPath => (recordedFrom + 1)..Len(log)
                          = Unrecorded \cup ToSet(recordQ) \cup played \cup unwritten \cup glued
  <2>1. played \cup glued = Written
    BY <1>4 DEF Glued
  <2> QED BY <2>1 DEF TapeInv, TapeWhole, Past
<1>6. Cardinality(glued) <= Cardinality(unwritten) + (IF tape # <<>> /\ tape[1] = Torn THEN 1 ELSE 0)
  <2>1. /\ IsFiniteSet(Glued) /\ Cardinality(Glued) \in Nat /\ Cardinality(unwritten) \in Nat
    <3>1. IsFiniteSet(Seqs)
      <4>1. 1 \in Int /\ Len(log) \in Int
        BY TapeTypes
      <4>2. IsFiniteSet(1..Len(log))
        BY <4>1, FS_Interval
      <4> QED BY <4>2 DEF Seqs
    <3>2. Glued \subseteq Seqs /\ unwritten \subseteq Seqs
      BY TapeTypes DEF Glued
    <3> QED BY <3>1, <3>2, FS_Subset, FS_CardinalityType
  <2>2. Cardinality(Glued) <= Cardinality(unwritten) + (IF BeginsTorn(tape) THEN 1 ELSE 0)
    BY <2>1 DEF TapeInv, TapeGlue
  <2> QED BY <1>4, <2>2 DEF BeginsTorn
<1>7. \A n \in Seqs : ~Before(n, n)
  BY TapeTypes DEF Before, Seqs
<1>8. Unrecorded \cap ({entry[i] : i \in whole} \cup unwritten) = {}
  <2>1. \A m \in Past \cup ToSet(recordQ), n \in Unrecorded : Before(m, n)
    BY DEF TapeInv, TapeOrder, QueuedBeforeHeld, Unrecorded, Recording
  <2>2. Past \cup ToSet(recordQ) \subseteq Seqs
    BY TapeTypes
  <2>3. \A i \in whole : entry[i] \in Past \cup ToSet(recordQ)
    BY <1>2 DEF Past
  <2> HIDE DEF entry, whole
  <2> QED BY <1>7, <2>1, <2>2, <2>3 DEF Past
<1>9. {entry[i] : i \in whole} \cap unwritten = {}
  <2>1. \A m \in unwritten, n \in ToSet(recordQ) : Before(m, n)
    BY TapeTypes DEF TapeInv, TapeOrder, PastBeforeQueued, Past, ToSet
  <2>2. \A m \in unwritten, n \in ToSet(recordQ) : m # n
    BY <1>7, <2>1, TapeTypes
  <2>3. Written \cap unwritten = {}
    BY DEF TapeInv, TapeOrder
  <2>4. \A i \in whole : entry[i] \in Written \cup ToSet(recordQ)
    BY <1>2
  <2> HIDE DEF entry, whole
  <2> QED BY <2>2, <2>3, <2>4
<1>10. \A i, j \in whole : i < j => Before(entry[i], entry[j]) /\ entry[i] # entry[j]
  <2> SUFFICES ASSUME NEW i \in whole, NEW j \in whole, i < j
               PROVE  Before(entry[i], entry[j])
    BY <1>3, <1>7
  <2> HIDE DEF entry, whole
  <2>1. CASE j \in 1..Len(tape) /\ entry[j] = tape[j] /\ tape[j] # Torn
    <3>1. i \in 1..Len(tape) /\ entry[i] = tape[i] /\ tape[i] # Torn
      BY <1>1, <1>2, <1>3, <2>1
    <3> QED BY <2>1, <3>1 DEF TapeInv, TapeOrder, TapeInOrder
  <2>2. CASE j - Len(tape) \in 1..Len(recordQ) /\ entry[j] = recordQ[j - Len(tape)]
    <3>1. CASE entry[i] \in Written
      BY <2>2, <3>1 DEF TapeInv, TapeOrder, PastBeforeQueued, Past
    <3>2. CASE i - Len(tape) \in 1..Len(recordQ) /\ entry[i] = recordQ[i - Len(tape)]
      <4>1. i - Len(tape) < j - Len(tape)
        BY <1>1, <1>3
      <4> QED BY <2>2, <3>2, <4>1 DEF TapeInv, TapeOrder, RecordsInOrder
    <3> QED BY <1>2, <3>1, <3>2
  <2> QED BY <1>2, <2>1, <2>2
<1> QED BY <1>5, <1>6, <1>8, <1>9, <1>10 DEF TapeComplete

-----------------------------------------------------------------------------
(* What a replay holds.  An entry's place in the deque tells how many       *)
(* ordinary events came after it, and only those before a full deque's     *)
(* first entry are missing.                                                *)
Plain(l, n) == l[n].type = "other"
Later(l, n) == {m \in 1..Len(l) : m > n /\ Plain(l, m)}

Ranked(l, b, c) ==
    \A i \in 1..Len(b) :
        Plain(l, b[i]) /\ b[i] > c /\ Cardinality(Later(l, b[i])) = Len(b) - i
Ascending(b) == \A i, j \in 1..Len(b) : i < j => b[i] < b[j]
Recalled(l, b, c) ==
    \A n \in 1..Len(l) : Plain(l, n) /\ n > c =>
        (\E i \in 1..Len(b) : n = b[i]) \/ (Len(b) = BufferSize /\ n < b[1])
BufferInv == Ranked(log, buffer, cleared) /\ Ascending(buffer) /\ Recalled(log, buffer, cleared)

(* What is pinned for a run is its last topology since the last clear().   *)
Pinned(l, t, c, r) ==
    \/ t[r] = 0
    \/ /\ t[r] \in 1..Len(l) /\ t[r] > c /\ ~Plain(l, t[r]) /\ l[t[r]].run = r
       /\ \A m \in 1..Len(l) : m > t[r] /\ l[m].run = r => Plain(l, m)
PinnedInv ==
    /\ \A r \in Runs : Pinned(log, topology, cleared, r)
    /\ \A n \in 1..Len(log) : ~Plain(log, n) /\ n > cleared => topology[log[n].run] # 0

LEMMA LaterFacts ==
    ASSUME NEW l, Len(l) \in Nat, NEW n
    PROVE  IsFiniteSet(Later(l, n)) /\ Cardinality(Later(l, n)) \in Nat
<1>1. IsFiniteSet(1..Len(l))
  <2>1. 1 \in Int /\ Len(l) \in Int
    OBVIOUS
  <2> QED BY <2>1, FS_Interval
<1>2. Later(l, n) \subseteq 1..Len(l)
  BY DEF Later
<1> QED BY <1>1, <1>2, FS_Subset, FS_CardinalityType

(* The deque after one more event, shifted by one (d = 1) when it was full. *)
LEMMA RememberShifts ==
    ASSUME NEW S, NEW s \in Seq(S), NEW n \in S, Len(s) \leq BufferSize
    PROVE  \E d \in {0, 1} :
              /\ d = 1 => Len(s) = BufferSize
              /\ d = 0 => Len(s) < BufferSize
              /\ Len(s) \geq d
              /\ Len(Remember(s, n)) = Len(s) + 1 - d
              /\ \A i \in 1..(Len(s) - d) : Remember(s, n)[i] = s[i + d]
              /\ Remember(s, n)[Len(s) + 1 - d] = n
<1>1. CASE Len(s) < BufferSize
  <2>1. Remember(s, n) = Append(s, n)
    BY <1>1 DEF Remember
  <2> QED BY <1>1, <2>1, AppendFacts, SizesAssumption
<1>2. CASE ~(Len(s) < BufferSize)
  <2>1. Remember(s, n) = Append(Tail(s), n)
    BY <1>2 DEF Remember
  <2>2. s # <<>> /\ Len(s) \in Nat /\ Len(s) = BufferSize
    BY <1>2, SizesAssumption
  <2>3. /\ Tail(s) \in Seq(S) /\ Len(Tail(s)) = Len(s) - 1
        /\ \A i \in 1..(Len(s) - 1) : Tail(s)[i] = s[i + 1]
    BY <2>2, TailFacts
  <2>4. /\ Len(Append(Tail(s), n)) = Len(s)
        /\ \A i \in 1..(Len(s) - 1) : Append(Tail(s), n)[i] = Tail(s)[i]
        /\ Append(Tail(s), n)[Len(s)] = n
    BY <2>2, <2>3
  <2>5. /\ 1 = 1 => Len(s) = BufferSize
        /\ 1 = 0 => Len(s) < BufferSize
        /\ Len(s) \geq 1
        /\ Len(Remember(s, n)) = Len(s) + 1 - 1
        /\ \A i \in 1..(Len(s) - 1) : Remember(s, n)[i] = s[i + 1]
        /\ Remember(s, n)[Len(s) + 1 - 1] = n
    BY <2>1, <2>2, <2>3, <2>4, SizesAssumption
  <2>6. 1 \in {0, 1}
    OBVIOUS
  <2> QED BY <2>5, <2>6, Zenon
<1> QED BY <1>1, <1>2

(* What one more event makes of the events there were.                     *)
LEMMA OneMore ==
    ASSUME NEW l \in Seq(Event), NEW e \in Event
    PROVE  LET N == Len(l) + 1
               m == Append(l, e)
           IN  /\ Len(l) \in Nat /\ N \in Nat /\ Len(m) = N /\ m[N] = e
               /\ \A n \in 1..Len(m) : n \in 1..Len(l) \/ n = N
               /\ \A n \in 1..Len(l) : n \in 1..Len(m) /\ n < N /\ m[n] = l[n]
               /\ Later(m, N) = {}
               /\ ~Plain(m, N) => \A n \in 1..Len(l) : Later(m, n) = Later(l, n)
               /\ Plain(m, N) => \A n \in 1..Len(l) :
                     Later(m, n) = Later(l, n) \cup {N} /\ N \notin Later(l, n)
<1> DEFINE N == Len(l) + 1
           m == Append(l, e)
<1>1. Len(l) \in Nat /\ N \in Nat /\ Len(m) = N /\ m[N] = e
  BY AppendFacts
<1>2. \A n \in 1..Len(m) : n \in 1..Len(l) \/ n = N
  BY <1>1
<1>3. \A n \in 1..Len(l) : n \in 1..Len(m) /\ n < N /\ m[n] = l[n]
  BY <1>1, AppendFacts
<1>4. N \in 1..Len(m) /\ N \notin 1..Len(l)
  BY <1>1
<1> HIDE DEF m, N
<1>5. Later(m, N) = {}
  BY <1>1, <1>2, <1>3 DEF Later
<1>6. \A n \in 1..Len(l) : Plain(m, n) <=> Plain(l, n)
  BY <1>3 DEF Plain
<1>7. ASSUME ~Plain(m, N), NEW n \in 1..Len(l) PROVE Later(m, n) = Later(l, n)
  BY <1>2, <1>3, <1>6, <1>7 DEF Later
<1>8. ASSUME Plain(m, N), NEW n \in 1..Len(l)
      PROVE  Later(m, n) = Later(l, n) \cup {N} /\ N \notin Later(l, n)
  <2>1. \A x : x \in Later(m, n) <=> x \in 1..Len(m) /\ x > n /\ Plain(m, x)
    BY DEF Later
  <2>2. \A x : x \in Later(l, n) <=> x \in 1..Len(l) /\ x > n /\ Plain(l, x)
    BY DEF Later
  <2>3. n < N /\ N > n
    BY <1>1, <1>3
  <2> QED BY <1>2, <1>3, <1>4, <1>6, <1>8, <2>1, <2>2, <2>3
<1> QED BY <1>1, <1>2, <1>3, <1>5, <1>7, <1>8 DEF m, N

(* A topology leaves the deque what it is.                                 *)
LEMMA TopologyKeepsBuffer ==
    ASSUME NEW l \in Seq(Event), NEW e \in Event, NEW b \in Seq(1..Len(l)), NEW c,
           e.type # "other", Ranked(l, b, c), Recalled(l, b, c)
    PROVE  Ranked(Append(l, e), b, c) /\ Recalled(Append(l, e), b, c)
<1> DEFINE N == Len(l) + 1
           m == Append(l, e)
<1>1. /\ ~Plain(m, N)
      /\ \A n \in 1..Len(m) : n \in 1..Len(l) \/ n = N
      /\ \A n \in 1..Len(l) : (Plain(m, n) <=> Plain(l, n)) /\ Later(m, n) = Later(l, n)
  BY OneMore DEF Plain
<1>2. \A i \in 1..Len(b) : b[i] \in 1..Len(l)
  OBVIOUS
<1> HIDE DEF m, N
<1>3. Ranked(m, b, c)
  BY <1>1, <1>2 DEF Ranked
<1>4. Recalled(m, b, c)
  BY <1>1 DEF Recalled
<1> QED BY <1>3, <1>4 DEF m

(* Any other event is its newest entry.                                    *)
LEMMA RememberKeepsBuffer ==
    ASSUME NEW l \in Seq(Event), NEW e \in Event, NEW b \in Seq(1..Len(l)), NEW c \in 0..Len(l),
           e.type = "other", Len(b) <= BufferSize,
           Ranked(l, b, c), Ascending(b), Recalled(l, b, c)
    PROVE  LET m == Append(l, e)
               r == Remember(b, Len(l) + 1)
           IN  Ranked(m, r, c) /\ Ascending(r) /\ Recalled(m, r, c)
<1> DEFINE N == Len(l) + 1
           m == Append(l, e)
           r == Remember(b, N)
<1>1. /\ Len(l) \in Nat /\ N \in Nat /\ Plain(m, N) /\ Len(m) = N
      /\ \A n \in 1..Len(m) : n \in 1..Len(l) \/ n = N
      /\ \A n \in 1..Len(l) : (Plain(m, n) <=> Plain(l, n)) /\ n < N /\ n \in Nat
      /\ c \in Nat /\ c < N
  BY OneMore DEF Plain
<1>2. /\ Later(m, N) = {}
      /\ \A n \in 1..Len(l) : Later(m, n) = Later(l, n) \cup {N} /\ N \notin Later(l, n)
  BY <1>1, OneMore
<1>3. Len(b) \in Nat /\ \A i \in 1..Len(b) : b[i] \in 1..Len(l)
  OBVIOUS
<1>4. PICK d \in {0, 1} :
        /\ d = 1 => Len(b) = BufferSize
        /\ d = 0 => Len(b) < BufferSize
        /\ Len(b) \geq d
        /\ Len(r) = Len(b) + 1 - d
        /\ \A i \in 1..(Len(b) - d) : r[i] = b[i + d]
        /\ r[Len(b) + 1 - d] = N
  <2>1. b \in Seq(1..Len(m)) /\ N \in 1..Len(m)
    <3>1. 1..Len(l) \subseteq 1..Len(m)
      BY <1>1
    <3> QED BY <1>1, <3>1, SeqMonotone
  <2> QED BY <2>1, RememberShifts
<1> HIDE DEF m, N, r
<1>5. \A i \in 1..Len(r) :
         \/ i + d \in 1..Len(b) /\ r[i] = b[i + d] /\ r[i] \in 1..Len(l)
         \/ i = Len(r) /\ r[i] = N
  <2> SUFFICES ASSUME NEW i \in 1..Len(r), i # Len(r)
               PROVE  i + d \in 1..Len(b) /\ r[i] = b[i + d] /\ r[i] \in 1..Len(l)
    BY <1>3, <1>4
  <2>1. i \in 1..(Len(b) - d) /\ i + d \in 1..Len(b)
    BY <1>3, <1>4
  <2> QED BY <1>3, <1>4, <2>1
<1>6. Ascending(r)
  <2> SUFFICES ASSUME NEW i \in 1..Len(r), NEW j \in 1..Len(r), i < j
               PROVE  r[i] < r[j]
    BY DEF Ascending
  <2>1. i + d \in 1..Len(b) /\ r[i] = b[i + d] /\ r[i] \in 1..Len(l)
    BY <1>3, <1>4, <1>5
  <2>2. CASE j + d \in 1..Len(b) /\ r[j] = b[j + d]
    <3>1. i + d < j + d
      OBVIOUS
    <3> QED BY <2>1, <2>2, <3>1 DEF Ascending
  <2>3. CASE r[j] = N
    BY <1>1, <2>1, <2>3
  <2> QED BY <1>5, <2>2, <2>3
<1>7. Ranked(m, r, c)
  <2> SUFFICES ASSUME NEW i \in 1..Len(r)
               PROVE  Plain(m, r[i]) /\ r[i] > c /\ Cardinality(Later(m, r[i])) = Len(r) - i
    BY DEF Ranked
  <2>1. CASE i + d \in 1..Len(b) /\ r[i] = b[i + d] /\ r[i] \in 1..Len(l)
    <3>1. /\ Plain(l, r[i]) /\ r[i] > c
          /\ Cardinality(Later(l, r[i])) = Len(b) - (i + d)
      BY <2>1 DEF Ranked
    <3>2. Later(m, r[i]) = Later(l, r[i]) \cup {N} /\ N \notin Later(l, r[i])
      BY <1>2, <2>1
    <3>3. IsFiniteSet(Later(l, r[i])) /\ Cardinality(Later(l, r[i])) \in Nat
      BY <1>1, LaterFacts
    <3>4. Cardinality(Later(l, r[i]) \cup {N})
            = IF N \in Later(l, r[i]) THEN Cardinality(Later(l, r[i]))
                                      ELSE Cardinality(Later(l, r[i])) + 1
      BY <3>3, FS_AddElement
    <3>5. Cardinality(Later(m, r[i])) = Cardinality(Later(l, r[i])) + 1
      BY <3>2, <3>4
    <3>6. Len(b) - (i + d) + 1 = Len(r) - i
      BY <1>3, <1>4
    <3>7. Plain(m, r[i])
      BY <1>1, <2>1, <3>1
    <3> QED BY <3>1, <3>5, <3>6, <3>7
  <2>2. CASE i = Len(r) /\ r[i] = N
    <3>1. Cardinality(Later(m, r[i])) = 0
      BY <1>2, <2>2, FS_EmptySet
    <3>2. Len(r) - i = 0
      BY <1>3, <1>4, <2>2
    <3> QED BY <1>1, <2>2, <3>1, <3>2
  <2> QED BY <1>5, <2>1, <2>2
<1>8. Recalled(m, r, c)
  <2> SUFFICES ASSUME NEW n \in 1..Len(m), Plain(m, n), n > c
               PROVE  (\E i \in 1..Len(r) : n = r[i]) \/ (Len(r) = BufferSize /\ n < r[1])
    BY DEF Recalled
  <2>1. CASE n = N
    <3>1. Len(b) + 1 - d \in 1..Len(r)
      BY <1>3, <1>4
    <3> QED BY <1>4, <2>1, <3>1
  <2>2. ASSUME NEW i \in 1..Len(b), n = b[i], i > d PROVE \E j \in 1..Len(r) : n = r[j]
    <3>1. i - d \in 1..(Len(b) - d) /\ (i - d) + d = i /\ i - d \in 1..Len(r)
      BY <1>3, <1>4, <2>2
    <3>2. r[i - d] = b[i]
      BY <1>4, <3>1
    <3> QED BY <2>2, <3>1, <3>2
  <2>3. ASSUME d = 1, n \in 1..Len(l), n <= b[1]
        PROVE  Len(r) = BufferSize /\ n < r[1]
    <3>1. Len(r) = BufferSize /\ 1 \in 1..Len(b) /\ Len(b) = Len(r)
      BY <1>3, <1>4, <2>3, SizesAssumption
    <3>2. CASE Len(b) = 1
      <4>1. r[1] = N
        BY <1>4, <2>3, <3>2
      <4> QED BY <1>1, <2>3, <3>1, <4>1
    <3>3. CASE Len(b) > 1
      <4>1. 1 \in 1..(Len(b) - d) /\ 2 \in 1..Len(b) /\ 1 + d = 2
        BY <1>3, <2>3, <3>3
      <4>2. r[1] = b[2] /\ b[1] < b[2] /\ b[2] \in 1..Len(l) /\ b[1] \in 1..Len(l)
        BY <1>3, <1>4, <3>1, <4>1 DEF Ascending
      <4> QED BY <1>1, <2>3, <3>1, <4>2
    <3> QED BY <1>3, <3>1, <3>2, <3>3
  <2>4. CASE n \in 1..Len(l)
    <3>1. Plain(l, n)
      BY <1>1, <2>4
    <3>2. CASE \E i \in 1..Len(b) : n = b[i]
      <4>1. PICK i \in 1..Len(b) : n = b[i]
        BY <3>2
      <4>2. CASE i > d
        BY <2>2, <4>1, <4>2
      <4>3. CASE ~(i > d)
        <5>1. d = 1 /\ i = 1
          BY <1>3, <4>3
        <5>2. n <= b[1]
          BY <1>1, <2>4, <4>1, <5>1
        <5> QED BY <2>3, <2>4, <5>1, <5>2
      <4> QED BY <4>2, <4>3
    <3>3. CASE Len(b) = BufferSize /\ n < b[1]
      <4>1. d = 1 /\ 1 \in 1..Len(b)
        BY <1>4, <3>3, SizesAssumption
      <4>2. n <= b[1]
        BY <1>1, <1>3, <2>4, <3>3, <4>1
      <4> QED BY <2>3, <2>4, <4>1, <4>2
    <3> QED BY <2>4, <3>1, <3>2, <3>3 DEF Recalled
  <2> QED BY <1>1, <2>1, <2>4
<1> QED BY <1>6, <1>7, <1>8 DEF m, r, N

(* A topology takes the place of its run's last; any other event takes none. *)
LEMMA StampKeepsPinned ==
    ASSUME TypeOK, PinnedInv, NEW p \in Producers, NEW type \in Types, NEW run \in Runs,
           Stamp(p, type, run)
    PROVE  PinnedInv'
<1> DEFINE N == Len(log) + 1
           e == [type |-> type, run |-> run, by |-> p]
<1>1. log \in Seq(Event) /\ e \in Event /\ log' = Append(log, e) /\ cleared' = cleared
  BY DEF TypeOK, Stamp, Event
<1>2. /\ Len(log) \in Nat /\ N \in Nat /\ N # 0 /\ Len(log') = N /\ N \in 1..Len(log')
      /\ log'[N].type = type /\ log'[N].run = run
      /\ \A n \in 1..Len(log') : n \in 1..Len(log) \/ n = N
      /\ \A n \in 1..Len(log) : n \in 1..Len(log') /\ n < N /\ n \in Nat /\ log'[n] = log[n]
  BY <1>1, OneMore
<1>3. cleared \in Nat /\ cleared < N
  BY <1>2 DEF TypeOK, Seqs
<1>4. \A n \in 1..Len(log) : log[n].run \in Runs
  <2>1. \A n \in 1..Len(log) : log[n] \in Event
    BY <1>1
  <2> QED BY <2>1 DEF Event
<1>5. topology \in [Runs -> 1..Len(log) \cup {0}]
  BY DEF TypeOK, Seqs
<1>6. topology' = IF type = "topology" THEN [topology EXCEPT ![run] = N] ELSE topology
  BY DEF Stamp
<1> HIDE DEF N, e
<1>7. \A r \in Runs : topology'[r] = IF type = "topology" /\ r = run THEN N ELSE topology[r]
  BY <1>5, <1>6
<1>8. (Plain(log', N) <=> type = "other") /\ \A n \in 1..Len(log) : Plain(log', n) <=> Plain(log, n)
  BY <1>2 DEF Plain
<1>9. ASSUME NEW r \in Runs PROVE Pinned(log', topology', cleared', r)
  <2>1. CASE type = "topology" /\ r = run
    <3>1. topology'[r] = N /\ ~Plain(log', N)
      BY <1>7, <1>8, <2>1
    <3>2. \A m \in 1..Len(log') : ~(m > N)
      BY <1>2
    <3>3. N > cleared'
      BY <1>1, <1>3, <1>2
    <3> QED BY <1>2, <2>1, <3>1, <3>2, <3>3 DEF Pinned
  <2>2. CASE ~(type = "topology" /\ r = run)
    <3>1. topology'[r] = topology[r]
      BY <1>7, <2>2
    <3>2. log'[N].run = r => Plain(log', N)
      BY <1>2, <1>8, <2>2 DEF Types
    <3>3. CASE topology[r] = 0
      BY <3>1, <3>3 DEF Pinned
    <3>4. CASE topology[r] # 0
      <4>1. /\ topology[r] \in 1..Len(log) /\ topology[r] > cleared
            /\ ~Plain(log, topology[r]) /\ log[topology[r]].run = r
            /\ \A m \in 1..Len(log) : m > topology[r] /\ log[m].run = r => Plain(log, m)
        BY <3>4 DEF PinnedInv, Pinned
      <4>2. /\ topology'[r] \in 1..Len(log') /\ topology'[r] > cleared'
            /\ ~Plain(log', topology'[r]) /\ log'[topology'[r]].run = r
        BY <1>1, <1>2, <1>8, <3>1, <4>1
      <4>3. \A m \in 1..Len(log') : m > topology'[r] /\ log'[m].run = r => Plain(log', m)
        BY <1>2, <1>8, <3>1, <3>2, <4>1
      <4> QED BY <4>2, <4>3 DEF Pinned
    <3> QED BY <3>3, <3>4
  <2> QED BY <2>1, <2>2
<1>10. ASSUME NEW n \in 1..Len(log'), ~Plain(log', n), n > cleared'
       PROVE  topology'[log'[n].run] # 0
  <2>1. CASE n = N
    <3>1. type = "topology" /\ log'[n].run = run
      BY <1>2, <1>8, <1>10, <2>1 DEF Types
    <3> QED BY <1>2, <1>7, <3>1
  <2>2. CASE n \in 1..Len(log)
    <3>1. topology[log[n].run] # 0 /\ log'[n] = log[n] /\ log[n].run \in Runs
      BY <1>1, <1>2, <1>4, <1>8, <1>10, <2>2 DEF PinnedInv
    <3> QED BY <1>2, <1>7, <3>1
  <2> QED BY <1>2, <2>1, <2>2
<1> QED BY <1>9, <1>10 DEF PinnedInv

(* The deque and the pins stay what they are in every step.                *)
LEMMA ReplayInvariant == Spec => [](BufferInv /\ PinnedInv)
<1>1. Init => BufferInv /\ PinnedInv
  <2> SUFFICES ASSUME Init PROVE BufferInv /\ PinnedInv
    OBVIOUS
  <2>1. buffer = <<>> /\ log = <<>> /\ \A r \in Runs : topology[r] = 0
    BY DEF Init
  <2> QED BY <2>1 DEF BufferInv, Ranked, Ascending, Recalled, PinnedInv, Pinned
<1>2. TypeOK /\ BufferInv /\ PinnedInv /\ [Next]_vars => (BufferInv /\ PinnedInv)'
  <2> SUFFICES ASSUME TypeOK, BufferInv, PinnedInv, [Next]_vars PROVE BufferInv' /\ PinnedInv'
    OBVIOUS
  <2>1. CASE UNCHANGED <<log, replayVars>>
    BY <2>1 DEF replayVars, BufferInv, PinnedInv
  <2>2. ASSUME NEW p \in Producers, NEW type \in Types, NEW run \in Runs, Stamp(p, type, run)
        PROVE  BufferInv' /\ PinnedInv'
    <3> DEFINE e == [type |-> type, run |-> run, by |-> p]
    <3>1. log \in Seq(Event) /\ e \in Event /\ log' = Append(log, e) /\ cleared' = cleared
      BY <2>2 DEF TypeOK, Stamp, Event
    <3>2. buffer \in Seq(1..Len(log)) /\ Len(buffer) <= BufferSize /\ cleared \in 0..Len(log)
      BY DEF TypeOK, Seqs
    <3>3. e.type = type
      OBVIOUS
    <3>4. BufferInv'
      <4>1. CASE type = "topology"
        <5>1. buffer' = buffer
          BY <2>2, <4>1 DEF Stamp
        <5> HIDE DEF e
        <5> QED BY <3>1, <3>2, <3>3, <4>1, <5>1, TopologyKeepsBuffer DEF BufferInv
      <4>2. CASE type = "other"
        <5>1. buffer' = Remember(buffer, Len(log) + 1)
          BY <2>2, <4>2 DEF Stamp
        <5> HIDE DEF e
        <5> QED BY <3>1, <3>2, <3>3, <4>2, <5>1, RememberKeepsBuffer DEF BufferInv
      <4> QED BY <4>1, <4>2 DEF Types
    <3> QED BY <2>2, <3>4, StampKeepsPinned
  <2>3. CASE Clear
    <3>1. /\ buffer' = <<>> /\ log' = log /\ cleared' = Len(log)
          /\ \A r \in Runs : topology'[r] = 0
      BY <2>3 DEF Clear
    <3>2. \A n \in 1..Len(log') : ~(n > cleared')
      BY <3>1 DEF TypeOK
    <3>3. BufferInv'
      BY <3>1, <3>2 DEF BufferInv, Ranked, Ascending, Recalled
    <3>4. PinnedInv'
      BY <3>1, <3>2 DEF PinnedInv, Pinned
    <3> QED BY <3>3, <3>4
  <2>4. CASE \/ Fanout \/ BindLoop \/ CloseLoop \/ WriteRecord \/ UNCHANGED vars
             \/ \E q \in Queues : SubscribeAndReplay(q) \/ Get(q) \/ Unsubscribe(q)
             \/ \E p \in Producers : PutRecord(p) \/ Schedule(p)
             \/ \E path \in Paths : SetJsonl(path)
    <3>1. UNCHANGED <<log, replayVars>>
      BY <2>4 DEF Fanout, BindLoop, CloseLoop, WriteRecord, vars, SubscribeAndReplay, Get, Unsubscribe,
                  PutRecord, Schedule, SetJsonl
    <3> QED BY <2>1, <3>1
  <2> QED BY <2>2, <2>3, <2>4 DEF Next
<1> QED BY <1>1, <1>2, TypeCorrect, PTL DEF Spec

(* A replay holds exactly the last topology of every run and the last      *)
(* BufferSize other events, counted since the last clear().                *)
THEOREM ReplayCorrect == Spec => []ReplayIsRecent
<1>1. TypeOK /\ BufferInv /\ PinnedInv => ReplayIsRecent
  <2> SUFFICES ASSUME TypeOK, BufferInv, PinnedInv, NEW n \in 1..Len(log)
               PROVE  n \in Replay <=>
                        /\ n > cleared
                        /\ IF Plain(log, n)
                             THEN Cardinality(Later(log, n)) < BufferSize
                             ELSE \A m \in 1..Len(log) :
                                     m > n /\ log[m].run = log[n].run => Plain(log, m)
    BY DEF ReplayIsRecent, Seqs, Ordinary, Plain, Later
  <2>1. /\ Len(buffer) \in Nat /\ Len(buffer) <= BufferSize /\ DOMAIN buffer = 1..Len(buffer)
        /\ \A i \in 1..Len(buffer) : buffer[i] \in 1..Len(log)
        /\ Len(log) \in Nat /\ \A m \in 1..Len(log) : m \in Nat /\ m # 0
        /\ BufferSize \in Nat \ {0}
    <3>1. buffer \in Seq(1..Len(log)) /\ Len(buffer) <= BufferSize /\ log \in Seq(Event)
      BY DEF TypeOK, Seqs
    <3> QED BY <3>1, SizesAssumption
  <2>2. n \in ToSet(buffer) <=> \E i \in 1..Len(buffer) : n = buffer[i]
    BY <2>1 DEF ToSet
  <2>3. CASE Plain(log, n)
    <3>1. n \in Replay <=> n \in ToSet(buffer)
      BY <2>1, <2>3 DEF PinnedInv, Pinned, Replay
    <3>2. ASSUME n \in ToSet(buffer) PROVE n > cleared /\ Cardinality(Later(log, n)) < BufferSize
      <4>1. PICK i \in 1..Len(buffer) : n = buffer[i]
        BY <2>2, <3>2
      <4>2. n > cleared /\ Cardinality(Later(log, n)) = Len(buffer) - i
        BY <4>1 DEF BufferInv, Ranked
      <4> QED BY <2>1, <4>2
    <3>3. Cardinality(Later(log, n)) \in Nat /\ IsFiniteSet(Later(log, n))
      BY <2>1, LaterFacts
    <3>4. ASSUME n > cleared, n \notin ToSet(buffer) PROVE Cardinality(Later(log, n)) >= BufferSize
      <4>1. Len(buffer) = BufferSize /\ n < buffer[1] /\ 1 \in 1..Len(buffer)
        <5>1. Len(buffer) = BufferSize /\ n < buffer[1]
          BY <2>2, <2>3, <3>4 DEF BufferInv, Recalled
        <5> QED BY <2>1, <5>1
      <4> DEFINE first == buffer[1]
                 L == Later(log, first)
      <4>2. Plain(log, first) /\ Cardinality(L) = BufferSize - 1 /\ first \in 1..Len(log)
        BY <2>1, <4>1 DEF BufferInv, Ranked
      <4>3. L \cup {first} \subseteq Later(log, n) /\ first \notin L
        <5>1. \A m \in 1..Len(log) : m > first => m > n
          BY <2>1, <4>1, <4>2
        <5>2. ~(first > first) /\ first > n
          BY <2>1, <4>1, <4>2
        <5> QED BY <4>2, <5>1, <5>2 DEF Later
      <4>4. IsFiniteSet(L)
        BY <2>1, LaterFacts
      <4> HIDE DEF L, first
      <4>5. Cardinality(L \cup {first}) = IF first \in L THEN Cardinality(L) ELSE Cardinality(L) + 1
        BY <4>4, FS_AddElement
      <4>6. Cardinality(L \cup {first}) = BufferSize
        BY <2>1, <4>2, <4>3, <4>5
      <4>7. Cardinality(L \cup {first}) <= Cardinality(Later(log, n))
        BY <3>3, <4>3, FS_Subset
      <4> QED BY <4>6, <4>7
    <3>5. Cardinality(Later(log, n)) >= BufferSize => ~(Cardinality(Later(log, n)) < BufferSize)
      BY <2>1, <3>3
    <3> QED BY <2>3, <3>1, <3>2, <3>4, <3>5
  <2>4. CASE ~Plain(log, n)
    <3>1. n \notin ToSet(buffer)
      BY <2>2, <2>4 DEF BufferInv, Ranked
    <3> DEFINE r == log[n].run
    <3>2. r \in Runs
      <4>1. log \in Seq(Event)
        BY DEF TypeOK
      <4>2. log[n] \in Event
        BY <4>1
      <4> QED BY <4>2 DEF Event
    <3>3. ASSUME n \in Replay
          PROVE  n > cleared /\ \A m \in 1..Len(log) : m > n /\ log[m].run = r => Plain(log, m)
      <4>1. PICK x \in Runs : topology[x] # 0 /\ n = topology[x]
        BY <3>1, <3>3 DEF Replay
      <4> QED BY <4>1 DEF PinnedInv, Pinned
    <3>4. ASSUME n > cleared, \A m \in 1..Len(log) : m > n /\ log[m].run = r => Plain(log, m)
          PROVE  n \in Replay
      <4>1. topology[r] # 0
        BY <2>4, <3>4 DEF PinnedInv
      <4>2. /\ topology[r] \in 1..Len(log) /\ ~Plain(log, topology[r]) /\ log[topology[r]].run = r
            /\ \A m \in 1..Len(log) : m > topology[r] /\ log[m].run = r => Plain(log, m)
        BY <3>2, <4>1 DEF PinnedInv, Pinned
      <4>3. ~(topology[r] > n) /\ ~(n > topology[r])
        BY <2>4, <3>4, <4>2
      <4>4. topology[r] = n
        BY <2>1, <4>2, <4>3
      <4> QED BY <3>2, <4>1, <4>4 DEF Replay
    <3> QED BY <2>4, <3>3, <3>4
  <2> QED BY <2>3, <2>4
<1> QED BY <1>1, TypeCorrect, ReplayInvariant, PTL

=============================================================================
