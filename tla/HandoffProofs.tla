---------------------------- MODULE HandoffProofs ---------------------------
(***************************************************************************)
(* Proofs about walking through nested graphs, for any number of graph     *)
(* objects that run one another in any way, cycles included, to any depth. *)
(*                                                                         *)
(* The topology is the value of a recursive function over paths.  It is    *)
(* shown to have one, and that one is then described without recursion, in *)
(* terms of the set of open paths: those of the nodes drawn as the graph   *)
(* they run (Flat).  Everything else is proved from that description.      *)
(***************************************************************************)
EXTENDS Handoff, SequenceTheorems, FiniteSetTheorems, WellFoundedInduction, TLAPS

Names == UNION Range(NodesOf)
All == Names \cup {Start, End}

(* Induction up to a bound, for a set of numbers.                          *)
LEMMA UpTo ==
    ASSUME NEW N \in Nat, NEW T, 0 \in T, \A i \in 1..N : i - 1 \in T => i \in T
    PROVE  \A i \in 0..N : i \in T
<1> DEFINE bad == {i \in Nat : i <= N /\ i \notin T}
<1> SUFFICES ASSUME bad # {} PROVE FALSE
  OBVIOUS
<1>1. PICK m \in bad : \A x \in bad : <<x, m>> \notin OpToRel(<, Nat)
  BY NatLessThanWellFounded, WFMin
<1>2. m # 0 /\ m \in 1..N /\ m \notin T
  OBVIOUS
<1>3. m - 1 \in Nat /\ m - 1 < m /\ m - 1 <= N /\ m - 1 \notin T
  BY <1>2
<1>4. <<m - 1, m>> \in Nat \X Nat /\ <<m - 1, m>>[1] < <<m - 1, m>>[2]
  BY <1>3
<1> QED BY <1>1, <1>3, <1>4 DEF OpToRel

-----------------------------------------------------------------------------
(* The recursive function in Topology.                                     *)
CallsOf == Graphs \X Seq(Names) \X SUBSET Graphs
Rep(sg, x) == Replaced(x[1], x[2], x[3], sg)
Kid(x, n) == <<Runs[x[1]][n], Append(x[2], n), x[3] \cup {x[1]}>>
Joint(x, replaced, child) ==
    LET own == Merged(x[1])
        Leave(n) == IF n \in replaced THEN <<n, End>> ELSE <<n>>
        Enter(n) == IF n \in replaced THEN <<n, Start>> ELSE <<n>>
    IN  [nodes |-> {<<n>> : n \in own.nodes \ replaced} \cup
                   UNION {{Below(n, m) : m \in child[n].nodes} : n \in replaced},
         edges |-> {<<Leave(e[1]), Enter(e[2])>> : e \in own.edges} \cup
                   UNION {{<<Below(n, e[1]), Below(n, e[2])>> : e \in child[n].edges} : n \in replaced}]
Extracts(sg, f, D) ==
    f = [x \in D |-> Joint(x, Rep(sg, x), [n \in Rep(sg, x) |-> f[Kid(x, n)]])]

(* The recursive function in Topology is a choice, and Extracts says of    *)
(* what.                                                                   *)
LEMMA TopologyChosen ==
    ASSUME NEW sg
    PROVE  Topology(sg) = (CHOOSE f : Extracts(sg, f, CallsOf))[<<Root, <<>>, {}>>]
BY DEF Topology, Extracts, CallsOf, Joint, Rep, Kid, Names

Room(x) == Cardinality(Graphs \ (x[3] \cup {x[1]}))

(* Every work node of a graph object has one of the names.                 *)
LEMMA NamesType == \A g \in Graphs : NodesOf[g] \subseteq Names
BY GraphsAssumption DEF Names, Range

(* extract_topology recurses into a graph object that is not above it:     *)
(* there is one less to go to each time.                                   *)
LEMMA KidSmaller ==
    ASSUME NEW sg, NEW x \in CallsOf, NEW n \in Rep(sg, x)
    PROVE  Kid(x, n) \in CallsOf /\ Room(x) \in Nat /\ Room(Kid(x, n)) \in Nat /\ Room(Kid(x, n)) < Room(x)
<1> DEFINE h == Runs[x[1]][n]
           S == Graphs \ (x[3] \cup {x[1]})
<1>1. x[1] \in Graphs /\ x[2] \in Seq(Names) /\ x[3] \subseteq Graphs
  BY DEF CallsOf
<1>2. n \in NodesOf[x[1]] /\ h \notin x[3] \cup {x[1], NoGraph}
  BY DEF Rep, Replaced
<1>3. h \in Graphs
  BY <1>1, <1>2, GraphsAssumption
<1>4. n \in Names
  BY <1>1, <1>2, NamesType
<1>5. Kid(x, n) \in CallsOf
  <2>1. Append(x[2], n) \in Seq(Names)
    BY <1>1, <1>4
  <2> QED BY <1>1, <1>3, <2>1 DEF Kid, CallsOf
<1>6. Graphs \ (Kid(x, n)[3] \cup {Kid(x, n)[1]}) = S \ {h}
  BY DEF Kid
<1>7. IsFiniteSet(S)
  BY GraphsAssumption, FS_Difference
<1>8. h \in S
  BY <1>2, <1>3
<1>9. Cardinality(S \ {h}) = Cardinality(S) - 1 /\ IsFiniteSet(S \ {h})
  BY <1>7, <1>8, FS_RemoveElement
<1>10. Cardinality(S) \in Nat /\ Cardinality(S \ {h}) \in Nat
  BY <1>7, <1>9, FS_CardinalityType
<1>11. Room(x) = Cardinality(S) /\ Room(Kid(x, n)) = Cardinality(S \ {h})
  BY <1>6 DEF Room
<1> QED BY <1>5, <1>9, <1>10, <1>11

(* The room a call has is at most the number of graph objects.             *)
LEMMA RoomType == \A x \in CallsOf : Room(x) \in Nat /\ Room(x) < Cardinality(Graphs) + 1 /\ Cardinality(Graphs) \in Nat
<1> SUFFICES ASSUME NEW x \in CallsOf
             PROVE  Room(x) \in Nat /\ Room(x) < Cardinality(Graphs) + 1 /\ Cardinality(Graphs) \in Nat
  OBVIOUS
<1>1. Cardinality(Graphs) \in Nat
  BY GraphsAssumption, FS_CardinalityType
<1> DEFINE S == Graphs \ (x[3] \cup {x[1]})
<1>2. S \in SUBSET Graphs
  OBVIOUS
<1>3. IsFiniteSet(S) /\ Cardinality(S) <= Cardinality(Graphs)
  BY <1>2, GraphsAssumption, FS_Subset
<1>4. Cardinality(S) \in Nat
  BY <1>3, FS_CardinalityType
<1> QED BY <1>1, <1>3, <1>4 DEF Room

(* So the recursive function has a value.                                  *)
LEMMA ExtractExists ==
    ASSUME NEW sg
    PROVE  \E f : Extracts(sg, f, CallsOf)
<1> DEFINE D(k) == {x \in CallsOf : Room(x) < k}
           T == {k \in Nat : \E f : Extracts(sg, f, D(k))}
           N == Cardinality(Graphs) + 1
<1>1. N \in Nat
  BY GraphsAssumption, FS_CardinalityType
<1>2. 0 \in T
  <2>1. D(0) = {}
    BY RoomType
  <2>2. Extracts(sg, [x \in {} |-> x], {})
    BY DEF Extracts
  <2> HIDE DEF D
  <2> QED BY <2>1, <2>2
<1>3. ASSUME NEW k \in 1..N, k - 1 \in T PROVE k \in T
  <2>1. PICK f : Extracts(sg, f, D(k - 1))
    BY <1>3
  <2> DEFINE step(h, x) == Joint(x, Rep(sg, x), [n \in Rep(sg, x) |-> h[Kid(x, n)]])
             g == [x \in D(k) |-> IF x \in D(k - 1) THEN f[x] ELSE step(f, x)]
  <2>2. ASSUME NEW x \in D(k) PROVE step(g, x) = step(f, x)
    <3>1. ASSUME NEW n \in Rep(sg, x) PROVE g[Kid(x, n)] = f[Kid(x, n)]
      <4>1. Kid(x, n) \in D(k - 1) /\ Kid(x, n) \in D(k)
        BY KidSmaller, <1>1
      <4> HIDE DEF D, step
      <4> QED BY <4>1
    <3>2. [n \in Rep(sg, x) |-> g[Kid(x, n)]] = [n \in Rep(sg, x) |-> f[Kid(x, n)]]
      <4> HIDE DEF g
      <4> QED BY <3>1
    <3> HIDE DEF g
    <3> QED BY <3>2
  <2>3. \A x \in D(k - 1) : f[x] = step(f, x)
    <3> HIDE DEF D
    <3> QED BY <2>1 DEF Extracts
  <2>4. \A x \in D(k) : g[x] = step(g, x)
    <3> SUFFICES ASSUME NEW x \in D(k) PROVE g[x] = step(g, x)
      OBVIOUS
    <3>1. g[x] = step(f, x)
      <4> HIDE DEF D, step
      <4> QED BY <2>3
    <3> HIDE DEF g, step, D
    <3> QED BY <3>1, <2>2
  <2>5. g = [x \in D(k) |-> step(g, x)]
    <3>1. g = [x \in D(k) |-> g[x]]
      <4> HIDE DEF D, step
      <4> QED OBVIOUS
    <3> HIDE DEF g, step, D
    <3> QED BY <3>1, <2>4
  <2>6. Extracts(sg, g, D(k))
    <3> HIDE DEF g, D
    <3> QED BY <2>5 DEF Extracts
  <2>7. k \in Nat
    BY <1>1
  <2> HIDE DEF g, D, N
  <2> QED BY <2>6, <2>7
<1>4. N \in T
  <2> HIDE DEF T
  <2>1. \A i \in 1..N : i - 1 \in T => i \in T
    BY <1>3
  <2>2. N \in 0..N
    BY <1>1
  <2> HIDE DEF N
  <2> QED BY <1>1, <1>2, <2>1, <2>2, UpTo
<1>5. D(N) = CallsOf
  BY RoomType
<1> HIDE DEF D, N
<1> QED BY <1>4, <1>5

(* The topology is that value at the root.                                 *)
LEMMA TopologyExtracts ==
    ASSUME NEW sg
    PROVE  \E f : Extracts(sg, f, CallsOf) /\ Topology(sg) = f[<<Root, <<>>, {}>>]
<1> DEFINE f == CHOOSE g : Extracts(sg, g, CallsOf)
<1>1. Extracts(sg, f, CallsOf)
  BY ExtractExists
<1> QED BY <1>1, TopologyChosen

-----------------------------------------------------------------------------
(* Sequences that grow at their end.                                       *)
LEMMA GrowsByOne ==
    ASSUME NEW S, NEW s \in Seq(S), NEW x \in S
    PROVE  /\ Append(s, x) \in Seq(S) /\ Append(s, x) # <<>>
           /\ Len(s) \in Nat /\ Len(Append(s, x)) = Len(s) + 1
           /\ \A i \in 1..Len(s) : Append(s, x)[i] = s[i]
           /\ Append(s, x)[Len(s) + 1] = x
           /\ Front(Append(s, x)) = s /\ Last(Append(s, x)) = x
           /\ \A i \in 0..Len(s) : SubSeq(Append(s, x), 1, i) = SubSeq(s, 1, i)
           /\ SubSeq(s, 1, Len(s)) = s
<1> DEFINE t == Append(s, x)
<1>1. t \in Seq(S) /\ t # <<>> /\ Len(t) = Len(s) + 1 /\ t[Len(s) + 1] = x /\ \A i \in 1..Len(s) : t[i] = s[i]
  BY AppendProperties
<1>2. Len(s) \in Nat /\ \A i \in 1..Len(s) : s[i] \in S
  BY LenProperties, ElementOfSeq
<1>3. SubSeq(s, 1, Len(s)) = s
  BY SubSeqFull
<1> HIDE DEF t
<1>4. ASSUME NEW i \in 0..Len(s) PROVE SubSeq(t, 1, i) = SubSeq(s, 1, i)
  <2>1. \A j \in 1..i : t[j] = s[j] /\ s[j] \in S
    BY <1>1, <1>2
  <2>2. /\ SubSeq(t, 1, i) \in Seq(S) /\ Len(SubSeq(t, 1, i)) = (IF 1 <= i THEN i - 1 + 1 ELSE 0)
        /\ \A j \in 1..i - 1 + 1 : SubSeq(t, 1, i)[j] = t[1 + j - 1]
    BY <2>1, SubSeqProperties
  <2>3. /\ SubSeq(s, 1, i) \in Seq(S) /\ Len(SubSeq(s, 1, i)) = (IF 1 <= i THEN i - 1 + 1 ELSE 0)
        /\ \A j \in 1..i - 1 + 1 : SubSeq(s, 1, i)[j] = s[1 + j - 1]
    BY <2>1, SubSeqProperties
  <2> QED BY <2>1, <2>2, <2>3, <1>2, SeqEqual
<1>5. Front(t) = s
  <2>1. Len(t) - 1 = Len(s)
    BY <1>1, <1>2
  <2> QED BY <2>1, <1>2, <1>3, <1>4 DEF Front
<1>6. Last(t) = x
  BY <1>1 DEF Last
<1> QED BY <1>1, <1>2, <1>3, <1>4, <1>5, <1>6 DEF t

(* A sequence that is not empty is its front and its last element.         *)
LEMMA FrontAndLast ==
    ASSUME NEW S, NEW s \in Seq(S), s # <<>>
    PROVE  /\ Front(s) \in Seq(S) /\ Last(s) \in S /\ s = Append(Front(s), Last(s))
           /\ Len(s) \in Nat \ {0} /\ Len(s) = Len(Front(s)) + 1
<1>1. PICK t \in Seq(S), x \in S : s = Append(t, x)
  BY SequenceEmptyOrAppend
<1>2. Front(s) = t /\ Last(s) = x /\ Len(s) = Len(t) + 1 /\ Len(t) \in Nat
  BY <1>1, GrowsByOne
<1> QED BY <1>1, <1>2

(* The prefixes of a sequence.                                             *)
LEMMA PrefixType ==
    ASSUME NEW S, NEW s \in Seq(S), NEW i \in 0..Len(s)
    PROVE  /\ SubSeq(s, 1, i) \in Seq(S) /\ Len(SubSeq(s, 1, i)) = i
           /\ \A j \in 1..i : SubSeq(s, 1, i)[j] = s[j]
           /\ i # 0 => SubSeq(s, 1, i) = Append(SubSeq(s, 1, i - 1), s[i])
           /\ \A j \in 0..i : SubSeq(SubSeq(s, 1, i), 1, j) = SubSeq(s, 1, j)
<1>1. Len(s) \in Nat /\ \A j \in 1..Len(s) : s[j] \in S
  BY LenProperties, ElementOfSeq
<1>2. ASSUME NEW j \in 0..Len(s)
      PROVE  /\ SubSeq(s, 1, j) \in Seq(S) /\ Len(SubSeq(s, 1, j)) = j
             /\ \A k \in 1..j : SubSeq(s, 1, j)[k] = s[k]
  <2>1. \A k \in 1..j : s[k] \in S
    BY <1>1
  <2>2. /\ SubSeq(s, 1, j) \in Seq(S) /\ Len(SubSeq(s, 1, j)) = (IF 1 <= j THEN j - 1 + 1 ELSE 0)
        /\ \A k \in 1..j - 1 + 1 : SubSeq(s, 1, j)[k] = s[1 + k - 1]
    BY <2>1, SubSeqProperties
  <2> QED BY <2>2, <1>1
<1>3. i # 0 => SubSeq(s, 1, i) = Append(SubSeq(s, 1, i - 1), s[i])
  <2> SUFFICES ASSUME i # 0 PROVE SubSeq(s, 1, i) = Append(SubSeq(s, 1, i - 1), s[i])
    OBVIOUS
  <2> DEFINE t == SubSeq(s, 1, i - 1)
  <2>1. i - 1 \in 0..Len(s) /\ i \in 1..Len(s)
    BY <1>1
  <2>2. t \in Seq(S) /\ Len(t) = i - 1 /\ \A k \in 1..i - 1 : t[k] = s[k]
    BY <1>2, <2>1
  <2>3. s[i] \in S
    BY <1>1, <2>1
  <2> HIDE DEF t
  <2>4. /\ Append(t, s[i]) \in Seq(S) /\ Len(Append(t, s[i])) = i
        /\ \A k \in 1..i - 1 : Append(t, s[i])[k] = s[k]
        /\ Append(t, s[i])[i] = s[i]
    BY <2>2, <2>3, <2>1, GrowsByOne
  <2>5. \A k \in 1..i : Append(t, s[i])[k] = SubSeq(s, 1, i)[k]
    BY <2>4, <1>2
  <2> QED BY <2>4, <2>5, <1>2, SeqEqual DEF t
<1>4. ASSUME NEW j \in 0..i PROVE SubSeq(SubSeq(s, 1, i), 1, j) = SubSeq(s, 1, j)
  <2> DEFINE t == SubSeq(s, 1, i)
  <2>1. t \in Seq(S) /\ Len(t) = i /\ \A k \in 1..i : t[k] = s[k]
    BY <1>2
  <2>2. j \in 0..Len(s) /\ \A k \in 1..j : t[k] \in S /\ t[k] = s[k]
    BY <1>1, <2>1
  <2> HIDE DEF t
  <2>3. /\ SubSeq(t, 1, j) \in Seq(S) /\ Len(SubSeq(t, 1, j)) = (IF 1 <= j THEN j - 1 + 1 ELSE 0)
        /\ \A k \in 1..j - 1 + 1 : SubSeq(t, 1, j)[k] = t[1 + k - 1]
    BY <2>2, SubSeqProperties
  <2>4. SubSeq(s, 1, j) \in Seq(S) /\ Len(SubSeq(s, 1, j)) = j /\ \A k \in 1..j : SubSeq(s, 1, j)[k] = s[k]
    BY <1>2, <2>2
  <2>5. Len(SubSeq(t, 1, j)) = j /\ \A k \in 1..j : SubSeq(t, 1, j)[k] = SubSeq(s, 1, j)[k]
    BY <2>2, <2>3, <2>4
  <2>6. SubSeq(t, 1, j) = SubSeq(s, 1, j)
    BY <2>3, <2>4, <2>5, SeqEqual
  <2> QED BY <2>6 DEF t
<1> QED BY <1>2, <1>3, <1>4

-----------------------------------------------------------------------------
(* The recursive function in GraphAt.                                      *)
RunsAlong(f, path) == f[0] = Root /\ \A i \in 1..Len(path) : f[i] = Runs[f[i - 1]][path[i]]

(* The recursive function in GraphAt has a value.                          *)
LEMMA GraphAtRuns ==
    ASSUME NEW path, Len(path) \in Nat
    PROVE  \E f : RunsAlong(f, path) /\ GraphAt(path) = f[Len(path)]
<1> DEFINE N == Len(path)
           next(v, n) == Runs[v][path[n]]
           Q(f, m) == f = [n \in 0..m |-> IF n = 0 THEN Root ELSE next(f[n - 1], n)]
           T == {m \in Nat : \E f : Q(f, m)}
<1>1. 0 \in T
  <2>1. Q([n \in 0..0 |-> Root], 0)
    <3> HIDE DEF next
    <3> QED OBVIOUS
  <2> QED BY <2>1
<1>2. ASSUME NEW m \in 1..N, m - 1 \in T PROVE m \in T
  <2> HIDE DEF next
  <2>1. PICK f : Q(f, m - 1)
    BY <1>2
  <2> DEFINE g == [n \in 0..m |-> IF n = m THEN next(f[m - 1], m) ELSE f[n]]
  <2>2. \A n \in 0..m : g[n] = IF n = 0 THEN Root ELSE next(g[n - 1], n)
    <3> SUFFICES ASSUME NEW n \in 0..m PROVE g[n] = IF n = 0 THEN Root ELSE next(g[n - 1], n)
      OBVIOUS
    <3>1. CASE n = 0
      BY <2>1, <3>1
    <3>2. CASE n = m
      BY <2>1, <3>2
    <3>3. CASE n \in 1..(m - 1)
      <4>1. n - 1 \in 0..(m - 1) /\ n \in 0..(m - 1) /\ n # 0 /\ n # m /\ n - 1 # m /\ n - 1 \in 0..m
        BY <3>3
      <4>2. f[n] = next(f[n - 1], n)
        BY <2>1, <4>1
      <4> QED BY <4>1, <4>2
    <3> QED BY <3>1, <3>2, <3>3
  <2>3. Q(g, m)
    BY <2>2
  <2>4. m \in Nat
    OBVIOUS
  <2> HIDE DEF g, Q
  <2> QED BY <2>3, <2>4
<1>3. N \in T
  <2> HIDE DEF T
  <2>1. \A i \in 1..N : i - 1 \in T => i \in T
    BY <1>2
  <2>2. N \in Nat /\ N \in 0..N
    OBVIOUS
  <2> HIDE DEF N
  <2>3. \A i \in 0..N : i \in T
    BY <1>1, <2>1, <2>2, UpTo
  <2> QED BY <2>2, <2>3
<1> DEFINE f == CHOOSE g : Q(g, N)
<1>4. Q(f, N)
  <2> HIDE DEF Q
  <2> QED BY <1>3
<1>5. GraphAt(path) = f[N]
  BY DEF GraphAt
<1>6. RunsAlong(f, path)
  <2> HIDE DEF f
  <2> QED BY <1>4 DEF RunsAlong
<1> QED BY <1>5, <1>6

(* It begins at the root.                                                  *)
LEMMA GraphAtRoot == GraphAt(<<>>) = Root
<1>1. Len(<<>>) = 0
  OBVIOUS
<1>2. PICK f : RunsAlong(f, <<>>) /\ GraphAt(<<>>) = f[Len(<<>>)]
  BY <1>1, GraphAtRuns
<1> QED BY <1>1, <1>2 DEF RunsAlong

(* One node further, the graph object that node runs.                      *)
LEMMA GraphAtBelow ==
    ASSUME NEW S, NEW p \in Seq(S), NEW n \in S
    PROVE  GraphAt(Append(p, n)) = Runs[GraphAt(p)][n]
<1> DEFINE q == Append(p, n)
<1>1. Len(p) \in Nat /\ Len(q) = Len(p) + 1 /\ q[Len(q)] = n /\ \A i \in 1..Len(p) : q[i] = p[i]
  BY GrowsByOne
<1> HIDE DEF q
<1>2. PICK f : RunsAlong(f, p) /\ GraphAt(p) = f[Len(p)]
  BY <1>1, GraphAtRuns
<1>3. PICK g : RunsAlong(g, q) /\ GraphAt(q) = g[Len(q)]
  BY <1>1, GraphAtRuns
<1> DEFINE T == {i \in Nat : f[i] = g[i]}
<1>4. 0 \in T
  BY <1>2, <1>3 DEF RunsAlong
<1>5. ASSUME NEW i \in 1..Len(p), i - 1 \in T PROVE i \in T
  <2>1. i \in Nat /\ i \in 1..Len(q) /\ q[i] = p[i]
    BY <1>1
  <2>2. f[i] = Runs[f[i - 1]][p[i]] /\ g[i] = Runs[g[i - 1]][q[i]]
    BY <2>1, <1>2, <1>3 DEF RunsAlong
  <2> QED BY <1>5, <2>1, <2>2
<1>6. Len(p) \in T
  <2> HIDE DEF T
  <2>1. \A i \in 0..Len(p) : i \in T
    BY <1>1, <1>4, <1>5, UpTo
  <2> QED BY <2>1, <1>1
<1>7. g[Len(q)] = Runs[g[Len(q) - 1]][q[Len(q)]]
  BY <1>1, <1>3 DEF RunsAlong
<1>8. Len(q) - 1 = Len(p)
  BY <1>1
<1> QED BY <1>1, <1>2, <1>3, <1>6, <1>7, <1>8 DEF q

-----------------------------------------------------------------------------
(* The paths of the nodes that are drawn as the graph they run, and <<>>.  *)
Above(p) == {GraphAt(SubSeq(p, 1, j)) : j \in 0..Len(p) - 1}
OpenAt(sg, q, i) ==
    LET up == SubSeq(q, 1, i - 1) IN q[i] \in Replaced(GraphAt(up), up, Above(up), sg)
Open(sg) == {q \in Seq(Names) : \A i \in 1..Len(q) : OpenAt(sg, q, i)}

(* The graph objects above a path, one node further.                       *)
LEMMA AboveGrows ==
    ASSUME NEW S, NEW p \in Seq(S), NEW n \in S
    PROVE  Above(Append(p, n)) = Above(p) \cup {GraphAt(p)} /\ Above(<<>>) = {}
<1> DEFINE q == Append(p, n)
<1>1. /\ Len(p) \in Nat /\ Len(q) = Len(p) + 1 /\ SubSeq(p, 1, Len(p)) = p
      /\ \A i \in 0..Len(p) : SubSeq(q, 1, i) = SubSeq(p, 1, i)
  BY GrowsByOne
<1> HIDE DEF q
<1>2. Above(q) = {GraphAt(SubSeq(q, 1, j)) : j \in 0..Len(p)}
  BY <1>1 DEF Above
<1>3. Above(q) = {GraphAt(SubSeq(p, 1, j)) : j \in 0..Len(p)}
  BY <1>1, <1>2
<1>4. 0..Len(p) = (0..Len(p) - 1) \cup {Len(p)}
  BY <1>1
<1>5. Above(q) = Above(p) \cup {GraphAt(SubSeq(p, 1, Len(p)))}
  BY <1>3, <1>4 DEF Above
<1>6. Above(<<>>) = {}
  <2>1. 0..Len(<<>>) - 1 = {}
    OBVIOUS
  <2> QED BY <2>1 DEF Above
<1> QED BY <1>1, <1>5, <1>6 DEF q

(* The root is always drawn as a graph.                                    *)
LEMMA OpenRoot == \A sg : <<>> \in Open(sg)
<1>1. <<>> \in Seq(Names) /\ Len(<<>>) = 0
  OBVIOUS
<1> QED BY <1>1 DEF Open

(* A path is open when the one above is, and its last node is replaced     *)
(* there.                                                                  *)
LEMMA OpenBelow ==
    ASSUME NEW sg, NEW p \in Seq(All), NEW n \in All
    PROVE  Append(p, n) \in Open(sg) <=>
             p \in Open(sg) /\ n \in Replaced(GraphAt(p), p, Above(p), sg) /\ n \in Names
<1> DEFINE q == Append(p, n)
<1>1. /\ Len(p) \in Nat /\ Len(q) = Len(p) + 1 /\ q[Len(p) + 1] = n
      /\ \A i \in 1..Len(p) : q[i] = p[i]
      /\ \A i \in 0..Len(p) : SubSeq(q, 1, i) = SubSeq(p, 1, i)
      /\ SubSeq(p, 1, Len(p)) = p /\ q \in Seq(All)
  BY GrowsByOne
<1> HIDE DEF q
<1>2. \A i \in 1..Len(p) : OpenAt(sg, q, i) <=> OpenAt(sg, p, i)
  <2> SUFFICES ASSUME NEW i \in 1..Len(p) PROVE OpenAt(sg, q, i) <=> OpenAt(sg, p, i)
    OBVIOUS
  <2>1. i - 1 \in 0..Len(p) /\ SubSeq(q, 1, i - 1) = SubSeq(p, 1, i - 1) /\ q[i] = p[i]
    BY <1>1
  <2> QED BY <2>1 DEF OpenAt
<1>3. OpenAt(sg, q, Len(p) + 1) <=> n \in Replaced(GraphAt(p), p, Above(p), sg)
  <2>1. (Len(p) + 1) - 1 = Len(p) /\ Len(p) \in 0..Len(p) /\ SubSeq(q, 1, Len(p)) = p
    BY <1>1
  <2> QED BY <2>1, <1>1 DEF OpenAt
<1>4. q \in Seq(Names) <=> p \in Seq(Names) /\ n \in Names
  <2>1. CASE p \in Seq(Names) /\ n \in Names
    BY <2>1, GrowsByOne DEF q
  <2>2. CASE q \in Seq(Names)
    <3>1. \A i \in 1..Len(q) : q[i] \in Names
      BY <2>2, ElementOfSeq
    <3>2. \A i \in 1..Len(p) : p[i] \in Names
      <4> SUFFICES ASSUME NEW i \in 1..Len(p) PROVE p[i] \in Names
        OBVIOUS
      <4>1. i \in 1..Len(q) /\ q[i] = p[i]
        BY <1>1
      <4> QED BY <4>1, <3>1
    <3>3. n \in Names
      <4>1. Len(p) + 1 \in 1..Len(q)
        BY <1>1
      <4> QED BY <4>1, <3>1, <1>1
    <3>4. p \in [1..Len(p) -> Names]
      BY <3>2, LenProperties
    <3>5. p \in Seq(Names)
      BY <3>4, <1>1, SeqDef
    <3> QED BY <2>2, <3>3, <3>5
  <2> QED BY <2>1, <2>2
<1>5. 1..Len(q) = (1..Len(p)) \cup {Len(p) + 1}
  BY <1>1
<1> QED BY <1>2, <1>3, <1>4, <1>5 DEF Open, q

(* What is known of an open path.                                          *)
OpenKnown(sg, p) ==
    /\ p \in Seq(Names)
    /\ GraphAt(p) \in Graphs
    /\ Above(p) \subseteq Graphs /\ GraphAt(p) \notin Above(p)
    /\ Cardinality(Above(p)) = Len(p)
    /\ p # <<>> => /\ Front(p) \in Open(sg) /\ Last(p) \in NodesOf[GraphAt(Front(p))]
                   /\ Last(p) \in Replaced(GraphAt(Front(p)), Front(p), Above(Front(p)), sg)
                   /\ Runs[GraphAt(Front(p))][Last(p)] \in Graphs

(* Names are names or markers.                                             *)
LEMMA NamesInAll == Names \subseteq All /\ \A s \in Seq(Names) : s \in Seq(All)
<1>1. Names \subseteq All
  BY DEF All
<1> QED BY <1>1, SeqMonotonic

(* Along an open path no graph object runs inside itself.                  *)
LEMMA OpenIsKnown ==
    ASSUME NEW sg, NEW p \in Open(sg)
    PROVE  OpenKnown(sg, p)
<1> DEFINE T == {k \in Nat : \A q \in Open(sg) : Len(q) = k => OpenKnown(sg, q)}
<1>1. p \in Seq(Names) /\ Len(p) \in Nat
  BY LenProperties DEF Open
<1>2. 0 \in T
  <2> SUFFICES ASSUME NEW q \in Open(sg), Len(q) = 0 PROVE OpenKnown(sg, q)
    OBVIOUS
  <2>1. q \in Seq(Names)
    BY DEF Open
  <2>2. q = <<>>
    BY <2>1, EmptySeq
  <2>3. Above(<<>>) = {}
    <3>1. 0..Len(<<>>) - 1 = {}
      OBVIOUS
    <3> QED BY <3>1 DEF Above
  <2>4. Cardinality({}) = 0
    BY FS_EmptySet
  <2> QED BY <2>1, <2>2, <2>3, <2>4, GraphAtRoot, GraphsAssumption DEF OpenKnown
<1>3. ASSUME NEW k \in 1..Len(p), k - 1 \in T PROVE k \in T
  <2> SUFFICES ASSUME NEW q \in Open(sg), Len(q) = k PROVE OpenKnown(sg, q)
    BY <1>1
  <2>1. q \in Seq(Names) /\ q # <<>>
    BY <1>1, EmptySeq DEF Open
  <2> DEFINE u == Front(q)
             n == Last(q)
  <2>2. u \in Seq(Names) /\ n \in Names /\ q = Append(u, n) /\ Len(q) = Len(u) + 1 /\ Len(u) \in Nat
    BY <2>1, FrontAndLast, LenProperties
  <2>3. u \in Seq(All) /\ n \in All
    BY <2>2, NamesInAll
  <2>4. u \in Open(sg) /\ n \in Replaced(GraphAt(u), u, Above(u), sg)
    <3> HIDE DEF u, n
    <3> QED BY <2>2, <2>3, OpenBelow
  <2>5. OpenKnown(sg, u)
    <3>1. Len(u) = k - 1
      BY <2>2
    <3> HIDE DEF u, n
    <3> QED BY <1>3, <2>4, <3>1
  <2>6. GraphAt(q) = Runs[GraphAt(u)][n]
    <3> HIDE DEF u, n
    <3> QED BY <2>2, GraphAtBelow
  <2>7. Above(q) = Above(u) \cup {GraphAt(u)}
    <3> HIDE DEF u, n
    <3> QED BY <2>2, AboveGrows
  <2> HIDE DEF u, n
  <2>8. n \in NodesOf[GraphAt(u)] /\ Runs[GraphAt(u)][n] \notin Above(u) \cup {GraphAt(u), NoGraph}
    BY <2>4 DEF Replaced
  <2>9. GraphAt(u) \in Graphs /\ Above(u) \subseteq Graphs /\ GraphAt(u) \notin Above(u) /\ Cardinality(Above(u)) = Len(u)
    BY <2>5 DEF OpenKnown
  <2>10. Runs[GraphAt(u)][n] \in Graphs
    BY <2>8, <2>9, GraphsAssumption
  <2>11. Cardinality(Above(q)) = Len(q)
    <3>1. IsFiniteSet(Above(u))
      BY <2>9, GraphsAssumption, FS_Subset
    <3> DEFINE S == Above(u)
               x == GraphAt(u)
    <3>2. x \notin S /\ IsFiniteSet(S)
      BY <2>9, <3>1
    <3>3. Cardinality(S \cup {x}) = Cardinality(S) + 1
      <4> HIDE DEF S, x
      <4> QED BY <3>2, FS_AddElement
    <3> QED BY <2>9, <3>3, <2>2, <2>7
  <2> QED BY <2>1, <2>2, <2>4, <2>6, <2>7, <2>8, <2>9, <2>10, <2>11 DEF OpenKnown, u, n
<1>4. Len(p) \in T
  <2> HIDE DEF T
  <2>1. \A i \in 0..Len(p) : i \in T
    BY <1>1, <1>2, <1>3, UpTo
  <2> QED BY <2>1, <1>1
<1> QED BY <1>4

(* So an open path has fewer nodes than there are graph objects.           *)
LEMMA OpenIsShort ==
    ASSUME NEW sg, NEW p \in Open(sg)
    PROVE  Len(p) \in Nat /\ Cardinality(Graphs) \in Nat /\ Len(p) < Cardinality(Graphs)
<1>1. OpenKnown(sg, p)
  BY OpenIsKnown
<1>2. Len(p) \in Nat
  BY LenProperties DEF Open
<1> DEFINE S == Above(p) \cup {GraphAt(p)}
<1>3. IsFiniteSet(Above(p))
  BY <1>1, GraphsAssumption, FS_Subset DEF OpenKnown
<1>4. IsFiniteSet(S) /\ Cardinality(S) = Len(p) + 1
  BY <1>1, <1>3, FS_AddElement DEF OpenKnown
<1>5. S \in SUBSET Graphs
  BY <1>1 DEF OpenKnown
<1>6. Cardinality(S) <= Cardinality(Graphs)
  BY <1>5, GraphsAssumption, FS_Subset
<1>7. Cardinality(Graphs) \in Nat
  BY GraphsAssumption, FS_CardinalityType
<1> HIDE DEF S
<1> QED BY <1>2, <1>4, <1>6, <1>7

-----------------------------------------------------------------------------
(* What is known of a graph object.                                        *)
GraphsFine == \A g \in Graphs : graph[g] \in Shapes(g) /\ Valid(graph[g])
Steps(g) == graph[g].flow \cup ((NodesOf[g] \ Sources(graph[g].flow)) \X {End})

(* What Shapes and Valid say of a graph object.                            *)
LEMMA ShapeKnown ==
    ASSUME GraphsFine, NEW g \in Graphs
    PROVE  /\ graph[g].flow \subseteq (NodesOf[g] \cup {Start}) \X (NodesOf[g] \cup {End})
           /\ Start \in Sources(graph[g].flow)
           /\ graph[g].stubs \subseteq Sources(graph[g].flow)
<1> DEFINE flows == UNION {kSubset(k, (NodesOf[g] \cup {Start}) \X (NodesOf[g] \cup {End})) : k \in 1..MaxEdges[g]}
<1>1. PICK f \in {x \in flows : Start \in Sources(x)}, s \in SUBSET (NodesOf[g] \cup {Start}),
           d \in SUBSET {n \in NodesOf[g] : Runs[g][n] # NoGraph} :
              graph[g] = [flow |-> f, stubs |-> s, declared |-> d]
  <2>1. graph[g] \in Shapes(g)
    BY DEF GraphsFine
  <2> DEFINE F == {x \in flows : Start \in Sources(x)}
             SS == SUBSET (NodesOf[g] \cup {Start})
             DD == SUBSET {n \in NodesOf[g] : Runs[g][n] # NoGraph}
  <2>2. Shapes(g) = {[flow |-> f, stubs |-> s, declared |-> d] : f \in F, s \in SS, d \in DD}
    BY DEF Shapes
  <2> HIDE DEF F, SS, DD
  <2>3. \E f \in F, s \in SS, d \in DD : graph[g] = [flow |-> f, stubs |-> s, declared |-> d]
    BY <2>1, <2>2
  <2> QED BY <2>3 DEF F, SS, DD
<1>2. f \subseteq (NodesOf[g] \cup {Start}) \X (NodesOf[g] \cup {End})
  BY DEF kSubset
<1>3. graph[g].stubs \subseteq Sources(graph[g].flow)
  BY DEF GraphsFine, Valid
<1> HIDE DEF flows
<1> QED BY <1>1, <1>2, <1>3

(* Whatever LangGraph draws, the picture of a graph object has the edges   *)
(* its builder names, and one to End for each sink.                        *)
LEMMA MergedIs ==
    ASSUME GraphsFine, NEW g \in Graphs
    PROVE  /\ Merged(g).edges = Steps(g)
           /\ Steps(g) \subseteq (NodesOf[g] \cup {Start}) \X (NodesOf[g] \cup {End})
           /\ Merged(g).nodes = NodesOf[g] \cup Sources(Steps(g)) \cup Targets(Steps(g))
           /\ Start \in Merged(g).nodes
           /\ Merged(g).nodes \subseteq NodesOf[g] \cup {Start, End}
           /\ Merged(g).nodes \subseteq All
<1> DEFINE flow == graph[g].flow
           stubs == graph[g].stubs
<1>1. /\ flow \subseteq (NodesOf[g] \cup {Start}) \X (NodesOf[g] \cup {End})
      /\ Start \in Sources(flow) /\ stubs \subseteq Sources(flow)
  BY ShapeKnown
<1>2. Edges(g) = flow
  <2>1. \A e \in Drawn(g) : e \in flow \/ (e[1] \in stubs /\ e[2] = End)
    BY DEF Drawn
  <2> HIDE DEF flow, stubs
  <2>2. \A e \in Drawn(g) : (e[2] = End /\ e[1] \in Sources(flow) => e \in flow) => e \in flow
    BY <2>1, <1>1
  <2> QED BY <2>2 DEF Edges, flow
<1>3. flow # {}
  BY <1>1 DEF Sources
<1>4. Merged(g).edges = Steps(g)
  BY <1>2, <1>3 DEF Merged, Steps, Sinks
<1>5. Merged(g).nodes = NodesOf[g] \cup Sources(Steps(g)) \cup Targets(Steps(g))
  BY <1>2, <1>3 DEF Merged, Steps, Sinks
<1>6. Steps(g) \subseteq (NodesOf[g] \cup {Start}) \X (NodesOf[g] \cup {End})
  BY <1>1 DEF Steps
<1>7. Start \in Sources(Steps(g))
  BY <1>1 DEF Steps, Sources
<1>8. Sources(Steps(g)) \subseteq NodesOf[g] \cup {Start} /\ Targets(Steps(g)) \subseteq NodesOf[g] \cup {End}
  <2> HIDE DEF flow, stubs
  <2> QED BY <1>6 DEF Sources, Targets
<1>9. NodesOf[g] \subseteq Names
  BY NamesType
<1> HIDE DEF flow, stubs
<1>10. Merged(g).nodes \subseteq NodesOf[g] \cup {Start, End}
  BY <1>5, <1>8
<1> QED BY <1>4, <1>5, <1>6, <1>7, <1>9, <1>10 DEF All

-----------------------------------------------------------------------------
(* Below.                                                                  *)
LEMMA Regrouped == \A S : \A s, t, u \in Seq(S) : (s \o t) \o u = s \o (t \o u)
BY ConcatAssociative

(* Appending to the second of two sequences.                               *)
LEMMA AppendMoves ==
    ASSUME NEW S, NEW x \in S, NEW s \in Seq(S), NEW t \in Seq(S)
    PROVE  Append(s \o t, x) = s \o Append(t, x)
<1> DEFINE y == <<x>>
<1>1. y \in Seq(S) /\ s \o t \in Seq(S)
  BY ConcatProperties
<1>2. Append(s \o t, x) = (s \o t) \o y /\ Append(t, x) = t \o y
  BY <1>1, AppendIsConcat
<1> HIDE DEF y
<1>3. (s \o t) \o y = s \o (t \o y)
  BY <1>1, Regrouped
<1> QED BY <1>2, <1>3

(* A node below another one, counted from a path p.                        *)
LEMMA BelowIs ==
    ASSUME NEW S, NEW n \in S, NEW c \in Seq(S), NEW p \in Seq(S)
    PROVE  /\ Below(n, c) \in Seq(S) /\ Below(n, c) # <<>>
           /\ p \o Below(n, c) = Append(p, n) \o c
           /\ \A x \in S : Append(Below(n, c), x) = Below(n, Append(c, x))
           /\ Append(<<>>, n) = <<n>> /\ p \o <<>> = p
           /\ \A x \in S : Append(p \o c, x) = p \o Append(c, x)
           /\ Append(p, n) \in Seq(S) /\ p \o c \in Seq(S)
<1>1. <<n>> \in Seq(S)
  OBVIOUS
<1>2. Below(n, c) \in Seq(S)
  BY <1>1, ConcatProperties DEF Below
<1>3. Below(n, c) # <<>>
  <2>1. <<n>> # <<>>
    OBVIOUS
  <2> QED BY <1>1, <2>1, ConcatEqualIffEmpty DEF Below
<1>4. Append(p, n) = p \o <<n>>
  BY AppendIsConcat
<1>5. p \o Below(n, c) = Append(p, n) \o c
  BY <1>1, <1>4, ConcatAssociative DEF Below
<1>6. \A x \in S : \A s \in Seq(S), t \in Seq(S) : Append(s \o t, x) = s \o Append(t, x)
  BY AppendMoves
<1>7. \A x \in S : Append(Below(n, c), x) = Below(n, Append(c, x))
  BY <1>1, <1>6 DEF Below
<1>8. Append(<<>>, n) = <<n>>
  OBVIOUS
<1>9. p \o <<>> = p
  BY ConcatEmptySeq
<1>10. Append(p, n) \in Seq(S) /\ p \o c \in Seq(S)
  BY ConcatProperties, AppendProperties
<1> QED BY <1>2, <1>3, <1>5, <1>6, <1>7, <1>8, <1>9, <1>10

(* What is above an open path is open.                                     *)
LEMMA OpenPrefix ==
    ASSUME NEW sg, NEW p \in Seq(All), NEW c \in Seq(All), p \o c \in Open(sg)
    PROVE  p \in Open(sg)
<1> DEFINE T == {k \in Nat : \A d \in Seq(All) : Len(d) = k /\ p \o d \in Open(sg) => p \in Open(sg)}
<1>1. 0 \in T
  <2> SUFFICES ASSUME NEW d \in Seq(All), Len(d) = 0, p \o d \in Open(sg) PROVE p \in Open(sg)
    OBVIOUS
  <2>1. d = <<>>
    BY EmptySeq
  <2>2. p \o <<>> = p
    BY ConcatEmptySeq
  <2> QED BY <2>1, <2>2
<1>2. Len(c) \in Nat
  BY LenProperties
<1>3. ASSUME NEW k \in 1..Len(c), k - 1 \in T PROVE k \in T
  <2> SUFFICES ASSUME NEW d \in Seq(All), Len(d) = k, p \o d \in Open(sg) PROVE p \in Open(sg)
    BY <1>2
  <2>1. d # <<>>
    BY <1>2, EmptySeq
  <2> DEFINE u == Front(d)
             n == Last(d)
  <2>2. u \in Seq(All) /\ n \in All /\ d = Append(u, n) /\ Len(d) = Len(u) + 1 /\ Len(u) \in Nat
    BY <2>1, FrontAndLast, LenProperties
  <2> HIDE DEF u, n
  <2>3. p \o d = Append(p \o u, n) /\ p \o u \in Seq(All)
    BY <2>2, BelowIs
  <2>4. p \o u \in Open(sg)
    BY <2>2, <2>3, OpenBelow
  <2>5. Len(u) = k - 1
    BY <2>2
  <2> QED BY <1>3, <2>2, <2>4, <2>5
<1>4. Len(c) \in T
  <2> HIDE DEF T
  <2>1. \A i \in 0..Len(c) : i \in T
    BY <1>1, <1>2, <1>3, UpTo
  <2> QED BY <2>1, <1>2
<1> QED BY <1>4

-----------------------------------------------------------------------------
(* What extract_topology returns for the graph at an open path p, with the *)
(* paths counted from there.                                               *)
Inside(sg, p) == {c \in Seq(All) : p \o c \in Open(sg)}
Kids(sg, p) == {n \in All : Append(p, n) \in Open(sg)}
ExitOf(sg, p, c, n) == IF Append(p \o c, n) \in Open(sg) THEN Append(Append(c, n), End) ELSE Append(c, n)
EntryOf(sg, p, c, n) == IF Append(p \o c, n) \in Open(sg) THEN Append(Append(c, n), Start) ELSE Append(c, n)
NodesIn(sg, p, c) == {Append(c, x) : x \in {y \in Merged(GraphAt(p \o c)).nodes : Append(p \o c, y) \notin Open(sg)}}
EdgesIn(sg, p, c) == {<<ExitOf(sg, p, c, e[1]), EntryOf(sg, p, c, e[2])>> : e \in Merged(GraphAt(p \o c)).edges}
Extract(sg, p) ==
    [nodes |-> UNION {NodesIn(sg, p, c) : c \in Inside(sg, p)},
     edges |-> UNION {EdgesIn(sg, p, c) : c \in Inside(sg, p)}]

CallAt(p) == <<GraphAt(p), p, Above(p)>>

(* The type of an open path, and of the call for it.                       *)
LEMMA OpenType == \A sg : \A p \in Open(sg) : p \in Seq(All) /\ p \in Seq(Names) /\ GraphAt(p) \in Graphs /\ CallAt(p) \in CallsOf
<1> SUFFICES ASSUME NEW sg, NEW p \in Open(sg)
             PROVE  p \in Seq(All) /\ p \in Seq(Names) /\ GraphAt(p) \in Graphs /\ CallAt(p) \in CallsOf
  OBVIOUS
<1>1. OpenKnown(sg, p)
  BY OpenIsKnown
<1>2. p \in Seq(Names) /\ GraphAt(p) \in Graphs /\ Above(p) \subseteq Graphs
  BY <1>1 DEF OpenKnown
<1> QED BY <1>2, NamesInAll DEF CallAt, CallsOf

(* The call for an open path replaces the nodes that are open below it,    *)
(* and calls itself for those.                                             *)
LEMMA KidsAre ==
    ASSUME NEW sg, NEW p \in Open(sg)
    PROVE  /\ Rep(sg, CallAt(p)) = Kids(sg, p)
           /\ Kids(sg, p) \subseteq NodesOf[GraphAt(p)]
           /\ \A n \in Kids(sg, p) : Kid(CallAt(p), n) = CallAt(Append(p, n))
<1>1. p \in Seq(All) /\ p \in Seq(Names) /\ GraphAt(p) \in Graphs
  BY OpenType
<1>2. Rep(sg, CallAt(p)) = Replaced(GraphAt(p), p, Above(p), sg)
  BY DEF Rep, CallAt
<1>3. Replaced(GraphAt(p), p, Above(p), sg) \subseteq NodesOf[GraphAt(p)] /\ NodesOf[GraphAt(p)] \subseteq Names
  BY <1>1, NamesType DEF Replaced
<1>4. Replaced(GraphAt(p), p, Above(p), sg) = Kids(sg, p)
  BY <1>1, <1>3, OpenBelow DEF Kids, All
<1>5. ASSUME NEW n \in Kids(sg, p) PROVE Kid(CallAt(p), n) = CallAt(Append(p, n))
  <2>1. n \in All
    BY DEF Kids
  <2>2. GraphAt(Append(p, n)) = Runs[GraphAt(p)][n]
    BY <2>1, <1>1, GraphAtBelow
  <2>3. Above(Append(p, n)) = Above(p) \cup {GraphAt(p)}
    BY <2>1, <1>1, AboveGrows
  <2> QED BY <2>2, <2>3 DEF Kid, CallAt
<1> QED BY <1>2, <1>3, <1>4, <1>5

(* An open path below p is p itself, or goes through one of the nodes open *)
(* below p.                                                                *)
LEMMA InsideSplits ==
    ASSUME NEW sg, NEW p \in Open(sg)
    PROVE  /\ <<>> \in Inside(sg, p) /\ p \o <<>> = p
           /\ \A n \in Kids(sg, p) : \A d \in Inside(sg, Append(p, n)) :
                 Below(n, d) \in Inside(sg, p) /\ p \o Below(n, d) = Append(p, n) \o d
           /\ \A c \in Inside(sg, p) :
                 c = <<>> \/ \E n \in Kids(sg, p) : \E d \in Inside(sg, Append(p, n)) : c = Below(n, d)
<1>1. p \in Seq(All)
  BY OpenType
<1>2. <<>> \in Seq(All) /\ p \o <<>> = p
  BY <1>1, ConcatEmptySeq, EmptySeq
<1>3. ASSUME NEW n \in Kids(sg, p), NEW d \in Inside(sg, Append(p, n))
      PROVE  Below(n, d) \in Inside(sg, p) /\ p \o Below(n, d) = Append(p, n) \o d
  <2>1. n \in All /\ d \in Seq(All) /\ Append(p, n) \o d \in Open(sg)
    BY DEF Kids, Inside
  <2>2. Below(n, d) \in Seq(All) /\ p \o Below(n, d) = Append(p, n) \o d
    BY <2>1, <1>1, BelowIs
  <2> QED BY <2>1, <2>2 DEF Inside
<1>4. ASSUME NEW c \in Inside(sg, p), c # <<>>
      PROVE  \E n \in Kids(sg, p) : \E d \in Inside(sg, Append(p, n)) : c = Below(n, d)
  <2>1. c \in Seq(All) /\ p \o c \in Open(sg)
    BY DEF Inside
  <2> DEFINE n == Head(c)
             d == Tail(c)
  <2>2. n \in All /\ d \in Seq(All) /\ c = <<n>> \o d
    <3>1. n \in All /\ d \in Seq(All) /\ Len(d) = Len(c) - 1 /\ \A i \in 1..Len(d) : d[i] = c[i + 1]
      BY <2>1, <1>4, HeadTailProperties
    <3>2. Len(c) \in Nat \ {0} /\ n = c[1]
      BY <2>1, <1>4, EmptySeq
    <3>3. <<n>> \in Seq(All) /\ Len(<<n>>) = 1 /\ <<n>>[1] = n
      BY <3>1
    <3> DEFINE b == <<n>>
    <3> HIDE DEF d, b
    <3>4. /\ b \o d \in Seq(All) /\ Len(b \o d) = 1 + Len(d)
          /\ \A i \in 1..1 + Len(d) : (b \o d)[i] = IF i <= 1 THEN b[i] ELSE d[i - 1]
      BY <3>1, <3>3, ConcatProperties DEF b
    <3>5. \A i \in 1..Len(c) : (b \o d)[i] = c[i]
      <4> HIDE DEF n
      <4> SUFFICES ASSUME NEW i \in 1..Len(c) PROVE (b \o d)[i] = c[i]
        OBVIOUS
      <4>1. CASE i = 1
        BY <4>1, <3>1, <3>2, <3>3, <3>4 DEF b
      <4>2. CASE i # 1
        <5>1. i - 1 \in 1..Len(d) /\ i \in 1..1 + Len(d) /\ ~(i <= 1) /\ (i - 1) + 1 = i
          BY <4>2, <3>1, <3>2
        <5>2. d[i - 1] = c[i]
          BY <5>1, <3>1
        <5> QED BY <5>1, <5>2, <3>4
      <4> QED BY <4>1, <4>2
    <3>6. b \o d = c
      <4>1. Len(b \o d) = Len(c)
        BY <3>1, <3>2, <3>4
      <4> QED BY <4>1, <3>4, <3>5, <2>1, SeqEqual
    <3> QED BY <3>1, <3>6 DEF b
  <2> HIDE DEF n, d
  <2>3. c = Below(n, d)
    BY <2>2 DEF Below
  <2>4. Append(p, n) \o d \in Open(sg) /\ Append(p, n) \in Seq(All)
    <3>1. p \o Below(n, d) = Append(p, n) \o d /\ Append(p, n) \in Seq(All)
      BY <1>1, <2>2, BelowIs
    <3> QED BY <2>1, <2>3, <3>1
  <2>5. Append(p, n) \in Open(sg)
    BY <2>2, <2>4, OpenPrefix
  <2> QED BY <2>2, <2>3, <2>4, <2>5 DEF Kids, Inside
<1> QED BY <1>2, <1>3, <1>4 DEF Inside

(* The types of what is inside.                                            *)
LEMMA InsideGraph ==
    ASSUME NEW sg, NEW p \in Open(sg), NEW c \in Inside(sg, p)
    PROVE  p \in Seq(All) /\ c \in Seq(All) /\ p \o c \in Seq(All) /\ GraphAt(p \o c) \in Graphs
<1>1. c \in Seq(All) /\ p \o c \in Open(sg)
  BY DEF Inside
<1> QED BY <1>1, OpenType

(* The markers are among the names a path may have.                        *)
LEMMA MarkersInAll == Start \in All /\ End \in All
BY DEF All

(* A sequence of two.                                                      *)
LEMMA PairIs ==
    ASSUME NEW S, NEW x \in S, NEW y \in S
    PROVE  Append(<<>>, x) = <<x>> /\ Append(Append(<<>>, x), y) = <<x, y>>
<1>1. Append(<<>>, x) = <<x>>
  OBVIOUS
<1>2. Append(<<x>>, y) = <<x, y>>
  <2>0. \A s \in Seq(S) : /\ Append(s, y) \in Seq(S) /\ Len(Append(s, y)) = Len(s) + 1
                          /\ \A i \in 1..Len(s) : Append(s, y)[i] = s[i]
                          /\ Append(s, y)[Len(s) + 1] = y
    BY AppendProperties
  <2> DEFINE b == <<x>>
             t == <<x, y>>
  <2>1. b \in Seq(S) /\ Len(b) = 1 /\ b[1] = x
    OBVIOUS
  <2>2. t \in Seq(S) /\ Len(t) = 2 /\ t[1] = x /\ t[2] = y
    OBVIOUS
  <2> HIDE DEF b, t
  <2>3. Append(b, y) \in Seq(S) /\ Len(Append(b, y)) = 2 /\ Append(b, y)[1] = x /\ Append(b, y)[2] = y
    <3>1. /\ Append(b, y) \in Seq(S) /\ Len(Append(b, y)) = Len(b) + 1
          /\ \A i \in 1..Len(b) : Append(b, y)[i] = b[i]
          /\ Append(b, y)[Len(b) + 1] = y
      BY <2>0, <2>1
    <3> QED BY <3>1, <2>1
  <2>4. \A i \in 1..2 : Append(b, y)[i] = t[i]
    BY <2>2, <2>3
  <2>5. Append(b, y) = t
    BY <2>2, <2>3, <2>4, SeqEqual
  <2> QED BY <2>5 DEF b, t
<1> QED BY <1>1, <1>2

(* One further below a node.                                               *)
LEMMA BelowAppend ==
    ASSUME NEW S, NEW n \in S, NEW c \in Seq(S)
    PROVE  \A x \in S : Append(Below(n, c), x) = Below(n, Append(c, x))
<1>1. <<n>> \in Seq(S)
  OBVIOUS
<1> QED BY <1>1, AppendMoves DEF Below

(* The nodes and edges of the graph at p itself.                           *)
LEMMA FirstLevel ==
    ASSUME GraphsFine, NEW sg, NEW p \in Open(sg)
    PROVE  /\ NodesIn(sg, p, <<>>) = {<<n>> : n \in Merged(GraphAt(p)).nodes \ Kids(sg, p)}
           /\ EdgesIn(sg, p, <<>>) =
                {<<IF e[1] \in Kids(sg, p) THEN <<e[1], End>> ELSE <<e[1]>>,
                   IF e[2] \in Kids(sg, p) THEN <<e[2], Start>> ELSE <<e[2]>>>> : e \in Merged(GraphAt(p)).edges}
<1> DEFINE g == GraphAt(p)
<1>1. p \in Seq(All) /\ g \in Graphs /\ p \o <<>> = p
  BY OpenType, InsideSplits
<1>2. \A x \in All : /\ Append(<<>>, x) = <<x>>
                     /\ Append(Append(<<>>, x), End) = <<x, End>>
                     /\ Append(Append(<<>>, x), Start) = <<x, Start>>
  BY MarkersInAll, PairIs
<1>3. Merged(g).nodes \subseteq All /\ Merged(g).edges \subseteq All \X All
  <2>1. NodesOf[g] \subseteq All
    BY <1>1, NamesType, NamesInAll
  <2> QED BY <1>1, <2>1, MergedIs DEF All
<1> HIDE DEF g
<1>4. \A x \in All : Append(p, x) \in Open(sg) <=> x \in Kids(sg, p)
  BY DEF Kids
<1>5. NodesIn(sg, p, <<>>) = {<<n>> : n \in Merged(g).nodes \ Kids(sg, p)}
  <2>1. NodesIn(sg, p, <<>>) = {Append(<<>>, x) : x \in {y \in Merged(g).nodes : Append(p, y) \notin Open(sg)}}
    BY <1>1 DEF NodesIn, g
  <2>2. {y \in Merged(g).nodes : Append(p, y) \notin Open(sg)} = Merged(g).nodes \ Kids(sg, p)
    BY <1>3, <1>4
  <2> QED BY <2>1, <2>2, <1>2, <1>3
<1>6. \A e \in Merged(g).edges :
         /\ ExitOf(sg, p, <<>>, e[1]) = IF e[1] \in Kids(sg, p) THEN <<e[1], End>> ELSE <<e[1]>>
         /\ EntryOf(sg, p, <<>>, e[2]) = IF e[2] \in Kids(sg, p) THEN <<e[2], Start>> ELSE <<e[2]>>
  <2> SUFFICES ASSUME NEW e \in Merged(g).edges
               PROVE  /\ ExitOf(sg, p, <<>>, e[1]) = IF e[1] \in Kids(sg, p) THEN <<e[1], End>> ELSE <<e[1]>>
                      /\ EntryOf(sg, p, <<>>, e[2]) = IF e[2] \in Kids(sg, p) THEN <<e[2], Start>> ELSE <<e[2]>>
    OBVIOUS
  <2>1. e[1] \in All /\ e[2] \in All
    BY <1>3
  <2>2. ExitOf(sg, p, <<>>, e[1]) = IF Append(p, e[1]) \in Open(sg) THEN <<e[1], End>> ELSE <<e[1]>>
    BY <2>1, <1>1, <1>2 DEF ExitOf
  <2>3. EntryOf(sg, p, <<>>, e[2]) = IF Append(p, e[2]) \in Open(sg) THEN <<e[2], Start>> ELSE <<e[2]>>
    BY <2>1, <1>1, <1>2 DEF EntryOf
  <2> QED BY <2>1, <2>2, <2>3, <1>4
<1>7. EdgesIn(sg, p, <<>>) = {<<ExitOf(sg, p, <<>>, e[1]), EntryOf(sg, p, <<>>, e[2])>> : e \in Merged(g).edges}
  BY <1>1 DEF EdgesIn, g
<1>8. EdgesIn(sg, p, <<>>) =
                {<<IF e[1] \in Kids(sg, p) THEN <<e[1], End>> ELSE <<e[1]>>,
                   IF e[2] \in Kids(sg, p) THEN <<e[2], Start>> ELSE <<e[2]>>>> : e \in Merged(g).edges}
  BY <1>6, <1>7
<1> QED BY <1>5, <1>8 DEF g

(* Those further down are the ones the node there has, moved below it.     *)
LEMMA DeeperLevel ==
    ASSUME GraphsFine, NEW sg, NEW p \in Open(sg), NEW n \in Kids(sg, p), NEW d \in Inside(sg, Append(p, n))
    PROVE  /\ NodesIn(sg, p, Below(n, d)) = {Below(n, m) : m \in NodesIn(sg, Append(p, n), d)}
           /\ EdgesIn(sg, p, Below(n, d)) = {<<Below(n, e[1]), Below(n, e[2])>> : e \in EdgesIn(sg, Append(p, n), d)}
<1> DEFINE q == Append(p, n)
           c == Below(n, d)
           g == GraphAt(q \o d)
<1>1. n \in All /\ q \in Open(sg)
  BY DEF Kids
<1>2. p \in Seq(All) /\ d \in Seq(All) /\ q \in Seq(All) /\ g \in Graphs
  BY <1>1, InsideGraph, OpenType
<1>3. p \o c = q \o d
  BY InsideSplits
<1>4. Merged(g).nodes \subseteq All /\ Merged(g).edges \subseteq All \X All
  <2>1. NodesOf[g] \subseteq All
    BY <1>2, NamesType, NamesInAll
  <2> HIDE DEF g
  <2> QED BY <1>2, <2>1, MergedIs DEF All
<1>5. \A x \in All : Append(c, x) = Below(n, Append(d, x))
  BY <1>1, <1>2, BelowIs
<1>6. \A x \in All : /\ Append(Append(c, x), End) = Below(n, Append(Append(d, x), End))
                     /\ Append(Append(c, x), Start) = Below(n, Append(Append(d, x), Start))
  <2> SUFFICES ASSUME NEW x \in All
               PROVE  /\ Append(Append(c, x), End) = Below(n, Append(Append(d, x), End))
                      /\ Append(Append(c, x), Start) = Below(n, Append(Append(d, x), Start))
    OBVIOUS
  <2> DEFINE u == Append(d, x)
  <2>1. u \in Seq(All)
    BY <1>2, AppendProperties
  <2> HIDE DEF u
  <2>2. \A y \in All : Append(Below(n, u), y) = Below(n, Append(u, y))
    BY <1>1, <2>1, BelowAppend
  <2> QED BY <2>2, <1>5, MarkersInAll DEF u
<1> HIDE DEF q, c, g
<1>7. NodesIn(sg, p, c) = {Append(c, x) : x \in {y \in Merged(g).nodes : Append(q \o d, y) \notin Open(sg)}}
  BY <1>3 DEF NodesIn, g
<1>8. NodesIn(sg, q, d) = {Append(d, x) : x \in {y \in Merged(g).nodes : Append(q \o d, y) \notin Open(sg)}}
  BY DEF NodesIn, g
<1>9. NodesIn(sg, p, c) = {Below(n, m) : m \in NodesIn(sg, q, d)}
  BY <1>4, <1>5, <1>7, <1>8
<1>10. ASSUME NEW e \in Merged(g).edges
       PROVE  /\ ExitOf(sg, p, c, e[1]) = Below(n, ExitOf(sg, q, d, e[1]))
              /\ EntryOf(sg, p, c, e[2]) = Below(n, EntryOf(sg, q, d, e[2]))
  <2>1. e[1] \in All /\ e[2] \in All
    BY <1>4
  <2> QED BY <2>1, <1>3, <1>5, <1>6 DEF ExitOf, EntryOf
<1>11. EdgesIn(sg, p, c) = {<<ExitOf(sg, p, c, e[1]), EntryOf(sg, p, c, e[2])>> : e \in Merged(g).edges}
  BY <1>3 DEF EdgesIn, g
<1>12. EdgesIn(sg, q, d) = {<<ExitOf(sg, q, d, e[1]), EntryOf(sg, q, d, e[2])>> : e \in Merged(g).edges}
  BY DEF EdgesIn, g
<1>13. EdgesIn(sg, p, c) = {<<Below(n, e[1]), Below(n, e[2])>> : e \in EdgesIn(sg, q, d)}
  <2>1. EdgesIn(sg, p, c) = {<<Below(n, ExitOf(sg, q, d, e[1])), Below(n, EntryOf(sg, q, d, e[2]))>> : e \in Merged(g).edges}
    BY <1>10, <1>11
  <2> DEFINE out(e) == ExitOf(sg, q, d, e[1])
             in(e) == EntryOf(sg, q, d, e[2])
             M == Merged(g).edges
  <2>2. EdgesIn(sg, p, c) = {<<Below(n, out(e)), Below(n, in(e))>> : e \in M} /\ EdgesIn(sg, q, d) = {<<out(e), in(e)>> : e \in M}
    BY <2>1, <1>12
  <2> HIDE DEF out, in, M
  <2>3. \A e \in M : <<out(e), in(e)>>[1] = out(e) /\ <<out(e), in(e)>>[2] = in(e)
    OBVIOUS
  <2>4. {<<Below(n, out(e)), Below(n, in(e))>> : e \in M} = {<<Below(n, e[1]), Below(n, e[2])>> : e \in {<<out(e), in(e)>> : e \in M}}
    BY <2>3
  <2> QED BY <2>2, <2>4
<1> QED BY <1>9, <1>13 DEF q, c

(* So what a call joins from its children is the extract for its path.     *)
LEMMA ExtractSplits ==
    ASSUME GraphsFine, NEW sg, NEW p \in Open(sg)
    PROVE  Joint(CallAt(p), Kids(sg, p), [n \in Kids(sg, p) |-> Extract(sg, Append(p, n))]) = Extract(sg, p)
<1> DEFINE K == Kids(sg, p)
           child == [n \in K |-> Extract(sg, Append(p, n))]
<1>1. /\ <<>> \in Inside(sg, p)
      /\ \A n \in K : \A d \in Inside(sg, Append(p, n)) : Below(n, d) \in Inside(sg, p)
      /\ \A c \in Inside(sg, p) : c = <<>> \/ \E n \in K : \E d \in Inside(sg, Append(p, n)) : c = Below(n, d)
  BY InsideSplits
<1>2. UNION {NodesIn(sg, p, c) : c \in Inside(sg, p)} =
        NodesIn(sg, p, <<>>) \cup UNION {{Below(n, m) : m \in child[n].nodes} : n \in K}
  <2>1. ASSUME NEW m \in UNION {NodesIn(sg, p, c) : c \in Inside(sg, p)}
        PROVE  m \in NodesIn(sg, p, <<>>) \cup UNION {{Below(n, y) : y \in child[n].nodes} : n \in K}
    <3>1. PICK c \in Inside(sg, p) : m \in NodesIn(sg, p, c)
      OBVIOUS
    <3>2. CASE c = <<>>
      BY <3>1, <3>2
    <3>3. ASSUME NEW n \in K, NEW d \in Inside(sg, Append(p, n)), c = Below(n, d)
          PROVE  m \in UNION {{Below(k, y) : y \in child[k].nodes} : k \in K}
      <4>1. NodesIn(sg, p, c) = {Below(n, y) : y \in NodesIn(sg, Append(p, n), d)}
        BY <3>3, DeeperLevel
      <4>2. PICK y \in NodesIn(sg, Append(p, n), d) : m = Below(n, y)
        BY <4>1, <3>1
      <4>3. y \in child[n].nodes
        BY DEF Extract
      <4> HIDE DEF child, K
      <4> QED BY <4>2, <4>3
    <3> HIDE DEF child, K
    <3> QED BY <1>1, <3>2, <3>3
  <2>2. ASSUME NEW m \in NodesIn(sg, p, <<>>) PROVE m \in UNION {NodesIn(sg, p, c) : c \in Inside(sg, p)}
    BY <1>1
  <2>3. ASSUME NEW n \in K, NEW y \in child[n].nodes PROVE Below(n, y) \in UNION {NodesIn(sg, p, c) : c \in Inside(sg, p)}
    <3>1. PICK d \in Inside(sg, Append(p, n)) : y \in NodesIn(sg, Append(p, n), d)
      BY DEF Extract
    <3>2. Below(n, d) \in Inside(sg, p)
      BY <1>1
    <3>3. Below(n, y) \in NodesIn(sg, p, Below(n, d))
      BY <3>1, DeeperLevel
    <3> QED BY <3>2, <3>3
  <2> HIDE DEF child, K
  <2> QED BY <2>1, <2>2, <2>3
<1>3. UNION {EdgesIn(sg, p, c) : c \in Inside(sg, p)} =
        EdgesIn(sg, p, <<>>) \cup UNION {{<<Below(n, e[1]), Below(n, e[2])>> : e \in child[n].edges} : n \in K}
  <2>1. ASSUME NEW m \in UNION {EdgesIn(sg, p, c) : c \in Inside(sg, p)}
        PROVE  m \in EdgesIn(sg, p, <<>>) \cup UNION {{<<Below(n, e[1]), Below(n, e[2])>> : e \in child[n].edges} : n \in K}
    <3>1. PICK c \in Inside(sg, p) : m \in EdgesIn(sg, p, c)
      OBVIOUS
    <3>2. CASE c = <<>>
      BY <3>1, <3>2
    <3>3. ASSUME NEW n \in K, NEW d \in Inside(sg, Append(p, n)), c = Below(n, d)
          PROVE  m \in UNION {{<<Below(k, e[1]), Below(k, e[2])>> : e \in child[k].edges} : k \in K}
      <4>1. EdgesIn(sg, p, c) = {<<Below(n, e[1]), Below(n, e[2])>> : e \in EdgesIn(sg, Append(p, n), d)}
        BY <3>3, DeeperLevel
      <4>2. PICK y \in EdgesIn(sg, Append(p, n), d) : m = <<Below(n, y[1]), Below(n, y[2])>>
        BY <4>1, <3>1
      <4>3. y \in child[n].edges
        BY DEF Extract
      <4> HIDE DEF child, K
      <4> QED BY <4>2, <4>3
    <3> HIDE DEF child, K
    <3> QED BY <1>1, <3>2, <3>3
  <2>2. ASSUME NEW m \in EdgesIn(sg, p, <<>>) PROVE m \in UNION {EdgesIn(sg, p, c) : c \in Inside(sg, p)}
    BY <1>1
  <2>3. ASSUME NEW n \in K, NEW y \in child[n].edges
        PROVE  <<Below(n, y[1]), Below(n, y[2])>> \in UNION {EdgesIn(sg, p, c) : c \in Inside(sg, p)}
    <3>1. PICK d \in Inside(sg, Append(p, n)) : y \in EdgesIn(sg, Append(p, n), d)
      BY DEF Extract
    <3>2. Below(n, d) \in Inside(sg, p)
      BY <1>1
    <3>3. <<Below(n, y[1]), Below(n, y[2])>> \in EdgesIn(sg, p, Below(n, d))
      BY <3>1, DeeperLevel
    <3> QED BY <3>2, <3>3
  <2> HIDE DEF child, K
  <2> QED BY <2>1, <2>2, <2>3
<1>4. CallAt(p)[1] = GraphAt(p)
  BY DEF CallAt
<1> HIDE DEF child
<1>5. Joint(CallAt(p), K, child) =
        [nodes |-> UNION {NodesIn(sg, p, c) : c \in Inside(sg, p)}, edges |-> UNION {EdgesIn(sg, p, c) : c \in Inside(sg, p)}]
  BY <1>2, <1>3, <1>4, FirstLevel DEF Joint
<1> QED BY <1>5 DEF Extract, child

(* The topology is Extract of the root.                                    *)
LEMMA TopologyIsExtract ==
    ASSUME GraphsFine, NEW sg
    PROVE  Topology(sg) = Extract(sg, <<>>)
<1>1. PICK f : Extracts(sg, f, CallsOf) /\ Topology(sg) = f[<<Root, <<>>, {}>>]
  BY TopologyExtracts
<1> DEFINE N == Cardinality(Graphs)
           T == {k \in Nat : \A p \in Open(sg) : Len(p) + k >= N => f[CallAt(p)] = Extract(sg, p)}
<1>2. N \in Nat
  BY GraphsAssumption, FS_CardinalityType
<1>3. 0 \in T
  BY OpenIsShort
<1>4. ASSUME NEW k \in 1..N, k - 1 \in T PROVE k \in T
  <2> SUFFICES ASSUME NEW p \in Open(sg), Len(p) + k >= N PROVE f[CallAt(p)] = Extract(sg, p)
    BY <1>2
  <2>1. p \in Seq(All) /\ CallAt(p) \in CallsOf
    BY OpenType
  <2>2. Rep(sg, CallAt(p)) = Kids(sg, p) /\ \A n \in Kids(sg, p) : Kid(CallAt(p), n) = CallAt(Append(p, n))
    BY KidsAre
  <2>3. f[CallAt(p)] = Joint(CallAt(p), Kids(sg, p), [n \in Kids(sg, p) |-> f[Kid(CallAt(p), n)]])
    BY <1>1, <2>1, <2>2 DEF Extracts
  <2>4. ASSUME NEW n \in Kids(sg, p) PROVE f[Kid(CallAt(p), n)] = Extract(sg, Append(p, n))
    <3>1. n \in All /\ Append(p, n) \in Open(sg)
      BY DEF Kids
    <3>2. Len(Append(p, n)) = Len(p) + 1 /\ Len(p) \in Nat
      BY <2>1, <3>1, GrowsByOne
    <3>3. Len(Append(p, n)) + (k - 1) >= N
      BY <3>2, <1>2
    <3>4. f[CallAt(Append(p, n))] = Extract(sg, Append(p, n))
      BY <1>4, <3>1, <3>3
    <3> QED BY <2>2, <3>4
  <2>5. [n \in Kids(sg, p) |-> f[Kid(CallAt(p), n)]] = [n \in Kids(sg, p) |-> Extract(sg, Append(p, n))]
    BY <2>4
  <2> QED BY <2>3, <2>5, ExtractSplits
<1>5. N \in T
  <2> HIDE DEF T
  <2>1. N \in 0..N
    BY <1>2
  <2> HIDE DEF N
  <2> QED BY <1>2, <1>3, <1>4, <2>1, UpTo
<1>6. <<>> \in Open(sg) /\ Len(<<>>) = 0
  BY OpenRoot
<1>7. f[CallAt(<<>>)] = Extract(sg, <<>>)
  BY <1>2, <1>5, <1>6
<1>8. CallAt(<<>>) = <<Root, <<>>, {}>>
  <2>1. 0..Len(<<>>) - 1 = {}
    OBVIOUS
  <2>2. Above(<<>>) = {}
    BY <2>1 DEF Above
  <2> QED BY <2>2, GraphAtRoot DEF CallAt
<1> QED BY <1>1, <1>7, <1>8

(* A topology in terms of the set of its open paths.                       *)
ExitAt(open, c, n) == IF Append(c, n) \in open THEN Append(Append(c, n), End) ELSE Append(c, n)
EntryAt(open, c, n) == IF Append(c, n) \in open THEN Append(Append(c, n), Start) ELSE Append(c, n)

Flat(t, open) ==
    /\ t.nodes = {n \in Seq(All) : /\ n # <<>> /\ n \notin open
                                   /\ Front(n) \in open /\ Last(n) \in Merged(GraphAt(Front(n))).nodes}
    /\ t.edges = UNION {{<<ExitAt(open, c, e[1]), EntryAt(open, c, e[2])>> : e \in Steps(GraphAt(c))} : c \in open}
    /\ Containers(t) = open \ {<<>>}

(* The topology, said in terms of the open paths alone.                    *)
LEMMA TopologyFlat ==
    ASSUME GraphsFine, NEW sg
    PROVE  Flat(Topology(sg), Open(sg))
<1> DEFINE t == Topology(sg)
           O == Open(sg)
           N == {n \in Seq(All) : /\ n # <<>> /\ n \notin O
                                  /\ Front(n) \in O /\ Last(n) \in Merged(GraphAt(Front(n))).nodes}
<1>1. t = Extract(sg, <<>>)
  BY TopologyIsExtract
<1>2. O \subseteq Seq(All) /\ \A c \in O : GraphAt(c) \in Graphs
  BY OpenType
<1>3. \A c \in Seq(All) : <<>> \o c = c
  BY ConcatEmptySeq
<1>4. Inside(sg, <<>>) = O
  BY <1>2, <1>3 DEF Inside
<1>5. \A c \in O : Merged(GraphAt(c)).nodes \subseteq All /\ Merged(GraphAt(c)).edges = Steps(GraphAt(c)) /\ Start \in Merged(GraphAt(c)).nodes
  BY <1>2, MergedIs
<1>6. t.nodes = N
  <2>1. t.nodes = UNION {NodesIn(sg, <<>>, c) : c \in O}
    BY <1>1, <1>4 DEF Extract
  <2>2. ASSUME NEW m \in t.nodes PROVE m \in N
    <3>1. PICK c \in O : m \in NodesIn(sg, <<>>, c)
      BY <2>1
    <3>2. PICK x \in Merged(GraphAt(c)).nodes : m = Append(c, x) /\ Append(c, x) \notin O
      BY <3>1, <1>2, <1>3 DEF NodesIn
    <3>3. x \in All /\ c \in Seq(All)
      BY <1>2, <1>5
    <3>4. m \in Seq(All) /\ m # <<>> /\ Front(m) = c /\ Last(m) = x
      BY <3>2, <3>3, GrowsByOne
    <3> QED BY <3>2, <3>4
  <2>3. ASSUME NEW m \in N PROVE m \in t.nodes
    <3>1. m = Append(Front(m), Last(m))
      BY FrontAndLast
    <3> DEFINE c == Front(m)
               x == Last(m)
    <3>2. c \in O /\ x \in Merged(GraphAt(c)).nodes /\ Append(c, x) \notin O /\ c \in Seq(All)
      BY <3>1, <1>2
    <3>3. m \in NodesIn(sg, <<>>, c)
      <4> HIDE DEF c, x
      <4>1. <<>> \o c = c
        BY <3>2, <1>3
      <4> QED BY <3>1, <3>2, <4>1 DEF NodesIn, c, x
    <3> QED BY <2>1, <3>2, <3>3
  <2> HIDE DEF N, t
  <2> QED BY <2>2, <2>3
<1>7. t.edges = UNION {{<<ExitAt(O, c, e[1]), EntryAt(O, c, e[2])>> : e \in Steps(GraphAt(c))} : c \in O}
  <2>1. t.edges = UNION {EdgesIn(sg, <<>>, c) : c \in O}
    BY <1>1, <1>4 DEF Extract
  <2>2. \A c \in O : EdgesIn(sg, <<>>, c) = {<<ExitAt(O, c, e[1]), EntryAt(O, c, e[2])>> : e \in Steps(GraphAt(c))}
    <3> SUFFICES ASSUME NEW c \in O
                 PROVE  EdgesIn(sg, <<>>, c) = {<<ExitAt(O, c, e[1]), EntryAt(O, c, e[2])>> : e \in Steps(GraphAt(c))}
      OBVIOUS
    <3>1. <<>> \o c = c /\ Merged(GraphAt(c)).edges = Steps(GraphAt(c))
      BY <1>2, <1>3, <1>5
    <3> QED BY <3>1 DEF EdgesIn, ExitOf, EntryOf, ExitAt, EntryAt
  <2> HIDE DEF O, t
  <2> QED BY <2>1, <2>2
<1>8. Containers(t) = O \ {<<>>}
  <2>1. Containers(t) = {Front(n) : n \in {m \in N : Len(m) > 1 /\ Last(m) = Start}}
    BY <1>6 DEF Containers
  <2>2. ASSUME NEW n \in N, Len(n) > 1 PROVE Front(n) \in O \ {<<>>}
    <3>1. Len(n) = Len(Front(n)) + 1
      BY FrontAndLast
    <3>2. Front(n) # <<>>
      BY <2>2, <3>1, EmptySeq
    <3> QED BY <3>2
  <2>3. ASSUME NEW c \in O \ {<<>>} PROVE \E n \in N : Len(n) > 1 /\ Last(n) = Start /\ Front(n) = c
    <3>1. c \in Seq(All) /\ Start \in All
      BY <1>2, MarkersInAll
    <3> DEFINE n == Append(c, Start)
    <3>2. n \in Seq(All) /\ n # <<>> /\ Front(n) = c /\ Last(n) = Start /\ Len(n) = Len(c) + 1
      BY <3>1, GrowsByOne
    <3>3. Len(n) > 1
      <4>1. Len(c) \in Nat \ {0}
        BY <3>1, EmptySeq
      <4> QED BY <4>1, <3>2
    <3>4. n \notin O
      <4>1. Start \notin NodesOf[GraphAt(c)]
        BY <1>2, GraphsAssumption
      <4> QED BY <3>1, <4>1, OpenBelow DEF Replaced
    <3>5. Start \in Merged(GraphAt(c)).nodes
      BY <1>5
    <3> HIDE DEF n
    <3>6. n \in N
      BY <3>2, <3>4, <3>5
    <3> QED BY <3>2, <3>3, <3>6
  <2> HIDE DEF N, t, O
  <2> QED BY <2>1, <2>2, <2>3
<1> QED BY <1>6, <1>7, <1>8 DEF Flat

-----------------------------------------------------------------------------
(* The fold in Init: each graph object has one of its shapes.              *)
Fine(g) == {s \in Shapes(g) : Valid(s)}
Widened(fs, g) == {With(f, g, s) : f \in fs, s \in Fine(g)}
OneOf(s) == CHOOSE x \in s : TRUE
Folds1(it, D) == it = [s \in D |-> IF s = {} THEN {<<>>} ELSE Widened(it[s \ {OneOf(s)}], OneOf(s))]

(* The fold is a choice, and Folds1 says of what.                          *)
LEMMA ShapedChosen == Shaped = (CHOOSE it : Folds1(it, SUBSET Graphs))[Graphs]
BY DEF Shaped, FoldSet, MapThenFoldSet, Folds1, Widened, Fine, OneOf

(* A set without one of its elements has one less.                         *)
LEMMA OneLess ==
    ASSUME NEW S, IsFiniteSet(S), NEW s \in SUBSET S
    PROVE  /\ Cardinality(s) \in Nat /\ Cardinality(s) <= Cardinality(S) /\ Cardinality(S) \in Nat
           /\ s # {} => /\ OneOf(s) \in s /\ s \ {OneOf(s)} \in SUBSET S
                        /\ Cardinality(s \ {OneOf(s)}) = Cardinality(s) - 1
           /\ Cardinality(s) = 0 => s = {}
<1>1. IsFiniteSet(s) /\ Cardinality(s) <= Cardinality(S)
  BY FS_Subset
<1>2. Cardinality(s) \in Nat /\ Cardinality(S) \in Nat
  BY <1>1, FS_CardinalityType
<1>3. s # {} => OneOf(s) \in s
  BY DEF OneOf
<1>4. s # {} => Cardinality(s \ {OneOf(s)}) = Cardinality(s) - 1
  BY <1>1, <1>3, FS_RemoveElement
<1>5. Cardinality(s) = 0 => s = {}
  BY <1>1, FS_EmptySet
<1> QED BY <1>1, <1>2, <1>3, <1>4, <1>5

(* The fold has a value: induction over the number of graph objects.       *)
LEMMA FoldExists == \E it : Folds1(it, SUBSET Graphs)
<1> DEFINE D(k) == {s \in SUBSET Graphs : Cardinality(s) < k}
           T == {k \in Nat : \E it : Folds1(it, D(k))}
           N == Cardinality(Graphs) + 1
<1>0. IsFiniteSet(Graphs)
  BY GraphsAssumption
<1>1. N \in Nat
  BY <1>0, FS_CardinalityType
<1>2. 0 \in T
  <2>1. D(0) = {}
    <3>1. \A s \in SUBSET Graphs : Cardinality(s) \in Nat
      BY <1>0, OneLess
    <3> QED BY <3>1
  <2>2. Folds1([s \in {} |-> s], {})
    BY DEF Folds1
  <2> HIDE DEF D
  <2> QED BY <2>1, <2>2
<1>3. ASSUME NEW k \in 1..N, k - 1 \in T PROVE k \in T
  <2>1. PICK f : Folds1(f, D(k - 1))
    BY <1>3
  <2> DEFINE step(h, s) == IF s = {} THEN {<<>>} ELSE Widened(h[s \ {OneOf(s)}], OneOf(s))
             g == [s \in D(k) |-> IF s \in D(k - 1) THEN f[s] ELSE step(f, s)]
  <2>2. \A s \in D(k - 1) : f[s] = step(f, s)
    <3> HIDE DEF D
    <3> QED BY <2>1 DEF Folds1
  <2>3. \A s \in D(k) : g[s] = step(f, s)
    <3> HIDE DEF D, step
    <3> QED BY <2>2
  <2>4. ASSUME NEW s \in D(k) PROVE step(g, s) = step(f, s)
    <3>1. CASE s = {}
      BY <3>1
    <3>2. CASE s # {}
      <4> DEFINE u == s \ {OneOf(s)}
      <4>1. u \in SUBSET Graphs /\ Cardinality(u) = Cardinality(s) - 1 /\ Cardinality(s) \in Nat
        BY <3>2, <1>0, OneLess
      <4>2. u \in D(k - 1) /\ u \in D(k)
        <5> HIDE DEF u
        <5> QED BY <4>1, <1>1
      <4>3. g[u] = f[u]
        <5> HIDE DEF u, D, step
        <5> QED BY <4>2
      <4> HIDE DEF g
      <4> QED BY <3>2, <4>3
    <3> QED BY <3>1, <3>2
  <2>5. g = [s \in D(k) |-> step(g, s)]
    <3>1. g = [s \in D(k) |-> g[s]]
      <4> HIDE DEF D, step
      <4> QED OBVIOUS
    <3> HIDE DEF g, step, D
    <3> QED BY <3>1, <2>3, <2>4
  <2>6. Folds1(g, D(k))
    <3> HIDE DEF g, D
    <3> QED BY <2>5 DEF Folds1
  <2>7. k \in Nat
    BY <1>1
  <2> HIDE DEF g, D, N
  <2> QED BY <2>6, <2>7
<1>4. N \in T
  <2> HIDE DEF T
  <2>1. \A i \in 1..N : i - 1 \in T => i \in T
    BY <1>3
  <2>2. N \in 0..N
    BY <1>1
  <2> HIDE DEF N
  <2> QED BY <1>1, <1>2, <2>1, <2>2, UpTo
<1>5. D(N) = SUBSET Graphs
  <2>1. \A s \in SUBSET Graphs : Cardinality(s) \in Nat /\ Cardinality(s) <= Cardinality(Graphs) /\ Cardinality(Graphs) \in Nat
    BY <1>0, OneLess
  <2> QED BY <2>1
<1> HIDE DEF D, N
<1> QED BY <1>4, <1>5

(* Every graph object of an initial state has a shape that LangGraph       *)
(* accepts.                                                                *)
LEMMA ShapedFine == \A f \in Shaped : \A g \in Graphs : f[g] \in Fine(g)
<1> DEFINE it == CHOOSE h : Folds1(h, SUBSET Graphs)
           good(s) == \A f \in it[s] : DOMAIN f = s /\ \A g \in s : f[g] \in Fine(g)
           T == {k \in Nat : \A s \in SUBSET Graphs : Cardinality(s) = k => good(s)}
           N == Cardinality(Graphs)
<1>0. IsFiniteSet(Graphs)
  BY GraphsAssumption
<1>1. Folds1(it, SUBSET Graphs)
  BY FoldExists
<1>2. Shaped = it[Graphs]
  BY ShapedChosen
<1> HIDE DEF it
<1>3. N \in Nat
  BY <1>0, FS_CardinalityType
<1>4. 0 \in T
  <2> SUFFICES ASSUME NEW s \in SUBSET Graphs, Cardinality(s) = 0 PROVE good(s)
    OBVIOUS
  <2>1. s = {}
    BY <1>0, OneLess
  <2>2. it[{}] = {<<>>}
    BY <1>1 DEF Folds1
  <2>3. DOMAIN <<>> = {}
    OBVIOUS
  <2> QED BY <2>1, <2>2, <2>3
<1>5. ASSUME NEW k \in 1..N, k - 1 \in T PROVE k \in T
  <2> SUFFICES ASSUME NEW s \in SUBSET Graphs, Cardinality(s) = k PROVE good(s)
    BY <1>3
  <2> DEFINE g == OneOf(s)
             u == s \ {g}
  <2>1. s # {}
    BY <1>3, FS_EmptySet
  <2>2. g \in s /\ u \in SUBSET Graphs /\ Cardinality(u) = k - 1
    BY <2>1, <1>0, OneLess
  <2>3. it[s] = Widened(it[u], g)
    BY <2>1, <1>1 DEF Folds1
  <2>4. u = s \ {g}
    OBVIOUS
  <2> HIDE DEF g, u
  <2>5. good(u)
    BY <1>5, <2>2
  <2>6. ASSUME NEW f \in it[s] PROVE DOMAIN f = s /\ \A h \in s : f[h] \in Fine(h)
    <3>1. PICK e \in it[u], sh \in Fine(g) : f = With(e, g, sh)
      BY <2>3 DEF Widened
    <3>2. DOMAIN e = u /\ \A h \in u : e[h] \in Fine(h)
      BY <2>5
    <3> QED BY <3>1, <3>2, <2>2, <2>4 DEF With
  <2> QED BY <2>6
<1>6. N \in T
  <2> HIDE DEF T
  <2>1. N \in 0..N
    BY <1>3
  <2> HIDE DEF N
  <2> QED BY <1>3, <1>4, <1>5, <2>1, UpTo
<1>7. good(Graphs)
  BY <1>6
<1> QED BY <1>2, <1>7

(* The same, of the initial states.                                        *)
LEMMA InitFine == Init => GraphsFine
<1> SUFFICES ASSUME Init PROVE GraphsFine
  OBVIOUS
<1>1. graph \in Shaped
  BY DEF Init
<1>2. \A g \in Graphs : graph[g] \in Fine(g)
  BY <1>1, ShapedFine
<1> QED BY <1>2 DEF Fine, GraphsFine

-----------------------------------------------------------------------------
(* TopologyIsFlat.                                                         *)
TopologyInv == GraphsFine /\ Flat(topology, Open(subgraphs))

(* Initially, and whenever the topology is extracted anew, it is flat.     *)
LEMMA TopologyInitially == Init => TopologyInv
BY InitFine, TopologyFlat DEF Init, TopologyInv

(* It stays so while nothing is extracted.                                 *)
LEMMA TopologyStays ==
    ASSUME TopologyInv, UNCHANGED <<graph, subgraphs, topology>>
    PROVE  TopologyInv'
<1>1. graph' = graph /\ topology' = topology /\ subgraphs' = subgraphs
  OBVIOUS
<1>2. GraphsFine'
  BY <1>1 DEF TopologyInv, GraphsFine
<1>3. Flat(topology, Open(subgraphs))
  BY DEF TopologyInv
<1>4. Flat(topology, Open(subgraphs))'
  BY <1>1, <1>3 DEF Flat, Open, OpenAt, Replaced, Above, Merged, Edges, Drawn, Sinks, Steps, ExitAt, EntryAt
<1> QED BY <1>2, <1>4 DEF TopologyInv

(* include_subgraph() extracts it anew.                                    *)
LEMMA TopologyReplaced ==
    ASSUME TopologyInv, IncludeSubgraph
    PROVE  TopologyInv'
<1>1. graph' = graph /\ topology' = Topology(subgraphs')
  BY DEF IncludeSubgraph
<1>2. GraphsFine /\ GraphsFine'
  BY <1>1 DEF TopologyInv, GraphsFine
<1> DEFINE sg == subgraphs'
           t == topology'
<1>3. Flat(t, Open(sg))
  <2>1. t = Topology(sg)
    BY <1>1
  <2> HIDE DEF sg, t
  <2> QED BY <1>2, <2>1, TopologyFlat
<1>4. Flat(topology, Open(subgraphs))'
  BY <1>1, <1>3 DEF Flat, Open, OpenAt, Replaced, Above, Merged, Edges, Drawn, Sinks, Steps, ExitAt, EntryAt
<1> QED BY <1>2, <1>4 DEF TopologyInv

(* Every step is one or the other.                                         *)
LEMMA TopologyNext == TopologyInv /\ [Next]_vars => TopologyInv'
<1> SUFFICES ASSUME TopologyInv, [Next]_vars PROVE TopologyInv'
  OBVIOUS
<1>1. CASE IncludeSubgraph
  BY <1>1, TopologyReplaced
<1>2. CASE UNCHANGED <<graph, subgraphs, topology>>
  BY <1>2, TopologyStays
<1>3. IncludeSubgraph \/ UNCHANGED <<graph, subgraphs, topology>>
  BY DEF Next, vars, shapeVars, StartInvoke, EndInvoke, EnterNode, EnterGraph, LeaveGraph, Skip
<1> QED BY <1>1, <1>2, <1>3

(* The paths TopologyIsFlat speaks of are the open ones.                   *)
LEMMA OpenedAre ==
    ASSUME TopologyInv
    PROVE  /\ {<<>>} \cup Containers(topology) = Open(subgraphs)
           /\ Opened = Open(subgraphs)
           /\ Open(subgraphs) \subseteq Seq(All)
           /\ \A c \in Open(subgraphs) : GraphAt(c) \in Graphs
<1>1. Containers(topology) = Open(subgraphs) \ {<<>>}
  BY DEF TopologyInv, Flat
<1>2. <<>> \in Open(subgraphs)
  BY OpenRoot
<1> QED BY <1>1, <1>2, OpenType DEF Opened

(* The nodes of an open path whose graph is known are those it replaces.    *)
LEMMA KnownAre ==
    ASSUME TopologyInv, NEW c \in Open(subgraphs)
    PROVE  Known(c) = {n \in All : Append(c, n) \in Open(subgraphs)}
<1> DEFINE g == GraphAt(c)
<1>1. c \in Seq(All) /\ g \in Graphs /\ Len(c) \in Nat
  BY OpenType, LenProperties
<1>2. NodesOf[g] \subseteq Names /\ Names \subseteq All
  BY <1>1, NamesType, NamesInAll
<1>3. Above(c) \cup {g} = {GraphAt(SubSeq(c, 1, k)) : k \in 0..Len(c)}
  <2>1. SubSeq(c, 1, Len(c)) = c
    BY <1>1, SubSeqFull
  <2>2. 0..Len(c) = (0..Len(c) - 1) \cup {Len(c)}
    BY <1>1
  <2> QED BY <2>1, <2>2 DEF Above
<1> HIDE DEF g
<1>4. ASSUME NEW n PROVE n \in Known(c) <=> n \in Replaced(g, c, Above(c), subgraphs)
  BY <1>3 DEF Known, Replaced, g
<1>5. Replaced(g, c, Above(c), subgraphs) \subseteq NodesOf[g]
  BY DEF Replaced
<1>6. ASSUME NEW n \in All
      PROVE  Append(c, n) \in Open(subgraphs) <=> n \in Replaced(g, c, Above(c), subgraphs)
  BY <1>1, <1>2, <1>5, <1>6, OpenBelow DEF g
<1> QED BY <1>2, <1>4, <1>5, <1>6

(* An open path is the root's, or an open one and a node whose graph is     *)
(* known there.                                                            *)
LEMMA OpenedByOne ==
    ASSUME TopologyInv
    PROVE  Containers(topology) = UNION {{Append(path, n) : n \in Known(path)} : path \in Opened}
<1> DEFINE O == Open(subgraphs)
<1>1. Containers(topology) = O \ {<<>>} /\ Opened = O /\ O \subseteq Seq(All)
  BY OpenedAre DEF TopologyInv, Flat
<1>2. ASSUME NEW c \in O, c # <<>>
      PROVE  Front(c) \in O /\ Last(c) \in Known(Front(c)) /\ c = Append(Front(c), Last(c))
  <2>1. c \in Seq(All)
    BY <1>1
  <2>2. Front(c) \in Seq(All) /\ Last(c) \in All /\ c = Append(Front(c), Last(c))
    BY <1>2, <2>1, FrontAndLast
  <2> DEFINE f == Front(c)
             l == Last(c)
  <2> HIDE DEF f, l
  <2>3. f \in Open(subgraphs)
    BY <2>2, <1>2, OpenBelow DEF f, l
  <2>4. Known(f) = {n \in All : Append(f, n) \in Open(subgraphs)}
    BY <2>3, KnownAre
  <2> QED BY <2>2, <2>3, <2>4, <1>2 DEF f, l
<1>3. ASSUME NEW c \in O, NEW n \in Known(c) PROVE Append(c, n) \in O /\ Append(c, n) # <<>>
  <2>1. n \in All /\ Append(c, n) \in O /\ c \in Seq(All)
    BY <1>1, <1>3, KnownAre
  <2> QED BY <2>1, GrowsByOne
<1> DEFINE U == UNION {{Append(path, n) : n \in Known(path)} : path \in O}
<1>4. ASSUME NEW c \in O, c # <<>> PROVE c \in U
  <2>1. c \in {Append(Front(c), n) : n \in Known(Front(c))} /\ Front(c) \in O
    BY <1>2, <1>4
  <2> HIDE DEF O
  <2> QED BY <2>1
<1>5. ASSUME NEW c \in U PROVE c \in O /\ c # <<>>
  <2>1. PICK path \in O : c \in {Append(path, n) : n \in Known(path)}
    OBVIOUS
  <2>2. PICK n \in Known(path) : c = Append(path, n)
    BY <2>1
  <2> QED BY <2>2, <1>3
<1>6. Opened = O /\ Containers(topology) = O \ {<<>>}
  BY <1>1
<1> HIDE DEF O, U
<1>7. Containers(topology) = U
  BY <1>4, <1>5, <1>6
<1> QED BY <1>6, <1>7 DEF U

(* The property, from the invariant.                                       *)
LEMMA FlatImplies == TopologyInv => TopologyIsFlat
<1> SUFFICES ASSUME TopologyInv PROVE TopologyIsFlat
  OBVIOUS
<1> DEFINE O == Open(subgraphs)
<1>1. {<<>>} \cup Containers(topology) = O /\ O \subseteq Seq(All) /\ \A c \in O : GraphAt(c) \in Graphs
  BY OpenedAre
<1>2. topology.edges = UNION {{<<ExitAt(O, c, e[1]), EntryAt(O, c, e[2])>> : e \in Steps(GraphAt(c))} : c \in O}
  BY DEF TopologyInv, Flat
<1>3. ASSUME NEW c \in O PROVE {<<ExitAt(O, c, e[1]), EntryAt(O, c, e[2])>> : e \in Steps(GraphAt(c))} = StepsAt(c)
  <2> DEFINE g == GraphAt(c)
             out(n) == IF Append(c, n) \in Opened THEN c \o <<n, End>> ELSE Append(c, n)
             in(n) == IF Append(c, n) \in Opened THEN c \o <<n, Start>> ELSE Append(c, n)
  <2>1. c \in Seq(All) /\ g \in Graphs
    BY <1>1
  <2>2. NodesOf[g] \subseteq All
    BY <2>1, NamesType, NamesInAll
  <2>3. Steps(g) \subseteq All \X All
    <3> HIDE DEF g
    <3> QED BY <2>1, <2>2, MergedIs, MarkersInAll DEF TopologyInv
  <2>4. ASSUME NEW n \in All PROVE ExitAt(O, c, n) = out(n) /\ EntryAt(O, c, n) = in(n)
    <3>1. Append(c, n) \in Opened <=> Append(c, n) \in O
      BY OpenedAre
    <3>2. \A m \in All : Append(Append(c, n), m) = c \o <<n, m>>
      <4> SUFFICES ASSUME NEW m \in All PROVE Append(Append(c, n), m) = c \o <<n, m>>
        OBVIOUS
      <4>1. Append(Append(c, n), m) = c \o Append(Append(<<>>, n), m)
        <5>1. <<>> \in Seq(All) /\ Append(<<>>, n) \in Seq(All) /\ c \o <<>> = c
          BY <2>1, AppendProperties, ConcatEmptySeq, EmptySeq
        <5>2. Append(c, n) = c \o Append(<<>>, n)
          BY <2>1, <5>1, AppendMoves
        <5> DEFINE u == Append(<<>>, n)
        <5> HIDE DEF u
        <5>3. Append(c \o u, m) = c \o Append(u, m)
          BY <2>1, <5>1, AppendMoves DEF u
        <5> QED BY <5>2, <5>3 DEF u
      <4> QED BY <4>1, PairIs
    <3> QED BY <3>1, <3>2, MarkersInAll DEF ExitAt, EntryAt
  <2>5. StepsAt(c) = {<<out(e[1]), in(e[2])>> : e \in Steps(g)}
    BY DEF StepsAt, Steps
  <2> HIDE DEF g, out, in
  <2>6. {<<ExitAt(O, c, e[1]), EntryAt(O, c, e[2])>> : e \in Steps(g)} = {<<out(e[1]), in(e[2])>> : e \in Steps(g)}
    BY <2>3, <2>4
  <2> QED BY <2>5, <2>6 DEF g
<1>4. topology.edges = UNION {StepsAt(c) : c \in O}
  <2> HIDE DEF O
  <2> QED BY <1>2, <1>3
<1>5. Opened = O
  BY OpenedAre
<1> HIDE DEF O
<1> QED BY <1>4, <1>5, OpenedByOne DEF TopologyIsFlat

(* The topology is flat: its edges are the steps of the graphs that are     *)
(* known, in by their entry markers and out by their exit markers, however  *)
(* deep they lie, whatever was declared or included, and when.             *)
THEOREM FlatCorrect == Spec => []TopologyIsFlat
<1>1. Spec => []TopologyInv
  BY TopologyInitially, TopologyNext, PTL DEF Spec
<1> QED BY <1>1, FlatImplies, PTL

-----------------------------------------------------------------------------
(* What a flat topology is made of.                                        *)

(* A node of the topology is drawn in the graph of an open path, and is not *)
(* open itself; every node and marker of such a graph is one or the other. *)
LEMMA NodesAre ==
    ASSUME TopologyInv
    PROVE  /\ \A n \in topology.nodes :
                 /\ n \in Seq(All) /\ n # <<>> /\ n \notin Open(subgraphs)
                 /\ Front(n) \in Open(subgraphs) /\ n \notin Containers(topology)
           /\ \A c \in Open(subgraphs) : \A x \in Merged(GraphAt(c)).nodes :
                 Append(c, x) \notin Open(subgraphs) => Append(c, x) \in topology.nodes
<1> DEFINE O == Open(subgraphs)
<1>1. /\ topology.nodes = {n \in Seq(All) : /\ n # <<>> /\ n \notin O
                                            /\ Front(n) \in O /\ Last(n) \in Merged(GraphAt(Front(n))).nodes}
      /\ Containers(topology) = O \ {<<>>}
  BY DEF TopologyInv, Flat
<1>2. ASSUME NEW c \in O, NEW x \in Merged(GraphAt(c)).nodes, Append(c, x) \notin O
      PROVE  Append(c, x) \in topology.nodes
  <2>1. c \in Seq(All) /\ GraphAt(c) \in Graphs
    BY OpenType
  <2>2. x \in All
    BY <2>1, MergedIs DEF TopologyInv
  <2> DEFINE n == Append(c, x)
  <2>3. n \in Seq(All) /\ n # <<>> /\ Front(n) = c /\ Last(n) = x
    BY <2>1, <2>2, GrowsByOne
  <2> HIDE DEF O, n
  <2> QED BY <1>1, <1>2, <2>3 DEF n
<1> HIDE DEF O
<1> QED BY <1>1, <1>2 DEF O

(* A node that is drawn as a graph runs one, less deep than the bound.      *)
LEMMA ContainersAre ==
    ASSUME TopologyInv
    PROVE  /\ \A c : c \in Containers(topology) <=> c \in Open(subgraphs) /\ c # <<>>
           /\ \A c \in Containers(topology) :
                 /\ c \in Seq(All) /\ Calls(c) /\ Len(c) < MaxDepth /\ Front(c) \in Open(subgraphs)
<1>1. Containers(topology) = Open(subgraphs) \ {<<>>}
  BY DEF TopologyInv, Flat
<1>2. ASSUME NEW c \in Open(subgraphs), c # <<>>
      PROVE  c \in Seq(All) /\ Calls(c) /\ Len(c) < MaxDepth /\ Front(c) \in Open(subgraphs)
  <2>1. OpenKnown(subgraphs, c)
    BY OpenIsKnown
  <2> DEFINE f == Front(c)
             l == Last(c)
             g == GraphAt(f)
  <2>2. f \in Open(subgraphs) /\ l \in NodesOf[g] /\ Runs[g][l] \in Graphs
    BY <1>2, <2>1 DEF OpenKnown
  <2>3. g \in Graphs
    BY <2>2, OpenType
  <2>4. l \notin {Start, End} /\ Runs[g][l] # NoGraph
    <3> HIDE DEF g, l
    <3> QED BY <2>2, <2>3, GraphsAssumption
  <2>5. Len(c) < MaxDepth
    <3>1. Len(c) \in Nat /\ Cardinality(Graphs) \in Nat /\ Len(c) < Cardinality(Graphs)
      BY OpenIsShort
    <3> QED BY <3>1, NumbersAssumption
  <2> QED BY <2>2, <2>4, <2>5, OpenType DEF Calls, IsMarker
<1> QED BY <1>1, <1>2

(* A path is a sequence of names that is not too long.                     *)
LEMMA PathsAre == \A p : p \in Paths <=> p \in Seq(All) /\ Len(p) <= MaxDepth
<1> SUFFICES ASSUME NEW p PROVE p \in Paths <=> p \in Seq(All) /\ Len(p) <= MaxDepth
  OBVIOUS
<1>1. Paths = UNION {[1..m -> All] : m \in 0..MaxDepth}
  BY DEF Paths, BoundedSeq, SeqOf, All, Names
<1>2. MaxDepth \in Nat
  BY NumbersAssumption
<1>3. ASSUME p \in Paths PROVE p \in Seq(All) /\ Len(p) <= MaxDepth
  <2>1. PICK m \in 0..MaxDepth : p \in [1..m -> All]
    BY <1>1, <1>3
  <2>2. m \in Nat /\ m <= MaxDepth
    BY <1>2
  <2> HIDE DEF All
  <2>3. p \in Seq(All)
    BY <2>1, <2>2, SeqDef
  <2>4. Len(p) = m
    BY <2>1, <2>2, <2>3, LenProperties
  <2> QED BY <2>2, <2>3, <2>4
<1>4. ASSUME p \in Seq(All), Len(p) <= MaxDepth PROVE p \in Paths
  <2>1. Len(p) \in 0..MaxDepth /\ p \in [1..Len(p) -> All]
    BY <1>2, <1>4, LenProperties
  <2> QED BY <1>1, <2>1
<1> QED BY <1>3, <1>4

(* Where a step leads in the topology.                                     *)
LEMMA EndpointsAre ==
    ASSUME TopologyInv, NEW c \in Open(subgraphs), NEW x \in All,
           x \in NodesOf[GraphAt(c)] \cup {Start, End}
    PROVE  LET O == Open(subgraphs)
               out == ExitAt(O, c, x)
               in == EntryAt(O, c, x)
           IN  /\ out \in Paths /\ out \notin O
               /\ in \in Paths /\ in \notin O /\ in # <<>> /\ Front(in) \in O
               /\ x # Start => in # <<Start>>
               /\ Append(c, x) \notin O => out = Append(c, x) /\ in = Append(c, x)
               /\ Append(c, x) \in O => out = Append(Append(c, x), End) /\ in = Append(Append(c, x), Start)
<1> DEFINE O == Open(subgraphs)
           q == Append(c, x)
           out == ExitAt(O, c, x)
           in == EntryAt(O, c, x)
           goal == /\ out \in Paths /\ out \notin O
                   /\ in \in Paths /\ in \notin O /\ in # <<>> /\ Front(in) \in O
                   /\ x # Start => in # <<Start>>
                   /\ q \notin O => out = q /\ in = q
                   /\ q \in O => out = Append(q, End) /\ in = Append(q, Start)
<1> HIDE DEF goal
<1> SUFFICES goal
  BY DEF goal
<1>1. c \in Seq(All)
  BY OpenType
<1>2. q \in Seq(All) /\ q # <<>> /\ Front(q) = c /\ Last(q) = x /\ Len(c) \in Nat /\ Len(q) = Len(c) + 1
  BY <1>1, GrowsByOne
<1>3. Len(c) < MaxDepth /\ MaxDepth \in Nat
  <2>1. Len(c) \in Nat /\ Cardinality(Graphs) \in Nat /\ Len(c) < Cardinality(Graphs)
    BY OpenIsShort
  <2> QED BY <2>1, NumbersAssumption
<1>4. \A p \in Seq(All) : Len(p) <= MaxDepth => p \in Paths
  BY PathsAre
<1>5. ASSUME NEW m \in {Start, End} PROVE Append(q, m) \in Seq(All) /\ Append(q, m) # <<>> /\ Front(Append(q, m)) = q
                                          /\ Last(Append(q, m)) = m /\ Len(Append(q, m)) = Len(q) + 1
  <2> HIDE DEF q
  <2> QED BY <1>2, MarkersInAll, GrowsByOne
<1>6. CASE q \in O
  <2>1. ASSUME NEW m \in {Start, End} PROVE Append(q, m) \notin O
    <3>1. GraphAt(q) \in Graphs
      <4> HIDE DEF q
      <4> QED BY <1>6, OpenType
    <3>2. m \notin NodesOf[GraphAt(q)] /\ m \in All
      BY <3>1, GraphsAssumption, MarkersInAll
    <3> HIDE DEF q
    <3> QED BY <1>2, <3>2, OpenBelow DEF Replaced
  <2>2. Len(q) < MaxDepth
    <3>1. Len(q) \in Nat /\ Cardinality(Graphs) \in Nat /\ Len(q) < Cardinality(Graphs)
      <4> HIDE DEF q
      <4> QED BY <1>6, OpenIsShort
    <3> QED BY <3>1, NumbersAssumption
  <2>3. out = Append(q, End) /\ in = Append(q, Start)
    BY <1>6 DEF ExitAt, EntryAt
  <2>4. Append(q, Start) # <<Start>>
    <3>1. Front(<<Start>>) = <<>>
      <4>1. <<>> \in Seq(All) /\ Append(<<>>, Start) = <<Start>>
        BY EmptySeq, MarkersInAll, PairIs
      <4>2. Front(Append(<<>>, Start)) = <<>>
        BY <4>1, MarkersInAll, GrowsByOne
      <4> QED BY <4>1, <4>2
    <3> QED BY <3>1, <1>2, <1>5
  <2>5. Len(q) \in Nat /\ Len(q) + 1 <= MaxDepth
    BY <1>2, <1>3, <2>2
  <2>6. Append(q, Start) \in Paths /\ Append(q, End) \in Paths
    <3>1. Len(Append(q, Start)) <= MaxDepth /\ Len(Append(q, End)) <= MaxDepth
      <4> HIDE DEF q
      <4> QED BY <1>5, <2>5, <1>3
    <3> QED BY <1>4, <1>5, <3>1
  <2> HIDE DEF out, in, q, O
  <2>7. goal
    BY <1>5, <1>6, <2>1, <2>3, <2>4, <2>6 DEF q, goal
  <2> QED BY <2>7
<1>7. CASE q \notin O
  <2>1. out = q /\ in = q
    BY <1>7 DEF ExitAt, EntryAt
  <2>2. x # Start => q # <<Start>>
    <3>1. Last(<<Start>>) = Start
      <4>1. <<>> \in Seq(All) /\ Append(<<>>, Start) = <<Start>>
        BY EmptySeq, MarkersInAll, PairIs
      <4>2. Last(Append(<<>>, Start)) = Start
        BY <4>1, MarkersInAll, GrowsByOne
      <4> QED BY <4>1, <4>2
    <3> QED BY <3>1, <1>2
  <2>3. Len(q) <= MaxDepth
    BY <1>2, <1>3
  <2>4. q \in Paths
    BY <1>2, <1>4, <2>3
  <2>5. c \in O
    OBVIOUS
  <2> HIDE DEF out, in, q, O
  <2>6. goal
    BY <1>2, <1>7, <2>1, <2>2, <2>4, <2>5 DEF q, goal
  <2> QED BY <2>6
<1> QED BY <1>6, <1>7

(* An edge is a step of the graph of an open path, and the other way round. *)
LEMMA EdgesAre ==
    ASSUME TopologyInv
    PROVE  /\ \A e \in topology.edges :
                 /\ e = <<e[1], e[2]>> /\ e[1] \in Paths /\ e[2] \in Paths
                 /\ e[1] \notin Open(subgraphs) /\ e[2] \notin Open(subgraphs)
                 /\ e[2] # <<>> /\ Front(e[2]) \in Open(subgraphs) /\ e[2] # <<Start>>
           /\ \A c \in Open(subgraphs) : \A x, y \in All :
                 <<x, y>> \in Steps(GraphAt(c)) =>
                    <<ExitAt(Open(subgraphs), c, x), EntryAt(Open(subgraphs), c, y)>> \in topology.edges
<1> DEFINE O == Open(subgraphs)
<1>1. topology.edges = UNION {{<<ExitAt(O, c, e[1]), EntryAt(O, c, e[2])>> : e \in Steps(GraphAt(c))} : c \in O}
  BY DEF TopologyInv, Flat
<1>2. ASSUME NEW c \in O
      PROVE  Steps(GraphAt(c)) \subseteq (NodesOf[GraphAt(c)] \cup {Start}) \X (NodesOf[GraphAt(c)] \cup {End})
             /\ NodesOf[GraphAt(c)] \cup {Start, End} \subseteq All /\ Start \notin NodesOf[GraphAt(c)]
  <2>1. GraphAt(c) \in Graphs
    BY OpenType
  <2>2. NodesOf[GraphAt(c)] \subseteq All /\ Start \notin NodesOf[GraphAt(c)]
    <3>1. NodesOf[GraphAt(c)] \subseteq Names
      BY <2>1, NamesType
    <3> QED BY <3>1, <2>1, NamesInAll, GraphsAssumption
  <2> DEFINE g == GraphAt(c)
  <2> HIDE DEF g
  <2>3. Steps(g) \subseteq (NodesOf[g] \cup {Start}) \X (NodesOf[g] \cup {End})
    BY <2>1, MergedIs DEF TopologyInv, g
  <2> QED BY <2>2, <2>3, MarkersInAll DEF g
<1>3. ASSUME NEW e \in topology.edges
      PROVE  /\ e = <<e[1], e[2]>> /\ e[1] \in Paths /\ e[2] \in Paths
             /\ e[1] \notin O /\ e[2] \notin O
             /\ e[2] # <<>> /\ Front(e[2]) \in O /\ e[2] # <<Start>>
  <2>0. PICK c \in O : e \in {<<ExitAt(O, c, s[1]), EntryAt(O, c, s[2])>> : s \in Steps(GraphAt(c))}
    <3> HIDE DEF O
    <3> QED BY <1>1
  <2>1. PICK s \in Steps(GraphAt(c)) : e = <<ExitAt(O, c, s[1]), EntryAt(O, c, s[2])>>
    <3> HIDE DEF O
    <3> QED BY <2>0
  <2> DEFINE V == NodesOf[GraphAt(c)]
             x == s[1]
             y == s[2]
  <2>2. x \in V \cup {Start} /\ y \in V \cup {End} /\ V \cup {Start, End} \subseteq All /\ Start \notin V
    BY <1>2
  <2>3. y # Start
    <3> HIDE DEF V, x, y
    <3> QED BY <2>2, GraphsAssumption
  <2> HIDE DEF x, y
  <2>4. ExitAt(O, c, x) \in Paths /\ ExitAt(O, c, x) \notin O
    BY <2>2, EndpointsAre
  <2>5. EntryAt(O, c, y) \in Paths /\ EntryAt(O, c, y) \notin O /\ EntryAt(O, c, y) # <<>>
        /\ Front(EntryAt(O, c, y)) \in O /\ EntryAt(O, c, y) # <<Start>>
    BY <2>2, <2>3, EndpointsAre
  <2>6. e = <<ExitAt(O, c, x), EntryAt(O, c, y)>>
    BY <2>1 DEF x, y
  <2> QED BY <2>4, <2>5, <2>6
<1>4. ASSUME NEW c \in O, NEW x \in All, NEW y \in All, <<x, y>> \in Steps(GraphAt(c))
      PROVE  <<ExitAt(O, c, x), EntryAt(O, c, y)>> \in topology.edges
  <2> DEFINE s == <<x, y>>
  <2>1. s[1] = x /\ s[2] = y /\ s \in Steps(GraphAt(c))
    BY <1>4
  <2>2. <<ExitAt(O, c, s[1]), EntryAt(O, c, s[2])>> \in topology.edges
    <3> HIDE DEF O, s
    <3> QED BY <1>1, <2>1
  <2> QED BY <2>1, <2>2
<1> QED BY <1>3, <1>4

(* There are finitely many nodes, since there are finitely many graphs.     *)
LEMMA FinitelyMany == TopologyInv => IsFiniteSet(topology.nodes) /\ IsFiniteSet(Markers(topology))
<1> SUFFICES ASSUME TopologyInv PROVE IsFiniteSet(topology.nodes) /\ IsFiniteSet(Markers(topology))
  OBVIOUS
<1>1. IsFiniteSet(All)
  <2>1. IsFiniteSet(Range(NodesOf)) /\ \A s \in Range(NodesOf) : IsFiniteSet(s)
    <3> DEFINE f == [g \in Graphs |-> NodesOf[g]]
    <3>1. f \in Surjection(Graphs, Range(NodesOf))
      BY GraphsAssumption DEF Surjection, Range
    <3>2. IsFiniteSet(Range(NodesOf))
      BY <3>1, GraphsAssumption, FS_Surjection
    <3>3. \A s \in Range(NodesOf) : IsFiniteSet(s)
      BY GraphsAssumption DEF Range
    <3> QED BY <3>2, <3>3
  <2>2. IsFiniteSet(Names)
    BY <2>1, FS_UNION DEF Names
  <2>3. IsFiniteSet({Start, End})
    <3>1. IsFiniteSet({Start})
      BY FS_Singleton
    <3>2. IsFiniteSet({Start} \cup {End})
      BY <3>1, FS_AddElement
    <3>3. {Start, End} = {Start} \cup {End}
      OBVIOUS
    <3> QED BY <3>2, <3>3
  <2> QED BY <2>2, <2>3, FS_Union DEF All
<1> DEFINE B(k) == {p \in Seq(All) : Len(p) <= k}
           T == {k \in Nat : IsFiniteSet(B(k))}
<1>2. 0 \in T
  <2>1. B(0) = {<<>>}
    <3>1. \A p \in Seq(All) : Len(p) \in Nat /\ (Len(p) = 0 <=> p = <<>>)
      BY EmptySeq, LenProperties
    <3>2. <<>> \in Seq(All) /\ Len(<<>>) = 0
      BY EmptySeq
    <3>3. \A p : p \in B(0) <=> p = <<>>
      <4> SUFFICES ASSUME NEW p PROVE p \in B(0) <=> p = <<>>
        OBVIOUS
      <4>1. CASE p \in Seq(All)
        BY <4>1, <3>1, <3>2
      <4>2. CASE p \notin Seq(All)
        BY <4>2, <3>2
      <4> QED BY <4>1, <4>2
    <3> HIDE DEF B
    <3> QED BY <3>3
  <2> HIDE DEF B
  <2> QED BY <2>1, FS_Singleton
<1>3. ASSUME NEW k \in 1..MaxDepth, k - 1 \in T PROVE k \in T
  <2> DEFINE P == B(k - 1) \X All
             A == {Append(x[1], x[2]) : x \in P}
  <2>1. IsFiniteSet(P)
    <3> HIDE DEF B
    <3> QED BY <1>1, <1>3, FS_Product
  <2>2. IsFiniteSet(A)
    <3> DEFINE f == [x \in P |-> Append(x[1], x[2])]
    <3>1. f \in Surjection(P, A)
      <4> HIDE DEF P
      <4> QED BY DEF Surjection
    <3> HIDE DEF f, P, A
    <3> QED BY <2>1, <3>1, FS_Surjection
  <2>3. B(k) \subseteq {<<>>} \cup A
    <3> SUFFICES ASSUME NEW p \in Seq(All), Len(p) <= k, p # <<>> PROVE p \in A
      OBVIOUS
    <3>1. Front(p) \in Seq(All) /\ Last(p) \in All /\ p = Append(Front(p), Last(p))
          /\ Len(p) \in Nat \ {0} /\ Len(p) = Len(Front(p)) + 1
      BY FrontAndLast
    <3>2. Front(p) \in B(k - 1)
      <4>1. Len(Front(p)) \in Nat
        BY <3>1, LenProperties
      <4> QED BY <3>1, <4>1
    <3> DEFINE x == <<Front(p), Last(p)>>
    <3>3. x \in P /\ p = Append(x[1], x[2])
      BY <3>1, <3>2
    <3> HIDE DEF x, P
    <3> QED BY <3>3
  <2>4. IsFiniteSet({<<>>} \cup A)
    BY <2>2, FS_Singleton, FS_Union
  <2> HIDE DEF A
  <2>5. IsFiniteSet(B(k))
    BY <2>3, <2>4, FS_Subset
  <2> QED BY <2>5
<1>4. MaxDepth \in T
  <2> HIDE DEF T
  <2>1. MaxDepth \in 0..MaxDepth /\ MaxDepth \in Nat
    BY NumbersAssumption
  <2> QED BY <1>2, <1>3, <2>1, UpTo
<1>5. topology.nodes \subseteq B(MaxDepth)
  <2> SUFFICES ASSUME NEW n \in topology.nodes PROVE n \in B(MaxDepth)
    OBVIOUS
  <2>1. n \in Seq(All) /\ n # <<>> /\ Front(n) \in Open(subgraphs)
    BY NodesAre
  <2>2. Len(n) = Len(Front(n)) + 1
    BY <2>1, FrontAndLast
  <2> DEFINE c == Front(n)
  <2>3. Len(c) \in Nat /\ Cardinality(Graphs) \in Nat /\ Len(c) < Cardinality(Graphs)
    <3> HIDE DEF c
    <3> QED BY <2>1, OpenIsShort DEF c
  <2>4. Len(n) <= MaxDepth
    BY <2>2, <2>3, NumbersAssumption
  <2> QED BY <2>1, <2>4
<1>6. IsFiniteSet(topology.nodes)
  <2> HIDE DEF B
  <2> QED BY <1>4, <1>5, FS_Subset
<1> QED BY <1>6, FS_Subset DEF Markers

-----------------------------------------------------------------------------
(* Where the graph is.                                                     *)

\* Every node along p is a node of the graph that the nodes before it run
Reached(p) ==
    \A i \in 1..Len(p) :
        GraphAt(SubSeq(p, 1, i - 1)) \in Graphs /\ p[i] \in NodesOf[GraphAt(SubSeq(p, 1, i - 1))]

WhereInv ==
    /\ at \in Seq(All) /\ Len(at) <= MaxDepth /\ done \in BOOLEAN /\ away \in BOOLEAN
    /\ at # <<>> => /\ Reached(Front(at)) /\ GraphAt(Front(at)) \in Graphs
                    /\ Last(at) \in NodesOf[GraphAt(Front(at))] \cup {Start}
    /\ at # <<>> /\ ~done => Calls(at) /\ Len(at) < MaxDepth

(* One node further.                                                       *)
LEMMA ReachedBelow ==
    ASSUME NEW p \in Seq(All), NEW n \in All
    PROVE  /\ Reached(<<>>)
           /\ Reached(Append(p, n)) <=> Reached(p) /\ GraphAt(p) \in Graphs /\ n \in NodesOf[GraphAt(p)]
<1> DEFINE q == Append(p, n)
<1>1. /\ Len(p) \in Nat /\ Len(q) = Len(p) + 1 /\ q[Len(p) + 1] = n
      /\ \A i \in 1..Len(p) : q[i] = p[i]
      /\ \A i \in 0..Len(p) : SubSeq(q, 1, i) = SubSeq(p, 1, i)
      /\ SubSeq(p, 1, Len(p)) = p
  BY GrowsByOne
<1>2. Reached(<<>>)
  <2>1. 1..Len(<<>>) = {}
    OBVIOUS
  <2> QED BY <2>1 DEF Reached
<1> HIDE DEF q
<1>3. 1..Len(q) = (1..Len(p)) \cup {Len(p) + 1}
  BY <1>1
<1>4. \A i \in 1..Len(p) : i - 1 \in 0..Len(p) /\ SubSeq(q, 1, i - 1) = SubSeq(p, 1, i - 1) /\ q[i] = p[i]
  <2> SUFFICES ASSUME NEW i \in 1..Len(p)
               PROVE  i - 1 \in 0..Len(p) /\ SubSeq(q, 1, i - 1) = SubSeq(p, 1, i - 1) /\ q[i] = p[i]
    OBVIOUS
  <2>1. i - 1 \in 0..Len(p)
    BY <1>1
  <2> QED BY <1>1, <2>1
<1>5. (Len(p) + 1) - 1 = Len(p) /\ Len(p) \in 0..Len(p) /\ SubSeq(q, 1, Len(p)) = p
  BY <1>1
<1>6. Reached(q) <=> Reached(p) /\ GraphAt(p) \in Graphs /\ n \in NodesOf[GraphAt(p)]
  BY <1>1, <1>3, <1>4, <1>5 DEF Reached
<1> QED BY <1>2, <1>6 DEF q

(* The node that runs is one of the graph object's, or its start.           *)
LEMMA HereAre ==
    ASSUME WhereInv, at # <<>>
    PROVE  LET g == GraphAt(Front(at))
           IN  /\ Last(at) \in NodesOf[g] \cup {Start}
               /\ Last(at) \in All /\ Front(at) \in Seq(All)
               /\ at = Append(Front(at), Last(at)) /\ g \in Graphs
               /\ NodesOf[g] \subseteq All \ {Start, End}
<1> DEFINE g == GraphAt(Front(at))
<1>1. /\ g \in Graphs /\ Last(at) \in NodesOf[g] \cup {Start} /\ Last(at) \in All
      /\ Front(at) \in Seq(All) /\ at = Append(Front(at), Last(at))
  BY FrontAndLast DEF WhereInv
<1>2. NodesOf[g] \subseteq All \ {Start, End}
  <2> HIDE DEF g
  <2> QED BY <1>1, NamesType, NamesInAll, GraphsAssumption
<1> QED BY <1>1, <1>2

(* Its edges are steps of the graph object that runs.                       *)
LEMMA NextNamesAre ==
    ASSUME GraphsFine, WhereInv, at # <<>>, NEW name \in NextNames
    PROVE  LET g == GraphAt(Front(at))
           IN  /\ <<Last(at), name>> \in Steps(g)
               /\ name \in NodesOf[g] \cup {End} /\ name \in Merged(g).nodes
               /\ name \in All /\ Last(at) \in All /\ Front(at) \in Seq(All)
               /\ at = Append(Front(at), Last(at)) /\ g \in Graphs
               /\ NodesOf[g] \subseteq All \ {Start, End}
<1> DEFINE g == GraphAt(Front(at))
           l == Last(at)
           flow == graph[g].flow
<1>1. g \in Graphs /\ l \in NodesOf[g] \cup {Start} /\ Front(at) \in Seq(All) /\ at = Append(Front(at), l)
  BY FrontAndLast DEF WhereInv
<1> HIDE DEF g, l
<1>2. NodesOf[g] \subseteq All \ {Start, End}
  BY <1>1, NamesType, NamesInAll, GraphsAssumption
<1>3. flow \subseteq (NodesOf[g] \cup {Start}) \X (NodesOf[g] \cup {End}) /\ Start \in Sources(flow)
  BY <1>1, ShapeKnown
<1>4. NextNames = IF l \in Sources(flow) THEN Successors(flow, l) ELSE {End}
  BY DEF NextNames, g, l
<1> HIDE DEF flow
<1>5. <<l, name>> \in Steps(g)
  <2>1. CASE l \in Sources(flow)
    <3>1. PICK e \in flow : e[1] = l /\ e[2] = name
      BY <1>4, <2>1 DEF Successors
    <3>2. e = <<l, name>>
      BY <1>3, <3>1
    <3> QED BY <3>1, <3>2 DEF Steps, flow
  <2>2. CASE l \notin Sources(flow)
    <3>1. name = End /\ l \in NodesOf[g] \ Sources(flow)
      BY <1>1, <1>3, <1>4, <2>2
    <3> QED BY <3>1 DEF Steps, flow
  <2> QED BY <2>1, <2>2
<1>6. Steps(g) \subseteq (NodesOf[g] \cup {Start}) \X (NodesOf[g] \cup {End})
      /\ Merged(g).nodes = NodesOf[g] \cup Sources(Steps(g)) \cup Targets(Steps(g))
  BY <1>1, MergedIs
<1>7. name \in NodesOf[g] \cup {End} /\ name \in Targets(Steps(g))
  <2> DEFINE e == <<l, name>>
  <2>1. e \in Steps(g) /\ e[2] = name
    BY <1>5
  <2>2. e[2] \in NodesOf[g] \cup {End}
    BY <1>6, <2>1
  <2> QED BY <2>1, <2>2 DEF Targets
<1>8. name \in Merged(g).nodes
  BY <1>6, <1>7
<1>9. name \in All /\ l \in All
  BY <1>1, <1>2, <1>7, MarkersInAll
<1> QED BY <1>1, <1>2, <1>5, <1>7, <1>8, <1>9 DEF g, l

(* Only StartInvoke, EnterNode, EnterGraph, LeaveGraph and EndInvoke move,  *)
(* and Skip lets the next one.                                             *)
LEMMA WhereNext == GraphsFine /\ WhereInv /\ [Next]_vars => WhereInv'
<1> SUFFICES ASSUME GraphsFine, WhereInv, [Next]_vars PROVE WhereInv'
  OBVIOUS
<1>0. away' \in BOOLEAN
  <2>1. away \in BOOLEAN
    BY DEF WhereInv
  <2>2. \/ away' = away \/ away' = FALSE \/ away' = (away \/ at \in Containers(topology))
        \/ \E name : away' = Strays(name)
    BY DEF Next, vars, hopVars, StartInvoke, EndInvoke, EnterNode, EnterGraph, LeaveGraph, Skip, IncludeSubgraph
  <2> QED BY <2>1, <2>2 DEF Strays
<1>1. CASE StartInvoke
  <2>1. at' = <<Start>> /\ done' = TRUE
    BY <1>1 DEF StartInvoke
  <2>2. <<>> \in Seq(All) /\ Append(<<>>, Start) = <<Start>> /\ Start \in All
    BY EmptySeq, MarkersInAll, PairIs
  <2> DEFINE p == Append(<<>>, Start)
  <2>3. p \in Seq(All) /\ Front(p) = <<>> /\ Last(p) = Start /\ Len(p) = 1
    BY <2>2, GrowsByOne
  <2>4. 1 <= MaxDepth
    <3>1. Cardinality(Graphs) \in Nat /\ Cardinality(Graphs) # 0
      BY GraphsAssumption, FS_CardinalityType, FS_EmptySet
    <3> QED BY <3>1, NumbersAssumption
  <2>5. Reached(<<>>) /\ GraphAt(<<>>) \in Graphs
    BY <2>2, ReachedBelow, GraphAtRoot, GraphsAssumption
  <2>6. at' = p
    BY <2>1, <2>2
  <2> HIDE DEF p
  <2> QED BY <1>0, <2>1, <2>3, <2>4, <2>5, <2>6 DEF WhereInv
<1>2. ASSUME NEW name \in Names, EnterNode(name) PROVE WhereInv'
  <2> DEFINE f == Front(at)
             g == GraphAt(f)
             p == Append(f, name)
  <2>1. /\ at # <<>> /\ done /\ name \in NodesOf[g] /\ at' = p
        /\ done' = (~Calls(p) \/ Len(p) = MaxDepth)
    BY <1>2 DEF EnterNode
  <2>2. f \in Seq(All) /\ g \in Graphs /\ name \in NodesOf[g] /\ name \in All
    BY <2>1, HereAre
  <2>3. Reached(f)
    BY <2>1 DEF WhereInv
  <2>4. p \in Seq(All) /\ Front(p) = f /\ Last(p) = name /\ p # <<>> /\ Len(p) = Len(f) + 1
    <3> HIDE DEF f
    <3> QED BY <2>2, GrowsByOne
  <2>5. Len(p) <= MaxDepth /\ Len(p) \in Nat
    <3>1. Len(at) = Len(f) + 1 /\ Len(at) \in Nat
      BY <2>1, FrontAndLast DEF WhereInv
    <3> QED BY <3>1, <2>4 DEF WhereInv
  <2> HIDE DEF p, g, f
  <2>6. at' \in Seq(All) /\ Len(at') <= MaxDepth /\ done' \in BOOLEAN
    BY <2>1, <2>4, <2>5
  <2>7. Reached(Front(at')) /\ GraphAt(Front(at')) \in Graphs /\ Last(at') \in NodesOf[GraphAt(Front(at'))]
    BY <2>1, <2>2, <2>3, <2>4 DEF g
  <2>8. ~done' => Calls(at') /\ Len(at') < MaxDepth
    <3>1. ~done' => Calls(p) /\ Len(p) # MaxDepth
      BY <2>1
    <3>2. Len(p) # MaxDepth => Len(p) < MaxDepth
      BY <2>5, NumbersAssumption
    <3> QED BY <2>1, <3>1, <3>2 DEF Calls
  <2> QED BY <1>0, <2>6, <2>7, <2>8 DEF WhereInv, Calls
<1>3. CASE EnterGraph
  <2>1. at # <<>> /\ ~done /\ at' = Append(at, Start) /\ done' = TRUE
    BY <1>3 DEF EnterGraph
  <2> DEFINE f == Front(at)
             l == Last(at)
             g == GraphAt(f)
  <2>2. at \in Seq(All) /\ f \in Seq(All) /\ l \in All /\ at = Append(f, l) /\ Len(at) \in Nat
    BY <2>1, FrontAndLast DEF WhereInv
  <2>3. Reached(f) /\ g \in Graphs /\ l \in NodesOf[g] \cup {Start} /\ Calls(at) /\ Len(at) < MaxDepth
    BY <2>1 DEF WhereInv
  <2>4. l \in NodesOf[g] /\ Runs[g][l] \in Graphs
    <3>1. l # Start /\ Runs[g][l] # NoGraph
      BY <2>3 DEF Calls, IsMarker
    <3>2. l \in NodesOf[g]
      BY <2>3, <3>1
    <3> HIDE DEF g, l
    <3> QED BY <2>3, <3>1, <3>2, GraphsAssumption
  <2> HIDE DEF f, l
  <2>5. Reached(at) /\ GraphAt(at) = Runs[g][l]
    BY <2>2, <2>3, <2>4, ReachedBelow, GraphAtBelow
  <2>6. Append(at, Start) \in Seq(All) /\ Front(Append(at, Start)) = at /\ Last(Append(at, Start)) = Start
        /\ Append(at, Start) # <<>> /\ Len(Append(at, Start)) = Len(at) + 1
    <3>1. at \in Seq(All) /\ Start \in All
      BY <2>2, MarkersInAll
    <3> QED BY <3>1, GrowsByOne
  <2>7. Len(at) + 1 <= MaxDepth
    BY <2>2, <2>3, NumbersAssumption
  <2> QED BY <1>0, <2>1, <2>4, <2>5, <2>6, <2>7 DEF WhereInv
<1>4. CASE LeaveGraph
  <2>1. Len(at) > 1 /\ done /\ at' = Front(at) /\ done' = TRUE
    BY <1>4 DEF LeaveGraph
  <2> DEFINE f == Front(at)
  <2>2. at \in Seq(All) /\ at # <<>>
    <3>1. at \in Seq(All)
      BY DEF WhereInv
    <3>2. at = <<>> => Len(at) = 0
      BY EmptySeq
    <3> QED BY <2>1, <3>1, <3>2
  <2>3. f \in Seq(All) /\ Len(at) = Len(f) + 1 /\ Reached(f) /\ Len(f) \in Nat /\ Len(f) <= MaxDepth
    <3>1. f \in Seq(All) /\ Len(at) = Len(f) + 1 /\ Len(f) \in Nat
      BY <2>2, FrontAndLast, LenProperties
    <3>2. Len(at) <= MaxDepth /\ Reached(f)
      BY <2>2 DEF WhereInv
    <3> QED BY <3>1, <3>2, NumbersAssumption
  <2>4. f # <<>>
    <3>1. Len(<<>>) = 0
      OBVIOUS
    <3> QED BY <3>1, <2>1, <2>3
  <2> HIDE DEF f
  <2> DEFINE u == Front(f)
             n == Last(f)
  <2>5. u \in Seq(All) /\ n \in All /\ f = Append(u, n)
    BY <2>3, <2>4, FrontAndLast
  <2> HIDE DEF u, n
  <2>6. Reached(u) /\ GraphAt(u) \in Graphs /\ n \in NodesOf[GraphAt(u)]
    BY <2>3, <2>5, ReachedBelow
  <2> QED BY <1>0, <2>1, <2>3, <2>6 DEF WhereInv, u, n, f
<1>5. CASE EndInvoke
  <2>1. at' = <<>> /\ done' = FALSE
    BY <1>5 DEF EndInvoke
  <2>2. <<>> \in Seq(All) /\ Len(<<>>) <= MaxDepth
    BY EmptySeq, NumbersAssumption
  <2> QED BY <1>0, <2>1, <2>2 DEF WhereInv
<1>6. CASE UNCHANGED <<at, done>>
  BY <1>0, <1>6 DEF WhereInv, Calls
<1>7. CASE Skip
  <2>1. at' = at /\ done' = TRUE
    BY <1>7 DEF Skip
  <2> QED BY <1>0, <2>1 DEF WhereInv
<1>8. \/ UNCHANGED <<at, done>> \/ StartInvoke \/ EnterGraph \/ LeaveGraph \/ Skip \/ EndInvoke
      \/ \E name \in Names : EnterNode(name)
  BY DEF Next, Names, IncludeSubgraph, vars
<1> QED BY <1>1, <1>2, <1>3, <1>4, <1>5, <1>6, <1>7, <1>8

-----------------------------------------------------------------------------
(* What _last_node has to do with where the graph is.                      *)

SourceOf(l) == IF l = None THEN <<Start>> ELSE l

\* From a node to another one, through markers only
Leads(a, b) ==
    \A X : a \in X /\ (\A n \in X : Successors(topology.edges, n) \cap Markers(topology) \subseteq X) => b \in X

\* What stands for the node that runs: itself, or a marker of it
PointOf(a, d) ==
    IF a \notin Containers(topology) THEN a
    ELSE IF d THEN Append(a, End) ELSE Append(a, Start)

FollowAt(l, a, d, w) ==
    /\ l # None => l \in Paths /\ l # <<>> /\ ~IsMarker(l)
    /\ a # <<>> /\ Last(a) # Start /\ a \notin Containers(topology) => l = a
    /\ a # <<>> /\ Front(a) \in Open(subgraphs) =>
          /\ l \in {None} \cup topology.nodes \cup Containers(topology)
          /\ SourceOf(l) \in topology.nodes /\ ~w => Leads(SourceOf(l), PointOf(a, d))

FollowInv == FollowAt(lastNode, at, done, away)

(* Going on through a marker.                                              *)
LEMMA LeadsOn ==
    /\ \A a : Leads(a, a)
    /\ \A a, b, m : Leads(a, b) /\ <<b, m>> \in topology.edges /\ m \in Markers(topology) => Leads(a, m)
<1>1. \A a : Leads(a, a)
  BY DEF Leads
<1>2. ASSUME NEW a, NEW b, NEW m, Leads(a, b), <<b, m>> \in topology.edges, m \in Markers(topology)
      PROVE  Leads(a, m)
  <2> SUFFICES ASSUME NEW X, a \in X, \A n \in X : Successors(topology.edges, n) \cap Markers(topology) \subseteq X
               PROVE  m \in X
    BY DEF Leads
  <2>1. b \in X
    BY <1>2 DEF Leads
  <2>2. m \in Successors(topology.edges, b)
    BY <1>2 DEF Successors
  <2> QED BY <1>2, <2>1, <2>2
<1> QED BY <1>1, <1>2

(* The node it goes on to is drawn, or drawn as a graph.                    *)
LEMMA NodeDrawn ==
    ASSUME TopologyInv, WhereInv, at # <<>>, Front(at) \in Open(subgraphs),
           NEW name \in NodesOf[GraphAt(Front(at))], Append(Front(at), name) \notin Containers(topology)
    PROVE  Append(Front(at), name) \in topology.nodes
<1> DEFINE f == Front(at)
           g == GraphAt(f)
           path == Append(f, name)
<1>1. g \in Graphs /\ name \in All /\ f \in Seq(All)
  BY HereAre
<1>2. name \in Merged(g).nodes
  <2> HIDE DEF g
  <2> QED BY <1>1, MergedIs DEF TopologyInv, g
<1>3. path \notin Open(subgraphs)
  <2>1. path # <<>>
    <3> HIDE DEF f
    <3> QED BY <1>1, GrowsByOne
  <2> QED BY <2>1, ContainersAre
<1> QED BY <1>2, <1>3, NodesAre

(* A step along an edge of the graph object is one of the topology, from    *)
(* what stands for the node that runs.                                     *)
LEMMA PointNext ==
    ASSUME TopologyInv, WhereInv, at # <<>>, done, Front(at) \in Open(subgraphs), NEW name \in NextNames
    PROVE  LET path == Append(Front(at), name)
               point == PointOf(at, TRUE)
           IN  /\ path \notin Containers(topology) => <<point, path>> \in topology.edges /\ path \in topology.nodes
               /\ path \in Containers(topology) =>
                    <<point, Append(path, Start)>> \in topology.edges /\ Append(path, Start) \in Markers(topology)
<1> DEFINE O == Open(subgraphs)
           C == Containers(topology)
           f == Front(at)
           g == GraphAt(f)
           l == Last(at)
           path == Append(f, name)
<1>1. /\ <<l, name>> \in Steps(g) /\ name \in NodesOf[g] \cup {End} /\ name \in Merged(g).nodes
      /\ name \in All /\ l \in All /\ f \in Seq(All) /\ at = Append(f, l) /\ g \in Graphs
  BY NextNamesAre DEF TopologyInv
<1>2. l \in NodesOf[g] \cup {Start, End}
  BY DEF WhereInv
<1>3. \A c : c \in C <=> c \in O /\ c # <<>>
  BY ContainersAre
<1>4. path # <<>> /\ path \in Seq(All)
  <2> HIDE DEF f
  <2> QED BY <1>1, GrowsByOne
<1>5. f \in O
  OBVIOUS
<1> DEFINE out == ExitAt(O, f, l)
           in == EntryAt(O, f, name)
<1>6. <<out, in>> \in topology.edges
  <2> HIDE DEF f, l
  <2> QED BY <1>1, <1>5, EdgesAre DEF g
<1>7. out = PointOf(at, TRUE)
  <2> HIDE DEF f, l
  <2>1. at \in O => out = Append(at, End)
    BY <1>1 DEF ExitAt
  <2>2. at \notin O => out = at
    BY <1>1 DEF ExitAt
  <2> HIDE DEF out, O, C
  <2> QED BY <1>3, <2>1, <2>2 DEF PointOf, C
<1>8. /\ path \in O => in = Append(path, Start)
      /\ path \notin O => in = path
  BY DEF EntryAt
<1>9. path \notin O => path \in topology.nodes
  <2> HIDE DEF f
  <2> QED BY <1>1, <1>5, NodesAre DEF g
<1>10. path \in O => Append(path, Start) \in Markers(topology)
  <2> SUFFICES ASSUME path \in O PROVE Append(path, Start) \in Markers(topology)
    OBVIOUS
  <2> HIDE DEF path
  <2>1. GraphAt(path) \in Graphs
    BY OpenType
  <2> DEFINE h == GraphAt(path)
             m == Append(path, Start)
  <2>2. Start \in Merged(h).nodes /\ Start \notin NodesOf[h]
    <3> HIDE DEF h
    <3> QED BY <2>1, MergedIs, GraphsAssumption DEF TopologyInv, h
  <2>3. m \notin O
    BY <1>4, <2>2, MarkersInAll, OpenBelow DEF Replaced
  <2>4. m \in topology.nodes
    <3> HIDE DEF m
    <3> QED BY <2>2, <2>3, NodesAre DEF m
  <2>5. Last(m) = Start
    BY <1>4, MarkersInAll, GrowsByOne
  <2> HIDE DEF m
  <2> QED BY <2>4, <2>5 DEF Markers, IsMarker, m
<1> HIDE DEF path, out, in, O, C
<1>11. path \notin C => <<PointOf(at, TRUE), path>> \in topology.edges /\ path \in topology.nodes
  BY <1>3, <1>4, <1>6, <1>7, <1>8, <1>9
<1>12. path \in C => <<PointOf(at, TRUE), Append(path, Start)>> \in topology.edges /\ Append(path, Start) \in Markers(topology)
  BY <1>3, <1>6, <1>7, <1>8, <1>10
<1> QED BY <1>11, <1>12 DEF path, C, f

(* While the topology stays, only _last_node and the place matter.          *)
LEMMA FollowMoves ==
    ASSUME UNCHANGED <<graph, subgraphs, topology>>, FollowAt(lastNode', at', done', away')
    PROVE  FollowInv'
<1>1. graph' = graph /\ subgraphs' = subgraphs /\ topology' = topology
  OBVIOUS
<1>2. Open(subgraphs)' = Open(subgraphs)
  BY <1>1 DEF Open, OpenAt, Replaced
<1> QED BY <1>1, <1>2 DEF FollowInv, FollowAt, Leads, PointOf

(* A node that is drawn as a graph is not a marker.                        *)
LEMMA ContainersWork == TopologyInv => \A c \in Containers(topology) : ~IsMarker(c) /\ c # <<>>
BY ContainersAre DEF Calls

(* StartInvoke: nothing has run, and the graph is at its start.             *)
LEMMA FollowStart ==
    ASSUME TopologyInv, WhereInv, FollowInv, StartInvoke
    PROVE  FollowInv'
<1>1. at' = <<Start>> /\ done' = TRUE /\ lastNode' = None /\ away' = FALSE /\ UNCHANGED <<graph, subgraphs, topology>>
  BY DEF StartInvoke, shapeVars
<1>2. <<>> \in Seq(All) /\ Append(<<>>, Start) = <<Start>> /\ Start \in All
  BY EmptySeq, MarkersInAll, PairIs
<1> DEFINE p == Append(<<>>, Start)
<1>3. Front(p) = <<>> /\ Last(p) = Start
  BY <1>2, GrowsByOne
<1>4. p \notin Containers(topology)
  BY <1>3, ContainersWork DEF IsMarker
<1>5. Leads(SourceOf(None), PointOf(p, TRUE))
  BY <1>2, <1>4, LeadsOn DEF SourceOf, PointOf
<1>6. p = <<Start>>
  BY <1>2
<1> HIDE DEF p
<1>7. FollowAt(None, p, TRUE, FALSE)
  BY <1>3, <1>5 DEF FollowAt
<1> QED BY <1>1, <1>6, <1>7, FollowMoves

(* EnterNode: the node follows _last_node, or contains what will.           *)
LEMMA FollowEnter ==
    ASSUME TopologyInv, WhereInv, WhereInv', FollowInv, NEW name \in Names, EnterNode(name)
    PROVE  FollowInv'
<1> DEFINE O == Open(subgraphs)
           C == Containers(topology)
           f == Front(at)
           path == Append(f, name)
<1>1. /\ at # <<>> /\ done /\ name \in NodesOf[GraphAt(f)] /\ at' = path
      /\ done' = (~Calls(path) \/ Len(path) = MaxDepth)
      /\ path \in C => lastNode' = lastNode /\ away' = Strays(name)
      /\ path \notin C => lastNode' = path /\ away' = FALSE
      /\ UNCHANGED <<graph, subgraphs, topology>>
  BY DEF EnterNode, shapeVars
<1>2. /\ name \in All /\ f \in Seq(All) /\ name \in NodesOf[GraphAt(f)]
      /\ NodesOf[GraphAt(f)] \subseteq All \ {Start, End}
  BY <1>1, HereAre
<1>3. path \in Seq(All) /\ Front(path) = f /\ Last(path) = name /\ path # <<>>
  <2> HIDE DEF f
  <2> QED BY <1>2, GrowsByOne
<1>4. path \in Paths /\ ~IsMarker(path)
  <2>1. Len(path) <= MaxDepth
    BY <1>1 DEF WhereInv
  <2> HIDE DEF path, f
  <2> QED BY <1>2, <1>3, <2>1, PathsAre DEF IsMarker
<1>5. f \in O => /\ path \notin C => path \in topology.nodes
                 /\ path \in C /\ ~Strays(name) =>
                      /\ <<PointOf(at, TRUE), Append(path, Start)>> \in topology.edges
                      /\ Append(path, Start) \in Markers(topology)
  BY <1>1, NodeDrawn, PointNext DEF Strays
<1>6. CASE path \notin C
  <2>1. lastNode' = path /\ path # None /\ away' = FALSE
    BY <1>1, <1>4, <1>6, NoneAssumption DEF Paths
  <2>2. Leads(SourceOf(path), PointOf(path, done'))
    <3> HIDE DEF path
    <3> QED BY <1>6, <2>1, LeadsOn DEF SourceOf, PointOf
  <2>3. FollowAt(path, path, done', FALSE)
    <3> HIDE DEF path, f
    <3> QED BY <1>3, <1>4, <1>5, <1>6, <2>2 DEF FollowAt
  <2> QED BY <1>1, <2>1, <2>3, FollowMoves
<1>7. CASE path \in C
  <2>1. lastNode' = lastNode /\ done' = FALSE /\ f \in O /\ away' = Strays(name)
    <3>1. Calls(path) /\ Len(path) < MaxDepth /\ Front(path) \in O
      <4> HIDE DEF path
      <4> QED BY <1>7, ContainersAre
    <3>2. Len(path) # MaxDepth
      <4>1. Len(path) \in Nat
        <5> HIDE DEF path
        <5> QED BY <1>3, LenProperties
      <4> QED BY <3>1, <4>1, NumbersAssumption
    <3> HIDE DEF path
    <3> QED BY <1>1, <1>3, <1>7, <3>1, <3>2
  <2>2. PointOf(path, FALSE) = Append(path, Start)
    BY <1>7 DEF PointOf
  <2>3. PointOf(at, done) = PointOf(at, TRUE)
    BY <1>1 DEF PointOf
  <2>4. SourceOf(lastNode) \in topology.nodes /\ ~away => Leads(SourceOf(lastNode), PointOf(at, TRUE))
    BY <1>1, <2>1, <2>3 DEF FollowInv, FollowAt
  <2>5. SourceOf(lastNode) \in topology.nodes /\ ~Strays(name) => Leads(SourceOf(lastNode), PointOf(path, FALSE))
    <3>1. ~Strays(name) => ~away
      BY DEF Strays
    <3> HIDE DEF path, f
    <3> QED BY <1>5, <1>7, <2>1, <2>2, <2>4, <3>1, LeadsOn
  <2>6. lastNode # None => lastNode \in Paths /\ lastNode # <<>> /\ ~IsMarker(lastNode)
    BY DEF FollowInv, FollowAt
  <2>7. lastNode \in {None} \cup topology.nodes \cup C
    BY <1>1, <2>1 DEF FollowInv, FollowAt
  <2>8. FollowAt(lastNode, path, FALSE, Strays(name))
    <3> HIDE DEF path, f
    <3> QED BY <1>7, <2>5, <2>6, <2>7 DEF FollowAt
  <2> QED BY <1>1, <2>1, <2>8, FollowMoves
<1> QED BY <1>6, <1>7

(* EnterGraph: into a graph that is drawn through its entry marker.         *)
LEMMA FollowInto ==
    ASSUME TopologyInv, WhereInv, FollowInv, EnterGraph
    PROVE  FollowInv'
<1> DEFINE O == Open(subgraphs)
           C == Containers(topology)
           p == Append(at, Start)
<1>1. at # <<>> /\ ~done /\ at' = p /\ done' = TRUE /\ lastNode' = lastNode /\ away' = away /\ UNCHANGED <<graph, subgraphs, topology>>
  BY DEF EnterGraph, shapeVars, hopVars
<1>2. at \in Seq(All)
  BY DEF WhereInv
<1>3. Front(p) = at /\ Last(p) = Start
  <2>1. at \in Seq(All) /\ Start \in All
    BY <1>2, MarkersInAll
  <2> QED BY <2>1, GrowsByOne
<1>4. p \notin C
  BY <1>3, ContainersWork DEF IsMarker
<1>5. ASSUME at \in O
      PROVE  /\ lastNode \in {None} \cup topology.nodes \cup C
             /\ SourceOf(lastNode) \in topology.nodes /\ ~away => Leads(SourceOf(lastNode), PointOf(p, TRUE))
  <2>1. at \in C /\ Front(at) \in O
    BY <1>1, <1>5, ContainersAre
  <2>2. PointOf(at, done) = p /\ PointOf(p, TRUE) = p
    BY <1>1, <1>4, <2>1 DEF PointOf
  <2>3. /\ lastNode \in {None} \cup topology.nodes \cup C
        /\ SourceOf(lastNode) \in topology.nodes /\ ~away => Leads(SourceOf(lastNode), PointOf(at, done))
    BY <1>1, <2>1 DEF FollowInv, FollowAt
  <2> QED BY <2>2, <2>3
<1>6. lastNode # None => lastNode \in Paths /\ lastNode # <<>> /\ ~IsMarker(lastNode)
  BY DEF FollowInv, FollowAt
<1> HIDE DEF p
<1>7. FollowAt(lastNode, p, TRUE, away)
  BY <1>3, <1>5, <1>6 DEF FollowAt
<1> QED BY <1>1, <1>7, FollowMoves

(* LeaveGraph: out of a graph that is drawn through its exit marker.        *)
LEMMA FollowOut ==
    ASSUME TopologyInv, WhereInv, WhereInv', FollowInv, LeaveGraph
    PROVE  FollowInv'
<1> DEFINE O == Open(subgraphs)
           C == Containers(topology)
           f == Front(at)
           path == Append(f, End)
<1>1. /\ Len(at) > 1 /\ done /\ at' = f /\ done' = TRUE
      /\ f \in C => lastNode' = lastNode /\ away' = Strays(End)
      /\ f \notin C => lastNode' = f /\ away' = FALSE
      /\ UNCHANGED <<graph, subgraphs, topology>>
  BY DEF LeaveGraph, shapeVars
<1>2. at # <<>> /\ f # <<>> /\ f \in Seq(All)
  <2>1. at \in Seq(All) /\ Len(<<>>) = 0
    BY EmptySeq DEF WhereInv
  <2>2. at # <<>>
    BY <1>1, <2>1
  <2>3. f \in Seq(All) /\ Len(at) = Len(f) + 1
    BY <2>1, <2>2, FrontAndLast
  <2>4. f # <<>>
    BY <1>1, <2>1, <2>3
  <2> QED BY <2>2, <2>3, <2>4
<1>3. Last(f) \in NodesOf[GraphAt(Front(f))] \cup {Start} /\ GraphAt(Front(f)) \in Graphs
  BY <1>1, <1>2 DEF WhereInv
<1>4. CASE f \notin C
  <2>1. lastNode' = f /\ away' = FALSE
    BY <1>1, <1>4
  <2>2. f \in Paths /\ f # None
    <3>1. Len(f) <= MaxDepth
      BY <1>1 DEF WhereInv
    <3>2. f \in Paths
      <4> HIDE DEF f
      <4> QED BY <1>2, <3>1, PathsAre
    <3> QED BY <3>2, NoneAssumption DEF Paths
  <2>3. ~IsMarker(f)
    <3> DEFINE u == Front(f)
               n == Last(f)
    <3>1. f \in Seq(All) /\ f # <<>>
      BY <1>2
    <3>2. u \in Seq(All) /\ n \in All /\ f = Append(u, n)
      <4> HIDE DEF f
      <4> QED BY <3>1, FrontAndLast
    <3>3. Reached(f)
      BY <1>2 DEF WhereInv
    <3> HIDE DEF u, n
    <3>4. GraphAt(u) \in Graphs /\ n \in NodesOf[GraphAt(u)]
      BY <3>2, <3>3, ReachedBelow
    <3>5. n \notin {Start, End}
      BY <3>4, GraphsAssumption
    <3> QED BY <3>5 DEF n, IsMarker
  <2>4. Front(f) \in O => f \in topology.nodes
    <3> SUFFICES ASSUME Front(f) \in O PROVE f \in topology.nodes
      OBVIOUS
    <3> DEFINE u == Front(f)
               n == Last(f)
               g == GraphAt(u)
    <3>1. f = Append(u, n) /\ f \notin O
      <4>1. f = Append(u, n)
        <5> HIDE DEF f
        <5> QED BY <1>2, FrontAndLast
      <4> QED BY <1>2, <1>4, <4>1, ContainersAre
    <3>2. n \in NodesOf[g] \cup {Start} /\ g \in Graphs
      BY <1>3
    <3>3. n \in Merged(g).nodes
      <4> HIDE DEF n, g
      <4> QED BY <3>2, MergedIs DEF TopologyInv
    <3>4. u \in O
      OBVIOUS
    <3> HIDE DEF u, n
    <3>5. Append(u, n) \in topology.nodes
      <4>1. Append(u, n) \notin O
        BY <3>1
      <4> HIDE DEF O
      <4> QED BY <3>3, <3>4, <4>1, NodesAre DEF g, O
    <3> QED BY <3>1, <3>5
  <2>5. Leads(SourceOf(f), PointOf(f, TRUE))
    <3> HIDE DEF f
    <3> QED BY <1>4, <2>2, LeadsOn DEF SourceOf, PointOf
  <2>6. FollowAt(f, f, TRUE, FALSE)
    <3> HIDE DEF f
    <3> QED BY <1>2, <2>2, <2>3, <2>4, <2>5 DEF FollowAt
  <2> QED BY <1>1, <2>1, <2>6, FollowMoves
<1>5. CASE f \in C
  <2>1. lastNode' = lastNode /\ f \in O /\ away' = Strays(End)
    BY <1>1, <1>5, ContainersAre
  <2>2. path \in Seq(All) /\ Last(path) = End
    <3>1. End \in All
      BY MarkersInAll
    <3> HIDE DEF f
    <3> QED BY <1>2, <3>1, GrowsByOne
  <2>3. path \notin C
    <3> HIDE DEF path
    <3> QED BY <2>2, ContainersWork DEF IsMarker
  <2>4. ~Strays(End) => ~away /\ <<PointOf(at, TRUE), path>> \in topology.edges /\ path \in topology.nodes
    BY <1>1, <1>2, <2>1, <2>3, PointNext DEF Strays
  <2>5. ~Strays(End) => path \in Markers(topology)
    <3> HIDE DEF path
    <3> QED BY <2>2, <2>4 DEF Markers, IsMarker
  <2>6. PointOf(at, done) = PointOf(at, TRUE) /\ PointOf(f, TRUE) = path
    BY <1>1, <1>5 DEF PointOf
  <2>7. /\ lastNode \in {None} \cup topology.nodes \cup C
        /\ SourceOf(lastNode) \in topology.nodes /\ ~away => Leads(SourceOf(lastNode), PointOf(at, TRUE))
    BY <1>2, <2>1, <2>6 DEF FollowInv, FollowAt
  <2>8. SourceOf(lastNode) \in topology.nodes /\ ~Strays(End) => Leads(SourceOf(lastNode), PointOf(f, TRUE))
    <3> HIDE DEF path, f
    <3> QED BY <2>4, <2>5, <2>6, <2>7, LeadsOn
  <2>9. lastNode # None => lastNode \in Paths /\ lastNode # <<>> /\ ~IsMarker(lastNode)
    BY DEF FollowInv, FollowAt
  <2>10. FollowAt(lastNode, f, TRUE, Strays(End))
    <3> HIDE DEF f
    <3> QED BY <1>5, <2>7, <2>8, <2>9 DEF FollowAt
  <2> QED BY <1>1, <2>1, <2>10, FollowMoves
<1> QED BY <1>4, <1>5

(* Skip: a node that is drawn as a graph did not go through it.             *)
LEMMA FollowSkip ==
    ASSUME TopologyInv, WhereInv, FollowInv, Skip
    PROVE  FollowInv'
<1> DEFINE w == away \/ at \in Containers(topology)
<1>1. /\ at' = at /\ done' = TRUE /\ lastNode' = lastNode /\ away' = w
      /\ UNCHANGED <<graph, subgraphs, topology>>
  BY DEF Skip, shapeVars
<1>2. ~w => ~away /\ PointOf(at, TRUE) = PointOf(at, done)
  BY DEF PointOf
<1> HIDE DEF w
<1>3. FollowAt(lastNode, at, TRUE, w)
  BY <1>2 DEF FollowInv, FollowAt
<1> QED BY <1>1, <1>3, FollowMoves

(* IncludeSubgraph: the node that runs is the one before it no longer.      *)
LEMMA FollowReplaced ==
    ASSUME TopologyInv, TopologyInv', WhereInv, FollowInv, IncludeSubgraph
    PROVE  FollowInv'
<1>1. /\ at # <<>> /\ ~done /\ at \notin Containers(topology)
      /\ graph' = graph /\ at' = at /\ done' = done /\ lastNode' = lastNode /\ away' = away
  BY DEF IncludeSubgraph
<1> DEFINE f == Front(at)
           l == Last(at)
           g == GraphAt(f)
<1>2. at \in Seq(All) /\ l # Start /\ l \in NodesOf[g] /\ g \in Graphs
  BY <1>1 DEF WhereInv, Calls, IsMarker
<1>3. lastNode = at
  BY <1>1, <1>2 DEF FollowInv, FollowAt
<1>4. at \in Paths /\ at # None /\ at # <<>> /\ ~IsMarker(at)
  <2>1. at \in Paths
    BY <1>2, PathsAre DEF WhereInv
  <2> QED BY <1>1, <2>1, NoneAssumption DEF Paths, WhereInv, Calls
<1>5. /\ topology.nodes' = {n \in Seq(All) : /\ n # <<>> /\ n \notin Open(subgraphs)'
                                             /\ Front(n) \in Open(subgraphs)' /\ Last(n) \in Merged(GraphAt(Front(n)))'.nodes}
      /\ Containers(topology)' = Open(subgraphs)' \ {<<>>}
  BY DEF TopologyInv, Flat
<1>6. l \in Merged(g)'.nodes
  <2> HIDE DEF g
  <2>1. l \in Merged(g).nodes
    BY <1>2, MergedIs DEF TopologyInv
  <2>2. Merged(g)' = Merged(g)
    BY <1>1 DEF Merged, Edges, Drawn, Sinks, g
  <2>3. l' = l
    BY <1>1
  <2> HIDE DEF l
  <2> QED BY <2>1, <2>2, <2>3
<1>7. f \in Open(subgraphs)' => at \in topology.nodes' \/ at \in Containers(topology)'
  BY <1>1, <1>2, <1>5, <1>6
<1>8. at \in topology.nodes' => at \notin Containers(topology)'
  BY <1>5
<1>9. at \notin Containers(topology)' => PointOf(at, done)' = at
  BY <1>1 DEF PointOf
<1>10. SourceOf(lastNode)' = at
  BY <1>1, <1>3, <1>4 DEF SourceOf
<1>11. at \in topology.nodes' => Leads(SourceOf(lastNode), PointOf(at, done))'
  <2> SUFFICES ASSUME at \in topology.nodes' PROVE Leads(SourceOf(lastNode), PointOf(at, done))'
    OBVIOUS
  <2>1. SourceOf(lastNode)' = at /\ PointOf(at, done)' = at
    BY <1>8, <1>9, <1>10
  <2> QED BY <2>1 DEF Leads
<1> HIDE DEF f, l, g
<1> QED BY <1>1, <1>3, <1>4, <1>7, <1>10, <1>11 DEF FollowInv, FollowAt, f

(* EndInvoke: the graph is nowhere.                                        *)
LEMMA FollowEnd ==
    ASSUME FollowInv, EndInvoke
    PROVE  FollowInv'
<1>1. at' = <<>> /\ lastNode' = lastNode
  BY DEF EndInvoke
<1> QED BY <1>1 DEF FollowInv, FollowAt

\* What there is to know of the handler's part
HandlerInv == TopologyInv /\ WhereInv /\ FollowInv

(* Nothing runs, and the root graph's own picture is shown.                 *)
LEMMA HandlerInitially == Init => HandlerInv
<1> SUFFICES ASSUME Init PROVE HandlerInv
  OBVIOUS
<1>1. at = <<>> /\ done = FALSE /\ lastNode = None /\ away = FALSE
  BY DEF Init
<1>2. WhereInv
  <2>1. <<>> \in Seq(All) /\ Len(<<>>) <= MaxDepth
    BY EmptySeq, NumbersAssumption
  <2> QED BY <1>1, <2>1 DEF WhereInv
<1>3. FollowInv
  BY <1>1 DEF FollowInv, FollowAt
<1> QED BY <1>2, <1>3, TopologyInitially DEF HandlerInv

(* No step breaks what is known of the handler: FollowInv has a lemma for   *)
(* every action above.                                                     *)
LEMMA HandlerNext == HandlerInv /\ [Next]_vars => HandlerInv'
<1> SUFFICES ASSUME HandlerInv, [Next]_vars PROVE HandlerInv'
  OBVIOUS
<1>1. TopologyInv /\ WhereInv /\ FollowInv /\ TopologyInv' /\ WhereInv'
  BY TopologyNext, WhereNext DEF HandlerInv, TopologyInv
<1>2. FollowInv'
  <2>1. CASE StartInvoke
    BY <1>1, <2>1, FollowStart
  <2>2. ASSUME NEW name \in Names, EnterNode(name) PROVE FollowInv'
    BY <1>1, <2>2, FollowEnter
  <2>3. CASE EnterGraph
    BY <1>1, <2>3, FollowInto
  <2>4. CASE LeaveGraph
    BY <1>1, <2>4, FollowOut
  <2>5. CASE IncludeSubgraph
    BY <1>1, <2>5, FollowReplaced
  <2>6. CASE EndInvoke
    BY <1>1, <2>6, FollowEnd
  <2>8. CASE Skip
    BY <1>1, <2>8, FollowSkip
  <2>7. CASE UNCHANGED vars
    <3>1. UNCHANGED <<graph, subgraphs, topology>> /\ lastNode' = lastNode /\ at' = at /\ done' = done /\ away' = away
      BY <2>7 DEF vars, shapeVars, hopVars
    <3>2. FollowAt(lastNode', at', done', away')
      BY <1>1, <3>1 DEF FollowInv
    <3> QED BY <3>1, <3>2, FollowMoves
  <2> QED BY <2>1, <2>2, <2>3, <2>4, <2>5, <2>6, <2>7, <2>8 DEF Next, Names
<1> QED BY <1>1, <1>2 DEF HandlerInv

-----------------------------------------------------------------------------
(* The walks of _transition.                                               *)

Onward(w) == (Successors(topology.edges, Last(w)) \cap Markers(topology)) \ Range(w)
Longer(walks) == UNION {{Append(w, n) : n \in Onward(w)} : w \in walks}
MostMarkers == Cardinality(Markers(topology))
WalkFrom(f, source) ==
    f = [k \in 0..MostMarkers |-> IF k = 0 THEN {<<source>>} ELSE Longer(f[k - 1])]
Arriving(f, target, k) == {w \in f[k] : target \in Successors(topology.edges, Last(w))}
Lengths(f, target) == {k \in 0..MostMarkers : Arriving(f, target, k) # {}}

(* The recursive function in Walks has a value.                            *)
LEMMA WalksExist ==
    ASSUME MostMarkers \in Nat, NEW source, NEW target
    PROVE  \E f : /\ WalkFrom(f, source)
                  /\ Walks(source, target) =
                       IF Lengths(f, target) = {} THEN {}
                       ELSE {Append(w, target) : w \in Arriving(f, target, Min(Lengths(f, target)))}
<1> DEFINE N == MostMarkers
           Q(f, m) == f = [n \in 0..m |-> IF n = 0 THEN {<<source>>} ELSE Longer(f[n - 1])]
           T == {m \in Nat : \E f : Q(f, m)}
<1>1. 0 \in T
  <2>1. Q([n \in 0..0 |-> {<<source>>}], 0)
    OBVIOUS
  <2> QED BY <2>1
<1>2. ASSUME NEW m \in 1..N, m - 1 \in T PROVE m \in T
  <2>1. PICK f : Q(f, m - 1)
    BY <1>2
  <2> DEFINE g == [n \in 0..m |-> IF n = m THEN Longer(f[m - 1]) ELSE f[n]]
  <2>2. \A n \in 0..m : g[n] = IF n = 0 THEN {<<source>>} ELSE Longer(g[n - 1])
    <3> SUFFICES ASSUME NEW n \in 0..m PROVE g[n] = IF n = 0 THEN {<<source>>} ELSE Longer(g[n - 1])
      OBVIOUS
    <3>1. CASE n = 0
      BY <2>1, <3>1
    <3>2. CASE n = m
      BY <2>1, <3>2
    <3>3. CASE n \in 1..(m - 1)
      <4>1. n - 1 \in 0..(m - 1) /\ n \in 0..(m - 1) /\ n # 0 /\ n # m /\ n - 1 # m /\ n - 1 \in 0..m
        BY <3>3
      <4>2. f[n] = Longer(f[n - 1])
        BY <2>1, <4>1
      <4> QED BY <4>1, <4>2
    <3> QED BY <3>1, <3>2, <3>3
  <2>3. Q(g, m)
    BY <2>2
  <2>4. m \in Nat
    OBVIOUS
  <2> HIDE DEF g, Q
  <2> QED BY <2>3, <2>4
<1>3. N \in T
  <2> HIDE DEF T
  <2>1. \A i \in 1..N : i - 1 \in T => i \in T
    BY <1>2
  <2>2. N \in Nat /\ N \in 0..N
    OBVIOUS
  <2> HIDE DEF N
  <2>3. \A i \in 0..N : i \in T
    BY <1>1, <2>1, <2>2, UpTo
  <2> QED BY <2>2, <2>3
<1> DEFINE f == CHOOSE g : Q(g, N)
<1>4. Q(f, N)
  <2> HIDE DEF Q
  <2> QED BY <1>3
<1>5. Walks(source, target) =
        IF Lengths(f, target) = {} THEN {}
        ELSE {Append(w, target) : w \in Arriving(f, target, Min(Lengths(f, target)))}
  BY DEF Walks, Lengths, Arriving, Longer, Onward, MostMarkers
<1>6. WalkFrom(f, source)
  <2> HIDE DEF f
  <2> QED BY <1>4 DEF WalkFrom
<1> QED BY <1>5, <1>6

(* Edges of the topology and its successors.                               *)
LEMMA SuccessorsAre ==
    TopologyInv => \A n, m : m \in Successors(topology.edges, n) <=> <<n, m>> \in topology.edges
<1> SUFFICES ASSUME TopologyInv, NEW n, NEW m
             PROVE  m \in Successors(topology.edges, n) <=> <<n, m>> \in topology.edges
  OBVIOUS
<1>1. \A e \in topology.edges : e = <<e[1], e[2]>>
  BY EdgesAre
<1> QED BY <1>1 DEF Successors

\* A walk of length k from source: through k different markers
WalkAlong(w, source, k) ==
    /\ w \in Seq({source} \cup Markers(topology)) /\ Len(w) = k + 1 /\ w[1] = source
    /\ \A i \in 2..k + 1 : w[i] \in Markers(topology)
    /\ \A i \in 1..k : <<w[i], w[i + 1]>> \in topology.edges
    /\ IsFiniteSet({w[i] : i \in 2..k + 1}) /\ Cardinality({w[i] : i \in 2..k + 1}) = k

(* What the walks are, and that they begin with shorter ones.               *)
LEMMA WalksAlong ==
    ASSUME TopologyInv, MostMarkers \in Nat, NEW source, NEW f, WalkFrom(f, source)
    PROVE  \A k \in 0..MostMarkers : \A w \in f[k] :
              WalkAlong(w, source, k) /\ \A j \in 1..k + 1 : SubSeq(w, 1, j) \in f[j - 1]
<1> DEFINE S == {source} \cup Markers(topology)
           Fine2(w, k) == WalkAlong(w, source, k) /\ \A j \in 1..k + 1 : SubSeq(w, 1, j) \in f[j - 1]
           T == {k \in Nat : \A w \in f[k] : Fine2(w, k)}
           N == MostMarkers
<1>1. f[0] = {<<source>>} /\ \A k \in 1..N : f[k] = Longer(f[k - 1])
  <2>1. \A k \in 0..N : f[k] = IF k = 0 THEN {<<source>>} ELSE Longer(f[k - 1])
    BY DEF WalkFrom
  <2>2. 0 \in 0..N /\ \A k \in 1..N : k \in 0..N /\ k # 0
    OBVIOUS
  <2> HIDE DEF N
  <2> QED BY <2>1, <2>2
<1>2. 0 \in T
  <2> DEFINE w == Append(<<>>, source)
  <2>1. w = <<source>>
    OBVIOUS
  <2>2. <<>> \in Seq(S) /\ source \in S /\ Len(<<>>) = 0
    BY EmptySeq
  <2> HIDE DEF S
  <2>3. w \in Seq(S) /\ Len(w) = 1 /\ w[1] = source /\ SubSeq(w, 1, 1) = w
    <3>1. w \in Seq(S) /\ Len(w) = Len(<<>>) + 1 /\ w[Len(<<>>) + 1] = source
      BY <2>2, GrowsByOne
    <3> HIDE DEF w
    <3>2. SubSeq(w, 1, Len(w)) = w
      BY <3>1, GrowsByOne, <2>2
    <3> QED BY <2>2, <3>1, <3>2
  <2> HIDE DEF w
  <2>4. \A j \in 1..0 + 1 : j = 1
    OBVIOUS
  <2>5. 2..0 + 1 = {} /\ 1..0 = {} /\ 0 + 1 = 1
    OBVIOUS
  <2>6. {w[i] : i \in 2..0 + 1} = {}
    BY <2>5
  <2>7. WalkAlong(w, source, 0)
    <3>1. IsFiniteSet({w[i] : i \in 2..0 + 1}) /\ Cardinality({w[i] : i \in 2..0 + 1}) = 0
      BY <2>6, FS_EmptySet
    <3>2. /\ \A i \in 2..0 + 1 : w[i] \in Markers(topology)
          /\ \A i \in 1..0 : <<w[i], w[i + 1]>> \in topology.edges
      BY <2>5
    <3>3. w \in Seq(S) /\ Len(w) = 0 + 1 /\ w[1] = source
      BY <2>3, <2>5
    <3> QED BY <3>1, <3>2, <3>3 DEF WalkAlong, S
  <2>8. \A j \in 1..0 + 1 : SubSeq(w, 1, j) \in f[j - 1]
    <3>1. SubSeq(w, 1, 1) \in f[1 - 1]
      <4>1. 1 - 1 = 0
        OBVIOUS
      <4> QED BY <1>1, <2>1, <2>3, <4>1
    <3> QED BY <2>4, <3>1
  <2> QED BY <1>1, <2>1, <2>7, <2>8
<1>3. ASSUME NEW k \in 1..N, k - 1 \in T PROVE k \in T
  <2> SUFFICES ASSUME NEW w \in f[k] PROVE Fine2(w, k)
    OBVIOUS
  <2>0. PICK u \in f[k - 1] : w \in {Append(u, n) : n \in Onward(u)}
    BY <1>1 DEF Longer
  <2>1. PICK n \in Onward(u) : w = Append(u, n)
    BY <2>0
  <2>2. Fine2(u, k - 1)
    BY <1>3
  <2>3. k \in Nat /\ (k - 1) + 1 = k /\ k - 1 \in Nat /\ k + 1 \in Nat /\ k # 0
    OBVIOUS
  <2>4. /\ u \in Seq(S) /\ Len(u) = k /\ u[1] = source
        /\ \A i \in 2..k : u[i] \in Markers(topology)
        /\ \A i \in 1..k - 1 : <<u[i], u[i + 1]>> \in topology.edges
        /\ IsFiniteSet({u[i] : i \in 2..k}) /\ Cardinality({u[i] : i \in 2..k}) = k - 1
        /\ \A j \in 1..k : SubSeq(u, 1, j) \in f[j - 1]
    BY <2>2, <2>3 DEF WalkAlong
  <2>5. n \in Markers(topology) /\ n \in Successors(topology.edges, u[k]) /\ \A i \in 1..k : n # u[i]
    <3>1. Last(u) = u[k]
      BY <2>4 DEF Last
    <3>2. DOMAIN u = 1..k
      BY <2>4, LenProperties
    <3> QED BY <2>1, <3>1, <3>2 DEF Onward, Range
  <2>6. /\ w \in Seq(S) /\ Len(w) = k + 1 /\ w[k + 1] = n
        /\ \A i \in 1..k : w[i] = u[i]
        /\ \A j \in 0..k : SubSeq(w, 1, j) = SubSeq(u, 1, j)
        /\ SubSeq(w, 1, k + 1) = w
    <3>1. n \in S
      BY <2>5
    <3> HIDE DEF S
    <3>2. /\ w \in Seq(S) /\ Len(w) = k + 1 /\ w[k + 1] = n
          /\ \A i \in 1..k : w[i] = u[i]
          /\ \A j \in 0..k : SubSeq(w, 1, j) = SubSeq(u, 1, j)
      BY <2>1, <2>4, <3>1, GrowsByOne
    <3>3. SubSeq(w, 1, Len(w)) = w
      BY <3>1, <3>2, GrowsByOne
    <3> QED BY <3>2, <3>3
  <2>7. w[1] = source /\ \A i \in 2..k + 1 : w[i] \in Markers(topology)
    BY <2>3, <2>4, <2>5, <2>6
  <2>8. \A i \in 1..k : <<w[i], w[i + 1]>> \in topology.edges
    <3> SUFFICES ASSUME NEW i \in 1..k PROVE <<w[i], w[i + 1]>> \in topology.edges
      OBVIOUS
    <3>1. CASE i = k
      <4>1. <<u[k], n>> \in topology.edges
        BY <2>5, SuccessorsAre
      <4> QED BY <2>6, <3>1, <4>1
    <3>2. CASE i \in 1..k - 1
      <4>1. i + 1 \in 1..k
        BY <3>2
      <4> QED BY <2>4, <2>6, <3>2, <4>1
    <3> QED BY <3>1, <3>2
  <2>9. IsFiniteSet({w[i] : i \in 2..k + 1}) /\ Cardinality({w[i] : i \in 2..k + 1}) = k
    <3> DEFINE U == {u[i] : i \in 2..k}
    <3>1. {w[i] : i \in 2..k + 1} = U \cup {n}
      <4>1. 2..k + 1 = (2..k) \cup {k + 1}
        BY <2>3
      <4>2. \A i \in 2..k : w[i] = u[i]
        BY <2>6
      <4> QED BY <4>1, <4>2, <2>6
    <3>2. n \notin U
      <4>1. \A i \in 2..k : i \in 1..k
        OBVIOUS
      <4> QED BY <4>1, <2>5
    <3>3. IsFiniteSet(U) /\ Cardinality(U) = k - 1
      BY <2>4
    <3> HIDE DEF U
    <3>4. IsFiniteSet(U \cup {n}) /\ Cardinality(U \cup {n}) = Cardinality(U) + 1
      BY <3>2, <3>3, FS_AddElement
    <3> QED BY <2>3, <3>1, <3>3, <3>4
  <2>10. \A j \in 1..k + 1 : SubSeq(w, 1, j) \in f[j - 1]
    <3> SUFFICES ASSUME NEW j \in 1..k + 1 PROVE SubSeq(w, 1, j) \in f[j - 1]
      OBVIOUS
    <3>1. CASE j = k + 1
      <4>1. (k + 1) - 1 = k
        OBVIOUS
      <4>2. SubSeq(w, 1, k + 1) \in f[(k + 1) - 1]
        BY <2>6, <4>1
      <4> QED BY <3>1, <4>2
    <3>2. CASE j \in 1..k
      <4>1. j \in 0..k
        BY <3>2
      <4> QED BY <2>4, <2>6, <3>2, <4>1
    <3> QED BY <3>1, <3>2
  <2>11. WalkAlong(w, source, k)
    BY <2>6, <2>7, <2>8, <2>9 DEF WalkAlong
  <2> QED BY <2>10, <2>11
<1>4. N \in Nat
  OBVIOUS
<1> HIDE DEF N, T
<1>5. \A k \in 0..N : k \in T
  BY <1>2, <1>3, <1>4, UpTo
<1> QED BY <1>5 DEF N, T

(* A set of numbers has a least one.                                       *)
LEMMA MinIsIn == \A L : L # {} /\ L \subseteq Nat => Min(L) \in L
<1> SUFFICES ASSUME NEW L, L # {}, L \subseteq Nat PROVE Min(L) \in L
  OBVIOUS
<1>1. PICK m \in L : \A x \in L : <<x, m>> \notin OpToRel(<, Nat)
  BY NatLessThanWellFounded, WFMin
<1>2. \A x \in L : m <= x
  <2> SUFFICES ASSUME NEW x \in L PROVE m <= x
    OBVIOUS
  <2>1. x \in Nat /\ m \in Nat
    OBVIOUS
  <2>2. x < m => <<x, m>> \in Nat \X Nat /\ <<x, m>>[1] < <<x, m>>[2]
    BY <2>1
  <2>3. ~(x < m)
    BY <1>1, <2>2 DEF OpToRel
  <2> QED BY <2>1, <2>3
<1> QED BY <1>2 DEF Min

\* From source to target, through markers only, along edges
PathThrough(w, source, target) ==
    /\ w \in Seq({source, target} \cup Markers(topology)) /\ Len(w) \in Nat /\ Len(w) >= 2
    /\ w[1] = source /\ w[Len(w)] = target
    /\ \A i \in 2..Len(w) - 1 : w[i] \in Markers(topology)
    /\ \A i \in 1..Len(w) - 1 : <<w[i], w[i + 1]>> \in topology.edges

(* Every walk _transition finds is one.                                    *)
LEMMA WalksFollow ==
    ASSUME TopologyInv, NEW source, NEW target
    PROVE  \A w \in Walks(source, target) : PathThrough(w, source, target)
<1>1. MostMarkers \in Nat
  BY FinitelyMany, FS_CardinalityType DEF MostMarkers
<1>2. PICK f : /\ WalkFrom(f, source)
               /\ Walks(source, target) =
                    IF Lengths(f, target) = {} THEN {}
                    ELSE {Append(w, target) : w \in Arriving(f, target, Min(Lengths(f, target)))}
  BY <1>1, WalksExist
<1>3. SUFFICES ASSUME NEW w \in Walks(source, target) PROVE PathThrough(w, source, target)
  OBVIOUS
<1> DEFINE L == Lengths(f, target)
           k == Min(L)
<1>4. k \in L
  <2>1. L # {} /\ L \subseteq Nat
    BY <1>1, <1>2 DEF Lengths
  <2> HIDE DEF L
  <2> QED BY <2>1, MinIsIn
<1>5. PICK u \in Arriving(f, target, k) : w = Append(u, target)
  BY <1>2, <1>4
<1> HIDE DEF L, k
<1>6. k \in 0..MostMarkers /\ u \in f[k] /\ target \in Successors(topology.edges, Last(u))
  BY <1>4, <1>5 DEF L, Lengths, Arriving
<1>7. WalkAlong(u, source, k)
  BY <1>1, <1>2, <1>6, WalksAlong
<1> DEFINE S == {source, target} \cup Markers(topology)
<1>8. /\ u \in Seq(S) /\ Len(u) = k + 1 /\ u[1] = source /\ k \in Nat
      /\ \A i \in 2..k + 1 : u[i] \in Markers(topology)
      /\ \A i \in 1..k : <<u[i], u[i + 1]>> \in topology.edges
  <2>1. {source} \cup Markers(topology) \subseteq S
    OBVIOUS
  <2>2. u \in Seq({source} \cup Markers(topology))
    BY <1>7 DEF WalkAlong
  <2>3. u \in Seq(S)
    <3> HIDE DEF S
    <3> QED BY <2>1, <2>2, SeqMonotonic
  <2>4. k \in Nat
    BY <1>1, <1>6
  <2> HIDE DEF S
  <2> QED BY <1>7, <2>3, <2>4 DEF WalkAlong
<1>9. <<u[k + 1], target>> \in topology.edges
  <2>1. Last(u) = u[k + 1]
    BY <1>8 DEF Last
  <2> QED BY <1>6, <2>1, SuccessorsAre
<1>10. /\ w \in Seq(S) /\ Len(w) = k + 2 /\ w[k + 2] = target /\ \A i \in 1..k + 1 : w[i] = u[i]
  <2>1. target \in S
    OBVIOUS
  <2> HIDE DEF S
  <2>2. w \in Seq(S) /\ Len(w) = Len(u) + 1 /\ w[Len(u) + 1] = target /\ \A i \in 1..Len(u) : w[i] = u[i]
    BY <1>5, <1>8, <2>1, GrowsByOne
  <2>3. Len(u) + 1 = k + 2
    BY <1>8
  <2> QED BY <1>8, <2>2, <2>3
<1>11. Len(w) \in Nat /\ Len(w) >= 2 /\ Len(w) - 1 = k + 1
  BY <1>8, <1>10
<1>12. w[1] = source /\ \A i \in 2..k + 1 : w[i] \in Markers(topology)
  <2>1. 1 \in 1..k + 1 /\ \A i \in 2..k + 1 : i \in 1..k + 1
    BY <1>8
  <2> QED BY <1>8, <1>10, <2>1
<1>13. \A i \in 1..k + 1 : <<w[i], w[i + 1]>> \in topology.edges
  <2> SUFFICES ASSUME NEW i \in 1..k + 1 PROVE <<w[i], w[i + 1]>> \in topology.edges
    OBVIOUS
  <2>1. CASE i = k + 1
    <3>1. (k + 1) + 1 = k + 2 /\ k + 1 \in 1..k + 1
      BY <1>8
    <3>2. <<w[k + 1], w[(k + 1) + 1]>> \in topology.edges
      BY <1>9, <1>10, <3>1
    <3> QED BY <2>1, <3>2
  <2>2. CASE i \in 1..k
    <3>1. i \in 1..k + 1 /\ i + 1 \in 1..k + 1
      BY <1>8, <2>2
    <3>2. w[i] = u[i] /\ w[i + 1] = u[i + 1]
      BY <1>10, <3>1
    <3> QED BY <1>8, <2>2, <3>2
  <2> QED BY <1>8, <2>1, <2>2
<1> HIDE DEF S
<1> QED BY <1>10, <1>11, <1>12, <1>13 DEF PathThrough, S

(* And it finds one whenever the graph went that way.                      *)
LEMMA WalksFound ==
    ASSUME TopologyInv, NEW source, NEW b, NEW target,
           Leads(source, b), <<b, target>> \in topology.edges
    PROVE  Walks(source, target) # {}
<1>1. IsFiniteSet(Markers(topology)) /\ MostMarkers \in Nat
  BY FinitelyMany, FS_CardinalityType DEF MostMarkers
<1>2. PICK f : /\ WalkFrom(f, source)
               /\ Walks(source, target) =
                    IF Lengths(f, target) = {} THEN {}
                    ELSE {Append(w, target) : w \in Arriving(f, target, Min(Lengths(f, target)))}
  BY <1>1, WalksExist
<1> DEFINE N == MostMarkers
           M == Markers(topology)
           X == {Last(w) : w \in UNION {f[k] : k \in 0..N}}
<1>3. f[0] = {<<source>>} /\ \A k \in 1..N : f[k] = Longer(f[k - 1])
  <2>1. \A k \in 0..N : f[k] = IF k = 0 THEN {<<source>>} ELSE Longer(f[k - 1])
    BY <1>2 DEF WalkFrom
  <2>2. 0 \in 0..N /\ \A k \in 1..N : k \in 0..N /\ k # 0
    BY <1>1
  <2> HIDE DEF N
  <2> QED BY <2>1, <2>2
<1>4. source \in X
  <2>1. 0 \in 0..N /\ <<source>> \in f[0]
    BY <1>1, <1>3
  <2>2. Last(<<source>>) = source
    BY DEF Last
  <2> HIDE DEF N
  <2> QED BY <2>1, <2>2
<1>5. ASSUME NEW n \in X, NEW m \in M, <<n, m>> \in topology.edges PROVE m \in X
  <2>1. PICK k \in 0..N : \E w \in f[k] : n = Last(w)
    <3> HIDE DEF N
    <3> QED OBVIOUS
  <2>2. PICK w \in f[k] : n = Last(w)
    BY <2>1
  <2>3. WalkAlong(w, source, k) /\ \A j \in 1..k + 1 : SubSeq(w, 1, j) \in f[j - 1]
    BY <1>1, <1>2, WalksAlong
  <2>4. /\ w \in Seq({source} \cup M) /\ Len(w) = k + 1 /\ k \in Nat /\ DOMAIN w = 1..k + 1
    BY <1>1, <2>3, LenProperties DEF WalkAlong
  <2>5. CASE m \in Range(w)
    <3>1. PICK j \in 1..k + 1 : m = w[j]
      BY <2>4, <2>5 DEF Range
    <3>2. SubSeq(w, 1, j) \in f[j - 1] /\ j - 1 \in 0..N
      BY <1>1, <2>3, <3>1
    <3>3. Last(SubSeq(w, 1, j)) = m
      <4>1. j \in 0..Len(w) /\ j \in 1..j
        BY <2>4
      <4> DEFINE S == {source} \cup M
      <4>2. w \in Seq(S)
        BY <2>4
      <4> HIDE DEF S
      <4>3. Len(SubSeq(w, 1, j)) = j /\ SubSeq(w, 1, j)[j] = w[j]
        BY <4>1, <4>2, PrefixType
      <4> QED BY <3>1, <4>3 DEF Last
    <3> HIDE DEF N
    <3> QED BY <3>2, <3>3
  <2>6. CASE m \notin Range(w)
    <3> DEFINE v == Append(w, m)
               U == {w[i] : i \in 2..k + 1}
    <3>1. m \in Onward(w)
      BY <1>5, <2>2, <2>6, SuccessorsAre DEF Onward
    <3>2. k + 1 <= N
      <4>1. IsFiniteSet(U) /\ Cardinality(U) = k /\ U \subseteq M
        BY <2>3 DEF WalkAlong
      <4>2. m \notin U
        <5>1. \A i \in 2..k + 1 : i \in 1..k + 1
          OBVIOUS
        <5> QED BY <2>4, <2>6, <5>1 DEF Range
      <4>3. U \cup {m} \in SUBSET M
        BY <4>1
      <4> HIDE DEF U, M
      <4>4. Cardinality(U \cup {m}) = k + 1
        BY <4>1, <4>2, FS_AddElement
      <4>5. Cardinality(U \cup {m}) <= Cardinality(M)
        BY <1>1, <4>3, FS_Subset DEF M
      <4> QED BY <4>4, <4>5 DEF MostMarkers, M
    <3>3. k + 1 \in 1..N /\ (k + 1) - 1 = k /\ k + 1 \in 0..N
      BY <1>1, <2>4, <3>2
    <3>4. v \in f[k + 1]
      <4>1. f[k + 1] = Longer(f[k])
        BY <1>3, <3>3
      <4> QED BY <2>2, <3>1, <4>1 DEF Longer
    <3>5. Last(v) = m
      <4> DEFINE S == {source} \cup M
      <4>1. w \in Seq(S) /\ m \in S
        BY <2>4
      <4> HIDE DEF S
      <4> QED BY <4>1, GrowsByOne
    <3> HIDE DEF N, v
    <3> QED BY <3>3, <3>4, <3>5
  <2> QED BY <2>5, <2>6
<1>6. b \in X
  <2>1. \A n \in X : Successors(topology.edges, n) \cap Markers(topology) \subseteq X
    <3> HIDE DEF X
    <3> QED BY <1>5, SuccessorsAre
  <2> HIDE DEF X
  <2> QED BY <1>4, <2>1 DEF Leads
<1>7. PICK k \in 0..N : \E w \in f[k] : b = Last(w)
  <2> HIDE DEF N
  <2> QED BY <1>6
<1>8. PICK w \in f[k] : b = Last(w)
  BY <1>7
<1>9. w \in Arriving(f, target, k)
  BY <1>8, SuccessorsAre DEF Arriving
<1>10. k \in Lengths(f, target)
  BY <1>7, <1>9 DEF Lengths
<1> DEFINE L == Lengths(f, target)
<1>11. Min(L) \in L
  <2>1. L # {} /\ L \subseteq Nat
    BY <1>1, <1>10 DEF Lengths
  <2> HIDE DEF L
  <2> QED BY <2>1, MinIsIn
<1>12. Arriving(f, target, Min(L)) # {}
  BY <1>11 DEF Lengths
<1> HIDE DEF L
<1> QED BY <1>2, <1>10, <1>12 DEF L

-----------------------------------------------------------------------------
(* The edges _transition makes up.                                         *)

Edging(w) == [i \in 1..Len(w) - 1 |-> <<w[i], w[i + 1]>>]

\* On along the topology: the graph went from a drawn node to a drawn node
Follows(edges, source, path) ==
    \E w : PathThrough(w, source, path) /\ edges = Edging(w)

\* On by an edge of its own
Jumps(edges, source, path) ==
    edges = IF source = path THEN <<>> ELSE <<<<source, path>>>>

(* The edges of a transition are a walk, or there was nothing to walk: no   *)
(* edges lead there, the part of the graph that runs is not drawn, or       *)
(* _last_node no longer is.                                                *)
LEMMA TransitionIs ==
    ASSUME HandlerInv, at # <<>>, done, NEW name \in NodesOf[GraphAt(Front(at))] \cup {End},
           Append(Front(at), name) \notin Containers(topology),
           NEW edges \in Transition(LastOrStart, Append(Front(at), name))
    PROVE  LET path == Append(Front(at), name)
           IN  /\ LastOrStart = SourceOf(lastNode) /\ LastOrStart \in Paths
               /\ path \in Paths /\ path # <<>> /\ path # <<Start>> /\ Front(path) = Front(at) /\ Last(path) = name
               /\ path \in topology.nodes => Front(at) \in Open(subgraphs)
               /\ Front(at) \in Open(subgraphs) /\ name # End => path \in topology.nodes
               /\ \/ Follows(edges, LastOrStart, path) /\ Front(at) \in Open(subgraphs)
                     /\ LastOrStart \notin Open(subgraphs)
                  \/ /\ Jumps(edges, LastOrStart, path)
                     /\ Front(at) \in Open(subgraphs) /\ LastOrStart \in topology.nodes => Strays(name)
<1> DEFINE O == Open(subgraphs)
           C == Containers(topology)
           f == Front(at)
           path == Append(f, name)
           src == LastOrStart
<1>1. TopologyInv /\ WhereInv /\ FollowInv
  BY DEF HandlerInv
<1>2. /\ name \in All /\ f \in Seq(All) /\ at = Append(f, Last(at))
      /\ name \in NodesOf[GraphAt(f)] \cup {End} /\ NodesOf[GraphAt(f)] \subseteq All \ {Start, End}
  BY <1>1, HereAre, MarkersInAll
<1>3. path \in Seq(All) /\ path # <<>> /\ Front(path) = f /\ Last(path) = name /\ Len(path) = Len(f) + 1
  <2> HIDE DEF f
  <2> QED BY <1>2, GrowsByOne
<1>4. path \in Paths
  <2>1. Len(at) = Len(f) + 1 /\ Len(at) <= MaxDepth
    BY <1>1, FrontAndLast DEF WhereInv
  <2> HIDE DEF path, f
  <2> QED BY <1>3, <2>1, PathsAre
<1>5. path # <<Start>>
  <2>1. name # Start
    BY <1>2, GraphsAssumption
  <2>2. Last(<<Start>>) = Start
    BY DEF Last
  <2> HIDE DEF path
  <2> QED BY <1>3, <2>1, <2>2
<1>6. src = SourceOf(lastNode) /\ src \in Paths
  <2>1. src = SourceOf(lastNode)
    BY DEF LastOrStart, SourceOf
  <2>2. <<Start>> \in Paths
    <3>1. <<Start>> \in Seq(All) /\ Len(<<Start>>) = 1
      BY MarkersInAll
    <3>2. 1 <= MaxDepth
      <4>1. Cardinality(Graphs) \in Nat /\ Cardinality(Graphs) # 0
        BY GraphsAssumption, FS_CardinalityType, FS_EmptySet
      <4> QED BY <4>1, NumbersAssumption
    <3> QED BY <3>1, <3>2, PathsAre
  <2>3. lastNode # None => lastNode \in Paths
    BY <1>1 DEF FollowInv, FollowAt
  <2> QED BY <2>1, <2>2, <2>3 DEF SourceOf
<1>7. (path \in topology.nodes => f \in O) /\ (f \in O /\ name # End => path \in topology.nodes)
  <2>1. path \in topology.nodes => f \in O
    <3> HIDE DEF path, f
    <3> QED BY <1>1, <1>3, NodesAre
  <2>2. f \in O /\ name # End => path \in topology.nodes
    BY <1>1, <1>2, NodeDrawn
  <2> QED BY <2>1, <2>2
<1>8. CASE Walks(src, path) # {}
  <2>1. PICK w \in Walks(src, path) : edges = Edging(w)
    <3> HIDE DEF path, src
    <3> QED BY <1>8 DEF Transition, Edging, path, src
  <2>2. PathThrough(w, src, path)
    <3> HIDE DEF path, src
    <3> QED BY <1>1, WalksFollow
  <2> HIDE DEF path, src
  <2>3. <<w[1], w[2]>> \in topology.edges /\ w[1] = src
    <3>1. 1 \in 1..Len(w) - 1
      BY <2>2 DEF PathThrough
    <3> QED BY <2>2, <3>1 DEF PathThrough
  <2>4. <<w[Len(w) - 1], w[Len(w)]>> \in topology.edges /\ w[Len(w)] = path
    <3>1. Len(w) - 1 \in 1..Len(w) - 1 /\ (Len(w) - 1) + 1 = Len(w)
      BY <2>2 DEF PathThrough
    <3> QED BY <2>2, <3>1 DEF PathThrough
  <2>5. src \notin O
    <3> DEFINE e == <<w[1], w[2]>>
    <3>1. e \in topology.edges /\ e[1] = src
      BY <2>3
    <3> HIDE DEF e
    <3> QED BY <1>1, <3>1, EdgesAre
  <2>6. f \in O
    <3> DEFINE e == <<w[Len(w) - 1], w[Len(w)]>>
    <3>1. e \in topology.edges /\ e[2] = path
      BY <2>4
    <3> HIDE DEF e
    <3> QED BY <1>1, <1>3, <3>1, EdgesAre
  <2>7. Follows(edges, src, path)
    BY <2>1, <2>2 DEF Follows
  <2>8. Follows(edges, src, path) /\ f \in O /\ src \notin O
    BY <2>5, <2>6, <2>7
  <2> HIDE DEF O, f
  <2> QED BY <1>3, <1>4, <1>5, <1>6, <1>7, <2>8 DEF path, src, O, f
<1>9. CASE Walks(src, path) = {}
  <2>1. Jumps(edges, src, path)
    <3> HIDE DEF path, src
    <3> QED BY <1>9 DEF Transition, Jumps, path, src
  <2>2. ASSUME f \in O, src \in topology.nodes, ~Strays(name) PROVE FALSE
    <3>0. ~away /\ name \in NextNames
      BY <2>2 DEF Strays
    <3>1. Leads(src, PointOf(at, TRUE))
      <4>1. PointOf(at, done) = PointOf(at, TRUE)
        BY DEF PointOf
      <4> HIDE DEF src
      <4> QED BY <1>1, <1>6, <2>2, <3>0, <4>1 DEF FollowInv, FollowAt, f, O
    <3>2. <<PointOf(at, TRUE), path>> \in topology.edges
      BY <1>1, <2>2, <3>0, PointNext
    <3> HIDE DEF src, path
    <3>3. Walks(src, path) # {}
      BY <1>1, <3>1, <3>2, WalksFound
    <3> QED BY <1>9, <3>3
  <2> HIDE DEF path, src, f, O
  <2> QED BY <1>3, <1>4, <1>5, <1>6, <1>7, <2>1, <2>2 DEF path, src, O, f
<1> QED BY <1>8, <1>9

(* Such edges are edges of the topology, but for those between nodes that   *)
(* are not both in it, and the hop along which no edges lead.               *)
LEMMA EdgesFit ==
    ASSUME HandlerInv, at # <<>>, done, NEW name \in NodesOf[GraphAt(Front(at))] \cup {End},
           Append(Front(at), name) \notin Containers(topology),
           NEW edges \in Transition(LastOrStart, Append(Front(at), name))
    PROVE  /\ edges \in Seq(Paths \X Paths)
           /\ \A i \in DOMAIN edges :
                 \/ edges[i] \in topology.edges
                 \/ ~(ToSet(edges[i]) \subseteq topology.nodes)
                 \/ edges = <<Jump(name, Append(Front(at), name))>>
<1> DEFINE O == Open(subgraphs)
           f == Front(at)
           path == Append(f, name)
           src == LastOrStart
<1>1. /\ src \in Paths /\ path \in Paths
      /\ path \in topology.nodes => f \in O
      /\ \/ Follows(edges, src, path)
         \/ /\ Jumps(edges, src, path)
            /\ f \in O /\ src \in topology.nodes => Jump(name, path) = <<src, path>>
  <2>1. Strays(name) => Jump(name, path) = <<src, path>>
    BY DEF Jump, Hop
  <2> QED BY <2>1, TransitionIs
<1> HIDE DEF path, f, src
<1>2. CASE Follows(edges, src, path)
  <2>1. PICK w : PathThrough(w, src, path) /\ edges = Edging(w)
    BY <1>2 DEF Follows
  <2> DEFINE n == Len(w) - 1
  <2>2. n \in Nat /\ DOMAIN edges = 1..n /\ \A i \in 1..n : edges[i] = <<w[i], w[i + 1]>> /\ <<w[i], w[i + 1]>> \in topology.edges
    BY <2>1 DEF PathThrough, Edging
  <2>3. \A e \in topology.edges : e \in Paths \X Paths
    BY EdgesAre DEF HandlerInv
  <2> HIDE DEF n
  <2>4. edges \in [1..n -> Paths \X Paths]
    <3>1. edges = [i \in 1..n |-> <<w[i], w[i + 1]>>]
      BY <2>1 DEF Edging, n
    <3> QED BY <2>2, <2>3, <3>1
  <2>5. edges \in Seq(Paths \X Paths)
    BY <2>2, <2>4, SeqDef
  <2> QED BY <2>2, <2>5
<1>3. CASE Jumps(edges, src, path) /\ (f \in O /\ src \in topology.nodes => Jump(name, path) = <<src, path>>)
  <2>1. CASE src = path
    <3>1. edges = <<>>
      BY <1>3, <2>1 DEF Jumps
    <3> QED BY <3>1
  <2>2. CASE src # path
    <3>1. edges = <<<<src, path>>>>
      BY <1>3, <2>2 DEF Jumps
    <3>2. <<src, path>> \in Paths \X Paths
      BY <1>1
    <3>3. edges \in Seq(Paths \X Paths) /\ DOMAIN edges = {1} /\ edges[1] = <<src, path>>
      BY <3>1, <3>2
    <3>4. ToSet(<<src, path>>) = {src, path}
      BY DEF ToSet
    <3>5. {src, path} \subseteq topology.nodes => edges = <<Jump(name, path)>>
      BY <1>1, <1>3, <3>1
    <3> QED BY <3>3, <3>4, <3>5 DEF path, f
  <2> QED BY <2>1, <2>2
<1> QED BY <1>1, <1>2, <1>3

\* What TypeOK and EmittedEdgesExist say of the last callback
EmittedInv == emitted \in Seq(Paths \X Paths) /\ EmittedEdgesExist

(* Before the first callback nothing was emitted.                          *)
LEMMA EmittedInitially == Init => EmittedInv
BY DEF Init, EmittedInv, EmittedEdgesExist

(* The invoke ends with a step to End.                                     *)
LEMMA EndingIs ==
    ASSUME HandlerInv, EndInvoke
    PROVE  at # <<>> /\ Front(at) = <<>> /\ <<End>> = Append(Front(at), End) /\ <<End>> \notin Containers(topology)
<1>1. Len(at) = 1 /\ at \in Seq(All)
  BY DEF EndInvoke, HandlerInv, WhereInv
<1>2. at # <<>>
  BY <1>1
<1>3. Front(at) \in Seq(All) /\ Len(at) = Len(Front(at)) + 1 /\ Len(Front(at)) \in Nat
  BY <1>1, <1>2, FrontAndLast, LenProperties
<1>4. Front(at) = <<>>
  <2>1. Len(Front(at)) = 0
    BY <1>1, <1>3
  <2> QED BY <1>3, <2>1, EmptySeq
<1>5. <<End>> = Append(<<>>, End)
  OBVIOUS
<1>6. Last(<<End>>) = End
  BY DEF Last
<1>7. <<End>> \notin Containers(topology)
  BY <1>6, ContainersWork DEF HandlerInv, IsMarker
<1> QED BY <1>2, <1>4, <1>5, <1>7

(* Edges are emitted when a node is entered and when the invoke ends.       *)
LEMMA EmittedNext == HandlerInv /\ EmittedInv /\ [Next]_vars => EmittedInv'
<1> SUFFICES ASSUME HandlerInv, EmittedInv, [Next]_vars PROVE EmittedInv'
  OBVIOUS
<1>1. ASSUME NEW edges, NEW hopped, emitted' = edges, jump' = hopped, topology' = topology,
             edges \in Seq(Paths \X Paths),
             \A i \in DOMAIN edges :
                 \/ edges[i] \in topology.edges
                 \/ ~(ToSet(edges[i]) \subseteq topology.nodes)
                 \/ edges = <<hopped>>
      PROVE  EmittedInv'
  BY <1>1 DEF EmittedInv, EmittedEdgesExist
<1>2. CASE emitted' = <<>>
  BY <1>2 DEF EmittedInv, EmittedEdgesExist
<1>3. CASE UNCHANGED <<emitted, jump, topology>>
  BY <1>3 DEF EmittedInv, EmittedEdgesExist
<1>4. ASSUME NEW name \in Names, EnterNode(name) PROVE EmittedInv'
  <2> DEFINE path == Append(Front(at), name)
  <2>1. at # <<>> /\ done /\ name \in NodesOf[GraphAt(Front(at))] /\ topology' = topology
    BY <1>4 DEF EnterNode, shapeVars
  <2>2. CASE path \in Containers(topology)
    <3>1. emitted' = <<>>
      BY <1>4, <2>2 DEF EnterNode, Silent
    <3> QED BY <1>2, <3>1
  <2>3. CASE path \notin Containers(topology)
    <3>1. PICK edges \in Transition(LastOrStart, path) : emitted' = edges
      BY <1>4, <2>3 DEF EnterNode, Emit
    <3>2. jump' = Jump(name, path)
      BY <1>4, <2>3 DEF EnterNode
    <3> QED BY <3>2, <1>1, <2>1, <2>3, <3>1, EdgesFit
  <2> QED BY <2>2, <2>3
<1>5. CASE EndInvoke
  <2>1. done /\ jump' = Jump(End, <<End>>) /\ topology' = topology
    BY <1>5 DEF EndInvoke, shapeVars
  <2>2. at # <<>> /\ <<End>> = Append(Front(at), End) /\ <<End>> \notin Containers(topology)
    BY <1>5, EndingIs
  <2>3. PICK edges \in Transition(LastOrStart, <<End>>) : emitted' = edges
    BY <1>5 DEF EndInvoke, Emit
  <2>4. edges \in Transition(LastOrStart, Append(Front(at), End)) /\ Append(Front(at), End) \notin Containers(topology)
    BY <2>2, <2>3
  <2> QED BY <1>1, <2>1, <2>2, <2>3, <2>4, EdgesFit
<1>6. CASE StartInvoke \/ EnterGraph \/ LeaveGraph \/ Skip \/ IncludeSubgraph
  <2>1. emitted' = <<>>
    BY <1>6 DEF StartInvoke, EnterGraph, LeaveGraph, Skip, IncludeSubgraph, Silent
  <2> QED BY <1>2, <2>1
<1>7. CASE UNCHANGED vars
  BY <1>3, <1>7 DEF vars, shapeVars
<1> QED BY <1>4, <1>5, <1>6, <1>7 DEF Next, Names

(* So what was emitted is right whenever the program looks.                 *)
LEMMA EmittedInvariant == Spec => [](HandlerInv /\ EmittedInv)
<1>1. Init => HandlerInv /\ EmittedInv
  BY HandlerInitially, EmittedInitially
<1>2. HandlerInv /\ EmittedInv /\ [Next]_vars => (HandlerInv /\ EmittedInv)'
  BY HandlerNext, EmittedNext
<1> QED BY <1>1, <1>2, PTL DEF Spec

(* ADR-0008's promise: an edge event between two nodes that the topology    *)
(* has is one of its edges, whichever graphs were discovered before, or the *)
(* hop itself when no edges lead along it.                                 *)
THEOREM EmittedCorrect == Spec => []EmittedEdgesExist
BY EmittedInvariant, PTL DEF EmittedInv

-----------------------------------------------------------------------------
(* The fold in Joined: what the page draws across the markers.              *)

Across(edges, m) == edges \cup (Predecessors(edges, m) \X Successors(edges, m))
Folds2(it, edges, D) ==
    it = [s \in D |-> IF s = {} THEN edges ELSE Across(it[s \ {OneOf(s)}], OneOf(s))]

(* The fold is a choice, and Folds2 says of what.                          *)
LEMMA JoinedChosen ==
    \A t : Joined(t) = (CHOOSE it : Folds2(it, t.edges, SUBSET Markers(t)))[Markers(t)] \cap (Work(t) \X Work(t))
BY DEF Joined, FoldSet, MapThenFoldSet, Folds2, Across, OneOf

(* The fold has a value: induction over the number of markers.              *)
LEMMA JoinsExist ==
    ASSUME NEW M, IsFiniteSet(M), NEW edges
    PROVE  \E it : Folds2(it, edges, SUBSET M)
<1> DEFINE D(k) == {s \in SUBSET M : Cardinality(s) < k}
           T == {k \in Nat : \E it : Folds2(it, edges, D(k))}
           N == Cardinality(M) + 1
<1>1. N \in Nat
  BY FS_CardinalityType
<1>2. 0 \in T
  <2>1. D(0) = {}
    <3>1. \A s \in SUBSET M : Cardinality(s) \in Nat
      BY OneLess
    <3> QED BY <3>1
  <2>2. Folds2([s \in {} |-> s], edges, {})
    BY DEF Folds2
  <2> HIDE DEF D
  <2> QED BY <2>1, <2>2
<1>3. ASSUME NEW k \in 1..N, k - 1 \in T PROVE k \in T
  <2>1. PICK f : Folds2(f, edges, D(k - 1))
    BY <1>3
  <2> DEFINE step(h, s) == IF s = {} THEN edges ELSE Across(h[s \ {OneOf(s)}], OneOf(s))
             g == [s \in D(k) |-> IF s \in D(k - 1) THEN f[s] ELSE step(f, s)]
  <2>2. \A s \in D(k - 1) : f[s] = step(f, s)
    <3> HIDE DEF D
    <3> QED BY <2>1 DEF Folds2
  <2>3. \A s \in D(k) : g[s] = step(f, s)
    <3> HIDE DEF D, step
    <3> QED BY <2>2
  <2>4. ASSUME NEW s \in D(k) PROVE step(g, s) = step(f, s)
    <3>1. CASE s = {}
      BY <3>1
    <3>2. CASE s # {}
      <4> DEFINE u == s \ {OneOf(s)}
      <4>1. u \in SUBSET M /\ Cardinality(u) = Cardinality(s) - 1 /\ Cardinality(s) \in Nat
        BY <3>2, OneLess
      <4>2. u \in D(k - 1) /\ u \in D(k)
        <5> HIDE DEF u
        <5> QED BY <4>1, <1>1
      <4>3. g[u] = f[u]
        <5> HIDE DEF u, D, step
        <5> QED BY <4>2
      <4> HIDE DEF g
      <4> QED BY <3>2, <4>3
    <3> QED BY <3>1, <3>2
  <2>5. g = [s \in D(k) |-> step(g, s)]
    <3>1. g = [s \in D(k) |-> g[s]]
      <4> HIDE DEF D, step
      <4> QED OBVIOUS
    <3> HIDE DEF g, step, D
    <3> QED BY <3>1, <2>3, <2>4
  <2>6. Folds2(g, edges, D(k))
    <3> HIDE DEF g, D
    <3> QED BY <2>5 DEF Folds2
  <2>7. k \in Nat
    BY <1>1
  <2> HIDE DEF g, D, N
  <2> QED BY <2>6, <2>7
<1>4. N \in T
  <2> HIDE DEF T
  <2>1. \A i \in 1..N : i - 1 \in T => i \in T
    BY <1>3
  <2>2. N \in 0..N
    BY <1>1
  <2> HIDE DEF N
  <2> QED BY <1>1, <1>2, <2>1, <2>2, UpTo
<1>5. D(N) = SUBSET M
  <2>1. \A s \in SUBSET M : Cardinality(s) \in Nat /\ Cardinality(s) <= Cardinality(M) /\ Cardinality(M) \in Nat
    BY OneLess
  <2> QED BY <2>1
<1> HIDE DEF D, N
<1> QED BY <1>4, <1>5

\* A link for every way across the markers of s
Closed(links, edges, s) ==
    /\ \A e \in links : e = <<e[1], e[2]>>
    /\ edges \subseteq links
    /\ \A m \in s : \A a, b : <<a, m>> \in links /\ <<m, b>> \in links => <<a, b>> \in links

(* One more marker joined across.                                          *)
LEMMA AcrossCloses ==
    ASSUME NEW links, NEW edges, NEW s, NEW x \in s, Closed(links, edges, s \ {x})
    PROVE  Closed(Across(links, x), edges, s)
<1> DEFINE F == Across(links, x)
<1>1. \A e \in links : e = <<e[1], e[2]>>
  BY DEF Closed
<1>2. \A a : (a \in Predecessors(links, x) <=> <<a, x>> \in links) /\ (a \in Successors(links, x) <=> <<x, a>> \in links)
  BY <1>1 DEF Predecessors, Successors
<1>3. \A e \in F : e = <<e[1], e[2]>>
  BY <1>1 DEF Across
<1>4. \A a, b : <<a, b>> \in F <=> <<a, b>> \in links \/ (<<a, x>> \in links /\ <<x, b>> \in links)
  BY <1>2 DEF Across
<1>5. edges \subseteq F
  BY DEF Closed, Across
<1> HIDE DEF F
<1>6. \A m \in s \ {x} : \A a, b : <<a, m>> \in links /\ <<m, b>> \in links => <<a, b>> \in links
  BY DEF Closed
<1>7. ASSUME NEW m \in s, NEW a, NEW b, <<a, m>> \in F, <<m, b>> \in F PROVE <<a, b>> \in F
  <2>1. CASE m = x
    <3>1. <<a, x>> \in links /\ <<x, b>> \in links
      BY <1>4, <1>7, <2>1
    <3> QED BY <1>4, <3>1
  <2>2. CASE m # x
    <3>1. m \in s \ {x}
      BY <2>2
    <3>2. <<a, m>> \in links \/ (<<a, x>> \in links /\ <<x, m>> \in links)
      BY <1>4, <1>7
    <3>3. <<m, b>> \in links \/ (<<m, x>> \in links /\ <<x, b>> \in links)
      BY <1>4, <1>7
    <3>4. CASE <<a, m>> \in links /\ <<m, b>> \in links
      BY <1>4, <1>6, <3>1, <3>4
    <3>5. CASE <<a, m>> \in links /\ <<m, x>> \in links /\ <<x, b>> \in links
      BY <1>4, <1>6, <3>1, <3>5
    <3>6. CASE <<a, x>> \in links /\ <<x, m>> \in links /\ <<m, b>> \in links
      BY <1>4, <1>6, <3>1, <3>6
    <3>7. CASE <<a, x>> \in links /\ <<x, b>> \in links
      BY <1>4, <3>7
    <3> QED BY <3>2, <3>3, <3>4, <3>5, <3>6, <3>7
  <2> QED BY <2>1, <2>2
<1> QED BY <1>3, <1>5, <1>7 DEF Closed, F

(* So, with all markers joined across, there is a link for every way the    *)
(* graph goes from one work node to another.                               *)
LEMMA JoinedHas ==
    ASSUME TopologyInv, NEW source \in Work(topology), NEW path \in Work(topology), NEW point,
           Leads(source, point), <<point, path>> \in topology.edges
    PROVE  <<source, path>> \in Joined(topology)
<1> DEFINE M == Markers(topology)
           E == topology.edges
           it == CHOOSE f : Folds2(f, E, SUBSET M)
           T == {k \in Nat : \A s \in SUBSET M : Cardinality(s) = k => Closed(it[s], E, s)}
           N == Cardinality(M)
<1>1. IsFiniteSet(M) /\ N \in Nat
  BY FinitelyMany, FS_CardinalityType
<1>2. Folds2(it, E, SUBSET M)
  <2> HIDE DEF M, E
  <2> QED BY <1>1, JoinsExist
<1>3. Joined(topology) = it[M] \cap (Work(topology) \X Work(topology))
  BY JoinedChosen
<1> HIDE DEF it
<1>4. \A s \in SUBSET M : it[s] = IF s = {} THEN E ELSE Across(it[s \ {OneOf(s)}], OneOf(s))
  <2> HIDE DEF M, E
  <2> QED BY <1>2 DEF Folds2
<1>5. 0 \in T
  <2> SUFFICES ASSUME NEW s \in SUBSET M, Cardinality(s) = 0 PROVE Closed(it[s], E, s)
    OBVIOUS
  <2>1. s = {}
    <3> HIDE DEF M
    <3> QED BY <1>1, OneLess
  <2>2. it[s] = E
    BY <1>4, <2>1
  <2>3. \A e \in E : e = <<e[1], e[2]>>
    BY EdgesAre
  <2> QED BY <2>1, <2>2, <2>3 DEF Closed
<1>6. ASSUME NEW k \in 1..N, k - 1 \in T PROVE k \in T
  <2> SUFFICES ASSUME NEW s \in SUBSET M, Cardinality(s) = k PROVE Closed(it[s], E, s)
    BY <1>1
  <2>1. s # {}
    BY FS_EmptySet
  <2> DEFINE x == OneOf(s)
             u == s \ {x}
  <2>2. x \in s /\ u \in SUBSET M /\ Cardinality(u) = k - 1
    <3> HIDE DEF M
    <3> QED BY <1>1, <2>1, OneLess
  <2>3. it[s] = Across(it[u], x)
    BY <1>4, <2>1
  <2>4. Closed(it[u], E, u)
    <3> HIDE DEF u, M, E
    <3> QED BY <1>6, <2>2
  <2> HIDE DEF x, E
  <2>5. Closed(Across(it[u], x), E, s)
    BY <2>2, <2>4, AcrossCloses
  <2> QED BY <2>3, <2>5
<1>7. N \in T
  <2>1. N \in 0..N
    BY <1>1
  <2> HIDE DEF T, N
  <2> QED BY <1>1, <1>5, <1>6, <2>1, UpTo
<1> DEFINE links == it[M]
<1>8. Closed(links, E, M)
  BY <1>7
<1> DEFINE X == {source} \cup {m \in M : <<source, m>> \in links}
<1>9. point \in X
  <2>1. ASSUME NEW n \in X, NEW m \in M, <<n, m>> \in E PROVE m \in X
    <3> HIDE DEF links, M
    <3>1. <<n, m>> \in links
      BY <1>8, <2>1 DEF Closed
    <3>2. n = source \/ (n \in M /\ <<source, n>> \in links)
      OBVIOUS
    <3>3. <<source, m>> \in links
      BY <1>8, <3>1, <3>2 DEF Closed
    <3> QED BY <3>3
  <2>2. \A n \in X : Successors(topology.edges, n) \cap Markers(topology) \subseteq X
    <3> HIDE DEF X
    <3> QED BY <2>1, SuccessorsAre
  <2>3. source \in X
    OBVIOUS
  <2> HIDE DEF X
  <2> QED BY <2>2, <2>3 DEF Leads
<1>10. <<source, path>> \in links
  <2> HIDE DEF links, M
  <2>1. <<point, path>> \in links
    BY <1>8 DEF Closed
  <2> QED BY <1>8, <1>9, <2>1 DEF Closed
<1> QED BY <1>3, <1>10

-----------------------------------------------------------------------------
(* The page.                                                               *)

PageFine(p) == p = [links |-> p.links, sources |-> p.sources, handoff |-> p.handoff]

\* A marker has at most one source, and the start marker none
SourcesFine(s) ==
    /\ s \subseteq Markers(topology) \X (Work(topology) \cup Containers(topology))
    /\ \A x, y \in s : x[1] = y[1] => x = y
    /\ \A x \in s : x[1] # <<Start>>

\* What the page may take for the source of a hop
Known2 == {None} \cup Work(topology) \cup Containers(topology)

\* A page that differs from p in its markers' sources only
SamePicture(q, p) == PageFine(q) /\ SourcesFine(q.sources) /\ q.links = p.links /\ q.handoff = p.handoff

(* None is no node.                                                        *)
LEMMA NoneIsNoNode ==
    TopologyInv => /\ None \notin topology.nodes /\ None \notin Containers(topology)
                   /\ None \notin Work(topology) /\ None \notin Markers(topology)
                   /\ \A n \in topology.nodes : n \in Paths
<1> SUFFICES ASSUME TopologyInv PROVE None \notin topology.nodes /\ None \notin Containers(topology)
                                      /\ \A n \in topology.nodes : n \in Paths
  BY DEF Work, Markers
<1>1. None \notin Paths
  BY NoneAssumption DEF Paths
<1>2. ASSUME NEW n \in topology.nodes PROVE n \in Paths
  <2>1. n \in Seq(All) /\ n # <<>> /\ Front(n) \in Open(subgraphs)
    BY NodesAre
  <2> DEFINE c == Front(n)
  <2>2. Len(n) = Len(c) + 1
    BY <2>1, FrontAndLast
  <2>3. Len(c) \in Nat /\ Cardinality(Graphs) \in Nat /\ Len(c) < Cardinality(Graphs)
    <3> HIDE DEF c
    <3> QED BY <2>1, OpenIsShort DEF c
  <2>4. Len(n) <= MaxDepth
    BY <2>2, <2>3, NumbersAssumption
  <2> QED BY <2>1, <2>4, PathsAre
<1>3. ASSUME NEW c \in Containers(topology) PROVE c \in Paths
  <2>1. c \in Seq(All) /\ Len(c) < MaxDepth
    BY ContainersAre
  <2>2. Len(c) <= MaxDepth
    BY <2>1, LenProperties, NumbersAssumption
  <2> QED BY <2>1, <2>2, PathsAre
<1> QED BY <1>1, <1>2, <1>3

(* The source of a marker is what the page learned last.                    *)
LEMMA LearnIs ==
    ASSUME TopologyInv, NEW p, PageFine(p), SourcesFine(p.sources),
           NEW m \in Markers(topology), m # <<Start>>, NEW b \in Known2
    PROVE  SamePicture(Learn(p, m, b), p) /\ Behind(Learn(p, m, b), m) = b
<1> DEFINE old == {x \in p.sources : x[1] # m}
           new == {<<m, b>>} \ {<<m, None>>}
           s == old \cup new
           q == Learn(p, m, b)
<1>1. q = [links |-> p.links, sources |-> s, handoff |-> p.handoff]
  <2> DEFINE l == p.links
             h == p.handoff
             r == p.sources
  <2>1. p = [links |-> l, sources |-> r, handoff |-> h]
    BY DEF PageFine
  <2>2. q = [p EXCEPT !.sources = s]
    BY DEF Learn
  <2> HIDE DEF l, h, r, s, q
  <2>3. [p EXCEPT !.sources = s] = [links |-> l, sources |-> s, handoff |-> h]
    BY <2>1
  <2> QED BY <2>2, <2>3 DEF l, h
<1>2. b # None => b \in Work(topology) \cup Containers(topology) /\ new = {<<m, b>>}
  BY DEF Known2
<1>3. b = None => new = {}
  OBVIOUS
<1>4. SourcesFine(s)
  <2>1. s \subseteq Markers(topology) \X (Work(topology) \cup Containers(topology))
    <3>1. old \subseteq Markers(topology) \X (Work(topology) \cup Containers(topology))
      BY DEF SourcesFine
    <3>2. new \subseteq Markers(topology) \X (Work(topology) \cup Containers(topology))
      BY <1>2, <1>3
    <3> QED BY <3>1, <3>2
  <2>2. \A x, y \in s : x[1] = y[1] => x = y
    <3>1. \A x, y \in old : x[1] = y[1] => x = y
      BY DEF SourcesFine
    <3>2. \A x \in new : x = <<m, b>> /\ x[1] = m
      OBVIOUS
    <3>3. \A x \in old : x[1] # m
      OBVIOUS
    <3> HIDE DEF old, new
    <3> QED BY <3>1, <3>2, <3>3
  <2>3. \A x \in s : x[1] # <<Start>>
    <3>1. \A x \in old : x[1] # <<Start>>
      BY DEF SourcesFine
    <3>2. \A x \in new : x[1] = m
      OBVIOUS
    <3> HIDE DEF old, new
    <3> QED BY <3>1, <3>2
  <2> HIDE DEF s
  <2> QED BY <2>1, <2>2, <2>3 DEF SourcesFine
<1>5. Behind(q, m) = b
  <2>1. q.sources = s
    BY <1>1
  <2>2. \A n : n \in Successors(s, m) <=> b # None /\ n = b
    <3> SUFFICES ASSUME NEW n PROVE n \in Successors(s, m) <=> b # None /\ n = b
      OBVIOUS
    <3>1. \A x \in old : x[1] # m
      OBVIOUS
    <3>2. \A x \in new : x[1] = m /\ x[2] = b
      OBVIOUS
    <3>3. n \in Successors(s, m) <=> \E x \in new : x[2] = n
      <4> HIDE DEF old, new
      <4> QED BY <3>1, <3>2 DEF Successors
    <3>4. (\E x \in new : x[2] = n) <=> b # None /\ n = b
      <4>1. <<m, b>>[2] = b
        OBVIOUS
      <4>2. CASE b = None
        <5> HIDE DEF new
        <5> QED BY <1>3, <4>2
      <4>3. CASE b # None
        <5>1. new = {<<m, b>>}
          BY <1>2, <4>3
        <5> HIDE DEF new
        <5> QED BY <4>1, <4>3, <5>1
      <4> QED BY <4>2, <4>3
    <3> QED BY <3>3, <3>4
  <2> HIDE DEF q, s
  <2>3. CASE b = None
    <3>1. Successors(q.sources, m) = {}
      BY <2>1, <2>2, <2>3
    <3> QED BY <2>3, <3>1 DEF Behind
  <2>4. CASE b # None
    <3>1. Successors(q.sources, m) = {b}
      BY <2>1, <2>2, <2>4
    <3>2. Behind(q, m) = CHOOSE n \in {b} : TRUE
      BY <3>1 DEF Behind
    <3> QED BY <3>2
  <2> QED BY <2>3, <2>4
<1> HIDE DEF s
<1>6. q.links = p.links /\ q.handoff = p.handoff /\ q.sources = s /\ PageFine(q)
  BY <1>1 DEF PageFine
<1> QED BY <1>4, <1>5, <1>6 DEF SamePicture

(* What the page makes of an edge event whose source it has found.          *)
LEMMA OnEdgeIs ==
    ASSUME TopologyInv, NEW p, PageFine(p), SourcesFine(p.sources),
           NEW source, NEW target
    PROVE  LET q == OnEdge(p, <<source, target>>)
               b == Behind(p, source)
           IN  /\ target \in Markers(topology) => q = Learn(p, target, b)
               /\ target \notin Markers(topology) /\ ~({b, target} \subseteq Work(topology)) => q = p
               /\ target \notin Markers(topology) /\ {b, target} \subseteq Work(topology) =>
                    q = [links |-> p.links \cup {<<b, target>>}, sources |-> p.sources, handoff |-> <<b, target>>]
<1> DEFINE q == OnEdge(p, <<source, target>>)
           b == Behind(p, source)
           link == <<b, target>>
<1>1. q = IF target \in Markers(topology) THEN Learn(p, target, link[1])
          ELSE IF link \notin Work(topology) \X Work(topology) THEN p
          ELSE [p EXCEPT !.links = @ \cup {link}, !.handoff = link]
  BY DEF OnEdge
<1>2. link \in Work(topology) \X Work(topology) <=> {b, target} \subseteq Work(topology)
  OBVIOUS
<1>3. [p EXCEPT !.links = @ \cup {link}, !.handoff = link] =
        [links |-> p.links \cup {link}, sources |-> p.sources, handoff |-> link]
  <2> DEFINE l == p.links
             h == p.handoff
             r == p.sources
  <2>1. p = [links |-> l, sources |-> r, handoff |-> h]
    BY DEF PageFine
  <2> HIDE DEF link, l, h, r
  <2> DEFINE p2 == [p EXCEPT !.links = l \cup {link}]
  <2>2. [p EXCEPT !.links = l \cup {link}, !.handoff = link] = [links |-> l \cup {link}, sources |-> r, handoff |-> link]
    <3>1. p2 = [links |-> l \cup {link}, sources |-> r, handoff |-> h]
      BY <2>1
    <3>2. [p EXCEPT !.links = l \cup {link}, !.handoff = link] = [p2 EXCEPT !.handoff = link]
      OBVIOUS
    <3> HIDE DEF p2
    <3>3. [p2 EXCEPT !.handoff = link] = [links |-> l \cup {link}, sources |-> r, handoff |-> link]
      BY <3>1
    <3> QED BY <3>2, <3>3
  <2> QED BY <2>2 DEF l, h, r
<1>4. link[1] = b
  OBVIOUS
<1> HIDE DEF link, q, b
<1> QED BY <1>1, <1>2, <1>3, <1>4 DEF link, q, b

Page(f, p, edges) ==
    f = [i \in 0..Len(edges) |-> IF i = 0 THEN p ELSE OnEdge(f[i - 1], edges[i])]

(* The recursive function in AfterEdges has a value.                       *)
LEMMA AfterExists ==
    ASSUME NEW p, NEW edges, Len(edges) \in Nat
    PROVE  \E f : Page(f, p, edges) /\ AfterEdges(p, edges) = f[Len(edges)]
<1> DEFINE N == Len(edges)
           next(v, n) == OnEdge(v, edges[n])
           Q(f, m) == f = [n \in 0..m |-> IF n = 0 THEN p ELSE next(f[n - 1], n)]
           T == {m \in Nat : \E f : Q(f, m)}
<1>1. 0 \in T
  <2>1. Q([n \in 0..0 |-> p], 0)
    <3> HIDE DEF next
    <3> QED OBVIOUS
  <2> QED BY <2>1
<1>2. ASSUME NEW m \in 1..N, m - 1 \in T PROVE m \in T
  <2> HIDE DEF next
  <2>1. PICK f : Q(f, m - 1)
    BY <1>2
  <2> DEFINE g == [n \in 0..m |-> IF n = m THEN next(f[m - 1], m) ELSE f[n]]
  <2>2. \A n \in 0..m : g[n] = IF n = 0 THEN p ELSE next(g[n - 1], n)
    <3> SUFFICES ASSUME NEW n \in 0..m PROVE g[n] = IF n = 0 THEN p ELSE next(g[n - 1], n)
      OBVIOUS
    <3>1. CASE n = 0
      BY <2>1, <3>1
    <3>2. CASE n = m
      BY <2>1, <3>2
    <3>3. CASE n \in 1..(m - 1)
      <4>1. n - 1 \in 0..(m - 1) /\ n \in 0..(m - 1) /\ n # 0 /\ n # m /\ n - 1 # m /\ n - 1 \in 0..m
        BY <3>3
      <4>2. f[n] = next(f[n - 1], n)
        BY <2>1, <4>1
      <4> QED BY <4>1, <4>2
    <3> QED BY <3>1, <3>2, <3>3
  <2>3. Q(g, m)
    BY <2>2
  <2>4. m \in Nat
    OBVIOUS
  <2> HIDE DEF g, Q
  <2> QED BY <2>3, <2>4
<1>3. N \in T
  <2> HIDE DEF T
  <2>1. \A i \in 1..N : i - 1 \in T => i \in T
    BY <1>2
  <2>2. N \in Nat /\ N \in 0..N
    OBVIOUS
  <2> HIDE DEF N
  <2>3. \A i \in 0..N : i \in T
    BY <1>1, <2>1, <2>2, UpTo
  <2> QED BY <2>2, <2>3
<1> DEFINE f == CHOOSE g : Q(g, N)
<1>4. Q(f, N)
  <2> HIDE DEF Q
  <2> QED BY <1>3
<1>5. AfterEdges(p, edges) = f[N]
  BY DEF AfterEdges
<1>6. Page(f, p, edges)
  <2> HIDE DEF f
  <2> QED BY <1>4 DEF Page
<1> QED BY <1>5, <1>6

(* Without edges, and after a single one.                                  *)
LEMMA AfterFew ==
    ASSUME NEW p
    PROVE  AfterEdges(p, <<>>) = p /\ \A e : AfterEdges(p, <<e>>) = OnEdge(p, e)
<1>1. AfterEdges(p, <<>>) = p
  <2> DEFINE edges == <<>>
  <2>1. Len(edges) = 0
    OBVIOUS
  <2> HIDE DEF edges
  <2>2. PICK f : Page(f, p, edges) /\ AfterEdges(p, edges) = f[Len(edges)]
    BY <2>1, AfterExists
  <2>3. f[0] = p
    BY <2>1, <2>2 DEF Page
  <2> QED BY <2>1, <2>2, <2>3 DEF edges
<1>2. ASSUME NEW e PROVE AfterEdges(p, <<e>>) = OnEdge(p, e)
  <2> DEFINE edges == <<e>>
  <2>1. Len(edges) = 1 /\ edges[1] = e
    OBVIOUS
  <2> HIDE DEF edges
  <2>2. PICK f : Page(f, p, edges) /\ AfterEdges(p, edges) = f[Len(edges)]
    BY <2>1, AfterExists
  <2>3. \A i \in 0..1 : f[i] = IF i = 0 THEN p ELSE OnEdge(f[i - 1], edges[i])
    BY <2>1, <2>2 DEF Page
  <2>4. f[0] = p
    BY <2>3
  <2>5. f[1] = OnEdge(f[0], edges[1])
    <3>1. 1 \in 0..1 /\ 1 - 1 = 0 /\ 1 # 0
      OBVIOUS
    <3> QED BY <2>3, <3>1
  <2> QED BY <2>1, <2>2, <2>4, <2>5 DEF edges
<1> QED BY <1>1, <1>2

(* A walk hands what is behind its source on, from marker to marker, and    *)
(* only its last edge can make a hop.                                      *)
LEMMA WalkPage ==
    ASSUME TopologyInv, NEW p, PageFine(p), SourcesFine(p.sources),
           NEW source, NEW path, NEW w, PathThrough(w, source, path),
           Behind(p, source) \in Known2
    PROVE  \E q, s : SamePicture(q, p) /\ Behind(q, s) = Behind(p, source) /\ <<s, path>> \in topology.edges
                     /\ AfterEdges(p, Edging(w)) = OnEdge(q, <<s, path>>)
<1> DEFINE edges == Edging(w)
           b == Behind(p, source)
           n == Len(w) - 1
<1>1. n \in Nat /\ n # 0 /\ edges = [i \in 1..n |-> <<w[i], w[i + 1]>>] /\ Len(w) = n + 1
  BY DEF PathThrough, Edging
<1>2. w[1] = source /\ w[n + 1] = path /\ \A i \in 2..n : w[i] \in Markers(topology)
  BY <1>1 DEF PathThrough
<1>3. \A i \in 1..n : <<w[i], w[i + 1]>> \in topology.edges
  BY DEF PathThrough
<1> HIDE DEF n, edges, b
<1>4. Len(edges) = n /\ \A i \in 1..n : edges[i] = <<w[i], w[i + 1]>>
  <2> DEFINE h(i) == <<w[i], w[i + 1]>>
             S == {h(i) : i \in 1..n}
  <2>1. edges \in [1..n -> S]
    BY <1>1
  <2>2. edges \in Seq(S)
    BY <1>1, <2>1, SeqDef
  <2>3. DOMAIN edges = 1..Len(edges) /\ Len(edges) \in Nat /\ DOMAIN edges = 1..n
    BY <2>1, <2>2, LenProperties
  <2>4. Len(edges) = n
    <3> HIDE DEF S
    <3> QED BY <1>1, <2>1, <2>2, LenProperties
  <2> QED BY <1>1, <2>4
<1>5. PICK f : Page(f, p, edges) /\ AfterEdges(p, edges) = f[Len(edges)]
  BY <1>1, <1>4, AfterExists
<1>6. f[0] = p /\ \A i \in 1..n : f[i] = OnEdge(f[i - 1], <<w[i], w[i + 1]>>)
  <2>1. \A i \in 0..n : f[i] = IF i = 0 THEN p ELSE OnEdge(f[i - 1], edges[i])
    BY <1>4, <1>5 DEF Page
  <2>2. 0 \in 0..n /\ \A i \in 1..n : i \in 0..n /\ i # 0
    BY <1>1
  <2> QED BY <1>4, <2>1, <2>2
<1> DEFINE T == {i \in 0..n : SamePicture(f[i], p) /\ Behind(f[i], w[i + 1]) = b}
           N == n - 1
<1>7. 0 \in T
  <2>1. 0 \in 0..n /\ 0 + 1 = 1
    BY <1>1
  <2>2. SamePicture(p, p) /\ Behind(p, w[1]) = b
    BY <1>2 DEF SamePicture, b
  <2> QED BY <1>6, <2>1, <2>2
<1>8. ASSUME NEW i \in 1..N, i - 1 \in T PROVE i \in T
  <2>1. i \in 1..n /\ i + 1 \in 2..n /\ (i - 1) + 1 = i /\ i \in 0..n
    BY <1>1
  <2> DEFINE q == f[i - 1]
             m == w[i + 1]
  <2>2. SamePicture(q, p) /\ Behind(q, w[i]) = b
    BY <1>8, <2>1
  <2>3. m \in Markers(topology) /\ m # <<Start>>
    <3> DEFINE e == <<w[i], w[i + 1]>>
    <3>1. e \in topology.edges /\ e[2] = m
      BY <1>3, <2>1
    <3> HIDE DEF e, m
    <3>2. m # <<Start>>
      BY <3>1, EdgesAre
    <3> QED BY <1>2, <2>1, <3>2 DEF m
  <2>4. f[i] = OnEdge(q, <<w[i], m>>)
    BY <1>6, <2>1
  <2> HIDE DEF q, m
  <2>5. PageFine(q) /\ SourcesFine(q.sources)
    BY <2>2 DEF SamePicture
  <2>6. f[i] = Learn(q, m, b)
    <3> DEFINE v == w[i]
    <3>1. Behind(q, v) = b
      BY <2>2
    <3> HIDE DEF v
    <3>2. m \in Markers(topology) => OnEdge(q, <<v, m>>) = Learn(q, m, Behind(q, v))
      <4> HIDE DEF edges, N
      <4> QED BY ONLY TopologyInv, <2>5, OnEdgeIs
    <3> QED BY <2>2, <2>3, <2>4, <3>2 DEF v
  <2>7. SamePicture(Learn(q, m, b), q) /\ Behind(Learn(q, m, b), m) = b
    <3>1. b \in Known2
      BY DEF b
    <3> QED BY <2>3, <2>5, <3>1, LearnIs
  <2>8. SamePicture(f[i], p)
    BY <2>2, <2>6, <2>7 DEF SamePicture
  <2> QED BY <2>1, <2>6, <2>7, <2>8 DEF m
<1>9. N \in T
  <2>1. N \in Nat /\ N \in 0..N
    BY <1>1
  <2> HIDE DEF T, N
  <2> QED BY <1>7, <1>8, <2>1, UpTo
<1> DEFINE q == f[n - 1]
           s == w[n]
<1>10. SamePicture(q, p) /\ Behind(q, s) = b
  <2>1. (n - 1) + 1 = n
    BY <1>1
  <2> QED BY <1>9, <2>1
<1>11. n \in 1..n
  BY <1>1
<1>12. <<s, path>> \in topology.edges /\ f[n] = OnEdge(q, <<s, path>>)
  BY <1>2, <1>3, <1>6, <1>11
<1>13. AfterEdges(p, edges) = OnEdge(q, <<s, path>>)
  BY <1>4, <1>5, <1>12
<1> HIDE DEF q, s
<1> QED BY <1>10, <1>12, <1>13 DEF edges, b

(* The graph starts at a marker, and the page finds nothing behind it.      *)
LEMMA StartIsMarker ==
    ASSUME TopologyInv
    PROVE  /\ <<Start>> \in Markers(topology)
           /\ \A p : SourcesFine(p.sources) => Behind(p, <<Start>>) = None
<1> DEFINE p == Append(<<>>, Start)
           m == <<Start>>
<1>1. <<>> \in Seq(All) /\ Start \in All /\ p = m
  BY EmptySeq, MarkersInAll, PairIs
<1>2. Last(p) = Start
  BY <1>1, GrowsByOne
<1>3. p \notin Open(subgraphs)
  <2>1. p \notin Containers(topology)
    BY <1>2, ContainersWork DEF IsMarker
  <2>2. p # <<>>
    BY <1>1
  <2> HIDE DEF p
  <2> QED BY <2>1, <2>2, ContainersAre
<1>4. Start \in Merged(GraphAt(<<>>)).nodes
  BY MergedIs, GraphAtRoot, GraphsAssumption DEF TopologyInv
<1>5. p \in topology.nodes
  BY <1>3, <1>4, OpenRoot, NodesAre
<1>6. m \in Markers(topology)
  <2> HIDE DEF p, m
  <2> QED BY <1>1, <1>2, <1>5 DEF Markers, IsMarker
<1>7. ASSUME NEW q, SourcesFine(q.sources) PROVE Behind(q, m) = None
  <2>1. \A x \in q.sources : x[1] # m
    BY <1>7 DEF SourcesFine
  <2> HIDE DEF m
  <2>2. Successors(q.sources, m) = {}
    BY <2>1 DEF Successors
  <2> QED BY <1>6, <2>2 DEF Behind
<1> QED BY <1>6, <1>7

(* What the page takes for the node a transition starts from: _last_node,   *)
(* unless nothing has run, or what has run is drawn as a graph now.         *)
LEMMA SourceIs ==
    ASSUME HandlerInv, NEW p, SourcesFine(p.sources), at # <<>>, Front(at) \in Open(subgraphs)
    PROVE  /\ Behind(p, LastOrStart) \in Known2
           /\ LastOrStart \in topology.nodes \cup Containers(topology)
           /\ LastOrStart \in Work(topology) => Behind(p, LastOrStart) = LastOrStart /\ lastNode = LastOrStart
           /\ LastOrStart \notin Work(topology) => Behind(p, LastOrStart) \notin Work(topology)
<1> DEFINE src == LastOrStart
           b == Behind(p, src)
<1>1. TopologyInv /\ FollowInv
  BY DEF HandlerInv
<1>2. CASE lastNode = None
  <2>1. src = <<Start>>
    BY <1>2 DEF LastOrStart
  <2>2. src \in Markers(topology) /\ b = None
    BY <1>1, <2>1, StartIsMarker
  <2>3. None \notin Work(topology)
    BY <1>1, NoneIsNoNode
  <2> HIDE DEF src, b
  <2>4. src \in topology.nodes /\ src \notin Work(topology)
    BY <2>2 DEF Work, Markers
  <2> QED BY <2>2, <2>3, <2>4 DEF Known2, src, b
<1>3. CASE lastNode # None
  <2>1. src = lastNode
    BY <1>3 DEF LastOrStart
  <2>2. ~IsMarker(lastNode) /\ lastNode \in topology.nodes \cup Containers(topology)
    BY <1>1, <1>3 DEF FollowInv, FollowAt
  <2> HIDE DEF src
  <2>3. src \notin Markers(topology)
    BY <2>1, <2>2 DEF Markers
  <2>4. b = src
    BY <2>3 DEF Behind
  <2>5. src \in topology.nodes => src \in Work(topology)
    BY <2>3 DEF Work
  <2> HIDE DEF b
  <2> QED BY <2>1, <2>2, <2>4, <2>5 DEF Known2, src, b
<1> QED BY <1>2, <1>3

\* A hop from a to path is drawn if both are work nodes
Hopped(q, p, a, path) ==
    /\ PageFine(q) /\ SourcesFine(q.sources)
    /\ {a, path} \subseteq Work(topology) => q.links = p.links \cup {<<a, path>>} /\ q.handoff = <<a, path>>
    /\ ~({a, path} \subseteq Work(topology)) => q.links = p.links /\ q.handoff = p.handoff

(* One edge event whose source the page has found.                          *)
LEMMA OnEdgeHops ==
    ASSUME TopologyInv, NEW p, PageFine(p), SourcesFine(p.sources),
           NEW source, NEW target, target # <<Start>>,
           target \in topology.nodes => Behind(p, source) \in Known2
    PROVE  Hopped(OnEdge(p, <<source, target>>), p, Behind(p, source), target)
<1> DEFINE q == OnEdge(p, <<source, target>>)
           b == Behind(p, source)
           W == Work(topology)
           M == Markers(topology)
<1>1. /\ target \in M => q = Learn(p, target, b)
      /\ target \notin M /\ ~({b, target} \subseteq W) => q = p
      /\ target \notin M /\ {b, target} \subseteq W =>
            q = [links |-> p.links \cup {<<b, target>>}, sources |-> p.sources, handoff |-> <<b, target>>]
  BY ONLY TopologyInv, PageFine(p), SourcesFine(p.sources), OnEdgeIs
<1>2. CASE target \in M
  <2>1. b \in Known2
    BY <1>2 DEF Markers
  <2>2. target \notin W
    BY <1>2 DEF Work
  <2> HIDE DEF b, M
  <2>3. SamePicture(Learn(p, target, b), p)
    BY <1>2, <2>1, LearnIs DEF M
  <2> HIDE DEF q, W
  <2> QED BY <1>1, <1>2, <2>2, <2>3 DEF SamePicture, Hopped, W, q, b
<1>3. CASE target \notin M /\ ~({b, target} \subseteq W)
  <2>1. q = p
    BY <1>1, <1>3
  <2> HIDE DEF q, b, W, M
  <2> QED BY <1>3, <2>1 DEF Hopped, q, b, W
<1>4. CASE target \notin M /\ {b, target} \subseteq W
  <2> DEFINE l == p.links \cup {<<b, target>>}
             r == p.sources
             h == <<b, target>>
  <2>1. q = [links |-> l, sources |-> r, handoff |-> h]
    BY <1>1, <1>4
  <2> HIDE DEF l, r, h, q
  <2>2. q.links = l /\ q.sources = r /\ q.handoff = h /\ PageFine(q)
    BY <2>1 DEF PageFine
  <2> HIDE DEF b, W, M
  <2> QED BY <1>4, <2>2 DEF Hopped, q, b, W, l, r, h
<1> QED BY <1>2, <1>3, <1>4

(* What the page makes of a transition: a hop, if it is one between two     *)
(* drawn work nodes, and nothing that shows otherwise.                      *)
LEMMA PageAfter ==
    ASSUME HandlerInv, NEW p, PageFine(p), SourcesFine(p.sources),
           at # <<>>, done, NEW name \in NodesOf[GraphAt(Front(at))] \cup {End},
           Append(Front(at), name) \notin Containers(topology),
           NEW edges \in Transition(LastOrStart, Append(Front(at), name))
    PROVE  /\ edges = <<>> => AfterEdges(p, edges) = p
           /\ edges # <<>> => Hopped(AfterEdges(p, edges), p, LastOrStart, Append(Front(at), name))
<1> DEFINE O == Open(subgraphs)
           W == Work(topology)
           C == Containers(topology)
           f == Front(at)
           path == Append(f, name)
           src == LastOrStart
           b == Behind(p, src)
           q == AfterEdges(p, edges)
<1>1. TopologyInv
  BY DEF HandlerInv
<1>2. /\ path # <<Start>>
      /\ path \in topology.nodes => f \in O
      /\ \/ Follows(edges, src, path) /\ f \in O
         \/ Jumps(edges, src, path)
  BY TransitionIs
<1>3. f \in O => /\ b \in Known2
                 /\ src \in W => b = src
                 /\ src \notin W => b \notin W
  BY SourceIs
<1>4. edges = <<>> => q = p
  BY AfterFew
<1>5. ASSUME NEW r, NEW s, SamePicture(r, p), Behind(r, s) = b, f \in O
      PROVE  Hopped(OnEdge(r, <<s, path>>), p, src, path)
  <2>1. PageFine(r) /\ SourcesFine(r.sources) /\ r.links = p.links /\ r.handoff = p.handoff
    BY <1>5 DEF SamePicture
  <2> HIDE DEF b, path, src, f, O
  <2>2. Hopped(OnEdge(r, <<s, path>>), r, b, path)
    <3>1. Behind(r, s) \in Known2
      BY <1>3, <1>5
    <3>2. Hopped(OnEdge(r, <<s, path>>), r, Behind(r, s), path)
      BY ONLY <1>1, <1>2, <2>1, <3>1, OnEdgeHops
    <3> QED BY <1>5, <3>2
  <2> QED BY <1>3, <1>5, <2>1, <2>2 DEF Hopped
<1>6. ASSUME Follows(edges, src, path), f \in O PROVE Hopped(q, p, src, path)
  <2>1. PICK w : PathThrough(w, src, path) /\ edges = Edging(w)
    BY <1>6 DEF Follows
  <2>2. b \in Known2
    BY <1>3, <1>6
  <2> HIDE DEF b, src, path, f, O
  <2>3. Behind(p, src) = b /\ PathThrough(w, src, path) /\ Behind(p, src) \in Known2
    BY <2>1, <2>2 DEF b
  <2> DEFINE Handed(r, s) == /\ SamePicture(r, p) /\ Behind(r, s) = Behind(p, src)
                             /\ <<s, path>> \in topology.edges
                             /\ AfterEdges(p, Edging(w)) = OnEdge(r, <<s, path>>)
  <2>4. PICK r, s : Handed(r, s)
    <3>1. \E r, s : Handed(r, s)
      BY ONLY <1>1, PageFine(p), SourcesFine(p.sources), <2>3, WalkPage
    <3> HIDE DEF Handed
    <3> QED BY <3>1
  <2>5. Hopped(OnEdge(r, <<s, path>>), p, src, path)
    BY <1>5, <1>6, <2>3, <2>4
  <2>6. q = OnEdge(r, <<s, path>>)
    BY <2>1, <2>4
  <2> HIDE DEF q
  <2> QED BY <2>5, <2>6 DEF q, src, path, f
<1>7. ASSUME Jumps(edges, src, path), edges # <<>> PROVE Hopped(q, p, src, path)
  <2>1. edges = <<<<src, path>>>>
    BY <1>7 DEF Jumps
  <2>2. q = OnEdge(p, <<src, path>>)
    BY <2>1, AfterFew
  <2>3. CASE f \in O
    <3>1. SamePicture(p, p)
      BY DEF SamePicture
    <3>2. Hopped(OnEdge(p, <<src, path>>), p, src, path)
      BY <1>5, <2>3, <3>1
    <3> HIDE DEF q
    <3> QED BY <2>2, <3>2 DEF q
  <2>4. CASE f \notin O
    <3>1. path \notin topology.nodes
      BY <1>2, <2>4
    <3> HIDE DEF path, src, q
    <3>2. Hopped(OnEdge(p, <<src, path>>), p, Behind(p, src), path)
      BY ONLY <1>1, <1>2, <3>1, PageFine(p), SourcesFine(p.sources), OnEdgeHops
    <3>3. path \notin Work(topology)
      BY <3>1 DEF Work
    <3>4. Hopped(OnEdge(p, <<src, path>>), p, src, path)
      BY <3>2, <3>3 DEF Hopped
    <3> QED BY <2>2, <3>4 DEF q, src, path, f
  <2> QED BY <2>3, <2>4
<1>8. edges # <<>> => Hopped(q, p, src, path)
  BY <1>2, <1>6, <1>7
<1> QED BY <1>4, <1>8

\* What there is to know of the page
PageInv ==
    /\ PageFine(page) /\ SourcesFine(page.sources) /\ HandoffIsLast
    /\ jumps \subseteq Work(topology) \X Work(topology)

(* Before anything has run, the page knows of no marker's source.           *)
LEMMA PageInitially == Init => PageInv
<1> SUFFICES ASSUME Init PROVE PageInv
  OBVIOUS
<1> DEFINE l == Joined(topology)
<1>1. page = [links |-> l, sources |-> {}, handoff |-> <<>>] /\ hop = <<>> /\ jumps = {}
  BY DEF Init
<1> HIDE DEF l
<1>2. page.links = l /\ page.sources = {} /\ page.handoff = <<>> /\ PageFine(page)
  BY <1>1 DEF PageFine
<1> QED BY <1>1, <1>2 DEF PageInv, SourcesFine, HandoffIsLast, l

(* The page stays right while it draws the same topology.                   *)
LEMMA PageSame ==
    ASSUME topology' = topology, PageFine(page'), SourcesFine(page'.sources),
           page'.handoff = hop', page'.links = Joined(topology) \cup jumps',
           jumps' \subseteq Work(topology) \X Work(topology)
    PROVE  PageInv'
BY DEF PageInv, PageFine, SourcesFine, HandoffIsLast, Markers, Work, Containers

(* EnterNode: a hop between two work nodes is a link of the diagram, or one  *)
(* along which no edges lead.                                              *)
LEMMA PageEnter ==
    ASSUME HandlerInv, PageInv, NEW name \in Names, EnterNode(name)
    PROVE  PageInv'
<1> DEFINE f == Front(at)
           path == Append(f, name)
           src == LastOrStart
           W == Work(topology)
           new == {Jump(name, path)} \ {<<>>}
<1>1. at # <<>> /\ done /\ name \in NodesOf[GraphAt(f)] /\ topology' = topology
  BY DEF EnterNode, shapeVars
<1>2. /\ PageFine(page) /\ SourcesFine(page.sources)
      /\ page.handoff = hop /\ page.links = Joined(topology) \cup jumps
      /\ jumps \subseteq W \X W
  BY DEF PageInv, HandoffIsLast
<1>3. CASE page' = page /\ hop' = hop /\ jumps' = jumps
  BY ONLY <1>1, <1>2, <1>3, PageSame DEF W
<1>4. CASE path \in Containers(topology)
  <2>1. page' = page /\ hop' = hop /\ jumps' = jumps
    BY <1>4 DEF EnterNode, Silent
  <2> QED BY <1>3, <2>1
<1>5. CASE path \notin Containers(topology)
  <2>1. PICK edges \in Transition(src, path) :
            /\ page' = AfterEdges(page, edges)
            /\ IF {src, path} \subseteq W /\ edges # <<>>
                 THEN hop' = <<src, path>> /\ jumps' = jumps \cup new
                 ELSE hop' = hop /\ jumps' = jumps
    BY <1>5 DEF EnterNode, Emit, Hop
  <2>2. /\ edges = <<>> => page' = page
        /\ edges # <<>> => Hopped(page', page, src, path)
    BY <1>1, <1>2, <1>5, <2>1, PageAfter
  <2>3. CASE edges = <<>>
    BY <1>3, <2>1, <2>2, <2>3
  <2>4. CASE {src, path} \subseteq W /\ edges # <<>>
    <3>1. path \in topology.nodes /\ src \in topology.nodes
      BY <2>4 DEF Work
    <3>2. f \in Open(subgraphs)
      BY <1>1, <1>5, <2>1, <3>1, TransitionIs
    <3>3. CASE Strays(name)
      <4>1. new = {<<src, path>>}
        <5>1. Jump(name, path) = <<src, path>>
          BY <3>3 DEF Jump, Hop
        <5>2. <<src, path>> # <<>>
          <6> HIDE DEF src, path
          <6> QED OBVIOUS
        <5> HIDE DEF src, path
        <5> QED BY <5>1, <5>2
      <4> HIDE DEF src, path, new, W
      <4>2. /\ PageFine(page') /\ SourcesFine(page'.sources)
            /\ page'.handoff = hop' /\ page'.links = Joined(topology) \cup jumps'
            /\ jumps' \subseteq W \X W
        BY <1>2, <2>1, <2>2, <2>4, <4>1 DEF Hopped, W
      <4> QED BY ONLY <1>1, <4>2, PageSame DEF W
    <3>4. CASE ~Strays(name)
      <4>1. ~away /\ name \in NextNames
        BY <3>4 DEF Strays
      <4>2. new = {}
        BY <3>4 DEF Jump
      <4>3. src = SourceOf(lastNode)
        BY DEF LastOrStart, SourceOf
      <4>4. Leads(src, PointOf(at, TRUE))
        <5>1. PointOf(at, done) = PointOf(at, TRUE)
          BY <1>1 DEF PointOf
        <5> HIDE DEF src
        <5> QED BY <1>1, <3>1, <3>2, <4>1, <4>3, <5>1 DEF HandlerInv, FollowInv, FollowAt, f
      <4>5. <<PointOf(at, TRUE), path>> \in topology.edges
        BY <1>1, <1>5, <3>2, <4>1, PointNext DEF HandlerInv
      <4> HIDE DEF src, path, new
      <4>6. <<src, path>> \in Joined(topology)
        BY <2>4, <4>4, <4>5, JoinedHas DEF HandlerInv
      <4>7. /\ PageFine(page') /\ SourcesFine(page'.sources)
            /\ page'.handoff = hop' /\ page'.links = Joined(topology) \cup jumps'
            /\ jumps' \subseteq W \X W
        BY <1>2, <2>1, <2>2, <2>4, <4>2, <4>6 DEF Hopped
      <4> QED BY ONLY <1>1, <4>7, PageSame DEF W
    <3> QED BY <3>3, <3>4
  <2>5. CASE ~({src, path} \subseteq W) /\ edges # <<>>
    <3> HIDE DEF src, path, W
    <3>1. /\ PageFine(page') /\ SourcesFine(page'.sources)
          /\ page'.handoff = hop' /\ page'.links = Joined(topology) \cup jumps'
          /\ jumps' \subseteq W \X W
      BY <1>2, <2>1, <2>2, <2>5 DEF Hopped, W
    <3> QED BY ONLY <1>1, <3>1, PageSame DEF W
  <2> QED BY <2>3, <2>4, <2>5
<1> QED BY <1>4, <1>5

(* EndInvoke: End is a marker, and no hop leads there.                      *)
LEMMA PageEnd ==
    ASSUME HandlerInv, PageInv, EndInvoke
    PROVE  PageInv'
<1> DEFINE path == Append(Front(at), End)
<1>1. done /\ topology' = topology /\ hop' = hop /\ jumps' = jumps
  BY DEF EndInvoke, shapeVars, hopVars
<1>2. at # <<>> /\ <<End>> = path /\ path \notin Containers(topology)
  BY EndingIs
<1>3. /\ PageFine(page) /\ SourcesFine(page.sources)
      /\ page.handoff = hop /\ page.links = Joined(topology) \cup jumps
      /\ jumps \subseteq Work(topology) \X Work(topology)
  BY DEF PageInv, HandoffIsLast
<1>4. PICK edges \in Transition(LastOrStart, path) : page' = AfterEdges(page, edges)
  <2> HIDE DEF path
  <2> QED BY <1>2 DEF EndInvoke, Emit
<1>5. page' = page \/ Hopped(page', page, LastOrStart, path)
  BY <1>1, <1>2, <1>3, <1>4, PageAfter
<1>6. path \notin Work(topology)
  <2>1. Last(<<End>>) = End
    BY DEF Last
  <2> HIDE DEF path
  <2> QED BY <1>2, <2>1 DEF Work, Markers, IsMarker
<1>7. /\ PageFine(page') /\ SourcesFine(page'.sources)
      /\ page'.handoff = hop' /\ page'.links = Joined(topology) \cup jumps'
      /\ jumps' \subseteq Work(topology) \X Work(topology)
  <2> HIDE DEF path
  <2> QED BY <1>1, <1>3, <1>5, <1>6 DEF Hopped
<1> QED BY ONLY <1>1, <1>7, PageSame

(* StartInvoke: the sources of the markers are forgotten.                   *)
LEMMA PageStart ==
    ASSUME PageInv, StartInvoke
    PROVE  PageInv'
<1> DEFINE l == page.links
           h == page.handoff
           r == page.sources
<1>1. topology' = topology /\ hop' = hop /\ jumps' = jumps /\ page' = [page EXCEPT !.sources = {}]
  BY DEF StartInvoke, shapeVars
<1>2. /\ page = [links |-> l, sources |-> r, handoff |-> h] /\ h = hop /\ l = Joined(topology) \cup jumps
      /\ jumps \subseteq Work(topology) \X Work(topology)
  BY DEF PageInv, PageFine, HandoffIsLast
<1> HIDE DEF l, h, r
<1>3. page' = [links |-> l, sources |-> {}, handoff |-> h]
  BY <1>1, <1>2
<1>4. PageFine(page') /\ page'.sources = {} /\ page'.handoff = h /\ page'.links = l
  BY <1>3 DEF PageFine
<1>5. SourcesFine(page'.sources)
  BY <1>4 DEF SourcesFine
<1>6. page'.handoff = hop' /\ page'.links = Joined(topology) \cup jumps' /\ jumps' \subseteq Work(topology) \X Work(topology)
  BY <1>1, <1>2, <1>4
<1> QED BY ONLY <1>1, <1>4, <1>5, <1>6, PageSame

(* IncludeSubgraph: the page draws the new topology, and keeps the sources  *)
(* that are still there.                                                   *)
LEMMA PageReplaced ==
    ASSUME PageInv, IncludeSubgraph
    PROVE  PageInv'
<1> DEFINE l == page.links
           h == page.handoff
           r == page.sources
           t == topology'
           s == r \cap (Markers(t) \X Work(t))
           j == Joined(t)
<1>1. hop' = hop /\ jumps' = {} /\ page' = Show(page, t)
  BY DEF IncludeSubgraph
<1>2. page = [links |-> l, sources |-> r, handoff |-> h] /\ h = hop
  BY DEF PageInv, PageFine, HandoffIsLast
<1>3. page' = [page EXCEPT !.links = j, !.sources = s]
  BY <1>1 DEF Show
<1>4. (\A x, y \in r : x[1] = y[1] => x = y) /\ \A x \in r : x[1] # <<Start>>
  BY DEF PageInv, SourcesFine
<1> HIDE DEF l, h, r, s, j
<1>5. page' = [links |-> j, sources |-> s, handoff |-> h]
  <2> DEFINE p2 == [page EXCEPT !.links = j]
  <2>1. p2 = [links |-> j, sources |-> r, handoff |-> h]
    BY <1>2
  <2>2. page' = [p2 EXCEPT !.sources = s]
    BY <1>3
  <2> HIDE DEF p2
  <2> QED BY <2>1, <2>2
<1>6. PageFine(page') /\ page'.sources = s /\ page'.handoff = h /\ page'.links = j
  BY <1>5 DEF PageFine
<1>7. /\ s \subseteq Markers(t) \X (Work(t) \cup Containers(t))
      /\ (\A x, y \in s : x[1] = y[1] => x = y) /\ \A x \in s : x[1] # <<Start>>
  BY <1>4 DEF s
<1>8. SourcesFine(page.sources)'
  BY <1>6, <1>7 DEF SourcesFine
<1>9. HandoffIsLast'
  BY <1>1, <1>2, <1>6 DEF HandoffIsLast, j
<1> QED BY <1>1, <1>6, <1>8, <1>9 DEF PageInv, PageFine

(* The page follows every step.                                            *)
LEMMA PageNext == HandlerInv /\ PageInv /\ [Next]_vars => PageInv'
<1> SUFFICES ASSUME HandlerInv, PageInv, [Next]_vars PROVE PageInv'
  OBVIOUS
<1>1. ASSUME UNCHANGED <<topology, page, hop, jumps>> PROVE PageInv'
  <2>1. /\ PageFine(page') /\ SourcesFine(page'.sources) /\ page'.handoff = hop' /\ topology' = topology
        /\ page'.links = Joined(topology) \cup jumps' /\ jumps' \subseteq Work(topology) \X Work(topology)
    BY <1>1 DEF PageInv, HandoffIsLast
  <2> QED BY ONLY <2>1, PageSame
<1>2. CASE StartInvoke
  BY <1>2, PageStart
<1>3. ASSUME NEW name \in Names, EnterNode(name) PROVE PageInv'
  BY <1>3, PageEnter
<1>4. CASE EndInvoke
  BY <1>4, PageEnd
<1>5. CASE IncludeSubgraph
  BY <1>5, PageReplaced
<1>6. CASE EnterGraph \/ LeaveGraph \/ Skip \/ UNCHANGED vars
  BY <1>1, <1>6 DEF EnterGraph, LeaveGraph, Skip, Silent, vars, shapeVars, hopVars
<1> QED BY <1>2, <1>3, <1>4, <1>5, <1>6 DEF Next, Names

(* So the page is right, given that the handler is.                         *)
LEMMA PageInvariant == Spec => [](HandlerInv /\ EmittedInv /\ PageInv)
<1>1. Init => HandlerInv /\ EmittedInv /\ PageInv
  BY HandlerInitially, EmittedInitially, PageInitially
<1>2. HandlerInv /\ EmittedInv /\ PageInv /\ [Next]_vars => (HandlerInv /\ EmittedInv /\ PageInv)'
  BY HandlerNext, EmittedNext, PageNext
<1> QED BY <1>1, <1>2, PTL DEF Spec

(* The hop the page shows is the last one that was made between two drawn   *)
(* work nodes, through however many markers, and every such hop is a link   *)
(* the diagram has: declareHop draws one for each hop along which no edges  *)
(* lead, and no other.                                                     *)
THEOREM HandoffCorrect == Spec => []HandoffIsLast
BY PageInvariant, PTL DEF PageInv

-----------------------------------------------------------------------------
(* The type invariant.                                                     *)

(* Only the node that runs is included.                                    *)
LEMMA SubgraphsNext == HandlerInv /\ subgraphs \subseteq Paths /\ [Next]_vars => (subgraphs \subseteq Paths)'
<1> SUFFICES ASSUME HandlerInv, subgraphs \subseteq Paths, [Next]_vars PROVE subgraphs' \subseteq Paths
  BY DEF Paths
<1>1. CASE IncludeSubgraph
  <2>1. subgraphs' = subgraphs \cup {at}
    BY <1>1 DEF IncludeSubgraph
  <2>2. at \in Paths
    BY PathsAre DEF HandlerInv, WhereInv
  <2> QED BY <2>1, <2>2
<1>2. CASE subgraphs' = subgraphs
  BY <1>2
<1> QED BY <1>1, <1>2 DEF Next, vars, shapeVars, StartInvoke, EndInvoke, EnterNode, EnterGraph, LeaveGraph, Skip

(* What the invariants of the handler and of the page say of the types.     *)
LEMMA TypesFollow == HandlerInv /\ EmittedInv /\ PageInv /\ subgraphs \subseteq Paths => TypeOK
<1> SUFFICES ASSUME HandlerInv, EmittedInv, PageInv, subgraphs \subseteq Paths PROVE TypeOK
  OBVIOUS
<1>1. TopologyInv /\ WhereInv /\ FollowInv
  BY DEF HandlerInv
<1>2. topology.edges \subseteq Paths \X Paths
  <2>1. \A e \in topology.edges : e = <<e[1], e[2]>> /\ e[1] \in Paths /\ e[2] \in Paths
    BY <1>1, EdgesAre
  <2> QED BY <2>1
<1>3. at \in Paths
  BY <1>1, PathsAre DEF WhereInv
<1>4. lastNode \in Paths \cup {None}
  BY <1>1 DEF FollowInv, FollowAt
<1>5. emitted \in Seq(Paths \X Paths)
  BY DEF EmittedInv
<1>6. page.links \subseteq Work(topology) \X Work(topology)
  <2>1. page.links = Joined(topology) \cup jumps /\ jumps \subseteq Work(topology) \X Work(topology)
    BY DEF PageInv, HandoffIsLast
  <2> QED BY <2>1, JoinedChosen
<1>7. page.sources \subseteq Markers(topology) \X (Work(topology) \cup Containers(topology))
  BY DEF PageInv, SourcesFine
<1>8. ASSUME NEW m \in Markers(topology) PROVE Cardinality(Successors(page.sources, m)) <= 1
  <2> DEFINE S == Successors(page.sources, m)
  <2>1. \A x, y \in page.sources : x[1] = y[1] => x = y
    BY DEF PageInv, SourcesFine
  <2>2. \A a, b \in S : a = b
    BY <2>1 DEF Successors
  <2> HIDE DEF S
  <2>3. CASE S = {}
    <3>1. Cardinality(S) = 0
      BY <2>3, FS_EmptySet
    <3> QED BY <3>1 DEF S
  <2>4. CASE S # {}
    <3>1. PICK a \in S : TRUE
      BY <2>4
    <3>2. S = {a}
      BY <2>2, <3>1
    <3>3. Cardinality(S) = 1
      BY <3>2, FS_Singleton
    <3> QED BY <3>3 DEF S
  <2> QED BY <2>3, <2>4
<1> QED BY <1>2, <1>3, <1>4, <1>5, <1>6, <1>7, <1>8 DEF TypeOK

(* The handler's paths are as short as the graphs allow, the page links     *)
(* work nodes only, and it knows at most one source per marker.             *)
THEOREM TypesCorrect == Spec => []TypeOK
<1>1. Init => HandlerInv /\ EmittedInv /\ PageInv
  BY HandlerInitially, EmittedInitially, PageInitially
<1>2. Init => subgraphs \subseteq Paths
  BY DEF Init
<1>3. HandlerInv /\ EmittedInv /\ PageInv /\ subgraphs \subseteq Paths /\ [Next]_vars =>
        (HandlerInv /\ EmittedInv /\ PageInv /\ subgraphs \subseteq Paths)'
  BY HandlerNext, EmittedNext, PageNext, SubgraphsNext
<1> QED BY <1>1, <1>2, <1>3, TypesFollow, PTL DEF Spec
=============================================================================
