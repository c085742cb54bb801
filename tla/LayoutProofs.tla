---------------------------- MODULE LayoutProofs ----------------------------
(***************************************************************************)
(* Proofs about the layout, for every finite graph and every order in      *)
(* which its nodes and edges are listed.                                   *)
(*                                                                         *)
(* A path is never written down: a set closed under a set of edges has     *)
(* what the paths from its members reach, and a set of edges has no cycle  *)
(* when every set of nodes has one that no edge enters from that set.      *)
(***************************************************************************)
EXTENDS Layout, FiniteSetTheorems, WellFoundedInduction, TLAPS

-----------------------------------------------------------------------------
(* The depth-first search.                                                 *)

\* The edges looked at that do not go back
Tree == {e \in edges : color[e[1]] # "white" /\ e[2] \notin todo[e[1]] /\ e \notin back}

ClosedUnder(S, E) == \A e \in E : e[1] \in S => e[2] \in S
NoCycle(E) == \A T \in SUBSET Ends : T # {} => \E n \in T : \A m \in T : <<m, n>> \notin E

SearchTypes ==
    /\ edges \subseteq Ends \X Ends /\ back \subseteq edges
    /\ color \in [Ends -> {"white", "grey", "black"}]
    /\ stack \in Seq(Ends)
    /\ todo \in [Ends -> SUBSET Ends]
    /\ \A n \in Ends : todo[n] \subseteq Adjacency(n)

\* The stack holds the grey nodes, each once.
GreyIsStacked == \A n \in Ends : color[n] = "grey" <=> \E i \in 1..Len(stack) : stack[i] = n
StackedOnce == \A i, j \in 1..Len(stack) : stack[i] = stack[j] => i = j

\* An edge found going back was looked at, and a black node has no other.
BackExamined == \A e \in back : color[e[1]] # "white" /\ e[2] \notin todo[e[1]]
BlackExamined == \A n \in Ends : color[n] = "black" => todo[n] = {}

\* A tree edge leads to a black node or up the stack.
TreeLeadsOn ==
    \A e \in Tree :
        \/ color[e[2]] = "black"
        \/ \E i, j \in 1..Len(stack) : i < j /\ stack[i] = e[1] /\ stack[j] = e[2]

\* Tree edges lead from each entry of the stack to those above it, and from
\* the target of an edge that goes back to its source.
StackReaches ==
    \A S \in SUBSET Ends : ClosedUnder(S, Tree) =>
        \A i, j \in 1..Len(stack) : i < j /\ stack[i] \in S => stack[j] \in S
BackReaches ==
    \A S \in SUBSET Ends : ClosedUnder(S, Tree) => \A e \in back : e[2] \in S => e[1] \in S

StackInv == GreyIsStacked /\ StackedOnce
ExaminedInv == BackExamined /\ BlackExamined
ReachInv == StackReaches /\ BackReaches
SearchInv == SearchTypes /\ StackInv /\ ExaminedInv /\ TreeLeadsOn /\ ReachInv /\ NoCycle(Tree)

(* The facts about the stack's top that every step uses.                   *)
LEMMA TopFacts ==
    ASSUME SearchTypes, StackInv, stack # <<>>
    PROVE  /\ Len(stack) \in Nat \ {0} /\ Len(stack) \in 1..Len(stack)
           /\ Last(stack) = stack[Len(stack)] /\ Last(stack) \in Ends
           /\ color[Last(stack)] = "grey"
           /\ \A i \in 1..Len(stack) : stack[i] \in Ends
<1>1. /\ Len(stack) \in Nat \ {0} /\ Len(stack) \in 1..Len(stack)
      /\ \A i \in 1..Len(stack) : stack[i] \in Ends
  BY DEF SearchTypes
<1>2. Last(stack) = stack[Len(stack)] /\ Last(stack) \in Ends
  BY <1>1 DEF Last
<1>3. color[Last(stack)] = "grey"
  BY <1>1, <1>2 DEF StackInv, GreyIsStacked
<1> QED BY <1>1, <1>2, <1>3

(* A node is pushed on the stack.                                          *)
LEMMA PushedStack ==
    ASSUME NEW s \in Seq(Ends), NEW n \in Ends, NEW t, t = Append(s, n)
    PROVE  /\ t \in Seq(Ends) /\ Len(s) \in Nat /\ Len(t) = Len(s) + 1 /\ t[Len(t)] = n
           /\ \A i \in 1..Len(s) : t[i] = s[i] /\ i \in 1..Len(t)
           /\ \A i \in 1..Len(t) : i \in 1..Len(s) \/ i = Len(t)
OBVIOUS

(* ... and taken off it.                                                   *)
LEMMA PoppedStack ==
    ASSUME NEW s \in Seq(Ends), s # <<>>, NEW t, t = Front(s)
    PROVE  /\ t \in Seq(Ends) /\ Len(t) = Len(s) - 1
           /\ \A i \in 1..Len(t) : t[i] = s[i] /\ i \in 1..Len(s) /\ i # Len(s)
           /\ \A i \in 1..Len(s) : i \in 1..Len(t) \/ i = Len(s)
<1> DEFINE k == Len(s) - 1
<1>1. t = SubSeq(s, 1, k) /\ Len(s) \in Nat \ {0} /\ k \in 0..Len(s)
  BY DEF Front
<1>2. \A i : i \in 1..k => i \in 1..Len(s) /\ i # Len(s)
  BY <1>1
<1>3. \A i \in 1..Len(s) : i \in 1..k \/ i = Len(s)
  BY <1>1
<1> HIDE DEF k
<1>4. t \in Seq(Ends) /\ Len(t) = k
  BY <1>1
<1>5. \A i \in 1..k : t[i] = s[i]
  BY <1>1
<1> QED BY <1>2, <1>3, <1>4, <1>5 DEF k

(* A white node begun, with nothing on the stack or from the top.          *)
LEMMA GreyPushed ==
    ASSUME SearchTypes, StackInv, NEW n \in Ends, color[n] = "white",
           color' = [color EXCEPT ![n] = "grey"], stack' = Append(stack, n)
    PROVE  StackInv'
<1>1. /\ Len(stack) \in Nat /\ Len(stack') = Len(stack) + 1 /\ stack'[Len(stack')] = n
      /\ \A i \in 1..Len(stack) : stack'[i] = stack[i] /\ i \in 1..Len(stack')
      /\ \A i \in 1..Len(stack') : i \in 1..Len(stack) \/ i = Len(stack')
  BY PushedStack DEF SearchTypes
<1>2. \A m \in Ends : color'[m] = IF m = n THEN "grey" ELSE color[m]
  BY DEF SearchTypes
<1>3. Len(stack') \in 1..Len(stack')
  BY <1>1
<1>4. \A i \in 1..Len(stack) : stack[i] # n
  BY DEF StackInv, GreyIsStacked
<1>5. GreyIsStacked'
  <2> SUFFICES ASSUME NEW m \in Ends
               PROVE  color'[m] = "grey" <=> \E i \in 1..Len(stack') : stack'[i] = m
    BY DEF GreyIsStacked
  <2>1. CASE m = n
    BY <1>1, <1>2, <1>3, <2>1
  <2>2. CASE m # n
    BY <1>1, <1>2, <2>2 DEF StackInv, GreyIsStacked
  <2> QED BY <2>1, <2>2
<1>6. StackedOnce'
  BY <1>1, <1>4 DEF StackInv, StackedOnce
<1> QED BY <1>5, <1>6 DEF StackInv

(* visit() of a white node.                                                *)
LEMMA VisitSearches ==
    ASSUME SearchInv, NEW n \in Nodes, Visit(n)
    PROVE  SearchInv'
<1>1. /\ stack = <<>> /\ color[n] = "white" /\ n \in Ends
      /\ color' = [color EXCEPT ![n] = "grey"] /\ stack' = Append(stack, n)
      /\ todo' = [todo EXCEPT ![n] = Adjacency(n)] /\ edges' = edges /\ back' = back
  BY DEF Visit, Push, graphVars, Ends
<1>2. SearchTypes /\ StackInv
  BY DEF SearchInv
<1>3. /\ \A m \in Ends : color'[m] = IF m = n THEN "grey" ELSE color[m]
      /\ \A m \in Ends : todo'[m] = IF m = n THEN Adjacency(n) ELSE todo[m]
      /\ \A m \in Ends : Adjacency(m)' = Adjacency(m) /\ Adjacency(m) \subseteq Ends
      /\ stack \in Seq(Ends)
  BY <1>1, <1>2 DEF SearchTypes, Adjacency
<1>4. /\ Len(stack') = 1 /\ stack'[1] = n
  BY <1>1
<1>5. SearchTypes'
  <2>1. color' \in [Ends -> {"white", "grey", "black"}]
    BY <1>1, <1>2 DEF SearchTypes
  <2>2. stack' \in Seq(Ends)
    BY <1>1, <1>3, PushedStack
  <2>3. todo' \in [Ends -> SUBSET Ends]
    BY <1>1, <1>2, <1>3 DEF SearchTypes
  <2>4. \A m \in Ends : todo'[m] \subseteq Adjacency(m)'
    BY <1>2, <1>3 DEF SearchTypes
  <2> QED BY <1>1, <1>2, <2>1, <2>2, <2>3, <2>4 DEF SearchTypes
<1>6. StackInv'
  BY <1>1, <1>2, GreyPushed
<1>7. \A e \in edges : e = <<e[1], e[2]>> /\ e[1] \in Ends /\ e[2] \in Ends /\ e[2] \in Adjacency(e[1])
  BY <1>2 DEF SearchTypes, Adjacency
<1>8. Tree' = Tree
  <2>1. \A e \in edges : e \in Tree' <=> e \in Tree
    BY <1>1, <1>3, <1>7 DEF Tree
  <2> QED BY <1>1, <2>1 DEF Tree
<1>9. ExaminedInv'
  BY <1>1, <1>2, <1>3, <1>7 DEF SearchInv, ExaminedInv, BackExamined, BlackExamined, SearchTypes
<1>10. TreeLeadsOn'
  <2>1. \A e \in Tree : color[e[2]] = "black"
    <3>1. 1..Len(stack) = {}
      BY <1>1
    <3> QED BY <3>1 DEF SearchInv, TreeLeadsOn
  <2>2. \A e \in Tree : color'[e[2]] = "black"
    BY <1>1, <1>3, <1>7, <2>1 DEF Tree
  <2> QED BY <1>8, <2>2 DEF TreeLeadsOn
<1>11. ReachInv'
  <2>1. StackReaches'
    BY <1>4 DEF StackReaches
  <2>2. BackReaches'
    BY <1>1, <1>8 DEF SearchInv, ReachInv, BackReaches
  <2> QED BY <2>1, <2>2 DEF ReachInv
<1>12. NoCycle(Tree)'
  BY <1>8 DEF SearchInv, NoCycle
<1> QED BY <1>5, <1>6, <1>9, <1>10, <1>11, <1>12 DEF SearchInv

(* The iterator on top yields a child: what becomes of the edge.           *)
LEMMA LookTree ==
    ASSUME SearchInv, NEW child \in Ends, Look(child)
    PROVE  LET top == Last(stack) IN
           /\ top \in Ends /\ color[top] = "grey" /\ <<top, child>> \in edges /\ <<top, child>> \notin Tree
           /\ edges' = edges
           /\ back' = IF color[child] = "grey" THEN back \cup {<<top, child>>} ELSE back
           /\ color' = IF color[child] = "white" THEN [color EXCEPT ![child] = "grey"] ELSE color
           /\ stack' = IF color[child] = "white" THEN Append(stack, child) ELSE stack
           /\ \A n \in Ends : todo'[n] = IF n = child /\ color[child] = "white" THEN Adjacency(child)
                                         ELSE IF n = top THEN todo[n] \ {child} ELSE todo[n]
           /\ todo' \in [Ends -> SUBSET Ends]
           /\ Tree' = IF color[child] = "grey" THEN Tree ELSE Tree \cup {<<top, child>>}
<1> DEFINE top == Last(stack)
<1>1. SearchTypes /\ StackInv /\ ExaminedInv
  BY DEF SearchInv
<1>2. stack # <<>> /\ child \in todo[top] /\ edges' = edges
  BY DEF Look, graphVars
<1>3. top \in Ends /\ color[top] = "grey"
  BY <1>1, <1>2, TopFacts
<1>4. /\ back' = IF color[child] = "grey" THEN back \cup {<<top, child>>} ELSE back
      /\ color' = IF color[child] = "white" THEN [color EXCEPT ![child] = "grey"] ELSE color
      /\ stack' = IF color[child] = "white" THEN Append(stack, child) ELSE stack
      /\ todo' = IF color[child] = "white"
                   THEN [todo EXCEPT ![top] = @ \ {child}, ![child] = Adjacency(child)]
                   ELSE [todo EXCEPT ![top] = @ \ {child}]
  BY DEF Look, GoesBack
<1> HIDE DEF top
<1>5. todo \in [Ends -> SUBSET Ends] /\ color \in [Ends -> {"white", "grey", "black"}]
      /\ Adjacency(child) \in SUBSET Ends /\ \A n \in Ends : todo[n] \subseteq Adjacency(n)
  BY <1>1 DEF SearchTypes, Adjacency
<1>6. \A n \in Ends : todo'[n] = IF n = child /\ color[child] = "white" THEN Adjacency(child)
                                 ELSE IF n = top THEN todo[n] \ {child} ELSE todo[n]
  BY <1>3, <1>4, <1>5
<1>7. todo' \in [Ends -> SUBSET Ends]
  BY <1>3, <1>4, <1>5
<1>8. <<top, child>> \in edges
  BY <1>2, <1>3, <1>5 DEF Adjacency
<1>9. <<top, child>> \notin back /\ <<top, child>> \notin Tree
  BY <1>1, <1>2 DEF ExaminedInv, BackExamined, Tree
<1>10. \A n \in Ends : color'[n] = IF n = child /\ color[child] = "white" THEN "grey" ELSE color[n]
  BY <1>4, <1>5
<1>11. \A e \in edges : e = <<e[1], e[2]>> /\ e[1] \in Ends /\ e[2] \in Ends /\ e[2] \in Adjacency(e[1])
  BY <1>1 DEF SearchTypes, Adjacency
<1>12. ASSUME NEW e \in edges, e # <<top, child>> PROVE e \in Tree' <=> e \in Tree
  <2>1. e \in back' <=> e \in back
    BY <1>4, <1>12
  <2>2. CASE e[1] = child /\ color[child] = "white"
    BY <1>2, <1>6, <1>11, <2>2 DEF Tree
  <2>3. CASE ~(e[1] = child /\ color[child] = "white")
    <3>1. color'[e[1]] = color[e[1]]
      BY <1>10, <1>11, <2>3
    <3>2. e[2] \in todo'[e[1]] <=> e[2] \in todo[e[1]]
      BY <1>6, <1>11, <1>12, <2>3
    <3> QED BY <1>2, <2>1, <3>1, <3>2 DEF Tree
  <2> QED BY <2>2, <2>3
<1>13. <<top, child>> \in Tree' <=> color[child] # "grey"
  <2>1. color'[top] # "white"
    BY <1>3, <1>10
  <2>2. child \notin todo'[top]
    BY <1>3, <1>6
  <2>3. <<top, child>> \in back' <=> color[child] = "grey"
    BY <1>4, <1>9
  <2> QED BY <1>2, <1>8, <2>1, <2>2, <2>3 DEF Tree
<1>14. Tree' = IF color[child] = "grey" THEN Tree ELSE Tree \cup {<<top, child>>}
  <2>1. Tree' \subseteq edges /\ Tree \subseteq edges
    BY <1>2 DEF Tree
  <2> QED BY <1>8, <1>9, <1>12, <1>13, <2>1
<1> QED BY <1>2, <1>3, <1>4, <1>6, <1>7, <1>8, <1>9, <1>14 DEF top

(* A new tree edge closes no cycle: from a white node nothing was looked   *)
(* at, and from a black one only black ones are reached.                   *)
LEMMA LookNoCycle ==
    ASSUME SearchInv, NEW child \in Ends, Look(child)
    PROVE  NoCycle(Tree')
<1> DEFINE top == Last(stack)
<1>1. /\ top \in Ends /\ color[top] = "grey"
      /\ Tree' = IF color[child] = "grey" THEN Tree ELSE Tree \cup {<<top, child>>}
  BY LookTree
<1> HIDE DEF top
<1>2. NoCycle(Tree) /\ SearchTypes /\ StackInv
  BY DEF SearchInv
<1>3. CASE color[child] = "grey"
  BY <1>1, <1>2, <1>3
<1>4. CASE color[child] # "grey"
  <2> SUFFICES ASSUME NEW T \in SUBSET Ends, T # {}
               PROVE  \E n \in T : \A m \in T : <<m, n>> \notin Tree \cup {<<top, child>>}
    BY <1>1, <1>4 DEF NoCycle
  <2>1. CASE color[child] = "white"
    <3>1. \A m : <<child, m>> \notin Tree
      BY <2>1 DEF Tree
    <3>2. CASE T = {child}
      BY <1>1, <2>1, <3>1, <3>2
    <3>3. CASE T # {child}
      <4>1. T \ {child} \in SUBSET Ends /\ T \ {child} # {}
        BY <3>3
      <4>2. PICK n \in T \ {child} : \A m \in T \ {child} : <<m, n>> \notin Tree
        BY <1>2, <4>1 DEF NoCycle
      <4> QED BY <3>1, <4>2
    <3> QED BY <3>2, <3>3
  <2>2. CASE color[child] = "black"
    <3> DEFINE Black == {n \in Ends : color[n] = "black"}
    <3>1. \A m, n : m \in Black /\ <<m, n>> \in Tree => n \in Black
      <4> SUFFICES ASSUME NEW m \in Black, NEW n, <<m, n>> \in Tree PROVE n \in Black
        OBVIOUS
      <4>1. n \in Ends
        BY <1>2 DEF Tree, SearchTypes
      <4>2. \A i \in 1..Len(stack) : stack[i] # m
        BY <1>2 DEF StackInv, GreyIsStacked
      <4>3. color[n] = "black"
        BY <4>2 DEF SearchInv, TreeLeadsOn
      <4> QED BY <4>1, <4>3
    <3>2. child \in Black /\ top \notin Black
      BY <1>1, <2>2
    <3> HIDE DEF Black
    <3>3. CASE T \ Black # {}
      <4>1. PICK n \in T \ Black : \A m \in T \ Black : <<m, n>> \notin Tree
        BY <1>2, <3>3 DEF NoCycle
      <4> QED BY <3>1, <3>2, <4>1
    <3>4. CASE T \ Black = {}
      <4>1. PICK n \in T : \A m \in T : <<m, n>> \notin Tree
        BY <1>2 DEF NoCycle
      <4> QED BY <3>2, <3>4, <4>1
    <3> QED BY <3>3, <3>4
  <2> QED BY <1>2, <1>4, <2>1, <2>2 DEF SearchTypes
<1> QED BY <1>3, <1>4

(* The tree still leads on, and reaches what it reached.                   *)
LEMMA LookReaches ==
    ASSUME SearchInv, NEW child \in Ends, Look(child)
    PROVE  TreeLeadsOn' /\ ReachInv'
<1> DEFINE top == Last(stack)
<1>1. /\ top \in Ends /\ color[top] = "grey"
      /\ back' = IF color[child] = "grey" THEN back \cup {<<top, child>>} ELSE back
      /\ color' = IF color[child] = "white" THEN [color EXCEPT ![child] = "grey"] ELSE color
      /\ stack' = IF color[child] = "white" THEN Append(stack, child) ELSE stack
      /\ Tree' = IF color[child] = "grey" THEN Tree ELSE Tree \cup {<<top, child>>}
  BY LookTree
<1>2. SearchTypes /\ StackInv /\ stack # <<>>
  BY DEF SearchInv, Look
<1>3. /\ Len(stack) \in Nat \ {0} /\ Len(stack) \in 1..Len(stack) /\ top = stack[Len(stack)]
      /\ \A i \in 1..Len(stack) : stack[i] \in Ends
  BY <1>2, TopFacts
<1> HIDE DEF top
<1>4. \A n \in Ends : color[n] = "black" => color'[n] = "black"
  BY <1>1, <1>2 DEF SearchTypes
<1>5. \A e \in Tree : e[1] \in Ends /\ e[2] \in Ends
  BY <1>2 DEF SearchTypes, Tree
<1>6. \A S \in SUBSET Ends : ClosedUnder(S, Tree') => ClosedUnder(S, Tree)
  BY <1>1 DEF ClosedUnder
<1>7. CASE color[child] = "white"
  <2>1. /\ Len(stack') = Len(stack) + 1 /\ stack'[Len(stack')] = child
        /\ \A i \in 1..Len(stack) : stack'[i] = stack[i] /\ i \in 1..Len(stack')
        /\ \A i \in 1..Len(stack') : i \in 1..Len(stack) \/ i = Len(stack')
    <3>1. stack' = Append(stack, child) /\ stack \in Seq(Ends)
      BY <1>1, <1>2, <1>7 DEF SearchTypes
    <3> QED BY <3>1, PushedStack
  <2>2. Len(stack') \in 1..Len(stack') /\ Len(stack) < Len(stack') /\ stack'[Len(stack)] = top
    BY <1>3, <2>1
  <2>3. ASSUME NEW e \in Tree'
        PROVE  \/ color'[e[2]] = "black"
               \/ \E i, j \in 1..Len(stack') : i < j /\ stack'[i] = e[1] /\ stack'[j] = e[2]
    <3>1. CASE e \in Tree
      BY <1>4, <1>5, <2>1, <3>1 DEF SearchInv, TreeLeadsOn
    <3>2. CASE e = <<top, child>>
      BY <1>3, <2>1, <2>2, <3>2
    <3> QED BY <1>1, <2>3, <3>1, <3>2
  <2>4. ASSUME NEW S \in SUBSET Ends, ClosedUnder(S, Tree'),
               NEW i \in 1..Len(stack'), NEW j \in 1..Len(stack'), i < j, stack'[i] \in S
        PROVE  stack'[j] \in S
    <3>1. i \in 1..Len(stack) /\ stack[i] \in S
      BY <1>3, <2>1, <2>4
    <3>2. ClosedUnder(S, Tree)
      BY <1>6, <2>4
    <3>3. CASE j \in 1..Len(stack)
      BY <2>1, <2>4, <3>1, <3>2, <3>3 DEF SearchInv, ReachInv, StackReaches
    <3>4. CASE j = Len(stack')
      <4>1. top \in S
        <5>1. CASE i = Len(stack)
          BY <1>3, <3>1, <5>1
        <5>2. CASE i < Len(stack)
          BY <1>3, <3>1, <3>2, <5>2 DEF SearchInv, ReachInv, StackReaches
        <5> QED BY <1>3, <3>1, <5>1, <5>2
      <4>2. <<top, child>> \in Tree'
        BY <1>1, <1>7
      <4>3. child \in S
        BY <2>4, <4>1, <4>2 DEF ClosedUnder
      <4> QED BY <2>1, <3>4, <4>3
    <3> QED BY <2>1, <3>3, <3>4
  <2>5. BackReaches'
    BY <1>1, <1>6, <1>7 DEF SearchInv, ReachInv, BackReaches
  <2> QED BY <2>3, <2>4, <2>5 DEF TreeLeadsOn, ReachInv, StackReaches
<1>8. CASE color[child] # "white"
  <2>1. stack' = stack /\ color' = color
    BY <1>1, <1>8
  <2>2. TreeLeadsOn'
    <3> SUFFICES ASSUME NEW e \in Tree'
                 PROVE  \/ color[e[2]] = "black"
                        \/ \E i, j \in 1..Len(stack) : i < j /\ stack[i] = e[1] /\ stack[j] = e[2]
      BY <2>1 DEF TreeLeadsOn
    <3>1. CASE e \in Tree
      BY <3>1 DEF SearchInv, TreeLeadsOn
    <3>2. CASE e \notin Tree
      <4>1. e = <<top, child>> /\ color[child] # "grey"
        BY <1>1, <3>2
      <4> QED BY <1>2, <1>8, <4>1 DEF SearchTypes
    <3> QED BY <3>1, <3>2
  <2>3. StackReaches'
    BY <1>6, <2>1 DEF SearchInv, ReachInv, StackReaches
  <2>4. BackReaches'
    <3> SUFFICES ASSUME NEW S \in SUBSET Ends, ClosedUnder(S, Tree'), NEW e \in back', e[2] \in S
                 PROVE  e[1] \in S
      BY DEF BackReaches
    <3>1. ClosedUnder(S, Tree)
      BY <1>6
    <3>2. CASE e \in back
      BY <3>1, <3>2 DEF SearchInv, ReachInv, BackReaches
    <3>3. CASE e \notin back
      <4>1. e = <<top, child>> /\ color[child] = "grey"
        BY <1>1, <3>3
      <4>2. PICK i \in 1..Len(stack) : stack[i] = child
        BY <1>2, <4>1 DEF StackInv, GreyIsStacked
      <4>3. CASE i = Len(stack)
        BY <1>3, <4>1, <4>2, <4>3
      <4>4. CASE i < Len(stack)
        BY <1>3, <3>1, <4>1, <4>2, <4>4 DEF SearchInv, ReachInv, StackReaches
      <4> QED BY <1>3, <4>3, <4>4
    <3> QED BY <3>2, <3>3
  <2> QED BY <2>2, <2>3, <2>4 DEF ReachInv
<1> QED BY <1>7, <1>8

(* The iterator on top yields a child.                                     *)
LEMMA LookSearches ==
    ASSUME SearchInv, NEW child \in Ends, Look(child)
    PROVE  SearchInv'
<1> DEFINE top == Last(stack)
<1>1. /\ top \in Ends /\ color[top] = "grey" /\ <<top, child>> \in edges
      /\ edges' = edges
      /\ back' = IF color[child] = "grey" THEN back \cup {<<top, child>>} ELSE back
      /\ color' = IF color[child] = "white" THEN [color EXCEPT ![child] = "grey"] ELSE color
      /\ stack' = IF color[child] = "white" THEN Append(stack, child) ELSE stack
      /\ \A n \in Ends : todo'[n] = IF n = child /\ color[child] = "white" THEN Adjacency(child)
                                    ELSE IF n = top THEN todo[n] \ {child} ELSE todo[n]
      /\ todo' \in [Ends -> SUBSET Ends]
  BY LookTree
<1> HIDE DEF top
<1>2. SearchTypes /\ StackInv /\ ExaminedInv
  BY DEF SearchInv
<1>3. /\ \A n \in Ends : color'[n] = IF n = child /\ color[child] = "white" THEN "grey" ELSE color[n]
      /\ \A n \in Ends : Adjacency(n)' = Adjacency(n)
      /\ stack \in Seq(Ends)
  BY <1>1, <1>2 DEF SearchTypes, Adjacency
<1>4. SearchTypes'
  <2>1. edges' \subseteq Ends \X Ends /\ back' \subseteq edges'
    BY <1>1, <1>2 DEF SearchTypes
  <2>2. color' \in [Ends -> {"white", "grey", "black"}]
    BY <1>1, <1>2 DEF SearchTypes
  <2>3. stack' \in Seq(Ends)
    BY <1>1, <1>3, PushedStack
  <2>4. \A n \in Ends : todo'[n] \subseteq Adjacency(n)'
    BY <1>1, <1>2, <1>3 DEF SearchTypes
  <2> QED BY <1>1, <2>1, <2>2, <2>3, <2>4 DEF SearchTypes
<1>5. StackInv'
  <2>1. CASE color[child] = "white"
    BY <1>1, <1>2, <2>1, GreyPushed
  <2>2. CASE color[child] # "white"
    BY <1>1, <1>2, <2>2 DEF StackInv, GreyIsStacked, StackedOnce
  <2> QED BY <2>1, <2>2
<1>6. BackExamined'
  <2> SUFFICES ASSUME NEW e \in back' PROVE color'[e[1]] # "white" /\ e[2] \notin todo'[e[1]]
    BY DEF BackExamined
  <2>1. CASE e \in back
    <3>1. color[e[1]] # "white" /\ e[2] \notin todo[e[1]] /\ e[1] \in Ends
      BY <1>2, <2>1 DEF ExaminedInv, BackExamined, SearchTypes
    <3> QED BY <1>1, <1>3, <3>1
  <2>2. CASE e \notin back
    <3>1. e = <<top, child>> /\ color[child] = "grey"
      BY <1>1, <2>2
    <3> QED BY <1>1, <1>3, <3>1
  <2> QED BY <2>1, <2>2
<1>7. BlackExamined'
  BY <1>1, <1>2, <1>3 DEF ExaminedInv, BlackExamined
<1>8. NoCycle(Tree)'
  <2>1. NoCycle(Tree')
    BY LookNoCycle
  <2> QED BY <2>1 DEF NoCycle
<1> QED BY <1>4, <1>5, <1>6, <1>7, <1>8, LookReaches DEF SearchInv, ExaminedInv

(* The iterator on top is exhausted: its node is done with.                *)
LEMMA BacktrackSearches ==
    ASSUME SearchInv, Backtrack
    PROVE  SearchInv'
<1> DEFINE top == Last(stack)
<1>1. /\ stack # <<>> /\ todo[top] = {} /\ color' = [color EXCEPT ![top] = "black"]
      /\ stack' = Front(stack) /\ edges' = edges /\ back' = back /\ todo' = todo
  BY DEF Backtrack, graphVars
<1>2. SearchTypes /\ StackInv /\ ExaminedInv
  BY DEF SearchInv
<1>3. /\ Len(stack) \in Nat \ {0} /\ Len(stack) \in 1..Len(stack) /\ top = stack[Len(stack)]
      /\ top \in Ends /\ color[top] = "grey" /\ stack \in Seq(Ends)
  BY <1>1, <1>2, TopFacts DEF SearchTypes
<1>4. /\ stack' \in Seq(Ends) /\ Len(stack') = Len(stack) - 1
      /\ \A i \in 1..Len(stack') : stack'[i] = stack[i] /\ i \in 1..Len(stack)
      /\ \A i \in 1..Len(stack) : i \in 1..Len(stack') \/ i = Len(stack)
      /\ \A i \in 1..Len(stack') : i # Len(stack)
  BY <1>1, <1>3, PoppedStack
<1> HIDE DEF top
<1>5. \A n \in Ends : color'[n] = IF n = top THEN "black" ELSE color[n]
  BY <1>1, <1>2 DEF SearchTypes
<1>6. \A e \in edges : e[1] \in Ends /\ e[2] \in Ends
  BY <1>2 DEF SearchTypes
<1>7. Tree' = Tree
  <2>1. \A e \in edges : color'[e[1]] # "white" <=> color[e[1]] # "white"
    BY <1>3, <1>5, <1>6
  <2> QED BY <1>1, <2>1 DEF Tree
<1>8. SearchTypes'
  <2>1. color' \in [Ends -> {"white", "grey", "black"}]
    BY <1>1, <1>2 DEF SearchTypes
  <2> QED BY <1>1, <1>2, <1>4, <2>1 DEF SearchTypes, Adjacency
<1>9. StackInv'
  <2>1. GreyIsStacked'
    <3> SUFFICES ASSUME NEW n \in Ends
                 PROVE  color'[n] = "grey" <=> \E i \in 1..Len(stack') : stack'[i] = n
      BY DEF GreyIsStacked
    <3>1. CASE n = top
      <4>1. ASSUME NEW i \in 1..Len(stack'), stack'[i] = top PROVE FALSE
        <5>1. i \in 1..Len(stack) /\ stack[i] = stack[Len(stack)] /\ i # Len(stack)
          BY <1>3, <1>4, <4>1
        <5>2. \A k, m \in 1..Len(stack) : stack[k] = stack[m] => k = m
          BY <1>2 DEF StackInv, StackedOnce
        <5> QED BY <1>3, <5>1, <5>2
      <4> QED BY <1>5, <3>1, <4>1
    <3>2. CASE n # top
      <4>1. (\E i \in 1..Len(stack) : stack[i] = n) <=> (\E i \in 1..Len(stack') : stack'[i] = n)
        BY <1>3, <1>4, <3>2
      <4>2. color'[n] = color[n]
        BY <1>5, <3>2
      <4> QED BY <1>2, <4>1, <4>2 DEF StackInv, GreyIsStacked
    <3> QED BY <3>1, <3>2
  <2>2. StackedOnce'
    BY <1>2, <1>4 DEF StackInv, StackedOnce
  <2> QED BY <2>1, <2>2 DEF StackInv
<1>10. ExaminedInv'
  <2>1. BackExamined'
    <3> SUFFICES ASSUME NEW e \in back PROVE color'[e[1]] # "white" /\ e[2] \notin todo[e[1]]
      BY <1>1 DEF BackExamined
    <3>1. color[e[1]] # "white" /\ e[2] \notin todo[e[1]] /\ e[1] \in Ends
      BY <1>2 DEF ExaminedInv, BackExamined, SearchTypes
    <3> QED BY <1>5, <3>1
  <2>2. BlackExamined'
    BY <1>1, <1>2, <1>5 DEF ExaminedInv, BlackExamined
  <2> QED BY <2>1, <2>2 DEF ExaminedInv
<1>11. TreeLeadsOn'
  <2> SUFFICES ASSUME NEW e \in Tree
               PROVE  \/ color'[e[2]] = "black"
                      \/ \E i, j \in 1..Len(stack') : i < j /\ stack'[i] = e[1] /\ stack'[j] = e[2]
    BY <1>7 DEF TreeLeadsOn
  <2>1. e[2] \in Ends
    BY <1>6 DEF Tree
  <2>2. CASE color[e[2]] = "black"
    BY <1>5, <2>1, <2>2
  <2>3. ASSUME NEW i \in 1..Len(stack), NEW j \in 1..Len(stack), i < j,
               stack[i] = e[1], stack[j] = e[2]
        PROVE  \/ color'[e[2]] = "black"
               \/ \E k, m \in 1..Len(stack') : k < m /\ stack'[k] = e[1] /\ stack'[m] = e[2]
    <3>1. CASE j = Len(stack)
      BY <1>3, <1>5, <2>1, <2>3, <3>1
    <3>2. CASE j # Len(stack)
      <4>1. i \in 1..Len(stack') /\ j \in 1..Len(stack')
        BY <1>3, <1>4, <2>3, <3>2
      <4> QED BY <1>4, <2>3, <4>1
    <3> QED BY <3>1, <3>2
  <2> QED BY <2>2, <2>3 DEF SearchInv, TreeLeadsOn
<1>12. ReachInv'
  <2>1. StackReaches'
    BY <1>4, <1>7 DEF SearchInv, ReachInv, StackReaches
  <2>2. BackReaches'
    BY <1>1, <1>7 DEF SearchInv, ReachInv, BackReaches
  <2> QED BY <2>1, <2>2 DEF ReachInv
<1>13. NoCycle(Tree)'
  BY <1>7 DEF SearchInv, NoCycle
<1> QED BY <1>8, <1>9, <1>10, <1>11, <1>12, <1>13 DEF SearchInv

(* The search keeps its invariant, and the rest of the layout leaves it be. *)
LEMMA SearchFrame ==
    ASSUME SearchInv, UNCHANGED <<edges, searchVars>>
    PROVE  SearchInv'
<1>1. edges' = edges /\ color' = color /\ stack' = stack /\ back' = back /\ todo' = todo
  BY DEF searchVars
<1>2. Tree' = Tree
  BY <1>1 DEF Tree
<1>3. SearchTypes' /\ StackInv' /\ ExaminedInv'
  BY <1>1 DEF SearchInv, SearchTypes, Adjacency, StackInv, GreyIsStacked, StackedOnce,
              ExaminedInv, BackExamined, BlackExamined
<1>4. TreeLeadsOn' /\ ReachInv' /\ NoCycle(Tree)'
  BY <1>1, <1>2 DEF SearchInv, TreeLeadsOn, ReachInv, StackReaches, BackReaches, NoCycle
<1> QED BY <1>3, <1>4 DEF SearchInv

LEMMA SearchInit == Init => SearchInv
<1> SUFFICES ASSUME Init PROVE SearchInv
  OBVIOUS
<1>1. /\ edges \subseteq Ends \X Ends /\ back = {} /\ stack = <<>>
      /\ color = [n \in Ends |-> "white"] /\ todo = [n \in Ends |-> {}]
  BY DEF Init, kSubset
<1>2. SearchTypes
  BY <1>1 DEF SearchTypes
<1>3. Tree = {}
  BY <1>1 DEF Tree
<1>4. StackInv /\ ExaminedInv
  BY <1>1 DEF StackInv, GreyIsStacked, StackedOnce, ExaminedInv, BackExamined, BlackExamined
<1>5. TreeLeadsOn /\ ReachInv /\ NoCycle(Tree)
  BY <1>1, <1>3 DEF TreeLeadsOn, ReachInv, StackReaches, BackReaches, NoCycle
<1> QED BY <1>2, <1>4, <1>5 DEF SearchInv

LEMMA SearchInvariant == Spec => []SearchInv
<1>1. SearchInv /\ [Next]_vars => SearchInv'
  <2> SUFFICES ASSUME SearchInv, [Next]_vars PROVE SearchInv'
    OBVIOUS
  <2>1. CASE StartLayers \/ Park \/ OrderWithinLayers \/ UNCHANGED vars \/ \E n \in Nodes : TakeReady(n)
    BY <2>1, SearchFrame
       DEF StartLayers, Park, OrderWithinLayers, TakeReady, vars, graphVars
  <2> QED BY <2>1, VisitSearches, LookSearches, BacktrackSearches DEF Next
<1> QED BY <1>1, SearchInit, PTL DEF Spec

(* Only cycles are drawn as return arcs: whatever is closed under the other *)
(* edges and has the target of an arc has its source.                      *)
THEOREM CyclesCorrect == Spec => []BackEdgesCloseCycles
<1>1. SearchInv => BackEdgesCloseCycles
  <2> SUFFICES ASSUME SearchInv, NEW e \in back, NEW S \in SUBSET Ends,
                      e[2] \in S, \A f \in edges \ back : f[1] \in S => f[2] \in S
               PROVE  e[1] \in S
    BY DEF BackEdgesCloseCycles
  <2>1. ClosedUnder(S, Tree)
    BY DEF ClosedUnder, Tree
  <2> QED BY <2>1 DEF SearchInv, ReachInv, BackReaches
<1> QED BY <1>1, SearchInvariant, PTL

-----------------------------------------------------------------------------
(* The layers.                                                             *)

Searched == \A n \in Nodes : color[n] = "black"

\* Before the layering nothing is layered.
NotLayered == seen = {} /\ ready = {} /\ \A n \in Nodes : layer[n] = 0 /\ remaining[n] = 0

\* A node is ready once its parents were taken, and what was taken lies above
\* its children for good.
Taken ==
    /\ seen \cap ready = {}
    /\ \A n \in Nodes : n \in ready \cup seen <=> Incoming(n) \subseteq seen
    /\ \A n \in Nodes : remaining[n] = Cardinality(Incoming(n) \ seen)
AboveChildren == \A m, n \in Nodes : m \in seen /\ m \in Incoming(n) => layer[m] < layer[n]

\* A layer has one above it, and is at most the number of nodes taken.
HasLayerAbove(from) == \A n \in Nodes : layer[n] = 0 \/ \E m \in from : layer[n] = layer[m] + 1
Shallow == \A n \in Nodes : layer[n] <= Cardinality(seen) /\ layer[n] < Cardinality(Nodes)

Layering == Taken /\ AboveChildren /\ HasLayerAbove(seen) /\ Shallow
Layered == (\A m, n \in Nodes : m \in Incoming(n) => layer[m] < layer[n]) /\ HasLayerAbove(Nodes)

LayerTypes ==
    /\ pc \in {"search", "layer", "order", "drawn"}
    /\ layer \in [Nodes -> Nat] /\ \A n \in Nodes : layer[n] < Cardinality(Nodes)
    /\ remaining \in [Nodes -> 0..Cardinality(Nodes)]
    /\ ready \subseteq Nodes /\ seen \subseteq Nodes

LayerInv ==
    /\ pc = "search" => NotLayered
    /\ pc # "search" => Searched
    /\ pc = "layer" => Layering
    /\ pc \in {"order", "drawn"} => Layered

(* Facts about the sizes of sets of nodes.                                 *)
LEMMA NodeSets ==
    /\ IsFiniteSet(Nodes) /\ Cardinality(Nodes) \in Nat \ {0}
    /\ \A S \in SUBSET Nodes : IsFiniteSet(S) /\ Cardinality(S) \in 0..Cardinality(Nodes)
    /\ \A S \in SUBSET Nodes : Nodes \ S # {} => Cardinality(S) < Cardinality(Nodes)
<1>1. IsFiniteSet(Nodes) /\ Cardinality(Nodes) \in Nat /\ Cardinality(Nodes) # 0
  BY NodesAssumption, FS_CardinalityType, FS_EmptySet
<1>2. ASSUME NEW S \in SUBSET Nodes
      PROVE  IsFiniteSet(S) /\ Cardinality(S) \in 0..Cardinality(Nodes)
  <2>1. IsFiniteSet(S) /\ Cardinality(S) <= Cardinality(Nodes)
    BY <1>1, FS_Subset
  <2>2. Cardinality(S) \in Nat
    BY <2>1, FS_CardinalityType
  <2> QED BY <1>1, <2>1, <2>2
<1>3. ASSUME NEW S \in SUBSET Nodes, Nodes \ S # {} PROVE Cardinality(S) < Cardinality(Nodes)
  <2>1. S # Nodes
    BY <1>3
  <2>2. Cardinality(S) <= Cardinality(Nodes) /\ (Cardinality(S) = Cardinality(Nodes) => S = Nodes)
    BY <1>1, FS_Subset
  <2> QED BY <1>1, <1>2, <2>1, <2>2
<1> QED BY <1>1, <1>2, <1>3

(* The forward edges are tree edges once the search is over, so they close *)
(* no cycle.                                                               *)
LEMMA ForwardNoCycle ==
    ASSUME SearchInv, Searched, NEW T \in SUBSET Nodes, T # {}
    PROVE  \E n \in T : \A m \in T : m \notin Incoming(n)
<1>1. Forward \subseteq Tree
  <2> SUFFICES ASSUME NEW e \in Forward PROVE e \in Tree
    OBVIOUS
  <2>1. e \in edges /\ e \notin back /\ e[1] \in Nodes /\ e[1] \in Ends
    BY DEF Forward, Ends
  <2>2. color[e[1]] = "black" /\ todo[e[1]] = {}
    BY <2>1 DEF Searched, SearchInv, ExaminedInv, BlackExamined
  <2> QED BY <2>1, <2>2 DEF Tree
<1>2. T \in SUBSET Ends
  BY DEF Ends
<1>3. PICK n \in T : \A m \in T : <<m, n>> \notin Tree
  BY <1>2 DEF SearchInv, NoCycle
<1> QED BY <1>1, <1>3 DEF Incoming

(* So whenever no node is ready, all were taken.                           *)
LEMMA AllTaken ==
    ASSUME SearchInv, Searched, Taken, ready = {}, seen \subseteq Nodes
    PROVE  seen = Nodes
<1> SUFFICES ASSUME seen # Nodes PROVE FALSE
  OBVIOUS
<1>1. Nodes \ seen \in SUBSET Nodes /\ Nodes \ seen # {}
  OBVIOUS
<1>2. PICK n \in Nodes \ seen : \A m \in Nodes \ seen : m \notin Incoming(n)
  BY <1>1, ForwardNoCycle
<1>3. Incoming(n) \subseteq seen
  BY <1>2 DEF Incoming
<1> QED BY <1>2, <1>3 DEF Taken

(* The layering starts at the nodes without parents.                       *)
LEMMA StartsLayering ==
    ASSUME SearchInv, LayerTypes, LayerInv, StartLayers
    PROVE  LayerTypes' /\ LayerInv'
<1>1. /\ pc = "search" /\ pc' = "layer" /\ stack = <<>> /\ (\A n \in Nodes : color[n] # "white")
      /\ remaining' = [n \in Nodes |-> Cardinality(Incoming(n))]
      /\ ready' = {n \in Nodes : Incoming(n) = {}}
      /\ edges' = edges /\ layer' = layer /\ seen' = seen /\ back' = back /\ color' = color
  BY DEF StartLayers, searchVars
<1>2. NotLayered
  BY <1>1 DEF LayerInv
<1>3. \A n \in Nodes : Incoming(n)' = Incoming(n) /\ Incoming(n) \subseteq Nodes
  BY <1>1 DEF Incoming, Forward
<1>4. Searched'
  <2>1. \A n \in Nodes : color[n] # "grey"
    <3>1. 1..Len(stack) = {}
      BY <1>1
    <3> QED BY <3>1 DEF SearchInv, StackInv, GreyIsStacked, Ends
  <2> QED BY <1>1, <2>1 DEF SearchInv, SearchTypes, Searched, Ends
<1>5. Taken'
  <2>1. \A n \in Nodes : Incoming(n) \ {} = Incoming(n)
    OBVIOUS
  <2> QED BY <1>1, <1>2, <1>3, <2>1 DEF Taken, NotLayered
<1>6. AboveChildren' /\ HasLayerAbove(seen)'
  BY <1>1, <1>2 DEF AboveChildren, HasLayerAbove, NotLayered
<1>7. Shallow'
  <2>1. Cardinality({}) = 0
    BY FS_EmptySet
  <2> QED BY <1>1, <1>2, <2>1, NodeSets DEF Shallow, NotLayered, LayerTypes
<1>8. LayerTypes'
  <2>1. remaining' \in [Nodes -> 0..Cardinality(Nodes)]
    BY <1>1, <1>3, NodeSets
  <2> QED BY <1>1, <2>1 DEF LayerTypes
<1> QED BY <1>1, <1>4, <1>5, <1>6, <1>7, <1>8 DEF LayerInv, Layering

(* A node is taken: its children, none of them taken yet, sink below it.   *)
LEMMA TakesReady ==
    ASSUME SearchInv, LayerTypes, LayerInv, NEW n \in Nodes, TakeReady(n)
    PROVE  LayerTypes' /\ LayerInv'
<1> DEFINE Child(m) == n \in Incoming(m)
<1>1. /\ pc = "layer" /\ pc' = pc /\ n \in ready /\ seen' = seen \cup {n}
      /\ layer' = [m \in Nodes |-> IF m \in Outgoing(n) THEN Deeper(layer[m], layer[n]) ELSE layer[m]]
      /\ remaining' = [m \in Nodes |-> IF m \in Outgoing(n) THEN remaining[m] - 1 ELSE remaining[m]]
      /\ ready' = (ready \ {n}) \cup {m \in Outgoing(n) : remaining[m] = 1}
      /\ edges' = edges /\ back' = back /\ color' = color
  BY DEF TakeReady, graphVars, searchVars
<1>2. Layering /\ Searched /\ Taken /\ AboveChildren /\ HasLayerAbove(seen) /\ Shallow
  BY <1>1 DEF LayerInv, Layering
<1>3. \A m \in Nodes : m \in Outgoing(n) <=> Child(m)
  BY DEF Outgoing, Incoming
<1>4. \A m \in Nodes : Incoming(m)' = Incoming(m) /\ Incoming(m) \subseteq Nodes
  BY <1>1 DEF Incoming, Forward
<1>5. Outgoing(n) \subseteq Nodes
  BY DEF Outgoing
<1>6. n \notin seen /\ Incoming(n) \subseteq seen
  BY <1>1, <1>2 DEF Taken
<1>7. \A m \in Nodes : Child(m) => m \notin seen /\ m \notin ready /\ m # n
  BY <1>2, <1>6 DEF Taken
<1>8. /\ \A m \in Nodes : ~Child(m) => layer'[m] = layer[m]
      /\ \A m \in Nodes : Child(m) => layer'[m] = Deeper(layer[m], layer[n])
      /\ \A m \in Nodes : layer[m] \in Nat
  BY <1>1, <1>3 DEF LayerTypes
<1>9. \A m \in Nodes : Child(m) =>
         /\ layer'[m] \in Nat /\ layer'[m] >= layer[m] /\ layer'[m] > layer[n]
         /\ layer'[m] = layer[m] \/ layer'[m] = layer[n] + 1
  BY <1>8 DEF Deeper
<1>10. \A m \in Nodes : layer'[m] \in Nat /\ (m \in seen' => layer'[m] = layer[m])
  BY <1>1, <1>7, <1>8, <1>9
<1>11. /\ \A m \in Nodes : ~Child(m) => remaining'[m] = remaining[m]
       /\ \A m \in Nodes : Child(m) => remaining'[m] = remaining[m] - 1
  BY <1>1, <1>3
<1>12. ASSUME NEW m \in Nodes
       PROVE  /\ remaining'[m] = Cardinality(Incoming(m) \ seen')
              /\ Child(m) => (remaining[m] = 1 <=> Incoming(m) \subseteq seen')
              /\ ~Child(m) => (Incoming(m) \subseteq seen' <=> Incoming(m) \subseteq seen)
  <2> DEFINE P == Incoming(m) \ seen
  <2>1. Incoming(m) \ seen' = P \ {n}
    BY <1>1
  <2>2. IsFiniteSet(P) /\ Cardinality(P) \in Nat /\ remaining[m] = Cardinality(P)
    <3>1. P \in SUBSET Nodes
      BY <1>4
    <3> QED BY <1>2, <3>1, NodeSets DEF Taken
  <2>3. n \in P <=> Child(m)
    BY <1>6
  <2>4. Incoming(m) \subseteq seen' <=> P \ {n} = {}
    BY <1>1
  <2>5. ~Child(m) => (Incoming(m) \subseteq seen' <=> Incoming(m) \subseteq seen)
    BY <1>1
  <2> HIDE DEF P
  <2>6. /\ IsFiniteSet(P \ {n})
        /\ Cardinality(P \ {n}) = IF n \in P THEN Cardinality(P) - 1 ELSE Cardinality(P)
    BY <2>2, FS_RemoveElement
  <2>7. Cardinality(P \ {n}) = 0 <=> P \ {n} = {}
    BY <2>6, FS_EmptySet
  <2>8. remaining'[m] = Cardinality(Incoming(m) \ seen')
    BY <1>11, <2>1, <2>2, <2>3, <2>6
  <2>9. Child(m) => (remaining[m] = 1 <=> Incoming(m) \subseteq seen')
    BY <2>2, <2>3, <2>4, <2>6, <2>7
  <2> QED BY <2>5, <2>8, <2>9
<1>13. \A m \in Nodes : m \in ready' <=> (m \in ready /\ m # n) \/ (Child(m) /\ remaining[m] = 1)
  BY <1>1, <1>3
<1> HIDE DEF Child
<1>14. Taken'
  <2>1. seen' \cap ready' = {}
    <3>1. \A m \in seen' : m \in Nodes
      BY <1>1 DEF LayerTypes
    <3> QED BY <1>1, <1>2, <1>7, <1>13, <3>1 DEF Taken
  <2>2. ASSUME NEW m \in Nodes PROVE m \in ready' \cup seen' <=> Incoming(m)' \subseteq seen'
    <3>1. m \in ready \cup seen <=> Incoming(m) \subseteq seen
      BY <1>2 DEF Taken
    <3>2. Incoming(m)' = Incoming(m)
      BY <1>4
    <3>3. m \in seen' <=> m \in seen \/ m = n
      BY <1>1
    <3>4. CASE Child(m)
      <4>1. m \notin seen /\ m \notin ready /\ m # n
        BY <1>7, <3>4
      <4>2. m \in ready' <=> Incoming(m) \subseteq seen'
        BY <1>12, <1>13, <3>4, <4>1
      <4> QED BY <3>2, <3>3, <4>1, <4>2
    <3>5. CASE ~Child(m)
      <4>1. m \in ready' <=> m \in ready /\ m # n
        BY <1>13, <3>5
      <4>2. Incoming(m) \subseteq seen' <=> Incoming(m) \subseteq seen
        BY <1>12, <3>5
      <4>3. n \in ready
        BY <1>1
      <4> QED BY <3>1, <3>2, <3>3, <4>1, <4>2, <4>3
    <3> QED BY <3>4, <3>5
  <2>3. \A m \in Nodes : remaining'[m] = Cardinality(Incoming(m)' \ seen')
    BY <1>4, <1>12
  <2> QED BY <2>1, <2>2, <2>3 DEF Taken
<1>15. AboveChildren'
  <2> SUFFICES ASSUME NEW m \in Nodes, NEW k \in Nodes, m \in seen', m \in Incoming(k)
               PROVE  layer'[m] < layer'[k]
    BY <1>4 DEF AboveChildren
  <2>1. layer'[m] = layer[m] /\ layer[m] \in Nat /\ layer[k] \in Nat
    BY <1>8, <1>10
  <2>2. CASE m = n
    <3>1. Child(k)
      BY <2>2 DEF Child
    <3> QED BY <1>9, <2>1, <2>2, <3>1
  <2>3. CASE m # n
    <3>1. layer[m] < layer[k]
      BY <1>1, <1>2, <2>3 DEF AboveChildren
    <3>2. layer'[k] \in Nat /\ layer'[k] >= layer[k]
      BY <1>8, <1>9
    <3> QED BY <2>1, <3>1, <3>2
  <2> QED BY <2>2, <2>3
<1>16. HasLayerAbove(seen)'
  <2> SUFFICES ASSUME NEW m \in Nodes PROVE layer'[m] = 0 \/ \E k \in seen' : layer'[m] = layer'[k] + 1
    BY DEF HasLayerAbove
  <2>1. \A k \in seen' : layer'[k] = layer[k]
    BY <1>1, <1>10 DEF LayerTypes
  <2>2. CASE layer'[m] = layer[m]
    BY <1>1, <1>2, <2>1, <2>2 DEF HasLayerAbove
  <2>3. CASE layer'[m] = layer[n] + 1
    BY <1>1, <2>1, <2>3
  <2> QED BY <1>8, <1>9, <2>2, <2>3
<1>17. /\ Cardinality(seen) \in Nat /\ Cardinality(seen') = Cardinality(seen) + 1
       /\ Cardinality(Nodes) \in Nat /\ seen' \subseteq Nodes
  <2>1. seen \in SUBSET Nodes
    BY DEF LayerTypes
  <2>2. IsFiniteSet(seen) /\ Cardinality(seen) \in Nat
    BY <2>1, NodeSets
  <2>3. Cardinality(seen \cup {n}) = IF n \in seen THEN Cardinality(seen) ELSE Cardinality(seen) + 1
    BY <2>2, FS_AddElement
  <2> QED BY <1>1, <1>6, <2>1, <2>2, <2>3, NodeSets
<1>18. ASSUME NEW m \in Nodes
       PROVE  layer'[m] <= Cardinality(seen') /\ layer'[m] < Cardinality(Nodes)
  <2>1. /\ layer[m] <= Cardinality(seen) /\ layer[m] < Cardinality(Nodes)
        /\ layer[n] <= Cardinality(seen)
    BY <1>2 DEF Shallow
  <2>2. CASE layer'[m] = layer[m]
    BY <1>8, <1>17, <2>1, <2>2
  <2>3. CASE Child(m) /\ layer'[m] = layer[n] + 1
    <3>1. m \in Nodes \ seen'
      BY <1>1, <1>7, <2>3
    <3>2. Cardinality(seen') < Cardinality(Nodes)
      BY <1>17, <3>1, NodeSets
    <3> QED BY <1>8, <1>17, <2>1, <2>3, <3>2
  <2> QED BY <1>8, <1>9, <2>2, <2>3
<1>19. LayerTypes'
  <2>1. layer' \in [Nodes -> Nat]
    BY <1>1, <1>10
  <2>2. \A m \in Nodes : remaining'[m] \in 0..Cardinality(Nodes)
    <3>1. \A m \in Nodes : Incoming(m) \ seen' \in SUBSET Nodes
      BY <1>4
    <3> QED BY <1>12, <3>1, NodeSets
  <2>3. remaining' \in [Nodes -> 0..Cardinality(Nodes)]
    BY <1>1, <2>2
  <2>4. ready' \subseteq Nodes
    BY <1>1, <1>5 DEF LayerTypes
  <2> QED BY <1>1, <1>17, <1>18, <2>1, <2>3, <2>4 DEF LayerTypes
<1>20. Searched'
  BY <1>1, <1>2 DEF Searched
<1>21. Shallow'
  BY <1>18 DEF Shallow
<1> QED BY <1>1, <1>14, <1>15, <1>16, <1>19, <1>20, <1>21 DEF LayerInv, Layering

(* No node is parked: every one was reached.                               *)
LEMMA ParksNone ==
    ASSUME SearchInv, LayerTypes, LayerInv, Park
    PROVE  LayerTypes' /\ LayerInv' /\ layer' = layer
<1>1. /\ pc = "layer" /\ pc' = "order" /\ ready = {} /\ ready' = ready /\ seen' = seen
      /\ remaining' = remaining /\ edges' = edges /\ back' = back /\ color' = color
      /\ layer' = [n \in Nodes |-> IF n \notin seen /\ Incoming(n) # {}
                                   THEN Max({layer[m] : m \in Incoming(n)}) + 1
                                   ELSE layer[n]]
  BY DEF Park, searchVars
<1>2. Layering /\ Searched
  BY <1>1 DEF LayerInv
<1>3. seen = Nodes
  BY <1>1, <1>2, AllTaken DEF Layering, LayerTypes
<1>4. layer' = layer
  <2>1. layer' = [n \in Nodes |-> layer[n]]
    BY <1>1, <1>3
  <2> QED BY <2>1 DEF LayerTypes
<1>5. \A n \in Nodes : Incoming(n)' = Incoming(n)
  BY <1>1 DEF Incoming, Forward
<1>6. Layered'
  <2>1. \A m, n \in Nodes : m \in Incoming(n) => layer[m] < layer[n]
    BY <1>2, <1>3 DEF Layering, AboveChildren
  <2>2. HasLayerAbove(Nodes)
    BY <1>2, <1>3 DEF Layering
  <2> QED BY <1>4, <1>5, <2>1, <2>2 DEF Layered, HasLayerAbove
<1>7. LayerTypes'
  BY <1>1, <1>4 DEF LayerTypes
<1>8. Searched'
  BY <1>1, <1>2 DEF Searched
<1> QED BY <1>1, <1>4, <1>6, <1>7, <1>8 DEF LayerInv

(* The sweeps find the layer above every layer but the first, which is 0.  *)
LEMMA FindsLayerAbove ==
    ASSUME LayerTypes, HasLayerAbove(Nodes)
    PROVE  \A d \in Layers \ {Min(Layers)} : d - 1 \in Layers
<1>1. Layers \subseteq Nat /\ Layers # {}
  BY NodesAssumption DEF LayerTypes, Layers
<1>2. PICK d \in Layers : \A x \in Layers : <<x, d>> \notin OpToRel(<, Nat)
  BY <1>1, NatLessThanWellFounded, WFMin
<1>3. \A x \in Layers : ~(x < d)
  <2> SUFFICES ASSUME NEW x \in Layers, x < d PROVE FALSE
    OBVIOUS
  <2>1. <<x, d>> \in Nat \X Nat /\ <<x, d>>[1] < <<x, d>>[2]
    BY <1>1
  <2> QED BY <1>2, <2>1 DEF OpToRel
<1>4. \A x \in Layers : d <= x
  BY <1>1, <1>3
<1>5. Min(Layers) \in Layers /\ \A x \in Layers : Min(Layers) <= x
  BY <1>4 DEF Min
<1> SUFFICES ASSUME NEW x \in Layers, x # Min(Layers) PROVE x - 1 \in Layers
  OBVIOUS
<1>6. x # 0
  <2>1. Min(Layers) \in Nat /\ Min(Layers) <= x
    BY <1>1, <1>5
  <2> QED BY <2>1
<1>7. PICK n \in Nodes : layer[n] = x
  BY DEF Layers
<1>8. PICK m \in Nodes : layer[n] = layer[m] + 1
  BY <1>6, <1>7 DEF HasLayerAbove
<1>9. layer[m] \in Nat /\ layer[m] \in Layers
  BY DEF LayerTypes, Layers
<1> QED BY <1>7, <1>8, <1>9

LEMMA LayerInvariant == Spec => [](SearchInv /\ LayerTypes /\ LayerInv)
<1>1. Init => LayerTypes /\ LayerInv
  BY NodeSets DEF Init, LayerTypes, LayerInv, NotLayered
<1>2. SearchInv /\ LayerTypes /\ LayerInv /\ [Next]_vars => LayerTypes' /\ LayerInv'
  <2> SUFFICES ASSUME SearchInv, LayerTypes, LayerInv, [Next]_vars PROVE LayerTypes' /\ LayerInv'
    OBVIOUS
  <2>1. CASE (\E n \in Nodes : Visit(n)) \/ (\E n \in Ends : Look(n)) \/ Backtrack
    <3>1. /\ pc = "search" /\ pc' = pc /\ layer' = layer /\ ready' = ready
          /\ remaining' = remaining /\ seen' = seen
      BY <2>1 DEF Visit, Look, Backtrack, graphVars, layerVars
    <3> QED BY <3>1 DEF LayerTypes, LayerInv, NotLayered
  <2>2. CASE OrderWithinLayers
    <3>1. /\ pc = "order" /\ edges' = edges /\ back' = back /\ color' = color
          /\ layer' = layer /\ ready' = ready /\ remaining' = remaining /\ seen' = seen
          /\ pc' = IF \A d \in Layers \ {Min(Layers)} : d - 1 \in Layers THEN "drawn" ELSE "raised"
      BY <2>2 DEF OrderWithinLayers, searchVars, layerVars
    <3>2. Layered /\ Searched
      BY <3>1 DEF LayerInv
    <3>3. pc' = "drawn"
      BY <3>1, <3>2, FindsLayerAbove DEF Layered
    <3>4. \A n \in Nodes : Incoming(n)' = Incoming(n)
      BY <3>1 DEF Incoming, Forward
    <3> QED BY <3>1, <3>2, <3>3, <3>4 DEF LayerTypes, LayerInv, Layered, HasLayerAbove, Searched
  <2>3. CASE UNCHANGED vars
    <3>1. /\ pc' = pc /\ edges' = edges /\ back' = back /\ color' = color
          /\ layer' = layer /\ ready' = ready /\ remaining' = remaining /\ seen' = seen
      BY <2>3 DEF vars, graphVars, searchVars, layerVars
    <3>2. \A n \in Nodes : Incoming(n)' = Incoming(n)
      BY <3>1 DEF Incoming, Forward
    <3>3. LayerTypes'
      BY <3>1 DEF LayerTypes
    <3>4. Searched' = Searched /\ NotLayered' = NotLayered
      BY <3>1 DEF Searched, NotLayered
    <3>5. Layering => Layering'
      BY <3>1, <3>2 DEF Layering, Taken, AboveChildren, HasLayerAbove, Shallow
    <3>6. Layered => Layered'
      BY <3>1, <3>2 DEF Layered, HasLayerAbove
    <3> QED BY <3>1, <3>3, <3>4, <3>5, <3>6 DEF LayerInv
  <2> QED BY <2>1, <2>2, <2>3, StartsLayering, TakesReady, ParksNone DEF Next
<1> QED BY <1>1, <1>2, SearchInvariant, PTL DEF Spec

(* The variables' types; a layer is at most the length of a path, and the  *)
(* search's stack holds no node twice.                                     *)
THEOREM TypeCorrect == Spec => []TypeOK
<1>1. SearchInv /\ LayerTypes => TypeOK
  <2> SUFFICES ASSUME SearchInv, LayerTypes PROVE TypeOK
    OBVIOUS
  <2>1. Len(stack) <= Cardinality(Ends)
    <3>1. stack \in Seq(Ends) /\ Len(stack) \in Nat /\ stack \in [1..Len(stack) -> Ends]
      BY DEF SearchInv, SearchTypes
    <3>2. stack \in Injection(1..Len(stack), Ends)
      BY <3>1 DEF SearchInv, StackInv, StackedOnce, Injection, IsInjective
    <3>3. IsFiniteSet(Ends)
      BY NodesAssumption, FS_Union DEF Ends
    <3>4. Cardinality(1..Len(stack)) <= Cardinality(Ends)
      BY <3>2, <3>3, FS_Injection
    <3>5. Cardinality(1..Len(stack)) = Len(stack)
      <4>1. 1 \in Int /\ Len(stack) \in Int
        BY <3>1
      <4>2. Cardinality(1..Len(stack)) = IF 1 > Len(stack) THEN 0 ELSE Len(stack) - 1 + 1
        BY <4>1, FS_Interval
      <4> QED BY <3>1, <4>2
    <3> QED BY <3>4, <3>5
  <2>2. layer \in [Nodes -> 0..Cardinality(Nodes) - 1]
    <3>1. \A n \in Nodes : layer[n] \in 0..Cardinality(Nodes) - 1
      BY NodeSets DEF LayerTypes
    <3> QED BY <3>1 DEF LayerTypes
  <2> QED BY <2>1, <2>2 DEF SearchInv, SearchTypes, LayerTypes, TypeOK
<1> QED BY <1>1, LayerInvariant, PTL

(* Every edge that is not a return arc leads down the page and on to a      *)
(* later stage, whichever nodes the stepper skips, and the sweeps never    *)
(* miss a layer.                                                           *)
THEOREM StagesCorrect == Spec => []StagesAdvance
<1>1. SearchInv /\ LayerTypes /\ LayerInv => StagesAdvance
  <2> SUFFICES ASSUME SearchInv, LayerTypes, LayerInv, pc = "drawn", NEW e \in Forward
               PROVE  /\ layer[e[1]] < layer[e[2]]
                      /\ \A skip \in SUBSET Nodes :
                            e[1] \notin skip /\ e[2] \notin skip => Stage(e[1], skip) < Stage(e[2], skip)
    BY DEF StagesAdvance, LayerTypes
  <2>1. e[1] \in Nodes /\ e[2] \in Nodes /\ layer[e[1]] < layer[e[2]]
    <3>1. e[1] \in Nodes /\ e[2] \in Nodes /\ e = <<e[1], e[2]>>
      BY DEF Forward, SearchInv, SearchTypes
    <3>2. e[1] \in Incoming(e[2])
      BY <3>1 DEF Incoming
    <3> QED BY <3>1, <3>2 DEF LayerInv, Layered
  <2> DEFINE from == layer[e[1]]
             to == layer[e[2]]
  <2>2. from \in Nat /\ to \in Nat /\ from < to
    BY <2>1 DEF LayerTypes
  <2>3. ASSUME NEW skip \in SUBSET Nodes, e[1] \notin skip, e[2] \notin skip
        PROVE  Stage(e[1], skip) < Stage(e[2], skip)
    <3> DEFINE L == {layer[m] : m \in Nodes \ skip}
               A == {d \in L : d <= from}
               B == {d \in L : d <= to}
    <3>1. L \subseteq Nat /\ to \in L
      BY <2>1, <2>3 DEF LayerTypes
    <3>2. IsFiniteSet(L)
      <4>1. L \subseteq 0..Cardinality(Nodes)
        BY NodeSets DEF LayerTypes
      <4>2. 0 \in Int /\ Cardinality(Nodes) \in Int
        BY NodeSets
      <4>3. IsFiniteSet(0..Cardinality(Nodes))
        BY <4>2, FS_Interval
      <4> HIDE DEF L
      <4> QED BY <4>1, <4>3, FS_Subset
    <3>3. Stage(e[1], skip) = Cardinality(A) /\ Stage(e[2], skip) = Cardinality(B)
      BY DEF Stage
    <3> HIDE DEF L, from, to
    <3>4. A \subseteq L /\ B \subseteq L /\ to \notin A /\ A \cup {to} \subseteq B
      <4>1. A \subseteq L /\ B \subseteq L
        OBVIOUS
      <4>2. ~(to <= from) /\ to <= to
        BY <2>2
      <4>3. \A d \in L : d <= from => d <= to
        BY <2>2, <3>1
      <4> QED BY <3>1, <4>1, <4>2, <4>3
    <3> HIDE DEF A, B
    <3>5. IsFiniteSet(A) /\ IsFiniteSet(B) /\ Cardinality(A) \in Nat /\ Cardinality(B) \in Nat
      BY <3>2, <3>4, FS_Subset, FS_CardinalityType
    <3>6. Cardinality(A \cup {to}) = IF to \in A THEN Cardinality(A) ELSE Cardinality(A) + 1
      BY <3>5, FS_AddElement
    <3>7. Cardinality(A \cup {to}) <= Cardinality(B)
      BY <3>4, <3>5, FS_Subset
    <3> QED BY <3>3, <3>4, <3>5, <3>6, <3>7
  <2> QED BY <2>1, <2>3
<1> QED BY <1>1, LayerInvariant, PTL

=============================================================================
