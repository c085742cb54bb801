-------------------------- MODULE RalphLoopProofs ---------------------------
(***************************************************************************)
(* Proofs about Ralph loops, for any number of loops, in any nesting, with *)
(* any phases, signals and limits.                                         *)
(***************************************************************************)
EXTENDS RalphLoop, SequenceTheorems, FiniteSetTheorems, WellFoundedInduction, TLAPS

-----------------------------------------------------------------------------
(* Type correctness.                                                       *)

LEMMA FrontFacts ==
    ASSUME NEW S, NEW s \in Seq(S), s # <<>>
    PROVE  /\ Len(s) \in Nat \ {0} /\ Last(s) = s[Len(s)] /\ Last(s) \in S
           /\ Front(s) \in Seq(S) /\ Len(Front(s)) = Len(s) - 1
           /\ \A i \in 1..(Len(s) - 1) : Front(s)[i] = s[i]
<1>1. Len(s) \in Nat \ {0} /\ s[Len(s)] \in S /\ \A i \in 1..(Len(s) - 1) : s[i] \in S
  OBVIOUS
<1>2. PICK n \in Nat : n = Len(s) - 1
  BY <1>1
<1>3. Front(s) = SubSeq(s, 1, n) /\ Last(s) = s[Len(s)]
  BY <1>2 DEF Front, Last
<1>4. n \in Int /\ 1 \in Int /\ \A i \in 1..n : s[i] \in S
  BY <1>1, <1>2
<1>5. SubSeq(s, 1, n) \in Seq(S)
  BY <1>4, SubSeqProperties
<1>6. Len(SubSeq(s, 1, n)) = n
  BY <1>4, SubSeqProperties
<1>7. \A i \in 1..n : SubSeq(s, 1, n)[i] = s[i]
  BY <1>4, SubSeqProperties
<1> QED BY <1>1, <1>2, <1>3, <1>5, <1>6, <1>7

LEMMA AppendFacts ==
    ASSUME NEW S, NEW s \in Seq(S), NEW e \in S
    PROVE  /\ Append(s, e) \in Seq(S) /\ Len(s) \in Nat /\ Len(Append(s, e)) = Len(s) + 1
           /\ \A i \in 1..Len(s) : Append(s, e)[i] = s[i]
           /\ Append(s, e)[Len(s) + 1] = e
           /\ Append(s, e) # <<>> /\ Last(Append(s, e)) = e
    BY DEF Last

(* What the constants give.                                                *)
LEMMA ConstantTypes ==
    /\ MaxIters \in [Loops -> Nat] /\ StallAfter \in [Loops -> Nat]
    /\ SignalValues \subseteq Int /\ NoSignal \notin SignalValues
    /\ \A l \in Loops : Signals[l] \subseteq SignalValues
    /\ NoPhase \notin PhaseNames
    /\ \A l \in Loops : PhaseList[l] # <<>> => Head(PhaseList[l]) \in PhaseNames
<1>1. MaxIters \in [Loops -> Nat] /\ StallAfter \in [Loops -> Nat] /\ Signals \in [Loops -> SUBSET Int]
  BY NumbersAssumption
<1>2. Range(Signals) = {Signals[l] : l \in Loops}
  BY <1>1 DEF Range
<1>3. /\ SignalValues \subseteq Int /\ NoSignal \notin SignalValues
      /\ \A l \in Loops : Signals[l] \subseteq SignalValues
  BY <1>1, <1>2, NamesAssumption DEF SignalValues
<1>4. NoPhase \notin PhaseNames
  BY PhasesAssumption DEF PhaseNames
<1>5. ASSUME NEW l \in Loops, PhaseList[l] # <<>> PROVE Head(PhaseList[l]) \in PhaseNames
  <2>1. PhaseList[l] \in Seq(Range(PhaseList[l]))
    BY PhasesAssumption
  <2>2. Head(PhaseList[l]) \in Range(PhaseList[l])
    BY <1>5, <2>1, HeadTailProperties
  <2> QED BY <2>2 DEF PhaseNames
<1> QED BY <1>1, <1>3, <1>4, <1>5

(* A pass is a record of three fields; an update changes one of them.       *)
LEMMA PassFacts ==
    ASSUME NEW p \in Passes
    PROVE  /\ p.signal \in SignalValues \cup {NoSignal} /\ p.done \in Reasons \cup {NoReason}
           /\ p.failed \in BOOLEAN
           /\ \A s \in SignalValues : 
                 /\ [p EXCEPT !.signal = s] \in Passes
                 /\ [p EXCEPT !.signal = s].done = p.done
           /\ \A why \in Reasons :
                 /\ [p EXCEPT !.done = why] \in Passes
                 /\ [p EXCEPT !.done = why].done = why
           /\ \A b \in BOOLEAN :
                 /\ [p EXCEPT !.failed = @ \/ b] \in Passes
                 /\ [p EXCEPT !.failed = @ \/ b].done = p.done
    BY DEF Passes

LEMMA FreshFacts == FreshPass \in Passes /\ FreshPass.done = NoReason
<1>1. FreshPass \in Passes
  BY DEF Passes, FreshPass, NoReason
<1>2. FreshPass.done = NoReason
  BY DEF FreshPass
<1> QED BY <1>1, <1>2

LEMMA TypeInit == Init => TypeOK
    BY ConstantTypes, FreshFacts, NumbersAssumption DEF Init, TypeOK

LEMMA ScoreTypes ==
    ASSUME TypeOK, NEW l \in Loops, Score(l)
    PROVE  /\ signals' \in [Loops -> Seq(SignalValues \cup {NoSignal})]
           /\ best' \in [Loops -> SignalValues \cup {NoSignal}]
           /\ stale' \in [Loops -> Nat]
<1>1. current[l].signal \in SignalValues \cup {NoSignal}
  BY PassFacts DEF TypeOK
<1>2. Append(signals[l], current[l].signal) \in Seq(SignalValues \cup {NoSignal})
  BY <1>1, AppendFacts DEF TypeOK
<1>3. /\ signals' = [signals EXCEPT ![l] = Append(@, current[l].signal)]
      /\ best' \in {best, [best EXCEPT ![l] = current[l].signal]}
      /\ stale' \in {stale, [stale EXCEPT ![l] = 0], [stale EXCEPT ![l] = @ + 1]}
  BY Zenon DEF Score
<1>4. /\ signals \in [Loops -> Seq(SignalValues \cup {NoSignal})]
      /\ best \in [Loops -> SignalValues \cup {NoSignal}]
      /\ stale \in [Loops -> Nat]
  BY DEF TypeOK
<1>5. signals' \in [Loops -> Seq(SignalValues \cup {NoSignal})]
  BY <1>2, <1>3, <1>4
<1>6. best' \in [Loops -> SignalValues \cup {NoSignal}]
  BY <1>1, <1>3, <1>4
<1>7. stale' \in [Loops -> Nat]
  BY <1>3, <1>4
<1> QED BY <1>5, <1>6, <1>7

LEMMA TypeStep == TypeOK /\ [Next]_vars => TypeOK'
<1> SUFFICES ASSUME TypeOK, [Next]_vars PROVE TypeOK'
  OBVIOUS
<1> USE ConstantTypes DEF TypeOK, programVars, signalVars, passVars
<1>1. ASSUME NEW l \in Loops, Begin(l) PROVE TypeOK'
  <2>1. nest' \in Seq(Loops)
    BY <1>1, AppendFacts DEF Begin
  <2>2. runs' \in [Loops -> 0..MaxRuns]
    BY <1>1, NumbersAssumption DEF Begin
  <2> QED BY <1>1, <2>1, <2>2 DEF Begin
<1>2. ASSUME NEW l \in Loops, GiveUp(l) PROVE TypeOK'
  BY <1>2 DEF GiveUp, Inside, BuiltIn
<1>3. ASSUME NEW l \in Loops, StartPass(l) PROVE TypeOK'
  <2>1. iteration' \in [Loops -> Nat] /\ \A k \in Loops : iteration'[k] <= MaxIters[k]
    BY <1>3 DEF StartPass, OutOfPasses
  <2> QED BY <1>3, <2>1, FreshFacts DEF StartPass
<1>4. ASSUME NEW l \in Loops, Resume(l) PROVE TypeOK'
  BY <1>4, ScoreTypes DEF Resume, CloseIteration
<1>5. ASSUME NEW l \in Loops, Check(l) PROVE TypeOK'
  <2>1. current[l].done \in Reasons \cup {NoReason}
    BY PassFacts
  <2> QED BY <1>5, <2>1 DEF Check, Verdict, BuiltIn
<1>6. ASSUME NEW l \in Loops, GeneratorExit(l) PROVE TypeOK'
  <2>1. current[l].done \in Reasons \cup {NoReason}
    BY PassFacts
  <2>2. EarlyStatus(l) \in BuiltIn
    BY DEF EarlyStatus, BuiltIn
  <2>3. reason' \in [Loops -> Reasons \cup BuiltIn \cup {NoReason}]
    BY <1>6, <2>1, <2>2 DEF GeneratorExit, OrElse
  <2>4. <<>> \in Seq(PhaseNames)
    OBVIOUS
  <2>5. phase' \in [Loops -> Seq(PhaseNames)]
    BY <1>6, <2>4 DEF GeneratorExit
  <2>6. Score(l)
    BY <1>6 DEF GeneratorExit, CloseIteration
  <2> QED BY <1>6, <2>3, <2>5, <2>6, ScoreTypes DEF GeneratorExit
<1>7. ASSUME NEW l \in Loops, Finish(l) PROVE TypeOK'
  BY <1>7, FrontFacts DEF Finish, Inside, Restored
<1>8. ASSUME NEW l \in Loops, LeavePhase(l) PROVE TypeOK'
  <2>1. (raising = "error") \in BOOLEAN
    OBVIOUS
  <2>2. [current[l] EXCEPT !.failed = @ \/ raising = "error"] \in Passes
    BY <2>1, PassFacts
  <2>3. current' \in [Loops -> Passes]
    BY <1>8, <2>2 DEF LeavePhase
  <2>4. Last(phase[l]) \in PhaseNames /\ Front(phase[l]) \in Seq(PhaseNames)
    BY <1>8, FrontFacts DEF LeavePhase
  <2>5. /\ lastPhase' \in [Loops -> PhaseNames \cup {NoPhase}]
        /\ phase' \in [Loops -> Seq(PhaseNames)]
    BY <1>8, <2>4 DEF LeavePhase
  <2> QED BY <1>8, <2>3, <2>5 DEF LeavePhase
<1>9. ASSUME NEW l \in Loops, NEW name \in PhaseNames, EnterPhase(l, name) PROVE TypeOK'
  <2>1. Append(phase[l], name) \in Seq(PhaseNames)
    BY AppendFacts
  <2> QED BY <1>9, <2>1 DEF EnterPhase
<1>10. ASSUME NEW l \in Loops, NEW s \in Signals[l], Signal(l, s) PROVE TypeOK'
  <2>1. [current[l] EXCEPT !.signal = s] \in Passes
    BY PassFacts
  <2> QED BY <1>10, <2>1 DEF Signal
<1>11. ASSUME NEW l \in Loops, NEW why \in Reasons, Done(l, why) PROVE TypeOK'
  <2>1. [current[l] EXCEPT !.done = why] \in Passes
    BY PassFacts
  <2> QED BY <1>11, <2>1 DEF Done
<1>12. ASSUME NEW l \in Loops, NEW why \in Reasons, Stop(l, why) PROVE TypeOK'
  <2>1. [current[l] EXCEPT !.done = why] \in Passes
    BY PassFacts
  <2> QED BY <1>12, <2>1 DEF Stop, Flag, Asked
<1>13. ASSUME NEW why \in Reasons, RaiseStopLoop(why) PROVE TypeOK'
  <2>1. nest # <<>> => Last(nest) \in Loops
    BY FrontFacts
  <2>2. request' \in [Loops -> Reasons \cup {NoReason}]
    BY <1>13, <2>1 DEF RaiseStopLoop, Asked
  <2>3. context # NoLoop => [current[context] EXCEPT !.done = why] \in Passes
    BY PassFacts
  <2>4. current' \in [Loops -> Passes]
    BY <1>13, <2>3 DEF RaiseStopLoop, Flag
  <2>5. reason' \in [Loops -> Reasons \cup BuiltIn \cup {NoReason}]
    BY <1>13 DEF RaiseStopLoop, Flag
  <2> QED BY <1>13, <2>2, <2>4, <2>5 DEF RaiseStopLoop
<1>14. ASSUME NEW why \in Reasons, StopLoopFromWorker(why) PROVE TypeOK'
  BY <1>14 DEF StopLoopFromWorker
<1>15. ASSUME NEW kind \in {"error", "exit"}, Raise(kind) PROVE TypeOK'
  BY <1>15 DEF Raise
<1>16. CASE Catch
  BY <1>16 DEF Catch
<1>17. ASSUME NEW l \in Loops, Exit(l) PROVE TypeOK'
  BY <1>17 DEF Exit
<1>18. CASE UNCHANGED vars
  BY <1>18 DEF vars
<1> QED BY <1>1, <1>2, <1>3, <1>4, <1>5, <1>6, <1>7, <1>8, <1>9, <1>10, <1>11, <1>12, <1>13,
           <1>14, <1>15, <1>16, <1>17, <1>18 DEF Next, Break, Escape

(* Every variable of the loops stays in its type, and no loop hands out    *)
(* more passes than max_iters.                                             *)
THEOREM TypeCorrect == Spec => []TypeOK
    BY TypeInit, TypeStep, PTL DEF Spec

-----------------------------------------------------------------------------
(* The current loop.                                                       *)

(* The for statements the program is in, as a chain: each loop is in it    *)
(* once, its token restores the one around it, and all but the innermost   *)
(* wait in their bodies.                                                   *)
Chain ==
    /\ \A i, j \in 1..Len(nest) : nest[i] = nest[j] => i = j
    /\ \A l \in Loops : pc[l] = "idle" <=> \A i \in 1..Len(nest) : nest[i] # l
    /\ \A i \in 1..Len(nest) : token[nest[i]] = IF i = 1 THEN NoLoop ELSE nest[i - 1]
    /\ \A i \in 1..Len(nest) : i < Len(nest) => pc[nest[i]] = "body"
    /\ ContextIsInnermost

(* A step of the generator of the innermost loop that neither enters nor   *)
(* leaves it keeps the chain.                                              *)
LEMMA ChainKept ==
    ASSUME TypeOK, Chain, nest' = nest, context' = context, token' = token,
           \/ pc' = pc
           \/ \E l \in Loops, where \in {"head", "body", "check", "finish"} :
                 Inside(l) /\ pc[l] # "idle" /\ pc' = [pc EXCEPT ![l] = where]
    PROVE  Chain'
<1>1. CASE pc' = pc
  BY <1>1 DEF Chain, ContextIsInnermost
<1>2. ASSUME NEW l \in Loops, NEW where \in {"head", "body", "check", "finish"},
             Inside(l), pc[l] # "idle", pc' = [pc EXCEPT ![l] = where]
      PROVE  Chain'
  <2>1. nest \in Seq(Loops) /\ nest # <<>> /\ l = nest[Len(nest)] /\ pc \in [Loops -> {"idle", "head", "body", "check", "finish"}]
    BY <1>2, FrontFacts DEF Inside, TypeOK
  <2>2. \A k \in Loops : pc'[k] = "idle" <=> pc[k] = "idle"
    BY <1>2, <2>1
  <2>3. \A i \in 1..Len(nest) : i < Len(nest) => pc'[nest[i]] = "body"
    <3> SUFFICES ASSUME NEW i \in 1..Len(nest), i < Len(nest) PROVE pc'[nest[i]] = "body"
      OBVIOUS
    <3>1. nest[i] # l /\ nest[i] \in Loops
      BY <2>1 DEF Chain
    <3> QED BY <1>2, <2>1, <3>1 DEF Chain
  <2>4. ContextIsInnermost'
    BY DEF Chain, ContextIsInnermost
  <2> QED BY <2>2, <2>3, <2>4 DEF Chain
<1> QED BY <1>1, <1>2

LEMMA ChainInit == Init => Chain
<1> SUFFICES ASSUME Init PROVE Chain
  OBVIOUS
<1>1. nest = <<>> /\ Len(nest) = 0 /\ context = NoLoop /\ \A l \in Loops : pc[l] = "idle"
  BY DEF Init
<1> QED BY <1>1 DEF Chain, ContextIsInnermost

LEMMA ChainBegin ==
    ASSUME TypeOK, Chain, NEW l \in Loops, Begin(l)
    PROVE  Chain'
<1> DEFINE n == Len(nest)
<1>1. /\ nest \in Seq(Loops) /\ n \in Nat /\ nest' = Append(nest, l) /\ Len(nest') = n + 1
      /\ nest'[n + 1] = l /\ \A i \in 1..n : nest'[i] = nest[i] /\ nest[i] \in Loops
      /\ nest' # <<>> /\ Last(nest') = l
  <2>1. nest \in Seq(Loops) /\ nest' = Append(nest, l) /\ \A i \in 1..Len(nest) : nest[i] \in Loops
    BY DEF Begin, TypeOK
  <2> QED BY <2>1, AppendFacts
<1>2. /\ pc' = [pc EXCEPT ![l] = "head"] /\ token' = [token EXCEPT ![l] = context] /\ context' = l
      /\ pc[l] = "idle" /\ Free
  BY DEF Begin
<1>3. /\ pc \in [Loops -> {"idle", "head", "body", "check", "finish"}]
      /\ token \in [Loops -> Loops \cup {NoLoop}]
  BY DEF TypeOK
<1>4. \A i \in 1..n : nest[i] # l
  BY <1>2 DEF Chain
<1>5. context = IF n = 0 THEN NoLoop ELSE nest[n]
  BY <1>1 DEF Chain, ContextIsInnermost, Last
<1>6. \A i \in 1..n : pc[nest[i]] = "body"
  <2>1. n > 0 => pc[nest[n]] = "body"
    BY <1>1, <1>2 DEF Free, Last
  <2> QED BY <1>1, <2>1 DEF Chain
<1> HIDE DEF n
<1>7. \A i, j \in 1..(n + 1) : nest'[i] = nest'[j] => i = j
  <2> SUFFICES ASSUME NEW i \in 1..(n + 1), NEW j \in 1..(n + 1), nest'[i] = nest'[j] PROVE i = j
    OBVIOUS
  <2>1. CASE i \in 1..n /\ j \in 1..n
    BY <1>1, <2>1 DEF Chain, n
  <2>2. CASE i = n + 1 \/ j = n + 1
    BY <1>1, <1>4, <2>2
  <2> QED BY <1>1, <2>1, <2>2
<1>8. \A k \in Loops : pc'[k] = "idle" <=> \A i \in 1..(n + 1) : nest'[i] # k
  <2> SUFFICES ASSUME NEW k \in Loops PROVE pc'[k] = "idle" <=> \A i \in 1..(n + 1) : nest'[i] # k
    OBVIOUS
  <2>1. CASE k = l
    BY <1>1, <1>2, <1>3, <2>1
  <2>2. CASE k # l
    <3>1. pc'[k] = pc[k]
      BY <1>2, <1>3, <2>2
    <3>2. pc[k] = "idle" <=> \A i \in 1..n : nest[i] # k
      BY DEF Chain, n
    <3>3. (\A i \in 1..n : nest[i] # k) <=> \A i \in 1..(n + 1) : nest'[i] # k
      BY <1>1, <2>2
    <3> QED BY <3>1, <3>2, <3>3
  <2> QED BY <2>1, <2>2
<1>9. \A i \in 1..(n + 1) : token'[nest'[i]] = IF i = 1 THEN NoLoop ELSE nest'[i - 1]
  <2> SUFFICES ASSUME NEW i \in 1..(n + 1)
               PROVE  token'[nest'[i]] = IF i = 1 THEN NoLoop ELSE nest'[i - 1]
    OBVIOUS
  <2>1. CASE i \in 1..n
    <3>1. token'[nest'[i]] = token[nest[i]]
      BY <1>1, <1>2, <1>3, <1>4, <2>1
    <3>2. token[nest[i]] = IF i = 1 THEN NoLoop ELSE nest[i - 1]
      BY <2>1 DEF Chain, n
    <3>3. i # 1 => i - 1 \in 1..n
      BY <1>1, <2>1
    <3> QED BY <1>1, <3>1, <3>2, <3>3
  <2>2. CASE i = n + 1
    <3>1. token'[nest'[i]] = context
      BY <1>1, <1>2, <1>3, <2>2
    <3>2. n # 0 => n \in 1..n
      BY <1>1
    <3> QED BY <1>1, <1>5, <2>2, <3>1, <3>2
  <2> QED BY <1>1, <2>1, <2>2
<1>10. \A i \in 1..(n + 1) : i < n + 1 => pc'[nest'[i]] = "body"
  BY <1>1, <1>2, <1>3, <1>4, <1>6
<1>11. ContextIsInnermost'
  BY <1>1, <1>2 DEF ContextIsInnermost
<1> QED BY <1>1, <1>7, <1>8, <1>9, <1>10, <1>11 DEF Chain

LEMMA ChainFinish ==
    ASSUME TypeOK, Chain, NEW l \in Loops, Finish(l)
    PROVE  Chain'
<1> DEFINE n == Len(nest) - 1
<1>1. /\ nest \in Seq(Loops) /\ n \in Nat /\ Len(nest) = n + 1 /\ nest[n + 1] = l
      /\ nest' \in Seq(Loops) /\ Len(nest') = n
      /\ \A i \in 1..n : nest'[i] = nest[i] /\ nest[i] \in Loops
  <2>1. nest \in Seq(Loops) /\ nest # <<>> /\ nest' = Front(nest) /\ Last(nest) = l
        /\ \A i \in 1..Len(nest) : nest[i] \in Loops
    BY DEF Finish, Inside, TypeOK
  <2>2. Len(nest) \in Nat \ {0} /\ nest[Len(nest)] = l
    BY <2>1, FrontFacts
  <2>3. nest' \in Seq(Loops) /\ Len(nest') = n /\ \A i \in 1..n : nest'[i] = nest[i]
    BY <2>1, FrontFacts
  <2> QED BY <2>1, <2>2, <2>3
<1>2. pc' = [pc EXCEPT ![l] = "idle"] /\ token' = token /\ context' = token[l]
  BY DEF Finish, Restored
<1>3. /\ pc \in [Loops -> {"idle", "head", "body", "check", "finish"}]
      /\ token \in [Loops -> Loops \cup {NoLoop}]
  BY DEF TypeOK
<1> HIDE DEF n
<1>4. \A i \in 1..n : nest[i] # l
  BY <1>1 DEF Chain
<1>5. \A i, j \in 1..n : nest'[i] = nest'[j] => i = j
  BY <1>1 DEF Chain
<1>6. \A k \in Loops : pc'[k] = "idle" <=> \A i \in 1..n : nest'[i] # k
  <2> SUFFICES ASSUME NEW k \in Loops PROVE pc'[k] = "idle" <=> \A i \in 1..n : nest'[i] # k
    OBVIOUS
  <2>1. CASE k = l
    BY <1>1, <1>2, <1>3, <1>4, <2>1
  <2>2. CASE k # l
    <3>1. pc'[k] = pc[k]
      BY <1>2, <1>3, <2>2
    <3>2. pc[k] = "idle" <=> \A i \in 1..(n + 1) : nest[i] # k
      BY <1>1 DEF Chain
    <3>3. (\A i \in 1..n : nest'[i] # k) <=> \A i \in 1..(n + 1) : nest[i] # k
      BY <1>1, <2>2
    <3> QED BY <3>1, <3>2, <3>3
  <2> QED BY <2>1, <2>2
<1>7. \A i \in 1..n : token'[nest'[i]] = IF i = 1 THEN NoLoop ELSE nest'[i - 1]
  BY <1>1, <1>2 DEF Chain
<1>8. \A i \in 1..n : i < n => pc'[nest'[i]] = "body"
  BY <1>1, <1>2, <1>3, <1>4 DEF Chain
<1>9. ContextIsInnermost'
  <2>1. token[l] = IF n = 0 THEN NoLoop ELSE nest[n]
    BY <1>1 DEF Chain
  <2>2. nest' = <<>> <=> n = 0
    BY <1>1
  <2> QED BY <1>1, <1>2, <2>1, <2>2 DEF ContextIsInnermost, Last
<1> QED BY <1>1, <1>5, <1>6, <1>7, <1>8, <1>9 DEF Chain

LEMMA ChainStep == TypeOK /\ Chain /\ [Next]_vars => Chain'
<1> SUFFICES ASSUME TypeOK, Chain, [Next]_vars PROVE Chain'
  OBVIOUS
<1> USE DEF programVars
<1>1. ASSUME NEW l \in Loops, GiveUp(l) \/ StartPass(l) \/ Resume(l) \/ Check(l)
                              \/ Break(l) \/ Escape(l)
      PROVE  Chain'
  <2>1. nest' = nest /\ context' = context /\ token' = token /\ Inside(l) /\ pc[l] # "idle"
    BY <1>1 DEF GiveUp, StartPass, Resume, Check, Break, Escape, GeneratorExit, AtBody, Unwinding
  <2>2. \E where \in {"head", "body", "check", "finish"} : pc' = [pc EXCEPT ![l] = where]
    BY <1>1 DEF GiveUp, StartPass, Resume, Check, Break, Escape, GeneratorExit
  <2> QED BY <2>1, <2>2, ChainKept
<1>2. ASSUME NEW l \in Loops,
             \/ LeavePhase(l) \/ Exit(l)
             \/ \E name \in PhaseNames : EnterPhase(l, name)
             \/ \E s \in Signals[l] : Signal(l, s)
             \/ \E why \in Reasons : Done(l, why) \/ Stop(l, why)
      PROVE  Chain'
  <2>1. nest' = nest /\ context' = context /\ token' = token /\ pc' = pc
    BY <1>2 DEF LeavePhase, Exit, EnterPhase, Signal, Done, Stop
  <2> QED BY <2>1, ChainKept
<1>3. ASSUME \/ \E why \in Reasons : RaiseStopLoop(why) \/ StopLoopFromWorker(why)
             \/ \E kind \in {"error", "exit"} : Raise(kind)
             \/ Catch
             \/ UNCHANGED vars
      PROVE  Chain'
  <2>1. nest' = nest /\ context' = context /\ token' = token /\ pc' = pc
    BY <1>3 DEF RaiseStopLoop, StopLoopFromWorker, Raise, Catch, vars
  <2> QED BY <2>1, ChainKept
<1>4. ASSUME NEW l \in Loops, Begin(l) \/ Finish(l) PROVE Chain'
  BY <1>4, ChainBegin, ChainFinish
<1> QED BY <1>1, <1>2, <1>3, <1>4 DEF Next

(* Whatever the nesting, and however the loops inside ended, a StopLoop    *)
(* finds the innermost loop.                                               *)
THEOREM ContextCorrect == Spec => []ContextIsInnermost
<1>1. Chain => ContextIsInnermost
  BY DEF Chain
<1> QED BY <1>1, TypeInit, TypeStep, ChainInit, ChainStep, PTL DEF Spec

-----------------------------------------------------------------------------
(* The events a loop reported.                                             *)

EventTypes == {"run.start", "run.end", "iter.start", "iter.end", "node.start", "node.end", "node.error"}
Entry == [type : EventTypes, pass : Nat, node : PhaseNames \cup {NoPhase},
          edge : PhaseNames \cup {NoPhase}, status : Reasons \cup BuiltIn \cup {"none", "ok", "finished"}]

OutOK == out \in [Loops -> Seq(Entry)]

(* What a step reports is the last event of its loop; the other loops      *)
(* report nothing.                                                         *)
LEMMA EmitFacts ==
    ASSUME OutOK, NEW l \in Loops, NEW e \in Entry, Emit(l, e)
    PROVE  /\ OutOK'
           /\ out'[l] = Append(out[l], e)
           /\ out'[l] # <<>> /\ Last(out'[l]) = e
           /\ out[l] # <<>> => out'[l][Len(out'[l]) - 1] = Last(out[l])
           /\ \A k \in Loops \ {l} : out'[k] = out[k]
<1>1. out \in [Loops -> Seq(Entry)] /\ out[l] \in Seq(Entry)
  BY DEF OutOK
<1>2. out' = [out EXCEPT ![l] = Append(out[l], e)]
  BY DEF Emit
<1>3. out'[l] = Append(out[l], e) /\ \A k \in Loops \ {l} : out'[k] = out[k]
  BY <1>1, <1>2
<1>4. /\ Append(out[l], e) \in Seq(Entry) /\ Append(out[l], e) # <<>> /\ Last(Append(out[l], e)) = e
      /\ Len(out[l]) \in Nat /\ Len(Append(out[l], e)) = Len(out[l]) + 1
      /\ \A i \in 1..Len(out[l]) : Append(out[l], e)[i] = out[l][i]
  BY <1>1, AppendFacts
<1>5. OutOK'
  BY <1>1, <1>2, <1>4 DEF OutOK
<1>6. out[l] # <<>> => Len(out[l]) \in 1..Len(out[l]) /\ Len(Append(out[l], e)) - 1 = Len(out[l])
  BY <1>1, <1>4
<1> QED BY <1>3, <1>4, <1>5, <1>6 DEF Last

-----------------------------------------------------------------------------
(* A stop is heeded, and the end of a run tells why.                       *)

(* The request and the flag the generator reads after a pass agree.        *)
Heeded(l) ==
    /\ pc[l] = "head" => request[l] = NoReason
    /\ pc[l] \in {"body", "check"} =>
          /\ request[l] = current[l].done
          /\ out[l] # <<>> /\ Last(out[l]).type # "run.start"
    /\ pc[l] = "finish" /\ request[l] # NoReason => reason[l] = request[l]

PassEnded(l, statuses) ==
    out[l] # <<>> /\ Last(out[l]).type = "iter.end" /\ Last(out[l]).status \in statuses

(* What a loop in its first run has reported, and why it ends.             *)
FirstRun(l) ==
    runs[l] <= 1 =>
        /\ runs[l] = 0 => pc[l] = "idle" /\ iteration[l] = 0
        /\ runs[l] = 0 \/ pc[l] \in {"head", "body", "check"} => reason[l] \in Reasons \cup {NoReason}
        /\ pc[l] = "check" \/ (pc[l] = "head" /\ iteration[l] > 0) => PassEnded(l, {"ok", "error"})
        /\ pc[l] = "finish" =>
              /\ reason[l] = "max_iters" => iteration[l] = MaxIters[l]
              /\ reason[l] \in {"stalled", "max_iters", "timeout"} /\ iteration[l] > 0 =>
                    PassEnded(l, {"ok", "error"})
              /\ reason[l] = "error" => PassEnded(l, {"error"})
        /\ pc[l] = "idle" /\ runs[l] > 0 => EndTold(l)

Told == \A l \in Loops : Heeded(l) /\ FirstRun(l)

(* A step that leaves a loop's own variables alone keeps what is told of   *)
(* it.                                                                     *)
LEMMA ToldUntouched ==
    ASSUME NEW l \in Loops, Heeded(l), FirstRun(l),
           pc'[l] = pc[l], request'[l] = request[l], current'[l].done = current[l].done,
           reason'[l] = reason[l], iteration'[l] = iteration[l], runs'[l] = runs[l],
           out'[l] = out[l]
    PROVE  Heeded(l)' /\ FirstRun(l)'
<1>1. Heeded(l)'
  BY DEF Heeded, Last
<1>2. FirstRun(l)'
  BY DEF FirstRun, PassEnded, EndTold, Last
<1> QED BY <1>1, <1>2

LEMMA ToldInit == Init => Told
    BY FreshFacts DEF Init, Told, Heeded, FirstRun

(* Where every loop is while the program runs its own code.                *)
LEMMA FreePlaces ==
    ASSUME TypeOK, Chain, Free, NEW l \in Loops
    PROVE  pc[l] \in {"idle", "body"}
<1>1. nest \in Seq(Loops) /\ (nest # <<>> => Len(nest) \in Nat \ {0} /\ Last(nest) = nest[Len(nest)])
  BY FrontFacts DEF TypeOK
<1>2. CASE pc[l] # "idle"
  <2>1. PICK i \in 1..Len(nest) : nest[i] = l
    BY <1>2 DEF Chain
  <2>2. nest # <<>>
    BY <1>1, <2>1
  <2> QED BY <1>1, <2>1, <2>2 DEF Chain, Free
<1> QED BY <1>2

LEMMA ToldBegin ==
    ASSUME TypeOK, OutOK, Told, NEW l \in Loops, Begin(l)
    PROVE  OutOK' /\ Told'
<1>1. /\ OutOK' /\ out'[l] # <<>>
      /\ \A k \in Loops \ {l} : out'[k] = out[k]
  <2>1. Timeline!Run("run.start", "none") \in Entry
    BY DEF Entry, EventTypes, Timeline!Run
  <2> QED BY <2>1, EmitFacts DEF Begin
<1>2. /\ pc'[l] = "head" /\ request'[l] = NoReason /\ runs'[l] = runs[l] + 1 /\ runs[l] \in Nat
      /\ iteration' = iteration /\ reason' = reason
  BY NumbersAssumption DEF Begin, TypeOK
<1>3. Heeded(l)' /\ FirstRun(l)'
  <2>1. Heeded(l)'
    BY <1>2 DEF Heeded
  <2>2. FirstRun(l)'
    BY <1>2, NamesAssumption DEF Told, FirstRun, TypeOK, BuiltIn
  <2> QED BY <2>1, <2>2
<1>4. \A k \in Loops \ {l} : Heeded(k)' /\ FirstRun(k)'
  BY <1>1, ToldUntouched DEF Told, Begin, TypeOK
<1> QED BY <1>1, <1>3, <1>4 DEF Told

LEMMA ToldGiveUp ==
    ASSUME TypeOK, OutOK, Told, NEW l \in Loops, GiveUp(l)
    PROVE  OutOK' /\ Told'
<1>1. /\ pc[l] = "head" /\ pc'[l] = "finish" /\ reason'[l] \in {"max_iters", "timeout"}
      /\ reason'[l] = "max_iters" => iteration[l] = MaxIters[l]
      /\ out' = out /\ request' = request /\ iteration' = iteration /\ runs' = runs
  <2>1. /\ iteration[l] \in Nat /\ MaxIters[l] \in Nat /\ iteration[l] <= MaxIters[l]
        /\ reason \in [Loops -> Reasons \cup BuiltIn \cup {NoReason}]
        /\ pc \in [Loops -> {"idle", "head", "body", "check", "finish"}]
    BY ConstantTypes DEF TypeOK
  <2>2. /\ pc[l] = "head" /\ pc'[l] = "finish"
        /\ out' = out /\ request' = request /\ iteration' = iteration /\ runs' = runs
    BY <2>1 DEF GiveUp, passVars
  <2>3. \/ OutOfPasses(l) /\ reason'[l] = "max_iters"
        \/ reason'[l] = "timeout"
    BY <2>1 DEF GiveUp
  <2> QED BY <2>1, <2>2, <2>3 DEF OutOfPasses
<1>2. Heeded(l)'
  BY <1>1 DEF Told, Heeded
<1>3. FirstRun(l)'
  BY <1>1 DEF Told, FirstRun, PassEnded, Last
<1>4. \A k \in Loops \ {l} : Heeded(k)' /\ FirstRun(k)'
  BY ToldUntouched DEF Told, GiveUp, TypeOK, passVars
<1>5. OutOK'
  BY <1>1 DEF OutOK
<1> QED BY <1>2, <1>3, <1>4, <1>5 DEF Told

LEMMA ToldStartPass ==
    ASSUME TypeOK, OutOK, Told, NEW l \in Loops, StartPass(l)
    PROVE  OutOK' /\ Told'
<1> DEFINE e == Timeline!Pass("iter.start", iteration[l] + 1,
                    IF PhaseList[l] = <<>> THEN NoPhase ELSE EdgeTo(l, Head(PhaseList[l])), "none")
<1>1. e \in Entry /\ e.type = "iter.start"
  <2>1. iteration[l] + 1 \in Nat /\ lastPhase[l] \in PhaseNames \cup {NoPhase}
    BY DEF TypeOK
  <2>2. (IF PhaseList[l] = <<>> THEN NoPhase ELSE EdgeTo(l, Head(PhaseList[l]))) \in PhaseNames \cup {NoPhase}
    BY <2>1 DEF EdgeTo
  <2> QED BY <2>1, <2>2 DEF Timeline!Pass, Entry, EventTypes
<1>2. /\ OutOK' /\ out'[l] # <<>> /\ Last(out'[l]) = e
      /\ \A k \in Loops \ {l} : out'[k] = out[k]
  <2>1. Emit(l, e)
    BY DEF StartPass
  <2> HIDE DEF e
  <2> QED BY <1>1, <2>1, EmitFacts
<1>3. /\ pc[l] = "head" /\ pc'[l] = "body" /\ request'[l] = NoReason /\ current'[l].done = NoReason
      /\ reason' = reason /\ runs' = runs
  BY FreshFacts DEF StartPass, TypeOK
<1> HIDE DEF e
<1>4. Heeded(l)'
  BY <1>1, <1>2, <1>3 DEF Heeded
<1>5. FirstRun(l)'
  BY <1>3 DEF Told, FirstRun
<1>6. \A k \in Loops \ {l} : Heeded(k)' /\ FirstRun(k)'
  BY <1>2, ToldUntouched DEF Told, StartPass, TypeOK
<1> QED BY <1>2, <1>4, <1>5, <1>6 DEF Told

LEMMA ToldResume ==
    ASSUME TypeOK, OutOK, Told, NEW l \in Loops, Resume(l)
    PROVE  OutOK' /\ Told'
<1> DEFINE e == Timeline!Pass("iter.end", iteration[l], NoPhase, IF current[l].failed THEN "error" ELSE "ok")
<1>1. e \in Entry /\ e.type = "iter.end" /\ e.status \in {"ok", "error"}
  BY DEF Timeline!Pass, Entry, EventTypes, BuiltIn, TypeOK
<1>2. Emit(l, e)
  BY DEF Resume, CloseIteration
<1> HIDE DEF e
<1>3. /\ OutOK' /\ out'[l] # <<>> /\ Last(out'[l]) = e
      /\ \A k \in Loops \ {l} : out'[k] = out[k]
  BY <1>1, <1>2, EmitFacts
<1>4. /\ pc[l] = "body" /\ pc'[l] = "check" /\ request' = request /\ current' = current
      /\ reason' = reason /\ runs' = runs /\ iteration' = iteration
  BY DEF Resume, AtBody, TypeOK, passVars
<1>5. Heeded(l)'
  BY <1>1, <1>3, <1>4 DEF Heeded, Told
<1>6. FirstRun(l)'
  BY <1>1, <1>3, <1>4 DEF Told, FirstRun, PassEnded
<1>7. \A k \in Loops \ {l} : Heeded(k)' /\ FirstRun(k)'
  BY <1>3, <1>4, ToldUntouched DEF Told, Resume, TypeOK
<1> QED BY <1>3, <1>5, <1>6, <1>7 DEF Told

LEMMA ToldCheck ==
    ASSUME TypeOK, OutOK, Told, NEW l \in Loops, Check(l)
    PROVE  OutOK' /\ Told'
<1>1. /\ pc[l] = "check" /\ request' = request /\ current' = current
      /\ runs' = runs /\ iteration' = iteration /\ out' = out
      /\ current[l].done \in Reasons \cup {NoReason}
  BY PassFacts DEF Check, passVars, TypeOK
<1>2. /\ Heeded(l) /\ FirstRun(l)
      /\ pc \in [Loops -> {"idle", "head", "body", "check", "finish"}]
      /\ reason \in [Loops -> Reasons \cup BuiltIn \cup {NoReason}]
  BY DEF Told, TypeOK
<1>3. \/ Verdict(l) = NoReason /\ current[l].done = NoReason
      \/ Verdict(l) = current[l].done /\ Verdict(l) \in Reasons
      \/ Verdict(l) = "stalled" /\ current[l].done = NoReason
  BY <1>1 DEF Verdict
<1>4. \A k \in Loops : out'[k] = out[k]
  BY <1>1
<1>5. PassEnded(l, {"ok", "error"}) => PassEnded(l, {"ok", "error"})'
  BY <1>4 DEF PassEnded, Last
<1>6. ASSUME Verdict(l) = NoReason PROVE Heeded(l)' /\ FirstRun(l)'
  <2>1. pc'[l] = "head" /\ reason' = reason /\ current[l].done = NoReason
    BY <1>2, <1>3, <1>6, NamesAssumption DEF Check, NoReason
  <2>2. Heeded(l)'
    BY <1>1, <1>2, <2>1 DEF Heeded
  <2>3. FirstRun(l)'
    <3> SUFFICES ASSUME runs[l] <= 1 PROVE FirstRun(l)'
      BY <1>1 DEF FirstRun
    <3>1. runs[l] # 0 /\ reason[l] \in Reasons \cup {NoReason} /\ PassEnded(l, {"ok", "error"})
      BY <1>1, <1>2 DEF FirstRun
    <3> QED BY <1>1, <1>5, <2>1, <3>1 DEF FirstRun
  <2> QED BY <2>2, <2>3
<1>7. ASSUME Verdict(l) # NoReason PROVE Heeded(l)' /\ FirstRun(l)'
  <2>1. pc'[l] = "finish" /\ reason'[l] = Verdict(l)
    BY <1>2, <1>7 DEF Check
  <2>2. Heeded(l)'
    BY <1>1, <1>2, <1>3, <1>7, <2>1 DEF Heeded
  <2>3. reason'[l] \in Reasons \cup {"stalled"}
    BY <1>3, <1>7, <2>1
  <2>4. FirstRun(l)'
    <3> SUFFICES ASSUME runs[l] <= 1 PROVE FirstRun(l)'
      BY <1>1 DEF FirstRun
    <3>1. runs[l] # 0 /\ PassEnded(l, {"ok", "error"})
      BY <1>1, <1>2 DEF FirstRun
    <3>2. reason'[l] \notin {"max_iters", "error"}
      BY <2>3, NamesAssumption DEF BuiltIn
    <3> QED BY <1>1, <1>5, <2>1, <3>1, <3>2 DEF FirstRun
  <2> QED BY <2>2, <2>4
<1>8. \A k \in Loops \ {l} : Heeded(k)' /\ FirstRun(k)'
  BY <1>1, ToldUntouched DEF Told, Check, TypeOK
<1>9. OutOK'
  BY <1>1 DEF OutOK
<1> QED BY <1>6, <1>7, <1>8, <1>9 DEF Told

LEMMA ToldGeneratorExit ==
    ASSUME TypeOK, OutOK, Told, NEW l \in Loops, pc[l] = "body", GeneratorExit(l)
    PROVE  OutOK' /\ Told'
<1> DEFINE e == Timeline!Pass("iter.end", iteration[l], NoPhase, EarlyStatus(l))
           early == EarlyStatus(l)
           done == current[l].done
<1>1. /\ early \in {"done", "error", "abandoned"} /\ (early = "done" => done # NoReason)
      /\ early # NoReason
  BY DEF EarlyStatus, NoReason
<1>2. e \in Entry /\ e.type = "iter.end" /\ e.status = early
  BY <1>1 DEF Timeline!Pass, Entry, EventTypes, BuiltIn, TypeOK
<1>3. Emit(l, e)
  BY DEF GeneratorExit, CloseIteration
<1> HIDE DEF e
<1>4. /\ OutOK' /\ out'[l] # <<>> /\ Last(out'[l]) = e
      /\ \A k \in Loops \ {l} : out'[k] = out[k]
  BY <1>2, <1>3, EmitFacts
<1>5. /\ pc'[l] = "finish" /\ request' = request /\ current' = current
      /\ runs' = runs /\ iteration' = iteration
      /\ reason'[l] = OrElse(done, OrElse(reason[l], early))
  BY DEF GeneratorExit, TypeOK
<1>6. done \in Reasons \cup {NoReason}
  BY PassFacts DEF TypeOK
<1> HIDE DEF early, done
<1>7. Heeded(l)'
  <2>1. request[l] = done
    BY DEF Told, Heeded, done
  <2> QED BY <1>5, <2>1 DEF Heeded, OrElse
<1>8. FirstRun(l)'
  <2> SUFFICES ASSUME runs[l] <= 1 PROVE FirstRun(l)'
    BY <1>5 DEF FirstRun
  <2>1. reason[l] \in Reasons \cup {NoReason} /\ runs[l] # 0
    BY DEF Told, FirstRun
  <2>2. reason'[l] \in Reasons \/ (reason'[l] = early /\ early \in {"error", "abandoned"})
    BY <1>1, <1>5, <1>6, <2>1 DEF OrElse
  <2>3. reason'[l] \notin {"max_iters", "stalled", "timeout"}
    BY <2>2, NamesAssumption DEF BuiltIn
  <2>4. reason'[l] = "error" => early = "error"
    BY <2>2, NamesAssumption DEF BuiltIn
  <2> QED BY <1>2, <1>4, <1>5, <2>1, <2>3, <2>4 DEF FirstRun, PassEnded
<1>9. \A k \in Loops \ {l} : Heeded(k)' /\ FirstRun(k)'
  BY <1>4, <1>5, ToldUntouched DEF Told, GeneratorExit, TypeOK
<1> QED BY <1>4, <1>7, <1>8, <1>9 DEF Told

LEMMA ToldFinish ==
    ASSUME TypeOK, OutOK, Told, NEW l \in Loops, Finish(l)
    PROVE  OutOK' /\ Told'
<1> DEFINE why == OrElse(reason[l], "finished")
           e == Timeline!Run("run.end", why)
<1>1. /\ why \in Reasons \cup BuiltIn \cup {"finished"} /\ (reason[l] # NoReason => why = reason[l])
      /\ (why # reason[l] => why = "finished")
  BY DEF OrElse, TypeOK
<1>2. e \in Entry /\ e.type = "run.end" /\ e.status = why
  BY <1>1 DEF Timeline!Run, Entry, EventTypes
<1>3. Emit(l, e)
  BY DEF Finish
<1> HIDE DEF e, why
<1>4. /\ OutOK' /\ out'[l] # <<>> /\ Last(out'[l]) = e
      /\ out[l] # <<>> => out'[l][Len(out'[l]) - 1] = Last(out[l])
      /\ \A k \in Loops \ {l} : out'[k] = out[k]
  BY <1>2, <1>3, EmitFacts
<1>5. /\ pc[l] = "finish" /\ pc'[l] = "idle" /\ request' = request /\ reason' = reason
      /\ runs' = runs /\ iteration' = iteration /\ current' = current
  BY DEF Finish, TypeOK, passVars
<1>6. Heeded(l)'
  BY <1>5 DEF Heeded
<1>7. FirstRun(l)'
  <2> SUFFICES ASSUME runs[l] <= 1 PROVE FirstRun(l)'
    BY <1>5 DEF FirstRun
  <2>1. /\ runs[l] # 0
        /\ reason[l] = "max_iters" => iteration[l] = MaxIters[l]
        /\ reason[l] \in {"stalled", "max_iters", "timeout"} /\ iteration[l] > 0 => PassEnded(l, {"ok", "error"})
        /\ reason[l] = "error" => PassEnded(l, {"error"})
    BY <1>5 DEF Told, FirstRun
  <2>2. request[l] # NoReason => reason[l] = request[l]
    BY <1>5 DEF Told, Heeded
  <2>3. EndTold(l)'
    <3>1. /\ Last(out'[l]).type = "run.end" /\ Last(out'[l]).status = why
          /\ \A statuses : PassEnded(l, statuses) =>
                /\ out'[l][Len(out'[l]) - 1].type = "iter.end"
                /\ out'[l][Len(out'[l]) - 1].status \in statuses
      BY <1>2, <1>4 DEF PassEnded
    <3>2. /\ request'[l] # NoReason => why = request'[l]
          /\ why = "max_iters" => iteration'[l] = MaxIters[l]
          /\ why \in {"stalled", "max_iters", "timeout"} /\ iteration'[l] > 0 => PassEnded(l, {"ok", "error"})
          /\ why = "error" => PassEnded(l, {"error"})
      BY <1>1, <1>5, <2>1, <2>2
    <3> QED BY <3>1, <3>2 DEF EndTold
  <2> QED BY <1>5, <2>1, <2>3 DEF FirstRun
<1>8. \A k \in Loops \ {l} : Heeded(k)' /\ FirstRun(k)'
  BY <1>4, <1>5, ToldUntouched DEF Told, Finish, TypeOK
<1> QED BY <1>4, <1>6, <1>7, <1>8 DEF Told

(* The body's own calls: they set the flag the generator reads.            *)
LEMMA ToldBody ==
    ASSUME TypeOK, Chain, OutOK, Told, NEW l \in Loops,
           \/ LeavePhase(l)
           \/ \E name \in PhaseNames : EnterPhase(l, name)
           \/ \E s \in Signals[l] : Signal(l, s)
           \/ \E why \in Reasons : Done(l, why)
    PROVE  OutOK' /\ Told'
<1>1. /\ \A k \in Loops : pc'[k] = pc[k] /\ reason'[k] = reason[k] /\ iteration'[k] = iteration[k]
                          /\ runs'[k] = runs[k]
      /\ \A k \in Loops \ {l} : request'[k] = request[k] /\ current'[k] = current[k]
      /\ pc[l] = "body"
  BY DEF LeavePhase, EnterPhase, Signal, Done, AtBody, Unwinding, TypeOK, passVars
<1>2. \/ OutOK' /\ out' = out
      \/ \E e \in Entry : e.type # "run.start" /\ Emit(l, e)
  <2>1. CASE LeavePhase(l)
    <3> DEFINE e == Timeline!Visit(IF raising = "error" THEN "node.error" ELSE "node.end",
                                   iteration[l], Last(phase[l]), NoPhase)
    <3>1. Last(phase[l]) \in PhaseNames
      BY <2>1, FrontFacts DEF LeavePhase, TypeOK
    <3>2. Emit(l, e)
      BY <2>1 DEF LeavePhase
    <3>3. e \in Entry /\ e.type # "run.start"
      BY <3>1 DEF Timeline!Visit, Entry, EventTypes, TypeOK
    <3> HIDE DEF e
    <3> QED BY <3>2, <3>3
  <2>2. ASSUME NEW name \in PhaseNames, EnterPhase(l, name)
        PROVE  \E e \in Entry : e.type # "run.start" /\ Emit(l, e)
    <3> DEFINE e == Timeline!Visit("node.start", iteration[l], name, EdgeTo(l, name))
    <3>1. Emit(l, e)
      BY <2>2 DEF EnterPhase
    <3>2. EdgeTo(l, name) \in PhaseNames \cup {NoPhase}
      BY DEF EdgeTo, TypeOK
    <3>3. e \in Entry /\ e.type # "run.start"
      BY <3>2 DEF Timeline!Visit, Entry, EventTypes, TypeOK
    <3> HIDE DEF e
    <3> QED BY <3>1, <3>3
  <2>3. CASE (\E s \in Signals[l] : Signal(l, s)) \/ \E why \in Reasons : Done(l, why)
    BY <2>3 DEF Signal, Done, OutOK
  <2> QED BY <2>1, <2>2, <2>3
<1>3. /\ OutOK' /\ \A k \in Loops \ {l} : out'[k] = out[k]
      /\ out'[l] # <<>> /\ Last(out'[l]).type # "run.start"
  <2>1. CASE OutOK' /\ out' = out
    BY <1>1, <2>1 DEF Told, Heeded
  <2>2. ASSUME NEW e \in Entry, e.type # "run.start", Emit(l, e)
        PROVE  /\ OutOK' /\ \A k \in Loops \ {l} : out'[k] = out[k]
               /\ out'[l] # <<>> /\ Last(out'[l]).type # "run.start"
    BY <2>2, EmitFacts
  <2> QED BY <1>2, <2>1, <2>2
<1>4. request'[l] = current'[l].done
  <2>1. request[l] = current[l].done /\ current \in [Loops -> Passes] /\ current[l] \in Passes
        /\ request \in [Loops -> Reasons \cup {NoReason}]
    BY <1>1 DEF Told, Heeded, TypeOK
  <2>2. CASE LeavePhase(l)
    <3>1. (raising = "error") \in BOOLEAN
      OBVIOUS
    <3>2. [current[l] EXCEPT !.failed = @ \/ raising = "error"].done = current[l].done
      BY <2>1, <3>1, PassFacts
    <3>3. request' = request
      BY <2>2 DEF LeavePhase
    <3>4. current' = [current EXCEPT ![l] = [current[l] EXCEPT !.failed = @ \/ raising = "error"]]
      BY <2>2 DEF LeavePhase
    <3> QED BY <2>1, <3>2, <3>3, <3>4
  <2>3. ASSUME NEW name \in PhaseNames, EnterPhase(l, name) PROVE request'[l] = current'[l].done
    BY <2>1, <2>3 DEF EnterPhase
  <2>4. ASSUME NEW s \in Signals[l], Signal(l, s) PROVE request'[l] = current'[l].done
    <3>1. [current[l] EXCEPT !.signal = s].done = current[l].done
      BY <2>1, PassFacts, ConstantTypes
    <3> QED BY <2>1, <2>4, <3>1 DEF Signal
  <2>5. ASSUME NEW why \in Reasons, Done(l, why) PROVE request'[l] = current'[l].done
    <3>1. [current[l] EXCEPT !.done = why].done = why
      BY <2>1, PassFacts
    <3> QED BY <2>1, <2>5, <3>1 DEF Done
  <2> QED BY <2>2, <2>3, <2>4, <2>5
<1>5. Heeded(l)'
  BY <1>1, <1>3, <1>4 DEF Heeded
<1>6. FirstRun(l)'
  BY <1>1 DEF Told, FirstRun
<1>7. \A k \in Loops \ {l} : Heeded(k)' /\ FirstRun(k)'
  BY <1>1, <1>3, ToldUntouched DEF Told
<1> QED BY <1>3, <1>5, <1>6, <1>7 DEF Told

(* stop(), and StopLoop, while no other thread may call them: every loop   *)
(* is idle or in its body.                                                 *)
LEMMA ToldStop ==
    ASSUME TypeOK, Chain, OutOK, Told, ~StopFromOthers, NEW why \in Reasons,
           RaiseStopLoop(why) \/ \E l \in Loops : Stop(l, why)
    PROVE  OutOK' /\ Told'
<1>1. /\ OutOK' /\ pc' = pc /\ iteration' = iteration /\ runs' = runs /\ out' = out
      /\ \A l \in Loops : pc[l] \in {"idle", "body"}
  BY FreePlaces DEF RaiseStopLoop, Stop, OutOK
<1>2. /\ current \in [Loops -> Passes] /\ request \in [Loops -> Reasons \cup {NoReason}]
      /\ reason \in [Loops -> Reasons \cup BuiltIn \cup {NoReason}]
      /\ \A l \in Loops : [current[l] EXCEPT !.done = why].done = why
  BY PassFacts DEF TypeOK
<1>3. ASSUME NEW l \in Loops, Flag(l, why), Asked(l, why) PROVE Told'
  <2>1. HadPass(l) <=> pc[l] = "body"
    BY <1>1 DEF HadPass, Told, Heeded
  <2>2. /\ reason'[l] = why /\ current'[l].done = why
        /\ \A k \in Loops \ {l} : reason'[k] = reason[k] /\ current'[k] = current[k]
    BY <1>2, <1>3 DEF Flag
  <2>3. /\ request'[l] = IF pc[l] = "body" THEN why ELSE request[l]
        /\ \A k \in Loops \ {l} : request'[k] = request[k]
    BY <1>2, <1>3, <2>1 DEF Asked
  <2>4. Heeded(l)'
    BY <1>1, <2>2, <2>3 DEF Told, Heeded, Last
  <2>5. FirstRun(l)'
    <3>1. pc[l] = "idle" /\ EndTold(l) => EndTold(l)'
      BY <1>1, <2>3 DEF EndTold, Last
    <3> QED BY <1>1, <2>2, <3>1 DEF Told, FirstRun
  <2>6. \A k \in Loops \ {l} : Heeded(k)' /\ FirstRun(k)'
    BY <1>1, <2>2, <2>3, ToldUntouched DEF Told
  <2> QED BY <2>4, <2>5, <2>6 DEF Told
<1>4. ASSUME UNCHANGED <<reason, current, request>> PROVE Told'
  BY <1>1, <1>4, ToldUntouched DEF Told
<1>5. CASE RaiseStopLoop(why)
  <2>1. CASE nest = <<>>
    <3>1. context = NoLoop
      BY <2>1 DEF Chain, ContextIsInnermost
    <3> QED BY <1>1, <1>4, <1>5, <2>1, <3>1 DEF RaiseStopLoop
  <2>2. CASE nest # <<>>
    <3>1. context = Last(nest) /\ Last(nest) \in Loops
      BY <2>2, FrontFacts DEF Chain, ContextIsInnermost, TypeOK
    <3>2. context # NoLoop
      BY <3>1, NamesAssumption
    <3>3. Flag(context, why) /\ Asked(context, why)
      BY <1>5, <2>2, <3>1, <3>2 DEF RaiseStopLoop
    <3> QED BY <1>1, <1>3, <3>1, <3>3
  <2> QED BY <2>1, <2>2
<1>6. CASE \E l \in Loops : Stop(l, why)
  BY <1>1, <1>3, <1>6 DEF Stop
<1> QED BY <1>5, <1>6

LEMMA ToldStep == TypeOK /\ Chain /\ OutOK /\ Told /\ ~StopFromOthers /\ [Next]_vars => OutOK' /\ Told'
<1> SUFFICES ASSUME TypeOK, Chain, OutOK, Told, ~StopFromOthers, [Next]_vars PROVE OutOK' /\ Told'
  OBVIOUS
<1>1. ASSUME NEW l \in Loops, Break(l) \/ Escape(l) PROVE OutOK' /\ Told'
  BY <1>1, ToldGeneratorExit DEF Break, Escape, AtBody, Unwinding
<1>2. ASSUME NEW l \in Loops, Exit(l) PROVE OutOK' /\ Told'
  <2>1. /\ OutOK' /\ pc' = pc /\ iteration' = iteration /\ runs' = runs /\ out' = out
        /\ request' = request /\ current' = current /\ pc[l] = "idle"
        /\ reason'[l] \in Reasons /\ \A k \in Loops \ {l} : reason'[k] = reason[k]
    BY <1>2 DEF Exit, OutOK, passVars, TypeOK
  <2>2. Heeded(l)'
    BY <2>1 DEF Heeded
  <2>3. FirstRun(l)'
    <3>1. EndTold(l) => EndTold(l)'
      BY <2>1 DEF EndTold, Last
    <3> QED BY <2>1, <3>1 DEF Told, FirstRun
  <2>4. \A k \in Loops \ {l} : Heeded(k)' /\ FirstRun(k)'
    BY <2>1, ToldUntouched DEF Told
  <2> QED BY <2>1, <2>2, <2>3, <2>4 DEF Told
<1>3. ASSUME \/ \E why \in Reasons : StopLoopFromWorker(why)
             \/ \E kind \in {"error", "exit"} : Raise(kind)
             \/ Catch
             \/ UNCHANGED vars
      PROVE  OutOK' /\ Told'
  <2>1. /\ pc' = pc /\ iteration' = iteration /\ runs' = runs /\ out' = out
        /\ request' = request /\ current' = current /\ reason' = reason
    BY <1>3 DEF StopLoopFromWorker, Raise, Catch, vars, passVars
  <2> QED BY <2>1, ToldUntouched DEF Told, OutOK
<1> QED BY <1>1, <1>2, <1>3, ToldBegin, ToldGiveUp, ToldStartPass, ToldResume, ToldCheck,
           ToldFinish, ToldBody, ToldStop DEF Next

LEMMA OutInit == Init => OutOK
    BY DEF Init, OutOK

(* Only the start of a pass counts passes up.                              *)
LEMMA StopStep ==
    ASSUME TypeOK, Told, [Next]_vars
    PROVE  [\A l \in Loops : iteration'[l] > iteration[l] => request[l] = NoReason]_vars
<1>1. ASSUME NEW k \in Loops, StartPass(k)
      PROVE  \A l \in Loops : iteration'[l] > iteration[l] => request[l] = NoReason
  <2>1. request[k] = NoReason
    BY <1>1 DEF StartPass, Told, Heeded
  <2>2. \A l \in Loops \ {k} : iteration'[l] = iteration[l] /\ iteration[l] \in Nat
    BY <1>1 DEF StartPass, TypeOK
  <2> QED BY <2>1, <2>2
<1>2. ASSUME iteration' = iteration
      PROVE  \A l \in Loops : iteration'[l] > iteration[l] => request[l] = NoReason
  BY <1>2 DEF TypeOK
<1>3. CASE UNCHANGED vars
  BY <1>3
<1>4. Next => iteration' = iteration \/ \E k \in Loops : StartPass(k)
  BY DEF Next, Begin, GiveUp, Resume, Check, Break, Escape, GeneratorExit, Finish, LeavePhase, Exit,
         EnterPhase, Signal, Done, Stop, RaiseStopLoop, StopLoopFromWorker, Raise, Catch
<1> QED BY <1>1, <1>2, <1>3, <1>4

(* When only the program's own thread stops its loops, no pass starts once *)
(* the one before it was asked to be the last.                             *)
THEOREM StopCorrect ==
    ASSUME ~StopFromOthers
    PROVE  Spec => StopHeeded
<1>1. Init => TypeOK /\ Chain /\ OutOK /\ Told
  BY TypeInit, ChainInit, OutInit, ToldInit
<1>2. TypeOK /\ Chain /\ OutOK /\ Told /\ [Next]_vars => (TypeOK /\ Chain /\ OutOK /\ Told)'
  BY TypeStep, ChainStep, ToldStep
<1>3. TypeOK /\ Told /\ [Next]_vars
        => [\A l \in Loops : iteration'[l] > iteration[l] => request[l] = NoReason]_vars
  BY StopStep
<1> QED BY <1>1, <1>2, <1>3, PTL DEF Spec, StopHeeded

(* The end of a loop object's first run tells why the run ended, however   *)
(* often the object is iterated again.                                     *)
THEOREM FirstEndCorrect ==
    ASSUME ~StopFromOthers
    PROVE  Spec => [](\A l \in Loops : pc[l] = "idle" /\ runs[l] = 1 => EndTold(l))
<1>1. Init => TypeOK /\ Chain /\ OutOK /\ Told
  BY TypeInit, ChainInit, OutInit, ToldInit
<1>2. TypeOK /\ Chain /\ OutOK /\ Told /\ [Next]_vars => (TypeOK /\ Chain /\ OutOK /\ Told)'
  BY TypeStep, ChainStep, ToldStep
<1>3. Told => \A l \in Loops : pc[l] = "idle" /\ runs[l] = 1 => EndTold(l)
  BY DEF Told, FirstRun
<1> QED BY <1>1, <1>2, <1>3, PTL DEF Spec

(* So when each loop object is iterated once, every run.end tells why.     *)
THEOREM EndCorrect ==
    ASSUME ~StopFromOthers, MaxRuns = 1
    PROVE  Spec => []EndTellsWhy
<1>1. TypeOK /\ (\A l \in Loops : pc[l] = "idle" /\ runs[l] = 1 => EndTold(l)) => EndTellsWhy
  BY DEF TypeOK, EndTellsWhy
<1> QED BY <1>1, TypeCorrect, FirstEndCorrect, PTL

-----------------------------------------------------------------------------
(* Stall detection.                                                        *)

\* The part of StallCountsPasses about loop l
StallOK(l) ==
    IF Scored(l) = {} THEN best[l] = NoSignal /\ stale[l] = 0
    ELSE \E first \in Scored(l) :
         /\ signals[l][first] = best[l]
         /\ \A i \in Scored(l) : signals[l][i] >= best[l] /\ (i < first => signals[l][i] > best[l])
         /\ stale[l] = Cardinality({i \in Scored(l) : i > first})

(* One more signal makes at most one more scored pass, after the others.   *)
LEMMA ScoreStall ==
    ASSUME TypeOK, NEW l \in Loops, StallOK(l), Score(l)
    PROVE  StallOK(l)' /\ \A k \in Loops \ {l} :
              signals'[k] = signals[k] /\ best'[k] = best[k] /\ stale'[k] = stale[k]
<1> DEFINE s == current[l].signal
           n == Len(signals[l]) + 1
<1>1. /\ signals \in [Loops -> Seq(SignalValues \cup {NoSignal})]
      /\ best \in [Loops -> SignalValues \cup {NoSignal}] /\ stale \in [Loops -> Nat]
      /\ s \in SignalValues \cup {NoSignal} /\ SignalValues \subseteq Int /\ NoSignal \notin SignalValues
  BY PassFacts, ConstantTypes DEF TypeOK
<1>2. /\ signals' = [signals EXCEPT ![l] = Append(signals[l], s)]
      /\ s = NoSignal => best' = best /\ stale' = stale
      /\ s # NoSignal /\ (best[l] = NoSignal \/ s < best[l]) =>
            best' = [best EXCEPT ![l] = s] /\ stale' = [stale EXCEPT ![l] = 0]
      /\ s # NoSignal /\ ~(best[l] = NoSignal \/ s < best[l]) =>
            best' = best /\ stale' = [stale EXCEPT ![l] = stale[l] + 1]
  BY DEF Score
<1> HIDE DEF s
<1>3. /\ n \in Nat \ {0} /\ Len(signals'[l]) = n /\ signals'[l][n] = s
      /\ DOMAIN signals[l] = 1..(n - 1) /\ DOMAIN signals'[l] = 1..n
      /\ \A i \in 1..(n - 1) : signals'[l][i] = signals[l][i]
      /\ \A i \in 1..(n - 1) : signals[l][i] \in SignalValues \cup {NoSignal}
  <2>1. signals[l] \in Seq(SignalValues \cup {NoSignal}) /\ signals'[l] = Append(signals[l], s)
    BY <1>1, <1>2
  <2>2. /\ Append(signals[l], s) \in Seq(SignalValues \cup {NoSignal})
        /\ Len(signals[l]) \in Nat /\ Len(Append(signals[l], s)) = Len(signals[l]) + 1
        /\ \A i \in 1..Len(signals[l]) : Append(signals[l], s)[i] = signals[l][i]
        /\ Append(signals[l], s)[Len(signals[l]) + 1] = s
    BY <1>1, <2>1, AppendFacts
  <2> QED BY <2>1, <2>2
<1> HIDE DEF n
<1>4. Scored(l)' = Scored(l) \cup (IF s = NoSignal THEN {} ELSE {n})
  BY <1>3 DEF Scored
<1>5. Scored(l) \subseteq 1..(n - 1) /\ \A i \in Scored(l) : signals[l][i] \in SignalValues
  BY <1>3 DEF Scored
<1>6. \A i \in Scored(l) : signals'[l][i] = signals[l][i] /\ i \in Nat /\ i < n
  BY <1>3, <1>5
<1>7. ASSUME s = NoSignal PROVE StallOK(l)'
  <2>1. Scored(l)' = Scored(l) /\ best' = best /\ stale' = stale
    BY <1>2, <1>4, <1>7
  <2> QED BY <1>6, <2>1 DEF StallOK
<1>8. ASSUME s # NoSignal, best[l] = NoSignal \/ s < best[l] PROVE StallOK(l)'
  <2>0. s \in Int /\ (best[l] # NoSignal => best[l] \in Int) /\ \A i \in Scored(l) : signals[l][i] \in Int
    BY <1>1, <1>5, <1>8
  <2>1. best'[l] = s /\ stale'[l] = 0
    BY <1>1, <1>2, <1>8
  <2>2. n \in Scored(l)' /\ signals'[l][n] = best'[l] /\ Scored(l)' = Scored(l) \cup {n}
    BY <1>3, <1>4, <1>8, <2>1
  <2>3. \A i \in Scored(l) : signals[l][i] > s
    <3>1. CASE best[l] = NoSignal
      <4>1. Scored(l) = {}
        <5> SUFFICES ASSUME Scored(l) # {} PROVE FALSE
          OBVIOUS
        <5>1. PICK first \in Scored(l) : signals[l][first] = best[l]
          BY DEF StallOK
        <5> QED BY <1>1, <1>5, <3>1, <5>1
      <4> QED BY <4>1
    <3>2. CASE best[l] # NoSignal
      <4>1. \A i \in Scored(l) : signals[l][i] >= best[l]
        BY DEF StallOK
      <4>2. s < best[l]
        BY <1>8, <3>2
      <4> QED BY <2>0, <3>2, <4>1, <4>2
    <3> QED BY <3>1, <3>2
  <2>4. \A i \in Scored(l)' : signals'[l][i] >= best'[l] /\ (i < n => signals'[l][i] > best'[l])
    <3> SUFFICES ASSUME NEW i \in Scored(l)'
                 PROVE  signals'[l][i] >= s /\ (i < n => signals'[l][i] > s)
      BY <2>1
    <3>1. CASE i = n
      BY <1>3, <2>0, <3>1
    <3>2. CASE i # n
      <4>1. i \in Scored(l) /\ signals'[l][i] = signals[l][i]
        BY <1>6, <2>2, <3>2
      <4> QED BY <2>0, <2>3, <4>1
    <3> QED BY <3>1, <3>2
  <2>5. {i \in Scored(l)' : i > n} = {}
    BY <1>3, <1>6, <2>2
  <2>6. stale'[l] = Cardinality({i \in Scored(l)' : i > n})
    BY <2>1, <2>5, FS_EmptySet
  <2> QED BY <2>2, <2>4, <2>6 DEF StallOK
<1>9. ASSUME s # NoSignal, best[l] # NoSignal, ~(s < best[l]) PROVE StallOK(l)'
  <2>0. best[l] \in Int /\ s \in Int /\ s >= best[l]
    <3>1. best[l] \in SignalValues /\ s \in SignalValues
      BY <1>1, <1>9
    <3>2. best[l] \in Int /\ s \in Int
      BY <1>1, <3>1
    <3>3. s >= best[l]
      BY <1>9, <3>2
    <3> QED BY <3>2, <3>3
  <2>1. best'[l] = best[l] /\ stale'[l] = stale[l] + 1 /\ best[l] \in Int /\ s \in Int /\ s >= best[l]
    <3>1. best' = best /\ stale' = [stale EXCEPT ![l] = stale[l] + 1]
      BY <1>2, <1>9
    <3> QED BY <1>1, <2>0, <3>1
  <2>2. Scored(l)' = Scored(l) \cup {n} /\ Scored(l) # {}
    BY <1>4, <1>9 DEF StallOK
  <2>3. PICK first \in Scored(l) :
            /\ signals[l][first] = best[l]
            /\ \A i \in Scored(l) : signals[l][i] >= best[l] /\ (i < first => signals[l][i] > best[l])
            /\ stale[l] = Cardinality({i \in Scored(l) : i > first})
    BY <2>2 DEF StallOK
  <2>4. first \in Scored(l)' /\ signals'[l][first] = best'[l] /\ first \in Nat /\ first < n
    BY <1>6, <2>1, <2>2, <2>3
  <2>5. \A i \in Scored(l)' : signals'[l][i] >= best'[l] /\ (i < first => signals'[l][i] > best'[l])
    BY <1>3, <1>6, <2>1, <2>2, <2>3, <2>4
  <2> DEFINE later == {i \in Scored(l) : i > first}
  <2>6. {i \in Scored(l)' : i > first} = later \cup {n} /\ n \notin later
    BY <1>3, <1>6, <2>2, <2>4
  <2>7. IsFiniteSet(later)
    <3>1. IsFiniteSet(1..(n - 1))
      BY <1>3, FS_Interval
    <3>2. later \in SUBSET (1..(n - 1))
      BY <1>5
    <3> QED BY <3>1, <3>2, FS_Subset
  <2>8. Cardinality(later \cup {n}) = Cardinality(later) + 1
    BY <2>6, <2>7, FS_AddElement
  <2>9. stale'[l] = Cardinality({i \in Scored(l)' : i > first})
    BY <2>1, <2>3, <2>6, <2>8
  <2> QED BY <2>2, <2>4, <2>5, <2>9 DEF StallOK
<1>10. \A k \in Loops \ {l} : signals'[k] = signals[k] /\ best'[k] = best[k] /\ stale'[k] = stale[k]
  BY <1>1, <1>2
<1> QED BY <1>7, <1>8, <1>9, <1>10

LEMMA StallStep == TypeOK /\ StallCountsPasses /\ [Next]_vars => StallCountsPasses'
<1> SUFFICES ASSUME TypeOK, StallCountsPasses, [Next]_vars PROVE StallCountsPasses'
  OBVIOUS
<1>1. \A l \in Loops : StallOK(l)
  BY DEF StallCountsPasses, StallOK
<1>2. ASSUME NEW k \in Loops, signals'[k] = signals[k], best'[k] = best[k], stale'[k] = stale[k]
      PROVE  StallOK(k)'
  BY <1>1, <1>2 DEF StallOK, Scored
<1>3. ASSUME NEW l \in Loops, Score(l) PROVE \A k \in Loops : StallOK(k)'
  <2>1. StallOK(l)' /\ \A k \in Loops \ {l} :
              signals'[k] = signals[k] /\ best'[k] = best[k] /\ stale'[k] = stale[k]
    BY <1>1, <1>3, ScoreStall
  <2> QED BY <1>2, <2>1
<1>4. ASSUME UNCHANGED signalVars PROVE \A k \in Loops : StallOK(k)'
  BY <1>2, <1>4 DEF signalVars
<1>5. UNCHANGED signalVars \/ \E l \in Loops : Score(l)
  BY DEF Next, Begin, GiveUp, StartPass, Resume, Check, Break, Escape, GeneratorExit, CloseIteration,
         Finish, LeavePhase, Exit, EnterPhase, Signal, Done, Stop, RaiseStopLoop,
         StopLoopFromWorker, Raise, Catch, vars
<1> QED BY <1>3, <1>4, <1>5 DEF StallCountsPasses, StallOK

(* The stall counter is the number of passes with a signal since the first *)
(* of the best ones.                                                       *)
THEOREM StallCorrect == Spec => []StallCountsPasses
<1>1. Init => StallCountsPasses
  BY DEF Init, StallCountsPasses, Scored
<1> QED BY <1>1, TypeInit, TypeStep, StallStep, PTL DEF Spec

-----------------------------------------------------------------------------
(* The loops implement the timeline every run promises.                    *)

(* A nonempty set of positions has a last one.                             *)
LEMMA HasLast ==
    ASSUME NEW n \in Nat, NEW I \in SUBSET (1..n), I # {}
    PROVE  \E i \in I : \A j \in I : j <= i
<1> DEFINE T == {n - i : i \in I}
<1>1. T \subseteq Nat /\ T # {}
  <2>1. \A i \in I : n - i \in Nat
    OBVIOUS
  <2>2. PICK i \in I : TRUE
    OBVIOUS
  <2>3. n - i \in T
    BY <2>2
  <2> QED BY <2>1, <2>3
<1>2. IsWellFoundedOn(OpToRel(<, Nat), Nat)
  BY NatLessThanWellFounded
<1>3. \E x \in T : \A y \in T : ~(<<y, x>> \in OpToRel(<, Nat))
  BY <1>1, <1>2, WFMin
<1>4. PICK x \in T : \A y \in T : ~(y < x)
  BY <1>1, <1>3 DEF OpToRel
<1>5. PICK i \in I : x = n - i
  BY <1>4
<1>6. ASSUME NEW j \in I PROVE j <= i
  <2>1. n - j \in T
    OBVIOUS
  <2>2. ~(n - j < n - i)
    BY <1>4, <1>5, <2>1
  <2>3. i \in Int /\ j \in Int
    OBVIOUS
  <2> QED BY <2>2, <2>3
<1> QED BY <1>6

\* The last of the entries of s at the positions in I
Top(s, I) == s[CHOOSE i \in I : \A j \in I : j <= i]

LEMMA TopFacts ==
    ASSUME NEW S, NEW s \in Seq(S), NEW e \in S, NEW I \in SUBSET (1..Len(s))
    PROVE  /\ Top(Append(s, e), I \cup {Len(s) + 1}) = e
           /\ I # {} => Top(Append(s, e), I) = Top(s, I)
<1> DEFINE n == Len(s) + 1
<1>1. /\ Len(s) \in Nat /\ n \in Nat
      /\ \A i \in 1..Len(s) : Append(s, e)[i] = s[i]
      /\ Append(s, e)[n] = e
  BY AppendFacts
<1>2. \A i \in I : i \in Nat /\ i < n
  BY <1>1
<1>3. (CHOOSE i \in I \cup {n} : \A j \in I \cup {n} : j <= i) = n
  <2>1. n \in I \cup {n} /\ \A j \in I \cup {n} : j <= n
    BY <1>1, <1>2
  <2>2. \A i \in I \cup {n} : (\A j \in I \cup {n} : j <= i) => i = n
    BY <1>1, <1>2
  <2> QED BY <2>1, <2>2
<1>4. ASSUME I # {} PROVE (CHOOSE i \in I : \A j \in I : j <= i) \in 1..Len(s)
  <2>1. \E i \in I : \A j \in I : j <= i
    BY <1>1, <1>4, HasLast
  <2> QED BY <2>1
<1> QED BY <1>1, <1>3, <1>4 DEF Top

\* Where a loop's events have these types
Types(s, types) == {i \in 1..Len(s) : s[i].type \in types}

(* The timeline's operators, as functions of a loop's events.              *)
LEMMA TimelineFacts ==
    ASSUME NEW l \in Loops, OutOK
    PROVE  /\ \A types : Timeline!At(l, types) = Types(out[l], types)
           /\ \A I : Timeline!Newest(l, I) = Top(out[l], I)
    BY DEF Timeline!At, Timeline!Newest, Top, Types, OutOK

LEMMA TimelineNext ==
    ASSUME NEW l \in Loops, OutOK'
    PROVE  /\ \A types : Timeline!At(l, types)' = Types(out'[l], types)
           /\ \A I : Timeline!Newest(l, I)' = Top(out'[l], I)
    BY DEF Timeline!At, Timeline!Newest, Top, Types, OutOK

(* One more event: the positions of its types, and the newest of them.     *)
LEMMA PushFacts ==
    ASSUME NEW s \in Seq(Entry), NEW e \in Entry, NEW types
    PROVE  LET t == Append(s, e) IN
           IF e.type \in types
             THEN /\ Types(t, types) = Types(s, types) \cup {Len(s) + 1}
                  /\ Types(t, types) # {} /\ Top(t, Types(t, types)) = e
             ELSE /\ Types(t, types) = Types(s, types)
                  /\ Types(s, types) # {} => Top(t, Types(t, types)) = Top(s, Types(s, types))
<1> DEFINE t == Append(s, e)
           n == Len(s) + 1
<1>1. /\ Len(s) \in Nat /\ n \in Nat /\ Len(t) = n /\ t[n] = e
      /\ \A i \in 1..Len(s) : t[i] = s[i]
  BY AppendFacts
<1>2. 1..n = (1..Len(s)) \cup {n}
  BY <1>1
<1>3. \A I \in SUBSET (1..Len(s)) : Top(t, I \cup {n}) = e /\ (I # {} => Top(t, I) = Top(s, I))
  BY TopFacts
<1> HIDE DEF t
<1>4. Types(t, types) = Types(s, types) \cup (IF e.type \in types THEN {n} ELSE {})
  BY <1>1, <1>2 DEF Types
<1>5. Types(s, types) \in SUBSET (1..Len(s))
  BY DEF Types
<1> HIDE DEF n
<1>6. CASE e.type \in types
  BY <1>3, <1>4, <1>5, <1>6 DEF t, n
<1>7. CASE e.type \notin types
  BY <1>3, <1>4, <1>5, <1>7 DEF t
<1> QED BY <1>6, <1>7

(* What a loop's next event does to its timeline.                          *)
LEMMA ReportFacts ==
    ASSUME OutOK, NEW l \in Loops, NEW e \in Entry, Emit(l, e)
    PROVE  /\ Timeline!Running(l)' <=> IF e.type \in Timeline!RunTypes THEN e.type = "run.start"
                                                                      ELSE Timeline!Running(l)
           /\ Timeline!InPass(l)' <=> IF e.type \in Timeline!PassTypes THEN e.type = "iter.start"
                                                                      ELSE Timeline!InPass(l)
           /\ Timeline!Passes(l) \in Nat
           /\ Timeline!Passes(l)' = IF e.type = "iter.start" THEN Timeline!Passes(l) + 1
                                                             ELSE Timeline!Passes(l)
           /\ Timeline!Source(l)' = IF e.type \in Timeline!LeaveTypes \cup {"iter.start"}
                                      THEN e.node ELSE Timeline!Source(l)
<1> DEFINE s == out[l]
           t == Append(s, e)
<1>1. OutOK' /\ out'[l] = t /\ s \in Seq(Entry)
  BY EmitFacts DEF OutOK
<1>2. /\ \A types : Timeline!At(l, types) = Types(s, types)
      /\ \A I : Timeline!Newest(l, I) = Top(s, I)
  BY TimelineFacts
<1>3. /\ \A types : Timeline!At(l, types)' = Types(t, types)
      /\ \A I : Timeline!Newest(l, I)' = Top(t, I)
  BY <1>1, TimelineNext
<1>4. \A types :
         IF e.type \in types
           THEN /\ Types(t, types) = Types(s, types) \cup {Len(s) + 1}
                /\ Types(t, types) # {} /\ Top(t, Types(t, types)) = e
           ELSE /\ Types(t, types) = Types(s, types)
                /\ Types(s, types) # {} => Top(t, Types(t, types)) = Top(s, Types(s, types))
  BY <1>1, PushFacts
<1>5. Len(s) \in Nat /\ \A types : Types(s, types) \in SUBSET (1..Len(s))
  BY <1>1 DEF Types
<1> HIDE DEF s, t
<1>6. Timeline!Running(l)' <=> IF e.type \in Timeline!RunTypes THEN e.type = "run.start"
                                                               ELSE Timeline!Running(l)
  BY <1>2, <1>3, <1>4 DEF Timeline!Running
<1>7. Timeline!InPass(l)' <=> IF e.type \in Timeline!PassTypes THEN e.type = "iter.start"
                                                               ELSE Timeline!InPass(l)
  BY <1>2, <1>3, <1>4 DEF Timeline!InPass
<1>8. /\ Timeline!Passes(l) \in Nat
      /\ Timeline!Passes(l)' = IF e.type = "iter.start" THEN Timeline!Passes(l) + 1
                                                        ELSE Timeline!Passes(l)
  <2> DEFINE P == Types(s, {"iter.start"})
  <2>1. IsFiniteSet(P) /\ Cardinality(P) \in Nat /\ Len(s) + 1 \notin P
    <3>1. IsFiniteSet(1..Len(s))
      BY <1>5, FS_Interval
    <3>2. P \in SUBSET (1..Len(s))
      BY <1>5
    <3> HIDE DEF P
    <3>3. IsFiniteSet(P)
      BY <3>1, <3>2, FS_Subset
    <3>4. Len(s) + 1 \notin P
      BY <1>5, <3>2
    <3> QED BY <3>3, <3>4, FS_CardinalityType
  <2>2. Types(t, {"iter.start"}) = IF e.type = "iter.start" THEN P \cup {Len(s) + 1} ELSE P
    BY <1>4
  <2>3. Cardinality(P \cup {Len(s) + 1}) = Cardinality(P) + 1
    BY <2>1, FS_AddElement
  <2>4. Timeline!Passes(l) = Cardinality(P) /\ Timeline!Passes(l)' = Cardinality(Types(t, {"iter.start"}))
    <3>1. \A A : Timeline!Cardinality(A) = Cardinality(A)
      BY DEF Timeline!Cardinality, Cardinality
    <3> QED BY <1>2, <1>3, <3>1 DEF Timeline!Passes
  <2> QED BY <2>1, <2>2, <2>3, <2>4
<1>9. Timeline!Source(l)' = IF e.type \in Timeline!LeaveTypes \cup {"iter.start"}
                              THEN e.node ELSE Timeline!Source(l)
  <2> DEFINE M == Timeline!LeaveTypes \cup {"iter.start"}
  <2>1. Timeline!Source(l) = IF Types(s, M) = {} THEN NoPhase ELSE Top(s, Types(s, M)).node
    BY <1>2 DEF Timeline!Source, Timeline!Moves
  <2>2. Timeline!Source(l)' = IF Types(t, M) = {} THEN NoPhase ELSE Top(t, Types(t, M)).node
    BY <1>3 DEF Timeline!Source, Timeline!Moves
  <2> HIDE DEF M
  <2>3. CASE e.type \in M
    BY <1>4, <2>2, <2>3 DEF M
  <2>4. CASE e.type \notin M
    BY <1>4, <2>1, <2>2, <2>4 DEF M
  <2> QED BY <2>3, <2>4 DEF M
<1> QED BY <1>6, <1>7, <1>8, <1>9

(* What a loop has reported is where its generator and its body are.       *)
Reported(l) ==
    /\ Timeline!Running(l) <=> pc[l] # "idle"
    /\ Timeline!InPass(l) <=> pc[l] = "body"
    /\ Timeline!Passes(l) = iteration[l]
    /\ Timeline!Source(l) = lastPhase[l]
    /\ pc[l] # "body" => phase[l] = <<>>
    /\ pc[l] = "finish" => reason[l] # NoReason

AllReported == \A l \in Loops : Reported(l)

LEMMA SameTimeline ==
    ASSUME NEW l \in Loops, out'[l] = out[l]
    PROVE  /\ Timeline!Running(l)' <=> Timeline!Running(l)
           /\ Timeline!InPass(l)' <=> Timeline!InPass(l)
           /\ Timeline!Passes(l)' = Timeline!Passes(l)
           /\ Timeline!Source(l)' = Timeline!Source(l)
<1>1. /\ \A types : Timeline!At(l, types)' = Timeline!At(l, types)
      /\ \A I : Timeline!Newest(l, I)' = Timeline!Newest(l, I)
  BY DEF Timeline!At, Timeline!Newest
<1> QED BY <1>1 DEF Timeline!Running, Timeline!InPass, Timeline!Passes, Timeline!Source, Timeline!Moves

(* A step that reports nothing of a loop and leaves it where it is.        *)
LEMMA ReportedSame ==
    ASSUME NEW l \in Loops, Reported(l), out'[l] = out[l], iteration'[l] = iteration[l],
           lastPhase'[l] = lastPhase[l], phase'[l] = phase[l],
           pc'[l] = pc[l], pc[l] = "finish" /\ reason[l] # NoReason => reason'[l] # NoReason
    PROVE  Reported(l)'
    BY SameTimeline DEF Reported

LEMMA ReportedInit == Init => AllReported
<1> SUFFICES ASSUME Init, NEW l \in Loops PROVE Reported(l)
  BY DEF AllReported
<1>1. out[l] = <<>> /\ OutOK
  BY OutInit DEF Init
<1>2. \A types : Timeline!At(l, types) = {}
  BY <1>1, TimelineFacts DEF Types
<1>3. Timeline!Passes(l) = 0
  <2>1. \A A : Timeline!Cardinality(A) = Cardinality(A)
    BY DEF Timeline!Cardinality, Cardinality
  <2> QED BY <1>2, <2>1, FS_EmptySet DEF Timeline!Passes
<1>4. ~Timeline!Running(l) /\ ~Timeline!InPass(l) /\ Timeline!Source(l) = NoPhase
  BY <1>2 DEF Timeline!Running, Timeline!InPass, Timeline!Source, Timeline!Moves
<1> QED BY <1>3, <1>4 DEF Init, Reported

LEMMA ReportBegin ==
    ASSUME TypeOK, OutOK, AllReported, NEW l \in Loops, Begin(l)
    PROVE  OutOK' /\ AllReported' /\ Timeline!Next
<1> DEFINE e == Timeline!Run("run.start", "none")
<1>1. e \in Entry /\ e.type = "run.start"
  BY DEF Entry, EventTypes, Timeline!Run
<1>2. Emit(l, e)
  BY DEF Begin
<1>3. /\ pc[l] = "idle" /\ pc'[l] = "head"
      /\ phase' = phase /\ lastPhase' = lastPhase /\ reason' = reason /\ iteration' = iteration
      /\ \A k \in Loops \ {l} : pc'[k] = pc[k]
  BY DEF Begin, TypeOK
<1>4. Timeline!Next
  <2>1. ~Timeline!Running(l)
    BY <1>3 DEF AllReported, Reported
  <2>2. Timeline!StartRun(l)
    BY <1>2, <1>3, <2>1 DEF Timeline!StartRun, Timeline!Publish, Emit
  <2> QED BY <2>2 DEF Timeline!Next
<1> HIDE DEF e
<1>5. OutOK' /\ \A k \in Loops \ {l} : out'[k] = out[k]
  BY <1>1, <1>2, EmitFacts
<1>6. Reported(l)'
  <2>1. /\ Timeline!Running(l)' /\ (Timeline!InPass(l)' <=> Timeline!InPass(l))
        /\ Timeline!Passes(l)' = Timeline!Passes(l) /\ Timeline!Source(l)' = Timeline!Source(l)
    BY <1>1, <1>2, ReportFacts DEF Timeline!RunTypes, Timeline!PassTypes, Timeline!LeaveTypes
  <2> QED BY <1>3, <2>1 DEF AllReported, Reported
<1>7. \A k \in Loops \ {l} : Reported(k)'
  BY <1>3, <1>5, ReportedSame DEF AllReported
<1> QED BY <1>4, <1>5, <1>6, <1>7 DEF AllReported

LEMMA ReportStartPass ==
    ASSUME TypeOK, OutOK, AllReported, NEW l \in Loops, StartPass(l)
    PROVE  OutOK' /\ AllReported' /\ Timeline!Next
<1> DEFINE from == IF PhaseList[l] = <<>> THEN NoPhase ELSE EdgeTo(l, Head(PhaseList[l]))
           e == Timeline!Pass("iter.start", iteration[l] + 1, from, "none")
<1>1. from \in PhaseNames \cup {NoPhase} /\ from \in {NoPhase, lastPhase[l]}
  BY DEF EdgeTo, TypeOK
<1>2. Emit(l, e)
  BY DEF StartPass
<1> HIDE DEF from
<1>3. e \in Entry /\ e.type = "iter.start" /\ e.node = NoPhase
  <2>1. iteration[l] + 1 \in Nat
    BY DEF TypeOK
  <2> QED BY <1>1, <2>1 DEF Entry, EventTypes, Timeline!Pass
<1>4. /\ pc[l] = "head" /\ pc'[l] = "body"
      /\ phase' = phase /\ lastPhase'[l] = NoPhase /\ reason' = reason
      /\ iteration[l] \in Nat /\ iteration'[l] = iteration[l] + 1
      /\ \A k \in Loops \ {l} : pc'[k] = pc[k] /\ lastPhase'[k] = lastPhase[k] /\ iteration'[k] = iteration[k]
  BY DEF StartPass, TypeOK
<1>5. /\ Timeline!Running(l) /\ ~Timeline!InPass(l) /\ Timeline!Passes(l) = iteration[l]
      /\ Timeline!Source(l) = lastPhase[l]
  BY <1>4 DEF AllReported, Reported
<1>6. Timeline!Next
  <2>1. Timeline!Publish(l, Timeline!Pass("iter.start", Timeline!Passes(l) + 1, from, "none"))
    BY <1>2, <1>5 DEF Timeline!Publish, Emit
  <2>2. Timeline!StartPass(l)
    BY <1>1, <1>4, <1>5, <2>1 DEF Timeline!StartPass
  <2> QED BY <2>2 DEF Timeline!Next
<1> HIDE DEF e
<1>7. OutOK' /\ \A k \in Loops \ {l} : out'[k] = out[k]
  BY <1>2, <1>3, EmitFacts
<1>8. Reported(l)'
  <2>1. /\ (Timeline!Running(l)' <=> Timeline!Running(l)) /\ Timeline!InPass(l)'
        /\ Timeline!Passes(l)' = Timeline!Passes(l) + 1 /\ Timeline!Source(l)' = NoPhase
    BY <1>2, <1>3, ReportFacts DEF Timeline!RunTypes, Timeline!PassTypes, Timeline!LeaveTypes
  <2> QED BY <1>4, <1>5, <2>1 DEF Reported
<1>9. \A k \in Loops \ {l} : Reported(k)'
  BY <1>4, <1>7, ReportedSame DEF AllReported
<1> QED BY <1>6, <1>7, <1>8, <1>9 DEF AllReported

LEMMA ReportEndPass ==
    ASSUME TypeOK, OutOK, AllReported, NEW l \in Loops,
           pc[l] = "body", phase' = [phase EXCEPT ![l] = <<>>],
           NEW status \in BuiltIn \cup {"ok"}, status = "ok" => phase[l] = <<>>,
           Emit(l, Timeline!Pass("iter.end", iteration[l], NoPhase, status)),
           \/ pc' = [pc EXCEPT ![l] = "check"]
           \/ pc' = [pc EXCEPT ![l] = "finish"] /\ reason'[l] # NoReason,
           iteration' = iteration, lastPhase' = lastPhase,
           \A k \in Loops \ {l} : reason'[k] = reason[k]
    PROVE  OutOK' /\ AllReported' /\ Timeline!Next
<1> DEFINE e == Timeline!Pass("iter.end", iteration[l], NoPhase, status)
<1>1. e \in Entry /\ e.type = "iter.end"
  BY DEF Entry, EventTypes, Timeline!Pass, BuiltIn, TypeOK
<1>2. Timeline!Running(l) /\ Timeline!InPass(l) /\ Timeline!Passes(l) = iteration[l]
  BY DEF AllReported, Reported
<1>3. Timeline!Next
  <2>1. Timeline!Publish(l, Timeline!Pass("iter.end", Timeline!Passes(l), NoPhase, status))
    BY <1>2 DEF Timeline!Publish, Emit
  <2>2. status \in {"ok"} => phase[l] = <<>>
    OBVIOUS
  <2>3. Timeline!EndPass(l)
    BY <1>2, <2>1, <2>2 DEF Timeline!EndPass
  <2> QED BY <2>3 DEF Timeline!Next
<1>4. Emit(l, e)
  OBVIOUS
<1> HIDE DEF e
<1>5. OutOK' /\ \A k \in Loops \ {l} : out'[k] = out[k]
  BY <1>1, <1>4, EmitFacts
<1>6. /\ \A k \in Loops \ {l} : pc'[k] = pc[k] /\ phase'[k] = phase[k]
      /\ pc'[l] \in {"check", "finish"} /\ (pc'[l] = "finish" => reason'[l] # NoReason)
      /\ phase'[l] = <<>>
  BY DEF TypeOK
<1>7. Reported(l)'
  <2>1. /\ (Timeline!Running(l)' <=> Timeline!Running(l)) /\ ~Timeline!InPass(l)'
        /\ Timeline!Passes(l)' = Timeline!Passes(l) /\ Timeline!Source(l)' = Timeline!Source(l)
    BY <1>1, <1>4, ReportFacts DEF Timeline!RunTypes, Timeline!PassTypes, Timeline!LeaveTypes
  <2> QED BY <1>2, <1>6, <2>1 DEF AllReported, Reported
<1>8. \A k \in Loops \ {l} : Reported(k)'
  BY <1>5, <1>6, ReportedSame DEF AllReported
<1> QED BY <1>3, <1>5, <1>7, <1>8 DEF AllReported

LEMMA ReportFinish ==
    ASSUME TypeOK, OutOK, AllReported, NEW l \in Loops, Finish(l)
    PROVE  OutOK' /\ AllReported' /\ Timeline!Next
<1> DEFINE e == Timeline!Run("run.end", reason[l])
<1>1. /\ pc[l] = "finish" /\ pc'[l] = "idle"
      /\ phase' = phase /\ lastPhase' = lastPhase /\ reason' = reason /\ iteration' = iteration
      /\ \A k \in Loops \ {l} : pc'[k] = pc[k]
  BY DEF Finish, TypeOK, passVars
<1>2. /\ Timeline!Running(l) /\ ~Timeline!InPass(l) /\ reason[l] # NoReason
      /\ reason[l] \in BuiltIn \cup Reasons
  BY <1>1 DEF AllReported, Reported, TypeOK
<1>3. e \in Entry /\ e.type = "run.end"
  BY <1>2 DEF Entry, EventTypes, Timeline!Run
<1>4. Emit(l, e)
  BY <1>2 DEF Finish, OrElse
<1>5. Timeline!Next
  <2>1. Timeline!EndRun(l)
    BY <1>1, <1>2, <1>4 DEF Timeline!EndRun, Timeline!Publish, Emit
  <2> QED BY <2>1 DEF Timeline!Next
<1> HIDE DEF e
<1>6. OutOK' /\ \A k \in Loops \ {l} : out'[k] = out[k]
  BY <1>3, <1>4, EmitFacts
<1>7. Reported(l)'
  <2>1. /\ ~Timeline!Running(l)' /\ (Timeline!InPass(l)' <=> Timeline!InPass(l))
        /\ Timeline!Passes(l)' = Timeline!Passes(l) /\ Timeline!Source(l)' = Timeline!Source(l)
    BY <1>3, <1>4, ReportFacts DEF Timeline!RunTypes, Timeline!PassTypes, Timeline!LeaveTypes
  <2> QED BY <1>1, <1>2, <2>1 DEF AllReported, Reported
<1>8. \A k \in Loops \ {l} : Reported(k)'
  BY <1>1, <1>6, ReportedSame DEF AllReported
<1> QED BY <1>5, <1>6, <1>7, <1>8 DEF AllReported

LEMMA ReportEnterPhase ==
    ASSUME TypeOK, OutOK, AllReported, NEW l \in Loops, NEW name \in PhaseNames, EnterPhase(l, name)
    PROVE  OutOK' /\ AllReported' /\ Timeline!Next
<1> DEFINE from == EdgeTo(l, name)
           e == Timeline!Visit("node.start", iteration[l], name, from)
<1>1. from \in PhaseNames \cup {NoPhase}
  BY DEF EdgeTo, TypeOK
<1>2. Emit(l, e)
  BY DEF EnterPhase
<1> HIDE DEF from
<1>3. e \in Entry /\ e.type = "node.start"
  BY <1>1 DEF Entry, EventTypes, Timeline!Visit, TypeOK
<1>4. /\ pc[l] = "body" /\ pc' = pc /\ reason' = reason
      /\ phase' = [phase EXCEPT ![l] = Append(@, name)]
      /\ lastPhase' = lastPhase /\ iteration' = iteration
      /\ \A k \in Loops \ {l} : phase'[k] = phase[k]
  BY DEF EnterPhase, AtBody, TypeOK, programVars
<1>5. /\ Timeline!Running(l) /\ Timeline!InPass(l)
      /\ Timeline!Passes(l) = iteration[l] /\ Timeline!Source(l) = lastPhase[l]
  BY <1>4 DEF AllReported, Reported
<1>6. Timeline!Next
  <2>1. from = IF Timeline!Source(l) = name THEN NoPhase ELSE Timeline!Source(l)
    BY <1>5 DEF from, EdgeTo
  <2>2. Timeline!Publish(l, Timeline!Visit("node.start", Timeline!Passes(l), name,
                               IF Timeline!Source(l) = name THEN NoPhase ELSE Timeline!Source(l)))
    BY <1>2, <1>5, <2>1 DEF Timeline!Publish, Emit
  <2>3. Timeline!EnterNode(l)
    BY <1>4, <1>5, <2>2 DEF Timeline!EnterNode
  <2> QED BY <2>3 DEF Timeline!Next
<1> HIDE DEF e
<1>7. OutOK' /\ \A k \in Loops \ {l} : out'[k] = out[k]
  BY <1>2, <1>3, EmitFacts
<1>8. Reported(l)'
  <2>1. /\ (Timeline!Running(l)' <=> Timeline!Running(l)) /\ (Timeline!InPass(l)' <=> Timeline!InPass(l))
        /\ Timeline!Passes(l)' = Timeline!Passes(l) /\ Timeline!Source(l)' = Timeline!Source(l)
    BY <1>2, <1>3, ReportFacts DEF Timeline!RunTypes, Timeline!PassTypes, Timeline!LeaveTypes
  <2> QED BY <1>4, <1>5, <2>1 DEF Reported
<1>9. \A k \in Loops \ {l} : Reported(k)'
  BY <1>4, <1>7, ReportedSame DEF AllReported
<1> QED BY <1>6, <1>7, <1>8, <1>9 DEF AllReported

LEMMA ReportLeavePhase ==
    ASSUME TypeOK, OutOK, AllReported, NEW l \in Loops, LeavePhase(l)
    PROVE  OutOK' /\ AllReported' /\ Timeline!Next
<1> DEFINE name == Last(phase[l])
           type == IF raising = "error" THEN "node.error" ELSE "node.end"
           e == Timeline!Visit(type, iteration[l], name, NoPhase)
<1>1. /\ pc[l] = "body" /\ pc' = pc /\ reason' = reason /\ iteration' = iteration
      /\ phase[l] # <<>> /\ phase' = [phase EXCEPT ![l] = Front(@)] /\ iteration[l] \in Nat
      /\ lastPhase'[l] = name
      /\ \A k \in Loops \ {l} : phase'[k] = phase[k] /\ lastPhase'[k] = lastPhase[k]
  BY DEF LeavePhase, AtBody, Unwinding, TypeOK, programVars
<1>2. name \in PhaseNames
  BY <1>1, FrontFacts DEF TypeOK
<1>3. /\ Timeline!Running(l) /\ Timeline!InPass(l) /\ Timeline!Passes(l) = iteration[l]
  BY <1>1 DEF AllReported, Reported
<1>4. Emit(l, e)
  BY DEF LeavePhase
<1>5. type \in {"node.end", "node.error"}
  OBVIOUS
<1> HIDE DEF type, name
<1>6. e \in Entry /\ e.type \in {"node.end", "node.error"} /\ e.node = name
  BY <1>1, <1>2, <1>5 DEF Entry, EventTypes, Timeline!Visit
<1>7. Timeline!Next
  <2>1. Timeline!Last(phase[l]) = name /\ Timeline!Front(phase[l]) = Front(phase[l])
    BY DEF name, Timeline!Last, Timeline!Front, Last, Front
  <2>2. Timeline!Publish(l, Timeline!Visit(type, Timeline!Passes(l), Timeline!Last(phase[l]), NoPhase))
    BY <1>3, <1>4, <2>1 DEF Timeline!Publish, Emit
  <2>3. phase' = [phase EXCEPT ![l] = Timeline!Front(@)]
    BY <1>1, <2>1
  <2>4. Timeline!LeaveNode(l)
    BY <1>1, <1>5, <2>2, <2>3 DEF Timeline!LeaveNode, Timeline!LeaveTypes
  <2> QED BY <2>4 DEF Timeline!Next
<1> HIDE DEF e
<1>8. OutOK' /\ \A k \in Loops \ {l} : out'[k] = out[k]
  BY <1>4, <1>6, EmitFacts
<1>9. Reported(l)'
  <2>1. /\ (Timeline!Running(l)' <=> Timeline!Running(l)) /\ (Timeline!InPass(l)' <=> Timeline!InPass(l))
        /\ Timeline!Passes(l)' = Timeline!Passes(l) /\ Timeline!Source(l)' = name
    BY <1>4, <1>6, ReportFacts DEF Timeline!RunTypes, Timeline!PassTypes, Timeline!LeaveTypes
  <2> QED BY <1>1, <1>3, <2>1 DEF Reported
<1>10. \A k \in Loops \ {l} : Reported(k)'
  BY <1>1, <1>8, ReportedSame DEF AllReported
<1> QED BY <1>7, <1>8, <1>9, <1>10 DEF AllReported

(* The generator's steps that report nothing.                              *)
LEMMA ReportQuiet ==
    ASSUME TypeOK, AllReported, NEW l \in Loops, GiveUp(l) \/ Check(l)
    PROVE  AllReported' /\ UNCHANGED <<out, phase>>
<1>1. /\ pc[l] \in {"head", "check"} /\ pc'[l] \in {"head", "finish"}
      /\ out' = out /\ phase' = phase /\ lastPhase' = lastPhase /\ iteration' = iteration
      /\ \A k \in Loops \ {l} : pc'[k] = pc[k] /\ reason'[k] = reason[k]
  BY DEF GiveUp, Check, TypeOK, passVars
<1>2. pc'[l] = "finish" => reason'[l] # NoReason
  <2>1. CASE GiveUp(l)
    BY <2>1 DEF GiveUp, TypeOK, NoReason
  <2>2. CASE Check(l)
    BY <2>2 DEF Check, TypeOK
  <2> QED BY <2>1, <2>2
<1>3. Reported(l)'
  BY <1>1, <1>2, SameTimeline DEF AllReported, Reported
<1>4. \A k \in Loops \ {l} : Reported(k)'
  BY <1>1, ReportedSame DEF AllReported
<1> QED BY <1>1, <1>3, <1>4 DEF AllReported

(* The steps of a body, of an exception and of stop() that report nothing. *)
LEMMA ReportElsewhere ==
    ASSUME TypeOK, AllReported,
           out' = out, pc' = pc, phase' = phase, lastPhase' = lastPhase, iteration' = iteration,
           \/ reason' = reason
           \/ \E l \in Loops, why \in Reasons : reason' = [reason EXCEPT ![l] = why]
    PROVE  AllReported'
<1> SUFFICES ASSUME NEW k \in Loops PROVE Reported(k)'
  BY DEF AllReported
<1>1. reason[k] # NoReason => reason'[k] # NoReason
  BY NamesAssumption DEF TypeOK
<1> QED BY <1>1, ReportedSame DEF AllReported

LEMMA ReportStep ==
    ASSUME TypeOK, OutOK, AllReported, [Next]_vars
    PROVE  OutOK' /\ AllReported' /\ (Timeline!Next \/ UNCHANGED <<out, phase>>)
<1>1. ASSUME NEW l \in Loops, Resume(l) PROVE OutOK' /\ AllReported' /\ Timeline!Next
  <2> DEFINE status == IF current[l].failed THEN "error" ELSE "ok"
  <2>1. status \in BuiltIn \cup {"ok"} /\ pc[l] = "body" /\ phase[l] = <<>>
    BY <1>1 DEF Resume, AtBody, BuiltIn
  <2>2. Emit(l, Timeline!Pass("iter.end", iteration[l], NoPhase, status))
    BY <1>1 DEF Resume, CloseIteration
  <2> HIDE DEF status
  <2>3. /\ pc' = [pc EXCEPT ![l] = "check"] /\ iteration' = iteration
        /\ lastPhase' = lastPhase /\ reason' = reason
    BY <1>1 DEF Resume
  <2>4. phase' = [phase EXCEPT ![l] = <<>>]
    BY <1>1, <2>1 DEF Resume, passVars, TypeOK
  <2> QED BY <2>1, <2>2, <2>3, <2>4, ReportEndPass
<1>2. ASSUME NEW l \in Loops, Break(l) \/ Escape(l) PROVE OutOK' /\ AllReported' /\ Timeline!Next
  <2>1. GeneratorExit(l) /\ pc[l] = "body"
    BY <1>2 DEF Break, Escape, AtBody, Unwinding
  <2>2. EarlyStatus(l) \in {"done", "error", "abandoned"}
    BY DEF EarlyStatus
  <2>3. Emit(l, Timeline!Pass("iter.end", iteration[l], NoPhase, EarlyStatus(l)))
    BY <2>1 DEF GeneratorExit, CloseIteration
  <2>4. /\ pc' = [pc EXCEPT ![l] = "finish"] /\ iteration' = iteration
        /\ lastPhase' = lastPhase /\ phase' = [phase EXCEPT ![l] = <<>>]
        /\ \A k \in Loops \ {l} : reason'[k] = reason[k]
    BY <2>1 DEF GeneratorExit, TypeOK
  <2>5. reason'[l] # NoReason
    BY <2>1, <2>2 DEF GeneratorExit, OrElse, TypeOK, NoReason
  <2>6. EarlyStatus(l) \in BuiltIn \cup {"ok"} /\ EarlyStatus(l) # "ok"
    BY <2>2 DEF BuiltIn
  <2> QED BY <2>1, <2>3, <2>4, <2>5, <2>6, ReportEndPass
<1>3. ASSUME NEW l \in Loops,
             \/ \E s \in Signals[l] : Signal(l, s)
             \/ \E why \in Reasons : Done(l, why) \/ Stop(l, why)
             \/ Exit(l)
      PROVE  AllReported' /\ UNCHANGED <<out, phase>>
  <2>1. /\ out' = out /\ pc' = pc /\ phase' = phase /\ lastPhase' = lastPhase /\ iteration' = iteration
    BY <1>3 DEF Signal, Done, Stop, Exit, passVars
  <2>2. reason' = reason \/ \E why \in Reasons : reason' = [reason EXCEPT ![l] = why]
    BY <1>3 DEF Signal, Done, Stop, Exit, Flag
  <2> QED BY <2>1, <2>2, ReportElsewhere
<1>4. ASSUME \/ \E why \in Reasons : RaiseStopLoop(why) \/ StopLoopFromWorker(why)
             \/ \E kind \in {"error", "exit"} : Raise(kind)
             \/ Catch
             \/ UNCHANGED vars
      PROVE  AllReported' /\ UNCHANGED <<out, phase>>
  <2>1. /\ out' = out /\ pc' = pc /\ phase' = phase /\ lastPhase' = lastPhase /\ iteration' = iteration
    BY <1>4 DEF RaiseStopLoop, StopLoopFromWorker, Raise, Catch, vars, passVars
  <2>2. reason' = reason \/ \E l \in Loops, why \in Reasons : reason' = [reason EXCEPT ![l] = why]
    BY <1>4 DEF RaiseStopLoop, StopLoopFromWorker, Raise, Catch, vars, Flag, TypeOK
  <2> QED BY <2>1, <2>2, ReportElsewhere
<1>5. out' = out => OutOK'
  BY DEF OutOK
<1> QED BY <1>1, <1>2, <1>3, <1>4, <1>5, ReportBegin, ReportStartPass, ReportFinish, ReportEnterPhase,
           ReportLeavePhase, ReportQuiet DEF Next

(* Every loop's events are a well-formed run, whichever way its body and   *)
(* the loops inside it are left, however its phases nest, and whoever      *)
(* stops it.                                                               *)
THEOREM RefinesTimeline == Spec => ImplementsTimeline
<1>1. Init => TypeOK /\ OutOK /\ AllReported /\ Timeline!Init
  BY TypeInit, OutInit, ReportedInit DEF Init, Timeline!Init
<1>2. TypeOK /\ OutOK /\ AllReported /\ [Next]_vars => (TypeOK /\ OutOK /\ AllReported)'
  BY TypeStep, ReportStep
<1>3. TypeOK /\ OutOK /\ AllReported /\ [Next]_vars => [Timeline!Next]_(Timeline!timelineVars)
  BY ReportStep DEF Timeline!timelineVars
<1> QED BY <1>1, <1>2, <1>3, PTL DEF Spec, ImplementsTimeline, Timeline!Spec

=============================================================================
