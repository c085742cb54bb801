--------------------------- MODULE LifecycleProofs ---------------------------
(***************************************************************************)
(* Proofs about starting and stopping dashboards, for any number of them   *)
(* and of ports.                                                           *)
(***************************************************************************)
EXTENDS Lifecycle, TLAPS

\* A start() that is under way has a thread; one that raised has asked it to end.
CallInv ==
    /\ \A d \in Dashboards : call \in {"start", "failing"} /\ callee = d => server[d] # "new"
    /\ \A d \in Dashboards : outcome[d] # "none" => server[d] # "new"

FailedAsked == \A d \in Dashboards : outcome[d] = "raised" => shouldExit[d]

Inv == TypeOK /\ CallInv /\ FailedAsked

LEMMA InitInv == Init => Inv
BY DashboardAssumption DEF Init, Inv, TypeOK, CallInv, FailedAsked

(* One step, by the caller's thread or by a server's.                       *)
LEMMA NextInv == Inv /\ [Next]_vars => Inv'
<1> SUFFICES ASSUME Inv, [Next]_vars PROVE Inv'
  OBVIOUS
<1> USE DEF Inv, TypeOK, CallInv, threadVars, callVars
<1>1. ASSUME NEW d \in Dashboards, Start(d) PROVE Inv'
  <2>1. (TypeOK /\ CallInv)'
    BY <1>1, DashboardAssumption DEF Start
  <2>2. FailedAsked'
    BY <1>1 DEF Start, FailedAsked
  <2> QED BY <2>1, <2>2
<1>2. ASSUME NEW d \in Dashboards, WaitSucceeds(d) PROVE Inv'
  <2>1. (TypeOK /\ CallInv)'
    BY <1>2 DEF WaitSucceeds, Up
  <2>2. FailedAsked'
    BY <1>2 DEF WaitSucceeds, FailedAsked
  <2> QED BY <2>1, <2>2
<1>3. ASSUME NEW d \in Dashboards, WaitFails(d) PROVE Inv'
  <2>1. (TypeOK /\ CallInv)'
    BY <1>3, DashboardAssumption DEF WaitFails
  <2>2. FailedAsked'
    BY <1>3 DEF WaitFails, FailedAsked
  <2> QED BY <2>1, <2>2
<1>4. ASSUME NEW d \in Dashboards, StartFails(d) PROVE Inv'
  <2>1. (TypeOK /\ CallInv)'
    BY <1>4, DashboardAssumption DEF StartFails, RequestExit
  <2>2. FailedAsked'
    BY <1>4 DEF StartFails, RequestExit, FailedAsked
  <2> QED BY <2>1, <2>2
<1>5. ASSUME NEW d \in Dashboards, Stop(d) PROVE Inv'
  <2>1. (TypeOK /\ CallInv)'
    BY <1>5, DashboardAssumption DEF Stop, RequestExit
  <2>2. FailedAsked'
    BY <1>5 DEF Stop, RequestExit, FailedAsked
  <2> QED BY <2>1, <2>2
<1>6. CASE Join
  <2>1. (TypeOK /\ CallInv)'
    BY <1>6 DEF Join
  <2>2. FailedAsked'
    BY <1>6 DEF Join, FailedAsked
  <2> QED BY <2>1, <2>2
<1>7. ASSUME NEW d \in Dashboards, Lifespan(d) PROVE Inv'
  <2>1. (TypeOK /\ CallInv)'
    BY <1>7 DEF Lifespan
  <2>2. FailedAsked'
    BY <1>7 DEF Lifespan, FailedAsked
  <2> QED BY <2>1, <2>2
<1>8. ASSUME NEW d \in Dashboards, Listen(d) PROVE Inv'
  <2>1. (TypeOK /\ CallInv)'
    BY <1>8 DEF Listen
  <2>2. FailedAsked'
    BY <1>8 DEF Listen, FailedAsked
  <2> QED BY <2>1, <2>2
<1>9. ASSUME NEW d \in Dashboards, ExitServer(d) PROVE Inv'
  <2>1. (TypeOK /\ CallInv)'
    BY <1>9 DEF ExitServer
  <2>2. FailedAsked'
    BY <1>9 DEF ExitServer, FailedAsked
  <2> QED BY <2>1, <2>2
<1>10. CASE UNCHANGED vars
  BY <1>10 DEF vars, FailedAsked
<1> QED BY <1>1, <1>2, <1>3, <1>4, <1>5, <1>6, <1>7, <1>8, <1>9, <1>10 DEF Next

LEMMA Invariant == Spec => []Inv
BY InitInv, NextInv, PTL DEF Spec

(* Type correctness; and a start() that returned had its port open, so the  *)
(* server can only be serving or dead since, whoever else wanted the port.  *)
THEOREM TypeCorrect == Spec => []TypeOK
BY Invariant, PTL DEF Inv

(* The safety half of FailedStartEnds: a start() that raised, even of a     *)
(* server that came up while it gave up, left its server asked to exit.     *)
THEOREM FailedStartAsked == Spec => []FailedAsked
BY Invariant, PTL DEF Inv

=============================================================================
