----------------------------- MODULE Lifecycle ------------------------------
(***************************************************************************)
(* Starting and stopping dashboards (src/loopscope/server.py).             *)
(*                                                                         *)
(* start() runs a uvicorn server on a thread of its own and waits until it *)
(* is up, its thread is dead, or time is out; on failure it stops it and   *)
(* raises.  The server's thread first runs the lifespan hook, which binds  *)
(* the bus to its event loop, and only then opens the port.  All these     *)
(* dashboards share one bus, as start() makes them do by default.          *)
(*                                                                         *)
(* uvicorn is external: its order of startup (lifespan, then listen), that *)
(* it exits when the port is taken, and that it heeds should_exit.         *)
(***************************************************************************)
EXTENDS Integers

CONSTANTS
    Dashboards,  \* Dashboard objects, each started once
    Ports,
    NoDashboard

ASSUME DashboardAssumption == NoDashboard \notin Dashboards

VARIABLES
    port,       \* per dashboard, its port
    server,     \* per dashboard, its server thread: "new", "thread", "lifespan",
                \* "serving" or "dead"
    shouldExit, \* per dashboard, should_exit
    outcome,    \* per dashboard, what start() did: "none", "returned" or "raised"
    call,       \* what the caller's thread is in: "none", "start", "failing" (start()
                \* whose wait failed) or "stop"
    callee,     \* and on which dashboard
    busLoop     \* the dashboard whose event loop is the bus's _loop

threadVars == <<port, server, busLoop>>
callVars == <<shouldExit, outcome, call, callee>>
vars == <<threadVars, callVars>>

Init ==
    /\ port \in [Dashboards -> Ports]
    /\ server = [d \in Dashboards |-> "new"]
    /\ shouldExit = [d \in Dashboards |-> FALSE]
    /\ outcome = [d \in Dashboards |-> "none"]
    /\ call = "none" /\ callee = NoDashboard
    /\ busLoop = NoDashboard

-----------------------------------------------------------------------------
(* The caller's thread.                                                    *)
Start(d) ==
    /\ call = "none"
    /\ server[d] = "new"
    /\ server' = [server EXCEPT ![d] = "thread"]
    /\ call' = "start" /\ callee' = d
    /\ UNCHANGED <<port, busLoop, shouldExit, outcome>>

\* Bug: a server that got as far as its lifespan hook counts as up.
UpTooEarly(d) == server[d] \in {"lifespan", "serving"}
\* The server has started
Up(d) == server[d] = "serving"

\* _wait_until_up returns
WaitSucceeds(d) ==
    /\ call = "start" /\ callee = d
    /\ Up(d)
    /\ outcome' = [outcome EXCEPT ![d] = "returned"]
    /\ call' = "none" /\ callee' = NoDashboard
    /\ UNCHANGED <<threadVars, shouldExit>>

\* The wait fails: at the last look the thread is dead, or 5 s are over.
NotUp(d) == server[d] # "serving"

\* Bug: start() raises and leaves its server alone.
LeaveRunning(d) == UNCHANGED shouldExit
\* stop(): should_exit, then join
RequestExit(d) == shouldExit' = [shouldExit EXCEPT ![d] = TRUE]

WaitFails(d) ==
    /\ call = "start" /\ callee = d
    /\ NotUp(d)
    /\ call' = "failing"
    /\ UNCHANGED <<threadVars, shouldExit, outcome, callee>>

\* start() stops what it started, which may have come up since, and raises.
StartFails(d) ==
    /\ call = "failing" /\ callee = d
    /\ RequestExit(d)
    /\ outcome' = [outcome EXCEPT ![d] = "raised"]
    /\ call' = "stop"
    /\ UNCHANGED <<threadVars, callee>>

\* stop(), from the program or from hold()
Stop(d) ==
    /\ call = "none"
    /\ outcome[d] = "returned"
    /\ RequestExit(d)
    /\ call' = "stop" /\ callee' = d
    /\ UNCHANGED <<threadVars, outcome>>

\* join(timeout=5) returns, whether the thread ended or not.
Join ==
    /\ call = "stop"
    /\ call' = "none" /\ callee' = NoDashboard
    /\ UNCHANGED <<threadVars, shouldExit, outcome>>

-----------------------------------------------------------------------------
(* The server's thread.                                                    *)
Lifespan(d) ==
    /\ server[d] = "thread"
    /\ server' = [server EXCEPT ![d] = "lifespan"]
    /\ busLoop' = d
    /\ UNCHANGED <<port, callVars>>

PortTaken(d) == \E e \in Dashboards \ {d} : server[e] = "serving" /\ port[e] = port[d]

\* The port is opened; if it is taken, SystemExit ends the thread.
Listen(d) ==
    /\ server[d] = "lifespan"
    /\ server' = [server EXCEPT ![d] = IF PortTaken(d) THEN "dead" ELSE "serving"]
    /\ UNCHANGED <<port, busLoop, callVars>>

ExitServer(d) ==
    /\ server[d] = "serving"
    /\ shouldExit[d]
    /\ server' = [server EXCEPT ![d] = "dead"]
    /\ UNCHANGED <<port, busLoop, callVars>>

Next ==
    \/ \E d \in Dashboards :
          \/ Start(d) \/ WaitSucceeds(d) \/ WaitFails(d) \/ StartFails(d) \/ Stop(d)
          \/ Lifespan(d) \/ Listen(d) \/ ExitServer(d)
    \/ Join

Spec == Init /\ [][Next]_vars

(* The server's thread runs.                                               *)
ServerFairness ==
    \A d \in Dashboards : WF_vars(Lifespan(d)) /\ WF_vars(Listen(d)) /\ WF_vars(ExitServer(d))

FairSpec == Spec /\ ServerFairness

-----------------------------------------------------------------------------
(* Type invariant, and: when start() returned, the port was open.           *)
TypeOK ==
    /\ server \in [Dashboards -> {"new", "thread", "lifespan", "serving", "dead"}]
    /\ shouldExit \in [Dashboards -> BOOLEAN]
    /\ outcome \in [Dashboards -> {"none", "returned", "raised"}]
    /\ call \in {"none", "start", "failing", "stop"}
    /\ callee \in Dashboards \cup {NoDashboard} /\ (call = "none" <=> callee = NoDashboard)
    /\ busLoop \in Dashboards \cup {NoDashboard}
    /\ \A d \in Dashboards : outcome[d] = "returned" => server[d] \in {"serving", "dead"}

(* A dashboard whose start() raised does not come up behind the caller's    *)
(* back for good, even if it was only slow: its server ends.               *)
FailedStartEnds == \A d \in Dashboards : outcome[d] = "raised" ~> server[d] = "dead"

(* ADR-0004:15: a failure to bind surfaces at start() rather than as a      *)
(* silent dead page: while a dashboard serves that nobody stopped, the bus  *)
(* is bound to an event loop that runs.                                    *)
NoSilentDeadPage ==
    \A d \in Dashboards :
        server[d] = "serving" /\ ~shouldExit[d] /\ outcome[d] = "returned" =>
            server[busLoop] # "dead"
=============================================================================
