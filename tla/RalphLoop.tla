----------------------------- MODULE RalphLoop ------------------------------
(***************************************************************************)
(* Ralph loops (src/loopscope/ralph.py): `for it in loop' as a generator   *)
(* that numbers passes, watches a convergence signal and reports the run.  *)
(*                                                                         *)
(* One thread runs the program.  Its for statements nest: `nest' lists the *)
(* loops it is inside of, outermost first, and only the body of the last   *)
(* one runs.  The generator's own code between two yields is split where   *)
(* it publishes, since another thread, or a signal handler, may call       *)
(* stop() there.  A body's phases nest too, as with statements do.  An     *)
(* exception travels outwards one step at a time: out of the open phases,  *)
(* then out of the for statement, which closes the generator, then on into *)
(* the enclosing body.                                                     *)
(*                                                                         *)
(* `out' is the history of the run, start and end events of each loop; the *)
(* EDGE event published right before one of them is its `edge' field.      *)
(***************************************************************************)
EXTENDS Integers, FiniteSets, SequencesExt

CONSTANTS
    Loops,          \* RalphLoop objects
    NoLoop,         \* _current_loop's default
    PhaseList,      \* per loop, the `phases' argument
    NoPhase,
    Signals,        \* per loop, the values its body gives to it.signal()
    NoSignal,
    Reasons,        \* reasons given to done(), stop() and StopLoop
    MaxIters,       \* per loop, max_iters
    StallAfter,     \* per loop, stall_after
    TimeLimit,      \* the loops that were given max_seconds
    StopFromOthers, \* whether other threads or signal handlers call stop()
    MaxCalls,       \* bound: per loop, the phases its body enters and the signals it gives
    MaxRuns         \* bound: how often one loop object is iterated

BuiltIn == {"max_iters", "timeout", "stalled", "done", "error", "abandoned"}
NoReason == "none"

ASSUME NumbersAssumption ==
    /\ \A f \in {MaxIters, StallAfter, MaxCalls} : f \in [Loops -> Nat]
    /\ MaxRuns \in Nat
    /\ Signals \in [Loops -> SUBSET Int]
ASSUME NamesAssumption ==
    /\ NoLoop \notin Loops
    /\ \A l \in Loops : NoSignal \notin Signals[l]
    /\ NoReason \notin Reasons
    /\ Reasons \cap BuiltIn = {}
ASSUME PhasesAssumption ==
    /\ DOMAIN PhaseList = Loops
    /\ \A l \in Loops : PhaseList[l] \in Seq(Range(PhaseList[l])) /\ NoPhase \notin Range(PhaseList[l])
ASSUME FlagsAssumption == TimeLimit \subseteq Loops /\ StopFromOthers \in BOOLEAN

VARIABLES
    nest,       \* the for statements the program is in, outermost first
    context,    \* the ContextVar _current_loop
    raising,    \* the exception on its way out: "none", "error" (an Exception),
                \* "exit" (any other BaseException), or the reason of a StopLoop
    pc,         \* per loop, where its generator is
    token,      \* per loop, the context its ContextVar token restores
    iteration,  \* iteration
    reason,     \* reason
    lastPhase,  \* _last_phase
    signals,    \* _signals
    best,       \* _best
    stale,      \* _since_improvement
    current,    \* _current: the pass handed to the body
    phase,      \* per loop, the phases its body is inside of, outermost first
    request,    \* history: the reason the pass was asked to be the last one
    runs,       \* history: how often the loop was iterated
    out         \* history: the loop's events

programVars == <<nest, context, raising>>
signalVars == <<signals, best, stale>>
passVars == <<current, phase, request>>
vars == <<programVars, pc, token, iteration, reason, lastPhase, signalVars, passVars, runs, out>>

PhaseNames == UNION {Range(PhaseList[l]) : l \in Loops}
SignalValues == UNION Range(Signals)
Passes == [signal : SignalValues \cup {NoSignal}, done : Reasons \cup {NoReason},
           failed : BOOLEAN]
FreshPass == [signal |-> NoSignal, done |-> NoReason, failed |-> FALSE]

Timeline == INSTANCE RunTimeline WITH
    Runs     <- Loops,
    Nodes    <- PhaseNames,
    NoNode   <- NoPhase,
    Statuses <- BuiltIn \cup Reasons \cup {"ok"},
    Orderly  <- {"ok"},
    events   <- out,
    open     <- phase

Emit(l, e) == out' = [out EXCEPT ![l] = Append(@, e)]

-----------------------------------------------------------------------------
(* Where the program is.                                                   *)
Inside(l) == nest # <<>> /\ Last(nest) = l
AtBody(l) == Inside(l) /\ pc[l] = "body" /\ raising = "none"
Unwinding(l) == Inside(l) /\ pc[l] = "body" /\ raising # "none"

\* Code outside every loop, or the body of the innermost one, is running.
Free == raising = "none" /\ (nest # <<>> => pc[Last(nest)] = "body")

\* An edge leaves the last phase, for another one.
EdgeTo(l, name) == IF lastPhase[l] = name THEN NoPhase ELSE lastPhase[l]

Init ==
    /\ nest = <<>> /\ context = NoLoop /\ raising = "none"
    /\ pc = [l \in Loops |-> "idle"]
    /\ token = [l \in Loops |-> NoLoop]
    /\ iteration = [l \in Loops |-> 0]
    /\ reason = [l \in Loops |-> NoReason]
    /\ lastPhase = [l \in Loops |-> NoPhase]
    /\ signals = [l \in Loops |-> <<>>]
    /\ best = [l \in Loops |-> NoSignal]
    /\ stale = [l \in Loops |-> 0]
    /\ current = [l \in Loops |-> FreshPass]
    /\ phase = [l \in Loops |-> <<>>]
    /\ request = [l \in Loops |-> NoReason]
    /\ runs = [l \in Loops |-> 0]
    /\ out = [l \in Loops |-> <<>>]

-----------------------------------------------------------------------------
(* The generator.                                                          *)

(* __iter__ up to its `while': the loop becomes the current one.            *)
Begin(l) ==
    /\ Free
    /\ pc[l] = "idle"
    /\ runs[l] < MaxRuns
    /\ nest' = Append(nest, l)
    /\ token' = [token EXCEPT ![l] = context]
    /\ context' = l
    /\ pc' = [pc EXCEPT ![l] = "head"]
    /\ request' = [request EXCEPT ![l] = NoReason]
    /\ runs' = [runs EXCEPT ![l] = @ + 1]
    /\ Emit(l, Timeline!Run("run.start", "none"))
    /\ UNCHANGED <<raising, iteration, reason, lastPhase, signalVars, current, phase>>

\* Bug: one pass too many.
OutOfPassesLate(l) == iteration[l] > MaxIters[l]

\* No pass is left
OutOfPasses(l) == iteration[l] >= MaxIters[l]

(* The head of the `while': out of passes, or out of time.                  *)
GiveUp(l) ==
    /\ Inside(l) /\ pc[l] = "head"
    /\ \/ /\ OutOfPasses(l)
          /\ reason' = [reason EXCEPT ![l] = "max_iters"]
       \/ /\ ~OutOfPasses(l) /\ l \in TimeLimit
          /\ reason' = [reason EXCEPT ![l] = "timeout"]
    /\ pc' = [pc EXCEPT ![l] = "finish"]
    /\ UNCHANGED <<programVars, token, iteration, lastPhase, signalVars, passVars, runs, out>>

(* A new pass: its number, the edge back to the first phase, its handle,    *)
(* and the yield.                                                          *)
StartPass(l) ==
    /\ Inside(l) /\ pc[l] = "head"
    /\ ~OutOfPasses(l)
    /\ iteration' = [iteration EXCEPT ![l] = @ + 1]
    /\ lastPhase' = [lastPhase EXCEPT ![l] = NoPhase]
    /\ current' = [current EXCEPT ![l] = FreshPass]
    /\ request' = [request EXCEPT ![l] = NoReason]
    /\ pc' = [pc EXCEPT ![l] = "body"]
    /\ Emit(l, Timeline!Pass("iter.start", iteration[l] + 1,
                   IF PhaseList[l] = <<>> THEN NoPhase ELSE EdgeTo(l, Head(PhaseList[l])), "none"))
    /\ UNCHANGED <<programVars, token, reason, signalVars, phase, runs>>

\* Bug: a pass without a signal counts as one without improvement.
ScoreEveryPass(l) ==
    LET s == current[l].signal IN
    /\ signals' = [signals EXCEPT ![l] = Append(@, s)]
    /\ IF s # NoSignal /\ (best[l] = NoSignal \/ s < best[l])
         THEN best' = [best EXCEPT ![l] = s] /\ stale' = [stale EXCEPT ![l] = 0]
         ELSE stale' = [stale EXCEPT ![l] = @ + 1] /\ UNCHANGED best

(* _close_iteration: the pass's signal against the best one so far ...      *)
Score(l) ==
    LET s == current[l].signal IN
    /\ signals' = [signals EXCEPT ![l] = Append(@, s)]
    /\ IF s = NoSignal THEN UNCHANGED <<best, stale>>
       ELSE IF best[l] = NoSignal \/ s < best[l]
         THEN best' = [best EXCEPT ![l] = s] /\ stale' = [stale EXCEPT ![l] = 0]
         ELSE stale' = [stale EXCEPT ![l] = @ + 1] /\ UNCHANGED best

(* ... and its iter.end.                                                   *)
CloseIteration(l, status) ==
    /\ Score(l)
    /\ Emit(l, Timeline!Pass("iter.end", iteration[l], NoPhase, status))

(* The body ran to its end: the generator resumes after the yield.          *)
Resume(l) ==
    /\ AtBody(l) /\ phase[l] = <<>>
    /\ CloseIteration(l, IF current[l].failed THEN "error" ELSE "ok")
    /\ pc' = [pc EXCEPT ![l] = "check"]
    /\ UNCHANGED <<programVars, token, iteration, reason, lastPhase, passVars, runs>>

\* Bug: only a stall ends the run.
VerdictOfStallOnly(l) ==
    IF StallAfter[l] > 0 /\ stale[l] >= StallAfter[l] THEN "stalled" ELSE NoReason

\* What ends the run after a pass: done(), or a stall
Verdict(l) ==
    IF current[l].done # NoReason THEN current[l].done
    ELSE IF StallAfter[l] > 0 /\ stale[l] >= StallAfter[l] THEN "stalled" ELSE NoReason

Check(l) ==
    /\ Inside(l) /\ pc[l] = "check"
    /\ IF Verdict(l) = NoReason
         THEN pc' = [pc EXCEPT ![l] = "head"] /\ UNCHANGED reason
         ELSE pc' = [pc EXCEPT ![l] = "finish"] /\ reason' = [reason EXCEPT ![l] = Verdict(l)]
    /\ UNCHANGED <<programVars, token, iteration, lastPhase, signalVars, passVars, runs, out>>

\* Bug: a pass left by a break or a KeyboardInterrupt counts as complete.
EarlyIsOk(l) ==
    IF current[l].done # NoReason THEN "done"
    ELSE IF current[l].failed THEN "error" ELSE "ok"

\* How a pass that its body left early is reported
EarlyStatus(l) ==
    IF current[l].done # NoReason THEN "done"
    ELSE IF current[l].failed THEN "error" ELSE "abandoned"

\* Bug: the fallback is preferred.
OrElseLast(r, s) == IF s # NoReason THEN s ELSE r

\* The first of two reasons that is one
OrElse(r, s) == IF r # NoReason THEN r ELSE s

(* GeneratorExit: a break, a return, or an exception out of the body.       *)
GeneratorExit(l) ==
    /\ CloseIteration(l, EarlyStatus(l))
    /\ reason' = [reason EXCEPT ![l] = OrElse(current[l].done, OrElse(@, EarlyStatus(l)))]
    /\ phase' = [phase EXCEPT ![l] = <<>>]
    /\ pc' = [pc EXCEPT ![l] = "finish"]
    /\ UNCHANGED <<programVars, token, iteration, lastPhase, current, request, runs>>

Break(l) == AtBody(l) /\ phase[l] = <<>> /\ GeneratorExit(l)

\* What is not an Exception passes through the open phases: no clause of theirs
\* sees it.
Escape(l) == Unwinding(l) /\ (phase[l] = <<>> \/ raising = "exit") /\ GeneratorExit(l)

\* Bug: the current loop is forgotten, not restored.
RestoreNone(l) == NoLoop

\* What the token puts back
Restored(l) == token[l]

(* The `finally': restore the context, report the end.                      *)
Finish(l) ==
    /\ Inside(l) /\ pc[l] = "finish"
    /\ context' = Restored(l)
    /\ nest' = Front(nest)
    /\ pc' = [pc EXCEPT ![l] = "idle"]
    /\ Emit(l, Timeline!Run("run.end", OrElse(reason[l], "finished")))
    /\ UNCHANGED <<raising, token, iteration, reason, lastPhase, signalVars, passVars, runs>>

-----------------------------------------------------------------------------
(* The body.                                                               *)

\* The passes that reported a signal
Scored(l) == {i \in DOMAIN signals[l] : signals[l][i] # NoSignal}

\* The bound on what a body does: phases entered, signals of earlier passes and
\* of this one
CallsLeft(l) ==
    Cardinality(Timeline!At(l, {"node.start"})) + Cardinality(Scored(l))
        + (IF current[l].signal = NoSignal THEN 0 ELSE 1) < MaxCalls[l]

(* Iteration.phase: enter, perhaps inside other phases; the edge comes from *)
(* the phase that was left last, which entering does not change ...        *)
EnterPhase(l, name) ==
    /\ AtBody(l)
    /\ CallsLeft(l)
    /\ phase' = [phase EXCEPT ![l] = Append(@, name)]
    /\ Emit(l, Timeline!Visit("node.start", iteration[l], name, EdgeTo(l, name)))
    /\ UNCHANGED <<programVars, pc, token, iteration, reason, lastPhase, signalVars,
                   current, request, runs>>

(* ... and leave the innermost, normally, by StopLoop (both node.end), or   *)
(* by another Exception (node.error).  KeyboardInterrupt and               *)
(* CancelledError leave unreported (Escape).                               *)
LeavePhase(l) ==
    /\ AtBody(l) \/ (Unwinding(l) /\ raising # "exit")
    /\ phase[l] # <<>>
    /\ phase' = [phase EXCEPT ![l] = Front(@)]
    /\ current' = [current EXCEPT ![l].failed = @ \/ raising = "error"]
    /\ lastPhase' = [lastPhase EXCEPT ![l] = Last(phase[l])]
    /\ Emit(l, Timeline!Visit(IF raising = "error" THEN "node.error" ELSE "node.end",
                              iteration[l], Last(phase[l]), NoPhase))
    /\ UNCHANGED <<programVars, pc, token, iteration, reason, signalVars, request, runs>>

(* it.signal(), it.done()                                                  *)
Signal(l, s) ==
    /\ AtBody(l)
    /\ CallsLeft(l)
    /\ current' = [current EXCEPT ![l].signal = s]
    /\ UNCHANGED <<programVars, pc, token, iteration, reason, lastPhase, signalVars,
                   phase, request, runs, out>>

Done(l, why) ==
    /\ AtBody(l)
    /\ current' = [current EXCEPT ![l].done = why]
    /\ request' = [request EXCEPT ![l] = why]
    /\ UNCHANGED <<programVars, pc, token, iteration, reason, lastPhase, signalVars,
                   phase, runs, out>>

\* Whether loop l has had a pass in the run it is in
HadPass(l) == pc[l] # "idle" /\ Last(out[l]).type # "run.start"

\* stop() on loop l: the reason, and the flag of the current pass
Flag(l, why) ==
    /\ reason' = [reason EXCEPT ![l] = why]
    /\ current' = [current EXCEPT ![l].done = why]

\* What was asked of loop l's current pass, if there is one
Asked(l, why) == request' = IF HadPass(l) THEN [request EXCEPT ![l] = why] ELSE request

(* loop.stop(), from the program's thread wherever it is, or from another   *)
(* thread or a signal handler at any moment.                               *)
Stop(l, why) ==
    /\ Free \/ StopFromOthers
    /\ Flag(l, why)
    /\ Asked(l, why)
    /\ UNCHANGED <<programVars, pc, token, iteration, lastPhase, signalVars, phase, runs, out>>

(* StopLoop(why) raised: its constructor stops the current loop, which      *)
(* should be the one whose body raised it.                                 *)
RaiseStopLoop(why) ==
    /\ Free
    /\ raising' = why
    /\ IF context = NoLoop THEN UNCHANGED <<reason, current>> ELSE Flag(context, why)
    /\ IF nest = <<>> THEN UNCHANGED request ELSE Asked(Last(nest), why)
    /\ UNCHANGED <<nest, context, pc, token, iteration, lastPhase, signalVars, phase, runs, out>>

(* A StopLoop made in a worker thread, whose context has no current loop,   *)
(* reaches the body when the worker is joined: it has stopped nothing.     *)
StopLoopFromWorker(why) ==
    /\ Free
    /\ nest # <<>>
    /\ raising' = why
    /\ UNCHANGED <<nest, context, pc, token, iteration, reason, lastPhase, signalVars,
                   passVars, runs, out>>

Raise(kind) ==
    /\ Free
    /\ nest # <<>>
    /\ raising' = kind
    /\ UNCHANGED <<nest, context, pc, token, iteration, reason, lastPhase, signalVars,
                   passVars, runs, out>>

\* The program can handle an exception: in a body, or outside every loop.  What
\* is not an Exception ends the program, or the task; a body that swallows a
\* KeyboardInterrupt or a CancelledError is not modelled.
CanHandle == raising \notin {"none", "exit"} /\ (nest # <<>> => pc[Last(nest)] = "body")

(* An except clause.                                                       *)
Catch ==
    /\ CanHandle
    /\ raising' = "none"
    /\ UNCHANGED <<nest, context, pc, token, iteration, reason, lastPhase, signalVars,
                   passVars, runs, out>>

(* `with RalphLoop(...) as loop': __exit__ swallows a StopLoop.             *)
Exit(l) ==
    /\ CanHandle
    /\ raising \in Reasons
    /\ pc[l] = "idle"
    /\ reason' = [reason EXCEPT ![l] = raising]
    /\ raising' = "none"
    /\ UNCHANGED <<nest, context, pc, token, iteration, lastPhase, signalVars,
                   passVars, runs, out>>

Next ==
    \/ \E l \in Loops :
          \/ Begin(l) \/ GiveUp(l) \/ StartPass(l) \/ Resume(l) \/ Check(l)
          \/ Break(l) \/ Escape(l) \/ Finish(l)
          \/ LeavePhase(l) \/ Exit(l)
          \/ \E name \in PhaseNames : EnterPhase(l, name)
          \/ \E s \in Signals[l] : Signal(l, s)
          \/ \E why \in Reasons : Done(l, why) \/ Stop(l, why)
    \/ \E why \in Reasons : RaiseStopLoop(why) \/ StopLoopFromWorker(why)
    \/ \E kind \in {"error", "exit"} : Raise(kind)
    \/ Catch

Spec == Init /\ [][Next]_vars

-----------------------------------------------------------------------------
(* Type invariant of the loops.                                            *)
TypeOK ==
    /\ nest \in Seq(Loops)
    /\ context \in Loops \cup {NoLoop}
    /\ raising \in {"none", "error", "exit"} \cup Reasons
    /\ pc \in [Loops -> {"idle", "head", "body", "check", "finish"}]
    /\ token \in [Loops -> Loops \cup {NoLoop}]
    /\ iteration \in [Loops -> Nat] /\ \A l \in Loops : iteration[l] <= MaxIters[l]
    /\ reason \in [Loops -> Reasons \cup BuiltIn \cup {NoReason}]
    /\ lastPhase \in [Loops -> PhaseNames \cup {NoPhase}]
    /\ signals \in [Loops -> Seq(SignalValues \cup {NoSignal})]
    /\ best \in [Loops -> SignalValues \cup {NoSignal}]
    /\ stale \in [Loops -> Nat]
    /\ current \in [Loops -> Passes]
    /\ phase \in [Loops -> Seq(PhaseNames)]
    /\ request \in [Loops -> Reasons \cup {NoReason}]
    /\ runs \in [Loops -> 0..MaxRuns]

(* A StopLoop reaches the loop whose body raised it, however loops nest and *)
(* however the ones inside ended: the current loop is the innermost for     *)
(* statement the program is in.                                            *)
ContextIsInnermost == context = IF nest = <<>> THEN NoLoop ELSE Last(nest)

(* No pass starts after the pass before it was asked to be the last, by     *)
(* done(), stop() or StopLoop: ralph.py:378 says stop() ends the run after  *)
(* the current pass.                                                       *)
StopHeeded ==
    [][\A l \in Loops : iteration'[l] > iteration[l] => request[l] = NoReason]_vars

(* The run's last event tells why it ended: with the reason its last pass   *)
(* was asked to stop for, whichever way the body was left; a stall, only    *)
(* right after a pass that ran to its end; "max_iters" only after that many *)
(* passes.                                                                  *)
EndTold(l) ==
    LET why == Last(out[l]).status
        before == out[l][Len(out[l]) - 1]
    IN
    /\ Last(out[l]).type = "run.end"
    /\ request[l] # NoReason => why = request[l]
    /\ why = "max_iters" => iteration[l] = MaxIters[l]
    /\ why \in {"stalled", "max_iters", "timeout"} /\ iteration[l] > 0 =>
          before.type = "iter.end" /\ before.status \in {"ok", "error"}
    /\ why = "error" => before.type = "iter.end" /\ before.status = "error"

EndTellsWhy == \A l \in Loops : pc[l] = "idle" /\ runs[l] > 0 => EndTold(l)

(* Stall detection counts exactly the passes that reported a signal since   *)
(* the first of the best ones, over every pass the loop closed.             *)
StallCountsPasses ==
    \A l \in Loops :
        IF Scored(l) = {} THEN best[l] = NoSignal /\ stale[l] = 0
        ELSE \E first \in Scored(l) :
             /\ signals[l][first] = best[l]
             /\ \A i \in Scored(l) : signals[l][i] >= best[l] /\ (i < first => signals[l][i] > best[l])
             /\ stale[l] = Cardinality({i \in Scored(l) : i > first})

(* Every loop's events are a well-formed run: passes numbered and closed,   *)
(* phases bracketed however they nest, edges from the phase left last,      *)
(* run.end last, whichever way the body or the loops inside it are left.    *)
ImplementsTimeline == Timeline!Spec

=============================================================================
