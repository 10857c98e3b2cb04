----------------------------- MODULE AgentTurn -----------------------------
(***************************************************************************)
(* internal/agent/core, guard, tool and askuser: the turns of one Agent.   *)
(*                                                                         *)
(* A turn is Run or Stream of a reactAgent: it asks the model, runs the    *)
(* tools the answer asks for, all at once, and asks again, until the model *)
(* answers without tools, a tool interrupts the turn to put a question to  *)
(* the user, or a limit is reached.  The graph that alternates between     *)
(* model and tools is external (eino); every model call passes the turn's  *)
(* Budget and the chain primary, primary again, fallbacks.  The service    *)
(* runs the turn inside the circuit breaker of its model.                  *)
(*                                                                         *)
(* A tool stands for a tool with its arguments, what the loop guard calls  *)
(* a fingerprint.  The Agent lives as long as its session; the loop guard, *)
(* the collector of questions and the context are the turn's own.  Of the  *)
(* breaker the model keeps the rule of consecutive failures; its window    *)
(* and its failure ratio are left out, and one session uses the model.     *)
(***************************************************************************)
EXTENDS Integers, Sequences

CONSTANTS Turns,             \* turns of the session
          Tools,             \* tools, with their arguments
          Idempotent,        \* those of them that may be retried
          Asking,            \* those whose error interrupts the turn (ask_user)
          Remote,            \* those an MCP server runs
          MaxSteps,          \* [agent] maxSteps: Limits.MaxSteps, and MaxStep of the graph
          MaxTokens,         \* Limits.MaxTokens
          Usages,            \* tokens a call may report, 0 for no report
          Fallbacks,         \* models behind the primary one
          MaxAttempts,       \* [agent] toolMaxAttempts
          Threshold,         \* [agent] loopGuardThreshold
          Parallel,          \* bound: tool calls in one answer
          FailureThreshold   \* consecutive failures that open the breaker

ASSUME AgentAssumption ==
  /\ Idempotent \subseteq Tools /\ Asking \subseteq Tools /\ Remote \subseteq Tools
  /\ Asking \cap Idempotent = {} /\ Remote \cap (Asking \cup Idempotent) = {}
  /\ {MaxSteps, MaxTokens, MaxAttempts, Threshold, Parallel, FailureThreshold} \subseteq Nat \ {0}
  /\ Usages \subseteq Nat /\ Fallbacks \in Nat

VARIABLES status, outcome,   \* [turn -> where it stands, how it ended]
          mode,              \* Run or Stream, and the state of the context, of the
          ctx,               \* turn that runs
          strikes,           \* consecutive failures the breaker has counted
          steps, tokens,     \* Budget
          nodes,             \* nodes the graph has run in this turn
          link,              \* place in the chain of the model that is being asked
          overdue,           \* has this model call used up Limits.ModelTimeout?
          calls,             \* the tool calls of the last answer
          hits,              \* LoopGuard: [tool -> attempts]
          asked,             \* has the turn's Collector a question?
          made, used, ran    \* history of the turn: budgeted calls, tokens the models
                             \* reported, and [tool -> executions of its handler]

budget == <<steps, tokens>>
model == <<link, overdue>>
history == <<made, used, ran>>
vars == <<status, outcome, mode, ctx, strikes, budget, nodes, model, calls, hits, asked, history>>

Active(t) == status[t] \notin {"waiting", "ended"}
LastLink == 2 + Fallbacks
Call == [tool : Tools, at : {"requested", "running", "done", "raised"}, tries : 0 .. MaxAttempts]
NoHits == [x \in Tools |-> 0]

TypeOK ==
  /\ status \in [Turns -> {"waiting", "thinking", "calling", "streaming", "requested",
                           "acting", "ended"}]
  /\ outcome \in [Turns -> {"none", "answered", "asked", "cancelled", "failed", "timeout",
                            "budget", "steps", "refused"}]
  /\ mode \in {"run", "stream"} /\ ctx \in {"live", "cancelled", "deadline"}
  /\ strikes \in 0 .. FailureThreshold
  /\ steps \in 0 .. MaxSteps /\ tokens \in Nat /\ nodes \in 0 .. MaxSteps
  /\ link \in 0 .. LastLink /\ overdue \in BOOLEAN
  /\ calls \in Seq(Call) /\ Len(calls) <= Parallel
  /\ hits \in [Tools -> Nat] /\ asked \in BOOLEAN
  /\ made \in Nat /\ used \in Nat /\ ran \in [Tools -> Nat]
  /\ \A t \in Turns : /\ outcome[t] = "none" <=> status[t] # "ended"
                      /\ \A u \in Turns \ {t} : ~(Active(t) /\ Active(u))
                      /\ status[t] = "calling" => link > 0
                      /\ status[t] \in {"requested", "acting"} => calls # <<>>

Init == /\ status = [t \in Turns |-> "waiting"] /\ outcome = [t \in Turns |-> "none"]
        /\ mode = "run" /\ ctx = "live"
        /\ strikes = 0 /\ steps = 0 /\ tokens = 0 /\ nodes = 0
        /\ link = 0 /\ overdue = FALSE /\ calls = <<>> /\ hits = NoHits /\ asked = FALSE
        /\ made = 0 /\ used = 0 /\ ran = NoHits
-----------------------------------------------------------------------------
(* Contexts *)

\* The client goes away, or presses stop.
Cancel(t) == /\ Active(t) /\ ctx = "live"
             /\ ctx' = "cancelled"
             /\ UNCHANGED <<status, outcome, mode, strikes, budget, nodes, model, calls, hits,
                            asked, history>>

\* Mutant: Stream runs without a wall clock.
ExpireRun(t) == /\ Active(t) /\ ctx = "live" /\ mode = "run"
                /\ ctx' = "deadline"
                /\ UNCHANGED <<status, outcome, mode, strikes, budget, nodes, model, calls,
                               hits, asked, history>>

\* Limits.MaxWallClock: the context of the turn, and the deadline of the budget.
Expire(t) == /\ Active(t) /\ ctx = "live"
             /\ ctx' = "deadline"
             /\ UNCHANGED <<status, outcome, mode, strikes, budget, nodes, model, calls, hits,
                            asked, history>>

\* Limits.ModelTimeout covers the whole chain of a Generate; a Stream has none.
ModelTimeout(t) == /\ status[t] = "calling" /\ mode = "run" /\ ~overdue
                   /\ overdue' = TRUE
                   /\ UNCHANGED <<status, outcome, mode, ctx, strikes, budget, nodes, link, calls,
                                  hits, asked, history>>
-----------------------------------------------------------------------------
(* The turn and the breaker around it *)

Open == strikes = FailureThreshold

\* gobreaker's timeout: half-open, the next failure opens it again.
Cool == /\ Open /\ strikes' = FailureThreshold - 1
        /\ UNCHANGED <<status, outcome, mode, ctx, budget, nodes, model, calls, hits, asked,
                       history>>

\* Mutant: no turnMu, and no turn lock around it.
MayBeginAnyTime(t) == status[t] = "waiting"
MayBegin(t) == status[t] = "waiting" /\ \A u \in Turns : ~Active(u)

Refuse(t) == /\ MayBegin(t) /\ Open
             /\ status' = [status EXCEPT ![t] = "ended"]
             /\ outcome' = [outcome EXCEPT ![t] = "refused"]
             /\ UNCHANGED <<mode, ctx, strikes, budget, nodes, model, calls, hits, asked, history>>

\* Mutant: the budget of the Agent is not reset.
BeginWithoutReset(t) ==
  /\ MayBegin(t) /\ ~Open
  /\ status' = [status EXCEPT ![t] = "thinking"]
  /\ mode' \in {"run", "stream"} /\ ctx' \in {"live", "cancelled"} /\ used' = 0
  /\ UNCHANGED <<outcome, strikes, budget, nodes, model, calls, hits, asked, made, ran>>

\* Run, Stream: under turnMu, with a fresh budget; the context has a
\* loop guard and a collector of its own, and its client may be gone already.
Begin(t) == /\ MayBegin(t) /\ ~Open
            /\ status' = [status EXCEPT ![t] = "thinking"]
            /\ mode' \in {"run", "stream"} /\ ctx' \in {"live", "cancelled"}
            /\ steps' = 0 /\ tokens' = 0 /\ used' = 0
            /\ UNCHANGED <<outcome, strikes, nodes, model, calls, hits, asked, made, ran>>

\* turnErr: the wall clock explains every error.
TurnErr(t, err) == IF ctx = "deadline" /\ err # "answered" THEN "timeout" ELSE err
Interrupted(t, err) == IF ctx = "cancelled" THEN "cancelled" ELSE err
\* IsDownstreamSuccess.
DownstreamSuccess == {"answered", "cancelled"}
Count(end) == IF end \in DownstreamSuccess THEN 0
              ELSE IF Open THEN strikes ELSE strikes + 1

\* The turn returns; what hangs on its context is gone, the budget is not.
End(t, err) == LET end == TurnErr(t, err) IN
  /\ status' = [status EXCEPT ![t] = "ended"] /\ outcome' = [outcome EXCEPT ![t] = end]
  /\ strikes' = Count(end)
  /\ mode' = "run" /\ ctx' = "live" /\ link' = 0 /\ overdue' = FALSE /\ nodes' = 0
  /\ calls' = <<>> /\ hits' = NoHits /\ asked' = FALSE /\ made' = 0 /\ ran' = NoHits

Goto(t, s) == status' = [status EXCEPT ![t] = s] /\ UNCHANGED <<outcome, strikes>>
-----------------------------------------------------------------------------
(* The graph *)

\* Between two nodes the graph looks at the context and at its own limit.
GraphStops(t) ==
  /\ status[t] \in {"thinking", "requested"}
  /\ \/ ctx # "live" /\ End(t, Interrupted(t, "failed"))
     \/ ctx = "live" /\ nodes = MaxSteps /\ End(t, "steps")
  /\ UNCHANGED <<budget, used>>

\* Budget.beforeCall; the context may have ended since the graph looked.
BudgetRefuses(t) == /\ status[t] = "thinking" /\ nodes < MaxSteps
                    /\ steps >= MaxSteps \/ ctx = "deadline"
                    /\ End(t, "budget")
                    /\ UNCHANGED <<budget, used>>

CallModel(t) == /\ status[t] = "thinking" /\ nodes < MaxSteps
                /\ steps < MaxSteps /\ ctx # "deadline"
                /\ steps' = steps + 1 /\ made' = made + 1 /\ nodes' = nodes + 1
                /\ link' = 1 /\ overdue' = FALSE
                /\ Goto(t, "calling")
                /\ UNCHANGED <<mode, ctx, tokens, calls, hits, asked, used, ran>>

StartTools(t) == /\ status[t] = "requested" /\ ctx = "live" /\ nodes < MaxSteps
                 /\ nodes' = nodes + 1
                 /\ Goto(t, "acting")
                 /\ UNCHANGED <<mode, ctx, budget, model, calls, hits, asked, history>>
-----------------------------------------------------------------------------
(* A model call: the fallback chain under the budget *)

CallEnded(t) == ctx # "live" \/ overdue

\* Budget.afterCall.
Settle(u) == tokens' = tokens + u
OverBudget == tokens' > MaxTokens

Requests == UNION {[1 .. n -> Tools] : n \in 1 .. Parallel}
ToCalls(req) == [i \in DOMAIN req |-> [tool |-> req[i], at |-> "requested", tries |-> 0]]

\* budgetModel.Generate settles what the call reports; of a stream only the
\* last one reaches Settle, in StreamEnds.
ModelRequests(t, u, req) ==
  /\ status[t] = "calling" /\ ~CallEnded(t)
  /\ used' = used + u
  /\ IF mode = "run" THEN Settle(u) ELSE tokens' = tokens
  /\ \/ OverBudget /\ End(t, "budget")
     \/ /\ ~OverBudget /\ Goto(t, "requested")
        /\ link' = 0 /\ overdue' = FALSE /\ calls' = ToCalls(req)
        /\ UNCHANGED <<mode, ctx, nodes, hits, asked, made, ran>>
  /\ UNCHANGED steps

ModelAnswers(t, u) ==
  /\ status[t] = "calling" /\ mode = "run" /\ ~CallEnded(t)
  /\ used' = used + u /\ Settle(u)
  /\ IF OverBudget THEN End(t, "budget") ELSE End(t, "answered")
  /\ UNCHANGED steps

StreamOpens(t) == /\ status[t] = "calling" /\ mode = "stream" /\ ~CallEnded(t)
                  /\ Goto(t, "streaming") /\ link' = 0
                  /\ UNCHANGED <<mode, ctx, budget, nodes, overdue, calls, hits, asked, history>>

\* FallbackModel: the context is looked at after the first two attempts only.
ModelFails(t) ==
  /\ status[t] = "calling"
  /\ \/ /\ link <= 2 /\ CallEnded(t)
        /\ End(t, Interrupted(t, "failed"))
     \/ /\ link = LastLink /\ (link <= 2 => ~CallEnded(t))
        /\ End(t, "failed")
     \/ /\ link < LastLink /\ (link <= 2 => ~CallEnded(t))
        /\ link' = link + 1
        /\ UNCHANGED <<status, outcome, mode, ctx, strikes, overdue, nodes, calls, hits, asked,
                       made, ran>>
  /\ UNCHANGED <<budget, used>>

\* drainStream, and Settle with the usage of this stream.
StreamEnds(t, u) == /\ status[t] = "streaming"
                    /\ used' = used + u /\ Settle(u)
                    /\ IF OverBudget THEN End(t, "budget") ELSE End(t, "answered")
                    /\ UNCHANGED steps

StreamBreaks(t) == /\ status[t] = "streaming"
                   /\ End(t, Interrupted(t, "failed"))
                   /\ UNCHANGED <<budget, used>>
-----------------------------------------------------------------------------
(* The tool calls of one answer, each on a goroutine of its own *)

Set(i, at) == calls' = [calls EXCEPT ![i].at = at]
Hit(i) == hits' = [hits EXCEPT ![calls[i].tool] = @ + 1]
Execute(i) == /\ calls' = [calls EXCEPT ![i].at = "running", ![i].tries = @ + 1]
              /\ ran' = [ran EXCEPT ![calls[i].tool] = @ + 1]
Pending(t, i, at) == status[t] = "acting" /\ calls[i].at = at
toolUnchanged == <<status, outcome, mode, ctx, strikes, budget, nodes, model, made, used>>

\* LoopGuard.Blocked: the model is told it repeats itself.
Blocked(t, i) == /\ Pending(t, i, "requested") /\ hits[calls[i].tool] >= Threshold
                 /\ Set(i, "done")
                 /\ UNCHANGED <<toolUnchanged, hits, asked, ran>>

RunTool(t, i) == /\ Pending(t, i, "requested") /\ hits[calls[i].tool] < Threshold
                 /\ Execute(i)
                 /\ UNCHANGED <<toolUnchanged, hits, asked>>

\* An MCP tool that is not reached: arguments that are no JSON, which the guard
\* does not count, or an open breaker, which it does.
NotReached(t, i) == /\ Pending(t, i, "requested") /\ hits[calls[i].tool] < Threshold
                    /\ calls[i].tool \in Remote
                    /\ Set(i, "done")
                    /\ UNCHANGED hits \/ Hit(i)
                    /\ UNCHANGED <<toolUnchanged, asked, ran>>

\* runWithRetry: the handler has failed, the backoff has passed.
Retry(t, i) == /\ Pending(t, i, "running") /\ calls[i].tool \in Idempotent
               /\ calls[i].tries < MaxAttempts /\ ctx = "live"
               /\ Execute(i)
               /\ UNCHANGED <<toolUnchanged, hits, asked>>

\* The observation of a success; ask_user with bad arguments is one too.
Succeed(t, i) == /\ Pending(t, i, "running")
                 /\ Set(i, "done") /\ Hit(i)
                 /\ UNCHANGED <<toolUnchanged, asked, ran>>

\* The handler of ask_user: the question is in the collector, its error is raised.
AskUser(i) == calls[i].tool \in Asking /\ Set(i, "raised") /\ asked' = TRUE

\* Mutant: the question is handed to the model like a failure.
FailWithoutInterrupt(t, i) ==
  /\ Pending(t, i, "running")
  /\ \/ /\ calls[i].tool \notin Remote /\ ctx # "live"
        /\ Set(i, "raised") /\ UNCHANGED <<hits, asked>>
     \/ /\ calls[i].tool \in Remote \/ ctx = "live"
        /\ Set(i, "done") /\ Hit(i)
        /\ asked' = (asked \/ calls[i].tool \in Asking)
  /\ UNCHANGED <<toolUnchanged, ran>>

\* The handler's last error: the question of ask_user, or the end of the turn,
\* is raised; any other failure, the tool's own timeout included, is counted
\* and becomes an observation, at an MCP tool even when the turn has ended.
Fail(t, i) ==
  /\ Pending(t, i, "running")
  /\ \/ AskUser(i) /\ UNCHANGED hits
     \/ /\ calls[i].tool \notin Asking \cup Remote /\ ctx # "live"
        /\ Set(i, "raised") /\ UNCHANGED <<hits, asked>>
     \/ /\ calls[i].tool \notin Asking /\ (calls[i].tool \in Remote \/ ctx = "live")
        /\ Set(i, "done") /\ Hit(i) /\ UNCHANGED asked
  /\ UNCHANGED <<toolUnchanged, ran>>

\* The tools node waits for all its calls; an error ends the graph.
ToolsEnd(t) ==
  /\ status[t] = "acting" /\ \A i \in DOMAIN calls : calls[i].at \in {"done", "raised"}
  /\ \/ /\ \E i \in DOMAIN calls : calls[i].at = "raised"
        /\ End(t, IF asked THEN "asked" ELSE Interrupted(t, "failed"))
     \/ /\ \A i \in DOMAIN calls : calls[i].at = "done"
        /\ Goto(t, "thinking") /\ calls' = <<>>
        /\ UNCHANGED <<mode, ctx, model, nodes, hits, asked, made, ran>>
  /\ UNCHANGED <<budget, used>>
-----------------------------------------------------------------------------
CallTool(t) == \E i \in DOMAIN calls : \/ Blocked(t, i) \/ RunTool(t, i) \/ NotReached(t, i)
                                       \/ Retry(t, i) \/ Succeed(t, i) \/ Fail(t, i)

Done == (\A t \in Turns : status[t] = "ended") /\ UNCHANGED vars

Next == \/ Cool \/ Done
        \/ \E t \in Turns :
             \/ Cancel(t) \/ Expire(t) \/ ModelTimeout(t) \/ Refuse(t) \/ Begin(t)
             \/ GraphStops(t) \/ BudgetRefuses(t) \/ CallModel(t) \/ StartTools(t)
             \/ ModelFails(t) \/ StreamOpens(t) \/ StreamBreaks(t) \/ CallTool(t) \/ ToolsEnd(t)
             \/ \E u \in Usages : \/ ModelAnswers(t, u) \/ StreamEnds(t, u)
                                  \/ \E req \in Requests : ModelRequests(t, u, req)

Spec == Init /\ [][Next]_vars

\* Goroutines go on, timers fire, a handler returns when its own timeout has
\* passed, a model call when its context has ended; a model owes nothing before.
Fairness == \A t \in Turns :
  /\ WF_vars(Refuse(t) \/ Begin(t)) /\ WF_vars(Expire(t))
  /\ WF_vars(GraphStops(t) \/ BudgetRefuses(t) \/ CallModel(t) \/ StartTools(t))
  /\ WF_vars(CallTool(t)) /\ WF_vars(ToolsEnd(t))
  /\ WF_vars(CallEnded(t) /\ ModelFails(t))
  /\ WF_vars(ctx # "live" /\ StreamBreaks(t))

FairSpec == Spec /\ Fairness
-----------------------------------------------------------------------------
\* What the budget counts is this turn's: the calls it has made, and in Run the
\* tokens they reported (Reset at the entry of Run and Stream, turnMu).
BudgetIsOwn == \A t \in Turns :
  Active(t) => steps = made /\ (mode = "run" => tokens = used)

\* However the calls of parallel answers interleave between Blocked and the count,
\* a turn executes a tool with the same arguments so many times at most, and
\* only an idempotent one more than once per call.
EffectsBounded == \A x \in Tools :
  ran[x] <= (Threshold - 1 + Parallel) * (IF x \in Idempotent THEN MaxAttempts ELSE 1)

\* What a turn is counted for and what it does to the world are its own (budget.go,
\* loopguard.go, retry.go).
WithinBudget == BudgetIsOwn /\ EffectsBounded

\* A Run never answers on more tokens than maxTokens (Budget.afterCall).
TokensEnforced ==
  [][\A t \in Turns : mode = "run" /\ outcome'[t] # outcome[t] /\ outcome'[t] = "answered"
                        => used' <= MaxTokens]_vars

\* Once the turn has put a question to the user, no model is called any more, so it
\* cannot answer beside its own question (InterruptOnError).
QuestionStops == [][asked /\ asked' => steps' = steps]_vars

\* What ends a turn ends it: neither tokens nor a question are overrun.
NothingAfterTheEnd == TokensEnforced /\ QuestionStops

\* Every turn comes to an end, whatever models, tools and clients do: the wall clock
\* reaches each place a turn can wait in (WithTurnTimeout).
TurnEnds == \A t \in Turns : status[t] = "waiting" ~> status[t] = "ended"

\* askuser/tool.go:86 says questions do not reach a breaker, which after a few of
\* them would open: a turn is refused only if another one has failed.
RefusedForFailures ==
  (\E t \in Turns : outcome[t] = "refused")
    => \E t \in Turns : outcome[t] \in {"failed", "timeout", "budget", "steps"}
=============================================================================
