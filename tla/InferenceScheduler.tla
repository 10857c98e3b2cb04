------------------------- MODULE InferenceScheduler -------------------------
(***************************************************************************)
(* internal/inference/scheduler.go and breaker.go: the life of one         *)
(* inference call, from the admission breaker to the return of its slot.   *)
(*                                                                         *)
(*   Breaker.Allow -> Scheduler.closed -> poolFor -> Pool.Acquire ->       *)
(*   inner.Generate, or inner.Stream and the pump goroutine ->             *)
(*   Breaker.Record -> Pool.Release                                        *)
(*                                                                         *)
(* Each arrow is a point where other calls, the shutdown or a timer can    *)
(* step in.  A pool appears here as the semaphore InferencePool was shown  *)
(* to implement (slots and waiters, hand-over in one step); the order of   *)
(* the waiters is that module's business.  The circuit breaker library     *)
(* (gobreaker) is external and modelled from its use.                      *)
(***************************************************************************)
EXTENDS Integers, FiniteSets

CONSTANTS Callers,      \* concurrent calls
          Models,       \* upstream models
          Configured,   \* the models with an [inference.pools.<model>] section
          Slots,        \* slots of a pool
          Places,       \* queue places of a pool
          Threshold,    \* breaker.failureThreshold
          Probes,       \* breaker.halfOpenProbes
          PipeCap,      \* capacity of the pipe pump forwards into
          NoModel       \* the "model" of a caller between two calls

ASSUME SchedulerAssumption == /\ Configured \subseteq Models
                              /\ {Slots, Places, Threshold, PipeCap} \subseteq Nat \ {0}
                              /\ Probes \in Nat
                              /\ NoModel \notin Models

VARIABLES closed,       \* Scheduler.closed
          pools,        \* the keys of Scheduler.pools
          shut,         \* the pools whose own closed flag is set
          holders,      \* [model -> the calls that own one of its slots]
          waiting,      \* [model -> the calls queued for one]
          breaker,      \* [model -> the state of its gobreaker]
          at,           \* where each call stands
          model,        \* the model it is for
          ctx,          \* the state of its context
          end,          \* how its inference ended
          pipe,         \* chunks between pump and reader
          reader,       \* the consumer of the stream
          closing,      \* the pools Scheduler.Close has still to close
          draining,     \* the pools Scheduler.Drain has still to wait for
          shutdown      \* where cmd/server's shutdown stands

callVars == <<at, model, ctx, end>>
streamVars == <<pipe, reader>>
poolVars == <<pools, shut, holders, waiting>>
shutdownVars == <<closed, closing, draining, shutdown>>
vars == <<callVars, streamVars, poolVars, shutdownVars, breaker>>

\* Where a call is when the upstream model is working for it.
Upstream == {"calling", "recv", "sending"}
\* It owns a slot from the end of Acquire to Release.
Owning == Upstream \cup {"loop", "sendingErr", "record", "recording", "release"}
Stands == {"idle", "allowed", "open", "pooled", "queued"} \cup Owning

Closed == [state |-> "closed", fails |-> 0, succ |-> 0, reqs |-> 0, begun |-> {}]

Breakers == [state : {"closed", "open", "halfopen"},
             fails : 0..(Threshold - 1), succ : 0..Probes,
             reqs : 0..(Probes + 1), begun : SUBSET Callers]

TypeOK ==
  /\ closed \in BOOLEAN
  /\ pools \in SUBSET Models /\ shut \in SUBSET pools
  /\ holders \in [Models -> SUBSET Callers] /\ waiting \in [Models -> SUBSET Callers]
  /\ breaker \in [Models -> Breakers]
  /\ at \in [Callers -> Stands] /\ model \in [Callers -> Models \cup {NoModel}]
  /\ ctx \in [Callers -> {"live", "cancelled"}]
  /\ end \in [Callers -> {"none", "ok", "failed", "cancelled", "downstream"}]
  /\ pipe \in [Callers -> 0..PipeCap] /\ reader \in [Callers -> {"none", "reading", "closed"}]
  /\ closing \in SUBSET Models /\ draining \in SUBSET Models
  /\ shutdown \in {"serving", "closing", "stopped", "draining", "drained", "gaveUp"}

\* NewScheduler builds the configured pools; the breakers appear on first use.
Init == /\ closed = FALSE
        /\ pools = Configured /\ shut = {}
        /\ holders = [m \in Models |-> {}] /\ waiting = [m \in Models |-> {}]
        /\ breaker = [m \in Models |-> Closed]
        /\ at = [c \in Callers |-> "idle"] /\ model = [c \in Callers |-> NoModel]
        /\ ctx = [c \in Callers |-> "live"] /\ end = [c \in Callers |-> "none"]
        /\ pipe = [c \in Callers |-> 0] /\ reader = [c \in Callers |-> "none"]
        /\ closing = {} /\ draining = {} /\ shutdown = "serving"

Goto(c, p) == at' = [at EXCEPT ![c] = p]

\* The call returns to its caller; nothing of it is left.
Return(c) == /\ Goto(c, "idle")
             /\ model' = [model EXCEPT ![c] = NoModel]
             /\ ctx' = [ctx EXCEPT ![c] = "live"]
             /\ end' = [end EXCEPT ![c] = "none"]
             /\ pipe' = [pipe EXCEPT ![c] = 0]
             /\ reader' = [reader EXCEPT ![c] = "none"]
-----------------------------------------------------------------------------
(* The circuit breaker *)

MaxRequests == IF Probes = 0 THEN 1 ELSE Probes

HalfOpen == [Closed EXCEPT !.state = "halfopen"]
Opened == [Closed EXCEPT !.state = "open"]

\* The states currentState can see: an open breaker may have sat out its timeout.
Current(b) == IF b.state = "open" THEN {b, HalfOpen} ELSE {b}

\* Mutant: a cancelled context counts as a failure of the upstream.
SuccessWithoutCancel(e) == e \in {"none", "ok", "downstream"}

\* IsDownstreamSuccess; an end the downstream brought about carries no error.
Success(e) == e \in {"none", "ok", "downstream", "cancelled"}

\* Mutant: the breaker opens one failure late.
CountedTripsLate(b, e) ==
  CASE b.state = "closed" /\ Success(e) -> [b EXCEPT !.fails = 0]
    [] b.state = "closed" /\ ~Success(e) /\ b.fails + 1 <= Threshold -> [b EXCEPT !.fails = @ + 1]
    [] b.state = "closed" /\ ~Success(e) /\ b.fails + 1 > Threshold -> Opened
    [] b.state = "halfopen" /\ Success(e) /\ b.succ + 1 < MaxRequests -> [b EXCEPT !.succ = @ + 1]
    [] b.state = "halfopen" /\ Success(e) /\ b.succ + 1 >= MaxRequests -> Closed
    [] b.state = "halfopen" /\ ~Success(e) -> Opened
    [] OTHER -> b

\* afterRequest: onSuccess and onFailure; a change of state starts a new
\* generation, in which the requests begun before no longer count.
Counted(b, e) ==
  CASE b.state = "closed" /\ Success(e) -> [b EXCEPT !.fails = 0]
    [] b.state = "closed" /\ ~Success(e) /\ b.fails + 1 < Threshold -> [b EXCEPT !.fails = @ + 1]
    [] b.state = "closed" /\ ~Success(e) /\ b.fails + 1 >= Threshold -> Opened
    [] b.state = "halfopen" /\ Success(e) /\ b.succ + 1 < MaxRequests -> [b EXCEPT !.succ = @ + 1]
    [] b.state = "halfopen" /\ Success(e) /\ b.succ + 1 >= MaxRequests -> Closed
    [] b.state = "halfopen" /\ ~Success(e) -> Opened
    [] OTHER -> b

\* Allow: only an open breaker refuses.
AllowRefuses(c, m) == /\ at[c] = "idle"
                      /\ breaker[m].state = "open"
                      /\ UNCHANGED vars

Allow(c, m) == /\ at[c] = "idle"
               /\ \E b \in Current(breaker[m]) : /\ b.state # "open"
                                                 /\ breaker' = [breaker EXCEPT ![m] = b]
               /\ Goto(c, "allowed")
               /\ model' = [model EXCEPT ![c] = m]
               /\ UNCHANGED <<ctx, end, streamVars, poolVars, shutdownVars>>

\* Record runs an empty request through the breaker: beforeRequest may turn
\* it away, and then the result is lost on the breaker.
RecordBegin(c) ==
  LET m == model[c] IN
  /\ at[c] = "record"
  /\ \E b \in Current(breaker[m]) :
       IF b.state = "open" \/ (b.state = "halfopen" /\ b.reqs >= MaxRequests)
       THEN /\ breaker' = [breaker EXCEPT ![m] = b]
            /\ Goto(c, "release")
       ELSE /\ breaker' = [breaker EXCEPT ![m] =
                 [b EXCEPT !.begun = @ \cup {c},
                           !.reqs = IF b.state = "halfopen" THEN @ + 1 ELSE @]]
            /\ Goto(c, "recording")
  /\ UNCHANGED <<model, ctx, end, streamVars, poolVars, shutdownVars>>

RecordEnd(c) ==
  LET m == model[c] IN
  /\ at[c] = "recording"
  /\ \E b \in Current(breaker[m]) :
       breaker' = [breaker EXCEPT ![m] =
         IF c \in b.begun THEN Counted([b EXCEPT !.begun = @ \ {c}], end[c]) ELSE b]
  /\ Goto(c, "release")
  /\ UNCHANGED <<model, ctx, end, streamVars, poolVars, shutdownVars>>
-----------------------------------------------------------------------------
(* acquire *)

SeesClosed(c) == /\ at[c] = "allowed"
                 /\ closed
                 /\ Return(c)
                 /\ UNCHANGED <<poolVars, shutdownVars, breaker>>

SeesOpen(c) == /\ at[c] = "allowed"
               /\ ~closed
               /\ Goto(c, "open")
               /\ UNCHANGED <<model, ctx, end, streamVars, poolVars, shutdownVars, breaker>>

\* An unknown model gets a pool of its own on the spot.
PoolFor(c) == /\ at[c] = "open"
              /\ pools' = pools \cup {model[c]}
              /\ Goto(c, "pooled")
              /\ UNCHANGED <<model, ctx, end, streamVars, shut, holders, waiting,
                             shutdownVars, breaker>>

HasSlot(m) == Cardinality(holders[m]) < Slots /\ waiting[m] = {}

\* Pool.Acquire: shutting down, or queue full.
PoolRefuses(c) == LET m == model[c] IN
  /\ at[c] = "pooled"
  /\ \/ m \in shut
     \/ ~HasSlot(m) /\ Cardinality(waiting[m]) >= Places
  /\ Return(c)
  /\ UNCHANGED <<poolVars, shutdownVars, breaker>>

\* Mutant: the pool does not look at its own closed flag.
PoolAdmitsAnyway(c) == LET m == model[c] IN
  /\ at[c] = "pooled"
  /\ HasSlot(m)
  /\ holders' = [holders EXCEPT ![m] = @ \cup {c}]
  /\ Goto(c, "calling")
  /\ UNCHANGED <<model, ctx, end, streamVars, pools, shut, waiting, shutdownVars, breaker>>

PoolAdmits(c) == LET m == model[c] IN
  /\ at[c] = "pooled"
  /\ m \notin shut
  /\ HasSlot(m)
  /\ holders' = [holders EXCEPT ![m] = @ \cup {c}]
  /\ Goto(c, "calling")
  /\ UNCHANGED <<model, ctx, end, streamVars, pools, shut, waiting, shutdownVars, breaker>>

PoolQueues(c) == LET m == model[c] IN
  /\ at[c] = "pooled"
  /\ m \notin shut
  /\ ~HasSlot(m) /\ Cardinality(waiting[m]) < Places
  /\ waiting' = [waiting EXCEPT ![m] = @ \cup {c}]
  /\ Goto(c, "queued")
  /\ UNCHANGED <<model, ctx, end, streamVars, pools, shut, holders, shutdownVars, breaker>>

\* The queue timeout or the context ends the wait.
QueueGivesUp(c) == /\ at[c] = "queued"
                   /\ waiting' = [waiting EXCEPT ![model[c]] = @ \ {c}]
                   /\ Return(c)
                   /\ UNCHANGED <<pools, shut, holders, shutdownVars, breaker>>

\* Pool.Release, the last thing of every call.
Release(c) == LET m == model[c] IN
  /\ at[c] = "release"
  /\ \/ /\ waiting[m] = {}
        /\ holders' = [holders EXCEPT ![m] = @ \ {c}]
        /\ Return(c)
        /\ UNCHANGED waiting
     \/ \E w \in waiting[m] :
          /\ holders' = [holders EXCEPT ![m] = (@ \ {c}) \cup {w}]
          /\ waiting' = [waiting EXCEPT ![m] = @ \ {w}]
          /\ at' = [at EXCEPT ![c] = "idle", ![w] = "calling"]
          /\ model' = [model EXCEPT ![c] = NoModel]
          /\ ctx' = [ctx EXCEPT ![c] = "live"]
          /\ end' = [end EXCEPT ![c] = "none"]
          /\ pipe' = [pipe EXCEPT ![c] = 0]
          /\ reader' = [reader EXCEPT ![c] = "none"]
  /\ UNCHANGED <<pools, shut, shutdownVars, breaker>>
-----------------------------------------------------------------------------
(* Generate, Stream and pump *)

\* The user stops, or leaves the page.
ContextCancelled(c) == /\ at[c] \in Owning \ {"record", "recording", "release"}
                       /\ ctx[c] = "live"
                       /\ ctx' = [ctx EXCEPT ![c] = "cancelled"]
                       /\ UNCHANGED <<at, model, end, streamVars, poolVars, shutdownVars, breaker>>

\* An upstream error, a deadline (which counts like one), or the cancellation.
Failures(c) == {"failed"} \cup (IF ctx[c] = "live" THEN {} ELSE {"cancelled"})

\* inner.Generate returns, or inner.Stream fails to set the stream up.
CallReturns(c) == /\ at[c] = "calling"
                  /\ \E e \in {"ok"} \cup Failures(c) : end' = [end EXCEPT ![c] = e]
                  /\ Goto(c, "record")
                  /\ UNCHANGED <<model, ctx, streamVars, poolVars, shutdownVars, breaker>>

StreamStarts(c) == /\ at[c] = "calling"
                   /\ reader' = [reader EXCEPT ![c] = "reading"]
                   /\ Goto(c, "loop")
                   /\ UNCHANGED <<model, ctx, end, pipe, poolVars, shutdownVars, breaker>>

\* The select at the top of the loop; a deadline may have passed at any time.
PumpChecks(c) == /\ at[c] = "loop"
                 /\ \/ /\ ctx[c] = "live"
                       /\ Goto(c, "recv")
                       /\ UNCHANGED end
                    \/ /\ Goto(c, "sendingErr")
                       /\ end' = [end EXCEPT ![c] = IF ctx[c] = "live" THEN "failed" ELSE ctx[c]]
                 /\ UNCHANGED <<model, ctx, streamVars, poolVars, shutdownVars, breaker>>

PumpReceives(c) == /\ at[c] = "recv"
                   /\ \/ Goto(c, "sending") /\ UNCHANGED end
                      \/ Goto(c, "record") /\ end' = [end EXCEPT ![c] = "ok"]
                      \/ /\ Goto(c, "sendingErr")
                         /\ \E e \in Failures(c) : end' = [end EXCEPT ![c] = e]
                   /\ UNCHANGED <<model, ctx, streamVars, poolVars, shutdownVars, breaker>>

\* Mutant: a reader that is gone ends the pump, slot and all.
PumpAbandons(c) == /\ at[c] = "sending"
                   /\ \/ /\ reader[c] = "closed"
                         /\ Return(c)
                      \/ /\ reader[c] = "reading"
                         /\ pipe[c] < PipeCap
                         /\ pipe' = [pipe EXCEPT ![c] = @ + 1]
                         /\ Goto(c, "loop")
                         /\ UNCHANGED <<model, ctx, end, reader>>
                   /\ UNCHANGED <<poolVars, shutdownVars, breaker>>

\* sw.Send: true when the reader is gone; blocks while the pipe is full.
PumpSends(c) == /\ at[c] = "sending"
                /\ \/ /\ reader[c] = "closed"
                      /\ end' = [end EXCEPT ![c] = "downstream"]
                      /\ Goto(c, "record")
                      /\ UNCHANGED pipe
                   \/ /\ reader[c] = "reading"
                      /\ pipe[c] < PipeCap
                      /\ pipe' = [pipe EXCEPT ![c] = @ + 1]
                      /\ Goto(c, "loop")
                      /\ UNCHANGED end
                /\ UNCHANGED <<model, ctx, reader, poolVars, shutdownVars, breaker>>

PumpSendsError(c) == /\ at[c] = "sendingErr"
                     /\ reader[c] = "closed" \/ pipe[c] < PipeCap
                     /\ Goto(c, "record")
                     /\ UNCHANGED <<model, ctx, end, streamVars, poolVars, shutdownVars, breaker>>

\* The consumer reads on, or closes the stream.
ReaderReads(c) == /\ reader[c] = "reading"
                  /\ pipe[c] > 0
                  /\ pipe' = [pipe EXCEPT ![c] = @ - 1]
                  /\ UNCHANGED <<callVars, reader, poolVars, shutdownVars, breaker>>

ReaderCloses(c) == /\ reader[c] = "reading"
                   /\ reader' = [reader EXCEPT ![c] = "closed"]
                   /\ UNCHANGED <<callVars, pipe, poolVars, shutdownVars, breaker>>
-----------------------------------------------------------------------------
(* Close and Drain, as cmd/server calls them *)

\* The flag is set and the pools are listed under one lock.
CloseBegins == /\ shutdown = "serving"
               /\ closed' = TRUE
               /\ closing' = pools
               /\ shutdown' = "closing"
               /\ UNCHANGED <<draining, callVars, streamVars, poolVars, breaker>>

\* Pool.Close: the waiters of the pool get ErrShuttingDown.
CloseOne(m) == /\ m \in closing
               /\ closing' = closing \ {m}
               /\ shut' = shut \cup {m}
               /\ waiting' = [waiting EXCEPT ![m] = {}]
               /\ at' = [c \in Callers |-> IF c \in waiting[m] THEN "idle" ELSE at[c]]
               /\ model' = [c \in Callers |-> IF c \in waiting[m] THEN NoModel ELSE model[c]]
               /\ UNCHANGED <<closed, draining, shutdown, ctx, end, streamVars, pools,
                              holders, breaker>>

CloseReturns == /\ shutdown = "closing"
                /\ closing = {}
                /\ shutdown' = "stopped"
                /\ UNCHANGED <<closed, closing, draining, callVars, streamVars, poolVars, breaker>>

DrainBegins == /\ shutdown = "stopped"
               /\ draining' = pools
               /\ shutdown' = "draining"
               /\ UNCHANGED <<closed, closing, callVars, streamVars, poolVars, breaker>>

DrainOne(m) == /\ m \in draining
               /\ holders[m] = {}
               /\ draining' = draining \ {m}
               /\ UNCHANGED <<closed, closing, shutdown, callVars, streamVars, poolVars, breaker>>

DrainEnds == /\ shutdown = "draining"
             /\ \/ draining = {} /\ shutdown' = "drained"
                \/ draining # {} /\ shutdown' = "gaveUp"
             /\ draining' = {}
             /\ UNCHANGED <<closed, closing, callVars, streamVars, poolVars, breaker>>
-----------------------------------------------------------------------------
CallStep(c) == \/ \E m \in Models : AllowRefuses(c, m) \/ Allow(c, m)
               \/ SeesClosed(c) \/ SeesOpen(c) \/ PoolFor(c)
               \/ PoolRefuses(c) \/ PoolAdmits(c) \/ PoolQueues(c) \/ QueueGivesUp(c)
               \/ ContextCancelled(c) \/ CallReturns(c) \/ StreamStarts(c)
               \/ PumpChecks(c) \/ PumpReceives(c) \/ PumpSends(c) \/ PumpSendsError(c)
               \/ ReaderReads(c) \/ ReaderCloses(c)
               \/ RecordBegin(c) \/ RecordEnd(c) \/ Release(c)

Next == \/ \E c \in Callers : CallStep(c)
        \/ \E m \in Models : CloseOne(m) \/ DrainOne(m)
        \/ CloseBegins \/ CloseReturns \/ DrainBegins \/ DrainEnds

Spec == Init /\ [][Next]_vars
-----------------------------------------------------------------------------
(* Properties *)

(***************************************************************************)
(* A slot is held exactly by the calls that are between admission and      *)
(* Release: none is lost on any of the ways a call or a stream can end     *)
(* (Wrap's Generate and Stream, pump's deferred function).                 *)
(***************************************************************************)
SlotsMatchCalls ==
  \A m \in Models : holders[m] = {c \in Callers : model[c] = m /\ at[c] \in Owning}

(***************************************************************************)
(* Once Close has returned, no call is admitted to a configured pool, not  *)
(* even one that had read closed = FALSE before (scheduler.go, Close).     *)
(***************************************************************************)
AfterClose == shutdown \notin {"serving", "closing"}

NoAdmissionAfterClose ==
  [][AfterClose => \A m \in Configured : holders'[m] \subseteq holders[m]]_vars

(***************************************************************************)
(* Drain reports TRUE only when no configured model is at work any more    *)
(* (scheduler.go, Drain; cmd/server logs a warning otherwise).             *)
(***************************************************************************)
DrainTruthful == shutdown = "drained" => \A m \in Configured : holders[m] = {}

(***************************************************************************)
(* The breaker opens only on the failure of a call: users who stop their   *)
(* answers or leave the page never trip it (breaker.go, IsSuccessful).     *)
(***************************************************************************)
OnlyFailuresTrip ==
  [][\A m \in Models :
       breaker[m].state # "open" /\ breaker'[m].state = "open" =>
         \E c \in Callers : /\ at[c] = "recording" /\ at'[c] = "release"
                            /\ model[c] = m /\ end[c] = "failed"]_vars

(***************************************************************************)
(* A half-open breaker with no result under way takes another one, so it   *)
(* cannot stay half-open because results were lost (breaker.go, Record).   *)
(***************************************************************************)
HalfOpenNotWedged ==
  \A m \in Models : breaker[m].state = "halfopen" /\ breaker[m].begun = {} =>
                     breaker[m].reqs < MaxRequests

(***************************************************************************)
(* Neither a slot nor a place of a half-open breaker is lost on any way a  *)
(* call can end (scheduler.go, pump and Record).                           *)
(***************************************************************************)
NothingLeaks == SlotsMatchCalls /\ HalfOpenNotWedged

(***************************************************************************)
(* After Close nothing gets in, and when Drain says so nothing is left     *)
(* (scheduler.go, Close and Drain).                                        *)
(***************************************************************************)
CloseHolds == []DrainTruthful /\ NoAdmissionAfterClose
=============================================================================
