------------------------------ MODULE TurnTrace ------------------------------
(***************************************************************************)
(* internal/agent/trace: the Recorder of one turn, the spans its model and *)
(* tool calls open and close side by side, and Finish, which closes the    *)
(* turn, turns a snapshot into metrics and stores it, not waiting for the  *)
(* database longer than persistTimeout.                                    *)
(*                                                                         *)
(* A step is known by its span, its number and its start; only the turn    *)
(* has a status here, durations and details are left out.  A tool the      *)
(* graph has given up may still be running when the turn ends.             *)
(***************************************************************************)
EXTENDS Integers, Sequences, FiniteSets

CONSTANTS Spans, ToolSpans,  \* model and tool calls of the turn; the tools among them
          Turn,              \* the span of the turn itself
          MaxClock,          \* bound on the clock
          None

All == Spans \cup {Turn}
Statuses == {"ok", "error", "timeout", "skipped", "rejected"}
Rows == [steps : 0 .. Cardinality(All), tools : 0 .. Cardinality(Spans), status : Statuses]

TraceAssumption ==
  /\ IsFiniteSet(Spans) /\ ToolSpans \subseteq Spans /\ Turn \notin Spans
  /\ MaxClock \in Nat
  /\ None \notin Rows

VARIABLES now,               \* the clock, which two spans may read alike
          next, steps,       \* Recorder.next, Recorder.steps
          span,              \* [span -> where it stands, its number, its start]
          turn,              \* where the turn stands
          snapshot,          \* the copy Finish works on
          counted,           \* [span -> times it has been counted in the metrics]
          status,            \* of the turn
          store, row,        \* the goroutine that writes, and the row in the database
          persisted          \* result counted for deeptalk_agent_trace_persist_total

traceVars == <<now, next, steps, span, turn, snapshot, counted, status, store, row, persisted>>

Errors == {"none", "deadline", "canceled", "other"}
Steps == [span : All, step : 1 .. Cardinality(All), start : 0 .. MaxClock]

TraceTypeOK ==
  /\ now \in 0 .. MaxClock /\ next \in 0 .. Cardinality(All)
  /\ steps \in Seq(Steps)
  /\ span \in [All -> [at : {"idle", "numbered", "open", "ended", "late", "gone"},
                       step : 0 .. Cardinality(All), start : 0 .. MaxClock]]
  /\ turn \in {"new", "running", "ended", "taken", "flushed", "waiting", "over"}
  /\ snapshot \in Seq(Steps)
  /\ counted \in [All -> 0 .. 1]
  /\ status \in Statuses
  /\ store \in {"absent", "idle", "writing", "wrote", "refused", "sent"}
  /\ row \in Rows \cup {None}
  /\ persisted \in {"no", "ok", "fail"}

Closed == [at |-> "idle", step |-> 0, start |-> 0]

Init == /\ now = 0 /\ next = 0 /\ steps = <<>>
        /\ span = [s \in All |-> Closed]
        /\ turn = "new" /\ snapshot = <<>> /\ counted = [s \in All |-> 0]
        /\ status = "ok"
        /\ store \in {"absent", "idle"}  \* has SetStore been called?
        /\ row = None /\ persisted = "no"
-----------------------------------------------------------------------------
(* Spans.  Begin takes the number under the lock and reads the clock after *)
(* it, so a span may be numbered before another and start after it.        *)

recorded == <<turn, snapshot, counted, status, store, row, persisted>>

Number(s) == /\ turn # "new" /\ span[s].at = "idle"
             /\ next' = next + 1
             /\ span' = [span EXCEPT ![s].at = "numbered", ![s].step = next']
             /\ UNCHANGED <<now, steps, recorded>>

Begin(s) == /\ span[s].at = "numbered"
            /\ span' = [span EXCEPT ![s].at = "open", ![s].start = now]
            /\ UNCHANGED <<now, next, steps, recorded>>

\* record, under the lock.
Recorded(s) == steps' = Append(steps, [span |-> s, step |-> span[s].step, start |-> span[s].start])

SnapshotTaken == turn \in {"taken", "flushed", "waiting", "over"}

\* End, EndOK or EndErr.
End(s) ==
  /\ span[s].at = "open"
  /\ Recorded(s)
  /\ span' = [span EXCEPT ![s].at = IF SnapshotTaken THEN "late" ELSE "ended"]
  /\ UNCHANGED <<now, next, recorded>>

\* The deferred End behind an explicit one: done makes it nothing.
EndAgain(s) == /\ span[s].at \in {"ended", "late"}
               /\ UNCHANGED traceVars

Tick == /\ now < MaxClock
        /\ now' = now + 1
        /\ UNCHANGED <<next, steps, span, recorded>>
-----------------------------------------------------------------------------
(* The turn *)

StatusOf(err) == CASE err = "none" -> "ok" [] err = "deadline" -> "timeout"
                   [] err = "canceled" -> "skipped" [] OTHER -> "error"

\* Nobody else has the recorder yet.
StartTurn == /\ turn = "new"
             /\ turn' = "running" /\ next' = 1
             /\ span' = [span EXCEPT ![Turn] = [at |-> "open", step |-> 1, start |-> now]]
             /\ UNCHANGED <<now, steps, snapshot, counted, status, store, row, persisted>>

\* Finish, deferred: the status of the error, or the override of a rejected turn.
Finish(outcome) ==
  /\ turn = "running"
  /\ Recorded(Turn)
  /\ turn' = "ended" /\ status' = outcome /\ span' = [span EXCEPT ![Turn].at = "ended"]
  /\ UNCHANGED <<now, next, snapshot, counted, store, row, persisted>>

Before(a, b) == a.start < b.start \/ (a.start = b.start /\ a.step < b.step)
Sorted(s) == \A i, j \in DOMAIN s : i < j => Before(s[i], s[j])

\* Mutant: the snapshot is sorted by the numbers.
SnapshotByNumber ==
  /\ turn = "ended"
  /\ turn' = "taken"
  /\ snapshot' = [n \in DOMAIN steps |->
       steps[CHOOSE i \in DOMAIN steps : Cardinality({j \in DOMAIN steps : steps[j].step < steps[i].step}) = n - 1]]
  /\ UNCHANGED <<now, next, steps, span, counted, status, store, row, persisted>>

\* A copy under the lock, sorted by start and, at one reading of the clock, by number.
Snapshot ==
  /\ turn = "ended"
  /\ turn' = "taken"
  /\ snapshot' = [n \in DOMAIN steps |->
       steps[CHOOSE i \in DOMAIN steps : Cardinality({j \in DOMAIN steps : Before(steps[j], steps[i])}) = n - 1]]
  /\ UNCHANGED <<now, next, steps, span, counted, status, store, row, persisted>>

\* Metrics first: they cannot fail.
Flush == /\ turn = "taken"
         /\ turn' = "flushed"
         /\ counted' = [s \in All |-> counted[s] + Cardinality({i \in DOMAIN snapshot : snapshot[i].span = s})]
         /\ UNCHANGED <<now, next, steps, span, snapshot, status, store, row, persisted>>

NoStore == /\ turn = "flushed" /\ store = "absent"
           /\ turn' = "over"
           /\ UNCHANGED <<now, next, steps, span, snapshot, counted, status, store, row, persisted>>

Persist == /\ turn = "flushed" /\ store = "idle"
           /\ turn' = "waiting" /\ store' = "writing"
           /\ UNCHANGED <<now, next, steps, span, snapshot, counted, status, row, persisted>>

\* The goroutine that stores outlives the wait for it.
StoreReturns(ok) ==
  /\ store = "writing"
  /\ store' = IF ok THEN "wrote" ELSE "refused"
  /\ row' = IF ok THEN [steps |-> Len(snapshot), status |-> status,
                        tools |-> Cardinality({i \in DOMAIN snapshot : snapshot[i].span \in ToolSpans})]
            ELSE row
  /\ UNCHANGED <<now, next, steps, span, turn, snapshot, counted, status, persisted>>

\* The channel has room for the one result.
Collect ==
  /\ turn = "waiting" /\ store \in {"wrote", "refused"}
  /\ turn' = "over" /\ store' = "sent" /\ persisted' = IF store = "wrote" THEN "ok" ELSE "fail"
  /\ UNCHANGED <<now, next, steps, span, snapshot, counted, status, row>>

TimeOut == /\ turn = "waiting"
           /\ turn' = "over" /\ persisted' = "fail"
           /\ UNCHANGED <<now, next, steps, span, snapshot, counted, status, store, row>>
-----------------------------------------------------------------------------
Call(s) == Number(s) \/ Begin(s) \/ End(s) \/ EndAgain(s)

Finishing == \/ \E err \in Errors : Finish(StatusOf(err))
             \/ Finish("rejected")
             \/ Snapshot \/ Flush \/ NoStore \/ Persist \/ Collect \/ TimeOut

Next == \/ StartTurn \/ Finishing \/ Tick
        \/ \E s \in Spans : Call(s)
        \/ \E ok \in BOOLEAN : StoreReturns(ok)
-----------------------------------------------------------------------------
(***************************************************************************)
(* The snapshot of a turn has every step that ended before it, once and in *)
(* the order the steps started, with numbers of their own; a call still    *)
(* open then is missing from it and comes into no later one.  What the     *)
(* metrics count is the snapshot, and a row is stored of the same steps:   *)
(* "ok" is counted only for a row that is there (store.go, Persist).  That *)
(* "fail" means there is no row is not so: the write may end after the     *)
(* wait for it.                                                            *)
(***************************************************************************)
TraceFaithful ==
  /\ \A s, t \in All : s # t /\ span[s].step # 0 => span[s].step # span[t].step
  /\ SnapshotTaken =>
       /\ Sorted(snapshot)
       /\ \A s \in All : Cardinality({i \in DOMAIN snapshot : snapshot[i].span = s})
                           = IF span[s].at = "ended" THEN 1 ELSE 0
  /\ turn \in {"waiting", "over"} => \A s \in All : counted[s] = IF span[s].at = "ended" THEN 1 ELSE 0
  /\ persisted = "ok" => row # None
  /\ row # None => /\ row.steps = Cardinality({s \in All : counted[s] = 1})
                   /\ row.status = status
                   /\ row.tools = Cardinality({s \in ToolSpans : counted[s] = 1})

(***************************************************************************)
(* Observing never holds up the turn: once it has its answer it ends,      *)
(* though the database never answers (store.go, persistTimeout).           *)
(***************************************************************************)
NotFinishing == turn \in {"new", "running", "over"}

TurnNotHeldUp == []<>NotFinishing
=============================================================================
