------------------------------ MODULE LogWriter ------------------------------
(***************************************************************************)
(* internal/infra/logger/async.go: goroutines that log, the AsyncWriter    *)
(* that batches their lines, and CloseOutput at the end of the process     *)
(* (cmd/server).  A line is known by its writer and its number.  The       *)
(* output may take a batch in part or not at all, which nobody is told; its*)
(* speed is left out: run may stay in out.Write as long as it likes.       *)
(***************************************************************************)
EXTENDS Integers, Sequences

CONSTANTS Writers, Lines,    \* every writer logs Lines lines
          QueueSize,         \* capacity of ch
          BufSize            \* lines that make run write without waiting for the ticker

LogAssumption == {Lines, QueueSize, BufSize} \subseteq Nat \ {0}

VARIABLES ch, buf, out,      \* the queue, the batch of run, what has been written
          dropped,           \* the lines counted by Dropped()
          closed,            \* AsyncWriter.closed
          runner, closer,    \* where run and Close stand
          writer, line,      \* [writer -> where it stands, which line it is at]
          late, direct,      \* history: lines enqueued after Close, lines written without the queue
          failed             \* history: lines the output has not taken

logVars == <<ch, buf, out, dropped, closed, runner, closer, writer, line, late, direct, failed>>

AllLines == Writers \X (1 .. Lines)

LogTypeOK ==
  /\ ch \in Seq(AllLines) /\ Len(ch) <= QueueSize
  /\ buf \in Seq(AllLines) /\ out \in Seq(AllLines)
  /\ dropped \subseteq AllLines /\ late \subseteq AllLines /\ direct \subseteq AllLines
  /\ failed \subseteq AllLines
  /\ closed \in BOOLEAN
  /\ runner \in {"running", "draining", "done"}
  /\ closer \in {"open", "closing", "waiting", "over"}
  /\ writer \in [Writers -> {"logging", "enqueuing", "done"}]
  /\ line \in [Writers -> 1 .. Lines]

\* NewAsyncWriter: the queue, and the goroutine behind it.
Init == /\ ch = <<>> /\ buf = <<>> /\ out = <<>> /\ dropped = {}
        /\ closed = FALSE /\ runner = "running" /\ closer = "open"
        /\ writer = [w \in Writers |-> "logging"] /\ line = [w \in Writers |-> 1]
        /\ late = {} /\ direct = {} /\ failed = {}
-----------------------------------------------------------------------------
(* Write, on the goroutine that logs *)

This(w) == <<w, line[w]>>

Written(w) == IF line[w] < Lines
              THEN line' = [line EXCEPT ![w] = @ + 1] /\ writer' = [writer EXCEPT ![w] = "logging"]
              ELSE writer' = [writer EXCEPT ![w] = "done"] /\ UNCHANGED line

\* closed.Load(): after Close the caller writes for itself.
Log(w) ==
  /\ writer[w] = "logging"
  /\ IF closed
     THEN /\ \/ out' = Append(out, This(w)) /\ UNCHANGED failed
             \/ failed' = failed \cup {This(w)} /\ UNCHANGED out
          /\ direct' = direct \cup {This(w)} /\ Written(w)
     ELSE writer' = [writer EXCEPT ![w] = "enqueuing"] /\ UNCHANGED <<out, line, direct, failed>>
  /\ UNCHANGED <<ch, buf, dropped, closed, runner, closer, late>>

Enqueued(w) == /\ ch' = Append(ch, This(w))
               /\ late' = IF closed THEN late \cup {This(w)} ELSE late
               /\ Written(w)

\* Mutant: one more than the queue holds.
EnqueueOneMore(w) ==
  /\ writer[w] = "enqueuing"
  /\ IF Len(ch) <= QueueSize
     THEN Enqueued(w) /\ UNCHANGED dropped
     ELSE dropped' = dropped \cup {This(w)} /\ Written(w) /\ UNCHANGED <<ch, late>>
  /\ UNCHANGED <<buf, out, closed, runner, closer, direct, failed>>

\* The copy goes into the queue or, if it is full, nowhere.
Enqueue(w) ==
  /\ writer[w] = "enqueuing"
  /\ IF Len(ch) < QueueSize
     THEN Enqueued(w) /\ UNCHANGED dropped
     ELSE dropped' = dropped \cup {This(w)} /\ Written(w) /\ UNCHANGED <<ch, late>>
  /\ UNCHANGED <<buf, out, closed, runner, closer, direct, failed>>
-----------------------------------------------------------------------------
(* run; its select takes any of the branches that are ready *)

\* flush: the batch in one Write, whose error and count are not looked at.
Flush(batch) ==
  /\ buf' = <<>>
  /\ \E taken \in 0 .. Len(batch) :
       /\ out' = out \o SubSeq(batch, 1, taken)
       /\ failed' = failed \cup {batch[i] : i \in taken + 1 .. Len(batch)}

Receive ==
  /\ runner = "running" /\ ch # <<>>
  /\ ch' = Tail(ch)
  /\ LET batch == Append(buf, Head(ch))
     IN IF Len(batch) >= BufSize THEN Flush(batch) ELSE buf' = batch /\ UNCHANGED <<out, failed>>
  /\ UNCHANGED <<dropped, closed, runner, closer, writer, line, late, direct>>

FlushOnTick == /\ runner = "running" /\ buf # <<>>
               /\ Flush(buf)
               /\ UNCHANGED <<ch, dropped, closed, runner, closer, writer, line, late, direct>>

SeeQuit == /\ runner = "running" /\ closer \in {"waiting", "over"}
           /\ runner' = "draining"
           /\ UNCHANGED <<ch, buf, out, dropped, closed, closer, writer, line, late, direct, failed>>

Drain ==
  /\ runner = "draining"
  /\ IF ch # <<>>
     THEN ch' = Tail(ch) /\ buf' = Append(buf, Head(ch)) /\ UNCHANGED <<runner, out, failed>>
     ELSE runner' = "done" /\ Flush(buf) /\ UNCHANGED ch
  /\ UNCHANGED <<dropped, closed, closer, writer, line, late, direct>>
-----------------------------------------------------------------------------
(* Close, once: the compare-and-swap lets nobody else in *)

CloseBegins == /\ closer = "open"
               /\ closer' = "closing" /\ closed' = TRUE
               /\ UNCHANGED <<ch, buf, out, dropped, runner, writer, line, late, direct, failed>>

CloseQuits == /\ closer = "closing"
              /\ closer' = "waiting"
              /\ UNCHANGED <<ch, buf, out, dropped, closed, runner, writer, line, late, direct, failed>>

CloseReturns == /\ closer = "waiting"  \* on done, or on the timeout
                /\ closer' = "over"
                /\ UNCHANGED <<ch, buf, out, dropped, closed, runner, writer, line, late, direct, failed>>
-----------------------------------------------------------------------------
Write(w) == Log(w) \/ Enqueue(w)
Run == Receive \/ FlushOnTick \/ SeeQuit \/ Drain
Close == CloseBegins \/ CloseQuits \/ CloseReturns

Over == /\ closer = "over" /\ runner = "done" /\ \A w \in Writers : writer[w] = "done"
        /\ UNCHANGED logVars

Next == (\E w \in Writers : Write(w)) \/ Run \/ Close \/ Over
-----------------------------------------------------------------------------
(***************************************************************************)
(* Every line a Write has returned for is queued, batched, written, counted*)
(* as dropped or refused by the output, in one of them and once; when run  *)
(* has ended, only lines whose writer looked at closed before Close are    *)
(* left in the queue and lost without being counted.  And a writer's lines *)
(* come out in the order it logged them, unless the later one took the     *)
(* direct way.                                                             *)
(***************************************************************************)
LinesAccounted ==
  LET everywhere == ch \o buf \o out IN
  /\ \A w \in Writers : \A k \in 1 .. Lines :
       k < line[w] \/ writer[w] = "done" =>
         (<<w, k>> \in dropped \cup failed) # (\E i \in DOMAIN everywhere : everywhere[i] = <<w, k>>)
  /\ dropped \cap failed = {}
  /\ \A i, j \in DOMAIN everywhere : everywhere[i] = everywhere[j] => i = j
  /\ runner = "done" => buf = <<>> /\ \A i \in DOMAIN ch : ch[i] \in late
  /\ \A i, j \in DOMAIN out :
       i < j /\ out[i][1] = out[j][1] /\ out[i] \notin direct => out[i][2] < out[j][2]

(***************************************************************************)
(* Logging never waits for the output: a goroutine that logs goes on,      *)
(* whatever run does (async.go, the default branch of Write).              *)
(***************************************************************************)
NobodyEnqueues == \A w \in Writers : writer[w] # "enqueuing"

WritersGoOn == []<>NobodyEnqueues
=============================================================================
