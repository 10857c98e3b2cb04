--------------------------- MODULE InferencePool ---------------------------
(***************************************************************************)
(* internal/inference/pool.go and queue.go: one model's inference pool.    *)
(* A pool has Slots concurrency slots and a bounded queue of three FIFO    *)
(* levels.  Everything below p.mu is one action; what happens outside the  *)
(* lock is an action of its own, because that is where the races are:      *)
(*                                                                         *)
(*   - Release pops the waiter under the lock and signals it later;        *)
(*   - a waiter whose timer fires, or whose context is cancelled, removes  *)
(*     itself under the lock, and may find that it was popped meanwhile;   *)
(*   - Close empties the queue under the lock and wakes the waiters one by *)
(*     one afterwards.                                                     *)
(*                                                                         *)
(* A caller is a goroutine that calls Acquire, runs its inference and      *)
(* calls Release, over and over; each Acquire makes a fresh waiter.        *)
(***************************************************************************)
EXTENDS Integers, Sequences, SequencesExt

CONSTANTS Callers,         \* goroutines that use the pool
          MaxConcurrent,   \* the configured max_concurrent, 0 when absent
          MaxQueueDepth,   \* the configured max_queue_depth
          NoCaller         \* "no waiter in hand"

ASSUME PoolAssumption ==
  /\ IsFiniteSet(Callers)
  /\ MaxConcurrent \in Int
  /\ MaxQueueDepth \in Int
  /\ NoCaller \notin Callers

\* newPool: without a configured limit the pool still has one.
Slots == IF MaxConcurrent <= 0 THEN 10 ELSE MaxConcurrent

Priorities == 0..2

VARIABLES closed,     \* Pool.closed
          inflight,   \* Pool.inflight
          levels,     \* priorityQueue.levels
          n,          \* priorityQueue.n
          pc,         \* where each caller stands
          ready,      \* the caller's waiter.ready, with the waiter.err it carries
          handTo,     \* the waiter a releasing caller has popped
          waking,     \* the waiters Close has drained and not yet woken
          drain       \* the shutdown's call of Drain

vars == <<closed, inflight, levels, n, pc, ready, handTo, waking, drain>>
-----------------------------------------------------------------------------
\* A caller blocked in Acquire's select, one that took the timer or the
\* context branch and has not locked yet, and one that lost the race and
\* waits for the signal it knows is coming.
Selecting == {"parked", "leaving"}
Blocked == Selecting \cup {"claimed"}
PCs == {"outside", "holding", "handing"} \cup Blocked

TypeOK == /\ closed \in BOOLEAN
          /\ inflight \in 0..Slots
          /\ levels \in [Priorities -> Seq(Callers)]
          /\ n \in Nat
          /\ pc \in [Callers -> PCs]
          /\ ready \in [Callers -> {"empty", "slot", "shutdown"}]
          /\ handTo \in [Callers -> Callers \cup {NoCaller}]
          /\ waking \in Seq(Callers)
          /\ drain \in {"pending", "drained", "expired"}

Init == /\ closed = FALSE
        /\ inflight = 0
        /\ levels = [p \in Priorities |-> <<>>]
        /\ n = 0
        /\ pc = [c \in Callers |-> "outside"]
        /\ ready = [c \in Callers |-> "empty"]
        /\ handTo = [c \in Callers |-> NoCaller]
        /\ waking = <<>>
        /\ drain = "pending"
-----------------------------------------------------------------------------
(* priorityQueue *)

Push(c, p) == /\ levels' = [levels EXCEPT ![p] = Append(@, c)]
              /\ n' = n + 1

\* Mutant: the levels are scanned from the least urgent one.
PopLowestFirst(c) == \E p \in Priorities :
  /\ levels[p] # <<>>
  /\ \A q \in Priorities : q > p => levels[q] = <<>>
  /\ c = Head(levels[p])
  /\ levels' = [levels EXCEPT ![p] = Tail(@)]
  /\ n' = n - 1

\* Pop returns c, the head of the first level that has one.
Pop(c) == \E p \in Priorities :
  /\ levels[p] # <<>>
  /\ \A q \in Priorities : q < p => levels[q] = <<>>
  /\ c = Head(levels[p])
  /\ levels' = [levels EXCEPT ![p] = Tail(@)]
  /\ n' = n - 1

InQueue(c) == \E p \in Priorities : \E i \in 1..Len(levels[p]) : levels[p][i] = c

\* Mutant: the count is left as it was.
RemoveKeepsCount(c) == \E p \in Priorities : \E i \in 1..Len(levels[p]) :
  /\ levels[p][i] = c
  /\ levels' = [levels EXCEPT ![p] = RemoveAt(@, i)]
  /\ n' = n

\* Remove, when it finds its target.
RemoveWaiter(c) == \E p \in Priorities : \E i \in 1..Len(levels[p]) :
  /\ levels[p][i] = c
  /\ levels' = [levels EXCEPT ![p] = RemoveAt(@, i)]
  /\ n' = n - 1
-----------------------------------------------------------------------------
(* Acquire *)

Refused == \/ closed
           \/ /\ ~(inflight < Slots /\ n = 0)
              /\ n >= MaxQueueDepth

\* ErrShuttingDown, or ErrQueueFull: nothing has changed.
AcquireRefused(c) == /\ pc[c] = "outside"
                     /\ Refused
                     /\ UNCHANGED vars

\* Mutant: one slot too many.
AcquireFastOffByOne(c) == /\ pc[c] = "outside"
                          /\ ~closed
                          /\ inflight <= Slots
                          /\ n = 0
                          /\ inflight' = inflight + 1
                          /\ pc' = [pc EXCEPT ![c] = "holding"]
                          /\ UNCHANGED <<closed, levels, n, ready, handTo, waking, drain>>

AcquireFast(c) == /\ pc[c] = "outside"
                  /\ ~closed
                  /\ inflight < Slots
                  /\ n = 0
                  /\ inflight' = inflight + 1
                  /\ pc' = [pc EXCEPT ![c] = "holding"]
                  /\ UNCHANGED <<closed, levels, n, ready, handTo, waking, drain>>

Enqueue(c, p) == /\ pc[c] = "outside"
                 /\ ~Refused
                 /\ ~(inflight < Slots /\ n = 0)
                 /\ Push(c, p)
                 /\ pc' = [pc EXCEPT ![c] = "parked"]
                 /\ ready' = [ready EXCEPT ![c] = "empty"]
                 /\ UNCHANGED <<closed, inflight, handTo, waking, drain>>

\* select leaves by the signal, or the wait after a lost race ends.
TakeSignal(c) == /\ pc[c] \in {"parked", "claimed"}
                 /\ ready[c] # "empty"
                 /\ ready' = [ready EXCEPT ![c] = "empty"]
                 /\ pc' = [pc EXCEPT ![c] = IF ready[c] = "slot" THEN "holding"
                                                                 ELSE "outside"]
                 /\ UNCHANGED <<closed, inflight, levels, n, handTo, waking, drain>>

\* select leaves by the timer or by ctx.Done(), perhaps with the signal there
\* as well: the branch chosen first locks the pool.
GivesUp(c) == /\ pc[c] = "parked"
              /\ pc' = [pc EXCEPT ![c] = "leaving"]
              /\ UNCHANGED <<closed, inflight, levels, n, ready, handTo, waking, drain>>

\* dropWaiter removes the waiter, and Acquire returns the error.
DropWaiter(c) == /\ pc[c] = "leaving"
                 /\ RemoveWaiter(c)
                 /\ pc' = [pc EXCEPT ![c] = "outside"]
                 /\ UNCHANGED <<closed, inflight, ready, handTo, waking, drain>>

\* Mutant: a waiter that was already chosen gives up all the same.
DropTooLateGivesUp(c) == /\ pc[c] = "leaving"
                         /\ ~InQueue(c)
                         /\ pc' = [pc EXCEPT ![c] = "outside"]
                         /\ UNCHANGED <<closed, inflight, levels, n, ready, handTo, waking, drain>>

\* dropWaiter does not find the waiter: it was chosen, the signal will come.
DropTooLate(c) == /\ pc[c] = "leaving"
                  /\ ~InQueue(c)
                  /\ pc' = [pc EXCEPT ![c] = "claimed"]
                  /\ UNCHANGED <<closed, inflight, levels, n, ready, handTo, waking, drain>>
-----------------------------------------------------------------------------
(* Release *)

\* The slot is passed on: inflight keeps counting it.
ReleaseToWaiter(c, w) == /\ pc[c] = "holding"
                         /\ Pop(w)
                         /\ pc' = [pc EXCEPT ![c] = "handing"]
                         /\ handTo' = [handTo EXCEPT ![c] = w]
                         /\ UNCHANGED <<closed, inflight, ready, waking, drain>>

\* Outside the lock: next.err = nil and the send, on a channel of capacity 1.
HandOver(c) == /\ pc[c] = "handing"
               /\ ready[handTo[c]] = "empty"
               /\ ready' = [ready EXCEPT ![handTo[c]] = "slot"]
               /\ handTo' = [handTo EXCEPT ![c] = NoCaller]
               /\ pc' = [pc EXCEPT ![c] = "outside"]
               /\ UNCHANGED <<closed, inflight, levels, n, waking, drain>>

\* Mutant: the slot is given back without a look at the queue.
ReleaseAnyway(c) == /\ pc[c] = "holding"
                    /\ inflight' = IF inflight > 0 THEN inflight - 1 ELSE inflight
                    /\ pc' = [pc EXCEPT ![c] = "outside"]
                    /\ UNCHANGED <<closed, levels, n, ready, handTo, waking, drain>>

ReleaseIdle(c) == /\ pc[c] = "holding"
                  /\ \A p \in Priorities : levels[p] = <<>>
                  /\ inflight' = IF inflight > 0 THEN inflight - 1 ELSE inflight
                  /\ pc' = [pc EXCEPT ![c] = "outside"]
                  /\ UNCHANGED <<closed, levels, n, ready, handTo, waking, drain>>
-----------------------------------------------------------------------------
(* Close and Drain *)

Close == /\ ~closed
         /\ closed' = TRUE
         /\ waking' = levels[0] \o levels[1] \o levels[2]
         /\ levels' = [p \in Priorities |-> <<>>]
         /\ n' = 0
         /\ UNCHANGED <<inflight, pc, ready, handTo, drain>>

\* Mutant: the waiters are dropped in silence.
WakeNobody == /\ waking # <<>>
              /\ waking' = Tail(waking)
              /\ UNCHANGED <<closed, inflight, levels, n, pc, ready, handTo, drain>>

Wake == /\ waking # <<>>
        /\ ready[Head(waking)] = "empty"
        /\ ready' = [ready EXCEPT ![Head(waking)] = "shutdown"]
        /\ waking' = Tail(waking)
        /\ UNCHANGED <<closed, inflight, levels, n, pc, handTo, drain>>

\* cmd/server calls Drain after Close has returned; Drain polls inflight.
DrainDone == /\ drain = "pending"
             /\ closed
             /\ waking = <<>>
             /\ inflight = 0
             /\ drain' = "drained"
             /\ UNCHANGED <<closed, inflight, levels, n, pc, ready, handTo, waking>>

DrainExpires == /\ drain = "pending"
                /\ closed
                /\ waking = <<>>
                /\ inflight # 0
                /\ drain' = "expired"
                /\ UNCHANGED <<closed, inflight, levels, n, pc, ready, handTo, waking>>
-----------------------------------------------------------------------------
Step(c) == \/ AcquireRefused(c)
           \/ AcquireFast(c)
           \/ \E p \in Priorities : Enqueue(c, p)
           \/ TakeSignal(c)
           \/ GivesUp(c)
           \/ DropWaiter(c)
           \/ DropTooLate(c)
           \/ \E w \in Callers : ReleaseToWaiter(c, w)
           \/ HandOver(c)
           \/ ReleaseIdle(c)

Next == \/ \E c \in Callers : Step(c)
        \/ Close
        \/ Wake
        \/ DrainDone
        \/ DrainExpires

Spec == Init /\ [][Next]_vars

Release(c) == ReleaseIdle(c) \/ \E w \in Callers : ReleaseToWaiter(c, w)

(***************************************************************************)
(* A running goroutine is scheduled, time.NewTimer fires, and an inference *)
(* ends (its context has a deadline), so its Release is eventually called. *)
(* No caller has to call Acquire, and nobody has to cancel.                *)
(***************************************************************************)
Fairness == /\ \A c \in Callers : /\ WF_vars(TakeSignal(c))
                                  /\ WF_vars(GivesUp(c))
                                  /\ WF_vars(DropWaiter(c) \/ DropTooLate(c))
                                  /\ WF_vars(HandOver(c))
                                  /\ WF_vars(Release(c))
            /\ WF_vars(Wake)

FairSpec == Spec /\ Fairness
-----------------------------------------------------------------------------
(* Properties *)

Queued == {c \in Callers : InQueue(c)}

\* Popped by a Release, whether or not the signal has been sent or received.
Chosen(c) == ready[c] = "slot" \/ \E h \in Callers : handTo[h] = c
\* Drained by Close, whether or not it has been woken.
Doomed(c) == ready[c] = "shutdown" \/ \E i \in 1..Len(waking) : waking[i] = c

Holders == {c \in Callers : pc[c] = "holding" \/ Chosen(c)}

(***************************************************************************)
(* inflight is exactly the number of slots in use, counting the slots that *)
(* are on their way to a waiter, and never exceeds the limit: no           *)
(* interleaving of hand-over, timeout and cancellation leaks a slot or     *)
(* uses one twice (pool.go, dropWaiter and Release).                       *)
(***************************************************************************)
SlotAccounting == /\ inflight = Cardinality(Holders)
                  /\ inflight <= Slots

(***************************************************************************)
(* Nobody waits while a slot is free (Acquire's fast path and Release).    *)
(***************************************************************************)
WorkConserving == n > 0 => inflight = Slots

(***************************************************************************)
(* The count the admission decision reads is the number of calls really    *)
(* waiting: a call that gave up holds no place in the queue, so it cannot  *)
(* make a later one look like queue_full (queue.go, Remove).               *)
(***************************************************************************)
QueueCountExact == /\ n = Cardinality(Queued)
                   /\ n > 0 => n <= MaxQueueDepth

(***************************************************************************)
(* A blocked call has exactly one fate: it is still queued, or it was      *)
(* chosen for a slot, or Close drained it - so it gets exactly one signal, *)
(* and no sender can find the channel full (queue.go, waiter.ready).       *)
(***************************************************************************)
ExactlyOneFate ==
  /\ \A c \in Callers : pc[c] \in Blocked =>
        Cardinality({f \in {"queued", "chosen", "doomed"} :
                        \/ f = "queued" /\ InQueue(c)
                        \/ f = "chosen" /\ Chosen(c)
                        \/ f = "doomed" /\ Doomed(c)}) = 1
  /\ \A c \in Callers : pc[c] = "claimed" => ~InQueue(c)
  /\ \A h \in Callers : pc[h] = "handing" => /\ pc[handTo[h]] \in Blocked
                                             /\ ready[handTo[h]] = "empty"
  /\ \A i \in 1..Len(waking) : ready[waking[i]] = "empty"

(***************************************************************************)
(* Both together: no call is lost between the queue, its channel and the   *)
(* count that admits the next one (pool.go, queue.go).                     *)
(***************************************************************************)
CallersAccounted == QueueCountExact /\ ExactlyOneFate

(***************************************************************************)
(* No call blocks in Acquire for ever: it gets a slot or an error.         *)
(***************************************************************************)
AcquireReturns == \A c \in Callers : pc[c] \in Blocked ~> pc[c] \notin Blocked

(***************************************************************************)
(* A closed pool drains: the calls that hold or were promised a slot give  *)
(* it back, and from then on the pool stays empty (pool.go, Close, Drain). *)
(***************************************************************************)
ClosedPoolEmpties == closed ~> [](inflight = 0)

(***************************************************************************)
(* No call stays in the pool for ever, neither waiting nor after Close.    *)
(***************************************************************************)
CallersReturn == AcquireReturns /\ ClosedPoolEmpties

(***************************************************************************)
(* The pool implements the semaphore: priority classes, arrival order      *)
(* within a class, no barging, a bounded queue.                            *)
(***************************************************************************)
LevelOf(c) == CHOOSE p \in Priorities : \E i \in 1..Len(levels[p]) : levels[p][i] = c

Before(c) == LET s == levels[LevelOf(c)]
                 i == CHOOSE j \in 1..Len(s) : s[j] = c
             IN  {s[j] : j \in 1..(i - 1)}

Semaphore == INSTANCE SlotSemaphore WITH
               Places <- MaxQueueDepth,
               open <- ~closed,
               holders <- Holders,
               class <- [c \in Queued |-> LevelOf(c)],
               ahead <- [c \in Queued |-> Before(c)]

ImplementsSemaphore == Semaphore!SSpec
=============================================================================
