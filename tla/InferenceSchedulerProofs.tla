---------------------- MODULE InferenceSchedulerProofs ----------------------
(***************************************************************************)
(* Proofs about the inference scheduler and its admission breaker, for any *)
(* calls, models and limits.  The properties are not inductive as they     *)
(* stand.  IInv adds who waits in a queue, who has a place of a half-open  *)
(* breaker and how its places are spent, and what a shutdown has reached   *)
(* so far.                                                                 *)
(***************************************************************************)
EXTENDS InferenceScheduler, FiniteSetTheorems, TLAPS

\* A call that stands anywhere is for a model.
ModelKnown == \A c \in Callers : at[c] # "idle" => model[c] \in Models

\* The waiters of a pool are the calls that are queued for it.
QueueMatchesCalls ==
  \A m \in Models : waiting[m] = {c \in Callers : model[c] = m /\ at[c] = "queued"}

\* Only a call that is recording has begun a request.
BegunRecording ==
  \A m \in Models : \A c \in breaker[m].begun : at[c] = "recording" /\ model[c] = m

\* Every request a half-open breaker counts has succeeded or is under way,
\* and the last success it waits for has not come.
PlacesSpent(b) ==
  b.state = "halfopen" => /\ IsFiniteSet(b.begun)
                          /\ b.reqs = b.succ + Cardinality(b.begun)
                          /\ b.succ < MaxRequests

\* How far Close has come.
CloseInv ==
  /\ Configured \subseteq pools /\ closing \subseteq pools
  /\ \A m \in shut : waiting[m] = {}
  /\ shutdown # "serving" => Configured \subseteq shut \cup closing
  /\ AfterClose => closing = {}

\* How far Drain has come.
DrainInv ==
  /\ shutdown = "draining" => \A m \in Configured \ draining : holders[m] = {}
  /\ DrainTruthful

IInv == /\ TypeOK
        /\ ModelKnown
        /\ SlotsMatchCalls
        /\ QueueMatchesCalls
        /\ BegunRecording
        /\ \A m \in Models : PlacesSpent(breaker[m])
        /\ CloseInv
        /\ DrainInv
-----------------------------------------------------------------------------
(* The breaker *)

LEMMA ThresholdType == Threshold \in Nat /\ Threshold > 0 /\ Probes \in Nat
  BY SchedulerAssumption DEF SchedulerAssumption

LEMMA FreshBreakers ==
  /\ {Closed, HalfOpen, Opened} \subseteq Breakers
  /\ Closed.state = "closed" /\ HalfOpen.state = "halfopen" /\ Opened.state = "open"
  /\ \A b \in {Closed, HalfOpen, Opened} : b.begun = {} /\ PlacesSpent(b)
<1>1. /\ {Closed, HalfOpen, Opened} \subseteq Breakers
      /\ Closed.state = "closed" /\ HalfOpen.state = "halfopen" /\ Opened.state = "open"
      /\ \A b \in {Closed, HalfOpen, Opened} : b.begun = {} /\ b.reqs = 0 /\ b.succ = 0
  BY ThresholdType DEF Breakers, Closed, HalfOpen, Opened
<1>2. MaxRequests > 0
  BY ThresholdType DEF MaxRequests
<1>. QED
  BY <1>1, <1>2, FS_EmptySet DEF PlacesSpent

\* The states a look at the breaker can find.
LEMMA CurrentFacts ==
  ASSUME NEW b \in Breakers, PlacesSpent(b), NEW e \in Current(b)
  PROVE  /\ e \in Breakers
         /\ PlacesSpent(e)
         /\ e.begun \subseteq b.begun
         /\ e.state = "open" => b.state = "open"
<1>. QED
  BY FreshBreakers DEF Current

\* Beginning a request takes one place of a half-open breaker.
LEMMA BegunFacts ==
  ASSUME NEW b \in Breakers, PlacesSpent(b), NEW c \in Callers, c \notin b.begun,
         b.state = "halfopen" => b.reqs < MaxRequests
  PROVE  LET e == [b EXCEPT !.begun = @ \cup {c},
                            !.reqs = IF b.state = "halfopen" THEN @ + 1 ELSE @]
         IN  /\ e \in Breakers
             /\ PlacesSpent(e)
             /\ e.begun = b.begun \cup {c}
             /\ e.state = b.state
<1>. DEFINE e == [b EXCEPT !.begun = @ \cup {c},
                           !.reqs = IF b.state = "halfopen" THEN @ + 1 ELSE @]
<1>1. /\ e.begun = b.begun \cup {c} /\ e.state = b.state /\ e.succ = b.succ
      /\ e.reqs = IF b.state = "halfopen" THEN b.reqs + 1 ELSE b.reqs
  BY DEF Breakers
<1>2. e \in Breakers
  <2>1. IF b.state = "halfopen" THEN b.reqs + 1 \in 0..(Probes + 1) ELSE b.reqs \in 0..(Probes + 1)
    BY ThresholdType DEF Breakers, MaxRequests
  <2>. QED
    BY <2>1 DEF Breakers
<1>3. PlacesSpent(e)
  <2>. SUFFICES ASSUME b.state = "halfopen"
                PROVE  /\ IsFiniteSet(e.begun) /\ e.reqs = e.succ + Cardinality(e.begun)
                       /\ e.succ < MaxRequests
    BY <1>1 DEF PlacesSpent
  <2>1. IsFiniteSet(b.begun) /\ b.reqs = b.succ + Cardinality(b.begun) /\ b.succ < MaxRequests
    BY DEF PlacesSpent
  <2>2. IsFiniteSet(e.begun) /\ Cardinality(e.begun) = Cardinality(b.begun) + 1
    BY <1>1, <2>1, FS_AddElement
  <2>3. Cardinality(b.begun) \in Nat /\ b.succ \in Nat
    BY <2>1, FS_CardinalityType DEF Breakers
  <2>. HIDE DEF e
  <2>. QED
    BY <1>1, <2>1, <2>2, <2>3
<1>. QED
  BY <1>1, <1>2, <1>3

\* Ending a request gives its place back as a success, or starts anew; only
\* a failure opens the breaker.
LEMMA CountedFacts ==
  ASSUME NEW b \in Breakers, PlacesSpent(b), NEW c \in b.begun,
         NEW d, d = [b EXCEPT !.begun = @ \ {c}],
         NEW e \in {"none", "ok", "failed", "cancelled", "downstream"}
  PROVE  /\ Counted(d, e) \in Breakers
         /\ PlacesSpent(Counted(d, e))
         /\ Counted(d, e).begun \subseteq b.begun \ {c}
         /\ Counted(d, e).state = "open" /\ b.state # "open" => e = "failed"
<1>1. /\ d \in Breakers /\ d.begun = b.begun \ {c} /\ d.state = b.state
      /\ d.succ = b.succ /\ d.reqs = b.reqs
  BY DEF Breakers
<1>2. ASSUME b.state = "halfopen"
      PROVE  /\ IsFiniteSet(d.begun) /\ d.reqs = d.succ + 1 + Cardinality(d.begun)
             /\ Cardinality(d.begun) \in Nat /\ d.succ \in Nat
  <2>1. IsFiniteSet(b.begun) /\ b.reqs = b.succ + Cardinality(b.begun)
    BY <1>2 DEF PlacesSpent
  <2>2. /\ IsFiniteSet(d.begun) /\ Cardinality(d.begun) = Cardinality(b.begun) - 1
        /\ Cardinality(d.begun) \in Nat
    BY <1>1, <2>1, FS_RemoveElement, FS_CardinalityType
  <2>3. Cardinality(b.begun) \in Nat /\ b.succ \in Nat
    BY <2>1, FS_CardinalityType DEF Breakers
  <2>. QED
    BY <1>1, <2>1, <2>2, <2>3
<1>3. CASE Success(e) /\ d.state = "closed"
  <2>1. Counted(d, e) = [d EXCEPT !.fails = 0]
    BY <1>3 DEF Counted
  <2>2. 0 \in 0..(Threshold - 1)
    BY ThresholdType
  <2>3. Counted(d, e) \in Breakers /\ Counted(d, e).state = "closed" /\ Counted(d, e).begun = d.begun
    BY <1>1, <1>3, <2>1, <2>2 DEF Breakers
  <2>. QED
    BY <1>1, <2>3 DEF PlacesSpent
<1>4. CASE ~Success(e) /\ d.state = "closed" /\ d.fails + 1 < Threshold
  <2>1. Counted(d, e) = [d EXCEPT !.fails = @ + 1]
    <3>1. ~(d.fails + 1 >= Threshold)
      BY <1>1, <1>4, ThresholdType DEF Breakers, MaxRequests
    <3>. QED
      BY <1>4, <3>1 DEF Counted
  <2>2. d.fails + 1 \in 0..(Threshold - 1)
    BY <1>1, <1>4, ThresholdType DEF Breakers
  <2>3. Counted(d, e) \in Breakers /\ Counted(d, e).state = "closed" /\ Counted(d, e).begun = d.begun
    BY <1>1, <1>4, <2>1, <2>2 DEF Breakers
  <2>. QED
    BY <1>1, <2>3 DEF PlacesSpent
<1>5. CASE Success(e) /\ d.state = "halfopen" /\ d.succ + 1 < MaxRequests
  <2>1. Counted(d, e) = [d EXCEPT !.succ = @ + 1]
    <3>1. ~(d.succ + 1 >= MaxRequests)
      BY <1>1, <1>5, ThresholdType DEF Breakers, MaxRequests
    <3>. QED
      BY <1>5, <3>1 DEF Counted
  <2>2. d.succ + 1 \in 0..Probes
    BY <1>1, <1>5, ThresholdType DEF Breakers, MaxRequests
  <2>3. /\ Counted(d, e) \in Breakers /\ Counted(d, e).state = "halfopen"
        /\ Counted(d, e).begun = d.begun
        /\ Counted(d, e).succ = d.succ + 1 /\ Counted(d, e).reqs = d.reqs
    BY <1>1, <1>5, <2>1, <2>2 DEF Breakers
  <2>. QED
    BY <1>1, <1>2, <1>5, <2>3 DEF PlacesSpent
<1>6. CASE ~Success(e) /\ (d.state = "halfopen" \/ (d.state = "closed" /\ d.fails + 1 >= Threshold))
  <2>1. Counted(d, e) = Opened
    <3>1. ~(d.fails + 1 < Threshold /\ d.fails + 1 >= Threshold)
      BY <1>1, ThresholdType DEF Breakers
    <3>. QED
      BY <1>6, <3>1 DEF Counted
  <2>2. e = "failed"
    BY <1>6 DEF Success
  <2>. QED
    BY <2>1, <2>2, FreshBreakers
<1>7. CASE Success(e) /\ d.state = "halfopen" /\ d.succ + 1 >= MaxRequests
  <2>1. Counted(d, e) = Closed
    <3>1. ~(d.succ + 1 < MaxRequests /\ d.succ + 1 >= MaxRequests)
      BY <1>1, ThresholdType DEF Breakers, MaxRequests
    <3>. QED
      BY <1>7, <3>1 DEF Counted
  <2>. QED
    BY <2>1, FreshBreakers
<1>8. CASE d.state = "open"
  <2>1. Counted(d, e) = d
    BY <1>8 DEF Counted
  <2>. QED
    BY <1>1, <1>8, <2>1 DEF PlacesSpent
<1>9. \/ Success(e) \/ d.fails + 1 < Threshold \/ d.fails + 1 >= Threshold
  BY <1>1, ThresholdType DEF Breakers
<1>10. \/ d.succ + 1 < MaxRequests \/ d.succ + 1 >= MaxRequests
  BY <1>1, ThresholdType DEF Breakers, MaxRequests
<1>11. d.state \in {"closed", "open", "halfopen"}
  BY <1>1 DEF Breakers
<1>. QED
  BY <1>3, <1>4, <1>5, <1>6, <1>7, <1>8, <1>9, <1>10, <1>11
-----------------------------------------------------------------------------
(* Initial states *)

LEMMA InitIInv == Init => IInv
<1>. SUFFICES ASSUME Init
              PROVE  IInv
  OBVIOUS
<1>1. TypeOK
  <2>1. breaker \in [Models -> Breakers]
    BY FreshBreakers DEF Init
  <2>2. PipeCap \in Nat
    BY SchedulerAssumption DEF SchedulerAssumption
  <2>3. Configured \subseteq Models
    BY SchedulerAssumption DEF SchedulerAssumption
  <2>4. /\ closed \in BOOLEAN /\ pools \in SUBSET Models /\ shut \in SUBSET pools
        /\ holders \in [Models -> SUBSET Callers] /\ waiting \in [Models -> SUBSET Callers]
        /\ at \in [Callers -> Stands] /\ model \in [Callers -> Models \cup {NoModel}]
    BY <2>3 DEF Init, Stands
  <2>5. /\ ctx \in [Callers -> {"live", "cancelled"}]
        /\ end \in [Callers -> {"none", "ok", "failed", "cancelled", "downstream"}]
        /\ pipe \in [Callers -> 0..PipeCap] /\ reader \in [Callers -> {"none", "reading", "closed"}]
        /\ closing \in SUBSET Models /\ draining \in SUBSET Models
        /\ shutdown \in {"serving", "closing", "stopped", "draining", "drained", "gaveUp"}
    BY <2>2 DEF Init
  <2>. QED
    BY <2>1, <2>4, <2>5 DEF TypeOK
<1>2. ModelKnown /\ SlotsMatchCalls /\ QueueMatchesCalls
  BY DEF Init, ModelKnown, SlotsMatchCalls, QueueMatchesCalls, Owning, Upstream
<1>3. BegunRecording /\ \A m \in Models : PlacesSpent(breaker[m])
  BY FreshBreakers DEF Init, BegunRecording
<1>4. CloseInv /\ DrainInv
  BY DEF Init, CloseInv, DrainInv, DrainTruthful, AfterClose
<1>. QED
  BY <1>1, <1>2, <1>3, <1>4 DEF IInv
-----------------------------------------------------------------------------
(* Steps of a call *)

\* A call moves on without taking or giving back a slot or a queue place.
LEMMA MoveIInv ==
  ASSUME IInv, TypeOK', BegunRecording', \A m \in Models : PlacesSpent(breaker'[m]),
         NEW c \in Callers, NEW p \in Stands, NEW d \in Models \cup {NoModel},
         at' = [at EXCEPT ![c] = p], model' = [model EXCEPT ![c] = d],
         p # "idle" => d \in Models,
         at[c] # "queued", p # "queued",
         at[c] \in Owning <=> p \in Owning, p \in Owning => d = model[c],
         pools \subseteq pools',
         UNCHANGED <<shut, holders, waiting, shutdownVars>>
  PROVE  IInv'
<1>1. ModelKnown'
  BY DEF IInv, TypeOK, ModelKnown
<1>2. SlotsMatchCalls'
  BY DEF IInv, TypeOK, SlotsMatchCalls
<1>3. QueueMatchesCalls'
  BY DEF IInv, TypeOK, QueueMatchesCalls
<1>4. CloseInv' /\ DrainInv'
  BY DEF IInv, CloseInv, DrainInv, DrainTruthful, AfterClose, shutdownVars
<1>. QED
  BY <1>1, <1>2, <1>3, <1>4 DEF IInv

\* ... and without touching its breaker.
LEMMA QuietMoveIInv ==
  ASSUME IInv, TypeOK',
         NEW c \in Callers, NEW p \in Stands, NEW d \in Models \cup {NoModel},
         at' = [at EXCEPT ![c] = p], model' = [model EXCEPT ![c] = d],
         p # "idle" => d \in Models,
         at[c] \notin {"queued", "recording"}, p # "queued",
         at[c] \in Owning <=> p \in Owning, p \in Owning => d = model[c],
         pools \subseteq pools',
         UNCHANGED <<shut, holders, waiting, shutdownVars, breaker>>
  PROVE  IInv'
<1>1. BegunRecording'
  BY DEF IInv, TypeOK, BegunRecording
<1>2. \A m \in Models : PlacesSpent(breaker'[m])
  BY DEF IInv
<1>. QED
  BY <1>1, <1>2, MoveIInv

\* A step that moves no call and leaves the pools, the breakers and the
\* shutdown alone.
LEMMA StandingIInv ==
  ASSUME IInv, TypeOK', UNCHANGED <<at, model, poolVars, shutdownVars, breaker>>
  PROVE  IInv'
<1>1. ModelKnown' /\ SlotsMatchCalls' /\ QueueMatchesCalls'
  BY DEF IInv, ModelKnown, SlotsMatchCalls, QueueMatchesCalls, poolVars
<1>2. BegunRecording' /\ \A m \in Models : PlacesSpent(breaker'[m])
  BY DEF IInv, BegunRecording
<1>3. CloseInv' /\ DrainInv'
  BY DEF IInv, CloseInv, DrainInv, DrainTruthful, AfterClose, shutdownVars, poolVars
<1>. QED
  BY <1>1, <1>2, <1>3 DEF IInv

LEMMA AllowIInv ==
  ASSUME IInv, NEW c \in Callers, NEW m \in Models, Allow(c, m)
  PROVE  IInv'
<1>1. PICK b \in Current(breaker[m]) : breaker' = [breaker EXCEPT ![m] = b]
  BY DEF Allow
<1>2. /\ at[c] = "idle" /\ at' = [at EXCEPT ![c] = "allowed"] /\ model' = [model EXCEPT ![c] = m]
      /\ UNCHANGED <<ctx, end, streamVars, poolVars, shutdownVars>>
  BY DEF Allow, Goto
<1>3. b \in Breakers /\ PlacesSpent(b) /\ b.begun \subseteq breaker[m].begun
  BY CurrentFacts DEF IInv, TypeOK
<1>4. TypeOK'
  BY <1>1, <1>2, <1>3 DEF IInv, TypeOK, Stands, streamVars, poolVars, shutdownVars
<1>5. BegunRecording'
  BY <1>1, <1>2, <1>3 DEF IInv, TypeOK, BegunRecording
<1>6. \A x \in Models : PlacesSpent(breaker'[x])
  BY <1>1, <1>3 DEF IInv, TypeOK
<1>. QED
  BY <1>2, <1>4, <1>5, <1>6, MoveIInv DEF Stands, Owning, Upstream, poolVars

LEMMA RecordBeginIInv ==
  ASSUME IInv, NEW c \in Callers, RecordBegin(c)
  PROVE  IInv'
<1>. DEFINE m == model[c]
<1>1. at[c] = "record" /\ m \in Models /\ UNCHANGED <<model, ctx, end, streamVars, poolVars, shutdownVars>>
  BY DEF RecordBegin, IInv, ModelKnown
<1>2. model' = [model EXCEPT ![c] = m]
  BY <1>1 DEF IInv, TypeOK
<1>3. PICK b \in Current(breaker[m]) :
        IF b.state = "open" \/ (b.state = "halfopen" /\ b.reqs >= MaxRequests)
        THEN breaker' = [breaker EXCEPT ![m] = b] /\ at' = [at EXCEPT ![c] = "release"]
        ELSE /\ breaker' = [breaker EXCEPT ![m] =
                  [b EXCEPT !.begun = @ \cup {c},
                            !.reqs = IF b.state = "halfopen" THEN @ + 1 ELSE @]]
             /\ at' = [at EXCEPT ![c] = "recording"]
  BY DEF RecordBegin, Goto
<1>4. b \in Breakers /\ PlacesSpent(b) /\ b.begun \subseteq breaker[m].begun
  BY <1>1, CurrentFacts DEF IInv, TypeOK
<1>5. c \notin b.begun
  BY <1>1, <1>4 DEF IInv, BegunRecording
<1>6. PICK a \in Breakers : /\ breaker' = [breaker EXCEPT ![m] = a] /\ PlacesSpent(a)
                            /\ \/ at' = [at EXCEPT ![c] = "release"] /\ a.begun \subseteq b.begun
                               \/ /\ at' = [at EXCEPT ![c] = "recording"]
                                  /\ a.begun \subseteq b.begun \cup {c}
  <2>1. CASE b.state = "open" \/ (b.state = "halfopen" /\ b.reqs >= MaxRequests)
    BY <1>3, <1>4, <2>1
  <2>2. CASE ~(b.state = "open" \/ (b.state = "halfopen" /\ b.reqs >= MaxRequests))
    <3>1. b.state = "halfopen" => b.reqs < MaxRequests
      BY <1>4, <2>2, ThresholdType DEF Breakers, MaxRequests
    <3>. QED
      BY <1>3, <1>4, <1>5, <2>2, <3>1, BegunFacts
  <2>. QED
    BY <2>1, <2>2
<1>7. TypeOK'
  BY <1>1, <1>6 DEF IInv, TypeOK, Stands, Owning, streamVars, poolVars, shutdownVars
<1>8. BegunRecording'
  <2>. SUFFICES ASSUME NEW x \in Models, NEW d \in breaker'[x].begun
                PROVE  at'[d] = "recording" /\ model'[d] = x
    BY DEF BegunRecording
  <2>1. CASE d # c
    <3>1. d \in breaker[x].begun
      BY <1>1, <1>4, <1>6, <2>1 DEF IInv, TypeOK
    <3>2. at[d] = "recording" /\ model[d] = x
      BY <3>1 DEF IInv, BegunRecording
    <3>3. d \in Callers
      BY <3>1 DEF IInv, TypeOK, Breakers
    <3>. QED
      BY <1>1, <1>6, <2>1, <3>2, <3>3 DEF IInv, TypeOK
  <2>2. CASE d = c
    <3>1. c \notin breaker[x].begun
      BY <1>1 DEF IInv, BegunRecording
    <3>2. x = m /\ at' = [at EXCEPT ![c] = "recording"]
      BY <1>1, <1>4, <1>5, <1>6, <2>2, <3>1 DEF IInv, TypeOK
    <3>3. at'[c] = "recording" /\ model'[c] = m
      BY <1>1, <3>2 DEF IInv, TypeOK
    <3>. QED
      BY <2>2, <3>2, <3>3
  <2>. QED
    BY <2>1, <2>2
<1>9. \A x \in Models : PlacesSpent(breaker'[x])
  BY <1>6 DEF IInv, TypeOK
<1>10. at' = [at EXCEPT ![c] = "release"] \/ at' = [at EXCEPT ![c] = "recording"]
  BY <1>6
<1>11. /\ {"record", "recording", "release"} \subseteq Owning /\ Owning \subseteq Stands
  BY DEF Owning, Stands
<1>. QED
  BY <1>1, <1>2, <1>7, <1>8, <1>9, <1>10, <1>11, MoveIInv DEF poolVars

LEMMA RecordEndIInv ==
  ASSUME IInv, NEW c \in Callers, RecordEnd(c)
  PROVE  IInv'
<1>. DEFINE m == model[c]
<1>1. /\ at[c] = "recording" /\ m \in Models /\ at' = [at EXCEPT ![c] = "release"]
      /\ UNCHANGED <<model, ctx, end, streamVars, poolVars, shutdownVars>>
  BY DEF RecordEnd, Goto, IInv, ModelKnown
<1>2. model' = [model EXCEPT ![c] = m]
  BY <1>1 DEF IInv, TypeOK
<1>3. PICK b \in Current(breaker[m]) :
        breaker' = [breaker EXCEPT ![m] =
          IF c \in b.begun THEN Counted([b EXCEPT !.begun = @ \ {c}], end[c]) ELSE b]
  BY DEF RecordEnd
<1>4. b \in Breakers /\ PlacesSpent(b) /\ b.begun \subseteq breaker[m].begun
  BY <1>1, CurrentFacts DEF IInv, TypeOK
<1>5. PICK a \in Breakers : /\ breaker' = [breaker EXCEPT ![m] = a] /\ PlacesSpent(a)
                            /\ a.begun \subseteq b.begun \ {c}
  <2>1. CASE c \in b.begun
    <3>. DEFINE d == [b EXCEPT !.begun = @ \ {c}]
    <3>1. end[c] \in {"none", "ok", "failed", "cancelled", "downstream"}
      BY DEF IInv, TypeOK
    <3>2. /\ Counted(d, end[c]) \in Breakers /\ PlacesSpent(Counted(d, end[c]))
          /\ Counted(d, end[c]).begun \subseteq b.begun \ {c}
      BY <1>4, <2>1, <3>1, CountedFacts
    <3>3. breaker' = [breaker EXCEPT ![m] = Counted(d, end[c])]
      BY <1>3, <2>1
    <3>. QED
      BY <3>2, <3>3
  <2>2. CASE c \notin b.begun
    BY <1>3, <1>4, <2>2
  <2>. QED
    BY <2>1, <2>2
<1>6. TypeOK'
  BY <1>1, <1>5 DEF IInv, TypeOK, Stands, Owning, streamVars, poolVars, shutdownVars
<1>7. BegunRecording'
  BY <1>1, <1>4, <1>5 DEF IInv, TypeOK, BegunRecording
<1>8. \A x \in Models : PlacesSpent(breaker'[x])
  BY <1>5 DEF IInv, TypeOK
<1>9. /\ {"recording", "release"} \subseteq Owning /\ Owning \subseteq Stands
  BY DEF Owning, Stands
<1>. QED
  BY <1>1, <1>2, <1>6, <1>7, <1>8, <1>9, MoveIInv DEF poolVars

\* Taking a slot.
LEMMA PoolAdmitsIInv ==
  ASSUME IInv, NEW c \in Callers, PoolAdmits(c)
  PROVE  IInv'
<1>. DEFINE m == model[c]
<1>1. /\ at[c] = "pooled" /\ m \in Models /\ m \notin shut
      /\ holders' = [holders EXCEPT ![m] = @ \cup {c}]
      /\ at' = [at EXCEPT ![c] = "calling"]
      /\ UNCHANGED <<model, ctx, end, streamVars, pools, shut, waiting, shutdownVars, breaker>>
  BY DEF PoolAdmits, Goto, IInv, ModelKnown
<1>2. TypeOK'
  BY <1>1 DEF IInv, TypeOK, Stands, Owning, Upstream, streamVars, shutdownVars
<1>3. ModelKnown' /\ BegunRecording' /\ \A x \in Models : PlacesSpent(breaker'[x])
  BY <1>1 DEF IInv, TypeOK, Breakers, ModelKnown, BegunRecording
<1>4. SlotsMatchCalls'
  BY <1>1 DEF IInv, TypeOK, SlotsMatchCalls, Owning, Upstream
<1>5. QueueMatchesCalls'
  BY <1>1 DEF IInv, TypeOK, QueueMatchesCalls
<1>6. CloseInv' /\ DrainInv'
  BY <1>1 DEF IInv, TypeOK, CloseInv, DrainInv, DrainTruthful, AfterClose, shutdownVars
<1>. QED
  BY <1>2, <1>3, <1>4, <1>5, <1>6 DEF IInv

\* Taking a place of the queue.
LEMMA PoolQueuesIInv ==
  ASSUME IInv, NEW c \in Callers, PoolQueues(c)
  PROVE  IInv'
<1>. DEFINE m == model[c]
<1>1. /\ at[c] = "pooled" /\ m \in Models /\ m \notin shut
      /\ waiting' = [waiting EXCEPT ![m] = @ \cup {c}]
      /\ at' = [at EXCEPT ![c] = "queued"]
      /\ UNCHANGED <<model, ctx, end, streamVars, pools, shut, holders, shutdownVars, breaker>>
  BY DEF PoolQueues, Goto, IInv, ModelKnown
<1>2. TypeOK'
  BY <1>1 DEF IInv, TypeOK, Stands, streamVars, shutdownVars
<1>3. ModelKnown' /\ BegunRecording' /\ \A x \in Models : PlacesSpent(breaker'[x])
  BY <1>1 DEF IInv, TypeOK, Breakers, ModelKnown, BegunRecording
<1>4. SlotsMatchCalls'
  BY <1>1 DEF IInv, TypeOK, SlotsMatchCalls, Owning, Upstream
<1>5. QueueMatchesCalls'
  BY <1>1 DEF IInv, TypeOK, QueueMatchesCalls
<1>6. CloseInv' /\ DrainInv'
  BY <1>1 DEF IInv, TypeOK, CloseInv, DrainInv, DrainTruthful, AfterClose, shutdownVars
<1>. QED
  BY <1>2, <1>3, <1>4, <1>5, <1>6 DEF IInv

\* Leaving the queue.
LEMMA QueueGivesUpIInv ==
  ASSUME IInv, NEW c \in Callers, QueueGivesUp(c)
  PROVE  IInv'
<1>. DEFINE m == model[c]
<1>1. /\ at[c] = "queued" /\ m \in Models
      /\ waiting' = [waiting EXCEPT ![m] = @ \ {c}]
      /\ Return(c)
      /\ UNCHANGED <<pools, shut, holders, shutdownVars, breaker>>
  BY DEF QueueGivesUp, IInv, ModelKnown
<1>2. TypeOK'
  BY <1>1, SchedulerAssumption
     DEF IInv, TypeOK, Stands, Return, Goto, shutdownVars, SchedulerAssumption
<1>3. ModelKnown' /\ BegunRecording' /\ \A x \in Models : PlacesSpent(breaker'[x])
  BY <1>1 DEF IInv, TypeOK, Breakers, ModelKnown, BegunRecording, Return, Goto
<1>4. SlotsMatchCalls'
  BY <1>1 DEF IInv, TypeOK, SlotsMatchCalls, Owning, Upstream, Return, Goto
<1>5. QueueMatchesCalls'
  BY <1>1 DEF IInv, TypeOK, QueueMatchesCalls, Return, Goto
<1>6. CloseInv' /\ DrainInv'
  BY <1>1 DEF IInv, TypeOK, CloseInv, DrainInv, DrainTruthful, AfterClose, shutdownVars
<1>. QED
  BY <1>2, <1>3, <1>4, <1>5, <1>6 DEF IInv

\* Giving a slot back, to a waiter when there is one.
LEMMA ReleaseIInv ==
  ASSUME IInv, NEW c \in Callers, Release(c)
  PROVE  IInv'
<1>. DEFINE m == model[c]
<1>1. at[c] = "release" /\ m \in Models /\ UNCHANGED <<pools, shut, shutdownVars, breaker>>
  BY DEF Release, IInv, ModelKnown
<1>2. PipeCap \in Nat
  BY SchedulerAssumption DEF SchedulerAssumption
<1>3. CASE /\ holders' = [holders EXCEPT ![m] = @ \ {c}]
           /\ Return(c)
           /\ UNCHANGED waiting
  <2>1. TypeOK'
    BY <1>1, <1>2, <1>3 DEF IInv, TypeOK, Stands, Return, Goto, shutdownVars
  <2>2. ModelKnown' /\ BegunRecording' /\ \A x \in Models : PlacesSpent(breaker'[x])
    BY <1>1, <1>3 DEF IInv, TypeOK, Breakers, ModelKnown, BegunRecording, Return, Goto
  <2>3. SlotsMatchCalls'
    BY <1>1, <1>3 DEF IInv, TypeOK, SlotsMatchCalls, Owning, Upstream, Return, Goto
  <2>4. QueueMatchesCalls'
    BY <1>1, <1>3, SchedulerAssumption
       DEF IInv, TypeOK, QueueMatchesCalls, Return, Goto, SchedulerAssumption
  <2>5. CloseInv' /\ DrainInv'
    BY <1>1, <1>3 DEF IInv, TypeOK, CloseInv, DrainInv, DrainTruthful, AfterClose, shutdownVars
  <2>. QED
    BY <2>1, <2>2, <2>3, <2>4, <2>5 DEF IInv
<1>4. ASSUME NEW w \in waiting[m],
             /\ holders' = [holders EXCEPT ![m] = (@ \ {c}) \cup {w}]
             /\ waiting' = [waiting EXCEPT ![m] = @ \ {w}]
             /\ at' = [at EXCEPT ![c] = "idle", ![w] = "calling"]
             /\ model' = [model EXCEPT ![c] = NoModel]
             /\ ctx' = [ctx EXCEPT ![c] = "live"]
             /\ end' = [end EXCEPT ![c] = "none"]
             /\ pipe' = [pipe EXCEPT ![c] = 0]
             /\ reader' = [reader EXCEPT ![c] = "none"]
      PROVE  IInv'
  <2>1. w \in Callers /\ at[w] = "queued" /\ model[w] = m /\ w # c
    BY <1>1 DEF IInv, QueueMatchesCalls
  <2>2. m \notin shut
    BY <1>1 DEF IInv, CloseInv
  <2>3. /\ \A d \in Callers \ {c, w} : at'[d] = at[d] /\ model'[d] = model[d]
        /\ at'[c] = "idle" /\ at'[w] = "calling"
        /\ model'[c] = NoModel /\ model'[w] = m
    BY <1>4, <2>1 DEF IInv, TypeOK
  <2>4. TypeOK'
    BY <1>1, <1>2, <1>4, <2>1 DEF IInv, TypeOK, Stands, Owning, Upstream, shutdownVars
  <2>5. ModelKnown' /\ BegunRecording' /\ \A x \in Models : PlacesSpent(breaker'[x])
    <3>1. ModelKnown' /\ \A x \in Models : PlacesSpent(breaker'[x])
      BY <1>1, <2>1, <2>3 DEF IInv, ModelKnown
    <3>2. \A x \in Models : \A d \in breaker[x].begun :
             d \in Callers \ {c, w} /\ at[d] = "recording" /\ model[d] = x
      BY <1>1, <2>1 DEF IInv, TypeOK, Breakers, BegunRecording
    <3>3. BegunRecording'
      BY <1>1, <2>3, <3>2 DEF BegunRecording
    <3>. QED
      BY <3>1, <3>3
  <2>6. SlotsMatchCalls'
    <3>. SUFFICES ASSUME NEW x \in Models, NEW d \in Callers
                  PROVE  d \in holders'[x] <=> model'[d] = x /\ at'[d] \in Owning
      BY <2>4 DEF SlotsMatchCalls, TypeOK
    <3>. QED
      BY <1>1, <1>4, <2>1, <2>3, SchedulerAssumption
         DEF IInv, TypeOK, SlotsMatchCalls, Owning, Upstream, SchedulerAssumption
  <2>7. QueueMatchesCalls'
    <3>. SUFFICES ASSUME NEW x \in Models, NEW d \in Callers
                  PROVE  d \in waiting'[x] <=> model'[d] = x /\ at'[d] = "queued"
      BY <2>4 DEF QueueMatchesCalls, TypeOK
    <3>. QED
      BY <1>1, <1>4, <2>1, <2>3, SchedulerAssumption
         DEF IInv, TypeOK, QueueMatchesCalls, SchedulerAssumption
  <2>8. CloseInv' /\ DrainInv'
    BY <1>1, <1>4, <2>2 DEF IInv, TypeOK, CloseInv, DrainInv, DrainTruthful, AfterClose, shutdownVars
  <2>. QED
    BY <2>4, <2>5, <2>6, <2>7, <2>8 DEF IInv
<1>. QED
  BY <1>3, <1>4 DEF Release
-----------------------------------------------------------------------------
(* Steps of the shutdown *)

\* Pool.Close turns the waiters of its pool away.
LEMMA CloseOneIInv ==
  ASSUME IInv, NEW m \in Models, CloseOne(m)
  PROVE  IInv'
<1>1. /\ \A c \in Callers : /\ at'[c] = IF c \in waiting[m] THEN "idle" ELSE at[c]
                            /\ model'[c] = IF c \in waiting[m] THEN NoModel ELSE model[c]
      /\ waiting' = [waiting EXCEPT ![m] = {}]
      /\ UNCHANGED <<closed, draining, shutdown, ctx, end, streamVars, pools, holders, breaker>>
      /\ m \in closing /\ closing' = closing \ {m} /\ shut' = shut \cup {m}
  BY DEF CloseOne
<1>2. \A c \in waiting[m] : at[c] = "queued" /\ model[c] = m
  BY DEF IInv, QueueMatchesCalls
<1>3. TypeOK'
  <2>1. at' \in [Callers -> Stands] /\ model' \in [Callers -> Models \cup {NoModel}]
    BY DEF CloseOne, IInv, TypeOK, Stands
  <2>2. m \in pools
    BY <1>1 DEF IInv, CloseInv
  <2>. QED
    BY <1>1, <2>1, <2>2 DEF IInv, TypeOK, streamVars
<1>4. ModelKnown' /\ \A x \in Models : PlacesSpent(breaker'[x])
  BY <1>1 DEF IInv, ModelKnown
<1>5. BegunRecording'
  <2>1. \A x \in Models : \A d \in breaker[x].begun :
           d \in Callers /\ at[d] = "recording" /\ model[d] = x
    BY DEF IInv, TypeOK, Breakers, BegunRecording
  <2>. QED
    BY <1>1, <1>2, <2>1 DEF BegunRecording
<1>6. SlotsMatchCalls'
  <2>. SUFFICES ASSUME NEW x \in Models, NEW d \in Callers
                PROVE  d \in holders'[x] <=> model'[d] = x /\ at'[d] \in Owning
    BY <1>3 DEF SlotsMatchCalls, TypeOK
  <2>. QED
    BY <1>1, <1>2, SchedulerAssumption
       DEF IInv, TypeOK, SlotsMatchCalls, Owning, Upstream, SchedulerAssumption
<1>7. QueueMatchesCalls'
  <2>. SUFFICES ASSUME NEW x \in Models, NEW d \in Callers
                PROVE  d \in waiting'[x] <=> model'[d] = x /\ at'[d] = "queued"
    BY <1>3 DEF QueueMatchesCalls, TypeOK
  <2>. QED
    BY <1>1, <1>2 DEF IInv, TypeOK, QueueMatchesCalls
<1>8. CloseInv' /\ DrainInv'
  BY <1>1 DEF IInv, TypeOK, CloseInv, DrainInv, DrainTruthful, AfterClose
<1>. QED
  BY <1>3, <1>4, <1>5, <1>6, <1>7, <1>8 DEF IInv

\* The other steps of the shutdown leave every call where it is.
LEMMA ShutdownIInv ==
  ASSUME IInv, \/ CloseBegins \/ CloseReturns \/ DrainBegins \/ DrainEnds
               \/ \E m \in Models : DrainOne(m)
  PROVE  IInv'
<1>1. UNCHANGED <<callVars, streamVars, poolVars, breaker>>
  BY DEF CloseBegins, CloseReturns, DrainBegins, DrainEnds, DrainOne
<1>2. ModelKnown' /\ SlotsMatchCalls' /\ QueueMatchesCalls'
  BY <1>1 DEF IInv, ModelKnown, SlotsMatchCalls, QueueMatchesCalls, poolVars, callVars
<1>3. BegunRecording' /\ \A x \in Models : PlacesSpent(breaker'[x])
  BY <1>1 DEF IInv, BegunRecording, callVars
<1>4. CASE CloseBegins
  BY <1>1, <1>2, <1>3, <1>4 DEF CloseBegins, IInv, TypeOK, CloseInv, DrainInv, DrainTruthful,
     AfterClose, callVars, streamVars, poolVars
<1>5. CASE CloseReturns
  BY <1>1, <1>2, <1>3, <1>5 DEF CloseReturns, IInv, TypeOK, CloseInv, DrainInv, DrainTruthful,
     AfterClose, callVars, streamVars, poolVars
<1>6. CASE DrainBegins
  BY <1>1, <1>2, <1>3, <1>6 DEF DrainBegins, IInv, TypeOK, CloseInv, DrainInv, DrainTruthful,
     AfterClose, callVars, streamVars, poolVars
<1>7. CASE DrainEnds
  BY <1>1, <1>2, <1>3, <1>7 DEF DrainEnds, IInv, TypeOK, CloseInv, DrainInv, DrainTruthful,
     AfterClose, callVars, streamVars, poolVars
<1>8. ASSUME NEW m \in Models, DrainOne(m)
      PROVE  IInv'
  BY <1>1, <1>2, <1>3, <1>8 DEF DrainOne, IInv, TypeOK, CloseInv, DrainInv, DrainTruthful,
     AfterClose, callVars, streamVars, poolVars
<1>. QED
  BY <1>4, <1>5, <1>6, <1>7, <1>8
-----------------------------------------------------------------------------
(* The whole next-state relation *)

\* A call keeps its slot, or has none, on the way through Generate or a stream.
LEMMA StreamIInv ==
  ASSUME IInv, NEW c \in Callers,
         \/ ContextCancelled(c) \/ CallReturns(c) \/ StreamStarts(c)
         \/ PumpChecks(c) \/ PumpReceives(c) \/ PumpSends(c) \/ PumpSendsError(c)
         \/ ReaderReads(c) \/ ReaderCloses(c)
  PROVE  IInv'
<1>1. PipeCap \in Nat
  BY SchedulerAssumption DEF SchedulerAssumption
<1>2. TypeOK'
  <2>1. UNCHANGED <<model, poolVars, shutdownVars, breaker>>
    BY DEF ContextCancelled, CallReturns, StreamStarts, PumpChecks, PumpReceives, PumpSends,
       PumpSendsError, ReaderReads, ReaderCloses, callVars
  <2>2. at' \in [Callers -> Stands]
    BY DEF ContextCancelled, CallReturns, StreamStarts, PumpChecks, PumpReceives, PumpSends,
       PumpSendsError, ReaderReads, ReaderCloses, callVars, Goto, IInv, TypeOK, Stands, Owning, Upstream
  <2>3. /\ ctx' \in [Callers -> {"live", "cancelled"}]
        /\ end' \in [Callers -> {"none", "ok", "failed", "cancelled", "downstream"}]
    BY DEF ContextCancelled, CallReturns, StreamStarts, PumpChecks, PumpReceives, PumpSends,
       PumpSendsError, ReaderReads, ReaderCloses, callVars, IInv, TypeOK, Failures
  <2>4. pipe' \in [Callers -> 0..PipeCap] /\ reader' \in [Callers -> {"none", "reading", "closed"}]
    BY <1>1 DEF ContextCancelled, CallReturns, StreamStarts, PumpChecks, PumpReceives, PumpSends,
       PumpSendsError, ReaderReads, ReaderCloses, streamVars, IInv, TypeOK
  <2>. QED
    BY <2>1, <2>2, <2>3, <2>4 DEF IInv, TypeOK, poolVars, shutdownVars
<1>3. CASE ContextCancelled(c) \/ ReaderReads(c) \/ ReaderCloses(c)
  BY <1>2, <1>3, StandingIInv DEF ContextCancelled, ReaderReads, ReaderCloses, callVars
<1>4. ASSUME \/ CallReturns(c) \/ StreamStarts(c) \/ PumpChecks(c) \/ PumpReceives(c)
             \/ PumpSends(c) \/ PumpSendsError(c)
      PROVE  /\ at[c] \in Upstream \cup {"loop", "sendingErr"}
             /\ \E p \in Upstream \cup {"loop", "sendingErr", "record"} : at' = [at EXCEPT ![c] = p]
             /\ UNCHANGED <<model, poolVars, shutdownVars, breaker>>
  BY <1>4 DEF CallReturns, StreamStarts, PumpChecks, PumpReceives, PumpSends, PumpSendsError,
     Goto, Upstream
<1>5. CASE \/ CallReturns(c) \/ StreamStarts(c) \/ PumpChecks(c) \/ PumpReceives(c)
           \/ PumpSends(c) \/ PumpSendsError(c)
  <2>1. PICK p \in Upstream \cup {"loop", "sendingErr", "record"} : at' = [at EXCEPT ![c] = p]
    BY <1>4, <1>5
  <2>2. model' = [model EXCEPT ![c] = model[c]] /\ model[c] \in Models
    BY <1>4, <1>5 DEF IInv, TypeOK, ModelKnown, Upstream
  <2>3. /\ at[c] \in Owning /\ p \in Owning /\ p \in Stands /\ p # "idle" /\ p # "queued"
        /\ at[c] \notin {"queued", "recording"}
    BY <1>4, <1>5 DEF Owning, Upstream, Stands
  <2>. QED
    BY <1>2, <1>4, <1>5, <2>1, <2>2, <2>3, QuietMoveIInv DEF poolVars
<1>. QED
  BY <1>3, <1>5

\* A call on its way to the pool, or turned away on it.
LEMMA ApproachIInv ==
  ASSUME IInv, NEW c \in Callers,
         SeesClosed(c) \/ SeesOpen(c) \/ PoolFor(c) \/ PoolRefuses(c)
  PROVE  IInv'
<1>1. PipeCap \in Nat
  BY SchedulerAssumption DEF SchedulerAssumption
<1>2. at[c] \in {"allowed", "open", "pooled"} /\ model[c] \in Models
  BY DEF SeesClosed, SeesOpen, PoolFor, PoolRefuses, IInv, ModelKnown
<1>3. UNCHANGED <<shut, holders, waiting, shutdownVars, breaker>>
  BY DEF SeesClosed, SeesOpen, PoolFor, PoolRefuses, poolVars
<1>4. CASE SeesClosed(c) \/ PoolRefuses(c)
  <2>1. Return(c) /\ UNCHANGED poolVars
    BY <1>4 DEF SeesClosed, PoolRefuses
  <2>2. TypeOK'
    BY <1>1, <1>3, <2>1 DEF IInv, TypeOK, Return, Goto, Stands, poolVars, shutdownVars
  <2>. QED
    BY <1>2, <1>3, <2>1, <2>2, QuietMoveIInv DEF Return, Goto, Stands, Owning, Upstream, poolVars
<1>5. CASE SeesOpen(c) \/ PoolFor(c)
  <2>1. PICK p \in {"open", "pooled"} : at' = [at EXCEPT ![c] = p]
    BY <1>5 DEF SeesOpen, PoolFor, Goto
  <2>2. model' = [model EXCEPT ![c] = model[c]]
    BY <1>5 DEF SeesOpen, PoolFor, IInv, TypeOK
  <2>3. pools \subseteq pools' /\ pools' \subseteq Models /\ UNCHANGED <<model, ctx, end, streamVars>>
    BY <1>2, <1>5 DEF SeesOpen, PoolFor, poolVars, IInv, TypeOK
  <2>4. TypeOK'
    BY <1>3, <2>1, <2>3 DEF IInv, TypeOK, Stands, streamVars, shutdownVars
  <2>. QED
    BY <1>2, <1>3, <2>1, <2>2, <2>3, <2>4, QuietMoveIInv DEF Stands, Owning, Upstream
<1>. QED
  BY <1>4, <1>5

LEMMA NextIInv == IInv /\ [Next]_vars => IInv'
<1>. SUFFICES ASSUME IInv, [Next]_vars
              PROVE  IInv'
  OBVIOUS
<1>1. CASE UNCHANGED vars
  <2>1. TypeOK'
    BY <1>1 DEF IInv, TypeOK, vars, callVars, streamVars, poolVars, shutdownVars
  <2>. QED
    BY <1>1, <2>1, StandingIInv DEF vars, callVars
<1>2. ASSUME NEW c \in Callers, CallStep(c)
      PROVE  IInv'
  <2>1. CASE \E m \in Models : AllowRefuses(c, m)
    BY <1>1, <2>1 DEF AllowRefuses
  <2>2. CASE \E m \in Models : Allow(c, m)
    BY <2>2, AllowIInv
  <2>3. CASE SeesClosed(c) \/ SeesOpen(c) \/ PoolFor(c) \/ PoolRefuses(c)
    BY <2>3, ApproachIInv
  <2>4. CASE PoolAdmits(c)
    BY <2>4, PoolAdmitsIInv
  <2>5. CASE PoolQueues(c)
    BY <2>5, PoolQueuesIInv
  <2>6. CASE QueueGivesUp(c)
    BY <2>6, QueueGivesUpIInv
  <2>7. CASE \/ ContextCancelled(c) \/ CallReturns(c) \/ StreamStarts(c)
             \/ PumpChecks(c) \/ PumpReceives(c) \/ PumpSends(c) \/ PumpSendsError(c)
             \/ ReaderReads(c) \/ ReaderCloses(c)
    BY <2>7, StreamIInv
  <2>8. CASE RecordBegin(c)
    BY <2>8, RecordBeginIInv
  <2>9. CASE RecordEnd(c)
    BY <2>9, RecordEndIInv
  <2>10. CASE Release(c)
    BY <2>10, ReleaseIInv
  <2>. QED
    BY <1>2, <2>1, <2>2, <2>3, <2>4, <2>5, <2>6, <2>7, <2>8, <2>9, <2>10 DEF CallStep
<1>3. ASSUME NEW m \in Models, CloseOne(m)
      PROVE  IInv'
  BY <1>3, CloseOneIInv
<1>4. CASE \/ CloseBegins \/ CloseReturns \/ DrainBegins \/ DrainEnds
           \/ \E m \in Models : DrainOne(m)
  BY <1>4, ShutdownIInv
<1>. QED
  BY <1>1, <1>2, <1>3, <1>4 DEF Next
-----------------------------------------------------------------------------
(***************************************************************************)
(* The invariant holds in every reachable state, for any number of calls.  *)
(***************************************************************************)
THEOREM InductiveInvariant == Spec => []IInv
  BY InitIInv, NextIInv, PTL DEF Spec

(***************************************************************************)
(* Type correctness (breaker.go and scheduler.go): in particular the       *)
(* counters of a breaker stay within its thresholds, whoever records.      *)
(***************************************************************************)
THEOREM TypeCorrect == Spec => []TypeOK
<1>1. IInv => TypeOK
  BY DEF IInv
<1>. QED
  BY InductiveInvariant, <1>1, PTL

(***************************************************************************)
(* Neither a slot nor a place of a half-open breaker is lost on any way a  *)
(* call can end (scheduler.go, pump; breaker.go, Record).                  *)
(***************************************************************************)
THEOREM NothingIsLost == Spec => []NothingLeaks
<1>1. IInv => NothingLeaks
  <2>. SUFFICES ASSUME IInv, NEW m \in Models,
                       breaker[m].state = "halfopen", breaker[m].begun = {}
                PROVE  breaker[m].reqs < MaxRequests
    BY DEF NothingLeaks, HalfOpenNotWedged, IInv
  <2>1. /\ breaker[m].reqs = breaker[m].succ + Cardinality(breaker[m].begun)
        /\ breaker[m].succ < MaxRequests
    BY DEF IInv, PlacesSpent
  <2>2. Cardinality(breaker[m].begun) = 0 /\ breaker[m].succ \in Nat
    BY FS_EmptySet DEF IInv, TypeOK, Breakers
  <2>. QED
    BY <2>1, <2>2
<1>. QED
  BY InductiveInvariant, <1>1, PTL

\* What a step that opens a breaker is: the end of recording a failure.
OpensOnFailure ==
  \A m \in Models :
    breaker[m].state # "open" /\ breaker'[m].state = "open" =>
      \E c \in Callers : /\ at[c] = "recording" /\ at'[c] = "release"
                         /\ model[c] = m /\ end[c] = "failed"

LEMMA BreakerSteps ==
  ASSUME IInv, [Next]_vars
  PROVE  \/ UNCHANGED breaker
         \/ \E c \in Callers : \/ \E m \in Models : Allow(c, m)
                               \/ RecordBegin(c) \/ RecordEnd(c)
  BY DEF Next, CallStep, vars, AllowRefuses, SeesClosed, SeesOpen, PoolFor, PoolRefuses,
     PoolAdmits, PoolQueues, QueueGivesUp, ContextCancelled, CallReturns, StreamStarts,
     PumpChecks, PumpReceives, PumpSends, PumpSendsError, ReaderReads, ReaderCloses, Release,
     CloseOne, DrainOne, CloseBegins, CloseReturns, DrainBegins, DrainEnds

LEMMA NextOpensOnFailure == IInv /\ [Next]_vars => OpensOnFailure
<1>. SUFFICES ASSUME IInv, [Next]_vars, NEW m \in Models,
                     breaker[m].state # "open", breaker'[m].state = "open"
              PROVE  \E c \in Callers : /\ at[c] = "recording" /\ at'[c] = "release"
                                        /\ model[c] = m /\ end[c] = "failed"
  BY DEF OpensOnFailure
<1>1. \A x \in Models : \A b \in Current(breaker[x]) :
         /\ b \in Breakers /\ PlacesSpent(b)
         /\ b.state = "open" => breaker[x].state = "open"
  BY CurrentFacts DEF IInv, TypeOK
<1>2. ASSUME NEW c \in Callers, NEW x \in Models, Allow(c, x)
      PROVE  FALSE
  BY <1>2 DEF Allow, IInv, TypeOK
<1>3. ASSUME NEW c \in Callers, RecordBegin(c)
      PROVE  FALSE
  <2>1. PICK b \in Current(breaker[model[c]]) :
          \/ breaker' = [breaker EXCEPT ![model[c]] = b]
          \/ breaker' = [breaker EXCEPT ![model[c]] =
                [b EXCEPT !.begun = @ \cup {c},
                          !.reqs = IF b.state = "halfopen" THEN @ + 1 ELSE @]]
    BY <1>3 DEF RecordBegin
  <2>2. model[c] \in Models
    BY <1>3 DEF RecordBegin, IInv, ModelKnown
  <2>3. b.state = "open" => breaker[model[c]].state = "open"
    BY <1>1, <2>1, <2>2
  <2>4. b \in Breakers
    BY <1>1, <2>1, <2>2
  <2>5. [b EXCEPT !.begun = @ \cup {c},
                  !.reqs = IF b.state = "halfopen" THEN @ + 1 ELSE @].state = b.state
    BY <2>4 DEF Breakers
  <2>6. CASE m = model[c]
    BY <2>1, <2>3, <2>5, <2>6 DEF IInv, TypeOK
  <2>7. CASE m # model[c]
    BY <2>1, <2>7 DEF IInv, TypeOK
  <2>. QED
    BY <2>6, <2>7
<1>4. ASSUME NEW c \in Callers, RecordEnd(c)
      PROVE  /\ at[c] = "recording" /\ at'[c] = "release"
             /\ model[c] = m /\ end[c] = "failed"
  <2>1. PICK b \in Current(breaker[model[c]]) :
          breaker' = [breaker EXCEPT ![model[c]] =
            IF c \in b.begun THEN Counted([b EXCEPT !.begun = @ \ {c}], end[c]) ELSE b]
    BY <1>4 DEF RecordEnd
  <2>2. /\ at[c] = "recording" /\ at'[c] = "release" /\ model[c] \in Models
        /\ end[c] \in {"none", "ok", "failed", "cancelled", "downstream"}
    BY <1>4 DEF RecordEnd, Goto, IInv, TypeOK, ModelKnown
  <2>3. model[c] = m
    BY <2>1, <2>2 DEF IInv, TypeOK
  <2>4. b.state # "open" /\ b \in Breakers /\ PlacesSpent(b)
    BY <1>1, <2>1, <2>3
  <2>5. c \in b.begun
    BY <2>1, <2>3, <2>4 DEF IInv, TypeOK
  <2>. DEFINE d == [b EXCEPT !.begun = @ \ {c}]
  <2>6. Counted(d, end[c]).state = "open"
    BY <2>1, <2>3, <2>5 DEF IInv, TypeOK
  <2>7. Counted(d, end[c]).state = "open" /\ b.state # "open" => end[c] = "failed"
    BY <2>2, <2>4, <2>5, CountedFacts
  <2>. QED
    BY <2>2, <2>3, <2>4, <2>6, <2>7
<1>. QED
  BY <1>2, <1>3, <1>4, BreakerSteps

(***************************************************************************)
(* Users who stop their answers never trip a breaker (breaker.go, Record). *)
(***************************************************************************)
THEOREM OnlyFailuresOpenIt == Spec => OnlyFailuresTrip
<1>1. IInv /\ [Next]_vars => [OpensOnFailure]_vars
  BY NextOpensOnFailure
<1>2. Spec => [][OpensOnFailure]_vars
  BY InductiveInvariant, <1>1, PTL DEF Spec
<1>. QED
  BY <1>2, PTL DEF OnlyFailuresTrip, OpensOnFailure

\* After Close a step takes no slot of a configured pool.
NoneAdmitted == AfterClose => \A m \in Configured : holders'[m] \subseteq holders[m]

LEMMA NextNoneAdmitted == IInv /\ [Next]_vars => NoneAdmitted
<1>. SUFFICES ASSUME IInv, [Next]_vars, AfterClose, NEW m \in Configured
              PROVE  holders'[m] \subseteq holders[m]
  BY DEF NoneAdmitted
<1>1. m \in shut /\ waiting[m] = {} /\ m \in Models
  BY SchedulerAssumption DEF IInv, CloseInv, AfterClose, SchedulerAssumption
<1>2. \/ UNCHANGED holders
      \/ \E c \in Callers : PoolAdmits(c) \/ Release(c)
  BY DEF Next, CallStep, vars, poolVars, AllowRefuses, Allow, SeesClosed, SeesOpen, PoolFor,
     PoolRefuses, PoolQueues, QueueGivesUp, ContextCancelled, CallReturns, StreamStarts,
     PumpChecks, PumpReceives, PumpSends, PumpSendsError, ReaderReads, ReaderCloses,
     RecordBegin, RecordEnd, CloseOne, DrainOne, CloseBegins, CloseReturns, DrainBegins, DrainEnds
<1>3. ASSUME NEW c \in Callers, PoolAdmits(c)
      PROVE  holders'[m] \subseteq holders[m]
  BY <1>1, <1>3 DEF PoolAdmits, IInv, TypeOK
<1>4. ASSUME NEW c \in Callers, Release(c)
      PROVE  holders'[m] \subseteq holders[m]
  BY <1>1, <1>4 DEF Release, IInv, TypeOK
<1>. QED
  BY <1>2, <1>3, <1>4

(***************************************************************************)
(* After Close nothing gets into a configured pool, and when Drain reports *)
(* it empty it is (scheduler.go, Close and Drain; cmd/server's shutdown).  *)
(***************************************************************************)
THEOREM ShutdownHolds == Spec => CloseHolds
<1>1. IInv => DrainTruthful
  BY DEF IInv, DrainInv
<1>2. IInv /\ [Next]_vars => [NoneAdmitted]_vars
  BY NextNoneAdmitted
<1>3. Spec => []DrainTruthful /\ [][NoneAdmitted]_vars
  BY InductiveInvariant, <1>1, <1>2, PTL DEF Spec
<1>. QED
  BY <1>3, PTL DEF CloseHolds, NoAdmissionAfterClose, NoneAdmitted
=============================================================================
