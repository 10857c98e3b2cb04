-------------------------- MODULE AgentTurnProofs --------------------------
(***************************************************************************)
(* Proofs about the turns of an Agent, for any number of turns, tools and  *)
(* calls, and for any limits.                                              *)
(***************************************************************************)
EXTENDS AgentTurn, FiniteSets, FiniteSetTheorems, TLAPS

\* How often one call may execute its handler (runWithRetry).
PerCall(x) == IF x \in Idempotent THEN MaxAttempts ELSE 1

\* The calls of a tool that have been executed and are not counted yet, or never
\* will be because they end the turn; and their executions.
Exposed(x) == {i \in DOMAIN calls : calls[i].tool = x /\ calls[i].at \in {"running", "raised"}}
Tries(x) == {p \in (DOMAIN calls) \X (1 .. PerCall(x)) :
               p[1] \in Exposed(x) /\ p[2] <= calls[p[1]].tries}

\* Only a Stream streams, and what a turn has counted is gone with it.
StatusInv == /\ \A t \in Turns : status[t] = "streaming" => mode = "stream"
             /\ (\A t \in Turns : ~Active(t)) => made = 0

\* There are calls only while they are asked for or run.
CallsInv == /\ calls # <<>> => \E t \in Turns : status[t] \in {"requested", "acting"}
            /\ \A t \in Turns : status[t] = "requested" =>
                 \A i \in DOMAIN calls : calls[i].at = "requested"
            /\ \A i \in DOMAIN calls : /\ calls[i].at = "requested" => calls[i].tries = 0
                                       /\ calls[i].tries <= PerCall(calls[i].tool)

\* The question of a turn comes with an error that ends it.
AskedInv == asked => \E i \in DOMAIN calls : calls[i].at = "raised"

\* An execution is of a call the guard has counted, or of an exposed one; and the
\* guard lets no call of a tool through when it has counted Threshold of them.
EffectsInv == \A x \in Tools :
  /\ ran[x] <= PerCall(x) * hits[x] + Cardinality(Tries(x))
  /\ hits[x] + Cardinality(Exposed(x)) <= Threshold - 1 + Parallel

IInv == TypeOK /\ BudgetIsOwn /\ StatusInv /\ CallsInv /\ AskedInv /\ EffectsInv
-----------------------------------------------------------------------------
LEMMA PerCallNat == \A x : PerCall(x) \in Nat \ {0} /\ PerCall(x) <= MaxAttempts
  BY AgentAssumption DEF AgentAssumption, PerCall

\* A call that is not exposed leaves room for one more.
LEMMA Finite ==
  ASSUME TypeOK, NEW x \in Tools
  PROVE  /\ IsFiniteSet(Exposed(x)) /\ IsFiniteSet(Tries(x))
         /\ Cardinality(Exposed(x)) \in Nat /\ Cardinality(Tries(x)) \in Nat
         /\ Cardinality(Exposed(x)) <= Parallel
         /\ \A i \in (DOMAIN calls) \ Exposed(x) : Cardinality(Exposed(x)) <= Parallel - 1
         /\ Cardinality(Tries(x)) <= Cardinality(Exposed(x)) * PerCall(x)
<1>1. /\ IsFiniteSet(DOMAIN calls) /\ Cardinality(DOMAIN calls) \in Nat
      /\ Cardinality(DOMAIN calls) <= Parallel /\ Parallel \in Nat
  <2>1. DOMAIN calls = 1 .. Len(calls) /\ Len(calls) \in Nat /\ Len(calls) <= Parallel
    BY DEF TypeOK
  <2>2. \A n \in Nat : IsFiniteSet(1 .. n) /\ Cardinality(1 .. n) = n
    BY FS_Interval
  <2>. QED
    BY <2>1, <2>2, AgentAssumption DEF AgentAssumption
<1>2. Exposed(x) \subseteq DOMAIN calls
  BY DEF Exposed
<1>3. /\ IsFiniteSet(Exposed(x)) /\ Cardinality(Exposed(x)) \in Nat
      /\ Cardinality(Exposed(x)) <= Cardinality(DOMAIN calls)
  BY <1>1, <1>2, FS_Subset, FS_CardinalityType
<1>4. \A i \in (DOMAIN calls) \ Exposed(x) : Cardinality(Exposed(x)) <= Parallel - 1
  <2>1. SUFFICES ASSUME NEW i \in (DOMAIN calls) \ Exposed(x)
                 PROVE  Cardinality(Exposed(x)) <= Parallel - 1
    OBVIOUS
  <2>2. /\ IsFiniteSet((DOMAIN calls) \ {i})
        /\ Cardinality((DOMAIN calls) \ {i}) = Cardinality(DOMAIN calls) - 1
    BY <1>1, <2>1, FS_RemoveElement
  <2>3. Exposed(x) \subseteq (DOMAIN calls) \ {i}
    BY <1>2, <2>1
  <2>4. Cardinality(Exposed(x)) <= Cardinality((DOMAIN calls) \ {i})
    BY <2>2, <2>3, FS_Subset
  <2>. QED
    BY <1>1, <1>3, <2>2, <2>4
<1>5. /\ IsFiniteSet(1 .. PerCall(x)) /\ Cardinality(1 .. PerCall(x)) = PerCall(x)
  BY PerCallNat, FS_Interval
<1>6. /\ IsFiniteSet(Exposed(x) \X (1 .. PerCall(x)))
      /\ Cardinality(Exposed(x) \X (1 .. PerCall(x))) = Cardinality(Exposed(x)) * PerCall(x)
  BY <1>3, <1>5, FS_Product
<1>7. Tries(x) \subseteq Exposed(x) \X (1 .. PerCall(x))
  BY DEF Tries
<1>8. /\ IsFiniteSet(Tries(x)) /\ Cardinality(Tries(x)) \in Nat
      /\ Cardinality(Tries(x)) <= Cardinality(Exposed(x)) * PerCall(x)
  BY <1>6, <1>7, FS_Subset, FS_CardinalityType
<1>. QED
  BY <1>1, <1>3, <1>4, <1>8
-----------------------------------------------------------------------------
(* EffectsInv when the calls stay as they are, and when none is exposed *)

LEMMA EffectsStay ==
  ASSUME EffectsInv, UNCHANGED <<calls, hits, ran>>
  PROVE  EffectsInv'
<1>1. \A x : Exposed(x)' = Exposed(x)
  BY DEF Exposed
<1>2. \A x : Tries(x)' = Tries(x)
  BY <1>1 DEF Tries
<1>. QED
  BY <1>1, <1>2 DEF EffectsInv

LEMMA NoneExposed ==
  ASSUME \A i \in DOMAIN calls' : calls'[i].at \notin {"running", "raised"},
         \A x \in Tools : /\ hits'[x] \in Nat /\ ran'[x] \in Nat
                          /\ ran'[x] <= PerCall(x) * hits'[x]
                          /\ hits'[x] <= Threshold - 1 + Parallel
  PROVE  EffectsInv'
<1>1. \A x \in Tools : Exposed(x)' = {}
  BY DEF Exposed
<1>2. \A x \in Tools : Tries(x)' = {}
  BY <1>1 DEF Tries
<1>3. \A x \in Tools : Cardinality(Exposed(x)') = 0 /\ Cardinality(Tries(x)') = 0
  BY <1>1, <1>2, FS_EmptySet
<1>4. \A x \in Tools : PerCall(x) * hits'[x] \in Nat
  BY PerCallNat
<1>5. Threshold - 1 + Parallel \in Nat
  BY AgentAssumption DEF AgentAssumption
<1>. QED
  BY <1>3, <1>4, <1>5 DEF EffectsInv

\* The bound on a tool's executions is what the guard and the exposed calls leave.
LEMMA Bounded ==
  ASSUME TypeOK, EffectsInv
  PROVE  EffectsBounded
<1>. SUFFICES ASSUME NEW x \in Tools
              PROVE  ran[x] <= (Threshold - 1 + Parallel) * PerCall(x)
  BY DEF EffectsBounded, PerCall
<1>. DEFINE p == PerCall(x)
            e == Cardinality(Exposed(x))
            r == Cardinality(Tries(x))
            b == Threshold - 1 + Parallel
<1>1. /\ p \in Nat /\ e \in Nat /\ r \in Nat /\ hits[x] \in Nat /\ ran[x] \in Nat /\ b \in Nat
      /\ r <= e * p
  <2>1. p \in Nat
    BY PerCallNat
  <2>2. e \in Nat /\ r \in Nat /\ r <= e * p
    BY Finite
  <2>3. hits[x] \in Nat /\ ran[x] \in Nat
    BY DEF TypeOK
  <2>4. b \in Nat
    BY AgentAssumption DEF AgentAssumption
  <2>. QED
    BY <2>1, <2>2, <2>3, <2>4
<1>2. ran[x] <= p * hits[x] + r /\ hits[x] + e <= b
  BY DEF EffectsInv
<1>. HIDE DEF p, e, r, b
<1>3. ran[x] <= p * hits[x] + e * p
  BY <1>1, <1>2
<1>4. p * hits[x] + e * p = (hits[x] + e) * p
  BY <1>1
<1>5. \A m, n, k \in Nat : m <= n => m * k <= n * k
  OBVIOUS
<1>6. hits[x] + e \in Nat
  BY <1>1
<1>7. (hits[x] + e) * p <= b * p
  BY <1>1, <1>2, <1>5, <1>6
<1>8. (hits[x] + e) * p \in Nat /\ b * p \in Nat
  BY <1>1, <1>6
<1>9. ran[x] <= b * p
  BY <1>1, <1>3, <1>4, <1>7, <1>8
<1>. QED
  BY <1>9 DEF b, p
-----------------------------------------------------------------------------
(* Steps that do not touch the tool calls *)

\* What the types say of one turn.
LEMMA TurnTypes ==
  ASSUME TypeOK, NEW t \in Turns
  PROVE  /\ status[t] \in {"waiting", "thinking", "calling", "streaming", "requested",
                           "acting", "ended"}
         /\ \A u \in Turns \ {t} : Active(t) => ~Active(u)
         /\ tokens \in Nat /\ used \in Nat /\ made \in Nat
  BY DEF TypeOK

\* Clients, timers and the breaker's own clock.
LEMMA EnvironmentIInv ==
  ASSUME IInv, ctx' \in {"live", "cancelled", "deadline"}, overdue' \in BOOLEAN,
         strikes' \in 0 .. FailureThreshold,
         UNCHANGED <<status, outcome, mode, budget, nodes, link, calls, hits, asked, history>>
  PROVE  IInv'
<1>1. TypeOK'
  BY DEF IInv, TypeOK, budget, history, Active
<1>2. BudgetIsOwn' /\ StatusInv' /\ CallsInv' /\ AskedInv'
  BY DEF IInv, BudgetIsOwn, StatusInv, CallsInv, AskedInv, budget, history, Active
<1>3. EffectsInv'
  BY EffectsStay DEF IInv, history
<1>. QED
  BY <1>1, <1>2, <1>3 DEF IInv

\* How a turn may end that has begun.
Endings == {"answered", "asked", "cancelled", "failed", "budget", "steps"}

\* The turn returns: everything it has counted goes with it, the budget aside.
LEMMA EndIInv ==
  ASSUME IInv, NEW t \in Turns, Active(t), NEW err \in Endings, End(t, err),
         UNCHANGED steps, tokens' \in Nat, used' \in Nat
  PROVE  IInv'
<1>1. \A u \in Turns : status'[u] = IF u = t THEN "ended" ELSE status[u]
  BY DEF IInv, TypeOK, End
<1>2. \A u \in Turns : u # t => ~Active(u)
  BY DEF IInv, TypeOK
<1>3. \A u \in Turns : ~Active(u)'
  BY <1>1, <1>2 DEF Active
<1>4. TurnErr(t, err) \in Endings \cup {"timeout"}
  BY DEF TurnErr
<1>5. strikes' \in 0 .. FailureThreshold
  BY AgentAssumption DEF AgentAssumption, IInv, TypeOK, End, Count, Open
<1>6. TypeOK'
  <2>1. /\ status' \in [Turns -> {"waiting", "thinking", "calling", "streaming", "requested",
                                  "acting", "ended"}]
        /\ outcome' \in [Turns -> {"none", "answered", "asked", "cancelled", "failed", "timeout",
                                   "budget", "steps", "refused"}]
    BY <1>4 DEF IInv, TypeOK, End, Endings
  <2>2. /\ mode' \in {"run", "stream"} /\ ctx' \in {"live", "cancelled", "deadline"}
        /\ steps' \in 0 .. MaxSteps /\ nodes' \in 0 .. MaxSteps
        /\ link' \in 0 .. LastLink /\ overdue' \in BOOLEAN
        /\ hits' \in [Tools -> Nat] /\ asked' \in BOOLEAN /\ made' \in Nat
        /\ ran' \in [Tools -> Nat]
    <3>1. NoHits \in [Tools -> Nat]
      BY DEF NoHits
    <3>2. steps' \in 0 .. MaxSteps
      BY DEF IInv, TypeOK
    <3>3. 0 \in 0 .. MaxSteps /\ 0 \in 0 .. LastLink
      BY AgentAssumption DEF AgentAssumption, LastLink
    <3>. QED
      BY <3>1, <3>2, <3>3 DEF End
  <2>3. calls' \in Seq(Call) /\ Len(calls') <= Parallel
    BY AgentAssumption DEF AgentAssumption, End
  <2>4. \A u \in Turns : outcome'[u] = "none" <=> status'[u] # "ended"
    BY <1>1, <1>4 DEF IInv, TypeOK, End, Endings
  <2>5. \A u \in Turns : /\ status'[u] = "calling" => link' > 0
                         /\ status'[u] \in {"requested", "acting"} => calls' # <<>>
    BY <1>3 DEF Active
  <2>. QED
    BY <1>3, <1>5, <2>1, <2>2, <2>3, <2>4, <2>5 DEF TypeOK
<1>7. BudgetIsOwn' /\ StatusInv'
  BY <1>3 DEF BudgetIsOwn, StatusInv, End, Active
<1>8. CallsInv' /\ AskedInv'
  <2>1. calls' = <<>> /\ ~asked'
    BY DEF End
  <2>2. DOMAIN calls' = {}
    BY <2>1
  <2>. QED
    BY <1>3, <2>1, <2>2 DEF CallsInv, AskedInv, Active
<1>9. EffectsInv'
  <2>1. calls' = <<>> /\ hits' = NoHits /\ ran' = NoHits
    BY DEF End
  <2>2. DOMAIN calls' = {}
    BY <2>1
  <2>3. \A x \in Tools : hits'[x] = 0 /\ ran'[x] = 0 /\ PerCall(x) * 0 = 0
    BY <2>1, PerCallNat DEF NoHits
  <2>. QED
    BY <2>2, <2>3, NoneExposed, AgentAssumption DEF AgentAssumption
<1>. QED
  BY <1>6, <1>7, <1>8, <1>9 DEF IInv

\* Only one turn is active: what holds of another one holds of none.
LEMMA OnlyOne ==
  ASSUME TypeOK, NEW t \in Turns, Active(t), NEW u \in Turns, u # t
  PROVE  status[u] \in {"waiting", "ended"}
  BY DEF TypeOK, Active

LEMMA RefuseIInv ==
  ASSUME IInv, NEW t \in Turns, Refuse(t)
  PROVE  IInv'
<1>1. /\ \A u \in Turns : status'[u] = IF u = t THEN "ended" ELSE status[u]
      /\ \A u \in Turns : outcome'[u] = IF u = t THEN "refused" ELSE outcome[u]
      /\ status[t] = "waiting" /\ \A u \in Turns : ~Active(u)
      /\ UNCHANGED <<mode, ctx, strikes, budget, nodes, model, calls, hits, asked, history>>
  BY DEF IInv, TypeOK, Refuse, MayBegin
<1>2. \A u \in Turns : ~Active(u)'
  BY <1>1 DEF Active
<1>3. TypeOK'
  <2>1. /\ status' \in [Turns -> {"waiting", "thinking", "calling", "streaming", "requested",
                                  "acting", "ended"}]
        /\ outcome' \in [Turns -> {"none", "answered", "asked", "cancelled", "failed", "timeout",
                                   "budget", "steps", "refused"}]
    BY DEF IInv, TypeOK, Refuse
  <2>. QED
    BY <1>1, <1>2, <2>1 DEF IInv, TypeOK, Active, budget, model, history
<1>4. calls = <<>>
  BY <1>1 DEF IInv, CallsInv, Active
<1>5. BudgetIsOwn' /\ StatusInv' /\ CallsInv' /\ AskedInv'
  BY <1>1, <1>2, <1>4 DEF IInv, BudgetIsOwn, StatusInv, CallsInv, AskedInv, Active, history
<1>6. EffectsInv'
  BY <1>1, EffectsStay DEF IInv, history
<1>. QED
  BY <1>3, <1>5, <1>6 DEF IInv

LEMMA BeginIInv ==
  ASSUME IInv, NEW t \in Turns, Begin(t)
  PROVE  IInv'
<1>1. /\ status' = [status EXCEPT ![t] = "thinking"] /\ status[t] = "waiting"
      /\ \A u \in Turns : status'[u] = IF u = t THEN "thinking" ELSE status[u]
      /\ \A u \in Turns : ~Active(u)
      /\ mode' \in {"run", "stream"} /\ ctx' \in {"live", "cancelled"}
      /\ steps' = 0 /\ tokens' = 0 /\ used' = 0
      /\ UNCHANGED <<outcome, strikes, nodes, model, calls, hits, asked, made, ran>>
  BY DEF IInv, TypeOK, Begin, MayBegin
<1>2. \A u \in Turns : Active(u)' <=> u = t
  BY <1>1 DEF Active
<1>3. made = 0
  BY <1>1 DEF IInv, StatusInv
<1>4. calls = <<>>
  BY <1>1 DEF IInv, CallsInv, Active
<1>5. TypeOK'
  BY <1>1, <1>2, <1>4, AgentAssumption DEF AgentAssumption, IInv, TypeOK, model, Active
<1>6. BudgetIsOwn' /\ StatusInv' /\ CallsInv' /\ AskedInv'
  BY <1>1, <1>2, <1>3, <1>4 DEF IInv, BudgetIsOwn, StatusInv, CallsInv, AskedInv, Active
<1>7. EffectsInv'
  BY <1>1, EffectsStay DEF IInv
<1>. QED
  BY <1>5, <1>6, <1>7 DEF IInv

LEMMA CallModelIInv ==
  ASSUME IInv, NEW t \in Turns, CallModel(t)
  PROVE  IInv'
<1>1. /\ status' = [status EXCEPT ![t] = "calling"] /\ status[t] = "thinking" /\ Active(t)
      /\ \A u \in Turns : status'[u] = IF u = t THEN "calling" ELSE status[u]
      /\ steps < MaxSteps /\ steps' = steps + 1 /\ made' = made + 1
      /\ nodes < MaxSteps /\ nodes' = nodes + 1 /\ link' = 1 /\ overdue' = FALSE
      /\ UNCHANGED <<outcome, strikes, mode, ctx, tokens, calls, hits, asked, used, ran>>
  BY DEF IInv, TypeOK, CallModel, Goto, Active
<1>2. \A u \in Turns : u # t => status[u] \in {"waiting", "ended"}
  BY <1>1, OnlyOne DEF IInv
<1>3. calls = <<>>
  BY <1>1, <1>2 DEF IInv, CallsInv
<1>4. TypeOK'
  <2>1. /\ steps' \in 0 .. MaxSteps /\ nodes' \in 0 .. MaxSteps
        /\ link' \in 0 .. LastLink /\ link' > 0 /\ made' \in Nat
    BY <1>1, AgentAssumption DEF AgentAssumption, IInv, TypeOK, LastLink
  <2>. QED
    BY <1>1, <1>2, <1>3, <2>1 DEF IInv, TypeOK, Active
<1>5. BudgetIsOwn' /\ StatusInv'
  BY <1>1, <1>2 DEF IInv, BudgetIsOwn, StatusInv, Active
<1>6. CallsInv' /\ AskedInv'
  BY <1>1, <1>2, <1>3 DEF IInv, CallsInv, AskedInv
<1>7. EffectsInv'
  BY <1>1, EffectsStay DEF IInv
<1>. QED
  BY <1>4, <1>5, <1>6, <1>7 DEF IInv

LEMMA StartToolsIInv ==
  ASSUME IInv, NEW t \in Turns, StartTools(t)
  PROVE  IInv'
<1>1. /\ status' = [status EXCEPT ![t] = "acting"] /\ status[t] = "requested" /\ Active(t)
      /\ \A u \in Turns : status'[u] = IF u = t THEN "acting" ELSE status[u]
      /\ nodes < MaxSteps /\ nodes' = nodes + 1
      /\ UNCHANGED <<outcome, strikes, mode, ctx, budget, model, calls, hits, asked, history>>
  BY DEF IInv, TypeOK, StartTools, Goto, Active
<1>2. \A u \in Turns : u # t => status[u] \in {"waiting", "ended"}
  BY <1>1, OnlyOne DEF IInv
<1>3. TypeOK'
  <2>1. nodes' \in 0 .. MaxSteps
    BY <1>1, AgentAssumption DEF AgentAssumption, IInv, TypeOK
  <2>. QED
    BY <1>1, <1>2, <2>1 DEF IInv, TypeOK, Active, budget, model, history
<1>4. BudgetIsOwn' /\ StatusInv'
  BY <1>1, <1>2 DEF IInv, BudgetIsOwn, StatusInv, Active, budget, history
<1>5. CallsInv' /\ AskedInv'
  BY <1>1, <1>2 DEF IInv, CallsInv, AskedInv
<1>6. EffectsInv'
  BY <1>1, EffectsStay DEF IInv, history
<1>. QED
  BY <1>3, <1>4, <1>5, <1>6 DEF IInv

LEMMA StreamOpensIInv ==
  ASSUME IInv, NEW t \in Turns, StreamOpens(t)
  PROVE  IInv'
<1>1. /\ status' = [status EXCEPT ![t] = "streaming"] /\ status[t] = "calling" /\ Active(t)
      /\ \A u \in Turns : status'[u] = IF u = t THEN "streaming" ELSE status[u]
      /\ mode = "stream" /\ link' = 0
      /\ UNCHANGED <<outcome, strikes, mode, ctx, budget, nodes, overdue, calls, hits, asked,
                     history>>
  BY DEF IInv, TypeOK, StreamOpens, Goto, Active
<1>2. \A u \in Turns : u # t => status[u] \in {"waiting", "ended"}
  BY <1>1, OnlyOne DEF IInv
<1>3. TypeOK'
  <2>1. link' \in 0 .. LastLink
    BY <1>1, AgentAssumption DEF AgentAssumption, LastLink
  <2>. QED
    BY <1>1, <1>2, <2>1 DEF IInv, TypeOK, Active, budget, history
<1>4. BudgetIsOwn' /\ StatusInv'
  BY <1>1, <1>2 DEF IInv, BudgetIsOwn, StatusInv, Active, budget, history
<1>5. CallsInv' /\ AskedInv'
  BY <1>1, <1>2 DEF IInv, CallsInv, AskedInv
<1>6. EffectsInv'
  BY <1>1, EffectsStay DEF IInv, history
<1>. QED
  BY <1>3, <1>4, <1>5, <1>6 DEF IInv

\* The chain goes on to its next model, or the turn fails.
LEMMA ModelFailsIInv ==
  ASSUME IInv, NEW t \in Turns, ModelFails(t)
  PROVE  IInv'
<1>1. status[t] = "calling" /\ Active(t) /\ UNCHANGED <<budget, used>>
  BY DEF ModelFails, Active
<1>2. CASE End(t, Interrupted(t, "failed")) \/ End(t, "failed")
  <2>1. {"failed", Interrupted(t, "failed")} \subseteq Endings
    BY DEF Interrupted, Endings
  <2>. QED
    BY <1>1, <1>2, <2>1, EndIInv, TurnTypes DEF IInv, budget
<1>3. CASE /\ link < LastLink /\ link' = link + 1
           /\ UNCHANGED <<status, outcome, mode, ctx, strikes, overdue, nodes, calls, hits,
                          asked, made, ran>>
  <2>1. link' \in 0 .. LastLink /\ link' > 0
    BY <1>3, AgentAssumption DEF AgentAssumption, IInv, TypeOK, LastLink
  <2>2. TypeOK'
    BY <1>1, <1>3, <2>1 DEF IInv, TypeOK, Active, budget
  <2>3. BudgetIsOwn' /\ StatusInv' /\ CallsInv' /\ AskedInv'
    BY <1>1, <1>3 DEF IInv, BudgetIsOwn, StatusInv, CallsInv, AskedInv, Active, budget
  <2>4. EffectsInv'
    BY <1>3, EffectsStay DEF IInv
  <2>. QED
    BY <2>2, <2>3, <2>4 DEF IInv
<1>. QED
  BY <1>2, <1>3 DEF ModelFails

\* What else ends a turn, or may.
LEMMA EndsIInv ==
  ASSUME IInv, NEW t \in Turns, GraphStops(t) \/ BudgetRefuses(t) \/ StreamBreaks(t)
  PROVE  IInv'
<1>1. Active(t) /\ UNCHANGED <<budget, used>>
  BY DEF GraphStops, BudgetRefuses, StreamBreaks, Active
<1>2. \E err \in {"steps", "budget", Interrupted(t, "failed")} : End(t, err)
  BY DEF GraphStops, BudgetRefuses, StreamBreaks
<1>3. {"steps", "budget", Interrupted(t, "failed")} \subseteq Endings
  BY DEF Interrupted, Endings
<1>. QED
  BY <1>1, <1>2, <1>3, EndIInv, TurnTypes DEF IInv, budget

LEMMA AnswersIInv ==
  ASSUME IInv, NEW t \in Turns, NEW u \in Usages, ModelAnswers(t, u) \/ StreamEnds(t, u)
  PROVE  IInv'
<1>1. /\ Active(t) /\ UNCHANGED steps
      /\ used' = used + u /\ tokens' = tokens + u
  BY DEF ModelAnswers, StreamEnds, Settle, Active
<1>2. used' \in Nat /\ tokens' \in Nat
  BY <1>1, TurnTypes, AgentAssumption DEF IInv, AgentAssumption
<1>3. \E err \in {"answered", "budget"} : End(t, err)
  BY DEF ModelAnswers, StreamEnds
<1>. QED
  BY <1>1, <1>2, <1>3, EndIInv DEF Endings

LEMMA ModelRequestsIInv ==
  ASSUME IInv, NEW t \in Turns, NEW u \in Usages, NEW req \in Requests,
         ModelRequests(t, u, req)
  PROVE  IInv'
<1>1. /\ status[t] = "calling" /\ Active(t) /\ UNCHANGED steps /\ used' = used + u
      /\ mode = "run" => tokens' = tokens + u
      /\ mode # "run" => tokens' = tokens
  BY DEF ModelRequests, Settle, Active
<1>2. used' \in Nat /\ tokens' \in Nat
  BY <1>1, TurnTypes, AgentAssumption DEF IInv, AgentAssumption
<1>3. CASE End(t, "budget")
  BY <1>1, <1>2, <1>3, EndIInv DEF Endings
<1>4. CASE /\ Goto(t, "requested") /\ link' = 0 /\ overdue' = FALSE /\ calls' = ToCalls(req)
           /\ UNCHANGED <<mode, ctx, nodes, hits, asked, made, ran>>
  <2>1. /\ status' = [status EXCEPT ![t] = "requested"] /\ UNCHANGED <<outcome, strikes>>
        /\ \A v \in Turns : status'[v] = IF v = t THEN "requested" ELSE status[v]
    BY <1>4 DEF IInv, TypeOK, Goto
  <2>2. \A v \in Turns : v # t => status[v] \in {"waiting", "ended"}
    BY <1>1, OnlyOne DEF IInv
  <2>3. calls = <<>>
    BY <1>1, <2>2 DEF IInv, CallsInv
  <2>4. PICK n \in 1 .. Parallel : req \in [1 .. n -> Tools]
    BY DEF Requests
  <2>5. /\ calls' = [i \in 1 .. n |-> [tool |-> req[i], at |-> "requested", tries |-> 0]]
        /\ n \in Nat \ {0} /\ n <= Parallel
    BY <1>4, <2>4, AgentAssumption DEF AgentAssumption, ToCalls
  <2>6. \A i \in 1 .. n : [tool |-> req[i], at |-> "requested", tries |-> 0] \in Call
    BY <2>4, AgentAssumption DEF AgentAssumption, Call
  <2>7. /\ calls' \in Seq(Call) /\ Len(calls') = n /\ DOMAIN calls' = 1 .. n
        /\ \A i \in DOMAIN calls' : calls'[i].at = "requested" /\ calls'[i].tries = 0
    BY <2>5, <2>6
  <2>8. calls' # <<>> /\ Len(calls') <= Parallel
    BY <2>5, <2>7
  <2>9. TypeOK'
    <3>1. link' \in 0 .. LastLink
      BY <1>4, AgentAssumption DEF AgentAssumption, LastLink
    <3>. QED
      BY <1>1, <1>2, <1>4, <2>1, <2>2, <2>7, <2>8, <3>1 DEF IInv, TypeOK, Active
  <2>10. BudgetIsOwn' /\ StatusInv'
    BY <1>1, <1>4, <2>1, <2>2 DEF IInv, BudgetIsOwn, StatusInv, Active
  <2>11. CallsInv'
    BY <2>1, <2>2, <2>7, PerCallNat DEF CallsInv
  <2>12. AskedInv'
    BY <1>4, <2>3 DEF IInv, AskedInv
  <2>13. EffectsInv'
    <3>1. \A x \in Tools : Exposed(x) = {} /\ Tries(x) = {}
      BY <2>3 DEF Exposed, Tries
    <3>2. \A x \in Tools : Cardinality(Exposed(x)) = 0 /\ Cardinality(Tries(x)) = 0
      BY <3>1, FS_EmptySet
    <3>3. \A x \in Tools : /\ hits[x] \in Nat /\ ran[x] \in Nat
                           /\ PerCall(x) * hits[x] \in Nat
      BY PerCallNat DEF IInv, TypeOK
    <3>4. \A x \in Tools : /\ ran[x] <= PerCall(x) * hits[x]
                           /\ hits[x] <= Threshold - 1 + Parallel
      BY <3>2, <3>3 DEF IInv, EffectsInv
    <3>. QED
      BY <1>4, <2>7, <3>3, <3>4, NoneExposed
  <2>. QED
    BY <2>9, <2>10, <2>11, <2>12, <2>13 DEF IInv
<1>. QED
  BY <1>3, <1>4 DEF ModelRequests

\* All the calls are in: the turn ends with an error, or asks the model again.
LEMMA ToolsEndIInv ==
  ASSUME IInv, NEW t \in Turns, ToolsEnd(t)
  PROVE  IInv'
<1>1. status[t] = "acting" /\ Active(t) /\ UNCHANGED <<budget, used>>
  BY DEF ToolsEnd, Active
<1>2. CASE End(t, IF asked THEN "asked" ELSE Interrupted(t, "failed"))
  <2>1. (IF asked THEN "asked" ELSE Interrupted(t, "failed")) \in Endings
    BY DEF Interrupted, Endings
  <2>. QED
    BY <1>1, <1>2, <2>1, EndIInv, TurnTypes DEF IInv, budget
<1>3. CASE /\ \A i \in DOMAIN calls : calls[i].at = "done"
           /\ Goto(t, "thinking") /\ calls' = <<>>
           /\ UNCHANGED <<mode, ctx, model, nodes, hits, asked, made, ran>>
  <2>1. /\ status' = [status EXCEPT ![t] = "thinking"] /\ UNCHANGED <<outcome, strikes>>
        /\ \A v \in Turns : status'[v] = IF v = t THEN "thinking" ELSE status[v]
    BY <1>3 DEF IInv, TypeOK, Goto
  <2>2. \A v \in Turns : v # t => status[v] \in {"waiting", "ended"}
    BY <1>1, OnlyOne DEF IInv
  <2>3. ~asked
    BY <1>3 DEF IInv, AskedInv
  <2>4. TypeOK'
    <3>1. calls' \in Seq(Call) /\ Len(calls') <= Parallel
      BY <1>3, AgentAssumption DEF AgentAssumption
    <3>. QED
      BY <1>1, <1>3, <2>1, <2>2, <3>1 DEF IInv, TypeOK, Active, model, budget
  <2>5. BudgetIsOwn' /\ StatusInv'
    BY <1>1, <1>3, <2>1, <2>2 DEF IInv, BudgetIsOwn, StatusInv, Active, budget
  <2>6. CallsInv' /\ AskedInv'
    <3>1. DOMAIN calls' = {}
      BY <1>3
    <3>. QED
      BY <1>3, <2>3, <3>1 DEF CallsInv, AskedInv
  <2>7. EffectsInv'
    <3>1. \A x \in Tools : Exposed(x) = {}
      BY <1>3 DEF Exposed
    <3>2. \A x \in Tools : Tries(x) = {}
      BY <3>1 DEF Tries
    <3>3. \A x \in Tools : Cardinality(Exposed(x)) = 0 /\ Cardinality(Tries(x)) = 0
      BY <3>1, <3>2, FS_EmptySet
    <3>4. \A x \in Tools : /\ hits[x] \in Nat /\ ran[x] \in Nat
                           /\ PerCall(x) * hits[x] \in Nat
      BY PerCallNat DEF IInv, TypeOK
    <3>5. \A x \in Tools : /\ ran[x] <= PerCall(x) * hits[x]
                           /\ hits[x] <= Threshold - 1 + Parallel
      BY <3>3, <3>4 DEF IInv, EffectsInv
    <3>6. DOMAIN calls' = {}
      BY <1>3
    <3>. QED
      BY <1>3, <3>4, <3>5, <3>6, NoneExposed
  <2>. QED
    BY <2>4, <2>5, <2>6, <2>7 DEF IInv
<1>. QED
  BY <1>2, <1>3 DEF ToolsEnd
-----------------------------------------------------------------------------
(* Steps of one tool call *)

\* A step of call i changes its place and its tries, and nothing of the others.
CallStep(i) ==
  /\ calls' \in Seq(Call) /\ Len(calls') = Len(calls) /\ DOMAIN calls' = DOMAIN calls
  /\ \A j \in DOMAIN calls : calls'[j].tool = calls[j].tool
  /\ \A j \in (DOMAIN calls) \ {i} : calls'[j] = calls[j]

LEMMA CallFacts ==
  ASSUME TypeOK, NEW i \in DOMAIN calls
  PROVE  /\ calls[i] \in Call /\ calls[i].tool \in Tools
         /\ calls[i].at \in {"requested", "running", "done", "raised"}
         /\ calls[i].tries \in 0 .. MaxAttempts
<1>1. calls[i] \in Call
  BY DEF TypeOK
<1>. QED
  BY <1>1 DEF Call

LEMMA SetFacts ==
  ASSUME TypeOK, NEW i \in DOMAIN calls, NEW a \in {"done", "raised"}, Set(i, a)
  PROVE  CallStep(i) /\ calls'[i].at = a /\ calls'[i].tries = calls[i].tries
<1>1. calls \in Seq(Call) /\ calls[i] \in Call
  BY CallFacts DEF TypeOK
<1>2. [calls[i] EXCEPT !.at = a] \in Call
  BY <1>1 DEF Call
<1>3. calls' = [calls EXCEPT ![i] = [calls[i] EXCEPT !.at = a]]
  BY DEF Set
<1>4. calls' \in Seq(Call) /\ Len(calls') = Len(calls) /\ DOMAIN calls' = DOMAIN calls
  BY <1>1, <1>2, <1>3
<1>5. /\ calls'[i] = [calls[i] EXCEPT !.at = a]
      /\ \A j \in (DOMAIN calls) \ {i} : calls'[j] = calls[j]
  BY <1>1, <1>3
<1>6. /\ calls'[i].at = a /\ calls'[i].tries = calls[i].tries
      /\ calls'[i].tool = calls[i].tool
  BY <1>1, <1>5 DEF Call
<1>. QED
  BY <1>4, <1>5, <1>6 DEF CallStep

LEMMA ExecuteFacts ==
  ASSUME TypeOK, NEW i \in DOMAIN calls, calls[i].tries < MaxAttempts, Execute(i)
  PROVE  /\ CallStep(i) /\ calls'[i].at = "running" /\ calls'[i].tries = calls[i].tries + 1
         /\ ran' \in [Tools -> Nat]
         /\ \A x \in Tools : ran'[x] = IF x = calls[i].tool THEN ran[x] + 1 ELSE ran[x]
<1>. DEFINE c == [calls[i] EXCEPT !.at = "running", !.tries = @ + 1]
<1>1. /\ calls \in Seq(Call) /\ calls[i] \in Call /\ calls[i].tool \in Tools
      /\ calls[i].tries \in 0 .. MaxAttempts
  BY CallFacts DEF TypeOK
<1>2. /\ c.at = "running" /\ c.tries = calls[i].tries + 1 /\ c.tool = calls[i].tool
      /\ c \in Call
  <2>1. calls[i].tries + 1 \in 0 .. MaxAttempts
    BY <1>1, AgentAssumption DEF AgentAssumption
  <2>. QED
    BY <1>1, <2>1 DEF Call
<1>3. calls' = [calls EXCEPT ![i] = c]
  BY DEF Execute
<1>. HIDE DEF c
<1>4. calls' \in Seq(Call) /\ Len(calls') = Len(calls) /\ DOMAIN calls' = DOMAIN calls
  BY <1>1, <1>2, <1>3
<1>5. calls'[i] = c /\ \A j \in (DOMAIN calls) \ {i} : calls'[j] = calls[j]
  BY <1>1, <1>3
<1>6. /\ ran' \in [Tools -> Nat]
      /\ \A x \in Tools : ran'[x] = IF x = calls[i].tool THEN ran[x] + 1 ELSE ran[x]
  BY <1>1 DEF Execute, TypeOK
<1>. QED
  BY <1>2, <1>4, <1>5, <1>6 DEF CallStep

LEMMA CallStepIInv ==
  ASSUME IInv, NEW t \in Turns, status[t] = "acting", NEW i \in DOMAIN calls, CallStep(i),
         calls[i].at # "raised", calls'[i].at # "requested",
         calls'[i].tries <= PerCall(calls[i].tool),
         hits' \in [Tools -> Nat], ran' \in [Tools -> Nat], asked' \in BOOLEAN,
         asked' => asked \/ calls'[i].at = "raised",
         UNCHANGED toolUnchanged, EffectsInv'
  PROVE  IInv'
<1>. USE DEF toolUnchanged, budget, model
<1>1. DOMAIN calls' = DOMAIN calls /\ calls' \in Seq(Call) /\ Len(calls') = Len(calls)
  BY DEF CallStep
<1>2. calls # <<>> /\ calls' # <<>>
  BY <1>1 DEF IInv, TypeOK
<1>3. TypeOK'
  BY <1>1, <1>2 DEF IInv, TypeOK, Active
<1>4. BudgetIsOwn' /\ StatusInv'
  BY DEF IInv, BudgetIsOwn, StatusInv, Active
<1>5. CallsInv'
  <2>1. \A v \in Turns : v # t => status[v] \in {"waiting", "ended"}
    BY OnlyOne DEF IInv, Active
  <2>2. \A j \in DOMAIN calls' : /\ calls'[j].at = "requested" => calls'[j].tries = 0
                                 /\ calls'[j].tries <= PerCall(calls'[j].tool)
    BY <1>1 DEF IInv, CallsInv, CallStep
  <2>. QED
    BY <2>1, <2>2 DEF CallsInv
<1>6. AskedInv'
  BY <1>1 DEF IInv, AskedInv, CallStep
<1>. QED
  BY <1>3, <1>4, <1>5, <1>6 DEF IInv

\* A step of a call leaves the other tools' calls alone, and its own tool's too if
\* it neither exposes the call nor executes it again.
LEMMA ExposureStays ==
  ASSUME NEW i \in DOMAIN calls, CallStep(i), NEW x \in Tools,
         \/ x # calls[i].tool
         \/ /\ calls[i].at \in {"running", "raised"} <=> calls'[i].at \in {"running", "raised"}
            /\ calls'[i].tries = calls[i].tries
  PROVE  Exposed(x)' = Exposed(x) /\ Tries(x)' = Tries(x)
<1>1. /\ DOMAIN calls' = DOMAIN calls
      /\ \A j \in DOMAIN calls : calls'[j].tool = calls[j].tool
      /\ \A j \in (DOMAIN calls) \ {i} : calls'[j] = calls[j]
  BY DEF CallStep
<1>2. Exposed(x)' = Exposed(x)
  BY <1>1 DEF Exposed
<1>3. \A j \in Exposed(x) : calls'[j].tries = calls[j].tries
  BY <1>1 DEF Exposed
<1>. QED
  BY <1>1, <1>2, <1>3 DEF Tries

\* So it is enough to look at the tool of the call.
LEMMA EffectsStep ==
  ASSUME EffectsInv, NEW i \in DOMAIN calls, CallStep(i),
         NEW y \in Tools, y = calls[i].tool,
         \A x \in Tools \ {y} : hits'[x] = hits[x] /\ ran'[x] = ran[x],
         ran'[y] <= PerCall(y) * hits'[y] + Cardinality(Tries(y)'),
         hits'[y] + Cardinality(Exposed(y)') <= Threshold - 1 + Parallel
  PROVE  EffectsInv'
<1>1. \A x \in Tools \ {y} : Exposed(x)' = Exposed(x) /\ Tries(x)' = Tries(x)
  BY ExposureStays
<1>2. ASSUME NEW x \in Tools
      PROVE  /\ ran'[x] <= PerCall(x) * hits'[x] + Cardinality(Tries(x)')
             /\ hits'[x] + Cardinality(Exposed(x)') <= Threshold - 1 + Parallel
  <2>1. CASE x = y
    BY <2>1
  <2>2. CASE x # y
    BY <1>1, <2>2 DEF EffectsInv
  <2>. QED
    BY <2>1, <2>2
<1>. QED
  BY <1>2 DEF EffectsInv

\* The numbers of one tool before a step.
LEMMA Numbers ==
  ASSUME TypeOK, EffectsInv, NEW y \in Tools
  PROVE  /\ PerCall(y) \in Nat /\ PerCall(y) >= 1 /\ hits[y] \in Nat /\ ran[y] \in Nat
         /\ Cardinality(Exposed(y)) \in Nat /\ Cardinality(Tries(y)) \in Nat
         /\ PerCall(y) * hits[y] \in Nat
         /\ PerCall(y) * (hits[y] + 1) = PerCall(y) * hits[y] + PerCall(y)
         /\ ran[y] <= PerCall(y) * hits[y] + Cardinality(Tries(y))
         /\ hits[y] + Cardinality(Exposed(y)) <= Threshold - 1 + Parallel
         /\ Threshold \in Nat /\ Parallel \in Nat
<1>1. PerCall(y) \in Nat /\ PerCall(y) >= 1
  BY PerCallNat
<1>2. hits[y] \in Nat /\ ran[y] \in Nat
  BY DEF TypeOK
<1>3. /\ PerCall(y) * hits[y] \in Nat
      /\ PerCall(y) * (hits[y] + 1) = PerCall(y) * hits[y] + PerCall(y)
  BY <1>1, <1>2
<1>. QED
  BY <1>1, <1>2, <1>3, Finite, AgentAssumption DEF AgentAssumption, EffectsInv

\* What Hit counts.
LEMMA HitFacts ==
  ASSUME TypeOK, NEW i \in DOMAIN calls, Hit(i)
  PROVE  /\ hits' \in [Tools -> Nat]
         /\ \A x \in Tools : hits'[x] = IF x = calls[i].tool THEN hits[x] + 1 ELSE hits[x]
  BY CallFacts DEF Hit, TypeOK

\* A call that is not executed: blocked, or not reached.
LEMMA SkippedIInv ==
  ASSUME IInv, NEW t \in Turns, NEW i \in DOMAIN calls, Blocked(t, i) \/ NotReached(t, i)
  PROVE  IInv'
<1>0. PICK y \in Tools : y = calls[i].tool
  BY CallFacts DEF IInv
<1>1. /\ status[t] = "acting" /\ calls[i].at = "requested" /\ Set(i, "done")
      /\ UNCHANGED <<toolUnchanged, asked, ran>>
      /\ UNCHANGED hits \/ (Hit(i) /\ hits[y] < Threshold)
  BY <1>0 DEF Blocked, NotReached, Pending
<1>2. /\ CallStep(i) /\ calls'[i].at = "done" /\ calls'[i].tries = calls[i].tries
      /\ hits' \in [Tools -> Nat]
      /\ \A x \in Tools \ {y} : hits'[x] = hits[x]
      /\ hits'[y] = hits[y] \/ (hits'[y] = hits[y] + 1 /\ hits[y] < Threshold)
  BY <1>0, <1>1, SetFacts, HitFacts, CallFacts DEF IInv, TypeOK
<1>3. calls'[i].tries <= PerCall(y)
  BY <1>0, <1>2 DEF IInv, CallsInv
<1>4. Exposed(y)' = Exposed(y) /\ Tries(y)' = Tries(y)
  <2>1. calls[i].at \in {"running", "raised"} <=> calls'[i].at \in {"running", "raised"}
    BY <1>1, <1>2
  <2>. QED
    BY <1>0, <1>2, <2>1, ExposureStays
<1>5. Cardinality(Exposed(y)) <= Parallel - 1
  <2>1. i \notin Exposed(y)
    BY <1>1 DEF Exposed
  <2>. QED
    BY <1>0, <1>2, <2>1, Finite DEF IInv
<1>6. /\ ran'[y] <= PerCall(y) * hits'[y] + Cardinality(Tries(y)')
      /\ hits'[y] + Cardinality(Exposed(y)') <= Threshold - 1 + Parallel
  BY <1>0, <1>1, <1>2, <1>4, <1>5, Numbers DEF IInv
<1>7. EffectsInv'
  <2>1. \A x \in Tools \ {y} : hits'[x] = hits[x] /\ ran'[x] = ran[x]
    BY <1>1, <1>2
  <2>2. CallStep(i) /\ EffectsInv
    BY <1>2 DEF IInv
  <2>. QED
    BY <1>0, <1>6, <2>1, <2>2, EffectsStep
<1>. QED
  BY <1>0, <1>1, <1>2, <1>3, <1>7, CallStepIInv DEF IInv, TypeOK

\* One execution of the handler, the first of its call or a further one.
LEMMA ExecutedEffects ==
  ASSUME IInv, NEW i \in DOMAIN calls, CallStep(i), UNCHANGED hits,
         NEW y \in Tools, y = calls[i].tool, calls'[i].at = "running",
         calls'[i].tries = calls[i].tries + 1, calls'[i].tries <= PerCall(y),
         \A x \in Tools : ran'[x] = IF x = y THEN ran[x] + 1 ELSE ran[x],
         \/ calls[i].at = "running"
         \/ calls[i].at = "requested" /\ hits[y] < Threshold
  PROVE  EffectsInv'
<1>. DEFINE p == <<i, calls[i].tries + 1>>
<1>1. /\ DOMAIN calls' = DOMAIN calls
      /\ \A j \in DOMAIN calls : calls'[j].tool = calls[j].tool
      /\ \A j \in (DOMAIN calls) \ {i} : calls'[j] = calls[j]
  BY DEF CallStep
<1>2. Exposed(y)' = Exposed(y) \cup {i}
  BY <1>1 DEF Exposed
<1>3. Tries(y)' = Tries(y) \cup {p}
  <2>1. calls[i].tries \in Nat /\ PerCall(y) \in Nat
    BY CallFacts, PerCallNat DEF IInv
  <2>2. calls[i].at = "requested" => calls[i].tries = 0
    BY DEF IInv, CallsInv
  <2>3. i \in Exposed(y) \/ calls[i].tries = 0
    BY <2>2 DEF Exposed
  <2>4. \A q : q \in Tries(y)' <=> q \in Tries(y) \cup {p}
    <3>1. ASSUME NEW q \in Tries(y)'
          PROVE  q \in Tries(y) \cup {p}
      <4>1. /\ q \in (DOMAIN calls) \X (1 .. PerCall(y))
            /\ q[1] \in Exposed(y) \cup {i} /\ q[2] <= calls'[q[1]].tries
        BY <1>1, <1>2, <3>1 DEF Tries
      <4>2. CASE q[1] # i
        BY <1>1, <4>1, <4>2 DEF Tries
      <4>3. CASE q[1] = i
        BY <2>1, <2>3, <4>1, <4>3 DEF Tries
      <4>. QED
        BY <4>2, <4>3
    <3>2. ASSUME NEW q \in Tries(y)
          PROVE  q \in Tries(y)'
      <4>1. /\ q \in (DOMAIN calls) \X (1 .. PerCall(y))
            /\ q[1] \in Exposed(y) /\ q[2] <= calls[q[1]].tries
        BY <3>2 DEF Tries
      <4>2. q[2] <= calls'[q[1]].tries
        BY <1>1, <2>1, <4>1
      <4>. QED
        BY <1>1, <1>2, <4>1, <4>2 DEF Tries
    <3>3. p \in Tries(y)'
      <4>1. p \in (DOMAIN calls) \X (1 .. PerCall(y)) /\ p[1] = i /\ p[2] = calls'[i].tries
        BY <2>1
      <4>. QED
        BY <1>1, <1>2, <2>1, <4>1 DEF Tries
    <3>. QED
      BY <3>1, <3>2, <3>3
  <2>. QED
    BY <2>4
<1>4. p \notin Tries(y)
  BY CallFacts DEF IInv, Tries
<1>. HIDE DEF p
<1>5. Cardinality(Tries(y)') = Cardinality(Tries(y)) + 1
  BY <1>3, <1>4, Finite, FS_AddElement DEF IInv
<1>6. hits[y] + Cardinality(Exposed(y)') <= Threshold - 1 + Parallel
  <2>1. CASE calls[i].at = "running"
    <3>1. Exposed(y)' = Exposed(y)
      BY <1>2, <2>1 DEF Exposed
    <3>. QED
      BY <3>1, Numbers DEF IInv
  <2>2. CASE calls[i].at = "requested" /\ hits[y] < Threshold
    <3>1. i \notin Exposed(y)
      BY <2>2 DEF Exposed
    <3>2. /\ Cardinality(Exposed(y)') = Cardinality(Exposed(y)) + 1
          /\ Cardinality(Exposed(y)) <= Parallel - 1
      BY <1>2, <3>1, Finite, FS_AddElement DEF IInv
    <3>. QED
      BY <2>2, <3>2, Numbers DEF IInv
  <2>. QED
    BY <2>1, <2>2
<1>7. ran'[y] <= PerCall(y) * hits[y] + Cardinality(Tries(y)')
  BY <1>5, Numbers DEF IInv
<1>. QED
  BY <1>6, <1>7, EffectsStep DEF IInv

LEMMA RunToolIInv ==
  ASSUME IInv, NEW t \in Turns, NEW i \in DOMAIN calls, RunTool(t, i) \/ Retry(t, i)
  PROVE  IInv'
<1>0. PICK y \in Tools : y = calls[i].tool
  BY CallFacts DEF IInv
<1>1. /\ status[t] = "acting" /\ Execute(i) /\ UNCHANGED <<toolUnchanged, hits, asked>>
      /\ \/ calls[i].at = "requested" /\ hits[y] < Threshold
         \/ calls[i].at = "running" /\ y \in Idempotent /\ calls[i].tries < MaxAttempts
  BY <1>0 DEF RunTool, Retry, Pending
<1>2. calls[i].tries \in Nat /\ calls[i].tries + 1 <= PerCall(y) /\ calls[i].tries < MaxAttempts
  <2>1. calls[i].tries \in Nat /\ PerCall(y) \in Nat \ {0} /\ PerCall(y) <= MaxAttempts
        /\ MaxAttempts \in Nat
    BY CallFacts, PerCallNat, AgentAssumption DEF AgentAssumption, IInv
  <2>2. calls[i].at = "requested" => calls[i].tries = 0
    BY DEF IInv, CallsInv
  <2>3. y \in Idempotent => PerCall(y) = MaxAttempts
    BY DEF PerCall
  <2>. QED
    BY <1>0, <1>1, <2>1, <2>2, <2>3
<1>3. /\ CallStep(i) /\ calls'[i].at = "running" /\ calls'[i].tries = calls[i].tries + 1
      /\ ran' \in [Tools -> Nat]
      /\ \A x \in Tools : ran'[x] = IF x = y THEN ran[x] + 1 ELSE ran[x]
  BY <1>0, <1>1, <1>2, ExecuteFacts DEF IInv
<1>4. EffectsInv'
  <2>1. UNCHANGED hits /\ calls'[i].tries <= PerCall(y)
        /\ (calls[i].at = "running" \/ (calls[i].at = "requested" /\ hits[y] < Threshold))
    BY <1>1, <1>2, <1>3, CallFacts DEF IInv
  <2>. QED
    BY <1>0, <1>3, <2>1, ExecutedEffects
<1>. QED
  BY <1>0, <1>1, <1>2, <1>3, <1>4, CallStepIInv DEF IInv, TypeOK

\* The handler returns and the call is counted: it is not exposed any more.
LEMMA CountedIInv ==
  ASSUME IInv, NEW t \in Turns, NEW i \in DOMAIN calls, Pending(t, i, "running"),
         Set(i, "done"), Hit(i), UNCHANGED <<toolUnchanged, asked, ran>>
  PROVE  IInv'
<1>0. PICK y \in Tools : y = calls[i].tool
  BY CallFacts DEF IInv
<1>1. /\ CallStep(i) /\ calls'[i].at = "done" /\ calls'[i].tries = calls[i].tries
      /\ hits' \in [Tools -> Nat]
      /\ \A x \in Tools : hits'[x] = IF x = y THEN hits[x] + 1 ELSE hits[x]
  BY <1>0, SetFacts, HitFacts, CallFacts DEF IInv
<1>2. status[t] = "acting" /\ calls[i].at = "running"
  BY <1>0 DEF Pending
<1>3. calls'[i].tries <= PerCall(y)
  BY <1>0, <1>1 DEF IInv, CallsInv
<1>4. /\ DOMAIN calls' = DOMAIN calls
      /\ \A j \in DOMAIN calls : calls'[j].tool = calls[j].tool
      /\ \A j \in (DOMAIN calls) \ {i} : calls'[j] = calls[j]
  BY <1>0, <1>1 DEF CallStep
<1>5. Exposed(y)' = Exposed(y) \ {i} /\ i \in Exposed(y)
  BY <1>0, <1>1, <1>2, <1>4 DEF Exposed
<1>6. Cardinality(Exposed(y)') = Cardinality(Exposed(y)) - 1
  <2>1. IsFiniteSet(Exposed(y))
    BY Finite DEF IInv
  <2>2. Cardinality(Exposed(y) \ {i}) = Cardinality(Exposed(y)) - 1
    BY <1>5, <2>1, FS_RemoveElement
  <2>. QED
    BY <1>5, <2>2
<1>7. /\ Cardinality(Tries(y)') \in Nat
      /\ Cardinality(Tries(y)) <= Cardinality(Tries(y)') + PerCall(y)
  <2>. DEFINE own == {i} \X (1 .. PerCall(y))
  <2>1. IsFiniteSet(own) /\ Cardinality(own) = PerCall(y)
    <3>1. IsFiniteSet(1 .. PerCall(y)) /\ Cardinality(1 .. PerCall(y)) = PerCall(y)
      BY PerCallNat, FS_Interval
    <3>2. IsFiniteSet({i}) /\ Cardinality({i}) = 1
      BY FS_Singleton
    <3>3. IsFiniteSet(own) /\ Cardinality(own) = 1 * PerCall(y)
      BY <3>1, <3>2, FS_Product
    <3>. QED
      BY <3>3, PerCallNat
  <2>2. Tries(y)' \subseteq Tries(y)
    BY <1>4, <1>5 DEF Tries
  <2>3. Tries(y) \subseteq Tries(y)' \cup own
    <3>1. ASSUME NEW q \in Tries(y), q[1] # i
          PROVE  q \in Tries(y)'
      BY <1>4, <1>5, <3>1 DEF Tries
    <3>2. ASSUME NEW q \in Tries(y), q[1] = i
          PROVE  q \in own
      BY <3>2 DEF Tries
    <3>. QED
      BY <3>1, <3>2
  <2>4. IsFiniteSet(Tries(y)) /\ Cardinality(Tries(y)) \in Nat
    BY <1>0, <1>1, Finite DEF IInv
  <2>5. IsFiniteSet(Tries(y)') /\ Cardinality(Tries(y)') \in Nat
    BY <2>2, <2>4, FS_Subset, FS_CardinalityType
  <2>. HIDE DEF own
  <2>6. /\ IsFiniteSet(Tries(y)' \cup own)
        /\ Cardinality(Tries(y)' \cup own) =
             Cardinality(Tries(y)') + Cardinality(own) - Cardinality(Tries(y)' \cap own)
    BY <2>1, <2>5, FS_Union
  <2>7. Cardinality(Tries(y)' \cap own) \in Nat
    BY <2>5, FS_Subset, FS_CardinalityType
  <2>8. Cardinality(Tries(y)) <= Cardinality(Tries(y)' \cup own)
    BY <2>3, <2>6, FS_Subset
  <2>. QED
    BY <2>1, <2>4, <2>5, <2>6, <2>7, <2>8, PerCallNat
<1>8. /\ ran'[y] <= PerCall(y) * hits'[y] + Cardinality(Tries(y)')
      /\ hits'[y] + Cardinality(Exposed(y)') <= Threshold - 1 + Parallel
  BY <1>0, <1>1, <1>6, <1>7, Numbers DEF IInv
<1>9. EffectsInv'
  <2>1. \A x \in Tools \ {y} : hits'[x] = hits[x] /\ ran'[x] = ran[x]
    BY <1>1
  <2>2. CallStep(i) /\ EffectsInv
    BY <1>1 DEF IInv
  <2>. QED
    BY <1>0, <1>8, <2>1, <2>2, EffectsStep
<1>. QED
  BY <1>0, <1>1, <1>2, <1>3, <1>9, CallStepIInv DEF IInv, TypeOK

\* The error of the handler will end the turn; ask_user has left its question.
LEMMA RaisedIInv ==
  ASSUME IInv, NEW t \in Turns, NEW i \in DOMAIN calls, Pending(t, i, "running"),
         Set(i, "raised"), UNCHANGED <<toolUnchanged, hits, ran>>, asked' \in {asked, TRUE}
  PROVE  IInv'
<1>0. PICK y \in Tools : y = calls[i].tool
  BY CallFacts DEF IInv
<1>1. /\ CallStep(i) /\ calls'[i].at = "raised" /\ calls'[i].tries = calls[i].tries
  BY <1>0, SetFacts, CallFacts DEF IInv
<1>2. status[t] = "acting" /\ calls[i].at = "running"
  BY <1>0 DEF Pending
<1>3. calls'[i].tries <= PerCall(y)
  BY <1>0, <1>1 DEF IInv, CallsInv
<1>4. Exposed(y)' = Exposed(y) /\ Tries(y)' = Tries(y)
  <2>1. calls[i].at \in {"running", "raised"} <=> calls'[i].at \in {"running", "raised"}
    BY <1>1, <1>2
  <2>. QED
    BY <1>0, <1>1, <2>1, ExposureStays
<1>5. EffectsInv'
  <2>1. \A x \in Tools \ {y} : hits'[x] = hits[x] /\ ran'[x] = ran[x]
    OBVIOUS
  <2>2. CallStep(i) /\ EffectsInv
    BY <1>1 DEF IInv
  <2>3. /\ ran'[y] <= PerCall(y) * hits'[y] + Cardinality(Tries(y)')
        /\ hits'[y] + Cardinality(Exposed(y)') <= Threshold - 1 + Parallel
    BY <1>4, <2>2 DEF EffectsInv
  <2>. QED
    BY <1>0, <2>1, <2>2, <2>3, EffectsStep
<1>. QED
  BY <1>0, <1>1, <1>2, <1>3, <1>5, CallStepIInv DEF IInv, TypeOK

LEMMA CallToolIInv ==
  ASSUME IInv, NEW t \in Turns, CallTool(t)
  PROVE  IInv'
<1>1. PICK i \in DOMAIN calls : \/ Blocked(t, i) \/ RunTool(t, i) \/ NotReached(t, i)
                                \/ Retry(t, i) \/ Succeed(t, i) \/ Fail(t, i)
  BY DEF CallTool
<1>2. CASE Blocked(t, i) \/ NotReached(t, i)
  BY <1>2, SkippedIInv
<1>3. CASE RunTool(t, i) \/ Retry(t, i)
  BY <1>3, RunToolIInv
<1>4. CASE Succeed(t, i)
  BY <1>4, CountedIInv DEF Succeed
<1>5. CASE Fail(t, i)
  <2>1. Pending(t, i, "running") /\ UNCHANGED <<toolUnchanged, ran>>
    BY <1>5 DEF Fail
  <2>2. \/ Set(i, "raised") /\ UNCHANGED hits /\ asked' \in {asked, TRUE}
        \/ Set(i, "done") /\ Hit(i) /\ UNCHANGED asked
    BY <1>5 DEF Fail, AskUser
  <2>. QED
    BY <2>1, <2>2, RaisedIInv, CountedIInv
<1>. QED
  BY <1>1, <1>2, <1>3, <1>4, <1>5
-----------------------------------------------------------------------------
LEMMA InitIInv == Init => IInv
<1>. SUFFICES ASSUME Init
              PROVE  IInv
  OBVIOUS
<1>1. calls = <<>> /\ DOMAIN calls = {} /\ hits = NoHits /\ ran = NoHits
  BY DEF Init
<1>2. \A t \in Turns : ~Active(t)
  BY DEF Init, Active
<1>3. TypeOK
  <2>1. calls \in Seq(Call) /\ Len(calls) <= Parallel
    BY <1>1, AgentAssumption DEF AgentAssumption
  <2>2. hits \in [Tools -> Nat] /\ ran \in [Tools -> Nat]
    BY <1>1 DEF NoHits
  <2>3. /\ strikes \in 0 .. FailureThreshold /\ steps \in 0 .. MaxSteps
        /\ nodes \in 0 .. MaxSteps /\ link \in 0 .. LastLink
    BY AgentAssumption DEF AgentAssumption, Init, LastLink
  <2>. QED
    BY <1>2, <2>1, <2>2, <2>3 DEF Init, TypeOK
<1>4. BudgetIsOwn /\ StatusInv /\ CallsInv /\ AskedInv
  BY <1>1, <1>2 DEF Init, BudgetIsOwn, StatusInv, CallsInv, AskedInv
<1>5. EffectsInv
  <2>1. \A x \in Tools : Exposed(x) = {}
    BY <1>1 DEF Exposed
  <2>2. \A x \in Tools : Tries(x) = {}
    BY <1>1 DEF Tries
  <2>3. \A x \in Tools : Cardinality(Exposed(x)) = 0 /\ Cardinality(Tries(x)) = 0
    BY <2>1, <2>2, FS_EmptySet
  <2>4. \A x \in Tools : hits[x] = 0 /\ ran[x] = 0 /\ PerCall(x) * 0 = 0
    BY <1>1, PerCallNat DEF NoHits
  <2>. QED
    BY <2>3, <2>4, AgentAssumption DEF AgentAssumption, EffectsInv
<1>. QED
  BY <1>3, <1>4, <1>5 DEF IInv

LEMMA NextIInv == IInv /\ [Next]_vars => IInv'
<1>. SUFFICES ASSUME IInv, [Next]_vars
              PROVE  IInv'
  OBVIOUS
<1>1. ASSUME NEW t \in Turns, Cancel(t) \/ Expire(t) \/ ModelTimeout(t)
      PROVE  IInv'
  <2>1. /\ ctx' \in {"live", "cancelled", "deadline"} /\ overdue' \in BOOLEAN
        /\ strikes' \in 0 .. FailureThreshold
        /\ UNCHANGED <<status, outcome, mode, budget, nodes, link, calls, hits, asked, history>>
    BY <1>1 DEF IInv, TypeOK, Cancel, Expire, ModelTimeout, model
  <2>. QED
    BY <2>1, EnvironmentIInv
<1>2. CASE Cool
  <2>1. strikes' \in 0 .. FailureThreshold
    BY <1>2, AgentAssumption DEF AgentAssumption, Cool
  <2>. QED
    BY <1>2, <2>1, EnvironmentIInv DEF IInv, TypeOK, Cool, model
<1>3. ASSUME NEW t \in Turns,
             \/ Refuse(t) \/ Begin(t) \/ GraphStops(t) \/ BudgetRefuses(t) \/ CallModel(t)
             \/ StartTools(t) \/ ModelFails(t) \/ StreamOpens(t) \/ StreamBreaks(t)
             \/ CallTool(t) \/ ToolsEnd(t)
      PROVE  IInv'
  BY <1>3, RefuseIInv, BeginIInv, EndsIInv, CallModelIInv, StartToolsIInv, ModelFailsIInv,
     StreamOpensIInv, CallToolIInv, ToolsEndIInv
<1>4. ASSUME NEW t \in Turns, NEW u \in Usages,
             \/ ModelAnswers(t, u) \/ StreamEnds(t, u)
             \/ \E req \in Requests : ModelRequests(t, u, req)
      PROVE  IInv'
  BY <1>4, AnswersIInv, ModelRequestsIInv
<1>5. CASE UNCHANGED vars
  <2>1. UNCHANGED <<ctx, overdue, strikes, status, outcome, mode, budget, nodes, link, calls,
                    hits, asked, history>>
    BY <1>5 DEF vars, model
  <2>. QED
    BY <2>1, EnvironmentIInv DEF IInv, TypeOK
<1>. QED
  BY <1>1, <1>2, <1>3, <1>4, <1>5 DEF Next, Done
-----------------------------------------------------------------------------
\* What is needed about the turns of an Agent holds in every reachable state.
THEOREM InductiveInvariant == Spec => []IInv
<1>. QED
  BY InitIInv, NextIInv, PTL DEF Spec

\* Every variable keeps its type; in particular neither the budget's steps nor the
\* graph's nodes go beyond maxSteps, and one turn at a time is active (turnMu).
THEOREM TypeCorrect == Spec => []TypeOK
<1>1. IInv => TypeOK
  BY DEF IInv
<1>. QED
  BY <1>1, InductiveInvariant, PTL

\* The budget of a turn counts that turn's calls and tokens, and a tool is executed
\* with the same arguments no more often than the loop guard's threshold, the calls
\* of one answer and the attempts of a retry allow, however the calls interleave
\* (budget.go, loopguard.go, retry.go).
THEOREM TurnsKeepToTheirBudget == Spec => []WithinBudget
<1>1. IInv => WithinBudget
  BY Bounded DEF IInv, WithinBudget
<1>. QED
  BY <1>1, InductiveInvariant, PTL

\* A step that answers in Run has settled its tokens within the limit.
LEMMA AnswersWithinTokens ==
  ASSUME IInv, Next, NEW t \in Turns, mode = "run", outcome'[t] # outcome[t],
         outcome'[t] = "answered"
  PROVE  used' <= MaxTokens
<1>1. ASSUME NEW v \in Turns, NEW err, End(v, err)
      PROVE  v = t /\ TurnErr(v, err) = "answered"
  BY <1>1 DEF IInv, TypeOK, End
<1>2. \A err : TurnErr(t, err) = "answered" => err = "answered"
  BY DEF TurnErr
<1>3. PICK v \in Turns, u \in Usages : ModelAnswers(v, u) /\ ~OverBudget
  <2>1. Interrupted(t, "failed") # "answered"
    BY DEF Interrupted
  <2>2. ~UNCHANGED outcome
    OBVIOUS
  <2>3. ASSUME NEW v \in Turns, CallTool(v)
        PROVE  FALSE
    BY <2>2, <2>3 DEF CallTool, Blocked, RunTool, NotReached, Retry, Succeed, Fail,
       toolUnchanged
  <2>4. ASSUME NEW v \in Turns, Refuse(v)
        PROVE  FALSE
    BY <2>4 DEF IInv, TypeOK, Refuse
  <2>5. ASSUME NEW v \in Turns, Cancel(v) \/ Expire(v) \/ ModelTimeout(v) \/ Begin(v)
                                \/ CallModel(v) \/ StartTools(v) \/ StreamOpens(v)
        PROVE  FALSE
    BY <2>2, <2>5 DEF Cancel, Expire, ModelTimeout, Begin, CallModel, StartTools, StreamOpens,
       Goto
  <2>6. ASSUME NEW v \in Turns, GraphStops(v) \/ BudgetRefuses(v) \/ StreamBreaks(v)
        PROVE  FALSE
    <3>1. \E err \in {"steps", "budget", Interrupted(v, "failed")} : End(v, err)
      BY <2>6 DEF GraphStops, BudgetRefuses, StreamBreaks
    <3>. QED
      BY <1>1, <1>2, <2>1, <3>1
  <2>7. ASSUME NEW v \in Turns, ModelFails(v)
        PROVE  FALSE
    <3>1. End(v, Interrupted(v, "failed")) \/ End(v, "failed")
      BY <2>2, <2>7 DEF ModelFails
    <3>. QED
      BY <1>1, <1>2, <2>1, <3>1
  <2>8. ASSUME NEW v \in Turns, ToolsEnd(v)
        PROVE  FALSE
    <3>1. End(v, IF asked THEN "asked" ELSE Interrupted(v, "failed"))
      BY <2>2, <2>8 DEF ToolsEnd, Goto
    <3>2. (IF asked THEN "asked" ELSE Interrupted(v, "failed")) # "answered"
      BY DEF Interrupted
    <3>. QED
      BY <1>1, <1>2, <3>1, <3>2
  <2>9. ASSUME NEW v \in Turns, NEW u \in Usages, NEW req \in Requests, ModelRequests(v, u, req)
        PROVE  FALSE
    <3>1. End(v, "budget")
      BY <2>2, <2>9 DEF ModelRequests, Goto
    <3>. QED
      BY <1>1, <1>2, <3>1
  <2>10. ASSUME NEW v \in Turns, NEW u \in Usages, StreamEnds(v, u)
         PROVE  FALSE
    BY <2>10 DEF IInv, StatusInv, StreamEnds
  <2>11. ASSUME NEW v \in Turns, NEW u \in Usages, ModelAnswers(v, u)
         PROVE  ~OverBudget
    <3>1. OverBudget => End(v, "budget")
      BY <2>11 DEF ModelAnswers
    <3>. QED
      BY <1>1, <1>2, <3>1
  <2>12. ~Cool /\ ~Done
    BY <2>2 DEF Cool, Done, vars
  <2>. QED
    BY <2>3, <2>4, <2>5, <2>6, <2>7, <2>8, <2>9, <2>10, <2>11, <2>12 DEF Next
<1>4. Active(v) /\ used' = used + u /\ tokens' = tokens + u
  BY <1>3 DEF ModelAnswers, Settle, Active
<1>5. tokens = used
  BY <1>4 DEF IInv, BudgetIsOwn
<1>6. tokens' <= MaxTokens
  <2>1. tokens' \in Nat /\ MaxTokens \in Nat
    BY <1>3, <1>4, TurnTypes, AgentAssumption DEF AgentAssumption, IInv
  <2>. QED
    BY <1>3, <2>1 DEF OverBudget
<1>. QED
  BY <1>4, <1>5, <1>6

\* While a question is open the turn is at its tools, so that no model is asked.
LEMMA QuestionAtTools ==
  ASSUME IInv, Next, asked, asked'
  PROVE  UNCHANGED steps
<1>1. \E i \in DOMAIN calls : calls[i].at = "raised"
  BY DEF IInv, AskedInv
<1>2. calls # <<>>
  BY <1>1
<1>3. PICK v \in Turns : status[v] \in {"requested", "acting"} /\ Active(v)
  BY <1>2 DEF IInv, CallsInv, Active
<1>4. \A w \in Turns : ~CallModel(w) /\ ~Begin(w)
  BY <1>3 DEF IInv, TypeOK, CallModel, Begin, MayBegin, Active
<1>5. ASSUME NEW w \in Turns, CallTool(w)
      PROVE  UNCHANGED steps
  BY <1>5 DEF CallTool, Blocked, RunTool, NotReached, Retry, Succeed, Fail, toolUnchanged, budget
<1>. QED
  BY <1>4, <1>5 DEF Next, Cool, Done, Cancel, Expire, ModelTimeout, Refuse, GraphStops,
     BudgetRefuses, StartTools, ModelFails, StreamOpens, StreamBreaks, ToolsEnd, ModelAnswers,
     StreamEnds, ModelRequests, vars, budget

\* A Run answers only within its tokens, and a turn that has put a question to its
\* user asks no model any more (Budget.afterCall, InterruptOnError).
THEOREM TheEndIsTheEnd == Spec => NothingAfterTheEnd
<1>1. IInv /\ [Next]_vars =>
        [\A t \in Turns : mode = "run" /\ outcome'[t] # outcome[t] /\ outcome'[t] = "answered"
                            => used' <= MaxTokens]_vars
  BY AnswersWithinTokens DEF vars
<1>2. IInv /\ [Next]_vars => [asked /\ asked' => steps' = steps]_vars
  BY QuestionAtTools DEF vars
<1>. QED
  BY <1>1, <1>2, InductiveInvariant, PTL DEF Spec, NothingAfterTheEnd, TokensEnforced,
     QuestionStops
=============================================================================
