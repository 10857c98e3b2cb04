------------------------------ MODULE TokenQuota ------------------------------
(***************************************************************************)
(* internal/infra/metrics/cost.go and its two uses in service/chat: the    *)
(* tokens of one user's day.  A turn starts if the tokens counted so far   *)
(* are below the quota, and if it ends with an answer adds those of the    *)
(* call of the model that gave it.  Those of its other calls, and of turns *)
(* that end in a question or an error, are used and counted nowhere.       *)
(* The count is kept in Redis (QuotaIncr, behind a breaker of its own) or, *)
(* when that fails, in the process.  Every session of the user has one     *)
(* turn at a time.                                                         *)
(***************************************************************************)
EXTENDS Integers, FiniteSets

CONSTANTS Sessions,
          Limit, Usages,       \* [aiPricing] dailyTokenQuota, tokens an answer may report
          MaxDay, MaxTurns     \* bounds

QuotaAssumption ==
  /\ IsFiniteSet(Sessions)
  /\ Limit \in Nat \ {0} /\ Usages \subseteq Nat /\ Usages # {}
  /\ \E m \in Usages : \A u \in Usages : u <= m
  /\ MaxDay \in Nat \ {0} /\ MaxTurns \in Nat

VARIABLES day, storeUp,        \* today; does Redis answer, and its breaker let it?
          used,                \* [day -> tokens] in Redis
          local, localDay,     \* localQuotaUsage[user], localQuotaDay
          at, turns,           \* [session -> where its turn stands], the turns so far
          missed               \* history: [day -> has a call of the store failed?]

quotaVars == <<day, storeUp, used, local, localDay, at, turns, missed>>

Days == 1 .. MaxDay
MaxUsage == CHOOSE m \in Usages : \A u \in Usages : u <= m

QuotaTypeOK ==
  /\ day \in Days /\ localDay \in 0 .. day /\ storeUp \in BOOLEAN
  /\ used \in [Days -> Nat] /\ local \in Nat
  /\ at \in [Sessions -> {"idle", "checking", "answering"}] /\ turns \in 0 .. MaxTurns
  /\ missed \in [Days -> BOOLEAN]

Init == /\ day = 1 /\ storeUp = TRUE
        /\ used = [d \in Days |-> 0] /\ local = 0 /\ localDay = 0
        /\ at = [x \in Sessions |-> "idle"] /\ turns = 0
        /\ missed = [d \in Days |-> FALSE]

Goto(x, place) == at' = [at EXCEPT ![x] = place]

Midnight == /\ day < MaxDay /\ day' = day + 1
            /\ UNCHANGED <<storeUp, used, local, localDay, at, turns, missed>>

\* Redis goes and comes; the breaker redis:quota opens and closes.
Switch == /\ storeUp' = ~storeUp
          /\ UNCHANGED <<day, used, local, localDay, at, turns, missed>>

\* GenerateResponse or StreamResponse has the lock of its session.
Begin(x) == /\ at[x] = "idle" /\ turns < MaxTurns
            /\ turns' = turns + 1 /\ Goto(x, "checking")
            /\ UNCHANGED <<day, storeUp, used, local, localDay, missed>>

\* CheckQuota(user, 0).  If the store fails, used stays zero: the count in
\* the process is read only where there is no store at all.
PreCheck(x) ==
  /\ at[x] = "checking"
  /\ Goto(x, IF storeUp /\ used[day] >= Limit THEN "idle" ELSE "answering")
  /\ missed' = [missed EXCEPT ![day] = @ \/ ~storeUp]
  /\ UNCHANGED <<day, storeUp, used, local, localDay, turns>>

\* localQuotaAdd: a new day empties the map.
AddLocal(tokens) == /\ local' = tokens + (IF localDay = day THEN local ELSE 0)
                    /\ localDay' = day

QuotaIncr(tokens) == used' = [used EXCEPT ![day] = @ + tokens]

\* The model answers, and recordUsage counts the tokens of that call: whether
\* the quota is used up now is only logged.  A store that fails may have counted.
Record(x, tokens) ==
  /\ at[x] = "answering"
  /\ Goto(x, "idle")
  /\ \/ storeUp /\ QuotaIncr(tokens) /\ UNCHANGED <<local, localDay, missed>>
     \/ /\ ~storeUp /\ AddLocal(tokens) /\ missed' = [missed EXCEPT ![day] = TRUE]
        /\ QuotaIncr(tokens) \/ UNCHANGED used
  /\ UNCHANGED <<day, storeUp, turns>>

\* A question to the user or an error comes before recordUsage; an answer out
\* of a cache, or one whose usage the model does not tell, has nothing to count.
NothingToRecord(x) ==
  /\ at[x] = "answering"
  /\ Goto(x, "idle")
  /\ UNCHANGED <<day, storeUp, used, local, localDay, turns, missed>>
-----------------------------------------------------------------------------
Turn(x) == \/ Begin(x) \/ PreCheck(x) \/ NothingToRecord(x)
           \/ \E tokens \in Usages \ {0} : Record(x, tokens)

Next == Midnight \/ Switch \/ \E x \in Sessions : Turn(x)
-----------------------------------------------------------------------------
(***************************************************************************)
(* On a day on which the store has answered every call, the count gets     *)
(* past the quota by no more than the answers of turns that were under way *)
(* together: pre-check and count are two steps, and a turn that began      *)
(* yesterday counts today.  Of the tokens a turn uses beside those of its  *)
(* answer it says nothing, as nothing in the code does.                    *)
(***************************************************************************)
QuotaHolds == \A d \in Days : ~missed[d] => used[d] <= Limit - 1 + Cardinality(Sessions) * MaxUsage

(***************************************************************************)
(* cost.go: while Redis is unavailable the quota falls back on the count   *)
(* in the process.  So what that count has seen is held to the quota too.  *)
(***************************************************************************)
QuotaHoldsLocally == local <= Limit - 1 + Cardinality(Sessions) * MaxUsage
=============================================================================
