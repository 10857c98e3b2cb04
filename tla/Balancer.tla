------------------------------- MODULE Balancer -------------------------------
(***************************************************************************)
(* internal/inference/balancer.go: which of the instances of a model a     *)
(* request goes to.  "weighted" is the smooth weighted round robin, under  *)
(* a lock; "least_conn" (any other name) scans the requests in flight      *)
(* under a lock that Release does not take, so a count may sink while it   *)
(* is compared.  The deployment has one instance per model so far; the     *)
(* scheduler does not call it yet.                                         *)
(*                                                                         *)
(* An instance is its place in the slice.                                  *)
(***************************************************************************)
EXTENDS Integers

CONSTANTS Size,              \* instances
          Ids,               \* [instance -> number its ID sorts by]
          Weights,           \* weights a configuration may give
          MaxPicks,          \* bound on the requests
          None

BalancerAssumption ==
  /\ Size \in Nat \ {0} /\ MaxPicks \in Nat /\ Weights \subseteq Int
  /\ Ids \in [1 .. Size -> Nat] /\ \A i, j \in 1 .. Size : Ids[i] = Ids[j] => i = j
  /\ None \notin 1 .. Size

VARIABLES strategy, weight,  \* of NewBalancer
          current,           \* smoothWRR.current
          inflight,          \* [instance -> Instance.inflight]
          best, next,        \* leastConn.Pick: the choice so far, the instance it comes to
          tied,              \* has the first comparison with that instance failed?
          picked, least      \* history: [instance -> picks]; the least count as the scan began

chosen == <<current, inflight, picked>>
scan == <<best, next, tied, least>>
balancerVars == <<strategy, weight, chosen, scan>>

Instances == 1 .. Size
SumOf(f) == LET sum[n \in 0 .. Size] == IF n = 0 THEN 0 ELSE sum[n - 1] + f[n] IN sum[Size]
Total == SumOf(weight)

BalancerTypeOK ==
  /\ strategy \in {"weighted", "least_conn"}
  /\ weight \in [Instances -> Nat \ {0}] /\ current \in [Instances -> Int]
  /\ inflight \in [Instances -> 0 .. MaxPicks] /\ picked \in [Instances -> 0 .. MaxPicks]
  /\ best \in Instances \cup {None} /\ next \in 1 .. Size + 1 /\ tied \in BOOLEAN
  /\ least \in 0 .. MaxPicks

\* A weight that is not positive becomes 1.
Valid(w) == IF w <= 0 THEN 1 ELSE w

Init == /\ strategy \in {"weighted", "least_conn"}
        /\ \E w \in [Instances -> Weights] : weight = [i \in Instances |-> Valid(w[i])]
        /\ current = [i \in Instances |-> 0] /\ inflight = current /\ picked = current
        /\ best = None /\ next = 1 /\ tied = FALSE /\ least = 0

MayPick == SumOf(picked) < MaxPicks
Occupy(i) == inflight' = [inflight EXCEPT ![i] = @ + 1] /\ picked' = [picked EXCEPT ![i] = @ + 1]

\* Mutant: who was chosen pays its own weight.
PickWeightedOwn ==
  LET raised == [i \in Instances |-> current[i] + weight[i]]
      first == CHOOSE i \in Instances : \A j \in Instances :
                 raised[j] <= raised[i] /\ (raised[j] = raised[i] => i <= j)
  IN /\ strategy = "weighted" /\ MayPick
     /\ current' = [raised EXCEPT ![first] = @ - weight[first]]
     /\ Occupy(first)
     /\ UNCHANGED <<strategy, weight, scan>>

\* smoothWRR.Pick: raise everybody by the weight, take the first of the
\* highest and lower it by the total.
PickWeighted ==
  LET raised == [i \in Instances |-> current[i] + weight[i]]
      first == CHOOSE i \in Instances : \A j \in Instances :
                 raised[j] <= raised[i] /\ (raised[j] = raised[i] => i <= j)
  IN /\ strategy = "weighted" /\ MayPick
     /\ current' = [raised EXCEPT ![first] = @ - Total]
     /\ Occupy(first)
     /\ UNCHANGED <<strategy, weight, scan>>

\* leastConn.Pick takes the lock.
Scan == /\ strategy = "least_conn" /\ MayPick /\ best = None
        /\ best' = 1 /\ next' = 2
        /\ least' = inflight[CHOOSE i \in Instances : \A j \in Instances : inflight[i] <= inflight[j]]
        /\ UNCHANGED <<strategy, weight, chosen, tied>>

\* in.Inflight() < best.Inflight(), and after it the same counts, read again.
Fewer == /\ best # None /\ next <= Size /\ ~tied
         /\ IF inflight[next] < inflight[best]
            THEN best' = next /\ next' = next + 1 /\ UNCHANGED tied
            ELSE tied' = TRUE /\ UNCHANGED <<best, next>>
         /\ UNCHANGED <<strategy, weight, chosen, least>>

SameAndSmallerId ==
  /\ tied
  /\ best' = IF inflight[next] = inflight[best] /\ Ids[next] < Ids[best] THEN next ELSE best
  /\ next' = next + 1 /\ tied' = FALSE
  /\ UNCHANGED <<strategy, weight, chosen, least>>

Take == /\ best # None /\ next > Size
        /\ Occupy(best)
        /\ best' = None /\ next' = 1
        /\ UNCHANGED <<strategy, weight, current, tied, least>>

\* Either kind: without the lock.
Release(i) == /\ inflight[i] > 0
              /\ inflight' = [inflight EXCEPT ![i] = @ - 1]
              /\ UNCHANGED <<strategy, weight, current, picked, scan>>
-----------------------------------------------------------------------------
Next == PickWeighted \/ Scan \/ Fewer \/ SameAndSmallerId \/ Take \/ \E i \in Instances : Release(i)
-----------------------------------------------------------------------------
(***************************************************************************)
(* By weight, an instance is never a whole request ahead of its share of   *)
(* the picks so far (balancer.go: requests for one do not come in a row),  *)
(* so it is not further behind than the others together are ahead, and     *)
(* after as many picks as the weights add up to everybody has had his own. *)
(* It may be a whole request behind: of the weights 1, 1, 1, 6 and 6 the   *)
(* last is, after ten picks.                                               *)
(* By count, whatever is released meanwhile, the choice has no more in     *)
(* flight than the least loaded instance had when the scan began.          *)
(***************************************************************************)
BalanceHolds ==
  /\ strategy = "weighted" => \A i \in Instances :
       LET share == weight[i] * SumOf(picked)  got == Total * picked[i] IN
       /\ got - share < Total /\ share - got <= (Size - 1) * Total
       /\ SumOf(picked) % Total = 0 => got = share
  /\ best # None /\ next > Size => inflight[best] <= least
=============================================================================
