---------------------------- MODULE ServicesProofs ----------------------------
(***************************************************************************)
(* Proofs about the services beside a turn, for any number of requests,    *)
(* sessions, servers, spans, writers, instances and tool calls, and any    *)
(* limits.  Each service has an inductive invariant of its own: RateInv,   *)
(* QuotaInv, AccountsInv, McpInv, TraceInv, LogInv, BalanceInv and         *)
(* CollectInv.  For each there is a lemma that it holds at the beginning   *)
(* (RateInit ...), one that every step keeps it (RateKept ...) and one     *)
(* that it implies what the runs check (RateBound ...).  The last section  *)
(* puts them together to theorems about Services.                          *)
(***************************************************************************)
EXTENDS Services, FiniteSetTheorems, SequenceTheorems, WellFoundedInduction, TLAPS
-----------------------------------------------------------------------------
\* What the components call the size of a set is the size of the set.
LEMMA QuotaCounts ==
  \A S : (Quota!IsFiniteSet(S) <=> IsFiniteSet(S)) /\ Quota!Cardinality(S) = Cardinality(S)
  BY DEF Quota!IsFiniteSet, IsFiniteSet, Quota!Cardinality, Cardinality

LEMMA UsersCounts ==
  \A S : (Users!IsFiniteSet(S) <=> IsFiniteSet(S)) /\ Users!Cardinality(S) = Cardinality(S)
  BY DEF Users!IsFiniteSet, IsFiniteSet, Users!Cardinality, Cardinality

LEMMA TraceCounts ==
  \A S : (Trace!IsFiniteSet(S) <=> IsFiniteSet(S)) /\ Trace!Cardinality(S) = Cardinality(S)
  BY DEF Trace!IsFiniteSet, IsFiniteSet, Trace!Cardinality, Cardinality

LEMMA CollectCounts ==
  \A S : (Collect!IsFiniteSet(S) <=> IsFiniteSet(S)) /\ Collect!Cardinality(S) = Cardinality(S)
  BY DEF Collect!IsFiniteSet, IsFiniteSet, Collect!Cardinality, Cardinality
-----------------------------------------------------------------------------
(* Token buckets (RateLimit). In every store, what has been granted and what *)
(* is left in the bucket are paid for by the buckets made full and the ticks *)
(* since, with the ticks by which a stamp was behind added: a request whose  *)
(* stamp is older than the bucket sets its clock back and lets the same      *)
(* ticks be paid once more.                                                  *)

\* What the buckets made full and the ticks up to t have put into a store.
Refills(s, t) == Capacity * fresh[s] + Refill * (t + setBack[s])

\* What was granted, and what is left, is covered by what was put in.
RateInv ==
  /\ Rate!RateTypeOK
  /\ bucket = [s \in Rate!Stores |-> bucket[s]]
  /\ \A r \in Requests : stamp[r] <= rateClock
  /\ \A s \in Rate!Stores :
       /\ fresh[s] = 0 => bucket[s] = None /\ granted[s] = 0
       /\ granted[s] * Cost <= Refills(s, rateClock)
       /\ bucket[s] # None =>
            granted[s] * Cost + bucket[s].tokens <= Refills(s, bucket[s].last)

\* Arithmetic the solver does not find by itself.
LEMMA Monotone ==
  ASSUME NEW k \in Nat, NEW a \in Int, NEW b \in Int, a <= b
  PROVE  k * a <= k * b /\ k * (b - a) = k * b - k * a /\ k * (b - a) \in Nat
<1>1. b - a \in Nat
  OBVIOUS
<1>2. k * (b - a) \in Nat
  BY <1>1, SMT
<1>3. k * (b - a) = k * b - k * a
  BY SMT
<1>. QED
  BY <1>2, <1>3

LEMMA Gain ==
  ASSUME NEW g \in Int, NEW p \in Int, NEW q \in Int, NEW x \in Int, NEW c \in Int, NEW d \in
           Int,
         g + p <= c + q, x <= p + d
  PROVE  g + x <= c + (q + d)
  OBVIOUS

LEMMA RateInit ==
  ASSUME Rate!RateAssumption, Rate!Init
  PROVE  RateInv
  BY DEF Rate!RateAssumption, Rate!Init, RateInv, Rate!RateTypeOK, Rate!Stores, Refills

LEMMA RateTick ==
  ASSUME Rate!RateAssumption, RateInv, Rate!Tick
  PROVE  RateInv'
<1>1. /\ rateClock' = rateClock + 1 /\ rateClock < MaxClock
      /\ UNCHANGED <<bucket, rateAt, stamp, granted, fresh, setBack>>
  BY DEF Rate!Tick, Rate!history
<1>2. \A s \in Rate!Stores : Refills(s, rateClock) <= Refills(s, rateClock + 1)
  <2>. SUFFICES ASSUME NEW s \in Rate!Stores
                PROVE  Refills(s, rateClock) <= Refills(s, rateClock + 1)
    OBVIOUS
  <2>1. /\ rateClock \in Nat /\ setBack[s] \in Nat /\ fresh[s] \in Nat
        /\ Capacity \in Nat /\ Refill \in Nat
    BY DEF RateInv, Rate!RateTypeOK, Rate!RateAssumption
  <2>2. Refill * (rateClock + setBack[s]) <= Refill * (rateClock + 1 + setBack[s])
    <3>1. /\ rateClock + setBack[s] \in Int /\ rateClock + 1 + setBack[s] \in Int
          /\ rateClock + setBack[s] <= rateClock + 1 + setBack[s]
      BY <2>1
    <3>. QED
      BY <2>1, <3>1, Monotone, Zenon
  <2>. QED
    BY <2>1, <2>2 DEF Refills
<1>3. \A s \in Rate!Stores : Refills(s, rateClock) \in Int /\ Refills(s, rateClock + 1) \in Int
  BY DEF Refills, RateInv, Rate!RateTypeOK, Rate!RateAssumption
<1>4. Rate!RateTypeOK'
  BY <1>1 DEF RateInv, Rate!RateTypeOK, Rate!RateAssumption
<1>6. \A s \in Rate!Stores : granted[s] * Cost \in Int
  BY DEF RateInv, Rate!RateTypeOK, Rate!RateAssumption
<1>7. \A s \in Rate!Stores : granted[s] * Cost <= Refills(s, rateClock + 1)
  BY <1>2, <1>3, <1>6 DEF RateInv
<1>8. bucket' = [s \in Rate!Stores |-> bucket'[s]] /\ \A r \in Requests : stamp'[r] <= rateClock'
  BY <1>1 DEF RateInv, Rate!RateTypeOK
<1>. QED
  <2>. SUFFICES ASSUME NEW s \in Rate!Stores
                PROVE  /\ fresh'[s] = 0 => bucket'[s] = None /\ granted'[s] = 0
                       /\ granted'[s] * Cost <= Refills(s, rateClock)'
                       /\ bucket'[s] # None =>
                            granted'[s] * Cost + bucket'[s].tokens <= Refills(s, bucket[s].last)'
    BY <1>4, <1>8 DEF RateInv
  <2>1. Refills(s, rateClock)' = Refills(s, rateClock + 1)
    BY <1>1 DEF Refills
  <2>2. Refills(s, bucket[s].last)' = Refills(s, bucket[s].last)
    BY <1>1 DEF Refills
  <2>. QED
    BY <1>1, <1>7, <2>1, <2>2 DEF RateInv

\* What a bucket gains by a request, whatever its stamp.
LEMMA Taken ==
  ASSUME Rate!RateAssumption, RateInv, NEW s \in Rate!Stores, NEW t \in 0 .. rateClock,
           Rate!Take(s, t)
  PROVE  /\ bucket' = [bucket EXCEPT ![s] = bucket'[s]]
         /\ bucket'[s].tokens \in 0 .. Capacity
         /\ bucket'[s].last = t /\ bucket'[s].written = rateClock
         /\ fresh' = [fresh EXCEPT ![s] = fresh'[s]] /\ fresh'[s] \in Nat \ {0}
         /\ setBack' = [setBack EXCEPT ![s] = setBack'[s]] /\ setBack'[s] \in Nat
         /\ granted[s] * Cost + Rate!Refilled(s, t) <= Capacity * fresh'[s] + Refill * (t + setBack'[s])
         /\ Rate!Refilled(s, t) \in 0 .. Capacity
         /\ bucket'[s].tokens = IF Rate!Refilled(s, t) >= Cost THEN Rate!Refilled(s, t) - Cost ELSE Rate!Refilled(s, t)
<1>1. /\ rateClock \in Nat /\ t \in Nat /\ t <= rateClock /\ Capacity \in Nat \ {0}
      /\ Refill \in Nat \ {0}
      /\ Cost \in Nat \ {0} /\ granted[s] \in Nat /\ fresh[s] \in Nat /\ setBack[s] \in Nat
      /\ fresh \in [Rate!Stores -> Nat] /\ setBack \in [Rate!Stores -> Nat]
      /\ bucket = [x \in Rate!Stores |-> bucket[x]]
  BY DEF RateInv, Rate!RateTypeOK, Rate!RateAssumption
<1>2. granted[s] * Cost \in Int /\ Capacity * fresh[s] \in Int
  BY <1>1
<1>3. bucket'[s] = [tokens |-> IF Rate!Refilled(s, t) >= Cost THEN Rate!Refilled(s, t) - Cost ELSE Rate!Refilled(s, t),
                    written |-> rateClock, last |-> t]
  BY <1>1 DEF Rate!Take
<1>4. /\ Rate!Refilled(s, t) \in 0 .. Capacity
      /\ fresh'[s] \in Nat \ {0} /\ setBack'[s] \in Nat
      /\ granted[s] * Cost + Rate!Refilled(s, t) <= Capacity * fresh'[s] + Refill * (t + setBack'[s])
  <2>1. CASE ~Rate!Found(s)
    <3>1. /\ Rate!Refilled(s, t) = Capacity /\ fresh'[s] = fresh[s] + 1
          /\ setBack'[s] = setBack[s] + rateClock - t
      BY <1>1, <2>1 DEF Rate!Take, Rate!Noted, Rate!Refilled
    <3>2. granted[s] * Cost <= Capacity * fresh[s] + Refill * (rateClock + setBack[s])
      BY DEF RateInv, Refills
    <3>3. Capacity * (fresh[s] + 1) = Capacity * fresh[s] + Capacity
      BY <1>1
    <3>4. t + setBack'[s] = rateClock + setBack[s]
      BY <1>1, <3>1
    <3>5. Refill * (rateClock + setBack[s]) \in Int
      BY <1>1
    <3>. QED
      BY <1>1, <1>2, <3>1, <3>2, <3>3, <3>4, <3>5
  <2>2. CASE Rate!Found(s)
    <3>. DEFINE tokens == bucket[s].tokens
                last == bucket[s].last
    <3>1. /\ bucket[s] # None /\ fresh[s] # 0 /\ tokens \in 0 .. Capacity
          /\ last \in 0 .. rateClock
          /\ granted[s] * Cost + tokens <= Capacity * fresh[s] + Refill * (last + setBack[s])
      BY <2>2 DEF Rate!Found, RateInv, Rate!RateTypeOK, Refills
    <3>2. /\ fresh'[s] = fresh[s]
          /\ setBack'[s] = IF t < last THEN setBack[s] + last - t ELSE setBack[s]
          /\ Rate!Refilled(s, t) = IF t > last THEN Rate!Least(Capacity, tokens + Refill * (t - last)) ELSE tokens
      BY <1>1, <2>2 DEF Rate!Take, Rate!Noted, Rate!Refilled
    <3>. HIDE DEF tokens, last
    <3>3. CASE t > last
      <4>1. Refill * (t - last) \in Nat
        BY <1>1, <3>1, <3>3, Monotone
      <4>2. /\ Rate!Refilled(s, t) \in 0 .. Capacity
            /\ Rate!Refilled(s, t) <= tokens + Refill * (t - last)
        BY <1>1, <3>1, <3>2, <3>3, <4>1 DEF Rate!Least
      <4>3. /\ Refill * (t + setBack[s]) = Refill * (last + setBack[s]) + Refill * (t - last)
            /\ Refill * (last + setBack[s]) \in Int /\ Refill * (t + setBack[s]) \in Int
        BY <1>1, <3>1
      <4>4. setBack'[s] = setBack[s]
        BY <1>1, <3>1, <3>2, <3>3
      <4>5. granted[s] * Cost + Rate!Refilled(s, t)
              <= Capacity * fresh[s] + (Refill * (last + setBack[s]) + Refill * (t - last))
        <5>1. tokens \in Int /\ Rate!Refilled(s, t) \in Int /\ Refill * (t - last) \in Int
          BY <1>1, <3>1, <4>1, <4>2
        <5>. QED
          BY <1>2, <3>1, <4>2, <4>3, <5>1, Gain
      <4>6. fresh'[s] = fresh[s] /\ fresh'[s] \in Nat \ {0} /\ setBack'[s] \in Nat
        BY <1>1, <3>1, <3>2, <4>4
      <4>. QED
        BY <4>2, <4>3, <4>4, <4>5, <4>6
    <3>4. CASE t <= last
      <4>1. t + setBack'[s] = last + setBack[s] /\ setBack'[s] \in Nat
        BY <1>1, <3>1, <3>2, <3>4
      <4>2. Rate!Refilled(s, t) = tokens
        BY <1>1, <3>1, <3>2, <3>4
      <4>3. Refill * (t + setBack'[s]) = Refill * (last + setBack[s])
        BY <4>1
      <4>. QED
        BY <1>1, <3>1, <3>2, <4>1, <4>2, <4>3
    <3>. QED
      BY <1>1, <3>1, <3>3, <3>4
  <2>. QED
    BY <2>1, <2>2
<1>5. /\ bucket' = [bucket EXCEPT ![s] = bucket'[s]]
      /\ fresh' = [fresh EXCEPT ![s] = fresh'[s]]
      /\ setBack' = [setBack EXCEPT ![s] = setBack'[s]]
  BY <1>1 DEF Rate!Take, Rate!Noted
<1>. QED
  BY <1>1, <1>3, <1>4, <1>5

\* So a bucket that is written back keeps its bound.
LEMMA WrittenBack ==
  ASSUME Rate!RateAssumption, RateInv, NEW s \in Rate!Stores, NEW t \in 0 .. rateClock,
           Rate!Take(s, t), rateClock' = rateClock,
         stamp' = stamp, rateAt' \in [Requests -> {"coming", "stamped", "degraded", "admitted", "refused"}],
         \/ granted' = granted
         \/ Rate!Refilled(s, t) >= Cost /\ granted' = [granted EXCEPT ![s] = @ + 1]
  PROVE  RateInv'
<1>1. /\ rateClock \in Nat /\ t \in Nat /\ t <= rateClock /\ Capacity \in Nat \ {0}
      /\ Refill \in Nat \ {0}
      /\ Cost \in Nat \ {0} /\ granted \in [Rate!Stores -> Nat]
      /\ fresh \in [Rate!Stores -> Nat] /\ setBack \in [Rate!Stores -> Nat]
      /\ bucket = [x \in Rate!Stores |-> bucket[x]]
  BY DEF RateInv, Rate!RateTypeOK, Rate!RateAssumption
<1>2. /\ bucket' = [bucket EXCEPT ![s] = bucket'[s]]
      /\ fresh' = [fresh EXCEPT ![s] = fresh'[s]] /\ fresh'[s] \in Nat \ {0}
      /\ setBack' = [setBack EXCEPT ![s] = setBack'[s]] /\ setBack'[s] \in Nat
      /\ bucket'[s].last = t /\ bucket'[s].written = rateClock
      /\ bucket'[s].tokens \in 0 .. Capacity
      /\ granted[s] * Cost + Rate!Refilled(s, t) <= Capacity * fresh'[s] + Refill * (t + setBack'[s])
      /\ Rate!Refilled(s, t) \in 0 .. Capacity
      /\ bucket'[s].tokens = IF Rate!Refilled(s, t) >= Cost THEN Rate!Refilled(s, t) - Cost ELSE Rate!Refilled(s, t)
  BY Taken
<1>3. granted' \in [Rate!Stores -> Nat] /\ \A x \in Rate!Stores \ {s} : granted'[x] = granted[x]
  BY <1>1
<1>4. granted'[s] * Cost + bucket'[s].tokens <= Capacity * fresh'[s] + Refill * (t + setBack'[s])
  <2>1. CASE granted' = granted
    <3>1. /\ granted[s] * Cost \in Int
          /\ Capacity * fresh'[s] + Refill * (t + setBack'[s]) \in Int
      BY <1>1, <1>2
    <3>. QED
      BY <1>1, <1>2, <2>1, <3>1
  <2>2. CASE Rate!Refilled(s, t) >= Cost /\ granted' = [granted EXCEPT ![s] = @ + 1]
    <3>1. granted'[s] * Cost = granted[s] * Cost + Cost /\ granted[s] * Cost \in Int
      BY <1>1, <2>2
    <3>2. Capacity * fresh'[s] + Refill * (t + setBack'[s]) \in Int
      BY <1>1, <1>2
    <3>. QED
      BY <1>1, <1>2, <2>2, <3>1, <3>2
  <2>. QED
    BY <2>1, <2>2
<1>5. granted'[s] * Cost <= Capacity * fresh'[s] + Refill * (rateClock + setBack'[s])
  <2>1. Refill * (t + setBack'[s]) <= Refill * (rateClock + setBack'[s])
    BY <1>1, <1>2, Monotone
  <2>2. /\ granted'[s] * Cost \in Int /\ Capacity * fresh'[s] \in Int
        /\ Refill * (t + setBack'[s]) \in Int /\ Refill * (rateClock + setBack'[s]) \in Int
    BY <1>1, <1>2, <1>3
  <2>. QED
    BY <1>2, <1>4, <2>1, <2>2
<1>6. \A x \in Rate!Stores \ {s} : /\ bucket'[x] = bucket[x] /\ fresh'[x] = fresh[x]
                                   /\ setBack'[x] = setBack[x] /\ granted'[x] = granted[x]
  BY <1>1, <1>2, <1>3
<1>7. Rate!RateTypeOK'
  BY <1>1, <1>2, <1>3, <1>6 DEF RateInv, Rate!RateTypeOK
<1>8. bucket' = [x \in Rate!Stores |-> bucket'[x]]
  BY <1>1, <1>2
<1>. QED
  BY <1>1, <1>2, <1>4, <1>5, <1>6, <1>7, <1>8 DEF RateInv, Refills

LEMMA RateKept ==
  ASSUME Rate!RateAssumption, RateInv, Rate!Next
  PROVE  RateInv'
<1>1. CASE Rate!Tick
  BY <1>1, RateTick
<1>2. CASE Rate!ForgetLocal
  <2>1. /\ bucket' = [bucket EXCEPT !["local"] = None]
        /\ UNCHANGED <<rateClock, rateAt, stamp, granted, fresh, setBack>>
    BY <1>2 DEF Rate!ForgetLocal, Rate!history
  <2>2. \A s \in Rate!Stores : bucket'[s] = None \/ bucket'[s] = bucket[s]
    BY <2>1 DEF RateInv
  <2>3. bucket' = [s \in Rate!Stores |-> bucket'[s]]
    BY <2>1 DEF RateInv
  <2>. QED
    BY <2>1, <2>2, <2>3 DEF RateInv, Rate!RateTypeOK, Refills
<1>3. ASSUME NEW r \in Requests, Rate!Arrive(r)
      PROVE  RateInv'
  BY <1>3 DEF Rate!Arrive, Rate!Goto, Rate!history, RateInv, Rate!RateTypeOK, Refills,
     Rate!RateAssumption
<1>4. ASSUME NEW r \in Requests, Rate!RedisSilent(r)
      PROVE  RateInv'
  BY <1>4 DEF Rate!RedisSilent, Rate!Goto, Rate!history, RateInv, Rate!RateTypeOK, Refills
<1>5. ASSUME NEW r \in Requests, NEW s \in Rate!Stores, Rate!Judge(r, s), UNCHANGED <<rateClock, stamp>>
      PROVE  RateInv'
  <2>1. stamp[r] \in 0 .. rateClock
    BY DEF RateInv, Rate!RateTypeOK
  <2>2. rateAt' \in [Requests -> {"coming", "stamped", "degraded", "admitted", "refused"}]
    BY <1>5 DEF Rate!Judge, Rate!Goto, RateInv, Rate!RateTypeOK
  <2>. QED
    BY <1>5, <2>1, <2>2, WrittenBack DEF Rate!Judge
<1>6. ASSUME NEW r \in Requests, Rate!ReplyLost(r)
      PROVE  RateInv'
  <2>1. stamp[r] \in 0 .. rateClock
    BY DEF RateInv, Rate!RateTypeOK
  <2>2. rateAt' \in [Requests -> {"coming", "stamped", "degraded", "admitted", "refused"}]
    BY <1>6 DEF Rate!ReplyLost, Rate!Goto, RateInv, Rate!RateTypeOK
  <2>. QED
    BY <1>6, <2>1, <2>2, WrittenBack DEF Rate!ReplyLost, Rate!Stores
<1>. QED
  BY <1>1, <1>2, <1>3, <1>4, <1>5, <1>6 DEF Rate!Next, Rate!Request, Rate!AskRedis,
     Rate!AskLocal, Rate!Stores

LEMMA RateBound ==
  ASSUME Rate!RateAssumption, RateInv
  PROVE  Rate!RateHolds
  BY DEF RateInv, Rate!RateHolds, Refills, Rate!RateTypeOK, Rate!RateAssumption
-----------------------------------------------------------------------------
(* The quota of a day (TokenQuota). A turn begins only while less than the   *)
(* limit is counted, so what may be counted in the end is bounded by what is *)
(* counted now and the most that the turns under way will add.               *)

\* The turns that may still have something to count.
UnderWay == {x \in Sessions : quotaAt[x] = "answering"}
\* What may be counted in a day: all but one token of the limit as the last turns
\* begin, and what each session then adds.
QuotaAllowed == Limit - 1 + Cardinality(Sessions) * Quota!MaxUsage

\* While no call of the store has failed, what is counted and what is under way
\* stay within that.
QuotaInv ==
  /\ Quota!QuotaTypeOK
  /\ \A d \in Quota!Days : d > day => used[d] = 0 /\ ~missed[d]
  /\ \A d \in Quota!Days : ~missed[d] =>
       /\ used[d] <= QuotaAllowed
       /\ d >= day => used[d] + Cardinality(UnderWay) * Quota!MaxUsage <= QuotaAllowed

\* The bounds of the model as numbers.
LEMMA Largest ==
  ASSUME Quota!QuotaAssumption
  PROVE  Quota!MaxUsage \in Nat /\ \A u \in Usages : u \in Nat /\ u <= Quota!MaxUsage
<1>1. Quota!MaxUsage \in Usages /\ \A u \in Usages : u <= Quota!MaxUsage
  BY DEF Quota!QuotaAssumption, Quota!MaxUsage
<1>. QED
  BY <1>1 DEF Quota!QuotaAssumption

LEMMA Counted ==
  ASSUME Quota!QuotaAssumption
  PROVE  /\ IsFiniteSet(UnderWay) /\ Cardinality(UnderWay) \in Nat
         /\ Cardinality(Sessions) \in Nat /\ Cardinality(UnderWay) <= Cardinality(Sessions)
<1>1. IsFiniteSet(Sessions) /\ UnderWay \in SUBSET Sessions
  BY QuotaCounts DEF Quota!QuotaAssumption, UnderWay
<1>. QED
  BY <1>1, FS_Subset, FS_CardinalityType

LEMMA QuotaMul ==
  ASSUME NEW k \in Nat, NEW a \in Nat, NEW b \in Nat, a <= b
  PROVE  a * k <= b * k /\ a * k \in Nat /\ b * k \in Nat /\ (a + 1) * k = a * k + k
<1>1. b - a \in Nat
  OBVIOUS
<1>2. (b - a) * k \in Nat /\ a * k \in Nat /\ b * k \in Nat
  BY <1>1, SMT
<1>3. (b - a) * k = b * k - a * k /\ (a + 1) * k = a * k + k
  BY SMT
<1>. QED
  BY <1>2, <1>3

LEMMA QuotaInit ==
  ASSUME Quota!QuotaAssumption, Quota!Init
  PROVE  QuotaInv
<1>1. UnderWay = {}
  BY DEF Quota!Init, UnderWay
<1>2. Cardinality(UnderWay) = 0
  BY <1>1, FS_EmptySet
<1>3. QuotaAllowed \in Nat
  <2>1. Cardinality(Sessions) * Quota!MaxUsage \in Nat
    BY Largest, Counted, SMT
  <2>. QED
    BY <2>1 DEF Quota!QuotaAssumption, QuotaAllowed
<1>4. Cardinality(UnderWay) * Quota!MaxUsage = 0
  BY <1>2, Largest
<1>. QED
  BY <1>3, <1>4 DEF Quota!Init, QuotaInv, Quota!QuotaTypeOK, Quota!QuotaAssumption, Quota!Days

LEMMA QuotaBound ==
  ASSUME QuotaInv
  PROVE  Quota!QuotaHolds
  BY QuotaCounts DEF QuotaInv, Quota!QuotaHolds, QuotaAllowed

\* What a step that moves one session makes of the turns under way.
LEMMA QuotaMoved ==
  ASSUME Quota!QuotaAssumption, QuotaInv, NEW x \in Sessions, NEW place, Quota!Goto(x, place)
  PROVE  /\ quotaAt' = [quotaAt EXCEPT ![x] = place]
         /\ place # "answering" => UnderWay' = UnderWay \ {x}
         /\ place # "answering" => Cardinality(UnderWay') * Quota!MaxUsage <= Cardinality(UnderWay) * Quota!MaxUsage
         /\ place # "answering" /\ quotaAt[x] = "answering" =>
              Cardinality(UnderWay') * Quota!MaxUsage + Quota!MaxUsage = Cardinality(UnderWay) * Quota!MaxUsage
         /\ Cardinality(UnderWay') \in Nat /\ Cardinality(UnderWay')  <= Cardinality(Sessions)
         /\ Cardinality(UnderWay') * Quota!MaxUsage <= Cardinality(Sessions) * Quota!MaxUsage
         /\ Cardinality(UnderWay') * Quota!MaxUsage \in Nat
         /\ Cardinality(UnderWay) * Quota!MaxUsage \in Nat
         /\ Cardinality(Sessions) * Quota!MaxUsage \in Nat
<1>1. /\ quotaAt' = [quotaAt EXCEPT ![x] = place]
      /\ quotaAt \in [Sessions -> {"idle", "checking", "answering"}]
  BY DEF Quota!Goto, QuotaInv, Quota!QuotaTypeOK
<1>2. place # "answering" => UnderWay' = UnderWay \ {x}
  BY <1>1 DEF UnderWay
<1>3. /\ IsFiniteSet(UnderWay') /\ Cardinality(UnderWay') \in Nat
      /\ Cardinality(UnderWay') <= Cardinality(Sessions)
  <2>1. IsFiniteSet(Sessions) /\ UnderWay' \in SUBSET Sessions
    BY QuotaCounts DEF Quota!QuotaAssumption, UnderWay
  <2>. QED
    BY <2>1, FS_Subset, FS_CardinalityType
<1>4. place # "answering" => Cardinality(UnderWay') = IF quotaAt[x] = "answering" THEN Cardinality(UnderWay) - 1
                                                      ELSE Cardinality(UnderWay)
  <2>1. x \in UnderWay <=> quotaAt[x] = "answering"
    BY DEF UnderWay
  <2>2. Cardinality(UnderWay \ {x}) = IF x \in UnderWay THEN Cardinality(UnderWay) - 1
                                      ELSE Cardinality(UnderWay)
    BY Counted, FS_RemoveElement
  <2>. QED
    BY <1>2, <2>1, <2>2
<1>5. Quota!MaxUsage \in Nat /\ Cardinality(UnderWay) \in Nat /\ Cardinality(Sessions) \in Nat
  BY Largest, Counted
<1>6. /\ Cardinality(UnderWay') * Quota!MaxUsage \in Nat
      /\ Cardinality(UnderWay) * Quota!MaxUsage \in Nat
      /\ Cardinality(Sessions) * Quota!MaxUsage \in Nat
      /\ Cardinality(UnderWay') * Quota!MaxUsage <= Cardinality(Sessions) * Quota!MaxUsage
  BY <1>3, <1>5, QuotaMul
<1>7. place # "answering" => Cardinality(UnderWay') * Quota!MaxUsage <= Cardinality(UnderWay) * Quota!MaxUsage
  BY <1>3, <1>4, <1>5, QuotaMul
<1>8. place # "answering" /\ quotaAt[x] = "answering" =>
        Cardinality(UnderWay') * Quota!MaxUsage + Quota!MaxUsage = Cardinality(UnderWay) * Quota!MaxUsage
  <2>. SUFFICES ASSUME place # "answering", quotaAt[x] = "answering"
                PROVE  Cardinality(UnderWay') * Quota!MaxUsage + Quota!MaxUsage = Cardinality(UnderWay) * Quota!MaxUsage
    OBVIOUS
  <2>1. Cardinality(UnderWay) = Cardinality(UnderWay') + 1
    BY <1>3, <1>4, <1>5
  <2>. QED
    BY <1>3, <1>5, <2>1, QuotaMul
<1>. QED
  BY <1>1, <1>2, <1>3, <1>6, <1>7, <1>8

\* Where nothing is counted and no more turns are under way, the bound stays.
LEMMA NothingCounted ==
  ASSUME Quota!QuotaAssumption, QuotaInv, Quota!QuotaTypeOK',
         UNCHANGED <<day, used, missed>>,
         Cardinality(UnderWay') * Quota!MaxUsage <= Cardinality(UnderWay) * Quota!MaxUsage,
         Cardinality(UnderWay') * Quota!MaxUsage \in Nat, Cardinality(UnderWay) * Quota!MaxUsage \in Nat,
         Cardinality(Sessions) * Quota!MaxUsage \in Nat
  PROVE  QuotaInv'
<1>1. QuotaAllowed' = QuotaAllowed /\ QuotaAllowed \in Int
  BY DEF QuotaAllowed, Quota!QuotaAssumption
<1>2. \A d \in Quota!Days : used[d] \in Nat
  BY DEF QuotaInv, Quota!QuotaTypeOK
<1>. QED
  BY <1>1, <1>2 DEF QuotaInv

LEMMA QuotaKept ==
  ASSUME Quota!QuotaAssumption, QuotaInv, Quota!Next
  PROVE  QuotaInv'
<1>1. CASE Quota!Midnight
  <2>1. /\ day < MaxDay /\ day' = day + 1
        /\ UNCHANGED <<storeUp, used, local, localDay, quotaAt, turns, missed>>
    BY <1>1 DEF Quota!Midnight
  <2>2. UnderWay' = UnderWay /\ QuotaAllowed' = QuotaAllowed
    BY <2>1 DEF UnderWay, QuotaAllowed
  <2>3. Quota!QuotaTypeOK' /\ day \in Quota!Days /\ day + 1 \in Quota!Days
    BY <2>1 DEF QuotaInv, Quota!QuotaTypeOK, Quota!Days, Quota!QuotaAssumption
  <2>. QED
    BY <2>1, <2>2, <2>3 DEF QuotaInv, Quota!QuotaTypeOK, Quota!Days, Quota!QuotaAssumption
<1>2. CASE Quota!Switch
  BY <1>2 DEF Quota!Switch, QuotaInv, Quota!QuotaTypeOK, UnderWay, QuotaAllowed
<1>3. ASSUME NEW x \in Sessions, Quota!Begin(x)
      PROVE  QuotaInv'
  <2>1. /\ turns < MaxTurns /\ turns' = turns + 1
        /\ UNCHANGED <<day, storeUp, used, local, localDay, missed>>
    BY <1>3 DEF Quota!Begin
  <2>2. Quota!Goto(x, "checking")
    BY <1>3 DEF Quota!Begin
  <2>3. /\ quotaAt' = [quotaAt EXCEPT ![x] = "checking"]
        /\ Cardinality(UnderWay') * Quota!MaxUsage <= Cardinality(UnderWay) * Quota!MaxUsage
        /\ Cardinality(UnderWay') * Quota!MaxUsage \in Nat
        /\ Cardinality(UnderWay) * Quota!MaxUsage \in Nat
        /\ Cardinality(Sessions) * Quota!MaxUsage \in Nat
    BY <2>2, QuotaMoved
  <2>4. Quota!QuotaTypeOK'
    BY <2>1, <2>3 DEF QuotaInv, Quota!QuotaTypeOK, Quota!QuotaAssumption
  <2>. QED
    BY <2>1, <2>3, <2>4, NothingCounted
<1>4. ASSUME NEW x \in Sessions, Quota!PreCheck(x)
      PROVE  QuotaInv'
  <2>1. /\ missed' = [missed EXCEPT ![day] = @ \/ ~storeUp]
        /\ UNCHANGED <<day, storeUp, used, local, localDay, turns>>
    BY <1>4 DEF Quota!PreCheck
  <2>2. CASE storeUp /\ used[day] >= Limit
    <3>1. Quota!Goto(x, "idle")
      BY <1>4, <2>2 DEF Quota!PreCheck
    <3>2. missed' = missed
      BY <2>1, <2>2 DEF QuotaInv, Quota!QuotaTypeOK
    <3>3. /\ quotaAt' = [quotaAt EXCEPT ![x] = "idle"]
          /\ Cardinality(UnderWay') * Quota!MaxUsage <= Cardinality(UnderWay) * Quota!MaxUsage
          /\ Cardinality(UnderWay') * Quota!MaxUsage \in Nat
          /\ Cardinality(UnderWay) * Quota!MaxUsage \in Nat
          /\ Cardinality(Sessions) * Quota!MaxUsage \in Nat
      BY <3>1, QuotaMoved
    <3>4. Quota!QuotaTypeOK'
      BY <2>1, <3>2, <3>3 DEF QuotaInv, Quota!QuotaTypeOK, Quota!QuotaAssumption
    <3>. QED
      BY <2>1, <3>2, <3>3, <3>4, NothingCounted
  <2>3. CASE ~(storeUp /\ used[day] >= Limit)
    <3>1. Quota!Goto(x, "answering")
      BY <1>4, <2>3 DEF Quota!PreCheck
    <3>2. /\ quotaAt' = [quotaAt EXCEPT ![x] = "answering"]
          /\ Cardinality(UnderWay') * Quota!MaxUsage \in Nat
          /\ Cardinality(UnderWay) * Quota!MaxUsage \in Nat
          /\ Cardinality(UnderWay') * Quota!MaxUsage <= Cardinality(Sessions) * Quota!MaxUsage
          /\ Cardinality(Sessions) * Quota!MaxUsage \in Nat
      BY <3>1, QuotaMoved
    <3>3. Quota!QuotaTypeOK'
      BY <2>1, <3>2 DEF QuotaInv, Quota!QuotaTypeOK, Quota!QuotaAssumption
    <3>4. /\ day \in Quota!Days
          /\ \A d \in Quota!Days : missed'[d] = IF d = day THEN missed[d] \/ ~storeUp ELSE missed[d]
      BY <2>1 DEF QuotaInv, Quota!QuotaTypeOK
    <3>5. /\ QuotaAllowed' = QuotaAllowed /\ QuotaAllowed \in Int
          /\ Limit - 1 + Cardinality(Sessions) * Quota!MaxUsage = QuotaAllowed
      BY <3>2 DEF QuotaAllowed, Quota!QuotaAssumption
    <3>6. ASSUME NEW d \in Quota!Days, ~missed'[d], d >= day
          PROVE  used[d] + Cardinality(UnderWay') * Quota!MaxUsage <= QuotaAllowed
      <4>1. used[d] \in Nat /\ used[d] <= Limit - 1
        <5>1. CASE d = day
          <6>1. storeUp /\ ~missed[d]
            BY <3>4, <3>6, <5>1 DEF QuotaInv, Quota!QuotaTypeOK
          <6>2. used[d] \in Nat
            BY <6>1 DEF QuotaInv, Quota!QuotaTypeOK
          <6>. QED
            BY <2>3, <5>1, <6>1, <6>2 DEF Quota!QuotaAssumption
        <5>2. CASE d > day
          BY <5>2 DEF QuotaInv, Quota!QuotaAssumption
        <5>. QED
          BY <3>6, <5>1, <5>2 DEF Quota!Days, QuotaInv, Quota!QuotaTypeOK
      <4>. QED
        BY <3>2, <3>5, <4>1 DEF Quota!QuotaAssumption
    <3>7. \A d \in Quota!Days : ~missed'[d] => ~missed[d]
      BY <3>4 DEF QuotaInv, Quota!QuotaTypeOK
    <3>8. \A d \in Quota!Days : d > day => ~missed'[d]
      BY <3>4 DEF QuotaInv, Quota!QuotaTypeOK, Quota!Days
    <3>. QED
      BY <2>1, <3>3, <3>5, <3>6, <3>7, <3>8 DEF QuotaInv
  <2>. QED
    BY <2>2, <2>3
<1>5. ASSUME NEW x \in Sessions, Quota!NothingToRecord(x)
      PROVE  QuotaInv'
  <2>1. /\ UNCHANGED <<day, storeUp, used, local, localDay, turns, missed>>
        /\ Quota!Goto(x, "idle")
    BY <1>5 DEF Quota!NothingToRecord
  <2>2. /\ quotaAt' = [quotaAt EXCEPT ![x] = "idle"]
        /\ Cardinality(UnderWay') * Quota!MaxUsage <= Cardinality(UnderWay) * Quota!MaxUsage
        /\ Cardinality(UnderWay') * Quota!MaxUsage \in Nat
        /\ Cardinality(UnderWay) * Quota!MaxUsage \in Nat
        /\ Cardinality(Sessions) * Quota!MaxUsage \in Nat
    BY <2>1, QuotaMoved
  <2>3. Quota!QuotaTypeOK'
    BY <2>1, <2>2 DEF QuotaInv, Quota!QuotaTypeOK, Quota!QuotaAssumption
  <2>. QED
    BY <2>1, <2>2, <2>3, NothingCounted
<1>6. ASSUME NEW x \in Sessions, NEW tokens \in Usages, Quota!Record(x, tokens)
      PROVE  QuotaInv'
  <2>1. /\ quotaAt[x] = "answering" /\ Quota!Goto(x, "idle")
        /\ UNCHANGED <<day, storeUp, turns>>
    BY <1>6 DEF Quota!Record
  <2>2. /\ quotaAt' = [quotaAt EXCEPT ![x] = "idle"]
        /\ Cardinality(UnderWay') * Quota!MaxUsage + Quota!MaxUsage = Cardinality(UnderWay) * Quota!MaxUsage
        /\ Cardinality(UnderWay') * Quota!MaxUsage \in Nat
        /\ Cardinality(UnderWay) * Quota!MaxUsage \in Nat
        /\ Cardinality(Sessions) * Quota!MaxUsage \in Nat
    BY <2>1, QuotaMoved
  <2>3. tokens \in Nat /\ tokens <= Quota!MaxUsage /\ Quota!MaxUsage \in Nat
    BY Largest
  <2>4. day \in Quota!Days /\ used \in [Quota!Days -> Nat] /\ missed \in [Quota!Days -> BOOLEAN]
    BY DEF QuotaInv, Quota!QuotaTypeOK
  <2>5. /\ storeUp => Quota!QuotaIncr(tokens) /\ UNCHANGED <<local, localDay, missed>>
        /\ ~storeUp => /\ local' = tokens + (IF localDay = day THEN local ELSE 0) /\ localDay' = day
                       /\ missed' = [missed EXCEPT ![day] = TRUE]
                       /\ Quota!QuotaIncr(tokens) \/ UNCHANGED used
    BY <1>6 DEF Quota!Record, Quota!AddLocal
  <2>6. /\ used' \in [Quota!Days -> Nat] /\ missed' \in [Quota!Days -> BOOLEAN]
        /\ \A d \in Quota!Days \ {day} : used'[d] = used[d] /\ (missed'[d] <=> missed[d])
        /\ ~missed'[day] => ~missed[day] /\ used'[day] = used[day] + tokens
    <3>1. CASE storeUp
      BY <2>3, <2>4, <2>5, <3>1 DEF Quota!QuotaIncr
    <3>2. CASE ~storeUp
      <4>1. missed' \in [Quota!Days -> BOOLEAN] /\ missed'[day]
            /\ \A d \in Quota!Days \ {day} : missed'[d] = missed[d]
        BY <2>4, <2>5, <3>2
      <4>2. used' \in [Quota!Days -> Nat] /\ \A d \in Quota!Days \ {day} : used'[d] = used[d]
        BY <2>3, <2>4, <2>5, <3>2 DEF Quota!QuotaIncr
      <4>. QED
        BY <4>1, <4>2
    <3>. QED
      BY <3>1, <3>2
  <2>7. Quota!QuotaTypeOK'
    <3>1. local' \in Nat /\ localDay' \in 0 .. day
      BY <2>3, <2>4, <2>5 DEF QuotaInv, Quota!QuotaTypeOK, Quota!Days
    <3>2. quotaAt' \in [Sessions -> {"idle", "checking", "answering"}]
      BY <2>2 DEF QuotaInv, Quota!QuotaTypeOK
    <3>. QED
      BY <2>1, <2>6, <3>1, <3>2 DEF QuotaInv, Quota!QuotaTypeOK, Quota!Days
  <2>8. QuotaAllowed' = QuotaAllowed /\ QuotaAllowed \in Int
    BY <2>2 DEF QuotaAllowed, Quota!QuotaAssumption
  <2>9. \A d \in Quota!Days : d > day => used'[d] = 0 /\ ~missed'[d]
    BY <2>4, <2>6 DEF QuotaInv, Quota!Days
  <2>10. ASSUME NEW d \in Quota!Days, ~missed'[d]
         PROVE  /\ used'[d] <= QuotaAllowed
                /\ d >= day => used'[d] + Cardinality(UnderWay') * Quota!MaxUsage <= QuotaAllowed
    <3>1. /\ ~missed[d] /\ used[d] <= QuotaAllowed /\ used[d] \in Nat
          /\ d >= day => used[d] + Cardinality(UnderWay) * Quota!MaxUsage <= QuotaAllowed
      BY <2>4, <2>6, <2>10 DEF QuotaInv
    <3>2. CASE d = day
      <4>1. used'[d] = used[d] + tokens /\ d >= day
        BY <2>6, <2>10, <3>2 DEF Quota!Days, Quota!QuotaAssumption
      <4>. QED
        BY <2>2, <2>3, <2>8, <3>1, <4>1
    <3>3. CASE d # day
      BY <2>2, <2>3, <2>6, <2>8, <3>1, <3>3
    <3>. QED
      BY <3>2, <3>3
  <2>. QED
    BY <2>1, <2>7, <2>8, <2>9, <2>10 DEF QuotaInv
<1>. QED
  BY <1>1, <1>2, <1>3, <1>4, <1>5, <1>6 DEF Quota!Next, Quota!Turn
-----------------------------------------------------------------------------
(* Captchas and accounts (Accounts). Every code is issued to one sending;    *)
(* the mails keep their distance because the key of the cooldown stands for  *)
(* the last of them; and who has passed the comparison holds a code that the *)
(* captcha no longer carries, unless it was read twice.                      *)

\* The sendings that have their code.
Coded == {s \in Sends : code[s] # None}
\* There is a row for it.
HasRow(r) == \E i \in DOMAIN users : users[i] = r
\* Its code has been compared and held.
Passed(r) == joining[r] \in {"matched", "verified", "inserted"} \/ HasRow(r)

\* A code is issued as it is stored, to one sending.
SendInv ==
  /\ issued = Cardinality(Coded)
  /\ \A s \in Sends : /\ sending[s] \in {"coming", "acquired"} => code[s] = None
                      /\ sending[s] \in {"mailing", "timedout"} => code[s] \in 1 .. issued
  /\ captcha # None => captcha.code \in 1 .. issued

\* The key of the cooldown stands for the last mail.
MailInv ==
  /\ mails # <<>> => cooldown = mails[Len(mails)]
  /\ \A i \in 2 .. Len(mails) : mails[i] - mails[i - 1] >= Cooldown

\* Who registers knows a code from the mail, and has one row at most.
JoinInv ==
  /\ \A r \in Registers : joining[r] # "coming" => given[r] \in mailed
  /\ \A r \in Registers : HasRow(r) => joining[r] \in {"inserted", "done"}
  /\ \A r \in Registers : joining[r] = "inserted" \/ told[r] = "success" => HasRow(r)
  /\ \A i, j \in DOMAIN users : users[i] = users[j] => i = j

\* A code is compared by one, unless two have read it before it was deleted; it is
\* gone from the store once it is verified.
CodeInv ==
  /\ \A r, q \in Registers :
       r # q /\ Passed(r) /\ Passed(q) /\ given[r] = given[q] => given[r] \in shared
  /\ \A r \in Registers :
       Passed(r) /\ joining[r] # "matched" /\ given[r] \notin shared =>
         captcha = None \/ captcha.code # given[r]

AccountsInv == Users!AccountsTypeOK /\ SendInv /\ MailInv /\ JoinInv /\ CodeInv

LEMMA AccountsInit ==
  ASSUME Users!AccountsAssumption, Users!Init
  PROVE  AccountsInv
<1>1. Coded = {}
  BY DEF Users!Init, Coded
<1>2. Cardinality(Coded) = 0
  BY <1>1, FS_EmptySet
<1>3. Cardinality(Sends) \in Nat
  BY FS_CardinalityType, UsersCounts DEF Users!AccountsAssumption
<1>4. Users!AccountsTypeOK
  <2>1. /\ sending \in [Sends -> {"coming", "acquired", "stored", "mailing", "timedout", "done"}]
        /\ joining \in [Registers -> {"coming", "new", "matched", "verified", "inserted", "done"}]
    BY DEF Users!Init
  <2>2. /\ code \in [Sends -> Users!Codes \cup {None}]
        /\ given \in [Registers -> Users!Codes \cup {None}]
    BY DEF Users!Init
  <2>3. told \in [Registers -> Users!Outcomes] /\ shared \subseteq Users!Codes
    BY DEF Users!Init, Users!Outcomes
  <2>4. mails \in Seq(0 .. MaxClock) /\ users \in Seq(Registers)
    BY DEF Users!Init
  <2>5. /\ userClock \in 0 .. MaxClock /\ cooldown \in 0 .. MaxClock \cup {None}
        /\ captcha \in [code : Users!Codes, at : 0 .. MaxClock] \cup {None}
        /\ issued \in 0 .. Cardinality(Sends) /\ mailed \subseteq 1 .. issued
    BY <1>3 DEF Users!Init, Users!AccountsAssumption
  <2>. QED
    BY <2>1, <2>2, <2>3, <2>4, <2>5, UsersCounts DEF Users!AccountsTypeOK
<1>5. users = <<>> /\ mails = <<>> /\ ~ \E r \in Registers : HasRow(r)
  BY DEF Users!Init, HasRow
<1>6. SendInv
  BY <1>2 DEF Users!Init, SendInv
<1>7. MailInv
  BY <1>5 DEF MailInv
<1>8. JoinInv
  BY <1>5 DEF Users!Init, JoinInv
<1>9. CodeInv
  BY <1>5 DEF Users!Init, CodeInv, Passed
<1>. QED
  BY <1>4, <1>6, <1>7, <1>8, <1>9 DEF AccountsInv

LEMMA AccountsBound ==
  ASSUME AccountsInv
  PROVE  Users!AccountsSound
<1>1. \A i \in DOMAIN users : users[i] \in Registers
  BY DEF AccountsInv, Users!AccountsTypeOK
<1>2. \A i \in DOMAIN users : HasRow(users[i]) /\ given[users[i]] \in mailed
  BY <1>1 DEF HasRow, AccountsInv, JoinInv
<1>. QED
  BY <1>1, <1>2 DEF AccountsInv, JoinInv, CodeInv, MailInv, Users!AccountsSound, Passed, HasRow

LEMMA AccountsTypes ==
  ASSUME Users!AccountsAssumption, AccountsInv
  PROVE  /\ IsFiniteSet(Sends) /\ Cardinality(Sends) \in Nat
         /\ issued \in Nat /\ issued <= Cardinality(Sends) /\ 1 .. issued \subseteq Users!Codes
         /\ userClock \in Nat /\ Cooldown \in Nat \ {0} /\ MaxClock \in Nat /\ None \notin Nat
         /\ IsFiniteSet(Coded) /\ Coded \subseteq Sends
<1>1. IsFiniteSet(Sends) /\ Cardinality(Sends) \in Nat
  BY FS_CardinalityType, UsersCounts DEF Users!AccountsAssumption
<1>2. issued \in Nat /\ issued <= Cardinality(Sends) /\ 1 .. issued \subseteq Users!Codes
  BY <1>1, UsersCounts DEF AccountsInv, Users!AccountsTypeOK, Users!Codes
<1>3. userClock \in Nat /\ Cooldown \in Nat \ {0} /\ MaxClock \in Nat /\ None \notin Nat
  BY DEF AccountsInv, Users!AccountsTypeOK, Users!AccountsAssumption
<1>4. Coded \in SUBSET Sends
  BY DEF Coded
<1>. QED
  BY <1>1, <1>2, <1>3, <1>4, FS_Subset

\* A request for a captcha leaves the requests to register alone.
LEMMA SendKeeps ==
  ASSUME Users!AccountsAssumption, AccountsInv, UNCHANGED <<users, joining, given, told,
           shared>>,
         mailed \subseteq mailed',
         \/ captcha' = captcha
         \/ captcha' = [code |-> issued + 1, at |-> userClock]
  PROVE  JoinInv' /\ CodeInv'
<1>1. \A r : HasRow(r)' = HasRow(r) /\ Passed(r)' = Passed(r)
  BY DEF HasRow, Passed
<1>2. JoinInv'
  BY <1>1 DEF AccountsInv, JoinInv
<1>3. \A r \in Registers : Passed(r) => given[r] \in 1 .. issued
  BY DEF Passed, AccountsInv, JoinInv, Users!AccountsTypeOK
<1>4. \A r \in Registers : Passed(r) => given[r] # issued + 1
  BY <1>3, AccountsTypes
<1>5. CodeInv'
  BY <1>1, <1>4 DEF AccountsInv, CodeInv
<1>. QED
  BY <1>2, <1>5

LEMMA AcquireInv ==
  ASSUME Users!AccountsAssumption, AccountsInv, NEW s \in Sends, Users!Acquire(s)
  PROVE  AccountsInv'
<1>1. /\ sending[s] = "coming"
      /\ UNCHANGED <<userClock, users, joining, given, told, shared, captcha, issued, mailed, code>>
      /\ \/ /\ ~Users!Cooling /\ cooldown' = userClock /\ mails' = Append(mails, userClock)
            /\ sending' = [sending EXCEPT ![s] = "acquired"]
         \/ sending' = [sending EXCEPT ![s] = "done"] /\ UNCHANGED <<cooldown, mails>>
  BY DEF Users!Acquire, Users!sendRest
<1>2. JoinInv' /\ CodeInv'
  BY <1>1, SendKeeps
<1>3. sending' \in [Sends -> {"coming", "acquired", "stored", "mailing", "timedout", "done"}]
  BY <1>1 DEF AccountsInv, Users!AccountsTypeOK
<1>4. Coded' = Coded
  BY <1>1 DEF Coded
<1>5. SendInv'
  BY <1>1, <1>4 DEF AccountsInv, Users!AccountsTypeOK, SendInv
<1>6. /\ mails' \in Seq(0 .. MaxClock) /\ cooldown' \in 0 .. MaxClock \cup {None} /\ MailInv'
  <2>1. CASE UNCHANGED <<cooldown, mails>>
    BY <2>1 DEF AccountsInv, Users!AccountsTypeOK, MailInv
  <2>2. CASE ~Users!Cooling /\ cooldown' = userClock /\ mails' = Append(mails, userClock)
    <3>1. /\ mails \in Seq(0 .. MaxClock) /\ userClock \in 0 .. MaxClock
          /\ cooldown \in 0 .. MaxClock \cup {None}
      BY DEF AccountsInv, Users!AccountsTypeOK
    <3>2. /\ mails' \in Seq(0 .. MaxClock) /\ Len(mails') = Len(mails) + 1
          /\ Len(mails) \in Nat
          /\ \A i \in 1 .. Len(mails) : mails'[i] = mails[i] /\ mails[i] \in 0 .. MaxClock
          /\ mails'[Len(mails) + 1] = userClock
      <4>1. mails' = Append(mails, userClock)
        BY <2>2
      <4>2. mails' \in Seq(0 .. MaxClock) /\ Len(mails') = Len(mails) + 1
        BY <3>1, <4>1, AppendProperties
      <4>3. /\ Len(mails) \in Nat /\ mails'[Len(mails) + 1] = userClock
            /\ \A i \in 1 .. Len(mails) : mails'[i] = mails[i]
        BY <3>1, <4>1, AppendProperties
      <4>4. \A i \in 1 .. Len(mails) : mails[i] \in 0 .. MaxClock
        BY <3>1, ElementOfSeq
      <4>. QED
        BY <4>2, <4>3, <4>4
    <3>3. ASSUME NEW i \in 2 .. Len(mails')
          PROVE  mails'[i] - mails'[i - 1] >= Cooldown
      <4>1. CASE i <= Len(mails)
        <5>1. i \in 2 .. Len(mails) /\ i \in 1 .. Len(mails) /\ i - 1 \in 1 .. Len(mails)
          BY <3>2, <3>3, <4>1
        <5>. QED
          BY <3>2, <5>1 DEF AccountsInv, MailInv
      <4>2. CASE i = Len(mails) + 1
        <5>1. Len(mails) \in 1 .. Len(mails) /\ mails # <<>> /\ i - 1 = Len(mails)
          BY <3>1, <3>2, <3>3, <4>2
        <5>2. cooldown = mails[Len(mails)] /\ cooldown \in 0 .. MaxClock
          BY <3>2, <5>1 DEF AccountsInv, MailInv
        <5>3. cooldown # None
          BY <5>2, AccountsTypes
        <5>4. ~(userClock - cooldown < Cooldown)
          BY <2>2, <5>3 DEF Users!Cooling
        <5>5. mails'[i] = userClock /\ mails'[i - 1] = cooldown
          BY <3>2, <4>2, <5>1, <5>2
        <5>6. userClock \in Nat /\ cooldown \in Nat /\ Cooldown \in Nat
          BY <5>2, AccountsTypes
        <5>. QED
          BY <5>4, <5>5, <5>6
      <4>. QED
        BY <3>2, <3>3, <4>1, <4>2
    <3>. QED
      BY <2>2, <3>1, <3>2, <3>3 DEF MailInv
  <2>. QED
    BY <1>1, <2>1, <2>2
<1>7. Users!AccountsTypeOK'
  BY <1>1, <1>3, <1>6 DEF AccountsInv, Users!AccountsTypeOK
<1>. QED
  BY <1>2, <1>5, <1>6, <1>7 DEF AccountsInv

LEMMA StoreInv ==
  ASSUME Users!AccountsAssumption, AccountsInv, NEW s \in Sends, NEW ok \in BOOLEAN,
           Users!Store(s, ok)
  PROVE  AccountsInv'
<1>1. /\ sending[s] = "acquired" /\ issued' = issued + 1
      /\ code' = [code EXCEPT ![s] = issued + 1]
      /\ captcha' = IF ok THEN [code |-> issued + 1, at |-> userClock] ELSE captcha
      /\ sending' = [sending EXCEPT ![s] = IF ok THEN "mailing" ELSE "done"]
      /\ UNCHANGED <<userClock, users, joining, given, told, shared, cooldown, mailed, mails>>
  BY DEF Users!Store, Users!sendRest
<1>2. JoinInv' /\ CodeInv'
  BY <1>1, SendKeeps
<1>3. sending' \in [Sends -> {"coming", "acquired", "stored", "mailing", "timedout", "done"}]
  BY <1>1 DEF AccountsInv, Users!AccountsTypeOK
<1>4. issued + 1 # None /\ code \in [Sends -> Users!Codes \cup {None}]
  BY AccountsTypes DEF AccountsInv, Users!AccountsTypeOK
<1>5. s \notin Coded /\ Coded' = Coded \cup {s}
  BY <1>1, <1>4 DEF AccountsInv, SendInv, Coded
<1>6. Cardinality(Coded') = Cardinality(Coded) + 1 /\ Cardinality(Coded') <= Cardinality(Sends)
  <2>1. Cardinality(Coded \cup {s}) = Cardinality(Coded) + 1
    BY <1>5, AccountsTypes, FS_AddElement
  <2>2. Coded \cup {s} \in SUBSET Sends
    BY AccountsTypes
  <2>. QED
    BY <1>5, <2>1, <2>2, AccountsTypes, FS_Subset
<1>7. /\ issued + 1 <= Cardinality(Sends) /\ issued + 1 \in Users!Codes
      /\ issued + 1 \in 1 .. issued'
  BY <1>1, <1>6, AccountsTypes, UsersCounts DEF AccountsInv, SendInv, Users!Codes
<1>8. code' \in [Sends -> Users!Codes \cup {None}]
  BY <1>1, <1>4, <1>7
<1>9. captcha' \in [code : Users!Codes, at : 0 .. MaxClock] \cup {None}
  BY <1>1, <1>7 DEF AccountsInv, Users!AccountsTypeOK
<1>10. issued' \in 0 .. Cardinality(Sends) /\ mailed' \subseteq 1 .. issued'
  BY <1>1, <1>7, AccountsTypes DEF AccountsInv, Users!AccountsTypeOK
<1>11. Users!AccountsTypeOK'
  BY <1>1, <1>3, <1>8, <1>9, <1>10, UsersCounts DEF AccountsInv, Users!AccountsTypeOK
<1>12. SendInv'
  <2>1. \A q \in Sends : /\ code'[q] = IF q = s THEN issued + 1 ELSE code[q]
                         /\ sending'[q] = IF q = s THEN IF ok THEN "mailing" ELSE "done" ELSE sending[q]
    BY <1>1, <1>4 DEF AccountsInv, Users!AccountsTypeOK
  <2>2. 1 .. issued \subseteq 1 .. issued'
    BY <1>1, AccountsTypes
  <2>3. captcha' # None => captcha'.code \in 1 .. issued'
    BY <1>1, <1>7, <2>2 DEF AccountsInv, SendInv
  <2>. QED
    BY <1>1, <1>6, <1>7, <2>1, <2>2, <2>3 DEF AccountsInv, SendInv
<1>13. MailInv'
  BY <1>1 DEF AccountsInv, MailInv
<1>. QED
  BY <1>2, <1>11, <1>12, <1>13 DEF AccountsInv

LEMMA MailingInv ==
  ASSUME Users!AccountsAssumption, AccountsInv, NEW s \in Sends,
         Users!Deliver(s) \/ Users!MailFails(s) \/ Users!MailTimesOut(s)
  PROVE  AccountsInv'
<1>1. /\ sending[s] \in {"mailing", "timedout"}
      /\ \E x \in {"timedout", "done"} : sending' = [sending EXCEPT ![s] = x]
      /\ mailed' = mailed \/ mailed' = mailed \cup {code[s]}
      /\ UNCHANGED <<userClock, users, joining, given, told, shared, cooldown, captcha, issued, mails, code>>
  BY DEF Users!Deliver, Users!MailFails, Users!MailTimesOut, Users!sendRest
<1>2. JoinInv' /\ CodeInv'
  BY <1>1, SendKeeps
<1>3. /\ sending' \in [Sends -> {"coming", "acquired", "stored", "mailing", "timedout", "done"}]
      /\ \A q \in Sends : sending'[q] = sending[q] \/ (q = s /\ sending'[q] \in {"timedout", "done"})
  BY <1>1 DEF AccountsInv, Users!AccountsTypeOK
<1>4. code[s] \in 1 .. issued
  BY <1>1 DEF AccountsInv, SendInv
<1>5. Coded' = Coded
  BY <1>1 DEF Coded
<1>6. SendInv'
  BY <1>1, <1>3, <1>4, <1>5 DEF AccountsInv, SendInv
<1>7. Users!AccountsTypeOK'
  BY <1>1, <1>3, <1>4 DEF AccountsInv, Users!AccountsTypeOK
<1>. QED
  BY <1>1, <1>2, <1>6, <1>7 DEF AccountsInv, MailInv

\* A request to register leaves the requests for a captcha alone.
LEMMA JoinKeeps ==
  ASSUME AccountsInv, UNCHANGED Users!joinRest, captcha' = captcha \/ captcha' = None
  PROVE  SendInv' /\ MailInv'
<1>1. Coded' = Coded
  BY DEF Coded, Users!joinRest
<1>. QED
  BY <1>1 DEF Users!joinRest, AccountsInv, SendInv, MailInv

\* One request to register moves; its row stays.
LEMMA Joins ==
  ASSUME AccountsInv, NEW r \in Registers, users' = users,
         \E x \in {"new", "matched", "verified", "done"} : joining' = [joining EXCEPT ![r] = x]
  PROVE  /\ joining' \in [Registers -> {"coming", "new", "matched", "verified", "inserted", "done"}]
         /\ \A q \in Registers \ {r} : joining'[q] = joining[q]
         /\ joining'[r] \in {"new", "matched", "verified", "done"}
         /\ \A q : HasRow(q)' = HasRow(q)
         /\ \A q \in Registers \ {r} : Passed(q)' = Passed(q)
<1>1. joining \in [Registers -> {"coming", "new", "matched", "verified", "inserted", "done"}]
  BY DEF AccountsInv, Users!AccountsTypeOK
<1>2. \A q : HasRow(q)' = HasRow(q)
  BY DEF HasRow
<1>. QED
  BY <1>1, <1>2 DEF Passed

LEMMA CheckInv ==
  ASSUME Users!AccountsAssumption, AccountsInv, NEW r \in Registers, NEW fails \in BOOLEAN,
           Users!Check(r, fails)
  PROVE  AccountsInv'
<1>1. /\ joining[r] = "coming" /\ UNCHANGED Users!joinRest
      /\ UNCHANGED <<captcha, users, shared>>
      /\ \/ joining' = [joining EXCEPT ![r] = "done"] /\ told' = [told EXCEPT ![r] = "exists"]
         \/ joining' = [joining EXCEPT ![r] = "new"] /\ told' = told
  BY DEF Users!Check, Users!Answer
<1>2. PICK c \in mailed : given' = [given EXCEPT ![r] = c]
  BY DEF Users!Check
<1>3. SendInv' /\ MailInv'
  BY <1>1, JoinKeeps
<1>4. /\ joining' \in [Registers -> {"coming", "new", "matched", "verified", "inserted", "done"}]
      /\ \A q \in Registers \ {r} : joining'[q] = joining[q]
      /\ joining'[r] \in {"new", "done"}
      /\ \A q : HasRow(q)' = HasRow(q)
      /\ \A q \in Registers \ {r} : Passed(q)' = Passed(q)
  <2>1. /\ joining' \in [Registers -> {"coming", "new", "matched", "verified", "inserted", "done"}]
        /\ \A q \in Registers \ {r} : joining'[q] = joining[q]
        /\ \A q : HasRow(q)' = HasRow(q)
        /\ \A q \in Registers \ {r} : Passed(q)' = Passed(q)
    BY <1>1, Joins
  <2>. QED
    BY <1>1, <2>1 DEF AccountsInv, Users!AccountsTypeOK
<1>5. /\ c \in 1 .. issued /\ c \in Users!Codes
      /\ given \in [Registers -> Users!Codes \cup {None}]
  BY AccountsTypes DEF AccountsInv, Users!AccountsTypeOK
<1>6. /\ given' \in [Registers -> Users!Codes \cup {None}] /\ given'[r] = c
      /\ \A q \in Registers \ {r} : given'[q] = given[q]
  BY <1>2, <1>5
<1>7. /\ told' \in [Registers -> Users!Outcomes]
      /\ \A q \in Registers : told'[q] = told[q] \/ told'[q] = "exists"
  BY <1>1 DEF AccountsInv, Users!AccountsTypeOK, Users!Outcomes
<1>8. ~HasRow(r) /\ ~Passed(r)'
  BY <1>1, <1>4 DEF AccountsInv, JoinInv, Passed
<1>9. Users!AccountsTypeOK'
  BY <1>1, <1>4, <1>6, <1>7 DEF AccountsInv, Users!AccountsTypeOK, Users!joinRest
<1>10. JoinInv'
  BY <1>1, <1>2, <1>4, <1>6, <1>7, <1>8 DEF AccountsInv, JoinInv, Users!joinRest
<1>11. CodeInv'
  BY <1>1, <1>4, <1>6, <1>8 DEF AccountsInv, CodeInv
<1>. QED
  BY <1>3, <1>9, <1>10, <1>11 DEF AccountsInv

\* Neither row nor code of a request that fails.
LEMMA FailsInv ==
  ASSUME Users!AccountsAssumption, AccountsInv, NEW r \in Registers, joining[r] \in {"new",
           "verified"},
         NEW outcome \in {"invalid", "busy"}, Users!Answer(r, outcome), UNCHANGED Users!joinRest,
         UNCHANGED <<captcha, users, given, shared>>
  PROVE  AccountsInv'
<1>1. SendInv' /\ MailInv'
  BY JoinKeeps
<1>2. /\ joining' \in [Registers -> {"coming", "new", "matched", "verified", "inserted", "done"}]
      /\ \A q \in Registers \ {r} : joining'[q] = joining[q]
      /\ \A q : HasRow(q)' = HasRow(q)
      /\ \A q \in Registers \ {r} : Passed(q)' = Passed(q)
      /\ joining'[r] = "done"
  BY Joins DEF Users!Answer, AccountsInv, Users!AccountsTypeOK
<1>3. told' \in [Registers -> Users!Outcomes] /\ \A q \in Registers : told'[q] = told[q] \/ told'[q] # "success"
  BY DEF Users!Answer, AccountsInv, Users!AccountsTypeOK, Users!Outcomes
<1>4. ~HasRow(r) /\ ~Passed(r)'
  BY <1>2 DEF AccountsInv, JoinInv, Passed
<1>5. Users!AccountsTypeOK'
  BY <1>2, <1>3 DEF AccountsInv, Users!AccountsTypeOK, Users!joinRest
<1>6. JoinInv'
  BY <1>2, <1>3, <1>4 DEF AccountsInv, JoinInv, Users!joinRest
<1>7. CodeInv'
  BY <1>2, <1>4 DEF AccountsInv, CodeInv
<1>. QED
  BY <1>1, <1>5, <1>6, <1>7 DEF AccountsInv

LEMMA CompareInv ==
  ASSUME Users!AccountsAssumption, AccountsInv, NEW r \in Registers, Users!Compare(r)
  PROVE  AccountsInv'
<1>1. CASE ~(Users!Stands /\ captcha.code = given[r])
  BY <1>1, FailsInv DEF Users!Compare
<1>2. CASE Users!Stands /\ captcha.code = given[r]
  <2>1. /\ joining[r] = "new" /\ joining' = [joining EXCEPT ![r] = "matched"]
        /\ UNCHANGED Users!joinRest /\ UNCHANGED <<captcha, users, given, told>>
        /\ shared' = IF \E q \in Registers \ {r} : joining[q] = "matched" /\ given[q] = given[r]
                     THEN shared \cup {given[r]} ELSE shared
    BY <1>2 DEF Users!Compare
  <2>2. SendInv' /\ MailInv'
    BY <2>1, JoinKeeps
  <2>3. /\ joining' \in [Registers -> {"coming", "new", "matched", "verified", "inserted", "done"}]
        /\ \A q \in Registers \ {r} : joining'[q] = joining[q]
        /\ \A q : HasRow(q)' = HasRow(q)
        /\ \A q \in Registers \ {r} : Passed(q)' = Passed(q)
        /\ joining'[r] = "matched"
    BY <2>1, Joins DEF AccountsInv, Users!AccountsTypeOK
  <2>4. given[r] \in Users!Codes
    BY <2>1, AccountsTypes DEF AccountsInv, JoinInv, Users!AccountsTypeOK
  <2>5. Users!AccountsTypeOK'
    BY <2>1, <2>3, <2>4 DEF AccountsInv, Users!AccountsTypeOK, Users!joinRest
  <2>6. JoinInv'
    BY <2>1, <2>3 DEF AccountsInv, JoinInv, Users!joinRest
  <2>7. ASSUME NEW q \in Registers \ {r}, Passed(q), given[q] = given[r]
        PROVE  given[r] \in shared'
    BY <1>2, <2>1, <2>7 DEF AccountsInv, CodeInv, Users!Stands
  <2>8. CodeInv'
    BY <2>1, <2>3, <2>7 DEF AccountsInv, CodeInv
  <2>. QED
    BY <2>2, <2>5, <2>6, <2>8 DEF AccountsInv
<1>. QED
  BY <1>1, <1>2

LEMMA SpendInv ==
  ASSUME Users!AccountsAssumption, AccountsInv, NEW r \in Registers, Users!Spend(r) \/
           Users!DelFails(r)
  PROVE  AccountsInv'
<1>1. /\ joining[r] = "matched" /\ joining' = [joining EXCEPT ![r] = "verified"]
      /\ UNCHANGED Users!joinRest /\ UNCHANGED <<users, given, told>>
      /\ \/ captcha' = None /\ shared' = shared
         \/ captcha' = captcha /\ shared' = shared \cup {given[r]}
  BY DEF Users!Spend, Users!DelFails
<1>2. SendInv' /\ MailInv'
  BY <1>1, JoinKeeps
<1>3. /\ joining' \in [Registers -> {"coming", "new", "matched", "verified", "inserted", "done"}]
      /\ \A q \in Registers \ {r} : joining'[q] = joining[q]
      /\ \A q : HasRow(q)' = HasRow(q)
      /\ \A q \in Registers \ {r} : Passed(q)' = Passed(q)
      /\ joining'[r] = "verified"
  BY <1>1, Joins DEF AccountsInv, Users!AccountsTypeOK
<1>4. given[r] \in Users!Codes
  BY <1>1, AccountsTypes DEF AccountsInv, JoinInv, Users!AccountsTypeOK
<1>5. Users!AccountsTypeOK'
  BY <1>1, <1>3, <1>4 DEF AccountsInv, Users!AccountsTypeOK, Users!joinRest
<1>6. JoinInv'
  BY <1>1, <1>3 DEF AccountsInv, JoinInv, Users!joinRest
<1>7. Passed(r) /\ Passed(r)'
  BY <1>1, <1>3 DEF Passed
<1>8. CodeInv'
  BY <1>1, <1>3, <1>7 DEF AccountsInv, CodeInv
<1>. QED
  BY <1>2, <1>5, <1>6, <1>8 DEF AccountsInv

LEMMA InsertInv ==
  ASSUME Users!AccountsAssumption, AccountsInv, NEW r \in Registers, NEW ok \in BOOLEAN,
           Users!Insert(r, ok)
  PROVE  AccountsInv'
<1>1. CASE ~ok
  BY <1>1, FailsInv DEF Users!Insert
<1>2. CASE ok
  <2>1. /\ joining[r] = "verified" /\ joining' = [joining EXCEPT ![r] = "inserted"]
        /\ UNCHANGED Users!joinRest /\ UNCHANGED <<captcha, given, told, shared>>
        /\ users' = Append(users, r)
    BY <1>2 DEF Users!Insert
  <2>2. SendInv' /\ MailInv'
    BY <2>1, JoinKeeps
  <2>3. users \in Seq(Registers)
    BY DEF AccountsInv, Users!AccountsTypeOK
  <2>4. /\ users' \in Seq(Registers) /\ Len(users) \in Nat
        /\ DOMAIN users = 1 .. Len(users) /\ DOMAIN users' = 1 .. Len(users) + 1
        /\ \A i \in DOMAIN users : users'[i] = users[i]
        /\ users'[Len(users) + 1] = r
    BY <2>1, <2>3
  <2>5. \A q : HasRow(q)' <=> HasRow(q) \/ q = r
    BY <2>4 DEF HasRow
  <2>6. ~HasRow(r) /\ Passed(r) /\ \A i \in DOMAIN users : users[i] # r
    BY <2>1 DEF AccountsInv, JoinInv, HasRow, Passed
  <2>7. /\ joining' \in [Registers -> {"coming", "new", "matched", "verified", "inserted", "done"}]
        /\ \A q \in Registers \ {r} : joining'[q] = joining[q]
        /\ joining'[r] = "inserted"
    BY <2>1 DEF AccountsInv, Users!AccountsTypeOK
  <2>8. \A q \in Registers : Passed(q)' = Passed(q)
    BY <2>5, <2>6, <2>7 DEF Passed
  <2>9. Users!AccountsTypeOK'
    BY <2>1, <2>4, <2>7 DEF AccountsInv, Users!AccountsTypeOK, Users!joinRest
  <2>10. JoinInv'
    <3>1. \A i, j \in DOMAIN users' : users'[i] = users'[j] => i = j
      BY <2>4, <2>6 DEF AccountsInv, JoinInv
    <3>. QED
      BY <2>1, <2>5, <2>7, <3>1 DEF AccountsInv, JoinInv, Users!joinRest
  <2>11. CodeInv'
    BY <2>1, <2>7, <2>8 DEF AccountsInv, CodeInv
  <2>. QED
    BY <2>2, <2>9, <2>10, <2>11 DEF AccountsInv
<1>. QED
  BY <1>1, <1>2

LEMMA FinishInv ==
  ASSUME Users!AccountsAssumption, AccountsInv, NEW r \in Registers, NEW token \in BOOLEAN,
           Users!Finish(r, token)
  PROVE  AccountsInv'
<1>1. /\ joining[r] = "inserted" /\ UNCHANGED Users!joinRest
      /\ UNCHANGED <<captcha, users, given, shared>>
      /\ joining' = [joining EXCEPT ![r] = "done"]
      /\ told' = [told EXCEPT ![r] = IF token THEN "success" ELSE "busy"]
  BY DEF Users!Finish, Users!Answer
<1>2. SendInv' /\ MailInv'
  BY <1>1, JoinKeeps
<1>3. /\ joining' \in [Registers -> {"coming", "new", "matched", "verified", "inserted", "done"}]
      /\ \A q \in Registers \ {r} : joining'[q] = joining[q]
      /\ \A q : HasRow(q)' = HasRow(q)
      /\ \A q \in Registers \ {r} : Passed(q)' = Passed(q)
      /\ joining'[r] = "done"
  BY <1>1, Joins DEF AccountsInv, Users!AccountsTypeOK
<1>4. HasRow(r) /\ Passed(r) /\ Passed(r)'
  BY <1>1, <1>3 DEF AccountsInv, JoinInv, Passed
<1>5. told' \in [Registers -> Users!Outcomes] /\ \A q \in Registers \ {r} : told'[q] = told[q]
  BY <1>1 DEF AccountsInv, Users!AccountsTypeOK, Users!Outcomes
<1>6. Users!AccountsTypeOK'
  BY <1>1, <1>3, <1>5 DEF AccountsInv, Users!AccountsTypeOK, Users!joinRest
<1>7. JoinInv'
  BY <1>1, <1>3, <1>4, <1>5 DEF AccountsInv, JoinInv, Users!joinRest
<1>8. CodeInv'
  BY <1>1, <1>3, <1>4 DEF AccountsInv, CodeInv
<1>. QED
  BY <1>2, <1>6, <1>7, <1>8 DEF AccountsInv

LEMMA AccountsKept ==
  ASSUME Users!AccountsAssumption, AccountsInv, Users!Next
  PROVE  AccountsInv'
<1>1. CASE Users!Tick
  <2>1. /\ userClock < MaxClock /\ userClock' = userClock + 1
        /\ UNCHANGED <<cooldown, captcha, issued, mailed, mails, users, sending, code, joining,
                       given, told, shared>>
    BY <1>1 DEF Users!Tick
  <2>2. Users!AccountsTypeOK'
    BY <2>1, AccountsTypes DEF AccountsInv, Users!AccountsTypeOK
  <2>. QED
    BY <2>1, <2>2 DEF AccountsInv, SendInv, MailInv, JoinInv, CodeInv, Coded, HasRow, Passed
<1>2. ASSUME NEW r \in Registers, Users!GetFails(r)
      PROVE  AccountsInv'
  BY <1>2, FailsInv DEF Users!GetFails
<1>. QED
  BY <1>1, <1>2, AcquireInv, StoreInv, MailingInv, CheckInv, CompareInv, SpendInv, InsertInv,
     FinishInv DEF Users!Next, Users!Send, Users!Register
-----------------------------------------------------------------------------
(* The list of MCP tools (McpTools). Only the holder of the lock loads, and  *)
(* only while loaded is FALSE; so there is one load, and one more for every  *)
(* Reload that has cleared it. What a Reload waits for is the next load.     *)

\* The list is loaded by who holds the lock, once and once more for every Reload.
McpInv ==
  /\ Mcp!McpTypeOK
  /\ \A b \in Builders : mcpAt[b] \in {"connecting", "listing"} <=> lock = b
  /\ \A b \in Builders : mcpAt[b] = "listing" => server <= Servers
  /\ lock # None => ~loaded
  /\ loads <= reloads + (IF loaded THEN 1 ELSE 0)
  /\ \A b \in Builders :
       /\ since[b] <= loads + 1
       /\ loaded \/ mcpAt[b] \in {"loaded", "built"} => since[b] <= loads

LEMMA McpInit ==
  ASSUME Mcp!McpAssumption, Mcp!Init
  PROVE  McpInv
<1>1. state \in [1 .. Servers -> {"up", "down", "hung"}]
  BY DEF Mcp!Init
<1>2. /\ handed \in [Builders -> SUBSET (Mcp!Remote \cup Mcp!Local)]
      /\ client \in [1 .. Servers -> BOOLEAN]
  BY DEF Mcp!Init
<1>3. Mcp!McpTypeOK
  <2>1. /\ mcpClock \in 0 .. MaxClock /\ loadedAt \in 0 .. mcpClock
        /\ server \in 1 .. Servers + 1
        /\ tools \subseteq Mcp!Remote /\ found \subseteq Mcp!Remote /\ loaded \in BOOLEAN
        /\ lock \in Builders \cup {None}
    <3>1. MaxClock \in Nat /\ Servers \in Nat \ {0}
      BY DEF Mcp!McpAssumption
    <3>2. /\ mcpClock = 0 /\ loadedAt = 0 /\ server = 1 /\ tools = {} /\ found = {}
          /\ loaded = FALSE
          /\ lock = None
      BY DEF Mcp!Init
    <3>3. loaded \in BOOLEAN
      BY DEF Mcp!Init
    <3>4. /\ mcpClock \in 0 .. MaxClock /\ loadedAt \in 0 .. mcpClock
          /\ server \in 1 .. Servers + 1
      BY <3>1, <3>2
    <3>. QED
      BY <3>2, <3>3, <3>4
  <2>2. /\ mcpAt \in [Builders -> {"idle", "reading", "reloading", "waiting", "connecting", "listing", "loaded", "built"}]
        /\ gone \in [Builders -> BOOLEAN]
    BY DEF Mcp!Init
  <2>3. began \in [Builders -> 0 .. mcpClock]
    BY DEF Mcp!Init
  <2>4. loads \in Nat /\ reloads \in Nat /\ since \in [Builders -> Nat]
    BY DEF Mcp!Init
  <2>. QED
    BY <1>1, <1>2, <2>1, <2>2, <2>3, <2>4 DEF Mcp!McpTypeOK
<1>. QED
  BY <1>3 DEF Mcp!McpAssumption, Mcp!Init, McpInv

LEMMA McpKept ==
  ASSUME Mcp!McpAssumption, McpInv, Mcp!Next
  PROVE  McpInv' /\ Mcp!ToolsKept
<1>. USE DEF McpInv, Mcp!McpTypeOK, Mcp!McpAssumption, Mcp!ToolsKept, Mcp!Goto, Mcp!registry, Mcp!load,
         Mcp!history
<1>1. CASE Mcp!Tick
  BY <1>1 DEF Mcp!Tick
<1>2. ASSUME NEW s \in 1 .. Servers, Mcp!Turns(s)
      PROVE  McpInv' /\ Mcp!ToolsKept
  <2>1. PICK x \in {"up", "down", "hung"} : state' = [state EXCEPT ![s] = x]
    BY <1>2 DEF Mcp!Turns
  <2>2. state' \in [1 .. Servers -> {"up", "down", "hung"}]
    BY <2>1
  <2>. QED
    BY <1>2, <2>2 DEF Mcp!Turns
<1>3. ASSUME NEW b \in Builders, Mcp!Cancel(b)
      PROVE  McpInv' /\ Mcp!ToolsKept
  BY <1>3 DEF Mcp!Cancel
<1>4. ASSUME NEW b \in Builders, Mcp!Ask(b)
      PROVE  McpInv' /\ Mcp!ToolsKept
  BY <1>4 DEF Mcp!Ask
<1>5. ASSUME NEW b \in Builders, Mcp!Read(b)
      PROVE  McpInv' /\ Mcp!ToolsKept
  <2>1. handed' \in [Builders -> SUBSET (Mcp!Remote \cup Mcp!Local)]
    <3>1. Mcp!Local \cup tools \in SUBSET (Mcp!Remote \cup Mcp!Local)
      OBVIOUS
    <3>2. UNCHANGED handed \/ handed' = [handed EXCEPT ![b] = Mcp!Local \cup tools]
      BY <1>5 DEF Mcp!Read, Mcp!Give
    <3>3. handed \in [Builders -> SUBSET (Mcp!Remote \cup Mcp!Local)]
      OBVIOUS
    <3>. QED
      BY <3>1, <3>2, <3>3
  <2>2. PICK place \in {"built", "waiting"} : mcpAt' = [mcpAt EXCEPT ![b] = place]
    BY <1>5 DEF Mcp!Read, Mcp!Give
  <2>. QED
    BY <1>5, <2>1, <2>2 DEF Mcp!Read
<1>6. ASSUME NEW b \in Builders, Mcp!BeginLoad(b)
      PROVE  McpInv' /\ Mcp!ToolsKept
  <2>1. CASE loaded
    BY <1>6, <2>1 DEF Mcp!BeginLoad
  <2>2. CASE ~loaded
    <3>1. /\ lock = None /\ lock' = b /\ server' = 1 /\ found' = {}
          /\ mcpAt' = [mcpAt EXCEPT ![b] = "connecting"]
          /\ UNCHANGED <<mcpClock, state, client, tools, loaded, loadedAt, gone, began, handed,
                       loads, reloads, since>>
      BY <1>6, <2>2 DEF Mcp!BeginLoad
    <3>2. b # None /\ \A c \in Builders : lock # c
      BY <3>1
    <3>. QED
      BY <2>2, <3>1, <3>2
  <2>. QED
    BY <2>1, <2>2
<1>7. ASSUME NEW b \in Builders, Mcp!Connect(b)
      PROVE  McpInv' /\ Mcp!ToolsKept
  BY <1>7 DEF Mcp!Connect
<1>8. ASSUME NEW b \in Builders, Mcp!List(b)
      PROVE  McpInv' /\ Mcp!ToolsKept
  <2>1. server \in 1 .. Servers /\ lock = b
    BY <1>8 DEF Mcp!List
  <2>2. found' \subseteq Mcp!Remote /\ server' \in 1 .. Servers + 1
    BY <1>8, <2>1 DEF Mcp!List, Mcp!Remote
  <2>. QED
    BY <1>8, <2>1, <2>2 DEF Mcp!List
<1>9. ASSUME NEW b \in Builders, Mcp!GiveUp(b)
      PROVE  McpInv' /\ Mcp!ToolsKept
  <2>1. server \in 1 .. Servers /\ lock = b
    BY <1>9 DEF Mcp!GiveUp
  <2>. QED
    BY <1>9, <2>1 DEF Mcp!GiveUp
<1>10. ASSUME NEW b \in Builders, Mcp!Install(b)
       PROVE  McpInv' /\ Mcp!ToolsKept
  <2>1. lock = b /\ lock # None
    BY <1>10 DEF Mcp!Install
  <2>2. ~loaded /\ loads' = loads + 1 /\ loads' <= reloads + 1
    BY <1>10, <2>1 DEF Mcp!Install
  <2>3. \A c \in Builders : c # b => mcpAt[c] \notin {"connecting", "listing"}
    BY <2>1
  <2>. QED
    BY <1>10, <2>1, <2>2, <2>3 DEF Mcp!Install
<1>11. ASSUME NEW b \in Builders, Mcp!ReadLoaded(b)
       PROVE  McpInv' /\ Mcp!ToolsKept
  <2>1. handed' \in [Builders -> SUBSET (Mcp!Remote \cup Mcp!Local)]
    BY <1>11 DEF Mcp!ReadLoaded, Mcp!Give
  <2>. QED
    BY <1>11, <2>1 DEF Mcp!ReadLoaded, Mcp!Give
<1>12. ASSUME NEW b \in Builders, Mcp!AskReload(b)
       PROVE  McpInv' /\ Mcp!ToolsKept
  BY <1>12 DEF Mcp!AskReload
<1>13. ASSUME NEW b \in Builders, Mcp!Reload(b)
       PROVE  McpInv' /\ Mcp!ToolsKept
  <2>1. /\ lock = None /\ mcpAt[b] = "reloading" /\ mcpAt' = [mcpAt EXCEPT ![b] = "waiting"]
        /\ loaded' = FALSE /\ reloads' = reloads + 1 /\ since' = [since EXCEPT ![b] = loads + 1]
        /\ UNCHANGED <<mcpClock, state, client, tools, loadedAt, lock, server, found, gone, began,
                       handed, loads>>
    BY <1>13 DEF Mcp!Reload
  <2>2. \A c \in Builders : mcpAt'[c] \notin {"connecting", "listing"} /\ lock' # c
    BY <2>1
  <2>3. /\ since' \in [Builders -> Nat] /\ reloads' \in Nat
        /\ \A c \in Builders : /\ since'[c] = IF c = b THEN loads + 1 ELSE since[c]
                               /\ mcpAt'[c] \in {"loaded", "built"} => c # b /\ mcpAt[c] = mcpAt'[c]
    BY <2>1
  <2>4. loads <= reloads' /\ loads' <= reloads' + (IF loaded' THEN 1 ELSE 0)
    BY <2>1
  <2>5. \A c \in Builders : /\ since'[c] <= loads' + 1
                            /\ loaded' \/ mcpAt'[c] \in {"loaded", "built"} => since'[c] <= loads'
    BY <2>1, <2>3
  <2>6. mcpAt' \in [Builders -> {"idle", "reading", "reloading", "waiting", "connecting", "listing", "loaded", "built"}]
    BY <2>1
  <2>7. Mcp!McpTypeOK'
    BY <2>1, <2>3, <2>6
  <2>8. Mcp!ToolsKept
    <3>1. \A c \in Builders : mcpAt[c] # "built" => mcpAt'[c] # "built"
      BY <2>1
    <3>. QED
      BY <2>1, <3>1
  <2>. QED
    BY <2>1, <2>2, <2>4, <2>5, <2>7, <2>8
<1>14. ASSUME NEW b \in Builders, Mcp!Reloaded(b)
       PROVE  McpInv' /\ Mcp!ToolsKept
  BY <1>14 DEF Mcp!Reloaded
<1>. QED
  BY <1>1, <1>2, <1>3, <1>4, <1>5, <1>6, <1>7, <1>8, <1>9, <1>10, <1>11, <1>12, <1>13, <1>14
     DEF Mcp!Next, Mcp!Building
-----------------------------------------------------------------------------
(* The trace of a turn (TurnTrace). Spans have numbers of their own; the     *)
(* recorder holds one step of every span that is closed; the snapshot holds  *)
(* the spans that were closed as the turn ended, in order; and metrics and   *)
(* row come from it.                                                         *)

\* The members of T that stand below x.
Below(T, R, x) == {y \in T : <<y, x>> \in R}
\* A strict total order.
Ordered(T, R) ==
  /\ \A x \in T : <<x, x>> \notin R
  /\ \A x, y \in T : x # y => <<x, y>> \in R \/ <<y, x>> \in R
  /\ \A x, y, z \in T : <<x, y>> \in R /\ <<y, z>> \in R => <<x, z>> \in R

\* Of a finite set in strict order every place is taken, and by one member.
LEMMA Ranked ==
  ASSUME NEW T, IsFiniteSet(T), NEW R, Ordered(T, R)
  PROVE  /\ \A x \in T : Cardinality(Below(T, R, x)) \in 0 .. Cardinality(T) - 1
         /\ \A x, y \in T : <<x, y>> \in R =>
              Cardinality(Below(T, R, x)) < Cardinality(Below(T, R, y))
         /\ \A k \in 0 .. Cardinality(T) - 1 : \E x \in T : Cardinality(Below(T, R, x)) = k
<1>. DEFINE rank == [x \in T |-> Cardinality(Below(T, R, x))]
            n == Cardinality(T)
<1>1. n \in Nat
  BY FS_CardinalityType
<1>2. \A x \in T : IsFiniteSet(Below(T, R, x)) /\ Cardinality(Below(T, R, x)) \in Nat
  <2>. TAKE x \in T
  <2>1. Below(T, R, x) \in SUBSET T
    BY DEF Below
  <2>. QED
    BY <2>1, FS_Subset, FS_CardinalityType
<1>3. ASSUME NEW x \in T
      PROVE  Cardinality(Below(T, R, x)) \in 0 .. n - 1
  <2>1. Below(T, R, x) \in SUBSET T /\ x \notin Below(T, R, x)
    BY DEF Below, Ordered
  <2>2. Cardinality(Below(T, R, x)) <= n /\ Cardinality(Below(T, R, x)) # n
    BY <2>1, FS_Subset
  <2>. QED
    BY <1>1, <1>2, <2>2
<1>4. ASSUME NEW x \in T, NEW y \in T, <<x, y>> \in R
      PROVE  Cardinality(Below(T, R, x)) < Cardinality(Below(T, R, y))
  <2>1. /\ Below(T, R, x) \in SUBSET Below(T, R, y)
        /\ x \in Below(T, R, y) /\ x \notin Below(T, R, x)
    BY <1>4 DEF Below, Ordered
  <2>2. /\ Cardinality(Below(T, R, x)) <= Cardinality(Below(T, R, y))
        /\ Cardinality(Below(T, R, x)) # Cardinality(Below(T, R, y))
    BY <1>2, <2>1, FS_Subset
  <2>. QED
    BY <1>2, <2>2
<1>5. rank \in Injection(T, 0 .. n - 1)
  <2>1. rank \in [T -> 0 .. n - 1]
    BY <1>3
  <2>2. \A x, y \in T : x # y => rank[x] # rank[y]
    <3>. SUFFICES ASSUME NEW x \in T, NEW y \in T, x # y
                  PROVE  rank[x] # rank[y]
      OBVIOUS
    <3>1. <<x, y>> \in R \/ <<y, x>> \in R
      BY DEF Ordered
    <3>. QED
      BY <1>2, <1>4, <3>1
  <2>. QED
    BY <2>1, <2>2 DEF Injection, IsInjective
<1>6. IsFiniteSet(0 .. n - 1) /\ Cardinality(0 .. n - 1) = n
  BY <1>1, FS_Interval
<1>7. rank \in Surjection(T, 0 .. n - 1)
  BY <1>5, <1>6, FS_Injection
<1>8. \A k \in 0 .. n - 1 : \E x \in T : rank[x] = k
  BY <1>7 DEF Surjection
<1>. QED
  BY <1>3, <1>4, <1>8

\* The spans that have begun.
Numbered == {s \in Trace!All : span[s].step # 0}
\* The spans that were closed before the snapshot was taken.
Ended == {s \in Trace!All : span[s].at = "ended"}
Stands == {"idle", "numbered", "open", "ended", "late", "gone"}

\* Numbers are given once; the span of the turn is open while the turn runs.
NumberInv ==
  /\ next = Cardinality(Numbered)
  /\ \A s \in Trace!All : /\ span[s].at = "idle" <=> span[s].step = 0
                          /\ span[s].step <= next
  /\ \A s, t \in Trace!All : s # t /\ span[s].step # 0 => span[s].step # span[t].step
  /\ turn = "new" => \A s \in Trace!All : span[s].at = "idle"
  /\ turn = "running" => span[Root].at = "open"
  /\ turn \notin {"new", "running"} => span[Root].at = "ended"

\* What is recorded of the spans that are closed.
StepsInv ==
  /\ \A i \in DOMAIN steps :
       /\ span[steps[i].span].at \in {"ended", "late"}
       /\ steps[i].step = span[steps[i].span].step
  /\ \A s \in Trace!All : span[s].at \in {"ended", "late"} => \E i \in DOMAIN steps : steps[i].span = s
  /\ \A i, j \in DOMAIN steps : steps[i].span = steps[j].span => i = j

\* The snapshot: one step of every span that had ended, in order.
SnapshotInv ==
  /\ ~Trace!SnapshotTaken => \A s \in Trace!All : span[s].at # "late"
  /\ Trace!SnapshotTaken =>
       /\ Trace!Sorted(snapshot)
       /\ \A i \in DOMAIN snapshot : snapshot[i].span \in Ended
       /\ \A s \in Ended : \E i \in DOMAIN snapshot : snapshot[i].span = s
       /\ \A i, j \in DOMAIN snapshot : snapshot[i].span = snapshot[j].span => i = j

\* Metrics and row come from it, and the row once at most.
RowInv ==
  /\ turn \in {"flushed", "waiting", "over"} =>
       \A s \in Trace!All : counted[s] = IF s \in Ended THEN 1 ELSE 0
  /\ turn \notin {"flushed", "waiting", "over"} => \A s \in Trace!All : counted[s] = 0
  /\ store \notin {"absent", "idle"} => turn \in {"waiting", "over"}
  /\ row # None =>
       /\ turn \in {"waiting", "over"} /\ row.status = status
       /\ row.steps = Cardinality(Ended) /\ row.tools = Cardinality(Ended \cap ToolSpans)
  /\ store = "wrote" \/ persisted = "ok" => row # None

TraceInv == Trace!TraceTypeOK /\ NumberInv /\ StepsInv /\ SnapshotInv /\ RowInv

\* The sets of spans are finite.
LEMMA TraceSets ==
  ASSUME Trace!TraceAssumption
  PROVE  /\ IsFiniteSet(Trace!All) /\ Cardinality(Trace!All) \in Nat \ {0}
         /\ Root \in Trace!All
         /\ \A S \in SUBSET Trace!All : IsFiniteSet(S) /\ Cardinality(S) \in 0 .. Cardinality(Trace!All)
         /\ \A S \in SUBSET Spans : Cardinality(S) \in 0 .. Cardinality(Spans)
<1>1. IsFiniteSet(Spans)
  BY TraceCounts DEF Trace!TraceAssumption
<1>2. IsFiniteSet(Trace!All) /\ Cardinality(Trace!All) \in Nat \ {0}
  <2>1. /\ IsFiniteSet(Spans \cup {Root})
        /\ Cardinality(Spans \cup {Root}) = Cardinality(Spans) + 1
    BY <1>1, FS_AddElement DEF Trace!TraceAssumption
  <2>2. Cardinality(Spans) \in Nat
    BY <1>1, FS_CardinalityType
  <2>. QED
    BY <2>1, <2>2 DEF Trace!All
<1>3. \A S \in SUBSET Trace!All : IsFiniteSet(S) /\ Cardinality(S) \in 0 .. Cardinality(Trace!All)
  BY <1>2, FS_Subset, FS_CardinalityType
<1>4. \A S \in SUBSET Spans : Cardinality(S) \in 0 .. Cardinality(Spans)
  BY <1>1, FS_Subset, FS_CardinalityType
<1>. QED
  BY <1>2, <1>3, <1>4 DEF Trace!All

\* The places at which a span stands, of which there is at most one.
LEMMA OnePlace ==
  ASSUME NEW S, NEW i \in S
  PROVE  Cardinality({i}) = 1 /\ Cardinality({}) = 0
  BY FS_Singleton, FS_EmptySet

\* A span that had ended stands in the snapshot once.
LEMMA PlacesOf ==
  ASSUME Trace!TraceAssumption, TraceInv, Trace!SnapshotTaken, NEW s \in Trace!All
  PROVE  Cardinality({i \in DOMAIN snapshot : snapshot[i].span = s})
           = IF s \in Ended THEN 1 ELSE 0
<1>1. CASE s \in Ended
  <2>1. PICK i \in DOMAIN snapshot : snapshot[i].span = s
    BY <1>1 DEF TraceInv, SnapshotInv
  <2>2. {j \in DOMAIN snapshot : snapshot[j].span = s} = {i}
    BY <2>1 DEF TraceInv, SnapshotInv
  <2>. QED
    BY <1>1, <2>2, FS_Singleton
<1>2. CASE s \notin Ended
  <2>1. {j \in DOMAIN snapshot : snapshot[j].span = s} = {}
    BY <1>2 DEF TraceInv, SnapshotInv
  <2>. QED
    BY <1>2, <2>1, FS_EmptySet
<1>. QED
  BY <1>1, <1>2

\* As many steps of the snapshot are in a set as spans that have ended.
LEMMA StepsOf ==
  ASSUME Trace!TraceAssumption, TraceInv, Trace!SnapshotTaken, NEW S \in SUBSET Trace!All
  PROVE  Cardinality({i \in DOMAIN snapshot : snapshot[i].span \in S}) = Cardinality(Ended \cap S)
<1>. DEFINE P == {i \in DOMAIN snapshot : snapshot[i].span \in S}
            E == Ended \cap S
            f == [i \in P |-> snapshot[i].span]
<1>1. f \in [P -> E]
  BY DEF TraceInv, SnapshotInv
<1>2. \A i, j \in P : f[i] = f[j] => i = j
  BY DEF TraceInv, SnapshotInv
<1>3. \A e \in E : \E i \in P : f[i] = e
  BY DEF TraceInv, SnapshotInv
<1>4. IsFiniteSet(E)
  <2>1. E \in SUBSET Trace!All
    BY DEF Ended
  <2>. QED
    BY <2>1, TraceSets
<1>. HIDE DEF P, E, f
<1>5. f \in Injection(P, E) /\ f \in Surjection(P, E)
  BY <1>1, <1>2, <1>3 DEF Injection, Surjection, IsInjective
<1>6. Cardinality(P) = Cardinality(E)
  BY <1>4, <1>5, FS_Injection
<1>. QED
  BY <1>6 DEF P, E

LEMMA TraceBound ==
  ASSUME Trace!TraceAssumption, TraceInv
  PROVE  Trace!TraceFaithful
<1>1. Trace!SnapshotTaken => \A s \in Trace!All : Cardinality({i \in DOMAIN snapshot : snapshot[i].span = s})
                                       = IF span[s].at = "ended" THEN 1 ELSE 0
  BY PlacesOf DEF Ended
<1>2. turn \in {"waiting", "over"} => \A s \in Trace!All : counted[s] = IF span[s].at = "ended" THEN 1 ELSE 0
  BY DEF TraceInv, RowInv, Ended
<1>3. turn \in {"waiting", "over"} =>
        /\ Ended = {s \in Trace!All : counted[s] = 1}
        /\ Ended \cap ToolSpans = {s \in ToolSpans : counted[s] = 1}
  BY <1>2 DEF Ended, Trace!All, Trace!TraceAssumption
<1>. QED
  BY <1>1, <1>2, <1>3, TraceCounts DEF TraceInv, NumberInv, SnapshotInv, RowInv,
     Trace!TraceFaithful

LEMMA TraceInit ==
  ASSUME Trace!TraceAssumption, Trace!Init
  PROVE  TraceInv
<1>. USE DEF Trace!Init, Trace!Closed
<1>1. Numbered = {} /\ Cardinality(Numbered) = 0
  BY FS_EmptySet DEF Numbered
<1>2. Trace!TraceTypeOK
  <2>1. /\ now \in 0 .. MaxNow /\ next \in 0 .. Cardinality(Trace!All)
    BY TraceSets DEF Trace!TraceAssumption
  <2>2. steps \in Seq(Trace!Steps) /\ snapshot \in Seq(Trace!Steps)
    OBVIOUS
  <2>3. span \in [Trace!All -> [at : Stands, step : 0 .. Cardinality(Trace!All), start : 0 .. MaxNow]]
    BY TraceSets DEF Trace!TraceAssumption, Stands
  <2>4. counted \in [Trace!All -> 0 .. 1]
    OBVIOUS
  <2>. QED
    BY <2>1, <2>2, <2>3, <2>4, TraceCounts DEF Trace!TraceTypeOK, Stands, Trace!Statuses
<1>3. NumberInv
  BY <1>1 DEF NumberInv
<1>4. StepsInv
  BY DEF StepsInv
<1>5. SnapshotInv
  BY DEF SnapshotInv, Trace!SnapshotTaken
<1>6. RowInv
  BY DEF RowInv
<1>. QED
  BY <1>2, <1>3, <1>4, <1>5, <1>6 DEF TraceInv

SpanRecord == [at : Stands, step : 0 .. Cardinality(Trace!All), start : 0 .. MaxNow]

LEMMA SpanType ==
  ASSUME TraceInv
  PROVE  /\ span \in [Trace!All -> SpanRecord]
         /\ \A s \in Trace!All : /\ span[s].at \in Stands /\ span[s].start \in 0 .. MaxNow
                                 /\ span[s].step \in 0 .. Cardinality(Trace!All)
<1>1. span \in [Trace!All -> SpanRecord]
  BY TraceCounts DEF TraceInv, Trace!TraceTypeOK, SpanRecord, Stands
<1>. QED
  BY <1>1 DEF SpanRecord

\* A step that changes neither spans nor what is recorded of them.
LEMMA SpansKept ==
  ASSUME NumberInv, StepsInv, UNCHANGED <<next, steps, span>>,
         turn # "new" => turn' # "new", turn' = "running" => turn = "running",
         turn' \notin {"new", "running"} => turn \notin {"new", "running"}
  PROVE  NumberInv' /\ StepsInv' /\ Ended' = Ended
<1>1. Numbered' = Numbered /\ Ended' = Ended
  BY DEF Numbered, Ended
<1>2. NumberInv'
  BY <1>1 DEF NumberInv
<1>3. StepsInv'
  BY DEF StepsInv
<1>. QED
  BY <1>1, <1>2, <1>3

\* A step that moves a span and not the turn, and no span into the snapshot.
LEMMA SpanMoved ==
  ASSUME TraceInv, UNCHANGED <<turn, snapshot, counted, status, store, row, persisted>>,
         Trace!SnapshotTaken => Ended' = Ended,
         ~Trace!SnapshotTaken => \A s \in Trace!All : span'[s].at # "late"
  PROVE  SnapshotInv' /\ RowInv'
<1>1. Trace!SnapshotTaken' = Trace!SnapshotTaken
  BY DEF Trace!SnapshotTaken
<1>2. SnapshotInv'
  BY <1>1 DEF TraceInv, SnapshotInv
<1>3. turn \in {"flushed", "waiting", "over"} => Ended' = Ended
  BY DEF Trace!SnapshotTaken
<1>4. RowInv'
  BY <1>3 DEF TraceInv, RowInv
<1>. QED
  BY <1>2, <1>4

LEMMA NumberIInv ==
  ASSUME Trace!TraceAssumption, TraceInv, NEW s \in Spans, Trace!Number(s)
  PROVE  TraceInv'
<1>1. /\ turn # "new" /\ span[s].at = "idle" /\ next' = next + 1
      /\ span' = [span EXCEPT ![s].at = "numbered", ![s].step = next + 1]
      /\ UNCHANGED <<now, steps, turn, snapshot, counted, status, store, row, persisted>>
  BY DEF Trace!Number, Trace!recorded
<1>2. s \in Trace!All /\ s # Root /\ next \in Nat /\ next + 1 # 0
  BY DEF Trace!All, Trace!TraceAssumption, TraceInv, Trace!TraceTypeOK
<1>3. /\ span'[s].at = "numbered" /\ span'[s].step = next + 1 /\ span'[s].start = span[s].start
      /\ \A t \in Trace!All \ {s} : span'[t] = span[t]
  BY <1>1, <1>2, SpanType DEF SpanRecord
<1>4. s \notin Numbered /\ Numbered' = Numbered \cup {s}
  BY <1>1, <1>2, <1>3 DEF Numbered, TraceInv, NumberInv
<1>5. next + 1 = Cardinality(Numbered') /\ next + 1 \in 0 .. Cardinality(Trace!All)
  <2>1. Numbered \in SUBSET Trace!All /\ Numbered' \in SUBSET Trace!All
    BY DEF Numbered
  <2>2. Cardinality(Numbered \cup {s}) = Cardinality(Numbered) + 1
    BY <1>4, <2>1, TraceSets, FS_AddElement
  <2>3. Cardinality(Numbered') \in 0 .. Cardinality(Trace!All)
    BY <2>1, TraceSets
  <2>. QED
    BY <1>4, <2>2, <2>3 DEF TraceInv, NumberInv
<1>6. NumberInv'
  <2>1. \A t \in Trace!All : span[t].step <= next /\ span[t].step \in Nat
    BY SpanType DEF TraceInv, NumberInv
  <2>2. \A t \in Trace!All : /\ span'[t].at = "idle" <=> span'[t].step = 0
                             /\ span'[t].step <= next'
    <3>. SUFFICES ASSUME NEW t \in Trace!All
                  PROVE  /\ span'[t].at = "idle" <=> span'[t].step = 0
                         /\ span'[t].step <= next + 1
      BY <1>1
    <3>1. CASE t = s
      BY <1>2, <1>3, <3>1
    <3>2. CASE t # s
      BY <1>2, <1>3, <2>1, <3>2 DEF TraceInv, NumberInv
    <3>. QED
      BY <3>1, <3>2
  <2>3. \A t, u \in Trace!All : t # u /\ span'[t].step # 0 => span'[t].step # span'[u].step
    BY <1>2, <1>3, <2>1 DEF TraceInv, NumberInv
  <2>4. Root \in Trace!All /\ span'[Root] = span[Root]
    BY <1>2, <1>3, TraceSets
  <2>. QED
    BY <1>1, <1>5, <2>2, <2>3, <2>4 DEF TraceInv, NumberInv
<1>7. StepsInv'
  <2>1. \A i \in DOMAIN steps : steps[i].span # s
    BY <1>1 DEF TraceInv, StepsInv
  <2>2. \A i \in DOMAIN steps : steps[i].span \in Trace!All
    <3>1. steps \in Seq(Trace!Steps)
      BY DEF TraceInv, Trace!TraceTypeOK
    <3>2. \A i \in DOMAIN steps : steps[i] \in Trace!Steps
      BY <3>1
    <3>. QED
      BY <3>2 DEF Trace!Steps
  <2>3. steps' = steps /\ \A i \in DOMAIN steps : span'[steps[i].span] = span[steps[i].span]
    BY <1>1, <1>3, <2>1, <2>2
  <2>4. \A t \in Trace!All : span'[t].at \in {"ended", "late"} => span[t].at \in {"ended", "late"}
    BY <1>3
  <2>. QED
    BY <2>3, <2>4 DEF TraceInv, StepsInv
<1>8. Ended' = Ended
  BY <1>1, <1>2, <1>3 DEF Ended
<1>9. SnapshotInv' /\ RowInv'
  <2>1. ~Trace!SnapshotTaken => \A t \in Trace!All : span'[t].at # "late"
    BY <1>2, <1>3 DEF TraceInv, SnapshotInv
  <2>. QED
    BY <1>1, <1>8, <2>1, SpanMoved
<1>10. Trace!TraceTypeOK'
  <2>1. span' \in [Trace!All -> SpanRecord]
    BY <1>1, <1>2, <1>5, SpanType DEF SpanRecord, Stands
  <2>. QED
    BY <1>1, <1>5, <2>1, TraceCounts DEF TraceInv, Trace!TraceTypeOK, SpanRecord, Stands
<1>. QED
  BY <1>6, <1>7, <1>9, <1>10 DEF TraceInv

LEMMA BeginIInv ==
  ASSUME Trace!TraceAssumption, TraceInv, NEW s \in Spans, Trace!Begin(s)
  PROVE  TraceInv'
<1>1. /\ span[s].at = "numbered"
      /\ span' = [span EXCEPT ![s].at = "open", ![s].start = now]
      /\ UNCHANGED <<now, next, steps, turn, snapshot, counted, status, store, row, persisted>>
  BY DEF Trace!Begin, Trace!recorded
<1>2. s \in Trace!All /\ s # Root /\ Root \in Trace!All
  BY DEF Trace!All, Trace!TraceAssumption
<1>3. /\ span'[s].at = "open" /\ span'[s].step = span[s].step
      /\ \A t \in Trace!All \ {s} : span'[t] = span[t]
      /\ span' \in [Trace!All -> SpanRecord]
  BY <1>1, <1>2, SpanType DEF SpanRecord, TraceInv, Trace!TraceTypeOK, Stands
<1>4. \A t \in Trace!All : span'[t].step = span[t].step
  BY <1>3
<1>5. Numbered' = Numbered /\ Ended' = Ended
  BY <1>1, <1>3, <1>4 DEF Numbered, Ended
<1>6. NumberInv'
  BY <1>1, <1>2, <1>3, <1>4, <1>5 DEF TraceInv, NumberInv
<1>7. StepsInv'
  <2>1. \A i \in DOMAIN steps : steps[i].span # s
    BY <1>1 DEF TraceInv, StepsInv
  <2>2. \A i \in DOMAIN steps : steps[i].span \in Trace!All
    <3>1. steps \in Seq(Trace!Steps)
      BY DEF TraceInv, Trace!TraceTypeOK
    <3>2. \A i \in DOMAIN steps : steps[i] \in Trace!Steps
      BY <3>1
    <3>. QED
      BY <3>2 DEF Trace!Steps
  <2>. QED
    BY <1>1, <1>3, <2>1, <2>2 DEF TraceInv, StepsInv
<1>8. SnapshotInv' /\ RowInv'
  <2>1. ~Trace!SnapshotTaken => \A t \in Trace!All : span'[t].at # "late"
    BY <1>2, <1>3 DEF TraceInv, SnapshotInv
  <2>. QED
    BY <1>1, <1>5, <2>1, SpanMoved
<1>9. Trace!TraceTypeOK'
  BY <1>1, <1>3 DEF TraceInv, Trace!TraceTypeOK, SpanRecord, Stands
<1>. QED
  BY <1>6, <1>7, <1>8, <1>9 DEF TraceInv

\* One more step is recorded, of a span that was open.
LEMMA RecordedInv ==
  ASSUME Trace!TraceAssumption, TraceInv, NEW s \in Trace!All, NEW place \in {"ended", "late"},
         span[s].at = "open", Trace!Recorded(s), span' = [span EXCEPT ![s].at = place], next' = next
  PROVE  /\ steps' \in Seq(Trace!Steps) /\ StepsInv'
         /\ span' \in [Trace!All -> SpanRecord]
         /\ span'[s].at = place /\ span'[s].step = span[s].step
         /\ \A t \in Trace!All \ {s} : span'[t] = span[t]
         /\ Numbered' = Numbered
<1>. DEFINE e == [span |-> s, step |-> span[s].step, start |-> span[s].start]
<1>1. /\ span' \in [Trace!All -> SpanRecord]
      /\ span'[s].at = place /\ span'[s].step = span[s].step
      /\ \A t \in Trace!All \ {s} : span'[t] = span[t]
  BY SpanType DEF SpanRecord, Stands
<1>2. Numbered' = Numbered
  BY <1>1 DEF Numbered
<1>3. span[s].step \in 1 .. Cardinality(Trace!All) /\ span[s].start \in 0 .. MaxNow
  BY SpanType, TraceSets DEF TraceInv, NumberInv
<1>4. e \in Trace!Steps
  BY <1>3, TraceCounts DEF Trace!Steps
<1>5. steps \in Seq(Trace!Steps) /\ steps' = Append(steps, e)
  BY DEF Trace!Recorded, TraceInv, Trace!TraceTypeOK
<1>. HIDE DEF e
<1>6. /\ steps' \in Seq(Trace!Steps) /\ Len(steps) \in Nat
      /\ DOMAIN steps = 1 .. Len(steps) /\ DOMAIN steps' = 1 .. Len(steps) + 1
      /\ \A i \in DOMAIN steps : steps'[i] = steps[i] /\ steps[i] \in Trace!Steps
      /\ steps'[Len(steps) + 1] = e
  BY <1>4, <1>5
<1>7. e.span = s /\ e.step = span[s].step
  BY DEF e
<1>8. \A i \in DOMAIN steps : steps[i].span \in Trace!All /\ steps[i].span # s
  BY <1>6 DEF TraceInv, StepsInv, Trace!Steps
<1>9. StepsInv'
  <2>1. \A i \in DOMAIN steps' : i \in DOMAIN steps \/ i = Len(steps) + 1
    BY <1>6
  <2>2. \A i \in DOMAIN steps' : /\ span'[steps'[i].span].at \in {"ended", "late"}
                                 /\ steps'[i].step = span'[steps'[i].span].step
    BY <1>1, <1>6, <1>7, <1>8, <2>1 DEF TraceInv, StepsInv
  <2>3. ASSUME NEW t \in Trace!All, span'[t].at \in {"ended", "late"}
        PROVE  \E i \in DOMAIN steps' : steps'[i].span = t
    <3>1. CASE t = s
      <4>1. Len(steps) + 1 \in DOMAIN steps'
        BY <1>6
      <4>. QED
        BY <1>6, <1>7, <3>1, <4>1
    <3>2. CASE t # s
      <4>1. PICK i \in DOMAIN steps : steps[i].span = t
        BY <1>1, <2>3, <3>2 DEF TraceInv, StepsInv
      <4>2. i \in DOMAIN steps'
        BY <1>6
      <4>. QED
        BY <1>6, <4>1, <4>2
    <3>. QED
      BY <3>1, <3>2
  <2>4. \A i, j \in DOMAIN steps' : steps'[i].span = steps'[j].span => i = j
    BY <1>6, <1>7, <1>8, <2>1 DEF TraceInv, StepsInv
  <2>. QED
    BY <2>2, <2>3, <2>4 DEF StepsInv
<1>. QED
  BY <1>1, <1>2, <1>6, <1>9

LEMMA EndIInv ==
  ASSUME Trace!TraceAssumption, TraceInv, NEW s \in Spans, Trace!End(s)
  PROVE  TraceInv'
<1>1. PICK place \in {"ended", "late"} :
        /\ place = "late" <=> Trace!SnapshotTaken
        /\ span' = [span EXCEPT ![s].at = place]
  BY DEF Trace!End
<1>2. /\ span[s].at = "open" /\ Trace!Recorded(s)
      /\ UNCHANGED <<now, next, turn, snapshot, counted, status, store, row, persisted>>
  BY DEF Trace!End, Trace!recorded
<1>3. s \in Trace!All /\ s # Root /\ Root \in Trace!All
  BY DEF Trace!All, Trace!TraceAssumption
<1>4. /\ steps' \in Seq(Trace!Steps) /\ StepsInv'
      /\ span' \in [Trace!All -> SpanRecord]
      /\ span'[s].at = place /\ span'[s].step = span[s].step
      /\ \A t \in Trace!All \ {s} : span'[t] = span[t]
      /\ Numbered' = Numbered
  BY <1>1, <1>2, <1>3, RecordedInv
<1>5. NumberInv'
  <2>1. \A t \in Trace!All : /\ span'[t].step = span[t].step
                             /\ span'[t].at = "idle" <=> span[t].at = "idle"
    BY <1>1, <1>2, <1>4
  <2>2. turn # "new"
    BY <1>2, <1>3 DEF TraceInv, NumberInv
  <2>. QED
    BY <1>2, <1>3, <1>4, <2>1, <2>2 DEF TraceInv, NumberInv
<1>6. SnapshotInv' /\ RowInv'
  <2>1. Trace!SnapshotTaken => Ended' = Ended
    BY <1>1, <1>2, <1>3, <1>4 DEF Ended
  <2>2. ~Trace!SnapshotTaken => \A t \in Trace!All : span'[t].at # "late"
    BY <1>1, <1>4 DEF TraceInv, SnapshotInv
  <2>. QED
    BY <1>2, <2>1, <2>2, SpanMoved
<1>7. Trace!TraceTypeOK'
  BY <1>2, <1>4 DEF TraceInv, Trace!TraceTypeOK, SpanRecord, Stands
<1>. QED
  BY <1>4, <1>5, <1>6, <1>7 DEF TraceInv

LEMMA StartIInv ==
  ASSUME Trace!TraceAssumption, TraceInv, Trace!StartTurn
  PROVE  TraceInv'
<1>1. /\ turn = "new" /\ turn' = "running" /\ next' = 1
      /\ span' = [span EXCEPT ![Root] = [at |-> "open", step |-> 1, start |-> now]]
      /\ UNCHANGED <<now, steps, snapshot, counted, status, store, row, persisted>>
  BY DEF Trace!StartTurn
<1>2. Root \in Trace!All /\ 1 \in 0 .. Cardinality(Trace!All) /\ now \in 0 .. MaxNow
  BY TraceSets DEF TraceInv, Trace!TraceTypeOK
<1>3. /\ span'[Root] = [at |-> "open", step |-> 1, start |-> now]
      /\ \A t \in Trace!All \ {Root} : span'[t] = span[t]
      /\ span' \in [Trace!All -> SpanRecord]
  BY <1>1, <1>2, SpanType DEF SpanRecord, Stands
<1>4. \A t \in Trace!All : span[t].at = "idle" /\ span[t].step = 0
  BY <1>1 DEF TraceInv, NumberInv
<1>5. Numbered' = {Root} /\ Ended' = Ended /\ Ended = {}
  BY <1>2, <1>3, <1>4 DEF Numbered, Ended
<1>6. Cardinality(Numbered') = 1
  BY <1>5, FS_Singleton
<1>7. NumberInv'
  <2>1. \A t \in Trace!All : /\ span'[t].at = "idle" <=> span'[t].step = 0
                             /\ span'[t].step <= 1 /\ (t # Root => span'[t].step = 0)
    BY <1>2, <1>3, <1>4
  <2>2. span'[Root].at = "open" /\ span'[Root].step = 1
    BY <1>3
  <2>. QED
    BY <1>1, <1>6, <2>1, <2>2 DEF NumberInv
<1>8. DOMAIN steps = {}
  <2>1. steps \in Seq(Trace!Steps)
    BY DEF TraceInv, Trace!TraceTypeOK
  <2>2. \A i \in DOMAIN steps : steps[i] \in Trace!Steps
    BY <2>1
  <2>. QED
    BY <1>4, <2>2 DEF TraceInv, StepsInv, Trace!Steps
<1>9. StepsInv'
  <2>1. \A t \in Trace!All : span'[t].at \notin {"ended", "late"}
    BY <1>2, <1>3, <1>4
  <2>. QED
    BY <1>1, <1>8, <2>1 DEF StepsInv
<1>10. SnapshotInv' /\ RowInv'
  <2>1. ~Trace!SnapshotTaken' /\ \A t \in Trace!All : span'[t].at # "late"
    BY <1>1, <1>2, <1>3, <1>4 DEF Trace!SnapshotTaken
  <2>. QED
    BY <1>1, <2>1 DEF TraceInv, SnapshotInv, RowInv
<1>11. Trace!TraceTypeOK'
  <2>1. next' \in 0 .. Cardinality(Trace!All)
    BY <1>1, <1>2
  <2>. QED
    BY <1>1, <1>3, <2>1, TraceCounts DEF TraceInv, Trace!TraceTypeOK, SpanRecord, Stands
<1>. QED
  BY <1>7, <1>9, <1>10, <1>11 DEF TraceInv

LEMMA FinishIInv ==
  ASSUME Trace!TraceAssumption, TraceInv, NEW outcome \in Trace!Statuses, Trace!Finish(outcome)
  PROVE  TraceInv'
<1>1. /\ turn = "running" /\ Trace!Recorded(Root) /\ turn' = "ended" /\ status' = outcome
      /\ span' = [span EXCEPT ![Root].at = "ended"]
      /\ UNCHANGED <<now, next, snapshot, counted, store, row, persisted>>
  BY DEF Trace!Finish
<1>2. Root \in Trace!All /\ span[Root].at = "open"
  BY <1>1, TraceSets DEF TraceInv, NumberInv
<1>3. /\ steps' \in Seq(Trace!Steps) /\ StepsInv'
      /\ span' \in [Trace!All -> SpanRecord]
      /\ span'[Root].at = "ended" /\ span'[Root].step = span[Root].step
      /\ \A t \in Trace!All \ {Root} : span'[t] = span[t]
      /\ Numbered' = Numbered
  BY <1>1, <1>2, RecordedInv
<1>4. NumberInv'
  <2>1. \A t \in Trace!All : /\ span'[t].step = span[t].step
                             /\ span'[t].at = "idle" <=> span[t].at = "idle"
    BY <1>1, <1>2, <1>3
  <2>. QED
    BY <1>1, <1>2, <1>3, <2>1 DEF TraceInv, NumberInv
<1>5. SnapshotInv' /\ RowInv'
  <2>1. ~Trace!SnapshotTaken /\ ~Trace!SnapshotTaken'
    BY <1>1 DEF Trace!SnapshotTaken
  <2>2. \A t \in Trace!All : span'[t].at # "late"
    BY <1>2, <1>3, <2>1 DEF TraceInv, SnapshotInv
  <2>. QED
    BY <1>1, <2>1, <2>2 DEF TraceInv, SnapshotInv, RowInv
<1>6. Trace!TraceTypeOK'
  BY <1>1, <1>3 DEF TraceInv, Trace!TraceTypeOK, SpanRecord, Stands, Trace!Statuses
<1>. QED
  BY <1>3, <1>4, <1>5, <1>6 DEF TraceInv

LEMMA SnapshotIInv ==
  ASSUME Trace!TraceAssumption, TraceInv, Trace!Snapshot
  PROVE  TraceInv'
<1>. DEFINE D == DOMAIN steps
            R == {p \in D \X D : Trace!Before(steps[p[1]], steps[p[2]])}
            rank(i) == Trace!Cardinality({j \in D : Trace!Before(steps[j], steps[i])})
            at(n) == CHOOSE i \in D : rank(i) = n - 1
<1>1. /\ turn = "ended" /\ turn' = "taken" /\ snapshot' = [n \in D |-> steps[at(n)]]
      /\ UNCHANGED <<now, next, steps, span, counted, status, store, row, persisted>>
  BY DEF Trace!Snapshot
<1>2. /\ Len(steps) \in Nat /\ D = 1 .. Len(steps) /\ steps \in Seq(Trace!Steps)
      /\ IsFiniteSet(D) /\ Cardinality(D) = Len(steps)
  <2>1. steps \in Seq(Trace!Steps)
    BY DEF TraceInv, Trace!TraceTypeOK
  <2>2. Len(steps) \in Nat /\ D = 1 .. Len(steps)
    BY <2>1
  <2>. QED
    BY <2>1, <2>2, FS_Interval
<1>3. \A i \in D : /\ steps[i] \in Trace!Steps /\ steps[i].span \in Trace!All
                   /\ steps[i].start \in Nat /\ steps[i].step \in Nat
  <2>1. \A i \in D : steps[i] \in Trace!Steps
    BY <1>2
  <2>. QED
    BY <2>1 DEF Trace!Steps
<1>4. \A i, j \in D : i # j => steps[i].step # steps[j].step
  BY <1>3, TraceSets DEF TraceInv, NumberInv, StepsInv
<1>5. Ordered(D, R)
  <2>1. \A i \in D : ~Trace!Before(steps[i], steps[i])
    BY <1>3 DEF Trace!Before
  <2>2. \A i, j \in D : i # j => Trace!Before(steps[i], steps[j]) \/ Trace!Before(steps[j], steps[i])
    BY <1>3, <1>4 DEF Trace!Before
  <2>3. \A i, j, k \in D :
          Trace!Before(steps[i], steps[j]) /\ Trace!Before(steps[j], steps[k]) => Trace!Before(steps[i], steps[k])
    BY <1>3 DEF Trace!Before
  <2>4. \A i, j \in D : <<i, j>> \in R <=> Trace!Before(steps[i], steps[j])
    OBVIOUS
  <2>. HIDE DEF D, R
  <2>. QED
    BY <2>1, <2>2, <2>3, <2>4 DEF Ordered
<1>6. \A i \in D : rank(i) = Cardinality(Below(D, R, i))
  <2>1. \A i \in D : {j \in D : Trace!Before(steps[j], steps[i])} = Below(D, R, i)
    BY DEF Below
  <2>. QED
    BY <2>1, TraceCounts
<1>7. \A i, j \in D : <<i, j>> \in R <=> Trace!Before(steps[i], steps[j])
  OBVIOUS
<1>. HIDE DEF R, rank
<1>8. /\ \A i \in D : rank(i) \in 0 .. Len(steps) - 1
      /\ \A i, j \in D : Trace!Before(steps[i], steps[j]) => rank(i) < rank(j)
      /\ \A n \in D : \E i \in D : rank(i) = n - 1
  <2>1. /\ \A i \in D : Cardinality(Below(D, R, i)) \in 0 .. Cardinality(D) - 1
        /\ \A i, j \in D : <<i, j>> \in R => Cardinality(Below(D, R, i)) < Cardinality(Below(D, R, j))
        /\ \A k \in 0 .. Cardinality(D) - 1 : \E i \in D : Cardinality(Below(D, R, i)) = k
    BY <1>2, <1>5, Ranked
  <2>2. \A n \in D : n - 1 \in 0 .. Cardinality(D) - 1
    BY <1>2
  <2>. QED
    BY <1>2, <1>6, <1>7, <2>1, <2>2
<1>9. \A n \in D : at(n) \in D /\ rank(at(n)) = n - 1
  BY <1>8
<1>10. \A i, j \in D : rank(i) = rank(j) => i = j
  <2>. SUFFICES ASSUME NEW i \in D, NEW j \in D, i # j
                PROVE  rank(i) # rank(j)
    OBVIOUS
  <2>1. Trace!Before(steps[i], steps[j]) \/ Trace!Before(steps[j], steps[i])
    BY <1>5, <1>7 DEF Ordered
  <2>2. rank(i) \in Nat /\ rank(j) \in Nat
    BY <1>8
  <2>. QED
    BY <1>8, <2>1, <2>2
<1>. HIDE DEF at, D
<1>11. /\ DOMAIN snapshot' = D /\ \A n \in D : snapshot'[n] = steps[at(n)]
       /\ snapshot' \in Seq(Trace!Steps)
  <2>1. snapshot' \in [1 .. Len(steps) -> Trace!Steps]
    BY <1>1, <1>2, <1>3, <1>9
  <2>. QED
    BY <1>1, <1>2, <2>1
<1>12. ASSUME NEW n \in D, NEW m \in D, n < m
       PROVE  Trace!Before(snapshot'[n], snapshot'[m])
  <2>1. rank(at(n)) < rank(at(m)) /\ at(n) # at(m)
    BY <1>2, <1>9, <1>12
  <2>2. Trace!Before(steps[at(n)], steps[at(m)]) \/ Trace!Before(steps[at(m)], steps[at(n)])
    BY <1>5, <1>7, <1>9, <2>1 DEF Ordered
  <2>3. ~Trace!Before(steps[at(m)], steps[at(n)])
    <3>1. rank(at(n)) \in Nat /\ rank(at(m)) \in Nat
      BY <1>8, <1>9
    <3>. QED
      BY <1>8, <1>9, <2>1, <3>1
  <2>. QED
    BY <1>11, <2>2, <2>3
<1>13. \A i \in D : \E n \in D : snapshot'[n] = steps[i]
  <2>. TAKE i \in D
  <2>1. PICK k \in 0 .. Len(steps) - 1 : k = rank(i)
    BY <1>8
  <2>2. k + 1 \in D /\ (k + 1) - 1 = k
    BY <1>2
  <2>3. at(k + 1) \in D /\ rank(at(k + 1)) = rank(i)
    BY <1>9, <2>1, <2>2
  <2>4. at(k + 1) = i
    BY <1>10, <2>3
  <2>. QED
    BY <1>11, <2>2, <2>4
<1>14. \A n, m \in D : snapshot'[n].span = snapshot'[m].span => n = m
  <2>. SUFFICES ASSUME NEW n \in D, NEW m \in D, snapshot'[n].span = snapshot'[m].span
                PROVE  n = m
    OBVIOUS
  <2>1. at(n) = at(m)
    BY <1>9, <1>11 DEF TraceInv, StepsInv, D
  <2>2. n - 1 = m - 1
    BY <1>9, <2>1
  <2>. QED
    BY <1>2, <2>2
<1>15. /\ \A s \in Trace!All : span[s].at # "late"
       /\ Trace!SnapshotTaken'
  BY <1>1 DEF TraceInv, SnapshotInv, Trace!SnapshotTaken
<1>16. NumberInv' /\ StepsInv' /\ Ended' = Ended
  BY <1>1, SpansKept DEF TraceInv
<1>17. \A n \in D : snapshot'[n].span \in Ended
  BY <1>3, <1>9, <1>11, <1>15 DEF TraceInv, StepsInv, Ended, D
<1>18. \A s \in Ended : \E n \in D : snapshot'[n].span = s
  <2>. TAKE s \in Ended
  <2>1. PICK i \in D : steps[i].span = s
    BY DEF TraceInv, StepsInv, Ended, D
  <2>. QED
    BY <1>13, <2>1
<1>19. SnapshotInv'
  BY <1>11, <1>12, <1>14, <1>15, <1>16, <1>17, <1>18 DEF SnapshotInv, Trace!Sorted
<1>20. RowInv'
  BY <1>1 DEF TraceInv, RowInv
<1>21. Trace!TraceTypeOK'
  BY <1>1, <1>11 DEF TraceInv, Trace!TraceTypeOK
<1>. QED
  BY <1>16, <1>19, <1>20, <1>21 DEF TraceInv

\* The turn moves on behind its snapshot.
LEMMA Behind ==
  ASSUME TraceInv, Trace!SnapshotTaken, turn' \in {"flushed", "waiting", "over"},
         UNCHANGED <<now, next, steps, span, snapshot>>
  PROVE  NumberInv' /\ StepsInv' /\ SnapshotInv' /\ Ended' = Ended
<1>1. NumberInv' /\ StepsInv' /\ Ended' = Ended
  BY SpansKept DEF TraceInv, Trace!SnapshotTaken
<1>2. Trace!SnapshotTaken'
  BY DEF Trace!SnapshotTaken
<1>. QED
  BY <1>1, <1>2 DEF TraceInv, SnapshotInv

LEMMA FlushIInv ==
  ASSUME Trace!TraceAssumption, TraceInv, Trace!Flush
  PROVE  TraceInv'
<1>1. /\ turn = "taken" /\ turn' = "flushed"
      /\ counted' = [s \in Trace!All |-> counted[s] + Cardinality({i \in DOMAIN snapshot : snapshot[i].span = s})]
      /\ UNCHANGED <<now, next, steps, span, snapshot, status, store, row, persisted>>
  BY TraceCounts DEF Trace!Flush
<1>2. Trace!SnapshotTaken
  BY <1>1 DEF Trace!SnapshotTaken
<1>3. NumberInv' /\ StepsInv' /\ SnapshotInv' /\ Ended' = Ended
  BY <1>1, <1>2, Behind
<1>4. \A s \in Trace!All : counted'[s] = IF s \in Ended THEN 1 ELSE 0
  <2>1. \A s \in Trace!All : Cardinality({i \in DOMAIN snapshot : snapshot[i].span = s})
                       = IF s \in Ended THEN 1 ELSE 0
    BY <1>2, PlacesOf
  <2>2. \A s \in Trace!All : counted[s] = 0
    BY <1>1 DEF TraceInv, RowInv
  <2>. QED
    BY <1>1, <2>1, <2>2
<1>5. RowInv'
  BY <1>1, <1>3, <1>4 DEF TraceInv, RowInv
<1>6. counted' \in [Trace!All -> 0 .. 1]
  BY <1>1, <1>4
<1>7. Trace!TraceTypeOK'
  BY <1>1, <1>6 DEF TraceInv, Trace!TraceTypeOK
<1>. QED
  BY <1>3, <1>5, <1>7 DEF TraceInv

LEMMA StoringIInv ==
  ASSUME Trace!TraceAssumption, TraceInv, Trace!NoStore \/ Trace!Persist \/ Trace!Collect \/
           Trace!TimeOut
  PROVE  TraceInv'
<1>1. /\ turn \in {"flushed", "waiting"} /\ turn' \in {"waiting", "over"}
      /\ UNCHANGED <<now, next, steps, span, snapshot, counted, status, row>>
  BY DEF Trace!NoStore, Trace!Persist, Trace!Collect, Trace!TimeOut
<1>2. Trace!SnapshotTaken
  BY <1>1 DEF Trace!SnapshotTaken
<1>3. NumberInv' /\ StepsInv' /\ SnapshotInv' /\ Ended' = Ended
  BY <1>1, <1>2, Behind
<1>4. /\ store' \in {store, "writing", "sent"} /\ persisted' \in {persisted, "ok", "fail"}
      /\ persisted' = "ok" => persisted = "ok" \/ store = "wrote"
  BY DEF Trace!NoStore, Trace!Persist, Trace!Collect, Trace!TimeOut
<1>5. RowInv'
  BY <1>1, <1>3, <1>4 DEF TraceInv, RowInv
<1>6. Trace!TraceTypeOK'
  BY <1>1, <1>4 DEF TraceInv, Trace!TraceTypeOK
<1>. QED
  BY <1>3, <1>5, <1>6 DEF TraceInv

LEMMA StoreReturnsIInv ==
  ASSUME Trace!TraceAssumption, TraceInv, NEW ok \in BOOLEAN, Trace!StoreReturns(ok)
  PROVE  TraceInv'
<1>. DEFINE toolSteps == Cardinality({i \in DOMAIN snapshot : snapshot[i].span \in ToolSpans})
            stored == [steps |-> Len(snapshot), status |-> status, tools |-> toolSteps]
<1>1. /\ store = "writing" /\ store' = IF ok THEN "wrote" ELSE "refused"
      /\ row' = IF ok THEN stored ELSE row
      /\ UNCHANGED <<now, next, steps, span, turn, snapshot, counted, status, persisted>>
  BY TraceCounts DEF Trace!StoreReturns
<1>2. turn \in {"waiting", "over"} /\ Trace!SnapshotTaken
  BY <1>1 DEF TraceInv, RowInv, Trace!SnapshotTaken
<1>3. NumberInv' /\ StepsInv' /\ SnapshotInv' /\ Ended' = Ended
  BY <1>1, <1>2, Behind
<1>4. snapshot \in Seq(Trace!Steps) /\ Len(snapshot) \in Nat /\ DOMAIN snapshot = 1 .. Len(snapshot)
  <2>1. snapshot \in Seq(Trace!Steps)
    BY DEF TraceInv, Trace!TraceTypeOK
  <2>. QED
    BY <2>1
<1>5. Len(snapshot) = Cardinality(Ended)
  <2>1. Cardinality({i \in DOMAIN snapshot : snapshot[i].span \in Trace!All}) = Cardinality(Ended \cap Trace!All)
    BY <1>2, StepsOf
  <2>2. {i \in DOMAIN snapshot : snapshot[i].span \in Trace!All} = DOMAIN snapshot
    BY <1>2 DEF TraceInv, SnapshotInv, Ended
  <2>3. Ended \cap Trace!All = Ended
    BY DEF Ended
  <2>4. Cardinality(1 .. Len(snapshot)) = Len(snapshot)
    <3>1. \A n \in Nat : Cardinality(1 .. n) = n
      BY FS_Interval
    <3>. QED
      BY <1>4, <3>1
  <2>. QED
    BY <1>4, <2>1, <2>2, <2>3, <2>4
<1>6. toolSteps = Cardinality(Ended \cap ToolSpans)
  <2>1. ToolSpans \in SUBSET Trace!All
    BY DEF Trace!TraceAssumption, Trace!All
  <2>. QED
    BY <1>2, <2>1, StepsOf
<1>7. /\ Cardinality(Ended) \in 0 .. Cardinality(Trace!All)
      /\ Cardinality(Ended \cap ToolSpans) \in 0 .. Cardinality(Spans)
  <2>1. Ended \in SUBSET Trace!All /\ Ended \cap ToolSpans \in SUBSET Spans
    BY DEF Ended, Trace!TraceAssumption
  <2>. QED
    BY <2>1, TraceSets
<1>8. status \in Trace!Statuses
  BY DEF TraceInv, Trace!TraceTypeOK
<1>. HIDE DEF toolSteps
<1>9. /\ stored \in [steps : 0 .. Cardinality(Trace!All), tools : 0 .. Cardinality(Spans), status : Trace!Statuses]
      /\ stored.steps = Cardinality(Ended) /\ stored.tools = Cardinality(Ended \cap ToolSpans)
      /\ stored.status = status
  BY <1>5, <1>6, <1>7, <1>8
<1>10. stored # None
  BY <1>9, TraceCounts DEF Trace!TraceAssumption, Trace!Rows
<1>. HIDE DEF stored
<1>11. RowInv'
  <2>1. CASE ok
    BY <1>1, <1>2, <1>3, <1>9, <1>10, <2>1 DEF TraceInv, RowInv
  <2>2. CASE ~ok
    BY <1>1, <1>2, <1>3, <2>2 DEF TraceInv, RowInv
  <2>. QED
    BY <2>1, <2>2
<1>12. Trace!TraceTypeOK'
  BY <1>1, <1>9, TraceCounts DEF TraceInv, Trace!TraceTypeOK, Trace!Rows
<1>. QED
  BY <1>3, <1>11, <1>12 DEF TraceInv

LEMMA TraceKept ==
  ASSUME Trace!TraceAssumption, TraceInv, Trace!Next
  PROVE  TraceInv'
<1>1. ASSUME UNCHANGED Trace!traceVars
      PROVE  TraceInv'
  BY <1>1 DEF Trace!traceVars, TraceInv, Trace!TraceTypeOK, NumberInv, StepsInv, SnapshotInv,
     RowInv,
              Numbered, Ended, Trace!SnapshotTaken, Trace!Sorted
<1>2. CASE Trace!Tick
  <2>1. /\ now' \in 0 .. MaxNow
        /\ UNCHANGED <<next, steps, span, turn, snapshot, counted, status, store, row, persisted>>
    BY <1>2 DEF Trace!Tick, Trace!recorded, TraceInv, Trace!TraceTypeOK, Trace!TraceAssumption
  <2>2. Trace!TraceTypeOK'
    BY <2>1 DEF TraceInv, Trace!TraceTypeOK
  <2>. QED
    BY <2>1, <2>2 DEF TraceInv, NumberInv, StepsInv, SnapshotInv, RowInv, Numbered, Ended,
       Trace!SnapshotTaken, Trace!Sorted
<1>3. ASSUME NEW s \in Spans, Trace!Call(s)
      PROVE  TraceInv'
  BY <1>1, <1>3, NumberIInv, BeginIInv, EndIInv DEF Trace!Call, Trace!EndAgain
<1>4. CASE Trace!Finishing
  <2>1. \A err \in Trace!Errors : Trace!StatusOf(err) \in Trace!Statuses
    BY DEF Trace!Errors, Trace!StatusOf, Trace!Statuses
  <2>2. "rejected" \in Trace!Statuses
    BY DEF Trace!Statuses
  <2>. QED
    BY <1>4, <2>1, <2>2, FinishIInv, SnapshotIInv, FlushIInv, StoringIInv DEF Trace!Finishing
<1>. QED
  BY <1>2, <1>3, <1>4, StartIInv, StoreReturnsIInv DEF Trace!Next
-----------------------------------------------------------------------------
(* The log writer (LogWriter). Output, buffer and queue are one stream: a    *)
(* line stands in it once or is gone, dropped or not taken by the output,    *)
(* from the moment its Write returns, and the lines of one writer stand in   *)
(* their order. A flush cuts the end of the batch out of it.                 *)

\* The lines on their way, the oldest first.
Whole(s, t, u) == s \o (t \o u)
Stream == Whole(out, buf, ch)
Streamed == {Stream[i] : i \in DOMAIN Stream}

\* The lines that will not come out: the queue was full, or the output failed.
Missing == dropped \cup failed

\* No line stands in the stream twice.
OnceInv == \A i, j \in DOMAIN Stream : Stream[i] = Stream[j] => i = j

\* A line is on its way or missing from the moment its Write returns.
AccountedInv == \A w \in Writers :
  /\ writer[w] = "done" => line[w] = Lines
  /\ \A k \in 1 .. Lines :
       IF k < line[w] \/ writer[w] = "done"
       THEN (<<w, k>> \in Missing) # (<<w, k>> \in Streamed)
       ELSE <<w, k>> \notin Missing /\ <<w, k>> \notin Streamed

\* The lines of a writer stand in their order, those aside that it wrote itself
\* after Close.
OrderInv == \A i, j \in DOMAIN Stream :
  i < j /\ Stream[i][1] = Stream[j][1] /\ Stream[i] \notin direct => Stream[i][2] < Stream[j][2]

\* run sees quit after Close has closed the writer.
CloseInv == /\ closed = (closer # "open")
            /\ runner # "running" => closer \in {"waiting", "over"}
            /\ runner = "done" => buf = <<>> /\ \A i \in DOMAIN ch : ch[i] \in late

LogInv == /\ Log!LogTypeOK /\ OnceInv /\ AccountedInv /\ OrderInv /\ CloseInv
          /\ dropped \cap failed = {}

(* Sequences *)

\* all is s, t and u one after the other, of the lengths n, b and c.
IsJoined(all, s, t, u, n, b, c) ==
  /\ Len(all) = (n + b) + c
  /\ \A i \in 1 .. n : all[i] = s[i]
  /\ \A i \in 1 .. b : all[n + i] = t[i]
  /\ \A i \in 1 .. c : all[(n + b) + i] = u[i]

LEMMA Joined ==
  ASSUME NEW S, NEW s \in Seq(S), NEW t \in Seq(S), NEW u \in Seq(S)
  PROVE  /\ Whole(s, t, u) \in Seq(S)
         /\ IsJoined(Whole(s, t, u), s, t, u, Len(s), Len(t), Len(u))
<1>. PICK n \in Nat, b \in Nat, c \in Nat : n = Len(s) /\ b = Len(t) /\ c = Len(u)
  BY LenProperties
<1>. DEFINE all == s \o (t \o u)
<1>1. /\ t \o u \in Seq(S) /\ Len(t \o u) = b + c
      /\ \A i \in 1 .. b + c : (t \o u)[i] = IF i <= b THEN t[i] ELSE u[i - b]
  BY ConcatProperties
<1>2. /\ all \in Seq(S) /\ Len(all) = n + (b + c)
      /\ \A i \in 1 .. n + (b + c) : all[i] = IF i <= n THEN s[i] ELSE (t \o u)[i - n]
  BY <1>1, ConcatProperties
<1>. HIDE DEF all
<1>3. ASSUME NEW i \in 1 .. b PROVE all[n + i] = t[i]
  <2>1. n + i \in 1 .. n + (b + c) /\ ~(n + i <= n) /\ (n + i) - n = i /\ i \in 1 .. b + c
    OBVIOUS
  <2>2. all[n + i] = (t \o u)[i]
    BY <1>2, <2>1
  <2>3. (t \o u)[i] = t[i]
    BY <1>1, <2>1
  <2>. QED
    BY <2>2, <2>3
<1>4. ASSUME NEW i \in 1 .. c PROVE all[(n + b) + i] = u[i]
  <2>1. /\ (n + b) + i \in 1 .. n + (b + c) /\ ~((n + b) + i <= n) /\ ((n + b) + i) - n = b + i
        /\ b + i \in 1 .. b + c /\ ~(b + i <= b) /\ (b + i) - b = i
    OBVIOUS
  <2>. QED
    BY <1>1, <1>2, <2>1
<1>5. Len(all) = (n + b) + c /\ \A i \in 1 .. n : all[i] = s[i]
  BY <1>2
<1>. QED
  BY <1>2, <1>3, <1>4, <1>5 DEF all, IsJoined, Whole

\* run takes a line from the queue to the batch: the stream stays.
LEMMA LogMoved ==
  ASSUME NEW S, NEW s \in Seq(S), NEW t \in Seq(S), NEW u \in Seq(S), u # <<>>
  PROVE  /\ Append(t, Head(u)) \in Seq(S) /\ Tail(u) \in Seq(S)
         /\ Whole(s, Append(t, Head(u)), Tail(u)) = Whole(s, t, u)
<1>1. Head(u) \in S /\ Tail(u) \in Seq(S)
  BY HeadTailProperties
<1>2. /\ <<Head(u)>> \in Seq(S)
      /\ Append(t, Head(u)) = t \o <<Head(u)>> /\ Append(t, Head(u)) \in Seq(S)
  BY <1>1, AppendIsConcat, AppendProperties
<1>3. <<Head(u)>> \o Tail(u) = u
  BY <1>1, HeadTailProperties
<1>4. (t \o <<Head(u)>>) \o Tail(u) = t \o u
  BY <1>1, <1>2, <1>3, ConcatAssociative
<1>. QED
  BY <1>1, <1>2, <1>4 DEF Whole

\* The line at place e stood at this place before a batch of b lines was cut
\* after k of them, behind n lines of output.
OldPlace(e, n, b, k) == IF e <= n + k THEN e ELSE e + (b - k)

\* Of s, t and u, of the lengths n, b and c, all of t behind its first k is cut out.
IsCut(S, s, t, u, n, b, c, k) ==
  LET cut == Whole(s \o SubSeq(t, 1, k), <<>>, u)
      all == Whole(s, t, u)
  IN  /\ s \o SubSeq(t, 1, k) \in Seq(S) /\ cut \in Seq(S) /\ all \in Seq(S)
      /\ Len(cut) = (n + k) + c /\ Len(all) = (n + b) + c
      /\ \A i \in 1 .. b : all[n + i] = t[i]
      /\ \A e \in 1 .. (n + k) + c :
           OldPlace(e, n, b, k) \in 1 .. (n + b) + c /\ cut[e] = all[OldPlace(e, n, b, k)]

\* The output takes k lines of the batch, the others are lost.
LEMMA Cut ==
  ASSUME NEW S, NEW s \in Seq(S), NEW t \in Seq(S), NEW u \in Seq(S),
         NEW n \in Nat, NEW b \in Nat, NEW c \in Nat, n = Len(s), b = Len(t), c = Len(u),
         NEW k \in 0 .. b
  PROVE  IsCut(S, s, t, u, n, b, c, k)
<1>. DEFINE head == SubSeq(t, 1, k)
            begin == s \o head
            cut == Whole(begin, <<>>, u)
            all == Whole(s, t, u)
<1>1. /\ head \in Seq(S) /\ Len(head) = k
      /\ \A i \in 1 .. k : head[i] = t[i]
  <2>1. \A i \in 1 .. k : t[i] \in S
    OBVIOUS
  <2>2. /\ SubSeq(t, 1, k) \in Seq(S) /\ Len(SubSeq(t, 1, k)) = IF 1 <= k THEN k - 1 + 1 ELSE 0
        /\ \A i \in 1 .. k - 1 + 1 : SubSeq(t, 1, k)[i] = t[1 + i - 1]
    BY <2>1, SubSeqProperties
  <2>3. k \in Int /\ k - 1 + 1 = k /\ (~(1 <= k) => k = 0)
    OBVIOUS
  <2>4. \A i \in 1 .. k : 1 + i - 1 = i
    OBVIOUS
  <2>. QED
    BY <2>2, <2>3, <2>4
<1>. HIDE DEF head
<1>2. /\ begin \in Seq(S) /\ Len(begin) = n + k
      /\ \A i \in 1 .. n + k : begin[i] = IF i <= n THEN s[i] ELSE head[i - n]
  BY <1>1, ConcatProperties
<1>. HIDE DEF begin
<1>3. cut \in Seq(S) /\ IsJoined(cut, begin, <<>>, u, n + k, 0, c)
  <2>1. <<>> \in Seq(S) /\ Len(<<>>) = 0
    BY EmptySeq
  <2>. QED
    BY <1>2, <2>1, Joined
<1>4. all \in Seq(S) /\ IsJoined(all, s, t, u, n, b, c)
  BY Joined
<1>. HIDE DEF cut, all
<1>5. Len(cut) = (n + k) + c /\ Len(all) = (n + b) + c
  BY <1>3, <1>4 DEF IsJoined
<1>6. ASSUME NEW e \in 1 .. (n + k) + c
      PROVE  OldPlace(e, n, b, k) \in 1 .. (n + b) + c /\ cut[e] = all[OldPlace(e, n, b, k)]
  <2>1. OldPlace(e, n, b, k) \in 1 .. (n + b) + c
    BY DEF OldPlace
  <2>2. CASE e <= n
    <3>1. e \in 1 .. n /\ e \in 1 .. n + k /\ OldPlace(e, n, b, k) = e
      BY <2>2 DEF OldPlace
    <3>2. cut[e] = begin[e] /\ begin[e] = s[e] /\ all[e] = s[e]
      BY <1>2, <1>3, <1>4, <2>2, <3>1 DEF IsJoined
    <3>. QED
      BY <2>1, <3>1, <3>2
  <2>3. CASE e > n /\ e <= n + k
    <3>1. PICK i \in 1 .. k : i = e - n
      <4>1. e - n \in 1 .. k
        BY <2>3
      <4>. QED
        BY <4>1
    <3>2. e \in 1 .. n + k /\ ~(e <= n) /\ e = n + i /\ OldPlace(e, n, b, k) = e /\ i \in 1 .. b
      BY <2>3, <3>1 DEF OldPlace
    <3>3. cut[e] = begin[e] /\ begin[e] = head[i] /\ head[i] = t[i]
      BY <1>1, <1>2, <1>3, <3>1, <3>2 DEF IsJoined
    <3>4. all[n + i] = t[i]
      BY <1>4, <3>2 DEF IsJoined
    <3>. QED
      BY <2>1, <3>2, <3>3, <3>4
  <2>4. CASE e > n + k
    <3>1. PICK i \in 1 .. c : i = e - (n + k)
      <4>1. e - (n + k) \in 1 .. c
        BY <2>4
      <4>. QED
        BY <4>1
    <3>2. e = ((n + k) + 0) + i /\ OldPlace(e, n, b, k) = (n + b) + i
      BY <2>4, <3>1 DEF OldPlace
    <3>3. cut[((n + k) + 0) + i] = u[i] /\ all[(n + b) + i] = u[i]
      BY <1>3, <1>4, <3>1 DEF IsJoined
    <3>. QED
      BY <2>1, <3>2, <3>3
  <2>. QED
    BY <2>2, <2>3, <2>4
<1>7. \A i \in 1 .. b : all[n + i] = t[i]
  BY <1>4 DEF IsJoined
<1>. QED
  BY <1>2, <1>3, <1>4, <1>5, <1>6, <1>7 DEF cut, begin, head, all, IsCut

\* A line is queued: it comes to the end of the stream.
LEMMA Queued ==
  ASSUME NEW S, NEW s \in Seq(S), NEW t \in Seq(S), NEW u \in Seq(S), NEW x \in S
  PROVE  Append(u, x) \in Seq(S) /\ Whole(s, t, Append(u, x)) = Append(Whole(s, t, u), x)
<1>1. <<x>> \in Seq(S) /\ Append(u, x) = u \o <<x>> /\ Append(u, x) \in Seq(S)
  BY AppendIsConcat, AppendProperties
<1>2. t \o u \in Seq(S) /\ s \o (t \o u) \in Seq(S)
  BY ConcatProperties
<1>3. t \o (u \o <<x>>) = (t \o u) \o <<x>>
  BY <1>1, ConcatAssociative
<1>4. s \o ((t \o u) \o <<x>>) = (s \o (t \o u)) \o <<x>>
  BY <1>1, <1>2, ConcatAssociative
<1>5. Append(s \o (t \o u), x) = (s \o (t \o u)) \o <<x>>
  BY <1>2, AppendIsConcat
<1>. QED
  BY <1>1, <1>3, <1>4, <1>5 DEF Whole

(* The invariant *)

LEMMA StreamIs ==
  ASSUME Log!LogTypeOK
  PROVE  /\ Stream \in Seq(Log!AllLines) /\ Len(Stream) \in Nat /\ DOMAIN Stream = 1 .. Len(Stream)
         /\ \A i \in DOMAIN Stream : Stream[i] \in Log!AllLines
         /\ Streamed \subseteq Log!AllLines
<1>1. Stream \in Seq(Log!AllLines)
  BY ConcatProperties DEF Log!LogTypeOK, Stream, Whole
<1>2. Len(Stream) \in Nat /\ DOMAIN Stream = 1 .. Len(Stream)
      /\ \A i \in DOMAIN Stream : Stream[i] \in Log!AllLines
  BY <1>1
<1>. QED
  BY <1>1, <1>2 DEF Streamed

LEMMA LogInit ==
  ASSUME Log!LogAssumption, Log!Init
  PROVE  LogInv
<1>1. Stream = <<>>
  BY EmptySeq, ConcatEmptySeq DEF Log!Init, Stream, Whole
<1>2. Log!LogTypeOK
  <2>1. /\ ch = <<>> /\ buf = <<>> /\ out = <<>> /\ <<>> \in Seq(Log!AllLines) /\ Len(<<>>) = 0
        /\ Lines \in Nat \ {0} /\ QueueSize \in Nat
    BY EmptySeq DEF Log!Init, Log!LogAssumption
  <2>2. closed \in BOOLEAN
    BY DEF Log!Init
  <2>3. Len(ch) <= QueueSize
    BY <2>1
  <2>4. /\ dropped \subseteq Log!AllLines /\ late \subseteq Log!AllLines
        /\ direct \subseteq Log!AllLines /\ failed \subseteq Log!AllLines
        /\ runner \in {"running", "draining", "done"}
        /\ closer \in {"open", "closing", "waiting", "over"}
    BY DEF Log!Init
  <2>5. /\ writer \in [Writers -> {"logging", "enqueuing", "done"}]
        /\ line \in [Writers -> 1 .. Lines]
    BY <2>1 DEF Log!Init
  <2>. QED
    BY <2>1, <2>2, <2>3, <2>4, <2>5 DEF Log!LogTypeOK
<1>3. DOMAIN Stream = {} /\ Streamed = {}
  BY <1>1 DEF Streamed
<1>4. OnceInv /\ OrderInv
  BY <1>3 DEF OnceInv, OrderInv
<1>5. AccountedInv
  <2>1. \A w \in Writers : writer[w] = "logging" /\ line[w] = 1 /\ Missing = {}
    BY DEF Log!Init, Missing
  <2>2. \A k \in 1 .. Lines : ~(k < 1)
    BY DEF Log!LogAssumption
  <2>. QED
    BY <1>3, <2>1, <2>2 DEF AccountedInv
<1>6. CloseInv
  BY DEF Log!Init, CloseInv
<1>. QED
  BY <1>2, <1>4, <1>5, <1>6 DEF Log!Init, LogInv

\* What is left when neither the stream nor a writer moves.
LEMMA Unmoved ==
  ASSUME LogInv, Stream' = Stream, UNCHANGED <<writer, line, dropped, direct, failed>>
  PROVE  OnceInv' /\ AccountedInv' /\ OrderInv'
<1>1. Streamed' = Streamed
  BY DEF Streamed
<1>. QED
  BY <1>1 DEF LogInv, OnceInv, AccountedInv, OrderInv, Missing

\* A line whose Write returns is on its way or missing.
LEMMA Said ==
  ASSUME Log!LogAssumption, LogInv, NEW w \in Writers, writer[w] # "done", Log!Written(w),
         \A l \in Log!AllLines : l # Log!This(w) =>
           (l \in Missing' <=> l \in Missing) /\ (l \in Streamed' <=> l \in Streamed),
         (Log!This(w) \in Missing') # (Log!This(w) \in Streamed')
  PROVE  /\ AccountedInv'
         /\ writer' \in [Writers -> {"logging", "enqueuing", "done"}]
         /\ line' \in [Writers -> 1 .. Lines]
<1>1. /\ writer \in [Writers -> {"logging", "enqueuing", "done"}]
      /\ line \in [Writers -> 1 .. Lines] /\ Lines \in Nat
      /\ \A v \in Writers : line[v] \in Nat /\ line[v] <= Lines
  BY DEF LogInv, Log!LogTypeOK, Log!LogAssumption
<1>2. /\ \A v \in Writers : v # w => line'[v] = line[v] /\ writer'[v] = writer[v]
      /\ \/ line[w] < Lines /\ line'[w] = line[w] + 1 /\ writer'[w] = "logging"
         \/ line[w] = Lines /\ line'[w] = line[w] /\ writer'[w] = "done"
      /\ writer' \in [Writers -> {"logging", "enqueuing", "done"}]
      /\ line' \in [Writers -> 1 .. Lines]
  BY <1>1 DEF Log!Written
<1>3. ASSUME NEW v \in Writers, NEW k \in 1 .. Lines
      PROVE  IF k < line'[v] \/ writer'[v] = "done"
             THEN (<<v, k>> \in Missing') # (<<v, k>> \in Streamed')
             ELSE <<v, k>> \notin Missing' /\ <<v, k>> \notin Streamed'
  <2>1. IF k < line[v] \/ writer[v] = "done"
        THEN (<<v, k>> \in Missing) # (<<v, k>> \in Streamed)
        ELSE <<v, k>> \notin Missing /\ <<v, k>> \notin Streamed
    BY DEF LogInv, AccountedInv
  <2>2. <<v, k>> \in Log!AllLines /\ (<<v, k>> = Log!This(w) <=> v = w /\ k = line[w])
    BY DEF Log!AllLines, Log!This
  <2>3. CASE v # w
    BY <1>2, <2>1, <2>2, <2>3
  <2>4. CASE v = w /\ k # line[w]
    <3>1. (k < line'[w] \/ writer'[w] = "done") <=> (k < line[w] \/ line[w] = Lines)
      BY <1>1, <1>2, <2>4
    <3>2. (k < line[w] \/ line[w] = Lines) <=> k < line[w]
      BY <1>1, <2>4
    <3>3. (k < line'[v] \/ writer'[v] = "done") <=> k < line[v]
      BY <2>4, <3>1, <3>2
    <3>. QED
      BY <2>1, <2>2, <2>4, <3>3
  <2>5. CASE v = w /\ k = line[w]
    <3>1. k < line'[v] \/ writer'[v] = "done"
      BY <1>1, <1>2, <2>5
    <3>. QED
      BY <2>2, <2>5, <3>1
  <2>. QED
    BY <2>3, <2>4, <2>5
<1>4. \A v \in Writers : writer'[v] = "done" => line'[v] = Lines
  BY <1>2 DEF LogInv, AccountedInv
<1>. QED
  BY <1>2, <1>3, <1>4 DEF AccountedInv

\* What a writer is about to log is nowhere yet, and all of its lines that are
\* somewhere have smaller numbers.
LEMMA Unsaid ==
  ASSUME LogInv, NEW w \in Writers, writer[w] # "done"
  PROVE  /\ Log!This(w) \in Log!AllLines /\ Log!This(w) \notin Missing
         /\ Log!This(w) \notin Streamed
         /\ Log!This(w)[1] = w /\ Log!This(w)[2] = line[w]
         /\ \A l \in Streamed : l[1] = w => l[2] < line[w]
<1>1. line[w] \in 1 .. Lines
  BY DEF LogInv, Log!LogTypeOK
<1>2. Log!This(w) \in Log!AllLines /\ Log!This(w) \notin Missing /\ Log!This(w) \notin Streamed
  BY <1>1 DEF LogInv, AccountedInv, Log!AllLines, Log!This
<1>3. ASSUME NEW l \in Streamed, l[1] = w
      PROVE  l[2] < line[w]
  <2>1. l \in Log!AllLines
    BY StreamIs DEF LogInv
  <2>2. PICK k \in 1 .. Lines : l = <<w, k>>
    BY <1>3, <2>1 DEF Log!AllLines
  <2>. QED
    BY <2>2 DEF LogInv, AccountedInv
<1>. QED
  BY <1>2, <1>3 DEF Log!This

LEMMA LogIInv ==
  ASSUME Log!LogAssumption, LogInv, NEW w \in Writers, Log!Log(w)
  PROVE  LogInv'
<1>1. /\ writer[w] = "logging"
      /\ UNCHANGED <<ch, buf, dropped, closed, runner, closer, late>>
  BY DEF Log!Log
<1>2. CloseInv'
  BY <1>1 DEF LogInv, CloseInv
<1>3. CASE ~closed
  <2>1. /\ writer' = [writer EXCEPT ![w] = "enqueuing"] /\ UNCHANGED <<out, line, direct, failed>>
    BY <1>3 DEF Log!Log
  <2>2. Stream' = Stream /\ Streamed' = Streamed
    BY <1>1, <2>1 DEF Stream, Streamed
  <2>3. OnceInv' /\ OrderInv'
    BY <1>1, <2>1, <2>2 DEF LogInv, OnceInv, OrderInv
  <2>4. /\ writer' \in [Writers -> {"logging", "enqueuing", "done"}]
        /\ \A v \in Writers : writer'[v] = "done" <=> writer[v] = "done"
    BY <1>1, <2>1 DEF LogInv, Log!LogTypeOK
  <2>5. AccountedInv'
    BY <1>1, <2>1, <2>2, <2>4 DEF LogInv, AccountedInv, Missing
  <2>6. Log!LogTypeOK'
    BY <1>1, <2>1, <2>4 DEF LogInv, Log!LogTypeOK
  <2>. QED
    BY <1>1, <1>2, <2>1, <2>3, <2>5, <2>6 DEF LogInv
<1>4. CASE closed /\ out' = Append(out, Log!This(w)) /\ UNCHANGED failed
  <2>. DEFINE x == Log!This(w)
  <2>1. out' = Append(out, x) /\ direct' = direct \cup {x} /\ Log!Written(w) /\ Missing' = Missing
    BY <1>1, <1>4 DEF Log!Log, Missing
  <2>2. /\ x \in Log!AllLines /\ x \notin Missing /\ x \notin Streamed /\ x[1] = w
        /\ x[2] = line[w]
        /\ \A l \in Streamed : l[1] = w => l[2] < line[w]
    BY <1>1, Unsaid
  <2>3. /\ out \in Seq(Log!AllLines) /\ buf \in Seq(Log!AllLines) /\ ch \in Seq(Log!AllLines)
        /\ line[w] \in Nat
    BY DEF LogInv, Log!LogTypeOK
  <2>. HIDE DEF x
  <2>5. PICK n \in Nat, b \in Nat, c \in Nat : n = Len(out) /\ b = Len(buf) /\ c = Len(ch)
    BY <2>3
  <2>4. /\ out' \in Seq(Log!AllLines) /\ Len(out') = n + 1 /\ out'[n + 1] = x
        /\ \A i \in 1 .. n : out'[i] = out[i]
    BY <2>1, <2>2, <2>3, <2>5, AppendProperties
  <2>6. /\ Stream \in Seq(Log!AllLines) /\ Len(Stream) = (n + b) + c
        /\ \A i \in 1 .. n : Stream[i] = out[i]
        /\ \A i \in 1 .. b : Stream[n + i] = buf[i]
        /\ \A i \in 1 .. c : Stream[(n + b) + i] = ch[i]
    <3>. DEFINE all == Whole(out, buf, ch)
    <3>1. all \in Seq(Log!AllLines) /\ IsJoined(all, out, buf, ch, n, b, c)
      BY <2>3, <2>5, Joined
    <3>. QED
      BY <3>1 DEF Stream, IsJoined
  <2>7. /\ Stream' \in Seq(Log!AllLines) /\ Len(Stream') = ((n + 1) + b) + c
        /\ \A i \in 1 .. n + 1 : Stream'[i] = out'[i]
        /\ \A i \in 1 .. b : Stream'[(n + 1) + i] = buf[i]
        /\ \A i \in 1 .. c : Stream'[((n + 1) + b) + i] = ch[i]
    <3>. DEFINE all == Whole(out', buf, ch)
    <3>1. Len(out') = n + 1 /\ n + 1 \in Nat
      BY <2>4, <2>5
    <3>2. all \in Seq(Log!AllLines) /\ IsJoined(all, out', buf, ch, n + 1, b, c)
      BY <2>3, <2>4, <2>5, <3>1, Joined
    <3>. QED
      BY <1>1, <3>2 DEF Stream, IsJoined
  \* The new line is at place n + 1 and moves those behind it by one.
  <2>. DEFINE old(i) == IF i <= n THEN i ELSE i - 1
              D == 1 .. (n + b) + c
              D1 == 1 .. ((n + b) + c) + 1
  <2>8. DOMAIN Stream = D /\ DOMAIN Stream' = D1
    <3>1. ((n + 1) + b) + c = ((n + b) + c) + 1
      BY <2>5
    <3>. QED
      BY <2>6, <2>7, <3>1
  <2>9. n + 1 \in D1 /\ Stream'[n + 1] = x
    BY <2>4, <2>5, <2>7
  <2>10. ASSUME NEW i \in D1, i # n + 1
         PROVE  old(i) \in D /\ Stream'[i] = Stream[old(i)]
    <3>1. CASE i <= n
      BY <2>4, <2>5, <2>6, <2>7, <2>10, <3>1
    <3>2. CASE i > n /\ i - (n + 1) <= b
      <4>1. PICK k \in 1 .. b : k = i - (n + 1)
        <5>1. i - (n + 1) \in 1 .. b
          BY <2>5, <2>10, <3>2
        <5>. QED
          BY <5>1
      <4>2. i = (n + 1) + k /\ old(i) = n + k /\ old(i) \in D
        BY <2>5, <3>2, <4>1
      <4>. QED
        BY <2>6, <2>7, <4>2
    <3>3. CASE i > n /\ i - (n + 1) > b
      <4>1. PICK k \in 1 .. c : k = i - ((n + 1) + b)
        <5>1. i - ((n + 1) + b) \in 1 .. c
          BY <2>5, <2>10, <3>3
        <5>. QED
          BY <5>1
      <4>2. i = ((n + 1) + b) + k /\ old(i) = (n + b) + k /\ old(i) \in D
        BY <2>5, <3>3, <4>1
      <4>. QED
        BY <2>6, <2>7, <4>2
    <3>. QED
      BY <2>5, <2>10, <3>1, <3>2, <3>3
  <2>11. \A i \in D : \E k \in D1 : k # n + 1 /\ old(k) = i
    <3>. TAKE i \in D
    <3>1. CASE i <= n
      BY <2>5, <3>1
    <3>2. CASE i > n
      <4>1. i + 1 \in D1 /\ i + 1 # n + 1 /\ old(i + 1) = i
        BY <2>5, <3>2
      <4>. QED
        BY <4>1
    <3>. QED
      BY <2>5, <3>1, <3>2
  <2>12. \A i, j \in D1 : i # n + 1 /\ j # n + 1 =>
           (old(i) = old(j) => i = j) /\ (i < j => old(i) < old(j))
    BY <2>5
  <2>. HIDE DEF old, D, D1
  <2>13. Streamed' = Streamed \cup {x}
    <3>1. \A i \in D1 : Stream'[i] \in Streamed \cup {x}
      BY <2>8, <2>9, <2>10 DEF Streamed
    <3>2. \A i \in D : \E k \in D1 : Stream'[k] = Stream[i]
      BY <2>10, <2>11
    <3>. QED
      BY <2>8, <2>9, <3>1, <3>2 DEF Streamed
  <2>14. OnceInv'
    <3>. SUFFICES ASSUME NEW i \in D1, NEW j \in D1, Stream'[i] = Stream'[j]
                  PROVE  i = j
      BY <2>8 DEF OnceInv
    <3>1. \A k \in D1 : k # n + 1 => Stream'[k] # x
      BY <2>2, <2>8, <2>10 DEF Streamed
    <3>2. CASE i # n + 1 /\ j # n + 1
      <4>1. old(i) = old(j)
        BY <2>8, <2>10, <3>2 DEF LogInv, OnceInv
      <4>. QED
        BY <2>12, <3>2, <4>1
    <3>. QED
      BY <2>9, <3>1, <3>2
  <2>15. OrderInv'
    <3>. SUFFICES ASSUME NEW i \in D1, NEW j \in D1, i < j,
                         Stream'[i][1] = Stream'[j][1], Stream'[i] \notin direct'
                  PROVE  Stream'[i][2] < Stream'[j][2]
      BY <2>8 DEF OrderInv
    <3>1. i # n + 1 /\ Stream'[i] \notin direct
      BY <2>1, <2>9
    <3>2. CASE j = n + 1
      <4>1. Stream'[i] \in Streamed
        BY <2>8, <2>10, <3>1 DEF Streamed
      <4>. QED
        BY <2>2, <2>9, <3>2, <4>1
    <3>3. CASE j # n + 1
      <4>1. old(i) < old(j) /\ old(i) \in D /\ old(j) \in D
        BY <2>10, <2>12, <3>1, <3>3
      <4>. QED
        BY <2>8, <2>10, <3>1, <3>3, <4>1 DEF LogInv, OrderInv
    <3>. QED
      BY <3>2, <3>3
  <2>16. /\ AccountedInv'
         /\ writer' \in [Writers -> {"logging", "enqueuing", "done"}]
         /\ line' \in [Writers -> 1 .. Lines]
    <3>1. \A l \in Log!AllLines : l # x =>
            (l \in Missing' <=> l \in Missing) /\ (l \in Streamed' <=> l \in Streamed)
      BY <2>1, <2>13
    <3>2. (x \in Missing') # (x \in Streamed')
      BY <2>1, <2>2, <2>13
    <3>. QED
      BY <1>1, <2>1, <3>1, <3>2, Said DEF x
  <2>17. Log!LogTypeOK'
    BY <1>1, <1>4, <2>1, <2>2, <2>4, <2>16 DEF LogInv, Log!LogTypeOK
  <2>. QED
    BY <1>1, <1>2, <1>4, <2>14, <2>15, <2>16, <2>17 DEF LogInv
<1>5. CASE closed /\ failed' = failed \cup {Log!This(w)} /\ UNCHANGED out
  <2>. DEFINE x == Log!This(w)
  <2>1. direct' = direct \cup {x} /\ Log!Written(w) /\ Missing' = Missing \cup {x}
    BY <1>1, <1>5 DEF Log!Log, Missing
  <2>2. x \in Log!AllLines /\ x \notin Missing /\ x \notin Streamed
    BY <1>1, Unsaid
  <2>3. Stream' = Stream /\ Streamed' = Streamed
    BY <1>1, <1>5 DEF Stream, Streamed
  <2>. HIDE DEF x
  <2>4. OnceInv' /\ OrderInv'
    BY <2>1, <2>3 DEF LogInv, OnceInv, OrderInv
  <2>5. /\ AccountedInv'
        /\ writer' \in [Writers -> {"logging", "enqueuing", "done"}]
        /\ line' \in [Writers -> 1 .. Lines]
    <3>1. \A l \in Log!AllLines : l # x =>
            (l \in Missing' <=> l \in Missing) /\ (l \in Streamed' <=> l \in Streamed)
      BY <2>1, <2>3
    <3>2. (x \in Missing') # (x \in Streamed')
      BY <2>1, <2>2, <2>3
    <3>. QED
      BY <1>1, <2>1, <3>1, <3>2, Said DEF x
  <2>6. failed' = failed \cup {x}
    BY <1>5 DEF x
  <2>7. Log!LogTypeOK'
    BY <1>1, <1>5, <2>1, <2>2, <2>5, <2>6 DEF LogInv, Log!LogTypeOK
  <2>8. (dropped \cap failed = {})'
    BY <1>1, <2>2, <2>6 DEF LogInv, Missing
  <2>. QED
    BY <1>2, <2>4, <2>5, <2>7, <2>8 DEF LogInv
<1>. QED
  BY <1>3, <1>4, <1>5 DEF Log!Log

LEMMA EnqueueIInv ==
  ASSUME Log!LogAssumption, LogInv, NEW w \in Writers, Log!Enqueue(w)
  PROVE  LogInv'
<1>. DEFINE x == Log!This(w)
<1>1. /\ writer[w] = "enqueuing" /\ Log!Written(w)
      /\ UNCHANGED <<buf, out, closed, runner, closer, direct, failed>>
  BY DEF Log!Enqueue, Log!Enqueued
<1>2. /\ x \in Log!AllLines /\ x \notin Missing /\ x \notin Streamed /\ x[1] = w
      /\ x[2] = line[w]
      /\ \A l \in Streamed : l[1] = w => l[2] < line[w]
  BY <1>1, Unsaid
<1>3. /\ out \in Seq(Log!AllLines) /\ buf \in Seq(Log!AllLines) /\ ch \in Seq(Log!AllLines)
      /\ line[w] \in Nat /\ Len(ch) \in Nat
  BY DEF LogInv, Log!LogTypeOK
<1>4. CASE Len(ch) < QueueSize
  <2>1. /\ ch' = Append(ch, x) /\ late' = IF closed THEN late \cup {x} ELSE late
        /\ UNCHANGED dropped /\ Missing' = Missing
    BY <1>1, <1>4 DEF Log!Enqueue, Log!Enqueued, Missing
  <2>. HIDE DEF x
  <2>2. ch' \in Seq(Log!AllLines) /\ Stream' = Append(Stream, x)
    <3>1. /\ Append(ch, x) \in Seq(Log!AllLines)
          /\ Whole(out, buf, Append(ch, x)) = Append(Whole(out, buf, ch), x)
      BY <1>2, <1>3, Queued
    <3>. QED
      BY <1>1, <2>1, <3>1 DEF Stream
  <2>3. /\ Len(ch') = Len(ch) + 1 /\ ch'[Len(ch) + 1] = x
        /\ \A i \in 1 .. Len(ch) : ch'[i] = ch[i]
    BY <1>2, <1>3, <2>1, AppendProperties
  <2>4. Stream \in Seq(Log!AllLines) /\ Len(Stream) \in Nat /\ DOMAIN Stream = 1 .. Len(Stream)
    BY StreamIs DEF LogInv
  <2>5. PICK n \in Nat : n = Len(Stream)
    BY <2>4
  <2>6. /\ DOMAIN Stream = 1 .. n /\ DOMAIN Stream' = 1 .. n + 1 /\ Stream'[n + 1] = x
        /\ \A i \in 1 .. n : Stream'[i] = Stream[i]
    BY <1>2, <2>2, <2>4, <2>5, AppendProperties
  <2>7. Streamed' = Streamed \cup {x}
    <3>1. \A i \in 1 .. n + 1 : i \in 1 .. n \/ i = n + 1
      BY <2>5
    <3>2. \A i \in 1 .. n : i \in 1 .. n + 1
      BY <2>5
    <3>3. n + 1 \in 1 .. n + 1
      BY <2>5
    <3>. QED
      BY <2>6, <3>1, <3>2, <3>3 DEF Streamed
  <2>8. \A i \in 1 .. n : Stream'[i] \in Streamed /\ Stream'[i] # x
    BY <1>2, <2>6 DEF Streamed
  <2>9. OnceInv'
    BY <2>5, <2>6, <2>8 DEF LogInv, OnceInv
  <2>10. OrderInv'
    <3>. SUFFICES ASSUME NEW i \in 1 .. n + 1, NEW j \in 1 .. n + 1, i < j,
                         Stream'[i][1] = Stream'[j][1], Stream'[i] \notin direct
                  PROVE  Stream'[i][2] < Stream'[j][2]
      BY <1>1, <2>6 DEF OrderInv
    <3>1. i \in 1 .. n
      BY <2>5
    <3>2. CASE j = n + 1
      BY <1>2, <2>6, <2>8, <3>1, <3>2
    <3>3. CASE j \in 1 .. n
      BY <2>6, <3>1, <3>3 DEF LogInv, OrderInv
    <3>. QED
      BY <2>5, <3>2, <3>3
  <2>11. /\ AccountedInv'
         /\ writer' \in [Writers -> {"logging", "enqueuing", "done"}]
         /\ line' \in [Writers -> 1 .. Lines]
    <3>1. \A l \in Log!AllLines : l # x =>
            (l \in Missing' <=> l \in Missing) /\ (l \in Streamed' <=> l \in Streamed)
      BY <2>1, <2>7
    <3>2. (x \in Missing') # (x \in Streamed')
      BY <1>2, <2>1, <2>7
    <3>. QED
      BY <1>1, <3>1, <3>2, Said DEF x
  <2>12. CloseInv'
    <3>1. runner = "done" => closed
      BY DEF LogInv, CloseInv
    <3>2. DOMAIN ch' = 1 .. Len(ch) + 1 /\ DOMAIN ch = 1 .. Len(ch)
      BY <1>3, <2>2, <2>3
    <3>3. runner = "done" => \A i \in DOMAIN ch' : ch'[i] \in late'
      BY <1>3, <2>1, <2>3, <3>1, <3>2 DEF LogInv, CloseInv
    <3>. QED
      BY <1>1, <3>3 DEF LogInv, CloseInv
  <2>13. Log!LogTypeOK'
    <3>1. Len(ch') <= QueueSize
      BY <1>3, <1>4, <2>3 DEF Log!LogAssumption
    <3>2. late' \subseteq Log!AllLines
      BY <1>2, <2>1 DEF LogInv, Log!LogTypeOK
    <3>. QED
      BY <1>1, <2>1, <2>2, <2>11, <3>1, <3>2 DEF LogInv, Log!LogTypeOK
  <2>. QED
    BY <1>1, <2>1, <2>9, <2>10, <2>11, <2>12, <2>13 DEF LogInv
<1>5. CASE ~(Len(ch) < QueueSize)
  <2>1. dropped' = dropped \cup {x} /\ UNCHANGED <<ch, late>> /\ Missing' = Missing \cup {x}
    BY <1>1, <1>5 DEF Log!Enqueue, Missing
  <2>2. Stream' = Stream /\ Streamed' = Streamed
    BY <1>1, <2>1 DEF Stream, Streamed
  <2>3. OnceInv' /\ OrderInv' /\ CloseInv'
    BY <1>1, <2>1, <2>2 DEF LogInv, OnceInv, OrderInv, CloseInv
  <2>. HIDE DEF x
  <2>4. /\ AccountedInv'
        /\ writer' \in [Writers -> {"logging", "enqueuing", "done"}]
        /\ line' \in [Writers -> 1 .. Lines]
    <3>1. \A l \in Log!AllLines : l # x =>
            (l \in Missing' <=> l \in Missing) /\ (l \in Streamed' <=> l \in Streamed)
      BY <2>1, <2>2
    <3>2. (x \in Missing') # (x \in Streamed')
      BY <1>2, <2>1, <2>2
    <3>. QED
      BY <1>1, <3>1, <3>2, Said DEF x
  <2>5. Log!LogTypeOK'
    BY <1>1, <1>2, <2>1, <2>4 DEF LogInv, Log!LogTypeOK
  <2>6. (dropped \cap failed = {})'
    BY <1>1, <1>2, <2>1 DEF LogInv, Missing
  <2>. QED
    BY <2>3, <2>4, <2>5, <2>6 DEF LogInv
<1>. QED
  BY <1>4, <1>5

\* A flush: what the output takes of the batch keeps its order, the rest is missing.
LEMMA FlushLines ==
  ASSUME LogInv, NEW batch \in Seq(Log!AllLines), Log!Flush(batch), ch' \in Seq(Log!AllLines),
         Whole(out, batch, ch') = Stream, UNCHANGED <<dropped, writer, line, direct>>
  PROVE  /\ buf' = <<>> /\ out' \in Seq(Log!AllLines) /\ failed' \subseteq Log!AllLines
         /\ OnceInv' /\ AccountedInv' /\ OrderInv' /\ dropped' \cap failed' = {}
<1>1. PICK k \in 0 .. Len(batch) :
        /\ out' = out \o SubSeq(batch, 1, k)
        /\ failed' = failed \cup {batch[i] : i \in k + 1 .. Len(batch)}
  BY DEF Log!Flush
<1>2. buf' = <<>>
  BY DEF Log!Flush
<1>3. /\ out \in Seq(Log!AllLines) /\ dropped \subseteq Log!AllLines /\ failed \subseteq Log!AllLines
      /\ dropped \cap failed = {}
  BY DEF LogInv, Log!LogTypeOK
<1>. PICK n \in Nat, b \in Nat, c \in Nat : n = Len(out) /\ b = Len(batch) /\ c = Len(ch')
  BY <1>3
<1>. DEFINE D == 1 .. (n + b) + c
            D1 == 1 .. (n + k) + c
            old(e) == OldPlace(e, n, b, k)
            lost == {batch[i] : i \in k + 1 .. b}
<1>4. /\ out' \in Seq(Log!AllLines) /\ Stream' \in Seq(Log!AllLines) /\ Stream \in Seq(Log!AllLines)
      /\ Len(Stream') = (n + k) + c /\ Len(Stream) = (n + b) + c
      /\ \A i \in 1 .. b : Stream[n + i] = batch[i]
      /\ \A e \in D1 : old(e) \in D /\ Stream'[e] = Stream[old(e)]
  <2>1. Stream' = Whole(out \o SubSeq(batch, 1, k), <<>>, ch')
    BY <1>1, <1>2 DEF Stream
  <2>2. k \in 0 .. b
    OBVIOUS
  <2>3. IsCut(Log!AllLines, out, batch, ch', n, b, c, k)
    BY <1>3, <2>2, Cut
  <2>4. out' = out \o SubSeq(batch, 1, k) /\ Stream = Whole(out, batch, ch')
    BY <1>1
  <2>. QED
    BY <2>1, <2>3, <2>4 DEF IsCut
<1>5. DOMAIN Stream = D /\ DOMAIN Stream' = D1
  BY <1>4
<1>6. \A e, f \in D1 : (old(e) = old(f) => e = f) /\ (e < f => old(e) < old(f))
  BY DEF OldPlace
<1>7. \A e \in D1 : \A i \in k + 1 .. b : old(e) # n + i
  BY DEF OldPlace
<1>8. ASSUME NEW i \in D
      PROVE  (\E e \in D1 : old(e) = i) \/ (\E m \in k + 1 .. b : i = n + m)
  <2>1. CASE i <= n + k
    <3>1. i \in D1 /\ old(i) = i
      BY <2>1 DEF OldPlace
    <3>. QED
      BY <3>1
  <2>2. CASE i > n + k /\ i <= n + b
    <3>1. i - n \in k + 1 .. b /\ i = n + (i - n)
      BY <2>2
    <3>. QED
      BY <3>1
  <2>3. CASE i > n + b
    <3>1. i - (b - k) \in D1 /\ old(i - (b - k)) = i
      BY <2>3 DEF OldPlace
    <3>. QED
      BY <3>1
  <2>. QED
    BY <2>1, <2>2, <2>3
<1>9. \A i \in k + 1 .. b : i \in 1 .. b /\ n + i \in D
  OBVIOUS
<1>10. failed' = failed \cup lost
  BY <1>1
<1>. HIDE DEF old, D, D1
<1>11. lost \subseteq Streamed /\ Streamed \subseteq Log!AllLines
  <2>1. Streamed \subseteq Log!AllLines
    BY StreamIs DEF LogInv
  <2>2. ASSUME NEW i \in k + 1 .. b
        PROVE  batch[i] \in Streamed
    <3>1. n + i \in DOMAIN Stream /\ Stream[n + i] = batch[i]
      BY <1>4, <1>5, <1>9
    <3>. QED
      BY <3>1 DEF Streamed
  <2>. QED
    BY <2>1, <2>2
<1>12. Streamed' = Streamed \ lost
  <2>1. \A e \in D1 : Stream'[e] \in Streamed
    BY <1>4, <1>5 DEF Streamed
  <2>2. ASSUME NEW e \in D1, NEW i \in k + 1 .. b
        PROVE  Stream'[e] # batch[i]
    <3>1. old(e) \in D /\ n + i \in D /\ old(e) # n + i
      BY <1>4, <1>7, <1>9
    <3>2. Stream[old(e)] # Stream[n + i]
      BY <1>5, <3>1 DEF LogInv, OnceInv
    <3>. QED
      BY <1>4, <1>9, <3>2
  <2>3. ASSUME NEW i \in D, Stream[i] \notin lost
        PROVE  \E e \in D1 : Stream'[e] = Stream[i]
    <3>1. \A m \in k + 1 .. b : Stream[n + m] \in lost
      BY <1>4, <1>9
    <3>. QED
      BY <1>4, <1>8, <2>3, <3>1
  <2>4. Streamed' = {Stream'[e] : e \in D1} /\ Streamed = {Stream[i] : i \in D}
    BY <1>5 DEF Streamed
  <2>5. {Stream'[e] : e \in D1} \subseteq Streamed \ lost
    BY <2>1, <2>2
  <2>6. Streamed \ lost \subseteq {Stream'[e] : e \in D1}
    BY <2>3, <2>4
  <2>. QED
    BY <2>4, <2>5, <2>6
<1>. HIDE DEF lost
<1>13. OnceInv'
  BY <1>4, <1>5, <1>6 DEF LogInv, OnceInv
<1>14. OrderInv'
  <2>. SUFFICES ASSUME NEW e \in D1, NEW f \in D1, e < f,
                       Stream'[e][1] = Stream'[f][1], Stream'[e] \notin direct
                PROVE  Stream'[e][2] < Stream'[f][2]
    BY <1>5 DEF OrderInv
  <2>1. old(e) \in D /\ old(f) \in D /\ old(e) < old(f)
    BY <1>4, <1>6
  <2>2. Stream'[e] = Stream[old(e)] /\ Stream'[f] = Stream[old(f)]
    BY <1>4
  <2>3. \A i, j \in D : i < j /\ Stream[i][1] = Stream[j][1] /\ Stream[i] \notin direct =>
                          Stream[i][2] < Stream[j][2]
    BY <1>5 DEF LogInv, OrderInv
  <2>4. Stream[old(e)][1] = Stream[old(f)][1] /\ Stream[old(e)] \notin direct
    BY <2>2
  <2>5. Stream[old(e)][2] < Stream[old(f)][2]
    BY <2>1, <2>3, <2>4
  <2>. QED
    BY <2>2, <2>5
<1>15. Missing' = Missing \cup lost
  BY <1>10 DEF Missing
<1>16. AccountedInv'
  <2>1. ASSUME NEW w \in Writers, NEW i \in 1 .. Lines
        PROVE  IF i < line[w] \/ writer[w] = "done"
               THEN (<<w, i>> \in Missing') # (<<w, i>> \in Streamed')
               ELSE <<w, i>> \notin Missing' /\ <<w, i>> \notin Streamed'
    <3>1. IF i < line[w] \/ writer[w] = "done"
          THEN (<<w, i>> \in Missing) # (<<w, i>> \in Streamed)
          ELSE <<w, i>> \notin Missing /\ <<w, i>> \notin Streamed
      BY DEF LogInv, AccountedInv
    <3>. QED
      BY <1>11, <1>12, <1>15, <3>1
  <2>. QED
    BY <2>1 DEF LogInv, AccountedInv
<1>17. dropped' \cap failed' = {}
  <2>1. lost \cap dropped = {}
    <3>1. ASSUME NEW l \in lost, l \in dropped
          PROVE  FALSE
      <4>1. l \in Log!AllLines /\ l \in Streamed /\ l \in Missing
        BY <1>11, <3>1 DEF Missing
      <4>2. PICK w \in Writers, i \in 1 .. Lines : l = <<w, i>>
        BY <4>1 DEF Log!AllLines
      <4>. QED
        BY <4>1, <4>2 DEF LogInv, AccountedInv
    <3>. QED
      BY <3>1
  <2>. QED
    BY <1>3, <1>10, <2>1
<1>18. failed' \subseteq Log!AllLines
  BY <1>3, <1>10, <1>11
<1>. QED
  BY <1>2, <1>4, <1>13, <1>14, <1>16, <1>17, <1>18

LEMMA RunIInv ==
  ASSUME Log!LogAssumption, LogInv, Log!Run
  PROVE  LogInv'
<1>1. /\ out \in Seq(Log!AllLines) /\ buf \in Seq(Log!AllLines) /\ ch \in Seq(Log!AllLines)
      /\ Len(ch) <= QueueSize /\ QueueSize \in Nat /\ Len(ch) \in Nat
      /\ <<>> \in Seq(Log!AllLines) /\ failed \subseteq Log!AllLines /\ dropped \cap failed = {}
  BY EmptySeq DEF LogInv, Log!LogTypeOK, Log!LogAssumption
<1>2. UNCHANGED <<dropped, closed, closer, writer, line, late, direct>>
  BY DEF Log!Run, Log!Receive, Log!FlushOnTick, Log!SeeQuit, Log!Drain
<1>3. ASSUME ch # <<>>, ch' = Tail(ch)
      PROVE  /\ Append(buf, Head(ch)) \in Seq(Log!AllLines) /\ ch' \in Seq(Log!AllLines)
             /\ Len(ch') <= QueueSize
             /\ Whole(out, Append(buf, Head(ch)), ch') = Stream
  <2>1. Len(Tail(ch)) = Len(ch) - 1
    BY <1>1, <1>3, HeadTailProperties
  <2>2. Len(ch') <= QueueSize
    BY <1>1, <1>3, <2>1
  <2>3. /\ Append(buf, Head(ch)) \in Seq(Log!AllLines) /\ Tail(ch) \in Seq(Log!AllLines)
        /\ Whole(out, Append(buf, Head(ch)), Tail(ch)) = Whole(out, buf, ch)
    BY <1>1, <1>3, LogMoved
  <2>. QED
    BY <1>3, <2>2, <2>3 DEF Stream
<1>4. ASSUME ch' \in Seq(Log!AllLines), Len(ch') <= QueueSize, buf' \in Seq(Log!AllLines),
             out' \in Seq(Log!AllLines), runner' \in {"running", "draining", "done"}, CloseInv',
             \/ Stream' = Stream /\ UNCHANGED failed
             \/ /\ OnceInv' /\ AccountedInv' /\ OrderInv'
                /\ failed' \subseteq Log!AllLines /\ dropped' \cap failed' = {}
      PROVE  LogInv'
  <2>1. failed' \subseteq Log!AllLines /\ dropped' \cap failed' = {}
    BY <1>1, <1>2, <1>4
  <2>2. Log!LogTypeOK'
    BY <1>2, <1>4, <2>1 DEF LogInv, Log!LogTypeOK
  <2>3. OnceInv' /\ AccountedInv' /\ OrderInv'
    BY <1>2, <1>4, Unmoved
  <2>. QED
    BY <1>4, <2>1, <2>2, <2>3 DEF LogInv
<1>5. CASE Log!Receive
  <2>. DEFINE batch == Append(buf, Head(ch))
  <2>1. /\ runner = "running" /\ ch # <<>> /\ ch' = Tail(ch) /\ UNCHANGED runner
        /\ Log!Flush(batch) \/ (buf' = batch /\ UNCHANGED <<out, failed>>)
    BY <1>5 DEF Log!Receive
  <2>2. batch \in Seq(Log!AllLines) /\ ch' \in Seq(Log!AllLines) /\ Len(ch') <= QueueSize
        /\ Whole(out, batch, ch') = Stream
    BY <1>3, <2>1
  <2>. HIDE DEF batch
  <2>3. CloseInv'
    BY <1>2, <2>1 DEF LogInv, CloseInv
  <2>4. runner' \in {"running", "draining", "done"}
    BY <2>1
  <2>5. CASE Log!Flush(batch)
    <3>1. /\ buf' = <<>> /\ out' \in Seq(Log!AllLines) /\ failed' \subseteq Log!AllLines
          /\ OnceInv' /\ AccountedInv' /\ OrderInv' /\ dropped' \cap failed' = {}
      BY <1>2, <2>2, <2>5, FlushLines
    <3>. QED
      BY <1>1, <1>4, <2>2, <2>3, <2>4, <3>1
  <2>6. CASE buf' = batch /\ UNCHANGED <<out, failed>>
    <3>1. Stream' = Stream
      BY <2>2, <2>6 DEF Stream
    <3>. QED
      BY <1>1, <1>4, <2>2, <2>3, <2>4, <2>6, <3>1
  <2>. QED
    BY <2>1, <2>5, <2>6
<1>6. CASE Log!FlushOnTick
  <2>1. runner = "running" /\ Log!Flush(buf) /\ UNCHANGED <<ch, runner>>
    BY <1>6 DEF Log!FlushOnTick
  <2>2. Whole(out, buf, ch') = Stream
    BY <2>1 DEF Stream
  <2>3. /\ buf' = <<>> /\ out' \in Seq(Log!AllLines) /\ failed' \subseteq Log!AllLines
        /\ OnceInv' /\ AccountedInv' /\ OrderInv' /\ dropped' \cap failed' = {}
    BY <1>1, <1>2, <2>1, <2>2, FlushLines
  <2>4. CloseInv'
    BY <1>2, <2>1 DEF LogInv, CloseInv
  <2>. QED
    BY <1>1, <1>4, <2>1, <2>3, <2>4
<1>7. CASE Log!SeeQuit
  <2>1. /\ closer \in {"waiting", "over"} /\ runner' = "draining" /\ UNCHANGED <<ch, buf, out, failed>>
    BY <1>7 DEF Log!SeeQuit
  <2>2. CloseInv'
    BY <1>2, <2>1 DEF LogInv, CloseInv
  <2>3. Stream' = Stream
    BY <2>1 DEF Stream
  <2>. QED
    BY <1>1, <1>4, <2>1, <2>2, <2>3
<1>8. CASE Log!Drain
  <2>1. runner = "draining"
    BY <1>8 DEF Log!Drain
  <2>2. CASE ch # <<>>
    <3>1. ch' = Tail(ch) /\ buf' = Append(buf, Head(ch)) /\ UNCHANGED <<runner, out, failed>>
      BY <1>8, <2>2 DEF Log!Drain
    <3>2. /\ buf' \in Seq(Log!AllLines) /\ ch' \in Seq(Log!AllLines) /\ Len(ch') <= QueueSize
          /\ Stream' = Stream
      BY <1>3, <2>2, <3>1 DEF Stream
    <3>3. CloseInv'
      BY <1>2, <2>1, <3>1 DEF LogInv, CloseInv
    <3>. QED
      BY <1>1, <1>4, <2>1, <3>1, <3>2, <3>3
  <2>3. CASE ch = <<>>
    <3>1. runner' = "done" /\ Log!Flush(buf) /\ UNCHANGED ch
      BY <1>8, <2>3 DEF Log!Drain
    <3>2. Whole(out, buf, ch') = Stream
      BY <3>1 DEF Stream
    <3>3. /\ buf' = <<>> /\ out' \in Seq(Log!AllLines) /\ failed' \subseteq Log!AllLines
          /\ OnceInv' /\ AccountedInv' /\ OrderInv' /\ dropped' \cap failed' = {}
      BY <1>1, <1>2, <3>1, <3>2, FlushLines
    <3>4. DOMAIN ch' = {}
      BY <2>3, <3>1
    <3>5. CloseInv'
      BY <1>2, <2>1, <3>1, <3>3, <3>4 DEF LogInv, CloseInv
    <3>. QED
      BY <1>1, <1>4, <3>1, <3>3, <3>5
  <2>. QED
    BY <2>2, <2>3
<1>. QED
  BY <1>5, <1>6, <1>7, <1>8 DEF Log!Run

LEMMA CloseIInv ==
  ASSUME Log!LogAssumption, LogInv, Log!Close
  PROVE  LogInv'
<1>1. UNCHANGED <<ch, buf, out, dropped, runner, writer, line, late, direct, failed>>
  BY DEF Log!Close, Log!CloseBegins, Log!CloseQuits, Log!CloseReturns
<1>2. Stream' = Stream
  BY <1>1 DEF Stream
<1>3. /\ closer' \in {"closing", "waiting", "over"} /\ closed' = TRUE
      /\ closer = "open" => runner = "running"
      /\ closer \in {"waiting", "over"} => closer' \in {"waiting", "over"}
      /\ closer = "closing" => runner = "running"
  BY DEF Log!Close, Log!CloseBegins, Log!CloseQuits, Log!CloseReturns, LogInv, CloseInv,
     Log!LogTypeOK
<1>4. CloseInv'
  BY <1>1, <1>3 DEF LogInv, CloseInv
<1>5. Log!LogTypeOK'
  <2>1. closed' \in BOOLEAN
    BY <1>3
  <2>. QED
    BY <1>1, <1>3, <2>1 DEF LogInv, Log!LogTypeOK
<1>. QED
  BY <1>1, <1>2, <1>4, <1>5, Unmoved DEF LogInv

LEMMA LogKept ==
  ASSUME Log!LogAssumption, LogInv, Log!Next
  PROVE  LogInv'
<1>1. ASSUME UNCHANGED Log!logVars
      PROVE  LogInv'
  <2>1. Stream' = Stream
    BY <1>1 DEF Log!logVars, Stream
  <2>2. CloseInv' /\ Log!LogTypeOK'
    BY <1>1 DEF Log!logVars, LogInv, CloseInv, Log!LogTypeOK
  <2>. QED
    BY <1>1, <2>1, <2>2, Unmoved DEF LogInv, Log!logVars
<1>. QED
  BY <1>1, LogIInv, EnqueueIInv, RunIInv, CloseIInv DEF Log!Next, Log!Write, Log!Over

LEMMA LogBound ==
  ASSUME Log!LogAssumption, LogInv
  PROVE  Log!LinesAccounted
<1>. DEFINE all == ch \o buf \o out
<1>1. /\ out \in Seq(Log!AllLines) /\ buf \in Seq(Log!AllLines) /\ ch \in Seq(Log!AllLines)
  BY DEF LogInv, Log!LogTypeOK
<1>. PICK n \in Nat, b \in Nat, c \in Nat : n = Len(out) /\ b = Len(buf) /\ c = Len(ch)
  BY <1>1
<1>2. all \in Seq(Log!AllLines) /\ IsJoined(all, ch, buf, out, c, b, n)
  <2>1. all = ch \o (buf \o out)
    BY <1>1, ConcatAssociative
  <2>2. /\ Whole(ch, buf, out) \in Seq(Log!AllLines)
        /\ IsJoined(Whole(ch, buf, out), ch, buf, out, c, b, n)
    BY <1>1, Joined
  <2>. HIDE DEF all
  <2>. QED
    BY <2>1, <2>2 DEF Whole
<1>3. Stream \in Seq(Log!AllLines) /\ IsJoined(Stream, out, buf, ch, n, b, c)
  BY <1>1, Joined DEF Stream
<1>. DEFINE D == 1 .. (n + b) + c
            old(e) == IF e <= c THEN (n + b) + e
                      ELSE IF e <= c + b THEN n + (e - c) ELSE e - (c + b)
<1>4. DOMAIN Stream = D /\ DOMAIN all = D
  <2>1. (c + b) + n = (n + b) + c
    OBVIOUS
  <2>. QED
    BY <1>2, <1>3, <2>1 DEF IsJoined
<1>. HIDE DEF all
<1>5. ASSUME NEW e \in D
      PROVE  old(e) \in D /\ all[e] = Stream[old(e)]
  <2>1. CASE e <= c
    BY <1>2, <1>3, <2>1 DEF IsJoined
  <2>2. CASE ~(e <= c) /\ e <= c + b
    <3>1. e - c \in 1 .. b
      BY <2>2
    <3>2. PICK k \in 1 .. b : k = e - c
      BY <3>1
    <3>3. e = c + k /\ old(e) = n + k /\ old(e) \in D
      BY <2>2, <3>2
    <3>. QED
      BY <1>2, <1>3, <3>3 DEF IsJoined
  <2>3. CASE ~(e <= c) /\ ~(e <= c + b)
    <3>1. e - (c + b) \in 1 .. n
      BY <2>3
    <3>2. PICK k \in 1 .. n : k = e - (c + b)
      BY <3>1
    <3>3. e = (c + b) + k /\ old(e) = k /\ old(e) \in D
      BY <2>3, <3>2
    <3>. QED
      BY <1>2, <1>3, <3>3 DEF IsJoined
  <2>. QED
    BY <2>1, <2>2, <2>3
<1>6. \A i \in D : \E e \in D : old(e) = i
  <2>. TAKE i \in D
  <2>1. CASE i <= n
    <3>1. (c + b) + i \in D /\ old((c + b) + i) = i
      BY <2>1
    <3>. QED
      BY <3>1
  <2>2. CASE ~(i <= n) /\ i <= n + b
    <3>1. c + (i - n) \in D /\ old(c + (i - n)) = i
      BY <2>2
    <3>. QED
      BY <3>1
  <2>3. CASE ~(i <= n) /\ ~(i <= n + b)
    <3>1. i - (n + b) \in D /\ old(i - (n + b)) = i
      BY <2>3
    <3>. QED
      BY <3>1
  <2>. QED
    BY <2>1, <2>2, <2>3
<1>7. \A e, f \in D : old(e) = old(f) => e = f
  OBVIOUS
<1>. HIDE DEF old, D
<1>8. \A l : (\E e \in DOMAIN all : all[e] = l) <=> l \in Streamed
  <2>1. \A e \in D : all[e] \in Streamed
    BY <1>4, <1>5 DEF Streamed
  <2>2. \A i \in D : \E e \in D : all[e] = Stream[i]
    BY <1>5, <1>6
  <2>. QED
    BY <1>4, <2>1, <2>2 DEF Streamed
<1>9. \A e, f \in DOMAIN all : all[e] = all[f] => e = f
  BY <1>4, <1>5, <1>7 DEF LogInv, OnceInv
<1>10. \A w \in Writers : \A k \in 1 .. Lines :
         k < line[w] \/ writer[w] = "done" =>
           (<<w, k>> \in dropped \cup failed) # (\E e \in DOMAIN all : all[e] = <<w, k>>)
  <2>. TAKE w \in Writers
  <2>. TAKE k \in 1 .. Lines
  <2>1. (\E e \in DOMAIN all : all[e] = <<w, k>>) <=> <<w, k>> \in Streamed
    BY <1>8
  <2>2. k < line[w] \/ writer[w] = "done" => (<<w, k>> \in dropped \cup failed <=> <<w, k>> \notin Streamed)
    BY DEF LogInv, AccountedInv, Missing
  <2>. QED
    BY <2>1, <2>2, Zenon
<1>11. \A i, j \in DOMAIN out :
         i < j /\ out[i][1] = out[j][1] /\ out[i] \notin direct => out[i][2] < out[j][2]
  <2>1. \A i \in DOMAIN out : i \in DOMAIN Stream /\ out[i] = Stream[i]
    BY <1>1, <1>3, <1>4 DEF IsJoined, D
  <2>. QED
    BY <2>1 DEF LogInv, OrderInv
<1>. QED
  BY <1>9, <1>10, <1>11 DEF Log!LinesAccounted, LogInv, CloseInv, all
-----------------------------------------------------------------------------
(* The balancer (Balancer). The current weights add up to zero, and each is  *)
(* what an instance should have got and has not; none is as low as minus the *)
(* total, so none is higher than the total times the other instances. And a  *)
(* scan that has passed the least loaded instance has found one no worse.    *)

\* Induction over the naturals, from the well-founded order of the library.
LEMMA Induction ==
  ASSUME NEW T, 0 \in T, \A n \in Nat : n \in T => n + 1 \in T
  PROVE  Nat \subseteq T
<1>. DEFINE R == OpToRel(<, Nat)
            U == Nat \ T
<1>1. SUFFICES ASSUME U # {} PROVE FALSE
  OBVIOUS
<1>2. PICK x \in U : \A y \in U : <<y, x>> \notin R
  BY <1>1, NatLessThanWellFounded, WFMin
<1>3. \A y \in U : ~(y < x)
  BY <1>2 DEF OpToRel
<1>4. x # 0 /\ x - 1 \in Nat /\ x - 1 < x
  OBVIOUS
<1>5. x - 1 \in T
  BY <1>3, <1>4
<1>. QED
  BY <1>4, <1>5

\* s adds up the first m of f.
Sums(s, f, m) == s[0] = 0 /\ \A n \in 1 .. m : s[n] = s[n - 1] + f[n]

\* The partial sums of a function over the instances exist, and SumOf is the last.
LEMMA SumsExist ==
  ASSUME Balance!BalancerAssumption, NEW f \in [Balance!Instances -> Int]
  PROVE  \E s \in [0 .. Size -> Int] : Sums(s, f, Size)
<1>. DEFINE T == {m \in Nat : m <= Size => \E s \in [0 .. m -> Int] : Sums(s, f, m)}
<1>1. Size \in Nat \ {0}
  BY DEF Balance!BalancerAssumption
<1>2. 0 \in T
  <2>. DEFINE z == [n \in 0 .. 0 |-> 0]
  <2>1. z \in [0 .. 0 -> Int] /\ Sums(z, f, 0)
    BY DEF Sums
  <2>. HIDE DEF z
  <2>. QED
    BY <2>1
<1>3. ASSUME NEW m \in Nat, m \in T PROVE m + 1 \in T
  <2>. SUFFICES ASSUME m + 1 <= Size
                PROVE  \E s \in [0 .. m + 1 -> Int] : Sums(s, f, m + 1)
    OBVIOUS
  <2>1. PICK s \in [0 .. m -> Int] : Sums(s, f, m)
    BY <1>1, <1>3
  <2>. DEFINE g == [n \in 0 .. m + 1 |-> IF n = m + 1 THEN s[m] + f[m + 1] ELSE s[n]]
  <2>2. s[m] + f[m + 1] \in Int
    BY <1>1 DEF Balance!Instances
  <2>3. g \in [0 .. m + 1 -> Int] /\ g[0] = 0 /\ g[m + 1] = s[m] + f[m + 1] /\ g[m] = s[m]
        /\ \A n \in 1 .. m : g[n] = s[n] /\ g[n - 1] = s[n - 1]
    BY <2>1, <2>2 DEF Sums
  <2>. HIDE DEF g
  <2>4. \A n \in 1 .. m + 1 : g[n] = g[n - 1] + f[n]
    <3>1. \A n \in 1 .. m + 1 : n \in 1 .. m \/ (n = m + 1 /\ n - 1 = m)
      OBVIOUS
    <3>. QED
      BY <2>1, <2>3, <3>1 DEF Sums
  <2>. QED
    BY <2>3, <2>4 DEF Sums
<1>. HIDE DEF T
<1>4. Nat \subseteq T
  BY <1>2, <1>3, Induction
<1>. QED
  BY <1>1, <1>4 DEF T

LEMMA SumIs ==
  ASSUME Balance!BalancerAssumption, NEW f \in [Balance!Instances -> Int]
  PROVE  \E s \in [0 .. Size -> Int] : Sums(s, f, Size) /\ Balance!SumOf(f) = s[Size]
<1>1. Size \in Nat \ {0}
  BY DEF Balance!BalancerAssumption
<1>2. PICK g \in [0 .. Size -> Int] : Sums(g, f, Size)
  BY SumsExist
<1>. DEFINE Is(s) == s = [n \in 0 .. Size |-> IF n = 0 THEN 0 ELSE s[n - 1] + f[n]]
            h == CHOOSE s : Is(s)
<1>3. Is(g)
  <2>1. g = [n \in 0 .. Size |-> g[n]]
    OBVIOUS
  <2>2. \A n \in 0 .. Size : g[n] = IF n = 0 THEN 0 ELSE g[n - 1] + f[n]
    BY <1>1, <1>2 DEF Sums
  <2>. QED
    BY <2>1, <2>2
<1>4. Is(h)
  <2>. HIDE DEF Is
  <2>. QED
    BY <1>3
<1>5. Balance!SumOf(f) = h[Size]
  BY DEF Balance!SumOf
<1>. HIDE DEF h
<1>6. h[0] = 0 /\ \A n \in 1 .. Size : h[n] = h[n - 1] + f[n]
  <2>1. \A n \in 0 .. Size : h[n] = IF n = 0 THEN 0 ELSE h[n - 1] + f[n]
    BY <1>4
  <2>2. \A n \in 1 .. Size : n \in 0 .. Size /\ n # 0
    BY <1>1
  <2>. QED
    BY <1>1, <2>1, <2>2
<1>. DEFINE T == {n \in Nat : n <= Size => h[n] = g[n]}
<1>7. 0 \in T
  BY <1>2, <1>6 DEF Sums
<1>8. ASSUME NEW n \in Nat, n \in T PROVE n + 1 \in T
  <2>. SUFFICES ASSUME n + 1 <= Size PROVE h[n + 1] = g[n + 1]
    OBVIOUS
  <2>1. h[n] = g[n]
    BY <1>1, <1>8
  <2>2. n + 1 \in 1 .. Size /\ (n + 1) - 1 = n
    BY <1>1
  <2>3. h[n + 1] = h[n] + f[n + 1]
    BY <1>6, <2>2
  <2>4. g[n + 1] = g[n] + f[n + 1]
    BY <1>2, <2>2 DEF Sums
  <2>. QED
    BY <2>1, <2>3, <2>4
<1>. HIDE DEF T
<1>9. Nat \subseteq T
  BY <1>7, <1>8, Induction
<1>10. h[Size] = g[Size]
  BY <1>1, <1>9 DEF T
<1>. QED
  BY <1>2, <1>5, <1>10

\* The sum of a sum of functions.
LEMMA SumAdds ==
  ASSUME Balance!BalancerAssumption, NEW f \in [Balance!Instances -> Int], NEW g \in
           [Balance!Instances -> Int],
         NEW h \in [Balance!Instances -> Int], \A i \in Balance!Instances : h[i] = f[i] + g[i]
  PROVE  /\ Balance!SumOf(h) = Balance!SumOf(f) + Balance!SumOf(g)
         /\ Balance!SumOf(f) \in Int /\ Balance!SumOf(g) \in Int
<1>1. Size \in Nat \ {0}
  BY DEF Balance!BalancerAssumption
<1>2. PICK s \in [0 .. Size -> Int] : Sums(s, f, Size) /\ Balance!SumOf(f) = s[Size]
  BY SumIs
<1>3. PICK t \in [0 .. Size -> Int] : Sums(t, g, Size) /\ Balance!SumOf(g) = t[Size]
  BY SumIs
<1>4. PICK u \in [0 .. Size -> Int] : Sums(u, h, Size) /\ Balance!SumOf(h) = u[Size]
  BY SumIs
<1>. DEFINE T == {n \in Nat : n <= Size => u[n] = s[n] + t[n]}
<1>5. 0 \in T
  BY <1>2, <1>3, <1>4 DEF Sums
<1>6. ASSUME NEW n \in Nat, n \in T PROVE n + 1 \in T
  <2>. SUFFICES ASSUME n + 1 <= Size PROVE u[n + 1] = s[n + 1] + t[n + 1]
    OBVIOUS
  <2>1. /\ n + 1 \in 1 .. Size /\ (n + 1) - 1 = n /\ n \in 0 .. Size
        /\ n + 1 \in Balance!Instances
    BY <1>1 DEF Balance!Instances
  <2>2. s[n + 1] = s[n] + f[n + 1]
    BY <1>2, <2>1 DEF Sums
  <2>3. t[n + 1] = t[n] + g[n + 1]
    BY <1>3, <2>1 DEF Sums
  <2>4. u[n + 1] = u[n] + h[n + 1]
    BY <1>4, <2>1 DEF Sums
  <2>5. u[n] = s[n] + t[n] /\ h[n + 1] = f[n + 1] + g[n + 1]
    BY <1>1, <1>6, <2>1
  <2>6. s[n] \in Int /\ t[n] \in Int /\ f[n + 1] \in Int /\ g[n + 1] \in Int
    BY <2>1
  <2>. QED
    BY <2>2, <2>3, <2>4, <2>5, <2>6
<1>. HIDE DEF T
<1>7. Nat \subseteq T
  BY <1>5, <1>6, Induction
<1>8. u[Size] = s[Size] + t[Size]
  BY <1>1, <1>7 DEF T
<1>. QED
  BY <1>1, <1>2, <1>3, <1>4, <1>8

\* What the other numbers are at least.
LEMMA SumAtLeast ==
  ASSUME Balance!BalancerAssumption, NEW f \in [Balance!Instances -> Int], NEW b \in Int,
         NEW i \in Balance!Instances, \A j \in Balance!Instances : j # i => f[j] >= b
  PROVE  Balance!SumOf(f) >= f[i] + (Size - 1) * b /\ Balance!SumOf(f) \in Int
<1>1. Size \in Nat \ {0} /\ i \in 1 .. Size
  BY DEF Balance!BalancerAssumption, Balance!Instances
<1>2. PICK s \in [0 .. Size -> Int] : Sums(s, f, Size) /\ Balance!SumOf(f) = s[Size]
  BY SumIs
<1>3. \A n \in Int : n * b \in Int /\ (n + 1) * b = n * b + b
  OBVIOUS
<1>. DEFINE T == {n \in Nat : n <= Size => s[n] >= IF n < i THEN n * b ELSE f[i] + (n - 1) * b}
<1>4. 0 \in T
  <2>1. s[0] = 0 /\ 0 * b = 0 /\ 0 < i
    BY <1>1, <1>2 DEF Sums
  <2>. QED
    BY <2>1
<1>5. ASSUME NEW n \in Nat, n \in T PROVE n + 1 \in T
  <2>. SUFFICES ASSUME n + 1 <= Size
                PROVE  s[n + 1] >= IF n + 1 < i THEN (n + 1) * b ELSE f[i] + ((n + 1) - 1) * b
    OBVIOUS
  <2>1. /\ n + 1 \in 1 .. Size /\ (n + 1) - 1 = n /\ n \in 0 .. Size
        /\ n + 1 \in Balance!Instances
    BY <1>1 DEF Balance!Instances
  <2>2. s[n + 1] = s[n] + f[n + 1]
    BY <1>2, <2>1 DEF Sums
  <2>3. s[n] >= IF n < i THEN n * b ELSE f[i] + (n - 1) * b
    BY <1>1, <1>5, <2>1
  <2>4. s[n] \in Int /\ f[n + 1] \in Int /\ (n + 1 # i => f[n + 1] >= b) /\ f[i] \in Int
    BY <2>1
  <2>5. /\ n * b \in Int /\ (n - 1) * b \in Int /\ (n + 1) * b = n * b + b
        /\ n * b = (n - 1) * b + b
    <3>1. n - 1 \in Int /\ (n - 1) + 1 = n
      OBVIOUS
    <3>. QED
      BY <1>3, <3>1
  <2>6. CASE n + 1 < i
    BY <1>1, <2>2, <2>3, <2>4, <2>5, <2>6
  <2>7. CASE n + 1 = i
    <3>1. n < i /\ s[n] >= n * b
      BY <1>1, <2>3, <2>7
    <3>2. s[n + 1] >= f[i] + n * b
      BY <2>2, <2>4, <2>5, <2>7, <3>1
    <3>. QED
      BY <1>1, <2>1, <2>7, <3>2
  <2>8. CASE n + 1 > i
    <3>1. s[n] >= f[i] + (n - 1) * b
      BY <1>1, <2>3, <2>8
    <3>2. s[n + 1] >= f[i] + n * b
      BY <1>1, <2>2, <2>4, <2>5, <2>8, <3>1
    <3>. QED
      BY <1>1, <2>1, <2>8, <3>2
  <2>. QED
    BY <1>1, <2>6, <2>7, <2>8
<1>. HIDE DEF T
<1>6. Nat \subseteq T
  BY <1>4, <1>5, Induction
<1>7. s[Size] >= f[i] + (Size - 1) * b
  BY <1>1, <1>6 DEF T
<1>. QED
  BY <1>1, <1>2, <1>7

\* The first of the highest is one.
LEMMA FirstHighest ==
  ASSUME Balance!BalancerAssumption, NEW f \in [Balance!Instances -> Int]
  PROVE  \E i \in Balance!Instances : \A j \in Balance!Instances : f[j] <= f[i] /\ (f[j] = f[i] => i <= j)
<1>1. Size \in Nat \ {0}
  BY DEF Balance!BalancerAssumption
<1>. DEFINE High(i, n) == \A j \in 1 .. n : f[j] <= f[i] /\ (f[j] = f[i] => i <= j)
            T == {n \in Nat : n < Size => \E i \in 1 .. n + 1 : High(i, n + 1)}
<1>2. 0 \in T
  <2>1. High(1, 1)
    BY <1>1 DEF Balance!Instances
  <2>. HIDE DEF High
  <2>. QED
    BY <2>1
<1>3. ASSUME NEW n \in Nat, n \in T PROVE n + 1 \in T
  <2>. SUFFICES ASSUME n + 1 < Size
                PROVE  \E i \in 1 .. (n + 1) + 1 : High(i, (n + 1) + 1)
    OBVIOUS
  <2>1. PICK i \in 1 .. n + 1 : High(i, n + 1)
    BY <1>1, <1>3
  <2>2. \A j \in 1 .. (n + 1) + 1 : f[j] \in Int /\ (j \in 1 .. n + 1 \/ j = (n + 1) + 1)
    BY <1>1 DEF Balance!Instances
  <2>3. i \in 1 .. (n + 1) + 1 /\ (n + 1) + 1 \in 1 .. (n + 1) + 1 /\ i < (n + 1) + 1
    OBVIOUS
  <2>4. CASE f[(n + 1) + 1] <= f[i]
    <3>1. High(i, (n + 1) + 1)
      BY <2>1, <2>2, <2>3, <2>4
    <3>. HIDE DEF High
    <3>. QED
      BY <2>3, <3>1
  <2>5. CASE f[i] < f[(n + 1) + 1]
    <3>1. High((n + 1) + 1, (n + 1) + 1)
      <4>1. \A j \in 1 .. n + 1 : f[j] <= f[i] /\ f[j] \in Int
        BY <2>1, <2>2
      <4>. QED
        BY <2>2, <2>3, <2>5, <4>1
    <3>. HIDE DEF High
    <3>. QED
      BY <2>3, <3>1
  <2>. QED
    BY <2>2, <2>3, <2>4, <2>5
<1>. HIDE DEF T
<1>4. Nat \subseteq T
  BY <1>2, <1>3, Induction
<1>5. Size - 1 \in Nat /\ (Size - 1) + 1 = Size /\ Size - 1 < Size
  BY <1>1
<1>. QED
  BY <1>4, <1>5 DEF T, Balance!Instances

\* A function that is not zero in one place only.
LEMMA SumOfOne ==
  ASSUME Balance!BalancerAssumption, NEW f \in [Balance!Instances -> Int], NEW i \in
           Balance!Instances,
         \A j \in Balance!Instances : j # i => f[j] = 0
  PROVE  Balance!SumOf(f) = f[i]
<1>. DEFINE g == [j \in Balance!Instances |-> -f[j]]
            z == [j \in Balance!Instances |-> 0]
<1>1. /\ g \in [Balance!Instances -> Int] /\ z \in [Balance!Instances -> Int]
      /\ \A j \in Balance!Instances : g[j] = -f[j] /\ z[j] = f[j] + g[j] /\ z[j] = z[j] + z[j]
      /\ f[i] \in Int
  OBVIOUS
<1>. HIDE DEF g, z
<1>2. /\ Balance!SumOf(z) = Balance!SumOf(f) + Balance!SumOf(g) /\ Balance!SumOf(f) \in Int
      /\ Balance!SumOf(g) \in Int
  BY <1>1, SumAdds
<1>3. Balance!SumOf(z) = Balance!SumOf(z) + Balance!SumOf(z) /\ Balance!SumOf(z) \in Int
  BY <1>1, SumAdds
<1>4. \A j \in Balance!Instances : j # i => f[j] >= 0 /\ g[j] >= 0
  <2>. SUFFICES ASSUME NEW j \in Balance!Instances, j # i PROVE f[j] >= 0 /\ g[j] >= 0
    OBVIOUS
  <2>1. f[j] = 0 /\ g[j] = -f[j]
    BY <1>1
  <2>. QED
    BY <2>1
<1>5. Balance!SumOf(f) >= f[i] + (Size - 1) * 0
  <2>1. \A j \in Balance!Instances : j # i => f[j] >= 0
    BY <1>4
  <2>. QED
    BY <2>1, SumAtLeast
<1>6. Balance!SumOf(g) >= g[i] + (Size - 1) * 0
  <2>1. g \in [Balance!Instances -> Int] /\ \A j \in Balance!Instances : j # i => g[j] >= 0
    BY <1>1, <1>4
  <2>. QED
    BY <2>1, SumAtLeast
<1>7. (Size - 1) * 0 = 0
  BY DEF Balance!BalancerAssumption
<1>8. g[i] = -f[i] /\ f[i] \in Int /\ Balance!SumOf(z) = 0
  <2>1. g[i] = -f[i] /\ f[i] \in Int
    BY <1>1
  <2>2. \A k \in Int : k = k + k => k = 0
    OBVIOUS
  <2>3. Balance!SumOf(z) = 0
    BY <1>3, <2>2
  <2>. QED
    BY <2>1, <2>3
<1>9. \A k, l, m \in Int : 0 = k + l /\ k >= m + 0 /\ l >= -m + 0 => k = m
  OBVIOUS
<1>. QED
  BY <1>2, <1>9, <1>5, <1>6, <1>7, <1>8

\* Some number is above 0 if the sum is.
LEMMA SumPositive ==
  ASSUME Balance!BalancerAssumption, NEW f \in [Balance!Instances -> Int], NEW i \in
           Balance!Instances,
         \A j \in Balance!Instances : f[j] <= f[i], Balance!SumOf(f) > 0
  PROVE  f[i] > 0
<1>. SUFFICES ASSUME f[i] <= 0 PROVE FALSE
  OBVIOUS
<1>. DEFINE g == [j \in Balance!Instances |-> -f[j]]
            z == [j \in Balance!Instances |-> 0]
<1>1. /\ g \in [Balance!Instances -> Int] /\ z \in [Balance!Instances -> Int]
      /\ \A j \in Balance!Instances : g[j] = -f[j] /\ z[j] = f[j] + g[j] /\ g[j] >= 0
      /\ z[i] = 0 /\ \A j \in Balance!Instances : j # i => z[j] = 0
  OBVIOUS
<1>. HIDE DEF g, z
<1>2. /\ Balance!SumOf(z) = Balance!SumOf(f) + Balance!SumOf(g) /\ Balance!SumOf(f) \in Int
      /\ Balance!SumOf(g) \in Int
  BY <1>1, SumAdds
<1>3. Balance!SumOf(z) = 0
  BY <1>1, SumOfOne
<1>4. Balance!SumOf(g) >= g[i] + (Size - 1) * 0
  BY <1>1, SumAtLeast
<1>5. (Size - 1) * 0 = 0 /\ g[i] >= 0 /\ g[i] \in Int
  BY <1>1 DEF Balance!BalancerAssumption
<1>. QED
  BY <1>2, <1>3, <1>4, <1>5

-----------------------------------------------------------------------------
\* What everybody has got, and what he is still to get.
ShareInv == strategy = "weighted" =>
  /\ Balance!SumOf(current) = 0
  /\ \A i \in Balance!Instances : /\ current[i] = weight[i] * Balance!SumOf(picked) - Balance!Total * picked[i]
                                  /\ current[i] > -Balance!Total

\* An instance has no more in flight than it was picked.
PicksInv == /\ Balance!SumOf(picked) \in 0 .. MaxPicks
            /\ \A i \in Balance!Instances : inflight[i] <= picked[i]

\* Once the scan has passed the instance that was the least loaded, its choice
\* has no more in flight than that had.
ScanInv ==
  /\ best # None =>
       /\ strategy = "least_conn" /\ Balance!SumOf(picked) < MaxPicks
       /\ \E m \in Balance!Instances : /\ inflight[m] <= least
                                       /\ m < coming \/ (tied /\ m = coming) => inflight[best] <= least
  /\ tied => best # None /\ coming <= Size

BalanceInv == Balance!BalancerTypeOK /\ ShareInv /\ PicksInv /\ ScanInv

LEMMA BalanceTypes ==
  ASSUME Balance!BalancerAssumption, Balance!BalancerTypeOK
  PROVE  /\ Size \in Nat \ {0} /\ MaxPicks \in Nat /\ None \notin Balance!Instances
         /\ weight \in [Balance!Instances -> Int] /\ current \in [Balance!Instances -> Int]
         /\ picked \in [Balance!Instances -> Int] /\ inflight \in [Balance!Instances -> Int]
         /\ \A i \in Balance!Instances : /\ weight[i] >= 1 /\ picked[i] >= 0 /\ inflight[i] >= 0
         /\ Balance!Total \in Nat \ {0} /\ Balance!SumOf(picked) \in Nat
         /\ \A i \in Balance!Instances : picked[i] <= Balance!SumOf(picked)
<1>1. /\ Size \in Nat \ {0} /\ MaxPicks \in Nat /\ None \notin Balance!Instances
      /\ weight \in [Balance!Instances -> Int] /\ current \in [Balance!Instances -> Int]
      /\ picked \in [Balance!Instances -> Int] /\ inflight \in [Balance!Instances -> Int]
      /\ \A i \in Balance!Instances : weight[i] >= 1 /\ picked[i] >= 0 /\ inflight[i] >= 0
  <2>1. Size \in Nat \ {0} /\ MaxPicks \in Nat /\ None \notin Balance!Instances
    BY DEF Balance!BalancerAssumption, Balance!Instances
  <2>2. /\ weight \in [Balance!Instances -> Nat \ {0}] /\ current \in [Balance!Instances -> Int]
        /\ inflight \in [Balance!Instances -> 0 .. MaxPicks] /\ picked \in [Balance!Instances -> 0 .. MaxPicks]
    BY DEF Balance!BalancerTypeOK
  <2>3. \A i \in Balance!Instances : /\ weight[i] \in Nat \ {0}
                                     /\ inflight[i] \in 0 .. MaxPicks /\ picked[i] \in 0 .. MaxPicks
    BY <2>2
  <2>4. \A i \in Balance!Instances : weight[i] >= 1 /\ picked[i] >= 0 /\ inflight[i] >= 0
    BY <2>3
  <2>5. /\ weight \in [Balance!Instances -> Int]
        /\ picked \in [Balance!Instances -> Int] /\ inflight \in [Balance!Instances -> Int]
    <3>1. Nat \ {0} \subseteq Int /\ 0 .. MaxPicks \subseteq Int
      BY <2>1
    <3>. QED
      BY <2>2, <3>1
  <2>. QED
    BY <2>1, <2>2, <2>4, <2>5
<1>2. 1 \in Balance!Instances /\ (Size - 1) * 0 = 0
  BY <1>1 DEF Balance!Instances
<1>3. \A i \in Balance!Instances : Balance!SumOf(weight) >= weight[i] + (Size - 1) * 0 /\ Balance!SumOf(weight) \in Int
  <2>. TAKE i \in Balance!Instances
  <2>1. \A j \in Balance!Instances : j # i => weight[j] >= 0
    BY <1>1
  <2>. QED
    BY <1>1, <2>1, SumAtLeast
<1>4. \A i \in Balance!Instances : Balance!SumOf(picked) >= picked[i] + (Size - 1) * 0 /\ Balance!SumOf(picked) \in Int
  <2>. TAKE i \in Balance!Instances
  <2>1. \A j \in Balance!Instances : j # i => picked[j] >= 0
    BY <1>1
  <2>2. picked \in [Balance!Instances -> Int]
    BY <1>1
  <2>. QED
    BY <2>1, <2>2, SumAtLeast
<1>5. \A i \in Balance!Instances : weight[i] \in Int /\ picked[i] \in Int
  BY <1>1
<1>6. Balance!Total \in Nat \ {0}
  BY <1>1, <1>2, <1>3, <1>5 DEF Balance!Total
<1>7. Balance!SumOf(picked) \in Nat /\ \A i \in Balance!Instances : picked[i] <= Balance!SumOf(picked)
  BY <1>1, <1>2, <1>4, <1>5
<1>. QED
  BY <1>1, <1>6, <1>7

LEMMA BalanceInit ==
  ASSUME Balance!BalancerAssumption, Balance!Init
  PROVE  BalanceInv
<1>1. PICK w \in [Balance!Instances -> Weights] : weight = [i \in Balance!Instances |-> Balance!Valid(w[i])]
  BY DEF Balance!Init
<1>2. /\ Weights \subseteq Int /\ MaxPicks \in Nat /\ Size \in Nat \ {0}
  BY DEF Balance!BalancerAssumption
<1>3. /\ current = [i \in Balance!Instances |-> 0] /\ inflight = current /\ picked = current
      /\ best = None /\ coming = 1 /\ tied = FALSE /\ least = 0
      /\ strategy \in {"weighted", "least_conn"}
  BY DEF Balance!Init
<1>4. weight \in [Balance!Instances -> Nat \ {0}]
  <2>1. \A n \in Int : Balance!Valid(n) \in Nat \ {0}
    BY DEF Balance!Valid
  <2>2. \A i \in Balance!Instances : w[i] \in Int
    BY <1>2
  <2>. QED
    BY <1>1, <2>1, <2>2
<1>5. tied \in BOOLEAN
  BY <1>3
<1>6. Balance!BalancerTypeOK
  BY <1>2, <1>3, <1>4, <1>5 DEF Balance!BalancerTypeOK
<1>7. Balance!SumOf(picked) = 0
  <2>1. picked \in [Balance!Instances -> Int] /\ 1 \in Balance!Instances /\ picked[1] = 0
        /\ \A j \in Balance!Instances : j # 1 => picked[j] = 0
    BY <1>2, <1>3 DEF Balance!Instances
  <2>. QED
    BY <2>1, SumOfOne
<1>8. PicksInv
  BY <1>2, <1>3, <1>7 DEF PicksInv
<1>9. ShareInv
  <2>. SUFFICES ASSUME NEW i \in Balance!Instances
                PROVE  /\ current[i] = weight[i] * Balance!SumOf(picked) - Balance!Total * picked[i]
                       /\ current[i] > -Balance!Total
    BY <1>3, <1>7 DEF ShareInv
  <2>1. Balance!Total \in Nat \ {0} /\ weight[i] \in Int /\ current[i] = 0 /\ picked[i] = 0
    BY <1>3, <1>4, <1>6, BalanceTypes
  <2>2. weight[i] * 0 = 0 /\ Balance!Total * 0 = 0
    BY <2>1
  <2>. QED
    BY <1>7, <2>1, <2>2
<1>10. ScanInv
  BY <1>3 DEF ScanInv
<1>. QED
  BY <1>6, <1>8, <1>9, <1>10 DEF BalanceInv

\* An instance is picked.
LEMMA Occupied ==
  ASSUME Balance!BalancerAssumption, Balance!BalancerTypeOK, PicksInv, NEW i \in
           Balance!Instances,
         Balance!SumOf(picked) < MaxPicks, Balance!Occupy(i)
  PROVE  /\ picked' \in [Balance!Instances -> 0 .. MaxPicks]
         /\ inflight' \in [Balance!Instances -> 0 .. MaxPicks]
         /\ Balance!SumOf(picked') = Balance!SumOf(picked) + 1
         /\ Balance!SumOf(picked') \in 0 .. MaxPicks
         /\ \A j \in Balance!Instances : /\ inflight'[j] <= picked'[j]
                                         /\ picked'[j] = IF j = i THEN picked[i] + 1 ELSE picked[j]
<1>1. inflight' = [inflight EXCEPT ![i] = @ + 1] /\ picked' = [picked EXCEPT ![i] = @ + 1]
  BY DEF Balance!Occupy
<1>2. /\ picked \in [Balance!Instances -> 0 .. MaxPicks]
      /\ inflight \in [Balance!Instances -> 0 .. MaxPicks]
  BY DEF Balance!BalancerTypeOK
<1>3. /\ \A j \in Balance!Instances : picked'[j] = IF j = i THEN picked[i] + 1 ELSE picked[j]
      /\ \A j \in Balance!Instances : inflight'[j] = IF j = i THEN inflight[i] + 1 ELSE inflight[j]
      /\ DOMAIN picked' = Balance!Instances /\ DOMAIN inflight' = Balance!Instances
      /\ picked' = [j \in Balance!Instances |-> picked'[j]]
      /\ inflight' = [j \in Balance!Instances |-> inflight'[j]]
  BY <1>1, <1>2
<1>4. MaxPicks \in Nat /\ Balance!SumOf(picked) \in Nat
      /\ \A j \in Balance!Instances : picked[j] <= Balance!SumOf(picked) /\ picked[j] \in Int /\ inflight[j] \in Int
  BY <1>2, BalanceTypes
<1>5. inflight[i] <= picked[i] /\ \A j \in Balance!Instances : inflight[j] <= picked[j]
  BY DEF PicksInv
<1>6. \A j \in Balance!Instances : picked'[j] \in 0 .. MaxPicks /\ inflight'[j] \in 0 .. MaxPicks
  BY <1>2, <1>3, <1>4, <1>5
<1>7. /\ picked' \in [Balance!Instances -> 0 .. MaxPicks]
      /\ inflight' \in [Balance!Instances -> 0 .. MaxPicks]
  BY <1>3, <1>6
<1>8. Balance!SumOf(picked') = Balance!SumOf(picked) + 1
  <2>. DEFINE e == [j \in Balance!Instances |-> IF j = i THEN 1 ELSE 0]
  <2>1. e \in [Balance!Instances -> Int] /\ e[i] = 1 /\ \A j \in Balance!Instances : j # i => e[j] = 0
    OBVIOUS
  <2>. HIDE DEF e
  <2>2. Balance!SumOf(e) = 1
    BY <2>1, SumOfOne
  <2>3. picked' \in [Balance!Instances -> Int] /\ picked \in [Balance!Instances -> Int]
        /\ \A j \in Balance!Instances : picked'[j] = picked[j] + e[j]
    BY <1>2, <1>3, <1>4, <1>7, <2>1
  <2>. QED
    BY <2>1, <2>2, <2>3, SumAdds
<1>. QED
  BY <1>3, <1>4, <1>5, <1>7, <1>8

LEMMA PickWeightedIInv ==
  ASSUME Balance!BalancerAssumption, BalanceInv, Balance!PickWeighted
  PROVE  BalanceInv'
<1>. DEFINE risen == [i \in Balance!Instances |-> current[i] + weight[i]]
            top == CHOOSE i \in Balance!Instances : \A j \in Balance!Instances :
                       risen[j] <= risen[i] /\ (risen[j] = risen[i] => i <= j)
            T == Balance!Total
            P == Balance!SumOf(picked)
<1>1. /\ strategy = "weighted" /\ P < MaxPicks
      /\ current' = [risen EXCEPT ![top] = @ - Balance!Total]
      /\ Balance!Occupy(top)
      /\ UNCHANGED <<strategy, weight, best, coming, tied, least>>
  BY DEF Balance!PickWeighted, Balance!MayPick, Balance!scan
<1>2. /\ weight \in [Balance!Instances -> Int] /\ current \in [Balance!Instances -> Int]
      /\ \A i \in Balance!Instances : weight[i] >= 1
      /\ T \in Nat \ {0} /\ P \in Nat /\ picked \in [Balance!Instances -> Int]
  BY BalanceTypes DEF BalanceInv
<1>3. /\ Balance!SumOf(current) = 0
      /\ \A i \in Balance!Instances : current[i] = weight[i] * P - T * picked[i]
      /\ \A i \in Balance!Instances : current[i] > -T
  BY <1>1 DEF BalanceInv, ShareInv
<1>4. risen \in [Balance!Instances -> Int] /\ \A i \in Balance!Instances : risen[i] = current[i] + weight[i]
  BY <1>2
<1>5. top \in Balance!Instances /\ \A j \in Balance!Instances : risen[j] <= risen[top]
  <2>1. \E i \in Balance!Instances : \A j \in Balance!Instances :
          risen[j] <= risen[i] /\ (risen[j] = risen[i] => i <= j)
    BY <1>4, FirstHighest
  <2>. HIDE DEF risen
  <2>. QED
    BY <2>1
<1>. HIDE DEF top
<1>6. Balance!SumOf(risen) = T
  <2>. HIDE DEF risen
  <2>1. Balance!SumOf(risen) = Balance!SumOf(current) + Balance!SumOf(weight)
    BY <1>2, <1>4, SumAdds
  <2>. QED
    BY <1>2, <1>3, <2>1 DEF Balance!Total
<1>. HIDE DEF risen
<1>7. risen[top] > 0
  BY <1>2, <1>4, <1>5, <1>6, SumPositive
<1>8. /\ current' \in [Balance!Instances -> Int]
      /\ \A i \in Balance!Instances : current'[i] = IF i = top THEN risen[i] - T ELSE risen[i]
  BY <1>1, <1>2, <1>4, <1>5
<1>9. Balance!SumOf(current') = 0
  <2>. DEFINE d == [i \in Balance!Instances |-> IF i = top THEN -T ELSE 0]
  <2>1. d \in [Balance!Instances -> Int] /\ d[top] = -T /\ \A i \in Balance!Instances : i # top => d[i] = 0
    BY <1>2, <1>5
  <2>. HIDE DEF d
  <2>2. Balance!SumOf(d) = -T
    BY <1>5, <2>1, SumOfOne
  <2>3. \A i \in Balance!Instances : current'[i] = risen[i] + d[i]
    BY <1>2, <1>4, <1>8, <2>1
  <2>4. Balance!SumOf(current') = Balance!SumOf(risen) + Balance!SumOf(d)
    BY <1>4, <1>8, <2>1, <2>3, SumAdds
  <2>. QED
    BY <1>2, <1>6, <2>2, <2>4
<1>10. /\ picked' \in [Balance!Instances -> 0 .. MaxPicks]
       /\ inflight' \in [Balance!Instances -> 0 .. MaxPicks]
       /\ Balance!SumOf(picked') = P + 1 /\ Balance!SumOf(picked') \in 0 .. MaxPicks
       /\ \A j \in Balance!Instances : inflight'[j] <= picked'[j]
       /\ \A j \in Balance!Instances : picked'[j] = IF j = top THEN picked[top] + 1 ELSE picked[j]
  BY <1>1, <1>5, Occupied DEF BalanceInv
<1>11. ASSUME NEW i \in Balance!Instances
       PROVE  current'[i] = weight[i] * (P + 1) - T * picked'[i] /\ current'[i] > -T
  <2>1. /\ current[i] \in Int /\ weight[i] \in Int /\ weight[i] >= 1 /\ picked[i] \in Int
        /\ risen[i] = current[i] + weight[i] /\ risen[i] \in Int
    BY <1>2, <1>4
  <2>2. \A n, m \in Int : n * (m + 1) = n * m + n /\ n * m \in Int
    OBVIOUS
  <2>3. /\ weight[i] * (P + 1) = weight[i] * P + weight[i] /\ weight[i] * P \in Int
        /\ T * (picked[i] + 1) = T * picked[i] + T /\ T * picked[i] \in Int
    BY <1>2, <2>1, <2>2
  <2>4. current[i] = weight[i] * P - T * picked[i] /\ current[i] > -T
    BY <1>3
  <2>5. CASE i = top
    <3>1. current'[i] = risen[i] - T /\ picked'[i] = picked[i] + 1 /\ risen[i] > 0
      BY <1>7, <1>8, <1>10, <2>5
    <3>2. T * picked'[i] = T * picked[i] + T
      BY <2>3, <3>1
    <3>. HIDE DEF T, P
    <3>. QED
      BY <1>2, <2>1, <2>3, <2>4, <3>1, <3>2
  <2>6. CASE i # top
    <3>1. current'[i] = risen[i] /\ picked'[i] = picked[i]
      BY <1>8, <1>10, <2>6
    <3>2. T * picked'[i] = T * picked[i]
      BY <3>1
    <3>. HIDE DEF T, P
    <3>. QED
      BY <1>2, <2>1, <2>3, <2>4, <3>1, <3>2
  <2>. QED
    BY <2>5, <2>6
<1>12. ShareInv'
  <2>1. Balance!Total' = Balance!Total
    BY <1>1 DEF Balance!Total
  <2>. QED
    BY <1>1, <1>9, <1>10, <1>11, <2>1 DEF ShareInv
<1>13. Balance!BalancerTypeOK'
  BY <1>1, <1>8, <1>10 DEF BalanceInv, Balance!BalancerTypeOK
<1>14. PicksInv'
  BY <1>10 DEF PicksInv
<1>15. ScanInv'
  <2>1. best = None /\ ~tied
    BY <1>1 DEF BalanceInv, ScanInv
  <2>. QED
    BY <1>1, <2>1 DEF BalanceInv, Balance!BalancerTypeOK, ScanInv
<1>. QED
  BY <1>12, <1>13, <1>14, <1>15 DEF BalanceInv

\* A step of the scan leaves the picks alone.
LEMMA Scanned ==
  ASSUME BalanceInv, UNCHANGED <<strategy, weight, current, inflight, picked>>
  PROVE  ShareInv' /\ PicksInv'
<1>1. Balance!Total' = Balance!Total /\ Balance!SumOf(picked)' = Balance!SumOf(picked)
  BY DEF Balance!Total, Balance!SumOf
<1>. QED
  BY <1>1 DEF BalanceInv, ShareInv, PicksInv

LEMMA ScanIInv ==
  ASSUME Balance!BalancerAssumption, BalanceInv, Balance!Scan
  PROVE  BalanceInv'
<1>. DEFINE m == CHOOSE i \in Balance!Instances : \A j \in Balance!Instances : inflight[i] <= inflight[j]
<1>1. /\ strategy = "least_conn" /\ Balance!SumOf(picked) < MaxPicks /\ best = None
      /\ best' = 1 /\ coming' = 2 /\ least' = inflight[m]
      /\ UNCHANGED <<strategy, weight, current, inflight, picked, tied>>
  BY DEF Balance!Scan, Balance!MayPick, Balance!chosen
<1>2. /\ inflight \in [Balance!Instances -> 0 .. MaxPicks] /\ tied \in BOOLEAN
      /\ Size \in Nat \ {0} /\ None \notin Balance!Instances
  BY BalanceTypes DEF BalanceInv, Balance!BalancerTypeOK
<1>3. 1 \in Balance!Instances /\ \A i \in Balance!Instances : i \in Nat /\ i >= 1
  BY <1>2 DEF Balance!Instances
<1>4. m \in Balance!Instances /\ \A j \in Balance!Instances : inflight[m] <= inflight[j]
  <2>. DEFINE f == [i \in Balance!Instances |-> -inflight[i]]
  <2>1. f \in [Balance!Instances -> Int] /\ \A i \in Balance!Instances : f[i] = -inflight[i] /\ inflight[i] \in Int
    BY <1>2
  <2>. HIDE DEF f
  <2>2. PICK i \in Balance!Instances : \A j \in Balance!Instances : f[j] <= f[i]
    BY <2>1, FirstHighest
  <2>3. \A j \in Balance!Instances : inflight[i] <= inflight[j]
    BY <2>1, <2>2
  <2>. QED
    BY <2>3
<1>. HIDE DEF m
<1>5. ~tied
  BY <1>1 DEF BalanceInv, ScanInv
<1>6. Balance!BalancerTypeOK'
  BY <1>1, <1>2, <1>3, <1>4 DEF BalanceInv, Balance!BalancerTypeOK
<1>7. ScanInv'
  <2>1. Balance!SumOf(picked)' = Balance!SumOf(picked)
    BY <1>1
  <2>2. m < 2 => m = 1
    BY <1>3, <1>4
  <2>3. inflight'[m] <= least' /\ (m < coming' \/ (tied' /\ m = coming') => inflight'[best'] <= least')
    BY <1>1, <1>2, <1>4, <1>5, <2>2
  <2>. QED
    BY <1>1, <1>2, <1>4, <1>5, <2>1, <2>3 DEF ScanInv
<1>. QED
  BY <1>1, <1>6, <1>7, Scanned DEF BalanceInv

LEMMA FewerIInv ==
  ASSUME Balance!BalancerAssumption, BalanceInv, Balance!Fewer
  PROVE  BalanceInv'
<1>1. /\ best # None /\ coming <= Size /\ ~tied
      /\ \/ /\ inflight[coming] < inflight[best]
            /\ best' = coming /\ coming' = coming + 1 /\ tied' = tied
         \/ /\ ~(inflight[coming] < inflight[best])
            /\ tied' = TRUE /\ best' = best /\ coming' = coming
      /\ UNCHANGED <<strategy, weight, current, inflight, picked, least>>
  BY DEF Balance!Fewer, Balance!chosen
<1>2. /\ inflight \in [Balance!Instances -> 0 .. MaxPicks] /\ MaxPicks \in Nat
      /\ Size \in Nat \ {0} /\ None \notin Balance!Instances
      /\ best \in Balance!Instances /\ coming \in Balance!Instances /\ coming \in Nat
      /\ least \in Int
  BY <1>1, BalanceTypes DEF BalanceInv, Balance!BalancerTypeOK, Balance!Instances
<1>3. strategy = "least_conn" /\ Balance!SumOf(picked) < MaxPicks
  BY <1>1 DEF BalanceInv, ScanInv
<1>4. PICK m \in Balance!Instances : /\ inflight[m] <= least
                                     /\ m < coming \/ (tied /\ m = coming) => inflight[best] <= least
  BY <1>1, Zenon DEF BalanceInv, ScanInv
<1>5. m \in Nat /\ inflight[m] \in Int /\ inflight[best] \in Int /\ inflight[coming] \in Int
  BY <1>2 DEF Balance!Instances
<1>6. m < coming' \/ (tied' /\ m = coming') => inflight[best'] <= least
  <2>1. CASE inflight[coming] < inflight[best] /\ best' = coming /\ coming' = coming + 1 /\ tied' = tied
    <3>1. m < coming + 1 => m < coming \/ m = coming
      BY <1>2, <1>5
    <3>. QED
      BY <1>1, <1>2, <1>4, <1>5, <2>1, <3>1
  <2>2. CASE ~(inflight[coming] < inflight[best]) /\ tied' = TRUE /\ best' = best /\ coming' = coming
    BY <1>1, <1>2, <1>4, <1>5, <2>2
  <2>. QED
    BY <1>1, <2>1, <2>2
<1>7. best' \in Balance!Instances /\ coming' \in 1 .. Size + 1
  <2>1. coming \in 1 .. Size + 1 /\ coming + 1 \in 1 .. Size + 1
    <3>1. coming \in Nat /\ 1 <= coming /\ coming <= Size /\ Size \in Nat
      BY <1>1, <1>2 DEF Balance!Instances
    <3>. QED
      BY <3>1
  <2>2. coming' = coming \/ coming' = coming + 1
    BY <1>1
  <2>3. best' = best \/ best' = coming
    BY <1>1
  <2>. QED
    BY <1>2, <2>1, <2>2, <2>3
<1>8. tied' \in BOOLEAN /\ (tied' => coming' <= Size)
  <2>1. tied \in BOOLEAN
    BY DEF BalanceInv, Balance!BalancerTypeOK
  <2>2. tied' \in BOOLEAN
    BY <1>1, <2>1
  <2>3. tied' => coming' = coming
    BY <1>1
  <2>. QED
    BY <1>1, <2>2, <2>3
<1>9. Balance!BalancerTypeOK'
  BY <1>1, <1>7, <1>8 DEF BalanceInv, Balance!BalancerTypeOK
<1>10. ScanInv'
  <2>1. Balance!SumOf(picked)' = Balance!SumOf(picked)
    BY <1>1
  <2>2. inflight'[m] <= least' /\ (m < coming' \/ (tied' /\ m = coming') => inflight'[best'] <= least')
    BY <1>1, <1>4, <1>6
  <2>3. best' # None
    BY <1>2, <1>7
  <2>. QED
    BY <1>1, <1>3, <1>8, <2>1, <2>2, <2>3 DEF ScanInv
<1>. QED
  BY <1>1, <1>9, <1>10, Scanned DEF BalanceInv

LEMMA SameIInv ==
  ASSUME Balance!BalancerAssumption, BalanceInv, Balance!SameAndSmallerId
  PROVE  BalanceInv'
<1>1. /\ tied /\ coming' = coming + 1 /\ tied' = FALSE
      /\ \/ inflight[coming] = inflight[best] /\ best' = coming
         \/ best' = best
      /\ UNCHANGED <<strategy, weight, current, inflight, picked, least>>
  BY DEF Balance!SameAndSmallerId, Balance!chosen
<1>2. best # None /\ coming <= Size
  BY <1>1 DEF BalanceInv, ScanInv
<1>3. /\ inflight \in [Balance!Instances -> 0 .. MaxPicks] /\ MaxPicks \in Nat
      /\ Size \in Nat \ {0} /\ None \notin Balance!Instances
      /\ best \in Balance!Instances /\ coming \in Balance!Instances /\ coming \in Nat
      /\ least \in Int
  BY <1>2, BalanceTypes DEF BalanceInv, Balance!BalancerTypeOK, Balance!Instances
<1>4. strategy = "least_conn" /\ Balance!SumOf(picked) < MaxPicks
  BY <1>2 DEF BalanceInv, ScanInv
<1>5. PICK m \in Balance!Instances : /\ inflight[m] <= least
                                     /\ m < coming \/ (tied /\ m = coming) => inflight[best] <= least
  BY <1>2, Zenon DEF BalanceInv, ScanInv
<1>6. m \in Nat /\ (m < coming + 1 => m < coming \/ m = coming)
  BY <1>3 DEF Balance!Instances
<1>7. m < coming' => inflight[best'] <= least
  BY <1>1, <1>5, <1>6
<1>8. best' \in Balance!Instances /\ coming' \in 1 .. Size + 1
  BY <1>1, <1>2, <1>3
<1>9. tied' \in BOOLEAN
  BY <1>1
<1>10. Balance!BalancerTypeOK'
  BY <1>1, <1>8, <1>9 DEF BalanceInv, Balance!BalancerTypeOK
<1>11. ScanInv'
  <2>1. Balance!SumOf(picked)' = Balance!SumOf(picked)
    BY <1>1
  <2>2. inflight'[m] <= least' /\ (m < coming' \/ (tied' /\ m = coming') => inflight'[best'] <= least')
    BY <1>1, <1>5, <1>7
  <2>. QED
    BY <1>1, <1>4, <2>1, <2>2 DEF ScanInv
<1>. QED
  BY <1>1, <1>10, <1>11, Scanned DEF BalanceInv

LEMMA TakeIInv ==
  ASSUME Balance!BalancerAssumption, BalanceInv, Balance!Take
  PROVE  BalanceInv'
<1>1. /\ best # None /\ coming > Size /\ Balance!Occupy(best) /\ best' = None /\ coming' = 1
      /\ UNCHANGED <<strategy, weight, current, tied, least>>
  BY DEF Balance!Take
<1>2. /\ best \in Balance!Instances /\ strategy = "least_conn"
      /\ Balance!SumOf(picked) < MaxPicks
      /\ Size \in Nat \ {0} /\ coming \in Nat
  BY <1>1, BalanceTypes DEF BalanceInv, Balance!BalancerTypeOK, ScanInv
<1>3. ~tied
  BY <1>1, <1>2 DEF BalanceInv, ScanInv
<1>4. /\ picked' \in [Balance!Instances -> 0 .. MaxPicks]
      /\ inflight' \in [Balance!Instances -> 0 .. MaxPicks]
      /\ Balance!SumOf(picked') \in 0 .. MaxPicks
      /\ \A j \in Balance!Instances : inflight'[j] <= picked'[j]
  BY <1>1, <1>2, Occupied DEF BalanceInv
<1>5. coming' \in 1 .. Size + 1
  BY <1>1, <1>2
<1>6. Balance!BalancerTypeOK'
  BY <1>1, <1>4, <1>5 DEF BalanceInv, Balance!BalancerTypeOK
<1>7. ShareInv' /\ PicksInv' /\ ScanInv'
  BY <1>1, <1>2, <1>3, <1>4 DEF ShareInv, PicksInv, ScanInv
<1>. QED
  BY <1>6, <1>7 DEF BalanceInv

LEMMA ReleaseIInv ==
  ASSUME Balance!BalancerAssumption, BalanceInv, NEW i \in Balance!Instances,
           Balance!Release(i)
  PROVE  BalanceInv'
<1>1. /\ inflight[i] > 0 /\ inflight' = [inflight EXCEPT ![i] = @ - 1]
      /\ UNCHANGED <<strategy, weight, current, picked, best, coming, tied, least>>
  BY DEF Balance!Release, Balance!scan
<1>2. /\ inflight \in [Balance!Instances -> 0 .. MaxPicks] /\ MaxPicks \in Nat
      /\ picked \in [Balance!Instances -> 0 .. MaxPicks]
      /\ best \in Balance!Instances \cup {None} /\ least \in 0 .. MaxPicks
      /\ \A j \in Balance!Instances : inflight[j] <= picked[j]
  BY BalanceTypes DEF BalanceInv, Balance!BalancerTypeOK, PicksInv
<1>3. /\ inflight' \in [Balance!Instances -> 0 .. MaxPicks]
      /\ \A j \in Balance!Instances : inflight'[j] <= inflight[j]
      /\ \A j \in Balance!Instances : inflight[j] \in Int /\ inflight'[j] \in Int /\ picked[j] \in Int
  BY <1>1, <1>2
<1>4. Balance!Total' = Balance!Total /\ Balance!SumOf(picked)' = Balance!SumOf(picked)
  BY <1>1 DEF Balance!Total
<1>5. Balance!BalancerTypeOK'
  BY <1>1, <1>3 DEF BalanceInv, Balance!BalancerTypeOK
<1>6. ShareInv'
  BY <1>1, <1>4 DEF BalanceInv, ShareInv
<1>7. PicksInv'
  <2>1. \A j \in Balance!Instances : inflight'[j] <= picked[j]
    BY <1>2, <1>3
  <2>. QED
    BY <1>1, <1>4, <2>1 DEF BalanceInv, PicksInv
<1>8. ScanInv'
  <2>1. tied' => best' # None /\ coming' <= Size
    BY <1>1 DEF BalanceInv, ScanInv
  <2>2. ASSUME best # None
        PROVE  /\ strategy = "least_conn" /\ Balance!SumOf(picked) < MaxPicks
               /\ \E m \in Balance!Instances :
                    /\ inflight'[m] <= least
                    /\ m < coming \/ (tied /\ m = coming) => inflight'[best] <= least
    <3>1. PICK m \in Balance!Instances : /\ inflight[m] <= least
                                         /\ m < coming \/ (tied /\ m = coming) => inflight[best] <= least
      BY <2>2, Zenon DEF BalanceInv, ScanInv
    <3>2. best \in Balance!Instances
      BY <1>2, <2>2
    <3>3. \A j \in Balance!Instances : inflight[j] <= least => inflight'[j] <= least
      BY <1>2, <1>3
    <3>4. inflight'[m] <= least /\ (m < coming \/ (tied /\ m = coming) => inflight'[best] <= least)
      BY <3>1, <3>2, <3>3
    <3>. QED
      BY <2>2, <3>4 DEF BalanceInv, ScanInv
  <2>. QED
    BY <1>1, <1>4, <2>1, <2>2 DEF ScanInv
<1>. QED
  BY <1>5, <1>6, <1>7, <1>8 DEF BalanceInv

LEMMA BalanceKept ==
  ASSUME Balance!BalancerAssumption, BalanceInv, Balance!Next
  PROVE  BalanceInv'
BY PickWeightedIInv, ScanIInv, FewerIInv, SameIInv, TakeIInv, ReleaseIInv DEF Balance!Next

LEMMA BalanceBound ==
  ASSUME Balance!BalancerAssumption, BalanceInv
  PROVE  Balance!BalanceHolds
<1>. DEFINE T == Balance!Total
            P == Balance!SumOf(picked)
<1>1. /\ Size \in Nat \ {0} /\ T \in Nat \ {0} /\ P \in Nat
      /\ weight \in [Balance!Instances -> Int] /\ current \in [Balance!Instances -> Int]
      /\ picked \in [Balance!Instances -> Int]
  BY BalanceTypes DEF BalanceInv
<1>2. ASSUME strategy = "weighted", NEW i \in Balance!Instances
      PROVE  LET share == weight[i] * P  got == T * picked[i] IN
             /\ got - share < T /\ share - got <= (Size - 1) * T
             /\ P % T = 0 => got = share
  <2>1. /\ Balance!SumOf(current) = 0
        /\ \A j \in Balance!Instances : current[j] = weight[j] * P - T * picked[j]
        /\ \A j \in Balance!Instances : current[j] > -T
    BY <1>2 DEF BalanceInv, ShareInv
  <2>2. \A j \in Balance!Instances : weight[j] * P \in Int /\ T * picked[j] \in Int /\ current[j] \in Int
    BY <1>1
  <2>. HIDE DEF T, P
  <2>3. Balance!SumOf(current) >= current[i] + (Size - 1) * (-T)
    <3>1. -T \in Int /\ \A j \in Balance!Instances : j # i => current[j] >= -T
      BY <1>1, <2>1, <2>2
    <3>. QED
      BY <1>1, <3>1, SumAtLeast
  <2>4. (Size - 1) * (-T) = -((Size - 1) * T) /\ (Size - 1) * T \in Int
    BY <1>1
  <2>5. current[i] <= (Size - 1) * T
    BY <2>1, <2>2, <2>3, <2>4
  <2>6. P % T = 0 => current[i] = 0
    <3>. SUFFICES ASSUME P % T = 0 PROVE current[i] = 0
      OBVIOUS
    <3>1. PICK q \in Int : P = T * q
      <4>1. \A t \in Nat \ {0}, p \in Nat :
               p % t = 0 => p = t * (p \div t) /\ p \div t \in Int
        OBVIOUS
      <4>2. P = T * (P \div T) /\ P \div T \in Int
        BY <1>1, <4>1
      <4>. QED
        BY <4>2
    <3>2. ASSUME NEW j \in Balance!Instances
          PROVE  current[j] >= 0
      <4>1. weight[j] \in Int /\ picked[j] \in Int
        BY <1>1
      <4>2. \A w, p \in Int : w * (T * q) - T * p = T * (w * q - p) /\ w * q - p \in Int
        BY <1>1
      <4>3. current[j] = T * (weight[j] * q - picked[j]) /\ weight[j] * q - picked[j] \in Int
        BY <2>1, <3>1, <4>1, <4>2
      <4>4. \A k \in Int : T * k > -T => k >= 0 /\ T * k >= 0
        BY <1>1
      <4>. QED
        BY <2>1, <4>3, <4>4
    <3>3. Balance!SumOf(current) >= current[i] + (Size - 1) * 0
      BY <1>1, <3>2, SumAtLeast
    <3>4. (Size - 1) * 0 = 0
      BY <1>1
    <3>. QED
      BY <2>1, <2>2, <3>2, <3>3, <3>4
  <2>7. current[i] = weight[i] * P - T * picked[i] /\ current[i] > -T
    BY <2>1
  <2>. QED
    BY <1>1, <2>2, <2>4, <2>5, <2>6, <2>7
<1>3. ASSUME best # None, coming > Size
      PROVE  inflight[best] <= least
  <2>1. PICK m \in Balance!Instances : /\ inflight[m] <= least
                                       /\ m < coming \/ (tied /\ m = coming) => inflight[best] <= least
    BY <1>3, Zenon DEF BalanceInv, ScanInv
  <2>2. m < coming
    BY <1>1, <1>3 DEF BalanceInv, Balance!BalancerTypeOK, Balance!Instances
  <2>. QED
    BY <2>1, <2>2
<1>. QED
  BY <1>2, <1>3 DEF Balance!BalanceHolds
-----------------------------------------------------------------------------
(* The question and the warnings of a turn (TurnCollectors). A question that *)
(* is going to be set is clean, and the one set is the first.                *)

\* A question the user can choose an answer of.
Clean(r) ==
  /\ r \in Collect!Questions /\ r.question /\ Len(r.options) \in 2 .. MaxOptions
  /\ \A i \in DOMAIN r.options : r.options[i].label # ""
  /\ \A i, j \in DOMAIN r.options : i # j =>
       Collect!Lower(r.options[i].label) # Collect!Lower(r.options[j].label)

\* What is going to be set is clean, and the one set is the first.
AskInv ==
  /\ \A c \in Calls : call[c].at = "asking" => Clean(call[c].ask)
  /\ \A c \in Calls : call[c].at = "interrupted" => first # None
  /\ first # None => Clean(first)
  /\ req # None => first # None
  /\ service # "done" => req = first
  /\ taken # None => taken = first

\* The warnings are the failures, each once, up to their number.
WarnInv ==
  /\ \A i, j \in DOMAIN warns : i # j => warns[i] # warns[j]
  /\ \A i \in DOMAIN warns : warns[i] \in raised
  /\ \A warn \in raised : Len(warns) = MaxWarnings \/ \E i \in DOMAIN warns : warns[i] = warn
  /\ shown = IF service = "waiting" THEN <<>> ELSE warns

CollectInv == Collect!CollectorsTypeOK /\ AskInv /\ WarnInv

\* InOrder lists every member once.
LEMMA InOrderOf ==
  ASSUME NEW m \in Nat, NEW D \in SUBSET (1 .. m)
  PROVE  /\ IsFiniteSet(D) /\ Cardinality(D) \in 0 .. m
         /\ DOMAIN Collect!InOrder(D) = 1 .. Cardinality(D) /\ Len(Collect!InOrder(D)) = Cardinality(D)
         /\ \A n \in 1 .. Cardinality(D) : Collect!InOrder(D)[n] \in D
         /\ \A n, k \in 1 .. Cardinality(D) : n # k => Collect!InOrder(D)[n] # Collect!InOrder(D)[k]
<1>. DEFINE R == {p \in D \X D : p[1] < p[2]}
            rank(i) == Collect!Cardinality({j \in D : j < i})
            place(n) == CHOOSE i \in D : rank(i) = n - 1
<1>5. Collect!InOrder(D) = [n \in 1 .. Cardinality(D) |-> place(n)]
  BY CollectCounts DEF Collect!InOrder
<1>1. IsFiniteSet(D) /\ Cardinality(D) \in 0 .. m
  <2>1. IsFiniteSet(1 .. m) /\ Cardinality(1 .. m) = m
    BY FS_Interval
  <2>2. IsFiniteSet(D) /\ Cardinality(D) <= m /\ Cardinality(D) \in Nat
    BY <2>1, FS_Subset, FS_CardinalityType
  <2>. QED
    BY <2>2
<1>. PICK c \in Nat : c = Cardinality(D)
  BY <1>1
<1>2. Ordered(D, R)
  <2>1. \A i, j \in D : <<i, j>> \in R <=> i < j
    OBVIOUS
  <2>. HIDE DEF R
  <2>. QED
    BY <2>1 DEF Ordered
<1>3. \A i \in D : rank(i) = Cardinality(Below(D, R, i))
  <2>1. \A i \in D : {j \in D : j < i} = Below(D, R, i)
    BY DEF Below
  <2>. QED
    BY <2>1, CollectCounts
<1>. HIDE DEF R, rank
<1>4. \A n \in 1 .. c : \E i \in D : rank(i) = n - 1
  <2>1. \A k \in 0 .. c - 1 : \E i \in D : Cardinality(Below(D, R, i)) = k
    BY <1>1, <1>2, Ranked
  <2>2. \A n \in 1 .. c : n - 1 \in 0 .. c - 1
    OBVIOUS
  <2>. QED
    BY <1>3, <2>1, <2>2
<1>6. \A n \in 1 .. c : place(n) \in D /\ rank(place(n)) = n - 1
  BY <1>4
<1>. HIDE DEF place
<1>7. /\ DOMAIN Collect!InOrder(D) = 1 .. c /\ Len(Collect!InOrder(D)) = c
      /\ \A n \in 1 .. c : Collect!InOrder(D)[n] = place(n)
  BY <1>5
<1>8. \A n, k \in 1 .. c : n # k => place(n) # place(k)
  BY <1>6
<1>. QED
  BY <1>1, <1>6, <1>7, <1>8

LEMMA CollectSizes ==
  ASSUME Collect!CollectorsAssumption
  PROVE  MaxOptions \in Nat /\ MaxOptions >= 2 /\ MaxWarnings \in Nat /\ 0 <= MaxWarnings
<1>1. MaxOptions \in Nat /\ MaxOptions >= 2 /\ MaxWarnings \in Nat \ {0}
  BY Zenon DEF Collect!CollectorsAssumption
<1>. QED
  BY <1>1

\* What the model gives is parsed to a question.
LEMMA Parsed ==
  ASSUME Collect!CollectorsAssumption, NEW args \in Args
  PROVE  Collect!Asked(args) \in Collect!Questions
<1>1. args \in [question : BOOLEAN, form : {"objects", "strings", "none"}, options : Seq(Collect!Options)]
  BY DEF Collect!CollectorsAssumption
<1>2. /\ args.options \in Seq(Collect!Options) /\ Len(args.options) \in Nat
      /\ DOMAIN args.options = 1 .. Len(args.options)
      /\ \A i \in DOMAIN args.options : args.options[i] \in Collect!Options
  BY <1>1
<1>3. args.question \in BOOLEAN
  BY <1>1
<1>4. \A label \in Labels : Collect!Plain(label) \in Collect!Options
  BY DEF Collect!Plain, Collect!Options, Collect!CollectorsAssumption
<1>5. \A o \in Collect!Options : o.label \in Labels /\ Collect!LabelOf(o) \in Labels
  BY DEF Collect!Options, Collect!LabelOf
<1>6. Collect!ParseOptions(args) \in Seq(Collect!Options)
  <2>. DEFINE D == {i \in DOMAIN args.options : Collect!LabelOf(args.options[i]) # ""}
              named == Collect!InOrder(D)
  <2>1. /\ Cardinality(D) \in Nat /\ DOMAIN named = 1 .. Cardinality(D)
        /\ \A n \in DOMAIN named : named[n] \in DOMAIN args.options
    <3>. PICK m \in Nat : m = Len(args.options)
      BY <1>2
    <3>1. D \in SUBSET (1 .. m)
      BY <1>2
    <3>. HIDE DEF D
    <3>2. /\ Cardinality(D) \in 0 .. m /\ DOMAIN named = 1 .. Cardinality(D)
          /\ \A n \in 1 .. Cardinality(D) : named[n] \in D
      BY <3>1, InOrderOf
    <3>. HIDE DEF named
    <3>3. \A n \in 1 .. Cardinality(D) : named[n] \in DOMAIN args.options
      BY <1>2, <3>1, <3>2
    <3>. QED
      BY <3>2, <3>3
  <2>. HIDE DEF D, named
  <2>2. [n \in DOMAIN named |-> Collect!Plain(Collect!LabelOf(args.options[named[n]]))] \in Seq(Collect!Options)
    <3>1. [n \in DOMAIN named |-> Collect!Plain(Collect!LabelOf(args.options[named[n]]))]
            \in [1 .. Cardinality(D) -> Collect!Options]
      BY <1>2, <1>4, <1>5, <2>1
    <3>. QED
      BY <2>1, <3>1
  <2>3. [i \in DOMAIN args.options |-> Collect!Plain(args.options[i].label)] \in Seq(Collect!Options)
    <3>1. [i \in DOMAIN args.options |-> Collect!Plain(args.options[i].label)]
            \in [1 .. Len(args.options) -> Collect!Options]
      BY <1>2, <1>4, <1>5
    <3>. QED
      BY <1>2, <3>1
  <2>4. <<>> \in Seq(Collect!Options)
    BY EmptySeq
  <2>5. Collect!ParseOptions(args) \in
          {args.options, [n \in DOMAIN named |-> Collect!Plain(Collect!LabelOf(args.options[named[n]]))],
           [i \in DOMAIN args.options |-> Collect!Plain(args.options[i].label)], <<>>}
    BY <1>1 DEF Collect!ParseOptions, named, D
  <2>. QED
    BY <1>2, <2>2, <2>3, <2>4, <2>5
<1>. QED
  BY <1>3, <1>6 DEF Collect!Asked, Collect!Questions

\* What Normalize leaves has no two options alike and none without a label; of a
\* question that is like that already it leaves as many.
LEMMA Normalized ==
  ASSUME Collect!CollectorsAssumption, NEW r \in Collect!Questions
  PROVE  /\ Collect!Normalize(r) \in Collect!Questions
         /\ Collect!Normalize(r).question = r.question
         /\ Collect!Valid(Collect!Normalize(r)) => Clean(Collect!Normalize(r))
         /\ Clean(r) => Collect!Valid(Collect!Normalize(r))
<1>. DEFINE D == Collect!Distinct(r.options)
            kept == Collect!InOrder(D)
            s == Collect!Normalize(r).options
<1>. PICK m \in Nat : m = Len(r.options)
  BY DEF Collect!Questions
<1>1. /\ r.question \in BOOLEAN /\ r.options \in Seq(Collect!Options) /\ DOMAIN r.options = 1 .. m
      /\ \A i \in 1 .. m : r.options[i] \in Collect!Options
  BY DEF Collect!Questions
<1>2. D \in SUBSET (1 .. m)
  BY <1>1 DEF Collect!Distinct
<1>3. /\ \A i \in D : r.options[i].label # ""
      /\ \A i, j \in D : i # j => Collect!Lower(r.options[i].label) # Collect!Lower(r.options[j].label)
  <2>1. \A i, j \in D : i < j => Collect!Lower(r.options[i].label) # Collect!Lower(r.options[j].label)
    <3>1. \A i, j \in D : i < j => i \in 1 .. j - 1
      BY <1>2
    <3>. QED
      BY <3>1 DEF Collect!Distinct
  <2>2. \A i, j \in D : i # j => i < j \/ j < i
    BY <1>2
  <2>. QED
    BY <2>1, <2>2 DEF Collect!Distinct
<1>4. Clean(r) => D = 1 .. m
  <2>. SUFFICES ASSUME Clean(r), NEW i \in 1 .. m PROVE i \in D
    BY <1>2
  <2>1. \A j \in 1 .. i - 1 : j \in 1 .. m /\ j # i
    OBVIOUS
  <2>. QED
    BY <1>1, <2>1 DEF Clean, Collect!Distinct
<1>. HIDE DEF D
<1>. PICK c \in 0 .. m : c = Cardinality(D)
  BY <1>2, InOrderOf
<1>5. /\ DOMAIN kept = 1 .. c /\ Len(kept) = c
      /\ \A k \in 1 .. c : kept[k] \in D
      /\ \A k, l \in 1 .. c : k # l => kept[k] # kept[l]
  BY <1>2, InOrderOf
<1>. DEFINE n == IF c < MaxOptions THEN c ELSE MaxOptions
            options == [k \in 1 .. n |-> Collect!Numbered(r.options[kept[k]], kept[k])]
<1>6. Collect!Normalize(r) = [r EXCEPT !.options = options]
  BY <1>5 DEF Collect!Normalize, D
<1>7. MaxOptions \in Nat /\ MaxOptions >= 2 /\ n \in Nat /\ n <= c /\ n <= MaxOptions
  BY CollectSizes
<1>. HIDE DEF kept
<1>8. \A k \in 1 .. n : k \in 1 .. c /\ kept[k] \in D /\ kept[k] \in 1 .. m
  <2>1. \A k \in 1 .. n : k \in 1 .. c
    BY <1>7
  <2>. QED
    BY <1>2, <1>5, <2>1
<1>9. ASSUME NEW o \in Collect!Options, NEW i \in Nat
      PROVE  /\ Collect!Numbered(o, i) \in Collect!Options
             /\ Collect!Numbered(o, i).label = o.label
  BY DEF Collect!Numbered, Collect!Options
<1>10. \A k \in 1 .. n : /\ Collect!Numbered(r.options[kept[k]], kept[k]) \in Collect!Options
                         /\ Collect!Numbered(r.options[kept[k]], kept[k]).label = r.options[kept[k]].label
  <2>1. \A k \in 1 .. n : kept[k] \in Nat /\ r.options[kept[k]] \in Collect!Options
    BY <1>1, <1>8
  <2>. HIDE DEF n
  <2>. QED
    BY <1>9, <2>1
<1>. HIDE DEF n
<1>11. options \in [1 .. n -> Collect!Options] /\ \A k \in 1 .. n : options[k].label = r.options[kept[k]].label
  BY <1>10
<1>12. options \in Seq(Collect!Options) /\ Len(options) = n /\ DOMAIN options = 1 .. n
  BY <1>7, <1>11
<1>. HIDE DEF options
<1>13. /\ Collect!Normalize(r) \in Collect!Questions
       /\ Collect!Normalize(r).question = r.question
       /\ Collect!Normalize(r).options = options
  BY <1>6, <1>12 DEF Collect!Questions
<1>14. /\ \A k \in 1 .. n : options[k].label # ""
       /\ \A k, l \in 1 .. n : k # l => Collect!Lower(options[k].label) # Collect!Lower(options[l].label)
  <2>1. \A k, l \in 1 .. n : k # l => kept[k] # kept[l]
    BY <1>5, <1>8
  <2>2. \A k \in 1 .. n : r.options[kept[k]].label # ""
    BY <1>3, <1>8
  <2>3. \A k, l \in 1 .. n : k # l =>
          Collect!Lower(r.options[kept[k]].label) # Collect!Lower(r.options[kept[l]].label)
    BY <1>3, <1>8, <2>1
  <2>4. \A k \in 1 .. n : options[k].label = r.options[kept[k]].label
    BY <1>11
  <2>5. \A k \in 1 .. n : options[k].label # ""
    BY <2>2, <2>4, Zenon
  <2>6. \A k, l \in 1 .. n : k # l => Collect!Lower(options[k].label) # Collect!Lower(options[l].label)
    <3>. SUFFICES ASSUME NEW k \in 1 .. n, NEW l \in 1 .. n, k # l
                  PROVE  Collect!Lower(options[k].label) # Collect!Lower(options[l].label)
      OBVIOUS
    <3>1. options[k].label = r.options[kept[k]].label /\ options[l].label = r.options[kept[l]].label
      BY <2>4, Zenon
    <3>2. Collect!Lower(r.options[kept[k]].label) # Collect!Lower(r.options[kept[l]].label)
      BY <2>3, Zenon
    <3>. QED
      BY <3>1, <3>2, Zenon
  <2>. QED
    BY <2>5, <2>6
<1>15. Collect!Valid(Collect!Normalize(r)) => Clean(Collect!Normalize(r))
  <2>. SUFFICES ASSUME Collect!Valid(Collect!Normalize(r)) PROVE Clean(Collect!Normalize(r))
    OBVIOUS
  <2>1. r.question /\ n >= 2
    BY <1>12, <1>13 DEF Collect!Valid
  <2>2. n \in 2 .. MaxOptions
    BY <1>7, <2>1
  <2>3. Collect!Normalize(r).question
    BY <1>13, <2>1
  <2>. QED
    BY <1>12, <1>13, <1>14, <2>2, <2>3 DEF Clean
<1>16. Clean(r) => Collect!Valid(Collect!Normalize(r))
  <2>. SUFFICES ASSUME Clean(r) PROVE Collect!Valid(Collect!Normalize(r))
    OBVIOUS
  <2>1. r.question /\ m \in 2 .. MaxOptions
    BY DEF Clean
  <2>2. c = m
    <3>1. \A k \in Nat : Cardinality(1 .. k) = k
      BY FS_Interval
    <3>. QED
      BY <1>4, <3>1
  <2>3. n >= 2
    BY <1>7, <2>1, <2>2 DEF n
  <2>. QED
    BY <1>12, <1>13, <2>1, <2>3 DEF Collect!Valid
<1>. QED
  BY <1>13, <1>15, <1>16

LEMMA CollectInit ==
  ASSUME Collect!CollectorsAssumption, Collect!Init
  PROVE  CollectInv
<1>1. warns = <<>> /\ shown = <<>> /\ <<>> \in Seq(Failures) /\ Len(<<>>) = 0 /\ DOMAIN warns = {}
  BY EmptySeq DEF Collect!Init
<1>2. 0 <= MaxWarnings
  BY CollectSizes
<1>3. Collect!CollectorsTypeOK
  BY <1>1, <1>2 DEF Collect!Init, Collect!CollectorsTypeOK, Collect!Idle
<1>4. AskInv
  BY DEF Collect!Init, AskInv, Collect!Idle
<1>5. WarnInv
  BY <1>1 DEF Collect!Init, WarnInv
<1>. QED
  BY <1>3, <1>4, <1>5 DEF CollectInv

LEMMA CollectBound ==
  ASSUME Collect!CollectorsAssumption, CollectInv
  PROVE  Collect!TurnTold
<1>1. first # None => /\ first.question /\ Len(first.options) \in 2 .. MaxOptions
                      /\ \A i, j \in DOMAIN first.options : i # j =>
                           Collect!Lower(first.options[i].label) # Collect!Lower(first.options[j].label)
  BY DEF CollectInv, AskInv, Clean
<1>2. shown = SubSeq(warns, 1, Len(shown))
  <2>1. warns \in Seq(Failures)
    BY DEF CollectInv, Collect!CollectorsTypeOK
  <2>2. SubSeq(warns, 1, 0) = <<>> /\ SubSeq(warns, 1, Len(warns)) = warns
    BY <2>1, SubSeqEmpty, SubSeqFull
  <2>3. Len(<<>>) = 0
    BY EmptySeq
  <2>. QED
    BY <2>2, <2>3 DEF CollectInv, WarnInv
<1>3. {warns[i] : i \in DOMAIN warns} \subseteq raised
  BY DEF CollectInv, WarnInv
<1>. QED
  BY <1>1, <1>2, <1>3 DEF Collect!TurnTold, CollectInv, AskInv, WarnInv

LEMMA HandleIInv ==
  ASSUME Collect!CollectorsAssumption, CollectInv, NEW c \in Calls, NEW args \in Args,
           Collect!Handle(c, args)
  PROVE  CollectInv'
<1>. DEFINE r == Collect!Normalize(Collect!Asked(args))
<1>1. /\ call[c].at = "idle"
      /\ call' = [call EXCEPT ![c] = IF args.form # "none" /\ Collect!Valid(r)
                                     THEN [at |-> "asking", ask |-> r] ELSE [Collect!Idle EXCEPT !.at = "observed"]]
      /\ UNCHANGED <<req, warns, taken, shown, service, first, raised>>
  BY DEF Collect!Handle
<1>2. r \in Collect!Questions /\ (Collect!Valid(r) => Clean(r))
  BY Parsed, Normalized
<1>. HIDE DEF r
<1>3. /\ call'[c] \in {[at |-> "asking", ask |-> r], [at |-> "observed", ask |-> None]}
      /\ call'[c].at = "asking" => Clean(call'[c].ask)
      /\ call'[c].at # "interrupted"
      /\ \A d \in Calls : d # c => call'[d] = call[d]
  BY <1>1, <1>2 DEF CollectInv, Collect!CollectorsTypeOK, Collect!Idle
<1>4. call' \in [Calls -> [at : {"idle", "asking", "interrupted", "observed", "failed"},
                           ask : Collect!Questions \cup {None}]]
  BY <1>1, <1>2, <1>3 DEF CollectInv, Collect!CollectorsTypeOK
<1>5. Collect!CollectorsTypeOK'
  BY <1>1, <1>4 DEF CollectInv, Collect!CollectorsTypeOK
<1>6. AskInv'
  BY <1>1, <1>3 DEF CollectInv, AskInv
<1>7. WarnInv'
  BY <1>1 DEF CollectInv, WarnInv
<1>. QED
  BY <1>5, <1>6, <1>7 DEF CollectInv

LEMMA SetIInv ==
  ASSUME Collect!CollectorsAssumption, CollectInv, NEW c \in Calls, Collect!Set(c)
  PROVE  CollectInv'
<1>. DEFINE r == Collect!Normalize(call[c].ask)
<1>1. /\ call[c].at = "asking"
      /\ req' = IF req = None /\ Collect!Valid(r) THEN r ELSE req
      /\ first' = IF first = None THEN req' ELSE first
      /\ call' = [call EXCEPT ![c].at = "interrupted"]
      /\ UNCHANGED <<warns, taken, shown, service, raised>>
  BY DEF Collect!Set
<1>2. Clean(call[c].ask) /\ call[c].ask \in Collect!Questions
  <2>1. \A d \in Calls : call[d].at = "asking" => Clean(call[d].ask)
    BY DEF CollectInv, AskInv
  <2>2. Clean(call[c].ask)
    BY <1>1, <2>1, Zenon
  <2>. QED
    BY <2>2 DEF Clean
<1>3. r \in Collect!Questions /\ Clean(r) /\ r # None /\ Collect!Valid(r)
  BY <1>2, Normalized DEF Collect!CollectorsAssumption
<1>. HIDE DEF r
<1>4. /\ call'[c].at = "interrupted"
      /\ \A d \in Calls : d # c => call'[d] = call[d]
      /\ call' \in [Calls -> [at : {"idle", "asking", "interrupted", "observed", "failed"},
                              ask : Collect!Questions \cup {None}]]
  BY <1>1 DEF CollectInv, Collect!CollectorsTypeOK
<1>5. /\ req' = IF req = None THEN r ELSE req
      /\ first' = IF first = None THEN r ELSE first
  BY <1>1, <1>3 DEF CollectInv, AskInv
<1>6. Collect!CollectorsTypeOK'
  BY <1>1, <1>3, <1>4, <1>5 DEF CollectInv, Collect!CollectorsTypeOK
<1>7. AskInv'
  BY <1>1, <1>3, <1>4, <1>5 DEF CollectInv, AskInv
<1>8. WarnInv'
  BY <1>1 DEF CollectInv, WarnInv
<1>. QED
  BY <1>6, <1>7, <1>8 DEF CollectInv

LEMMA FailIInv ==
  ASSUME Collect!CollectorsAssumption, CollectInv, NEW c \in Calls, NEW warn \in Failures,
           Collect!Fail(c, warn)
  PROVE  CollectInv'
<1>1. /\ call[c].at = "idle" /\ service = "waiting"
      /\ warns' = IF Len(warns) >= MaxWarnings \/ (\E i \in DOMAIN warns : warns[i] = warn)
                  THEN warns ELSE Append(warns, warn)
      /\ raised' = raised \cup {warn}
      /\ call' = [call EXCEPT ![c].at = "failed"]
      /\ UNCHANGED <<req, taken, shown, service, first>>
  BY DEF Collect!Fail
<1>2. /\ call'[c].at = "failed"
      /\ \A d \in Calls : d # c => call'[d] = call[d]
      /\ call' \in [Calls -> [at : {"idle", "asking", "interrupted", "observed", "failed"},
                              ask : Collect!Questions \cup {None}]]
  BY <1>1 DEF CollectInv, Collect!CollectorsTypeOK
<1>3. AskInv'
  BY <1>1, <1>2 DEF CollectInv, AskInv
<1>4. warns \in Seq(Failures) /\ MaxWarnings \in Nat /\ Len(warns) <= MaxWarnings
  BY CollectSizes DEF CollectInv, Collect!CollectorsTypeOK
<1>. PICK n \in Nat : n = Len(warns)
  BY <1>4
<1>5. DOMAIN warns = 1 .. n
  BY <1>4
<1>6. WarnInv' /\ warns' \in Seq(Failures) /\ Len(warns') <= MaxWarnings
  <2>1. CASE n >= MaxWarnings \/ (\E i \in DOMAIN warns : warns[i] = warn)
    <3>1. warns' = warns
      BY <1>1, <2>1
    <3>2. n >= MaxWarnings => n = MaxWarnings
      BY <1>4
    <3>. QED
      BY <1>1, <1>4, <2>1, <3>1, <3>2 DEF CollectInv, WarnInv
  <2>2. CASE n < MaxWarnings /\ ~(\E i \in DOMAIN warns : warns[i] = warn)
    <3>1. warns' = Append(warns, warn)
      BY <1>1, <1>4, <2>2
    <3>2. /\ warns' \in Seq(Failures) /\ Len(warns') = n + 1 /\ DOMAIN warns' = 1 .. n + 1
          /\ warns'[n + 1] = warn /\ \A i \in 1 .. n : warns'[i] = warns[i]
      BY <1>4, <3>1, AppendProperties
    <3>3. \A i \in 1 .. n + 1 : i \in 1 .. n \/ i = n + 1
      OBVIOUS
    <3>4. n + 1 \in 1 .. n + 1 /\ \A i \in 1 .. n : i \in 1 .. n + 1
      OBVIOUS
    <3>5. \A i, j \in DOMAIN warns' : i # j => warns'[i] # warns'[j]
      BY <1>5, <2>2, <3>2, <3>3 DEF CollectInv, WarnInv
    <3>6. \A i \in DOMAIN warns' : warns'[i] \in raised'
      BY <1>1, <1>5, <3>2, <3>3 DEF CollectInv, WarnInv
    <3>7. \A w \in raised' : Len(warns') = MaxWarnings \/ \E i \in DOMAIN warns' : warns'[i] = w
      <4>. TAKE w \in raised'
      <4>1. CASE w = warn
        BY <3>2, <3>4, <4>1
      <4>2. CASE w # warn
        <5>1. w \in raised
          BY <1>1, <4>2
        <5>2. \E i \in 1 .. n : warns[i] = w
          BY <1>4, <1>5, <2>2, <5>1 DEF CollectInv, WarnInv
        <5>. QED
          BY <3>2, <3>4, <5>2
      <4>. QED
        BY <4>1, <4>2
    <3>8. Len(warns') <= MaxWarnings
      BY <1>4, <2>2, <3>2
    <3>. QED
      BY <1>1, <3>2, <3>5, <3>6, <3>7, <3>8 DEF CollectInv, WarnInv
  <2>. QED
    BY <1>4, <2>1, <2>2
<1>7. Collect!CollectorsTypeOK'
  BY <1>1, <1>2, <1>6 DEF CollectInv, Collect!CollectorsTypeOK
<1>. QED
  BY <1>3, <1>6, <1>7 DEF CollectInv

LEMMA CollectKept ==
  ASSUME Collect!CollectorsAssumption, CollectInv, Collect!Next
  PROVE  CollectInv'
<1>1. CASE Collect!TakeWarnings
  <2>1. /\ service = "waiting" /\ service' = "warned" /\ shown' = warns
        /\ UNCHANGED <<req, warns, call, taken, first, raised>>
    BY <1>1 DEF Collect!TakeWarnings
  <2>. QED
    BY <2>1 DEF CollectInv, Collect!CollectorsTypeOK, AskInv, WarnInv
<1>2. CASE Collect!TakeQuestion
  <2>1. /\ service = "warned" /\ service' = "done" /\ taken' = req /\ req' = None
        /\ UNCHANGED <<warns, call, shown, first, raised>>
    BY <1>2 DEF Collect!TakeQuestion
  <2>. QED
    BY <2>1 DEF CollectInv, Collect!CollectorsTypeOK, AskInv, WarnInv
<1>. QED
  BY <1>1, <1>2, HandleIInv, SetIInv, FailIInv DEF Collect!Next
-----------------------------------------------------------------------------
(* All of them (Services).  Of the service that is picked its invariant       *)
(* holds, and only that one moves.                                            *)

ServicesInv ==
  /\ part = "rate" => RateInv
  /\ part = "quota" => QuotaInv
  /\ part = "accounts" => AccountsInv
  /\ part = "mcp" => McpInv
  /\ part = "trace" => TraceInv
  /\ part = "log" => LogInv
  /\ part = "balance" => BalanceInv
  /\ part = "collect" => CollectInv

LEMMA Assumed ==
  /\ Rate!RateAssumption /\ Quota!QuotaAssumption /\ Users!AccountsAssumption
  /\ Mcp!McpAssumption /\ Trace!TraceAssumption /\ Log!LogAssumption
  /\ Balance!BalancerAssumption /\ Collect!CollectorsAssumption
  BY ServicesAssumption DEF ServicesAssumption

LEMMA ServicesInit ==
  ASSUME Init
  PROVE  ServicesInv
<1>1. /\ RateInv /\ QuotaInv /\ AccountsInv /\ McpInv
      /\ TraceInv /\ LogInv /\ BalanceInv /\ CollectInv
  BY Assumed, RateInit, QuotaInit, AccountsInit, McpInit, TraceInit, LogInit, BalanceInit,
     CollectInit
  DEF Init
<1>. QED
  BY <1>1 DEF ServicesInv

\* A service whose variables stay keeps its invariant.
LEMMA RateStays ==
  ASSUME RateInv, UNCHANGED rate
  PROVE  RateInv'
  BY DEF rate, RateInv, Rate!RateTypeOK, Rate!Stores, Refills

LEMMA QuotaStays ==
  ASSUME QuotaInv, UNCHANGED quota
  PROVE  QuotaInv'
<1>1. UnderWay' = UnderWay
  BY DEF quota, UnderWay
<1>. QED
  BY <1>1 DEF quota, QuotaInv, Quota!QuotaTypeOK, Quota!Days, QuotaAllowed

LEMMA AccountsStays ==
  ASSUME AccountsInv, UNCHANGED accounts
  PROVE  AccountsInv'
<1>1. Coded' = Coded
  BY DEF accounts, Coded
<1>2. Users!AccountsTypeOK' /\ SendInv' /\ MailInv'
  BY <1>1 DEF accounts, AccountsInv, Users!AccountsTypeOK, SendInv, MailInv
<1>3. JoinInv' /\ CodeInv'
  BY DEF accounts, AccountsInv, JoinInv, CodeInv, Passed, HasRow
<1>. QED
  BY <1>2, <1>3 DEF AccountsInv

LEMMA McpStays ==
  ASSUME McpInv, UNCHANGED mcp
  PROVE  McpInv'
  BY DEF mcp, McpInv, Mcp!McpTypeOK

LEMMA TraceStays ==
  ASSUME TraceInv, UNCHANGED trace
  PROVE  TraceInv'
  BY DEF trace, TraceInv, Trace!TraceTypeOK, NumberInv, StepsInv, SnapshotInv, RowInv,
         Numbered, Ended, Trace!SnapshotTaken, Trace!Sorted

LEMMA LogStays ==
  ASSUME LogInv, UNCHANGED log
  PROVE  LogInv'
<1>1. Stream' = Stream
  BY DEF log, Stream
<1>2. CloseInv' /\ Log!LogTypeOK'
  BY DEF log, LogInv, CloseInv, Log!LogTypeOK
<1>. QED
  BY <1>1, <1>2, Unmoved DEF LogInv, log

LEMMA BalanceStays ==
  ASSUME BalanceInv, UNCHANGED balance
  PROVE  BalanceInv'
<1>1. /\ Balance!SumOf(picked)' = Balance!SumOf(picked)
      /\ Balance!SumOf(current)' = Balance!SumOf(current)
  BY DEF balance
<1>2. Balance!Total' = Balance!Total
  BY DEF balance, Balance!Total
<1>. QED
  BY <1>1, <1>2 DEF balance, BalanceInv, Balance!BalancerTypeOK, ShareInv, PicksInv, ScanInv

LEMMA CollectStays ==
  ASSUME CollectInv, UNCHANGED collect
  PROVE  CollectInv'
<1>1. UNCHANGED req /\ UNCHANGED warns /\ UNCHANGED call /\ UNCHANGED taken /\ UNCHANGED shown
      /\ UNCHANGED service /\ UNCHANGED first /\ UNCHANGED raised
  BY DEF collect
<1>2. Collect!CollectorsTypeOK'
  BY <1>1 DEF CollectInv, Collect!CollectorsTypeOK
<1>3. AskInv'
  <2>1. first' # None => Clean(first')
    BY <1>1 DEF CollectInv, AskInv
  <2>. QED
    BY <1>1, <2>1 DEF CollectInv, AskInv
<1>4. WarnInv'
  BY <1>1 DEF CollectInv, WarnInv
<1>. QED
  BY <1>2, <1>3, <1>4 DEF CollectInv

\* The step of the service that is picked, or none.
LEMMA ServicesKept ==
  ASSUME ServicesInv, [Next]_vars
  PROVE  ServicesInv' /\ (part = "mcp" => Mcp!ToolsKept \/ UNCHANGED mcp)
<1>1. CASE RateStep
  <2>1. part = "rate" /\ part' = part /\ Rate!Next
    BY <1>1 DEF RateStep, RateOnly
  <2>2. RateInv'
    BY <2>1, Assumed, RateKept DEF ServicesInv
  <2>. QED
    BY <2>1, <2>2 DEF ServicesInv
<1>2. CASE QuotaStep
  <2>1. part = "quota" /\ part' = part /\ Quota!Next
    BY <1>2 DEF QuotaStep, QuotaOnly
  <2>2. QuotaInv'
    BY <2>1, Assumed, QuotaKept DEF ServicesInv
  <2>. QED
    BY <2>1, <2>2 DEF ServicesInv
<1>3. CASE AccountsStep
  <2>1. part = "accounts" /\ part' = part /\ Users!Next
    BY <1>3 DEF AccountsStep, AccountsOnly
  <2>2. AccountsInv'
    BY <2>1, Assumed, AccountsKept DEF ServicesInv
  <2>. QED
    BY <2>1, <2>2 DEF ServicesInv
<1>4. CASE McpStep
  <2>1. part = "mcp" /\ part' = part /\ Mcp!Next
    BY <1>4 DEF McpStep, McpOnly
  <2>2. McpInv' /\ Mcp!ToolsKept
    BY <2>1, Assumed, McpKept DEF ServicesInv
  <2>. QED
    BY <2>1, <2>2 DEF ServicesInv
<1>5. CASE TraceStep
  <2>1. part = "trace" /\ part' = part /\ Trace!Next
    BY <1>5 DEF TraceStep, TraceOnly
  <2>2. TraceInv'
    BY <2>1, Assumed, TraceKept DEF ServicesInv
  <2>. QED
    BY <2>1, <2>2 DEF ServicesInv
<1>6. CASE LogStep
  <2>1. part = "log" /\ part' = part /\ Log!Next
    BY <1>6 DEF LogStep, LogOnly
  <2>2. LogInv'
    BY <2>1, Assumed, LogKept DEF ServicesInv
  <2>. QED
    BY <2>1, <2>2 DEF ServicesInv
<1>7. CASE BalanceStep
  <2>1. part = "balance" /\ part' = part /\ Balance!Next
    BY <1>7 DEF BalanceStep, BalanceOnly
  <2>2. BalanceInv'
    BY <2>1, Assumed, BalanceKept DEF ServicesInv
  <2>. QED
    BY <2>1, <2>2 DEF ServicesInv
<1>8. CASE CollectStep
  <2>1. part = "collect" /\ part' = part /\ Collect!Next
    BY <1>8 DEF CollectStep, CollectOnly
  <2>2. CollectInv'
    BY <2>1, Assumed, CollectKept DEF ServicesInv
  <2>. QED
    BY <2>1, <2>2 DEF ServicesInv
<1>9. CASE UNCHANGED vars
  <2>1. /\ part' = part
        /\ UNCHANGED rate /\ UNCHANGED quota /\ UNCHANGED accounts /\ UNCHANGED mcp
        /\ UNCHANGED trace /\ UNCHANGED log /\ UNCHANGED balance /\ UNCHANGED collect
    BY <1>9 DEF vars
  <2>. QED
    BY <2>1, RateStays, QuotaStays, AccountsStays, McpStays, TraceStays, LogStays,
       BalanceStays,
       CollectStays DEF ServicesInv
<1>. QED
  BY <1>1, <1>2, <1>3, <1>4, <1>5, <1>6, <1>7, <1>8, <1>9 DEF Next

\* In every behaviour the service that is picked keeps its invariant.
THEOREM InductiveInvariant == Spec => []ServicesInv
<1>1. Init => ServicesInv
  BY ServicesInit
<1>2. ServicesInv /\ [Next]_vars => ServicesInv'
  BY ServicesKept
<1>. QED
  BY <1>1, <1>2, PTL DEF Spec

\* The variables of every service keep their types.
THEOREM TypesKept == Spec => []TypeOK
<1>1. ServicesInv => TypeOK
  BY DEF ServicesInv, TypeOK, RateInv, QuotaInv, AccountsInv, McpInv, TraceInv, LogInv,
     BalanceInv,
         CollectInv
<1>. QED
  BY <1>1, InductiveInvariant, PTL

\* No bucket lets in more than it was filled with (ratelimit.go); what is counted
\* of a user's day exceeds the quota by no more than the answers that were under
\* way (cost.go, usage.go); an instance gets its share (balancer.go).
THEOREM LimitsAreHeld == Spec => []LimitsHold
<1>1. ServicesInv => LimitsHold
  BY Assumed, RateBound, QuotaBound, BalanceBound DEF ServicesInv, LimitsHold
<1>. QED
  BY <1>1, InductiveInvariant, PTL

\* One account per code that was read once, one mail per cooldown (service/user).
THEOREM AccountsStaySound == Spec => []AccountsSound
<1>1. ServicesInv => AccountsSound
  BY Assumed, AccountsBound DEF ServicesInv, AccountsSound
<1>. QED
  BY <1>1, InductiveInvariant, PTL

\* A turn's steps agree in its snapshot, the metrics and the database (trace), and
\* every line of the log is written, dropped with a count, or on its way (async.go).
THEOREM RecordsStayFaithful == Spec => []RecordsFaithful
<1>1. ServicesInv => RecordsFaithful
  BY Assumed, TraceBound, LogBound DEF ServicesInv, RecordsFaithful
<1>. QED
  BY <1>1, InductiveInvariant, PTL

\* The service takes the question that was set first, cleaned, and the warnings in
\* the order they came (askuser.go, warn.go).
THEOREM TurnIsTold == Spec => []TurnTold
<1>1. ServicesInv => TurnTold
  BY Assumed, CollectBound DEF ServicesInv, TurnTold
<1>. QED
  BY <1>1, InductiveInvariant, PTL

\* A list of MCP tools in use is replaced only by a load that a Reload has asked
\* for, and a Reload returns only after one (mcp_registry.go).
THEOREM ToolsAreKept == Spec => ToolsKept
<1>1. ServicesInv /\ [Next]_vars => [part = "mcp" => Mcp!ToolsKept]_mcp
  BY ServicesKept
<1>. QED
  BY <1>1, InductiveInvariant, PTL DEF Spec, ToolsKept
=============================================================================
