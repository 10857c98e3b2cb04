------------------------------ MODULE RateLimit ------------------------------
(***************************************************************************)
(* middleware/ratelimit.go: the token bucket of one user (RateLimit) or of *)
(* one address (RateLimitByIP).  A request takes a token in Redis, by a    *)
(* script that runs atomically, or in the process if Redis or its breaker  *)
(* does not let it; both judge it by the time it read before.              *)
(***************************************************************************)
EXTENDS Integers

CONSTANTS Requests,
          Capacity, Refill, Cost,  \* a full bucket, refill per tick, what a request takes
          Expiry,                  \* ticks after which Redis forgets a bucket
          MaxClock,                \* bound on the clock
          None

RateAssumption ==
  {Capacity, Refill, Cost} \subseteq Nat \ {0} /\ {Expiry, MaxClock} \subseteq Nat

VARIABLES clock,
          bucket,                  \* [store -> tokens, last_time, and when it was written]
          at, stamp,               \* [request -> where it stands, its nowNano]
          granted, fresh, setBack  \* history: [store -> requests let in, full buckets made,
                                   \*   ticks by which a stamp was behind]

history == <<granted, fresh, setBack>>
rateVars == <<clock, bucket, at, stamp, history>>

Stores == {"redis", "local"}

RateTypeOK ==
  /\ clock \in 0 .. MaxClock
  /\ \A s \in Stores : bucket[s] # None =>
       bucket[s].tokens \in 0 .. Capacity /\ bucket[s].last \in 0 .. clock /\ bucket[s].written \in 0 .. clock
  /\ at \in [Requests -> {"coming", "stamped", "degraded", "admitted", "refused"}]
  /\ stamp \in [Requests -> 0 .. MaxClock]
  /\ granted \in [Stores -> Nat] /\ fresh \in [Stores -> Nat] /\ setBack \in [Stores -> Nat]

Init == /\ clock = 0
        /\ bucket = [s \in Stores |-> None]
        /\ at = [r \in Requests |-> "coming"] /\ stamp = [r \in Requests |-> 0]
        /\ granted = [s \in Stores |-> 0] /\ fresh = granted /\ setBack = granted

Goto(r, place) == at' = [at EXCEPT ![r] = place]

Tick == /\ clock < MaxClock /\ clock' = clock + 1
        /\ UNCHANGED <<bucket, at, stamp, history>>
-----------------------------------------------------------------------------
\* allow reads the clock before it asks anybody.
Arrive(r) == /\ at[r] = "coming"
             /\ stamp' = [stamp EXCEPT ![r] = clock] /\ Goto(r, "stamped")
             /\ UNCHANGED <<clock, bucket, history>>

Least(a, b) == IF a < b THEN a ELSE b

\* A bucket nobody has written, or Redis has forgotten, is full.
Found(s) == /\ bucket[s] # None
            /\ s = "redis" => clock - bucket[s].written < Expiry

Refilled(s, now) ==
  IF ~Found(s) THEN Capacity
  ELSE IF now > bucket[s].last THEN Least(Capacity, bucket[s].tokens + Refill * (now - bucket[s].last))
  ELSE bucket[s].tokens

\* History: a new bucket, and a time that lies before the one it replaces.
Noted(s, now) ==
  /\ fresh' = [fresh EXCEPT ![s] = IF Found(s) THEN @ ELSE @ + 1]
  /\ LET before == IF Found(s) THEN bucket[s].last ELSE clock
     IN setBack' = [setBack EXCEPT ![s] = IF now < before THEN @ + before - now ELSE @]

\* Refill, judge, take and write back; last_time becomes the stamp of the
\* request, though a later request may have come before it.
Take(s, now) ==
  LET tokens == Refilled(s, now) IN
  /\ bucket' = [bucket EXCEPT ![s] =
       [tokens |-> IF tokens >= Cost THEN tokens - Cost ELSE tokens, written |-> clock, last |-> now]]
  /\ Noted(s, now)

Judge(r, s) ==
  /\ Take(s, stamp[r])
  /\ IF Refilled(s, stamp[r]) >= Cost
     THEN granted' = [granted EXCEPT ![s] = @ + 1] /\ Goto(r, "admitted")
     ELSE Goto(r, "refused") /\ UNCHANGED granted

AskRedis(r) == /\ at[r] = "stamped"
               /\ Judge(r, "redis")
               /\ UNCHANGED <<clock, stamp>>

\* The script has run, and its result does not come back in time.
ReplyLost(r) == /\ at[r] = "stamped"
                /\ Take("redis", stamp[r]) /\ Goto(r, "degraded")
                /\ UNCHANGED <<clock, stamp, granted>>

\* Redis does not answer, or its breaker is open.
RedisSilent(r) == /\ at[r] = "stamped"
                  /\ Goto(r, "degraded")
                  /\ UNCHANGED <<clock, bucket, stamp, history>>

AskLocal(r) == /\ at[r] = "degraded"
               /\ Judge(r, "local")
               /\ UNCHANGED <<clock, stamp>>

\* More than 100000 users in the map: all of it goes.
ForgetLocal == /\ bucket["local"] # None
               /\ bucket' = [bucket EXCEPT !["local"] = None]
               /\ UNCHANGED <<clock, at, stamp, history>>
-----------------------------------------------------------------------------
Request(r) == Arrive(r) \/ AskRedis(r) \/ ReplyLost(r) \/ RedisSilent(r) \/ AskLocal(r)

Next == Tick \/ ForgetLocal \/ \E r \in Requests : Request(r)
-----------------------------------------------------------------------------
(***************************************************************************)
(* However requests overlap, a bucket lets in no more than the times it    *)
(* was full allow and the time that has passed refills.  A stamp that is   *)
(* behind the time of the bucket moves it back, and what lies between is   *)
(* refilled a second time: that and a bucket that was lost are all that    *)
(* can be gained; refused requests and lost replies gain nothing           *)
(* (ratelimit.go: a refused request is written back too).                  *)
(***************************************************************************)
RateHolds ==
  \A s \in Stores :
    granted[s] * Cost <= Capacity * fresh[s] + Refill * (IF fresh[s] = 0 THEN 0 ELSE clock + setBack[s])
=============================================================================
