--------------------------- MODULE SlotSemaphore ---------------------------
(***************************************************************************)
(* What an inference pool promises to the calls that go through it: a      *)
(* counting semaphore whose waiters are served by priority class, and in   *)
(* order of arrival within a class.  There is no lock, no queue structure, *)
(* no channel and no timer here: a slot passes from its holder to a waiter *)
(* in one step.  InferencePool implements this specification.              *)
(***************************************************************************)
EXTENDS Integers, FiniteSets

CONSTANTS Callers,     \* the concurrent inference calls
          Slots,       \* how many of them may hold a slot at once
          Places       \* how many may wait

VARIABLES open,        \* FALSE once the pool is closed
          holders,     \* the calls that own a slot
          class,       \* [waiting calls -> priority], 0 the most urgent
          ahead        \* [waiting calls -> the calls of its class before it]

svars == <<open, holders, class, ahead>>

Waiting == DOMAIN class

SInit == /\ open = TRUE
         /\ holders = {}
         /\ class = [c \in {} |-> 0]
         /\ ahead = [c \in {} |-> {}]

\* A free slot is taken at once, but never past somebody who waits.
Enter(c) == /\ open
            /\ c \notin holders \cup Waiting
            /\ Waiting = {}
            /\ Cardinality(holders) < Slots
            /\ holders' = holders \cup {c}
            /\ UNCHANGED <<open, class, ahead>>

\* Every slot is taken: wait behind the calls of the same class.
Join(c, p) == /\ open
              /\ c \notin holders \cup Waiting
              /\ Cardinality(holders) = Slots
              /\ Cardinality(Waiting) < Places
              /\ class' = [w \in Waiting \cup {c} |-> IF w = c THEN p ELSE class[w]]
              /\ ahead' = [w \in Waiting \cup {c} |->
                             IF w = c THEN {v \in Waiting : class[v] = p} ELSE ahead[w]]
              /\ UNCHANGED <<open, holders>>

Forget(w) == /\ class' = [v \in Waiting \ {w} |-> class[v]]
             /\ ahead' = [v \in Waiting \ {w} |-> ahead[v] \ {w}]

\* A waiter that gives up gives up its place too.
Abandon(w) == /\ w \in Waiting
              /\ Forget(w)
              /\ UNCHANGED <<open, holders>>

\* A returned slot goes to the first waiter of the most urgent class.
Grant(c, w) == /\ c \in holders
               /\ w \in Waiting
               /\ ahead[w] = {}
               /\ \A v \in Waiting : class[w] <= class[v]
               /\ holders' = (holders \ {c}) \cup {w}
               /\ Forget(w)
               /\ UNCHANGED open

Leave(c) == /\ c \in holders
            /\ Waiting = {}
            /\ holders' = holders \ {c}
            /\ UNCHANGED <<open, class, ahead>>

\* Closing refuses the waiters and leaves the holders alone.
Shut == /\ open
        /\ open' = FALSE
        /\ class' = [c \in {} |-> 0]
        /\ ahead' = [c \in {} |-> {}]
        /\ UNCHANGED holders

SNext == \/ \E c \in Callers : \/ Enter(c)
                               \/ \E p \in 0..2 : Join(c, p)
                               \/ Abandon(c)
                               \/ \E w \in Callers : Grant(c, w)
                               \/ Leave(c)
         \/ Shut

SSpec == SInit /\ [][SNext]_svars
=============================================================================
