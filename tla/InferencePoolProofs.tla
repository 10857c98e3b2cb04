------------------------ MODULE InferencePoolProofs ------------------------
(***************************************************************************)
(* Proofs about the inference pool, for any set of callers and any         *)
(* configured limit.  InferencePool's invariants are not inductive as they *)
(* stand: what a release or a shutdown does to a caller depends on where   *)
(* else that caller is known.  IInv therefore follows a caller through the *)
(* four places that can know it - the queue, the hand of a releasing       *)
(* caller, the list Close drained, and its own signal - and says that it   *)
(* is known in one of them at most, and only while it is blocked.          *)
(* Accounted adds the other half, that a blocked caller is known somewhere *)
(* and that the counter is the number of callers in the queue; with both   *)
(* the pool implements the semaphore of SlotSemaphore.  The refinement     *)
(* maps Acquire's fast path to Enter, the push to Join, dropWaiter to      *)
(* Abandon, Release to Grant or Leave and Close to Shut; every other step, *)
(* the hand-over of a popped waiter's signal among them, is a stutter.     *)
(***************************************************************************)
EXTENDS InferencePool, FiniteSetTheorems, SequenceTheorems, TLAPS

Target(c) == \E h \in Callers : handTo[h] = c
InWaking(c) == \E i \in 1..Len(waking) : waking[i] = c

\* The counter is the number of entries.
CountInv == n = Len(levels[0]) + Len(levels[1]) + Len(levels[2])

\* No caller is queued twice, or drained twice.
QueueOnce == \A p, q \in Priorities : \A i \in 1..Len(levels[p]), j \in 1..Len(levels[q]) :
               levels[p][i] = levels[q][j] => p = q /\ i = j
WakingOnce == \A i, j \in 1..Len(waking) : waking[i] = waking[j] => i = j

\* A caller is known in one place at most ...
OnePlace == \A c \in Callers :
  /\ InQueue(c) => ~InWaking(c) /\ ready[c] = "empty" /\ ~Target(c)
  /\ InWaking(c) => ready[c] = "empty" /\ ~Target(c)
  /\ ready[c] # "empty" => ~Target(c)

\* ... and only while it is blocked.
KnownBlocked == \A c \in Callers :
  /\ InQueue(c) => pc[c] \in Selecting
  /\ InWaking(c) \/ ready[c] # "empty" \/ Target(c) => pc[c] \in Blocked

\* A caller in pc "handing" has one waiter in hand, and its own.
HandInv == /\ \A c \in Callers : handTo[c] \in Callers <=> pc[c] = "handing"
           /\ \A c, d \in Callers : handTo[c] \in Callers /\ handTo[c] = handTo[d] => c = d

IInv == /\ TypeOK
        /\ CountInv
        /\ WorkConserving
        /\ QueueOnce
        /\ WakingOnce
        /\ OnePlace
        /\ KnownBlocked
        /\ HandInv
        /\ inflight = Cardinality(Holders)
-----------------------------------------------------------------------------
(* The queue *)

\* A pool has at least one slot.
LEMMA SlotsType == Slots \in Nat /\ Slots > 0
  BY PoolAssumption DEF PoolAssumption, Slots

\* What removing one entry of a sequence leaves.
LEMMA RemoveAtFacts ==
  ASSUME NEW S, NEW s \in Seq(S), NEW i \in 1..Len(s)
  PROVE  /\ RemoveAt(s, i) \in Seq(S)
         /\ Len(RemoveAt(s, i)) = Len(s) - 1
         /\ \A j \in 1..(Len(s) - 1) : RemoveAt(s, i)[j] = IF j < i THEN s[j] ELSE s[j + 1]
<1>. DEFINE a == SubSeq(s, 1, i - 1)
            b == SubSeq(s, i + 1, Len(s))
<1>1. /\ a \in Seq(S)
      /\ Len(a) = i - 1
      /\ \A j \in 1..(i - 1) : a[j] = s[j]
  OBVIOUS
<1>2. /\ b \in Seq(S)
      /\ Len(b) = Len(s) - i
      /\ \A j \in 1..(Len(s) - i) : b[j] = s[i + j]
  OBVIOUS
<1>3. RemoveAt(s, i) = a \o b
  BY DEF RemoveAt
<1>. HIDE DEF a, b
<1>. Len(s) \in Nat /\ i \in Int /\ 1 <= i /\ i <= Len(s)
  OBVIOUS
<1>4. /\ a \o b \in Seq(S)
      /\ Len(a \o b) = Len(a) + Len(b)
      /\ \A j \in 1..(Len(a) + Len(b)) :
            (a \o b)[j] = IF j <= Len(a) THEN a[j] ELSE b[j - Len(a)]
  BY <1>1, <1>2, ConcatProperties
<1>6. /\ Len(a \o b) = Len(s) - 1
      /\ \A j \in 1..(Len(s) - 1) :
            (a \o b)[j] = IF j < i THEN a[j] ELSE b[j - (i - 1)]
  BY <1>1, <1>2, <1>4
<1>5. ASSUME NEW j \in 1..(Len(s) - 1)
      PROVE  (a \o b)[j] = IF j < i THEN s[j] ELSE s[j + 1]
  <2>1. CASE j < i
    BY <2>1, <1>1, <1>6
  <2>2. CASE ~(j < i)
    <3>1. j - (i - 1) \in 1..(Len(s) - i) /\ i + (j - (i - 1)) = j + 1
      BY <2>2
    <3>. QED
      BY <2>2, <3>1, <1>2, <1>6
  <2>. QED
    BY <2>1, <2>2
<1>. QED
  BY <1>3, <1>4, <1>5, <1>6

\* Pop and RemoveWaiter both take one entry out of one level.
TakesOut(c) == \E p \in Priorities : \E i \in 1..Len(levels[p]) :
  /\ levels[p][i] = c
  /\ levels' = [levels EXCEPT ![p] = RemoveAt(@, i)]
  /\ n' = n - 1

\* What Pop takes out is the head of one level.
LEMMA PopTakesOut ==
  ASSUME TypeOK, NEW c \in Callers, Pop(c)
  PROVE  TakesOut(c)
<1>1. PICK p \in Priorities : /\ levels[p] # <<>>
                              /\ c = Head(levels[p])
                              /\ levels' = [levels EXCEPT ![p] = Tail(@)]
                              /\ n' = n - 1
  BY DEF Pop
<1>2. levels[p] \in Seq(Callers)
  BY DEF TypeOK
<1>3. 1 \in 1..Len(levels[p]) /\ levels[p][1] = c
  BY <1>1, <1>2
<1>4. RemoveAt(levels[p], 1) = Tail(levels[p])
  BY <1>1, <1>2, <1>3 DEF RemoveAt
<1>. QED
  BY <1>1, <1>3, <1>4 DEF TakesOut

\* Taking a caller out of a queue that has it once leaves the others in.
LEMMA TakesOutFacts ==
  ASSUME TypeOK, CountInv, QueueOnce, NEW c \in Callers, TakesOut(c)
  PROVE  /\ InQueue(c)
         /\ levels' \in [Priorities -> Seq(Callers)]
         /\ n \in Nat /\ n > 0 /\ n' = n - 1
         /\ CountInv'
         /\ QueueOnce'
         /\ \A d \in Callers : InQueue(d)' <=> InQueue(d) /\ d # c
<1>0. PICK p \in Priorities : \E i \in 1..Len(levels[p]) :
             /\ levels[p][i] = c
             /\ levels' = [levels EXCEPT ![p] = RemoveAt(@, i)]
             /\ n' = n - 1
  BY DEF TakesOut
<1>1. PICK i \in 1..Len(levels[p]) :
             /\ levels[p][i] = c
             /\ levels' = [levels EXCEPT ![p] = RemoveAt(@, i)]
             /\ n' = n - 1
  BY <1>0
<1>2. \A q \in Priorities : levels[q] \in Seq(Callers) /\ Len(levels[q]) \in Nat
  BY DEF TypeOK
<1>. DEFINE s == levels[p]
            t == RemoveAt(levels[p], i)
<1>3. /\ t \in Seq(Callers)
      /\ Len(t) = Len(s) - 1
      /\ \A j \in 1..(Len(s) - 1) : t[j] = IF j < i THEN s[j] ELSE s[j + 1]
  BY <1>2, RemoveAtFacts
<1>. HIDE DEF t
<1>4. levels'[p] = t /\ \A q \in Priorities : q # p => levels'[q] = levels[q]
  BY <1>1 DEF TypeOK, t
<1>5. InQueue(c)
  BY <1>1 DEF InQueue
<1>6. levels' \in [Priorities -> Seq(Callers)]
  BY <1>1, <1>3 DEF TypeOK, t
<1>7. n \in Nat /\ n > 0 /\ CountInv'
  <2>1. Len(levels[p]) > 0
    BY <1>2
  <2>2. p = 0 \/ p = 1 \/ p = 2
    BY DEF Priorities
  <2>3. 0 \in Priorities /\ 1 \in Priorities /\ 2 \in Priorities
    BY DEF Priorities
  <2>4. n = Len(levels[0]) + Len(levels[1]) + Len(levels[2])
    BY DEF CountInv
  <2>5. n' = n - 1 /\ Len(levels'[p]) = Len(levels[p]) - 1
    BY <1>1, <1>3, <1>4
  <2>6. Len(levels[0]) \in Nat /\ Len(levels[1]) \in Nat /\ Len(levels[2]) \in Nat
    BY <1>2, <2>3
  <2>7. n' = Len((levels')[0]) + Len((levels')[1]) + Len((levels')[2])
    <3>1. CASE p = 0
      <4>1. (levels')[1] = levels[1] /\ (levels')[2] = levels[2]
        BY <3>1, <1>4, <2>3
      <4>. QED
        BY <3>1, <4>1, <2>4, <2>5, <2>6
    <3>2. CASE p = 1
      <4>1. (levels')[0] = levels[0] /\ (levels')[2] = levels[2]
        BY <3>2, <1>4, <2>3
      <4>. QED
        BY <3>2, <4>1, <2>4, <2>5, <2>6
    <3>3. CASE p = 2
      <4>1. (levels')[0] = levels[0] /\ (levels')[1] = levels[1]
        BY <3>3, <1>4, <2>3
      <4>. QED
        BY <3>3, <4>1, <2>4, <2>5, <2>6
    <3>. QED
      BY <2>2, <3>1, <3>2, <3>3
  <2>8. n \in Nat /\ n > 0
    <3>1. Len(levels[0]) > 0 \/ Len(levels[1]) > 0 \/ Len(levels[2]) > 0
      BY <2>1, <2>2, Zenon
    <3>2. n \in Nat
      BY DEF TypeOK
    <3>. DEFINE x == Len(levels[0])
                y == Len(levels[1])
                z == Len(levels[2])
    <3>3. x \in Nat /\ y \in Nat /\ z \in Nat /\ n = x + y + z /\ (x > 0 \/ y > 0 \/ z > 0)
      BY <3>1, <2>4, <2>6, Zenon
    <3>. HIDE DEF x, y, z
    <3>. QED
      BY <3>2, <3>3
  <2>. QED
    BY <2>7, <2>8 DEF CountInv
<1>. DEFINE From(q, j) == IF q = p /\ j >= i THEN j + 1 ELSE j
\* Where an entry of the new queue stood before ...
<1>8. ASSUME NEW q \in Priorities, NEW j \in 1..Len((levels')[q])
      PROVE  /\ From(q, j) \in 1..Len(levels[q])
             /\ (levels')[q][j] = levels[q][From(q, j)]
             /\ ~(q = p /\ From(q, j) = i)
  <2>1. CASE q # p
    BY <2>1, <1>4
  <2>2. CASE q = p
    <3>1. Len(levels[q]) = Len(s) /\ Len((levels')[q]) = Len(t)
      BY <2>2, <1>4
    <3>2. j \in 1..(Len(s) - 1)
      BY <3>1, <1>3
    <3>3. t[j] = IF j < i THEN s[j] ELSE s[j + 1]
      BY <3>2, <1>3
    <3>4. (levels')[q][j] = t[j] /\ levels[q] = s
      BY <2>2, <1>4
    <3>. HIDE DEF s
    <3>5. Len(s) \in Nat /\ i \in Nat
      BY <1>2 DEF s
    <3>. QED
      BY <2>2, <3>1, <3>2, <3>3, <3>4, <3>5
  <2>. QED
    BY <2>1, <2>2
\* ... and where an old one stands now.
<1>9. ASSUME NEW q \in Priorities, NEW j \in 1..Len(levels[q]), ~(q = p /\ j = i)
      PROVE  \E k \in 1..Len((levels')[q]) : (levels')[q][k] = levels[q][j]
  <2>1. CASE q # p
    BY <2>1, <1>4
  <2>2. CASE q = p
    <3>1. levels[q] = s /\ (levels')[q] = t
      BY <2>2, <1>4
    <3>2. Len(s) \in Nat /\ i \in Nat /\ j \in 1..Len(s) /\ j # i /\ i \in 1..Len(s)
      BY <1>2, <2>2, <1>9
    <3>. HIDE DEF s
    <3>3. CASE j < i
      <4>1. j \in 1..(Len(s) - 1)
        BY <3>2, <3>3
      <4>2. t[j] = s[j] /\ j \in 1..Len(t)
        BY <4>1, <3>3, <1>3
      <4>. QED
        BY <4>2, <3>1
    <3>4. CASE j > i
      <4>1. (j - 1) \in 1..(Len(s) - 1) /\ ~(j - 1 < i) /\ (j - 1) + 1 = j
        BY <3>2, <3>4
      <4>2. t[j - 1] = s[j] /\ (j - 1) \in 1..Len(t)
        BY <4>1, <1>3
      <4>. QED
        BY <4>2, <3>1
    <3>. QED
      BY <3>2, <3>3, <3>4
  <2>. QED
    BY <2>1, <2>2
<1>10. QueueOnce'
  <2>. SUFFICES ASSUME NEW q \in Priorities, NEW r \in Priorities,
                       NEW j \in 1..Len((levels')[q]), NEW k \in 1..Len((levels')[r]),
                       (levels')[q][j] = (levels')[r][k]
                PROVE  q = r /\ j = k
    BY DEF QueueOnce
  <2>1. levels[q][From(q, j)] = levels[r][From(r, k)]
    BY <1>8
  <2>. HIDE DEF From
  <2>2. From(q, j) \in 1..Len(levels[q]) /\ From(r, k) \in 1..Len(levels[r])
    BY <1>8
  <2>3. q = r /\ From(q, j) = From(r, k)
    BY <2>1, <2>2 DEF QueueOnce
  <2>4. j \in Int /\ k \in Int /\ i \in Int
    OBVIOUS
  <2>. QED
    BY <2>3, <2>4 DEF From
<1>11. ASSUME NEW d \in Callers
       PROVE  InQueue(d)' <=> InQueue(d) /\ d # c
  <2>. HIDE DEF From
  <2>1. ASSUME InQueue(d)'
        PROVE  InQueue(d) /\ d # c
    <3>0. PICK q \in Priorities : \E j \in 1..Len((levels')[q]) : (levels')[q][j] = d
      BY <2>1 DEF InQueue
    <3>1. PICK j \in 1..Len((levels')[q]) : (levels')[q][j] = d
      BY <3>0
    <3>2. From(q, j) \in 1..Len(levels[q]) /\ levels[q][From(q, j)] = d
      BY <3>1, <1>8
    <3>3. ~(q = p /\ From(q, j) = i)
      BY <1>8
    <3>4. d # c
      BY <3>2, <3>3, <1>1 DEF QueueOnce
    <3>. QED
      BY <3>2, <3>4 DEF InQueue
  <2>2. ASSUME InQueue(d), d # c
        PROVE  InQueue(d)'
    <3>0. PICK q \in Priorities : \E j \in 1..Len(levels[q]) : levels[q][j] = d
      BY <2>2 DEF InQueue
    <3>1. PICK j \in 1..Len(levels[q]) : levels[q][j] = d
      BY <3>0
    <3>2. ~(q = p /\ j = i)
      BY <3>1, <2>2, <1>1
    <3>3. \E k \in 1..Len((levels')[q]) : (levels')[q][k] = d
      BY <3>1, <3>2, <1>9
    <3>. QED
      BY <3>3 DEF InQueue
  <2>. QED
    BY <2>1, <2>2
<1>. QED
  BY <1>1, <1>5, <1>6, <1>7, <1>10, <1>11

\* A caller that is not in the queue joins the end of a level.
LEMMA PushFacts ==
  ASSUME TypeOK, CountInv, QueueOnce, NEW c \in Callers, NEW p \in Priorities,
         ~InQueue(c), Push(c, p)
  PROVE  /\ levels' \in [Priorities -> Seq(Callers)]
         /\ n' \in Nat /\ n' = n + 1
         /\ CountInv'
         /\ QueueOnce'
         /\ \A d \in Callers : InQueue(d)' <=> InQueue(d) \/ d = c
<1>. DEFINE s == levels[p]
            t == Append(levels[p], c)
<1>1. /\ levels \in [Priorities -> Seq(Callers)]
      /\ levels' = [levels EXCEPT ![p] = t]
      /\ n \in Nat
      /\ n' = n + 1
  BY DEF TypeOK, Push
<1>2. \A q \in Priorities : levels[q] \in Seq(Callers) /\ Len(levels[q]) \in Nat
  BY DEF TypeOK
<1>3. /\ t \in Seq(Callers)
      /\ Len(t) = Len(s) + 1
      /\ t[Len(s) + 1] = c
      /\ \A j \in 1..Len(s) : t[j] = s[j]
  BY <1>2
<1>4. (levels')[p] = t /\ \A q \in Priorities : q # p => (levels')[q] = levels[q]
  BY <1>1
<1>5. levels' \in [Priorities -> Seq(Callers)]
  BY <1>1, <1>3
<1>. HIDE DEF t
<1>6. CountInv'
  <2>1. p = 0 \/ p = 1 \/ p = 2
    BY DEF Priorities
  <2>2. 0 \in Priorities /\ 1 \in Priorities /\ 2 \in Priorities
    BY DEF Priorities
  <2>3. n = Len(levels[0]) + Len(levels[1]) + Len(levels[2])
    BY DEF CountInv
  <2>6. Len(levels[0]) \in Nat /\ Len(levels[1]) \in Nat /\ Len(levels[2]) \in Nat
    BY <1>2, <2>2
  <2>5. n' = n + 1 /\ Len((levels')[p]) = Len(levels[p]) + 1
    BY <1>1, <1>3, <1>4
  <2>. DEFINE Old(q) == Len(levels[q])
              New(q) == Len((levels')[q])
  <2>4. New(0) + New(1) + New(2) = (Old(0) + Old(1) + Old(2)) + 1
    <3>1. \A q \in Priorities : New(q) = IF q = p THEN Old(q) + 1 ELSE Old(q)
      BY <1>4, <2>5
    <3>. HIDE DEF Old, New
    <3>2. Old(0) \in Nat /\ Old(1) \in Nat /\ Old(2) \in Nat
      BY <2>6 DEF Old
    <3>3. /\ New(0) = IF p = 0 THEN Old(0) + 1 ELSE Old(0)
          /\ New(1) = IF p = 1 THEN Old(1) + 1 ELSE Old(1)
          /\ New(2) = IF p = 2 THEN Old(2) + 1 ELSE Old(2)
      BY <3>1, <2>2
    <3>. QED
      BY <2>1, <3>2, <3>3
  <2>. QED
    BY <2>3, <2>4, <2>5 DEF CountInv
\* An entry of the new queue is the new one, or stood there before.
<1>7. ASSUME NEW q \in Priorities, NEW j \in 1..Len((levels')[q])
      PROVE  \/ q = p /\ j = Len(s) + 1 /\ (levels')[q][j] = c
             \/ j \in 1..Len(levels[q]) /\ (levels')[q][j] = levels[q][j]
  <2>1. CASE q # p
    BY <2>1, <1>4
  <2>2. CASE q = p
    BY <2>2, <1>2, <1>3, <1>4
  <2>. QED
    BY <2>1, <2>2
<1>8. QueueOnce'
  <2>. SUFFICES ASSUME NEW q \in Priorities, NEW r \in Priorities,
                       NEW j \in 1..Len((levels')[q]), NEW k \in 1..Len((levels')[r]),
                       (levels')[q][j] = (levels')[r][k]
                PROVE  q = r /\ j = k
    BY DEF QueueOnce
  <2>1. \A x \in Priorities : \A y \in 1..Len(levels[x]) : levels[x][y] # c
    BY DEF InQueue
  <2>2. CASE q = p /\ j = Len(s) + 1 /\ (levels')[q][j] = c
    <3>1. r = p /\ k = Len(s) + 1
      BY <2>1, <2>2, <1>7
    <3>. QED
      BY <2>2, <3>1
  <2>3. CASE j \in 1..Len(levels[q]) /\ (levels')[q][j] = levels[q][j]
    <3>1. k \in 1..Len(levels[r]) /\ (levels')[r][k] = levels[r][k]
      BY <2>1, <2>3, <1>7
    <3>2. levels[q][j] = levels[r][k]
      BY <2>3, <3>1
    <3>3. j \in 1..Len(levels[q]) /\ k \in 1..Len(levels[r])
      BY <2>3, <3>1
    <3>. QED
      BY <3>2, <3>3 DEF QueueOnce
  <2>. QED
    BY <2>2, <2>3, <1>7
<1>9. ASSUME NEW d \in Callers
      PROVE  InQueue(d)' <=> InQueue(d) \/ d = c
  <2>1. ASSUME InQueue(d)'
        PROVE  InQueue(d) \/ d = c
    <3>0. PICK q \in Priorities : \E j \in 1..Len((levels')[q]) : (levels')[q][j] = d
      BY <2>1 DEF InQueue
    <3>1. PICK j \in 1..Len((levels')[q]) : (levels')[q][j] = d
      BY <3>0
    <3>. QED
      BY <3>1, <1>7 DEF InQueue
  <2>2. ASSUME InQueue(d)
        PROVE  InQueue(d)'
    <3>0. PICK q \in Priorities : \E j \in 1..Len(levels[q]) : levels[q][j] = d
      BY <2>2 DEF InQueue
    <3>1. PICK j \in 1..Len(levels[q]) : levels[q][j] = d
      BY <3>0
    <3>2. j \in 1..Len((levels')[q]) /\ (levels')[q][j] = levels[q][j]
      BY <1>2, <1>3, <1>4
    <3>. QED
      BY <3>1, <3>2 DEF InQueue
  <2>3. InQueue(c)'
    <3>1. Len(s) + 1 \in 1..Len((levels')[p]) /\ (levels')[p][Len(s) + 1] = c
      BY <1>2, <1>3, <1>4
    <3>. QED
      BY <3>1 DEF InQueue
  <2>. QED
    BY <2>1, <2>2, <2>3
<1>. QED
  BY <1>1, <1>5, <1>6, <1>8, <1>9

\* Close moves the callers of the queue, each of them once, to waking.
LEMMA CloseFacts ==
  ASSUME TypeOK, QueueOnce, Close
  PROVE  /\ levels' \in [Priorities -> Seq(Callers)]
         /\ waking' \in Seq(Callers)
         /\ CountInv'
         /\ QueueOnce'
         /\ WakingOnce'
         /\ \A d \in Callers : ~InQueue(d)' /\ (InWaking(d)' <=> InQueue(d))
<1>. DEFINE a == levels[0]
            b == levels[1]
            z == levels[2]
<1>1. a \in Seq(Callers) /\ b \in Seq(Callers) /\ z \in Seq(Callers)
  BY DEF TypeOK, Priorities
<1>2. waking' = (a \o b) \o z /\ levels' = [p \in Priorities |-> <<>>] /\ n' = 0
  BY DEF Close
<1>3. 0 \in Priorities /\ 1 \in Priorities /\ 2 \in Priorities
  BY DEF Priorities
<1>4. \A p \in Priorities : (levels')[p] = <<>>
  BY <1>2
<1>5. levels' \in [Priorities -> Seq(Callers)] /\ CountInv' /\ QueueOnce'
  <2>1. levels' \in [Priorities -> Seq(Callers)]
    BY <1>2
  <2>2. CountInv'
    BY <1>2, <1>3, <1>4 DEF CountInv
  <2>3. QueueOnce'
    BY <1>4 DEF QueueOnce
  <2>. QED
    BY <2>1, <2>2, <2>3
<1>6. \A d \in Callers : ~InQueue(d)'
  BY <1>4 DEF InQueue
<1>. DEFINE A == Len(a)
            B == Len(b)
            Z == Len(z)
\* The level and the place in it of each entry of waking.
            Level(i) == IF i <= A THEN 0 ELSE IF i <= A + B THEN 1 ELSE 2
            Place(i) == IF i <= A THEN i ELSE IF i <= A + B THEN i - A ELSE i - (A + B)
<1>7. A \in Nat /\ B \in Nat /\ Z \in Nat
  BY <1>1
<1>8. /\ waking' \in Seq(Callers)
      /\ Len(waking') = A + B + Z
      /\ \A i \in 1..(A + B + Z) :
            (waking')[i] = IF i <= A THEN a[i] ELSE IF i <= A + B THEN b[i - A] ELSE z[i - (A + B)]
  <2>1. /\ a \o b \in Seq(Callers)
        /\ Len(a \o b) = A + B
        /\ \A i \in 1..(A + B) : (a \o b)[i] = IF i <= A THEN a[i] ELSE b[i - A]
    BY <1>1, ConcatProperties
  <2>. DEFINE ab == a \o b
  <2>3. ab \in Seq(Callers) /\ Len(ab) = A + B
    BY <2>1
  <2>2. /\ ab \o z \in Seq(Callers)
        /\ Len(ab \o z) = A + B + Z
        /\ \A i \in 1..(A + B + Z) :
              (ab \o z)[i] = IF i <= A + B THEN ab[i] ELSE z[i - (A + B)]
    <3>. HIDE DEF ab
    <3>1. /\ ab \o z \in Seq(Callers)
          /\ Len(ab \o z) = Len(ab) + Len(z)
          /\ \A i \in 1..(Len(ab) + Len(z)) :
                (ab \o z)[i] = IF i <= Len(ab) THEN ab[i] ELSE z[i - Len(ab)]
      BY <1>1, <2>3, ConcatProperties
    <3>. QED
      BY <3>1, <2>3
  <2>. HIDE DEF a, b, z, A, B, Z
  <2>. QED
    BY <1>2, <1>7, <2>1, <2>2
<1>. HIDE DEF A, B, Z
<1>9. \A i \in 1..Len(waking') : /\ Level(i) \in Priorities
                                 /\ Place(i) \in 1..Len(levels[Level(i)])
                                 /\ (waking')[i] = levels[Level(i)][Place(i)]
  <2>. SUFFICES ASSUME NEW i \in 1..Len(waking')
                PROVE  /\ Level(i) \in Priorities
                       /\ Place(i) \in 1..Len(levels[Level(i)])
                       /\ (waking')[i] = levels[Level(i)][Place(i)]
    OBVIOUS
  <2>1. CASE i <= A
    BY <2>1, <1>3, <1>7, <1>8 DEF A
  <2>2. CASE ~(i <= A) /\ i <= A + B
    <3>1. (waking')[i] = b[i - A] /\ i - A \in 1..B
      BY <2>2, <1>7, <1>8
    <3>2. Level(i) = 1 /\ Place(i) = i - A
      BY <2>2
    <3>. QED
      BY <3>1, <3>2, <1>3 DEF B
  <2>3. CASE ~(i <= A) /\ ~(i <= A + B)
    <3>1. (waking')[i] = z[i - (A + B)] /\ i - (A + B) \in 1..Z
      BY <2>3, <1>7, <1>8
    <3>2. Level(i) = 2 /\ Place(i) = i - (A + B)
      BY <2>3
    <3>. QED
      BY <3>1, <3>2, <1>3 DEF Z
  <2>. QED
    BY <2>1, <2>2, <2>3
<1>10. WakingOnce'
  <2>. SUFFICES ASSUME NEW i \in 1..Len(waking'), NEW j \in 1..Len(waking'),
                       (waking')[i] = (waking')[j]
                PROVE  i = j
    BY DEF WakingOnce
  <2>1. Level(i) = Level(j) /\ Place(i) = Place(j)
    <3>. HIDE DEF Level, Place
    <3>1. /\ Level(i) \in Priorities /\ Place(i) \in 1..Len(levels[Level(i)])
          /\ Level(j) \in Priorities /\ Place(j) \in 1..Len(levels[Level(j)])
          /\ levels[Level(i)][Place(i)] = levels[Level(j)][Place(j)]
      BY <1>9
    <3>. QED
      BY <3>1 DEF QueueOnce
  <2>. QED
    BY <2>1, <1>7
<1>11. ASSUME NEW d \in Callers
       PROVE  InWaking(d)' <=> InQueue(d)
  <2>1. ASSUME InWaking(d)'
        PROVE  InQueue(d)
    <3>1. PICK i \in 1..Len(waking') : (waking')[i] = d
      BY <2>1 DEF InWaking
    <3>. HIDE DEF Level, Place
    <3>. QED
      BY <3>1, <1>9 DEF InQueue
  <2>2. ASSUME InQueue(d)
        PROVE  InWaking(d)'
    <3>1. PICK p \in Priorities : \E j \in 1..Len(levels[p]) : levels[p][j] = d
      BY <2>2 DEF InQueue
    <3>2. PICK j \in 1..Len(levels[p]) : levels[p][j] = d
      BY <3>1
    <3>3. p = 0 \/ p = 1 \/ p = 2
      BY DEF Priorities
    <3>4. CASE p = 0
      <4>1. j \in 1..(A + B + Z) /\ j <= A
        BY <3>4, <1>7 DEF A
      <4>2. (waking')[j] = a[j]
        BY <4>1, <1>8
      <4>. QED
        BY <3>2, <3>4, <4>1, <4>2, <1>8 DEF InWaking
    <3>5. CASE p = 1
      <4>1. j \in 1..B
        BY <3>5 DEF B
      <4>2. A + j \in 1..(A + B + Z) /\ ~(A + j <= A) /\ A + j <= A + B /\ (A + j) - A = j
        BY <4>1, <1>7
      <4>3. (waking')[A + j] = b[j]
        BY <4>2, <1>8
      <4>. QED
        BY <3>2, <3>5, <4>2, <4>3, <1>8 DEF InWaking
    <3>6. CASE p = 2
      <4>1. j \in 1..Z
        BY <3>6 DEF Z
      <4>2. /\ (A + B) + j \in 1..(A + B + Z) /\ ~((A + B) + j <= A)
            /\ ~((A + B) + j <= A + B) /\ ((A + B) + j) - (A + B) = j
        BY <4>1, <1>7
      <4>3. (waking')[(A + B) + j] = z[j]
        BY <4>2, <1>8
      <4>. QED
        BY <3>2, <3>6, <4>2, <4>3, <1>8 DEF InWaking
    <3>. QED
      BY <3>3, <3>4, <3>5, <3>6
  <2>. QED
    BY <2>1, <2>2
<1>. QED
  BY <1>5, <1>6, <1>8, <1>10, <1>11
-----------------------------------------------------------------------------
(* Steps that leave the queue, the drained waiters or the hands alone *)

\* A step that leaves the queue alone leaves its entries distinct.
LEMMA LevelsSame ==
  ASSUME levels' = levels
  PROVE  /\ QueueOnce' <=> QueueOnce
         /\ \A d \in Callers : InQueue(d)' <=> InQueue(d)
  BY DEF QueueOnce, InQueue

\* A step that leaves the queue and its counter alone keeps them equal.
LEMMA CountSame ==
  ASSUME levels' = levels, n' = n
  PROVE  CountInv' <=> CountInv
  BY DEF CountInv

\* A step that leaves the drained waiters alone keeps them distinct.
LEMMA WakingSame ==
  ASSUME waking' = waking
  PROVE  /\ WakingOnce' <=> WakingOnce
         /\ \A d \in Callers : InWaking(d)' <=> InWaking(d)
  BY DEF WakingOnce, InWaking

\* A step that moves no slot from hand to hand leaves the targets as they are.
LEMMA HandSame ==
  ASSUME handTo' = handTo
  PROVE  \A d \in Callers : Target(d)' <=> Target(d)
  BY DEF Target

\* Who holds a slot, with Chosen and Target written out.
LEMMA HoldersAre ==
  /\ Holders = {c \in Callers : pc[c] = "holding" \/ ready[c] = "slot" \/ Target(c)}
  /\ Holders' = {c \in Callers : (pc')[c] = "holding" \/ (ready')[c] = "slot" \/ Target(c)'}
  BY DEF Holders, Chosen, Target

\* There are finitely many holders, so they can be counted.
LEMMA HoldersFinite == IsFiniteSet(Holders)
<1>1. Holders \subseteq Callers
  BY DEF Holders
<1>. QED
  BY <1>1, FS_Subset, PoolAssumption DEF PoolAssumption
-----------------------------------------------------------------------------
(* The inductive invariant *)

\* A new pool satisfies the invariant.
LEMMA InitIInv == Init => IInv
<1>. SUFFICES ASSUME Init
              PROVE  IInv
  OBVIOUS
<1>1. TypeOK
  <2>1. <<>> \in Seq(Callers)
    OBVIOUS
  <2>2. levels \in [Priorities -> Seq(Callers)] /\ waking \in Seq(Callers)
    BY <2>1 DEF Init
  <2>3. inflight \in 0..Slots /\ n \in Nat
    BY SlotsType DEF Init
  <2>5. closed \in BOOLEAN
    BY Zenon DEF Init
  <2>6. drain \in {"pending", "drained", "expired"}
    BY DEF Init
  <2>4. /\ pc \in [Callers -> PCs]
        /\ ready \in [Callers -> {"empty", "slot", "shutdown"}]
        /\ handTo \in [Callers -> Callers \cup {NoCaller}]
    BY DEF Init, PCs
  <2>. QED
    BY <2>2, <2>3, <2>4, <2>5, <2>6 DEF TypeOK
<1>2. \A p \in Priorities : levels[p] = <<>>
  BY DEF Init
<1>3. CountInv /\ QueueOnce /\ \A c \in Callers : ~InQueue(c)
  <2>1. n = 0 /\ levels[0] = <<>> /\ levels[1] = <<>> /\ levels[2] = <<>>
    BY <1>2 DEF Init, Priorities
  <2>. QED
    BY <2>1, <1>2 DEF CountInv, QueueOnce, InQueue
<1>4. WakingOnce /\ \A c \in Callers : ~InWaking(c)
  BY DEF Init, WakingOnce, InWaking
<1>5. \A c \in Callers : ~Target(c)
  BY PoolAssumption DEF Init, Target, PoolAssumption
<1>6. OnePlace /\ KnownBlocked
  BY <1>3, <1>4, <1>5 DEF Init, OnePlace, KnownBlocked
<1>7. HandInv
  BY PoolAssumption DEF Init, HandInv, PoolAssumption
<1>8. WorkConserving
  BY DEF Init, WorkConserving
<1>9. inflight = Cardinality(Holders)
  <2>1. Holders = {}
    BY <1>5, HoldersAre DEF Init
  <2>. QED
    BY <2>1, FS_EmptySet DEF Init
<1>. QED
  BY <1>1, <1>3, <1>4, <1>6, <1>7, <1>8, <1>9 DEF IInv

\* Taking a free slot keeps the invariant.
LEMMA AcquireFastIInv ==
  ASSUME IInv, NEW c \in Callers, AcquireFast(c)
  PROVE  IInv'
<1>. USE DEF IInv
<1>0. /\ pc[c] = "outside" /\ inflight < Slots /\ n = 0
      /\ inflight' = inflight + 1
      /\ pc' = [pc EXCEPT ![c] = "holding"]
      /\ UNCHANGED <<closed, levels, n, ready, handTo, waking, drain>>
  BY DEF AcquireFast
<1>1. TypeOK'
  BY <1>0, SlotsType DEF TypeOK, PCs
<1>2. CountInv' /\ WorkConserving'
  BY <1>0, CountSame DEF WorkConserving
<1>3. QueueOnce' /\ WakingOnce'
  BY <1>0, LevelsSame, WakingSame
<1>4. OnePlace' /\ KnownBlocked'
  BY <1>0, LevelsSame, WakingSame, HandSame
     DEF OnePlace, KnownBlocked, TypeOK, Blocked, Selecting
<1>5. HandInv'
  BY <1>0 DEF HandInv, TypeOK
<1>6. inflight' = Cardinality(Holders')
  <2>1. c \notin Holders
    BY <1>0, HoldersAre DEF KnownBlocked, Blocked, Selecting
  <2>2. Holders' = Holders \cup {c}
    BY <1>0, HoldersAre, HandSame DEF TypeOK
  <2>. QED
    BY <2>1, <2>2, <1>0, HoldersFinite, FS_AddElement
<1>. QED
  BY <1>1, <1>2, <1>3, <1>4, <1>5, <1>6

\* Joining the queue keeps the invariant.
LEMMA EnqueueIInv ==
  ASSUME IInv, NEW c \in Callers, NEW p \in Priorities, Enqueue(c, p)
  PROVE  IInv'
<1>. USE DEF IInv
<1>0. /\ pc[c] = "outside" /\ ~(inflight < Slots /\ n = 0)
      /\ Push(c, p)
      /\ pc' = [pc EXCEPT ![c] = "parked"]
      /\ ready' = [ready EXCEPT ![c] = "empty"]
      /\ UNCHANGED <<closed, inflight, handTo, waking, drain>>
  BY DEF Enqueue
<1>1. ~InQueue(c) /\ ~InWaking(c) /\ ready[c] = "empty" /\ ~Target(c)
  BY <1>0 DEF KnownBlocked, Blocked, Selecting
<1>2. /\ levels' \in [Priorities -> Seq(Callers)]
      /\ n' \in Nat /\ n' = n + 1
      /\ CountInv'
      /\ QueueOnce'
      /\ \A d \in Callers : InQueue(d)' <=> InQueue(d) \/ d = c
  BY <1>0, <1>1, PushFacts
<1>3. ready' = ready
  BY <1>0, <1>1 DEF TypeOK
<1>4. TypeOK'
  BY <1>0, <1>2, <1>3 DEF TypeOK, PCs, Blocked, Selecting
<1>5. WorkConserving'
  BY <1>0, SlotsType DEF WorkConserving, TypeOK
<1>6. WakingOnce'
  BY <1>0, WakingSame
<1>7. OnePlace'
  BY <1>0, <1>1, <1>2, <1>3, WakingSame, HandSame DEF OnePlace
<1>8. KnownBlocked'
  BY <1>0, <1>1, <1>2, <1>3, WakingSame, HandSame
     DEF KnownBlocked, TypeOK, Blocked, Selecting
<1>9. HandInv'
  BY <1>0 DEF HandInv, TypeOK
<1>10. inflight' = Cardinality(Holders')
  <2>1. Holders' = Holders
    BY <1>0, <1>3, HoldersAre, HandSame DEF TypeOK
  <2>. QED
    BY <2>1, <1>0
<1>. QED
  BY <1>2, <1>4, <1>5, <1>6, <1>7, <1>8, <1>9, <1>10

\* Taking a signal out of the ready channel keeps the invariant.
LEMMA TakeSignalIInv ==
  ASSUME IInv, NEW c \in Callers, TakeSignal(c)
  PROVE  IInv'
<1>. USE DEF IInv
<1>0. /\ pc[c] \in {"parked", "claimed"} /\ ready[c] # "empty"
      /\ ready' = [ready EXCEPT ![c] = "empty"]
      /\ pc' = [pc EXCEPT ![c] = IF ready[c] = "slot" THEN "holding" ELSE "outside"]
      /\ UNCHANGED <<closed, inflight, levels, n, handTo, waking, drain>>
  BY DEF TakeSignal
<1>1. ~InQueue(c) /\ ~InWaking(c) /\ ~Target(c)
  BY <1>0 DEF OnePlace
<1>2. TypeOK'
  BY <1>0 DEF TypeOK, PCs
<1>3. CountInv' /\ QueueOnce' /\ WakingOnce'
  BY <1>0, CountSame, LevelsSame, WakingSame
<1>4. WorkConserving'
  BY <1>0 DEF WorkConserving
<1>5. OnePlace'
  BY <1>0, LevelsSame, WakingSame, HandSame DEF OnePlace, TypeOK
<1>6. KnownBlocked'
  BY <1>0, <1>1, LevelsSame, WakingSame, HandSame
     DEF KnownBlocked, TypeOK, Blocked, Selecting
<1>7. HandInv'
  BY <1>0 DEF HandInv, TypeOK
<1>8. inflight' = Cardinality(Holders')
  <2>1. Holders' = Holders
    BY <1>0, <1>1, HoldersAre, HandSame DEF TypeOK
  <2>. QED
    BY <2>1, <1>0
<1>. QED
  BY <1>2, <1>3, <1>4, <1>5, <1>6, <1>7, <1>8

\* GivesUp and DropTooLate only move pc between the states of a blocked call.
LEMMA PcMoveIInv ==
  ASSUME IInv, NEW c \in Callers, NEW to \in Blocked,
         pc[c] \in Blocked, to \in Selecting \/ ~InQueue(c),
         pc' = [pc EXCEPT ![c] = to],
         UNCHANGED <<closed, inflight, levels, n, ready, handTo, waking, drain>>
  PROVE  IInv'
<1>. USE DEF IInv
<1>2. TypeOK'
  BY DEF TypeOK, PCs
<1>3. CountInv' /\ QueueOnce' /\ WakingOnce'
  BY CountSame, LevelsSame, WakingSame
<1>4. WorkConserving'
  BY DEF WorkConserving
<1>5. OnePlace'
  BY LevelsSame, WakingSame, HandSame DEF OnePlace
<1>6. KnownBlocked'
  BY LevelsSame, WakingSame, HandSame DEF KnownBlocked, TypeOK
<1>7. HandInv'
  BY DEF HandInv, TypeOK, Blocked, Selecting
<1>8. inflight' = Cardinality(Holders')
  <2>1. Holders' = Holders
    BY HoldersAre, HandSame DEF TypeOK, Blocked, Selecting
  <2>. QED
    BY <2>1
<1>. QED
  BY <1>2, <1>3, <1>4, <1>5, <1>6, <1>7, <1>8

\* Leaving the queue on a timeout keeps the invariant.
LEMMA DropWaiterIInv ==
  ASSUME IInv, NEW c \in Callers, DropWaiter(c)
  PROVE  IInv'
<1>. USE DEF IInv
<1>0. /\ RemoveWaiter(c)
      /\ pc' = [pc EXCEPT ![c] = "outside"]
      /\ UNCHANGED <<closed, inflight, ready, handTo, waking, drain>>
  BY DEF DropWaiter
<1>1. /\ InQueue(c)
      /\ levels' \in [Priorities -> Seq(Callers)]
      /\ n \in Nat /\ n > 0 /\ n' = n - 1
      /\ CountInv'
      /\ QueueOnce'
      /\ \A d \in Callers : InQueue(d)' <=> InQueue(d) /\ d # c
  <2>1. TakesOut(c)
    BY <1>0 DEF RemoveWaiter, TakesOut
  <2>. QED
    BY <2>1, TakesOutFacts
<1>2. ~InWaking(c) /\ ready[c] = "empty" /\ ~Target(c) /\ pc[c] \in Selecting
  BY <1>1 DEF OnePlace, KnownBlocked
<1>3. TypeOK'
  BY <1>0, <1>1 DEF TypeOK, PCs
<1>4. WorkConserving'
  BY <1>0, <1>1 DEF WorkConserving
<1>5. WakingOnce'
  BY <1>0, WakingSame
<1>6. OnePlace'
  BY <1>0, <1>1, WakingSame, HandSame DEF OnePlace
<1>7. KnownBlocked'
  BY <1>0, <1>1, <1>2, WakingSame, HandSame DEF KnownBlocked, TypeOK
<1>8. HandInv'
  BY <1>0, <1>2 DEF HandInv, TypeOK, Selecting
<1>9. inflight' = Cardinality(Holders')
  <2>1. Holders' = Holders
    BY <1>0, <1>2, HoldersAre, HandSame DEF TypeOK, Selecting
  <2>. QED
    BY <2>1, <1>0
<1>. QED
  BY <1>1, <1>3, <1>4, <1>5, <1>6, <1>7, <1>8, <1>9

\* A release that finds a waiter keeps the invariant: the slot is in its hand.
LEMMA ReleaseToWaiterIInv ==
  ASSUME IInv, NEW c \in Callers, NEW w \in Callers, ReleaseToWaiter(c, w)
  PROVE  IInv'
<1>. USE DEF IInv
<1>0. /\ pc[c] = "holding" /\ Pop(w)
      /\ pc' = [pc EXCEPT ![c] = "handing"]
      /\ handTo' = [handTo EXCEPT ![c] = w]
      /\ UNCHANGED <<closed, inflight, ready, waking, drain>>
  BY DEF ReleaseToWaiter
<1>1. /\ InQueue(w)
      /\ levels' \in [Priorities -> Seq(Callers)]
      /\ n \in Nat /\ n > 0 /\ n' = n - 1
      /\ CountInv'
      /\ QueueOnce'
      /\ \A d \in Callers : InQueue(d)' <=> InQueue(d) /\ d # w
  <2>1. TakesOut(w)
    BY <1>0, PopTakesOut
  <2>. QED
    BY <2>1, TakesOutFacts
<1>2. ~InWaking(w) /\ ready[w] = "empty" /\ ~Target(w) /\ pc[w] \in Selecting /\ w # c
  BY <1>0, <1>1 DEF OnePlace, KnownBlocked, Selecting
<1>3. handTo[c] \notin Callers
  BY <1>0 DEF HandInv
<1>4. \A d \in Callers : Target(d)' <=> Target(d) \/ d = w
  BY <1>0, <1>3 DEF Target, TypeOK
<1>5. TypeOK'
  BY <1>0, <1>1 DEF TypeOK, PCs
<1>6. WorkConserving'
  BY <1>0, <1>1 DEF WorkConserving
<1>7. WakingOnce'
  BY <1>0, WakingSame
<1>8. OnePlace'
  BY <1>0, <1>1, <1>2, <1>4, WakingSame DEF OnePlace
<1>9. KnownBlocked'
  BY <1>0, <1>1, <1>2, <1>4, WakingSame DEF KnownBlocked, TypeOK, Blocked, Selecting
<1>10. HandInv'
  <2>1. \A d \in Callers : (handTo')[d] \in Callers <=> (pc')[d] = "handing"
    BY <1>0, <1>2 DEF HandInv, TypeOK
  <2>2. \A d \in Callers : handTo[d] # w
    BY <1>2 DEF Target
  <2>3. \A d, e \in Callers : (handTo')[d] \in Callers /\ (handTo')[d] = (handTo')[e] => d = e
    BY <1>0, <2>2 DEF HandInv, TypeOK
  <2>. QED
    BY <2>1, <2>3 DEF HandInv
<1>11. inflight' = Cardinality(Holders')
  <2>1. c \in Holders /\ w \notin Holders
    BY <1>0, <1>2, HoldersAre DEF Selecting
  <2>2. ready[c] = "empty" /\ ~Target(c)
    BY <1>0 DEF KnownBlocked, Blocked, Selecting
  <2>3. Holders' = (Holders \ {c}) \cup {w}
    BY <1>0, <1>2, <1>4, <2>2, HoldersAre DEF TypeOK, Selecting
  <2>4. IsFiniteSet(Holders \ {c}) /\ Cardinality(Holders \ {c}) = Cardinality(Holders) - 1
    BY <2>1, HoldersFinite, FS_RemoveElement
  <2>5. Cardinality((Holders \ {c}) \cup {w}) = Cardinality(Holders \ {c}) + 1
    BY <2>1, <2>4, FS_AddElement
  <2>6. Cardinality(Holders) \in Nat
    BY HoldersFinite, FS_CardinalityType
  <2>. QED
    BY <1>0, <2>3, <2>4, <2>5, <2>6
<1>. QED
  BY <1>1, <1>5, <1>6, <1>7, <1>8, <1>9, <1>10, <1>11

\* Sending the slot to the waiter in hand keeps the invariant.
LEMMA HandOverIInv ==
  ASSUME IInv, NEW c \in Callers, HandOver(c)
  PROVE  IInv'
<1>. USE DEF IInv
<1>. DEFINE w == handTo[c]
<1>0. /\ pc[c] = "handing"
      /\ ready' = [ready EXCEPT ![w] = "slot"]
      /\ handTo' = [handTo EXCEPT ![c] = NoCaller]
      /\ pc' = [pc EXCEPT ![c] = "outside"]
      /\ UNCHANGED <<closed, inflight, levels, n, waking, drain>>
  BY DEF HandOver
<1>1. w \in Callers /\ Target(w)
  BY <1>0 DEF HandInv, Target
<1>2. ~InQueue(w) /\ ~InWaking(w) /\ ready[w] = "empty" /\ pc[w] \in Blocked /\ w # c
  BY <1>0, <1>1 DEF OnePlace, KnownBlocked, Blocked, Selecting
<1>. HIDE DEF w
<1>3. \A d \in Callers : Target(d)' <=> Target(d) /\ d # w
  <2>1. NoCaller \notin Callers
    BY PoolAssumption DEF PoolAssumption
  <2>. QED
    BY <1>0, <1>1, <2>1 DEF Target, TypeOK, HandInv, w
<1>4. TypeOK'
  BY <1>0 DEF TypeOK, PCs
<1>5. CountInv' /\ QueueOnce' /\ WakingOnce'
  BY <1>0, CountSame, LevelsSame, WakingSame
<1>6. WorkConserving'
  BY <1>0 DEF WorkConserving
<1>7. OnePlace'
  BY <1>0, <1>1, <1>2, <1>3, LevelsSame, WakingSame DEF OnePlace, TypeOK
<1>8. KnownBlocked'
  BY <1>0, <1>1, <1>2, <1>3, LevelsSame, WakingSame
     DEF KnownBlocked, TypeOK, Blocked, Selecting
<1>9. HandInv'
  <2>1. NoCaller \notin Callers
    BY PoolAssumption DEF PoolAssumption
  <2>. QED
    BY <1>0, <2>1 DEF HandInv, TypeOK
<1>10. inflight' = Cardinality(Holders')
  <2>1. Holders' = Holders
    BY <1>0, <1>1, <1>3, HoldersAre DEF TypeOK
  <2>. QED
    BY <2>1, <1>0
<1>. QED
  BY <1>4, <1>5, <1>6, <1>7, <1>8, <1>9, <1>10

\* A release that finds nobody waiting keeps the invariant.
LEMMA ReleaseIdleIInv ==
  ASSUME IInv, NEW c \in Callers, ReleaseIdle(c)
  PROVE  IInv'
<1>. USE DEF IInv
<1>0. /\ pc[c] = "holding" /\ \A p \in Priorities : levels[p] = <<>>
      /\ inflight' = IF inflight > 0 THEN inflight - 1 ELSE inflight
      /\ pc' = [pc EXCEPT ![c] = "outside"]
      /\ UNCHANGED <<closed, levels, n, ready, handTo, waking, drain>>
  BY DEF ReleaseIdle
<1>1. ~InQueue(c) /\ ~InWaking(c) /\ ready[c] = "empty" /\ ~Target(c)
  BY <1>0 DEF KnownBlocked, Blocked, Selecting
<1>2. n = 0
  <2>1. levels[0] = <<>> /\ levels[1] = <<>> /\ levels[2] = <<>>
    BY <1>0 DEF Priorities
  <2>. QED
    BY <2>1 DEF CountInv
<1>3. TypeOK'
  BY <1>0, SlotsType DEF TypeOK, PCs
<1>4. CountInv' /\ QueueOnce' /\ WakingOnce'
  BY <1>0, CountSame, LevelsSame, WakingSame
<1>5. WorkConserving'
  BY <1>0, <1>2 DEF WorkConserving
<1>6. OnePlace'
  BY <1>0, LevelsSame, WakingSame, HandSame DEF OnePlace
<1>7. KnownBlocked'
  BY <1>0, <1>1, LevelsSame, WakingSame, HandSame DEF KnownBlocked, TypeOK
<1>8. HandInv'
  BY <1>0 DEF HandInv, TypeOK
<1>9. inflight' = Cardinality(Holders')
  <2>1. c \in Holders
    BY <1>0, HoldersAre
  <2>2. Holders' = Holders \ {c}
    BY <1>0, <1>1, HoldersAre, HandSame DEF TypeOK
  <2>3. Cardinality(Holders \ {c}) = Cardinality(Holders) - 1
    BY <2>1, HoldersFinite, FS_RemoveElement
  <2>4. Cardinality(Holders) \in Nat /\ Cardinality(Holders) # 0
    BY <2>1, HoldersFinite, FS_CardinalityType, FS_EmptySet
  <2>. QED
    BY <1>0, <2>2, <2>3, <2>4
<1>. QED
  BY <1>3, <1>4, <1>5, <1>6, <1>7, <1>8, <1>9

\* Closing, which drains the queue, keeps the invariant.
LEMMA CloseIInv ==
  ASSUME IInv, Close
  PROVE  IInv'
<1>. USE DEF IInv
<1>0. /\ closed' = TRUE /\ n' = 0
      /\ UNCHANGED <<inflight, pc, ready, handTo, drain>>
  BY DEF Close
<1>1. /\ levels' \in [Priorities -> Seq(Callers)]
      /\ waking' \in Seq(Callers)
      /\ CountInv' /\ QueueOnce' /\ WakingOnce'
      /\ \A d \in Callers : ~InQueue(d)' /\ (InWaking(d)' <=> InQueue(d))
  BY CloseFacts
<1>2. TypeOK'
  <2>1. closed' \in BOOLEAN
    BY <1>0, Zenon
  <2>. QED
    BY <1>0, <1>1, <2>1 DEF TypeOK
<1>3. WorkConserving'
  BY <1>0 DEF WorkConserving
<1>4. OnePlace'
  BY <1>0, <1>1, HandSame DEF OnePlace
<1>5. KnownBlocked'
  BY <1>0, <1>1, HandSame DEF KnownBlocked, Blocked
<1>6. HandInv'
  BY <1>0 DEF HandInv
<1>7. inflight' = Cardinality(Holders')
  <2>1. Holders' = Holders
    BY <1>0, HoldersAre, HandSame
  <2>. QED
    BY <2>1, <1>0
<1>. QED
  BY <1>1, <1>2, <1>3, <1>4, <1>5, <1>6, <1>7

\* Wake takes the first of the drained waiters off the list.
LEMMA WakeFacts ==
  ASSUME TypeOK, WakingOnce, Wake, NEW w, w = Head(waking)
  PROVE  /\ w \in Callers /\ InWaking(w)
         /\ waking' \in Seq(Callers)
         /\ WakingOnce'
         /\ \A d \in Callers : InWaking(d)' <=> InWaking(d) /\ d # w
<1>1. /\ waking \in Seq(Callers) /\ Len(waking) \in Nat /\ Len(waking) > 0
      /\ w = waking[1] /\ w \in Callers
      /\ waking' \in Seq(Callers)
      /\ Len(waking') = Len(waking) - 1
      /\ \A i \in 1..(Len(waking) - 1) : (waking')[i] = waking[i + 1]
  BY DEF TypeOK, Wake
<1>2. WakingOnce'
  <2>. SUFFICES ASSUME NEW i \in 1..Len(waking'), NEW j \in 1..Len(waking'),
                       (waking')[i] = (waking')[j]
                PROVE  i = j
    BY DEF WakingOnce
  <2>1. i + 1 \in 1..Len(waking) /\ j + 1 \in 1..Len(waking) /\ waking[i + 1] = waking[j + 1]
    BY <1>1
  <2>2. i + 1 = j + 1
    BY <2>1 DEF WakingOnce
  <2>. QED
    BY <2>2
<1>3. ASSUME NEW d \in Callers
      PROVE  InWaking(d)' <=> InWaking(d) /\ d # w
  <2>1. ASSUME InWaking(d)'
        PROVE  InWaking(d) /\ d # w
    <3>1. PICK i \in 1..Len(waking') : (waking')[i] = d
      BY <2>1 DEF InWaking
    <3>2. i + 1 \in 1..Len(waking) /\ waking[i + 1] = d /\ i + 1 # 1 /\ 1 \in 1..Len(waking)
      BY <1>1, <3>1
    <3>. QED
      BY <1>1, <3>2 DEF InWaking, WakingOnce
  <2>2. ASSUME InWaking(d), d # w
        PROVE  InWaking(d)'
    <3>1. PICK i \in 1..Len(waking) : waking[i] = d
      BY <2>2 DEF InWaking
    <3>2. i - 1 \in 1..(Len(waking) - 1) /\ (i - 1) + 1 = i
      BY <1>1, <2>2, <3>1
    <3>3. i - 1 \in 1..Len(waking') /\ (waking')[i - 1] = d
      BY <1>1, <3>1, <3>2
    <3>. QED
      BY <3>3 DEF InWaking
  <2>. QED
    BY <2>1, <2>2
<1>4. InWaking(w)
  BY <1>1 DEF InWaking
<1>. QED
  BY <1>1, <1>2, <1>3, <1>4

\* Telling a drained waiter that the pool is closed keeps the invariant.
LEMMA WakeIInv ==
  ASSUME IInv, Wake
  PROVE  IInv'
<1>. USE DEF IInv
<1>. DEFINE w == Head(waking)
<1>0. /\ waking # <<>> /\ ready[w] = "empty"
      /\ ready' = [ready EXCEPT ![w] = "shutdown"]
      /\ UNCHANGED <<closed, inflight, levels, n, pc, handTo, drain>>
  BY DEF Wake
<1>1. /\ w \in Callers /\ InWaking(w)
      /\ waking' \in Seq(Callers)
      /\ WakingOnce'
      /\ \A d \in Callers : InWaking(d)' <=> InWaking(d) /\ d # w
  BY WakeFacts
<1>. HIDE DEF w
<1>2. ~InQueue(w) /\ ~Target(w) /\ pc[w] \in Blocked
  BY <1>1 DEF OnePlace, KnownBlocked
<1>5. TypeOK'
  BY <1>0, <1>1 DEF TypeOK
<1>6. CountInv' /\ QueueOnce'
  BY <1>0, CountSame, LevelsSame
<1>7. WorkConserving'
  BY <1>0 DEF WorkConserving
<1>8. OnePlace'
  BY <1>0, <1>1, <1>2, LevelsSame, HandSame DEF OnePlace, TypeOK
<1>9. KnownBlocked'
  BY <1>0, <1>1, <1>2, LevelsSame, HandSame DEF KnownBlocked, TypeOK
<1>10. HandInv'
  BY <1>0 DEF HandInv
<1>11. inflight' = Cardinality(Holders')
  <2>1. Holders' = Holders
    BY <1>0, <1>1, HoldersAre, HandSame DEF TypeOK
  <2>. QED
    BY <2>1, <1>0
<1>. QED
  BY <1>1, <1>5, <1>6, <1>7, <1>8, <1>9, <1>10, <1>11

\* Drain writes its verdict only, and AcquireRefused nothing.
LEMMA VerdictIInv ==
  ASSUME IInv, drain' \in {"pending", "drained", "expired"},
         UNCHANGED <<closed, inflight, levels, n, pc, ready, handTo, waking>>
  PROVE  IInv'
<1>1. TypeOK'
  BY DEF IInv, TypeOK
<1>2. CountInv' /\ QueueOnce' /\ WakingOnce' /\ WorkConserving'
  BY CountSame, LevelsSame, WakingSame DEF IInv, WorkConserving
<1>3. OnePlace' /\ KnownBlocked' /\ HandInv'
  BY LevelsSame, WakingSame, HandSame DEF IInv, OnePlace, KnownBlocked, HandInv
<1>4. inflight' = Cardinality(Holders')
  <2>1. Holders' = Holders
    BY HoldersAre, HandSame
  <2>. QED
    BY <2>1 DEF IInv
<1>. QED
  BY <1>1, <1>2, <1>3, <1>4 DEF IInv

\* Every step keeps the invariant.
LEMMA NextIInv ==
  ASSUME IInv, [Next]_vars
  PROVE  IInv'
<1>1. CASE UNCHANGED vars
  BY <1>1, VerdictIInv DEF vars, IInv, TypeOK
<1>2. ASSUME NEW c \in Callers, Step(c)
      PROVE  IInv'
  <2>1. CASE AcquireRefused(c)
    BY <2>1, VerdictIInv DEF AcquireRefused, vars, IInv, TypeOK
  <2>2. CASE AcquireFast(c)
    BY <2>2, AcquireFastIInv
  <2>3. CASE \E p \in Priorities : Enqueue(c, p)
    BY <2>3, EnqueueIInv
  <2>4. CASE TakeSignal(c)
    BY <2>4, TakeSignalIInv
  <2>5. CASE GivesUp(c)
    BY <2>5, PcMoveIInv DEF GivesUp, Blocked, Selecting
  <2>6. CASE DropWaiter(c)
    BY <2>6, DropWaiterIInv
  <2>7. CASE DropTooLate(c)
    BY <2>7, PcMoveIInv DEF DropTooLate, Blocked, Selecting
  <2>8. CASE \E w \in Callers : ReleaseToWaiter(c, w)
    BY <2>8, ReleaseToWaiterIInv
  <2>9. CASE HandOver(c)
    BY <2>9, HandOverIInv
  <2>10. CASE ReleaseIdle(c)
    BY <2>10, ReleaseIdleIInv
  <2>. QED
    BY <1>2, <2>1, <2>2, <2>3, <2>4, <2>5, <2>6, <2>7, <2>8, <2>9, <2>10 DEF Step
<1>3. CASE Close
  BY <1>3, CloseIInv
<1>4. CASE Wake
  BY <1>4, WakeIInv
<1>5. CASE DrainDone \/ DrainExpires
  BY <1>5, VerdictIInv DEF DrainDone, DrainExpires
<1>. QED
  BY <1>1, <1>2, <1>3, <1>4, <1>5 DEF Next
-----------------------------------------------------------------------------
(***************************************************************************)
(* The invariant holds in every reachable state of a pool of any size.     *)
(***************************************************************************)
THEOREM InductiveInvariant == Spec => []IInv
<1>1. IInv /\ [Next]_vars => IInv'
  BY NextIInv
<1>. QED
  BY InitIInv, <1>1, PTL DEF Spec

(***************************************************************************)
(* Type correctness (pool.go, the fields of Pool): in particular inflight  *)
(* stays between zero and the limit, whatever the interleaving.            *)
(***************************************************************************)
THEOREM TypeCorrect == Spec => []TypeOK
<1>1. IInv => TypeOK
  BY DEF IInv
<1>. QED
  BY InductiveInvariant, <1>1, PTL

(***************************************************************************)
(* Slots are neither leaked nor used twice (pool.go, Release, dropWaiter). *)
(***************************************************************************)
THEOREM SlotsAccountedFor == Spec => []SlotAccounting
<1>1. IInv => SlotAccounting
  BY SlotsType DEF IInv, TypeOK, SlotAccounting
<1>. QED
  BY InductiveInvariant, <1>1, PTL

(***************************************************************************)
(* Nobody waits beside a free slot (pool.go, Acquire and Release).         *)
(***************************************************************************)
THEOREM NobodyWaitsInVain == Spec => []WorkConserving
<1>1. IInv => WorkConserving
  BY DEF IInv
<1>. QED
  BY InductiveInvariant, <1>1, PTL
-----------------------------------------------------------------------------
\* A blocked caller is known somewhere.
Known == \A c \in Callers : pc[c] \in Blocked =>
           InQueue(c) \/ InWaking(c) \/ Target(c) \/ ready[c] # "empty"

\* Nobody waits to be told of a shutdown before there is one.
OpenWakesNobody == ~closed => waking = <<>>

Accounted == QueueCountExact /\ Known /\ OpenWakesNobody
-----------------------------------------------------------------------------
(* The counter and the blocked callers *)

LEMMA QueuedFinite == IsFiniteSet(Queued)
<1>1. Queued \subseteq Callers
  BY DEF Queued
<1>. QED
  BY <1>1, FS_Subset, PoolAssumption DEF PoolAssumption

LEMMA InitAccounted == Init => Accounted
<1>. SUFFICES ASSUME Init
              PROVE  Accounted
  OBVIOUS
<1>1. \A p \in Priorities : levels[p] = <<>>
  BY DEF Init
<1>2. Queued = {}
  BY <1>1 DEF Queued, InQueue
<1>3. QueueCountExact
  BY <1>2, FS_EmptySet DEF Init, QueueCountExact
<1>4. Known
  BY DEF Init, Known, Blocked, Selecting
<1>5. OpenWakesNobody
  BY DEF Init, OpenWakesNobody
<1>. QED
  BY <1>3, <1>4, <1>5 DEF Accounted

\* One caller leaves the queue, or one more joins it.
LEMMA QueuedLess ==
  ASSUME QueueCountExact, NEW c \in Callers, InQueue(c), n \in Nat, n' = n - 1,
         \A d \in Callers : InQueue(d)' <=> InQueue(d) /\ d # c
  PROVE  QueueCountExact' /\ Queued' = Queued \ {c}
<1>1. Queued' = Queued \ {c} /\ c \in Queued
  BY DEF Queued
<1>2. Cardinality(Queued \ {c}) = Cardinality(Queued) - 1
  BY <1>1, QueuedFinite, FS_RemoveElement
<1>3. MaxQueueDepth \in Int
  BY PoolAssumption DEF PoolAssumption
<1>. QED
  BY <1>1, <1>2, <1>3 DEF QueueCountExact

LEMMA QueuedMore ==
  ASSUME QueueCountExact, NEW c \in Callers, ~InQueue(c), n \in Nat, n' = n + 1, n < MaxQueueDepth,
         \A d \in Callers : InQueue(d)' <=> InQueue(d) \/ d = c
  PROVE  QueueCountExact' /\ Queued' = Queued \cup {c}
<1>1. Queued' = Queued \cup {c} /\ c \notin Queued
  BY DEF Queued
<1>2. Cardinality(Queued \cup {c}) = Cardinality(Queued) + 1
  BY <1>1, QueuedFinite, FS_AddElement
<1>3. MaxQueueDepth \in Int
  BY PoolAssumption DEF PoolAssumption
<1>. QED
  BY <1>1, <1>2, <1>3 DEF QueueCountExact

LEMMA QueuedSame ==
  ASSUME levels' = levels
  PROVE  Queued' = Queued /\ (QueueCountExact /\ n' = n => QueueCountExact')
<1>1. Queued' = Queued
  BY LevelsSame DEF Queued
<1>. QED
  BY <1>1 DEF QueueCountExact

\* Enqueue happens at a pool whose slots are all taken and whose queue has room.
LEMMA EnqueueRoom ==
  ASSUME IInv, NEW c \in Callers, NEW p \in Priorities, Enqueue(c, p)
  PROVE  n < MaxQueueDepth /\ inflight = Slots /\ ~closed /\ ~InQueue(c) /\ c \notin Holders
<1>1. MaxQueueDepth \in Int /\ Slots \in Nat /\ n \in Nat /\ inflight \in 0..Slots
  BY PoolAssumption, SlotsType DEF PoolAssumption, IInv, TypeOK
<1>2. n < MaxQueueDepth /\ ~closed
  BY <1>1 DEF Enqueue, Refused
<1>3. inflight = Slots
  BY <1>1 DEF Enqueue, IInv, WorkConserving
<1>4. ~InQueue(c) /\ c \notin Holders
  BY HoldersAre DEF Enqueue, IInv, KnownBlocked, Blocked, Selecting
<1>. QED
  BY <1>2, <1>3, <1>4

\* What taking a waiter out of the queue does to the others.
LEMMA RemovalFacts ==
  ASSUME IInv, NEW c \in Callers, Pop(c) \/ RemoveWaiter(c)
  PROVE  /\ TakesOut(c)
         /\ InQueue(c)
         /\ levels' \in [Priorities -> Seq(Callers)]
         /\ n \in Nat /\ n' = n - 1
         /\ QueueOnce'
         /\ \A d \in Callers : InQueue(d)' <=> InQueue(d) /\ d # c
<1>1. TakesOut(c)
  BY PopTakesOut DEF IInv, RemoveWaiter, TakesOut
<1>. QED
  BY <1>1, TakesOutFacts DEF IInv

LEMMA NextAccounted ==
  ASSUME IInv, Accounted, [Next]_vars
  PROVE  Accounted'
<1>. USE DEF Accounted
<1>0. OpenWakesNobody'
  <2>1. ASSUME NEW c \in Callers, Step(c)
        PROVE  UNCHANGED <<closed, waking>>
    BY <2>1 DEF Step, AcquireRefused, vars, AcquireFast, Enqueue, TakeSignal, GivesUp, DropWaiter,
                DropTooLate, ReleaseToWaiter, HandOver, ReleaseIdle
  <2>2. \/ closed'
        \/ closed' = closed /\ (waking = <<>> => waking' = <<>>)
    BY <2>1 DEF vars, Next, Close, Wake, DrainDone, DrainExpires
  <2>. QED
    BY <2>2 DEF OpenWakesNobody
<1>. SUFFICES QueueCountExact' /\ Known'
  BY <1>0
<1>1. CASE UNCHANGED vars
  <2>1. Known'
    BY <1>1, LevelsSame, WakingSame, HandSame DEF vars, Known
  <2>. QED
    BY <1>1, <2>1, QueuedSame DEF vars
<1>2. ASSUME NEW c \in Callers, AcquireRefused(c)
      PROVE  QueueCountExact' /\ Known'
  BY <1>1, <1>2 DEF AcquireRefused
<1>3. ASSUME NEW c \in Callers, AcquireFast(c)
      PROVE  QueueCountExact' /\ Known'
  <2>1. Known'
    BY <1>3, LevelsSame, WakingSame, HandSame
       DEF AcquireFast, Known, IInv, TypeOK, Blocked, Selecting
  <2>. QED
    BY <1>3, <2>1, QueuedSame DEF AcquireFast
<1>4. ASSUME NEW c \in Callers, NEW p \in Priorities, Enqueue(c, p)
      PROVE  QueueCountExact' /\ Known'
  <2>1. n < MaxQueueDepth /\ ~InQueue(c) /\ Push(c, p)
    BY <1>4, EnqueueRoom DEF Enqueue
  <2>2. n' = n + 1 /\ \A d \in Callers : InQueue(d)' <=> InQueue(d) \/ d = c
    BY <2>1, PushFacts DEF IInv
  <2>3. QueueCountExact'
    BY <2>1, <2>2, QueuedMore DEF IInv, TypeOK
  <2>4. Known'
    BY <1>4, <2>2, WakingSame, HandSame DEF Enqueue, Known, IInv, TypeOK
  <2>. QED
    BY <2>3, <2>4
<1>5. ASSUME NEW c \in Callers, TakeSignal(c)
      PROVE  QueueCountExact' /\ Known'
  <2>1. Known'
    BY <1>5, LevelsSame, WakingSame, HandSame
       DEF TakeSignal, Known, IInv, TypeOK, Blocked, Selecting
  <2>. QED
    BY <1>5, <2>1, QueuedSame DEF TakeSignal
<1>6. ASSUME NEW c \in Callers, GivesUp(c) \/ DropTooLate(c)
      PROVE  QueueCountExact' /\ Known'
  <2>1. Known'
    BY <1>6, LevelsSame, WakingSame, HandSame
       DEF GivesUp, DropTooLate, Known, IInv, TypeOK, Blocked, Selecting
  <2>. QED
    BY <1>6, <2>1, QueuedSame DEF GivesUp, DropTooLate
<1>7. ASSUME NEW c \in Callers, DropWaiter(c)
      PROVE  QueueCountExact' /\ Known'
  <2>1. /\ InQueue(c) /\ n \in Nat /\ n' = n - 1
        /\ \A d \in Callers : InQueue(d)' <=> InQueue(d) /\ d # c
    BY <1>7, RemovalFacts DEF DropWaiter
  <2>2. Known'
    BY <1>7, <2>1, WakingSame, HandSame
       DEF DropWaiter, Known, IInv, TypeOK, Blocked, Selecting
  <2>. QED
    BY <2>1, <2>2, QueuedLess
<1>8. ASSUME NEW c \in Callers, NEW w \in Callers, ReleaseToWaiter(c, w)
      PROVE  QueueCountExact' /\ Known'
  <2>1. /\ InQueue(w) /\ n \in Nat /\ n' = n - 1
        /\ \A d \in Callers : InQueue(d)' <=> InQueue(d) /\ d # w
    BY <1>8, RemovalFacts DEF ReleaseToWaiter
  <2>2. handTo[c] \notin Callers
    BY <1>8 DEF ReleaseToWaiter, IInv, HandInv
  <2>3. \A d \in Callers : Target(d) \/ d = w => Target(d)'
    BY <1>8, <2>2 DEF ReleaseToWaiter, Target, IInv, TypeOK
  <2>4. Known'
    BY <1>8, <2>1, <2>3, WakingSame
       DEF ReleaseToWaiter, Known, IInv, TypeOK, Blocked, Selecting
  <2>. QED
    BY <2>1, <2>4, QueuedLess
<1>9. ASSUME NEW c \in Callers, HandOver(c)
      PROVE  QueueCountExact' /\ Known'
  <2>1. handTo[c] \in Callers
    BY <1>9 DEF HandOver, IInv, HandInv
  <2>2. \A d \in Callers : Target(d) => Target(d)' \/ d = handTo[c]
    BY <1>9 DEF HandOver, Target, IInv, TypeOK
  <2>3. Known'
    BY <1>9, <2>1, <2>2, LevelsSame, WakingSame
       DEF HandOver, Known, IInv, TypeOK, Blocked, Selecting
  <2>. QED
    BY <1>9, <2>3, QueuedSame DEF HandOver
<1>10. ASSUME NEW c \in Callers, ReleaseIdle(c)
       PROVE  QueueCountExact' /\ Known'
  <2>1. Known'
    BY <1>10, LevelsSame, WakingSame, HandSame
       DEF ReleaseIdle, Known, IInv, TypeOK, Blocked, Selecting
  <2>. QED
    BY <1>10, <2>1, QueuedSame DEF ReleaseIdle
<1>11. CASE Close
  <2>1. \A d \in Callers : ~InQueue(d)' /\ (InWaking(d)' <=> InQueue(d))
    BY <1>11, CloseFacts DEF IInv
  <2>2. ~closed /\ UNCHANGED <<pc, ready, handTo>> /\ n' = 0
    BY <1>11 DEF Close
  <2>3. Queued' = {}
    BY <2>1 DEF Queued
  <2>4. QueueCountExact'
    BY <2>2, <2>3, FS_EmptySet DEF QueueCountExact
  <2>5. \A d \in Callers : ~InWaking(d)
    BY <2>2 DEF OpenWakesNobody, InWaking
  <2>6. Known'
    BY <2>1, <2>2, <2>5, HandSame DEF Known
  <2>. QED
    BY <2>4, <2>6
<1>12. CASE Wake
  <2>. DEFINE w == Head(waking)
  <2>1. ready[w] = "empty" /\ ready' = [ready EXCEPT ![w] = "shutdown"]
        /\ UNCHANGED <<levels, n, pc, handTo>>
    BY <1>12 DEF Wake
  <2>2. w \in Callers /\ \A d \in Callers : InWaking(d)' <=> InWaking(d) /\ d # w
    BY <1>12, WakeFacts DEF IInv
  <2>. HIDE DEF w
  <2>3. Known'
    BY <2>1, <2>2, LevelsSame, HandSame DEF Known, IInv, TypeOK
  <2>. QED
    BY <2>1, <2>3, QueuedSame
<1>13. CASE DrainDone \/ DrainExpires
  <2>1. Known'
    BY <1>13, LevelsSame, WakingSame, HandSame DEF DrainDone, DrainExpires, Known
  <2>. QED
    BY <1>13, <2>1, QueuedSame DEF DrainDone, DrainExpires
<1>. QED
  BY <1>0, <1>1, <1>2, <1>3, <1>4, <1>5, <1>6, <1>7, <1>8, <1>9, <1>10, <1>11, <1>12, <1>13
     DEF Next, Step
-----------------------------------------------------------------------------
(* No caller is lost *)

(***************************************************************************)
(* The counter, the blocked callers and the drained ones agree in every    *)
(* reachable state.                                                        *)
(***************************************************************************)
THEOREM CallersStayKnown == Spec => [](IInv /\ Accounted)
<1>1. Init => IInv /\ Accounted
  BY InitIInv, InitAccounted
<1>2. IInv /\ Accounted /\ [Next]_vars => (IInv /\ Accounted)'
  BY NextIInv, NextAccounted
<1>. QED
  BY <1>1, <1>2, PTL DEF Spec

\* The fate of a blocked caller, and that it has no other.
LEMMA OneFate ==
  ASSUME IInv, Known, NEW c \in Callers, pc[c] \in Blocked
  PROVE  \/ InQueue(c) /\ ~Chosen(c) /\ ~Doomed(c)
         \/ ~InQueue(c) /\ Chosen(c) /\ ~Doomed(c)
         \/ ~InQueue(c) /\ ~Chosen(c) /\ Doomed(c)
<1>1. /\ Chosen(c) <=> ready[c] = "slot" \/ Target(c)
      /\ Doomed(c) <=> ready[c] = "shutdown" \/ InWaking(c)
  BY DEF Chosen, Doomed, Target, InWaking
<1>2. ready[c] \in {"empty", "slot", "shutdown"}
  BY DEF IInv, TypeOK
<1>3. InQueue(c) \/ InWaking(c) \/ Target(c) \/ ready[c] # "empty"
  BY DEF Known
<1>. QED
  BY <1>1, <1>2, <1>3 DEF IInv, OnePlace

(***************************************************************************)
(* A blocked call has exactly one fate, and the count that admits the next *)
(* one is the number of calls really waiting (pool.go, queue.go).          *)
(***************************************************************************)
THEOREM NobodyIsLost == Spec => []CallersAccounted
<1>1. ASSUME IInv, Accounted
      PROVE  CallersAccounted
  <2>1. ASSUME NEW c \in Callers, pc[c] \in Blocked
        PROVE  Cardinality({f \in {"queued", "chosen", "doomed"} :
                               \/ f = "queued" /\ InQueue(c)
                               \/ f = "chosen" /\ Chosen(c)
                               \/ f = "doomed" /\ Doomed(c)}) = 1
    <3>. DEFINE F == {f \in {"queued", "chosen", "doomed"} :
                        \/ f = "queued" /\ InQueue(c)
                        \/ f = "chosen" /\ Chosen(c)
                        \/ f = "doomed" /\ Doomed(c)}
    <3>1. F = {"queued"} \/ F = {"chosen"} \/ F = {"doomed"}
      BY <1>1, <2>1, OneFate DEF Accounted
    <3>. HIDE DEF F
    <3>2. Cardinality(F) = 1
      BY <3>1, FS_Singleton
    <3>. QED
      BY <3>2 DEF F
  <2>2. \A c \in Callers : pc[c] = "claimed" => ~InQueue(c)
    BY <1>1 DEF IInv, KnownBlocked, Selecting
  <2>3. \A h \in Callers : pc[h] = "handing" => /\ pc[handTo[h]] \in Blocked
                                                /\ ready[handTo[h]] = "empty"
    BY <1>1 DEF IInv, HandInv, OnePlace, KnownBlocked, Target
  <2>4. \A i \in 1..Len(waking) : ready[waking[i]] = "empty"
    <3>1. \A i \in 1..Len(waking) : waking[i] \in Callers
      BY <1>1 DEF IInv, TypeOK
    <3>. QED
      BY <1>1, <3>1 DEF IInv, OnePlace, InWaking
  <2>. QED
    BY <1>1, <2>1, <2>2, <2>3, <2>4 DEF Accounted, CallersAccounted, ExactlyOneFate
<1>. QED
  BY <1>1, CallersStayKnown, PTL
-----------------------------------------------------------------------------
(* Where a caller stands in the queue: constant-level, for a queue L *)

Queues == [Priorities -> Seq(Callers)]

Once(L) == \A p, q \in Priorities : \A i \in 1..Len(L[p]), j \in 1..Len(L[q]) :
             L[p][i] = L[q][j] => p = q /\ i = j

At(L, p, c) == \E i \in 1..Len(L[p]) : L[p][i] = c
Entries(L) == {c \in Callers : \E p \in Priorities : At(L, p, c)}
Precedes(L, d, c) == \E p \in Priorities : \E i, j \in 1..Len(L[p]) :
                       j < i /\ L[p][i] = c /\ L[p][j] = d

\* The choices of LevelOf and Before.
ClassIn(L, c) == CHOOSE p \in Priorities : \E i \in 1..Len(L[p]) : L[p][i] = c
AheadIn(L, c) == LET s == L[ClassIn(L, c)]
                     i == CHOOSE j \in 1..Len(s) : s[j] = c
                 IN  {s[j] : j \in 1..(i - 1)}
ClassOf(L) == [c \in Entries(L) |-> ClassIn(L, c)]
AheadOf(L) == [c \in Entries(L) |-> AheadIn(L, c)]

\* What the two choices choose.
LEMMA Position ==
  ASSUME NEW L \in Queues, Once(L), NEW c \in Callers, NEW p \in Priorities, At(L, p, c)
  PROVE  ClassIn(L, c) = p /\ AheadIn(L, c) = {d \in Callers : Precedes(L, d, c)}
<1>1. PICK i \in 1..Len(L[p]) : L[p][i] = c
  BY DEF At
<1>2. ClassIn(L, c) = p
  <2>1. \A q \in Priorities : (\E j \in 1..Len(L[q]) : L[q][j] = c) => q = p
    BY <1>1 DEF Once
  <2>. QED
    BY <1>1, <2>1 DEF ClassIn
<1>. DEFINE s == L[p]
<1>3. s \in Seq(Callers) /\ Len(s) \in Nat
  BY DEF Queues
<1>4. (CHOOSE j \in 1..Len(s) : s[j] = c) = i
  <2>1. \A j \in 1..Len(s) : s[j] = c => j = i
    BY <1>1 DEF Once
  <2>. QED
    BY <1>1, <2>1
<1>5. AheadIn(L, c) = {s[j] : j \in 1..(i - 1)}
  BY <1>2, <1>4 DEF AheadIn
<1>6. ASSUME NEW d \in Callers, Precedes(L, d, c)
      PROVE  d \in {s[j] : j \in 1..(i - 1)}
  <2>1. PICK q \in Priorities : \E k, j \in 1..Len(L[q]) : j < k /\ L[q][k] = c /\ L[q][j] = d
    BY <1>6 DEF Precedes
  <2>2. PICK k \in 1..Len(L[q]), j \in 1..Len(L[q]) : j < k /\ L[q][k] = c /\ L[q][j] = d
    BY <2>1
  <2>3. q = p /\ k = i
    BY <1>1, <2>2 DEF Once
  <2>4. j \in 1..(i - 1) /\ s[j] = d
    BY <1>3, <2>2, <2>3
  <2>. QED
    BY <2>4
<1>7. ASSUME NEW j \in 1..(i - 1)
      PROVE  s[j] \in Callers /\ Precedes(L, s[j], c)
  <2>1. j \in 1..Len(s) /\ j < i
    BY <1>3
  <2>. QED
    BY <1>1, <1>3, <2>1 DEF Precedes
<1>. QED
  BY <1>2, <1>5, <1>6, <1>7

\* The two functions are determined by At and Precedes.
LEMMA Positions ==
  ASSUME NEW L \in Queues, Once(L)
  PROVE  /\ \A c \in Entries(L) : /\ ClassOf(L)[c] \in Priorities
                                  /\ At(L, ClassOf(L)[c], c)
                                  /\ AheadOf(L)[c] = {d \in Callers : Precedes(L, d, c)}
         /\ \A c \in Entries(L), p \in Priorities : At(L, p, c) => ClassOf(L)[c] = p
<1>1. ASSUME NEW c \in Entries(L), NEW p \in Priorities, At(L, p, c)
      PROVE  ClassOf(L)[c] = p /\ AheadOf(L)[c] = {d \in Callers : Precedes(L, d, c)}
  BY <1>1, Position DEF ClassOf, AheadOf, Entries
<1>2. \A c \in Entries(L) : \E p \in Priorities : At(L, p, c)
  BY DEF Entries
<1>. QED
  BY <1>1, <1>2
-----------------------------------------------------------------------------
(* The queue with a caller more, or one less *)

\* M is L with c at the end of level p.
Joined(L, p, c, M) == M = [L EXCEPT ![p] = Append(@, c)]

\* A caller that joins a level stands behind all of that level.
LEMMA JoinPlaces ==
  ASSUME NEW L \in Queues, NEW c \in Callers, c \notin Entries(L), NEW p \in Priorities,
         NEW M, Joined(L, p, c, M)
  PROVE  /\ \A q \in Priorities, d \in Callers : At(M, q, d) <=> At(L, q, d) \/ (q = p /\ d = c)
         /\ \A d, e \in Callers :
               Precedes(M, d, e) <=> Precedes(L, d, e) \/ (e = c /\ At(L, p, d))
<1>1. \A q \in Priorities : L[q] \in Seq(Callers) /\ Len(L[q]) \in Nat
  BY DEF Queues
<1>2. /\ Len(M[p]) = Len(L[p]) + 1
      /\ M[p][Len(L[p]) + 1] = c
      /\ \A j \in 1..Len(L[p]) : M[p][j] = L[p][j]
      /\ \A q \in Priorities : q # p => M[q] = L[q]
  <2>1. M[p] = Append(L[p], c) /\ \A q \in Priorities : q # p => M[q] = L[q]
    BY DEF Queues, Joined
  <2>2. /\ Len(Append(L[p], c)) = Len(L[p]) + 1
        /\ Append(L[p], c)[Len(L[p]) + 1] = c
        /\ \A j \in 1..Len(L[p]) : Append(L[p], c)[j] = L[p][j]
    BY <1>1
  <2>. QED
    BY <2>1, <2>2
<1>3. ASSUME NEW q \in Priorities
      PROVE  /\ \A j \in 1..Len(L[q]) : j \in 1..Len(M[q]) /\ M[q][j] = L[q][j]
             /\ \A j \in 1..Len(M[q]) :
                   \/ j \in 1..Len(L[q]) /\ M[q][j] = L[q][j]
                   \/ q = p /\ j = Len(L[q]) + 1 /\ M[q][j] = c
  <2>1. CASE q = p
    BY <2>1, <1>1, <1>2
  <2>2. CASE q # p
    BY <2>2, <1>2
  <2>. QED
    BY <2>1, <2>2
<1>4. Len(L[p]) + 1 \in 1..Len(M[p])
  BY <1>1, <1>2
<1>5. \A q \in Priorities : ~At(L, q, c)
  BY DEF Entries
<1>6. \A q \in Priorities, d \in Callers : At(M, q, d) <=> At(L, q, d) \/ (q = p /\ d = c)
  BY <1>2, <1>3, <1>4 DEF At
<1>7. ASSUME NEW d \in Callers, NEW e \in Callers
      PROVE  Precedes(M, d, e) <=> Precedes(L, d, e) \/ (e = c /\ At(L, p, d))
  <2>1. ASSUME Precedes(M, d, e)
        PROVE  Precedes(L, d, e) \/ (e = c /\ At(L, p, d))
    <3>1. PICK q \in Priorities : \E i, j \in 1..Len(M[q]) : j < i /\ M[q][i] = e /\ M[q][j] = d
      BY <2>1 DEF Precedes
    <3>2. PICK i \in 1..Len(M[q]), j \in 1..Len(M[q]) : j < i /\ M[q][i] = e /\ M[q][j] = d
      BY <3>1
    <3>3. j \in 1..Len(L[q]) /\ L[q][j] = d
      <4>1. j # Len(L[q]) + 1 \/ q # p
        BY <3>2, <1>1, <1>3
      <4>. QED
        BY <3>2, <4>1, <1>3
    <3>4. CASE i \in 1..Len(L[q]) /\ M[q][i] = L[q][i]
      BY <3>2, <3>3, <3>4 DEF Precedes
    <3>5. CASE q = p /\ i = Len(L[q]) + 1 /\ M[q][i] = c
      BY <3>2, <3>3, <3>5 DEF At
    <3>. QED
      BY <3>4, <3>5, <1>3
  <2>2. ASSUME Precedes(L, d, e)
        PROVE  Precedes(M, d, e)
    BY <2>2, <1>3 DEF Precedes
  <2>3. ASSUME e = c, At(L, p, d)
        PROVE  Precedes(M, d, e)
    <3>1. PICK j \in 1..Len(L[p]) : L[p][j] = d
      BY <2>3 DEF At
    <3>2. j < Len(L[p]) + 1 /\ j \in 1..Len(M[p]) /\ M[p][j] = d
      BY <3>1, <1>1, <1>3
    <3>. QED
      BY <2>3, <3>2, <1>2, <1>4 DEF Precedes
  <2>. QED
    BY <2>1, <2>2, <2>3
<1>. QED
  BY <1>6, <1>7

\* M is L without the entry at i of level p.
Without(L, p, i, M) == M = [L EXCEPT ![p] = RemoveAt(@, i)]

\* The place in L of an entry of L without the entry at i of level p, and back.
From(p, i, q, j) == IF q = p /\ j >= i THEN j + 1 ELSE j
To(p, i, q, j) == IF q = p /\ j > i THEN j - 1 ELSE j

LEMMA RemovalPlaces ==
  ASSUME NEW L \in Queues, NEW p \in Priorities, NEW i \in 1..Len(L[p]),
         NEW M, Without(L, p, i, M), NEW q \in Priorities
  PROVE  /\ \A j \in 1..Len(M[q]) :
               /\ From(p, i, q, j) \in 1..Len(L[q])
               /\ M[q][j] = L[q][From(p, i, q, j)]
               /\ ~(q = p /\ From(p, i, q, j) = i)
         /\ \A j \in 1..Len(L[q]) : ~(q = p /\ j = i) =>
               /\ To(p, i, q, j) \in 1..Len(M[q])
               /\ M[q][To(p, i, q, j)] = L[q][j]
<1>1. L[q] \in Seq(Callers) /\ Len(L[q]) \in Nat
  BY DEF Queues
<1>2. CASE q # p
  <2>1. M[q] = L[q]
    BY <1>2 DEF Queues, Without
  <2>2. \A j : From(p, i, q, j) = j /\ To(p, i, q, j) = j
    BY <1>2 DEF From, To
  <2>. QED
    BY <1>2, <2>1, <2>2
<1>3. CASE q = p
  <2>1. M[q] = RemoveAt(L[q], i)
    BY <1>3 DEF Queues, Without
  <2>2. /\ Len(M[q]) = Len(L[q]) - 1
        /\ \A j \in 1..(Len(L[q]) - 1) : M[q][j] = IF j < i THEN L[q][j] ELSE L[q][j + 1]
    <3>1. L[q] \in Seq(Callers) /\ i \in 1..Len(L[q])
      BY <1>1, <1>3
    <3>. DEFINE s == L[q]
    <3>2. /\ Len(RemoveAt(s, i)) = Len(s) - 1
          /\ \A j \in 1..(Len(s) - 1) : RemoveAt(s, i)[j] = IF j < i THEN s[j] ELSE s[j + 1]
      <4>. HIDE DEF s
      <4>1. s \in Seq(Callers) /\ i \in 1..Len(s)
        BY <3>1 DEF s
      <4>. QED
        BY <4>1, RemoveAtFacts
    <3>. QED
      BY <2>1, <3>2
  <2>3. i \in Nat /\ i \in 1..Len(L[q])
    BY <1>3
  <2>4. ASSUME NEW j \in 1..Len(M[q])
        PROVE  /\ From(p, i, q, j) \in 1..Len(L[q])
               /\ M[q][j] = L[q][From(p, i, q, j)]
               /\ From(p, i, q, j) # i
    BY <1>1, <1>3, <2>2, <2>3 DEF From
  <2>5. ASSUME NEW j \in 1..Len(L[q]), j # i
        PROVE  /\ To(p, i, q, j) \in 1..Len(M[q])
               /\ M[q][To(p, i, q, j)] = L[q][j]
    <3>1. CASE j < i
      BY <3>1, <1>1, <2>2, <2>3 DEF To
    <3>2. CASE j > i
      <4>1. To(p, i, q, j) = j - 1 /\ j - 1 \in 1..(Len(L[q]) - 1) /\ ~(j - 1 < i) /\ (j - 1) + 1 = j
        BY <3>2, <1>1, <1>3, <2>3 DEF To
      <4>. QED
        BY <4>1, <2>2
    <3>. QED
      BY <3>1, <3>2, <2>3, <2>5
  <2>. QED
    BY <1>3, <2>4, <2>5
<1>. QED
  BY <1>2, <1>3

\* A caller that leaves the queue leaves the order of the others as it was.
LEMMA ForgetPlaces ==
  ASSUME NEW L \in Queues, Once(L), NEW p \in Priorities, NEW i \in 1..Len(L[p]),
         NEW M, Without(L, p, i, M), NEW c, c = L[p][i]
  PROVE  /\ \A q \in Priorities, d \in Callers : At(M, q, d) <=> At(L, q, d) /\ d # c
         /\ \A d, e \in Callers : Precedes(M, d, e) <=> Precedes(L, d, e) /\ d # c /\ e # c
<1>1. \A q \in Priorities : \A j \in 1..Len(M[q]) :
         /\ From(p, i, q, j) \in 1..Len(L[q])
         /\ M[q][j] = L[q][From(p, i, q, j)]
         /\ ~(q = p /\ From(p, i, q, j) = i)
  BY RemovalPlaces
<1>2. \A q \in Priorities : \A j \in 1..Len(L[q]) : ~(q = p /\ j = i) =>
         /\ To(p, i, q, j) \in 1..Len(M[q])
         /\ M[q][To(p, i, q, j)] = L[q][j]
  BY RemovalPlaces
<1>3. \A q \in Priorities : \A j \in 1..Len(L[q]) : L[q][j] = c <=> q = p /\ j = i
  BY DEF Once
<1>4. \A q \in Priorities : \A j \in 1..Len(M[q]) : M[q][j] # c
  <2>1. ASSUME NEW q \in Priorities, NEW j \in 1..Len(M[q])
        PROVE  M[q][j] # c
    <3>1. From(p, i, q, j) \in 1..Len(L[q]) /\ M[q][j] = L[q][From(p, i, q, j)]
      BY <1>1
    <3>2. ~(q = p /\ From(p, i, q, j) = i)
      BY <1>1
    <3>. QED
      BY <3>1, <3>2, <1>3
  <2>. QED
    BY <2>1
<1>5. \A q \in Priorities, d \in Callers : At(M, q, d) <=> At(L, q, d) /\ d # c
  <2>1. ASSUME NEW q \in Priorities, NEW d \in Callers, At(M, q, d)
        PROVE  At(L, q, d) /\ d # c
    BY <2>1, <1>1, <1>4 DEF At
  <2>2. ASSUME NEW q \in Priorities, NEW d \in Callers, At(L, q, d), d # c
        PROVE  At(M, q, d)
    BY <2>2, <1>2, <1>3 DEF At
  <2>. QED
    BY <2>1, <2>2
<1>6. ASSUME NEW d \in Callers, NEW e \in Callers, Precedes(M, d, e)
      PROVE  Precedes(L, d, e) /\ d # c /\ e # c
  <2>1. PICK q \in Priorities : \E k, j \in 1..Len(M[q]) : j < k /\ M[q][k] = e /\ M[q][j] = d
    BY <1>6 DEF Precedes
  <2>2. PICK k \in 1..Len(M[q]), j \in 1..Len(M[q]) : j < k /\ M[q][k] = e /\ M[q][j] = d
    BY <2>1
  <2>3. From(p, i, q, j) < From(p, i, q, k)
    BY <2>2 DEF From
  <2>. QED
    BY <2>2, <2>3, <1>1, <1>4 DEF Precedes
<1>7. ASSUME NEW d \in Callers, NEW e \in Callers, Precedes(L, d, e), d # c, e # c
      PROVE  Precedes(M, d, e)
  <2>1. PICK q \in Priorities : \E k, j \in 1..Len(L[q]) : j < k /\ L[q][k] = e /\ L[q][j] = d
    BY <1>7 DEF Precedes
  <2>2. PICK k \in 1..Len(L[q]), j \in 1..Len(L[q]) : j < k /\ L[q][k] = e /\ L[q][j] = d
    BY <2>1
  <2>3. ~(q = p /\ j = i) /\ ~(q = p /\ k = i)
    BY <1>3, <1>7, <2>2
  <2>4. To(p, i, q, j) < To(p, i, q, k)
    BY <2>2, <2>3 DEF To
  <2>. QED
    BY <2>2, <2>3, <2>4, <1>2 DEF Precedes
<1>. QED
  BY <1>5, <1>6, <1>7

\* c is the head of the first level that has one.
First(L, c) == \E p \in Priorities : /\ L[p] # <<>>
                                     /\ \A q \in Priorities : q < p => L[q] = <<>>
                                     /\ c = Head(L[p])

\* The first caller stands behind nobody.
LEMMA HeadFirst ==
  ASSUME NEW L \in Queues, Once(L), NEW c \in Callers, First(L, c)
  PROVE  /\ c \in Entries(L) /\ AheadOf(L)[c] = {}
         /\ \A d \in Entries(L) : ClassOf(L)[c] <= ClassOf(L)[d]
<1>0. PICK p \in Priorities : /\ L[p] # <<>>
                              /\ \A q \in Priorities : q < p => L[q] = <<>>
                              /\ c = Head(L[p])
  BY DEF First
<1>1. Len(L[p]) \in Nat /\ 1 \in 1..Len(L[p]) /\ c = L[p][1]
  <2>1. L[p] \in Seq(Callers)
    BY DEF Queues
  <2>. QED
    BY <1>0, <2>1
<1>2. At(L, p, c)
  BY <1>1 DEF At
<1>3. c \in Entries(L)
  BY <1>1, <1>2 DEF Entries
<1>4. \A d \in Callers : ~Precedes(L, d, c)
  <2>1. \A q \in Priorities : \A k \in 1..Len(L[q]) : L[q][k] = c => k = 1
    BY <1>1 DEF Once
  <2>2. \A q \in Priorities : \A j \in 1..Len(L[q]) : ~(j < 1)
    OBVIOUS
  <2>. QED
    BY <2>1, <2>2 DEF Precedes
<1>5. AheadOf(L)[c] = {} /\ ClassOf(L)[c] = p
  BY <1>2, <1>3, <1>4, Positions
<1>6. ASSUME NEW d \in Entries(L)
      PROVE  p <= ClassOf(L)[d]
  <2>1. ClassOf(L)[d] \in Priorities /\ At(L, ClassOf(L)[d], d)
    BY Positions
  <2>2. L[ClassOf(L)[d]] # <<>>
    BY <2>1 DEF At
  <2>3. p \in Int /\ ClassOf(L)[d] \in Int
    BY <2>1 DEF Priorities
  <2>. QED
    BY <2>1, <2>2, <2>3, <1>0
<1>. QED
  BY <1>3, <1>5, <1>6

\* So the two functions gain one argument ...
LEMMA JoinMaps ==
  ASSUME NEW L \in Queues, Once(L), NEW c \in Callers, c \notin Entries(L), NEW p \in Priorities,
         NEW M \in Queues, Once(M), Joined(L, p, c, M)
  PROVE  /\ ClassOf(M) = [w \in Entries(L) \cup {c} |-> IF w = c THEN p ELSE ClassOf(L)[w]]
         /\ AheadOf(M) = [w \in Entries(L) \cup {c} |->
                           IF w = c THEN {v \in Entries(L) : ClassOf(L)[v] = p} ELSE AheadOf(L)[w]]
<1>1. /\ \A q \in Priorities, d \in Callers : At(M, q, d) <=> At(L, q, d) \/ (q = p /\ d = c)
      /\ \A d, e \in Callers :
            Precedes(M, d, e) <=> Precedes(L, d, e) \/ (e = c /\ At(L, p, d))
  BY JoinPlaces
<1>2. Entries(M) = Entries(L) \cup {c}
  BY <1>1 DEF Entries
<1>3. ClassOf(M)[c] = p /\ \A w \in Entries(L) : ClassOf(M)[w] = ClassOf(L)[w]
  <2>1. At(M, p, c)
    BY <1>1
  <2>2. ASSUME NEW w \in Entries(L)
        PROVE  ClassOf(M)[w] = ClassOf(L)[w]
    <3>1. ClassOf(L)[w] \in Priorities /\ At(L, ClassOf(L)[w], w) /\ w \in Callers
      BY Positions DEF Entries
    <3>2. At(M, ClassOf(L)[w], w) /\ w \in Entries(M)
      BY <3>1, <1>1, <1>2
    <3>. QED
      BY <3>1, <3>2, Positions
  <2>. QED
    BY <1>2, <2>1, <2>2, Positions
<1>4. AheadOf(M)[c] = {v \in Entries(L) : ClassOf(L)[v] = p}
  <2>1. AheadOf(M)[c] = {d \in Callers : Precedes(M, d, c)}
    BY <1>2, Positions
  <2>2. \A d \in Callers : ~Precedes(L, d, c)
    BY DEF Precedes, Entries, At
  <2>3. \A d \in Callers : At(L, p, d) <=> d \in Entries(L) /\ ClassOf(L)[d] = p
    BY Positions DEF Entries
  <2>4. \A d \in Callers : Precedes(M, d, c) <=> d \in Entries(L) /\ ClassOf(L)[d] = p
    BY <1>1, <2>2, <2>3
  <2>5. Entries(L) \subseteq Callers
    BY DEF Entries
  <2>. QED
    BY <2>1, <2>4, <2>5
<1>5. ASSUME NEW w \in Entries(L)
      PROVE  AheadOf(M)[w] = AheadOf(L)[w]
  <2>1. w # c /\ w \in Callers /\ w \in Entries(M)
    BY <1>2 DEF Entries
  <2>2. /\ AheadOf(M)[w] = {d \in Callers : Precedes(M, d, w)}
        /\ AheadOf(L)[w] = {d \in Callers : Precedes(L, d, w)}
    BY <2>1, Positions
  <2>3. \A d \in Callers : Precedes(M, d, w) <=> Precedes(L, d, w)
    BY <1>1, <2>1
  <2>. QED
    BY <2>2, <2>3
<1>6. DOMAIN ClassOf(M) = Entries(M) /\ DOMAIN AheadOf(M) = Entries(M)
  BY DEF ClassOf, AheadOf
<1>7. ClassOf(M) = [w \in Entries(M) |-> ClassOf(M)[w]] /\ AheadOf(M) = [w \in Entries(M) |-> AheadOf(M)[w]]
  BY DEF ClassOf, AheadOf
<1>8. \A w \in Entries(M) : w \in Entries(L) \/ w = c
  BY <1>2
<1>. QED
  BY <1>2, <1>3, <1>4, <1>5, <1>7

\* M is L without one entry of c, wherever it stood.
TakenOut(L, c, M) == \E p \in Priorities : \E i \in 1..Len(L[p]) :
                       L[p][i] = c /\ Without(L, p, i, M)

\* ... or lose one.
LEMMA ForgetMaps ==
  ASSUME NEW L \in Queues, Once(L), NEW c \in Callers,
         NEW M \in Queues, Once(M), TakenOut(L, c, M)
  PROVE  /\ ClassOf(M) = [v \in Entries(L) \ {c} |-> ClassOf(L)[v]]
         /\ AheadOf(M) = [v \in Entries(L) \ {c} |-> AheadOf(L)[v] \ {c}]
<1>1. /\ \A q \in Priorities, d \in Callers : At(M, q, d) <=> At(L, q, d) /\ d # c
      /\ \A d, e \in Callers : Precedes(M, d, e) <=> Precedes(L, d, e) /\ d # c /\ e # c
  <2>1. PICK p \in Priorities : \E i \in 1..Len(L[p]) : L[p][i] = c /\ Without(L, p, i, M)
    BY DEF TakenOut
  <2>2. PICK i \in 1..Len(L[p]) : c = L[p][i] /\ Without(L, p, i, M)
    BY <2>1
  <2>. QED
    BY <2>2, ForgetPlaces
<1>2. Entries(M) = Entries(L) \ {c}
  BY <1>1 DEF Entries
<1>3. ASSUME NEW w \in Entries(M)
      PROVE  ClassOf(M)[w] = ClassOf(L)[w] /\ AheadOf(M)[w] = AheadOf(L)[w] \ {c}
  <2>1. w \in Entries(L) /\ w \in Callers /\ w # c
    BY <1>2 DEF Entries
  <2>2. ClassOf(L)[w] \in Priorities /\ At(L, ClassOf(L)[w], w)
    BY <2>1, Positions
  <2>3. At(M, ClassOf(L)[w], w)
    BY <2>1, <2>2, <1>1
  <2>4. ClassOf(M)[w] = ClassOf(L)[w]
    BY <2>2, <2>3, Positions
  <2>5. /\ AheadOf(M)[w] = {d \in Callers : Precedes(M, d, w)}
        /\ AheadOf(L)[w] = {d \in Callers : Precedes(L, d, w)}
    BY <2>1, Positions
  <2>6. \A d \in Callers : Precedes(M, d, w) <=> Precedes(L, d, w) /\ d # c
    BY <1>1, <2>1
  <2>. QED
    BY <2>4, <2>5, <2>6
<1>4. ClassOf(M) = [w \in Entries(M) |-> ClassOf(M)[w]] /\ AheadOf(M) = [w \in Entries(M) |-> AheadOf(M)[w]]
  BY DEF ClassOf, AheadOf
<1>. QED
  BY <1>2, <1>3, <1>4
-----------------------------------------------------------------------------
(* The refinement *)

\* The refinement mapping in terms of the queue, before and after a step.
LEMMA Mapping ==
  /\ [c \in Queued |-> LevelOf(c)] = ClassOf(levels)
  /\ [c \in Queued |-> Before(c)] = AheadOf(levels)
  /\ Queued = Entries(levels)
  /\ QueueOnce <=> Once(levels)
<1>1. Queued = Entries(levels)
  BY DEF Queued, InQueue, Entries, At
<1>2. \A c : LevelOf(c) = ClassIn(levels, c)
  BY DEF LevelOf, ClassIn
<1>3. \A c : Before(c) = AheadIn(levels, c)
  BY <1>2 DEF Before, AheadIn
<1>4. QueueOnce <=> Once(levels)
  BY DEF QueueOnce, Once
<1>. QED
  BY <1>1, <1>2, <1>3, <1>4 DEF ClassOf, AheadOf

LEMMA MappingNext ==
  /\ [c \in Queued |-> LevelOf(c)]' = ClassOf(levels')
  /\ [c \in Queued |-> Before(c)]' = AheadOf(levels')
  /\ Queued' = Entries(levels')
  /\ QueueOnce' <=> Once(levels')
<1>1. Queued' = Entries(levels')
  BY DEF Queued, InQueue, Entries, At
<1>2. \A c : LevelOf(c)' = ClassIn(levels', c)
  BY DEF LevelOf, ClassIn
<1>3. \A c : Before(c)' = AheadIn(levels', c)
  BY <1>2 DEF Before, AheadIn
<1>4. QueueOnce' <=> Once(levels')
  BY DEF QueueOnce, Once
<1>. QED
  BY <1>1, <1>2, <1>3, <1>4 DEF ClassOf, AheadOf

\* A step that changes neither the slots' owners nor the queue is a stutter.
LEMMA Stutter ==
  ASSUME levels' = levels, closed' = closed, Holders' = Holders
  PROVE  UNCHANGED Semaphore!svars
<1>1. /\ [c \in Queued |-> LevelOf(c)]' = [c \in Queued |-> LevelOf(c)]
      /\ [c \in Queued |-> Before(c)]' = [c \in Queued |-> Before(c)]
  BY Mapping, MappingNext
<1>. QED
  BY <1>1 DEF Semaphore!svars

\* The same, said of what makes a caller a holder.
LEMMA StutterBy ==
  ASSUME levels' = levels, closed' = closed,
         \A c \in Callers : \/ (pc')[c] = "holding" \/ (ready')[c] = "slot" \/ Target(c)'
                           <=> pc[c] = "holding" \/ ready[c] = "slot" \/ Target(c)
  PROVE  UNCHANGED Semaphore!svars
<1>1. Holders' = Holders
  BY HoldersAre
<1>. QED
  BY <1>1, Stutter

\* The semaphore counts with its own copy of FiniteSets.
LEMMA SameCount == \A S : Semaphore!Cardinality(S) = Cardinality(S)
  BY DEF Cardinality, Semaphore!Cardinality

LEMMA InitRefines == Init => Semaphore!SInit
<1>. SUFFICES ASSUME Init
              PROVE  Semaphore!SInit
  OBVIOUS
<1>1. IInv /\ \A p \in Priorities : levels[p] = <<>>
  BY InitIInv DEF Init
<1>2. Queued = {}
  BY <1>1 DEF Queued, InQueue
<1>3. Holders = {}
  <2>1. inflight = 0 /\ Cardinality(Holders) = 0
    BY <1>1 DEF Init, IInv
  <2>. QED
    BY <2>1, HoldersFinite, FS_EmptySet
<1>4. (~closed) = TRUE
  BY DEF Init
<1>. QED
  BY <1>2, <1>3, <1>4 DEF Semaphore!SInit

LEMMA AcquireFastRefines ==
  ASSUME IInv, Accounted, NEW c \in Callers, AcquireFast(c)
  PROVE  Semaphore!Enter(c)
<1>1. /\ ~closed /\ inflight < Slots /\ n = 0
      /\ pc' = [pc EXCEPT ![c] = "holding"]
      /\ UNCHANGED <<closed, levels, ready, handTo>>
      /\ c \notin Holders
  BY HoldersAre DEF AcquireFast, IInv, KnownBlocked, Blocked, Selecting
<1>2. Queued = {}
  BY <1>1, QueuedFinite, FS_EmptySet DEF Accounted, QueueCountExact
<1>3. Holders' = Holders \cup {c}
  BY <1>1, HoldersAre, HandSame DEF IInv, TypeOK
<1>4. /\ [d \in Queued |-> LevelOf(d)]' = [d \in Queued |-> LevelOf(d)]
      /\ [d \in Queued |-> Before(d)]' = [d \in Queued |-> Before(d)]
  BY <1>1, Mapping, MappingNext
<1>5. Cardinality(Holders) < Slots
  BY <1>1 DEF IInv
<1>. QED
  BY <1>1, <1>2, <1>3, <1>4, <1>5, SameCount DEF Semaphore!Enter, Semaphore!Waiting

LEMMA EnqueueRefines ==
  ASSUME IInv, IInv', Accounted, NEW c \in Callers, NEW p \in Priorities, Enqueue(c, p)
  PROVE  Semaphore!Join(c, p)
<1>1. /\ ~closed /\ ~closed' /\ ~InQueue(c) /\ c \notin Holders
      /\ Cardinality(Holders) = Slots
      /\ Cardinality(Queued) < MaxQueueDepth
  BY EnqueueRoom DEF IInv, Accounted, QueueCountExact, Enqueue
<1>2. Holders' = Holders
  <2>1. ready[c] = "empty" /\ pc[c] = "outside"
    BY DEF IInv, KnownBlocked, Enqueue, Blocked, Selecting
  <2>. QED
    BY <2>1, HoldersAre, HandSame DEF Enqueue, IInv, TypeOK
<1>3. /\ levels \in Queues /\ levels' \in Queues /\ Once(levels) /\ Once(levels')
      /\ Joined(levels, p, c, levels')
      /\ c \notin Entries(levels)
  <2>1. c \notin Queued
    BY <1>1 DEF Queued
  <2>. QED
    BY <2>1, Mapping, MappingNext DEF IInv, TypeOK, Queues, Enqueue, Push, Joined
<1>4. /\ ClassOf(levels') = [w \in Entries(levels) \cup {c} |->
                               IF w = c THEN p ELSE ClassOf(levels)[w]]
      /\ AheadOf(levels') = [w \in Entries(levels) \cup {c} |->
                               IF w = c THEN {v \in Entries(levels) : ClassOf(levels)[v] = p}
                                        ELSE AheadOf(levels)[w]]
  BY <1>3, JoinMaps
<1>. DEFINE class == [d \in Queued |-> LevelOf(d)]
            ahead == [d \in Queued |-> Before(d)]
<1>5. DOMAIN class = Queued
  OBVIOUS
<1>6. /\ class' = [w \in Queued \cup {c} |-> IF w = c THEN p ELSE class[w]]
      /\ ahead' = [w \in Queued \cup {c} |->
                      IF w = c THEN {v \in Queued : class[v] = p} ELSE ahead[w]]
  <2>1. /\ class = ClassOf(levels) /\ class' = ClassOf(levels')
        /\ ahead = AheadOf(levels) /\ ahead' = AheadOf(levels')
        /\ Queued = Entries(levels)
    BY Mapping, MappingNext
  <2>. HIDE DEF class, ahead
  <2>. QED
    BY <1>4, <2>1
<1>. QED
  BY <1>1, <1>2, <1>5, <1>6, SameCount DEF Semaphore!Join, Semaphore!Waiting, Queued

\* Removing a waiter is Forget.
LEMMA RemovalRefines ==
  ASSUME IInv, IInv', NEW w \in Callers, TakesOut(w)
  PROVE  Semaphore!Forget(w) /\ w \in Queued
<1>1. TakenOut(levels, w, levels')
  BY DEF TakesOut, TakenOut, Without
<1>3. levels \in Queues /\ levels' \in Queues /\ Once(levels) /\ Once(levels')
  BY Mapping, MappingNext DEF IInv, TypeOK, Queues
<1>4. /\ ClassOf(levels') = [v \in Entries(levels) \ {w} |-> ClassOf(levels)[v]]
      /\ AheadOf(levels') = [v \in Entries(levels) \ {w} |-> AheadOf(levels)[v] \ {w}]
  BY <1>1, <1>3, ForgetMaps
<1>. DEFINE class == [d \in Queued |-> LevelOf(d)]
            ahead == [d \in Queued |-> Before(d)]
<1>5. DOMAIN class = Queued
  OBVIOUS
<1>6. /\ class' = [v \in Queued \ {w} |-> class[v]]
      /\ ahead' = [v \in Queued \ {w} |-> ahead[v] \ {w}]
  <2>1. /\ class = ClassOf(levels) /\ class' = ClassOf(levels')
        /\ ahead = AheadOf(levels) /\ ahead' = AheadOf(levels')
        /\ Queued = Entries(levels)
    BY Mapping, MappingNext
  <2>. HIDE DEF class, ahead
  <2>. QED
    BY <1>4, <2>1
<1>7. w \in Queued
  BY DEF TakesOut, Queued, InQueue
<1>. QED
  BY <1>5, <1>6, <1>7 DEF Semaphore!Forget, Semaphore!Waiting

LEMMA DropWaiterRefines ==
  ASSUME IInv, IInv', NEW c \in Callers, DropWaiter(c)
  PROVE  Semaphore!Abandon(c)
<1>1. TakesOut(c)
  BY RemovalFacts DEF DropWaiter
<1>2. Semaphore!Forget(c) /\ c \in Queued
  BY <1>1, RemovalRefines
<1>3. UNCHANGED <<closed, ready, handTo>> /\ pc[c] = "leaving" /\ pc' = [pc EXCEPT ![c] = "outside"]
  BY DEF DropWaiter
<1>4. Holders' = Holders
  BY <1>3, HoldersAre, HandSame DEF IInv, TypeOK
<1>. QED
  BY <1>2, <1>3, <1>4 DEF Semaphore!Abandon, Semaphore!Waiting

LEMMA ReleaseToWaiterRefines ==
  ASSUME IInv, IInv', NEW c \in Callers, NEW w \in Callers, ReleaseToWaiter(c, w)
  PROVE  Semaphore!Grant(c, w)
<1>1. /\ Pop(w) /\ pc[c] = "holding" /\ UNCHANGED <<closed, ready>>
      /\ pc' = [pc EXCEPT ![c] = "handing"]
      /\ handTo' = [handTo EXCEPT ![c] = w]
  BY DEF ReleaseToWaiter
<1>2. Semaphore!Forget(w) /\ w \in Queued
  <2>1. TakesOut(w)
    BY <1>1, RemovalFacts
  <2>. QED
    BY <2>1, RemovalRefines
<1>3. /\ AheadOf(levels)[w] = {}
      /\ \A v \in Entries(levels) : ClassOf(levels)[w] <= ClassOf(levels)[v]
  <2>1. First(levels, w)
    BY <1>1 DEF Pop, First
  <2>2. levels \in Queues /\ Once(levels)
    BY Mapping DEF IInv, TypeOK, Queues
  <2>. QED
    BY <2>1, <2>2, HeadFirst
<1>4. Holders' = (Holders \ {c}) \cup {w}
  <2>1. InQueue(w)
    BY <1>2 DEF Queued
  <2>2. ready[c] = "empty" /\ ~Target(c) /\ handTo[c] \notin Callers /\ w # c
    BY <1>1, <2>1 DEF IInv, KnownBlocked, HandInv, Blocked, Selecting
  <2>3. \A d \in Callers : Target(d)' <=> Target(d) \/ d = w
    BY <1>1, <2>2 DEF Target, IInv, TypeOK
  <2>. QED
    BY <1>1, <2>2, <2>3, HoldersAre DEF IInv, TypeOK
<1>5. c \in Holders
  BY <1>1, HoldersAre
<1>6. /\ [d \in Queued |-> Before(d)][w] = {}
      /\ \A v \in Queued : [d \in Queued |-> LevelOf(d)][w] <= [d \in Queued |-> LevelOf(d)][v]
  BY <1>2, <1>3, Mapping
<1>. QED
  BY <1>1, <1>2, <1>4, <1>5, <1>6 DEF Semaphore!Grant, Semaphore!Waiting

LEMMA ReleaseIdleRefines ==
  ASSUME IInv, NEW c \in Callers, ReleaseIdle(c)
  PROVE  Semaphore!Leave(c)
<1>1. /\ pc[c] = "holding" /\ pc' = [pc EXCEPT ![c] = "outside"]
      /\ UNCHANGED <<closed, levels, ready, handTo>>
      /\ \A p \in Priorities : levels[p] = <<>>
  BY DEF ReleaseIdle
<1>2. Queued = {}
  BY <1>1 DEF Queued, InQueue
<1>3. c \in Holders /\ Holders' = Holders \ {c}
  <2>1. ready[c] = "empty" /\ ~Target(c)
    BY <1>1 DEF IInv, KnownBlocked, Blocked, Selecting
  <2>. QED
    BY <1>1, <2>1, HoldersAre, HandSame DEF IInv, TypeOK
<1>4. /\ [d \in Queued |-> LevelOf(d)]' = [d \in Queued |-> LevelOf(d)]
      /\ [d \in Queued |-> Before(d)]' = [d \in Queued |-> Before(d)]
  BY <1>1, Mapping, MappingNext
<1>. QED
  BY <1>1, <1>2, <1>3, <1>4 DEF Semaphore!Leave, Semaphore!Waiting

LEMMA CloseRefines ==
  ASSUME IInv, Close
  PROVE  Semaphore!Shut
<1>1. ~closed /\ closed' = TRUE /\ UNCHANGED <<pc, ready, handTo>>
  BY DEF Close
<1>2. Queued' = {}
  BY CloseFacts DEF IInv, Queued
<1>3. Holders' = Holders
  BY <1>1, HoldersAre, HandSame
<1>. QED
  BY <1>1, <1>2, <1>3 DEF Semaphore!Shut

\* Every step is a step of the semaphore, or a stutter.
LEMMA NextRefines ==
  ASSUME IInv, IInv', Accounted, [Next]_vars
  PROVE  [Semaphore!SNext]_Semaphore!svars
<1>. USE DEF Semaphore!SNext
<1>1. CASE UNCHANGED vars
  BY <1>1, StutterBy, HandSame DEF vars
<1>2. ASSUME NEW c \in Callers, Step(c)
      PROVE  [Semaphore!SNext]_Semaphore!svars
  <2>1. CASE AcquireRefused(c)
    BY <2>1, <1>1 DEF AcquireRefused
  <2>2. CASE AcquireFast(c)
    BY <2>2, AcquireFastRefines
  <2>3. ASSUME NEW p \in Priorities, Enqueue(c, p)
        PROVE  [Semaphore!SNext]_Semaphore!svars
    BY <2>3, EnqueueRefines DEF Priorities
  <2>4. CASE TakeSignal(c)
    BY <2>4, StutterBy, HandSame DEF TakeSignal, IInv, TypeOK, OnePlace
  <2>5. CASE GivesUp(c) \/ DropTooLate(c)
    BY <2>5, StutterBy, HandSame DEF GivesUp, DropTooLate, IInv, TypeOK
  <2>6. CASE DropWaiter(c)
    BY <2>6, DropWaiterRefines
  <2>7. ASSUME NEW w \in Callers, ReleaseToWaiter(c, w)
        PROVE  [Semaphore!SNext]_Semaphore!svars
    BY <2>7, ReleaseToWaiterRefines
  <2>8. CASE HandOver(c)
    <3>1. handTo[c] \in Callers /\ Target(handTo[c])
      BY <2>8 DEF HandOver, IInv, HandInv, Target
    <3>2. \A d \in Callers : Target(d)' <=> Target(d) /\ d # handTo[c]
      <4>1. NoCaller \notin Callers
        BY PoolAssumption DEF PoolAssumption
      <4>. QED
        BY <2>8, <3>1, <4>1 DEF HandOver, Target, IInv, TypeOK, HandInv
    <3>. QED
      BY <2>8, <3>1, <3>2, StutterBy DEF HandOver, IInv, TypeOK
  <2>9. CASE ReleaseIdle(c)
    BY <2>9, ReleaseIdleRefines
  <2>. QED
    BY <1>2, <2>1, <2>2, <2>3, <2>4, <2>5, <2>6, <2>7, <2>8, <2>9 DEF Step
<1>3. CASE Close
  BY <1>3, CloseRefines
<1>4. CASE Wake
  BY <1>4, StutterBy, HandSame, WakeFacts DEF Wake, IInv, TypeOK
<1>5. CASE DrainDone \/ DrainExpires
  BY <1>5, StutterBy, HandSame DEF DrainDone, DrainExpires
<1>. QED
  BY <1>1, <1>2, <1>3, <1>4, <1>5 DEF Next

(***************************************************************************)
(* The pool implements the semaphore: priority classes, arrival order      *)
(* within a class, no barging, a bounded queue (pool.go, queue.go).        *)
(***************************************************************************)
THEOREM PoolIsASemaphore == Spec => ImplementsSemaphore
<1>1. IInv /\ IInv' /\ Accounted /\ [Next]_vars => [Semaphore!SNext]_Semaphore!svars
  BY NextRefines
<1>. QED
  BY InitRefines, <1>1, CallersStayKnown, PTL DEF Spec, ImplementsSemaphore, Semaphore!SSpec
=============================================================================
