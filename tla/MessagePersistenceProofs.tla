---------------------- MODULE MessagePersistenceProofs ----------------------
(***************************************************************************)
(* Proofs about the persistence of messages, for any number of messages    *)
(* and of breaks of the connection.  That no message overtakes another one *)
(* without a cause is a statement about the table; the invariant follows   *)
(* the order back through what the client holds, the deliveries without an *)
(* answer, the broker's queue and the frames on the wire.  A message is    *)
(* due while the broker has it and it has neither been stored nor failed:  *)
(* whatever copies come back after a break, only those that are due still  *)
(* have a place in the order.                                              *)
(* That a message is copied only by failures is a second invariant: in any *)
(* state its rows, its delivery at the client and its copy on the way to   *)
(* the client again are not more than the broken connections and its       *)
(* doubtful writes so far account for.                                     *)
(***************************************************************************)
EXTENDS MessagePersistence, SequenceTheorems, FiniteSetTheorems, TLAPS

\* The messages of some deliveries.
Msgs(s) == {s[i].msg : i \in 1 .. Len(s)}
Frames(s) == {s[i] : i \in 1 .. Len(s)}
Held == Msgs(unacked) \cup Msgs(queue)

\* The messages that the broker has and that still have to come in order.
Due == Held \ (Frames(rows) \cup failed)

\* A later message stands before an earlier one only if that one is excused.
Overtakes(A, B, X) == \A m \in A, k \in B : m > k => k \in X
InOrder(s, X) == \A i, j \in 1 .. Len(s) : i < j /\ s[i].msg > s[j].msg => s[j].msg \in X

\* The client holds, also after its connection has broken, only what the
\* broker has not settled; what is due of it comes in order.
ClientInv == /\ Msgs(buffer) \subseteq Held
             /\ stage = "acking" => buffer[1].msg \in Frames(rows)
             /\ stage = "nacking" => buffer[1].msg \in failed
             /\ \A i \in 1 .. Len(buffer), k \in Due : k < buffer[i].msg =>
                  \E j \in 1 .. i - 1 : buffer[j].msg = k

\* An answer on its way says the truth about its delivery.
AnsweredInv == \A i \in 1 .. Len(answers) :
  unacked[i].msg \in IF answers[i] = "ack" THEN Frames(rows) ELSE failed

\* Only what has been sent is anywhere, and what is being written directly is
\* nowhere else.
SentInv == /\ persisting => sent > 0 /\ sent \notin Held \cup Frames(wire) \cup Frames(rows)
           /\ Held \cup Frames(wire) \cup Frames(rows) \subseteq 1 .. sent

\* Frames on the wire are in order, and later than what the broker has.
WireInv == /\ \A i, j \in 1 .. Len(wire) : i < j => wire[i] < wire[j]
           /\ \A m \in Held, k \in Frames(wire) : m < k

\* So are the deliveries, those that failed excepted.
OrderInv == /\ InOrder(unacked, failed) /\ InOrder(queue, failed)
            /\ Overtakes(Msgs(unacked), Msgs(queue), failed)

\* What is in the table has overtaken nothing that is still due.
RowsInv == /\ Overtakes(Frames(rows) \ direct, Due, {})
           /\ Overtakes(Frames(rows) \ direct, Frames(wire), {})

\* What has been sent is somewhere, or lost in one of the three places.
SomewhereInv == \A m \in 1 .. sent :
  \/ persisting /\ m = sent
  \/ m \in Frames(wire) \cup Held \cup Frames(rows)
  \/ lost[m] # "nowhere"

IInv == /\ TypeOK
        /\ ClientInv
        /\ AnsweredInv
        /\ SentInv
        /\ WireInv
        /\ OrderInv
        /\ RowsInv
        /\ SomewhereInv
        /\ OvertakenOnlyAfterFailure
-----------------------------------------------------------------------------
(* Messages and frames of a sequence *)

LEMMA MsgsType == \A s \in Seq(Delivery) : Msgs(s) \subseteq Messages
<1>1. \A s \in Seq(Delivery) : \A i \in 1 .. Len(s) : s[i] \in Delivery
  OBVIOUS
<1>. QED
  BY <1>1 DEF Msgs, Delivery

LEMMA MsgsEmpty == Msgs(<<>>) = {}
  BY DEF Msgs

LEMMA MsgsHead ==
  ASSUME NEW s \in Seq(Delivery), s # <<>>
  PROVE  /\ Head(s) \in Delivery /\ Tail(s) \in Seq(Delivery)
         /\ Msgs(s) = {Head(s).msg} \cup Msgs(Tail(s))
<1>1. /\ Len(s) \in Nat /\ Len(s) > 0 /\ Head(s) = s[1]
      /\ Tail(s) \in Seq(Delivery) /\ Len(Tail(s)) = Len(s) - 1
      /\ \A i \in 1 .. Len(s) - 1 : Tail(s)[i] = s[i + 1]
  OBVIOUS
<1>2. ASSUME NEW m
      PROVE  m \in Msgs(s) <=> m = Head(s).msg \/ m \in Msgs(Tail(s))
  <2>1. ASSUME NEW i \in 1 .. Len(s), m = s[i].msg
        PROVE  m = Head(s).msg \/ m \in Msgs(Tail(s))
    <3>1. CASE i = 1
      BY <3>1, <2>1, <1>1
    <3>2. CASE i # 1
      <4>1. i - 1 \in 1 .. Len(Tail(s)) /\ Tail(s)[i - 1] = s[i]
        BY <3>2, <1>1
      <4>. QED
        BY <4>1, <2>1 DEF Msgs
    <3>. QED
      BY <3>1, <3>2
  <2>2. ASSUME NEW i \in 1 .. Len(Tail(s)), m = Tail(s)[i].msg
        PROVE  m \in Msgs(s)
    <3>1. i + 1 \in 1 .. Len(s) /\ Tail(s)[i] = s[i + 1]
      BY <1>1
    <3>. QED
      BY <3>1, <2>2 DEF Msgs
  <2>3. 1 \in 1 .. Len(s)
    BY <1>1
  <2>. QED
    BY <1>1, <2>1, <2>2, <2>3 DEF Msgs
<1>. QED
  BY <1>1, <1>2

LEMMA MsgsAppend ==
  ASSUME NEW s \in Seq(Delivery), NEW d \in Delivery
  PROVE  Append(s, d) \in Seq(Delivery) /\ Msgs(Append(s, d)) = Msgs(s) \cup {d.msg}
<1>1. /\ Append(s, d) \in Seq(Delivery) /\ Len(Append(s, d)) = Len(s) + 1 /\ Len(s) \in Nat
      /\ \A i \in 1 .. Len(s) : Append(s, d)[i] = s[i]
      /\ Append(s, d)[Len(s) + 1] = d
  OBVIOUS
<1>2. ASSUME NEW m
      PROVE  m \in Msgs(Append(s, d)) <=> m \in Msgs(s) \/ m = d.msg
  BY <1>1 DEF Msgs
<1>. QED
  BY <1>1, <1>2

LEMMA MsgsConcat ==
  ASSUME NEW s \in Seq(Delivery), NEW t \in Seq(Delivery)
  PROVE  s \o t \in Seq(Delivery) /\ Msgs(s \o t) = Msgs(s) \cup Msgs(t)
<1>1. /\ s \o t \in Seq(Delivery)
      /\ Len(s \o t) = Len(s) + Len(t) /\ Len(s) \in Nat /\ Len(t) \in Nat
      /\ \A i \in 1 .. Len(s) + Len(t) :
           (s \o t)[i] = IF i <= Len(s) THEN s[i] ELSE t[i - Len(s)]
  BY ConcatProperties
<1>2. ASSUME NEW m, m \in Msgs(s \o t)
      PROVE  m \in Msgs(s) \cup Msgs(t)
  <2>1. PICK i \in 1 .. Len(s) + Len(t) : m = (s \o t)[i].msg
    BY <1>1, <1>2 DEF Msgs
  <2>2. CASE i <= Len(s)
    BY <1>1, <2>1, <2>2 DEF Msgs
  <2>3. CASE ~(i <= Len(s))
    <3>1. i - Len(s) \in 1 .. Len(t) /\ m = t[i - Len(s)].msg
      BY <1>1, <2>1, <2>3
    <3>. QED
      BY <3>1 DEF Msgs
  <2>. QED
    BY <2>2, <2>3
<1>3. ASSUME NEW i \in 1 .. Len(s)
      PROVE  s[i].msg \in Msgs(s \o t)
  <2>1. i \in 1 .. Len(s \o t) /\ (s \o t)[i] = s[i]
    BY <1>1
  <2>. QED
    BY <2>1 DEF Msgs
<1>4. ASSUME NEW i \in 1 .. Len(t)
      PROVE  t[i].msg \in Msgs(s \o t)
  <2>1. Len(s) + i \in 1 .. Len(s \o t) /\ (s \o t)[Len(s) + i] = t[i]
    BY <1>1
  <2>. QED
    BY <2>1 DEF Msgs
<1>. QED
  BY <1>1, <1>2, <1>3, <1>4 DEF Msgs

LEMMA FramesHead ==
  ASSUME NEW s \in Seq(Messages), s # <<>>
  PROVE  /\ Head(s) \in Messages /\ Tail(s) \in Seq(Messages)
         /\ Frames(s) = {Head(s)} \cup Frames(Tail(s))
<1>1. /\ Len(s) \in Nat /\ Len(s) > 0 /\ Head(s) = s[1]
      /\ Tail(s) \in Seq(Messages) /\ Len(Tail(s)) = Len(s) - 1
      /\ \A i \in 1 .. Len(s) - 1 : Tail(s)[i] = s[i + 1]
  OBVIOUS
<1>2. ASSUME NEW i \in 1 .. Len(s)
      PROVE  s[i] = Head(s) \/ s[i] \in Frames(Tail(s))
  <2>1. CASE i = 1
    BY <2>1, <1>1
  <2>2. CASE i # 1
    <3>1. i - 1 \in 1 .. Len(Tail(s)) /\ Tail(s)[i - 1] = s[i]
      BY <2>2, <1>1
    <3>. QED
      BY <3>1 DEF Frames
  <2>. QED
    BY <2>1, <2>2
<1>3. ASSUME NEW i \in 1 .. Len(Tail(s))
      PROVE  Tail(s)[i] \in Frames(s)
  <2>1. i + 1 \in 1 .. Len(s) /\ Tail(s)[i] = s[i + 1]
    BY <1>1
  <2>. QED
    BY <2>1 DEF Frames
<1>4. Head(s) \in Frames(s)
  BY <1>1 DEF Frames
<1>. QED
  BY <1>1, <1>2, <1>3, <1>4 DEF Frames

LEMMA FramesAppend ==
  ASSUME NEW s \in Seq(Messages), NEW m \in Messages
  PROVE  Append(s, m) \in Seq(Messages) /\ Frames(Append(s, m)) = Frames(s) \cup {m}
<1>1. /\ Append(s, m) \in Seq(Messages) /\ Len(Append(s, m)) = Len(s) + 1 /\ Len(s) \in Nat
      /\ \A i \in 1 .. Len(s) : Append(s, m)[i] = s[i]
      /\ Append(s, m)[Len(s) + 1] = m
  OBVIOUS
<1>2. ASSUME NEW k
      PROVE  k \in Frames(Append(s, m)) <=> k \in Frames(s) \/ k = m
  BY <1>1 DEF Frames
<1>. QED
  BY <1>1, <1>2
-----------------------------------------------------------------------------
(* The order of deliveries *)

\* The more is excused, the more is in order.
LEMMA Excuses ==
  ASSUME NEW X, NEW Y, X \subseteq Y
  PROVE  /\ \A A, B : Overtakes(A, B, X) => Overtakes(A, B, Y)
         /\ \A s : InOrder(s, X) => InOrder(s, Y)
  BY DEF Overtakes, InOrder

LEMMA OrderHead ==
  ASSUME NEW s \in Seq(Delivery), s # <<>>, NEW X, InOrder(s, X)
  PROVE  InOrder(Tail(s), X) /\ Overtakes({Head(s).msg}, Msgs(s), X)
<1>1. /\ Len(s) \in Nat /\ Len(s) > 0 /\ Head(s) = s[1]
      /\ Len(Tail(s)) = Len(s) - 1
      /\ \A i \in 1 .. Len(s) - 1 : Tail(s)[i] = s[i + 1]
  OBVIOUS
<1>2. InOrder(Tail(s), X)
  <2>. SUFFICES ASSUME NEW i \in 1 .. Len(Tail(s)), NEW j \in 1 .. Len(Tail(s)),
                       i < j, Tail(s)[i].msg > Tail(s)[j].msg
                PROVE  Tail(s)[j].msg \in X
    BY DEF InOrder
  <2>1. /\ i + 1 \in 1 .. Len(s) /\ j + 1 \in 1 .. Len(s) /\ i + 1 < j + 1
        /\ Tail(s)[i] = s[i + 1] /\ Tail(s)[j] = s[j + 1]
    BY <1>1
  <2>. QED
    BY <2>1 DEF InOrder
<1>3. ASSUME NEW j \in 1 .. Len(s), s[1].msg > s[j].msg
      PROVE  s[j].msg \in X
  <2>1. s[1].msg \in Int
    <3>1. s[1] \in Delivery
      BY <1>1
    <3>. QED
      BY <3>1 DEF Delivery, Messages
  <2>2. 1 \in 1 .. Len(s) /\ 1 < j
    BY <1>1, <1>3, <2>1
  <2>. QED
    BY <2>2, <1>3 DEF InOrder
<1>. QED
  BY <1>1, <1>2, <1>3 DEF Overtakes, Msgs

LEMMA OrderAppend ==
  ASSUME NEW s \in Seq(Delivery), NEW d \in Delivery, NEW X, InOrder(s, X),
         Overtakes(Msgs(s), {d.msg}, X)
  PROVE  InOrder(Append(s, d), X)
<1>1. /\ Len(Append(s, d)) = Len(s) + 1 /\ Len(s) \in Nat
      /\ \A i \in 1 .. Len(s) : Append(s, d)[i] = s[i]
      /\ Append(s, d)[Len(s) + 1] = d
  OBVIOUS
<1>. SUFFICES ASSUME NEW i \in 1 .. Len(Append(s, d)), NEW j \in 1 .. Len(Append(s, d)),
                     i < j, Append(s, d)[i].msg > Append(s, d)[j].msg
              PROVE  Append(s, d)[j].msg \in X
  BY DEF InOrder
<1>2. i \in 1 .. Len(s) /\ Append(s, d)[i] = s[i]
  BY <1>1
<1>3. CASE j \in 1 .. Len(s)
  BY <1>1, <1>2, <1>3 DEF InOrder
<1>4. CASE j = Len(s) + 1
  BY <1>1, <1>2, <1>4 DEF Overtakes, Msgs
<1>. QED
  BY <1>1, <1>3, <1>4

LEMMA OrderConcat ==
  ASSUME NEW s \in Seq(Delivery), NEW t \in Seq(Delivery), NEW X,
         InOrder(s, X), InOrder(t, X), Overtakes(Msgs(s), Msgs(t), X)
  PROVE  InOrder(s \o t, X)
<1>1. /\ Len(s \o t) = Len(s) + Len(t) /\ Len(s) \in Nat /\ Len(t) \in Nat
      /\ \A i \in 1 .. Len(s) + Len(t) :
           (s \o t)[i] = IF i <= Len(s) THEN s[i] ELSE t[i - Len(s)]
  BY ConcatProperties
<1>. SUFFICES ASSUME NEW i \in 1 .. Len(s \o t), NEW j \in 1 .. Len(s \o t),
                     i < j, (s \o t)[i].msg > (s \o t)[j].msg
              PROVE  (s \o t)[j].msg \in X
  BY DEF InOrder
<1>2. CASE j <= Len(s)
  <2>1. i \in 1 .. Len(s) /\ j \in 1 .. Len(s) /\ (s \o t)[i] = s[i] /\ (s \o t)[j] = s[j]
    BY <1>1, <1>2
  <2>. QED
    BY <2>1 DEF InOrder
<1>3. CASE i <= Len(s) /\ ~(j <= Len(s))
  <2>1. /\ i \in 1 .. Len(s) /\ j - Len(s) \in 1 .. Len(t)
        /\ (s \o t)[i] = s[i] /\ (s \o t)[j] = t[j - Len(s)]
    BY <1>1, <1>3
  <2>. QED
    BY <2>1 DEF Overtakes, Msgs
<1>4. CASE ~(i <= Len(s))
  <2>1. /\ i - Len(s) \in 1 .. Len(t) /\ j - Len(s) \in 1 .. Len(t)
        /\ i - Len(s) < j - Len(s)
        /\ (s \o t)[i] = t[i - Len(s)] /\ (s \o t)[j] = t[j - Len(s)]
    BY <1>1, <1>4
  <2>. QED
    BY <2>1 DEF InOrder
<1>. QED
  BY <1>2, <1>3, <1>4

\* The mark a broken channel puts on its deliveries changes neither.
LEMMA MarkSame ==
  ASSUME NEW s \in Seq(Delivery), NEW t, t = Returned(s)
  PROVE  /\ t \in Seq(Delivery) /\ Len(t) = Len(s)
         /\ Msgs(t) = Msgs(s) /\ \A X : InOrder(s, X) => InOrder(t, X)
         /\ \A i \in 1 .. Len(s) : t[i].msg = s[i].msg
<1>1. Len(s) \in Nat /\ \A i \in 1 .. Len(s) : s[i] \in Delivery
  OBVIOUS
<1>2. \A i \in 1 .. Len(s) : Redelivered(s[i]) \in Delivery /\ Redelivered(s[i]).msg = s[i].msg
  BY <1>1 DEF Redelivered, Delivery
<1>3. t \in Seq(Delivery) /\ Len(t) = Len(s) /\ \A i \in 1 .. Len(s) : t[i].msg = s[i].msg
  BY <1>1, <1>2, IsASeq DEF Returned
<1>. QED
  BY <1>3 DEF Msgs, InOrder
-----------------------------------------------------------------------------
(* The history: what is excused, and the table *)

\* The table says of its own order what it said, as long as excuses only come.
LEMMA TableSame ==
  ASSUME TypeOK, OvertakenOnlyAfterFailure, rows' = rows,
         direct \subseteq direct', failed \subseteq failed'
  PROVE  OvertakenOnlyAfterFailure'
<1>1. \A i \in 1 .. Len(rows) : rows[i] \in Messages
  BY DEF TypeOK
<1>. QED
  BY <1>1 DEF OvertakenOnlyAfterFailure

\* A message comes into the table before an earlier one only with a cause.
LEMMA TableGrows ==
  ASSUME TypeOK, OvertakenOnlyAfterFailure, NEW m \in Messages, rows' = Append(rows, m),
         direct \subseteq direct', failed \subseteq failed',
         m \notin Frames(rows) => Overtakes(Frames(rows) \ direct, {m}, failed)
  PROVE  OvertakenOnlyAfterFailure'
<1>1. /\ Len(rows) \in Nat /\ Len(rows') = Len(rows) + 1 /\ (rows')[Len(rows) + 1] = m
      /\ \A i \in 1 .. Len(rows) : (rows')[i] = rows[i] /\ rows[i] \in Messages
  BY DEF TypeOK
<1>. SUFFICES ASSUME NEW i \in 1 .. Len(rows'), NEW j \in 1 .. Len(rows'),
                     i < j, (rows')[i] > (rows')[j]
              PROVE  \/ (rows')[i] \in direct'
                     \/ (rows')[j] \in failed'
                     \/ \E k \in 1 .. j - 1 : (rows')[k] = (rows')[j]
  BY DEF OvertakenOnlyAfterFailure
<1>3. i \in 1 .. Len(rows) /\ (rows')[i] = rows[i]
  BY <1>1
<1>4. CASE j \in 1 .. Len(rows)
  <2>1. \/ rows[i] \in direct \/ rows[j] \in failed
        \/ \E k \in 1 .. j - 1 : rows[k] = rows[j]
    BY <1>1, <1>3, <1>4 DEF OvertakenOnlyAfterFailure
  <2>2. \A k \in 1 .. j - 1 : (rows')[k] = rows[k]
    BY <1>1, <1>4
  <2>. QED
    BY <2>1, <2>2, <1>1, <1>3, <1>4
<1>5. CASE j = Len(rows) + 1
  <2>1. rows[i] \in Frames(rows) /\ rows[i] > m
    BY <1>1, <1>3, <1>5 DEF Frames
  <2>2. CASE m \in Frames(rows)
    BY <2>2, <1>1, <1>5 DEF Frames
  <2>3. CASE m \notin Frames(rows)
    <3>1. rows[i] \in direct \/ m \in failed'
      BY <2>1, <2>3 DEF Overtakes
    <3>. QED
      BY <1>1, <1>3, <1>5, <3>1
  <2>. QED
    BY <2>2, <2>3
<1>. QED
  BY <1>1, <1>4, <1>5

\* What a write does to the table and to the history of failures.
LEMMA WriteTable ==
  ASSUME TypeOK, NEW m \in Messages, NEW ok \in BOOLEAN, Write(m, ok)
  PROVE  /\ rows' = Append(rows, m) \/ (~ok /\ rows' = rows)
         /\ rows' \in Seq(Messages)
         /\ Frames(rows) \subseteq Frames(rows') /\ Frames(rows') \subseteq Frames(rows) \cup {m}
         /\ ok => m \in Frames(rows')
         /\ failed' = IF ok THEN failed ELSE failed \cup {m}
         /\ failed \subseteq failed' /\ failed' \subseteq Messages
         /\ doubtful' \in [Messages -> Nat]
<1>1. /\ rows' = Append(rows, m) \/ (~ok /\ rows' = rows)
      /\ failed' = IF ok THEN failed ELSE failed \cup {m}
      /\ doubtful' = doubtful \/ doubtful' = [doubtful EXCEPT ![m] = @ + 1]
  BY DEF Write
<1>2. rows \in Seq(Messages) /\ failed \subseteq Messages /\ doubtful \in [Messages -> Nat]
  BY DEF TypeOK
<1>3. CASE rows' = Append(rows, m)
  BY <1>1, <1>2, <1>3, FramesAppend
<1>4. CASE ~ok /\ rows' = rows
  BY <1>1, <1>2, <1>4
<1>. QED
  BY <1>1, <1>3, <1>4
-----------------------------------------------------------------------------
(* The order: initially, and in the steps of the publisher *)

LEMMA InitIInv == Init => IInv
<1>. SUFFICES ASSUME Init
              PROVE  IInv
  OBVIOUS
<1>1. TypeOK
  <2>1. persisting \in BOOLEAN
    BY Zenon DEF Init
  <2>. QED
    BY <2>1, PersistenceAssumption
       DEF Init, TypeOK, live, PersistenceAssumption
<1>2. Held = {} /\ Frames(wire) = {} /\ Frames(rows) = {}
  BY DEF Init, Held, Msgs, Frames
<1>3. ClientInv /\ AnsweredInv /\ SentInv /\ WireInv
  BY <1>2, MsgsEmpty DEF Init, ClientInv, AnsweredInv, SentInv, WireInv
<1>4. OrderInv /\ RowsInv
  BY <1>2, MsgsEmpty DEF Init, OrderInv, RowsInv, InOrder, Overtakes, Due
<1>5. SomewhereInv /\ OvertakenOnlyAfterFailure
  BY DEF Init, SomewhereInv, OvertakenOnlyAfterFailure
<1>. QED
  BY <1>1, <1>3, <1>4, <1>5 DEF IInv

\* A step that leaves deliveries, answers and table alone.
LEMMA Untouched ==
  ASSUME IInv, UNCHANGED <<queue, unacked, answers, rows, direct, failed>>
  PROVE  /\ Held' = Held /\ failed' = failed /\ Due' = Due
         /\ AnsweredInv' /\ OrderInv' /\ OvertakenOnlyAfterFailure'
<1>. USE DEF IInv
<1>1. Held' = Held /\ failed' = failed
  BY DEF Held
<1>2. Due' = Due
  BY <1>1 DEF Due
<1>3. AnsweredInv' /\ OrderInv'
  BY <1>1 DEF AnsweredInv, OrderInv
<1>4. OvertakenOnlyAfterFailure'
  BY <1>1, TableSame
<1>. QED
  BY <1>1, <1>2, <1>3, <1>4

\* A new message goes to the end of the wire, or nowhere.
LEMMA PublishIInv ==
  ASSUME IInv, Publish
  PROVE  IInv'
<1>. USE DEF IInv
<1>1. /\ sent < MaxMessages /\ ~persisting /\ sent' = sent + 1
      /\ UNCHANGED <<persisting, channel, queue, unacked, answers, subscription, buffer, stage,
                     rows, breaks, direct, failed, doubtful>>
      /\ \/ wire' = Append(wire, sent + 1) /\ lost' = lost
         \/ lost' = [lost EXCEPT ![sent + 1] = "wire"] /\ wire' = wire
  BY DEF Publish, consumerVars
<1>2. sent \in Nat /\ sent + 1 \in Messages /\ sent + 1 \in 0 .. MaxMessages
  BY <1>1, PersistenceAssumption DEF TypeOK, Messages, PersistenceAssumption
<1>3. /\ Held' = Held /\ failed' = failed /\ Due' = Due
      /\ AnsweredInv' /\ OrderInv' /\ OvertakenOnlyAfterFailure'
  BY <1>1, Untouched
<1>4. wire' \in Seq(Messages) /\ Frames(wire') \subseteq Frames(wire) \cup {sent + 1}
  BY <1>1, <1>2, FramesAppend DEF TypeOK
<1>5. /\ lost' \in [Messages -> {"nowhere", "wire", "database", "poison"}]
      /\ \A m \in Messages : m # sent + 1 => (lost')[m] = lost[m]
      /\ sent + 1 \in Frames(wire') \/ (lost')[sent + 1] # "nowhere"
      /\ Frames(wire) \subseteq Frames(wire')
  BY <1>1, <1>2, FramesAppend DEF TypeOK
<1>6. TypeOK'
  BY <1>1, <1>2, <1>4, <1>5 DEF TypeOK, live
<1>7. ClientInv'
  BY <1>1, <1>3 DEF ClientInv
<1>8. SentInv'
  BY <1>1, <1>2, <1>3, <1>4 DEF SentInv
<1>9. WireInv'
  <2>1. \A i \in 1 .. Len(wire) : wire[i] \in 1 .. sent
    BY DEF SentInv, Frames
  <2>2. \A i, j \in 1 .. Len(wire') : i < j => (wire')[i] < (wire')[j]
    <3>1. CASE wire' = Append(wire, sent + 1)
      <4>1. /\ Len(wire) \in Nat /\ Len(wire') = Len(wire) + 1 /\ (wire')[Len(wire) + 1] = sent + 1
            /\ \A i \in 1 .. Len(wire) : (wire')[i] = wire[i]
        BY <3>1 DEF TypeOK
      <4>. QED
        BY <4>1, <2>1, <1>2 DEF WireInv
    <3>2. CASE wire' = wire
      BY <3>2 DEF WireInv
    <3>. QED
      BY <3>1, <3>2, <1>1
  <2>3. \A m \in Held, k \in Frames(wire') : m < k
    BY <1>2, <1>4 DEF WireInv, SentInv
  <2>. QED
    BY <2>2, <2>3, <1>3 DEF WireInv
<1>10. RowsInv'
  BY <1>1, <1>2, <1>3, <1>4 DEF RowsInv, SentInv, Overtakes
<1>11. SomewhereInv'
  <2>1. \A m \in 1 .. sent : m \in Messages /\ m # sent + 1
    BY <1>2, PersistenceAssumption DEF TypeOK, Messages, PersistenceAssumption
  <2>. QED
    BY <2>1, <1>1, <1>2, <1>3, <1>5 DEF SomewhereInv
<1>. QED
  BY <1>3, <1>6, <1>7, <1>8, <1>9, <1>10, <1>11

LEMMA PublishFailsIInv ==
  ASSUME IInv, PublishFails
  PROVE  IInv'
<1>. USE DEF IInv
<1>1. /\ sent < MaxMessages /\ ~persisting /\ sent' = sent + 1 /\ persisting' = TRUE
      /\ UNCHANGED <<brokerVars, consumerVars, rows, breaks, history>>
  BY DEF PublishFails
<1>2. sent \in Nat /\ sent + 1 \in 0 .. MaxMessages
  BY <1>1, PersistenceAssumption DEF TypeOK, PersistenceAssumption
<1>3. /\ Held' = Held /\ failed' = failed /\ Due' = Due
      /\ AnsweredInv' /\ OrderInv' /\ OvertakenOnlyAfterFailure'
  BY <1>1, Untouched DEF brokerVars, history
<1>4. TypeOK'
  BY <1>1, <1>2 DEF TypeOK, live, brokerVars, consumerVars, history
<1>5. ClientInv' /\ SentInv' /\ WireInv' /\ RowsInv'
  BY <1>1, <1>2, <1>3
     DEF ClientInv, SentInv, WireInv, RowsInv, brokerVars, consumerVars, history
<1>6. SomewhereInv'
  BY <1>1, <1>2, <1>3 DEF SomewhereInv, brokerVars, history
<1>. QED
  BY <1>3, <1>4, <1>5, <1>6

\* The fallback writes the last message, which is not in the broker's hands.
LEMMA PersistDirectlyIInv ==
  ASSUME IInv, NEW ok \in BOOLEAN, PersistDirectly(ok)
  PROVE  IInv'
<1>. USE DEF IInv
<1>1. /\ persisting /\ persisting' = FALSE /\ direct' = direct \cup {sent}
      /\ Write(sent, ok)
      /\ lost' = IF ok THEN lost ELSE [lost EXCEPT ![sent] = "database"]
      /\ UNCHANGED <<sent, channel, wire, queue, unacked, answers, subscription, buffer, stage,
                     breaks>>
  BY DEF PersistDirectly, brokerVars, consumerVars
<1>2. sent \in Messages
  BY <1>1 DEF TypeOK, SentInv, Messages
<1>3. /\ rows' = Append(rows, sent) \/ (~ok /\ rows' = rows)
      /\ rows' \in Seq(Messages)
      /\ Frames(rows) \subseteq Frames(rows') /\ Frames(rows') \subseteq Frames(rows) \cup {sent}
      /\ ok => sent \in Frames(rows')
  BY <1>1, <1>2, WriteTable
<1>4. /\ failed \subseteq failed' /\ failed' \subseteq Messages
      /\ doubtful' \in [Messages -> Nat]
  BY <1>1, <1>2, WriteTable
<1>5. Held' = Held /\ Due' \subseteq Due
  BY <1>1, <1>3, <1>4 DEF Held, Due
<1>6. TypeOK'
  BY <1>1, <1>2, <1>3, <1>4 DEF TypeOK, live
<1>7. ClientInv'
  BY <1>1, <1>3, <1>4, <1>5 DEF ClientInv
<1>8. AnsweredInv'
  BY <1>1, <1>3, <1>4 DEF AnsweredInv
<1>9. SentInv'
  BY <1>1, <1>2, <1>3, <1>5 DEF SentInv, Messages
<1>10. WireInv'
  BY <1>1, <1>5 DEF WireInv
<1>11. OrderInv'
  BY <1>1, <1>4, Excuses DEF OrderInv
<1>12. RowsInv'
  BY <1>1, <1>3, <1>5 DEF RowsInv, Overtakes
<1>13. SomewhereInv'
  BY <1>1, <1>2, <1>3, <1>5 DEF SomewhereInv, TypeOK
<1>14. OvertakenOnlyAfterFailure'
  <2>1. CASE rows' = Append(rows, sent)
    <3>1. Overtakes(Frames(rows) \ direct, {sent}, failed)
      <4>1. \A k \in Frames(rows) : k \in 1 .. sent
        BY DEF SentInv
      <4>. QED
        BY <4>1, <1>2 DEF Overtakes, Messages
    <3>. QED
      BY <2>1, <3>1, <1>1, <1>2, <1>4, TableGrows
  <2>2. CASE rows' = rows
    BY <2>2, <1>1, <1>4, TableSame
  <2>. QED
    BY <1>3, <2>1, <2>2
<1>. QED
  BY <1>6, <1>7, <1>8, <1>9, <1>10, <1>11, <1>12, <1>13, <1>14
-----------------------------------------------------------------------------
(* The order in the steps of channel and broker *)

\* None of these touches a message.
LEMMA ReconnectIInv ==
  ASSUME IInv, Reconnect \/ Closes \/ Subscribe
  PROVE  IInv'
<1>. USE DEF IInv
<1>1. /\ UNCHANGED <<publisherVars, wire, queue, unacked, answers, buffer, stage,
                     rows, breaks, history>>
      /\ channel' \in {"open", "dead", "closed"}
      /\ subscription' \in {"none", "live", "dead", "closed"}
      /\ live' => channel' = "open"
      /\ live' /\ ~live => buffer = <<>>
      /\ live => live'
      /\ subscription' = "none" => subscription = "none"
  <2>1. CASE Reconnect
    BY <2>1 DEF Reconnect, TypeOK, live, consumerVars
  <2>2. CASE Closes
    BY <2>2 DEF Closes, TypeOK, live
  <2>3. CASE Subscribe
    BY <2>3 DEF Subscribe, TypeOK, live, brokerVars
  <2>. QED
    BY <2>1, <2>2, <2>3
<1>2. /\ Held' = Held /\ failed' = failed /\ Due' = Due
      /\ AnsweredInv' /\ OrderInv' /\ OvertakenOnlyAfterFailure'
  BY <1>1, Untouched DEF history
<1>3. TypeOK'
  <2>1. live' => /\ Len(unacked) = Len(answers) + Len(buffer)
                 /\ \A i \in 1 .. Len(buffer) : buffer[i] = unacked[Len(answers) + i]
    <3>1. CASE live
      BY <3>1 DEF TypeOK
    <3>2. CASE ~live
      BY <3>2, <1>1 DEF TypeOK
    <3>. QED
      BY <3>1, <3>2
  <2>. QED
    BY <2>1, <1>1 DEF TypeOK, publisherVars, history
<1>4. ClientInv' /\ SentInv' /\ WireInv' /\ RowsInv' /\ SomewhereInv'
  BY <1>1, <1>2 DEF ClientInv, SentInv, WireInv, RowsInv, SomewhereInv, publisherVars, history
<1>. QED
  BY <1>2, <1>3, <1>4

\* The frames on the wire are lost; the deliveries go back in front of the
\* queue, in their order.
LEMMA BreakIInv ==
  ASSUME IInv, Break
  PROVE  IInv'
<1>. USE DEF IInv
<1>. DEFINE marked == Returned(unacked)
<1>1. /\ breaks < MaxBreaks /\ breaks' = breaks + 1 /\ channel' = "dead"
      /\ subscription' = IF live THEN "dead" ELSE subscription
      /\ wire' = <<>> /\ answers' = <<>> /\ unacked' = <<>>
      /\ queue' = marked \o queue
      /\ lost' = [m \in Messages |-> IF Contains(wire, m) THEN "wire" ELSE lost[m]]
      /\ UNCHANGED <<publisherVars, buffer, stage, rows, direct, failed, doubtful>>
  BY DEF Break
<1>2. /\ marked \in Seq(Delivery) /\ Msgs(marked) = Msgs(unacked)
      /\ \A X : InOrder(unacked, X) => InOrder(marked, X)
  BY MarkSame DEF TypeOK
<1>. HIDE DEF marked
<1>3. queue' \in Seq(Delivery) /\ Held' = Held /\ Msgs(unacked') = {}
  BY <1>1, <1>2, MsgsConcat, MsgsEmpty DEF Held, TypeOK
<1>4. Frames(wire') = {} /\ failed' = failed /\ Due' = Due
  BY <1>1, <1>3 DEF Frames, Due
<1>5. TypeOK'
  <2>1. breaks' \in 0 .. MaxBreaks
    BY <1>1, PersistenceAssumption DEF TypeOK, PersistenceAssumption
  <2>2. lost' \in [Messages -> {"nowhere", "wire", "database", "poison"}]
    BY <1>1 DEF TypeOK
  <2>3. wire' \in Seq(Messages) /\ unacked' \in Seq(Delivery) /\ answers' \in Seq(Answers)
    BY <1>1
  <2>4. ~live' /\ subscription' \in {"none", "dead", "closed"}
        /\ (subscription' = "none" => subscription = "none")
    BY <1>1 DEF live, TypeOK
  <2>. QED
    BY <2>1, <2>2, <2>3, <2>4, <1>1, <1>3 DEF TypeOK, publisherVars
<1>6. ClientInv' /\ AnsweredInv'
  BY <1>1, <1>3, <1>4 DEF ClientInv, AnsweredInv
<1>7. SentInv' /\ WireInv'
  BY <1>1, <1>3, <1>4 DEF SentInv, WireInv, publisherVars
<1>8. OrderInv'
  <2>1. InOrder(queue', failed)
    BY <1>1, <1>2, OrderConcat DEF OrderInv, TypeOK
  <2>. QED
    BY <2>1, <1>1, <1>3, <1>4 DEF OrderInv, InOrder, Overtakes
<1>9. RowsInv'
  BY <1>1, <1>4 DEF RowsInv, Overtakes
<1>10. SomewhereInv'
  <2>1. \A m \in Frames(wire) : Contains(wire, m)
    BY DEF Frames, Contains
  <2>2. \A m \in 1 .. sent : m \in Messages
    BY PersistenceAssumption DEF TypeOK, Messages, PersistenceAssumption
  <2>. QED
    BY <2>1, <2>2, <1>1, <1>3, <1>4 DEF SomewhereInv, publisherVars
<1>11. OvertakenOnlyAfterFailure'
  BY <1>1, <1>4, TableSame
<1>. QED
  BY <1>5, <1>6, <1>7, <1>8, <1>9, <1>10, <1>11

\* The first frame becomes the last delivery of the queue.
LEMMA ArriveIInv ==
  ASSUME IInv, Arrive
  PROVE  IInv'
<1>. USE DEF IInv
<1>. DEFINE m == Head(wire)
            d == [msg |-> m, redelivered |-> FALSE]
<1>1. /\ wire # <<>> /\ queue' = Append(queue, d) /\ wire' = Tail(wire)
      /\ UNCHANGED <<publisherVars, channel, unacked, answers, consumerVars, rows,
                     breaks, history>>
  BY DEF Arrive
<1>2. /\ m \in Messages /\ wire' \in Seq(Messages)
      /\ Frames(wire) = {m} \cup Frames(wire')
  BY <1>1, FramesHead DEF TypeOK
<1>3. d \in Delivery /\ d.msg = m
  BY <1>2 DEF Delivery
<1>4. /\ queue' \in Seq(Delivery) /\ Msgs(queue') = Msgs(queue) \cup {m}
  BY <1>1, <1>3, MsgsAppend DEF TypeOK
<1>5. \A k \in Held : k < m /\ k \in Int
  BY <1>2, MsgsType DEF WireInv, Held, TypeOK, Messages
<1>6. m \in Int /\ \A k \in Frames(wire') : m < k /\ k \in Int
  <2>1. /\ Len(wire) \in Nat /\ Len(wire) > 0 /\ m = wire[1]
        /\ Len(wire') = Len(wire) - 1
        /\ \A i \in 1 .. Len(wire) - 1 : (wire')[i] = wire[i + 1] /\ wire[i + 1] \in Messages
    BY <1>1 DEF TypeOK
  <2>2. ASSUME NEW i \in 1 .. Len(wire')
        PROVE  m < (wire')[i] /\ (wire')[i] \in Int
    <3>1. 1 \in 1 .. Len(wire) /\ i + 1 \in 1 .. Len(wire) /\ 1 < i + 1
      BY <2>1
    <3>. QED
      BY <3>1, <2>1 DEF WireInv, Messages
  <2>. QED
    BY <2>2, <1>2 DEF Frames, Messages
<1>. HIDE DEF m, d
<1>7. Held' = Held \cup {m} /\ failed' = failed /\ Due' \subseteq Due \cup {m}
  BY <1>1, <1>4 DEF Held, Due, history
<1>8. TypeOK'
  BY <1>1, <1>2, <1>4 DEF TypeOK, live, publisherVars, consumerVars, history
<1>9. ClientInv'
  <2>1. \A i \in 1 .. Len(buffer) : buffer[i].msg < m /\ buffer[i].msg \in Int
    BY <1>5 DEF ClientInv, Msgs
  <2>2. ASSUME NEW i \in 1 .. Len(buffer), NEW k \in Due', k < buffer[i].msg
        PROVE  \E j \in 1 .. i - 1 : buffer[j].msg = k
    <3>1. k # m
      BY <2>1, <2>2, <1>6
    <3>. QED
      BY <3>1, <2>2, <1>7 DEF ClientInv
  <2>. QED
    BY <2>2, <1>1, <1>7 DEF ClientInv, consumerVars, history
<1>10. AnsweredInv'
  BY <1>1, <1>7 DEF AnsweredInv
<1>11. SentInv'
  BY <1>1, <1>2, <1>7 DEF SentInv, publisherVars
<1>12. WireInv'
  <2>1. /\ Len(wire) \in Nat /\ Len(wire) > 0 /\ Len(wire') = Len(wire) - 1
        /\ \A i \in 1 .. Len(wire) - 1 : (wire')[i] = wire[i + 1]
    BY <1>1 DEF TypeOK
  <2>2. ASSUME NEW i \in 1 .. Len(wire'), NEW j \in 1 .. Len(wire'), i < j
        PROVE  (wire')[i] < (wire')[j]
    <3>1. i + 1 \in 1 .. Len(wire) /\ j + 1 \in 1 .. Len(wire) /\ i + 1 < j + 1
      BY <2>1, <2>2
    <3>. QED
      BY <3>1, <2>1 DEF WireInv
  <2>3. \A h \in Held', k \in Frames(wire') : h < k
    BY <1>2, <1>6, <1>7 DEF WireInv
  <2>. QED
    BY <2>2, <2>3 DEF WireInv
<1>13. OrderInv'
  <2>1. Overtakes(Msgs(queue), {d.msg}, failed) /\ Overtakes(Msgs(unacked), {m}, failed)
    BY <1>3, <1>5, <1>6 DEF Overtakes, Held
  <2>2. InOrder(queue', failed)
    BY <2>1, <1>1, <1>3, OrderAppend DEF OrderInv, TypeOK
  <2>3. Overtakes(Msgs(unacked), Msgs(queue'), failed)
    BY <2>1, <1>4 DEF OrderInv, Overtakes
  <2>. QED
    BY <2>2, <2>3, <1>1, <1>7 DEF OrderInv
<1>14. RowsInv'
  BY <1>1, <1>2, <1>7 DEF RowsInv, Overtakes, history
<1>15. SomewhereInv'
  BY <1>1, <1>2, <1>7 DEF SomewhereInv, publisherVars, history
<1>16. OvertakenOnlyAfterFailure'
  BY <1>1, <1>7, TableSame DEF history
<1>. QED
  BY <1>8, <1>9, <1>10, <1>11, <1>12, <1>13, <1>14, <1>15, <1>16

\* The first of the queue becomes the last delivery at the client: what is due
\* before it is at the client already.
LEMMA DeliverIInv ==
  ASSUME IInv, Deliver
  PROVE  IInv'
<1>. USE DEF IInv
<1>. DEFINE d == Head(queue)
<1>1. /\ live /\ queue # <<>>
      /\ unacked' = Append(unacked, d) /\ buffer' = Append(buffer, d) /\ queue' = Tail(queue)
      /\ UNCHANGED <<publisherVars, channel, wire, answers, subscription, stage, rows,
                     breaks, history>>
  BY DEF Deliver
<1>2. /\ d \in Delivery /\ queue' \in Seq(Delivery)
      /\ Msgs(queue) = {d.msg} \cup Msgs(queue')
  BY <1>1, MsgsHead DEF TypeOK
<1>3. InOrder(queue', failed) /\ Overtakes({d.msg}, Msgs(queue), failed)
  BY <1>1, OrderHead DEF OrderInv, TypeOK
<1>. HIDE DEF d
<1>4. /\ unacked' \in Seq(Delivery) /\ Msgs(unacked') = Msgs(unacked) \cup {d.msg}
      /\ buffer' \in Seq(Delivery) /\ Msgs(buffer') = Msgs(buffer) \cup {d.msg}
  BY <1>1, <1>2, MsgsAppend DEF TypeOK
<1>5. Held' = Held /\ failed' = failed /\ Due' = Due
  BY <1>1, <1>2, <1>4 DEF Held, Due, history
<1>6. /\ Len(unacked) \in Nat /\ Len(answers) \in Nat /\ Len(buffer) \in Nat
      /\ Len(unacked) = Len(answers) + Len(buffer)
      /\ Len(unacked') = Len(unacked) + 1 /\ (unacked')[Len(unacked) + 1] = d
      /\ Len(buffer') = Len(buffer) + 1 /\ (buffer')[Len(buffer) + 1] = d
      /\ \A i \in 1 .. Len(unacked) : (unacked')[i] = unacked[i]
      /\ \A i \in 1 .. Len(buffer) : (buffer')[i] = buffer[i]
      /\ \A i \in 1 .. Len(buffer) : buffer[i] = unacked[Len(answers) + i]
  BY <1>1 DEF TypeOK
<1>7. TypeOK'
  <2>1. \A i \in 1 .. Len(buffer') : (buffer')[i] = (unacked')[Len(answers) + i]
    <3>. TAKE i \in 1 .. Len(buffer')
    <3>1. CASE i \in 1 .. Len(buffer)
      BY <3>1, <1>6
    <3>2. CASE i = Len(buffer) + 1
      BY <3>2, <1>6
    <3>. QED
      BY <3>1, <3>2, <1>6
  <2>2. Len(unacked') = Len(answers) + Len(buffer') /\ buffer' # <<>>
    BY <1>6
  <2>3. live' /\ subscription' # "none"
    BY <1>1 DEF live
  <2>. QED
    BY <2>1, <2>2, <2>3, <1>1, <1>2, <1>4 DEF TypeOK, live, publisherVars, history
<1>8. ClientInv'
  <2>1. Msgs(buffer') \subseteq Held'
    BY <1>2, <1>4, <1>5 DEF ClientInv, Held
  <2>2. stage # "waiting" => (buffer')[1] = buffer[1]
    <3>1. stage # "waiting" => buffer # <<>> /\ buffer \in Seq(Delivery)
      BY DEF TypeOK
    <3>2. stage # "waiting" => Len(buffer) > 0
      BY <3>1, EmptySeq
    <3>. QED
      BY <3>2, <1>6
  <2>3. ASSUME NEW i \in 1 .. Len(buffer'), NEW k \in Due, k < (buffer')[i].msg
        PROVE  \E j \in 1 .. i - 1 : (buffer')[j].msg = k
    <3>1. CASE i \in 1 .. Len(buffer)
      <4>1. PICK j \in 1 .. i - 1 : buffer[j].msg = k
        BY <3>1, <2>3, <1>6 DEF ClientInv
      <4>2. j \in 1 .. Len(buffer)
        BY <3>1, <1>6
      <4>3. (buffer')[j] = buffer[j]
        BY <4>2, <1>6
      <4>. QED
        BY <4>1, <4>3
    <3>2. CASE i = Len(buffer) + 1
      <4>1. k \notin Msgs(queue)
        <5>1. k \in Int /\ d.msg \in Int
          <6>1. k \in Held /\ Held \subseteq Messages
            BY MsgsType DEF Due, Held, TypeOK
          <6>. QED
            BY <6>1, <1>2 DEF Messages, Delivery
        <5>. QED
          BY <5>1, <2>3, <3>2, <1>3, <1>6 DEF Overtakes, Due
      <4>2. PICK p \in 1 .. Len(unacked) : unacked[p].msg = k
        BY <4>1 DEF Due, Held, Msgs
      <4>3. ~(p \in 1 .. Len(answers))
        BY <4>2 DEF AnsweredInv, Due
      <4>4. p - Len(answers) \in 1 .. Len(buffer) /\ p = Len(answers) + (p - Len(answers))
        BY <4>3, <1>6
      <4>5. (buffer')[p - Len(answers)].msg = k
        BY <4>2, <4>4, <1>6
      <4>. QED
        BY <4>4, <4>5, <3>2
    <3>. QED
      BY <3>1, <3>2, <1>6
  <2>. QED
    BY <2>1, <2>2, <2>3, <1>1, <1>5 DEF ClientInv
<1>9. AnsweredInv'
  BY <1>1, <1>5, <1>6 DEF AnsweredInv
<1>10. SentInv' /\ WireInv' /\ RowsInv' /\ SomewhereInv'
  BY <1>1, <1>5 DEF SentInv, WireInv, RowsInv, SomewhereInv, publisherVars, history
<1>11. OrderInv'
  <2>1. Overtakes(Msgs(unacked), {d.msg}, failed)
    BY <1>2 DEF OrderInv, Overtakes
  <2>2. InOrder(unacked', failed)
    BY <2>1, <1>1, <1>2, OrderAppend DEF OrderInv, TypeOK
  <2>3. Overtakes(Msgs(unacked'), Msgs(queue'), failed)
    BY <1>2, <1>3, <1>4 DEF OrderInv, Overtakes
  <2>. QED
    BY <2>2, <2>3, <1>3, <1>5 DEF OrderInv
<1>12. OvertakenOnlyAfterFailure'
  BY <1>1, <1>5, TableSame DEF history
<1>. QED
  BY <1>7, <1>8, <1>9, <1>10, <1>11, <1>12

\* The first answer settles the first delivery: stored, back in front of the
\* queue and excused by its failure, or given up.
LEMMA SettleIInv ==
  ASSUME IInv, Settle
  PROVE  IInv'
<1>. USE DEF IInv
<1>. DEFINE h == Head(unacked)
            d == Redelivered(h)
            a == Head(answers)
<1>1. /\ answers # <<>> /\ answers' = Tail(answers) /\ unacked' = Tail(unacked)
      /\ queue' = IF a = "requeue" THEN <<d>> \o queue ELSE queue
      /\ lost' = IF a = "drop" THEN [lost EXCEPT ![h.msg] = "poison"] ELSE lost
      /\ UNCHANGED <<publisherVars, channel, wire, consumerVars, rows, breaks, direct, failed, doubtful>>
  BY DEF Settle
<1>2. /\ live /\ Len(answers) \in Nat /\ Len(unacked) \in Nat /\ Len(buffer) \in Nat
      /\ Len(answers) > 0 /\ Len(unacked) = Len(answers) + Len(buffer)
      /\ \A i \in 1 .. Len(buffer) : buffer[i] = unacked[Len(answers) + i]
  BY <1>1 DEF TypeOK
<1>3. unacked # <<>>
  BY <1>2
<1>4. /\ h = unacked[1] /\ Len(unacked') = Len(unacked) - 1
      /\ \A i \in 1 .. Len(unacked) - 1 : (unacked')[i] = unacked[i + 1]
      /\ a = answers[1] /\ a \in Answers /\ Len(answers') = Len(answers) - 1
      /\ \A i \in 1 .. Len(answers) - 1 : (answers')[i] = answers[i + 1]
      /\ answers' \in Seq(Answers)
  BY <1>1, <1>3 DEF TypeOK
<1>5. /\ h \in Delivery /\ unacked' \in Seq(Delivery)
      /\ Msgs(unacked) = {h.msg} \cup Msgs(unacked') /\ InOrder(unacked', failed)
  BY <1>1, <1>3, MsgsHead, OrderHead DEF TypeOK, OrderInv
<1>6. d \in Delivery /\ d.msg = h.msg /\ h.msg \in Messages
  BY <1>5 DEF Redelivered, Delivery
<1>7. h.msg \in IF a = "ack" THEN Frames(rows) ELSE failed
  <2>1. 1 \in 1 .. Len(answers)
    BY <1>2
  <2>. QED
    BY <2>1, <1>4 DEF AnsweredInv
<1>. HIDE DEF h, d, a
<1>8. /\ queue' \in Seq(Delivery) /\ InOrder(queue', failed)
      /\ Msgs(queue') = Msgs(queue) \cup (IF a = "requeue" THEN {h.msg} ELSE {})
  <2>1. CASE a = "requeue"
    <3>1. <<d>> \in Seq(Delivery) /\ Msgs(<<d>>) = {h.msg} /\ InOrder(<<d>>, failed)
      BY <1>6 DEF Msgs, InOrder
    <3>2. Overtakes({h.msg}, Msgs(queue), failed)
      BY <1>5 DEF OrderInv, Overtakes
    <3>3. queue' = <<d>> \o queue /\ queue \in Seq(Delivery) /\ InOrder(queue, failed)
      BY <2>1, <1>1 DEF OrderInv, TypeOK
    <3>4. queue' \in Seq(Delivery) /\ Msgs(queue') = {h.msg} \cup Msgs(queue)
      BY <3>1, <3>3, MsgsConcat
    <3>5. InOrder(queue', failed)
      BY <3>1, <3>2, <3>3, OrderConcat
    <3>. QED
      BY <2>1, <3>4, <3>5
  <2>2. CASE a # "requeue"
    <3>1. queue' = queue
      BY <2>2, <1>1
    <3>. QED
      BY <2>2, <3>1 DEF OrderInv, TypeOK
  <2>. QED
    BY <2>1, <2>2
<1>9. /\ Held' \subseteq Held
      /\ Held \subseteq Held' \cup (IF a = "requeue" THEN {} ELSE {h.msg})
      /\ failed' = failed
  BY <1>1, <1>5, <1>8 DEF Held
<1>10. Due' \subseteq Due
  BY <1>1, <1>9 DEF Due
<1>11. /\ lost' \in [Messages -> {"nowhere", "wire", "database", "poison"}]
       /\ \A m \in Messages : lost[m] # "nowhere" => (lost')[m] # "nowhere"
       /\ a = "drop" => (lost')[h.msg] = "poison"
  BY <1>1, <1>6 DEF TypeOK
<1>12. TypeOK'
  <2>1. Len(unacked') = Len(answers') + Len(buffer)
    BY <1>2, <1>4
  <2>2. \A i \in 1 .. Len(buffer) : buffer[i] = (unacked')[Len(answers') + i]
    <3>. TAKE i \in 1 .. Len(buffer)
    <3>1. Len(answers') + i \in 1 .. Len(unacked) - 1 /\ (Len(answers') + i) + 1 = Len(answers) + i
      BY <1>2, <1>4
    <3>. QED
      BY <3>1, <1>2, <1>4
  <2>3. live'
    BY <1>1, <1>2 DEF live, consumerVars
  <2>. QED
    BY <2>1, <2>2, <2>3, <1>1, <1>4, <1>5, <1>8, <1>11 DEF TypeOK, live, publisherVars, consumerVars
<1>13. ClientInv'
  <2>1. ASSUME NEW i \in 1 .. Len(buffer)
        PROVE  buffer[i].msg \in Held'
    <3>1. Len(answers) + i - 1 \in 1 .. Len(unacked) - 1
          /\ (Len(answers) + i - 1) + 1 = Len(answers) + i
      BY <1>2
    <3>2. (unacked')[Len(answers) + i - 1] = buffer[i]
      BY <3>1, <1>2, <1>4
    <3>. QED
      BY <3>1, <3>2, <1>4 DEF Held, Msgs
  <2>2. Msgs(buffer) \subseteq Held'
    BY <2>1 DEF Msgs
  <2>. QED
    BY <2>2, <1>1, <1>9, <1>10 DEF ClientInv, consumerVars
<1>14. AnsweredInv'
  <2>. SUFFICES ASSUME NEW i \in 1 .. Len(answers')
                PROVE  (unacked')[i].msg \in IF (answers')[i] = "ack" THEN Frames(rows) ELSE failed
    BY <1>1, <1>9 DEF AnsweredInv
  <2>1. /\ i + 1 \in 1 .. Len(answers) /\ (answers')[i] = answers[i + 1]
        /\ (unacked')[i] = unacked[i + 1]
    BY <1>2, <1>4
  <2>. QED
    BY <2>1 DEF AnsweredInv
<1>15. SentInv' /\ WireInv'
  BY <1>1, <1>9 DEF SentInv, WireInv, publisherVars
<1>16. OrderInv'
  <2>1. Overtakes(Msgs(unacked'), Msgs(queue'), failed)
    BY <1>5, <1>7, <1>8 DEF OrderInv, Overtakes
  <2>. QED
    BY <2>1, <1>5, <1>8, <1>9 DEF OrderInv
<1>17. RowsInv'
  BY <1>1, <1>10 DEF RowsInv, Overtakes
<1>18. SomewhereInv'
  <2>1. \A m \in 1 .. sent : m \in Messages
    BY PersistenceAssumption DEF TypeOK, Messages, PersistenceAssumption
  <2>2. h.msg \in Held' \cup Frames(rows) \/ (lost')[h.msg] # "nowhere"
    BY <1>4, <1>7, <1>8, <1>11 DEF Answers, Held
  <2>. QED
    BY <2>1, <2>2, <1>1, <1>9, <1>11 DEF SomewhereInv, publisherVars
<1>19. OvertakenOnlyAfterFailure'
  BY <1>1, <1>9, TableSame
<1>. QED
  BY <1>12, <1>13, <1>14, <1>15, <1>16, <1>17, <1>18, <1>19
-----------------------------------------------------------------------------
(* The order in the steps of the consumer *)

LEMMA TakeIInv ==
  ASSUME IInv, Take \/ Notice
  PROVE  IInv'
<1>. USE DEF IInv
<1>1. /\ UNCHANGED <<publisherVars, brokerVars, rows, breaks, history>>
      /\ \/ /\ buffer # <<>> /\ stage' = "handling" /\ buffer' = buffer
            /\ subscription' = subscription
         \/ /\ ~live /\ subscription' = "none" /\ buffer' = <<>> /\ stage' = "waiting"
  BY DEF Take, Notice, live
<1>2. /\ Held' = Held /\ failed' = failed /\ Due' = Due
      /\ AnsweredInv' /\ OrderInv' /\ OvertakenOnlyAfterFailure'
  BY <1>1, Untouched DEF brokerVars, history
<1>3. TypeOK' /\ ClientInv'
  <2>1. CASE buffer # <<>> /\ stage' = "handling" /\ buffer' = buffer /\ subscription' = subscription
    BY <2>1, <1>1, <1>2 DEF TypeOK, ClientInv, live, publisherVars, brokerVars, history
  <2>2. CASE ~live /\ subscription' = "none" /\ buffer' = <<>> /\ stage' = "waiting"
    <3>1. ~live' /\ unacked' = <<>> /\ answers' = <<>>
      BY <2>2, <1>1 DEF TypeOK, live, brokerVars
    <3>2. buffer' \in Seq(Delivery) /\ Len(buffer') = 0 /\ Msgs(buffer') = {}
      BY <2>2, MsgsEmpty
    <3>3. ClientInv'
      BY <2>2, <3>2 DEF ClientInv
    <3>. QED
      BY <2>2, <3>1, <3>2, <3>3, <1>1 DEF TypeOK, publisherVars, brokerVars, history
  <2>. QED
    BY <1>1, <2>1, <2>2
<1>4. SentInv' /\ WireInv' /\ RowsInv' /\ SomewhereInv'
  BY <1>1, <1>2
     DEF SentInv, WireInv, RowsInv, SomewhereInv, publisherVars, brokerVars, history
<1>. QED
  BY <1>2, <1>3, <1>4

\* What the consumer has in hand is not later than anything that is due.
LEMMA InHandFirst ==
  ASSUME IInv, stage # "waiting"
  PROVE  /\ inHand = buffer[1] /\ inHand \in Delivery /\ inHand.msg \in Messages
         /\ inHand.msg \in Held /\ Len(buffer) \in Nat /\ Len(buffer) > 0
         /\ \A k \in Due : ~(k < inHand.msg)
<1>. USE DEF IInv
<1>1. /\ buffer \in Seq(Delivery) /\ buffer # <<>>
  BY DEF TypeOK
<1>2. inHand = buffer[1] /\ inHand \in Delivery /\ Len(buffer) \in Nat /\ Len(buffer) > 0
  BY <1>1 DEF inHand
<1>3. inHand.msg \in Messages /\ inHand.msg \in Msgs(buffer)
  BY <1>2 DEF Delivery, Msgs
<1>4. \A k \in Due : ~(k < inHand.msg)
  <2>1. 1 \in 1 .. Len(buffer) /\ 1 .. 1 - 1 = {}
    BY <1>2
  <2>. QED
    BY <2>1, <1>2 DEF ClientInv
<1>. QED
  BY <1>2, <1>3, <1>4 DEF ClientInv

\* The message is written, or its failure excuses what comes before it from now on.
LEMMA HandleIInv ==
  ASSUME IInv, NEW ok \in BOOLEAN, Handle(ok)
  PROVE  IInv'
<1>. USE DEF IInv
<1>. DEFINE m == inHand.msg
<1>1. /\ stage = "handling"
      /\ Write(m, ok)
      /\ stage' = IF ok THEN "acking" ELSE "nacking"
      /\ UNCHANGED <<publisherVars, brokerVars, subscription, buffer, breaks, direct, lost>>
  BY DEF Handle
<1>2. /\ m = buffer[1].msg /\ m \in Messages /\ m \in Held
      /\ \A k \in Due : ~(k < m)
  BY <1>1, InHandFirst
<1>. HIDE DEF m
<1>3. /\ rows' = Append(rows, m) \/ (~ok /\ rows' = rows)
      /\ rows' \in Seq(Messages)
      /\ Frames(rows) \subseteq Frames(rows') /\ Frames(rows') \subseteq Frames(rows) \cup {m}
      /\ ok => m \in Frames(rows')
  BY <1>1, <1>2, WriteTable
<1>4. /\ failed' = IF ok THEN failed ELSE failed \cup {m}
      /\ failed \subseteq failed' /\ failed' \subseteq Messages
      /\ doubtful' \in [Messages -> Nat]
  BY <1>1, <1>2, WriteTable
<1>5. Held' = Held /\ Due' \subseteq Due
  BY <1>1, <1>3, <1>4 DEF Held, Due, brokerVars
<1>6. TypeOK'
  BY <1>1, <1>3, <1>4 DEF TypeOK, live, publisherVars, brokerVars
<1>7. ClientInv'
  <2>1. stage' = "acking" => m \in Frames(rows')
    BY <1>1, <1>3
  <2>2. stage' = "nacking" => m \in failed'
    BY <1>1, <1>4
  <2>. QED
    BY <2>1, <2>2, <1>1, <1>2, <1>5 DEF ClientInv
<1>8. AnsweredInv'
  BY <1>1, <1>3, <1>4 DEF AnsweredInv, brokerVars
<1>9. SentInv'
  BY <1>1, <1>2, <1>3, <1>5 DEF SentInv, publisherVars, brokerVars
<1>10. WireInv'
  BY <1>1, <1>5 DEF WireInv, brokerVars
<1>11. OrderInv'
  BY <1>1, <1>4, Excuses DEF OrderInv, brokerVars
<1>12. RowsInv'
  <2>1. Overtakes({m}, Frames(wire), {})
    <3>1. \A k \in Frames(wire) : m < k /\ k \in 1 .. sent
      BY <1>2 DEF WireInv, SentInv
    <3>. QED
      BY <3>1, <1>2 DEF Overtakes, Messages
  <2>2. Overtakes({m}, Due, {})
    <3>1. \A k \in Due : k \in Int
      BY MsgsType DEF Due, Held, TypeOK, Messages
    <3>. QED
      BY <3>1, <1>2 DEF Overtakes, Messages
  <2>. QED
    BY <2>1, <2>2, <1>1, <1>3, <1>5 DEF RowsInv, Overtakes, brokerVars
<1>13. SomewhereInv'
  BY <1>1, <1>3, <1>5 DEF SomewhereInv, publisherVars, brokerVars
<1>14. OvertakenOnlyAfterFailure'
  <2>1. CASE rows' = Append(rows, m)
    <3>1. m \notin Frames(rows) => Overtakes(Frames(rows) \ direct, {m}, failed)
      BY <1>2 DEF RowsInv, Overtakes, Due
    <3>. QED
      BY <2>1, <3>1, <1>1, <1>2, <1>4, TableGrows
  <2>2. CASE rows' = rows
    BY <2>2, <1>1, <1>4, TableSame
  <2>. QED
    BY <1>3, <2>1, <2>2
<1>. QED
  BY <1>6, <1>7, <1>8, <1>9, <1>10, <1>11, <1>12, <1>13, <1>14

\* An answer goes on its way, or nowhere; the next delivery at the client is
\* the first.
LEMMA AnswerIInv ==
  ASSUME IInv, stage # "waiting", NEW a \in Answers, Answer(a),
         inHand.msg \in IF a = "ack" THEN Frames(rows) ELSE failed
  PROVE  IInv'
<1>. USE DEF IInv
<1>1. /\ answers' = IF live THEN Append(answers, a) ELSE answers
      /\ buffer' = Tail(buffer) /\ stage' = "waiting"
      /\ UNCHANGED <<publisherVars, channel, wire, queue, unacked, subscription, rows,
                     breaks, history>>
  BY DEF Answer
<1>2. /\ inHand = buffer[1] /\ Len(buffer) \in Nat /\ Len(buffer) > 0
      /\ Len(unacked) \in Nat /\ Len(answers) \in Nat
  BY InHandFirst DEF TypeOK
<1>3. /\ buffer' \in Seq(Delivery) /\ Len(buffer') = Len(buffer) - 1
      /\ \A i \in 1 .. Len(buffer) - 1 : (buffer')[i] = buffer[i + 1]
      /\ Msgs(buffer') \subseteq Msgs(buffer)
  BY <1>1, <1>2, MsgsHead DEF TypeOK
<1>4. Held' = Held /\ failed' = failed /\ Due' = Due
  BY <1>1 DEF Held, Due, history
<1>5. /\ live => /\ Len(answers') = Len(answers) + 1 /\ (answers')[Len(answers) + 1] = a
                 /\ \A i \in 1 .. Len(answers) : (answers')[i] = answers[i]
                 /\ Len(unacked) = Len(answers) + Len(buffer)
                 /\ \A i \in 1 .. Len(buffer) : buffer[i] = unacked[Len(answers) + i]
      /\ ~live => answers' = <<>>
      /\ answers' \in Seq(Answers)
  BY <1>1 DEF TypeOK
<1>6. TypeOK'
  <2>1. ASSUME live
        PROVE  /\ Len(unacked) = Len(answers') + Len(buffer')
               /\ \A i \in 1 .. Len(buffer') : (buffer')[i] = unacked[Len(answers') + i]
    <3>0. /\ Len(answers') = Len(answers) + 1 /\ Len(unacked) = Len(answers) + Len(buffer)
          /\ Len(buffer') = Len(buffer) - 1 /\ Len(answers) \in Nat /\ Len(buffer) \in Nat
          /\ \A i \in 1 .. Len(buffer) : buffer[i] = unacked[Len(answers) + i]
      BY <2>1, <1>2, <1>3, <1>5
    <3>1. Len(unacked) = Len(answers') + Len(buffer')
      BY <3>0
    <3>2. ASSUME NEW i \in 1 .. Len(buffer')
          PROVE  (buffer')[i] = unacked[Len(answers') + i]
      <4>1. i + 1 \in 1 .. Len(buffer) /\ i \in 1 .. Len(buffer) - 1
            /\ Len(answers) + (i + 1) = Len(answers') + i
        BY <3>0
      <4>. QED
        BY <4>1, <3>0, <1>3
    <3>. QED
      BY <3>1, <3>2
  <2>2. live' <=> live
    BY <1>1 DEF live
  <2>3. subscription # "none"
    BY <1>2 DEF TypeOK
  <2>. QED
    BY <2>1, <2>2, <2>3, <1>1, <1>3, <1>5 DEF TypeOK, publisherVars, history
<1>7. ClientInv'
  <2>1. inHand.msg \notin Due
    BY DEF Due
  <2>2. ASSUME NEW i \in 1 .. Len(buffer'), NEW k \in Due, k < (buffer')[i].msg
        PROVE  \E j \in 1 .. i - 1 : (buffer')[j].msg = k
    <3>1. i + 1 \in 1 .. Len(buffer) /\ i \in 1 .. Len(buffer) - 1
      BY <1>2, <1>3
    <3>2. PICK j \in 1 .. (i + 1) - 1 : buffer[j].msg = k
      BY <3>1, <2>2, <1>3 DEF ClientInv
    <3>3. j # 1
      BY <3>2, <2>1, <2>2, <1>2
    <3>4. j - 1 \in 1 .. i - 1 /\ j - 1 \in 1 .. Len(buffer) - 1 /\ (j - 1) + 1 = j
      BY <3>1, <3>3
    <3>5. (buffer')[j - 1] = buffer[j]
      BY <3>4, <1>3
    <3>. QED
      BY <3>2, <3>4, <3>5
  <2>. QED
    BY <2>2, <1>1, <1>3, <1>4 DEF ClientInv
<1>8. AnsweredInv'
  <2>1. CASE live
    <3>. SUFFICES ASSUME NEW i \in 1 .. Len(answers')
                  PROVE  unacked[i].msg \in IF (answers')[i] = "ack" THEN Frames(rows) ELSE failed
      BY <1>1, <1>4 DEF AnsweredInv
    <3>1. CASE i \in 1 .. Len(answers)
      BY <3>1, <2>1, <1>5 DEF AnsweredInv
    <3>2. CASE i = Len(answers) + 1
      <4>1. buffer[1] = unacked[i] /\ (answers')[i] = a
        BY <3>2, <2>1, <1>2, <1>5
      <4>. QED
        BY <4>1, <1>2
    <3>. QED
      BY <3>1, <3>2, <2>1, <1>2, <1>5
  <2>2. CASE ~live
    BY <2>2, <1>5 DEF AnsweredInv
  <2>. QED
    BY <2>1, <2>2
<1>9. SentInv' /\ WireInv' /\ OrderInv' /\ RowsInv' /\ SomewhereInv'
  BY <1>1, <1>4
     DEF SentInv, WireInv, OrderInv, RowsInv, SomewhereInv, publisherVars, history
<1>10. OvertakenOnlyAfterFailure'
  BY <1>1, <1>4, TableSame DEF history
<1>. QED
  BY <1>6, <1>7, <1>8, <1>9, <1>10

LEMMA NextIInv == IInv /\ [Next]_vars => IInv'
<1>. SUFFICES ASSUME IInv, [Next]_vars
              PROVE  IInv'
  OBVIOUS
<1>1. CASE Publish
  BY <1>1, PublishIInv
<1>2. CASE PublishFails
  BY <1>2, PublishFailsIInv
<1>3. CASE \E ok \in BOOLEAN : PersistDirectly(ok)
  BY <1>3, PersistDirectlyIInv
<1>4. CASE Reconnect \/ Closes
  BY <1>4, ReconnectIInv
<1>5. CASE Break
  BY <1>5, BreakIInv
<1>6. CASE Arrive
  BY <1>6, ArriveIInv
<1>7. CASE Deliver
  BY <1>7, DeliverIInv
<1>8. CASE Settle
  BY <1>8, SettleIInv
<1>9. CASE Consumer
  <2>1. CASE Subscribe
    BY <2>1, ReconnectIInv
  <2>2. CASE Take \/ Notice
    BY <2>2, TakeIInv
  <2>3. CASE \E ok \in BOOLEAN : Handle(ok)
    BY <2>3, HandleIInv
  <2>4. ASSUME stage \in {"acking", "nacking"}
        PROVE  inHand = buffer[1]
    BY <2>4, InHandFirst
  <2>5. CASE Ack
    BY <2>5, <2>4, AnswerIInv DEF Ack, Answers, IInv, ClientInv
  <2>6. CASE Requeue
    BY <2>6, <2>4, AnswerIInv DEF Requeue, Answers, IInv, ClientInv
  <2>7. CASE Drop
    BY <2>7, <2>4, AnswerIInv DEF Drop, Answers, IInv, ClientInv
  <2>. QED
    BY <1>9, <2>1, <2>2, <2>3, <2>5, <2>6, <2>7 DEF Consumer
<1>10. CASE UNCHANGED vars
  <2>1. UNCHANGED <<sent, persisting, channel, wire, queue, unacked, answers, subscription,
                    buffer, stage, rows, breaks, direct, failed, lost,
                    doubtful>>
    BY <1>10 DEF vars, publisherVars, brokerVars, consumerVars, history
  <2>2. /\ Held' = Held /\ Due' = Due
        /\ AnsweredInv' /\ OrderInv' /\ OvertakenOnlyAfterFailure'
    BY <2>1, Untouched
  <2>3. failed' = failed
    BY <2>1
  <2>. QED
    BY <2>1, <2>2, <2>3
       DEF IInv, TypeOK, live, ClientInv, SentInv, WireInv, RowsInv, SomewhereInv
<1>11. CASE Over
  BY <1>10, <1>11 DEF Over
<1>. QED
  BY <1>1, <1>2, <1>3, <1>4, <1>5, <1>6, <1>7, <1>8, <1>9, <1>10, <1>11 DEF Next
-----------------------------------------------------------------------------
(* Copies: a delivery is held once *)

\* No message twice in a sequence of deliveries.
Distinct(s) == \A i, j \in 1 .. Len(s) : s[i].msg = s[j].msg => i = j

\* The broker holds a message once, and so does the client.
DistinctInv == /\ Distinct(unacked) /\ Distinct(queue) /\ Distinct(buffer)
               /\ Msgs(unacked) \cap Msgs(queue) = {}

LEMMA DistinctHead ==
  ASSUME NEW s \in Seq(Delivery), s # <<>>, Distinct(s)
  PROVE  Distinct(Tail(s)) /\ Head(s).msg \notin Msgs(Tail(s))
<1>1. /\ Len(s) \in Nat /\ Len(s) > 0 /\ Head(s) = s[1] /\ Len(Tail(s)) = Len(s) - 1
      /\ \A i \in 1 .. Len(s) - 1 : Tail(s)[i] = s[i + 1]
  OBVIOUS
<1>2. ASSUME NEW i \in 1 .. Len(Tail(s)), NEW j \in 1 .. Len(Tail(s)),
             Tail(s)[i].msg = Tail(s)[j].msg
      PROVE  i = j
  <2>1. i + 1 \in 1 .. Len(s) /\ j + 1 \in 1 .. Len(s) /\ s[i + 1].msg = s[j + 1].msg
    BY <1>1, <1>2
  <2>2. i + 1 = j + 1
    BY <2>1 DEF Distinct
  <2>. QED
    BY <2>2
<1>3. ASSUME NEW i \in 1 .. Len(Tail(s)), Tail(s)[i].msg = Head(s).msg
      PROVE  FALSE
  <2>1. i + 1 \in 1 .. Len(s) /\ 1 \in 1 .. Len(s) /\ s[i + 1].msg = s[1].msg
    BY <1>1, <1>3
  <2>2. i + 1 = 1
    BY <2>1 DEF Distinct
  <2>. QED
    BY <2>2
<1>. QED
  BY <1>2, <1>3 DEF Distinct, Msgs

LEMMA DistinctAppend ==
  ASSUME NEW s \in Seq(Delivery), NEW d \in Delivery, Distinct(s), d.msg \notin Msgs(s)
  PROVE  Distinct(Append(s, d))
<1>1. /\ Len(Append(s, d)) = Len(s) + 1 /\ Len(s) \in Nat
      /\ \A i \in 1 .. Len(s) : Append(s, d)[i] = s[i]
      /\ Append(s, d)[Len(s) + 1] = d
  OBVIOUS
<1>2. \A i \in 1 .. Len(s) : s[i].msg # d.msg
  BY DEF Msgs
<1>3. \A i \in 1 .. Len(s) + 1 : i \in 1 .. Len(s) \/ i = Len(s) + 1
  BY <1>1
<1>. QED
  BY <1>1, <1>2, <1>3 DEF Distinct

LEMMA DistinctConcat ==
  ASSUME NEW s \in Seq(Delivery), NEW t \in Seq(Delivery), Distinct(s), Distinct(t),
         Msgs(s) \cap Msgs(t) = {}
  PROVE  Distinct(s \o t)
<1>1. /\ Len(s \o t) = Len(s) + Len(t) /\ Len(s) \in Nat /\ Len(t) \in Nat
      /\ \A i \in 1 .. Len(s) + Len(t) :
           (s \o t)[i] = IF i <= Len(s) THEN s[i] ELSE t[i - Len(s)]
  BY ConcatProperties
<1>. SUFFICES ASSUME NEW i \in 1 .. Len(s \o t), NEW j \in 1 .. Len(s \o t),
                     (s \o t)[i].msg = (s \o t)[j].msg
              PROVE  i = j
  BY DEF Distinct
<1>2. CASE i <= Len(s) /\ j <= Len(s)
  <2>1. i \in 1 .. Len(s) /\ j \in 1 .. Len(s) /\ (s \o t)[i] = s[i] /\ (s \o t)[j] = s[j]
    BY <1>1, <1>2
  <2>. QED
    BY <2>1 DEF Distinct
<1>3. CASE ~(i <= Len(s)) /\ ~(j <= Len(s))
  <2>1. /\ i - Len(s) \in 1 .. Len(t) /\ j - Len(s) \in 1 .. Len(t)
        /\ (s \o t)[i] = t[i - Len(s)] /\ (s \o t)[j] = t[j - Len(s)]
    BY <1>1, <1>3
  <2>2. i - Len(s) = j - Len(s)
    BY <2>1 DEF Distinct
  <2>. QED
    BY <2>2, <1>1
<1>4. ASSUME NEW p \in 1 .. Len(s), NEW q \in 1 .. Len(s \o t), ~(q <= Len(s))
      PROVE  (s \o t)[p].msg # (s \o t)[q].msg
  <2>1. /\ q - Len(s) \in 1 .. Len(t) /\ (s \o t)[q] = t[q - Len(s)] /\ (s \o t)[p] = s[p]
    BY <1>1, <1>4
  <2>2. s[p].msg \in Msgs(s) /\ t[q - Len(s)].msg \in Msgs(t)
    BY <2>1 DEF Msgs
  <2>. QED
    BY <2>1, <2>2
<1>5. CASE i <= Len(s) /\ ~(j <= Len(s))
  <2>1. i \in 1 .. Len(s)
    BY <1>1, <1>5
  <2>. QED
    BY <2>1, <1>4, <1>5
<1>6. CASE ~(i <= Len(s)) /\ j <= Len(s)
  <2>1. j \in 1 .. Len(s)
    BY <1>1, <1>6
  <2>. QED
    BY <2>1, <1>4, <1>6
<1>. QED
  BY <1>2, <1>3, <1>5, <1>6

\* On a live subscription the client holds what the broker has no answer for.
LEMMA BufferUnacked ==
  ASSUME TypeOK, live
  PROVE  /\ Msgs(buffer) \subseteq Msgs(unacked)
         /\ \A i \in 1 .. Len(answers) : i \in 1 .. Len(unacked)
<1>1. /\ Len(answers) \in Nat /\ Len(buffer) \in Nat
      /\ Len(unacked) = Len(answers) + Len(buffer)
      /\ \A i \in 1 .. Len(buffer) : buffer[i] = unacked[Len(answers) + i]
  BY DEF TypeOK
<1>2. \A i \in 1 .. Len(buffer) : Len(answers) + i \in 1 .. Len(unacked)
  BY <1>1
<1>. QED
  BY <1>1, <1>2 DEF Msgs

LEMMA NextDistinct == IInv /\ DistinctInv /\ [Next]_vars => DistinctInv'
<1>. SUFFICES ASSUME IInv, DistinctInv, [Next]_vars
              PROVE  DistinctInv'
  OBVIOUS
<1>. USE DEF IInv
<1>1. /\ queue \in Seq(Delivery) /\ unacked \in Seq(Delivery) /\ buffer \in Seq(Delivery)
      /\ wire \in Seq(Messages)
  BY DEF TypeOK
<1>2. CASE UNCHANGED <<queue, unacked, buffer>>
  BY <1>2 DEF DistinctInv
<1>3. CASE Break
  <2>1. unacked' = <<>> /\ buffer' = buffer /\ queue' = Returned(unacked) \o queue
    BY <1>3 DEF Break
  <2>2. /\ Returned(unacked) \in Seq(Delivery) /\ Msgs(Returned(unacked)) = Msgs(unacked)
        /\ Distinct(Returned(unacked))
    <3>1. /\ Returned(unacked) \in Seq(Delivery) /\ Len(Returned(unacked)) = Len(unacked)
          /\ Msgs(Returned(unacked)) = Msgs(unacked)
          /\ \A i \in 1 .. Len(unacked) : Returned(unacked)[i].msg = unacked[i].msg
      BY <1>1, MarkSame
    <3>. QED
      BY <3>1 DEF Distinct, DistinctInv
  <2>3. Distinct(queue')
    BY <2>1, <2>2, <1>1, DistinctConcat DEF DistinctInv
  <2>4. Distinct(unacked') /\ Msgs(unacked') = {}
    BY <2>1, MsgsEmpty DEF Distinct
  <2>. QED
    BY <2>1, <2>3, <2>4 DEF DistinctInv
<1>4. CASE Arrive
  <2>. DEFINE m == Head(wire)
              d == [msg |-> m, redelivered |-> FALSE]
  <2>1. wire # <<>> /\ queue' = Append(queue, d) /\ UNCHANGED <<unacked, buffer>>
    BY <1>4 DEF Arrive, consumerVars
  <2>2. m \in Frames(wire) /\ m \in Messages
    BY <2>1, <1>1, FramesHead
  <2>3. d \in Delivery /\ d.msg = m
    BY <2>2 DEF Delivery
  <2>. HIDE DEF m, d
  <2>4. m \notin Held
    BY <2>2 DEF WireInv, Messages
  <2>5. Distinct(queue') /\ Msgs(queue') = Msgs(queue) \cup {m}
    BY <2>1, <2>3, <2>4, <1>1, DistinctAppend, MsgsAppend DEF DistinctInv, Held
  <2>. QED
    BY <2>1, <2>4, <2>5 DEF DistinctInv, Held
<1>5. CASE Deliver
  <2>. DEFINE d == Head(queue)
  <2>1. /\ live /\ queue # <<>> /\ unacked' = Append(unacked, d)
        /\ buffer' = Append(buffer, d) /\ queue' = Tail(queue)
    BY <1>5 DEF Deliver
  <2>2. /\ d \in Delivery /\ Msgs(queue) = {d.msg} \cup Msgs(queue')
        /\ Distinct(queue') /\ d.msg \notin Msgs(queue')
    BY <2>1, <1>1, MsgsHead, DistinctHead DEF DistinctInv
  <2>. HIDE DEF d
  <2>3. d.msg \notin Msgs(unacked) /\ d.msg \notin Msgs(buffer)
    BY <2>1, <2>2, BufferUnacked DEF DistinctInv
  <2>4. /\ Distinct(unacked') /\ Distinct(buffer') /\ Msgs(unacked') = Msgs(unacked) \cup {d.msg}
    BY <2>1, <2>2, <2>3, <1>1, DistinctAppend, MsgsAppend DEF DistinctInv
  <2>. QED
    BY <2>2, <2>4 DEF DistinctInv
<1>6. CASE Settle
  <2>. DEFINE h == Head(unacked)
              d == Redelivered(h)
  <2>1. /\ answers # <<>> /\ unacked' = Tail(unacked) /\ buffer' = buffer
        /\ queue' = <<d>> \o queue \/ queue' = queue
    BY <1>6 DEF Settle, consumerVars
  <2>2. unacked # <<>>
    BY <2>1 DEF TypeOK
  <2>3. /\ h \in Delivery /\ Msgs(unacked) = {h.msg} \cup Msgs(unacked')
        /\ Distinct(unacked') /\ h.msg \notin Msgs(unacked')
    BY <2>1, <2>2, <1>1, MsgsHead, DistinctHead DEF DistinctInv
  <2>4. d \in Delivery /\ d.msg = h.msg
    BY <2>3 DEF Redelivered, Delivery
  <2>. HIDE DEF h, d
  <2>5. Distinct(queue') /\ Msgs(queue') \subseteq {h.msg} \cup Msgs(queue)
    <3>1. CASE queue' = <<d>> \o queue
      <4>1. <<d>> \in Seq(Delivery) /\ Msgs(<<d>>) = {h.msg} /\ Distinct(<<d>>)
        BY <2>4 DEF Msgs, Distinct
      <4>2. {h.msg} \cap Msgs(queue) = {}
        BY <2>3 DEF DistinctInv
      <4>. QED
        BY <3>1, <4>1, <4>2, <1>1, DistinctConcat, MsgsConcat DEF DistinctInv
    <3>2. CASE queue' = queue
      BY <3>2 DEF DistinctInv
    <3>. QED
      BY <2>1, <3>1, <3>2
  <2>. QED
    BY <2>1, <2>3, <2>5 DEF DistinctInv
<1>7. CASE \E a \in Answers : stage # "waiting" /\ Answer(a)
  <2>1. buffer # <<>> /\ buffer' = Tail(buffer) /\ UNCHANGED <<queue, unacked>>
    BY <1>7 DEF Answer, TypeOK
  <2>2. Distinct(buffer')
    BY <2>1, <1>1, DistinctHead DEF DistinctInv
  <2>. QED
    BY <2>1, <2>2 DEF DistinctInv
<1>8. CASE Notice
  BY <1>8 DEF Notice, brokerVars, DistinctInv, Distinct
<1>9. ASSUME Ack \/ Requeue \/ Drop
      PROVE  \E a \in Answers : stage # "waiting" /\ Answer(a)
  BY <1>9 DEF Ack, Requeue, Drop, Answers
<1>10. ASSUME \/ Publish \/ PublishFails \/ \E ok \in BOOLEAN : PersistDirectly(ok)
              \/ Reconnect \/ Closes \/ Subscribe \/ Take
              \/ \E ok \in BOOLEAN : Handle(ok)
              \/ Over \/ UNCHANGED vars
       PROVE  UNCHANGED <<queue, unacked, buffer>>
  BY <1>10 DEF Publish, PublishFails, PersistDirectly, Reconnect, Closes, Subscribe, Take,
               Handle, Over, vars, brokerVars, consumerVars
<1>. QED
  BY <1>2, <1>3, <1>4, <1>5, <1>6, <1>7, <1>8, <1>9, <1>10 DEF Next, Consumer
-----------------------------------------------------------------------------
(* Copies: what may still become a row *)

\* The client will still try to write it.
ToWrite(m) == \E i \in 1 .. Len(buffer) :
  buffer[i].msg = m /\ (i = 1 => stage \in {"waiting", "handling"})

\* Its delivery was rejected, or is about to be.
Rejected(m) == \/ \E i \in 1 .. Len(answers) : answers[i] = "requeue" /\ unacked[i].msg = m
               \/ live /\ stage = "nacking" /\ buffer[1].msg = m

\* It is on its way to the client or to a direct write.
Returning(m) == \/ persisting /\ m = sent
                \/ m \in Frames(wire) \cup Msgs(queue)
                \/ Rejected(m)

One(b) == IF b THEN 1 ELSE 0

\* The copies that breaks and doubtful writes can account for.
Allowed(m) == 1 + breaks + doubtful[m]

CopyInv == \A m \in Messages :
  Cardinality(Copies(m)) + One(ToWrite(m)) + One(Returning(m)) <= Allowed(m)

LEMMA AllowedCopies ==
  ASSUME TypeOK, NEW m \in Messages
  PROVE  /\ Allowed(m) \in Nat /\ breaks \in Nat /\ doubtful[m] \in Nat
         /\ breaks' = breaks /\ doubtful' = doubtful => Allowed(m)' = Allowed(m)
<1>1. breaks \in Nat /\ doubtful[m] \in Nat
  BY PersistenceAssumption DEF TypeOK, PersistenceAssumption
<1>. QED
  BY <1>1 DEF Allowed

LEMMA CopiesFinite ==
  ASSUME rows \in Seq(Messages), NEW m
  PROVE  IsFiniteSet(Copies(m)) /\ Cardinality(Copies(m)) \in Nat
<1>1. IsFiniteSet(1 .. Len(rows))
  BY FS_Interval
<1>2. Copies(m) \subseteq 1 .. Len(rows)
  BY DEF Copies
<1>. QED
  BY <1>1, <1>2, FS_Subset, FS_CardinalityType

\* A row is a copy of its message and of no other.
LEMMA CopiesGrow ==
  ASSUME rows \in Seq(Messages), NEW k \in Messages, rows' = Append(rows, k), NEW m \in Messages
  PROVE  Cardinality(Copies(m))' = Cardinality(Copies(m)) + One(m = k)
<1>. DEFINE n == Len(rows) + 1
<1>1. /\ Len(rows) \in Nat /\ Len(rows') = n /\ (rows')[n] = k
      /\ \A i \in 1 .. Len(rows) : (rows')[i] = rows[i]
  OBVIOUS
<1>2. CASE m = k
  <2>1. Copies(m)' = Copies(m) \cup {n} /\ n \notin Copies(m)
    BY <1>1, <1>2 DEF Copies
  <2>. QED
    BY <2>1, <1>2, CopiesFinite, FS_AddElement DEF One
<1>3. CASE m # k
  <2>1. Copies(m)' = Copies(m)
    BY <1>1, <1>3 DEF Copies
  <2>. QED
    BY <2>1, <1>3, CopiesFinite DEF One
<1>. QED
  BY <1>2, <1>3

LEMMA CopiesSame ==
  ASSUME rows \in Seq(Messages), rows' = rows, NEW m \in Messages
  PROVE  Cardinality(Copies(m))' = Cardinality(Copies(m))
  BY DEF Copies

\* A message of which there was nothing to come has not more to come.
NoMore(m) == (ToWrite(m)' => ToWrite(m)) /\ (Returning(m)' => Returning(m))

LEMMA NoMoreCopies ==
  ASSUME IInv, CopyInv, NEW m \in Messages, rows' = rows, breaks' = breaks, doubtful' = doubtful,
         NoMore(m)
  PROVE  Cardinality(Copies(m))' + One(ToWrite(m)') + One(Returning(m)') <= Allowed(m)'
<1>1. Cardinality(Copies(m))' = Cardinality(Copies(m)) /\ Cardinality(Copies(m)) \in Nat
  BY CopiesSame, CopiesFinite DEF IInv, TypeOK
<1>2. Cardinality(Copies(m)) + One(ToWrite(m)) + One(Returning(m)) <= Allowed(m)
  BY DEF CopyInv
<1>3. Allowed(m) \in Nat /\ Allowed(m)' = Allowed(m)
  BY AllowedCopies DEF IInv
<1>4. /\ One(ToWrite(m)') \in 0 .. 1 /\ One(ToWrite(m)) \in 0 .. 1
      /\ One(Returning(m)') \in 0 .. 1 /\ One(Returning(m)) \in 0 .. 1
      /\ One(ToWrite(m)') <= One(ToWrite(m)) /\ One(Returning(m)') <= One(Returning(m))
  BY DEF NoMore, One
<1>. QED
  BY <1>1, <1>2, <1>3, <1>4

\* A write is a row more of its message, one that failed either no row or one
\* that it accounts for.
LEMMA WriteCopies ==
  ASSUME TypeOK, NEW k \in Messages, NEW ok \in BOOLEAN, Write(k, ok), breaks' = breaks,
         NEW m \in Messages
  PROVE  /\ Cardinality(Copies(m)) \in Nat /\ Allowed(m) \in Nat
         /\ ok => /\ Cardinality(Copies(m))' = Cardinality(Copies(m)) + One(m = k)
                  /\ Allowed(m)' = Allowed(m)
         /\ ~ok => \E d \in {0, 1} : /\ Cardinality(Copies(m))' = Cardinality(Copies(m)) + d
                                    /\ Allowed(m)' = Allowed(m) + d
<1>1. rows \in Seq(Messages) /\ doubtful \in [Messages -> Nat] /\ breaks \in Nat
  BY AllowedCopies DEF TypeOK
<1>2. /\ Cardinality(Copies(m)) \in Nat /\ Allowed(m) \in Nat
      /\ doubtful' = doubtful => Allowed(m)' = Allowed(m)
  BY <1>1, CopiesFinite, AllowedCopies
<1>3. CASE ok
  BY <1>1, <1>2, <1>3, CopiesGrow DEF Write
<1>4. CASE ~ok /\ rows' = Append(rows, k) /\ doubtful' = [doubtful EXCEPT ![k] = @ + 1]
  <2>1. Cardinality(Copies(m))' = Cardinality(Copies(m)) + One(m = k)
    BY <1>1, <1>4, CopiesGrow
  <2>2. (doubtful')[m] = doubtful[m] + One(m = k) /\ One(m = k) \in {0, 1}
    BY <1>1, <1>4 DEF One
  <2>3. /\ Allowed(m) = 1 + breaks + doubtful[m]
        /\ Allowed(m)' = 1 + breaks + (doubtful[m] + One(m = k))
    BY <2>2 DEF Allowed
  <2>4. Allowed(m)' = Allowed(m) + One(m = k)
    BY <1>1, <2>2, <2>3
  <2>. QED
    BY <2>1, <2>2, <2>4, <1>2, <1>4
<1>5. CASE ~ok /\ rows' = rows /\ doubtful' = doubtful
  <2>1. Cardinality(Copies(m))' = Cardinality(Copies(m)) + 0 /\ Allowed(m)' = Allowed(m) + 0
    BY <1>1, <1>2, <1>5, CopiesSame
  <2>. QED
    BY <2>1, <1>2, <1>5
<1>. QED
  BY <1>3, <1>4, <1>5 DEF Write

\* What each kind of step does to what may still come of a message.
LEMMA PublishCopy ==
  ASSUME IInv, CopyInv, Publish \/ PublishFails
  PROVE  CopyInv'
<1>. USE DEF IInv
<1>1. /\ ~persisting /\ sent' = sent + 1
      /\ UNCHANGED <<queue, unacked, answers, subscription, buffer, stage, rows, breaks, doubtful>>
      /\ wire' = Append(wire, sent + 1) \/ wire' = wire
      /\ sent < MaxMessages
  BY DEF Publish, PublishFails, brokerVars, consumerVars, history
<1>2. sent \in Nat /\ sent + 1 \in Messages
  BY <1>1, PersistenceAssumption DEF TypeOK, Messages, PersistenceAssumption
<1>3. Frames(wire') \subseteq Frames(wire) \cup {sent + 1}
  BY <1>1, <1>2, FramesAppend DEF TypeOK
<1>. SUFFICES ASSUME NEW m \in Messages
              PROVE  Cardinality(Copies(m))' + One(ToWrite(m)') + One(Returning(m)') <= Allowed(m)'
  BY DEF CopyInv
<1>4. ToWrite(m)' <=> ToWrite(m)
  BY <1>1 DEF ToWrite
<1>5. CASE m = sent + 1
  <2>1. m \notin Held \cup Frames(rows)
    BY <1>2, <1>5 DEF SentInv
  <2>2. ~ToWrite(m)
    BY <2>1 DEF ToWrite, ClientInv, Msgs
  <2>3. Copies(m) = {}
    BY <2>1 DEF Copies, Frames
  <2>4. Copies(m)' = {}
    BY <2>3, <1>1 DEF Copies
  <2>5. Cardinality(Copies(m))' = 0
    BY <2>4, FS_EmptySet
  <2>6. Allowed(m)' \in Nat /\ Allowed(m)' >= 1
    BY <1>1, AllowedCopies DEF Allowed
  <2>. QED
    BY <1>4, <2>2, <2>5, <2>6 DEF One
<1>6. CASE m # sent + 1
  <2>1. Rejected(m)' <=> Rejected(m)
    BY <1>1 DEF Rejected, live
  <2>2. Returning(m)' => Returning(m)
    BY <2>1, <1>1, <1>3, <1>6 DEF Returning
  <2>. QED
    BY <2>2, <1>1, <1>4, NoMoreCopies DEF NoMore
<1>. QED
  BY <1>5, <1>6

LEMMA PersistDirectlyCopy ==
  ASSUME IInv, CopyInv, NEW ok \in BOOLEAN, PersistDirectly(ok)
  PROVE  CopyInv'
<1>. USE DEF IInv
<1>1. /\ persisting /\ ~persisting'
      /\ Write(sent, ok)
      /\ UNCHANGED <<sent, wire, queue, unacked, answers, subscription, buffer, stage, breaks>>
  BY DEF PersistDirectly, brokerVars, consumerVars
<1>2. sent \in Messages
  BY <1>1 DEF TypeOK, SentInv, Messages
<1>. SUFFICES ASSUME NEW m \in Messages
              PROVE  Cardinality(Copies(m))' + One(ToWrite(m)') + One(Returning(m)') <= Allowed(m)'
  BY DEF CopyInv
<1>3. ToWrite(m)' <=> ToWrite(m)
  BY <1>1 DEF ToWrite
<1>4. (Rejected(m)' <=> Rejected(m)) /\ (Returning(m)' => Returning(m))
  BY <1>1 DEF Rejected, Returning, live
<1>5. Cardinality(Copies(m)) + One(ToWrite(m)) + One(Returning(m)) <= Allowed(m)
  BY DEF CopyInv
<1>6. CASE ~ok \/ m # sent
  BY <1>1, <1>2, <1>3, <1>4, <1>5, <1>6, WriteCopies DEF One
<1>7. CASE ok /\ m = sent
  <2>1. m \notin Held \cup Frames(wire)
    BY <1>1, <1>7 DEF SentInv
  <2>2. ~Rejected(m)
    <3>1. ASSUME live
          PROVE  ~Rejected(m)
      <4>1. /\ \A i \in 1 .. Len(answers) : unacked[i].msg \in Msgs(unacked)
        BY <3>1, BufferUnacked DEF Msgs
      <4>2. stage = "nacking" => buffer[1].msg \in Msgs(buffer)
        BY InHandFirst DEF Msgs
      <4>. QED
        BY <4>1, <4>2, <2>1 DEF Rejected, Held, ClientInv
    <3>2. CASE ~live
      BY <3>2 DEF Rejected, TypeOK
    <3>. QED
      BY <3>1, <3>2
  <2>3. Returning(m) /\ ~Returning(m)'
    BY <2>1, <2>2, <1>1, <1>4, <1>7 DEF Returning, Held
  <2>4. /\ Cardinality(Copies(m)) \in Nat /\ Allowed(m) \in Nat
        /\ Cardinality(Copies(m))' = Cardinality(Copies(m)) + 1 /\ Allowed(m)' = Allowed(m)
    <3>1. m = sent
      BY <1>7
    <3>. QED
      BY <3>1, <1>1, <1>2, <1>7, WriteCopies DEF One
  <2>. QED
    BY <2>3, <2>4, <1>3, <1>5 DEF One
<1>. QED
  BY <1>6, <1>7

\* A break may bring one copy of each message back, whatever else is left of it.
LEMMA BreakCopy ==
  ASSUME IInv, CopyInv, Break
  PROVE  CopyInv'
<1>. SUFFICES ASSUME NEW m \in Messages
              PROVE  Cardinality(Copies(m))' + One(ToWrite(m)') + One(Returning(m)') <= Allowed(m)'
  BY DEF CopyInv
<1>1. /\ breaks' = breaks + 1 /\ doubtful' = doubtful
      /\ rows' = rows /\ buffer' = buffer /\ stage' = stage
  BY DEF Break
<1>2. ToWrite(m)' <=> ToWrite(m)
  BY <1>1 DEF ToWrite
<1>3. Cardinality(Copies(m))' = Cardinality(Copies(m)) /\ Cardinality(Copies(m)) \in Nat
  BY <1>1, CopiesSame, CopiesFinite DEF IInv, TypeOK
<1>4. Cardinality(Copies(m)) + One(ToWrite(m)) + One(Returning(m)) <= Allowed(m)
  BY DEF CopyInv
<1>5. Allowed(m) \in Nat /\ Allowed(m)' = Allowed(m) + 1
  BY <1>1, AllowedCopies DEF IInv, Allowed
<1>. QED
  BY <1>2, <1>3, <1>4, <1>5 DEF One

LEMMA DeliverCopy ==
  ASSUME IInv, DistinctInv, CopyInv, Deliver
  PROVE  CopyInv'
<1>. USE DEF IInv
<1>. DEFINE d == Head(queue)
<1>1. /\ live /\ queue # <<>>
      /\ unacked' = Append(unacked, d) /\ buffer' = Append(buffer, d) /\ queue' = Tail(queue)
      /\ UNCHANGED <<publisherVars, wire, answers, subscription, stage, rows, breaks, doubtful>>
  BY DEF Deliver, history
<1>2. /\ d \in Delivery /\ Msgs(queue) = {d.msg} \cup Msgs(queue') /\ d.msg \notin Msgs(queue')
  BY <1>1, MsgsHead, DistinctHead DEF TypeOK, DistinctInv
<1>. HIDE DEF d
<1>3. /\ Len(buffer) \in Nat /\ Len(buffer') = Len(buffer) + 1 /\ (buffer')[Len(buffer) + 1] = d
      /\ \A i \in 1 .. Len(buffer) : (buffer')[i] = buffer[i]
      /\ \A i \in 1 .. Len(unacked) : (unacked')[i] = unacked[i]
      /\ stage # "waiting" => buffer # <<>> /\ Len(buffer) > 0
  BY <1>1 DEF TypeOK
<1>4. \A i \in 1 .. Len(answers) : i \in 1 .. Len(unacked) /\ (unacked')[i] = unacked[i]
  BY <1>1, <1>3, BufferUnacked
<1>5. stage # "waiting" => (buffer')[1] = buffer[1] /\ buffer[1].msg \in Msgs(unacked)
  <2>1. stage # "waiting" => 1 \in 1 .. Len(buffer)
    BY <1>3
  <2>. QED
    BY <2>1, <1>1, <1>3, BufferUnacked DEF Msgs
<1>. SUFFICES ASSUME NEW m \in Messages
              PROVE  Cardinality(Copies(m))' + One(ToWrite(m)') + One(Returning(m)') <= Allowed(m)'
  BY DEF CopyInv
<1>6. Allowed(m) \in Nat /\ Allowed(m)' = Allowed(m)
  BY <1>1, AllowedCopies
<1>7. Rejected(m)' <=> Rejected(m)
  BY <1>1, <1>4, <1>5 DEF Rejected, live
<1>8. CASE m # d.msg
  <2>1. Returning(m)' => Returning(m)
    BY <1>1, <1>2, <1>7 DEF Returning, publisherVars
  <2>2. ToWrite(m)' => ToWrite(m)
    <3>. SUFFICES ASSUME NEW i \in 1 .. Len(buffer'), (buffer')[i].msg = m,
                         i = 1 => stage \in {"waiting", "handling"}
                  PROVE  ToWrite(m)
      BY <1>1 DEF ToWrite
    <3>1. i \in 1 .. Len(buffer)
      BY <1>3, <1>8
    <3>. QED
      BY <3>1, <1>3 DEF ToWrite
  <2>. QED
    BY <2>1, <2>2, <1>1, NoMoreCopies DEF NoMore
<1>9. CASE m = d.msg
  <2>1. m \in Held
    BY <1>2, <1>9 DEF Held
  <2>2. m \notin Frames(wire) /\ ~(persisting /\ m = sent)
    BY <2>1 DEF WireInv, SentInv, Messages
  <2>3. ~Rejected(m)
    <3>1. m \notin Msgs(unacked)
      BY <1>2, <1>9 DEF DistinctInv
    <3>2. \A i \in 1 .. Len(answers) : unacked[i].msg \in Msgs(unacked)
      BY <1>4 DEF Msgs
    <3>. QED
      BY <3>1, <3>2, <1>5 DEF Rejected
  <2>4. Returning(m) /\ ~Returning(m)'
    BY <2>2, <2>3, <1>1, <1>2, <1>7, <1>9 DEF Returning, publisherVars
  <2>5. Cardinality(Copies(m))' = Cardinality(Copies(m)) /\ Cardinality(Copies(m)) \in Nat
    BY <1>1, CopiesSame, CopiesFinite DEF TypeOK
  <2>6. Cardinality(Copies(m)) + One(ToWrite(m)) + One(Returning(m)) <= Allowed(m)
    BY DEF CopyInv
  <2>. QED
    BY <2>4, <2>5, <2>6, <1>6 DEF One
<1>. QED
  BY <1>8, <1>9

\* The frame becomes a delivery; a settled one is gone, or in the queue again.
LEMMA BrokerCopy ==
  ASSUME IInv, CopyInv, Arrive \/ Settle
  PROVE  CopyInv'
<1>. USE DEF IInv
<1>. SUFFICES ASSUME NEW m \in Messages
              PROVE  Cardinality(Copies(m))' + One(ToWrite(m)') + One(Returning(m)') <= Allowed(m)'
  BY DEF CopyInv
<1>1. UNCHANGED <<sent, persisting, subscription, buffer, stage, rows, breaks, doubtful>>
  BY DEF Arrive, Settle, publisherVars, consumerVars, history
<1>2. ToWrite(m)' <=> ToWrite(m)
  BY <1>1 DEF ToWrite
<1>3. CASE Arrive
  <2>. DEFINE d == [msg |-> Head(wire), redelivered |-> FALSE]
  <2>1. /\ wire # <<>> /\ queue' = Append(queue, d) /\ wire' = Tail(wire)
        /\ UNCHANGED <<unacked, answers>>
    BY <1>3 DEF Arrive
  <2>2. Frames(wire) = {Head(wire)} \cup Frames(wire') /\ d \in Delivery /\ d.msg = Head(wire)
    BY <2>1, FramesHead DEF TypeOK, Delivery
  <2>3. Msgs(queue') = Msgs(queue) \cup {Head(wire)}
    BY <2>1, <2>2, MsgsAppend DEF TypeOK
  <2>4. Rejected(m)' <=> Rejected(m)
    BY <1>1, <2>1 DEF Rejected, live
  <2>. QED
    BY <1>1, <1>2, <2>2, <2>3, <2>4, NoMoreCopies DEF NoMore, Returning
<1>4. CASE Settle
  <2>. DEFINE h == Head(unacked)
              d == Redelivered(h)
              a == Head(answers)
  <2>1. /\ answers # <<>> /\ answers' = Tail(answers) /\ unacked' = Tail(unacked)
        /\ queue' = IF a = "requeue" THEN <<d>> \o queue ELSE queue
        /\ wire' = wire
    BY <1>4 DEF Settle
  <2>2. /\ live /\ Len(answers) \in Nat /\ Len(answers) > 0
        /\ Len(unacked) = Len(answers) + Len(buffer) /\ Len(buffer) \in Nat
    BY <2>1 DEF TypeOK
  <2>3. /\ unacked # <<>> /\ h = unacked[1] /\ h \in Delivery /\ a = answers[1]
        /\ Len(answers') = Len(answers) - 1
        /\ \A i \in 1 .. Len(answers) - 1 : (answers')[i] = answers[i + 1] /\ (unacked')[i] = unacked[i + 1]
    BY <2>1, <2>2 DEF TypeOK
  <2>4. d \in Delivery /\ d.msg = h.msg
    BY <2>3 DEF Redelivered, Delivery
  <2>. HIDE DEF h, d, a
  <2>5. a = "requeue" => Msgs(queue') = {h.msg} \cup Msgs(queue)
    <3>1. <<d>> \in Seq(Delivery) /\ Msgs(<<d>>) = {h.msg}
      BY <2>4 DEF Msgs
    <3>. QED
      BY <3>1, <2>1, MsgsConcat DEF TypeOK
  <2>6. a = "requeue" => Rejected(h.msg)
    <3>1. 1 \in 1 .. Len(answers)
      BY <2>2
    <3>. QED
      BY <3>1, <2>3 DEF Rejected
  <2>7. Rejected(m)' => Rejected(m)
    <3>1. ASSUME NEW i \in 1 .. Len(answers'), (answers')[i] = "requeue", (unacked')[i].msg = m
          PROVE  Rejected(m)
      <4>1. i + 1 \in 1 .. Len(answers) /\ answers[i + 1] = "requeue" /\ unacked[i + 1].msg = m
        BY <3>1, <2>2, <2>3
      <4>. QED
        BY <4>1 DEF Rejected
    <3>2. live' <=> live
      BY <1>1 DEF live
    <3>. QED
      BY <3>1, <3>2, <1>1 DEF Rejected
  <2>8. m \in Msgs(queue') => m \in Msgs(queue) \/ Rejected(m)
    BY <2>1, <2>5, <2>6
  <2>9. Returning(m)' => Returning(m)
    BY <2>1, <2>7, <2>8, <1>1 DEF Returning
  <2>. QED
    BY <2>9, <1>1, <1>2, NoMoreCopies DEF NoMore
<1>. QED
  BY <1>3, <1>4

\* Of what is handled nothing is left to write: it is a row now, or may return.
LEMMA HandleCopy ==
  ASSUME IInv, DistinctInv, CopyInv, NEW ok \in BOOLEAN, Handle(ok)
  PROVE  CopyInv'
<1>. USE DEF IInv
<1>. DEFINE k == inHand.msg
<1>1. /\ stage = "handling"
      /\ Write(k, ok)
      /\ stage' = IF ok THEN "acking" ELSE "nacking"
      /\ UNCHANGED <<publisherVars, brokerVars, subscription, buffer, breaks>>
  BY DEF Handle
<1>2. /\ k = buffer[1].msg /\ k \in Messages /\ Len(buffer) \in Nat /\ Len(buffer) > 0
  BY <1>1, InHandFirst
<1>3. 1 \in 1 .. Len(buffer)
  BY <1>2
<1>. HIDE DEF k
<1>. SUFFICES ASSUME NEW m \in Messages
              PROVE  Cardinality(Copies(m))' + One(ToWrite(m)') + One(Returning(m)') <= Allowed(m)'
  BY DEF CopyInv
<1>4. Cardinality(Copies(m)) + One(ToWrite(m)) + One(Returning(m)) <= Allowed(m)
  BY DEF CopyInv
<1>5. ok \/ m # k => (Returning(m)' => Returning(m))
  <2>1. ok \/ m # k => (Rejected(m)' => Rejected(m))
    BY <1>1, <1>2 DEF Rejected, live, brokerVars
  <2>. QED
    BY <2>1, <1>1 DEF Returning, publisherVars, brokerVars
<1>6. /\ Cardinality(Copies(m)) \in Nat /\ Allowed(m) \in Nat
      /\ ok => /\ Cardinality(Copies(m))' = Cardinality(Copies(m)) + One(m = k)
               /\ Allowed(m)' = Allowed(m)
      /\ ~ok => \E d \in {0, 1} : /\ Cardinality(Copies(m))' = Cardinality(Copies(m)) + d
                                 /\ Allowed(m)' = Allowed(m) + d
  BY <1>1, <1>2, WriteCopies
<1>7. CASE m = k
  <2>1. ToWrite(m)
    BY <1>1, <1>2, <1>3, <1>7 DEF ToWrite
  <2>2. ~ToWrite(m)'
    <3>. SUFFICES ASSUME NEW i \in 1 .. Len(buffer), buffer[i].msg = m, i # 1
                  PROVE  FALSE
      BY <1>1 DEF ToWrite
    <3>. QED
      BY <1>2, <1>3, <1>7 DEF DistinctInv, Distinct
  <2>. QED
    BY <2>1, <2>2, <1>4, <1>5, <1>6, <1>7 DEF One
<1>8. CASE m # k
  <2>1. ToWrite(m)' => ToWrite(m)
    BY <1>1, <1>2, <1>8 DEF ToWrite
  <2>. QED
    BY <2>1, <1>4, <1>5, <1>6, <1>8 DEF One
<1>. QED
  BY <1>7, <1>8

\* An answer says of the delivery in hand what its handling has done.
LEMMA AnswerCopy ==
  ASSUME IInv, CopyInv, NEW a \in Answers, stage \in {"acking", "nacking"}, Answer(a),
         a = "requeue" => stage = "nacking"
  PROVE  CopyInv'
<1>. USE DEF IInv
<1>1. /\ answers' = IF live THEN Append(answers, a) ELSE answers
      /\ buffer' = Tail(buffer) /\ stage' = "waiting"
      /\ UNCHANGED <<publisherVars, wire, queue, unacked, subscription, rows, breaks, doubtful>>
  BY DEF Answer, history
<1>2. Len(buffer) \in Nat /\ Len(buffer) > 0 /\ 1 \in 1 .. Len(buffer)
  BY InHandFirst
<1>3. /\ Len(buffer') = Len(buffer) - 1 /\ \A i \in 1 .. Len(buffer) - 1 : (buffer')[i] = buffer[i + 1]
  BY <1>1, <1>2 DEF TypeOK
<1>. SUFFICES ASSUME NEW m \in Messages
              PROVE  Cardinality(Copies(m))' + One(ToWrite(m)') + One(Returning(m)') <= Allowed(m)'
  BY DEF CopyInv
<1>4. ToWrite(m)' => ToWrite(m)
  <2>. SUFFICES ASSUME NEW i \in 1 .. Len(buffer'), (buffer')[i].msg = m
                PROVE  ToWrite(m)
    BY DEF ToWrite
  <2>1. i + 1 \in 1 .. Len(buffer) /\ i + 1 # 1 /\ buffer[i + 1].msg = m
    BY <1>2, <1>3
  <2>. QED
    BY <2>1 DEF ToWrite
<1>5. Rejected(m)' => Rejected(m)
  <2>1. CASE live
    <3>1. /\ Len(answers) \in Nat /\ Len(answers') = Len(answers) + 1
          /\ (answers')[Len(answers) + 1] = a
          /\ \A i \in 1 .. Len(answers) : (answers')[i] = answers[i]
          /\ buffer[1] = unacked[Len(answers) + 1]
      BY <2>1, <1>1, <1>2 DEF TypeOK
    <3>2. ASSUME NEW i \in 1 .. Len(answers'), (answers')[i] = "requeue", unacked[i].msg = m
          PROVE  Rejected(m)
      <4>1. CASE i \in 1 .. Len(answers)
        BY <4>1, <3>1, <3>2 DEF Rejected
      <4>2. CASE i = Len(answers) + 1
        BY <4>2, <3>1, <3>2, <2>1 DEF Rejected
      <4>. QED
        BY <4>1, <4>2, <3>1
    <3>. QED
      BY <3>2, <1>1 DEF Rejected
  <2>2. CASE ~live
    BY <2>2, <1>1 DEF Rejected
  <2>. QED
    BY <2>1, <2>2
<1>6. Returning(m)' => Returning(m)
  BY <1>1, <1>5 DEF Returning, publisherVars
<1>. QED
  BY <1>1, <1>4, <1>6, NoMoreCopies DEF NoMore

LEMMA OtherCopy ==
  ASSUME IInv, CopyInv, Reconnect \/ Closes \/ Subscribe \/ Take \/ Notice \/ UNCHANGED vars
  PROVE  CopyInv'
<1>. SUFFICES ASSUME NEW m \in Messages
              PROVE  Cardinality(Copies(m))' + One(ToWrite(m)') + One(Returning(m)') <= Allowed(m)'
  BY DEF CopyInv
<1>1. /\ UNCHANGED <<sent, persisting, wire, queue, unacked, answers, rows, breaks, doubtful>>
      /\ \/ buffer' = buffer /\ stage' = stage
         \/ buffer' = buffer /\ stage = "waiting" /\ stage' = "handling"
         \/ buffer' = <<>> /\ stage = "waiting" /\ stage' = "waiting"
  BY DEF Reconnect, Closes, Subscribe, Take, Notice, vars, publisherVars, brokerVars, consumerVars,
         history
<1>2. ToWrite(m)' => ToWrite(m)
  <2>1. CASE buffer' = <<>>
    BY <2>1 DEF ToWrite
  <2>2. CASE buffer' = buffer
    BY <2>2, <1>1 DEF ToWrite
  <2>. QED
    BY <1>1, <2>1, <2>2
<1>3. stage' = "nacking" /\ live' => live /\ stage = "nacking" /\ buffer' = buffer
  <2>1. stage' = "nacking" => stage = "nacking" /\ buffer' = buffer /\ buffer # <<>>
    BY <1>1 DEF IInv, TypeOK
  <2>2. live' /\ ~live => buffer = <<>>
    BY DEF Reconnect, Closes, Subscribe, Take, Notice, vars, brokerVars, consumerVars, live, IInv, TypeOK
  <2>. QED
    BY <2>1, <2>2
<1>4. Rejected(m)' => Rejected(m)
  BY <1>1, <1>3 DEF Rejected
<1>5. Returning(m)' => Returning(m)
  BY <1>1, <1>4 DEF Returning
<1>. QED
  BY <1>1, <1>2, <1>5, NoMoreCopies DEF NoMore

LEMMA NextCopy == IInv /\ DistinctInv /\ CopyInv /\ [Next]_vars => CopyInv'
<1>. SUFFICES ASSUME IInv, DistinctInv, CopyInv, [Next]_vars
              PROVE  CopyInv'
  OBVIOUS
<1>1. CASE Ack
  BY <1>1, AnswerCopy DEF Ack, Answers
<1>2. CASE Requeue
  BY <1>2, AnswerCopy DEF Requeue, Answers
<1>3. CASE Drop
  BY <1>3, AnswerCopy DEF Drop, Answers
<1>4. CASE Over
  BY <1>4, OtherCopy DEF Over
<1>. QED
  BY <1>1, <1>2, <1>3, <1>4, PublishCopy, PersistDirectlyCopy, BreakCopy, DeliverCopy, BrokerCopy,
     HandleCopy, OtherCopy
     DEF Next, Consumer

LEMMA InitCopy == Init => DistinctInv /\ CopyInv
<1>. SUFFICES ASSUME Init
              PROVE  DistinctInv /\ CopyInv
  OBVIOUS
<1>1. DistinctInv
  BY MsgsEmpty DEF Init, DistinctInv, Distinct
<1>2. ASSUME NEW m \in Messages
      PROVE  Cardinality(Copies(m)) + One(ToWrite(m)) + One(Returning(m)) <= Allowed(m)
  <2>1. Copies(m) = {} /\ ~ToWrite(m)
    BY DEF Init, Copies, ToWrite
  <2>2. Cardinality(Copies(m)) = 0
    BY <2>1, FS_EmptySet
  <2>. QED
    BY <2>1, <2>2, PersistenceAssumption DEF Init, One, Allowed, PersistenceAssumption
<1>. QED
  BY <1>1, <1>2 DEF CopyInv

LEMMA CopyInvBounds ==
  ASSUME IInv, CopyInv
  PROVE  CopiedOnlyByFailures
<1>. SUFFICES ASSUME NEW m \in Messages
              PROVE  Cardinality(Copies(m)) <= Allowed(m)
  BY DEF CopiedOnlyByFailures, Allowed
<1>1. Cardinality(Copies(m)) \in Nat /\ Allowed(m) \in Nat
  BY CopiesFinite, AllowedCopies DEF IInv, TypeOK
<1>2. Cardinality(Copies(m)) + One(ToWrite(m)) + One(Returning(m)) <= Allowed(m)
  BY DEF CopyInv
<1>3. One(ToWrite(m)) \in 0 .. 1 /\ One(Returning(m)) \in 0 .. 1
  BY DEF One
<1>. QED
  BY <1>1, <1>2, <1>3
-----------------------------------------------------------------------------
(* The theorems *)

\* Everything the invariant says of the order of messages, from the wire to
\* the table and through every break, holds in every state of every behaviour.
THEOREM InductiveInvariant == Spec => []IInv
<1>1. Init => IInv
  BY InitIInv
<1>2. IInv /\ [Next]_vars => IInv'
  BY NextIInv
<1>. QED
  BY <1>1, <1>2, PTL DEF Spec

\* So does what the second invariant says of copies: of one message, the rows
\* and what may still become a row are at most one more than the breaks and
\* the rows that failed writes of it have left.
THEOREM CopyInvariant == Spec => [](DistinctInv /\ CopyInv)
<1>1. Init => DistinctInv /\ CopyInv
  BY InitCopy
<1>2. IInv /\ (DistinctInv /\ CopyInv) /\ [Next]_vars => (DistinctInv /\ CopyInv)'
  BY NextDistinct, NextCopy
<1>. QED
  BY <1>1, <1>2, InductiveInvariant, PTL DEF Spec

\* The state of publisher, broker and consumer is of its type, and on a live
\* subscription broker and client agree on the deliveries without an answer.
THEOREM TypeCorrect == Spec => []TypeOK
<1>1. IInv => TypeOK
  BY DEF IInv
<1>. QED
  BY <1>1, InductiveInvariant, PTL

\* Whatever breaks and whenever, also between an answer and its arrival: a
\* message handed to PublishOrPersist is on its way, in the table, or lost
\* unconfirmed on the wire, in a fallback write that failed or as poison; its
\* first copy is overtaken in the table only by one that took the fallback, or
\* after a write of it had failed; and it has no more copies than breaks and
\* failed writes can have left.
THEOREM NoOtherLoss == Spec => []MessagesAccounted
<1>1. IInv => EveryMessageAccounted /\ OvertakenOnlyAfterFailure
  <2>. SUFFICES ASSUME IInv
                PROVE  EveryMessageAccounted
    BY DEF IInv
  <2>1. ASSUME NEW m, m \in Frames(wire) \cup Held
        PROVE  InBroker(m)
    <3>1. CASE m \in Frames(wire)
      BY <3>1 DEF Frames, Contains, InBroker
    <3>2. CASE m \in Msgs(queue)
      BY <3>2 DEF Msgs, ToSet, InBroker
    <3>3. CASE m \in Msgs(unacked)
      BY <3>3 DEF Msgs, ToSet, InBroker
    <3>. QED
      BY <2>1, <3>1, <3>2, <3>3 DEF Held
  <2>2. \A m \in Frames(rows) : Contains(rows, m)
    BY DEF Frames, Contains
  <2>. QED
    BY <2>1, <2>2 DEF IInv, SomewhereInv, EveryMessageAccounted
<1>2. IInv /\ (DistinctInv /\ CopyInv) => MessagesAccounted
  BY <1>1, CopyInvBounds DEF MessagesAccounted
<1>. QED
  BY <1>2, InductiveInvariant, CopyInvariant, PTL
=============================================================================
